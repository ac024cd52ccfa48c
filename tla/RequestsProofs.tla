--------------------------- MODULE RequestsProofs ---------------------------
(***************************************************************************)
(* Proofs about Requests, for any number of commands, request ids and      *)
(* connections that the socket holds: the service takes the connections in *)
(* the order in which they were made, so that what send-status tells of a  *)
(* send is not told before a send that was asked for earlier is served.    *)
(***************************************************************************)
EXTENDS Requests, TLAPS

-----------------------------------------------------------------------------
(* The types.                                                              *)

\* A service is told to stop only as long as it may still go down; a backend
\* runs only for the connection that is served.
ServiceInv ==
  /\ service \in {"up", "stopping", "down"}
  /\ service = "down" => queue = <<>> /\ serving = None
  /\ service = "stopping" => downs < Tolerated
  /\ running # None => serving # None

TypesInv == TypeOK /\ asked \in Seq(Commands)

-----------------------------------------------------------------------------
(* The order of the connections.                                           *)

HasAsked(c) == \E n \in DOMAIN asked : asked[n] = c

Before(d, c) == \E m, n \in DOMAIN asked : m < n /\ asked[m] = d /\ asked[n] = c

\* A command connects once.
AskedOnce ==
  /\ \A m, n \in DOMAIN asked : asked[m] = asked[n] => m = n
  /\ \A c \in Commands : state[c] = "new" <=> ~HasAsked(c)

\* The connections wait in the order in which they were made, after the one
\* that is served.
InLine ==
  /\ \A n \in DOMAIN queue : HasAsked(queue[n])
  /\ serving # None => HasAsked(serving)
  /\ \A m, n \in DOMAIN queue : m < n => Before(queue[m], queue[n])
  /\ serving # None => \A n \in DOMAIN queue : Before(serving, queue[n])

\* A command that found the service gone came before all that it serves now.
AloneIsBefore ==
  \A c \in Commands : state[c] = "alone" =>
    /\ \A n \in DOMAIN queue : Before(c, queue[n])
    /\ serving # None => Before(c, serving)

OrderInv == AskedOnce /\ InLine /\ AloneIsBefore

-----------------------------------------------------------------------------
(* What a step does to the order.                                          *)

\* A command connects, or is turned away.
Joins(c) ==
  /\ c \in Commands /\ state[c] = "new"
  /\ asked' = Append(asked, c)
  /\ serving' = serving
  /\ \A d \in Commands \ {c} : state'[d] = state[d]
  /\ \/ queue' = Append(queue, c) /\ state'[c] = "waiting"
     \/ queue' = queue /\ state'[c] = "given_up"
     \/ queue' = queue /\ state'[c] = "alone" /\ queue = <<>> /\ serving = None

\* The next connection is served.
Takes == serving = None /\ Accept

\* Nobody joins and nobody is taken.
Stays ==
  /\ UNCHANGED <<asked, queue>>
  /\ serving' \in {serving, None}
  /\ \A d \in Commands : state'[d] = "new" <=> state[d] = "new"
  /\ \A d \in Commands : state'[d] = "alone" => state[d] = "alone"

\* The service is gone with its connections.
Empties ==
  /\ asked' = asked /\ queue' = <<>> /\ serving' = None
  /\ \A d \in Commands : state'[d] = "new" <=> state[d] = "new"

LEMMA OrderSteps ==
  ASSUME TypesInv, ServiceInv, [Next]_vars
  PROVE  (\E c \in Commands : Joins(c)) \/ Takes \/ Stays \/ Empties
<1>0. state \in [Commands -> {"new", "waiting", "alone", "given_up", "ended"}]
      /\ serving \in Commands \cup {None}
  BY DEF TypesInv, TypeOK
<1>1. ASSUME NEW c \in Commands, NEW r \in Requests, Connect(c, r) PROVE Joins(c)
  BY <1>0, <1>1 DEF Connect, Joins
<1>2. ASSUME NEW c \in Commands, NEW r \in Requests, Refused(c, r) PROVE Joins(c)
  BY <1>0, <1>2 DEF Refused, Joins, ServiceInv
<1>3. ASSUME NEW c \in Commands, GiveUp(c) \/ ReadAlone(c) PROVE Stays
  BY <1>0, <1>3 DEF GiveUp, ReadAlone, Conclude, Unanswered, Stays
<1>4. CASE Accept
  BY <1>4 DEF Accept, Takes
<1>5. ASSUME NEW what, Reply(what), UNCHANGED <<asked, queue>> PROVE Stays
  BY <1>0, <1>5 DEF Reply, Conclude, Stays
<1>6. CASE ReadTimesOut \/ ServeStatus \/ ServeCapture \/ RefuseSend
  BY <1>5, <1>6 DEF ReadTimesOut, ServeStatus, ServeCapture, RefuseSend
<1>7. CASE BeginSend \/ Settle \/ Stop \/ Restart
  BY <1>7 DEF BeginSend, Settle, Stop, Restart, Stays, commandVars
<1>8. CASE EndSend
  BY <1>5, <1>8 DEF EndSend
<1>9. CASE Exit \/ Crash
  BY <1>0, <1>9 DEF Exit, Crash, GoDown, Empties
<1>10. CASE Ended \/ UNCHANGED vars
  BY <1>10 DEF Ended, vars, commandVars, Stays
<1> QED
  BY <1>1, <1>2, <1>3, <1>4, <1>6, <1>7, <1>8, <1>9, <1>10 DEF Next, Loop, Command

(* What stands in the order keeps its place when a command joins, and the  *)
(* newcomer stands behind it.                                              *)
LEMMA JoinsLast ==
  ASSUME TypesInv, NEW c \in Commands, asked' = Append(asked, c)
  PROVE  /\ HasAsked(c)'
         /\ \A d : HasAsked(d)' <=> HasAsked(d) \/ d = c
         /\ \A d, e : Before(d, e) => Before(d, e)'
         /\ \A d : HasAsked(d) => Before(d, c)'
<1> USE DEF TypesInv, HasAsked, Before
<1>1. /\ Len(asked) \in Nat /\ DOMAIN asked = 1..Len(asked)
      /\ DOMAIN asked' = 1..Len(asked) + 1
      /\ asked'[Len(asked) + 1] = c
      /\ \A n \in DOMAIN asked : asked'[n] = asked[n]
  OBVIOUS
<1>2. \A d : HasAsked(d)' <=> HasAsked(d) \/ d = c
  BY <1>1
<1>3. ASSUME NEW d, NEW e, Before(d, e) PROVE Before(d, e)'
  BY <1>1, <1>3
<1>4. ASSUME NEW d, HasAsked(d) PROVE Before(d, c)'
  BY <1>1, <1>4
<1> HIDE DEF HasAsked, Before
<1> QED
  BY <1>2, <1>3, <1>4

LEMMA JoinsStep ==
  ASSUME TypesInv, OrderInv, NEW c \in Commands, Joins(c)
  PROVE  OrderInv'
<1> USE DEF OrderInv
<1>0. /\ Len(asked) \in Nat /\ DOMAIN asked = 1..Len(asked)
      /\ DOMAIN asked' = 1..Len(asked) + 1
      /\ asked'[Len(asked) + 1] = c
      /\ \A n \in DOMAIN asked : asked'[n] = asked[n]
  BY DEF TypesInv, Joins
<1>1. ~HasAsked(c)
  BY DEF AskedOnce, Joins
<1>2. AskedOnce'
  <2>1. \A m, n \in DOMAIN asked' : asked'[m] = asked'[n] => m = n
    BY <1>0, <1>1 DEF AskedOnce, HasAsked
  <2>2. \A d \in Commands : state'[d] = "new" <=> ~HasAsked(d)'
    BY JoinsLast DEF AskedOnce, Joins
  <2> QED
    BY <2>1, <2>2 DEF AskedOnce
<1>3. CASE queue' = queue
  <2>1. InLine'
    BY <1>3, JoinsLast DEF InLine, Joins
  <2>2. AloneIsBefore'
    BY <1>3, JoinsLast DEF AloneIsBefore, Joins
  <2> QED
    BY <1>2, <2>1, <2>2
<1>4. CASE queue' = Append(queue, c) /\ state'[c] = "waiting"
  <2>1. /\ Len(queue) \in Nat /\ DOMAIN queue = 1..Len(queue)
        /\ DOMAIN queue' = 1..Len(queue) + 1
        /\ queue'[Len(queue) + 1] = c
        /\ \A n \in DOMAIN queue : queue'[n] = queue[n]
    BY <1>4 DEF TypesInv, TypeOK
  <2>2. \A n \in DOMAIN queue' : n \in DOMAIN queue \/ n = Len(queue) + 1
    BY <2>1
  <2>3. \A n \in DOMAIN queue : HasAsked(queue[n]) /\ HasAsked(queue[n])' /\ Before(queue[n], c)'
    BY JoinsLast DEF InLine, Joins
  <2>4. \A n \in DOMAIN queue' : HasAsked(queue[n])'
    BY <2>1, <2>2, <2>3, JoinsLast DEF Joins
  <2>5. ASSUME NEW m \in DOMAIN queue', NEW n \in DOMAIN queue', m < n
        PROVE  Before(queue[m], queue[n])'
    <3>1. m \in DOMAIN queue
      BY <2>1, <2>5
    <3>2. CASE n \in DOMAIN queue
      BY <2>1, <2>5, <3>1, <3>2, JoinsLast DEF InLine, Joins
    <3>3. CASE n = Len(queue) + 1
      BY <2>1, <2>3, <3>1, <3>3
    <3> QED
      BY <2>2, <3>2, <3>3
  <2>6. ASSUME NEW d, HasAsked(d), \A n \in DOMAIN queue : Before(d, queue[n]),
               NEW n \in DOMAIN queue'
        PROVE  Before(d, queue[n])'
    BY <2>1, <2>2, <2>6, JoinsLast DEF Joins
  <2>7. InLine'
    BY <2>4, <2>5, <2>6, JoinsLast DEF InLine, Joins
  <2>8. AloneIsBefore'
    BY <1>4, <2>6, JoinsLast DEF AloneIsBefore, AskedOnce, Joins
  <2> QED
    BY <1>2, <2>7, <2>8
<1> QED
  BY <1>3, <1>4 DEF Joins

LEMMA TakesStep ==
  ASSUME TypesInv, OrderInv, Takes
  PROVE  OrderInv'
<1> USE DEF OrderInv
<1>1. /\ queue # <<>> /\ serving' = queue[1] /\ UNCHANGED <<asked, state>>
      /\ queue' = Tail(queue)
  BY DEF Takes, Accept, commandVars
<1>2. /\ Len(queue) \in Nat /\ DOMAIN queue = 1..Len(queue) /\ 1 \in DOMAIN queue
      /\ \A n \in DOMAIN queue' :
           n \in Nat /\ n + 1 \in DOMAIN queue /\ queue'[n] = queue[n + 1] /\ 1 < n + 1
  BY <1>1 DEF TypesInv, TypeOK
<1>3. \A d, e : (HasAsked(d)' <=> HasAsked(d)) /\ (Before(d, e)' <=> Before(d, e))
  BY <1>1 DEF HasAsked, Before
<1>4. AskedOnce'
  BY <1>1, <1>3 DEF AskedOnce
<1>5. InLine'
  <2>1. \A n \in DOMAIN queue' : HasAsked(queue[n])' /\ Before(serving, queue[n])'
    BY <1>1, <1>2, <1>3 DEF InLine
  <2>2. HasAsked(serving)'
    BY <1>1, <1>2, <1>3 DEF InLine
  <2>3. ASSUME NEW m \in DOMAIN queue', NEW n \in DOMAIN queue', m < n
        PROVE  Before(queue[m], queue[n])'
    <3>1. m + 1 < n + 1
      BY <1>2, <2>3
    <3> QED
      BY <1>2, <1>3, <3>1 DEF InLine
  <2> QED
    BY <2>1, <2>2, <2>3 DEF InLine
<1>6. AloneIsBefore'
  BY <1>1, <1>2, <1>3 DEF AloneIsBefore
<1> QED
  BY <1>4, <1>5, <1>6

LEMMA StaysStep ==
  ASSUME OrderInv, Stays \/ Empties
  PROVE  OrderInv'
<1>1. \A d, e : (HasAsked(d)' <=> HasAsked(d)) /\ (Before(d, e)' <=> Before(d, e))
  BY DEF Stays, Empties, HasAsked, Before
<1>2. AskedOnce'
  BY <1>1 DEF OrderInv, AskedOnce, Stays, Empties
<1>3. CASE Stays
  BY <1>1, <1>2, <1>3 DEF OrderInv, InLine, AloneIsBefore, Stays
<1>4. CASE Empties
  <2>1. DOMAIN queue' = {}
    BY <1>4 DEF Empties
  <2> QED
    BY <1>2, <1>4, <2>1 DEF OrderInv, InLine, AloneIsBefore, Empties
<1> QED
  BY <1>3, <1>4

-----------------------------------------------------------------------------
(* The invariant.                                                          *)

RequestsInv == TypesInv /\ ServiceInv /\ OrderInv

LEMMA RequestsInitInv == Init => RequestsInv
<1> SUFFICES ASSUME Init PROVE RequestsInv
  OBVIOUS
<1> USE RequestsAssumption DEF Init
<1>1. TypesInv
  BY DEF TypesInv, TypeOK, Nothing
<1>2. ServiceInv
  BY DEF ServiceInv
<1>3. OrderInv
  BY DEF OrderInv, AskedOnce, InLine, AloneIsBefore, HasAsked
<1> QED
  BY <1>1, <1>2, <1>3 DEF RequestsInv

\* What the service, or a command by itself, says.
Answers ==
  {"none", "invalid", "error", "completed", "failed", "unknown", "uncertain", "captured",
   "refused", "replayed"}

LEMMA ReplyTypes ==
  ASSUME TypesInv, NEW what \in Answers, Reply(what)
  PROVE  /\ state' \in [Commands -> {"new", "waiting", "alone", "given_up", "ended"}]
         /\ answer' \in [Commands -> Answers]
         /\ serving' = None
BY DEF TypesInv, TypeOK, Answers, Reply, Conclude

LEMMA TypesStep == TypesInv /\ ServiceInv /\ [Next]_vars => TypesInv'
<1> SUFFICES ASSUME TypesInv, ServiceInv, [Next]_vars PROVE TypesInv'
  OBVIOUS
<1> USE RequestsAssumption DEF TypesInv, TypeOK, commandVars, recordVars
<1>1. ASSUME NEW c \in Commands, NEW r \in Requests, Connect(c, r) PROVE TypesInv'
  BY <1>1 DEF Connect
<1>2. ASSUME NEW c \in Commands, NEW r \in Requests, Refused(c, r) PROVE TypesInv'
  BY <1>2 DEF Refused
<1>3. ASSUME NEW c \in Commands, GiveUp(c) PROVE TypesInv'
  BY <1>3 DEF GiveUp
<1>4. ASSUME NEW c \in Commands, ReadAlone(c) PROVE TypesInv'
  <2>1. (IF request[c].op = "status" THEN Recorded(request[c].id) ELSE "error") \in Answers
    BY DEF Recorded, Answers
  <2> QED
    BY <1>4, <2>1 DEF ReadAlone, Conclude, Answers
<1>5. CASE Accept
  BY <1>5 DEF Accept
<1>6. CASE ReadTimesOut \/ ServeStatus \/ ServeCapture \/ RefuseSend
  <2>1. PICK what \in Answers : Reply(what)
    BY <1>6 DEF ReadTimesOut, ServeStatus, ServeCapture, RefuseSend, Recorded, Answers
  <2>2. UNCHANGED <<request, asked, queue, service, running, recordVars, downs>>
    BY <1>6 DEF ReadTimesOut, ServeStatus, ServeCapture, RefuseSend
  <2> QED
    BY <2>1, <2>2, ReplyTypes DEF Answers
<1>7. CASE BeginSend
  <2>1. request[serving].id \in Ids
    BY <1>7 DEF BeginSend, Asks, Requests, Nothing
  <2> QED
    BY <1>7, <2>1 DEF BeginSend
<1>8. CASE EndSend
  <2>1. PICK what \in Answers : Reply(what)
    BY <1>8 DEF EndSend, Answers
  <2>2. running \in Ids /\ sent' \subseteq used' /\ used' \subseteq Ids
    BY <1>8 DEF EndSend
  <2>3. {running', pending', last'} \subseteq Ids \cup {None}
    BY <1>8, <2>2 DEF EndSend
  <2> QED
    BY <1>8, <2>1, <2>2, <2>3, ReplyTypes DEF EndSend, Answers
<1>9. CASE Settle \/ Stop \/ Restart
  BY <1>9 DEF Settle, Stop, Restart
<1>10. CASE Exit \/ Crash
  <2>1. downs' = downs + 1 /\ downs < Tolerated
    BY <1>10 DEF Exit, Crash, GoDown, Leaving, ServiceInv
  <2>2. GoDown /\ sent' \subseteq used' /\ used' \subseteq Ids /\ UNCHANGED <<pending, last>>
    BY <1>10 DEF Exit, Crash
  <2>3. /\ state' \in [Commands -> {"new", "waiting", "alone", "given_up", "ended"}]
        /\ queue' \in Seq(Commands) /\ Len(queue') <= Backlog
    BY <2>2 DEF GoDown
  <2> QED
    BY <2>1, <2>2, <2>3 DEF GoDown
<1>11. CASE Ended \/ UNCHANGED vars
  BY <1>11 DEF Ended, vars
<1> QED
  BY <1>1, <1>2, <1>3, <1>4, <1>5, <1>6, <1>7, <1>8, <1>9, <1>10, <1>11 DEF Next, Loop, Command

LEMMA ServiceStep == TypesInv /\ ServiceInv /\ [Next]_vars => ServiceInv'
<1> SUFFICES ASSUME TypesInv, ServiceInv, [Next]_vars PROVE ServiceInv'
  OBVIOUS
<1> USE DEF ServiceInv, commandVars, recordVars
<1>1. ASSUME NEW c \in Commands, NEW r \in Requests, Connect(c, r) \/ Refused(c, r)
      PROVE  ServiceInv'
  BY <1>1 DEF Connect, Refused
<1>2. ASSUME NEW c \in Commands, GiveUp(c) \/ ReadAlone(c) PROVE ServiceInv'
  BY <1>2 DEF GiveUp, ReadAlone, Conclude
<1>3. CASE Accept
  BY <1>3 DEF Accept
<1>4. CASE ReadTimesOut \/ ServeStatus \/ ServeCapture \/ RefuseSend
  BY <1>4 DEF ReadTimesOut, ServeStatus, ServeCapture, RefuseSend, Reply, Asks
<1>5. CASE BeginSend \/ EndSend
  BY <1>5 DEF BeginSend, EndSend, Asks, Reply
<1>6. CASE Settle \/ Stop \/ Restart
  BY <1>6 DEF Settle, Stop, Restart
<1>7. CASE Exit \/ Crash
  BY <1>7 DEF Exit, Crash, GoDown
<1>8. CASE Ended \/ UNCHANGED vars
  BY <1>8 DEF Ended, vars
<1> QED
  BY <1>1, <1>2, <1>3, <1>4, <1>5, <1>6, <1>7, <1>8 DEF Next, Loop, Command

(* The order of the connections, the types and what is known of the        *)
(* service hold in every state (Service.run, handle).                      *)
THEOREM RequestsInvariant == Spec => []RequestsInv
<1>1. RequestsInv /\ [Next]_vars => RequestsInv'
  <2> SUFFICES ASSUME RequestsInv, [Next]_vars PROVE RequestsInv'
    OBVIOUS
  <2>1. OrderInv'
    BY OrderSteps, JoinsStep, TakesStep, StaysStep DEF RequestsInv
  <2> QED
    BY <2>1, TypesStep, ServiceStep DEF RequestsInv
<1> QED
  BY RequestsInitInv, <1>1, PTL DEF Spec

-----------------------------------------------------------------------------
(* What a command learns.                                                  *)

\* Nobody is before and behind another one.
LEMMA OneOrder ==
  ASSUME RequestsInv, NEW c, NEW d, Before(c, d), Before(d, c)
  PROVE  FALSE
BY DEF RequestsInv, TypesInv, OrderInv, AskedOnce, Before

\* Nobody is ahead of the command that is served, or of one that found the
\* service gone.
LEMMA NobodyAhead ==
  ASSUME RequestsInv, NEW c \in Commands,
         (c = serving /\ serving # None) \/ state[c] = "alone"
  PROVE  Ahead(c) = {}
<1> SUFFICES ASSUME NEW d \in Ahead(c) PROVE FALSE
  OBVIOUS
<1>1. d # c /\ Before(d, c) /\ (d \in ToSet(queue) \/ (d = serving /\ serving # None))
  BY DEF Ahead, Before
<1>2. Before(c, d)
  BY <1>1 DEF ToSet, RequestsInv, OrderInv, InLine, AloneIsBefore
<1> QED
  BY <1>1, <1>2, OneOrder

\* An answer that comes with a reply comes to the command that is served.
LEMMA ReplyGoesTo ==
  ASSUME TypesInv, NEW what, Reply(what), NEW c \in Commands, answer'[c] # answer[c]
  PROVE  c = serving /\ answer'[c] = what
BY DEF TypesInv, TypeOK, Reply, Conclude

(* send-status does not overtake a send: unless the command has given up   *)
(* the service, it is not told that a send has failed while a command that *)
(* asked for that send earlier is yet to be served (Service.run, cli.py).  *)
THEOREM StatusKeepsOrder == Spec => StatusIsInOrder
<1>1. RequestsInv /\ [Next]_vars
      => [\A c \in Commands : LearnsTooEarly(c) => state[c] = "given_up"]_vars
  <2> SUFFICES ASSUME RequestsInv, Next, NEW c \in Commands, LearnsTooEarly(c)
               PROVE  state[c] = "given_up"
    OBVIOUS
  <2>1. answer'[c] # answer[c] /\ answer'[c] = "failed" /\ request[c].op = "status"
        /\ Ahead(c) # {}
    BY DEF LearnsTooEarly
  <2>2. ~(c = serving /\ serving # None) /\ state[c] # "alone"
    BY <2>1, NobodyAhead
  <2>3. ASSUME NEW e \in Commands, ReadAlone(e) PROVE state[c] = "given_up"
    <3>1. e = c
      BY <2>1, <2>3 DEF ReadAlone, Conclude, RequestsInv, TypesInv, TypeOK
    <3> QED
      BY <2>2, <2>3, <3>1 DEF ReadAlone, Unanswered
  <2>4. CASE ReadTimesOut \/ ServeStatus \/ ServeCapture \/ RefuseSend \/ EndSend
    <3>1. PICK what : Reply(what)
      BY <2>4 DEF ReadTimesOut, ServeStatus, ServeCapture, RefuseSend, EndSend
    <3>2. serving # None
      BY <2>4 DEF ReadTimesOut, ServeStatus, ServeCapture, RefuseSend, EndSend, Asks,
         RequestsInv, ServiceInv
    <3> QED
      BY <2>1, <2>2, <3>1, <3>2, ReplyGoesTo DEF RequestsInv
  <2>5. CASE answer' = answer
    BY <2>1, <2>5
  <2> QED
    BY <2>3, <2>4, <2>5 DEF Next, Loop, Command, Connect, Refused, GiveUp, Accept, BeginSend,
       Exit, Crash, GoDown, Settle, Stop, Restart, Ended, vars, commandVars
<1> QED
  BY <1>1, RequestsInvariant, PTL DEF Spec, StatusIsInOrder
=============================================================================
