------------------------------ MODULE Requests ------------------------------
(***************************************************************************)
(* The commands of the owner (cli.py, client.call) and the request loop of *)
(* the service (Service.run, handle): connections queue in the listening   *)
(* socket, are served one after the other, and may be given up by a        *)
(* command long before they are.  What a send does is the Runner's         *)
(* business (module Service); here it ends, fails before the injection, or *)
(* stays pending.                                                          *)
(***************************************************************************)
EXTENDS Integers, Sequences, SequencesExt, FiniteSets

CONSTANTS
  Commands,   \* command-line processes
  Ids,        \* request ids
  None,
  Backlog,    \* connections the listening socket holds: listen(4)
  Tolerated   \* how often the service may go down

ASSUME RequestsAssumption == None \notin Ids /\ Backlog \in Nat \ {0} /\ Tolerated \in Nat

VARIABLES
  state,     \* state[c]: what the command is at
  request,   \* request[c]: what it asks
  asked,     \* the commands in the order in which they connected
  answer,    \* answer[c]: what it prints
  queue,     \* connections that are not accepted yet
  serving,   \* the command whose connection is handled
  service,   \* "up", "stopping" or "down"
  running,   \* the id whose backend the service waits for
  pending,   \* operation.json: the pending request
  last,      \* operation.json: the last request with a recorded failure
  used,      \* ids with a work directory: they are not sent again
  sent,      \* ids that have been submitted
  downs      \* how often the service went down

commandVars == <<state, request, asked, answer>>
recordVars == <<pending, last, used, sent>>
vars == <<commandVars, queue, serving, service, running, recordVars, downs>>

\* "torn" stands for a client that connects and never sends its line.
Nothing == [op |-> "nothing", id |-> None]
Requests == [op : {"send", "status"}, id : Ids] \cup [op : {"capture", "torn"}, id : {None}]

Init ==
  /\ state = [c \in Commands |-> "new"]
  /\ request = [c \in Commands |-> Nothing]
  /\ asked = <<>>
  /\ answer = [c \in Commands |-> "none"]
  /\ queue = <<>>
  /\ serving = None
  /\ service = "up"
  /\ running = None
  /\ pending = None
  /\ last \in Ids \cup {None}
  /\ used = {}
  /\ sent = {}
  /\ downs = 0

-----------------------------------------------------------------------------
(* The command.                                                            *)

Conclude(c, what) ==
  /\ state' = [state EXCEPT ![c] = "ended"]
  /\ answer' = [answer EXCEPT ![c] = what]

\* connect, sendall and shutdown; the line waits in the socket.
Connect(c, r) ==
  /\ state[c] = "new" /\ service # "down" /\ Len(queue) < Backlog
  /\ state' = [state EXCEPT ![c] = "waiting"]
  /\ asked' = Append(asked, c)
  /\ request' = [request EXCEPT ![c] = r]
  /\ queue' = Append(queue, c)
  /\ UNCHANGED <<answer, serving, service, running, recordVars, downs>>

\* No socket, no listener, or a full queue.
Refused(c, r) ==
  /\ state[c] = "new" /\ (service = "down" \/ Len(queue) = Backlog)
  /\ state' = [state EXCEPT ![c] = IF service = "down" THEN "alone" ELSE "given_up"]
  /\ asked' = Append(asked, c)
  /\ request' = [request EXCEPT ![c] = r]
  /\ UNCHANGED <<answer, queue, serving, service, running, recordVars, downs>>

\* 180 seconds without an answer, while the service is at work on something:
\* the connection, or what is left of it, is still served.
GiveUp(c) ==
  /\ state[c] = "waiting" /\ serving # None
  /\ state' = [state EXCEPT ![c] = "given_up"]
  /\ UNCHANGED <<request, asked, answer, queue, serving, service, running, recordVars, downs>>

Unanswered(c) == state[c] \in {"alone", "given_up"}

\* The last failure in operation.json, else what the work directory tells.
Recorded(i) == IF last = i THEN "failed" ELSE IF i \in sent THEN "completed" ELSE "unknown"

\* send-status reads the files by itself; every other command reports an error.
ReadAlone(c) ==
  /\ Unanswered(c)
  /\ Conclude(c, IF request[c].op = "status" THEN Recorded(request[c].id) ELSE "error")
  /\ UNCHANGED <<request, asked, queue, serving, service, running, recordVars, downs>>

-----------------------------------------------------------------------------
(* The request loop.                                                       *)

\* sendall and close: a command that has given up does not notice.
Reply(what) ==
  /\ serving' = None
  /\ IF state[serving] = "waiting" THEN Conclude(serving, what) ELSE UNCHANGED <<state, answer>>

Leaving == service = "stopping" /\ pending = None

\* Mutant: the connection that came last is taken first.
Accept_Newest ==
  /\ service # "down" /\ serving = None /\ ~Leaving
  /\ queue # <<>>
  /\ serving' = Last(queue)
  /\ queue' = Front(queue)
  /\ UNCHANGED <<commandVars, service, running, recordVars, downs>>

Accept ==
  /\ service # "down" /\ serving = None /\ ~Leaving
  /\ queue # <<>>
  /\ serving' = Head(queue)
  /\ queue' = Tail(queue)
  /\ UNCHANGED <<commandVars, service, running, recordVars, downs>>

Asks(op) == serving # None /\ running = None /\ request[serving].op = op

\* Mutant: the connection has no timeout.
ReadTimesOut_Never == Asks("torn") /\ UNCHANGED vars

\* recv ends without a line, after five seconds or at the end of the stream.
ReadTimesOut ==
  /\ Asks("torn")
  /\ Reply("invalid")
  /\ UNCHANGED <<request, asked, queue, service, running, recordVars, downs>>

ServeStatus ==
  /\ Asks("status")
  /\ Reply(Recorded(request[serving].id))
  /\ UNCHANGED <<request, asked, queue, service, running, recordVars, downs>>

\* Keys are captured, or refused; a capture can take a minute.
ServeCapture ==
  /\ Asks("capture")
  /\ Reply(IF service = "stopping" \/ pending # None THEN "refused" ELSE "captured")
  /\ UNCHANGED <<request, asked, queue, service, running, recordVars, downs>>

\* The id has been used, the service stops, or it has an operation pending.
RefuseSend ==
  /\ Asks("send")
  /\ request[serving].id \in used \/ service = "stopping" \/ pending # None
  /\ Reply(IF request[serving].id \in used THEN "replayed" ELSE "refused")
  /\ UNCHANGED <<request, asked, queue, service, running, recordVars, downs>>

BeginSend ==
  /\ Asks("send")
  /\ request[serving].id \notin used /\ service = "up" /\ pending = None
  /\ running' = request[serving].id
  /\ pending' = running'
  /\ last' = None
  /\ UNCHANGED <<commandVars, queue, serving, service, used, sent, downs>>

\* The backend has sent, has failed before the injection, or goes on after the
\* 150 seconds: then the record stays.
EndSend ==
  /\ running # None
  /\ running' = None
  /\ used' \in {used, used \cup {running}}
  /\ sent' \in {sent, sent \cup ({running} \cap used')}
  /\ \/ running \in sent' /\ pending' = None /\ Reply("completed") /\ UNCHANGED last
     \/ running \notin sent' /\ pending' = None /\ last' = running /\ Reply("failed")
     \/ Reply("uncertain") /\ UNCHANGED <<pending, last>>
  /\ UNCHANGED <<request, asked, queue, service, downs>>

\* inspect_pending, of the stopping service or on request, settles what ended.
Settle ==
  /\ service # "down" /\ serving = None /\ pending # None
  /\ pending' = None
  /\ last' = IF pending \in sent THEN last ELSE pending
  /\ UNCHANGED <<commandVars, queue, serving, service, running, used, sent, downs>>

Stop ==
  /\ service = "up" /\ downs < Tolerated
  /\ service' = "stopping"
  /\ UNCHANGED <<commandVars, queue, serving, running, recordVars, downs>>

\* Connections that were not accepted are reset with the socket.
GoDown ==
  /\ service' = "down"
  /\ downs' = downs + 1
  /\ queue' = <<>>
  /\ serving' = None
  /\ running' = None
  /\ state' = [c \in Commands |-> IF state[c] = "waiting" THEN "alone" ELSE state[c]]
  /\ UNCHANGED <<request, asked, answer>>

Exit ==
  /\ service # "down" /\ serving = None /\ Leaving
  /\ GoDown
  /\ UNCHANGED recordVars

\* The backend of a service that dies goes on.
Crash ==
  /\ service # "down" /\ downs < Tolerated
  /\ GoDown
  /\ \E done \in SUBSET ({running} \ {None}) :
       used' = used \cup done /\ sent' = sent \cup done
  /\ UNCHANGED <<pending, last>>

Restart ==
  /\ service = "down"
  /\ service' = "up"
  /\ UNCHANGED <<commandVars, queue, serving, running, recordVars, downs>>

Loop ==
  Accept \/ ReadTimesOut \/ ServeStatus \/ ServeCapture \/ RefuseSend \/ BeginSend \/ EndSend \/ Exit

Command ==
  \E c \in Commands :
    \/ \E r \in Requests : Connect(c, r) \/ Refused(c, r)
    \/ GiveUp(c) \/ ReadAlone(c)

Ended == (\A c \in Commands : state[c] = "ended") /\ queue = <<>> /\ UNCHANGED vars

Next == Loop \/ Command \/ Settle \/ Stop \/ Crash \/ Restart \/ Ended

Spec == Init /\ [][Next]_vars

\* The loop runs; a command that has lost its connection goes on.
FairSpec == Spec /\ WF_vars(Loop) /\ \A c \in Commands : WF_vars(ReadAlone(c))

-----------------------------------------------------------------------------
TypeOK ==
  /\ request \in [Commands -> Requests \cup {Nothing}]
  /\ state \in [Commands -> {"new", "waiting", "alone", "given_up", "ended"}]
  /\ answer \in [Commands -> {"none", "invalid", "error", "completed", "failed", "unknown",
                              "uncertain", "captured", "refused", "replayed"}]
  /\ queue \in Seq(Commands) /\ Len(queue) <= Backlog
  /\ serving \in Commands \cup {None}
  /\ {running, pending, last} \subseteq Ids \cup {None}
  /\ sent \subseteq used /\ used \subseteq Ids
  /\ downs \in 0..Tolerated + 1

\* Commands that connected before c and whose connection is still to be served.
Ahead(c) ==
  {d \in ToSet(queue) \cup ({serving} \ {None}) :
     d # c /\ \E m, n \in DOMAIN asked : m < n /\ asked[m] = d /\ asked[n] = c}

\* c learns from send-status that the send of its id failed, while a command
\* that asked earlier to send that id is yet to be served.
LearnsTooEarly(c) ==
  /\ request[c].op = "status"
  /\ answer[c] = "none" /\ answer'[c] = "failed"
  /\ \E d \in Ahead(c) : request[d] = [op |-> "send", id |-> request[c].id]

(* send-status does not overtake a send: what the service answers, and what *)
(* a command reads when the service is gone, holds for every send that was *)
(* asked for before, given up by its command or not.  Only a command that  *)
(* gives up, or is turned away, while the service is up reads of a failure *)
(* that a queued send may undo (Service.run, cli.py).                      *)
StatusIsInOrder ==
  [][\A c \in Commands : LearnsTooEarly(c) => state[c] = "given_up"]_vars

(* Whoever waits is answered, or finds the service gone: a client that     *)
(* never sends its line and one that gave up do not keep the others from   *)
(* the loop (handle).                                                      *)
CommandsEnd == \A c \in Commands : state[c] = "waiting" ~> state[c] = "ended"
=============================================================================
