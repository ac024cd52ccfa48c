--------------------------- MODULE CaptureProofs ----------------------------
(***************************************************************************)
(* Proofs about the capture probe: its processes (Probe) for any number of *)
(* operator's interrupts, the breakpoints' records (ProbeEvents) for any   *)
(* set of tasks and any limits, and their composition (Capture).           *)
(***************************************************************************)
EXTENDS Capture, TLAPS

-----------------------------------------------------------------------------
(* The processes.                                                          *)

\* The debugger's end could be had.
Bounded == error \notin {"wait_timeout", "interrupt"}

Closing == {"inspect", "verify", "artifacts", "returned", "raised"}

\* There is a debugger before it is noted as started, and the client is held
\* and stopped only by one.
DebuggerInv ==
  /\ dpc \in {"none", "gone"} => ~traced
  /\ started => dpc # "none"
  /\ dpc = "none" => stop # "probe"
  /\ client # "alive" => ~traced /\ stop = "nobody"
  /\ dpc \in {"finally", "save"} => status \in Final

\* When the finally clause is reached, there is no debugger, or it was noted
\* and has ended; once the clause has looked at the client, it is not left
\* stopped.
ParentInv ==
  /\ ppc \in {"check", "prepare"} => dpc = "none"
  /\ ppc = "start" \/ error = "wait_timeout" => dpc # "none"
  /\ ppc \in {"wait", "grace", "read"} => started /\ dpc # "none"
  /\ ppc = "read" => dpc = "gone"
  /\ ppc \in Closing /\ Bounded => dpc = "none" \/ (dpc = "gone" /\ started)
  /\ ppc \in Closing \ {"inspect"} /\ Bounded => stop # "probe"
  /\ result # "none" => started
  /\ ppc = "returned" => error = "none"

ProbeInv == ProbeTypeOK /\ DebuggerInv /\ ParentInv

\* The two parts of ProbeTypeOK.
Flags ==
  started \in BOOLEAN /\ cleanup \in BOOLEAN /\ sigint \in BOOLEAN /\ traced \in BOOLEAN

Names ==
  /\ ppc \in {"check", "prepare", "start", "wait", "grace", "read", "inspect", "verify",
              "artifacts", "returned", "raised"}
  /\ error \in {"none", "refused", "preparation", "malformed", "wait_timeout", "interrupt"}
  /\ dpc \in {"none", "load", "attach", "plant", "observe", "finally", "save", "quit", "gone"}
  /\ status \in {"starting", "observing"} \cup Final
  /\ out \in {"absent", "observing", "torn"} \cup Final
  /\ result \in {"none", "debugger_failed_before_result", "observing"} \cup Final
  /\ client \in {"alive", "gone", "restarted"} /\ stop \in {"nobody", "probe", "owner"}
  /\ interrupts \in 0..MaxInterrupts

LEMMA TypeParts == ProbeTypeOK <=> Flags /\ Names
BY DEF ProbeTypeOK, Flags, Names

\* A tracer that is gone holds nothing; it may leave a stop behind.
LEMMA ReleasedLeaves ==
  ASSUME Released
  PROVE  ~traced' /\ (traced' = FALSE) /\ stop' \in {stop, "nobody"}
BY DEF Released

LEMMA ProbeInitInv == ProbeInit => ProbeInv
<1> SUFFICES ASSUME ProbeInit PROVE ProbeInv
  OBVIOUS
<1> USE ProbeAssumption DEF ProbeInit
<1>1. ProbeTypeOK
  <2>1. Flags
    BY DEF Flags
  <2>2. Names
    BY DEF Names, Final
  <2> QED
    BY <2>1, <2>2, TypeParts
<1>2. DebuggerInv /\ ParentInv
  BY DEF DebuggerInv, ParentInv, Closing, Bounded
<1> QED
  BY <1>1, <1>2 DEF ProbeInv

LEMMA FlagsStep == ProbeInv /\ [ProbeNext]_probeVars => Flags'
<1> SUFFICES ASSUME ProbeInv, [ProbeNext]_probeVars PROVE Flags'
  OBVIOUS
<1>0. Flags
  BY TypeParts DEF ProbeInv
<1> USE <1>0 DEF Flags, parentVars, debugVars, clientVars
<1>1. CASE OwnerStops \/ ClientEnds
  BY <1>1 DEF OwnerStops, ClientEnds
<1>2. CASE Load \/ Attach \/ Plant
  BY <1>2 DEF Load, Attach, Plant, Script
<1>3. CASE Stops \/ Detach \/ SaveAndQuit
  BY <1>3 DEF Stops, Detach, SaveAndQuit, Script
<1>4. CASE Quit
  BY <1>4, ReleasedLeaves DEF Quit, Script
<1>5. CASE TakeSigint
  <2>1. sigint' = FALSE /\ (traced' = TRUE \/ traced' = traced)
        /\ started' = started /\ cleanup' = cleanup
    BY <1>5 DEF TakeSigint
  <2> QED
    BY <2>1
<1>6. CASE Check \/ Prepare \/ OnStarted \/ Wait
  BY <1>6 DEF Check, Prepare, OnStarted, Wait, Parent
<1>7. CASE Grace
  BY <1>7, ReleasedLeaves DEF Grace, Parent
<1>8. CASE ReadResult
  BY <1>8 DEF ReadResult, Parent
<1>9. CASE Inspect \/ Verify \/ Artifacts
  <2>1. cleanup' \in BOOLEAN
    BY <1>9 DEF Inspect, Verify, Artifacts
  <2>2. UNCHANGED <<started, sigint, traced>>
    BY <1>9 DEF Inspect, Verify, Artifacts
  <2> QED
    BY <2>1, <2>2
<1>10. CASE KillTimesOut
  BY <1>10 DEF KillTimesOut, Parent
<1>11. CASE KilledLater
  BY <1>11, ReleasedLeaves DEF KilledLater
<1>12. CASE OperatorInterrupts
  <2>1. (sigint' = TRUE \/ sigint' = sigint) /\ UNCHANGED <<started, cleanup, traced>>
    BY <1>12 DEF OperatorInterrupts
  <2> QED
    BY <2>1
<1>13. CASE Ended \/ UNCHANGED probeVars
  BY <1>13 DEF Ended, probeVars
<1> QED
  BY <1>1, <1>2, <1>3, <1>4, <1>5, <1>6, <1>7, <1>8, <1>9, <1>10, <1>11, <1>12, <1>13
     DEF ProbeNext, Debugger, Observe

LEMMA NamesStep == ProbeInv /\ [ProbeNext]_probeVars => Names'
<1> SUFFICES ASSUME ProbeInv, [ProbeNext]_probeVars PROVE Names'
  OBVIOUS
<1>0. Names /\ (dpc \in {"finally", "save"} => status \in Final)
  BY TypeParts DEF ProbeInv, DebuggerInv
<1> USE <1>0, ProbeAssumption DEF Names, Final, parentVars, debugVars, clientVars
<1>1. CASE OwnerStops \/ ClientEnds
  BY <1>1 DEF OwnerStops, ClientEnds
<1>2. CASE Load \/ Attach
  BY <1>2 DEF Load, Attach, Script
<1>3. CASE Plant
  BY <1>3 DEF Plant, Script
<1>4. CASE Stops \/ Detach
  BY <1>4 DEF Stops, Held, Detach, Script
<1>5. CASE SaveAndQuit
  BY <1>5 DEF SaveAndQuit, Script
<1>6. CASE Quit
  BY <1>6, ReleasedLeaves DEF Quit, Script
<1>7. CASE TakeSigint
  <2>1. dpc' \in {"quit", "finally"} /\ stop' \in {stop, "probe"}
        /\ status' \in {status, "captured", "no_matching_task"}
        /\ UNCHANGED <<ppc, error, out, result, client, interrupts>>
    BY <1>7 DEF TakeSigint, Held
  <2> QED
    BY <2>1
<1>8. CASE Check \/ Prepare \/ OnStarted \/ Wait
  BY <1>8 DEF Check, Prepare, OnStarted, Wait, Parent, Raise
<1>9. CASE Grace
  <2>1. stop' \in {stop, "nobody"}
    BY <1>9, ReleasedLeaves DEF Grace
  <2>2. ppc' = "read" /\ dpc' \in {dpc, "gone"} /\ out' \in {out, "torn"}
        /\ UNCHANGED <<error, status, result, client, interrupts>>
    BY <1>9 DEF Grace, Parent
  <2> QED
    BY <2>1, <2>2
<1>10. CASE ReadResult
  BY <1>10 DEF ReadResult, Parent, Raise
<1>11. CASE Inspect \/ Verify \/ Artifacts
  <2>1. ppc' \in {"verify", "artifacts", "returned", "raised"} /\ stop' \in {stop, "nobody"}
        /\ UNCHANGED <<error, dpc, status, out, result, client, interrupts>>
    BY <1>11 DEF Inspect, Verify, Artifacts, Parent
  <2> QED
    BY <2>1
<1>12. CASE KillTimesOut
  BY <1>12 DEF KillTimesOut, Parent, Raise
<1>13. CASE KilledLater
  BY <1>13, ReleasedLeaves DEF KilledLater
<1>14. CASE OperatorInterrupts
  <2>1. ppc' \in {"grace", "inspect"} /\ error' \in {error, "interrupt"}
        /\ interrupts < MaxInterrupts /\ interrupts' = interrupts + 1
        /\ UNCHANGED <<dpc, status, out, result, client, stop>>
    BY <1>14 DEF OperatorInterrupts, Raise
  <2> QED
    BY <2>1
<1>15. CASE Ended \/ UNCHANGED probeVars
  BY <1>15 DEF Ended, probeVars
<1> QED
  BY <1>1, <1>2, <1>3, <1>4, <1>5, <1>6, <1>7, <1>8, <1>9, <1>10, <1>11, <1>12, <1>13, <1>14, <1>15
     DEF ProbeNext, Debugger, Observe

LEMMA DebuggerStep == ProbeInv /\ [ProbeNext]_probeVars => DebuggerInv'
<1> SUFFICES ASSUME ProbeInv, [ProbeNext]_probeVars PROVE DebuggerInv'
  OBVIOUS
<1> USE DEF ProbeInv, DebuggerInv, Final, parentVars, debugVars, clientVars
<1>0. started \in BOOLEAN /\ traced \in BOOLEAN
  BY TypeParts DEF Flags
<1>1. CASE OwnerStops \/ ClientEnds
  BY <1>1 DEF OwnerStops, ClientEnds
<1>2. CASE Load \/ Attach
  BY <1>2 DEF Load, Attach, Script
<1>3. CASE Plant
  BY <1>3 DEF Plant, Script
<1>4. CASE Stops \/ Detach
  BY <1>4 DEF Stops, Held, Detach, Script
<1>5. CASE SaveAndQuit \/ Quit
  BY <1>5 DEF SaveAndQuit, Quit, Script, Released
<1>6. CASE TakeSigint
  BY <1>6 DEF TakeSigint, Held
<1>7. CASE Check \/ Prepare \/ OnStarted \/ Wait
  BY <1>7 DEF Check, Prepare, OnStarted, Wait, Parent, Raise, ParentInv
<1>8. CASE Grace
  <2>1. dpc # "none" /\ dpc' = "gone" /\ UNCHANGED <<started, client, status>>
    BY <1>8 DEF Grace, Parent, ParentInv
  <2>2. (traced' = FALSE \/ traced' = traced) /\ stop' \in {stop, "nobody"}
        /\ (dpc # "gone" => traced' = FALSE)
    BY <1>8, ReleasedLeaves DEF Grace
  <2> QED
    BY <1>0, <2>1, <2>2
<1>9. CASE ReadResult
  BY <1>9 DEF ReadResult, Parent, Raise
<1>10. CASE Inspect \/ Verify \/ Artifacts
  <2>1. stop' \in {stop, "nobody"} /\ UNCHANGED <<started, traced, client, dpc, status>>
    BY <1>10 DEF Inspect, Verify, Artifacts, Parent
  <2> QED
    BY <2>1
<1>11. CASE KillTimesOut
  BY <1>11 DEF KillTimesOut, Parent, Raise
<1>14. CASE KilledLater
  <2>1. dpc # "none" /\ dpc' = "gone" /\ UNCHANGED <<started, client, status>>
    BY <1>14 DEF KilledLater, ParentInv
  <2>2. traced' = FALSE /\ stop' \in {stop, "nobody"}
    BY <1>14, ReleasedLeaves DEF KilledLater
  <2> QED
    BY <1>0, <2>1, <2>2
<1>12. CASE OperatorInterrupts
  BY <1>12 DEF OperatorInterrupts, Raise
<1>13. CASE Ended \/ UNCHANGED probeVars
  BY <1>13 DEF Ended, probeVars
<1> QED
  BY <1>1, <1>2, <1>3, <1>4, <1>5, <1>6, <1>7, <1>8, <1>9, <1>10, <1>11, <1>12, <1>13, <1>14
     DEF ProbeNext, Debugger, Observe

LEMMA ParentStep == ProbeInv /\ [ProbeNext]_probeVars => ParentInv'
<1> SUFFICES ASSUME ProbeInv, [ProbeNext]_probeVars PROVE ParentInv'
  OBVIOUS
<1> USE DEF ProbeInv, ParentInv, Closing, Bounded, parentVars, debugVars, clientVars
<1>1. CASE OwnerStops \/ ClientEnds
  BY <1>1 DEF OwnerStops, ClientEnds
<1>2. CASE Load \/ Attach
  BY <1>2 DEF Load, Attach, Script
<1>3. CASE Plant
  BY <1>3 DEF Plant, Script
<1>4. CASE Stops \/ Detach
  BY <1>4 DEF Stops, Held, Detach, Script
<1>5. CASE SaveAndQuit \/ Quit
  BY <1>5 DEF SaveAndQuit, Quit, Script, Released
<1>6. CASE TakeSigint
  BY <1>6 DEF TakeSigint, Held
<1>7. CASE Check \/ Prepare \/ OnStarted \/ Wait
  BY <1>7 DEF Check, Prepare, OnStarted, Wait, Parent, Raise, DebuggerInv
<1>8. CASE Grace
  BY <1>8, ReleasedLeaves DEF Grace, Parent
<1>9. CASE ReadResult
  BY <1>9 DEF ReadResult, Parent, Raise, DebuggerInv
<1>10. CASE Inspect
  BY <1>10 DEF Inspect, Parent, LeftStopped, DebuggerInv
<1>11. CASE Verify \/ Artifacts
  BY <1>11 DEF Verify, Artifacts, Parent
<1>12. CASE KillTimesOut
  BY <1>12 DEF KillTimesOut, Parent, Raise
<1>15. CASE KilledLater
  <2>1. dpc' = "gone" /\ error = "wait_timeout" /\ UNCHANGED <<started, ppc, error, result>>
    BY <1>15 DEF KilledLater
  <2> QED
    BY <2>1
<1>13. CASE OperatorInterrupts
  BY <1>13 DEF OperatorInterrupts, Raise
<1>14. CASE Ended \/ UNCHANGED probeVars
  BY <1>14 DEF Ended, probeVars
<1> QED
  BY <1>1, <1>2, <1>3, <1>4, <1>5, <1>6, <1>7, <1>8, <1>9, <1>10, <1>11, <1>12, <1>13, <1>14, <1>15
     DEF ProbeNext, Debugger, Observe

(* What is known of the debugger, the client and the parent, types         *)
(* included, holds in every state that the probe reaches (observe).        *)
THEOREM ProbeInvariant == ProbeSpec => []ProbeInv
<1>1. ProbeInv /\ [ProbeNext]_probeVars => ProbeInv'
  <2>1. (Flags /\ Names)' => ProbeTypeOK'
    BY DEF ProbeTypeOK, Flags, Names
  <2> QED
    BY <2>1, FlagsStep, NamesStep, DebuggerStep, ParentStep DEF ProbeInv
<1> QED
  BY ProbeInitInv, <1>1, PTL DEF ProbeSpec

(* Whatever the deadline, the kill and the operator cut off, a client that *)
(* observe is done with is neither traced nor left stopped by the probe,   *)
(* as long as the debugger could be stopped (observe, the finally clause). *)
THEOREM ClientIsLetGo == ProbeSpec => []ClientIsReleased
<1>1. ProbeInv => ClientIsReleased
  BY DEF ProbeInv, DebuggerInv, ParentInv, Closing, Bounded, ClientIsReleased
<1> QED
  BY <1>1, ProbeInvariant, PTL

-----------------------------------------------------------------------------
(* The breakpoints' records.                                               *)

\* The client's rule holds of the tasks under way.
Apart ==
  \A t, u \in UnderWay : t # u => u.id # t.id \/ (u.context # t.context /\ ~(u.send /\ t.send))

\* While no handler has failed, each watched id is that of a send under way,
\* and so is each request that was serialised.
Clean ==
  errors = 0 /\ ~stopped =>
    /\ \A i \in Ids : watched[i] = NoContext \/
         \E s \in UnderWay : s.send /\ s.id = i /\ s.context = watched[i]
    /\ \A u \in req2buf : u \in UnderWay /\ u.send /\ Matches(u)

RoomLeft == ~stopped => hits < MaxHits /\ errors < MaxErrors

EventsInv ==
  EventsTypeOK /\ watched \in [Ids -> {NoContext} \cup {t.context : t \in Tasks}]
    /\ Apart /\ Clean /\ RoomLeft /\ RecordsAreOfSends

LEMMA EventsInitInv == EventsInit => EventsInv
<1> SUFFICES ASSUME EventsInit PROVE EventsInv
  OBVIOUS
<1> USE EventsAssumption DEF EventsInit
<1>1. EventsTypeOK
  <2>1. stopped \in BOOLEAN
    OBVIOUS
  <2>2. hits \in 0..MaxHits /\ errors \in 0..MaxErrors
    OBVIOUS
  <2> QED
    BY <2>1, <2>2 DEF EventsTypeOK
<1>2. Apart /\ Clean /\ RoomLeft /\ RecordsAreOfSends
  BY DEF Apart, Clean, UnderWay, RoomLeft, RecordsAreOfSends, OwnRecords
<1> QED
  BY <1>1, <1>2 DEF EventsInv

(* While no handler has failed, a task under way whose id and context are  *)
(* watched is the send that was dispatched with them.                      *)
LEMMA MatchedIsSend ==
  ASSUME EventsInv, errors = 0, ~stopped, NEW t \in UnderWay, Matches(t)
  PROVE  t.send
<1>1. t \in Tasks /\ t.id \in Ids /\ t.context # NoContext
  BY TasksAssumption DEF Ids, UnderWay
<1>2. PICK s \in UnderWay : s.send /\ s.id = t.id /\ s.context = t.context
  BY <1>1 DEF EventsInv, Clean, Matches
<1>3. s = t
  BY <1>2 DEF EventsInv, Apart
<1> QED
  BY <1>2, <1>3

LEMMA CountersStep ==
  ASSUME EventsInv, NEW t \in Tasks, Dispatch(t) \/ Serialise(t) \/ TaskEnds(t)
  PROVE  hits' \in 0..MaxHits /\ errors' \in 0..MaxErrors /\ RoomLeft' /\ stopped' \in BOOLEAN
         /\ phase' \in [Tasks -> {"new", "dispatched", "serialised", "ended"}]
<1>1. hits \in Nat /\ errors \in Nat /\ hits < MaxHits /\ errors < MaxErrors
      /\ MaxHits \in Nat /\ MaxErrors \in Nat
  BY EventsAssumption DEF EventsInv, EventsTypeOK, RoomLeft, Dispatch, Serialise, TaskEnds, Hit
<1>2. hits' = hits + 1 /\ errors' \in {errors, errors + 1}
  BY DEF Dispatch, Serialise, TaskEnds, Hit, Fails
<1>3. hits' \in 0..MaxHits /\ errors' \in 0..MaxErrors
  BY <1>1, <1>2
<1>4. stopped' = TRUE \/ stopped' = (hits' >= MaxHits \/ errors' >= MaxErrors)
  BY DEF Dispatch, Serialise, TaskEnds, Limit
<1>5. RoomLeft'
  <2>1. ASSUME ~stopped' PROVE ~(hits' >= MaxHits) /\ ~(errors' >= MaxErrors)
    BY <1>4, <2>1
  <2> QED
    BY <1>1, <1>3, <2>1 DEF RoomLeft
<1>6. phase' \in [Tasks -> {"new", "dispatched", "serialised", "ended"}]
  BY DEF EventsInv, EventsTypeOK, Dispatch, Serialise, TaskEnds, Hit
<1> QED
  BY <1>3, <1>4, <1>5, <1>6

\* Where a task's next phase leaves the others.
LEMMA PhaseStep ==
  ASSUME EventsInv, NEW t \in Tasks, NEW to \in {"dispatched", "serialised", "ended"},
         phase' = [phase EXCEPT ![t] = to]
  PROVE  \A u \in Tasks : u \in UnderWay' <=> IF u = t THEN to # "ended" ELSE u \in UnderWay
BY DEF EventsInv, EventsTypeOK, UnderWay

LEMMA ApartStep ==
  ASSUME EventsInv, NEW t \in Tasks, Dispatch(t) \/ Serialise(t) \/ TaskEnds(t)
  PROVE  Apart'
<1>1. CASE Dispatch(t)
  <2>1. \A u \in UnderWay' : u = t \/ u \in UnderWay
    BY <1>1, PhaseStep DEF Dispatch, Hit, UnderWay
  <2>2. Free(t)
    BY <1>1 DEF Dispatch
  <2> QED
    BY <2>1, <2>2 DEF EventsInv, Apart, Free
<1>2. CASE Serialise(t) \/ TaskEnds(t)
  <2>1. UnderWay' \subseteq UnderWay
    BY <1>2, PhaseStep DEF Serialise, TaskEnds, Hit, UnderWay
  <2> QED
    BY <2>1 DEF EventsInv, Apart
<1> QED
  BY <1>1, <1>2

LEMMA EventsStep == EventsInv /\ [EventsNext]_eventVars => EventsInv'
<1> SUFFICES ASSUME EventsInv, [EventsNext]_eventVars PROVE EventsInv'
  OBVIOUS
<1>0. errors \in Nat
  BY EventsAssumption DEF EventsInv, EventsTypeOK
<1>1. ASSUME NEW t \in Tasks, Dispatch(t) PROVE EventsInv'
  <2>0. ~stopped /\ Free(t) /\ phase' = [phase EXCEPT ![t] = "dispatched"] /\ t.id \in Ids
    BY <1>1 DEF Dispatch, Hit, Ids
  <2>1. /\ UNCHANGED <<req2buf, ends>>
        /\ \/ UNCHANGED watched
           \/ t.send /\ watched' = [watched EXCEPT ![t.id] = t.context]
        /\ events' \subseteq Tasks
        /\ errors' \in {errors, errors + 1}
    BY <1>1 DEF Dispatch, Observed, Fails, EventsInv, EventsTypeOK
  <2>2. watched' \in [Ids -> {NoContext} \cup {u.context : u \in Tasks}]
    BY <2>0, <2>1 DEF EventsInv
  <2>3. UnderWay \cup {t} \subseteq UnderWay'
    BY <2>0, PhaseStep DEF UnderWay
  <2>4. ASSUME errors' = 0 PROVE Clean' /\ OwnRecords'
    <3>1. errors = 0 /\ OwnRecords
      BY <1>0, <2>1, <2>4 DEF EventsInv, RecordsAreOfSends
    <3>2. \A u \in req2buf : u \in UnderWay /\ u.send /\ Matches(u)
      BY <2>0, <3>1 DEF EventsInv, Clean
    <3>3. \A u \in req2buf : u.id \in Ids
      BY <3>2 DEF UnderWay, Ids
    <3>4. ASSUME NEW u \in req2buf PROVE watched'[u.id] = u.context
      BY <2>0, <2>1, <3>2, <3>3, <3>4 DEF Free, Matches, EventsInv
    <3>5. \A i \in Ids : watched'[i] = NoContext \/
            \E s \in UnderWay' : s.send /\ s.id = i /\ s.context = watched'[i]
      BY <2>0, <2>1, <2>3, <3>1 DEF EventsInv, Clean
    <3>6. Clean'
      BY <2>1, <2>3, <3>2, <3>4, <3>5 DEF Clean, Matches
    <3> QED
      BY <2>1, <3>1, <3>6 DEF OwnRecords
  <2>5. Clean' /\ RecordsAreOfSends'
    BY <2>4 DEF Clean, RecordsAreOfSends
  <2>6. (events \cup req2buf)' \subseteq Tasks /\ ends' \subseteq [task : Tasks, req2buf : BOOLEAN]
    BY <2>1 DEF EventsInv, EventsTypeOK
  <2> QED
    BY <1>1, <2>2, <2>5, <2>6, CountersStep, ApartStep DEF EventsInv, EventsTypeOK
<1>2. ASSUME NEW t \in Tasks, Serialise(t) PROVE EventsInv'
  <2>0. ~stopped /\ t \in UnderWay /\ phase' = [phase EXCEPT ![t] = "serialised"]
    BY <1>2 DEF Serialise, Hit, UnderWay
  <2>1. /\ UNCHANGED <<watched, events, ends>>
        /\ req2buf' = req2buf \/ (req2buf' = req2buf \cup {t} /\ (errors' = 0 => Matches(t)))
        /\ errors' \in {errors, errors + 1}
    BY <1>2 DEF Serialise, Fails
  <2>2. UnderWay' = UnderWay
    BY <2>0, PhaseStep DEF UnderWay
  <2>3. ASSUME errors' = 0 PROVE Clean' /\ OwnRecords'
    <3>1. errors = 0 /\ OwnRecords
      BY <1>0, <2>1, <2>3 DEF EventsInv, RecordsAreOfSends
    <3>2. req2buf' = req2buf \/ (req2buf' = req2buf \cup {t} /\ t.send /\ Matches(t))
      BY <2>0, <2>1, <2>3, <3>1, MatchedIsSend
    <3>3. OwnRecords'
      BY <2>1, <3>1, <3>2 DEF OwnRecords
    <3> QED
      BY <2>0, <2>1, <2>2, <3>1, <3>2, <3>3 DEF EventsInv, Clean, Matches
  <2>4. Clean' /\ RecordsAreOfSends'
    BY <2>3 DEF Clean, RecordsAreOfSends
  <2>5. (events \cup req2buf)' \subseteq Tasks /\ ends' \subseteq [task : Tasks, req2buf : BOOLEAN]
    BY <2>1 DEF EventsInv, EventsTypeOK
  <2>6. watched' \in [Ids -> {NoContext} \cup {u.context : u \in Tasks}]
    BY <2>1 DEF EventsInv
  <2> QED
    BY <1>2, <2>4, <2>5, <2>6, CountersStep, ApartStep DEF EventsInv, EventsTypeOK
<1>3. ASSUME NEW t \in Tasks, TaskEnds(t) PROVE EventsInv'
  <2>0. ~stopped /\ t \in UnderWay /\ phase' = [phase EXCEPT ![t] = "ended"]
    BY <1>3 DEF TaskEnds, Hit, UnderWay
  <2>1. /\ UNCHANGED <<watched, events, req2buf>>
        /\ \/ ends' = ends /\ (errors' = 0 => ~Matches(t))
           \/ ends' = ends \cup {EndOf(t)} /\ (errors' = 0 => Matches(t) /\ stopped')
        /\ errors' \in {errors, errors + 1}
    BY <1>0, <1>3 DEF TaskEnds, Fails
  <2>2. ends' \subseteq [task : Tasks, req2buf : BOOLEAN]
    <3>1. EndOf(t) \in [task : Tasks, req2buf : BOOLEAN]
      BY DEF EndOf
    <3> QED
      BY <2>1, <3>1 DEF EventsInv, EventsTypeOK
  <2>3. \A u \in UnderWay : u # t => u \in UnderWay'
    BY <2>0, PhaseStep DEF UnderWay
  <2>4. ASSUME errors' = 0 PROVE Clean' /\ OwnRecords'
    <3>1. /\ errors = 0 /\ OwnRecords
          /\ \A u \in req2buf : u \in UnderWay /\ u.send /\ Matches(u)
      BY <1>0, <2>0, <2>1, <2>4 DEF EventsInv, RecordsAreOfSends, Clean
    <3>2. CASE ends' = ends /\ ~Matches(t)
      <4>1. OwnRecords'
        BY <2>1, <3>1, <3>2 DEF OwnRecords
      <4>2. \A u \in req2buf : u \in UnderWay'
        BY <2>3, <3>1, <3>2
      <4>3. ASSUME NEW i \in Ids, watched[i] # NoContext
            PROVE  \E s \in UnderWay' : s.send /\ s.id = i /\ s.context = watched[i]
        <5>1. PICK s \in UnderWay : s.send /\ s.id = i /\ s.context = watched[i]
          BY <2>0, <3>1, <4>3 DEF EventsInv, Clean
        <5>2. s # t
          BY <3>2, <5>1 DEF Matches
        <5> QED
          BY <2>3, <5>1, <5>2
      <4>4. Clean'
        BY <2>1, <3>1, <4>2, <4>3 DEF Clean, Matches
      <4> QED
        BY <4>1, <4>4
    <3>3. CASE ends' = ends \cup {EndOf(t)} /\ Matches(t) /\ stopped'
      <4>1. t.send
        BY <2>0, <3>1, <3>3, MatchedIsSend
      <4>2. ASSUME NEW u \in req2buf, u.id = t.id PROVE u = t
        BY <2>0, <3>1, <4>1, <4>2 DEF EventsInv, Apart
      <4>3. EndOf(t).task = t /\ (EndOf(t).req2buf => t \in req2buf)
        BY <4>2 DEF EndOf
      <4>4. OwnRecords'
        BY <2>1, <3>1, <3>3, <4>1, <4>3 DEF OwnRecords
      <4> QED
        BY <3>3, <4>4 DEF Clean
    <3> QED
      BY <2>1, <2>4, <3>2, <3>3
  <2>5. Clean' /\ RecordsAreOfSends'
    BY <2>4 DEF Clean, RecordsAreOfSends
  <2>6. watched' \in [Ids -> {NoContext} \cup {u.context : u \in Tasks}]
        /\ (events \cup req2buf)' \subseteq Tasks
    BY <2>1 DEF EventsInv, EventsTypeOK
  <2> QED
    BY <1>3, <2>2, <2>5, <2>6, CountersStep, ApartStep DEF EventsInv, EventsTypeOK
<1>4. CASE Deadline \/ Over \/ UNCHANGED eventVars
  <2>1. UNCHANGED <<phase, watched, events, req2buf, ends, hits, errors>>
    BY <1>4 DEF Deadline, Over, eventVars
  <2>2. stopped' \in BOOLEAN /\ (~stopped' => ~stopped)
    BY <1>4 DEF Deadline, Over, eventVars, EventsInv, EventsTypeOK
  <2>3. UnderWay' = UnderWay
    BY <2>1 DEF UnderWay
  <2>4. Apart' /\ RoomLeft'
    BY <2>1, <2>2, <2>3 DEF EventsInv, Apart, RoomLeft
  <2>5. Clean'
    BY <2>1, <2>2, <2>3 DEF EventsInv, Clean, Matches
  <2>6. EventsTypeOK' /\ RecordsAreOfSends'
    BY <2>1, <2>2 DEF EventsInv, EventsTypeOK, RecordsAreOfSends, OwnRecords
  <2> QED
    BY <2>1, <2>4, <2>5, <2>6 DEF EventsInv
<1> QED
  BY <1>1, <1>2, <1>3, <1>4 DEF EventsNext

(* What is known of the watched tasks and the records, types included,     *)
(* holds in every state the breakpoints reach (trace_in_gdb).              *)
THEOREM EventsInvariant == EventsSpec => []EventsInv
BY EventsInitInv, EventsStep, PTL DEF EventsSpec

(* However often the client uses ids and contexts again, and whatever the  *)
(* limits: a capture without errors has recorded callbacks and ends only   *)
(* of watched sends, and mixes up no two of them (watched_tasks).          *)
THEOREM RecordsOfSends == EventsSpec => []RecordsAreOfSends
<1>1. EventsInv => RecordsAreOfSends
  BY DEF EventsInv
<1> QED
  BY <1>1, EventsInvariant, PTL

-----------------------------------------------------------------------------
(* Both together.                                                          *)

(* While the debugger waits, the breakpoints are those of ProbeEvents, and *)
(* everything else is what Probe says: each step of Capture is a step or a *)
(* stutter of either.                                                      *)
THEOREM CaptureImplementsBoth == Spec => ProbeSpec /\ EventsSpec
<1>1. Init => ProbeInit /\ EventsInit
  BY DEF Init
<1>2. [Next]_captureVars => [ProbeNext]_probeVars
  BY DEF Next, Hits, Continued, Interrupted, Others, ProbeNext, Debugger, captureVars
<1>3. [Next]_captureVars => [EventsNext]_eventVars
  BY DEF Next, Hits, Continued, Interrupted, Others, EventsNext, captureVars
<1> QED
  BY <1>1, <1>2, <1>3, PTL DEF Spec, ProbeSpec, EventsSpec

(* The properties of the processes and of the records hold where the       *)
(* records decide what the processes do.                                   *)
THEOREM CaptureIsSafe == Spec => [](ClientIsReleased /\ RecordsAreOfSends)
BY CaptureImplementsBoth, ClientIsLetGo, RecordsOfSends, PTL
=============================================================================
