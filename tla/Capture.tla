------------------------------ MODULE Capture -------------------------------
(***************************************************************************)
(* The capture probe at work: the processes of Probe, and while the        *)
(* debugger waits in "continue" the client's tasks of ProbeEvents hitting  *)
(* its breakpoints.  A handler that returns true ends the waiting, and so  *)
(* does a signal; the events decide what the debugger says of it.          *)
(***************************************************************************)
EXTENDS Probe, ProbeEvents

captureVars == <<probeVars, eventVars>>

Init == ProbeInit /\ EventsInit

Hits ==
  /\ dpc = "observe" /\ client = "alive" /\ stop = "nobody"
  /\ \E t \in Tasks : Dispatch(t) \/ Serialise(t) \/ TaskEnds(t)
  /\ UNCHANGED probeVars

\* state['status'], whatever ended the waiting.
Verdict ==
  status' \in {"captured", "no_matching_task"} => (status' = "captured" <=> events # {})

\* A handler has stopped the client, a signal has, or it is gone.
Continued ==
  /\ Stops
  /\ Verdict
  /\ UNCHANGED eventVars

Interrupted ==
  /\ TakeSigint
  /\ Verdict
  /\ IF dpc = "observe" /\ ~stopped THEN Deadline ELSE UNCHANGED eventVars

Others ==
  /\ \/ OwnerStops \/ ClientEnds \/ Observe \/ KillTimesOut \/ KilledLater
     \/ OperatorInterrupts \/ Ended
     \/ Load \/ Attach \/ Plant \/ Detach \/ SaveAndQuit \/ Quit
  /\ UNCHANGED eventVars

Next == Hits \/ Continued \/ Interrupted \/ Others

Spec == Init /\ [][Next]_captureVars

\* Only the parent is fair: neither gdb nor the client needs to do anything.
FairSpec == Spec /\ WF_captureVars(Observe /\ UNCHANGED eventVars)
=============================================================================
