------------------------------ MODULE Inferior ------------------------------
(***************************************************************************)
(* One client with all that happens in it during a send: the script that   *)
(* GDB runs in it (Injection) and the helper that the script launches      *)
(* (NativeHelper).  ncut_launch, which the script calls, starts the worker *)
(* thread; the threads of the client run only while GDB does not have it   *)
(* stopped; the worker takes the marker that run_injection creates when    *)
(* the debugger has ended.  Here save does not raise in                    *)
(* finish_pending_call: module Injection alone shows what happens then.    *)
(***************************************************************************)
EXTENDS Injection, NativeHelper

inferiorVars == <<vars, helperVars>>

Init == InjectionInit /\ HelperInit

\* The launch call starts a worker thread or it does not.
CallsReturn ==
  /\ Client
  /\ IF Head(calls) = "launch" THEN (Launch \/ LaunchRefused) /\ (worker' <=> wpc' = "poll")
     ELSE UNCHANGED helperVars

Debugger == Script /\ UNCHANGED helperVars

Surroundings == (Mishaps \/ ParentGivesUp \/ ParentReads) /\ UNCHANGED helperVars

Runs == alive /\ ~stopped

\* The marker is there when run_injection has created it.
WorkerThread ==
  /\ Runs /\ wpc # "launch"
  /\ WorkerNext
  /\ wpc' = "prepare" => parent = "armed"
  /\ UNCHANGED vars

NetworkInHelper == Runs /\ NetworkRuns /\ UNCHANGED vars

NetworkThread == Runs /\ NetworkCalls /\ UNCHANGED vars

Next ==
  CallsReturn \/ Debugger \/ Surroundings \/ WorkerThread \/ NetworkInHelper \/ NetworkThread

Spec == Init /\ [][Next]_inferiorVars

\* GDB, the client's calls and its threads go on, and the mutex is handed on;
\* signals and failures need not happen, and the client need not call back.
FairSpec ==
  /\ Spec
  /\ WF_inferiorVars(Debugger) /\ WF_inferiorVars(CallsReturn)
  /\ WF_inferiorVars(WorkerThread) /\ WF_inferiorVars(NetworkInHelper)
  /\ SF_inferiorVars(WorkerThread /\ WorkerLocks)
  /\ SF_inferiorVars(NetworkInHelper /\ NetworkLocks)

(* Once GDB has let go of a living client, the helper's thread ends: the   *)
(* marker may never be created, and a callback may come whenever it likes  *)
(* or never, while submit runs or while the object is deleted (worker).    *)
WorkerEnds == (pc = "ended" /\ alive /\ wpc # "launch") ~> (wpc = "ended")
=============================================================================
