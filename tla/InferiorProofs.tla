--------------------------- MODULE InferiorProofs ---------------------------
(***************************************************************************)
(* Proofs about Injection, for every number of interrupting signals and    *)
(* for threads readable or not, provided that save does not raise inside   *)
(* finish_pending_call; and about Inferior: what holds of the injection    *)
(* script alone, and of the helper alone (NativeHelperProofs), holds of    *)
(* both in one client.  Every step of Inferior is a step of Injection or   *)
(* leaves the script, its calls and its records alone, and likewise for    *)
(* the helper, its counters and its report.                                *)
(***************************************************************************)
EXTENDS Inferior, NativeHelperProofs, TLAPS

-----------------------------------------------------------------------------
(* The script, whatever happens in the client.                             *)

NoEscape == "finish" \notin SaveFailsIn

\* Calls that have not returned: none while the script is between calls, at
\* most the one it waits in, at most the one that it is finishing.
CallsInv ==
  /\ inside => pc \in CallSteps
  /\ calls = <<>> \/ (inside \/ Finishing)
  /\ calls = <<>> \/ (alive /\ attached /\ origin = "set")
  /\ calls = <<>> \/ \E c \in CallSteps : calls = <<c>>
  /\ calls = <<>> \/ (inside => calls = <<pc>>)
  /\ calls = <<>> \/ (pc = "free_failed" => calls = <<"free">>)
  /\ pc \in CallSteps \cup {"idle_check"} => attached

Late == {"finally", "free", "free_failed", "detach", "save", "ended"}

\* "launched" is said only after ncut_launch has returned 0, and is on file
\* only when the script has ended.
LaunchInv ==
  /\ status = "launched" => worker /\ pc \in Late
  /\ file.status = "launched" => worker /\ pc = "ended" /\ (file.detached => detached)
  /\ parent = "armed" => worker /\ detached /\ pc = "ended"

InjectionInv == CallsInv /\ LaunchInv

(* What the standard operators say of an empty list and of a single call.  *)
LEMMA OneCall ==
  ASSUME NEW c
  PROVE  <<c>> # <<>> /\ Tail(<<c>>) = <<>> /\ Head(<<c>>) = c /\ <<c>> \o <<>> = <<c>>
         /\ Len(<<c>>) = 1 /\ Len(<<>>) = 0
<1>1. <<c>> # <<>> /\ Head(<<c>>) = c /\ Len(<<c>>) = 1 /\ Len(<<>>) = 0
  OBVIOUS
<1>2. Tail(<<c>>) = <<>>
  OBVIOUS
<1>3. <<c>> \o <<>> = <<c>>
  OBVIOUS
<1> QED BY <1>1, <1>2, <1>3

LEMMA InitHolds == InjectionInit => InjectionInv
<1> SUFFICES ASSUME InjectionInit PROVE InjectionInv
  OBVIOUS
<1>1. CallsInv
  BY DEF InjectionInit, CallsInv, Finishing, CallSteps, LoaderCalls
<1>2. LaunchInv
  BY DEF InjectionInit, LaunchInv, Absent
<1> QED BY <1>1, <1>2 DEF InjectionInv

(* A call that returns to GDB, or in the loop of finish_pending_call, was  *)
(* the only one.                                                           *)
LEMMA ReturnLeavesNone ==
  ASSUME CallsInv, NEW c, CallReturns(c)
  PROVE  calls' = <<>> /\ alive /\ attached
  BY OneCall DEF CallsInv, CallReturns

(* At most one call is out, and only where the script waits for it: in     *)
(* inferior_call, or in finish_pending_call.                               *)
LEMMA CallsStep == CallsInv /\ NoEscape /\ [InjectionNext]_vars => CallsInv'
<1> SUFFICES ASSUME CallsInv, NoEscape, [InjectionNext]_vars PROVE CallsInv'
  OBVIOUS
<1> USE DEF CallsInv, CallSteps, LoaderCalls, Finishing, clientVars, statusVars
<1>1. CASE Attach
  BY <1>1 DEF Attach, Raise
<1>2. CASE IdleCheck
  BY <1>2 DEF IdleCheck, Raise
<1>3. CASE Continue
  BY <1>3 DEF Continue
<1>4. CASE Finished
  BY <1>4 DEF Finished, Pending
<1>5. CASE Finally
  BY <1>5 DEF Finally
<1>6. CASE Detach
  BY <1>6 DEF Detach
<1>7. CASE End
  BY <1>7 DEF End
<1>8. ASSUME NEW c \in CallSteps, Begin(c) PROVE CallsInv'
  BY <1>8, OneCall DEF Begin
<1>9. ASSUME NEW c \in CallSteps, ClientGone(c) PROVE CallsInv'
  BY <1>9 DEF ClientGone, CallRaises, Raise
<1>10. ASSUME NEW c \in CallSteps, LoaderReturns(c) PROVE CallsInv'
  BY <1>10, ReturnLeavesNone DEF LoaderReturns, Inside, NotRestored, CallRaises, Raise, Ok
<1>11. CASE LaunchReturns
  BY <1>11, ReturnLeavesNone DEF LaunchReturns, Inside, NotRestored, CallRaises, Raise
<1>12. CASE FreeReturns
  BY <1>12, ReturnLeavesNone DEF FreeReturns, Inside, NotRestored, CallRaises
<1>13. CASE ContinuedReturns
  BY <1>13, ReturnLeavesNone DEF ContinuedReturns
<1>14. CASE SaveFails
  BY <1>14 DEF SaveFails, Raise
<1>15. CASE FinishRaises
  BY <1>15 DEF FinishRaises, NoEscape
<1>16. CASE StoppedAgain
  BY <1>16 DEF StoppedAgain
<1>17. CASE ClientDies
  BY <1>17 DEF ClientDies
<1>18. ASSUME NEW c \in CallSteps, Interrupted(c) PROVE CallsInv'
  BY <1>18 DEF Interrupted, Inside, CallRaises, Raise
<1>19. CASE ParentGivesUp
  BY <1>19 DEF ParentGivesUp
<1>20. CASE ParentReads
  BY <1>20 DEF ParentReads
<1>21. CASE UNCHANGED vars
  BY <1>21 DEF vars
<1> QED
  BY <1>1, <1>2, <1>3, <1>4, <1>5, <1>6, <1>7, <1>8, <1>9, <1>10, <1>11, <1>12, <1>13, <1>14,
     <1>15, <1>16, <1>17, <1>18, <1>19, <1>20, <1>21
     DEF InjectionNext, Script, Client, Mishaps, Ended

(* What is said of the launch, on file and to the parent, stays true.      *)
LEMMA LaunchStep == LaunchInv /\ CallsInv /\ [InjectionNext]_vars => LaunchInv'
<1> SUFFICES ASSUME LaunchInv, CallsInv, [InjectionNext]_vars PROVE LaunchInv'
  OBVIOUS
<1> USE DEF LaunchInv, Late, CallSteps, LoaderCalls, Finishing, clientVars, statusVars
<1>1. CASE Attach
  BY <1>1 DEF Attach, Raise
<1>2. CASE IdleCheck
  BY <1>2 DEF IdleCheck, Raise, Save
<1>3. CASE Continue
  BY <1>3 DEF Continue, Save
<1>4. CASE Finished
  BY <1>4 DEF Finished
<1>5. CASE Finally
  BY <1>5 DEF Finally
<1>6. CASE Detach
  BY <1>6 DEF Detach
<1>7. CASE End
  BY <1>7 DEF End, Save
<1>8. ASSUME NEW c \in CallSteps, Begin(c) PROVE LaunchInv'
  BY <1>8 DEF Begin
<1>9. ASSUME NEW c \in CallSteps, ClientGone(c) PROVE LaunchInv'
  BY <1>9 DEF ClientGone, CallRaises, Raise
<1>10. ASSUME NEW c \in CallSteps, LoaderReturns(c) PROVE LaunchInv'
  BY <1>10 DEF LoaderReturns, Inside, NotRestored, CallRaises, Raise, Ok
<1>11. CASE LaunchReturns
  BY <1>11 DEF LaunchReturns, Inside, NotRestored, CallRaises, Raise
<1>12. CASE FreeReturns
  BY <1>12 DEF FreeReturns, Inside, NotRestored, CallRaises
<1>13. CASE ContinuedReturns
  <2>1. pc = "free_failed" => worker' = worker
    BY <1>13, OneCall DEF ContinuedReturns, CallReturns, CallsInv
  <2> QED BY <1>13, <2>1 DEF ContinuedReturns
<1>14. CASE SaveFails
  BY <1>14 DEF SaveFails, Raise
<1>15. CASE FinishRaises
  BY <1>15 DEF FinishRaises
<1>16. CASE StoppedAgain
  BY <1>16 DEF StoppedAgain
<1>17. CASE ClientDies
  BY <1>17 DEF ClientDies
<1>18. ASSUME NEW c \in CallSteps, Interrupted(c) PROVE LaunchInv'
  BY <1>18 DEF Interrupted, Inside, CallRaises, Raise
<1>19. CASE ParentGivesUp
  BY <1>19 DEF ParentGivesUp
<1>20. CASE ParentReads
  BY <1>20 DEF ParentReads
<1>21. CASE UNCHANGED vars
  BY <1>21 DEF vars
<1> QED
  BY <1>1, <1>2, <1>3, <1>4, <1>5, <1>6, <1>7, <1>8, <1>9, <1>10, <1>11, <1>12, <1>13, <1>14,
     <1>15, <1>16, <1>17, <1>18, <1>19, <1>20, <1>21
     DEF InjectionNext, Script, Client, Mishaps, Ended

\* The step of NeverAcrossACall.
SafeStep ==
  /\ Len(calls') > Len(calls) => calls = <<>>
  /\ detached' # detached => calls = <<>>

(* A step from a state of the invariant begins no second call and does not *)
(* detach from a client in a call.                                         *)
LEMMA SafeSteps == CallsInv /\ [InjectionNext]_vars => [SafeStep]_vars
<1> SUFFICES ASSUME CallsInv, InjectionNext PROVE SafeStep
  BY DEF SafeStep
<1> USE DEF SafeStep, clientVars, statusVars
<1>1. CASE calls = <<>>
  BY <1>1
<1>2. CASE calls # <<>>
  <2> USE <1>2
  <2>1. calls' = calls \/ calls' = <<>>
    BY ReturnLeavesNone
       DEF InjectionNext, Script, Client, Mishaps, Ended, vars, Attach, IdleCheck, Continue, Finished,
           Finally, Detach, End, Begin, ClientGone, LoaderReturns, LaunchReturns, FreeReturns,
           ContinuedReturns, SaveFails, FinishRaises, StoppedAgain, ClientDies, Interrupted,
           ParentGivesUp, ParentReads, CallsInv, CallSteps, LoaderCalls, Finishing
  <2>2. \E c \in CallSteps : calls = <<c>>
    BY DEF CallsInv
  <2>3. ~(Len(calls') > Len(calls))
    BY <2>1, <2>2, OneCall
  <2>4. detached' = detached
    BY DEF InjectionNext, Script, Client, Mishaps, Ended, vars, Attach, IdleCheck, Continue, Finished,
           Finally, Detach, End, Begin, ClientGone, LoaderReturns, LaunchReturns, FreeReturns,
           ContinuedReturns, SaveFails, FinishRaises, StoppedAgain, ClientDies, Interrupted,
           ParentGivesUp, ParentReads, CallsInv, CallSteps, LoaderCalls, Finishing
  <2> QED BY <2>3, <2>4
<1> QED BY <1>1, <1>2

-----------------------------------------------------------------------------
(* The invariant holds in every behaviour in which save does not raise in  *)
(* finish_pending_call (inject_in_gdb, finish_pending_call).               *)
THEOREM InjectionInvariant == ASSUME NoEscape PROVE InjectionSpec => []InjectionInv
<1>1. InjectionInv /\ [InjectionNext]_vars => InjectionInv'
  BY CallsStep, LaunchStep DEF InjectionInv
<1> QED BY InitHolds, <1>1, PTL DEF InjectionSpec

(* No call is begun, and the client is not let go, across an unfinished    *)
(* call (inject_in_gdb).                                                   *)
THEOREM CallsAreFinished == ASSUME NoEscape PROVE InjectionSpec => NeverAcrossACall
<1>1. InjectionInv /\ [InjectionNext]_vars => [SafeStep]_vars
  BY SafeSteps DEF InjectionInv
<1> QED BY InjectionInvariant, <1>1, PTL DEF InjectionSpec, NeverAcrossACall, SafeStep

(* The marker is created for a worker that ncut_launch started, in a       *)
(* client that GDB has left and that is in no call (run_injection).        *)
THEOREM OnlyLaunchedIsArmed == ASSUME NoEscape PROVE InjectionSpec => []ArmedIsLaunched
<1>1. InjectionInv => ArmedIsLaunched
  BY DEF InjectionInv, CallsInv, LaunchInv, ArmedIsLaunched, Finishing, CallSteps, LoaderCalls
<1> QED BY InjectionInvariant, <1>1, PTL

-----------------------------------------------------------------------------
(* The script and the helper in one client.                                *)

(* The composition implements the script's specification: the helper's     *)
(* threads take no step that inject_in_gdb and run_injection could not see *)
(* without them.                                                           *)
THEOREM ImplementsInjection == Spec => InjectionSpec
<1>1. Init => InjectionInit
  BY DEF Init
<1>2. ASSUME [Next]_inferiorVars PROVE [InjectionNext]_vars
  <2>1. CASE CallsReturn
    BY <2>1 DEF CallsReturn, InjectionNext
  <2>2. CASE Debugger
    BY <2>2 DEF Debugger, InjectionNext
  <2>3. CASE Surroundings
    BY <2>3 DEF Surroundings, InjectionNext
  <2>4. CASE WorkerThread
    BY <2>4 DEF WorkerThread
  <2>5. CASE NetworkInHelper
    BY <2>5 DEF NetworkInHelper
  <2>6. CASE NetworkThread
    BY <2>6 DEF NetworkThread
  <2>7. CASE UNCHANGED inferiorVars
    BY <2>7 DEF inferiorVars
  <2> QED
    BY <1>2, <2>1, <2>2, <2>3, <2>4, <2>5, <2>6, <2>7 DEF Next
<1> QED
  BY <1>1, <1>2, PTL DEF Spec, InjectionSpec

(* With the helper beside it, the script neither begins a call nor lets    *)
(* the client go across an unfinished call, unless save raises in          *)
(* finish_pending_call.                                                    *)
THEOREM CallsAreFinishedBesideTheHelper ==
  ASSUME NoEscape PROVE Spec => NeverAcrossACall
<1>1. InjectionSpec => NeverAcrossACall
  BY CallsAreFinished
<1> QED
  BY <1>1, ImplementsInjection, PTL

(* The marker that the worker thread waits for is created only when the    *)
(* worker runs, GDB has detached and no call is left in the client, under  *)
(* the same condition.                                                     *)
THEOREM MarkerMeansLaunched ==
  ASSUME NoEscape PROVE Spec => []ArmedIsLaunched
<1>1. InjectionSpec => []ArmedIsLaunched
  BY OnlyLaunchedIsArmed
<1> QED
  BY <1>1, ImplementsInjection, PTL

(* The composition implements the helper's specification: GDB, its calls   *)
(* and run_injection start the worker and stop it for a while, and touch   *)
(* nothing of it.                                                          *)
THEOREM ImplementsHelper == Spec => HelperSpec
<1>1. Init => HelperInit
  BY DEF Init
<1>2. ASSUME [Next]_inferiorVars PROVE [HelperNext]_helperVars
  <2>1. CASE CallsReturn
    BY <2>1 DEF CallsReturn, HelperNext, WorkerNext
  <2>2. CASE Debugger
    BY <2>2 DEF Debugger
  <2>3. CASE Surroundings
    BY <2>3 DEF Surroundings
  <2>4. CASE WorkerThread
    BY <2>4 DEF WorkerThread, HelperNext
  <2>5. CASE NetworkInHelper
    BY <2>5 DEF NetworkInHelper, HelperNext
  <2>6. CASE NetworkThread
    BY <2>6 DEF NetworkThread, HelperNext
  <2>7. CASE UNCHANGED inferiorVars
    BY <2>7 DEF inferiorVars
  <2> QED
    BY <1>2, <2>1, <2>2, <2>3, <2>4, <2>5, <2>6, <2>7 DEF Next
<1> QED
  BY <1>1, <1>2, PTL DEF Spec, HelperSpec

(* In the client that GDB stops and lets go, the business object is        *)
(* deleted once, worker.json is honest, a completed report is final, and a *)
(* report that is read while it is overwritten can be read.                *)
THEOREM HelperIsSafeBesideTheScript ==
  Spec => [](FreedOnce /\ ReportIsHonest /\ CompletedIsFinal) /\ LeftoverIsANewline
BY ImplementsHelper, ObjectFreedOnce, HonestReport, FinalWhenCompleted, OldTextIsANewline, PTL
=============================================================================
