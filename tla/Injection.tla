----------------------------- MODULE Injection ------------------------------
(***************************************************************************)
(* The script that GDB runs inside the client (inject_in_gdb) and the      *)
(* parent that waits for it (run_injection).  The script calls functions   *)
(* of the stopped client one after the other.  A signal can interrupt a    *)
(* call: it is then unfinished, with the loader's or the allocator's locks *)
(* taken, until the client is continued and the call returns.              *)
(***************************************************************************)
EXTENDS Naturals, Sequences

CONSTANTS
  MaxInterrupts,   \* bound on the signals that interrupt a call
  SaveFailsIn      \* where save can raise: "script", "finish"

ASSUME InjectionAssumption ==
  /\ MaxInterrupts \in Nat
  /\ SaveFailsIn \subseteq {"script", "finish"}

VARIABLES
  pc,          \* the script's next step
  inside,      \* it waits in inferior_call
  calls,       \* calls in the client that have not returned, the last one first
  alive,       \* the client lives
  stopped,     \* the client is stopped and GDB has control
  origin,      \* call_origin: "none", "set", or "missed", set and the registers differ
  allocated,   \* scratch memory to free
  worker,      \* ncut_launch has started the worker thread
  status, attached, detached,   \* the script's status record
  file,        \* injection.json
  parent,      \* run_injection
  interrupts   \* signals so far

clientVars == <<calls, alive, stopped, worker, interrupts>>
statusVars == <<status, attached, detached>>
vars == <<pc, inside, clientVars, origin, allocated, statusVars, file, parent>>

LoaderCalls == {"malloc", "dlopen", "dlsym"}
CallSteps == LoaderCalls \cup {"launch", "free"}
Absent == [status |-> "absent", detached |-> FALSE]

InjectionInit ==
  /\ pc = "attach"
  /\ inside = FALSE
  /\ calls = <<>>
  /\ alive = TRUE
  /\ stopped = FALSE
  /\ origin = "none"
  /\ allocated = FALSE
  /\ worker = FALSE
  /\ status = "preflight"
  /\ attached = FALSE
  /\ detached = FALSE
  /\ file = Absent
  /\ parent = "waiting"
  /\ interrupts = 0

-----------------------------------------------------------------------------
\* save(output, status)
Save(record) == file' = [status |-> record, detached |-> detached]

\* Whatever raises inside the try leads to its except clause; whatever
\* raises in there, or while "free" is handled, goes on to what is left.
Raise == pc' = "except" /\ status' = "injection_failed" /\ inside' = FALSE

Attach ==
  /\ pc = "attach"
  /\ \/ /\ pc' = "idle_check" /\ attached' = TRUE /\ stopped' = TRUE
        /\ UNCHANGED <<status, inside>>
     \/ Raise /\ UNCHANGED <<attached, stopped>>
  /\ UNCHANGED <<calls, alive, worker, interrupts, origin, allocated, detached, file, parent>>

\* The main thread is idle in poll and the network service is what it should
\* be; then the first save.
IdleCheck ==
  /\ pc = "idle_check"
  /\ \/ pc' = "malloc" /\ status' = "loader_calls" /\ Save("loader_calls") /\ UNCHANGED inside
     \/ Raise /\ UNCHANGED file
  /\ UNCHANGED <<clientVars, origin, allocated, attached, detached, parent>>

\* The same record is saved again when ncut_launch is about to be called.
SaveFails ==
  /\ "script" \in SaveFailsIn
  /\ pc = "launch" /\ ~inside
  /\ Raise
  /\ UNCHANGED <<clientVars, origin, allocated, attached, detached, file, parent>>

-----------------------------------------------------------------------------
(* inferior_call: it begins, and the client runs until it returns, is      *)
(* interrupted or dies.                                                    *)

\* gdb.error in a call, or before one of a dead client.
CallRaises(c) ==
  IF c = "free" THEN pc' = "free_failed" /\ inside' = FALSE /\ UNCHANGED status ELSE Raise

CallReturns(c) == calls # <<>> /\ Head(calls) = c /\ calls' = Tail(calls) /\ stopped' = TRUE

Inside(c) == inside /\ pc = c /\ c \in CallSteps

Begin(c) ==
  /\ pc = c /\ c \in CallSteps /\ ~inside
  /\ alive /\ stopped
  /\ inside' = TRUE
  /\ calls' = <<c>> \o calls
  /\ stopped' = FALSE
  /\ origin' = "set"
  /\ UNCHANGED <<pc, alive, worker, interrupts, allocated, statusVars, file, parent>>

Ok(c) == IF c = "malloc" THEN "dlopen" ELSE IF c = "dlopen" THEN "dlsym" ELSE "launch"

\* The call has returned, but the registers are not where it began, or cannot
\* be read: inferior_call_origin_not_restored, or gdb.error.
NotRestored(c) == CallRaises(c) /\ origin' \in {"set", "missed"}

\* malloc, dlopen and dlsym return a pointer, or null.
LoaderReturns(c) ==
  /\ c \in LoaderCalls /\ Inside(c)
  /\ CallReturns(c)
  /\ \/ /\ pc' = Ok(c)
        /\ allocated' = (allocated \/ c = "malloc")
        /\ inside' = FALSE
        /\ origin' = "none"
        /\ UNCHANGED status
     \/ Raise /\ origin' = "none" /\ UNCHANGED allocated
     \/ NotRestored(c) /\ UNCHANGED allocated
  /\ UNCHANGED <<alive, worker, interrupts, attached, detached, file, parent>>

\* ncut_launch starts the worker and returns 0, or refuses.
LaunchReturns ==
  /\ Inside("launch") /\ CallReturns("launch")
  /\ worker' \in BOOLEAN
  /\ \/ /\ inside' = FALSE
        /\ origin' = "none"
        /\ status' = IF worker' THEN "launched" ELSE "launch_rejected"
        /\ pc' = "finally"
     \/ NotRestored("launch")
  /\ UNCHANGED <<alive, interrupts, allocated, attached, detached, file, parent>>

FreeReturns ==
  /\ Inside("free") /\ CallReturns("free")
  /\ \/ pc' = "detach" /\ origin' = "none" /\ inside' = FALSE /\ UNCHANGED status
     \/ NotRestored("free")
  /\ UNCHANGED <<alive, worker, interrupts, allocated, attached, detached, file, parent>>

Interrupted(c) ==
  /\ Inside(c) /\ alive /\ interrupts < MaxInterrupts
  /\ CallRaises(c)
  /\ stopped' = TRUE
  /\ interrupts' = interrupts + 1
  /\ UNCHANGED <<calls, alive, worker, origin, allocated, attached, detached, file, parent>>

ClientGone(c) ==
  /\ ~alive /\ pc = c /\ c \in CallSteps
  /\ CallRaises(c)
  /\ UNCHANGED <<clientVars, origin, allocated, attached, detached, file, parent>>

-----------------------------------------------------------------------------
(* finish_pending_call, from the except clause and from the failed free.   *)

Finishing == pc \in {"except", "free_failed"}

\* Mutant: only the stack is looked at.
Pending_StackOnly(seen) == seen /\ calls # <<>>

\* A walk of the stack may end before it meets the frame of the call ("seen"
\* is false); the registers are then not where the call began.  They can also
\* be elsewhere when no call is left.
Pending(seen) ==
  alive /\ IF calls # <<>> THEN seen \/ origin = "set" ELSE origin = "missed"

\* One round of the loop: save, then continue the client.  A thread or a stack
\* that cannot be read counts as an unfinished call, so a round is possible
\* whenever the client lives.
Continue ==
  /\ Finishing /\ stopped /\ alive
  /\ status' = "inferior_call_pending"
  /\ Save("inferior_call_pending")
  /\ stopped' = FALSE
  /\ UNCHANGED <<pc, inside, calls, alive, worker, interrupts, origin, allocated, attached,
                 detached, parent>>

\* save raises in the loop: the finally clause is all that is left.
FinishRaises ==
  /\ "finish" \in SaveFailsIn
  /\ Finishing /\ stopped /\ Pending(TRUE)
  /\ pc' = IF pc = "except" THEN "finally" ELSE "detach"
  /\ status' = "inferior_call_pending"
  /\ UNCHANGED <<inside, clientVars, origin, allocated, attached, detached, file, parent>>

\* The continued call returns to GDB ...
ContinuedReturns ==
  /\ Finishing /\ ~stopped /\ alive /\ calls # <<>>
  /\ CallReturns(Head(calls))
  /\ worker' \in IF Head(calls) = "launch" THEN BOOLEAN ELSE {worker}
  /\ UNCHANGED <<pc, inside, alive, interrupts, origin, allocated, statusVars, file, parent>>

\* ... or a signal stops the client again; outside a call it is anywhere.
StoppedAgain ==
  /\ Finishing /\ ~stopped /\ alive /\ interrupts < MaxInterrupts
  /\ stopped' = TRUE
  /\ interrupts' = interrupts + 1
  /\ IF calls = <<>> /\ origin # "none" THEN origin' \in {"set", "missed"}
     ELSE UNCHANGED origin
  /\ UNCHANGED <<pc, inside, calls, alive, worker, allocated, statusVars, file, parent>>

\* Mutant: a client that is gone still counts as one in a call.
Finished_NeedsClient ==
  /\ Finishing
  /\ ~attached \/ (alive /\ stopped /\ \E seen \in BOOLEAN : ~Pending(seen))
  /\ origin' = "none"
  /\ IF pc = "except" THEN pc' = "finally" /\ status' = "injection_failed"
     ELSE pc' = "detach" /\ UNCHANGED status
  /\ UNCHANGED <<inside, clientVars, allocated, attached, detached, file, parent>>

Finished ==
  /\ Finishing
  /\ ~alive \/ ~attached \/ (stopped /\ \E seen \in BOOLEAN : ~Pending(seen))
  /\ origin' = "none"
  /\ IF pc = "except" THEN pc' = "finally" /\ status' = "injection_failed"
     ELSE pc' = "detach" /\ UNCHANGED status
  /\ UNCHANGED <<inside, clientVars, allocated, attached, detached, file, parent>>

-----------------------------------------------------------------------------
(* The finally clause, and the parent.                                     *)

Finally ==
  /\ pc = "finally"
  /\ pc' = IF ~attached THEN "save" ELSE IF allocated THEN "free" ELSE "detach"
  /\ UNCHANGED <<inside, clientVars, origin, allocated, statusVars, file, parent>>

\* A detached client runs on, calls in progress or not.
Detach ==
  /\ pc = "detach"
  /\ pc' = "save"
  /\ detached' = alive
  /\ stopped' = FALSE
  /\ UNCHANGED <<inside, calls, alive, worker, interrupts, origin, allocated, status,
                 attached, file, parent>>

End ==
  /\ pc = "save"
  /\ pc' = "ended"
  /\ \/ Save(status)
     \/ "script" \in SaveFailsIn /\ UNCHANGED file
  /\ UNCHANGED <<inside, clientVars, origin, allocated, statusVars, parent>>

ClientDies ==
  /\ alive /\ pc # "ended"
  /\ alive' = FALSE
  /\ calls' = <<>>
  /\ stopped' = attached
  /\ UNCHANGED <<pc, inside, worker, interrupts, origin, allocated, statusVars, file, parent>>

ParentGivesUp ==
  /\ parent = "waiting" /\ pc # "ended"
  /\ parent' = "debugger_still_running"
  /\ UNCHANGED <<pc, inside, clientVars, origin, allocated, statusVars, file>>

\* Mutant: the status in the file is not looked at.
ParentReads_AnyStatus ==
  /\ parent = "waiting" /\ pc = "ended"
  /\ parent' = IF file.detached /\ alive THEN "armed" ELSE "refused"
  /\ UNCHANGED <<pc, inside, clientVars, origin, allocated, statusVars, file>>

\* The debugger has ended: the marker is created for a launched and detached
\* helper only, if the client runs untraced.
ParentReads ==
  /\ parent = "waiting" /\ pc = "ended"
  /\ parent' = IF file.status = "launched" /\ file.detached /\ alive THEN "armed" ELSE "refused"
  /\ UNCHANGED <<pc, inside, clientVars, origin, allocated, statusVars, file>>

Script ==
  \/ Attach \/ IdleCheck \/ Continue \/ Finished \/ Finally \/ Detach \/ End
  \/ \E c \in CallSteps : Begin(c) \/ ClientGone(c)

Client ==
  \/ \E c \in CallSteps : LoaderReturns(c)
  \/ LaunchReturns \/ FreeReturns \/ ContinuedReturns

Mishaps ==
  \/ SaveFails \/ StoppedAgain \/ ClientDies
  \/ \E c \in CallSteps : Interrupted(c)

Ended == pc = "ended" /\ parent # "waiting" /\ UNCHANGED vars

InjectionNext ==
  Script \/ Client \/ Mishaps \/ FinishRaises \/ ParentGivesUp \/ ParentReads \/ Ended

InjectionSpec == InjectionInit /\ [][InjectionNext]_vars

\* GDB and the client's calls go on; signals and failures need not happen.
InjectionFairSpec == InjectionSpec /\ WF_vars(Script) /\ WF_vars(Client)

-----------------------------------------------------------------------------
Statuses ==
  {"preflight", "loader_calls", "inferior_call_pending", "injection_failed", "launched",
   "launch_rejected"}

FlagsOK ==
  /\ inside \in BOOLEAN /\ alive \in BOOLEAN /\ stopped \in BOOLEAN
  /\ allocated \in BOOLEAN /\ worker \in BOOLEAN
  /\ attached \in BOOLEAN /\ detached \in BOOLEAN

FileOK == file \in [status : Statuses \cup {"absent"}, detached : BOOLEAN]

InjectionTypeOK ==
  /\ pc \in {"attach", "idle_check", "except", "free_failed", "finally", "detach", "save",
             "ended"} \cup CallSteps
  /\ calls \in Seq(CallSteps)
  /\ status \in Statuses
  /\ parent \in {"waiting", "debugger_still_running", "armed", "refused"}
  /\ interrupts \in 0..MaxInterrupts
  /\ origin \in {"none", "set", "missed"}
  /\ FlagsOK
  /\ FileOK

(* No call is begun, and the client is not let go, while an earlier call   *)
(* has not returned: interrupted once or often, with its stack readable or *)
(* not, it is continued until it has (inject_in_gdb, the comment of        *)
(* finish_pending_call).                                                   *)
NeverAcrossACall ==
  [][/\ Len(calls') > Len(calls) => calls = <<>>
     /\ detached' # detached => calls = <<>>]_vars

(* The marker means what the helper takes it for: ncut_launch returned 0,  *)
(* GDB has detached and no call is left in the client, even if calls were  *)
(* interrupted or the client died before (run_injection).                  *)
ArmedIsLaunched ==
  parent = "armed" => worker /\ detached /\ calls = <<>> /\ pc = "ended"

\* A thread could not be read when no call was unfinished, or the registers were
\* not where the last call began: the client was continued, and the script
\* waits until something stops it.
TakenForUnfinished == Finishing /\ alive /\ ~stopped /\ calls = <<>>

(* If calls return in the end, so does the debugger: interrupted calls, a  *)
(* failed free or a dead client do not keep it in the client, and a thread *)
(* that cannot be read or that is elsewhere than before the call can do so *)
(* only while the client runs on unharmed (finish_pending_call).           *)
DebuggerEnds == <>[](pc = "ended" \/ TakenForUnfinished)
=============================================================================
