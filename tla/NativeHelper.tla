---------------------------- MODULE NativeHelper ----------------------------
(***************************************************************************)
(* The module GDB loads into the client (native_send_helper.c): the worker *)
(* thread that ncut_launch starts, the callback it hands to the client's   *)
(* submit, and the client's network thread that invokes, copies and        *)
(* destroys that callback.  One mutex guards the counters and the report   *)
(* file worker.json; critical sections are two steps, taking the mutex and *)
(* leaving it, so that a thread can be seen to wait for it.                *)
(***************************************************************************)
EXTENDS Integers, FiniteSets

CONSTANT MaxClones   \* bound on the copies of the callback the client makes

ASSUME ClonesAssumption == MaxClones \in Nat

VARIABLES
  wpc,        \* where the worker thread is
  npc,        \* where the network thread is, as far as it runs helper code
  lock,       \* the thread that holds the mutex and the section it took it for
  st,         \* the counters and flags that report_locked writes out
  report,     \* the content of worker.json
  fd,         \* output_fd
  returned,   \* submit_returned
  pending,    \* pending_business is set
  target,     \* function.target: ours, or taken over by submit
  business,   \* the client's business object that carries the callback
  deletes,    \* calls of business_delete by the helper
  clones      \* copies of the callback the client still holds

helperVars == <<wpc, npc, lock, st, report, fd, returned, pending, target,
                business, deletes, clones>>

WorkerSteps == {"launch", "poll", "expire", "prepare", "parsed", "mark",
                "submit", "inside", "return", "release", "destroy", "leftover",
                "reject", "discard", "failed", "finish", "ended"}
NetworkSteps == {"idle", "invoke", "delete", "destroy", "clone"}
Flags == {"worker_done", "parsed", "submitted"}
Counters == [worker_done : BOOLEAN, parsed : BOOLEAN, submitted : BOOLEAN,
             callback_count : Nat, destroyed : Nat, live : Int, failure : 0..4]
Fresh == [worker_done |-> FALSE, parsed |-> FALSE, submitted |-> FALSE,
          callback_count |-> 0, destroyed |-> 0, live |-> 0, failure |-> 0]

\* Not recursive: a thread that takes it a second time waits for itself.
Free == <<>>

HelperInit ==
  /\ wpc = "launch"
  /\ npc = "idle"
  /\ lock = Free
  /\ st = Fresh
  /\ report = Fresh
  /\ fd = "none"
  /\ returned = FALSE
  /\ pending = FALSE
  /\ target = "none"
  /\ business = "none"
  /\ deletes = 0
  /\ clones = 0

-----------------------------------------------------------------------------
\* Mutant: the file is closed with the worker, callbacks or not.
Report_ClosesEarly(new) ==
  /\ report' = IF fd = "open" THEN new ELSE report
  /\ fd' = IF fd = "open" /\ new.worker_done THEN "closed" ELSE fd

\* report_locked: the report follows the state until the file is closed.
Report(new) ==
  /\ report' = IF fd = "open" THEN new ELSE report
  /\ fd' = IF fd = "open" /\ new.worker_done /\ new.live = 0 THEN "closed" ELSE fd

Publish(new) == st' = new /\ Report(new)
Keep(new) == st' = new /\ UNCHANGED <<report, fd>>

\* pthread_mutex_lock in one of the steps that begin with it.
WorkerLocks ==
  /\ wpc \in {"expire", "parsed", "mark", "return", "destroy", "reject", "discard",
              "failed", "finish"}
  /\ lock = Free
  /\ lock' = <<"worker", wpc>>
  /\ UNCHANGED <<wpc, npc, st, report, fd, returned, pending, target, business,
                 deletes, clones>>

NetworkLocks ==
  /\ npc \in {"invoke", "destroy", "clone"}
  /\ lock = Free
  /\ lock' = <<"network", npc>>
  /\ UNCHANGED <<wpc, npc, st, report, fd, returned, pending, target, business,
                 deletes, clones>>

WorkerUnlocks(at, next) ==
  /\ wpc = at
  /\ lock = <<"worker", at>>
  /\ lock' = Free
  /\ wpc' = next

NetworkUnlocks(at, next) ==
  /\ npc = at
  /\ lock = <<"network", at>>
  /\ lock' = Free
  /\ npc' = next

\* cb_destroy.
Destroyed == [st EXCEPT !.live = @ - 1, !.destroyed = @ + 1]

-----------------------------------------------------------------------------
(* The worker thread.                                                      *)

\* ncut_launch refuses what it is given, the service that it finds in the client
\* or a report that exists: nothing is created.
LaunchRefused ==
  /\ wpc = "launch"
  /\ wpc' = "ended"
  /\ UNCHANGED <<npc, lock, st, report, fd, returned, pending, target, business,
                 deletes, clones>>

\* ncut_launch: the report exists before the thread that updates it; when no
\* thread can be made the file is closed and left behind.
Launch ==
  /\ wpc = "launch"
  /\ report' = st
  /\ \/ wpc' = "poll" /\ fd' = "open"
     \/ wpc' = "ended" /\ fd' = "closed"
  /\ UNCHANGED <<npc, lock, st, returned, pending, target, business, deletes, clones>>

Poll ==
  /\ wpc = "poll"
  /\ wpc' \in {"prepare", "expire"}
  /\ UNCHANGED <<npc, lock, st, report, fd, returned, pending, target, business,
                 deletes, clones>>

Expire ==
  /\ WorkerUnlocks("expire", "ended")
  /\ Publish([st EXCEPT !.failure = 4, !.worker_done = TRUE])
  /\ UNCHANGED <<npc, returned, pending, target, business, deletes, clones>>

Parse ==
  /\ wpc = "prepare"
  /\ wpc' \in {"parsed", "failed"}
  /\ UNCHANGED <<npc, lock, st, report, fd, returned, pending, target, business,
                 deletes, clones>>

\* The payload does not survive the round trip.
ParseFailed ==
  /\ WorkerUnlocks("failed", "finish")
  /\ Publish([st EXCEPT !.failure = 1])
  /\ UNCHANGED <<npc, returned, pending, target, business, deletes, clones>>

\* Mutant: the round trip is reported together with the next change.
Parsed_Unwritten ==
  /\ \/ WorkerUnlocks("parsed", "mark")
     \/ WorkerUnlocks("parsed", "discard")
  /\ Keep([st EXCEPT !.parsed = TRUE])
  /\ UNCHANGED <<npc, returned, pending, target, business, deletes, clones>>

\* It does: a callback is allocated, or malloc fails.
Parsed ==
  /\ \/ WorkerUnlocks("parsed", "mark")
     \/ WorkerUnlocks("parsed", "discard")
  /\ Publish([st EXCEPT !.parsed = TRUE])
  /\ UNCHANGED <<npc, returned, pending, target, business, deletes, clones>>

AllocationFailed ==
  /\ WorkerUnlocks("discard", "finish")
  /\ Keep([st EXCEPT !.failure = 2])
  /\ UNCHANGED <<npc, returned, pending, target, business, deletes, clones>>

MarkSubmitted ==
  /\ WorkerUnlocks("mark", "submit")
  /\ target' = "ours"
  /\ Publish([st EXCEPT !.live = @ + 1, !.submitted = TRUE])
  /\ UNCHANGED <<npc, returned, pending, business, deletes, clones>>

\* submit moves the callback into a business object, or turns it down.
EnterSubmit ==
  /\ wpc = "submit"
  /\ \/ wpc' = "inside" /\ target' = "taken" /\ business' = "client"
     \/ wpc' = "return" /\ UNCHANGED <<target, business>>
  /\ UNCHANGED <<npc, lock, st, report, fd, returned, pending, deletes, clones>>

\* Until here submit reads the business object after its lower call.
LeaveSubmit ==
  /\ wpc = "inside"
  /\ wpc' = "return"
  /\ UNCHANGED <<npc, lock, st, report, fd, returned, pending, target, business,
                 deletes, clones>>

\* Mutant: an early callback's business object is overlooked.
SubmitReturned_NoRelease ==
  /\ WorkerUnlocks("return", "leftover")
  /\ returned' = TRUE
  /\ UNCHANGED <<npc, st, report, fd, pending, target, business, deletes, clones>>

\* Mutant: business_delete is called with the mutex held.
SubmitReturned_KeepsLock ==
  /\ wpc = "return"
  /\ lock = <<"worker", "return">>
  /\ IF pending THEN wpc' = "release" /\ UNCHANGED lock
     ELSE wpc' = "leftover" /\ lock' = Free
  /\ returned' = TRUE
  /\ pending' = FALSE
  /\ UNCHANGED <<npc, st, report, fd, target, business, deletes, clones>>

SubmitReturned ==
  /\ WorkerUnlocks("return", IF pending THEN "release" ELSE "leftover")
  /\ returned' = TRUE
  /\ pending' = FALSE
  /\ UNCHANGED <<npc, st, report, fd, target, business, deletes, clones>>

\* business_delete outside the mutex: it ends in the callback's cb_delete.
WorkerReleases ==
  /\ wpc = "release"
  /\ wpc' = "destroy"
  /\ business' = "deleted"
  /\ deletes' = deletes + 1
  /\ UNCHANGED <<npc, lock, st, report, fd, returned, pending, target, clones>>

WorkerDestroys ==
  /\ WorkerUnlocks("destroy", "leftover")
  /\ Publish(Destroyed)
  /\ UNCHANGED <<npc, returned, pending, target, business, deletes, clones>>

Leftover ==
  /\ wpc = "leftover"
  /\ wpc' = IF target = "ours" THEN "reject" ELSE "finish"
  /\ UNCHANGED <<npc, lock, st, report, fd, returned, pending, target, business,
                 deletes, clones>>

\* cb_delete of the callback that submit did not take, then failure 3; no
\* other thread has the callback, so the two sections are one.
Reject ==
  /\ WorkerUnlocks("reject", "finish")
  /\ st' = [Destroyed EXCEPT !.failure = 3]
  /\ Report(Destroyed)
  /\ target' = "none"
  /\ UNCHANGED <<npc, returned, pending, business, deletes, clones>>

Finish ==
  /\ WorkerUnlocks("finish", "ended")
  /\ Publish([st EXCEPT !.worker_done = TRUE])
  /\ UNCHANGED <<npc, returned, pending, target, business, deletes, clones>>

WorkerNext ==
  \/ WorkerLocks \/ LaunchRefused \/ Launch \/ Poll \/ Expire \/ Parse \/ ParseFailed \/ Parsed
  \/ AllocationFailed \/ MarkSubmitted \/ EnterSubmit \/ LeaveSubmit
  \/ SubmitReturned \/ WorkerReleases \/ WorkerDestroys \/ Leftover \/ Reject
  \/ Finish

-----------------------------------------------------------------------------
(* The network thread of the client.  When it calls, and whether it ever   *)
(* does, is the client's business; what it runs then is cb_invoke,         *)
(* cb_clone and cb_destroy.                                                *)

CallsInvoke ==
  /\ npc = "idle"
  /\ business = "client"
  /\ npc' = "invoke"
  /\ UNCHANGED <<wpc, lock, st, report, fd, returned, pending, target, business,
                 deletes, clones>>

\* Mutant: the callback releases the business object at once.
Invoke_ReleasesAtOnce ==
  /\ NetworkUnlocks("invoke", "delete")
  /\ business' = "helper"
  /\ pending' = FALSE
  /\ Publish([st EXCEPT !.callback_count = @ + 1])
  /\ UNCHANGED <<wpc, returned, target, deletes, clones>>

\* cb_invoke returns false: the business object now belongs to the helper,
\* which keeps it while submit may still read it.
Invoke ==
  /\ NetworkUnlocks("invoke", IF returned THEN "delete" ELSE "idle")
  /\ business' = "helper"
  /\ pending' = ~returned
  /\ Publish([st EXCEPT !.callback_count = @ + 1])
  /\ UNCHANGED <<wpc, returned, target, deletes, clones>>

NetworkReleases ==
  /\ npc = "delete"
  /\ npc' = "destroy"
  /\ business' = "deleted"
  /\ deletes' = deletes + 1
  /\ UNCHANGED <<wpc, lock, st, report, fd, returned, pending, target, clones>>

\* The client gives the request up and deletes it without an invocation; it
\* does not do so while its own submit still reads it.
ClientDrops ==
  /\ npc = "idle"
  /\ business = "client"
  /\ wpc # "inside"
  /\ business' = "deleted"
  /\ npc' = "destroy"
  /\ UNCHANGED <<wpc, lock, st, report, fd, returned, pending, target, deletes,
                 clones>>

CallsClone ==
  /\ npc = "idle"
  /\ business = "client"
  /\ clones + st.destroyed < MaxClones
  /\ npc' = "clone"
  /\ UNCHANGED <<wpc, lock, st, report, fd, returned, pending, target, business,
                 deletes, clones>>

Clone ==
  /\ NetworkUnlocks("clone", "idle")
  /\ clones' = clones + 1
  /\ Keep([st EXCEPT !.live = @ + 1])
  /\ UNCHANGED <<wpc, returned, pending, target, business, deletes>>

DropsClone ==
  /\ npc = "idle"
  /\ clones > 0
  /\ clones' = clones - 1
  /\ npc' = "destroy"
  /\ UNCHANGED <<wpc, lock, st, report, fd, returned, pending, target, business,
                 deletes>>

NetworkDestroys ==
  /\ NetworkUnlocks("destroy", "idle")
  /\ Publish(Destroyed)
  /\ UNCHANGED <<wpc, returned, pending, target, business, deletes, clones>>

\* What the network thread does once it is inside the helper's code.
NetworkRuns ==
  NetworkLocks \/ Invoke \/ NetworkReleases \/ Clone \/ NetworkDestroys

NetworkCalls == CallsInvoke \/ ClientDrops \/ CallsClone \/ DropsClone

HelperNext == WorkerNext \/ NetworkRuns \/ NetworkCalls

HelperSpec == HelperInit /\ [][HelperNext]_helperVars

\* Both threads are scheduled by the kernel and the mutex is handed on; the
\* client's submit returns and nothing says when the client calls.
HelperFairSpec == HelperSpec /\ WF_helperVars(WorkerNext) /\ WF_helperVars(NetworkRuns)
                 /\ SF_helperVars(WorkerLocks) /\ SF_helperVars(NetworkLocks)

-----------------------------------------------------------------------------
HelperTypeOK ==
  /\ wpc \in WorkerSteps
  /\ npc \in NetworkSteps
  /\ lock \in {Free} \cup ({"worker"} \X WorkerSteps)
                      \cup ({"network"} \X NetworkSteps)
  /\ st \in Counters
  /\ report \in Counters
  /\ fd \in {"none", "open", "closed"}
  /\ returned \in BOOLEAN
  /\ pending \in BOOLEAN
  /\ target \in {"none", "ours", "taken"}
  /\ business \in {"none", "client", "helper", "deleted"}
  /\ deletes \in Nat
  /\ clones \in 0..MaxClones

\* The business object is deleted once: not under submit's feet by a fast
\* callback, not a second time, and not after the client has deleted it.
FreedOnce ==
  /\ wpc = "inside" => business # "deleted"
  /\ deletes <= 1
  /\ deletes = 1 => st.callback_count = 1
  /\ wpc = "release" \/ npc = "delete" => business = "helper"

\* worker.json tells of the submission before the client's submit is entered,
\* and it is closed only on its last word, which is the true state.
ReportIsHonest ==
  /\ wpc \in {"submit", "inside"} \/ business # "none" => report.submitted
  /\ fd = "closed" /\ wpc # "launch" => report = st /\ st.live = 0

\* Mutant: completed() does not ask for worker_done.
Completed_BeforeDone(r) ==
  /\ r.parsed /\ r.submitted
  /\ r.callback_count = 1 /\ r.destroyed = 1
  /\ r.live = 0 /\ r.failure = 0

Completed(r) ==
  /\ r.worker_done /\ r.parsed /\ r.submitted
  /\ r.callback_count = 1 /\ r.destroyed = 1
  /\ r.live = 0 /\ r.failure = 0

\* A report that looks completed is the last one: both threads are through
\* with the helper's code and the business object has been released.
CompletedIsFinal ==
  Completed(report) =>
    /\ wpc = "ended" /\ npc = "idle" /\ lock = Free
    /\ business = "deleted" /\ deletes = 1 /\ clones = 0

\* worker.json is overwritten in place and cut afterwards, without regard to its
\* readers (run_injection's loop and inspect_trial).  "true" is one byte shorter
\* than "false" and no number gets shorter, so as long as a report turns at most
\* one flag on, all that is left of the old text is a newline, which JSON allows.
LeftoverIsANewline ==
  [][Cardinality({f \in Flags : report'[f]}) - Cardinality({f \in Flags : report[f]}) <= 1]_helperVars

\* A business object the client gave to the helper is never forgotten.
BusinessIsReleased == (business = "helper") ~> (business = "deleted")
=============================================================================
