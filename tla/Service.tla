------------------------------ MODULE Service ------------------------------
(***************************************************************************)
(* The owner's control service: the Runner with its record of the one      *)
(* pending operation (operation.json), the serial request loop, its stop   *)
(* on SIGTERM, and the backend processes it spawns, each of which runs one *)
(* Trial.  An instance s is one process of the service; a second instance  *)
(* can be started while the first one runs, and any of them can crash.     *)
(***************************************************************************)
EXTENDS Trial

CONSTANTS Instances,   \* service processes that may be started
          Manual       \* operations run by hand, beside the service

ASSUME ManualAssumption == Manual \subseteq Ops

VARIABLES
  svc,       \* svc[s]: where the process is in main(), run() or __call__
  stopping,  \* stopping[s]: SIGTERM has been received
  mem,       \* mem[s]: self.runner.state
  child,     \* child[s]: the backend it spawned and has not waited for
  disk       \* operation.json

serviceVars == <<svc, stopping, mem, child, disk>>
vars == <<trialVars, serviceVars>>

States == {"down", "loaded", "idle", "spawned", "saved", "waiting", "capturing"}
Records == [pending : Ops \cup {None}, last : Ids \cup {None},
            verdict : {"none", "failed", "completed"}]
Empty == [pending |-> None, last |-> None, verdict |-> "none"]

ServiceInit ==
  /\ Init
  /\ svc = [s \in Instances |-> "down"]
  /\ stopping = [s \in Instances |-> FALSE]
  /\ mem = [s \in Instances |-> Empty]
  /\ child = [s \in Instances |-> None]
  /\ disk = Empty

-----------------------------------------------------------------------------
Pending(s) == mem[s].pending

\* Mutant: the pending backend is taken for dead without looking.
Listed_Never(o) == FALSE

\* /proc/<pid>/stat still shows the backend: it runs, or its parent has not
\* waited for it and it is a zombie.
Listed(o) == Working(o) \/ \E s \in Instances : child[s] = o

\* Mutant: a missing or failed result alone counts as proof.
EndedBeforeInjection_AnyFailure(o) == out[o] \in {"empty", "failed", "preflight"}

\* The backend's printed result, or its absence, proves that nothing was
\* injected: BACKEND_ENDED_BEFORE_INJECTION or terminal_preflight.
EndedBeforeInjection(o) ==
  /\ out[o] \in {"empty", "failed", "preflight"}
  /\ BeforeInjection(rid[o])

\* Mutant: a worker that is done counts as completed.
NativeCompleted_AnyWorker(i) ==
  /\ result[i] # None
  /\ result[i].status \in {"pending", "finished"}
  /\ WorkerDone(i)
  /\ target[owner[i]] = client
  /\ ~Traced

\* completed() of inspect_trial, with the client's state read afresh.
NativeCompleted(i) ==
  /\ result[i] # None
  /\ result[i].status \in {"pending", "finished"}
  /\ WorkerOk(i)
  /\ target[owner[i]] = client
  /\ ~Traced

\* What dispatch answers to send_text(i, c).
Answer(s, i, c) ==
  CASE owner[i] # None /\ request[i] = None -> "invalid"
    [] owner[i] # None /\ request[i] \notin {c, None} -> "conflict"
    [] owner[i] # None /\ request[i] = c /\ result[i] = None -> "pending"
    [] owner[i] # None /\ request[i] = c /\ result[i] # None
         -> IF RecordedCompleted(i) THEN "replayed_ok" ELSE "replayed"
    [] owner[i] = None /\ stopping[s] -> "stopping"
    [] owner[i] = None /\ ~stopping[s] /\ Pending(s) # None -> "busy"
    [] OTHER -> "accepted"

\* What send_status(i) answers.
Status(s, i) ==
  IF mem[s].last = i
  THEN mem[s].verdict
  ELSE CASE result[i] = None -> "invalid"
         [] RecordedCompleted(i) -> "completed"
         [] OTHER -> "uncertain"

\* What the send-status command reports of i when no service answers: it reads
\* operation.json and the work directory by itself.
StoppedStatus(i) ==
  IF disk.last = i
  THEN disk.verdict
  ELSE CASE result[i] = None -> "invalid"
         [] RecordedCompleted(i) -> "completed"
         [] OTHER -> "uncertain"

SetService(s, where) == svc' = [svc EXCEPT ![s] = where]

-----------------------------------------------------------------------------
\* Runner.__init__, before the lock is taken.
Load(s) ==
  /\ svc[s] = "down"
  /\ SetService(s, "loaded")
  /\ mem' = [mem EXCEPT ![s] = disk]
  /\ UNCHANGED <<trialVars, stopping, child, disk>>

\* Service.__init__: flock, bind and listen.
Lock(s) ==
  /\ svc[s] = "loaded"
  /\ \A t \in Instances : svc[t] \in {"down", "loaded"}
  /\ SetService(s, "idle")
  /\ UNCHANGED <<trialVars, stopping, mem, child, disk>>

LockFails(s) ==
  /\ svc[s] = "loaded"
  /\ \E t \in Instances : svc[t] \notin {"down", "loaded"}
  /\ SetService(s, "down")
  /\ mem' = [mem EXCEPT ![s] = Empty]
  /\ UNCHANGED <<trialVars, stopping, child, disk>>

\* send_text(i, c) is accepted: the backend is spawned, waiting on its stdin.
Accept(s, o, i, c) ==
  /\ svc[s] = "idle"
  /\ Answer(s, i, c) = "accepted"
  /\ Start(o, i, c, "stdin")
  /\ child' = [child EXCEPT ![s] = o]
  /\ mem' = [mem EXCEPT ![s] = [Empty EXCEPT !.pending = o]]
  /\ SetService(s, "spawned")
  /\ UNCHANGED <<stopping, disk>>

\* Mutant: the pending record stays in memory.
SavePending_MemoryOnly(s) ==
  /\ svc[s] = "spawned"
  /\ SetService(s, "saved")
  /\ UNCHANGED <<trialVars, stopping, mem, child, disk>>

SavePending(s) ==
  /\ svc[s] = "spawned"
  /\ disk' = mem[s]
  /\ SetService(s, "saved")
  /\ UNCHANGED <<trialVars, stopping, mem, child>>

\* save raises: INVALID_REQUEST_OR_LOCAL_STATE, with the backend left behind.
SavePendingFails(s) ==
  /\ svc[s] = "spawned"
  /\ SetService(s, "idle")
  /\ UNCHANGED <<trialVars, stopping, mem, child, disk>>

\* communicate writes the request; a backend killed before does not read it.
WriteRequest(s) ==
  /\ svc[s] = "saved"
  /\ \/ ReadRequest(Pending(s))
     \/ pc[Pending(s)] # "stdin" /\ UNCHANGED trialVars
  /\ SetService(s, "waiting")
  /\ UNCHANGED <<stopping, mem, child, disk>>

\* 150 seconds have passed: NATIVE_OPERATION_PENDING, the backend goes on.
CommunicateTimeout(s) ==
  /\ svc[s] = "waiting"
  /\ Working(Pending(s))
  /\ SetService(s, "idle")
  /\ UNCHANGED <<trialVars, stopping, mem, child, disk>>

\* The record of o is closed: in memory first, then in operation.json, which
\* keeps the old record when the write fails.
Close(s, o, v) ==
  LET closed == [pending |-> None, last |-> rid[o], verdict |-> v] IN
  /\ mem' = [mem EXCEPT ![s] = closed]
  /\ disk' \in {closed, disk}

\* Mutant: only a backend that printed something is collected.
Collect_NeedsOutput(s) ==
  LET o == Pending(s) IN
  /\ svc[s] = "waiting"
  /\ ~Working(o)
  /\ out[o] # "empty"
  /\ child' = [child EXCEPT ![s] = None]
  /\ SetService(s, "idle")
  /\ \/ out[o] = "completed" /\ Close(s, o, "completed")
     \/ EndedBeforeInjection(o) /\ Close(s, o, "failed")
     \/ /\ out[o] # "completed"
        /\ ~EndedBeforeInjection(o)
        /\ UNCHANGED <<mem, disk>>
  /\ UNCHANGED <<trialVars, stopping>>

\* communicate returned and reaped the backend; its result file is read.
Collect(s) ==
  LET o == Pending(s) IN
  /\ svc[s] = "waiting"
  /\ ~Working(o)
  /\ child' = [child EXCEPT ![s] = None]
  /\ SetService(s, "idle")
  /\ \/ out[o] = "completed" /\ Close(s, o, "completed")
     \/ EndedBeforeInjection(o) /\ Close(s, o, "failed")
     \/ /\ out[o] # "completed"
        /\ ~EndedBeforeInjection(o)
        /\ UNCHANGED <<mem, disk>>
  /\ UNCHANGED <<trialVars, stopping>>

\* inspect_pending, on request or from the loop that waits to stop.
Inspect(s) ==
  LET o == Pending(s) IN
  /\ svc[s] = "idle"
  /\ o # None
  /\ ~Listed(o)
  /\ \/ EndedBeforeInjection(o) /\ Close(s, o, "failed")
     \/ /\ ~EndedBeforeInjection(o)
        /\ NativeCompleted(rid[o])
        /\ Close(s, o, "completed")
  /\ UNCHANGED <<trialVars, svc, stopping, child>>

\* Mutant: keys are captured beside a pending operation.
CaptureKeys_Beside(s) ==
  /\ svc[s] = "idle"
  /\ ~stopping[s]
  /\ SetService(s, "capturing")
  /\ UNCHANGED <<trialVars, stopping, mem, child, disk>>

\* capture_keys: a read-only scan in a child that is killed when it is late.
CaptureKeys(s) ==
  /\ svc[s] = "idle"
  /\ ~stopping[s]
  /\ Pending(s) = None
  /\ SetService(s, "capturing")
  /\ UNCHANGED <<trialVars, stopping, mem, child, disk>>

CaptureEnds(s) ==
  /\ svc[s] = "capturing"
  /\ SetService(s, "idle")
  /\ UNCHANGED <<trialVars, stopping, mem, child, disk>>

\* SIGTERM or SIGINT, once main() has installed the handler.
Stop(s) ==
  /\ svc[s] \notin {"down", "loaded"}
  /\ ~stopping[s]
  /\ stopping' = [stopping EXCEPT ![s] = TRUE]
  /\ UNCHANGED <<trialVars, svc, mem, child, disk>>

\* The process is gone: memory is lost, its lock is free, init reaps its
\* backend, and a backend still waiting for its request reads end of file.
Gone(s) ==
  /\ SetService(s, "down")
  /\ stopping' = [stopping EXCEPT ![s] = FALSE]
  /\ mem' = [mem EXCEPT ![s] = Empty]
  /\ child' = [child EXCEPT ![s] = None]
  /\ UNCHANGED disk

\* Mutant: the loop asks operation.json whether anything is pending.
Exit_AsksTheFile(s) ==
  /\ svc[s] = "idle"
  /\ stopping[s]
  /\ disk.pending = None
  /\ Gone(s)
  /\ UNCHANGED trialVars

\* The loop ends when it is asked to stop and nothing is pending.
Exit(s) ==
  /\ svc[s] = "idle"
  /\ stopping[s]
  /\ Pending(s) = None
  /\ Gone(s)
  /\ UNCHANGED trialVars

Crash(s) ==
  /\ svc[s] # "down"
  /\ Gone(s)
  /\ \/ \E o \in Ops : child[s] = o /\ ReadEof(o)
     \/ /\ \A o \in Ops : child[s] = o => pc[o] # "stdin"
        /\ UNCHANGED trialVars

\* The steps the serial loop takes by itself.
LoopStep(s) ==
  \/ SavePending(s) \/ SavePendingFails(s) \/ WriteRequest(s)
  \/ CommunicateTimeout(s) \/ Collect(s) \/ CaptureEnds(s) \/ Exit(s)
  \/ stopping[s] /\ Inspect(s)

ServiceStep(s) ==
  \/ Load(s) \/ Lock(s) \/ LockFails(s)
  \/ \E o \in Ops \ Manual, i \in Ids, c \in Contents : Accept(s, o, i, c)
  \/ LoopStep(s) \/ Inspect(s) \/ CaptureKeys(s) \/ Stop(s) \/ Crash(s)

BackendNext ==
  \/ \E o \in Manual, i \in Ids, c \in Contents : Start(o, i, c, "check")
  \/ \E o \in Ops : TrialStep(o) \/ Killed(o)
  \/ NativeStep

ServiceNext ==
  \/ \E s \in Instances : ServiceStep(s)
  \/ BackendNext /\ UNCHANGED serviceVars

ServiceSpec == ServiceInit /\ [][ServiceNext]_vars

ServiceFairness ==
  /\ \A s \in Instances : WF_vars(LoopStep(s))
  /\ \A o \in Ops : WF_vars(TrialStep(o) /\ UNCHANGED serviceVars)
  /\ \A i \in Ids : WF_vars(GiveUp(i) /\ UNCHANGED serviceVars)

FairServiceSpec == ServiceSpec /\ ServiceFairness

-----------------------------------------------------------------------------
ServiceTypeOK ==
  /\ TypeOK
  /\ svc \in [Instances -> States]
  /\ stopping \in [Instances -> BOOLEAN]
  /\ mem \in [Instances -> Records]
  /\ child \in [Instances -> Ops \cup {None}]
  /\ disk \in Records

\* Something of request i can still act in the client.
NativeBusy(i) ==
  \/ dbg[i] \notin {"none", "exited"}
  \/ wrk[i] \in {"polling", "armed", "submitting"}
  \/ cb[i] = "live"

\* Native operations are serial: at no time do two requests have a debugger,
\* a helper thread or a callback in the client, across timeouts, crashes and
\* restarts of the service.
SerialNative ==
  \A i, j \in Ids : NativeBusy(i) /\ NativeBusy(j) => i = j

\* operation.json forgets a backend that made a work directory only when that
\* backend is over and the outcome is known: nothing was injected and nothing
\* is left in the client, or the message was submitted once and acknowledged.
ForgottenIsSettled ==
  \A i \in Ids :
    (owner[i] \notin Manual \cup {None} /\ disk.pending # owner[i]) =>
      /\ ~Working(owner[i])
      /\ \/ BeforeInjection(i) /\ ~NativeBusy(i) /\ sent[i] = 0
         \/ WorkerOk(i) /\ sent[i] = 1

\* What is said of a send is true: "completed" means that the message was
\* submitted once and acknowledged, "failed" that it was not and will not be
\* submitted by anything already running.
IsTrueOf(said, i) ==
  /\ said = "completed" => sent[i] = 1 /\ WorkerOk(i)
  /\ said = "failed" => sent[i] = 0 /\ ~NativeBusy(i)

\* The service's send_status is truthful, and so is the send-status command
\* while the service is down or does not answer: operation.json can be older
\* than the service's memory, and a backend can be at work that the file does
\* not know of.
TruthfulStatus ==
  \A i \in Ids :
    IsTrueOf(StoppedStatus(i), i) /\ \A s \in Instances : IsTrueOf(Status(s, i), i)

\* A request is accepted only while its id was never submitted and nothing of
\* any id is left in the client; while keys are captured no native operation
\* is under way.
StartsAlone ==
  \A s \in Instances :
    /\ \A i \in Ids, c \in Contents :
         (svc[s] = "idle" /\ Answer(s, i, c) = "accepted") =>
           sent[i] = 0 /\ \A j \in Ids : ~NativeBusy(j)
    /\ svc[s] = "capturing" => \A i \in Ids : ~NativeBusy(i)

\* What a stopping service need not wait for: nothing is pending, its backend
\* has ended in a way that it can close, or inspect_pending can close the record.
Drainable(s) ==
  LET o == Pending(s) IN
  \/ o = None
  \/ /\ svc[s] = "waiting"
     /\ ~Working(o)
     /\ out[o] = "completed" \/ EndedBeforeInjection(o)
  \/ /\ svc[s] = "idle"
     /\ ~Listed(o)
     /\ EndedBeforeInjection(o) \/ NativeCompleted(rid[o])

\* Service.run: a stopping service ends once it need not wait any more, over
\* failed writes of operation.json and captures; unless the client in which
\* the message was acknowledged is gone, so that nobody can look again.
StopIsDrained ==
  \A s \in Instances :
    (stopping[s] /\ Drainable(s))
    ~> \/ svc[s] = "down"
       \/ Pending(s) # None /\ target[Pending(s)] # client

\* The request loop never stays inside an operation: each one ends with an
\* answer, the backend's or the timeout's.
LoopReturns ==
  \A s \in Instances :
    (svc[s] \in {"spawned", "saved", "waiting", "capturing"})
    ~> (svc[s] \in {"idle", "down"})

\* docs/service.md: a stop waits for the running native call to end safely,
\* and service.py: the socket stays up "while a detached backend finishes".
\* So a stopping service ends once its backend has finished with success.
CompletedSendIsDrained ==
  \A s \in Instances, o \in Ops :
    (stopping[s] /\ Pending(s) = o /\ out[o] = "completed") ~> svc[s] = "down"

\* service.py: "The child cannot act before this record: it still waits on
\* stdin."  Nothing of such a backend runs, so a stop need not wait for it: it
\* and the service do not wait for each other for ever.
UnrecordedIsDrained ==
  \A s \in Instances, o \in Ops :
    (svc[s] = "idle" /\ stopping[s] /\ Pending(s) = o /\ pc[o] = "stdin")
    ~> (svc[s] = "down" \/ pc[o] # "stdin")

\* A stop waits for a native call to end, never for nothing: neither a backend
\* that has finished its send nor one that never got its request leaves the
\* service stopping for ever.
StopEnds == CompletedSendIsDrained /\ UnrecordedIsDrained

\* cli.py: send-status reads "the recorded outcome of a prior send": when the
\* work directory of a request records that it was sent, so does the answer.
RecordedOutcomeIsRead ==
  \A s \in Instances, i \in Ids :
    (svc[s] = "idle" /\ result[i] # None /\ RecordedCompleted(i)) => Status(s, i) = "completed"

-----------------------------------------------------------------------------
Promise == INSTANCE SendPromise WITH
  claim <- request,
  begun <- {i \in Ids : dbg[i] # "none"},
  active <- {i \in Ids : NativeBusy(i)}

\* The service keeps the promise, whatever crashes, times out or fails to be
\* written, as long as only one instance is ever up and nobody sends by hand.
KeepsPromise == Promise!Spec
=============================================================================
