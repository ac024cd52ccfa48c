--------------------------- MODULE ServiceProofs ----------------------------
(***************************************************************************)
(* Proofs about the service for any number of backends, request ids and    *)
(* contents, any number of crashes, restarts, timeouts and failed writes   *)
(* of it, and any restarts of the client.  Any number of instances and     *)
(* sends by hand are executions of Trial (ServiceRunsTrial).  All else is  *)
(* for one instance while nobody sends by hand (Alone): its backends run   *)
(* one after the other, which is what the archive of a work directory      *)
(* relies on (CheckStillHolds).                                            *)
(***************************************************************************)
EXTENDS Service, TrialProofs

Alone == Manual = {} /\ \A s, t \in Instances : s = t

ServiceTyped ==
  /\ svc \in [Instances -> States]
  /\ stopping \in [Instances -> BOOLEAN]
  /\ mem \in [Instances -> Records]
  /\ child \in [Instances -> Ops \cup {None}]
  /\ disk \in Records

\* A backend that has read its request and can still touch a work directory.
Acting(o) == pc[o] \notin {"unborn", "stdin", "print", "exited"}

\* An instance that has spawned a backend has it pending.
SpawnedInv ==
  \A s \in Instances : svc[s] \in {"spawned", "saved", "waiting"} => Pending(s) \in Ops

\* A backend that acts is the one that memory and operation.json have pending,
\* and one that waits on its stdin is the child of an instance that is up.
SerialBackends ==
  /\ SpawnedInv
  /\ \A s \in Instances : svc[s] \in {"saved", "waiting"} => disk.pending = Pending(s)
  /\ \A o \in Ops : Acting(o) =>
       disk.pending = o /\ \A s \in Instances : svc[s] # "down" => Pending(s) = o
  /\ \A o \in Ops : pc[o] = "stdin" =>
       \E s \in Instances : svc[s] \notin {"down", "loaded"} /\ child[s] = o /\ Pending(s) = o

\* What is known of the client beyond TrialProofs.
CallbackInv ==
  \A i \in Ids :
    /\ cb[i] = "live" => wrk[i] \in {"submitting", "done"}
    /\ wrk[i] = "done" => dbg[i] = "exited"

\* The process of request i is over, and its outcome is known.
Quiet(i) == ~Working(owner[i]) /\ (BeforeInjection(i) \/ WorkerOk(i))

\* All but the pending operation are over.
QuietBut(x) == \A i \in Ids : owner[i] \notin {None, x} => Quiet(i)

Forgotten ==
  /\ QuietBut(disk.pending)
  /\ \A s \in Instances : svc[s] # "down" => QuietBut(Pending(s))

\* A record of an outcome has nothing pending and is true.
TrueRecord(r) == r.last # None => r.pending = None /\ IsTrueOf(r.verdict, r.last)

Recorded ==
  /\ TrueRecord(disk)
  /\ \A s \in Instances :
       /\ TrueRecord(mem[s])
       /\ svc[s] = "down" => mem[s].last = None
       /\ svc[s] = "capturing" => Pending(s) = None

ServiceInv ==
  /\ IInv /\ CheckStillHolds /\ CallbackInv
  /\ ServiceTyped /\ SerialBackends /\ Forgotten /\ Recorded

-----------------------------------------------------------------------------
(* What a step of one trial(), of the client and of the rest changes.      *)

\* It changes no directory but its own, and makes one only by mkdir.
LEMMA TrialStepIn ==
  ASSUME IInv, NEW q \in Ops, TrialStep(q), NEW i \in Ids
  PROVE  /\ owner'[i] # owner[i] => owner'[i] = None \/ (owner'[i] = q /\ Acting(q))
         /\ owner[i] # q /\ owner'[i] = owner[i] /\ owner[i] # None =>
              /\ files'[i] = files[i]
              /\ wrk'[i] = wrk[i]
              /\ cb'[i] = cb[i]
<1> USE DEF IInv, Typed, TypeOK, dirVars, natVars, Add, Goto, Acting
<1>1. CASE Archive(q)
  BY <1>1 DEF Archive
<1>2. CASE Mkdir(q)
  BY <1>2 DEF Mkdir
<1>3. CASE Pipeline(q)
  <2>1. owner[rid[q]] = q
    BY <1>3 DEF Bookkeeping, Exclusive
  <2>2. UNCHANGED <<owner, wrk, cb>>
    BY <1>3 DEF Pipeline, TrialStep, CheckFree, Replay, CheckRefused, ReserveFree, ReserveRetry,
         ReserveRefused, Archive, Mkdir, RenameOrMkdirFails, Record, RecordOrFindFails, Find,
         Prepare, SaveConfig, LaunchDebugger, RecordDebugger, DebuggerEnded, DebuggerTimeout, Arm,
         WorkerSettled, WatchTimeout, SaveResult, PrintResult
  <2>3. i # rid[q] => files'[i] = files[i]
    BY <1>3 DEF Pipeline, TrialStep, CheckFree, Replay, CheckRefused, ReserveFree, ReserveRetry,
         ReserveRefused, Archive, Mkdir, RenameOrMkdirFails, Record, RecordOrFindFails, Find,
         Prepare, SaveConfig, LaunchDebugger, RecordDebugger, DebuggerEnded, DebuggerTimeout, Arm,
         WorkerSettled, WatchTimeout, SaveResult, PrintResult
  <2> QED
    BY <2>1, <2>2, <2>3
<1>4. CASE ~Pipeline(q) /\ ~Archive(q) /\ ~Mkdir(q)
  <2>1. UNCHANGED <<owner, files, wrk, cb>>
    BY <1>4 DEF Pipeline, TrialStep, CheckFree, Replay, CheckRefused, ReserveFree, ReserveRetry,
         ReserveRefused, RenameOrMkdirFails, Record, RecordOrFindFails, Find,
         Prepare, SaveConfig, LaunchDebugger, RecordDebugger, DebuggerEnded, DebuggerTimeout, Arm,
         WorkerSettled, WatchTimeout, SaveResult, PrintResult
  <2> QED
    BY <2>1
<1> QED
  BY <1>1, <1>2, <1>3, <1>4

\* Nothing of a debugger, a helper or the client changes a retryable directory
\* or one that is quiet.
LEMMA NativeStepOf ==
  ASSUME IInv, CallbackInv, NativeStep
  PROVE  /\ UNCHANGED <<opVars, owner>>
         /\ \A i \in Ids : Retryable(i) => Retryable(i)'
         /\ \A i \in Ids : BeforeInjection(i) => BeforeInjection(i)'
         /\ \A i \in Ids : WorkerOk(i) => WorkerOk(i)'
<1> USE DEF IInv, Typed, TypeOK, dirVars, natVars, Add, SetDebugger, SetWorker, Retryable,
            BeforeInjection, WorkerOk
<1>1. ASSUME NEW j \in Ids, DebuggerStep(j)
      PROVE  /\ UNCHANGED <<opVars, owner, result, cb>>
             /\ dbg[j] \notin {"none", "exited"}
             /\ \A i \in Ids : i # j => /\ files'[i] = files[i] /\ dbg'[i] = dbg[i]
                                        /\ wrk'[i] = wrk[i]
  BY <1>1 DEF DebuggerStep, Attach, NotIdle, LoaderCalls, LaunchHelper, Detach, DebuggerFails
<1>2. ASSUME NEW j \in Ids, DebuggerStep(j)
      PROVE  /\ UNCHANGED <<opVars, owner>>
             /\ \A i \in Ids : Retryable(i) => Retryable(i)'
             /\ \A i \in Ids : BeforeInjection(i) => BeforeInjection(i)'
             /\ \A i \in Ids : WorkerOk(i) => WorkerOk(i)'
  <2>1. ~Retryable(j) /\ ~BeforeInjection(j) /\ ~WorkerOk(j)
    BY <1>1, <1>2 DEF InTheClient, Debugged, CallbackInv
  <2> QED
    BY <1>1, <1>2, <2>1
<1>3. ASSUME NEW j \in Ids, WorkerStep(j)
      PROVE  /\ UNCHANGED <<opVars, owner, result, dbg>>
             /\ wrk[j] # "none"
             /\ wrk[j] = "done" => cb[j] # "ok" /\ files' = files
             /\ files' = files \/ "arm" \in files[j]
             /\ \A i \in Ids : i # j => /\ files'[i] = files[i] /\ cb'[i] = cb[i]
                                        /\ wrk'[i] = wrk[i]
  BY <1>3 DEF WorkerStep, GiveUp, TakeArm, RoundtripFails, Submit, Callback, SubmitReturns,
              SubmitRejected
<1>4. ASSUME NEW j \in Ids, WorkerStep(j)
      PROVE  /\ UNCHANGED <<opVars, owner>>
             /\ \A i \in Ids : Retryable(i) => Retryable(i)'
             /\ \A i \in Ids : BeforeInjection(i) => BeforeInjection(i)'
             /\ \A i \in Ids : WorkerOk(i) => WorkerOk(i)'
  <2>1. ~BeforeInjection(j) /\ ~WorkerOk(j)
    BY <1>3, <1>4 DEF InTheClient, Submitted
  <2>2. Retryable(j) => files' = files
    BY <1>3, <1>4
  <2> QED
    BY <1>3, <1>4, <2>1, <2>2
<1>5. CASE ClientRestart
  BY <1>5 DEF ClientRestart, Attached
<1> QED
  BY <1>2, <1>4, <1>5 DEF NativeStep

-----------------------------------------------------------------------------
\* What is quiet stays so until its directory is archived.
LEMMA QuietStays ==
  ASSUME IInv, CallbackInv, [Next]_trialVars, NEW i \in Ids,
         Quiet(i), owner[i] # None, owner'[i] = owner[i]
  PROVE  Quiet(i)'
<1> USE DEF Quiet, Working, BeforeInjection, WorkerOk
<1>0. owner[i] \in Ops /\ pc[owner[i]] = "exited"
  BY DEF IInv, Typed, TypeOK, Bookkeeping, Owned
<1>1. ASSUME NEW o \in Ops, TrialStep(o) PROVE Quiet(i)'
  BY <1>0, <1>1, TrialStepOf, TrialStepIn
<1>2. CASE NativeStep
  BY <1>0, <1>2, NativeStepOf DEF opVars
<1>3. CASE \/ \E o \in Ops, j \in Ids, c \in Contents :
                Start(o, j, c, "stdin") \/ Start(o, j, c, "check")
           \/ \E o \in Ops : ReadRequest(o) \/ ReadEof(o) \/ Killed(o)
           \/ UNCHANGED trialVars
  BY <1>0, <1>3 DEF Start, ReadRequest, ReadEof, Killed, Goto, Raise, trialVars, opVars, dirVars,
                    natVars, IInv, Typed, TypeOK
<1> QED
  BY <1>1, <1>2, <1>3 DEF Next

\* A directory passes to nobody but a process that acts.
LEMMA OwnerChanges ==
  ASSUME IInv, CallbackInv, [Next]_trialVars, NEW i \in Ids, owner'[i] # owner[i]
  PROVE  owner'[i] = None \/ (owner'[i] \in Ops /\ Acting(owner'[i]))
<1>1. ASSUME NEW o \in Ops, TrialStep(o)
      PROVE  owner'[i] = None \/ (owner'[i] \in Ops /\ Acting(owner'[i]))
  BY <1>1, TrialStepIn
<1>2. CASE NativeStep
  BY <1>2, NativeStepOf
<1>3. CASE \/ \E o \in Ops, j \in Ids, c \in Contents :
                Start(o, j, c, "stdin") \/ Start(o, j, c, "check")
           \/ \E o \in Ops : ReadRequest(o) \/ ReadEof(o) \/ Killed(o)
           \/ UNCHANGED trialVars
  BY <1>3 DEF Start, ReadRequest, ReadEof, Killed, trialVars, dirVars
<1> QED
  BY <1>1, <1>2, <1>3 DEF Next

LEMMA QuietButStays ==
  ASSUME IInv, CallbackInv, [Next]_trialVars
  PROVE  \A x : QuietBut(x) /\ (\A o \in Ops : Acting(o) => o = x) =>
           \A i \in Ids : owner'[i] \notin {None, x} => Quiet(i)'
<1> SUFFICES ASSUME NEW x, QuietBut(x), \A o \in Ops : Acting(o) => o = x,
                    NEW i \in Ids, owner'[i] \notin {None, x}
             PROVE  Quiet(i)'
  OBVIOUS
<1>1. owner'[i] = owner[i]
  BY OwnerChanges
<1>2. Quiet(i)
  BY <1>1 DEF QuietBut
<1> QED
  BY <1>1, <1>2, QuietStays

-----------------------------------------------------------------------------
(* The service's own steps.                                                *)

\* Every step of the service is one of Trial or leaves it alone.
LEMMA StepsOfTrial ==
  ASSUME SpawnedInv, [ServiceNext]_vars PROVE [Next]_trialVars
<1>1. ASSUME NEW s \in Instances, ServiceStep(s) PROVE [Next]_trialVars
  <2>1. ASSUME NEW o \in Ops \ Manual, NEW i \in Ids, NEW c \in Contents, Accept(s, o, i, c)
        PROVE  [Next]_trialVars
    BY <2>1 DEF Accept, Next
  <2>2. CASE WriteRequest(s)
    <3>1. Pending(s) \in Ops
      BY <2>2 DEF WriteRequest, SpawnedInv
    <3> QED
      BY <2>2, <3>1 DEF WriteRequest, Next
  <2>3. CASE Crash(s)
    BY <2>3 DEF Crash, Next
  <2>4. CASE Load(s) \/ Lock(s) \/ LockFails(s) \/ SavePending(s) \/ SavePendingFails(s)
             \/ CommunicateTimeout(s) \/ Collect(s) \/ CaptureEnds(s) \/ Exit(s) \/ Inspect(s)
             \/ CaptureKeys(s) \/ Stop(s)
    BY <2>4 DEF Load, Lock, LockFails, SavePending, SavePendingFails, CommunicateTimeout, Collect,
                CaptureEnds, Exit, Inspect, CaptureKeys, Stop
  <2> QED
    BY <1>1, <2>1, <2>2, <2>3, <2>4 DEF ServiceStep, LoopStep
<1>2. CASE BackendNext
  BY <1>2, ManualAssumption DEF BackendNext, Next
<1>3. CASE UNCHANGED vars
  BY <1>3 DEF vars
<1> QED
  BY <1>1, <1>2, <1>3 DEF ServiceNext

\* The record and the state of the service keep their types.
LEMMA ServiceTypes ==
  ASSUME TypeOK, ServiceTyped, SpawnedInv, [ServiceNext]_vars PROVE ServiceTyped'
<1> USE DEF ServiceTyped, States, SetService, serviceVars
<1>e. Empty \in Records
  BY DEF Empty, Records
<1>1. ASSUME NEW s \in Instances, Load(s) \/ Lock(s) \/ LockFails(s) PROVE ServiceTyped'
  BY <1>1, <1>e DEF Load, Lock, LockFails
<1>2. ASSUME NEW s \in Instances, NEW o \in Ops, NEW i \in Ids, NEW c \in Contents,
             Accept(s, o, i, c)
      PROVE  ServiceTyped'
  <2>1. [Empty EXCEPT !.pending = o] \in Records
    BY DEF Empty, Records
  <2> QED
    BY <1>2, <2>1 DEF Accept
<1>3. ASSUME NEW s \in Instances, SavePending(s) \/ SavePendingFails(s) \/ WriteRequest(s)
                                  \/ CommunicateTimeout(s)
      PROVE  ServiceTyped'
  BY <1>3 DEF SavePending, SavePendingFails, WriteRequest, CommunicateTimeout
<1>4. ASSUME NEW s \in Instances, NEW v \in {"failed", "completed"}, Close(s, Pending(s), v),
             Pending(s) \in Ops
      PROVE  mem' \in [Instances -> Records] /\ disk' \in Records
  <2>1. [pending |-> None, last |-> rid[Pending(s)], verdict |-> v] \in Records
    BY <1>4 DEF Records, TypeOK
  <2> QED
    BY <1>4, <2>1 DEF Close
<1>5. ASSUME NEW s \in Instances, Collect(s) PROVE ServiceTyped'
  <2>1. Pending(s) \in Ops
    BY <1>5 DEF Collect, SpawnedInv
  <2>2. mem' \in [Instances -> Records] /\ disk' \in Records
    BY <1>4, <1>5, <2>1 DEF Collect
  <2> QED
    BY <1>5, <2>2 DEF Collect
<1>6. ASSUME NEW s \in Instances, Inspect(s) PROVE ServiceTyped'
  <2>1. Pending(s) \in Ops
    BY <1>6 DEF Inspect, Pending, Records
  <2>2. mem' \in [Instances -> Records] /\ disk' \in Records
    BY <1>4, <1>6, <2>1 DEF Inspect
  <2> QED
    BY <1>6, <2>2 DEF Inspect
<1>7. ASSUME NEW s \in Instances, CaptureKeys(s) \/ CaptureEnds(s) \/ Stop(s) PROVE ServiceTyped'
  BY <1>7 DEF CaptureKeys, CaptureEnds, Stop
<1>8. ASSUME NEW s \in Instances, Exit(s) \/ Crash(s) PROVE ServiceTyped'
  <2>1. Gone(s)
    BY <1>8 DEF Exit, Crash
  <2>2. /\ svc' = [svc EXCEPT ![s] = "down"]
        /\ stopping' = [stopping EXCEPT ![s] = FALSE]
        /\ mem' = [mem EXCEPT ![s] = Empty]
        /\ child' = [child EXCEPT ![s] = None]
        /\ disk' = disk
    BY <2>1 DEF Gone
  <2> QED
    BY <2>2, <1>e
<1>9. CASE UNCHANGED serviceVars
  BY <1>9
<1> QED
  BY <1>1, <1>2, <1>3, <1>5, <1>6, <1>7, <1>8, <1>9
     DEF ServiceNext, ServiceStep, LoopStep, vars

\* Only the instance itself spawns its backend and forgets it.
LEMMA SpawnedStep ==
  ASSUME ServiceTyped, SpawnedInv, [ServiceNext]_vars PROVE SpawnedInv'
<1> USE DEF ServiceTyped, SpawnedInv, Pending, SetService, serviceVars
<1>1. ASSUME NEW s \in Instances, Load(s) \/ Lock(s) \/ LockFails(s) PROVE SpawnedInv'
  BY <1>1 DEF Load, Lock, LockFails
<1>2. ASSUME NEW s \in Instances, NEW o \in Ops, NEW i \in Ids, NEW c \in Contents,
             Accept(s, o, i, c)
      PROVE  SpawnedInv'
  BY <1>2 DEF Accept, Empty
<1>3. ASSUME NEW s \in Instances, SavePending(s) \/ SavePendingFails(s) \/ WriteRequest(s)
                                  \/ CommunicateTimeout(s)
      PROVE  SpawnedInv'
  BY <1>3 DEF SavePending, SavePendingFails, WriteRequest, CommunicateTimeout
<1>4. ASSUME NEW s \in Instances, Collect(s) PROVE SpawnedInv'
  BY <1>4 DEF Collect, Close
<1>5. ASSUME NEW s \in Instances, Inspect(s) PROVE SpawnedInv'
  BY <1>5 DEF Inspect, Close
<1>6. ASSUME NEW s \in Instances, CaptureKeys(s) \/ CaptureEnds(s) \/ Stop(s) PROVE SpawnedInv'
  BY <1>6 DEF CaptureKeys, CaptureEnds, Stop
<1>7. ASSUME NEW s \in Instances, Exit(s) \/ Crash(s) PROVE SpawnedInv'
  BY <1>7 DEF Exit, Crash, Gone
<1>8. CASE UNCHANGED serviceVars
  BY <1>8
<1> QED
  BY <1>1, <1>2, <1>3, <1>4, <1>5, <1>6, <1>7, <1>8
     DEF ServiceNext, ServiceStep, LoopStep, vars

-----------------------------------------------------------------------------
(* One backend at a time.                                                  *)

\* While an instance has no operation pending, no backend acts or waits.
LEMMA NonePending ==
  ASSUME Alone, SerialBackends, NEW s \in Instances, svc[s] # "down", NEW o \in Ops,
         pc[o] = "stdin" \/ Acting(o)
  PROVE  Pending(s) = o
  BY DEF Alone, SerialBackends

LEMMA SerialStep ==
  ASSUME Alone, IInv, CallbackInv, ServiceTyped, SerialBackends, [ServiceNext]_vars
  PROVE  SerialBackends'
<1> USE NoneAssumption
    DEF SerialBackends, SpawnedInv, ServiceTyped, IInv, Typed, TypeOK, Pending, SetService, serviceVars
<1>1. ASSUME NEW s \in Instances, Load(s) \/ Lock(s) \/ LockFails(s) PROVE SerialBackends'
  BY <1>1 DEF Load, Lock, LockFails, trialVars, opVars, Acting, Alone
<1>2. ASSUME NEW s \in Instances, NEW o \in Ops, NEW i \in Ids, NEW c \in Contents,
             Accept(s, o, i, c)
      PROVE  SerialBackends'
  <2>1. Pending(s) = None /\ svc[s] = "idle"
    BY <1>2 DEF Accept, Answer
  <2>2. \A q \in Ops : pc[q] # "stdin" /\ ~Acting(q)
    BY <2>1, NonePending
  <2>3. pc' = [pc EXCEPT ![o] = "stdin"]
    BY <1>2 DEF Accept, Start, Goto
  <2>4. /\ svc' = [svc EXCEPT ![s] = "spawned"] /\ disk' = disk
        /\ child' = [child EXCEPT ![s] = o] /\ mem'[s].pending = o
    BY <1>2 DEF Accept, Empty
  <2>5. \A t \in Instances : t = s
    BY DEF Alone
  <2>6. \A q \in Ops : ~Acting(q)'
    BY <2>2, <2>3 DEF Acting
  <2> QED
    BY <2>2, <2>3, <2>4, <2>5, <2>6
<1>3. ASSUME NEW s \in Instances, SavePending(s) \/ SavePendingFails(s) \/ CommunicateTimeout(s)
                                  \/ CaptureKeys(s) \/ CaptureEnds(s) \/ Stop(s)
      PROVE  SerialBackends'
  BY <1>3 DEF SavePending, SavePendingFails, CommunicateTimeout, CaptureKeys, CaptureEnds, Stop,
              trialVars, opVars, Acting, Alone
<1>4. ASSUME NEW s \in Instances, WriteRequest(s) PROVE SerialBackends'
  <2>1. /\ Pending(s) \in Ops /\ disk.pending = Pending(s)
        /\ svc' = [svc EXCEPT ![s] = "waiting"] /\ UNCHANGED <<mem, child, disk>>
    BY <1>4 DEF WriteRequest
  <2>2. pc' = pc \/ pc' = [pc EXCEPT ![Pending(s)] = "check"]
    BY <1>4 DEF WriteRequest, ReadRequest, Goto, trialVars, opVars
  <2>3. \A t \in Instances : t = s
    BY DEF Alone
  <2>4. svc[s] = "saved"
    BY <1>4 DEF WriteRequest
  <2> QED
    BY <2>1, <2>2, <2>3, <2>4 DEF Acting
<1>5. ASSUME NEW s \in Instances, Collect(s) \/ Inspect(s) PROVE SerialBackends'
  <2>1. /\ Pending(s) \in Ops /\ ~Working(Pending(s)) /\ UNCHANGED trialVars
        /\ svc' = [svc EXCEPT ![s] = "idle"]
    BY <1>5 DEF Collect, Inspect, Listed, Records
  <2>2. \A q \in Ops : pc[q] # "stdin" /\ ~Acting(q)
    BY <1>5, <2>1, NonePending DEF Collect, Inspect, Working, Acting
  <2>3. \A q \in Ops : pc'[q] # "stdin" /\ ~Acting(q)'
    BY <2>1, <2>2 DEF trialVars, opVars, Acting
  <2>4. \A t \in Instances : t = s
    BY DEF Alone
  <2> QED
    BY <2>1, <2>3, <2>4
<1>6. ASSUME NEW s \in Instances, Exit(s) PROVE SerialBackends'
  <2>1. \A q \in Ops : pc[q] # "stdin" /\ ~Acting(q)
    BY <1>6, NonePending DEF Exit
  <2>2. \A t \in Instances : t = s
    BY DEF Alone
  <2> QED
    BY <1>6, <2>1, <2>2 DEF Exit, Gone, trialVars, opVars, Acting
<1>7. ASSUME NEW s \in Instances, Crash(s) PROVE SerialBackends'
  <2>1. \A t \in Instances : t = s
    BY DEF Alone
  <2>2. disk' = disk /\ svc' = [svc EXCEPT ![s] = "down"]
    BY <1>7 DEF Crash, Gone
  <2>3. \A q \in Ops : pc'[q] = pc[q] \/ pc'[q] = "print"
    BY <1>7 DEF Crash, ReadEof, Raise, Goto, trialVars, opVars
  <2>4. \A q \in Ops : pc'[q] # "stdin"
    BY <1>7, <2>1, <2>3 DEF Crash, ReadEof, Raise, Goto, trialVars, opVars
  <2> QED
    BY <2>1, <2>2, <2>3, <2>4 DEF Acting
<1>8. CASE BackendNext /\ UNCHANGED serviceVars
  <2>1. ASSUME NEW o \in Ops, TrialStep(o) PROVE SerialBackends'
    <3>1. \A q \in Ops : Acting(q)' => Acting(q)
      BY <2>1, TrialStepOf DEF Acting
    <3>2. \A q \in Ops : pc'[q] = "stdin" => pc[q] = "stdin"
      BY <2>1, TrialStepOf
    <3> QED
      BY <1>8, <3>1, <3>2
  <2>2. ASSUME NEW o \in Ops, Killed(o) PROVE SerialBackends'
    BY <1>8, <2>2 DEF Killed, Goto, Acting
  <2>3. CASE NativeStep
    BY <1>8, <2>3, NativeStepOf DEF opVars, Acting
  <2> QED
    BY <1>8, <2>1, <2>2, <2>3 DEF BackendNext, Alone
<1>9. CASE UNCHANGED vars
  BY <1>9 DEF vars, trialVars, opVars, Acting
<1> QED
  BY <1>1, <1>2, <1>3, <1>4, <1>5, <1>6, <1>7, <1>8, <1>9
     DEF ServiceNext, ServiceStep, LoopStep

-----------------------------------------------------------------------------
(* What the archive relies on.                                             *)

\* A directory that the only acting backend has found retryable is so until it
\* renames it: nobody else touches it.
LEMMA CheckHolds ==
  ASSUME Alone, IInv, CallbackInv, ServiceTyped, SerialBackends, CheckStillHolds,
         [ServiceNext]_vars
  PROVE  CheckStillHolds'
<1> SUFFICES ASSUME NEW o \in Ops, pc'[o] = "archive" PROVE Retryable(rid[o])'
  BY DEF CheckStillHolds
<1>1. [Next]_trialVars
  BY StepsOfTrial DEF SerialBackends
<1>2. ASSUME NEW q \in Ops, TrialStep(q) PROVE Retryable(rid[o])'
  <2>1. CASE q = o
    BY <1>2, <2>1, TrialStepOf DEF dirVars, natVars, Retryable
  <2>2. CASE q # o
    <3>1. pc[o] = "archive" /\ Acting(o)
      BY <1>2, <2>2, TrialStepOf DEF Acting
    <3>2. pc[q] = "print"
      BY <1>2, <2>2, <3>1, TrialStepOf DEF SerialBackends, SpawnedInv, Acting
    <3>3. UNCHANGED <<rid, dirVars, natVars>>
      BY <1>2, <3>2
         DEF TrialStep, CheckFree, Replay, CheckRefused, ReserveFree, ReserveRetry,
             ReserveRefused, Archive, Mkdir, RenameOrMkdirFails, Record, RecordOrFindFails, Find,
             Prepare, SaveConfig, LaunchDebugger, RecordDebugger, DebuggerEnded, DebuggerTimeout,
             Arm, WorkerSettled, WatchTimeout, SaveResult, PrintResult
    <3> QED
      BY <3>1, <3>3 DEF CheckStillHolds, Retryable, dirVars, natVars
  <2> QED
    BY <2>1, <2>2
<1>3. CASE NativeStep
  <2>1. pc[o] = "archive" /\ rid' = rid
    BY <1>3, NativeStepOf DEF opVars
  <2>2. rid[o] \in Ids
    BY <2>1 DEF IInv, Bookkeeping, Given
  <2>3. \A i \in Ids : Retryable(i) => Retryable(i)'
    BY <1>3, NativeStepOf
  <2> QED
    BY <2>1, <2>2, <2>3 DEF CheckStillHolds, Retryable
<1>4. CASE \/ \E q \in Ops, j \in Ids, c \in Contents :
                Start(q, j, c, "stdin") \/ Start(q, j, c, "check")
           \/ \E q \in Ops : ReadRequest(q) \/ ReadEof(q) \/ Killed(q)
           \/ UNCHANGED trialVars
  <2>1. pc[o] = "archive" /\ rid'[o] = rid[o] /\ UNCHANGED <<dirVars, natVars>>
    BY <1>4 DEF Start, ReadRequest, ReadEof, Killed, Goto, Raise, trialVars, opVars, IInv, Typed,
                TypeOK
  <2> QED
    BY <2>1 DEF CheckStillHolds, Retryable, dirVars, natVars
<1> QED
  BY <1>1, <1>2, <1>3, <1>4 DEF Next

\* A callback lives only in or after a submission, by a detached helper.
LEMMA CallbackStep ==
  ASSUME IInv, CallbackInv, [Next]_trialVars PROVE CallbackInv'
<1> USE DEF CallbackInv, IInv, Typed, TypeOK, dirVars, natVars
<1>1. ASSUME NEW q \in Ops, TrialStep(q) PROVE CallbackInv'
  <2>1. CASE Archive(q)
    BY <2>1 DEF Archive
  <2>2. CASE LaunchDebugger(q)
    <3>1. dbg[rid[q]] = "none" /\ wrk[rid[q]] = "none"
      BY <2>2 DEF LaunchDebugger, Bookkeeping, Progress, Given, InTheClient, Debugged
    <3> QED
      BY <2>2, <3>1 DEF LaunchDebugger
  <2>3. CASE ~Archive(q) /\ ~LaunchDebugger(q)
    <3>1. UNCHANGED <<dbg, wrk, cb>>
      BY <1>1, <2>3 DEF TrialStep, CheckFree, Replay, CheckRefused, ReserveFree, ReserveRetry,
         ReserveRefused, Mkdir, RenameOrMkdirFails, Record, RecordOrFindFails, Find,
         Prepare, SaveConfig, RecordDebugger, DebuggerEnded, DebuggerTimeout, Arm,
         WorkerSettled, WatchTimeout, SaveResult, PrintResult
    <3> QED
      BY <3>1
  <2> QED
    BY <2>1, <2>2, <2>3
<1>2. ASSUME NEW j \in Ids, DebuggerStep(j) PROVE CallbackInv'
  <2>1. wrk'[j] = "done" => dbg'[j] = "exited"
    BY <1>2 DEF DebuggerStep, Attach, NotIdle, LoaderCalls, LaunchHelper, Detach, DebuggerFails,
                SetDebugger
  <2>2. cb' = cb /\ (wrk'[j] # wrk[j] => dbg[j] = "calling")
    BY <1>2 DEF DebuggerStep, Attach, NotIdle, LoaderCalls, LaunchHelper, Detach, DebuggerFails
  <2>3. dbg[j] = "calling" => wrk[j] = "none" /\ cb[j] # "live"
    BY DEF InTheClient, Debugged
  <2>4. \A i \in Ids : i # j => wrk'[i] = wrk[i] /\ dbg'[i] = dbg[i]
    BY <1>2 DEF DebuggerStep, Attach, NotIdle, LoaderCalls, LaunchHelper, Detach, DebuggerFails,
                SetDebugger
  <2> QED
    BY <2>1, <2>2, <2>3, <2>4
<1>3. ASSUME NEW j \in Ids, WorkerStep(j) PROVE CallbackInv'
  BY <1>3 DEF WorkerStep, GiveUp, TakeArm, RoundtripFails, Submit, Callback, SubmitReturns,
              SubmitRejected, SetWorker, InTheClient, ArmedOnlyDetached
<1>4. CASE ClientRestart
  BY <1>4 DEF ClientRestart, Attached
<1>5. CASE \/ \E q \in Ops, j \in Ids, c \in Contents :
                Start(q, j, c, "stdin") \/ Start(q, j, c, "check")
           \/ \E q \in Ops : ReadRequest(q) \/ ReadEof(q) \/ Killed(q)
           \/ UNCHANGED trialVars
  BY <1>5 DEF Start, ReadRequest, ReadEof, Killed, trialVars
<1> QED
  BY <1>1, <1>2, <1>3, <1>4, <1>5 DEF Next, NativeStep

-----------------------------------------------------------------------------
(* What the record forgets.                                                *)

\* A backend that is over is quiet if it proves that nothing was injected, or
\* if the message is acknowledged.
LEMMA ClosedIsQuiet ==
  ASSUME IInv, NEW o \in Ops, ~Working(o),
         \/ EndedBeforeInjection(o)
         \/ out[o] = "completed"
         \/ NativeCompleted(rid[o]),
         NEW i \in Ids, owner[i] = o
  PROVE  Quiet(i)
<1>1. rid[o] = i
  BY NoneAssumption DEF IInv, Bookkeeping, Owned
<1>2. out[o] = "completed" => WorkerOk(i)
  BY <1>1 DEF IInv, InTheClient, CompletedIsSent, WorkerOk
<1> QED
  BY <1>1, <1>2 DEF Quiet, EndedBeforeInjection, NativeCompleted

LEMMA ForgetStep ==
  ASSUME Alone, IInv, CallbackInv, ServiceTyped, SerialBackends, Forgotten, [ServiceNext]_vars
  PROVE  Forgotten'
<1> USE DEF Forgotten, Pending, SetService, serviceVars
<1>1. [Next]_trialVars
  BY StepsOfTrial DEF SerialBackends
<1>2. \A o \in Ops : Acting(o) => o = disk.pending
  BY DEF SerialBackends, SpawnedInv
<1>3. \A s \in Instances : svc[s] # "down" => \A o \in Ops : Acting(o) => o = Pending(s)
  BY DEF SerialBackends, SpawnedInv
<1>4. \A i \in Ids : owner'[i] \notin {None, disk.pending} => Quiet(i)'
  BY <1>1, <1>2, QuietButStays
<1>5. ASSUME NEW s \in Instances, svc[s] # "down"
      PROVE  \A i \in Ids : owner'[i] \notin {None, Pending(s)} => Quiet(i)'
  BY <1>1, <1>3, <1>5, QuietButStays
<1>6. ASSUME NEW s \in Instances, Load(s) PROVE Forgotten'
  <2>1. disk' = disk /\ mem'[s] = disk
    BY <1>6 DEF Load, ServiceTyped
  <2>2. \A t \in Instances : t = s
    BY DEF Alone
  <2> QED
    BY <1>4, <2>1, <2>2 DEF QuietBut
<1>7. ASSUME NEW s \in Instances,
             \/ Lock(s) \/ LockFails(s) \/ SavePendingFails(s) \/ WriteRequest(s)
             \/ CommunicateTimeout(s) \/ CaptureKeys(s) \/ CaptureEnds(s) \/ Stop(s)
      PROVE  Forgotten'
  <2>1. disk' = disk /\ svc[s] # "down" /\ (svc'[s] # "down" => mem' = mem)
    BY <1>7 DEF Lock, LockFails, SavePendingFails, WriteRequest, CommunicateTimeout, CaptureKeys,
                CaptureEnds, Stop, ServiceTyped
  <2>2. \A t \in Instances : t = s
    BY DEF Alone
  <2> QED
    BY <1>4, <1>5, <2>1, <2>2 DEF QuietBut
<1>8. ASSUME NEW s \in Instances, SavePending(s) PROVE Forgotten'
  <2>1. disk' = mem[s] /\ mem' = mem /\ svc[s] # "down"
    BY <1>8 DEF SavePending
  <2>2. \A t \in Instances : t = s
    BY DEF Alone
  <2> QED
    BY <1>5, <2>1, <2>2 DEF QuietBut
<1>9. ASSUME NEW s \in Instances, NEW o \in Ops, NEW i \in Ids, NEW c \in Contents,
             Accept(s, o, i, c)
      PROVE  Forgotten'
  <2>1. svc[s] # "down" /\ mem[s].pending = None /\ disk' = disk
    BY <1>9 DEF Accept, Answer
  <2>2. \A t \in Instances : t = s
    BY DEF Alone
  <2>3. \A j \in Ids : owner'[j] # None => Quiet(j)'
    BY <1>5, <2>1
  <2> QED
    BY <1>4, <2>1, <2>2, <2>3 DEF QuietBut
<1>10. ASSUME NEW s \in Instances, Collect(s) \/ Inspect(s) PROVE Forgotten'
  <2>1. \A t \in Instances : t = s
    BY DEF Alone
  <2>2. svc[s] # "down" /\ Pending(s) \in Ops /\ ~Working(Pending(s)) /\ UNCHANGED trialVars
    BY <1>10 DEF Collect, Inspect, Listed, ServiceTyped, SerialBackends, SpawnedInv, Records
  <2>3. CASE UNCHANGED <<mem, disk>>
    BY <1>4, <1>5, <2>1, <2>2, <2>3 DEF QuietBut
  <2>4. CASE \E v \in {"failed", "completed"} : Close(s, Pending(s), v)
    <3>1. CASE \/ EndedBeforeInjection(Pending(s))
               \/ out[Pending(s)] = "completed"
               \/ NativeCompleted(rid[Pending(s)])
      <4>1. \A i \in Ids : owner[i] = Pending(s) => Quiet(i)
        BY <2>2, <3>1, ClosedIsQuiet
      <4>2. \A i \in Ids : owner[i] # None => Quiet(i)
        BY <2>2, <4>1 DEF QuietBut
      <4>3. \A i \in Ids : owner'[i] # None => Quiet(i)'
        BY <2>2, <4>2
           DEF trialVars, opVars, dirVars, natVars, Quiet, Working, BeforeInjection, WorkerOk
      <4> QED
        BY <4>3 DEF QuietBut
    <3>2. \/ EndedBeforeInjection(Pending(s))
          \/ out[Pending(s)] = "completed"
          \/ NativeCompleted(rid[Pending(s)])
          \/ UNCHANGED <<mem, disk>>
      BY <1>10 DEF Collect, Inspect
    <3> QED
      BY <2>3, <3>1, <3>2
  <2> QED
    BY <1>10, <2>3, <2>4 DEF Collect, Inspect
<1>11. ASSUME NEW s \in Instances, Exit(s) \/ Crash(s) PROVE Forgotten'
  <2>1. disk' = disk /\ svc'[s] = "down"
    BY <1>11 DEF Exit, Crash, Gone, ServiceTyped
  <2>2. \A t \in Instances : t = s
    BY DEF Alone
  <2> QED
    BY <1>4, <2>1, <2>2 DEF QuietBut
<1>12. CASE UNCHANGED serviceVars
  BY <1>4, <1>5, <1>12 DEF QuietBut
<1> QED
  BY <1>6, <1>7, <1>8, <1>9, <1>10, <1>11, <1>12 DEF ServiceNext, ServiceStep, LoopStep, vars

-----------------------------------------------------------------------------
(* What the record says.                                                   *)

\* A request of which nothing is left in the client, or whose message is
\* acknowledged, stays so while no backend acts.
LEMMA SaidStays ==
  ASSUME IInv, CallbackInv, [Next]_trialVars, \A o \in Ops : ~Acting(o)
  PROVE  \A i \in Ids : \A v : IsTrueOf(v, i) => IsTrueOf(v, i)'
<1> SUFFICES ASSUME NEW i \in Ids, NEW v, IsTrueOf(v, i) PROVE IsTrueOf(v, i)'
  OBVIOUS
<1> USE DEF IsTrueOf, NativeBusy, WorkerOk, IInv, Typed, TypeOK
<1>1. ASSUME NEW o \in Ops, TrialStep(o) PROVE IsTrueOf(v, i)'
  <2>1. pc[o] = "print" \/ pc[o] \in {"unborn", "stdin", "exited"}
    BY DEF Acting
  <2>2. UNCHANGED natVars
    BY <1>1, <2>1
       DEF TrialStep, CheckFree, Replay, CheckRefused, ReserveFree, ReserveRetry,
           ReserveRefused, Archive, Mkdir, RenameOrMkdirFails, Record, RecordOrFindFails, Find,
           Prepare, SaveConfig, LaunchDebugger, RecordDebugger, DebuggerEnded, DebuggerTimeout,
           Arm, WorkerSettled, WatchTimeout, SaveResult, PrintResult
  <2> QED
    BY <2>2 DEF natVars
<1>2. ASSUME NEW j \in Ids, DebuggerStep(j) PROVE IsTrueOf(v, i)'
  <2>1. /\ dbg[j] \notin {"none", "exited"} /\ UNCHANGED <<cb, sent>>
        /\ i # j => dbg'[i] = dbg[i] /\ wrk'[i] = wrk[i]
        /\ wrk[j] = "done" => wrk'[j] = "done" \/ dbg[j] = "calling"
    BY <1>2 DEF DebuggerStep, Attach, NotIdle, LoaderCalls, LaunchHelper, Detach, DebuggerFails,
                SetDebugger
  <2>2. wrk[j] # "done"
    BY <2>1 DEF CallbackInv
  <2> QED
    BY <2>1, <2>2
<1>3. ASSUME NEW j \in Ids, WorkerStep(j) PROVE IsTrueOf(v, i)'
  <2>1. /\ NativeBusy(j) /\ ~WorkerOk(j) /\ UNCHANGED dbg
        /\ i # j => cb'[i] = cb[i] /\ wrk'[i] = wrk[i] /\ sent'[i] = sent[i]
    BY <1>3 DEF WorkerStep, GiveUp, TakeArm, RoundtripFails, Submit, Callback, SubmitReturns,
                SubmitRejected, SetWorker
  <2> QED
    BY <2>1
<1>4. CASE ClientRestart
  BY <1>4 DEF ClientRestart, Attached, CallbackInv
<1>5. CASE \/ \E q \in Ops, j \in Ids, c \in Contents :
                Start(q, j, c, "stdin") \/ Start(q, j, c, "check")
           \/ \E q \in Ops : ReadRequest(q) \/ ReadEof(q) \/ Killed(q)
           \/ UNCHANGED trialVars
  BY <1>5 DEF Start, ReadRequest, ReadEof, Killed, trialVars, natVars
<1> QED
  BY <1>1, <1>2, <1>3, <1>4, <1>5 DEF Next, NativeStep

\* What a closed record says is true.
LEMMA ClosedIsTrue ==
  ASSUME IInv, CallbackInv, NEW o \in Ops, rid[o] # None
  PROVE  /\ EndedBeforeInjection(o) => IsTrueOf("failed", rid[o])
         /\ out[o] = "completed" \/ NativeCompleted(rid[o]) => IsTrueOf("completed", rid[o])
<1>1. rid[o] \in Ids
  BY DEF IInv, Typed, TypeOK
<1>2. EndedBeforeInjection(o) => IsTrueOf("failed", rid[o])
  BY <1>1 DEF EndedBeforeInjection, BeforeInjection, IsTrueOf, NativeBusy, CallbackInv, IInv,
              InTheClient, Debugged, Submitted
<1>3. out[o] = "completed" => IsTrueOf("completed", rid[o])
  BY DEF IsTrueOf, WorkerOk, IInv, InTheClient, CompletedIsSent
<1>4. NativeCompleted(rid[o]) => IsTrueOf("completed", rid[o])
  BY <1>1 DEF NativeCompleted, IsTrueOf, WorkerOk, IInv, InTheClient, Submitted
<1> QED
  BY <1>2, <1>3, <1>4

LEMMA RecordStep ==
  ASSUME Alone, IInv, CallbackInv, ServiceTyped, SerialBackends, Recorded, [ServiceNext]_vars
  PROVE  Recorded'
<1> DEFINE Holds(r) == r.last # None =>
             /\ r.pending = None
             /\ r.verdict = "completed" => sent'[r.last] = 1 /\ wrk'[r.last] = "done" /\ cb'[r.last] = "ok"
             /\ r.verdict = "failed" =>
                  /\ sent'[r.last] = 0 /\ dbg'[r.last] \in {"none", "exited"}
                  /\ wrk'[r.last] \notin {"polling", "armed", "submitting"} /\ cb'[r.last] # "live"
<1>1. [Next]_trialVars
  BY StepsOfTrial DEF SerialBackends
<1>2. \A t, s \in Instances : t = s
  BY DEF Alone
<1>3. ASSUME NEW r \in Records, TrueRecord(r), r.last # None => \A o \in Ops : ~Acting(o)
      PROVE  Holds(r)
  <2>1. CASE r.last = None
    BY <2>1
  <2>2. CASE r.last # None
    <3>1. r.last \in Ids
      BY <2>2 DEF Records
    <3>2. \A o \in Ops : ~Acting(o)
      BY <1>3, <2>2
    <3>3. IsTrueOf(r.verdict, r.last)'
      BY <1>1, <1>3, <2>2, <3>1, <3>2, SaidStays DEF TrueRecord
    <3> QED
      BY <1>3, <2>2, <3>3 DEF TrueRecord, IsTrueOf, WorkerOk, NativeBusy
  <2> QED
    BY <2>1, <2>2
<1>4. Holds(disk)
  <2>1. disk.last # None => \A o \in Ops : ~Acting(o)
    BY NoneAssumption DEF Recorded, TrueRecord, SerialBackends, SpawnedInv
  <2> QED
    BY <1>3, <2>1 DEF Recorded, ServiceTyped
<1>5. ASSUME NEW s \in Instances PROVE Holds(mem[s])
  <2>1. mem[s].last # None => svc[s] # "down" /\ \A o \in Ops : ~Acting(o)
    BY NoneAssumption DEF Recorded, TrueRecord, SerialBackends, SpawnedInv, Pending
  <2> QED
    BY <1>3, <2>1 DEF Recorded, ServiceTyped
<1> HIDE DEF Holds
<1>6. ASSUME NEW s \in Instances, Holds(disk'), Holds(mem'[s]),
             svc'[s] = "down" => mem'[s].last = None,
             svc'[s] = "capturing" => mem'[s].pending = None
      PROVE  Recorded'
  BY <1>2, <1>6 DEF Recorded, TrueRecord, IsTrueOf, WorkerOk, NativeBusy, Pending, Holds
<1>7. ASSUME NEW s \in Instances, UNCHANGED mem, disk' \in {disk, mem[s]},
             svc'[s] = "down" => svc[s] = "down",
             svc'[s] = "capturing" => Pending(s) = None
      PROVE  Recorded'
  <2>1. Holds(disk') /\ Holds(mem'[s])
    BY <1>4, <1>5, <1>7
  <2>2. /\ svc'[s] = "down" => mem'[s].last = None
        /\ svc'[s] = "capturing" => mem'[s].pending = None
    BY <1>7 DEF Recorded, Pending
  <2> QED
    BY <1>6, <2>1, <2>2
<1>8. ASSUME NEW s \in Instances, UNCHANGED disk, svc'[s] # "capturing",
             mem'[s] \in {disk, Empty} \cup {[Empty EXCEPT !.pending = o] : o \in Ops},
             svc'[s] = "down" => mem'[s] = Empty
      PROVE  Recorded'
  <2>1. mem'[s] # disk => mem'[s].last = None
    BY <1>8 DEF Empty
  <2>2. Holds(mem'[s])
    BY <1>4, <2>1 DEF Holds
  <2>3. Empty.last = None
    BY DEF Empty
  <2> QED
    BY <1>4, <1>6, <1>8, <2>2, <2>3
<1>9. ASSUME NEW s \in Instances,
             \/ Lock(s) \/ SavePending(s) \/ SavePendingFails(s) \/ WriteRequest(s)
             \/ CommunicateTimeout(s) \/ CaptureKeys(s) \/ CaptureEnds(s) \/ Stop(s)
      PROVE  Recorded'
  <2>1. UNCHANGED mem /\ disk' \in {disk, mem[s]}
    BY <1>9 DEF Lock, SavePending, SavePendingFails, WriteRequest, CommunicateTimeout, CaptureKeys,
                CaptureEnds, Stop
  <2>2. /\ svc'[s] = "down" => svc[s] = "down"
        /\ svc'[s] = "capturing" => Pending(s) = None
    BY <1>9 DEF Lock, SavePending, SavePendingFails, WriteRequest, CommunicateTimeout, CaptureKeys,
                CaptureEnds, Stop, SetService, ServiceTyped, Recorded
  <2> QED
    BY <1>7, <2>1, <2>2
<1>10. ASSUME NEW s \in Instances, Load(s) \/ LockFails(s) \/ Exit(s) \/ Crash(s) PROVE Recorded'
  BY <1>8, <1>10 DEF Load, LockFails, Exit, Crash, Gone, SetService, ServiceTyped
<1>11. ASSUME NEW s \in Instances, NEW o \in Ops, NEW i \in Ids, NEW c \in Contents,
              Accept(s, o, i, c)
       PROVE  Recorded'
  BY <1>8, <1>11 DEF Accept, SetService, ServiceTyped
<1>12. ASSUME NEW s \in Instances, Collect(s) \/ Inspect(s) PROVE Recorded'
  <2>1. /\ Pending(s) \in Ops /\ UNCHANGED trialVars
        /\ svc'[s] = "idle"
    BY <1>12 DEF Collect, Inspect, ServiceTyped, SerialBackends, SpawnedInv, Records, SetService, Pending
  <2>2. CASE UNCHANGED <<mem, disk>>
    <3>1. svc'[s] # "down" /\ svc'[s] # "capturing"
      BY <2>1
    <3>2. UNCHANGED mem /\ disk' \in {disk, mem[s]}
      BY <2>2
    <3> QED
      BY <1>7, <3>1, <3>2
  <2>3. ASSUME NEW v \in {"failed", "completed"}, Close(s, Pending(s), v),
               v = "failed" => EndedBeforeInjection(Pending(s)),
               v = "completed" => out[Pending(s)] = "completed" \/ NativeCompleted(rid[Pending(s)])
        PROVE  Recorded'
    <3> DEFINE closed == [pending |-> None, last |-> rid[Pending(s)], verdict |-> v]
    <3>1. Holds(closed)
      <4>1. rid[Pending(s)] # None => IsTrueOf(v, rid[Pending(s)])
        BY <2>1, <2>3, ClosedIsTrue
      <4> QED
        BY <2>1, <4>1
           DEF Holds, IsTrueOf, WorkerOk, NativeBusy, trialVars, natVars
    <3>2. mem'[s] = closed /\ disk' \in {closed, disk}
      BY <2>3 DEF Close, ServiceTyped
    <3> HIDE DEF closed
    <3> QED
      BY <1>4, <1>6, <2>1, <3>1, <3>2
  <2>4. CASE Collect(s)
    BY <2>2, <2>3, <2>4 DEF Collect
  <2>5. CASE Inspect(s)
    BY <2>3, <2>5 DEF Inspect
  <2> QED
    BY <1>12, <2>4, <2>5
<1>13. CASE UNCHANGED serviceVars
  BY <1>4, <1>5, <1>13 DEF Recorded, TrueRecord, IsTrueOf, WorkerOk, NativeBusy, Pending, Holds,
                           serviceVars
<1> QED
  BY <1>9, <1>10, <1>11, <1>12, <1>13 DEF ServiceNext, ServiceStep, LoopStep, vars

-----------------------------------------------------------------------------
LEMMA ServiceInitInv == ServiceInit => ServiceInv
<1> SUFFICES ASSUME ServiceInit PROVE ServiceInv
  OBVIOUS
<1>1. IInv
  BY InitIInv DEF ServiceInit
<1>2. CheckStillHolds /\ CallbackInv /\ SerialBackends /\ Forgotten /\ Recorded
  BY DEF ServiceInit, Init, CheckStillHolds, CallbackInv, SerialBackends, SpawnedInv,
         Forgotten, QuietBut, Acting, Recorded, TrueRecord, Empty
<1>3. ServiceTyped
  BY DEF ServiceInit, ServiceTyped, States, Empty, Records
<1> QED
  BY <1>1, <1>2, <1>3 DEF ServiceInv

-----------------------------------------------------------------------------
(* Any number of instances, and sends by hand beside them.                 *)

ManyInv == Typed /\ ServiceTyped /\ SpawnedInv

LEMMA ManyInvariant == ServiceSpec => []ManyInv
<1>1. ServiceInit => ManyInv
  BY InitIInv DEF ServiceInit, ManyInv, IInv, ServiceTyped, SpawnedInv, States, Empty, Records
<1>2. ManyInv /\ [ServiceNext]_vars => ManyInv'
  BY StepsOfTrial, TypeStep, ServiceTypes, SpawnedStep DEF ManyInv, Typed
<1> QED
  BY <1>1, <1>2, PTL DEF ServiceSpec

(* The service is an execution of Trial, and so are several instances and  *)
(* sends by hand beside each other: what Service adds only decides when    *)
(* backends are started, read their requests and are forgotten.            *)
THEOREM ServiceRunsTrial == ServiceSpec => Spec
<1>1. ServiceInit => Init
  BY DEF ServiceInit
<1>2. ManyInv /\ [ServiceNext]_vars => [Next]_trialVars
  BY StepsOfTrial DEF ManyInv
<1> QED
  BY <1>1, <1>2, ManyInvariant, PTL DEF ServiceSpec, Spec

(* The types of all variables of the service and of Trial.                 *)
THEOREM ServiceTypeCorrect == ServiceSpec => []ServiceTypeOK
<1>1. ManyInv => ServiceTypeOK
  BY DEF ManyInv, ServiceTyped, ServiceTypeOK, Typed
<1> QED
  BY <1>1, ManyInvariant, PTL

(* However many instances take over from each other, crash and restart,    *)
(* and whatever is sent by hand beside them: as long as no process         *)
(* archives a directory that has changed since it looked, no request is    *)
(* submitted twice, the helper works only when GDB is gone, what is sent   *)
(* is what is recorded, a completed one was sent, and a directory passes   *)
(* on only when nothing of it was (reserve_trial_work).                    *)
THEOREM InstancesSendOnce ==
  ServiceSpec /\ []CheckStillHolds =>
    [](AtMostOnce /\ ArmedOnlyDetached /\ RecordedIsSent /\ CompletedIsSent
       /\ NoArtifactNoInjection) /\ HandoverIsClean
BY ServiceRunsTrial, SentAtMostOnce, WorksDetached, RecordedContent, CompletedWasSent,
   NoArtifactMeansNothingRan, CleanHandover, PTL

-----------------------------------------------------------------------------
(* One instance, and nobody sends by hand.                                 *)

(* The inductive invariant of the service: one instance and its backends,  *)
(* over any number of sends, crashes, timeouts and failed writes.          *)
THEOREM ServiceInvariant == ASSUME Alone PROVE ServiceSpec => []ServiceInv
<1>1. ASSUME ServiceInv, [ServiceNext]_vars PROVE ServiceInv'
  <2> USE <1>1 DEF ServiceInv
  <2>1. [Next]_trialVars
    BY StepsOfTrial DEF SerialBackends
  <2>2. IInv'
    BY <2>1, TypeStep, BookkeepingStep, InTheClientStep DEF IInv
  <2>3. CheckStillHolds'
    BY CheckHolds
  <2>4. CallbackInv'
    BY <2>1, CallbackStep
  <2>5. ServiceTyped'
    BY ServiceTypes DEF IInv, Typed, SerialBackends
  <2>6. SerialBackends' /\ Forgotten' /\ Recorded'
    BY SerialStep, ForgetStep, RecordStep
  <2> QED
    BY <2>2, <2>3, <2>4, <2>5, <2>6
<1> QED
  BY <1>1, ServiceInitInv, PTL DEF ServiceSpec

(* No backend of the service archives a directory that has changed since   *)
(* it looked: reserve_trial_work needs no lock there.                      *)
THEOREM ServiceArchives == ASSUME Alone PROVE ServiceSpec => []CheckStillHolds
<1>1. ServiceInv => CheckStillHolds
  BY DEF ServiceInv
<1> QED
  BY <1>1, ServiceInvariant, PTL

(* A request id is submitted at most once by the service, whatever crashes *)
(* or times out, without a hypothesis about the archive.                   *)
THEOREM ServiceSendsOnce == ASSUME Alone PROVE ServiceSpec => []AtMostOnce
<1>1. ServiceInv => AtMostOnce
  BY DEF ServiceInv, IInv, InTheClient, Submitted, AtMostOnce
<1> QED
  BY <1>1, ServiceInvariant, PTL

\* A quiet request has nothing left in the client.
LEMMA QuietIsNotBusy ==
  ASSUME IInv, CallbackInv, NEW i \in Ids, BeforeInjection(i) \/ WorkerOk(i)
  PROVE  ~NativeBusy(i) /\ sent[i] = IF WorkerOk(i) THEN 1 ELSE 0
<1>1. CASE BeforeInjection(i)
  BY <1>1 DEF BeforeInjection, WorkerOk, NativeBusy, CallbackInv, IInv, InTheClient, Debugged,
              Submitted
<1>2. CASE WorkerOk(i)
  BY <1>2 DEF WorkerOk, NativeBusy, CallbackInv, IInv, InTheClient, Submitted
<1> QED
  BY <1>1, <1>2

(* operation.json forgets a backend only when it is over and its outcome   *)
(* is known (Runner, inspect_pending).                                     *)
THEOREM ServiceForgetsSettled == ASSUME Alone PROVE ServiceSpec => []ForgottenIsSettled
<1>1. ServiceInv => ForgottenIsSettled
  <2> SUFFICES ASSUME ServiceInv, NEW i \in Ids, owner[i] \notin {None, disk.pending}
               PROVE  /\ ~Working(owner[i])
                      /\ \/ BeforeInjection(i) /\ ~NativeBusy(i) /\ sent[i] = 0
                         \/ WorkerOk(i) /\ sent[i] = 1
    BY DEF ForgottenIsSettled
  <2>1. Quiet(i)
    BY DEF ServiceInv, Forgotten, QuietBut
  <2> QED
    BY <2>1, QuietIsNotBusy DEF Quiet, ServiceInv
<1> QED
  BY <1>1, ServiceInvariant, PTL

\* What is busy in the client is of the request that operation.json has pending.
LEMMA BusyIsPending ==
  ASSUME ServiceInv, NEW k \in Ids, NativeBusy(k)
  PROVE  owner[k] = disk.pending /\ owner[k] # None /\ rid[owner[k]] = k
<1>1. dbg[k] # "none"
  BY DEF ServiceInv, IInv, InTheClient, Debugged, NativeBusy, CallbackInv
<1>2. owner[k] # None
  BY <1>1 DEF ServiceInv, IInv, InTheClient, Debugged
<1>3. ~Quiet(k)
  BY QuietIsNotBusy DEF ServiceInv, Quiet
<1> QED
  BY <1>2, <1>3 DEF ServiceInv, Forgotten, QuietBut, IInv, Bookkeeping, Owned

(* Native operations are serial over timeouts, crashes and restarts: what  *)
(* is busy in the client belongs to the one pending operation (Runner).    *)
THEOREM ServiceIsSerial == ASSUME Alone PROVE ServiceSpec => []SerialNative
<1>1. ServiceInv => SerialNative
  BY BusyIsPending DEF SerialNative
<1> QED
  BY <1>1, ServiceInvariant, PTL

\* With no pending operation that owns its directory, a request is not busy.
LEMMA ForgottenIsNotBusy ==
  ASSUME IInv, CallbackInv, NEW i \in Ids, owner[i] # None => Quiet(i)
  PROVE  ~NativeBusy(i) /\ (owner[i] = None => sent[i] = 0)
<1>1. CASE owner[i] = None
  BY <1>1 DEF NativeBusy, CallbackInv, IInv, Bookkeeping, Owned, InTheClient, Debugged, Submitted
<1>2. CASE owner[i] # None
  BY <1>2, QuietIsNotBusy DEF Quiet
<1> QED
  BY <1>1, <1>2

(* Requests are accepted, and keys captured, only while nothing of any     *)
(* request is left in the client (dispatch and capture_keys of Runner).    *)
THEOREM ServiceStartsAlone == ASSUME Alone PROVE ServiceSpec => []StartsAlone
<1>1. ServiceInv => StartsAlone
  <2> SUFFICES ASSUME ServiceInv, NEW s \in Instances 
               PROVE  /\ \A i \in Ids, c \in Contents :
                           (svc[s] = "idle" /\ Answer(s, i, c) = "accepted") =>
                             sent[i] = 0 /\ \A j \in Ids : ~NativeBusy(j)
                      /\ svc[s] = "capturing" => \A i \in Ids : ~NativeBusy(i)
    BY DEF StartsAlone
  <2> USE DEF ServiceInv
  <2>1. ASSUME svc[s] # "down", Pending(s) = None
        PROVE  \A j \in Ids : ~NativeBusy(j) /\ (owner[j] = None => sent[j] = 0)
    BY <2>1, ForgottenIsNotBusy DEF Forgotten, QuietBut
  <2>2. ASSUME NEW i \in Ids, NEW c \in Contents, Answer(s, i, c) = "accepted"
        PROVE  owner[i] = None /\ Pending(s) = None
    BY <2>2 DEF Answer
  <2>3. svc[s] = "capturing" => Pending(s) = None
    BY DEF Recorded
  <2> QED
    BY <2>1, <2>2, <2>3
<1> QED
  BY <1>1, ServiceInvariant, PTL

(* What send_status and, without the service, the send-status command say  *)
(* of a request is true: it was submitted once and acknowledged, or it was *)
(* not submitted and nothing of it is left in the client.                  *)
THEOREM ServiceStatusIsTrue == ASSUME Alone PROVE ServiceSpec => []TruthfulStatus
<1>1. ServiceInv => TruthfulStatus
  <2> SUFFICES ASSUME ServiceInv, NEW i \in Ids
               PROVE  /\ IsTrueOf(StoppedStatus(i), i)
                      /\ \A s \in Instances : IsTrueOf(Status(s, i), i)
    BY DEF TruthfulStatus
  <2> USE DEF ServiceInv
  <2>1. i # None
    BY NoneAssumption
  <2>2. RecordedCompleted(i) => IsTrueOf("completed", i)
    BY DEF RecordedCompleted, WorkerOk, IsTrueOf, IInv, InTheClient, Submitted
  <2>3. IsTrueOf("invalid", i) /\ IsTrueOf("uncertain", i)
    BY DEF IsTrueOf
  <2>4. IsTrueOf(StoppedStatus(i), i)
    BY <2>1, <2>2, <2>3 DEF StoppedStatus, Recorded, TrueRecord
  <2>5. ASSUME NEW s \in Instances PROVE IsTrueOf(Status(s, i), i)
    BY <2>1, <2>2, <2>3 DEF Status, Recorded, TrueRecord
  <2> QED
    BY <2>4, <2>5
<1> QED
  BY <1>1, ServiceInvariant, PTL

-----------------------------------------------------------------------------
(* The service implements the promise.                                     *)

\* Every step of the service makes a backend, or is one of a backend, of what
\* runs in the client, or of neither.
LEMMA StepsOfService ==
  ASSUME Alone, SerialBackends, [ServiceNext]_vars
  PROVE  \/ \E s \in Instances, o \in Ops, i \in Ids, c \in Contents : Accept(s, o, i, c)
         \/ \E o \in Ops : TrialStep(o) \/ ReadRequest(o) \/ ReadEof(o) \/ Killed(o)
         \/ NativeStep
         \/ UNCHANGED trialVars
<1>1. ASSUME NEW s \in Instances, WriteRequest(s)
      PROVE  UNCHANGED trialVars \/ \E o \in Ops : ReadRequest(o)
  BY <1>1 DEF WriteRequest, SerialBackends, SpawnedInv
<1>2. ASSUME NEW s \in Instances, Crash(s)
      PROVE  UNCHANGED trialVars \/ \E o \in Ops : ReadEof(o)
  BY <1>2 DEF Crash
<1>3. ASSUME NEW s \in Instances,
             \/ Load(s) \/ Lock(s) \/ LockFails(s) \/ SavePending(s) \/ SavePendingFails(s)
             \/ CommunicateTimeout(s) \/ Collect(s) \/ CaptureEnds(s) \/ Exit(s) \/ Inspect(s)
             \/ CaptureKeys(s) \/ Stop(s)
      PROVE  UNCHANGED trialVars
  BY <1>3 DEF Load, Lock, LockFails, SavePending, SavePendingFails, CommunicateTimeout, Collect,
              CaptureEnds, Exit, Inspect, CaptureKeys, Stop
<1> QED
  BY <1>1, <1>2, <1>3 DEF ServiceNext, ServiceStep, LoopStep, BackendNext, Alone, vars

\* A backend of the service finds the directory of its request still free: it
\* never has an old one to archive, and no id is claimed twice.
Fresh ==
  /\ \A o \in Ops :
       /\ pc[o] \in {"stdin", "check", "reserve", "mkdir"} => owner[rid[o]] = None
       /\ pc[o] # "archive"
       /\ pc[o] = "record" => request[rid[o]] = None
  /\ \A i \in Ids : owner[i] = None => request[i] = None

LEMMA FreshStep ==
  ASSUME Alone, IInv, CallbackInv, ServiceTyped, SerialBackends, Fresh, [ServiceNext]_vars
  PROVE  Fresh'
<1> USE NoneAssumption DEF IInv, Typed, TypeOK
<1>1. ASSUME NEW o \in Ops, NEW q \in Ops, pc[o] = "stdin" \/ Acting(o), pc[q] = "stdin" \/ Acting(q)
      PROVE  o = q
  BY <1>1 DEF SerialBackends, Alone
<1>2. ASSUME NEW s \in Instances, NEW o \in Ops, NEW i \in Ids, NEW c \in Contents,
             Accept(s, o, i, c)
      PROVE  Fresh'
  <2>1. Pending(s) = None /\ svc[s] = "idle" /\ owner[i] = None
    BY <1>2 DEF Accept, Answer
  <2>2. \A q \in Ops : pc[q] # "stdin" /\ ~Acting(q)
    BY <2>1, NonePending
  <2>3. /\ pc' = [pc EXCEPT ![o] = "stdin"] /\ rid' = [rid EXCEPT ![o] = i]
        /\ UNCHANGED <<owner, request>>
    BY <1>2 DEF Accept, Start, Goto, dirVars
  <2> QED
    BY <2>1, <2>2, <2>3 DEF Fresh, Acting
<1>3. ASSUME NEW q \in Ops, TrialStep(q) PROVE Fresh'
  <2>1. CASE pc[q] = "print"
    <3>1. UNCHANGED <<rid, owner, request>> /\ pc' = [pc EXCEPT ![q] = "exited"]
      BY <1>3, <2>1
         DEF TrialStep, CheckFree, Replay, CheckRefused, ReserveFree, ReserveRetry,
             ReserveRefused, Archive, Mkdir, RenameOrMkdirFails, Record, RecordOrFindFails, Find,
             Prepare, SaveConfig, LaunchDebugger, RecordDebugger, DebuggerEnded, DebuggerTimeout,
             Arm, WorkerSettled, WatchTimeout, SaveResult, PrintResult, dirVars, Goto
    <3> QED
      BY <3>1 DEF Fresh
  <2>2. CASE pc[q] # "print"
    <3>1. Acting(q)
      BY <1>3, <2>2, TrialStepOf DEF Acting
    <3>2. \A o \in Ops : o # q => pc'[o] = pc[o] /\ pc[o] # "stdin" /\ ~Acting(o)
      BY <1>1, <1>3, <3>1, TrialStepOf
    <3>3. rid' = rid
      BY <1>3, TrialStepOf
    <3>4. rid[q] \in Ids
      BY <3>1 DEF Bookkeeping, Given, Acting
    <3>5. /\ pc'[q] \notin {"stdin", "check", "archive"}
          /\ pc'[q] \in {"reserve", "mkdir"} => owner'[rid[q]] = None
          /\ pc'[q] = "record" => request'[rid[q]] = None
          /\ \A i \in Ids : owner'[i] = None => request'[i] = None
      <4> USE DEF Fresh, Goto, Raise, Leave, dirVars
      <4>1. CASE Archive(q) \/ ReserveRetry(q)
        BY <4>1 DEF Archive, ReserveRetry
      <4>2. CASE Mkdir(q)
        BY <3>4, <4>2 DEF Mkdir
      <4>3. CASE Record(q)
        <5>1. owner[rid[q]] = q
          BY <4>3 DEF Record, Bookkeeping, Exclusive, Pipeline
        <5> QED
          BY <3>4, <4>3, <5>1 DEF Record
      <4>4. CASE \/ CheckFree(q) \/ Replay(q) \/ CheckRefused(q) \/ ReserveFree(q)
                 \/ ReserveRefused(q) \/ RenameOrMkdirFails(q) \/ RecordOrFindFails(q)
                 \/ Find(q) \/ Prepare(q)
        BY <4>4 DEF CheckFree, Replay, CheckRefused, ReserveFree, ReserveRefused,
                    RenameOrMkdirFails, RecordOrFindFails, Find, Prepare
      <4>5. CASE \/ SaveConfig(q) \/ LaunchDebugger(q) \/ RecordDebugger(q) \/ DebuggerEnded(q)
                 \/ DebuggerTimeout(q) \/ Arm(q) \/ WorkerSettled(q) \/ WatchTimeout(q)
                 \/ SaveResult(q) \/ PrintResult(q)
        BY <4>5 DEF SaveConfig, LaunchDebugger, RecordDebugger, DebuggerEnded, DebuggerTimeout,
                    Arm, WorkerSettled, WatchTimeout, SaveResult, PrintResult
      <4> QED
        BY <1>3, <4>1, <4>2, <4>3, <4>4, <4>5 DEF TrialStep
    <3> QED
      BY <3>2, <3>3, <3>5 DEF Fresh, Acting
  <2> QED
    BY <2>1, <2>2
<1>4. ASSUME NEW q \in Ops, ReadRequest(q) \/ ReadEof(q) \/ Killed(q) PROVE Fresh'
  BY <1>4 DEF ReadRequest, ReadEof, Killed, Goto, Raise, dirVars, Fresh
<1>5. CASE NativeStep
  <2>1. UNCHANGED <<pc, rid, owner, request>>
    BY <1>5 DEF NativeStep, DebuggerStep, Attach, NotIdle, LoaderCalls, LaunchHelper, Detach,
                DebuggerFails, WorkerStep, GiveUp, TakeArm, RoundtripFails, Submit, Callback,
                SubmitReturns, SubmitRejected, ClientRestart, opVars, dirVars
  <2> QED
    BY <2>1 DEF Fresh
<1>6. CASE UNCHANGED trialVars
  BY <1>6 DEF trialVars, opVars, dirVars, Fresh
<1> QED
  BY <1>2, <1>3, <1>4, <1>5, <1>6, StepsOfService

LEMMA FreshInvariant == ASSUME Alone PROVE ServiceSpec => []Fresh
<1>1. ServiceInit => Fresh
  BY DEF ServiceInit, Init, Fresh
<1>2. ServiceInv /\ Fresh /\ [ServiceNext]_vars => Fresh'
  BY FreshStep DEF ServiceInv
<1> QED
  BY <1>1, <1>2, ServiceInvariant, PTL DEF ServiceSpec

\* A step of what runs in the client ends, or transmits, the one active
\* operation or changes nothing that the promise speaks of.
LEMMA NativePromise ==
  ASSUME ServiceInv, NativeStep
  PROVE  /\ request' = request
         /\ \A i \in Ids : dbg'[i] # "none" <=> dbg[i] # "none"
         /\ \A i \in Ids : NativeBusy(i)' => NativeBusy(i)
         /\ \/ sent' = sent
            \/ \E i \in Ids : /\ NativeBusy(i) /\ NativeBusy(i)'
                             /\ sent[i] = 0 /\ sent' = [sent EXCEPT ![i] = 1]
<1> USE DEF ServiceInv, IInv, Typed, TypeOK, NativeBusy, dirVars
<1>1. ASSUME NEW j \in Ids, DebuggerStep(j)
      PROVE  /\ UNCHANGED <<request, sent, cb>> /\ NativeBusy(j)
             /\ dbg[j] # "none" /\ dbg'[j] # "none"
             /\ \A i \in Ids : i # j => dbg'[i] = dbg[i] /\ wrk'[i] = wrk[i]
  BY <1>1 DEF DebuggerStep, Attach, NotIdle, LoaderCalls, LaunchHelper, Detach, DebuggerFails,
              SetDebugger
<1>2. ASSUME NEW j \in Ids, WorkerStep(j), ~Submit(j)
      PROVE  /\ UNCHANGED <<request, sent, dbg>> /\ NativeBusy(j)
             /\ \A i \in Ids : i # j => cb'[i] = cb[i] /\ wrk'[i] = wrk[i]
  BY <1>2 DEF WorkerStep, GiveUp, TakeArm, RoundtripFails, Callback, SubmitReturns,
              SubmitRejected, SetWorker
<1>3. ASSUME NEW j \in Ids, Submit(j)
      PROVE  /\ UNCHANGED <<request, dbg>> /\ NativeBusy(j) /\ NativeBusy(j)'
             /\ sent[j] = 0 /\ sent' = [sent EXCEPT ![j] = 1]
             /\ \A i \in Ids : i # j => cb'[i] = cb[i] /\ wrk'[i] = wrk[i]
  <2>1. wrk[j] = "armed" /\ sent[j] = 0
    BY <1>3 DEF Submit, InTheClient, Submitted
  <2>2. sent' = [sent EXCEPT ![j] = sent[j] + 1]
    BY <1>3 DEF Submit
  <2>3. sent' = [sent EXCEPT ![j] = 1]
    BY <2>1, <2>2
  <2>4. /\ UNCHANGED <<request, dbg>> /\ wrk'[j] = "submitting"
        /\ \A i \in Ids : i # j => cb'[i] = cb[i] /\ wrk'[i] = wrk[i]
    BY <1>3 DEF Submit, SetWorker
  <2> QED
    BY <2>1, <2>3, <2>4
<1>4. CASE ClientRestart
  BY <1>4 DEF ClientRestart, Attached
<1> QED
  BY <1>1, <1>2, <1>3, <1>4 DEF NativeStep

\* A step of a backend claims its request, begins when nothing is active, or
\* changes nothing that the promise speaks of.
LEMMA BackendPromise ==
  ASSUME ServiceInv, Fresh, NEW q \in Ops, TrialStep(q)
  PROVE  \/ UNCHANGED <<request, natVars>>
         \/ /\ Record(q) /\ request[rid[q]] = None
            /\ rid[q] \in Ids /\ text[q] \in Contents
         \/ /\ LaunchDebugger(q) /\ rid[q] \in Ids /\ request[rid[q]] # None
            /\ dbg[rid[q]] = "none" /\ dbg' = [dbg EXCEPT ![rid[q]] = "started"]
            /\ \A i \in Ids : ~NativeBusy(i)
<1> USE DEF ServiceInv, IInv, Typed, TypeOK
<1>1. CASE Archive(q)
  BY <1>1 DEF Archive, Fresh
<1>2. CASE Record(q)
  BY <1>2 DEF Record, Fresh, Bookkeeping, Given
<1>3. CASE LaunchDebugger(q) /\ dbg' = [dbg EXCEPT ![rid[q]] = "started"]
  <2>1. /\ rid[q] \in Ids /\ dbg[rid[q]] = "none"
        /\ request[rid[q]] = text[q] /\ text[q] \in Contents
    BY <1>3 DEF LaunchDebugger, Bookkeeping, Given, Progress, Pipeline
  <2>2. ASSUME NEW i \in Ids, NativeBusy(i) PROVE FALSE
    <3>1. disk.pending = q
      BY <1>3 DEF LaunchDebugger, SerialBackends, Acting
    <3>2. rid[q] = i
      BY <2>2, <3>1, BusyIsPending
    <3> QED
      BY <2>1, <2>2, <3>2 DEF NativeBusy, InTheClient, Debugged, CallbackInv
  <2> QED
    BY <1>3, <2>1, <2>2, NoneAssumption
<1>4. CASE ~Archive(q) /\ ~Record(q)
           /\ ~(LaunchDebugger(q) /\ dbg' = [dbg EXCEPT ![rid[q]] = "started"])
  BY <1>4 DEF TrialStep, CheckFree, Replay, CheckRefused, ReserveFree, ReserveRetry,
              ReserveRefused, Mkdir, RenameOrMkdirFails, RecordOrFindFails, Find, Prepare,
              SaveConfig, LaunchDebugger, RecordDebugger, DebuggerEnded, DebuggerTimeout, Arm,
              WorkerSettled, WatchTimeout, SaveResult, PrintResult, dirVars, natVars
<1> QED
  BY <1>1, <1>2, <1>3, <1>4

LEMMA PromiseStep ==
  ASSUME Alone, ServiceInv, Fresh, [ServiceNext]_vars
  PROVE  [Promise!Next]_(Promise!promiseVars)
<1> DEFINE begun == {i \in Ids : dbg[i] # "none"}
           active == {i \in Ids : NativeBusy(i)}
<1> USE DEF Promise!Next, Promise!promiseVars
<1>0. \A i, j \in Ids : NativeBusy(i) /\ NativeBusy(j) => i = j
  BY BusyIsPending
<1>1. ASSUME UNCHANGED <<request, natVars>> PROVE [Promise!Next]_(Promise!promiseVars)
  BY <1>1 DEF natVars, NativeBusy
<1>2. ASSUME NEW q \in Ops, TrialStep(q) PROVE [Promise!Next]_(Promise!promiseVars)
  <2>1. ASSUME Record(q), request[rid[q]] = None, rid[q] \in Ids, text[q] \in Contents
        PROVE  Promise!Claim(rid[q], text[q])
    BY <2>1 DEF Promise!Claim, Record, natVars, NativeBusy
  <2>2. ASSUME LaunchDebugger(q), rid[q] \in Ids, request[rid[q]] # None, dbg[rid[q]] = "none",
               dbg' = [dbg EXCEPT ![rid[q]] = "started"], \A i \in Ids : ~NativeBusy(i)
        PROVE  Promise!Begin(rid[q])
    <3>1. UNCHANGED <<request, wrk, cb, sent>>
      BY <2>2 DEF LaunchDebugger, dirVars
    <3>2. begun' = begun \cup {rid[q]}
      BY <2>2 DEF ServiceInv, IInv, Typed, TypeOK
    <3>3. active' = {rid[q]}
      BY <2>2, <3>1 DEF NativeBusy, ServiceInv, IInv, Typed, TypeOK
    <3> QED
      BY <2>2, <3>1, <3>2, <3>3 DEF Promise!Begin
  <2>3. \/ UNCHANGED <<request, natVars>>
        \/ rid[q] \in Ids /\ text[q] \in Contents /\ Promise!Claim(rid[q], text[q])
        \/ rid[q] \in Ids /\ Promise!Begin(rid[q])
    <3>1. \/ UNCHANGED <<request, natVars>>
          \/ /\ Record(q) /\ request[rid[q]] = None
             /\ rid[q] \in Ids /\ text[q] \in Contents
          \/ /\ LaunchDebugger(q) /\ rid[q] \in Ids /\ request[rid[q]] # None
             /\ dbg[rid[q]] = "none" /\ dbg' = [dbg EXCEPT ![rid[q]] = "started"]
             /\ \A i \in Ids : ~NativeBusy(i)
      BY <1>2, BackendPromise
    <3>2. CASE Record(q) /\ request[rid[q]] = None /\ rid[q] \in Ids /\ text[q] \in Contents
      BY <2>1, <3>2
    <3>3. CASE /\ LaunchDebugger(q) /\ rid[q] \in Ids /\ request[rid[q]] # None
               /\ dbg[rid[q]] = "none" /\ dbg' = [dbg EXCEPT ![rid[q]] = "started"]
               /\ \A i \in Ids : ~NativeBusy(i)
      BY <2>2, <3>3
    <3> QED
      BY <3>1, <3>2, <3>3
  <2>4. ASSUME \/ rid[q] \in Ids /\ text[q] \in Contents /\ Promise!Claim(rid[q], text[q])
               \/ rid[q] \in Ids /\ Promise!Begin(rid[q])
        PROVE  [Promise!Next]_(Promise!promiseVars)
    BY <2>4 DEF Promise!Claim, Promise!Begin
  <2> QED
    BY <1>1, <2>3, <2>4
<1>3. CASE NativeStep
  <2>1. request' = request /\ begun' = begun
    BY <1>3, NativePromise
  <2>2. CASE sent' = sent /\ active' = active
    BY <2>1, <2>2
  <2>3. CASE sent' = sent /\ active' # active
    <3>1. PICK i \in Ids : NativeBusy(i) /\ ~NativeBusy(i)'
      BY <1>3, <2>3, NativePromise
    <3>2. active = {i} /\ active' = {}
      BY <1>0, <1>3, <3>1, NativePromise
    <3>3. Promise!Finish(i)
      BY <2>1, <2>3, <3>2 DEF Promise!Finish
    <3> QED
      BY <3>3
  <2>4. CASE sent' # sent
    <3>1. PICK i \in Ids : /\ NativeBusy(i) /\ NativeBusy(i)'
                          /\ sent[i] = 0 /\ sent' = [sent EXCEPT ![i] = 1]
      BY <1>3, <2>4, NativePromise
    <3>2. active = {i} /\ active' = {i}
      BY <1>0, <1>3, <3>1, NativePromise
    <3>3. Promise!Transmit(i)
      BY <2>1, <3>1, <3>2 DEF Promise!Transmit
    <3> QED
      BY <3>3
  <2> QED
    BY <2>2, <2>3, <2>4
<1>4. ASSUME UNCHANGED <<dirVars, natVars>> PROVE [Promise!Next]_(Promise!promiseVars)
  BY <1>1, <1>4 DEF dirVars
<1>5. CASE \/ \E s \in Instances, o \in Ops, i \in Ids, c \in Contents : Accept(s, o, i, c)
           \/ \E o \in Ops : ReadRequest(o) \/ ReadEof(o) \/ Killed(o)
           \/ UNCHANGED trialVars
  <2>1. UNCHANGED <<dirVars, natVars>>
    BY <1>5 DEF Accept, Start, ReadRequest, ReadEof, Killed, trialVars
  <2> QED
    BY <1>4, <2>1
<1> QED
  BY <1>2, <1>3, <1>5, StepsOfService DEF ServiceInv

(* The service is an implementation of SendPromise: an id stands for one   *)
(* content, its operation is begun once and alone, and transmits at most   *)
(* once while it is under way, whatever crashes, times out or fails.       *)
THEOREM ServiceKeepsPromise == ASSUME Alone PROVE ServiceSpec => KeepsPromise
<1>1. ServiceInit => Promise!Init
  BY DEF ServiceInit, Init, Promise!Init, NativeBusy
<1>2. ServiceInv /\ Fresh /\ [ServiceNext]_vars => [Promise!Next]_(Promise!promiseVars)
  BY PromiseStep
<1> QED
  BY <1>1, <1>2, ServiceInvariant, FreshInvariant, PTL DEF ServiceSpec, KeepsPromise, Promise!Spec
=============================================================================
