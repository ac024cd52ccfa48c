---------------------------- MODULE TrialProofs ----------------------------
(***************************************************************************)
(* The safety properties of Trial, for any number of processes, request    *)
(* ids, contents and client restarts, while what is archived is what was   *)
(* looked at (CheckStillHolds), and what is enough for that.               *)
(***************************************************************************)
EXTENDS Trial, TLAPS

\* A process that has left its try block has settled on a status.
Settled == \A o \in Ops : pc[o] = "finally" => verdict[o] \in Statuses

\* A process that was started has a request id and a content, and it prints
\* last.
Given ==
  \A o \in Ops :
    /\ pc[o] # "unborn" => rid[o] \in Ids /\ text[o] \in Contents
    /\ out[o] # "empty" => pc[o] = "exited"

\* A directory is made by a process that was given its id; before, it is empty.
Owned ==
  \A i \in Ids :
    /\ owner[i] # None => pc[owner[i]] # "unborn" /\ rid[owner[i]] = i
    /\ owner[i] = None => dbg[i] = "none" /\ result[i] = None

\* One process at a time works in a directory, and it has no result yet.
Exclusive ==
  \A o \in Ops : Pipeline(o) => owner[rid[o]] = o /\ result[rid[o]] = None

\* What a process has done when it gets to a step.
Progress ==
  \A o \in Ops :
    /\ pc[o] \in {"record", "find", "prepare", "config", "popen"}
         => dbg[rid[o]] = "none"
    /\ pc[o] = "popen" => "config" \in files[rid[o]]
    /\ Pipeline(o) /\ pc[o] # "record" => request[rid[o]] = text[o]
    /\ pc[o] \in {"arm", "watch"} => dbg[rid[o]] = "exited"

\* What a debugger's existence tells, and when its helper can exist.
Debugged ==
  \A i \in Ids :
    /\ dbg[i] # "none" => /\ "config" \in files[i]
                          /\ owner[i] # None
                          /\ request[i] = text[owner[i]]
    /\ dbg[i] \in {"none", "started", "attached", "calling"} => wrk[i] = "none"

\* The helper's state decides how often its message was submitted.
Submitted ==
  \A i \in Ids :
    /\ wrk[i] # "none" => "worker" \in files[i]
    /\ wrk[i] \in {"none", "polling", "armed"} => sent[i] = 0
    /\ wrk[i] \in {"submitting", "rejected", "done"} => sent[i] = 1
    /\ sent[i] <= 1

\* The inductive invariant, in three parts that are proved one by one.
Typed == TypeOK /\ Settled
Bookkeeping == Given /\ Owned /\ Exclusive /\ Progress
InTheClient == Debugged /\ Submitted /\ ArmedOnlyDetached /\ CompletedIsSent
IInv == Typed /\ Bookkeeping /\ InTheClient

-----------------------------------------------------------------------------
(* Types.  Only the recorded status needs more than the types themselves.  *)

\* No step of a process, of a debugger, of a helper or of the client leaves the
\* types.
LEMMA TypeStep ==
  ASSUME Typed, [Next]_trialVars PROVE Typed'
<1> USE DEF Typed, TypeOK, Settled, trialVars, opVars, dirVars, natVars,
        Goto, Add, Raise, Leave, SetDebugger, SetWorker
<1>1. ASSUME NEW o \in Ops, NEW i \in Ids, NEW c \in Contents,
             Start(o, i, c, "stdin") \/ Start(o, i, c, "check")
      PROVE  Typed'
  BY <1>1 DEF Start, Stages
<1>2. ASSUME NEW o \in Ops, ReadRequest(o) PROVE Typed'
  BY <1>2 DEF ReadRequest, Stages
<1>3. ASSUME NEW o \in Ops, ReadEof(o) PROVE Typed'
  BY <1>3 DEF ReadEof, Stages, Verdicts
<1>4. ASSUME NEW o \in Ops, CheckFree(o) PROVE Typed'
  BY <1>4 DEF CheckFree, Stages
<1>5. ASSUME NEW o \in Ops, Replay(o) PROVE Typed'
  BY <1>5 DEF Replay, Stages, Verdicts
<1>6. ASSUME NEW o \in Ops, CheckRefused(o) PROVE Typed'
  BY <1>6 DEF CheckRefused, Stages, Verdicts
<1>7. ASSUME NEW o \in Ops, ReserveFree(o) PROVE Typed'
  BY <1>7 DEF ReserveFree, Stages
<1>8. ASSUME NEW o \in Ops, ReserveRetry(o) PROVE Typed'
  BY <1>8 DEF ReserveRetry, Stages
<1>9. ASSUME NEW o \in Ops, ReserveRefused(o) PROVE Typed'
  BY <1>9 DEF ReserveRefused, Stages, Verdicts
<1>10. ASSUME NEW o \in Ops, Archive(o) PROVE Typed'
  BY <1>10 DEF Archive, Stages, Artifacts, Debuggers, Workers, Callbacks
<1>11. ASSUME NEW o \in Ops, Mkdir(o) PROVE Typed'
  BY <1>11 DEF Mkdir, Stages
<1>12. ASSUME NEW o \in Ops, RenameOrMkdirFails(o) PROVE Typed'
  BY <1>12 DEF RenameOrMkdirFails, Stages, Verdicts
<1>13. ASSUME NEW o \in Ops, Record(o) PROVE Typed'
  BY <1>13 DEF Record, Stages
<1>14. ASSUME NEW o \in Ops, RecordOrFindFails(o) PROVE Typed'
  BY <1>14 DEF RecordOrFindFails, Stages, Verdicts
<1>15. ASSUME NEW o \in Ops, Find(o) PROVE Typed'
  BY <1>15 DEF Find, Stages
<1>16. ASSUME NEW o \in Ops, Prepare(o) PROVE Typed'
  BY <1>16 DEF Prepare, Stages, Verdicts, Statuses
<1>17. ASSUME NEW o \in Ops, SaveConfig(o) PROVE Typed'
  <2>1. files' \in [Ids -> SUBSET Artifacts]
    BY <1>17 DEF SaveConfig, Artifacts
  <2>2. QED
    BY <1>17, <2>1 DEF SaveConfig, Stages, Verdicts, Statuses
<1>18. ASSUME NEW o \in Ops, LaunchDebugger(o) PROVE Typed'
  BY <1>18 DEF LaunchDebugger, Stages, Verdicts, Statuses, Debuggers
<1>19. ASSUME NEW o \in Ops, RecordDebugger(o) PROVE Typed'
  BY <1>19 DEF RecordDebugger, Stages, Verdicts, Statuses, Artifacts
<1>20. ASSUME NEW o \in Ops, DebuggerEnded(o) PROVE Typed'
  BY <1>20 DEF DebuggerEnded, Stages, Verdicts, Statuses
<1>21. ASSUME NEW o \in Ops, DebuggerTimeout(o) PROVE Typed'
  BY <1>21 DEF DebuggerTimeout, Stages, Verdicts, Statuses
<1>22. ASSUME NEW o \in Ops, Arm(o) PROVE Typed'
  BY <1>22 DEF Arm, Stages, Verdicts, Statuses, Artifacts
<1>23. ASSUME NEW o \in Ops, WorkerSettled(o) PROVE Typed'
  BY <1>23 DEF WorkerSettled, Stages, Verdicts, Statuses
<1>24. ASSUME NEW o \in Ops, WatchTimeout(o) PROVE Typed'
  BY <1>24 DEF WatchTimeout, Stages, Verdicts, Statuses
<1>25. ASSUME NEW o \in Ops, SaveResult(o) PROVE Typed'
  <2>1. verdict[o] \in Statuses
    BY <1>25 DEF SaveResult
  <2>2. files' \in [Ids -> SUBSET Artifacts]
    BY <1>25 DEF SaveResult, Artifacts
  <2>3. result' \in [Ids -> Results \cup {None}]
    <3>1. Untraced(o) \in BOOLEAN
      BY DEF Untraced
    <3>2. [status |-> verdict[o], untraced |-> Untraced(o)] \in Results
      BY <2>1, <3>1 DEF Results
    <3>3. QED
      BY <1>25, <3>2 DEF SaveResult
  <2>4. QED
    BY <1>25, <2>2, <2>3 DEF SaveResult, Stages, Verdicts
<1>26. ASSUME NEW o \in Ops, PrintResult(o) PROVE Typed'
  <2>1. Printed(o) \in Outputs
    BY DEF Printed, Outputs
  <2>2. QED
    BY <1>26, <2>1 DEF PrintResult, Stages
<1>27. ASSUME NEW o \in Ops, Killed(o) PROVE Typed'
  BY <1>27 DEF Killed, Stages
<1>28. ASSUME NEW i \in Ids, Attach(i) PROVE Typed'
  BY <1>28 DEF Attach, Artifacts, Debuggers, Workers
<1>29. ASSUME NEW i \in Ids, NotIdle(i) PROVE Typed'
  BY <1>29 DEF NotIdle, Artifacts, Debuggers, Workers
<1>30. ASSUME NEW i \in Ids, LoaderCalls(i) PROVE Typed'
  BY <1>30 DEF LoaderCalls, Artifacts, Debuggers, Workers
<1>31. ASSUME NEW i \in Ids, LaunchHelper(i) PROVE Typed'
  BY <1>31 DEF LaunchHelper, Starts, Artifacts, Debuggers, Workers
<1>32. ASSUME NEW i \in Ids, Detach(i) PROVE Typed'
  BY <1>32 DEF Detach, Artifacts, Debuggers, Workers
<1>33. ASSUME NEW i \in Ids, DebuggerFails(i) PROVE Typed'
  <2>1. PICK some \in SUBSET {"injection", "worker"} : Add(i, some)
    BY <1>33 DEF DebuggerFails
  <2>2. files' \in [Ids -> SUBSET Artifacts]
    BY <2>1 DEF Artifacts
  <2>3. loaded' \in [Ids -> BOOLEAN]
    BY <1>33 DEF DebuggerFails, Starts
  <2>4. QED
    BY <1>33, <2>2, <2>3 DEF DebuggerFails, Debuggers
<1>34. ASSUME NEW i \in Ids, GiveUp(i) PROVE Typed'
  BY <1>34 DEF GiveUp, Workers, Callbacks
<1>35. ASSUME NEW i \in Ids, TakeArm(i) PROVE Typed'
  BY <1>35 DEF TakeArm, Workers, Callbacks
<1>36. ASSUME NEW i \in Ids, RoundtripFails(i) PROVE Typed'
  BY <1>36 DEF RoundtripFails, Workers, Callbacks
<1>37. ASSUME NEW i \in Ids, Submit(i) PROVE Typed'
  BY <1>37 DEF Submit, Workers, Callbacks
<1>38. ASSUME NEW i \in Ids, Callback(i) PROVE Typed'
  BY <1>38 DEF Callback, Workers, Callbacks
<1>39. ASSUME NEW i \in Ids, SubmitReturns(i) PROVE Typed'
  BY <1>39 DEF SubmitReturns, Workers, Callbacks
<1>40. ASSUME NEW i \in Ids, SubmitRejected(i) PROVE Typed'
  BY <1>40 DEF SubmitRejected, Workers, Callbacks
<1>41. CASE ClientRestart
  BY <1>41, ClientsAssumption DEF ClientRestart, Debuggers, Workers, Callbacks
<1>42. CASE UNCHANGED trialVars
  BY <1>42
<1> HIDE DEF Typed
<1>43. QED
  BY <1>1, <1>2, <1>3, <1>4, <1>5, <1>6, <1>7, <1>8, <1>9, <1>10, <1>11,
     <1>12, <1>13, <1>14, <1>15, <1>16, <1>17, <1>18, <1>19, <1>20,
     <1>21, <1>22, <1>23, <1>24, <1>25, <1>26, <1>27, <1>28, <1>29,
     <1>30, <1>31, <1>32, <1>33, <1>34, <1>35, <1>36, <1>37, <1>38,
     <1>39, <1>40, <1>41, <1>42
  DEF Next, NativeStep, TrialStep, DebuggerStep, WorkerStep

-----------------------------------------------------------------------------
(* Who owns a directory and how far its process has come.                  *)

\* Every step keeps one process per directory and that process's record of how
\* far it has come.
LEMMA BookkeepingStep ==
  ASSUME IInv, CheckStillHolds, [Next]_trialVars PROVE Bookkeeping'
<1> USE NoneAssumption
    DEF IInv, Typed, TypeOK, Settled, Bookkeeping, Given, Owned, Exclusive,
        Progress, InTheClient, Debugged, Submitted, ArmedOnlyDetached,
        Pipeline, Statuses, trialVars, opVars, dirVars, natVars,
        Goto, Add, Raise, Leave, SetDebugger, SetWorker
<1>1. ASSUME NEW o \in Ops, NEW i \in Ids, NEW c \in Contents,
             Start(o, i, c, "stdin") \/ Start(o, i, c, "check")
      PROVE  Bookkeeping'
  BY <1>1 DEF Start
<1>2. ASSUME NEW o \in Ops, ReadRequest(o) PROVE Bookkeeping'
  BY <1>2 DEF ReadRequest
<1>3. ASSUME NEW o \in Ops, ReadEof(o) PROVE Bookkeeping'
  BY <1>3 DEF ReadEof
<1>4. ASSUME NEW o \in Ops, CheckFree(o) PROVE Bookkeeping'
  BY <1>4 DEF CheckFree
<1>5. ASSUME NEW o \in Ops, Replay(o) PROVE Bookkeeping'
  BY <1>5 DEF Replay
<1>6. ASSUME NEW o \in Ops, CheckRefused(o) PROVE Bookkeeping'
  BY <1>6 DEF CheckRefused
<1>7. ASSUME NEW o \in Ops, ReserveFree(o) PROVE Bookkeeping'
  BY <1>7 DEF ReserveFree
<1>8. ASSUME NEW o \in Ops, ReserveRetry(o) PROVE Bookkeeping'
  BY <1>8 DEF ReserveRetry
<1>9. ASSUME NEW o \in Ops, ReserveRefused(o) PROVE Bookkeeping'
  BY <1>9 DEF ReserveRefused
<1>10. ASSUME NEW o \in Ops, Archive(o) PROVE Bookkeeping'
  BY <1>10 DEF Archive, CheckStillHolds, Retryable
<1>11. ASSUME NEW o \in Ops, Mkdir(o) PROVE Bookkeeping'
  BY <1>11 DEF Mkdir
<1>12. ASSUME NEW o \in Ops, RenameOrMkdirFails(o) PROVE Bookkeeping'
  BY <1>12 DEF RenameOrMkdirFails
<1>13. ASSUME NEW o \in Ops, Record(o) PROVE Bookkeeping'
  BY <1>13 DEF Record
<1>14. ASSUME NEW o \in Ops, RecordOrFindFails(o) PROVE Bookkeeping'
  BY <1>14 DEF RecordOrFindFails
<1>15. ASSUME NEW o \in Ops, Find(o) PROVE Bookkeeping'
  BY <1>15 DEF Find
<1>16. ASSUME NEW o \in Ops, Prepare(o) PROVE Bookkeeping'
  BY <1>16 DEF Prepare
<1>17. ASSUME NEW o \in Ops, SaveConfig(o) PROVE Bookkeeping'
  BY <1>17 DEF SaveConfig
<1>18. ASSUME NEW o \in Ops, LaunchDebugger(o) PROVE Bookkeeping'
  BY <1>18 DEF LaunchDebugger
<1>19. ASSUME NEW o \in Ops, RecordDebugger(o) PROVE Bookkeeping'
  BY <1>19 DEF RecordDebugger
<1>20. ASSUME NEW o \in Ops, DebuggerEnded(o) PROVE Bookkeeping'
  BY <1>20 DEF DebuggerEnded, Untraced
<1>21. ASSUME NEW o \in Ops, DebuggerTimeout(o) PROVE Bookkeeping'
  BY <1>21 DEF DebuggerTimeout
<1>22. ASSUME NEW o \in Ops, Arm(o) PROVE Bookkeeping'
  <2>1. /\ pc[o] = "arm"
        /\ pc' = [pc EXCEPT ![o] = "watch"] \/ pc' = [pc EXCEPT ![o] = "finally"]
        /\ UNCHANGED <<rid, text, out, owner, request, result, dbg>>
    BY <1>22 DEF Arm
  <2>2. Given'
    BY <2>1
  <2>3. Owned'
    BY <2>1
  <2>4. Exclusive'
    BY <2>1
  <2>5. \A p \in Ops : pc'[p] = "popen" => pc[p] = "popen" /\ p # o
    BY <2>1
  <2>6. \A i \in Ids : files[i] \subseteq files'[i]
    BY <1>22 DEF Arm
  <2>7. Progress'
    BY <2>1, <2>5, <2>6
  <2> QED
    BY <2>2, <2>3, <2>4, <2>7
<1>23. ASSUME NEW o \in Ops, WorkerSettled(o) PROVE Bookkeeping'
  BY <1>23 DEF WorkerSettled, WorkerDone, LiveCallback
<1>24. ASSUME NEW o \in Ops, WatchTimeout(o) PROVE Bookkeeping'
  BY <1>24 DEF WatchTimeout
<1>25. ASSUME NEW o \in Ops, SaveResult(o) PROVE Bookkeeping'
  BY <1>25 DEF SaveResult
<1>26. ASSUME NEW o \in Ops, PrintResult(o) PROVE Bookkeeping'
  BY <1>26 DEF PrintResult, Printed, RecordedCompleted, WorkerOk
<1>27. ASSUME NEW o \in Ops, Killed(o) PROVE Bookkeeping'
  BY <1>27 DEF Killed, Working
<1>28. ASSUME NEW i \in Ids, Attach(i) PROVE Bookkeeping'
  BY <1>28 DEF Attach
<1>29. ASSUME NEW i \in Ids, NotIdle(i) PROVE Bookkeeping'
  BY <1>29 DEF NotIdle
<1>30. ASSUME NEW i \in Ids, LoaderCalls(i) PROVE Bookkeeping'
  BY <1>30 DEF LoaderCalls
<1>31. ASSUME NEW i \in Ids, LaunchHelper(i) PROVE Bookkeeping'
  BY <1>31 DEF LaunchHelper
<1>32. ASSUME NEW i \in Ids, Detach(i) PROVE Bookkeeping'
  BY <1>32 DEF Detach
<1>33. ASSUME NEW i \in Ids, DebuggerFails(i) PROVE Bookkeeping'
  BY <1>33 DEF DebuggerFails
<1>34. ASSUME NEW i \in Ids, GiveUp(i) PROVE Bookkeeping'
  BY <1>34 DEF GiveUp
<1>35. ASSUME NEW i \in Ids, TakeArm(i) PROVE Bookkeeping'
  BY <1>35 DEF TakeArm
<1>36. ASSUME NEW i \in Ids, RoundtripFails(i) PROVE Bookkeeping'
  BY <1>36 DEF RoundtripFails
<1>37. ASSUME NEW i \in Ids, Submit(i) PROVE Bookkeeping'
  BY <1>37 DEF Submit
<1>38. ASSUME NEW i \in Ids, Callback(i) PROVE Bookkeeping'
  BY <1>38 DEF Callback
<1>39. ASSUME NEW i \in Ids, SubmitReturns(i) PROVE Bookkeeping'
  BY <1>39 DEF SubmitReturns
<1>40. ASSUME NEW i \in Ids, SubmitRejected(i) PROVE Bookkeeping'
  BY <1>40 DEF SubmitRejected
<1>41. CASE ClientRestart
  BY <1>41 DEF ClientRestart, Attached
<1>42. CASE UNCHANGED trialVars
  BY <1>42
<1> HIDE DEF Bookkeeping
<1>43. QED
  BY <1>1, <1>2, <1>3, <1>4, <1>5, <1>6, <1>7, <1>8, <1>9, <1>10, <1>11,
     <1>12, <1>13, <1>14, <1>15, <1>16, <1>17, <1>18, <1>19, <1>20,
     <1>21, <1>22, <1>23, <1>24, <1>25, <1>26, <1>27, <1>28, <1>29,
     <1>30, <1>31, <1>32, <1>33, <1>34, <1>35, <1>36, <1>37, <1>38,
     <1>39, <1>40, <1>41, <1>42
  DEF Next, NativeStep, TrialStep, DebuggerStep, WorkerStep

-----------------------------------------------------------------------------
(* The debugger, the helper and the submissions.                           *)

\* Every step keeps what a debugger and a helper imply about the artifacts, the
\* recorded content and the number of submissions.
LEMMA InTheClientStep ==
  ASSUME IInv, CheckStillHolds, [Next]_trialVars PROVE InTheClient'
<1> USE NoneAssumption
    DEF IInv, Typed, TypeOK, Settled, Bookkeeping, Given, Owned, Exclusive,
        Progress, InTheClient, Debugged, Submitted, ArmedOnlyDetached,
        CompletedIsSent, Pipeline, trialVars, opVars, dirVars, natVars,
        Goto, Add, Raise, Leave, SetDebugger, SetWorker
<1>1. ASSUME NEW o \in Ops, NEW i \in Ids, NEW c \in Contents,
             Start(o, i, c, "stdin") \/ Start(o, i, c, "check")
      PROVE  InTheClient'
  BY <1>1 DEF Start
<1>2. ASSUME NEW o \in Ops, ReadRequest(o) PROVE InTheClient'
  BY <1>2 DEF ReadRequest
<1>3. ASSUME NEW o \in Ops, ReadEof(o) PROVE InTheClient'
  BY <1>3 DEF ReadEof
<1>4. ASSUME NEW o \in Ops, CheckFree(o) PROVE InTheClient'
  BY <1>4 DEF CheckFree
<1>5. ASSUME NEW o \in Ops, Replay(o) PROVE InTheClient'
  BY <1>5 DEF Replay
<1>6. ASSUME NEW o \in Ops, CheckRefused(o) PROVE InTheClient'
  BY <1>6 DEF CheckRefused
<1>7. ASSUME NEW o \in Ops, ReserveFree(o) PROVE InTheClient'
  BY <1>7 DEF ReserveFree
<1>8. ASSUME NEW o \in Ops, ReserveRetry(o) PROVE InTheClient'
  BY <1>8 DEF ReserveRetry
<1>9. ASSUME NEW o \in Ops, ReserveRefused(o) PROVE InTheClient'
  BY <1>9 DEF ReserveRefused
<1>10. ASSUME NEW o \in Ops, Archive(o) PROVE InTheClient'
  BY <1>10 DEF Archive, CheckStillHolds, Retryable
<1>11. ASSUME NEW o \in Ops, Mkdir(o) PROVE InTheClient'
  BY <1>11 DEF Mkdir
<1>12. ASSUME NEW o \in Ops, RenameOrMkdirFails(o) PROVE InTheClient'
  BY <1>12 DEF RenameOrMkdirFails
<1>13. ASSUME NEW o \in Ops, Record(o) PROVE InTheClient'
  BY <1>13 DEF Record
<1>14. ASSUME NEW o \in Ops, RecordOrFindFails(o) PROVE InTheClient'
  BY <1>14 DEF RecordOrFindFails
<1>15. ASSUME NEW o \in Ops, Find(o) PROVE InTheClient'
  BY <1>15 DEF Find
<1>16. ASSUME NEW o \in Ops, Prepare(o) PROVE InTheClient'
  BY <1>16 DEF Prepare
<1>17. ASSUME NEW o \in Ops, SaveConfig(o) PROVE InTheClient'
  <2>1. Debugged'
    BY <1>17 DEF SaveConfig
  <2>2. Submitted'
    BY <1>17 DEF SaveConfig
  <2>3. ArmedOnlyDetached'
    BY <1>17 DEF SaveConfig
  <2>4. CompletedIsSent'
    BY <1>17 DEF SaveConfig
  <2> QED
    BY <2>1, <2>2, <2>3, <2>4
<1>18. ASSUME NEW o \in Ops, LaunchDebugger(o) PROVE InTheClient'
  <2>1. Debugged'
    BY <1>18 DEF LaunchDebugger
  <2>2. Submitted'
    BY <1>18 DEF LaunchDebugger
  <2>3. ArmedOnlyDetached'
    BY <1>18 DEF LaunchDebugger
  <2>4. CompletedIsSent'
    BY <1>18 DEF LaunchDebugger
  <2> QED
    BY <2>1, <2>2, <2>3, <2>4
<1>19. ASSUME NEW o \in Ops, RecordDebugger(o) PROVE InTheClient'
  <2>1. Debugged'
    BY <1>19 DEF RecordDebugger
  <2>2. Submitted'
    BY <1>19 DEF RecordDebugger
  <2>3. ArmedOnlyDetached'
    BY <1>19 DEF RecordDebugger
  <2>4. CompletedIsSent'
    BY <1>19 DEF RecordDebugger
  <2> QED
    BY <2>1, <2>2, <2>3, <2>4
<1>20. ASSUME NEW o \in Ops, DebuggerEnded(o) PROVE InTheClient'
  BY <1>20 DEF DebuggerEnded, Untraced
<1>21. ASSUME NEW o \in Ops, DebuggerTimeout(o) PROVE InTheClient'
  BY <1>21 DEF DebuggerTimeout
<1>22. ASSUME NEW o \in Ops, Arm(o) PROVE InTheClient'
  BY <1>22 DEF Arm
<1>23. ASSUME NEW o \in Ops, WorkerSettled(o) PROVE InTheClient'
  BY <1>23 DEF WorkerSettled, WorkerDone, LiveCallback
<1>24. ASSUME NEW o \in Ops, WatchTimeout(o) PROVE InTheClient'
  BY <1>24 DEF WatchTimeout
<1>25. ASSUME NEW o \in Ops, SaveResult(o) PROVE InTheClient'
  <2>1. ASSUME NEW i \in Ids
      PROVE  /\ files[i] \subseteq files'[i]
             /\ "arm" \in files'[i] => "arm" \in files[i]
    BY <1>25 DEF SaveResult
  <2>2. UNCHANGED <<rid, text, out, owner, request, dbg, wrk, cb, sent>>
    BY <1>25 DEF SaveResult
  <2>3. Debugged'
    BY <2>1, <2>2
  <2>4. Submitted'
    BY <2>1, <2>2
  <2>5. ArmedOnlyDetached'
    BY <2>1, <2>2
  <2>6. CompletedIsSent'
    BY <2>2
  <2>7. QED
    BY <2>3, <2>4, <2>5, <2>6
<1>26. ASSUME NEW o \in Ops, PrintResult(o) PROVE InTheClient'
  BY <1>26 DEF PrintResult, Printed, RecordedCompleted, WorkerOk
<1>27. ASSUME NEW o \in Ops, Killed(o) PROVE InTheClient'
  BY <1>27 DEF Killed, Working
<1>28. ASSUME NEW i \in Ids, Attach(i) PROVE InTheClient'
  BY <1>28 DEF Attach
<1>29. ASSUME NEW i \in Ids, NotIdle(i) PROVE InTheClient'
  BY <1>29 DEF NotIdle
<1>30. ASSUME NEW i \in Ids, LoaderCalls(i) PROVE InTheClient'
  BY <1>30 DEF LoaderCalls
<1>31. ASSUME NEW i \in Ids, LaunchHelper(i) PROVE InTheClient'
  BY <1>31 DEF LaunchHelper
<1>32. ASSUME NEW i \in Ids, Detach(i) PROVE InTheClient'
  BY <1>32 DEF Detach
<1>33. ASSUME NEW i \in Ids, DebuggerFails(i) PROVE InTheClient'
  BY <1>33 DEF DebuggerFails
<1>34. ASSUME NEW i \in Ids, GiveUp(i) PROVE InTheClient'
  BY <1>34 DEF GiveUp
<1>35. ASSUME NEW i \in Ids, TakeArm(i) PROVE InTheClient'
  BY <1>35 DEF TakeArm
<1>36. ASSUME NEW i \in Ids, RoundtripFails(i) PROVE InTheClient'
  BY <1>36 DEF RoundtripFails
<1>37. ASSUME NEW i \in Ids, Submit(i) PROVE InTheClient'
  BY <1>37 DEF Submit
<1>38. ASSUME NEW i \in Ids, Callback(i) PROVE InTheClient'
  BY <1>38 DEF Callback
<1>39. ASSUME NEW i \in Ids, SubmitReturns(i) PROVE InTheClient'
  BY <1>39 DEF SubmitReturns
<1>40. ASSUME NEW i \in Ids, SubmitRejected(i) PROVE InTheClient'
  BY <1>40 DEF SubmitRejected
<1>41. CASE ClientRestart
  BY <1>41 DEF ClientRestart, Attached
<1>42. CASE UNCHANGED trialVars
  BY <1>42
<1> HIDE DEF InTheClient
<1>43. QED
  BY <1>1, <1>2, <1>3, <1>4, <1>5, <1>6, <1>7, <1>8, <1>9, <1>10, <1>11,
     <1>12, <1>13, <1>14, <1>15, <1>16, <1>17, <1>18, <1>19, <1>20,
     <1>21, <1>22, <1>23, <1>24, <1>25, <1>26, <1>27, <1>28, <1>29,
     <1>30, <1>31, <1>32, <1>33, <1>34, <1>35, <1>36, <1>37, <1>38,
     <1>39, <1>40, <1>41, <1>42
  DEF Next, NativeStep, TrialStep, DebuggerStep, WorkerStep

-----------------------------------------------------------------------------
(* The invariant holds in every reachable state, and what follows from it. *)

\* The initial state satisfies the invariant: no process runs, no directory
\* exists, nothing was submitted.
LEMMA InitIInv == Init => IInv
<1> SUFFICES ASSUME Init PROVE IInv
  OBVIOUS
<1> USE DEF Init
<1>1. Typed
  BY ClientsAssumption
  DEF Typed, TypeOK, Settled, Stages, Verdicts, Outputs, Artifacts, Debuggers,
      Workers, Callbacks
<1>2. Bookkeeping
  BY NoneAssumption
  DEF Bookkeeping, Given, Owned, Exclusive, Progress, Pipeline
<1>3. InTheClient
  BY NoneAssumption DEF InTheClient, Debugged, Submitted, ArmedOnlyDetached,
                        CompletedIsSent
<1>4. QED
  BY <1>1, <1>2, <1>3 DEF IInv

\* Every variable of trial(), its directories and the client keeps its type,
\* whatever two archives do to each other.
THEOREM TypeCorrect == Spec => []TypeOK
<1>1. Init => Typed
  BY InitIInv DEF IInv
<1>2. Typed /\ [Next]_trialVars => Typed'
  BY TypeStep
<1>3. Typed => TypeOK
  BY DEF Typed
<1>4. QED
  BY <1>1, <1>2, <1>3, PTL DEF Spec

\* The inductive invariant holds in every state of every behaviour in which no
\* process archives a directory that has changed since it looked, whatever
\* process is killed when and however often the client is restarted.
THEOREM Inductive == Spec /\ []CheckStillHolds => []IInv
<1>1. Init => IInv
  BY InitIInv
<1>2. IInv /\ CheckStillHolds /\ [Next]_trialVars => IInv'
  BY TypeStep, BookkeepingStep, InTheClientStep DEF IInv
<1>3. QED
  BY <1>1, <1>2, PTL DEF Spec

\* The promise of a request id: however many processes are given an id
\* and wherever they are killed, the client's submit is entered at most once.
THEOREM SentAtMostOnce == Spec /\ []CheckStillHolds => []AtMostOnce
<1>1. IInv => AtMostOnce
  BY DEF IInv, InTheClient, Submitted, AtMostOnce
<1>2. QED
  BY <1>1, Inductive, PTL

\* The marker, an armed helper and a running submission all imply that the
\* debugger of that request has ended.
THEOREM WorksDetached == Spec /\ []CheckStillHolds => []ArmedOnlyDetached
<1>1. IInv => ArmedOnlyDetached
  BY DEF IInv, InTheClient
<1>2. QED
  BY <1>1, Inductive, PTL

\* A process prints "completed" only after one submission of its request id
\* that one successful callback has ended.
THEOREM CompletedWasSent == Spec /\ []CheckStillHolds => []CompletedIsSent
<1>1. IInv => CompletedIsSent
  BY DEF IInv, InTheClient
<1>2. QED
  BY <1>1, Inductive, PTL

\* The helper carries the content that request.json records for its id.
THEOREM RecordedContent == Spec /\ []CheckStillHolds => []RecordedIsSent
<1>1. ASSUME IInv PROVE RecordedIsSent
  <2>1. SUFFICES ASSUME NEW i \in Ids, wrk[i] # "none"
                 PROVE  /\ owner[i] # None
                        /\ request[i] # None
                        /\ request[i] = text[owner[i]]
    BY DEF RecordedIsSent
  <2>2. dbg[i] # "none"
    BY <1>1, <2>1 DEF IInv, InTheClient, Debugged
  <2>3. owner[i] # None /\ request[i] = text[owner[i]]
    BY <1>1, <2>2 DEF IInv, InTheClient, Debugged
  <2>4. owner[i] \in Ops /\ pc[owner[i]] # "unborn"
    BY <1>1, <2>3 DEF IInv, Typed, TypeOK, Bookkeeping, Owned
  <2>5. text[owner[i]] \in Contents
    BY <1>1, <2>4 DEF IInv, Bookkeeping, Given
  <2>6. QED
    BY <2>3, <2>5, NoneAssumption
<1>2. QED
  BY <1>1, Inductive, PTL

\* Without config.json nothing of the request ever ran: what before_injection()
\* tells the service is true whatever was killed when.
THEOREM NoArtifactMeansNothingRan ==
  Spec /\ []CheckStillHolds => []NoArtifactNoInjection
<1>1. IInv => NoArtifactNoInjection
  BY DEF IInv, InTheClient, Debugged, Submitted, NoArtifactNoInjection,
         BeforeInjection
<1>2. QED
  BY <1>1, Inductive, PTL

\* Only the archiving of a clean not-idle rejection gives an id's directory to
\* another process, and then nothing of it lives or was sent.
THEOREM CleanHandover == Spec /\ []CheckStillHolds => HandoverIsClean
<1> DEFINE Clean == \A i \in Ids :
             (owner[i] # None /\ owner'[i] # owner[i]) =>
               /\ sent[i] = 0
               /\ wrk[i] = "none"
               /\ dbg[i] = "exited"
<1>1. ASSUME IInv, CheckStillHolds, [Next]_trialVars PROVE [Clean]_trialVars
  <2> USE DEF trialVars, opVars, dirVars, natVars, Goto, Raise, Leave, Add,
              SetDebugger, SetWorker
  <2>1. ASSUME NEW o \in Ops, Mkdir(o) PROVE Clean
    BY <1>1, <2>1 DEF Mkdir, IInv, Typed, TypeOK
  <2>2. ASSUME NEW o \in Ops, Archive(o) PROVE Clean
    <3>1. ASSUME NEW i \in Ids, owner'[i] # owner[i] PROVE i = rid[o]
      BY <1>1, <2>2, <3>1 DEF Archive, IInv, Typed, TypeOK
    <3>2. Retryable(rid[o])
      BY <1>1, <2>2 DEF Archive, CheckStillHolds
    <3>3. ASSUME rid[o] \in Ids
          PROVE  /\ sent[rid[o]] = 0
                 /\ wrk[rid[o]] = "none"
                 /\ dbg[rid[o]] = "exited"
      BY <1>1, <3>2, <3>3
      DEF Retryable, IInv, Typed, TypeOK, InTheClient, Submitted
    <3>4. QED
      BY <3>1, <3>3
  <2>3. ASSUME UNCHANGED owner PROVE Clean
    BY <2>3
  <2>4. CASE \E o \in Ops : TrialStep(o)
    <3>1. PICK o \in Ops : TrialStep(o)
      BY <2>4
    <3>2. CASE Mkdir(o) \/ Archive(o)
      BY <3>2, <2>1, <2>2
    <3>3. CASE ~(Mkdir(o) \/ Archive(o))
      <4>1. UNCHANGED owner
        BY <3>1, <3>3
        DEF TrialStep, CheckFree, Replay, CheckRefused, ReserveFree,
            ReserveRetry, ReserveRefused, RenameOrMkdirFails, Record,
            RecordOrFindFails, Find, Prepare, SaveConfig, LaunchDebugger,
            RecordDebugger, DebuggerEnded, DebuggerTimeout, Arm, WorkerSettled,
            WatchTimeout, SaveResult, PrintResult
      <4>2. QED
        BY <4>1, <2>3
    <3>4. QED
      BY <3>2, <3>3
  <2>5. CASE NativeStep
    <3>1. UNCHANGED owner
      BY <2>5 DEF NativeStep, DebuggerStep, WorkerStep, Attach, NotIdle,
         LoaderCalls, LaunchHelper, Detach, DebuggerFails, GiveUp, TakeArm,
         RoundtripFails, Submit, Callback, SubmitReturns, SubmitRejected,
         ClientRestart
    <3>2. QED
      BY <3>1, <2>3
  <2>6. CASE Next /\ ~NativeStep /\ ~\E o \in Ops : TrialStep(o)
    <3>1. UNCHANGED owner
      BY <2>6 DEF Next, Start, ReadRequest, ReadEof, Killed
    <3>2. QED
      BY <3>1, <2>3
  <2>7. QED
    BY <1>1, <2>4, <2>5, <2>6
<1>2. QED
  BY <1>1, Inductive, PTL DEF Spec, HandoverIsClean

-----------------------------------------------------------------------------
(* What keeps CheckStillHolds.                                             *)

\* No two processes are between the look at a directory and its rename at the
\* same time.
OneArchives ==
  \A o, q \in Ops : pc[o] = "archive" /\ pc[q] = "archive" /\ rid[o] = rid[q] => o = q

\* At most two processes are given the same request id.
TwoPerId ==
  \A o, p, q \in Ops :
    (rid[o] # None /\ rid[o] = rid[p] /\ rid[p] = rid[q]) => o = p \/ p = q \/ o = q

\* A process owns no directory before its own mkdir.
OwnsLater ==
  \A o \in Ops, i \in Ids :
    pc[o] \in {"unborn", "stdin", "check", "reserve", "archive", "mkdir"} => owner[i] # o

\* A step of trial() is one of a process that has read its request; it
\* archives only what it has found retryable.
LEMMA TrialStepOf ==
  ASSUME IInv, NEW q \in Ops, TrialStep(q)
  PROVE  /\ pc[q] \notin {"unborn", "stdin", "exited"}
         /\ pc'[q] \notin {"unborn", "stdin"}
         /\ \A p \in Ops : p # q => pc'[p] = pc[p]
         /\ pc[q] = "print" => pc'[q] = "exited"
         /\ pc'[q] = "archive" => Retryable(rid[q]) /\ UNCHANGED <<dirVars, natVars>>
         /\ rid' = rid
<1> USE DEF IInv, Typed, TypeOK, Goto, Raise, Leave
<1>1. CASE CheckFree(q) \/ Replay(q) \/ CheckRefused(q) \/ ReserveFree(q) \/ ReserveRetry(q)
           \/ ReserveRefused(q) \/ RenameOrMkdirFails(q)
  BY <1>1 DEF CheckFree, Replay, CheckRefused, ReserveFree, ReserveRetry, ReserveRefused,
              RenameOrMkdirFails
<1>2. CASE Archive(q) \/ Mkdir(q) \/ Record(q) \/ RecordOrFindFails(q) \/ Find(q) \/ Prepare(q)
  BY <1>2 DEF Archive, Mkdir, Record, RecordOrFindFails, Find, Prepare
<1>3. CASE SaveConfig(q) \/ LaunchDebugger(q) \/ RecordDebugger(q) \/ DebuggerEnded(q)
           \/ DebuggerTimeout(q)
  BY <1>3 DEF SaveConfig, LaunchDebugger, RecordDebugger, DebuggerEnded, DebuggerTimeout
<1>4. CASE Arm(q) \/ WorkerSettled(q) \/ WatchTimeout(q) \/ SaveResult(q) \/ PrintResult(q)
  BY <1>4 DEF Arm, WorkerSettled, WatchTimeout, SaveResult, PrintResult
<1> QED
  BY <1>1, <1>2, <1>3, <1>4 DEF TrialStep

\* A retryable directory has no process in it, so a step of trial() changes it
\* by no other way than its archive.
LEMMA TrialStepAt ==
  ASSUME IInv, NEW q \in Ops, TrialStep(q), NEW i \in Ids, Retryable(i),
         i # rid[q] \/ pc[q] # "archive"
  PROVE  Retryable(i)'
<1> USE DEF IInv, Typed, TypeOK, dirVars, natVars, Add, Goto, Raise, Leave
<1>1. CASE CheckFree(q) \/ Replay(q) \/ CheckRefused(q) \/ ReserveFree(q) \/ ReserveRetry(q)
           \/ ReserveRefused(q) \/ RenameOrMkdirFails(q) \/ RecordOrFindFails(q) \/ Find(q)
           \/ Prepare(q) \/ DebuggerEnded(q) \/ DebuggerTimeout(q) \/ WorkerSettled(q)
           \/ WatchTimeout(q) \/ PrintResult(q)
  BY <1>1 DEF CheckFree, Replay, CheckRefused, ReserveFree, ReserveRetry, ReserveRefused,
              RenameOrMkdirFails, RecordOrFindFails, Find, Prepare, DebuggerEnded,
              DebuggerTimeout, WorkerSettled, WatchTimeout, PrintResult, Retryable
<1>2. CASE Archive(q) \/ Mkdir(q)
  BY <1>2 DEF Archive, Mkdir, Retryable
<1>3. CASE Record(q) \/ SaveConfig(q) \/ LaunchDebugger(q) \/ RecordDebugger(q) \/ Arm(q)
           \/ SaveResult(q)
  <2>1. Pipeline(q)
    BY <1>3 DEF Record, SaveConfig, LaunchDebugger, RecordDebugger, Arm, SaveResult, Pipeline
  <2>2. i # rid[q]
    BY <2>1 DEF Bookkeeping, Exclusive, Retryable
  <2> QED
    BY <1>3, <2>2 DEF Record, SaveConfig, LaunchDebugger, RecordDebugger, Arm, SaveResult,
                      Retryable
<1> QED
  BY <1>1, <1>2, <1>3 DEF TrialStep

\* Nothing of a debugger, a helper or the client changes a retryable directory.
LEMMA NativeStepAt ==
  ASSUME IInv, NativeStep
  PROVE  /\ UNCHANGED <<opVars, owner>>
         /\ \A i \in Ids : Retryable(i) => Retryable(i)'
<1> USE DEF IInv, Typed, TypeOK, dirVars, natVars, Add, SetDebugger, SetWorker, Retryable
<1>1. ASSUME NEW j \in Ids, DebuggerStep(j)
      PROVE  /\ UNCHANGED <<opVars, owner>>
             /\ \A i \in Ids : Retryable(i) => Retryable(i)'
  BY <1>1 DEF DebuggerStep, Attach, NotIdle, LoaderCalls, LaunchHelper, Detach, DebuggerFails
<1>2. ASSUME NEW j \in Ids, WorkerStep(j)
      PROVE  /\ UNCHANGED <<opVars, owner>>
             /\ \A i \in Ids : Retryable(i) => Retryable(i)'
  BY <1>2 DEF WorkerStep, GiveUp, TakeArm, RoundtripFails, Submit, Callback, SubmitReturns,
              SubmitRejected
<1>3. CASE ClientRestart
  BY <1>3 DEF ClientRestart, Attached
<1> QED
  BY <1>1, <1>2, <1>3 DEF NativeStep

\* A process makes a directory only by its own mkdir, and never goes back.
LEMMA OwnsLaterStep ==
  ASSUME IInv, OwnsLater, [Next]_trialVars PROVE OwnsLater'
<1> USE NoneAssumption DEF OwnsLater, IInv, Typed, TypeOK, trialVars, opVars, dirVars, natVars
<1>1. ASSUME NEW q \in Ops, TrialStep(q) PROVE OwnsLater'
  <2> USE DEF Goto, Raise, Leave, Add
  <2>1. CASE CheckFree(q) \/ Replay(q) \/ CheckRefused(q) \/ ReserveFree(q) \/ ReserveRetry(q)
             \/ ReserveRefused(q) \/ RenameOrMkdirFails(q) \/ RecordOrFindFails(q) \/ Find(q)
             \/ Prepare(q) \/ DebuggerEnded(q) \/ DebuggerTimeout(q) \/ WorkerSettled(q)
             \/ WatchTimeout(q) \/ PrintResult(q)
    BY <2>1 DEF CheckFree, Replay, CheckRefused, ReserveFree, ReserveRetry, ReserveRefused,
                RenameOrMkdirFails, RecordOrFindFails, Find, Prepare, DebuggerEnded,
                DebuggerTimeout, WorkerSettled, WatchTimeout, PrintResult
  <2>2. CASE Archive(q) \/ Mkdir(q) \/ Record(q) \/ SaveConfig(q) \/ LaunchDebugger(q)
             \/ RecordDebugger(q) \/ Arm(q) \/ SaveResult(q)
    BY <2>2 DEF Archive, Mkdir, Record, SaveConfig, LaunchDebugger, RecordDebugger, Arm,
                SaveResult
  <2> QED
    BY <1>1, <2>1, <2>2 DEF TrialStep
<1>2. CASE NativeStep
  BY <1>2, NativeStepAt
<1>3. CASE \/ \E o \in Ops, j \in Ids, c \in Contents :
                Start(o, j, c, "stdin") \/ Start(o, j, c, "check")
           \/ \E o \in Ops : ReadRequest(o) \/ ReadEof(o) \/ Killed(o)
           \/ UNCHANGED trialVars
  BY <1>3 DEF Start, ReadRequest, ReadEof, Killed, Goto, Raise
<1> QED
  BY <1>1, <1>2, <1>3 DEF Next

\* Two processes cannot both be about to archive: the directory is a third's.
LEMMA TwoArchiveAlone ==
  ASSUME IInv, OwnsLater, TwoPerId, CheckStillHolds PROVE OneArchives
<1> SUFFICES ASSUME NEW o \in Ops, NEW q \in Ops, pc[o] = "archive", pc[q] = "archive",
                    rid[o] = rid[q]
             PROVE  o = q
  BY DEF OneArchives
<1>1. rid[o] \in Ids /\ result[rid[o]] # None
  BY DEF CheckStillHolds, Retryable, IInv, Bookkeeping, Given
<1>2. owner[rid[o]] \in Ops /\ rid[owner[rid[o]]] = rid[o]
  BY <1>1 DEF IInv, Typed, TypeOK, Bookkeeping, Owned
<1>3. owner[rid[o]] # o /\ owner[rid[o]] # q
  BY <1>1 DEF OwnsLater
<1> QED
  BY <1>1, <1>2, <1>3, NoneAssumption DEF TwoPerId

\* Nobody but another archive gets between a look and its rename.
LEMMA ArchiveStep ==
  ASSUME IInv, OneArchives, CheckStillHolds, [Next]_trialVars PROVE CheckStillHolds'
<1> SUFFICES ASSUME NEW o \in Ops, pc'[o] = "archive" PROVE Retryable(rid[o])'
  BY DEF CheckStillHolds
<1> USE DEF IInv, Typed, TypeOK
<1>1. CASE NativeStep
  <2>1. UNCHANGED opVars
    BY <1>1, NativeStepAt DEF opVars
  <2>2. Retryable(rid[o]) /\ rid[o] \in Ids /\ rid'[o] = rid[o]
    BY <2>1 DEF CheckStillHolds, opVars, Bookkeeping, Given
  <2> QED
    BY <1>1, <2>2, NativeStepAt DEF Retryable
<1>2. CASE TrialStep(o)
  BY <1>2, TrialStepOf DEF dirVars, natVars, Retryable, Bookkeeping, Given
<1>3. ASSUME NEW q \in Ops, q # o, TrialStep(q) PROVE Retryable(rid[o])'
  <2>1. pc[o] = "archive" /\ rid' = rid
    BY <1>3, TrialStepOf
  <2>2. Retryable(rid[o]) /\ rid[o] \in Ids
    BY <2>1 DEF CheckStillHolds, Bookkeeping, Given
  <2>3. rid[o] # rid[q] \/ pc[q] # "archive"
    BY <1>3, <2>1 DEF OneArchives
  <2> QED
    BY <1>3, <2>1, <2>2, <2>3, TrialStepAt DEF Retryable
<1>4. CASE \/ \E p \in Ops, j \in Ids, c \in Contents :
                Start(p, j, c, "stdin") \/ Start(p, j, c, "check")
           \/ \E p \in Ops : ReadRequest(p) \/ ReadEof(p) \/ Killed(p)
           \/ UNCHANGED trialVars
  <2>1. pc[o] = "archive" /\ rid'[o] = rid[o] /\ UNCHANGED <<dirVars, natVars>>
    BY <1>4 DEF Start, ReadRequest, ReadEof, Killed, Goto, Raise, trialVars, opVars
  <2> QED
    BY <2>1 DEF CheckStillHolds, dirVars, natVars, Retryable
<1> QED
  BY <1>1, <1>2, <1>3, <1>4 DEF Next

\* If no two processes are in reserve_trial_work between the look and the rename
\* at once, as under a lock, what is archived is what was looked at, however many
\* processes are given the id.
THEOREM OneArchivesSafely == Spec /\ []OneArchives => []CheckStillHolds
<1>1. Init => IInv /\ CheckStillHolds
  BY InitIInv DEF Init, CheckStillHolds
<1>2. OneArchives /\ IInv /\ CheckStillHolds /\ [Next]_trialVars => IInv' /\ CheckStillHolds'
  BY TypeStep, BookkeepingStep, InTheClientStep, ArchiveStep DEF IInv
<1> QED
  BY <1>1, <1>2, PTL DEF Spec

\* With at most two processes on an id that is so without a lock: it takes a
\* third one to archive what another has just looked at.
THEOREM TwoArchiveSafely == Spec /\ []TwoPerId => []CheckStillHolds
<1> DEFINE Two == IInv /\ OwnsLater /\ CheckStillHolds
<1>1. Init => Two
  BY InitIInv, NoneAssumption DEF Init, OwnsLater, CheckStillHolds
<1>2. TwoPerId /\ Two /\ [Next]_trialVars => Two'
  BY TypeStep, BookkeepingStep, InTheClientStep, OwnsLaterStep, TwoArchiveAlone, ArchiveStep
     DEF IInv
<1> QED
  BY <1>1, <1>2, PTL DEF Spec

\* Such a lock is enough for AtMostOnce, wherever processes are killed and
\* however often the client is restarted.
THEOREM SentOnceUnderALock == Spec /\ []OneArchives => []AtMostOnce
BY OneArchivesSafely, SentAtMostOnce, PTL

\* Two processes on an id submit its message at most once, whatever becomes of
\* them and of the client.
THEOREM TwoSendOnce == Spec /\ []TwoPerId => []AtMostOnce
BY TwoArchiveSafely, SentAtMostOnce, PTL

=============================================================================
