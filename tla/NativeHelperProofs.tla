------------------------- MODULE NativeHelperProofs -------------------------
(***************************************************************************)
(* Proofs about the helper for every number of copies of the callback that *)
(* the client makes: whenever the callback comes, early, late or never,    *)
(* the business object is deleted once and not under submit's feet, the    *)
(* last report is true, and no report turns on two flags.                  *)
(***************************************************************************)
EXTENDS NativeHelper, FiniteSetTheorems, TLAPS

Locking == {"expire", "parsed", "mark", "return", "destroy", "reject", "discard",
            "failed", "finish"}

\* A thread holds the mutex only in the section it took it for.
Held ==
  \/ lock = Free
  \/ lock = <<"worker", wpc>> /\ wpc \in Locking
  \/ lock = <<"network", npc>> /\ npc \in {"invoke", "destroy", "clone"}

Early == {"launch", "poll", "expire", "prepare", "parsed", "mark", "failed", "discard"}
Returned == {"release", "destroy", "leftover", "reject", "finish", "ended"}

\* Where the callback is, by where the worker is.
CallbackPlace ==
  /\ wpc \in Early => target = "none"
  /\ wpc \in {"submit", "reject"} => target = "ours"
  /\ target = "ours" => wpc \in {"submit", "return", "leftover", "reject"}
  /\ target = "taken" <=> business # "none"
  /\ wpc = "inside" => business \in {"client", "helper"}
  /\ wpc \in {"submit", "inside"} \/ target # "none" => st.submitted

\* Who has the business object, and how often it has been deleted.
ObjectPlace ==
  /\ business = "none" => npc = "idle" /\ clones = 0
  /\ npc \in {"invoke", "clone"} => business = "client"
  /\ npc = "clone" => clones < MaxClones
  /\ npc = "delete" => business = "helper" /\ returned /\ wpc # "release"
  /\ wpc = "release" => business = "helper" /\ returned
  /\ pending => business = "helper" /\ ~returned
  /\ returned => wpc \in Returned
  /\ business \in {"none", "client"} => deletes = 0 /\ st.callback_count = 0
  /\ business = "helper" => deletes = 0 /\ st.callback_count = 1
  /\ business = "deleted" => deletes \in {0, 1} /\ st.callback_count = deletes

One(b) == IF b THEN 1 ELSE 0

\* What live_callbacks counts: the callback while it is the worker's or the
\* object's, a deletion that is not counted yet, and the copies.
LiveIsCounted ==
  st.live = One(target = "ours") + One(business \in {"client", "helper"})
            + One(wpc = "destroy") + One(npc = "destroy") + clones

\* How worker.json follows the counters, and when it is closed.
Reported ==
  /\ wpc = "launch" => fd = "none"
  /\ fd = "none" => report = st /\ st = Fresh /\ wpc \in {"launch", "ended"} /\ target = "none"
  /\ report.submitted = st.submitted /\ report.worker_done = st.worker_done
  /\ st.worker_done => wpc = "ended"
  /\ fd = "open" /\ report.worker_done => report.live # 0
  /\ fd = "closed" => report = st /\ wpc = "ended" /\ st.live = 0
  /\ fd = "closed" /\ ~st.worker_done => st = Fresh /\ target = "none"

HelperInv ==
  HelperTypeOK /\ Held /\ CallbackPlace /\ ObjectPlace /\ LiveIsCounted /\ Reported

-----------------------------------------------------------------------------
\* What the sections change in the counters and flags keeps the record's type.
LEMMA CountersStay ==
  ASSUME NEW c \in Counters
  PROVE  /\ [c EXCEPT !.live = @ + 1] \in Counters
         /\ [c EXCEPT !.callback_count = @ + 1] \in Counters
         /\ [c EXCEPT !.failure = 4, !.worker_done = TRUE] \in Counters
         /\ [c EXCEPT !.live = @ + 1, !.submitted = TRUE] \in Counters
         /\ [c EXCEPT !.live = @ - 1, !.destroyed = @ + 1] \in Counters
         /\ [[c EXCEPT !.live = @ - 1, !.destroyed = @ + 1] EXCEPT !.failure = 3] \in Counters
<1>1. ASSUME NEW x \in 0..4, NEW b \in BOOLEAN
      PROVE  [c EXCEPT !.failure = x, !.worker_done = b] \in Counters
  BY DEF Counters
<1>2. ASSUME NEW x \in Int, NEW b \in BOOLEAN
      PROVE  [c EXCEPT !.live = x, !.submitted = b] \in Counters
  BY DEF Counters
<1>3. ASSUME NEW x \in Int, NEW y \in Nat
      PROVE  [c EXCEPT !.live = x, !.destroyed = y] \in Counters
  BY DEF Counters
<1>4. 4 \in 0..4 /\ c.live - 1 \in Int /\ c.live + 1 \in Int /\ c.destroyed + 1 \in Nat
  BY DEF Counters
<1>5. ASSUME NEW d \in Counters PROVE [d EXCEPT !.failure = 3] \in Counters
  BY DEF Counters
<1>6. ASSUME NEW x \in Int PROVE [c EXCEPT !.live = x] \in Counters
  BY DEF Counters
<1>7. ASSUME NEW y \in Nat PROVE [c EXCEPT !.callback_count = y] \in Counters
  BY DEF Counters
<1>8. c.callback_count + 1 \in Nat
  BY DEF Counters
<1> QED
  BY <1>1, <1>2, <1>3, <1>4, <1>5, <1>6, <1>7, <1>8

\* Every step of either thread keeps the invariant.
LEMMA HelperStep == ASSUME HelperInv, [HelperNext]_helperVars PROVE HelperInv'
<1> USE ClonesAssumption
    DEF HelperInv, HelperTypeOK, Held, CallbackPlace, ObjectPlace, LiveIsCounted, Reported, One,
        Early, Returned, Locking, WorkerSteps, NetworkSteps, Counters, Fresh, Free, Publish, Keep,
        Report, WorkerUnlocks, NetworkUnlocks, Destroyed
<1>1. CASE WorkerLocks
  BY <1>1 DEF WorkerLocks
<1>2. CASE NetworkLocks
  BY <1>2 DEF NetworkLocks
<1>3. CASE Launch \/ LaunchRefused
  <2>1. CASE Launch
    BY <2>1 DEF Launch
  <2>2. CASE LaunchRefused
    BY <2>2 DEF LaunchRefused
  <2> QED BY <1>3, <2>1, <2>2
<1>4. CASE Poll
  BY <1>4 DEF Poll
<1>5. CASE Expire
  <2>1. HelperTypeOK'
    <3>1. [st EXCEPT !.failure = 4, !.worker_done = TRUE] \in Counters
      BY CountersStay
    <3>2. st' \in Counters /\ report' \in Counters
      BY <1>5, <3>1 DEF Expire
    <3> QED
      BY <1>5, <3>2 DEF Expire
  <2>2. Held'
    BY <1>5 DEF Expire
  <2>3. CallbackPlace'
    BY <1>5 DEF Expire
  <2>4. ObjectPlace'
    BY <1>5 DEF Expire
  <2>5. LiveIsCounted'
    BY <1>5 DEF Expire
  <2>6. Reported'
    BY <1>5 DEF Expire
  <2> QED
    BY <2>1, <2>2, <2>3, <2>4, <2>5, <2>6 DEF HelperInv
<1>6. CASE Parse
  BY <1>6 DEF Parse
<1>7. CASE ParseFailed
  BY <1>7 DEF ParseFailed
<1>8. CASE Parsed
  BY <1>8 DEF Parsed
<1>9. CASE AllocationFailed
  BY <1>9 DEF AllocationFailed
<1>10. CASE MarkSubmitted
  <2>1. HelperTypeOK'
    <3>1. [st EXCEPT !.live = @ + 1, !.submitted = TRUE] \in Counters
      BY CountersStay
    <3>2. st' \in Counters /\ report' \in Counters
      BY <1>10, <3>1 DEF MarkSubmitted
    <3> QED
      BY <1>10, <3>2 DEF MarkSubmitted
  <2>2. Held'
    BY <1>10 DEF MarkSubmitted
  <2>3. CallbackPlace'
    BY <1>10 DEF MarkSubmitted
  <2>4. ObjectPlace'
    BY <1>10 DEF MarkSubmitted
  <2>5. LiveIsCounted'
    BY <1>10 DEF MarkSubmitted
  <2>6. Reported'
    BY <1>10 DEF MarkSubmitted
  <2> QED
    BY <2>1, <2>2, <2>3, <2>4, <2>5, <2>6 DEF HelperInv
<1>11. CASE EnterSubmit
  BY <1>11 DEF EnterSubmit
<1>12. CASE LeaveSubmit
  BY <1>12 DEF LeaveSubmit
<1>13. CASE SubmitReturned
  <2>1. HelperTypeOK'
    BY <1>13 DEF SubmitReturned
  <2>2. Held'
    BY <1>13 DEF SubmitReturned
  <2>3. CallbackPlace'
    BY <1>13 DEF SubmitReturned
  <2>4. ObjectPlace'
    BY <1>13 DEF SubmitReturned
  <2>5. LiveIsCounted'
    BY <1>13 DEF SubmitReturned
  <2>6. Reported'
    BY <1>13 DEF SubmitReturned
  <2> QED
    BY <2>1, <2>2, <2>3, <2>4, <2>5, <2>6 DEF HelperInv
<1>14. CASE WorkerReleases
  BY <1>14 DEF WorkerReleases
<1>15. CASE WorkerDestroys
  <2>1. HelperTypeOK'
    <3>1. Destroyed \in Counters
      BY CountersStay
    <3>2. st' \in Counters /\ report' \in Counters
      BY <1>15, <3>1 DEF WorkerDestroys
    <3> QED
      BY <1>15, <3>2 DEF WorkerDestroys
  <2>2. Held'
    BY <1>15 DEF WorkerDestroys
  <2>3. CallbackPlace'
    BY <1>15 DEF WorkerDestroys
  <2>4. ObjectPlace'
    BY <1>15 DEF WorkerDestroys
  <2>5. LiveIsCounted'
    BY <1>15 DEF WorkerDestroys
  <2>6. Reported'
    BY <1>15 DEF WorkerDestroys
  <2> QED
    BY <2>1, <2>2, <2>3, <2>4, <2>5, <2>6 DEF HelperInv
<1>16. CASE Leftover
  BY <1>16 DEF Leftover
<1>17. CASE Reject
  <2>1. HelperTypeOK'
    <3>1. Destroyed \in Counters
      BY CountersStay
    <3>0. [Destroyed EXCEPT !.failure = 3] \in Counters
      BY CountersStay
    <3>2. st' \in Counters /\ report' \in Counters
      BY <1>17, <3>1, <3>0 DEF Reject
    <3> QED
      BY <1>17, <3>2 DEF Reject
  <2>2. Held'
    BY <1>17 DEF Reject
  <2>3. CallbackPlace'
    BY <1>17 DEF Reject
  <2>4. ObjectPlace'
    BY <1>17 DEF Reject
  <2>5. LiveIsCounted'
    BY <1>17 DEF Reject
  <2>6. Reported'
    BY <1>17 DEF Reject
  <2> QED
    BY <2>1, <2>2, <2>3, <2>4, <2>5, <2>6 DEF HelperInv
<1>18. CASE Finish
  BY <1>18 DEF Finish
<1>19. CASE Invoke
  <2>1. HelperTypeOK'
    <3>1. [st EXCEPT !.callback_count = @ + 1] \in Counters
      BY CountersStay
    <3>2. st' \in Counters /\ report' \in Counters
      BY <1>19, <3>1 DEF Invoke
    <3> QED
      BY <1>19, <3>2 DEF Invoke
  <2>2. Held'
    BY <1>19 DEF Invoke
  <2>3. CallbackPlace'
    BY <1>19 DEF Invoke
  <2>4. ObjectPlace'
    BY <1>19 DEF Invoke
  <2>5. LiveIsCounted'
    BY <1>19 DEF Invoke
  <2>6. Reported'
    BY <1>19 DEF Invoke
  <2> QED
    BY <2>1, <2>2, <2>3, <2>4, <2>5, <2>6 DEF HelperInv
<1>20. CASE NetworkReleases
  BY <1>20 DEF NetworkReleases
<1>21. CASE Clone
  <2>1. HelperTypeOK'
    <3>1. [st EXCEPT !.live = @ + 1] \in Counters
      BY CountersStay
    <3>2. st' \in Counters /\ report' \in Counters
      BY <1>21, <3>1 DEF Clone
    <3>3. clones' \in 0..MaxClones
      BY <1>21 DEF Clone
    <3> QED
      BY <1>21, <3>2, <3>3 DEF Clone
  <2>2. Held'
    BY <1>21 DEF Clone
  <2>3. CallbackPlace'
    BY <1>21 DEF Clone
  <2>4. ObjectPlace'
    BY <1>21 DEF Clone
  <2>5. LiveIsCounted'
    BY <1>21 DEF Clone
  <2>6. Reported'
    BY <1>21 DEF Clone
  <2> QED
    BY <2>1, <2>2, <2>3, <2>4, <2>5, <2>6 DEF HelperInv
<1>22. CASE NetworkDestroys
  <2>1. HelperTypeOK'
    <3>1. Destroyed \in Counters
      BY CountersStay
    <3>2. st' \in Counters /\ report' \in Counters
      BY <1>22, <3>1 DEF NetworkDestroys
    <3> QED
      BY <1>22, <3>2 DEF NetworkDestroys
  <2>2. Held'
    BY <1>22 DEF NetworkDestroys
  <2>3. CallbackPlace'
    BY <1>22 DEF NetworkDestroys
  <2>4. ObjectPlace'
    BY <1>22 DEF NetworkDestroys
  <2>5. LiveIsCounted'
    BY <1>22 DEF NetworkDestroys
  <2>6. Reported'
    BY <1>22 DEF NetworkDestroys
  <2> QED
    BY <2>1, <2>2, <2>3, <2>4, <2>5, <2>6 DEF HelperInv
<1>23. CASE CallsInvoke
  BY <1>23 DEF CallsInvoke
<1>24. CASE ClientDrops
  BY <1>24 DEF ClientDrops
<1>25. CASE CallsClone
  BY <1>25 DEF CallsClone
<1>26. CASE DropsClone
  BY <1>26 DEF DropsClone
<1>27. CASE UNCHANGED helperVars
  BY <1>27 DEF helperVars
<1> QED
  BY <1>1, <1>2, <1>3, <1>4, <1>5, <1>6, <1>7, <1>8, <1>9, <1>10, <1>11, <1>12, <1>13, <1>14, <1>15, <1>16, <1>17, <1>18, <1>19, <1>20, <1>21, <1>22, <1>23, <1>24, <1>25, <1>26, <1>27
     DEF HelperNext, WorkerNext, NetworkRuns, NetworkCalls

(* The inductive invariant of the helper: who holds the mutex, where the   *)
(* callback and the business object are, what live_callbacks counts and    *)
(* how worker.json follows.                                                *)
THEOREM HelperInvariant == HelperSpec => []HelperInv
<1>1. HelperInit => HelperInv
  <2> SUFFICES ASSUME HelperInit PROVE HelperInv
    OBVIOUS
  <2>1. Fresh \in Counters
    BY DEF Fresh, Counters
  <2>2. HelperTypeOK
    <3>1. wpc \in WorkerSteps /\ npc \in NetworkSteps /\ lock = Free
      BY DEF HelperInit, WorkerSteps, NetworkSteps
    <3>2. clones \in 0..MaxClones /\ deletes \in Nat
      BY ClonesAssumption DEF HelperInit
    <3>3. st \in Counters /\ report \in Counters
      BY <2>1 DEF HelperInit
    <3> QED
      BY <3>1, <3>2, <3>3 DEF HelperInit, HelperTypeOK
  <2>3. Held /\ CallbackPlace /\ ObjectPlace /\ LiveIsCounted
    BY DEF HelperInit, Held, CallbackPlace, ObjectPlace, LiveIsCounted, One, Early, Returned, Fresh
  <2>4. Reported
    BY DEF HelperInit, Reported, Fresh
  <2> QED
    BY <2>2, <2>3, <2>4 DEF HelperInv
<1> QED
  BY <1>1, HelperStep, PTL DEF HelperSpec

(* However early or late the callback comes, the business object is        *)
(* deleted once: not under submit's feet, not twice and not after the      *)
(* client has deleted it (cb_invoke, ncut_launch's worker).                *)
THEOREM ObjectFreedOnce == HelperSpec => []FreedOnce
<1>1. HelperInv => FreedOnce
  BY DEF HelperInv, HelperTypeOK, CallbackPlace, ObjectPlace, FreedOnce
<1> QED
  BY <1>1, HelperInvariant, PTL

(* worker.json tells of the submission before submit is entered, and is    *)
(* closed only on the true last state (report_locked).                     *)
THEOREM HonestReport == HelperSpec => []ReportIsHonest
<1>1. HelperInv => ReportIsHonest
  BY DEF HelperInv, CallbackPlace, Reported, ReportIsHonest
<1> QED
  BY <1>1, HelperInvariant, PTL

(* A report that inspect_trial takes for completed is the last one: both   *)
(* threads have left the helper and the object has been released.          *)
THEOREM FinalWhenCompleted == HelperSpec => []CompletedIsFinal
<1>1. HelperInv => CompletedIsFinal
  <2> SUFFICES ASSUME HelperInv, Completed(report)
               PROVE  /\ wpc = "ended" /\ npc = "idle" /\ lock = Free
                      /\ business = "deleted" /\ deletes = 1 /\ clones = 0
    BY DEF CompletedIsFinal
  <2> USE DEF HelperInv, Completed
  <2>1. fd = "closed" /\ report = st
    BY DEF HelperTypeOK, Reported, Fresh
  <2>2. wpc = "ended" /\ st.live = 0 /\ st.callback_count = 1
    BY <2>1 DEF Reported
  <2>3. target # "ours" /\ business \notin {"client", "helper"} /\ npc # "destroy" /\ clones = 0
    BY <2>2 DEF HelperTypeOK, LiveIsCounted, One
  <2>4. business = "deleted" /\ deletes = 1
    BY <2>2, <2>3 DEF HelperTypeOK, ObjectPlace
  <2>5. npc = "idle"
    BY <2>3 DEF HelperTypeOK, NetworkSteps, ObjectPlace
  <2>6. lock = Free
    BY <2>2, <2>5 DEF Held, Locking
  <2> QED
    BY <2>2, <2>3, <2>4, <2>5, <2>6
<1> QED
  BY <1>1, HelperInvariant, PTL

-----------------------------------------------------------------------------
(* The text of worker.json while it is overwritten.                        *)

\* The flags of the report are those of the state: what is changed without
\* being reported are numbers.
FlagsInv == report.parsed = st.parsed

\* A report turns on the flag x at most.
TurnsOnOnly(x) == \A f \in Flags \ {x} : report'[f] => report[f]

\* One flag more is one element more.
LEMMA OneFlagMore ==
  ASSUME NEW x \in Flags, TurnsOnOnly(x)
  PROVE  Cardinality({f \in Flags : report'[f]}) - Cardinality({f \in Flags : report[f]}) <= 1
<1> DEFINE before == {f \in Flags : report[f]}
           after == {f \in Flags : report'[f]}
<1>1. IsFiniteSet(Flags)
  <2>1. IsFiniteSet({"worker_done"})
    BY FS_Singleton
  <2>2. IsFiniteSet({"worker_done"} \cup {"parsed"})
    BY <2>1, FS_AddElement
  <2>3. IsFiniteSet({"worker_done"} \cup {"parsed"} \cup {"submitted"})
    BY <2>2, FS_AddElement
  <2> QED
    BY <2>3 DEF Flags
<1>2. IsFiniteSet(before) /\ before \subseteq Flags /\ after \subseteq before \cup {x}
  BY <1>1, FS_Subset DEF TurnsOnOnly
<1> HIDE DEF before, after
<1>3. /\ IsFiniteSet(before \cup {x})
      /\ Cardinality(before \cup {x}) <= Cardinality(before) + 1
  BY <1>2, FS_AddElement, FS_CardinalityType
<1>4. Cardinality(after) <= Cardinality(before \cup {x}) /\ IsFiniteSet(after)
  BY <1>2, <1>3, FS_Subset
<1>5. Cardinality(after) \in Nat /\ Cardinality(before) \in Nat
      /\ Cardinality(before \cup {x}) \in Nat
  BY <1>2, <1>3, <1>4, FS_CardinalityType
<1>6. Cardinality(after) - Cardinality(before) <= 1
  BY <1>3, <1>4, <1>5
<1> QED
  BY <1>6 DEF before, after

\* What a section does to the flags: at most one is changed.
LEMMA FlagsOfState ==
  ASSUME HelperInv, HelperNext
  PROVE  /\ st'.parsed = st.parsed
            \/ (fd = "open" /\ report' = st' /\ \A f \in Flags \ {"parsed"} : st'[f] = st[f])
         /\ \E x \in Flags : \A f \in Flags \ {x} : st'[f] = st[f]
<1> USE DEF Flags
<1>0. st \in Counters
  BY DEF HelperInv, HelperTypeOK
<1>1. CASE st' = st
  BY <1>1
<1>2. CASE Parsed
  <2>1. fd = "open"
    BY <1>2 DEF Parsed, WorkerUnlocks, HelperInv, HelperTypeOK, Reported
  <2> QED
    BY <1>0, <1>2, <2>1 DEF Parsed, Publish, Report, Counters
<1>3. CASE MarkSubmitted
  BY <1>0, <1>3 DEF MarkSubmitted, Publish, Counters
<1>4. CASE Expire \/ Finish
  BY <1>0, <1>4 DEF Expire, Finish, Publish, Counters
<1>5. CASE ParseFailed \/ AllocationFailed \/ Reject
  BY <1>0, <1>5 DEF ParseFailed, AllocationFailed, Reject, Publish, Keep, Destroyed, Counters
<1>6. CASE WorkerDestroys \/ NetworkDestroys
  BY <1>0, <1>6 DEF WorkerDestroys, NetworkDestroys, Publish, Destroyed, Counters
<1>7. CASE Invoke \/ Clone
  BY <1>0, <1>7 DEF Invoke, Clone, Publish, Keep, Counters
<1> QED
  BY <1>1, <1>2, <1>3, <1>4, <1>5, <1>6, <1>7 DEF HelperNext, WorkerNext, NetworkRuns,
     NetworkCalls, WorkerLocks, NetworkLocks, Launch, LaunchRefused, Poll, Parse, EnterSubmit, LeaveSubmit,
     SubmitReturned, WorkerReleases, Leftover, NetworkReleases, CallsInvoke, ClientDrops,
     CallsClone, DropsClone

\* What is written is the state, but for the failure that Reject adds after it.
LEMMA WrittenFlags ==
  ASSUME HelperInv, HelperNext
  PROVE  report' = report \/ \A f \in Flags : report'[f] = st'[f]
<1>1. CASE Reject
  BY <1>1 DEF Reject, Report, Destroyed, Flags, HelperInv, HelperTypeOK, Counters
<1>2. CASE Launch
  BY <1>2 DEF Launch
<1> QED
  BY <1>1, <1>2 DEF HelperNext, WorkerNext, NetworkRuns, NetworkCalls, WorkerLocks,
     NetworkLocks, LaunchRefused, Poll, Expire, Parse, ParseFailed, Parsed, AllocationFailed, MarkSubmitted,
     EnterSubmit, LeaveSubmit, SubmitReturned, WorkerReleases, WorkerDestroys, Leftover, Finish,
     Invoke, NetworkReleases, Clone, NetworkDestroys, CallsInvoke, ClientDrops, CallsClone,
     DropsClone, Publish, Keep, Report

LEMMA FlagsStep ==
  ASSUME HelperInv, FlagsInv, HelperNext
  PROVE  FlagsInv' /\ \E x \in Flags : TurnsOnOnly(x)
<1>1. \A f \in Flags : report[f] = st[f]
  BY DEF Flags, FlagsInv, HelperInv, Reported
<1>2. FlagsInv'
  BY FlagsOfState, WrittenFlags DEF FlagsInv, Flags
<1>3. PICK x \in Flags : \A f \in Flags \ {x} : st'[f] = st[f]
  BY FlagsOfState
<1>4. TurnsOnOnly(x)
  BY <1>1, <1>3, WrittenFlags DEF TurnsOnOnly
<1> QED
  BY <1>2, <1>3, <1>4

(* A reader of worker.json who meets it between the overwriting and the    *)
(* cut finds the new report and at most a newline after it: no report      *)
(* turns on two flags (report_locked).                                     *)
THEOREM OldTextIsANewline == HelperSpec => LeftoverIsANewline
<1>1. HelperInit => FlagsInv
  BY DEF HelperInit, FlagsInv
<1>2. HelperInv /\ FlagsInv /\ [HelperNext]_helperVars => FlagsInv'
  BY FlagsStep DEF FlagsInv, helperVars
<1>3. HelperInv /\ FlagsInv /\ [HelperNext]_helperVars
      => [Cardinality({f \in Flags : report'[f]}) - Cardinality({f \in Flags : report[f]}) <= 1]_helperVars
  BY FlagsStep, OneFlagMore
<1> QED
  BY <1>1, <1>2, <1>3, HelperInvariant, PTL DEF HelperSpec, LeftoverIsANewline
=============================================================================
