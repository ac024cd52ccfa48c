---------------------------- MODULE ProbeEvents -----------------------------
(***************************************************************************)
(* The three breakpoints of the capture probe (trace_in_gdb) and the       *)
(* client's network tasks that hit them: a task is dispatched, its request *)
(* is serialised, it ends.  Threads of the client work on several tasks at *)
(* once, ids and contexts are used again, and a handler can fail before or *)
(* after it has recorded what it read.                                     *)
(***************************************************************************)
EXTENDS Naturals, FiniteSets

CONSTANTS
  Tasks,        \* the client's tasks: which one it is ("no"), task_id,
                \* user_context, and whether the cgi is one of CGIS ("send")
  MaxEvents,    \* 2: dispatches that are recorded
  MaxErrors,    \* 3: errors after which the client is stopped
  MaxHits       \* 100: hits after which the client is stopped

\* watched_tasks has no entry for the id.
NoContext == "none"

\* Ids and contexts may be used again by any number of tasks.
ASSUME TasksAssumption == \A t \in Tasks : t.context # NoContext

ASSUME EventsAssumption == {MaxEvents, MaxErrors, MaxHits} \subseteq Nat \ {0}

VARIABLES
  phase,        \* each task: "new", "dispatched", "serialised", "ended"
  watched,      \* watched_tasks: contexts by id
  events, req2buf, ends,   \* the records
  hits, errors,
  stopped       \* a handler returned true: the observation is over

eventVars == <<phase, watched, events, req2buf, ends, hits, errors, stopped>>

Ids == {t.id : t \in Tasks}

EventsInit ==
  /\ phase = [t \in Tasks |-> "new"]
  /\ watched = [i \in Ids |-> NoContext]
  /\ events = {} /\ req2buf = {} /\ ends = {}
  /\ hits = 0 /\ errors = 0
  /\ stopped = FALSE

\* The client's own rule: of the tasks under way no two have the same id and
\* context, and no two sends the same id.
UnderWay == {t \in Tasks : phase[t] \in {"dispatched", "serialised"}}

Free(t) ==
  \A u \in UnderWay : u.id # t.id \/ (u.context # t.context /\ ~(u.send /\ t.send))

\* The client reaches a breakpoint; its handler counts the hit first.
Hit(t, from, to) ==
  /\ ~stopped
  /\ phase[t] = from
  /\ phase' = [phase EXCEPT ![t] = to]
  /\ hits' = hits + 1

Limit == stopped' = (hits' >= MaxHits \/ errors' >= MaxErrors)

\* Mutant: an id is enough.
Matches_IdOnly(t) == watched[t.id] # NoContext

Matches(t) == watched[t.id] = t.context

Fails == errors' = errors + 1

Observed(t) == t.send /\ Cardinality(events) < MaxEvents

\* Observe.stop: the task is watched before the rest of its record is read;
\* an error comes at any point, at the latest from the save.
Dispatch(t) ==
  /\ Hit(t, "new", "dispatched")
  /\ Free(t)
  /\ \/ ~Observed(t) /\ UNCHANGED <<watched, events, errors>>
     \/ Fails /\ UNCHANGED <<watched, events>>
     \/ /\ Observed(t)
        /\ watched' = [watched EXCEPT ![t.id] = t.context]
        /\ \/ events' = events \cup {t} /\ (Fails \/ UNCHANGED errors)
           \/ Fails /\ UNCHANGED events
  /\ Limit
  /\ UNCHANGED <<req2buf, ends>>

\* ObserveReq2Buf.stop
Serialise(t) ==
  /\ Hit(t, "dispatched", "serialised")
  /\ \/ Matches(t) /\ req2buf' = req2buf \cup {t} /\ (Fails \/ UNCHANGED errors)
     \/ ~Matches(t) /\ UNCHANGED <<req2buf, errors>>
     \/ Fails /\ UNCHANGED req2buf
  /\ Limit
  /\ UNCHANGED <<watched, events, ends>>

\* A record has the id alone to find the one of the callback by.
EndOf(t) == [task |-> t, req2buf |-> \E u \in req2buf : u.id = t.id]

\* ObserveTaskEnd.stop: the end of a watched task ends the observation.
TaskEnds(t) ==
  /\ \/ Hit(t, "serialised", "ended")
     \/ Hit(t, "dispatched", "ended")
  /\ \/ /\ Matches(t)
        /\ ends' = ends \cup {EndOf(t)}
        /\ \/ stopped' = TRUE /\ UNCHANGED errors
           \/ Fails /\ Limit
     \/ ~Matches(t) /\ UNCHANGED <<ends, errors>> /\ Limit
     \/ Fails /\ UNCHANGED ends /\ Limit
  /\ UNCHANGED <<watched, events, req2buf>>

\* The deadline: nothing more is recorded.
Deadline ==
  /\ ~stopped /\ stopped' = TRUE
  /\ UNCHANGED <<phase, watched, events, req2buf, ends, hits, errors>>

Over == stopped /\ UNCHANGED eventVars

EventsNext == Deadline \/ Over \/ \E t \in Tasks : Dispatch(t) \/ Serialise(t) \/ TaskEnds(t)

EventsSpec == EventsInit /\ [][EventsNext]_eventVars

-----------------------------------------------------------------------------
EventsTypeOK ==
  /\ phase \in [Tasks -> {"new", "dispatched", "serialised", "ended"}]
  /\ (events \cup req2buf) \subseteq Tasks
  /\ ends \subseteq [task : Tasks, req2buf : BOOLEAN]
  /\ hits \in 0..MaxHits /\ errors \in 0..MaxErrors
  /\ stopped \in BOOLEAN

\* A callback or an end is recorded only of a send, and an end that says its
\* request was serialised says it of the same task.
OwnRecords ==
  /\ \A t \in req2buf \cup {e.task : e \in ends} : t.send
  /\ \A e \in ends : e.req2buf => e.task \in req2buf

(* As long as no handler has failed, callbacks and ends are recorded only  *)
(* of watched requests, and an end that says its request was serialised    *)
(* says it of its own task, whatever tasks with the same id or context     *)
(* were before it or are beside it (watched_tasks).                        *)
RecordsAreOfSends == errors = 0 => OwnRecords

(* The same after an error.  It does not hold: an end that could not be    *)
(* recorded leaves its id watched, and the next send with that id takes    *)
(* the callback of the one before for its own (req2buf_observed).          *)
RecordsSurviveErrors == OwnRecords
=============================================================================
