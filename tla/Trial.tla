------------------------------- MODULE Trial -------------------------------
(***************************************************************************)
(* One native send, from the process that runs trial() to the thread that  *)
(* submits the message inside the client: the work directory of a request  *)
(* id (native_send_candidate.py), the GDB process it launches, and the     *)
(* helper thread that GDB leaves in the client (native_send_helper.c).     *)
(*                                                                         *)
(* An operation o \in Ops is a process that runs trial() once.  Everything *)
(* that lies in a work directory, or that one debugger or one helper does, *)
(* is keyed by the request id i \in Ids the directory is named after.      *)
(***************************************************************************)
EXTENDS Integers

CONSTANTS Ops,          \* processes that run trial(), the backend or the CLI
          Ids,          \* request ids, the fixed acceptance id excluded
          Contents,     \* recipient and text of a message, by its fingerprint
          MaxClients,   \* how often the desktop client may be restarted
          None

ASSUME NoneAssumption == None \notin Ops \cup Ids \cup Contents
ASSUME ClientsAssumption == MaxClients \in Nat

VARIABLES
  pc,        \* pc[o]: the step of trial() that process o executes next
  rid,       \* rid[o]: the request id it was given
  text,      \* text[o]: the content it was given
  verdict,   \* verdict[o]: the status trial() has settled on so far
  out,       \* out[o]: what the process printed before it ended
  target,    \* target[o]: the client (pid and start time) it has chosen
  owner,     \* owner[i]: the process whose mkdir made the work directory
  request,   \* request[i]: content recorded in request.json
  files,     \* files[i]: the injection artifacts in the work directory
  inj,       \* inj[i]: the last word of injection.json
  result,    \* result[i]: result.json
  dbg,       \* dbg[i]: the debugger process
  wrk,       \* wrk[i]: the helper thread in the client
  cb,        \* cb[i]: the network callback the helper handed to the client
  sent,      \* sent[i]: how many times the client's submit was entered
  client,    \* generation of the running client
  loaded     \* loaded[i]: the helper library of i has started once in the client

opVars  == <<pc, rid, text, verdict, out, target>>
dirVars == <<owner, request, files, inj, result>>
natVars == <<dbg, wrk, cb, sent, client, loaded>>
trialVars == <<opVars, dirVars, natVars>>

Stages == {"unborn", "stdin", "check", "reserve", "archive", "mkdir", "record",
           "find", "prepare", "config", "popen", "dbgrec", "await", "arm",
           "watch", "finally", "print", "exited"}
Artifacts == {"config", "debugger", "injection", "worker", "arm"}
Statuses == {"preflight", "local", "not_idle", "aborted", "pending", "finished"}
Verdicts == Statuses \cup {"none", "error", "replay"}
Outputs == {"empty", "failed", "preflight", "completed", "uncertain"}
Debuggers == {"none", "started", "attached", "calling", "launched", "orphaned",
              "exited"}
Workers == {"none", "polling", "armed", "submitting", "expired", "failed",
            "rejected", "done", "lost"}
Callbacks == {"none", "live", "ok", "error", "dropped", "lost"}
Results == [status : Statuses, untraced : BOOLEAN]

Init ==
  /\ pc = [o \in Ops |-> "unborn"]
  /\ rid = [o \in Ops |-> None]
  /\ text = [o \in Ops |-> None]
  /\ verdict = [o \in Ops |-> "none"]
  /\ out = [o \in Ops |-> "empty"]
  /\ target = [o \in Ops |-> 0]
  /\ owner = [i \in Ids |-> None]
  /\ request = [i \in Ids |-> None]
  /\ files = [i \in Ids |-> {}]
  /\ inj = [i \in Ids |-> "none"]
  /\ result = [i \in Ids |-> None]
  /\ dbg = [i \in Ids |-> "none"]
  /\ wrk = [i \in Ids |-> "none"]
  /\ cb = [i \in Ids |-> "none"]
  /\ sent = [i \in Ids |-> 0]
  /\ client = 0
  /\ loaded = [i \in Ids |-> FALSE]

-----------------------------------------------------------------------------
(* What the code reads off this state.                                     *)

Working(o) == pc[o] \notin {"unborn", "exited"}

\* No injection artifact exists, so no inferior call can have begun.
BeforeInjection(i) == files[i] = {}

Attached(i) == dbg[i] \in {"attached", "calling", "launched"}
Traced == \E i \in Ids : Attached(i)

\* process_running_untraced(pid, start): the same client, and nobody traces it.
Untraced(o) == target[o] = client /\ ~Traced

\* worker.json says worker_done, live_callbacks and a clean success.
WorkerDone(i) == wrk[i] \in {"expired", "failed", "rejected", "done"}
LiveCallback(i) == cb[i] \in {"live", "lost"}
\* Mutant: completed() does not look at the callback's error.
WorkerOk_AnyCallback(i) == wrk[i] = "done" /\ cb[i] \in {"ok", "error", "dropped"}

WorkerOk(i) == wrk[i] = "done" /\ cb[i] = "ok"

\* completed() of the recorded result and the current worker.json.
RecordedCompleted(i) ==
  /\ result[i] # None
  /\ result[i].status = "finished"
  /\ result[i].untraced
  /\ WorkerOk(i)

\* Mutant: any recorded outcome of a dead debugger may be repeated.
Retryable_AnyOutcome(i) == result[i] # None /\ dbg[i] = "exited"

\* The one rejection that reserve_trial_work may archive and repeat.
Retryable(i) ==
  /\ result[i] # None
  /\ result[i].status = "not_idle"
  /\ result[i].untraced
  /\ "debugger" \in files[i]
  /\ files[i] \cap {"worker", "arm"} = {}
  /\ dbg[i] = "exited"

\* Steps of trial() between the mkdir and the result.
Pipeline(o) ==
  pc[o] \in {"record", "find", "prepare", "config", "popen", "dbgrec", "await",
            "arm", "watch", "finally"}

\* No process works on request i any more, and nothing of it in the client.
Over(i) ==
  /\ \A o \in Ops : rid[o] = i => ~Pipeline(o) /\ pc[o] # "print"
  /\ dbg[i] \in {"none", "exited"}
  /\ wrk[i] \notin {"polling", "armed", "submitting"}
  /\ cb[i] # "live"

-----------------------------------------------------------------------------
(* The process that runs trial().                                          *)

Goto(o, stage) == pc' = [pc EXCEPT ![o] = stage]

\* trial() raises: nothing is recorded, the error is all the process prints.
Raise(o) ==
  /\ verdict' = [verdict EXCEPT ![o] = "error"]
  /\ Goto(o, "print")

\* trial() leaves its try block with a status and runs its finally clause.
Leave(o, status) ==
  /\ verdict' = [verdict EXCEPT ![o] = status]
  /\ Goto(o, "finally")

Add(i, artifacts) == files' = [files EXCEPT ![i] = @ \cup artifacts]

\* A process is made for send_text(i, c).  native_send_candidate.py, run by
\* hand, begins at "check"; the service's backend first waits on its stdin.
Start(o, i, c, stage) ==
  /\ pc[o] = "unborn"
  /\ Goto(o, stage)
  /\ rid' = [rid EXCEPT ![o] = i]
  /\ text' = [text EXCEPT ![o] = c]
  /\ UNCHANGED <<verdict, out, target, dirVars, natVars>>

ReadRequest(o) ==
  /\ pc[o] = "stdin"
  /\ Goto(o, "check")
  /\ UNCHANGED <<rid, text, verdict, out, target, dirVars, natVars>>

\* The service is gone before it wrote the request: end of file.
ReadEof(o) ==
  /\ pc[o] = "stdin"
  /\ Raise(o)
  /\ UNCHANGED <<rid, text, out, target, dirVars, natVars>>

CheckFree(o) ==
  /\ pc[o] = "check"
  /\ owner[rid[o]] = None
  /\ Goto(o, "reserve")
  /\ UNCHANGED <<rid, text, verdict, out, target, dirVars, natVars>>

\* The same request again: its recorded outcome is printed, nothing is sent.
Replay(o) ==
  /\ pc[o] = "check"
  /\ owner[rid[o]] # None
  /\ request[rid[o]] = text[o]
  /\ result[rid[o]] # None
  /\ verdict' = [verdict EXCEPT ![o] = "replay"]
  /\ Goto(o, "print")
  /\ UNCHANGED <<rid, text, out, target, dirVars, natVars>>

\* REQUEST_ID_CONFLICT, REQUEST_PENDING or an unreadable request.json.
CheckRefused(o) ==
  /\ pc[o] = "check"
  /\ owner[rid[o]] # None
  /\ request[rid[o]] # text[o] \/ result[rid[o]] = None
  /\ Raise(o)
  /\ UNCHANGED <<rid, text, out, target, dirVars, natVars>>

ReserveFree(o) ==
  /\ pc[o] = "reserve"
  /\ owner[rid[o]] = None
  /\ Goto(o, "mkdir")
  /\ UNCHANGED <<rid, text, verdict, out, target, dirVars, natVars>>

\* The directory exists and may be archived; nothing holds it until it is.
ReserveRetry(o) ==
  /\ pc[o] = "reserve"
  /\ owner[rid[o]] # None
  /\ Retryable(rid[o])
  /\ Goto(o, "archive")
  /\ UNCHANGED <<rid, text, verdict, out, target, dirVars, natVars>>

ReserveRefused(o) ==
  /\ pc[o] = "reserve"
  /\ owner[rid[o]] # None
  /\ ~Retryable(rid[o])
  /\ Raise(o)
  /\ UNCHANGED <<rid, text, out, target, dirVars, natVars>>

\* rename, of whatever has the name by now.  The module does not follow the
\* rename of a directory in which another process still works.
Archive(o) ==
  LET i == rid[o] IN
  /\ pc[o] = "archive"
  /\ owner[i] # None
  /\ Retryable(i) \/ Over(i)
  /\ owner' = [owner EXCEPT ![i] = None]
  /\ request' = [request EXCEPT ![i] = None]
  /\ files' = [files EXCEPT ![i] = {}]
  /\ inj' = [inj EXCEPT ![i] = "none"]
  /\ result' = [result EXCEPT ![i] = None]
  /\ dbg' = [dbg EXCEPT ![i] = "none"]
  /\ wrk' = [wrk EXCEPT ![i] = "none"]
  /\ cb' = [cb EXCEPT ![i] = "none"]
  /\ Goto(o, "mkdir")
  /\ UNCHANGED <<rid, text, verdict, out, target, sent, client, loaded>>

\* Mutant: mkdir(exist_ok=True).
Mkdir_ExistOk(o) ==
  /\ pc[o] = "mkdir"
  /\ owner' = [owner EXCEPT ![rid[o]] = o]
  /\ Goto(o, "record")
  /\ UNCHANGED <<rid, text, verdict, out, target, request, files, inj, result,
                 natVars>>

\* mkdir: at most one process makes the directory.
Mkdir(o) ==
  /\ pc[o] = "mkdir"
  /\ owner[rid[o]] = None
  /\ owner' = [owner EXCEPT ![rid[o]] = o]
  /\ Goto(o, "record")
  /\ UNCHANGED <<rid, text, verdict, out, target, request, files, inj, result,
                 natVars>>

\* The directory has gone or has come in between, or the file system refuses.
RenameOrMkdirFails(o) ==
  /\ pc[o] \in {"archive", "mkdir"}
  /\ Raise(o)
  /\ UNCHANGED <<rid, text, out, target, dirVars, natVars>>

Record(o) ==
  /\ pc[o] = "record"
  /\ request' = [request EXCEPT ![rid[o]] = text[o]]
  /\ Goto(o, "find")
  /\ UNCHANGED <<rid, text, verdict, out, target, owner, files, inj, result,
                 natVars>>

\* request.json cannot be written, or no single untraced client is running.
RecordOrFindFails(o) ==
  /\ pc[o] \in {"record", "find"}
  /\ Raise(o)
  /\ UNCHANGED <<rid, text, out, target, dirVars, natVars>>

Find(o) ==
  /\ pc[o] = "find"
  /\ ~Traced
  /\ target' = [target EXCEPT ![o] = client]
  /\ Goto(o, "prepare")
  /\ UNCHANGED <<rid, text, verdict, out, dirVars, natVars>>

Prepare(o) ==
  /\ pc[o] = "prepare"
  /\ \/ Goto(o, "config") /\ UNCHANGED verdict
     \/ Leave(o, "preflight")
  /\ UNCHANGED <<rid, text, out, target, dirVars, natVars>>

\* Mutant: config.json is left to the finally clause.
SaveConfig_Late(o) ==
  /\ pc[o] = "config"
  /\ Goto(o, "popen")
  /\ UNCHANGED <<rid, text, verdict, out, target, dirVars, natVars>>

SaveConfig(o) ==
  /\ pc[o] = "config"
  /\ \/ Add(rid[o], {"config"}) /\ Goto(o, "popen") /\ UNCHANGED verdict
     \/ Leave(o, "local") /\ UNCHANGED files
  /\ UNCHANGED <<rid, text, out, target, owner, request, inj, result, natVars>>

LaunchDebugger(o) ==
  /\ pc[o] = "popen"
  /\ \/ /\ dbg' = [dbg EXCEPT ![rid[o]] = "started"]
        /\ Goto(o, "dbgrec") /\ UNCHANGED verdict
     \/ Leave(o, "local") /\ UNCHANGED dbg
  /\ UNCHANGED <<rid, text, out, target, dirVars, wrk, cb, sent, client,
                 loaded>>

\* debugger-process.json; the debugger already runs when writing it fails.
RecordDebugger(o) ==
  /\ pc[o] = "dbgrec"
  /\ \/ Add(rid[o], {"debugger"}) /\ Goto(o, "await") /\ UNCHANGED verdict
     \/ Leave(o, "local") /\ UNCHANGED files
  /\ UNCHANGED <<rid, text, out, target, owner, request, inj, result, natVars>>

\* Mutant: the marker is set once the helper is launched, attached or not.
DebuggerEnded_StillAttached(o) ==
  LET i == rid[o] IN
  /\ pc[o] = "await"
  /\ dbg[i] \in {"launched", "exited"}
  /\ IF dbg[i] = "launched" \/ inj[i] = "launched"
     THEN Goto(o, "arm") /\ UNCHANGED verdict
     ELSE Leave(o, "aborted")
  /\ UNCHANGED <<rid, text, out, target, dirVars, natVars>>

\* Mutant: the debugger's own status is taken over as the trial's status.
DebuggerEnded_RawStatus(o) ==
  /\ pc[o] = "await"
  /\ dbg[rid[o]] = "exited"
  /\ Leave(o, inj[rid[o]])
  /\ UNCHANGED <<rid, text, out, target, dirVars, natVars>>

\* The debugger ended: go on only after a launch and a verified detach.
DebuggerEnded(o) ==
  LET i == rid[o] IN
  /\ pc[o] = "await"
  /\ dbg[i] = "exited"
  /\ IF inj[i] = "launched" /\ Untraced(o)
     THEN Goto(o, "arm") /\ UNCHANGED verdict
     ELSE Leave(o, IF inj[i] = "not_idle" THEN "not_idle" ELSE "aborted")
  /\ UNCHANGED <<rid, text, out, target, dirVars, natVars>>

\* 25 seconds have passed: debugger_still_running.
DebuggerTimeout(o) ==
  /\ pc[o] = "await"
  /\ dbg[rid[o]] # "exited"
  /\ Leave(o, "aborted")
  /\ UNCHANGED <<rid, text, out, target, dirVars, natVars>>

\* touch and chown of worker.json.arm: either can fail, the second one after
\* the helper may already have seen the marker.
Arm(o) ==
  /\ pc[o] = "arm"
  /\ \/ Add(rid[o], {"arm"}) /\ Goto(o, "watch") /\ UNCHANGED verdict
     \/ Add(rid[o], {"arm"}) /\ Leave(o, "local")
     \/ Leave(o, "local") /\ UNCHANGED files
  /\ UNCHANGED <<rid, text, out, target, owner, request, inj, result, natVars>>

WorkerSettled(o) ==
  /\ pc[o] = "watch"
  /\ WorkerDone(rid[o])
  /\ ~LiveCallback(rid[o])
  /\ Leave(o, "finished")
  /\ UNCHANGED <<rid, text, out, target, dirVars, natVars>>

\* Mutant: the deadline is only looked at after worker_done.
WatchTimeout_AfterDone(o) ==
  /\ pc[o] = "watch"
  /\ WorkerDone(rid[o])
  /\ Leave(o, "pending")
  /\ UNCHANGED <<rid, text, out, target, dirVars, natVars>>

\* 45 seconds have passed: worker_pending or callback_pending.
WatchTimeout(o) ==
  /\ pc[o] = "watch"
  /\ Leave(o, "pending")
  /\ UNCHANGED <<rid, text, out, target, dirVars, natVars>>

\* The finally clause (config.json again, without the payload), result.json.
SaveResult(o) ==
  LET i == rid[o]
      saved == IF verdict[o] = "preflight" THEN {} ELSE {"config"} IN
  /\ pc[o] = "finally"
  /\ \/ /\ Add(i, saved)
        /\ result' = [result EXCEPT ![i] = [status |-> verdict[o],
                                            untraced |-> Untraced(o)]]
        /\ Goto(o, "print")
        /\ UNCHANGED verdict
     \/ /\ \E some \in {{}, saved} : Add(i, some)
        /\ Raise(o)
        /\ UNCHANGED result
  /\ UNCHANGED <<rid, text, out, target, owner, request, inj, natVars>>

Printed(o) ==
  LET i == rid[o] IN
  CASE verdict[o] = "error" -> "failed"
    [] verdict[o] # "error" /\ RecordedCompleted(i) -> "completed"
    [] verdict[o] # "error" /\ result[i] # None /\ result[i].status = "preflight"
         -> "preflight"
    [] OTHER -> "uncertain"

PrintResult(o) ==
  /\ pc[o] = "print"
  /\ out' = [out EXCEPT ![o] = Printed(o)]
  /\ Goto(o, "exited")
  /\ UNCHANGED <<rid, text, verdict, target, dirVars, natVars>>

\* The process is killed, or dies of an error that main() does not catch.
Killed(o) ==
  /\ Working(o)
  /\ Goto(o, "exited")
  /\ UNCHANGED <<rid, text, verdict, out, target, dirVars, natVars>>

TrialStep(o) ==
  \/ CheckFree(o) \/ Replay(o) \/ CheckRefused(o)
  \/ ReserveFree(o) \/ ReserveRetry(o) \/ ReserveRefused(o)
  \/ Archive(o) \/ Mkdir(o) \/ RenameOrMkdirFails(o)
  \/ Record(o) \/ RecordOrFindFails(o) \/ Find(o) \/ Prepare(o)
  \/ SaveConfig(o) \/ LaunchDebugger(o) \/ RecordDebugger(o)
  \/ DebuggerEnded(o) \/ DebuggerTimeout(o) \/ Arm(o)
  \/ WorkerSettled(o) \/ WatchTimeout(o) \/ SaveResult(o) \/ PrintResult(o)

-----------------------------------------------------------------------------
(* The debugger of request i: inject_in_gdb.                               *)

SetDebugger(i, d) == dbg' = [dbg EXCEPT ![i] = d]

Attach(i) ==
  /\ dbg[i] = "started"
  /\ ~Traced
  /\ target[owner[i]] = client
  /\ SetDebugger(i, "attached")
  /\ UNCHANGED <<opVars, dirVars, wrk, cb, sent, client,
                 loaded>>

\* main_thread_not_idle_in_poll: no inferior call made.
NotIdle(i) ==
  /\ dbg[i] = "attached"
  /\ SetDebugger(i, "exited")
  /\ inj' = [inj EXCEPT ![i] = "not_idle"]
  /\ Add(i, {"injection"})
  /\ UNCHANGED <<opVars, owner, request, result, wrk, cb, sent, client,
                 loaded>>

\* malloc, dlopen and dlsym run in the client from here on.
LoaderCalls(i) ==
  /\ dbg[i] = "attached"
  /\ SetDebugger(i, "calling")
  /\ Add(i, {"injection"})
  /\ UNCHANGED <<opVars, owner, request, inj, result, wrk, cb, sent, client,
                 loaded>>

\* ncut_launch gets past `started`.  The library is never unloaded, so a second
\* launch for the same id in the same client is refused: EALREADY.
Starts(i) ==
  /\ ~loaded[i]
  /\ loaded' = [loaded EXCEPT ![i] = TRUE]

\* ncut_launch returns 0: worker.json was created with O_EXCL, the thread runs.
LaunchHelper(i) ==
  /\ dbg[i] = "calling"
  /\ Starts(i)
  /\ "worker" \notin files[i]
  /\ SetDebugger(i, "launched")
  /\ wrk' = [wrk EXCEPT ![i] = "polling"]
  /\ Add(i, {"worker"})
  /\ UNCHANGED <<opVars, owner, request, inj, result, cb, sent, client>>

Detach(i) ==
  /\ dbg[i] = "launched"
  /\ SetDebugger(i, "exited")
  /\ inj' = [inj EXCEPT ![i] = "launched"]
  /\ Add(i, {"injection"})
  /\ UNCHANGED <<opVars, owner, request, result, wrk, cb, sent, client,
                 loaded>>

\* Attach, check, inferior call, launch or detach fails, or GDB dies.  An
\* ncut_launch that started and then failed can leave worker.json behind
\* without a thread.
DebuggerFails(i) ==
  /\ dbg[i] \in {"started", "attached", "calling", "launched", "orphaned"}
  /\ SetDebugger(i, "exited")
  /\ inj' = [inj EXCEPT ![i] = "failed"]
  /\ \E some \in SUBSET {"injection", "worker"} :
       /\ Add(i, some)
       /\ \/ "worker" \notin some /\ UNCHANGED loaded
          \/ dbg[i] = "calling" /\ Starts(i)
  /\ UNCHANGED <<opVars, owner, request, result, wrk, cb, sent, client>>

DebuggerStep(i) ==
  \/ Attach(i) \/ NotIdle(i) \/ LoaderCalls(i) \/ LaunchHelper(i)
  \/ Detach(i) \/ DebuggerFails(i)

-----------------------------------------------------------------------------
(* The helper thread of request i and the callback it hands to the client. *)

SetWorker(i, w) == wrk' = [wrk EXCEPT ![i] = w]

\* 500 polls without a marker: failure 4.
GiveUp(i) ==
  /\ wrk[i] = "polling"
  /\ SetWorker(i, "expired")
  /\ UNCHANGED <<opVars, dirVars, dbg, cb, sent, client, loaded>>

TakeArm(i) ==
  /\ wrk[i] = "polling"
  /\ "arm" \in files[i]
  /\ files' = [files EXCEPT ![i] = @ \ {"arm"}]
  /\ SetWorker(i, "armed")
  /\ UNCHANGED <<opVars, owner, request, inj, result, dbg, cb, sent, client,
                 loaded>>

\* Failure 1 or 2: the payload does not round-trip, or malloc fails.
RoundtripFails(i) ==
  /\ wrk[i] = "armed"
  /\ SetWorker(i, "failed")
  /\ UNCHANGED <<opVars, dirVars, dbg, cb, sent, client, loaded>>

\* Mutant: a submission that was turned down is tried once more.
Submit_Again(i) ==
  /\ wrk[i] \in {"armed", "rejected"}
  /\ SetWorker(i, "submitting")
  /\ cb' = [cb EXCEPT ![i] = "live"]
  /\ sent' = [sent EXCEPT ![i] = @ + 1]
  /\ UNCHANGED <<opVars, dirVars, dbg, client, loaded>>

Submit(i) ==
  /\ wrk[i] = "armed"
  /\ SetWorker(i, "submitting")
  /\ cb' = [cb EXCEPT ![i] = "live"]
  /\ sent' = [sent EXCEPT ![i] = @ + 1]
  /\ UNCHANGED <<opVars, dirVars, dbg, client, loaded>>

\* The network thread invokes and destroys the callback, or only destroys it;
\* before or after submit returns.
Callback(i) ==
  /\ cb[i] = "live"
  /\ wrk[i] \in {"submitting", "done"}
  /\ \E outcome \in {"ok", "error", "dropped"} :
       cb' = [cb EXCEPT ![i] = outcome]
  /\ UNCHANGED <<opVars, dirVars, dbg, wrk, sent, client, loaded>>

SubmitReturns(i) ==
  /\ wrk[i] = "submitting"
  /\ SetWorker(i, "done")
  /\ UNCHANGED <<opVars, dirVars, dbg, cb, sent, client, loaded>>

\* Failure 3: submit came back without taking the callback over.
SubmitRejected(i) ==
  /\ wrk[i] = "submitting"
  /\ cb[i] = "live"
  /\ SetWorker(i, "rejected")
  /\ cb' = [cb EXCEPT ![i] = "dropped"]
  /\ UNCHANGED <<opVars, dirVars, dbg, sent, client, loaded>>

WorkerStep(i) ==
  \/ GiveUp(i) \/ TakeArm(i) \/ RoundtripFails(i) \/ Submit(i)
  \/ Callback(i) \/ SubmitReturns(i) \/ SubmitRejected(i)

\* The owner restarts the client: threads and callbacks in it end without a
\* further word in worker.json, an attached debugger loses its process.
ClientRestart ==
  /\ client < MaxClients
  /\ client' = client + 1
  /\ dbg' = [i \in Ids |-> IF Attached(i) THEN "orphaned" ELSE dbg[i]]
  /\ wrk' = [i \in Ids |-> IF wrk[i] \in {"polling", "armed", "submitting"}
                            THEN "lost" ELSE wrk[i]]
  /\ cb' = [i \in Ids |-> IF cb[i] = "live" THEN "lost" ELSE cb[i]]
  /\ loaded' = [i \in Ids |-> FALSE]
  /\ UNCHANGED <<opVars, dirVars, sent>>

NativeStep == (\E i \in Ids : DebuggerStep(i) \/ WorkerStep(i)) \/ ClientRestart

Next ==
  \/ \E o \in Ops, i \in Ids, c \in Contents :
       Start(o, i, c, "stdin") \/ Start(o, i, c, "check")
  \/ \E o \in Ops : ReadRequest(o) \/ ReadEof(o) \/ TrialStep(o) \/ Killed(o)
  \/ NativeStep

Spec == Init /\ [][Next]_trialVars

\* Timeouts bound every wait of trial() and the helper's polling loop, so both
\* are scheduled; nothing promises that GDB or the network ever answers.
Fairness ==
  /\ \A o \in Ops : WF_trialVars(TrialStep(o))
  /\ \A i \in Ids : WF_trialVars(GiveUp(i))

FairSpec == Spec /\ Fairness

-----------------------------------------------------------------------------
TypeOK ==
  /\ pc \in [Ops -> Stages]
  /\ rid \in [Ops -> Ids \cup {None}]
  /\ text \in [Ops -> Contents \cup {None}]
  /\ verdict \in [Ops -> Verdicts]
  /\ out \in [Ops -> Outputs]
  /\ target \in [Ops -> 0..MaxClients]
  /\ owner \in [Ids -> Ops \cup {None}]
  /\ request \in [Ids -> Contents \cup {None}]
  /\ files \in [Ids -> SUBSET Artifacts]
  /\ inj \in [Ids -> {"none", "not_idle", "failed", "launched"}]
  /\ result \in [Ids -> Results \cup {None}]
  /\ dbg \in [Ids -> Debuggers]
  /\ wrk \in [Ids -> Workers]
  /\ cb \in [Ids -> Callbacks]
  /\ sent \in [Ids -> Nat]
  /\ client \in 0..MaxClients
  /\ loaded \in [Ids -> BOOLEAN]

\* The directory that a process is about to archive is still the retryable
\* rejection it has looked at.  Nothing enforces this: it is what the theorems
\* about sending assume when three processes are given one id at the same time.
CheckStillHolds == \A o \in Ops : pc[o] = "archive" => Retryable(rid[o])

\* A request id is submitted to the client at most once, however many
\* processes are given it and wherever they are killed.
AtMostOnce == \A i \in Ids : sent[i] <= 1

\* Native work is done only after the debugger that launched it has let the
\* client go: the marker is set only after a verified detach.
ArmedOnlyDetached ==
  \A i \in Ids : (wrk[i] \in {"armed", "submitting"} \/ "arm" \in files[i])
                   => dbg[i] = "exited"

\* What the helper carries is the content that request.json records, so a
\* later request with the same id is compared with what was really sent.
RecordedIsSent ==
  \A i \in Ids : wrk[i] # "none" =>
    /\ owner[i] # None
    /\ request[i] # None
    /\ request[i] = text[owner[i]]

\* The docstring of before_injection: without config.json no debugger was
\* started and no inferior call began, whatever process was killed when.
NoArtifactNoInjection ==
  \A i \in Ids : BeforeInjection(i) =>
    dbg[i] = "none" /\ wrk[i] = "none" /\ sent[i] = 0

\* A process that prints a completed result has seen one submission, ended by
\* one successful callback.
CompletedIsSent ==
  \A o \in Ops : out[o] = "completed" =>
    /\ sent[rid[o]] = 1
    /\ wrk[rid[o]] = "done"
    /\ cb[rid[o]] = "ok"

\* An id's directory is handed to another process only while nothing of it
\* lives in the client and nothing of it has been submitted.
HandoverIsClean ==
  [][\A i \in Ids : (owner[i] # None /\ owner'[i] # owner[i]) =>
       /\ sent[i] = 0
       /\ wrk[i] = "none"
       /\ dbg[i] = "exited"]_trialVars

\* "Existing trial: inspect its result; do not repeat a possibly submitted
\* message" (reserve_trial_work): once a message has been submitted its
\* directory stays, so that the next request with the id finds the result.
SubmittedIsKept ==
  [][\A i \in Ids : (owner[i] # None /\ owner'[i] # owner[i])
                       => sent[i] = 0]_trialVars

\* A process that has been given a request ends, even when the debugger hangs
\* and when no callback ever comes.
TrialEnds == \A o \in Ops : (pc[o] = "check") ~> (pc[o] = "exited")

\* A helper that is never armed does not stay in its polling loop.
HelperStopsPolling == \A i \in Ids : (wrk[i] = "polling") ~> (wrk[i] # "polling")
=============================================================================
