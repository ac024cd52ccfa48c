# A verification project for wechat-linux-cli

TLA+ modules that model this repository: sending a message once, through a
debugger, inside a running desktop client, under the control of a service that
may time out, crash and restart; and the programs beside it that install the
service, capture keys, read the client's databases while it writes them and
observe it with breakpoints. TLC checks the modules on small instances, TLAPS
proves every safety and action property of the passing runs for every instance,
some of them under the hypotheses that section 5 states.

Paths below are relative to `src/src/wechat_linux_cli/` unless they begin with
`src/`; `native_*` files are in its `_native/`.

## 1. The system

### Components, their state and their operations

| component | code | state it keeps | operations |
|---|---|---|---|
| control service | `service.py` | `Runner.state`, mirrored in `operation.json` (the pending operation, or the last result); `Runner.process`; the lock file and the socket; `stopping` | start (load the record, take the lock, bind), `send_text`, `send_status`, `inspect_pending`, `capture_keys`, `health`, stop on SIGTERM |
| backend | `backend.py` | none of its own; prints one result into a file | read the request from stdin, `trial()`, `completed()`, print |
| native trial | `native_send_candidate.py` (`trial`, `reserve_trial_work`, `run_injection`, `inspect_trial`) | one work directory per request id: `request.json`, `config.json`, `debugger-process.json`, `worker.json.arm`, `result.json` | reserve or replay, prepare, launch GDB and wait, arm, watch the helper, record |
| GDB injection | `native_send_candidate.py` (`inject_in_gdb`, `finish_pending_call`) | `injection.json`; the traced client, its unfinished calls | attach, check the main thread, one inferior call after the other, finish interrupted ones, detach |
| native helper | `native_send_helper.c` | `worker.json`; counters and the business object under one mutex, inside the client | `ncut_launch`, the worker thread, the callback (invoke, clone, destroy) |
| request client and CLI | `client.py`, `cli.py` | one connection each | connect, ask, wait or give up; `send-status` from the files when there is no service |
| installer | `install.py` | the code directory, the command, one unit per user; `created_files`, `activation_started` | print the plan, install with rollback |
| database snapshot | `native_db.py` | the two copies of one attempt | `stable_read`, `committed_wal`, `open_database`, beside a SQLite writer |
| key scan | `native_keys.py` | position, kept tail and budget of a scan; the key file | scan of process memory in overlapping chunks, replacement of the key file |
| message reader | `native_messages.py` | the rows fetched so far | one page of messages merged out of shards under a limit; the next page with `--before` |
| capture probe | `native_send_probe.py` | `result.json`, the traced client, `watched_tasks` and the records | start GDB, bound it with SIGINT and SIGKILL, three breakpoint handlers, look at the client at the end |

### How they interact

Commands connect to the socket of the service, which handles one connection at
a time. `send_text` spawns a backend that waits on its stdin, writes
`operation.json`, and only then writes the request.
The backend runs `trial()`, which makes the work directory (mkdir is the lock of
a request id), starts GDB as a process of its own and waits 25 s for it. GDB
attaches to the client, calls `dlopen` and `ncut_launch` in it and detaches. The
thread this leaves in the client polls for a marker file; `trial()` creates the
marker only after a verified detach, then watches `worker.json` for 45 s. The
service waits 150 s for the backend. Nothing that was started is ever killed on
a timeout, because it may be in the middle of a call: a timeout makes the
outcome *uncertain*, and the record stays. `inspect_pending` resolves the record
later, from the backend's printed result, from the artifacts in the work
directory and from the helper's report.

So four kinds of processes (service, backend, GDB, the client with its helper
and network threads) share only files and `/proc`, and every one of them can
end between any two steps of the others. What is hard is exactly that: a
timeout at each level with the lower level still acting, a crash between each
two writes, a restart that has to find out from files what is still alive, and
two ways (the service and the command line) of starting the same request.

The readers share nothing with this but the client: it writes the databases
they copy, takes no notice of them and holds no lock for them. The probe is a
second debugger that an operator starts by hand; it attaches to the same
client, so what it must not do is leave it traced or stopped.

### What makes each component correct

- *trial and its directory*: an id is submitted at most once, whoever runs it and
  dies where; native work only after the debugger let the client go; what was
  submitted is what `request.json` records; no artifact, no injection; `trial()`
  ends.
- *service*: native operations are serial over timeouts, crashes and restarts;
  an operation is forgotten only when its outcome is known; answers are
  truthful; keys are captured alone; the loop comes back and a stop ends.
- *commands*: the status of a send does not overtake the send; whoever waits is
  answered or finds the service gone.
- *injection*: no call and no detach across an unfinished call; the marker means
  that the helper was launched; GDB ends.
- *helper*: the client's business object is freed once and never while `submit`
  reads it; the report says "submitted" before `submit` is entered and looks
  completed only when all is over; no thread waits for the mutex for ever.
- *installer*: a failed installation removes what it has made and nothing of
  another one, and never what a unit that may run needs.
- *snapshot*: what is returned is the database as one transaction left it, and one
  that was current during the read.
- *key scan*: the chunks miss nothing; the key file is replaced whole or not at all.
- *message reader*: page after page, nothing is repeated and nothing that was there
  all the time is passed over.
- *probe*: the client is let go whatever becomes of the debugger; every record
  belongs to a send, and to the send it is shown with.

## 2. Modules

```
 SendPromise <--- Service ---> Trial            what the owner is promised; Runner,
  (KeepsPromise)     |           |              Service and backends; trial(), GDB
                 MCService    MCTrial           and helper in coarse steps

 Requests                                       commands, socket queue, request loop

 Injection --+-- Inferior                       script and helper in one client, one
 NativeHelper+                                  call and one mutex section at a time

 Install, Snapshot, KeyScan, Messages --- Programs --- MCPrograms
 Probe, ProbeEvents --- Capture --- MCCapture
```

Proofs: `TrialProofs`; `ServiceProofs` (extends it); `NativeHelperProofs`;
`InferiorProofs` (extends it; `Injection` and the composition); `SnapshotProofs`;
`ProgramsProofs` (extends it; `Install`, `KeyScan`, `Messages` and the
composition); `CaptureProofs` (`Probe`, `ProbeEvents` and the composition);
`RequestsProofs`. The MC modules hold model values, symmetry and
the data of the small instances; `Inferior`, `Requests`, `Injection` and `Install`
are run as they are.

### Trial

An operation `o \in Ops` is a process that runs `trial()` once; directory,
debugger, helper and callback belong to the request id `i \in Ids` they are named
after.

| variable | stands for |
|---|---|
| `pc`, `rid`, `text`, `verdict`, `out`, `target` | the process: next step, its arguments, the status so far, what it printed, the client process it chose |
| `owner`, `request`, `files`, `inj`, `result` | the work directory: who made it, `request.json`, the five artifacts that `before_injection` looks for, the last word of `injection.json`, `result.json` |
| `dbg`, `wrk`, `cb`, `sent`, `client`, `loaded` | GDB, the helper thread, its callback, how often `submit` was entered, the generation of the client, the helper libraries that have started in it |

Every step of `trial()` that reads or writes shared state is one action; the
stages of `pc` are named after them. Each has its failures: a write that raises
leaves through the `finally` clause (`Leave`), an error outside the `try` block
ends the trial (`Raise`). `reserve_trial_work` is what it is in the code, separate steps without a lock: a
look (`ReserveFree`, `ReserveRetry`, `ReserveRefused`), the rename (`Archive`) and
the mkdir (`Mkdir`). `SaveResult` is the `finally` clause together with
`result.json`: it also writes `config.json` when that does not exist yet, which is
why a late local failure still counts as possibly injected. `Killed` ends a
process between any two steps. GDB is a process of its own that goes on when
`trial()` has timed out. `ClientRestart` ends whatever lives in the client. A helper
library is never unloaded, so `ncut_launch` starts at most once per id and client
process and answers `EALREADY` afterwards (`Starts`).

Data the properties do not tell apart is abstract: a content is one value for
text and recipient, a client is a generation number for pid and start time, the
preparation (copy of the executable, compilation) succeeds or fails.

One restriction is in a guard: `Archive` renames a directory that is still
retryable, or one whose request is over (`Over`: no process works on it, nothing of
it is in the client). The rename of a directory in which another process is at
work is not followed any further, since the two would then share one path. This
hides no error: in every such behaviour `CheckStillHolds`, the hypothesis of the
proofs, has already been false.

### Service

Adds service processes `s \in Instances`: where the loop is (`svc`), `stopping`,
the record in memory (`mem`) and on disk (`disk`), the backend not waited for
(`child`). The pending record names the backend process, its request id being
`rid` of it. `Load` and `Lock` are two steps because `main()` builds the `Runner`
before the `Service`. `Accept`, `SavePending` and `WriteRequest` are the three
steps of `Runner.__call__` before it waits; `Collect` and `CommunicateTimeout` the
two ways it comes back; `Inspect` is `inspect_pending`; a write of `operation.json`
may fail in each place. `Listed` is the test of `/proc/<pid>/stat`: it is true for
a running backend *and for a zombie*, one that has ended and whose parent, the
service, lives and did not wait for it. `Answer` and `Status` are `dispatch` on
`send_text` and `send_status`, and `StoppedStatus` is the `send-status` command when
the service is down; a request that only reads is no action. `Crash` is
SIGKILL or a power loss that the client survives: memory and lock are gone, a
backend still waiting for its request reads end of file, and init reaps it.
`Manual` operations are sends from the command line beside the service.
`KeepsPromise` at the end of the module is the refinement of `SendPromise`.

### SendPromise

The promise without the mechanism: an id stands for one content; an operation on
the client begins at most once per id and only when none is active; a message is
transmitted at most once and only by the active operation. The refinement maps
`claim <- request`, `begun <- ` the ids that ever had a debugger, `active <- ` the
ids with a debugger, a working helper or a live callback.

### Requests

The side of the service that `Service` abstracts from: connections. `queue` is what
`listen(4)` holds, `serving` the connection in `handle`, `asked` (a history) the order
in which commands connected. A command waits, is answered, gives up after its
timeout (`GiveUp`; its connection stays queued, and is served), or is turned away
(`Refused`: no socket, or a full queue). Then `send-status`, and only it, reads the
files itself (`ReadAlone`). A connection that never sends its line costs the loop
its timeout (`ReadTimesOut`). What a send does is here only its end (`EndSend`:
completed, failed before the injection, or uncertain), since `Service` has the rest.

### Injection, NativeHelper and Inferior

`Injection` is `inject_in_gdb` with one step per inferior call and per `save`, and
`run_injection` around it. `pc` is the next step of the script, `inside` says that
GDB waits in a call, `calls` is the stack of calls in the client that have not
returned, `origin` is `call_origin`, `file` is `injection.json`, `parent` is
`run_injection`. A signal interrupts a call (`Interrupted`): the script is in its
`except` clause and `calls` is not empty. `Finishing` is `finish_pending_call`: `Pending`
is `pending_call()`: a call is unfinished, and the client's stacks show it or the registers
are not back at `call_origin`; they may also differ, or be unreadable, when the call
has returned (`NotRestored`, `origin = "missed"`). A thread or stack that cannot be read counts as
unfinished, so `Continue` is possible whenever the client is stopped and lives; with
`ContinuedReturns`, `StoppedAgain` and `Finished` it is the loop. `SaveFailsIn` says where `save` may raise.
When freeing the scratch memory is interrupted as well, `injection.json` keeps
`inferior_call_pending`, so that a helper that did start is not armed.

`NativeHelper` has the worker thread and the client's network thread at the
granularity of the mutex: entering a critical section (`WorkerLocks`,
`NetworkLocks`) and leaving it (the section's own action) are two steps,
`business_delete` is outside. When the client's code calls the callback, copies or
drops it, is its own choice (`NetworkCalls`). `report` is what `worker.json` says,
and what the previous, longer text may leave behind it between the write and
`ftruncate`. `ncut_launch` starts a thread or refuses before it has made anything
(`LaunchRefused`).

`Inferior` puts both into one client: the launch call of the script starts the
worker, the threads run only while GDB does not have the client stopped, and the
worker takes the marker that `run_injection` creates. `Trial` has the same debugger
and thread in the coarser steps that the parent can tell apart through files.

### Install

An installer `p` is one run with `--apply`, for the user `user[p]`; several may run
beside each other, since nothing locks them out. `prefix`, `launcher` and `unit[u]`
name the installer that made the directory, the command and the unit of `u`;
`made[p]` is `created_files`, `started[p]` is `activation_started`. `mkdir` and the
`O_EXCL` of `write_new` are the guards `= Nobody`. Creating a file and noting it in
`created_files` are two moments of the code: `WriteUnit`, `WriteLauncher` and
`MakePrefix` have a second outcome in which the file is made and the step fails
before it is noted, which the history variable `torn` remembers. `StepFails` is
an error or interrupt anywhere else before the activation, `Killed` an end without the
`except` clause. The rollback removes one file per step. `systemctl enable --now`
may fail with the unit enabled, started, both or neither.

### Snapshot

The client is a SQLite writer in WAL mode: it writes frame headers and pages
(`WriteHeader`, `WritePage`), commits with a frame that names the size, abandons a
transaction (`Abandon`: the next one overwrites its frames in place), copies frames
back (`CopyBack`), cuts the file, and starts the log again with a new generation
(`StartLog`, `RestartLog`, `RemoveLog`). `mx` and `tip` are the committed and the
written frames of the current generation; a page's content is the transaction
that wrote it; a frame's checksum is the sequence of what was written up to it.
The reader is `stable_read` step by step: the signatures of both files, the
database, the log's header and its body (two steps: a write may fall between),
the two comparisons, `Tries` attempts; then `open_database` (`committed_wal` as
`Current`, `ChecksumMismatch`, `LastCommit`, and the overlay as `Image`). `window` and
`floor` are histories: the committed states during the attempt, and the committed
frames when the log was read. Every write is taken to change the file's
signature (size, mtime in ns, inode), which is what `stable_read` relies on.

### KeyScan

The scan reads `Regions` in chunks of at most `Chunk` bytes within the budget
`MaxBytes`; a read may be short, by whole pages. A key is a place (region, start,
length) and the database it belongs to; `Seen` is what lies inside the kept tail and
the chunk. `Save` writes the temporary file, `Replace` renames it, `ScanKilled` may come
before each.

### Messages

One page: the shards are opened in turn, each at another moment (`Open`), each
giving its newest rows under the filters and the limit; they are merged and cut
to `Limit` (`Merge`). `NextPage` asks again with `--before` the time of the last
message of the page. `Change` stores or deletes a message at any moment; `lasting`
(a history) are those that were there all the time.

### Programs

Composes the four modules above for TLC. They share no variable and no file, so
each step of one commutes with each of another and a behaviour of all of them
is no more than four separate ones: one program runs (`program`), the others stay
in one initial state.

### Probe, ProbeEvents and Capture

`Probe` is `observe()` and `run_gdb()` in the parent (`ppc`), `trace_in_gdb()` in the
debugger (`dpc`, `status`, `out` for its `result.json`), a `sigint` under way, and the
client: traced or not, and stopped by `nobody`, the `probe` or its `owner`. SIGINT can meet
the debugger anywhere, SIGKILL too (`Grace`), which may leave a half-written
result or a client that is stopped although nobody traces it; waiting for the
kill may time out. GDB runs before the parent has noted it (`Prepare`, `OnStarted`),
its detach may fail, and the owner may stop the client at any time: while it is
traced, GDB's stop and the owner's are told apart (`Held`). `Inspect` is the `finally` clause, which continues such a client,
`Verify` looks at it once more.

`ProbeEvents` is the three breakpoint handlers and the client's tasks that hit them:
a dispatch records a send and watches it, the serialisation and the end are
recorded for a watched task, errors or the limit of hits stop the observation.
A task is watched before its record is complete, and a handler can fail after it has
recorded, as in the code. The client may use ids and contexts again as often as it
likes; of the tasks *under way* it is taken to tell sends apart by their ids, and all
by id and context (`Free`). `Capture` lets the tasks run while the debugger waits in
`continue`, which a handler or any signal to the client ends, and the records decide
what it reports.

## 3. What TLC checks

| run | instance | shows |
|---|---|---|
| `trial_safety` | 2 processes, 2 ids, 2 contents, 1 restart of the client | `AtMostOnce`, `ArmedOnlyDetached`, `RecordedIsSent`, `NoArtifactNoInjection`, `CompletedIsSent`, `HandoverIsClean` for sends started beside each other |
| `service_safety` | 1 instance (any number of crashes and restarts of it), 2 backends, 2 ids, 2 contents, 1 restart of the client | `SerialNative`, `ForgottenIsSettled`, `TruthfulStatus`, `StartsAlone`, the refinement `KeepsPromise` |
| `service_live` | 2 instances, one backend, 1 restart of the client | `LoopReturns`, `StopIsDrained`, `TrialEnds` under fairness |
| `requests` | 2 commands, 2 ids, a queue of 2, 2 crashes or stops | `StatusIsInOrder`, `CommandsEnd` |
| `inferior` | 3 interrupts, 2 copies of the callback, `save` may raise in the script | `NeverAcrossACall`, `ArmedIsLaunched`, `DebuggerEnds`; `FreedOnce`, `ReportIsHonest`, `CompletedIsFinal`, `LeftoverIsANewline`, `BusinessIsReleased`, `WorkerEnds` |
| `programs` | 2 installers, 2 users; 2 pages, transactions, frames and generations, 2 attempts; chunks of 4 bytes with 2 kept, keys of at most 3; 2 shards, 7 messages, limit 2, 3 pages, 2 changes | `ServedIsComplete`, `NotedIsCleaned`, `RemovesOnlyItsOwn`; `SnapshotIsCommitted`, `StaleGenerationsIgnored`; `ReadIsFound`, `FileIsReplacedWhole`; `NothingIsSkipped`, `PagesAreDisjoint` |
| `capture` | 4 tasks that share ids and contexts, 1 of 3 sends recorded, 2 errors, 4 hits, 1 interrupt by the operator | `ClientIsReleased`, `ObserveEnds`, `RecordsAreOfSends` |
| `trial_race`, `service_stop`, `service_two`, `injection_escape`, `install_torn` | as small as they can be | the five findings below, each as the counterexample to one property |

More configurations are kept for use by hand:
`InferiorTypes.cfg`, `ProgramsTypes.cfg`, `CaptureTypes.cfg`, `RequestsTypes.cfg` and
`ServiceTypes.cfg` check the type invariants of the other modules;
`RequestsThree.cfg` (module `Requests`) lets three commands fill the queue, so that
one is turned away while the service is up; `TrialLive.cfg` (`MCTrial`) adds
`HelperStopsPolling` for two processes; `ServiceTakeover.cfg` (`MCService`) shows that
`AtMostOnce` and `RecordedIsSent` hold even with two instances taking over from
each other, where `SerialNative` does not. They all pass. `ServiceZombie.cfg` and
`ServiceUnsaved.cfg` show each part of `StopEnds` violated by itself; `TrialResend.cfg`
(`MCTrial`) shows what finding 1 leads to when the client is restarted; and
`ServiceStatus.cfg`, `SnapshotTail.cfg`, `CaptureStop.cfg` and `CaptureReuse.cfg` show the
four remarks at the end of section 4.

**Bounds.** `Ops`, `Ids`, `Contents` have the two elements that every property
quantifying over pairs needs: two processes on one id, on two ids, with equal and
with different contents. A third process on one id matters in one place, the
archive, and `trial_race` shows what it does there; for the service, the proofs
cover any number. Since `Ops` are used up,
a service of `service_safety` accepts at most two sends, over any number of
crashes, restarts, stops, timeouts and failed writes, none of which is bounded.
`MaxClients` bounds restarts of the client (one is enough for every stale
`target`). `MaxInterrupts` bounds signals: one interrupts a call, the next one the
continued call, the third the `free` in the `finally` clause. `MaxClones` bounds copies of
the callback. With two commands one is served or queued while the other asks;
`Backlog` and `Tolerated` (how often the service goes down) leave room for an
answer before and after. Two installers meet at every pair of steps, for one user
or two. `MaxTx`, `MaxFrames`, `MaxGen`: an abandoned transaction and one after it, a
frame of an old generation behind a current one, a log that is restarted during
an attempt and a second attempt after a failed one. The scan's sizes let a key
begin at every offset of a chunk, straddle two, and lie behind the end of the budget; in the code
`Longest` is 99 and `Overlap` 100, and the proof has any sizes. Three pages: the
first, one whose edge was moved by a change, and a last one that is not full.
`MaxEvents` is 1 where the code has 2, `MaxErrors` 2 for 3 and `MaxHits` 4 for 100, so that
each limit is met with four tasks. Apart from `MaxClients`, `MaxInterrupts` and
`MaxClones`, which are arbitrary numbers there, the proofs have no such bounds.

**Deadlock.** `CHECK_DEADLOCK FALSE` where everything really may stop: all
processes have ended and the client rests, all installers have, or script and
helper have. In the helper,
whose mutex is not recursive and remembers the section it was taken for, a thread
that waited for itself would break `WorkerEnds`. `requests`, `programs`, `capture` and
`injection_escape` check deadlock: the last step of each is an explicit stutter.

**Fairness.** Steps of `trial()` and the helper's last poll are weakly fair, since
the kernel schedules them and every wait in them is bounded by a timeout (25 s,
45 s, 500 polls), which is itself one of the steps. The service's own steps are
weakly fair for the same reason (150 s, the scan's limit, 0.5 s in `accept`).
In `Trial` and `Service` no fairness is assumed of GDB, the network, the callback, the owner, a restart of
the service or anyone who calls `inspect_pending` from outside. In `Requests` the
loop is fair, because reading and answering have timeouts, and so is a command
that has lost its connection; no one has to connect, give up or restart anything.
In `Inferior` GDB's own steps and the return of calls are fair (a call that never
returns is one for which the code waits by design), signals and failures need not
come; the helper's threads are fair, and the mutex is handed on (strong fairness
of taking it); the client need not call back. In `Capture` only the parent is fair:
`ObserveEnds` holds with a debugger that does nothing at all.

`StopIsDrained` says less than the documentation does, see finding 2: a stop ends once
*nothing is pending, or what is pending can be closed* (`Drainable`): the backend has
been waited for, and it either ended before the injection or its message is
acknowledged. From then on it ends over captures, failed writes of `operation.json`
and whatever else the loop does; the exception is a restart of the client in which the
message was acknowledged, after which `inspect_trial` cannot look again. That an
uncertain or refused send keeps the service waiting is meant so (`service.py:315`).
`WorkerEnds` is about a client that lives when GDB has let it go; whether
`trial()` ever creates the marker does not matter to it.
`RecordsAreOfSends` is about a capture in which no handler has failed, which is what the
self-test asks for (`errors`); the last remark of section 4 is about the others.
`DebuggerEnds` leaves out one state, `TakenForUnfinished`: no call is unfinished, but a
thread could not be read when the script looked. The client then runs, unharmed,
until something stops it and the script looks again.

## 4. What the runs found

1. **The archive races** (`trial_race`, `native_send_candidate.py:357`). Three
   processes with one request id pass the check of `trial()` before its directory
   exists. The first ends with the clean not-idle rejection, which may be archived;
   the other two both see that. The second renames the directory, makes a new one
   and submits the message; the third, having looked before, renames *that* one, the
   record of a submitted message (`SubmittedIsKept`), and begins a send of its own. In
   the same client process `ncut_launch` refuses it, since the library of that id is
   still loaded (`native_send_helper.c:215`); if the client is restarted in between, the
   message is submitted again (`TrialResend.cfg`). `CheckStillHolds` names the missing
   condition. Two processes cannot break it (`TwoArchiveSafely`), nor could any number
   under a lock (`OneArchivesSafely`), nor can the backends of one service
   (`ServiceArchives`).
2. **A stop can wait for nothing, for ever** (`service_stop`, `service.py:145`), in two ways.
   *Unrecorded*: `save` raises for the pending record (`service.py:112`); the backend waits
   for its stdin, which the service keeps open, and the service for the backend.
   *Zombie*: after `communicate` times out (`service.py:115`) nobody waits for the backend
   any more. When it ends, even with success, `/proc/<pid>/stat` keeps its start time until
   the service itself ends, and `inspect_pending` (`service.py:145`) takes it for running.
3. **The record is read before the lock is taken** (`service_two`, `service.py:344`).
   A second instance that loaded an empty record gets the lock when the first
   one, which meanwhile accepted a send, has died. It serves without the pending
   record and starts a second native operation beside the first.
4. **A failed save escapes an unfinished call** (`injection_escape`,
   `native_send_candidate.py:167`). `finish_pending_call` saves the record before it
   continues the client. If that raises, the `finally` clause detaches while the
   interrupted call is unfinished, against the comment four lines above, and calls `free`
   first when that call came after `malloc` (the shortest trace interrupts `malloc` itself).
   `NeverAcrossACall` holds when `save` does not raise there.
5. **A file created but not noted survives the rollback** (`install_torn`,
   `install.py:303`). `write_new` creates the unit or the command before it writes
   it, and `_install` notes it only afterwards. A full disk or an interrupt in
   between leaves the file, contrary to `docs/service.md:41`, and every later
   installation for that user is refused. `NotedIsCleaned` says that nothing else
   is left.

Four smaller remarks, each a counterexample by hand. The comment of `committed_wal`
(`native_db.py:77`) says that an uncommitted tail is ignored; one that was
abandoned and partly overwritten is refused with a checksum error
(`native_db.py:96`), although all that is committed is intact (`SnapshotTail.cfg`,
module `Snapshot`). And `send_status` prefers the last recorded result
(`service.py:255`): when a manual send holds an id, a send of that id through the
service is recorded as failed, and the answer stays "failed" when the manual one
has sent the message (`ServiceStatus.cfg`, module `MCService`; `cli.py:43` calls it
the recorded outcome of a prior send). The probe continues every client that it finds
stopped and untraced once a debugger was started (`native_send_probe.py:563`), also one
that its owner has stopped in the meantime (`CaptureStop.cfg`, module `MCCapture`).
And an end is looked up among the recorded callbacks by its id alone
(`native_send_probe.py:295`): when the end of a watched send could not be recorded
(an error), the observation goes on, and the next send with that id is recorded with
`req2buf_observed` on account of the first one's callback (`CaptureReuse.cfg`).

## 5. What is proved

Eight modules of proofs; the theorems a reader should know of:

| module | theorems | for |
|---|---|---|
| `TrialProofs` | `TypeCorrect`, `Inductive`, `SentAtMostOnce`, `WorksDetached`, `CompletedWasSent`, `RecordedContent`, `NoArtifactMeansNothingRan`, `CleanHandover` | any processes, ids, contents and restarts of the client, under `[]CheckStillHolds` (`TypeCorrect`: always) |
| `TrialProofs`, the archive | `OneArchivesSafely`, `SentOnceUnderALock`; `TwoArchiveSafely`, `TwoSendOnce` | the same, if no two processes archive one id at once; if two processes at most are given an id |
| `ServiceProofs`, several | `ServiceRunsTrial`, `ServiceTypeCorrect`; `InstancesSendOnce` | any instances and sends by hand beside each other; the last under `[]CheckStillHolds` |
| `ServiceProofs`, one | `ServiceInvariant`, `ServiceArchives`, `ServiceSendsOnce`, `ServiceIsSerial`, `ServiceForgetsSettled`, `ServiceStatusIsTrue`, `ServiceStartsAlone`, `ServiceKeepsPromise` | any backends, ids, contents and restarts, under `Alone` |
| `NativeHelperProofs` | `HelperInvariant`, `ObjectFreedOnce`, `HonestReport`, `FinalWhenCompleted`, `OldTextIsANewline` | any number of copies of the callback |
| `InferiorProofs`, the script | `InjectionInvariant`, `CallsAreFinished`, `OnlyLaunchedIsArmed` | any number of interrupts, if `save` does not raise in `finish_pending_call` |
| `InferiorProofs`, both | `ImplementsInjection`, `ImplementsHelper`, `CallsAreFinishedBesideTheHelper`, `MarkerMeansLaunched`, `HelperIsSafeBesideTheScript` | the same |
| `RequestsProofs` | `RequestsInvariant`, `StatusKeepsOrder` | any commands and ids, any queue, any number of stops and crashes |
| `SnapshotProofs` | `SnapshotInvariant`, `SnapshotTypes`, `SnapshotIsOneState`, `StaleFramesNeverFail` | any size of database, log and transactions, any number of generations and attempts |
| `ProgramsProofs`, one by one | `InstallInvariant`, `ServedStaysComplete`, `FailureLeavesNothingNoted`, `RollbackIsItsOwn`; `NoKeyIsMissed`, `ScanIsBounded`, `FileReplacement`; `PagesInvariant`, `NoMessageTwice`, `NothingSkipped` | any installers and users; regions, chunks, budgets, short reads of any size; any shards, messages, limit and changes |
| `ProgramsProofs`, all | `EveryProgramIsItsOwn`, `ProgramsAreSafe` | the same |
| `CaptureProofs` | `ProbeInvariant`, `ClientIsLetGo`; `EventsInvariant`, `RecordsOfSends`; `CaptureImplementsBoth`, `CaptureIsSafe` | any number of interrupts; any tasks and limits |

### Assumptions

Those of the modules' constants (`NoneAssumption`, `ManualAssumption` and so on), which say that
`None` is none of the others, that bounds are numbers, and for the scan what
`native_keys.py` has as constants: a match is at most one byte longer than what
is kept of the chunk before, which is at most a page. `TasksAssumption` says only that a
task's context is an address, so it is never the `NoContext` that stands for an id
`watched_tasks` does not hold; that the client tells the tasks under way apart is a
guard of `Dispatch` (`Free`).

- `[]CheckStillHolds` in `TrialProofs`, but for the types: a directory that a process
  is about to rename is still the rejection it has looked at. The code does not
  enforce it, finding 1 shows that three processes on one id break it, and
  `AtMostOnce` with it when the client is restarted, so the theorems say exactly on what the promise depends.
  Two things are proved to be enough for it: `OneArchives`, that no two processes are
  between the look and the rename for one id at once, which a lock around
  `reserve_trial_work` would give; and `TwoPerId`, that an id is given to two
  processes at most (the fixed acceptance id, which is not in `Ids`, needs only two
  for the race: section 6).
- `Alone` in `ServiceProofs`: `Manual = {}`, and all instances are one. The one
  instance crashes and restarts as it likes. Under it `ServiceArchives` *proves*
  `CheckStillHolds`, so nothing is assumed about the archive. Finding 3 is why
  there is one instance. `ServiceRunsTrial`, `ServiceTypeCorrect` and
  `InstancesSendOnce` do without it.
- `NoEscape` in `InferiorProofs`: `"finish" \notin SaveFailsIn`; finding 4 is why.

### The arguments

*Trial.* `AtMostOnce` is not inductive: a directory could be handed over
while a helper of its former owner still polls. `IInv` is `TypeOK` with two
groups of facts. `Bookkeeping`: a process past mkdir owns its directory, so no two
processes are past it for one id (`Owned`, `Exclusive`), and what it did before it
got to a step is still true there (`Progress`): no debugger before `popen`,
`config.json` at `popen`, the debugger gone at `arm`. `InTheClient`: a debugger
implies `config.json` and the recorded content (`Debugged`), a helper implies
`worker.json`, and the helper's state decides whether its message was submitted
zero times or once (`Submitted`). By `CheckStillHolds` a directory is archived only
if `worker.json` is absent and the debugger gone, so there is no helper, and by
`Submitted` nothing was sent: the hand-over keeps the invariant. A retryable
directory has a result and by `Exclusive` no process in it, so only another archive
can come between the look and the rename (`ArchiveStep`). Whoever is about to archive
owns no directory yet (`OwnsLater`), so two of them and the owner are three processes.

*Service.* `ServiceInv` adds that backends are serial (`SerialBackends`): one that
has read its request and not yet printed is the one that `operation.json` *and* the
memory of an instance that is up have pending. It is the order of `Runner.__call__`
that makes this inductive: the record is on disk before the request is written.
Every other backend's request is `Quiet`, its process ended and its outcome known
(`Forgotten`), which is all that `SerialNative` and `StartsAlone` need, and what is
recorded as the last outcome is true (`Recorded`). Serial backends discharge
`CheckStillHolds`: nobody else acts between the look and the rename. For the
refinement one fact more is needed, `Fresh`: a backend of the service finds its
id's directory free, since `dispatch` starts no backend for an id that has one. So the service
itself never archives, `begun` only grows, and each step of the service is a step
of `SendPromise` or a stutter (`PromiseStep`); archiving is only for sends by hand.

*Injection.* A call is unfinished only while the script waits in it or is
finishing it, and then the registers are not those of `call_origin` or the call is on
the stack that `pending_call` reads; so the loop is not left before the call has returned.

*Helper.* `HelperInv` says who may hold the mutex in which section (`Held`), who has
the callback and the object (`CallbackPlace`, `ObjectPlace`), that `live_callbacks`
counts the owners of the callback (`LiveIsCounted`: the worker's or the object's, a deletion not
counted yet, and the copies), and how the report follows the counters (`Reported`).
The count reaches zero only when nobody is left who could change the report, which
is why whoever closes it has the last word. `InferiorProofs` shows that every step
of the composition is a step of each part or leaves it alone, which carries the
properties of both over to the client that has both in it. For
`LeftoverIsANewline` the flags of the report follow those of the counters
(`FlagsInv`), and each critical section turns one flag on at most
(`FlagsOfState`); what is changed without being reported are numbers.

*Requests.* `AskedOnce`, `InLine` and `AloneIsBefore`: the connections wait in the
order in which they were made, behind the one that is served, and whoever found
the service gone connected before all that it serves now, since it took its
queue with it. So nobody is ahead of a command that is answered (`NobodyAhead`).
Every step joins the order at its end, takes its head, leaves it or empties it
(`OrderSteps`), and the four keep the invariant.

*Installer.* How far an installer has come tells what it has made and noted
(`ProgressOf`, `NotedOf`, `TraceOf`); once it has asked systemd to start the unit it
takes nothing back (`StartedOf`), and only such units are enabled or running (`Served`).

*Snapshot.* That the snapshot is a committed state needs the log frame by frame:
frames of the current generation up to `tip` carry their true checksums
(`Written`), those behind `mx` end no transaction or lack the page their checksum
is of (`Leftover`), all others are of earlier transactions (`Old`). `Complement` is
the heart: each page of the committed state is in the last committed frame that
has it, or else in the database file. A checkpoint writes only such pages into
the file, so `Complement` holds of every file *between* its writes too. The reader
compares both signatures: when the database file is found unchanged, the pages
that were read are those in it (`DbRead`), and a log found unchanged was the log
all the time (`WalRead`); what `check_db` knew is then still true of the pair at
`check_wal` although a checkpoint may have gone on in between (`PairRead`). From
there `Image` is the committed state by the last frame of each page, whose
number is the maximum of a set: `LeastNumber` and `MaxOfSome` prove that it
exists, from the well-foundedness of finite sets, without induction.

*Scan.* A copy that ends in what has been read has been seen, or begins within the
tail that is kept; the arithmetic of short reads and of the budget's end is in the
case of `ReadChunk`. *Messages.* What is on an earlier page is not older than the
edge, and the filter of the next page is strict. That nothing is skipped needs
what holds in the middle of a page (`LastingInv`): a lasting message of the shards
opened so far has been fetched or has a full page of fetched ones before it
(`Beyond`), and merging keeps that (`MergeKeepsOrder`). Behind the edge of a page
everything lasting has been shown, or has the second of an edge.

*Capture.* `ClientIsReleased` is not inductive: what counts is which process may
still hold or have stopped the client (`DebuggerInv`: nothing is traced before
gdb has started or after it has ended, and only a started one leaves its own
stop) and what the parent has waited for by then (`ParentInv`: at the `finally`
clause there is no gdb, or it was noted as started and has ended, unless its end could
not be had). `EventsInv`: while no handler has failed, what is watched under an id is
the context of a send under way (`Clean`), and tasks under way are told apart
(`Apart`), so a task that matches is that send (`MatchedIsSend`) and a serialised request
with its id is its own. Once a watched send's end is recorded, the observation is over;
it is an error there that lets a watched id outlive its send.
`CaptureImplementsBoth` carries both over to their composition, and
`EveryProgramIsItsOwn` does so for `Programs`.

### Only model-checked

All liveness (`LoopReturns`, `StopIsDrained`, `TrialEnds`, `CommandsEnd`,
`DebuggerEnds`, `BusinessIsReleased`, `WorkerEnds`, `ObserveEnds`): it rests on
fairness and `ENABLED`, which the provers do not have. Of two instances
or sends by hand beside the service, what the proofs need `Alone` for: finding 3 and
the remark on `send_status` show that it does not hold of them. The induction theorems of
the library take an operator as a parameter, which the provers cannot instantiate,
so a recursive definition over data could not be reasoned about; no proof here
needs one, since what is said of sequences is said of their positions, and the
least number of a set is had from well-foundedness.

## 6. What is not modelled

- The fixed acceptance id `linux-native-filehelper-text-v1`, which reaches
  `reserve_trial_work` without the check in front of it, and the round-trip-only
  `check` operation; both only by hand, the service refuses that id. `Trial` models
  generic request ids.
- Encodings (protobuf payload, JSON), ciphers and authentication of pages and
  keys, permissions and ownership checks, formatting of answers, parsing of
  arguments and requests.
- The client beyond what the helper, the readers and the probe see of it;
  delivery to the recipient. That the client dies after the debugger has ended is
  only in `Trial` and `Service`, not in `Inferior`.
- The installer's checks of wheels, owner and paths, the text of its plan, what is
  inside the directory but for its being whole, and a rollback whose own `unlink`
  fails.
- Which process and which memory regions a capture of keys chooses, and two
  captures beside each other.
- Names, message bodies, decompression and the list of conversations in the
  message reader.
- The probe's self-test; its preparation in a child process is one step.
- A debugger of somebody else that attaches between the check that the client is
  untraced and the marker (`native_send_candidate.py:310`).
- A client of the socket that does not read its answer: `sendall` gives up after its
  five seconds (`service.py:305`), in `Requests` an answer is one step.

## 7. Plan

What is left, most important first:

1. `Trial` with the fixed acceptance id, for which two processes are enough for
   the race of finding 1; it touches the step lemmas of `TrialProofs` and
   `ServiceProofs`.
2. A refinement between `Inferior` and the debugger and helper of `Trial`, whose
   coarser steps are argued in section 2 and not checked, with its proof.
3. `Requests` with the runner of `Service` in place of `EndSend`.
4. A rollback whose own `unlink` fails, and two captures of keys beside each other.
