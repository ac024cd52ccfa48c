------------------------------- MODULE Probe --------------------------------
(***************************************************************************)
(* The capture probe (native_send_probe.py): observe() and run_gdb() in    *)
(* the parent, trace_in_gdb() in the debugger, which attaches to the       *)
(* owner's client, and the client itself.  The parent bounds the debugger  *)
(* with SIGINT and SIGKILL; whatever happens it looks at the client at the *)
(* end and continues it if it was left stopped.                            *)
(***************************************************************************)
EXTENDS Naturals

CONSTANT MaxInterrupts   \* bound on the operator's interrupts

ASSUME ProbeAssumption == MaxInterrupts \in Nat

VARIABLES
  ppc,        \* the parent's next step
  started,    \* debugger_started
  error,      \* what is raised once the finally clause is through
  cleanup,    \* cleanup['verified']
  result,     \* the status run_gdb returns
  dpc,        \* the debugger's next step
  status,     \* state['status'] in the debugger
  out,        \* result.json, as the debugger leaves it
  sigint,     \* a SIGINT the debugger has not taken yet
  client,     \* "alive", "gone" or "restarted"
  traced,     \* the debugger traces the client
  stop,       \* who stopped the client: "nobody", "probe", "owner"
  interrupts  \* the operator's interrupts

parentVars == <<ppc, started, error, cleanup, result, interrupts>>
debugVars == <<dpc, status, out, sigint>>
clientVars == <<client, traced, stop>>
probeVars == <<parentVars, debugVars, clientVars>>

Final == {"captured", "no_matching_task", "probe_error"}

ProbeInit ==
  /\ ppc = "check" /\ started = FALSE /\ error = "none" /\ cleanup = FALSE
  /\ result = "none" /\ interrupts = 0
  /\ dpc = "none" /\ status = "starting" /\ out = "absent" /\ sigint = FALSE
  /\ client = "alive" /\ traced = FALSE /\ stop \in {"nobody", "owner"}

-----------------------------------------------------------------------------
(* The client and its owner.                                               *)

\* At any time after the check; under a tracer the signal is pending or the
\* client is held for it.
OwnerStops ==
  /\ client = "alive" /\ ppc # "check"
  /\ stop = "nobody" \/ (traced /\ stop = "probe")
  /\ stop' = "owner"
  /\ UNCHANGED <<parentVars, debugVars, client, traced>>

ClientEnds ==
  /\ client = "alive"
  /\ client' \in {"gone", "restarted"}
  /\ traced' = FALSE
  /\ stop' = "nobody"
  /\ UNCHANGED <<parentVars, debugVars>>

\* The tracer is gone.  A client that was about to stop stays stopped.
Released ==
  /\ traced' = FALSE
  /\ stop' \in IF traced THEN {stop, "nobody"} ELSE {stop}

\* What a stop that the debugger sees makes of the one the owner asked for.
Held == IF stop = "owner" THEN "owner" ELSE "probe"

-----------------------------------------------------------------------------
(* trace_in_gdb.  The final save of the record may be cut off by a kill.   *)

Script(from) == dpc = from /\ UNCHANGED <<parentVars, client>>

Load ==
  /\ Script("load") /\ dpc' = "attach"
  /\ UNCHANGED <<status, out, sigint, traced, stop>>

\* From the try on, an interrupt or an error leads to the finally clause; an
\* interrupted attach may have taken hold of the client.
Attach ==
  /\ Script("attach")
  /\ \/ /\ client = "alive"
        /\ dpc' = "plant" /\ traced' = TRUE /\ stop' = "probe"
        /\ UNCHANGED status
     \/ /\ dpc' = "finally" /\ status' = "probe_error"
        /\ UNCHANGED <<traced, stop>>
  /\ UNCHANGED <<out, sigint>>

\* Signatures are compared, breakpoints set, 'observing' saved, and the client
\* continued: a stop that the owner asked for in the meantime holds it again.
Plant ==
  /\ Script("plant")
  /\ \/ /\ dpc' = "observe" /\ status' = "observing" /\ out' = "observing"
        /\ stop' = IF stop = "probe" THEN "nobody" ELSE stop
     \/ dpc' = "finally" /\ status' = "probe_error" /\ UNCHANGED <<out, stop>>
  /\ UNCHANGED <<sigint, traced>>

\* 'continue' returns: a breakpoint or a signal has stopped the client, or the
\* client is gone.
Stops ==
  /\ Script("observe")
  /\ dpc' = "finally" /\ status' \in {"captured", "no_matching_task"}
  /\ stop' = IF traced THEN Held ELSE stop
  /\ UNCHANGED <<out, sigint, traced>>

\* The client runs on, unless it takes the owner's stop with it.  A detach that
\* fails is noted, and the script goes on.
Detach ==
  /\ Script("finally")
  /\ dpc' = "save"
  /\ \/ /\ traced' = FALSE
        /\ stop' \in IF ~traced THEN {stop}
                    ELSE IF stop = "owner" THEN {"owner", "nobody"} ELSE {"nobody"}
     \/ UNCHANGED <<traced, stop>>
  /\ UNCHANGED <<status, out, sigint>>

SaveAndQuit ==
  /\ Script("save")
  /\ \/ dpc' = "quit" /\ out' = status
     \/ dpc' = "quit" /\ UNCHANGED out
  /\ UNCHANGED <<status, sigint, traced, stop>>

\* gdb --batch ends with its script and lets go of the client.
Quit ==
  /\ Script("quit")
  /\ dpc' = "gone" /\ Released
  /\ UNCHANGED <<status, out, sigint>>

\* KeyboardInterrupt: before the try and in the finally clause it ends the
\* script; in between it leads to the finally clause.
TakeSigint ==
  /\ sigint /\ dpc \notin {"none", "gone", "quit"}
  /\ sigint' = FALSE
  /\ IF dpc \in {"load", "finally", "save"}
     THEN dpc' = "quit" /\ UNCHANGED <<status, traced, stop>>
     ELSE /\ dpc' = "finally"
          /\ status' \in IF status = "observing" THEN {"captured", "no_matching_task"}
                         ELSE {"no_matching_task"}
          /\ \/ client = "alive" /\ traced' = TRUE
                /\ stop' = IF traced THEN Held ELSE "probe"
             \/ dpc = "attach" /\ UNCHANGED <<traced, stop>>
             \/ client # "alive" /\ UNCHANGED <<traced, stop>>
  /\ UNCHANGED <<out, parentVars, client>>

Debugger == Load \/ Attach \/ Plant \/ Stops \/ Detach \/ SaveAndQuit \/ Quit \/ TakeSigint

-----------------------------------------------------------------------------
(* observe and run_gdb.                                                    *)

Parent(from) == ppc = from /\ UNCHANGED <<client, interrupts>>

Raise(what) == error' = what /\ ppc' = "inspect"

\* A client that is traced or stopped already is left as it is.
Check ==
  /\ Parent("check")
  /\ IF client = "alive" /\ stop = "nobody" THEN ppc' = "prepare" /\ UNCHANGED error
     ELSE ppc' = "raised" /\ error' = "refused"
  /\ UNCHANGED <<started, cleanup, result, debugVars, traced, stop>>

\* The private directory, the verified copy, config.json; then gdb is spawned.
Prepare ==
  /\ Parent("prepare")
  /\ \/ ppc' = "start" /\ dpc' = "load" /\ UNCHANGED error
     \/ Raise("preparation") /\ UNCHANGED dpc
  /\ UNCHANGED <<started, cleanup, result, status, out, sigint, traced, stop>>

\* on_started; the wait with its deadline begins only now.
OnStarted ==
  /\ Parent("start")
  /\ started' = TRUE /\ ppc' = "wait"
  /\ UNCHANGED <<error, cleanup, result, debugVars, traced, stop>>

\* The debugger has finished, or the deadline passes and it gets a SIGINT.
Wait ==
  /\ Parent("wait")
  /\ IF dpc = "gone" THEN ppc' = "read" /\ UNCHANGED sigint
     ELSE ppc' = "grace" /\ sigint' = TRUE
  /\ UNCHANGED <<started, error, cleanup, result, dpc, status, out, traced, stop>>

\* Mutant: the debugger is waited for without a limit.
Grace_Waits ==
  /\ Parent("grace") /\ dpc = "gone"
  /\ ppc' = "read"
  /\ UNCHANGED <<started, error, cleanup, result, debugVars, traced, stop>>

\* It ends within five seconds, or it is killed: a save may be cut off.
Grace ==
  /\ Parent("grace")
  /\ ppc' = "read"
  /\ IF dpc = "gone" THEN UNCHANGED <<debugVars, traced, stop>>
     ELSE /\ dpc' = "gone"
          /\ out' \in IF dpc \in {"plant", "observe", "save"} THEN {out, "torn"} ELSE {out}
          /\ Released
          /\ UNCHANGED <<status, sigint>>
  /\ UNCHANGED <<started, error, cleanup, result>>

\* The killed process is not reaped within three seconds.
KillTimesOut ==
  /\ Parent("grace") /\ dpc # "gone"
  /\ Raise("wait_timeout")
  /\ UNCHANGED <<started, cleanup, result, debugVars, traced, stop>>

KilledLater ==
  /\ error = "wait_timeout" /\ dpc # "gone"
  /\ dpc' = "gone" /\ Released
  /\ UNCHANGED <<parentVars, status, out, sigint, client>>

ReadResult ==
  /\ Parent("read")
  /\ IF out = "torn" THEN Raise("malformed") /\ UNCHANGED result
     ELSE /\ ppc' = "inspect"
          /\ result' = IF out = "absent" THEN "debugger_failed_before_result" ELSE out
          /\ UNCHANGED error
  /\ UNCHANGED <<started, cleanup, debugVars, traced, stop>>

\* Ctrl-C: the wait ends like at the deadline; anywhere else it is raised.
OperatorInterrupts ==
  /\ interrupts < MaxInterrupts
  /\ interrupts' = interrupts + 1
  /\ \/ ppc = "wait" /\ dpc # "gone" /\ ppc' = "grace" /\ sigint' = TRUE /\ UNCHANGED error
     \/ ppc \in {"prepare", "start", "wait", "grace"} /\ Raise("interrupt") /\ UNCHANGED sigint
  /\ UNCHANGED <<started, cleanup, result, dpc, status, out, clientVars>>

\* Mutant: the client is only looked at.
LeftStopped_Never == FALSE

LeftStopped == started /\ ~traced /\ stop # "nobody"

\* The finally clause of observe, for the client whose start time it knows.
\* "seen" is what the parent finds after SIGCONT, or at once without.
Inspect ==
  /\ Parent("inspect")
  /\ IF client = "alive" /\ LeftStopped
     THEN stop' = "nobody" /\ ppc' = "verify" /\ UNCHANGED <<cleanup>>
     ELSE /\ cleanup' = (client = "alive" /\ ~traced /\ stop = "nobody")
          /\ ppc' = "artifacts" /\ UNCHANGED stop
  /\ UNCHANGED <<started, error, result, debugVars, traced>>

\* Fifty milliseconds later: the state is read again, the tracer is not.
Verify ==
  /\ Parent("verify")
  /\ cleanup' = (client = "alive" /\ stop = "nobody")
  /\ ppc' = "artifacts"
  /\ UNCHANGED <<started, error, result, debugVars, traced, stop>>

\* The copy of the program is removed; a failure takes the verdict back.
Artifacts ==
  /\ Parent("artifacts")
  /\ cleanup' \in {cleanup, FALSE}
  /\ ppc' = IF error = "none" THEN "returned" ELSE "raised"
  /\ UNCHANGED <<started, error, result, debugVars, traced, stop>>

Observe ==
  \/ Check \/ Prepare \/ OnStarted \/ Wait \/ Grace \/ ReadResult \/ Inspect \/ Verify \/ Artifacts

Ended == ppc \in {"returned", "raised"} /\ UNCHANGED probeVars

ProbeNext ==
  \/ OwnerStops \/ ClientEnds \/ Debugger \/ Observe
  \/ KillTimesOut \/ KilledLater \/ OperatorInterrupts \/ Ended

ProbeSpec == ProbeInit /\ [][ProbeNext]_probeVars

\* Only the parent is fair: neither gdb nor the client needs to do anything.
ProbeFairSpec == ProbeSpec /\ WF_probeVars(Observe)

-----------------------------------------------------------------------------
ProbeTypeOK ==
  /\ ppc \in {"check", "prepare", "start", "wait", "grace", "read", "inspect", "verify",
              "artifacts", "returned", "raised"}
  /\ error \in {"none", "refused", "preparation", "malformed", "wait_timeout", "interrupt"}
  /\ dpc \in {"none", "load", "attach", "plant", "observe", "finally", "save", "quit", "gone"}
  /\ status \in {"starting", "observing"} \cup Final
  /\ out \in {"absent", "observing", "torn"} \cup Final
  /\ result \in {"none", "debugger_failed_before_result", "observing"} \cup Final
  /\ started \in BOOLEAN /\ cleanup \in BOOLEAN /\ sigint \in BOOLEAN /\ traced \in BOOLEAN
  /\ client \in {"alive", "gone", "restarted"} /\ stop \in {"nobody", "probe", "owner"}
  /\ interrupts \in 0..MaxInterrupts

(* When observe is over, by return or by exception, and its debugger could *)
(* be stopped, the client is neither traced nor left stopped by the probe, *)
(* wherever in its attach, its detach or its saves the debugger was hit by *)
(* the deadline, by the kill or by an error; and a capture that is called  *)
(* ok has left no debugger behind (observe, the finally clause).           *)
ClientIsReleased ==
  /\ ppc \in {"returned", "raised"} /\ error \notin {"wait_timeout", "interrupt"}
       => ~traced /\ stop # "probe"
  /\ ppc = "returned" /\ result = "captured" /\ cleanup => dpc = "gone"

(* A stop that the owner asked for is never ended by the probe.  It does   *)
(* not hold: the stop that the finally clause finds counts as the probe's, *)
(* whoever asked for it, once a debugger was started (observe, os.kill).   *)
OwnersStopIsKept == [][stop = "owner" /\ stop' # "owner" => client' # "alive"]_probeVars

(* The probe is bounded: observe ends although the debugger, the client    *)
(* and its messages may do nothing at all (run_gdb).                       *)
ObserveEnds == <>(ppc \in {"returned", "raised"})
=============================================================================
