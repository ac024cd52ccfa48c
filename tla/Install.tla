------------------------------ MODULE Install ------------------------------
(***************************************************************************)
(* The installer of the service (install.py): the steps of apply() and     *)
(* _install() by which root puts the code directory, one unit per user and *)
(* the command in place and starts the unit, what each failure leaves      *)
(* behind and what the rollback removes.  Several installers may run at    *)
(* once, for one user or for different ones.                               *)
(***************************************************************************)
EXTENDS Integers

CONSTANTS Installers,   \* runs of the installer with --apply
          Users,        \* desktop owners it can be run for
          Nobody

ASSUME NobodyAssumption == Nobody \notin Installers \cup Users

VARIABLES
  step,      \* step[p]: where installer p is
  user,      \* user[p]: the owner it installs for
  made,      \* made[p]: created_files
  started,   \* started[p]: activation_started
  prefix,    \* the installer whose mkdir made PREFIX
  filled,    \* PREFIX holds the checked environment
  unit,      \* unit[u]: the installer that created the unit file of u
  launcher,  \* the installer that created the command
  torn,      \* installers that created something without noting it (history)
  enabled,   \* users whose unit systemd starts at boot
  running    \* users whose unit runs

siteVars == <<prefix, filled, unit, launcher>>
systemVars == <<enabled, running>>
installVars == <<step, user, made, started, siteVars, torn, systemVars>>

Steps == {"unborn", "check", "mkdir", "fill", "unit", "launcher", "manifest",
          "reload", "activate", "enable", "rollback", "failed", "refused",
          "installed", "killed"}
FinalSteps == {"failed", "refused", "installed", "killed"}

InstallInit ==
  /\ step = [p \in Installers |-> "unborn"]
  /\ user = [p \in Installers |-> Nobody]
  /\ made = [p \in Installers |-> {}]
  /\ started = [p \in Installers |-> FALSE]
  /\ prefix = Nobody
  /\ filled = FALSE
  /\ unit = [u \in Users |-> Nobody]
  /\ launcher = Nobody
  /\ torn = {}
  /\ enabled = {}
  /\ running = {}

-----------------------------------------------------------------------------
Go(p, where) == step' = [step EXCEPT ![p] = where]
At(p, where, next) == step[p] = where /\ Go(p, next)
Note(p, file) == made' = [made EXCEPT ![p] = @ \cup {file}]

StartInstaller(p, u) ==
  /\ At(p, "unborn", "check")
  /\ user' = [user EXCEPT ![p] = u]
  /\ UNCHANGED <<made, started, siteVars, torn, systemVars>>

Unused(u) == prefix = Nobody /\ launcher = Nobody /\ unit[u] = Nobody

CheckTargets(p) ==
  /\ step[p] = "check"
  /\ Go(p, IF Unused(user[p]) THEN "mkdir" ELSE "refused")
  /\ UNCHANGED <<user, made, started, siteVars, torn, systemVars>>

\* Mutant: mkdir(exist_ok=True).
MakePrefix_ExistOk(p) ==
  /\ At(p, "mkdir", "fill")
  /\ prefix' = p
  /\ UNCHANGED <<user, made, started, filled, unit, launcher, torn, systemVars>>

\* mkdir of PREFIX.  An error before prefix_created is set is not rolled back,
\* nor is an interrupt right after the mkdir.
MakePrefix(p) ==
  /\ step[p] = "mkdir"
  /\ \/ /\ prefix = Nobody
        /\ prefix' = p
        /\ \/ Go(p, "fill") /\ UNCHANGED torn
           \/ Go(p, "failed") /\ torn' = torn \cup {p}
     \/ /\ prefix # Nobody
        /\ Go(p, "failed")
        /\ UNCHANGED <<prefix, torn>>
  /\ UNCHANGED <<user, made, started, filled, unit, launcher, systemVars>>

\* Wheels, environment, pip and its check, the --help of both modules and the
\* check of the unit: all of it in PREFIX.
Fill(p) ==
  /\ At(p, "fill", "unit")
  /\ filled' = TRUE
  /\ UNCHANGED <<user, made, started, prefix, unit, launcher, torn, systemVars>>

WriteUnit(p) ==
  /\ step[p] = "unit"
  /\ unit[user[p]] = Nobody
  /\ unit' = [unit EXCEPT ![user[p]] = p]
  /\ \/ Go(p, "launcher") /\ Note(p, "unit") /\ UNCHANGED torn
     \/ Go(p, "rollback") /\ torn' = torn \cup {p} /\ UNCHANGED made
  /\ UNCHANGED <<user, started, prefix, filled, launcher, systemVars>>

\* Mutant: created_files.append(LAUNCHER) is forgotten.
WriteLauncher_Unnoted(p) ==
  /\ At(p, "launcher", "manifest")
  /\ launcher = Nobody
  /\ launcher' = p
  /\ UNCHANGED <<user, made, started, prefix, filled, unit, torn, systemVars>>

\* write_new creates the file before it writes it: when the write fails, or an
\* interrupt comes before created_files.append, nobody has noted it.
WriteLauncher(p) ==
  /\ step[p] = "launcher"
  /\ launcher = Nobody
  /\ launcher' = p
  /\ \/ Go(p, "manifest") /\ Note(p, "launcher") /\ UNCHANGED torn
     \/ Go(p, "rollback") /\ torn' = torn \cup {p} /\ UNCHANGED made
  /\ UNCHANGED <<user, started, prefix, filled, unit, systemVars>>

\* The manifest lies in PREFIX; daemon-reload tells systemd of the unit.
WriteManifest(p) ==
  /\ At(p, "manifest", "reload")
  /\ UNCHANGED <<user, made, started, siteVars, torn, systemVars>>

Reload(p) ==
  /\ At(p, "reload", "activate")
  /\ UNCHANGED <<user, made, started, siteVars, torn, systemVars>>

\* Any of these steps raises: an existing file, a failed command, a full disk
\* or an interrupt.
StepFails(p) ==
  /\ step[p] \in {"fill", "unit", "launcher", "manifest", "reload", "activate"}
  /\ Go(p, "rollback")
  /\ UNCHANGED <<user, made, started, siteVars, torn, systemVars>>

\* Mutant: activation_started is set when systemctl has returned.
Activate_Late(p) ==
  /\ At(p, "activate", "enable")
  /\ UNCHANGED <<user, made, started, siteVars, torn, systemVars>>

Activate(p) ==
  /\ At(p, "activate", "enable")
  /\ started' = [started EXCEPT ![p] = TRUE]
  /\ UNCHANGED <<user, made, siteVars, torn, systemVars>>

\* systemctl enable --now; when it fails it may have enabled or started the
\* unit all the same.
Enable(p) ==
  /\ step[p] = "enable"
  /\ \/ /\ Go(p, "installed")
        /\ enabled' = enabled \cup {user[p]}
        /\ running' = running \cup {user[p]}
     \/ /\ Go(p, IF started[p] THEN "failed" ELSE "rollback")
        /\ enabled' \in {enabled, enabled \cup {user[p]}}
        /\ running' \in {running, running \cup {user[p]}}
  /\ UNCHANGED <<user, made, started, siteVars, torn>>

\* The except clause: the noted files in reverse order, then the directory.
UnlinkLauncher(p) ==
  /\ step[p] = "rollback"
  /\ "launcher" \in made[p]
  /\ launcher' = Nobody
  /\ made' = [made EXCEPT ![p] = @ \ {"launcher"}]
  /\ UNCHANGED <<step, user, started, prefix, filled, unit, torn, systemVars>>

UnlinkUnit(p) ==
  /\ step[p] = "rollback"
  /\ made[p] = {"unit"}
  /\ unit' = [unit EXCEPT ![user[p]] = Nobody]
  /\ made' = [made EXCEPT ![p] = {}]
  /\ UNCHANGED <<step, user, started, prefix, filled, launcher, torn, systemVars>>

RemovePrefix(p) ==
  /\ At(p, "rollback", "failed")
  /\ made[p] = {}
  /\ prefix' = Nobody
  /\ filled' = FALSE
  /\ UNCHANGED <<user, made, started, unit, launcher, torn, systemVars>>

InstallerKilled(p) ==
  /\ step[p] \notin FinalSteps \cup {"unborn"}
  /\ Go(p, "killed")
  /\ UNCHANGED <<user, made, started, siteVars, torn, systemVars>>

InstallerStep(p) ==
  \/ CheckTargets(p) \/ MakePrefix(p) \/ Fill(p) \/ WriteUnit(p) \/ WriteLauncher(p)
  \/ WriteManifest(p) \/ Reload(p) \/ StepFails(p) \/ Activate(p) \/ Enable(p)
  \/ UnlinkLauncher(p) \/ UnlinkUnit(p) \/ RemovePrefix(p) \/ InstallerKilled(p)

\* A service ends, or is started again at boot.
ServiceEnds(u) ==
  /\ u \in running
  /\ running' = running \ {u}
  /\ UNCHANGED <<step, user, made, started, siteVars, torn, enabled>>

Boot(u) ==
  /\ u \in enabled \ running
  /\ running' = running \cup {u}
  /\ UNCHANGED <<step, user, made, started, siteVars, torn, enabled>>

InstallEnded == (\A p \in Installers : step[p] \in FinalSteps) /\ UNCHANGED installVars

InstallNext ==
  \/ \E p \in Installers, u \in Users : StartInstaller(p, u)
  \/ \E p \in Installers : InstallerStep(p)
  \/ \E u \in Users : ServiceEnds(u) \/ Boot(u)
  \/ InstallEnded

InstallSpec == InstallInit /\ [][InstallNext]_installVars

-----------------------------------------------------------------------------
InstallTypeOK ==
  /\ step \in [Installers -> Steps]
  /\ user \in [Installers -> Users \cup {Nobody}]
  /\ made \in [Installers -> SUBSET {"unit", "launcher"}]
  /\ started \in [Installers -> BOOLEAN]
  /\ prefix \in Installers \cup {Nobody}
  /\ filled \in BOOLEAN
  /\ unit \in [Users -> Installers \cup {Nobody}]
  /\ launcher \in Installers \cup {Nobody}
  /\ torn \subseteq Installers
  /\ enabled \subseteq Users
  /\ running \subseteq Users

Leaves(p) ==
  prefix = p \/ launcher = p \/ \E u \in Users : unit[u] = p

\* A unit that runs, or that boot will start, has its own installation whole
\* around it: no rollback, its own or another installer's, takes it away.
ServedIsComplete ==
  \A u \in enabled \cup running :
    /\ unit[u] # Nobody
    /\ prefix = unit[u] /\ launcher = unit[u] /\ filled

\* An installer removes only what it has made itself.
RemovesOnlyItsOwn ==
  [][\A p \in Installers :
       (UnlinkLauncher(p) \/ UnlinkUnit(p) \/ RemovePrefix(p)) =>
         /\ prefix' # prefix => prefix = p
         /\ launcher' # launcher => launcher = p
         /\ \A u \in Users : unit'[u] # unit[u] => unit[u] = p]_installVars

\* An installer that fails before the activation leaves nothing behind, but
\* for what it had created and not yet noted when the failure came.
NotedIsCleaned ==
  \A p \in Installers :
    (step[p] = "failed" /\ ~started[p] /\ p \notin torn) => ~Leaves(p)

\* docs/service.md: an error before the activation cleans up the files that
\* this installation has created.  The command and the unit are never left.
FailureIsCleaned ==
  \A p \in Installers : (step[p] = "failed" /\ ~started[p]) =>
    launcher # p /\ \A u \in Users : unit[u] # p
=============================================================================
