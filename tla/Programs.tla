------------------------------ MODULE Programs ------------------------------
(***************************************************************************)
(* The programs that stand beside the sends: the installer, the capture of *)
(* keys, the reading of one database and the paging through messages.      *)
(* They share no state with each other, so that a step of one commutes     *)
(* with every step of another: one of them runs, and the others stay in    *)
(* one of their initial states.                                            *)
(***************************************************************************)
EXTENDS Install, Snapshot, KeyScan, Messages

VARIABLE program   \* the one that runs

programVars == <<program, installVars, snapshotVars, keyVars, pageVars>>

Init ==
  /\ program \in {"install.py", "native_db.py", "native_keys.py", "native_messages.py"}
  /\ InstallInit /\ SnapshotInit /\ ScanInit /\ PageInit
  /\ program # "native_db.py" => Len(committed) = 1
  /\ program # "native_keys.py" => file = {}
  /\ program # "native_messages.py" => stored = {} /\ since = None

Next ==
  /\ UNCHANGED program
  /\ \/ /\ program = "install.py" /\ InstallNext
        /\ UNCHANGED <<snapshotVars, keyVars, pageVars>>
     \/ /\ program = "native_db.py" /\ SnapshotNext
        /\ UNCHANGED <<installVars, keyVars, pageVars>>
     \/ /\ program = "native_keys.py" /\ ScanNext
        /\ UNCHANGED <<installVars, snapshotVars, pageVars>>
     \/ /\ program = "native_messages.py" /\ PagesNext
        /\ UNCHANGED <<installVars, snapshotVars, keyVars>>

Spec == Init /\ [][Next]_programVars
=============================================================================
