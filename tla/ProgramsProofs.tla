--------------------------- MODULE ProgramsProofs ---------------------------
(***************************************************************************)
(* Proofs about the programs beside the sends: Install for any number of   *)
(* installers and users, KeyScan for every memory layout, Messages for any *)
(* number of shards, messages, changes and pages, and, with SnapshotProofs *)
(* for the reading of one database, about Programs, which composes them.   *)
(***************************************************************************)
EXTENDS Programs, SnapshotProofs, FiniteSetTheorems, TLAPS

-----------------------------------------------------------------------------
(* install.py.                                                             *)
NothingMade == {"unborn", "check", "mkdir", "refused"}
PrefixFilled == {"unit", "launcher", "manifest", "reload", "activate", "enable"}
UnitWritten == {"launcher", "manifest", "reload", "activate", "enable"}
AllWritten == {"manifest", "reload", "activate", "enable"}

\* How far an installer has come tells what it has made and noted.
ProgressOf(p) ==
  /\ step[p] # "unborn" => user[p] \in Users
  /\ step[p] \in NothingMade => made[p] = {} /\ prefix # p
  /\ step[p] \in PrefixFilled \cup {"fill", "rollback"} => prefix = p
  /\ step[p] \in PrefixFilled => filled
  /\ step[p] \in UnitWritten => "unit" \in made[p]
  /\ step[p] \in AllWritten => "launcher" \in made[p]
  /\ step[p] = "enable" => started[p]

\* What an installer has noted is its own.
NotedOf(p) ==
  /\ "unit" \in made[p] => unit[user[p]] = p
  /\ "launcher" \in made[p] => launcher = p

\* What an installer has made is noted, or torn.
TraceOf(p) ==
  /\ launcher = p => "launcher" \in made[p] \/ p \in torn
  /\ \A u \in Users : unit[u] = p => (u = user[p] /\ "unit" \in made[p]) \/ p \in torn
  /\ step[p] = "failed" /\ ~started[p] => made[p] = {} /\ (prefix # p \/ p \in torn)

\* Once the activation may have begun, nothing is taken back.
StartedOf(p) ==
  started[p] => /\ step[p] \in {"enable", "installed", "failed", "killed"}
                /\ made[p] = {"unit", "launcher"}
                /\ prefix = p /\ filled

Served == \A u \in enabled \cup running : \E p \in Installers : user[p] = u /\ started[p]

SiteInv ==
  /\ \A p \in Installers : ProgressOf(p)
  /\ \A p \in Installers : NotedOf(p)
  /\ \A p \in Installers : TraceOf(p)
  /\ \A p \in Installers : StartedOf(p)
  /\ Served

InstallInv == InstallTypeOK /\ SiteInv

-----------------------------------------------------------------------------
LEMMA InstallInitInv == InstallInit => InstallInv
<1> SUFFICES ASSUME InstallInit PROVE InstallInv
  OBVIOUS
<1>1. InstallTypeOK
  BY DEF InstallInit, InstallTypeOK, Steps
<1>2. SiteInv
  BY NobodyAssumption
     DEF InstallInit, SiteInv, ProgressOf, NotedOf, TraceOf, StartedOf, Served, NothingMade, PrefixFilled,
         UnitWritten, AllWritten
<1> QED
  BY <1>1, <1>2 DEF InstallInv

LEMMA InstallTypes == InstallInv /\ [InstallNext]_installVars => InstallTypeOK'
<1> SUFFICES ASSUME InstallInv, [InstallNext]_installVars PROVE InstallTypeOK'
  OBVIOUS
<1> USE DEF InstallInv, InstallTypeOK, Steps, At, Go, Note, siteVars, systemVars
<1>1. ASSUME NEW p \in Installers, NEW u \in Users, StartInstaller(p, u) PROVE InstallTypeOK'
  BY <1>1 DEF StartInstaller
<1>2. ASSUME NEW p \in Installers, CheckTargets(p) PROVE InstallTypeOK'
  BY <1>2 DEF CheckTargets
<1>3. ASSUME NEW p \in Installers, MakePrefix(p) PROVE InstallTypeOK'
  BY <1>3 DEF MakePrefix
<1>4. ASSUME NEW p \in Installers, Fill(p) PROVE InstallTypeOK'
  BY <1>4 DEF Fill
<1>5. ASSUME NEW p \in Installers, WriteUnit(p) PROVE InstallTypeOK'
  <2>1. unit' \in [Users -> Installers \cup {Nobody}]
    BY <1>5 DEF WriteUnit
  <2>2. step' \in [Installers -> Steps] /\ torn' \subseteq Installers
    BY <1>5 DEF WriteUnit
  <2>3. made' \in [Installers -> SUBSET {"unit", "launcher"}]
    BY <1>5 DEF WriteUnit
  <2> QED
    BY <1>5, <2>1, <2>2, <2>3 DEF WriteUnit
<1>6. ASSUME NEW p \in Installers, WriteLauncher(p) PROVE InstallTypeOK'
  BY <1>6 DEF WriteLauncher
<1>7. ASSUME NEW p \in Installers, WriteManifest(p) \/ Reload(p) \/ StepFails(p) PROVE InstallTypeOK'
  BY <1>7 DEF WriteManifest, Reload, StepFails
<1>8. ASSUME NEW p \in Installers, Activate(p) PROVE InstallTypeOK'
  BY <1>8 DEF Activate
<1>9. ASSUME NEW p \in Installers, Enable(p) PROVE InstallTypeOK'
  <2>1. user[p] \in Users
    BY <1>9 DEF Enable, SiteInv, ProgressOf
  <2> QED
    BY <1>9, <2>1 DEF Enable
<1>10. ASSUME NEW p \in Installers, UnlinkLauncher(p) PROVE InstallTypeOK'
  BY <1>10 DEF UnlinkLauncher
<1>11. ASSUME NEW p \in Installers, UnlinkUnit(p) PROVE InstallTypeOK'
  BY <1>11 DEF UnlinkUnit
<1>12. ASSUME NEW p \in Installers, RemovePrefix(p) PROVE InstallTypeOK'
  BY <1>12 DEF RemovePrefix
<1>13. ASSUME NEW p \in Installers, InstallerKilled(p) PROVE InstallTypeOK'
  BY <1>13 DEF InstallerKilled
<1>14. ASSUME NEW u \in Users, ServiceEnds(u) \/ Boot(u) PROVE InstallTypeOK'
  BY <1>14 DEF ServiceEnds, Boot
<1>15. CASE InstallEnded \/ UNCHANGED installVars
  BY <1>15 DEF InstallEnded, installVars
<1> QED
  BY <1>1, <1>2, <1>3, <1>4, <1>5, <1>6, <1>7, <1>8, <1>9, <1>10, <1>11, <1>12, <1>13, <1>14,
     <1>15 DEF InstallNext, InstallerStep

-----------------------------------------------------------------------------
LEMMA InstallStep == InstallInv /\ [InstallNext]_installVars => SiteInv'
<1> SUFFICES ASSUME InstallInv, [InstallNext]_installVars PROVE SiteInv'
  OBVIOUS
<1> USE NobodyAssumption
    DEF InstallInv, InstallTypeOK, SiteInv, ProgressOf, NotedOf, TraceOf, StartedOf, Served, NothingMade,
        PrefixFilled, UnitWritten, AllWritten, FinalSteps, At, Go, Note, siteVars, systemVars
<1>1. ASSUME NEW p \in Installers, NEW u \in Users, StartInstaller(p, u) PROVE SiteInv'
  BY <1>1 DEF StartInstaller
<1>2. ASSUME NEW p \in Installers, CheckTargets(p) PROVE SiteInv'
  BY <1>2 DEF CheckTargets
<1>3. ASSUME NEW p \in Installers, MakePrefix(p) PROVE SiteInv'
  BY <1>3 DEF MakePrefix
<1>4. ASSUME NEW p \in Installers, Fill(p) PROVE SiteInv'
  BY <1>4 DEF Fill
<1>5. ASSUME NEW p \in Installers, WriteUnit(p) PROVE SiteInv'
  BY <1>5 DEF WriteUnit
<1>6. ASSUME NEW p \in Installers, WriteLauncher(p) PROVE SiteInv'
  BY <1>6 DEF WriteLauncher
<1>7. ASSUME NEW p \in Installers, WriteManifest(p) \/ Reload(p) PROVE SiteInv'
  BY <1>7 DEF WriteManifest, Reload
<1>8. ASSUME NEW p \in Installers, StepFails(p) PROVE SiteInv'
  BY <1>8 DEF StepFails
<1>9. ASSUME NEW p \in Installers, Activate(p) PROVE SiteInv'
  BY <1>9 DEF Activate
<1>10. ASSUME NEW p \in Installers, Enable(p) PROVE SiteInv'
  BY <1>10 DEF Enable
<1>11. ASSUME NEW p \in Installers, UnlinkLauncher(p) PROVE SiteInv'
  BY <1>11 DEF UnlinkLauncher
<1>12. ASSUME NEW p \in Installers, UnlinkUnit(p) PROVE SiteInv'
  BY <1>12 DEF UnlinkUnit
<1>13. ASSUME NEW p \in Installers, RemovePrefix(p) PROVE SiteInv'
  BY <1>13 DEF RemovePrefix
<1>14. ASSUME NEW p \in Installers, InstallerKilled(p) PROVE SiteInv'
  BY <1>14 DEF InstallerKilled
<1>15. ASSUME NEW u \in Users, ServiceEnds(u) \/ Boot(u) PROVE SiteInv'
  BY <1>15 DEF ServiceEnds, Boot
<1>16. CASE InstallEnded \/ UNCHANGED installVars
  BY <1>16 DEF InstallEnded, installVars
<1> QED
  BY <1>1, <1>2, <1>3, <1>4, <1>5, <1>6, <1>7, <1>8, <1>9, <1>10, <1>11, <1>12, <1>13, <1>14,
     <1>15, <1>16 DEF InstallNext, InstallerStep

-----------------------------------------------------------------------------
(* The invariant of the installation, for any number of installers that    *)
(* run beside each other (apply, _install).                                *)
THEOREM InstallInvariant == InstallSpec => []InstallInv
<1>1. InstallInv /\ [InstallNext]_installVars => InstallInv'
  BY InstallTypes, InstallStep DEF InstallInv
<1> QED
  BY InstallInitInv, <1>1, PTL DEF InstallSpec

(* A unit that runs, or that boot will start, keeps its installation       *)
(* around it (_install, the except clause).                                *)
THEOREM ServedStaysComplete == InstallSpec => []ServedIsComplete
<1>1. InstallInv => ServedIsComplete
  <2> SUFFICES ASSUME InstallInv, NEW u \in enabled \cup running
               PROVE  /\ unit[u] # Nobody
                      /\ prefix = unit[u] /\ launcher = unit[u] /\ filled
    BY DEF ServedIsComplete
  <2>1. PICK p \in Installers : user[p] = u /\ started[p]
    BY DEF InstallInv, SiteInv, Served
  <2>2. made[p] = {"unit", "launcher"} /\ prefix = p /\ filled
    BY <2>1 DEF InstallInv, SiteInv, StartedOf
  <2>3. unit[u] = p /\ launcher = p
    BY <2>1, <2>2 DEF InstallInv, SiteInv, NotedOf
  <2> QED
    BY <2>2, <2>3, NobodyAssumption
<1> QED
  BY <1>1, InstallInvariant, PTL

(* An installer that fails before the activation leaves nothing behind but *)
(* what it had created and not noted (_install, created_files).            *)
THEOREM FailureLeavesNothingNoted == InstallSpec => []NotedIsCleaned
<1>1. InstallInv => NotedIsCleaned
  BY DEF InstallInv, SiteInv, TraceOf, NotedIsCleaned, Leaves
<1> QED
  BY <1>1, InstallInvariant, PTL

\* The step of RemovesOnlyItsOwn.
OwnStep ==
  \A p \in Installers :
    (UnlinkLauncher(p) \/ UnlinkUnit(p) \/ RemovePrefix(p)) =>
      /\ prefix' # prefix => prefix = p
      /\ launcher' # launcher => launcher = p
      /\ \A u \in Users : unit'[u] # unit[u] => unit[u] = p

(* No rollback removes what another installer has made (_install, the      *)
(* except clause).                                                         *)
THEOREM RollbackIsItsOwn == InstallSpec => RemovesOnlyItsOwn
<1>1. InstallInv => OwnStep
  BY DEF InstallInv, InstallTypeOK, SiteInv, ProgressOf, NotedOf, OwnStep, UnlinkLauncher,
         UnlinkUnit, RemovePrefix, At, Go
<1>2. InstallInv /\ [InstallNext]_installVars => [OwnStep]_installVars
  BY <1>1
<1> QED
  BY <1>2, InstallInvariant, PTL DEF InstallSpec, RemovesOnlyItsOwn, OwnStep

-----------------------------------------------------------------------------
(* native_keys.py.                                                         *)
\* What is kept of the chunk before reaches back far enough whenever another
\* chunk of the region will be read.
TailReachesBack ==
  /\ region <= Regions => offset <= Size[region]
  /\ tail <= offset
  /\ region <= Regions /\ offset < Size[region] /\ total < MaxBytes
       => offset = 0 \/ tail = Overlap

ScanInv == ScanTypeOK /\ WithinBudget /\ TailReachesBack /\ ReadIsFound

LEMMA LeastFact ==
  ASSUME NEW a \in Int, NEW b \in Int
  PROVE  Least(a, b) \in {a, b} /\ Least(a, b) <= a /\ Least(a, b) <= b
  BY DEF Least

(* A chunk that follows what has been read extends what is found by every  *)
(* copy that ends in it: none begins before the bytes that were kept.      *)
LEMMA ChunkIsSearched ==
  ASSUME ScanInv, Scanning, offset < Size[region], total < MaxBytes,
         NEW n \in Nat \ {0}, NEW c \in Copies,
         c.region = region, c.start + c.length <= offset + n
  PROVE  c \in found \cup Seen(n)
<1>1. /\ c.start \in Nat /\ c.length \in 1..Longest
      /\ Longest \in Nat /\ Overlap \in Nat /\ Longest <= Overlap + 1
  BY ScanAssumption DEF ScanAssumption
<1>2. offset \in Nat /\ tail \in Nat
  BY DEF ScanInv, ScanTypeOK
<1>3. CASE c.start + c.length <= offset
  BY <1>3 DEF ScanInv, ReadIsFound
<1>4. CASE c.start + c.length > offset
  <2>1. tail <= offset /\ (offset = 0 \/ tail = Overlap)
    BY DEF ScanInv, TailReachesBack, Scanning
  <2>2. offset - tail <= c.start
    BY <1>1, <1>2, <1>4, <2>1
  <2> QED BY <2>2 DEF Seen
<1> QED BY <1>1, <1>2, <1>3, <1>4

LEMMA ReadKeepsInv == ScanInv /\ ReadChunk => ScanInv'
<1> SUFFICES ASSUME ScanInv, ReadChunk PROVE ScanInv'
  OBVIOUS
<1> USE ScanAssumption DEF ScanAssumption
<1>1. region \in 1..Regions /\ Size[region] \in Nat
  BY DEF ScanInv, ScanTypeOK, ReadChunk, Scanning
<1>2. PICK n \in 1..Amount :
        /\ n = Amount \/ n >= Page
        /\ found' = found \cup Seen(n)
        /\ offset' = offset + n
        /\ total' = total + n
        /\ tail' = Least(n, Overlap)
        /\ whole' = IF offset + n = Size[region] THEN whole \cup {region} ELSE whole
  BY DEF ReadChunk
<1>3. offset \in Nat /\ total \in Nat /\ tail \in Nat
  BY DEF ScanInv, ScanTypeOK
<1>0. /\ Longest \in Nat /\ Overlap \in Nat /\ Page \in Nat /\ Chunk \in Nat /\ MaxBytes \in Nat
      /\ Overlap <= Page /\ Page <= Chunk
  OBVIOUS
<1>4. /\ Amount \in Int /\ Amount <= Chunk
      /\ Amount <= Size[region] - offset /\ Amount <= MaxBytes - total
      /\ Amount \in {Chunk, Size[region] - offset, MaxBytes - total}
  <2> DEFINE rest == Size[region] - offset
  <2>1. rest \in Int /\ MaxBytes - total \in Int /\ Chunk \in Int
    BY <1>0, <1>1, <1>3
  <2>2. /\ Least(Chunk, rest) \in {Chunk, rest}
        /\ Least(Chunk, rest) <= Chunk /\ Least(Chunk, rest) <= rest
    BY <2>1, LeastFact
  <2>3. Amount = Least(Least(Chunk, rest), MaxBytes - total)
    BY DEF Amount
  <2> HIDE DEF rest
  <2>4. Least(Chunk, rest) \in Int
    BY <2>1, <2>2
  <2>5. /\ Amount \in {Least(Chunk, rest), MaxBytes - total}
        /\ Amount <= Least(Chunk, rest) /\ Amount <= MaxBytes - total
    BY <2>1, <2>3, <2>4, LeastFact
  <2>6. /\ Amount \in Int /\ Amount <= Chunk /\ Amount <= rest /\ Amount <= MaxBytes - total
        /\ Amount \in {Chunk, rest, MaxBytes - total}
    BY <2>1, <2>2, <2>4, <2>5
  <2> QED BY <2>6 DEF rest
<1>5. n \in Nat \ {0} /\ n <= Amount
  BY <1>2, <1>4
<1>6. region' = region /\ file' = file /\ temp' = temp /\ scanner' \in {"scan", "save"}
  BY DEF ReadChunk, Scanning
<1>7. ScanTypeOK'
  <2>1. Seen(n) \subseteq Copies
    BY DEF Seen
  <2>2. tail' \in Nat
    BY <1>0, <1>2, <1>5 DEF Least
  <2>3. offset' \in Nat /\ total' \in Nat
    BY <1>2, <1>3, <1>5
  <2> QED BY <1>1, <1>2, <1>6, <2>1, <2>2, <2>3 DEF ScanInv, ScanTypeOK
<1>8. WithinBudget'
  BY <1>2, <1>3, <1>4, <1>5 DEF WithinBudget
<1>9. TailReachesBack'
  <2>1. offset' <= Size[region]
    BY <1>1, <1>2, <1>3, <1>4, <1>5
  <2>2. tail' <= offset'
    BY <1>0, <1>2, <1>3, <1>5 DEF Least
  <2>3. ASSUME offset' < Size[region], total' < MaxBytes PROVE tail' = Overlap
    <3>1. n >= Page
      BY <1>1, <1>2, <1>3, <1>4, <1>5, <2>3
    <3> QED BY <1>2, <1>5, <3>1 DEF Least
  <2> QED BY <1>6, <2>1, <2>2, <2>3 DEF TailReachesBack
<1>10. ReadIsFound'
  <2> SUFFICES ASSUME NEW c \in Copies,
                      \/ c.region = region' /\ c.start + c.length <= offset'
                      \/ c.region \in whole' /\ c.start + c.length <= Size[c.region]
               PROVE  c \in found'
    BY DEF ReadIsFound
  <2>1. CASE c.region = region /\ c.start + c.length <= offset + n
    BY <1>2, <1>5, <2>1, ChunkIsSearched DEF ReadChunk
  <2>2. CASE c.region \in whole /\ c.start + c.length <= Size[c.region]
    BY <1>2, <2>2 DEF ScanInv, ReadIsFound
  <2> QED BY <1>2, <1>6, <2>1, <2>2
<1> QED BY <1>7, <1>8, <1>9, <1>10 DEF ScanInv

LEMMA InitHolds == ScanInit => ScanInv
<1> SUFFICES ASSUME ScanInit PROVE ScanInv
  OBVIOUS
<1>1. ScanTypeOK /\ WithinBudget
  BY ScanAssumption DEF ScanAssumption, ScanInit, ScanTypeOK, WithinBudget
<1>2. TailReachesBack
  BY ScanAssumption DEF ScanAssumption, ScanInit, TailReachesBack
<1>3. ReadIsFound
  BY ScanAssumption DEF ScanAssumption, ScanInit, ReadIsFound
<1> QED BY <1>1, <1>2, <1>3 DEF ScanInv

LEMMA StepKeepsInv == ScanInv /\ [ScanNext]_keyVars => ScanInv'
<1> SUFFICES ASSUME ScanInv, [ScanNext]_keyVars PROVE ScanInv'
  OBVIOUS
<1> USE ScanAssumption DEF ScanAssumption
<1>1. CASE ReadChunk
  BY <1>1, ReadKeepsInv
<1>2. CASE NextRegion
  <2>1. region \in 1..Regions /\ region' = region + 1 /\ offset' = 0 /\ tail' = 0
        /\ UNCHANGED <<scanner, total, found, whole, file, temp>>
    BY <1>2 DEF NextRegion, Scanning, ScanInv, ScanTypeOK
  <2>2. ScanTypeOK' /\ WithinBudget'
    BY <2>1 DEF ScanInv, ScanTypeOK, WithinBudget
  <2>3. TailReachesBack'
    BY <2>1 DEF TailReachesBack
  <2>4. ReadIsFound'
    BY <2>1 DEF ScanInv, ReadIsFound
  <2> QED BY <2>2, <2>3, <2>4 DEF ScanInv
<1>3. CASE UNCHANGED scanVars /\ scanner' \in {"save", "replace", "done", "killed", scanner}
           /\ file' \in {file, temp} /\ temp' \in {temp, {}, Keys(found)}
  <2>1. Keys(found) \subseteq Salts
    BY DEF Keys, ScanInv, ScanTypeOK
  <2>2. ScanTypeOK'
    BY <1>3, <2>1 DEF ScanInv, ScanTypeOK, scanVars
  <2> QED BY <1>3, <2>2 DEF ScanInv, WithinBudget, TailReachesBack, ReadIsFound, scanVars
<1>4. CASE StopScan \/ Save \/ Replace \/ ScanKilled \/ ScanEnded \/ UNCHANGED keyVars
  BY <1>3, <1>4 DEF StopScan, Save, Replace, ScanKilled, ScanEnded, keyVars, scanVars
<1> QED BY <1>1, <1>2, <1>4 DEF ScanNext

(* For every layout of the client's memory and every place where keys lie, *)
(* whatever lengths the reads return: a key in what has been read is found *)
(* (scan of native_keys.py).                                               *)
THEOREM NoKeyIsMissed == ScanSpec => []ReadIsFound
<1>1. ScanInv => ReadIsFound
  BY DEF ScanInv
<1> QED BY <1>1, InitHolds, StepKeepsInv, PTL DEF ScanSpec

(* The types of the scan's variables, and its budget, for every constant.  *)
THEOREM ScanIsBounded == ScanSpec => [](ScanTypeOK /\ WithinBudget)
<1>1. ScanInv => ScanTypeOK /\ WithinBudget
  BY DEF ScanInv
<1> QED BY <1>1, InitHolds, StepKeepsInv, PTL DEF ScanSpec

\* What will replace the key file is what was found, and not nothing.
TempIsFound == scanner = "replace" => temp = Keys(found) /\ temp # {}

(* Whenever the key file changes, it becomes all that this capture found,  *)
(* and never an empty file (main and private_save of native_keys.py).      *)
THEOREM FileReplacement == ScanSpec => FileIsReplacedWhole
<1>1. ScanInit => TempIsFound
  BY DEF ScanInit, TempIsFound
<1>2. ASSUME TempIsFound, [ScanNext]_keyVars PROVE TempIsFound'
  <2>1. CASE Save
    BY <2>1 DEF Save, Nothing, TempIsFound, scanVars
  <2>2. CASE ReadChunk
    BY <2>2 DEF ReadChunk, Scanning, TempIsFound
  <2>3. CASE NextRegion \/ StopScan \/ Replace \/ ScanKilled \/ ScanEnded \/ UNCHANGED keyVars
    BY <1>2, <2>3 DEF NextRegion, Scanning, StopScan, Replace, ScanKilled, ScanEnded, keyVars, scanVars,
                      TempIsFound
  <2> QED BY <1>2, <2>1, <2>2, <2>3 DEF ScanNext
<1>3. ASSUME TempIsFound, [ScanNext]_keyVars
      PROVE  [file' # file => file' # {} /\ file' = Keys(found)]_keyVars
  <2>1. CASE Replace
    BY <1>3, <2>1 DEF Replace, TempIsFound
  <2>2. CASE ReadChunk \/ NextRegion \/ StopScan \/ Save \/ ScanKilled \/ ScanEnded \/ UNCHANGED keyVars
    BY <2>2 DEF ReadChunk, NextRegion, StopScan, Save, ScanKilled, ScanEnded, keyVars
  <2> QED BY <1>3, <2>1, <2>2 DEF ScanNext
<1> QED BY <1>1, <1>2, <1>3, PTL DEF ScanSpec, FileIsReplacedWhole

-----------------------------------------------------------------------------
(* native_messages.py, page after page.                                    *)
\* What has been fetched for this page is older than before; the pages so far
\* are not.
PagesInv ==
  /\ {items, page, earlier, stored} \subseteq SUBSET Rows
  /\ before \in Nat \cup {None}
  /\ page \subseteq items
  /\ before = None => earlier = {}
  /\ before # None => /\ \A r \in items : r.time < before
                      /\ \A r \in earlier : r.time >= before

LEMMA RowTimes == \A r \in Rows : r.time \in Nat
  BY MessagesAssumption

(* What LIMIT leaves is part of the rows it was given.                     *)
LEMMA NewestArePart ==
  ASSUME NEW rows, NEW n, NEW top \in Newest(rows, n) PROVE top \subseteq rows
  BY DEF Newest

LEMMA PagesInit == PageInit => PagesInv
  BY DEF PageInit, PagesInv

LEMMA PagesStep == PagesInv /\ [PagesNext]_pageVars => PagesInv'
<1> SUFFICES ASSUME PagesInv, [PagesNext]_pageVars PROVE PagesInv'
  OBVIOUS
<1> USE MessagesAssumption
<1>1. CASE Begin
  BY <1>1 DEF Begin, PagesInv
<1>2. CASE Open
  <2>1. PICK top \in Newest({r \in {s \in stored : s.shard = next} : Matches(r)}, Limit) :
          items' = items \cup top
    BY <1>2 DEF Open
  <2>2. top \subseteq {r \in stored : Matches(r)}
    BY <2>1, NewestArePart
  <2>3. \A r \in top : r \in Rows /\ (before # None => r.time < before)
    BY <2>2 DEF Matches, PagesInv
  <2>4. UNCHANGED <<stored, before, page, earlier>>
    BY <1>2 DEF Open
  <2> QED
    BY <2>1, <2>3, <2>4 DEF PagesInv
<1>3. CASE OpenFails
  BY <1>3 DEF OpenFails, PagesInv
<1>4. CASE Merge
  <2>1. page' \subseteq items
    BY <1>4, NewestArePart DEF Merge, PagesInv
  <2> QED
    BY <1>4, <2>1 DEF Merge, PagesInv
<1>5. CASE NextPage
  <2>1. PICK r \in page : before' = r.time /\ \A s \in page : ~Newer(r, s)
    BY <1>5 DEF NextPage
  <2>2. r \in Rows /\ r \in items /\ r.time \in Nat
    BY <2>1, RowTimes DEF PagesInv
  <2>3. \A s \in page : s \in Rows /\ s.time \in Nat /\ s.time >= r.time
    BY <2>1, <2>2, RowTimes DEF PagesInv, Newer
  <2>4. \A s \in earlier : s \in Rows /\ s.time \in Nat /\ s.time >= r.time
    BY <2>2, RowTimes DEF PagesInv
  <2>5. /\ earlier' = earlier \cup page
        /\ page' = {} /\ items' = {} /\ stored' = stored
    BY <1>5 DEF NextPage
  <2> QED
    BY <2>1, <2>2, <2>3, <2>4, <2>5 DEF PagesInv
<1>6. CASE Change
  BY <1>6 DEF Change, PagesInv, callVars
<1>7. CASE PagesEnded
  BY <1>7 DEF PagesEnded, PagesInv, pageVars, callVars
<1>8. CASE UNCHANGED pageVars
  BY <1>8 DEF PagesInv, pageVars, callVars
<1> QED
  BY <1>1, <1>2, <1>3, <1>4, <1>5, <1>6, <1>7, <1>8 DEF PagesNext

(* No message is on two pages, however many shards, pages and changes      *)
(* there are in between: --before is exclusive, and the last message of a  *)
(* page is one of its oldest (messages()).                                 *)
THEOREM NoMessageTwice == PagesSpec => []PagesAreDisjoint
<1>1. PagesInv => PagesAreDisjoint
  <2> SUFFICES ASSUME PagesInv, NEW r \in page \cap earlier PROVE FALSE
    BY DEF PagesAreDisjoint
  <2>1. r \in items /\ r \in Rows /\ r.time \in Nat /\ before # None
    BY RowTimes DEF PagesInv
  <2>2. r.time < before /\ r.time >= before /\ before \in Nat
    BY <2>1 DEF PagesInv
  <2> QED
    BY <2>1, <2>2
<1> QED
  BY <1>1, PagesInit, PagesStep, PTL DEF PagesSpec

-----------------------------------------------------------------------------
(* Nothing is skipped.                                                     *)

\* Message r is not wanted for this page: a whole page of those fetched comes
\* before it.
Beyond(r) ==
  \E top \in SUBSET items : Cardinality(top) = Limit /\ \A s \in top : ~Newer(r, s)

Wanted(r) == since = None \/ r.time >= since

\* What the pages before have shown, what the shards so far have given, and
\* what the page that is shown has left, of the messages that were there all
\* the time.
LastingInv ==
  /\ lasting \subseteq stored
  /\ earlier = {} => before = None
  /\ stage = "idle" => next = 1
  /\ before # None =>
       \A r \in lasting : Wanted(r) /\ r.time >= before => r \in earlier \/ r.time \in edges
  /\ stage = "open" =>
       \A r \in lasting : r.shard < next /\ Matches(r) => r \in items \/ Beyond(r)
  /\ stage = "done" =>
       \A r \in lasting : Matches(r) =>
         r \in page \/ (Cardinality(page) = Limit /\ \A s \in page : ~Newer(r, s))

\* ORDER BY is a weak order.
LEMMA NotNewerIsTransitive ==
  ASSUME NEW r \in Rows, NEW s \in Rows, NEW t \in Rows, ~Newer(r, s), ~Newer(s, t)
  PROVE  ~Newer(r, t)
<1>1. /\ r.time \in Nat /\ s.time \in Nat /\ t.time \in Nat
      /\ r.seq \in Nat /\ s.seq \in Nat /\ t.seq \in Nat
  BY MessagesAssumption
<1> QED
  BY <1>1 DEF Newer

\* What LIMIT leaves out is beyond a full page of what it leaves.
LEMMA LeftOutIsBeyond ==
  ASSUME NEW rows \in SUBSET Rows, NEW top \in Newest(rows, Limit), NEW r \in rows, r \notin top
  PROVE  Cardinality(top) = Limit /\ \A s \in top : ~Newer(r, s)
<1>1. IsFiniteSet(rows) /\ IsFiniteSet(top) /\ top \subseteq rows
  BY MessagesAssumption, NewestArePart, FS_Subset
<1>2. Cardinality(rows) # Cardinality(top)
  BY <1>1, FS_Subset
<1> QED
  BY <1>2 DEF Newest

\* The merge of the shards' newest leaves out what is beyond one of them.
LEMMA MergeKeepsOrder ==
  ASSUME NEW rows \in SUBSET Rows, NEW cut \in Newest(rows, Limit), NEW r \in Rows,
         NEW top \in SUBSET rows, Cardinality(top) = Limit, \A s \in top : ~Newer(r, s)
  PROVE  Cardinality(cut) = Limit /\ \A s \in cut : ~Newer(r, s)
<1>1. IsFiniteSet(rows) /\ IsFiniteSet(top) /\ IsFiniteSet(cut) /\ cut \subseteq rows
  BY MessagesAssumption, NewestArePart, FS_Subset
<1>2. Cardinality(top) <= Cardinality(rows) /\ Cardinality(rows) \in Nat /\ Limit \in Nat
  BY <1>1, FS_Subset, FS_CardinalityType, MessagesAssumption
<1>3. Cardinality(cut) = Limit
  BY <1>2 DEF Newest
<1>4. ASSUME NEW s \in cut, Newer(r, s) PROVE FALSE
  <2>1. CASE top \subseteq cut
    <3>1. top = cut
      BY <1>1, <1>3, <2>1, FS_Subset
    <3> QED
      BY <1>4, <3>1
  <2>2. CASE ~(top \subseteq cut)
    <3>1. PICK t \in top : t \notin cut
      BY <2>2
    <3>2. ~Newer(t, s)
      BY <3>1 DEF Newest
    <3>3. t \in Rows /\ s \in Rows
      BY <1>1, <3>1
    <3> QED
      BY <1>4, <3>1, <3>2, <3>3, NotNewerIsTransitive
  <2> QED
    BY <2>1, <2>2
<1> QED
  BY <1>3, <1>4

LEMMA LastingInit == PageInit => LastingInv
<1> SUFFICES ASSUME PageInit PROVE LastingInv
  OBVIOUS
<1> QED
  BY DEF PageInit, LastingInv

LEMMA LastingStep ==
  PagesInv /\ PagesTypeOK /\ LastingInv /\ [PagesNext]_pageVars => LastingInv'
<1> SUFFICES ASSUME PagesInv, PagesTypeOK, LastingInv, [PagesNext]_pageVars PROVE LastingInv'
  OBVIOUS
<1> USE MessagesAssumption
<1>0. lasting \subseteq Rows /\ (\A r \in Rows : r.time \in Nat /\ r.shard \in 1..Shards)
      /\ next \in 1..Shards + 1
  BY DEF LastingInv, PagesInv, PagesTypeOK
<1>1. CASE Begin
  <2>1. UNCHANGED <<stored, since, before, next, items, page, earlier, edges>>
        /\ lasting' = (IF earlier = {} THEN stored ELSE lasting)
        /\ stage = "idle" /\ stage' \in {"open", "failed"}
    BY <1>1 DEF Begin
  <2>2. \A r \in lasting' : ~(r.shard < next)
    BY <1>0, <2>1 DEF LastingInv, PagesInv
  <2>3. before # None =>
          \A r \in lasting' : Wanted(r) /\ r.time >= before => r \in earlier \/ r.time \in edges
    BY <2>1 DEF LastingInv
  <2> QED
    BY <2>1, <2>2, <2>3 DEF LastingInv, Wanted
<1>2. CASE Open
  <2> DEFINE rows == {r \in {s \in stored : s.shard = next} : Matches(r)}
  <2>1. PICK top \in Newest(rows, Limit) : items' = items \cup top
    BY <1>2 DEF Open
  <2>2. /\ UNCHANGED <<stage, stored, lasting, since, before, page, earlier, edges>>
        /\ next' = next + 1 /\ stage = "open"
    BY <1>2 DEF Open
  <2>3. ASSUME NEW r \in lasting, r.shard < next + 1, Matches(r)
        PROVE  r \in items' \/ Beyond(r)'
    <3>1. CASE r.shard < next
      <4>1. r \in items \/ Beyond(r)
        BY <2>2, <2>3, <3>1 DEF LastingInv
      <4>2. Beyond(r) => Beyond(r)'
        BY <2>1 DEF Beyond
      <4> QED
        BY <2>1, <4>1, <4>2
    <3>2. CASE ~(r.shard < next)
      <4>1. r.shard = next
        BY <1>0, <2>3, <3>2
      <4>2. r \in rows /\ rows \in SUBSET Rows
        BY <2>3, <4>1 DEF LastingInv, PagesInv
      <4> HIDE DEF rows
      <4>3. r \in top \/ (Cardinality(top) = Limit /\ \A s \in top : ~Newer(r, s))
        BY <4>2, LeftOutIsBeyond
      <4> QED
        BY <2>1, <4>3 DEF Beyond
    <3> QED
      BY <3>1, <3>2
  <2> HIDE DEF rows
  <2> QED
    BY <2>2, <2>3 DEF LastingInv, Wanted, Matches
<1>3. CASE OpenFails
  BY <1>3 DEF OpenFails, LastingInv, Wanted
<1>4. CASE Merge
  <2>1. /\ UNCHANGED <<stored, lasting, since, before, next, items, earlier, edges>>
        /\ stage = "open" /\ next > Shards
        /\ \/ stage' = "done" /\ page' \in Newest(items, Limit)
           \/ stage' = "failed"
    BY <1>4 DEF Merge
  <2>2. ASSUME NEW r \in lasting, Matches(r), page' \in Newest(items, Limit)
        PROVE  r \in page' \/ (Cardinality(page') = Limit /\ \A s \in page' : ~Newer(r, s))
    <3>1. r.shard < next /\ r \in Rows
      BY <1>0, <2>1
    <3>2. r \in items \/ Beyond(r)
      BY <2>1, <2>2, <3>1 DEF LastingInv
    <3>3. items \in SUBSET Rows
      BY DEF PagesInv
    <3>4. CASE r \in items
      BY <2>2, <3>3, <3>4, LeftOutIsBeyond
    <3>5. CASE Beyond(r)
      <4>1. PICK top \in SUBSET items : Cardinality(top) = Limit /\ \A s \in top : ~Newer(r, s)
        BY <3>5 DEF Beyond
      <4> QED
        BY <2>2, <3>1, <3>3, <4>1, MergeKeepsOrder
    <3> QED
      BY <3>2, <3>4, <3>5
  <2> QED
    BY <2>1, <2>2 DEF LastingInv, Wanted, Matches
<1>5. CASE NextPage
  <2>1. PICK last \in page : before' = last.time /\ \A s \in page : ~Newer(last, s)
    BY <1>5 DEF NextPage
  <2>2. /\ UNCHANGED <<stored, lasting, since>> /\ stage = "done" /\ stage' = "idle" /\ next' = 1
        /\ edges' = edges \cup {before'} /\ earlier' = earlier \cup page
    BY <1>5 DEF NextPage
  <2>3. ASSUME NEW r \in lasting, Wanted(r), r.time >= before'
        PROVE  r \in earlier' \/ r.time \in edges'
    <3>1. r.time \in Nat /\ last.time \in Nat /\ last \in Rows
      BY <1>0 DEF PagesInv
    <3>2. CASE before # None /\ r.time >= before
      BY <2>2, <2>3, <3>2 DEF LastingInv
    <3>3. CASE r.time = last.time
      BY <2>1, <2>2, <3>3
    <3>4. CASE ~(before # None /\ r.time >= before) /\ r.time # last.time
      <4>1. Matches(r)
        BY <2>3, <3>1, <3>4 DEF Matches, Wanted, PagesInv
      <4>2. Newer(r, last)
        BY <2>1, <2>3, <3>1, <3>4 DEF Newer
      <4>3. r \in page
        BY <2>1, <2>2, <4>1, <4>2 DEF LastingInv
      <4> QED
        BY <2>2, <4>3
    <3> QED
      BY <3>2, <3>3, <3>4
  <2>4. earlier' # {}
    BY <2>1, <2>2
  <2> QED
    BY <2>2, <2>3, <2>4 DEF LastingInv, Wanted
<1>6. CASE Change
  <2>1. PICK r \in Rows : /\ stored' = IF r \in stored THEN stored \ {r} ELSE stored \cup {r}
                          /\ lasting' = lasting \ {r}
    BY <1>6 DEF Change
  <2>2. UNCHANGED <<stage, since, before, next, items, page, earlier, edges>>
    BY <1>6 DEF Change, callVars
  <2>3. lasting' \subseteq stored' /\ lasting' \subseteq lasting
    BY <2>1 DEF LastingInv
  <2> QED
    BY <2>2, <2>3 DEF LastingInv, Wanted, Matches, Beyond
<1>7. CASE PagesEnded \/ UNCHANGED pageVars
  BY <1>7 DEF PagesEnded, LastingInv, Wanted, Matches, Beyond, pageVars, callVars
<1> QED
  BY <1>1, <1>2, <1>3, <1>4, <1>5, <1>6, <1>7 DEF PagesNext

LEMMA PagesTypesStep ==
  PagesInv /\ PagesTypeOK /\ LastingInv /\ [PagesNext]_pageVars => PagesTypeOK'
<1> SUFFICES ASSUME PagesInv, PagesTypeOK, LastingInv, [PagesNext]_pageVars PROVE PagesTypeOK'
  OBVIOUS
<1> USE MessagesAssumption DEF PagesTypeOK
<1>1. CASE Begin
  BY <1>1 DEF Begin
<1>2. CASE Open
  <2>1. PICK top \in Newest({r \in {s \in stored : s.shard = next} : Matches(r)}, Limit) :
          items' = items \cup top
    BY <1>2 DEF Open
  <2>2. top \subseteq stored
    BY <2>1, NewestArePart
  <2>3. UNCHANGED <<stage, stored, lasting, since, before, page, earlier>> /\ next' = next + 1
        /\ next <= Shards /\ known' \in {TRUE, known \/ {r \in stored : r.shard = next} # {}}
    BY <1>2 DEF Open
  <2>4. known' \in BOOLEAN
    BY <2>3
  <2>5. next' \in 1..Shards + 1
    BY <2>3
  <2> QED
    BY <2>1, <2>2, <2>3, <2>4, <2>5
<1>3. CASE OpenFails
  BY <1>3 DEF OpenFails
<1>4. CASE Merge
  <2>1. /\ UNCHANGED <<stored, lasting, since, before, next, known, items, earlier>>
        /\ \/ stage' = "done" /\ page' \in Newest(items, Limit)
           \/ stage' = "failed" /\ page' = page
    BY <1>4 DEF Merge
  <2>2. ASSUME page' \in Newest(items, Limit)
        PROVE  page' \subseteq items /\ Cardinality(page') <= Limit
    <3>1. IsFiniteSet(items)
      BY FS_Subset DEF PagesInv
    <3>2. Cardinality(items) \in Nat
      BY <3>1, FS_CardinalityType
    <3> QED
      BY <2>2, <3>2 DEF Newest
  <2> QED
    BY <2>1, <2>2
<1>5. CASE NextPage
  <2>1. /\ UNCHANGED <<stored, lasting, since>> /\ stage' = "idle" /\ next' = 1 /\ known' = FALSE
        /\ page' = {} /\ items' = {} /\ earlier' = earlier \cup page
    BY <1>5 DEF NextPage
  <2>2. before' \in Times
    BY <1>5 DEF NextPage, Times
  <2>3. page' \subseteq items' /\ Cardinality(page') <= Limit
    BY <2>1, FS_EmptySet
  <2>4. next' \in 1..Shards + 1
    BY <2>1
  <2> QED
    BY <2>1, <2>2, <2>3, <2>4
<1>6. CASE Change
  BY <1>6 DEF Change, callVars
<1>7. CASE PagesEnded \/ UNCHANGED pageVars
  BY <1>7 DEF PagesEnded, pageVars, callVars
<1> QED
  BY <1>1, <1>2, <1>3, <1>4, <1>5, <1>6, <1>7 DEF PagesNext

(* What is known of the pages, types included, holds in every state that   *)
(* messages() reaches, whatever new messages come in between the pages.    *)
THEOREM PagesInvariant == PagesSpec => [](PagesInv /\ PagesTypeOK /\ LastingInv)
<1>1. PageInit => PagesTypeOK
  <2> SUFFICES ASSUME PageInit PROVE PagesTypeOK
    OBVIOUS
  <2>1. page \subseteq items /\ Cardinality(page) <= Limit /\ next \in 1..Shards + 1
    BY MessagesAssumption, FS_EmptySet DEF PageInit
  <2> QED
    BY <2>1 DEF PageInit, PagesTypeOK
<1> QED
  BY <1>1, PagesInit, PagesStep, PagesTypesStep, LastingInit, LastingStep, PTL DEF PagesSpec

(* A message that is there all the time is shown, or is older than a full  *)
(* last page, or has the very second in which a page ended, for any number *)
(* of shards, messages, pages and changes in between: the newest of every  *)
(* shard contain the newest of all (messages()).                           *)
THEOREM NothingSkipped == PagesSpec => []NothingIsSkipped
<1>1. PagesInv /\ PagesTypeOK /\ LastingInv => NothingIsSkipped
  <2> SUFFICES ASSUME PagesInv, PagesTypeOK, LastingInv, stage = "done", NEW r \in lasting,
                      ~(since # None /\ r.time < since),
                      ~(r \in page \cup earlier), ~(r.time \in edges)
               PROVE  Cardinality(page) = Limit /\ \A s \in page : ~Newer(r, s)
    BY DEF NothingIsSkipped
  <2>1. r \in Rows /\ r.time \in Nat
    BY RowTimes DEF PagesInv, LastingInv
  <2>2. Wanted(r)
    <3>1. since \in Nat \cup {None}
      BY RowTimes DEF PagesTypeOK, Times
    <3> QED
      BY <2>1, <3>1 DEF Wanted
  <2>3. Matches(r)
    BY <2>1, <2>2 DEF LastingInv, PagesInv, Matches, Wanted
  <2> QED
    BY <2>3 DEF LastingInv
<1> QED
  BY <1>1, PagesInvariant, PTL

-----------------------------------------------------------------------------
(* The composition.                                                        *)

(* Whichever of the programs runs, each of the four behaves as its own     *)
(* module says: a step of another one is a stutter of it.                  *)
THEOREM EveryProgramIsItsOwn ==
  Spec => InstallSpec /\ SnapshotSpec /\ ScanSpec /\ PagesSpec
<1>1. Init => InstallInit /\ SnapshotInit /\ ScanInit /\ PageInit
  BY DEF Init
<1>2. [Next]_programVars => [InstallNext]_installVars
  BY DEF Next, programVars
<1>3. [Next]_programVars => [SnapshotNext]_snapshotVars
  BY DEF Next, programVars
<1>4. [Next]_programVars => [ScanNext]_keyVars
  BY DEF Next, programVars
<1>5. [Next]_programVars => [PagesNext]_pageVars
  BY DEF Next, programVars
<1> QED
  BY <1>1, <1>2, <1>3, <1>4, <1>5, PTL DEF Spec, InstallSpec, SnapshotSpec, ScanSpec, PagesSpec

(* What is proved of each of them holds where they stand beside each other. *)
THEOREM ProgramsAreSafe ==
  Spec => /\ [](ServedIsComplete /\ NotedIsCleaned)
          /\ [](SnapshotIsCommitted /\ StaleGenerationsIgnored)
          /\ [](ReadIsFound /\ NothingIsSkipped /\ PagesAreDisjoint)
          /\ RemovesOnlyItsOwn /\ FileIsReplacedWhole
<1> QED
  BY EveryProgramIsItsOwn, ServedStaysComplete, FailureLeavesNothingNoted, SnapshotIsOneState,
     StaleFramesNeverFail, NoKeyIsMissed, NothingSkipped, NoMessageTwice, RollbackIsItsOwn,
     FileReplacement, PTL
=============================================================================
