------------------------------ MODULE KeyScan -------------------------------
(***************************************************************************)
(* One capture of database keys (native_keys.py): the writable memory of   *)
(* the client is read in chunks, each searched together with the end of    *)
(* the one before it; what is found and verified replaces the key file.    *)
(* A copy of a key is a place in a region; verification tells a key from   *)
(* any other text, so only the places of keys are kept.                    *)
(***************************************************************************)
EXTENDS Integers

CONSTANTS
  Regions,     \* number of regions
  Size,        \* the length of each
  Copies,      \* where keys are: region, start, length, and the database (salt)
  Salts,       \* the databases of the inventory
  Longest,     \* the longest match of PATTERN: 99 bytes
  Overlap,     \* bytes kept of the chunk before: 100
  Page,        \* what a read returns at least, unless it is cut short by its own limit
  Chunk,       \* 4 MiB
  MaxBytes     \* --max-mib

ASSUME ScanAssumption ==
  /\ Regions \in Nat
  /\ Size \in [1..Regions -> Nat]
  /\ Copies \subseteq [region : 1..Regions, start : Nat, length : 1..Longest, salt : Salts]
  /\ {Longest, Overlap, Page, Chunk, MaxBytes} \subseteq Nat \ {0}
  /\ Longest <= Overlap + 1 /\ Overlap <= Page /\ Page <= Chunk

VARIABLES
  scanner,     \* "scan", "save", "replace", "done" or "killed"
  region, offset,   \* what is read next
  tail,        \* bytes of the last chunk that are kept
  total,       \* bytes read so far
  found,       \* copies seen and verified
  whole,       \* regions read from end to end
  file,        \* the databases that the key file has keys for
  temp         \* the temporary file beside it

keyVars == <<scanner, region, offset, tail, total, found, whole, file, temp>>
scanVars == <<region, offset, tail, total, found, whole>>

ScanInit ==
  /\ scanner = "scan"
  /\ region = 1
  /\ offset = 0
  /\ tail = 0
  /\ total = 0
  /\ found = {}
  /\ whole = {}
  /\ file \in SUBSET Salts
  /\ temp = {}

Keys(copies) == {c.salt : c \in copies}

Least(a, b) == IF a <= b THEN a ELSE b

-----------------------------------------------------------------------------
\* Mutant: a chunk is searched on its own.
Seen_NoTail(n) ==
  {c \in Copies : c.region = region /\ offset <= c.start /\ c.start + c.length <= offset + n}

\* candidates(tail+data): the copies that lie within the kept bytes and the chunk.
Seen(n) ==
  {c \in Copies : /\ c.region = region
                  /\ offset - tail <= c.start
                  /\ c.start + c.length <= offset + n}

Scanning == scanner = "scan" /\ region <= Regions

Amount == Least(Least(Chunk, Size[region] - offset), MaxBytes - total)

\* os.pread returns what it was asked for, or whole pages of it.
ReadChunk ==
  /\ Scanning /\ offset < Size[region] /\ total < MaxBytes
  /\ \E n \in 1..Amount :
       /\ n = Amount \/ n >= Page
       /\ found' = found \cup Seen(n)
       /\ offset' = offset + n
       /\ total' = total + n
       /\ tail' = Least(n, Overlap)
       /\ whole' = IF offset + n = Size[region] THEN whole \cup {region} ELSE whole
  /\ scanner' = IF Keys(found') = Salts THEN "save" ELSE scanner
  /\ UNCHANGED <<region, file, temp>>

\* The region has been read, or os.pread fails or returns nothing.
NextRegion ==
  /\ Scanning
  /\ region' = region + 1
  /\ offset' = 0
  /\ tail' = 0
  /\ UNCHANGED <<scanner, total, found, whole, file, temp>>

\* No region is left, the budget is used up, or the seconds are.
StopScan ==
  /\ scanner = "scan"
  /\ scanner' = "save"
  /\ UNCHANGED <<scanVars, file, temp>>

\* Mutant: the file is written even if there is nothing to write.
Nothing_Ignored == FALSE

Nothing == Keys(found) = {}

Save ==
  /\ scanner = "save"
  /\ IF Nothing THEN scanner' = "done" /\ UNCHANGED temp
     ELSE scanner' = "replace" /\ temp' = Keys(found)
  /\ UNCHANGED <<scanVars, file>>

Replace ==
  /\ scanner = "replace"
  /\ scanner' = "done"
  /\ file' = temp
  /\ temp' = {}
  /\ UNCHANGED scanVars

ScanKilled ==
  /\ scanner \in {"scan", "save", "replace"}
  /\ scanner' = "killed"
  /\ UNCHANGED <<scanVars, file, temp>>

ScanEnded == scanner \in {"done", "killed"} /\ UNCHANGED keyVars

ScanNext == ReadChunk \/ NextRegion \/ StopScan \/ Save \/ Replace \/ ScanKilled \/ ScanEnded

ScanSpec == ScanInit /\ [][ScanNext]_keyVars

-----------------------------------------------------------------------------
ScanTypeOK ==
  /\ scanner \in {"scan", "save", "replace", "done", "killed"}
  /\ region \in 1..Regions + 1
  /\ {offset, tail, total} \subseteq Nat
  /\ found \subseteq Copies
  /\ whole \subseteq 1..Regions
  /\ {file, temp} \subseteq SUBSET Salts

(* A key that lies in what has been read is found, wherever the chunks     *)
(* begin and end, short reads included: in the region that is being read   *)
(* up to the offset, and in every region read from end to end (scan).      *)
ReadIsFound ==
  \A c \in Copies :
    \/ c.region = region /\ c.start + c.length <= offset
    \/ c.region \in whole /\ c.start + c.length <= Size[c.region]
    => c \in found

(* The scan reads no more of the client than it was allowed to, although   *)
(* chunks, regions and the budget end at different places (scan).          *)
WithinBudget == total <= MaxBytes

(* A key file is replaced as a whole and only by keys that were found: a   *)
(* capture that finds none or dies keeps the one that is there (main,      *)
(* private_save).                                                          *)
FileIsReplacedWhole ==
  [][file' # file => file' # {} /\ file' = Keys(found)]_keyVars
=============================================================================
