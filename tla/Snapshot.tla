------------------------------ MODULE Snapshot ------------------------------
(***************************************************************************)
(* Reading an open database of the client (native_db.py).  The client is a *)
(* SQLite writer in WAL mode and takes no notice of the reader: it appends *)
(* frames to the log, commits or abandons them, copies them back into the  *)
(* database file and starts the log again in place.  The reader copies     *)
(* both files, keeps the copy only if neither file's signature has changed *)
(* and overlays the frames it finds committed.  A page's content is the    *)
(* transaction that wrote it; authentication and decryption keep it as is. *)
(***************************************************************************)
EXTENDS Integers, Sequences, FiniteSets, FiniteSetsExt

CONSTANTS
  MaxDbPages,    \* bound on the pages of the database
  MaxTx,       \* bound on the client's transactions
  MaxFrames,   \* bound on the frames of one log
  MaxGen,      \* bound on the generations of the log
  SizeLimit,       \* MAX_BYTES, in pages and frames
  Tries        \* attempts of stable_read: 3 in the code

ASSUME SnapshotAssumption ==
  {MaxDbPages, MaxTx, MaxFrames, MaxGen, SizeLimit, Tries} \subseteq Nat \ {0}

VARIABLES
  committed,   \* the pages of the last committed transaction
  db,          \* the pages in the database file
  wal,         \* the log file: generation (0: missing or empty) and frames
  salts,       \* generations so far
  tx,          \* the transaction being written
  mx,          \* frames of this generation that are committed
  tip,         \* frames of this generation that are written
  half,        \* the header of frame tail + 1 is written, its page is not
  pc, try,     \* the reader: its next step, its attempt
  same,        \* files whose signature is what the attempt saw first
  okDb,        \* the first of the two comparisons at the end of the attempt
  data, copy,  \* what it read of the database file and of the log
  outcome,     \* "read", or what open_database raises
  image,       \* the pages it returns
  window,      \* the states committed at some moment of the attempt
  floor        \* mx when the log was read

clientVars == <<committed, db, wal, salts, tx, mx, tip, half>>
readerVars == <<pc, try, okDb, data, copy, outcome, image, floor>>
snapshotVars == <<clientVars, readerVars, same, window>>

NoLog == [gen |-> 0, frames |-> <<>>]
NoPage == <<>>

SnapshotInit ==
  /\ \E n \in 1..MaxDbPages : committed = [p \in 1..n |-> <<p, 0>>]
  /\ db = committed
  /\ wal = NoLog
  /\ salts = 0
  /\ tx = 1
  /\ mx = 0
  /\ tip = 0
  /\ half = FALSE
  /\ pc = "sign_db"
  /\ try = 1
  /\ same = {}
  /\ okDb = FALSE
  /\ data = <<>>
  /\ copy = NoLog
  /\ outcome = "none"
  /\ image = <<>>
  /\ window = {}
  /\ floor = 0

-----------------------------------------------------------------------------
(* The client.  A frame's checksum covers every frame before it: it is the *)
(* sequence of what was written up to and including this frame.            *)

Cell(f) == <<f.page, f.commit, f.body>>

\* Every write changes the file's signature.  The model ends with the call.
Reading == pc # "done"

WriteLog(new) == Reading /\ wal' = new /\ same' = same \ {"wal"}
WriteDb(new) == Reading /\ db' = new /\ same' = same \ {"db"}

NewGeneration(frames) ==
  /\ salts < MaxGen
  /\ salts' = salts + 1
  /\ WriteLog([gen |-> salts + 1, frames |-> frames])
  /\ mx' = 0
  /\ tip' = 0

Idle == tip = mx /\ ~half

\* The first frame of a log is preceded by the log's header.
StartLog ==
  /\ wal.gen = 0
  /\ NewGeneration(<<>>)
  /\ UNCHANGED <<committed, db, tx, half, readerVars, window>>

\* Everything is copied back: the log is written again from its start, over
\* the frames of the generation before.
RestartLog ==
  /\ mx > 0 /\ Idle /\ db = committed
  /\ NewGeneration(wal.frames)
  /\ UNCHANGED <<committed, db, tx, half, readerVars, window>>

\* The last connection closes, or the log is truncated.
RemoveLog ==
  /\ wal.gen # 0 /\ Idle /\ db = committed
  /\ WriteLog(NoLog)
  /\ mx' = 0
  /\ tip' = 0
  /\ UNCHANGED <<committed, db, salts, tx, half, readerVars, window>>

\* A frame is written in two steps, its header and its page.  "size" is not
\* zero in the last frame of a transaction: the database's size from then on.
Complete(p, size) ==
  LET written == {wal.frames[i].page : i \in mx+1..tip} \cup {p}
  IN 1..size \subseteq written \cup DOMAIN committed

WriteHeader(p, size) ==
  /\ wal.gen # 0 /\ ~half /\ tip < MaxFrames /\ tx <= MaxTx
  /\ size # 0 => Complete(p, size)
  /\ LET before == IF tip = 0 THEN <<>> ELSE wal.frames[tip].sum
         frame == [page |-> p, commit |-> size, gen |-> wal.gen,
                   sum |-> Append(before, <<p, size, <<p, tx>>>>),
                   body |-> IF tip < Len(wal.frames) THEN wal.frames[tip + 1].body
                            ELSE NoPage]
     IN WriteLog([wal EXCEPT !.frames =
          [i \in 1..(IF tip < Len(@) THEN Len(@) ELSE tip + 1) |->
             IF i = tip + 1 THEN frame ELSE @[i]]])
  /\ half' = TRUE
  /\ UNCHANGED <<committed, db, salts, tx, mx, tip, readerVars, window>>

WritePage ==
  /\ half
  /\ LET i == tip + 1
         f == wal.frames[i]
         new == [wal EXCEPT !.frames[i].body = <<f.page, tx>>]
         latest(p) == {j \in mx+1..i : new.frames[j].page = p}
         state == [p \in 1..f.commit |-> IF latest(p) # {} THEN <<p, tx>> ELSE committed[p]]
     IN /\ WriteLog(new)
        /\ tip' = i
        /\ IF f.commit = 0
           THEN UNCHANGED <<committed, tx, mx, window>>
           ELSE /\ committed' = state
                /\ window' = IF window = {} THEN {} ELSE window \cup {state}
                /\ tx' = tx + 1
                /\ mx' = i
  /\ half' = FALSE
  /\ UNCHANGED <<db, salts, readerVars>>

\* The transaction is rolled back, or the client died and the log was
\* recovered: its frames stay in the file until others are written over them.
Abandon ==
  /\ Reading /\ ~Idle
  /\ tip' = mx
  /\ half' = FALSE
  /\ tx' = tx + 1
  /\ UNCHANGED <<committed, db, wal, salts, mx, readerVars, same, window>>

\* A checkpoint copies committed pages back one at a time, in page order ...
Behind == {p \in DOMAIN committed : p \notin DOMAIN db \/ db[p] # committed[p]}

CopyBack ==
  /\ Behind # {}
  /\ LET p == Min(Behind)
     IN WriteDb(IF p \in DOMAIN db THEN [db EXCEPT ![p] = committed[p]]
                ELSE Append(db, committed[p]))
  /\ UNCHANGED <<committed, wal, salts, tx, mx, tip, half, readerVars, window>>

\* ... and then cuts the file to the committed size.
CutFile ==
  /\ Behind = {} /\ Len(db) > Len(committed)
  /\ WriteDb(committed)
  /\ UNCHANGED <<committed, wal, salts, tx, mx, tip, half, readerVars, window>>

Client ==
  \/ StartLog \/ RestartLog \/ RemoveLog
  \/ \E p \in 1..MaxDbPages, size \in 0..MaxDbPages : WriteHeader(p, size)
  \/ WritePage \/ Abandon \/ CopyBack \/ CutFile

-----------------------------------------------------------------------------
(* committed_wal: the frames of the log's own generation up to the last    *)
(* whole one, refused if a checksum among them is wrong; of those, what    *)
(* the last commit covers.                                                 *)

\* Mutant: frames of earlier generations are read as well.
Current_AnyGeneration(w) ==
  Max({0} \cup {n \in DOMAIN w.frames : \A i \in 1..n : w.frames[i].body # NoPage})

Current(w) ==
  Max({0} \cup {n \in DOMAIN w.frames :
                  \A i \in 1..n : w.frames[i].gen = w.gen /\ w.frames[i].body # NoPage})

ChecksumMismatch(w) ==
  \E i \in 1..Current(w) : w.frames[i].sum # [j \in 1..i |-> Cell(w.frames[j])]

LastCommit(w) == Max({0} \cup {i \in 1..Current(w) : w.frames[i].commit # 0})

\* The frames that hold page p, those a later commit cut off excepted.
Overlay(w, p) ==
  {i \in 1..LastCommit(w) :
     /\ w.frames[i].page = p
     /\ \A j \in i..LastCommit(w) : w.frames[j].commit = 0 \/ p <= w.frames[j].commit}

SnapshotSize(d, w) ==
  IF LastCommit(w) = 0 \/ w.frames[LastCommit(w)].commit = 0 THEN Len(d)
  ELSE w.frames[LastCommit(w)].commit

Image(d, w) ==
  [p \in 1..SnapshotSize(d, w) |->
     IF Overlay(w, p) # {} THEN w.frames[Max(Overlay(w, p))].body
     ELSE IF p <= Len(d) THEN d[p] ELSE NoPage]

-----------------------------------------------------------------------------
(* The reader: stable_read, then open_database.                            *)

Finish(result) == pc' = "done" /\ outcome' = result /\ UNCHANGED image

\* signature(path), then signature(wal_path): the start of an attempt.
SignDb ==
  /\ pc = "sign_db"
  /\ pc' = "sign_wal"
  /\ same' = {"db"}
  /\ window' = {committed}
  /\ UNCHANGED <<clientVars, try, okDb, data, copy, outcome, image, floor>>

SignWal ==
  /\ pc = "sign_wal"
  /\ same' = same \cup {"wal"}
  /\ IF Len(db) + Len(wal.frames) > SizeLimit THEN Finish("size_limit")
     ELSE pc' = "read_db" /\ UNCHANGED <<outcome, image>>
  /\ UNCHANGED <<clientVars, try, okDb, data, copy, window, floor>>

\* The files are read piece by piece while the client writes.
ReadDb ==
  /\ pc = "read_db"
  /\ IF Len(data) < Len(db)
     THEN data' = Append(data, db[Len(data) + 1]) /\ UNCHANGED pc
     ELSE pc' = "read_header" /\ UNCHANGED data
  /\ UNCHANGED <<clientVars, try, same, okDb, copy, outcome, image, window, floor>>

ReadHeader ==
  /\ pc = "read_header"
  /\ pc' = IF wal.gen = 0 THEN "check_db" ELSE "read_wal"
  /\ copy' = [copy EXCEPT !.gen = wal.gen]
  /\ UNCHANGED <<clientVars, try, same, okDb, data, outcome, image, window, floor>>

ReadWal ==
  /\ pc = "read_wal"
  /\ LET i == Len(copy.frames) + 1
     IN IF i <= Len(wal.frames)
        THEN copy' = [copy EXCEPT !.frames = Append(@, wal.frames[i])] /\ UNCHANGED pc
        ELSE pc' = "check_db" /\ UNCHANGED copy
  /\ floor' = mx
  /\ UNCHANGED <<clientVars, try, same, okDb, data, outcome, image, window>>

CheckDb ==
  /\ pc = "check_db"
  /\ okDb' = ("db" \in same)
  /\ pc' = "check_wal"
  /\ UNCHANGED <<clientVars, try, same, data, copy, outcome, image, window, floor>>

\* Mutant: after the last attempt, what it read is used all the same.
Unchanged_OrLast == try = Tries \/ (okDb /\ "wal" \in same)

Unchanged == okDb /\ "wal" \in same

LastTry == try = Tries

\* open_database of a stable pair of files.
OpenDatabase ==
  IF Len(data) + Len(copy.frames) > SizeLimit THEN Finish("size_limit")
  ELSE IF ChecksumMismatch(copy) THEN Finish("checksum_mismatch")
  ELSE IF \E p \in 1..SnapshotSize(data, copy) : Image(data, copy)[p] = NoPage
  THEN Finish("incomplete_page")
  ELSE pc' = "done" /\ outcome' = "read" /\ image' = Image(data, copy)

CheckWal ==
  /\ pc = "check_wal"
  /\ \/ Unchanged /\ OpenDatabase /\ UNCHANGED <<try, data, copy, same, okDb, window, floor>>
     \/ ~Unchanged /\ LastTry /\ Finish("busy") /\ UNCHANGED <<try, data, copy, same, okDb, window, floor>>
     \/ /\ ~Unchanged /\ ~LastTry
        /\ try' = try + 1 /\ pc' = "sign_db"
        /\ data' = <<>> /\ copy' = NoLog /\ same' = {} /\ window' = {}
        /\ okDb' = FALSE /\ floor' = 0
        /\ UNCHANGED <<outcome, image>>
  /\ UNCHANGED clientVars

Reader ==
  \/ SignDb \/ SignWal \/ ReadDb \/ ReadHeader \/ ReadWal \/ CheckDb \/ CheckWal

\* The call has returned: nothing that follows is about it.
SnapshotEnded == pc = "done" /\ UNCHANGED snapshotVars

SnapshotNext == Client \/ Reader \/ SnapshotEnded

SnapshotSpec == SnapshotInit /\ [][SnapshotNext]_snapshotVars

-----------------------------------------------------------------------------
SnapshotTypeOK ==
  /\ {committed, db, data, image} \cup window \subseteq Seq((1..MaxDbPages) \X (0..MaxTx))
  /\ {wal.gen, copy.gen, salts} \subseteq 0..MaxGen
  /\ Len(wal.frames) <= MaxFrames
  /\ 0 <= mx /\ mx <= tip /\ tip <= Len(wal.frames)
  /\ half \in BOOLEAN /\ okDb \in BOOLEAN
  /\ tx \in 1..MaxTx + 1 /\ try \in 1..Tries /\ floor \in 0..MaxFrames
  /\ same \subseteq {"db", "wal"}
  /\ pc \in {"sign_db", "sign_wal", "read_db", "read_header", "read_wal", "check_db",
             "check_wal", "done"}
  /\ outcome \in {"none", "read", "busy", "size_limit", "checksum_mismatch", "incomplete_page"}

(* What open_database returns is the database as one transaction left it,  *)
(* and one that was current while the files were being read: never a mix   *)
(* of pages of two transactions, never pages of an unfinished one and      *)
(* never one that lacks a page, however the client's commits, checkpoints  *)
(* and log restarts fall between the reads (stable_read, committed_wal).   *)
SnapshotIsCommitted ==
  /\ outcome = "read" => image \in window
  /\ outcome # "incomplete_page"

(* Frames left over from an earlier generation of the log never make a     *)
(* read fail: a checksum is refused only when frames of a transaction that *)
(* is unfinished or abandoned follow the committed ones (committed_wal).   *)
StaleGenerationsIgnored ==
  outcome = "checksum_mismatch" =>
    \E i \in floor+1..Len(copy.frames) : copy.frames[i].gen = copy.gen

(* What the comment of committed_wal says of every read: an uncommitted    *)
(* tail is ignored.  The code refuses the log when such a tail was partly  *)
(* overwritten, although all that is committed is intact.                  *)
UncommittedTailIgnored == outcome # "checksum_mismatch"
=============================================================================
