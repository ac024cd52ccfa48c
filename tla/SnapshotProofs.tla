--------------------------- MODULE SnapshotProofs ---------------------------
(***************************************************************************)
(* Proofs about Snapshot for a database, a log and a number of             *)
(* transactions of any size: whatever the client writes, commits,          *)
(* abandons, copies back and starts again while the files are read, what   *)
(* open_database returns is one committed state.                           *)
(***************************************************************************)
EXTENDS Snapshot, FiniteSetTheorems, WellFoundedInduction, TLAPS

-----------------------------------------------------------------------------
(* The greatest element of a bounded set of numbers.  It is found by well- *)
(* foundedness of the finite sets, for the lack of induction.              *)

LEMMA LeastNumber ==
  ASSUME NEW T \in SUBSET Nat, T # {}
  PROVE  \E m \in T : \A n \in T : m <= n
<1> DEFINE Below == {0..m : m \in T}
<1>1. Below \subseteq FiniteSubsetsOf(Nat)
  <2>1. ASSUME NEW m \in T PROVE 0..m \in FiniteSubsetsOf(Nat)
    BY FS_Interval DEF FiniteSubsetsOf
  <2> QED
    BY <2>1
<1>2. Below # {}
  OBVIOUS
<1>3. IsWellFoundedOn(StrictSubsetOrdering(Nat), FiniteSubsetsOf(Nat))
  BY FS_StrictSubsetOrderingWellFounded
<1>4. PICK x \in Below : \A y \in Below : ~(<<y, x>> \in StrictSubsetOrdering(Nat))
  <2> HIDE DEF Below
  <2> QED
    BY <1>1, <1>2, <1>3, WFMin
<1>5. PICK m \in T : x = 0..m
  OBVIOUS
<1>6. ASSUME NEW n \in T, n < m PROVE FALSE
  <2>1. 0..n \in Below
    OBVIOUS
  <2>2. 0..n \subseteq 0..m /\ m \notin 0..n /\ m \in 0..m /\ 0..m \subseteq Nat
    BY <1>6
  <2>3. <<0..n, x>> \in StrictSubsetOrdering(Nat)
    BY <2>2, <1>5 DEF StrictSubsetOrdering
  <2> QED
    BY <2>1, <2>3, <1>4
<1> QED
  BY <1>6

LEMMA MaxOfSome ==
  ASSUME NEW n \in Nat, NEW S \in SUBSET (0..n), S # {}
  PROVE  Max(S) \in S /\ \A x \in S : x <= Max(S)
<1> DEFINE T == {n - x : x \in S}
<1>1. T \in SUBSET Nat /\ T # {}
  <2>1. \A x \in S : n - x \in Nat
    OBVIOUS
  <2> QED
    BY <2>1
<1>2. PICK m \in T : \A k \in T : m <= k
  BY <1>1, LeastNumber
<1>3. PICK x \in S : m = n - x
  OBVIOUS
<1>4. \A y \in S : x >= y
  <2>1. ASSUME NEW y \in S PROVE x >= y
    <3>1. m <= n - y
      BY <1>2
    <3> QED
      BY <3>1, <1>3
  <2> QED
    BY <2>1
<1> QED
  BY <1>4 DEF Max

LEMMA MinOfSome ==
  ASSUME NEW S \in SUBSET Nat, S # {}
  PROVE  Min(S) \in S /\ \A x \in S : Min(S) <= x
BY LeastNumber DEF Min

-----------------------------------------------------------------------------
(* The log and the database, whoever reads them.                           *)

Bodies == (1..MaxDbPages) \X (0..MaxTx)
Cells == (1..MaxDbPages) \X (0..MaxDbPages) \X (Bodies \cup {NoPage})
Frames == [page : 1..MaxDbPages, commit : 0..MaxDbPages, gen : 1..MaxGen,
           sum : Seq(Cells), body : Bodies \cup {NoPage}]
Logs == [gen : 0..MaxGen, frames : Seq(Frames)]

Frame(i) == wal.frames[i]

Sized ==
  /\ committed \in Seq(Bodies) /\ Len(committed) >= 1 /\ db \in Seq(Bodies)
  /\ wal \in Logs /\ Len(wal.frames) <= MaxFrames
  /\ salts \in 0..MaxGen /\ tx \in 1..MaxTx + 1
  /\ mx \in Nat /\ tip \in Nat /\ mx <= tip /\ tip <= Len(wal.frames)

ClientTyped ==
  /\ Sized
  /\ half \in BOOLEAN
  /\ wal.gen = 0 => wal.frames = <<>> /\ mx = 0 /\ tip = 0 /\ ~half

\* The frames up to tip are written by this generation, checksums and all.
Written ==
  \A j \in 1..tip :
    /\ Frame(j).gen = wal.gen /\ Frame(j).body # NoPage
    /\ Len(Frame(j).sum) = j
    /\ \A k \in 1..j : Frame(j).sum[k] = Cell(Frame(k))

\* Those that are not committed are of the current transaction.
UnderWay ==
  /\ \A j \in mx+1..tip : Frame(j).commit = 0 /\ Frame(j).body = <<Frame(j).page, tx>>
  /\ tip > mx \/ half => tx <= MaxTx

\* A frame's header promises a page that is not there yet.
HeaderWritten ==
  half =>
    /\ tip < Len(wal.frames)
    /\ Frame(tip + 1).gen = wal.gen
    /\ Len(Frame(tip + 1).sum) = tip + 1
    /\ \A k \in 1..tip : Frame(tip + 1).sum[k] = Cell(Frame(k))
    /\ Frame(tip + 1).sum[tip + 1] =
         <<Frame(tip + 1).page, Frame(tip + 1).commit, <<Frame(tip + 1).page, tx>>>>
    /\ Frame(tip + 1).commit # 0 => Complete(Frame(tip + 1).page, Frame(tip + 1).commit)

\* Everything else is of earlier transactions.
Old ==
  \A j \in 1..Len(wal.frames) :
    j <= mx \/ j > tip => Frame(j).body = NoPage \/ Frame(j).body[2] < tx

\* No frame behind the committed ones can be taken for a commit: of this
\* generation, those that end a transaction lack the page of their checksum.
Leftover ==
  \A j \in 1..Len(wal.frames) :
    j > mx /\ Frame(j).gen = wal.gen =>
      Frame(j).commit = 0 \/ Frame(j).sum[j] # Cell(Frame(j))

Generations ==
  /\ wal.gen <= salts
  /\ \A j \in 1..Len(wal.frames) : Frame(j).gen <= wal.gen

LogInv ==
  /\ Written /\ UnderWay /\ HeaderWritten /\ Old /\ Leftover /\ Generations

\* No commit from frame i on cuts page p off.
Covers(p, i) == \A j \in i..mx : Frame(j).commit = 0 \/ p <= Frame(j).commit

\* Page p is in the last frame that has it, or else in the pages d.
Held(d, p) ==
  \/ \E i \in 1..mx :
       /\ Frame(i).page = p /\ Frame(i).body = committed[p] /\ Covers(p, i)
       /\ \A j \in i+1..mx : Frame(j).page # p
  \/ /\ \A i \in 1..mx : Frame(i).page = p => ~Covers(p, i)
     /\ p \in DOMAIN d /\ d[p] = committed[p]

\* With the committed frames of the log, the pages d are what is committed.
Complement(d) ==
  /\ mx > 0 => Frame(mx).commit = Len(committed)
  /\ mx = 0 => d = committed
  /\ \A p \in DOMAIN committed : Held(d, p)

ClientInv == ClientTyped /\ LogInv /\ Complement(db)

-----------------------------------------------------------------------------
LEMMA Bounds ==
  /\ MaxDbPages \in Nat /\ MaxDbPages >= 1
  /\ MaxTx \in Nat /\ MaxTx >= 1
  /\ MaxFrames \in Nat /\ MaxFrames >= 1
  /\ MaxGen \in Nat /\ MaxGen >= 1
  /\ Tries \in Nat /\ Tries >= 1
BY SnapshotAssumption

LEMMA LogFacts ==
  ASSUME ClientTyped
  PROVE  /\ wal = [gen |-> wal.gen, frames |-> wal.frames] /\ wal.frames \in Seq(Frames)
         /\ Len(wal.frames) \in Nat /\ wal.gen \in Nat /\ wal.gen <= MaxGen
         /\ mx \in Nat /\ tip \in Nat /\ mx <= tip /\ tip <= Len(wal.frames)
         /\ tx \in Nat /\ salts \in Nat /\ salts <= MaxGen
         /\ Len(committed) \in Nat /\ Len(committed) >= 1 /\ DOMAIN committed = 1..Len(committed)
         /\ Len(db) \in Nat /\ DOMAIN db = 1..Len(db)
<1> USE Bounds
<1>1. wal = [gen |-> wal.gen, frames |-> wal.frames] /\ wal.frames \in Seq(Frames)
      /\ wal.gen \in 0..MaxGen
  BY DEF ClientTyped, Sized, Logs
<1>2. Len(wal.frames) \in Nat
  BY <1>1
<1> QED
  BY <1>1, <1>2 DEF ClientTyped, Sized

LEMMA FrameFacts ==
  ASSUME ClientTyped, NEW j \in 1..Len(wal.frames)
  PROVE  /\ Frame(j) \in Frames
         /\ Frame(j).page \in Nat /\ Frame(j).page >= 1 /\ Frame(j).page <= MaxDbPages
         /\ Frame(j).commit \in Nat /\ Frame(j).commit <= MaxDbPages
         /\ Frame(j).gen \in Nat /\ Frame(j).gen >= 1 /\ Frame(j).gen <= MaxGen
         /\ Frame(j).sum \in Seq(Cells)
         /\ Frame(j).body = NoPage \/ Frame(j).body \in Bodies
         /\ Frame(j).body = NoPage \/ Frame(j).body[2] \in Nat
<1>1. Frame(j) \in Frames
  BY LogFacts DEF Frame
<1>2. /\ Frame(j).page \in 1..MaxDbPages /\ Frame(j).commit \in 0..MaxDbPages
      /\ Frame(j).gen \in 1..MaxGen /\ Frame(j).sum \in Seq(Cells)
      /\ Frame(j).body \in Bodies \cup {NoPage}
  BY <1>1 DEF Frames
<1>3. \A b \in Bodies : b[2] \in Nat
  BY Bounds DEF Bodies
<1> QED
  BY <1>1, <1>2, <1>3, Bounds

LEMMA ClientInit == SnapshotInit => ClientInv
<1> SUFFICES ASSUME SnapshotInit PROVE ClientInv
  OBVIOUS
<1> USE Bounds DEF SnapshotInit, NoLog
<1>1. ClientTyped
  <2>1. PICK n \in 1..MaxDbPages : committed = [p \in 1..n |-> <<p, 0>>]
    OBVIOUS
  <2>2. committed \in Seq(Bodies) /\ Len(committed) >= 1
    BY <2>1 DEF Bodies
  <2>3. wal \in Logs
    BY DEF Logs
  <2>4. wal.frames = <<>> /\ Len(wal.frames) = 0 /\ mx = 0 /\ tip = 0 /\ half = FALSE
    OBVIOUS
  <2>5. db = committed /\ salts = 0 /\ tx = 1
    OBVIOUS
  <2> HIDE DEF SnapshotInit
  <2>6. Sized
    BY <2>2, <2>3, <2>4, <2>5 DEF Sized
  <2> QED
    BY <2>4, <2>6 DEF ClientTyped
<1>2. LogInv
  BY DEF LogInv, Written, UnderWay, HeaderWritten, Old, Leftover, Generations
<1>3. Complement(db)
  BY DEF Complement, Held
<1> QED
  BY <1>1, <1>2, <1>3 DEF ClientInv

\* What a checkpoint does to the database file: every page that was committed
\* in it still is.
LEMMA Checkpoint ==
  ASSUME ClientInv, CopyBack \/ CutFile
  PROVE  /\ db' \in Seq(Bodies)
         /\ \A p \in DOMAIN committed :
              p \in DOMAIN db /\ db[p] = committed[p] => p \in DOMAIN db' /\ db'[p] = committed[p]
         /\ mx # 0
         /\ UNCHANGED <<committed, wal, salts, tx, mx, tip, half>>
<1>1. mx # 0
  BY DEF ClientInv, Complement, CopyBack, CutFile, Behind, ClientTyped
<1>2. CASE CutFile
  BY <1>1, <1>2 DEF CutFile, ClientInv, ClientTyped, Sized, WriteDb
<1>3. CASE CopyBack
  <2> DEFINE p == Min(Behind)
  <2>1. Behind \in SUBSET Nat
    BY LogFacts DEF Behind, ClientInv
  <2>2. p \in Behind /\ \A q \in Behind : p <= q
    BY <1>3, <2>1, MinOfSome DEF CopyBack
  <2> HIDE DEF p
  <2>3. p \in 1..Len(committed) /\ committed[p] \in Bodies
    BY <2>2, LogFacts DEF Behind, ClientInv, ClientTyped, Sized
  <2>4. db' = IF p \in DOMAIN db THEN [db EXCEPT ![p] = committed[p]]
              ELSE Append(db, committed[p])
    BY <1>3 DEF CopyBack, WriteDb, p
  <2> QED
    BY <1>1, <1>3, <2>3, <2>4 DEF CopyBack, ClientInv, ClientTyped, Sized
<1> QED
  BY <1>2, <1>3

\* The log is what it was, and so is what is known of it.
LEMMA SameLog ==
  ASSUME LogInv, UNCHANGED <<committed, wal, salts, tx, mx, tip, half>>
  PROVE  LogInv'
<1> USE DEF LogInv, Frame
<1>1. Written'
  BY DEF Written, Cell
<1>2. UnderWay'
  BY DEF UnderWay
<1>3. HeaderWritten'
  BY DEF HeaderWritten, Complete, Cell
<1>4. Old'
  BY DEF Old
<1>5. Leftover'
  BY DEF Leftover, Cell
<1>6. Generations'
  BY DEF Generations
<1> QED
  BY <1>1, <1>2, <1>3, <1>4, <1>5, <1>6

LEMMA ComplementSame ==
  ASSUME Complement(data), UNCHANGED <<committed, wal, mx, data>>
  PROVE  Complement(data)'
BY DEF Complement, Held, Covers, Frame

LEMMA ClientSame ==
  ASSUME ClientInv, UNCHANGED <<committed, db, wal, salts, tx, mx, tip, half>>
  PROVE  ClientInv'
<1>1. LogInv'
  BY SameLog DEF ClientInv
<1>2. ClientTyped'
  BY DEF ClientInv, ClientTyped, Sized
<1>3. Complement(db)'
  BY DEF ClientInv, Complement, Held, Covers, Frame
<1> QED
  BY <1>1, <1>2, <1>3 DEF ClientInv

\* So is what is committed, as long as the committed frames are.
LEMMA CommittedSame ==
  ASSUME ClientInv, UNCHANGED <<committed, mx, db>>, \A i \in 1..mx : wal'.frames[i] = Frame(i)
  PROVE  Complement(db)'
<1>0. mx \in Nat
  BY LogFacts DEF ClientInv
<1>1. ASSUME NEW i \in 1..mx, NEW j \in i..mx PROVE j \in 1..mx
  BY <1>0
<1>2. ASSUME NEW p, NEW i \in 1..mx PROVE Covers(p, i)' <=> Covers(p, i)
  <2>1. \A j \in i..mx : wal'.frames[j] = wal.frames[j]
    BY <1>1 DEF Frame
  <2> QED
    BY <2>1 DEF Covers, Frame
<1>3. ASSUME NEW p \in DOMAIN committed PROVE Held(db, p)'
  <2>1. Held(db, p)
    BY DEF ClientInv, Complement
  <2>2. CASE \E i \in 1..mx :
               /\ Frame(i).page = p /\ Frame(i).body = committed[p] /\ Covers(p, i)
               /\ \A j \in i+1..mx : Frame(j).page # p
    <3>1. PICK i \in 1..mx :
               /\ Frame(i).page = p /\ Frame(i).body = committed[p] /\ Covers(p, i)
               /\ \A j \in i+1..mx : Frame(j).page # p
      BY <2>2
    <3>2. \A j \in i+1..mx : wal'.frames[j].page # p
      <4>1. \A j \in i+1..mx : j \in 1..mx
        BY <1>0
      <4> QED
        BY <3>1, <4>1
    <3>3. wal'.frames[i].page = p /\ wal'.frames[i].body = committed[p] /\ Covers(p, i)'
      BY <1>2, <3>1
    <3> QED
      BY <3>2, <3>3 DEF Held, Frame
  <2>3. CASE /\ \A i \in 1..mx : Frame(i).page = p => ~Covers(p, i)
             /\ p \in DOMAIN db /\ db[p] = committed[p]
    <3>1. \A i \in 1..mx : wal'.frames[i].page = p => ~Covers(p, i)'
      BY <1>2, <2>3
    <3> QED
      BY <2>3, <3>1 DEF Held, Frame
  <2> QED
    BY <2>1, <2>2, <2>3 DEF Held
<1>4. mx > 0 => wal'.frames[mx].commit = Len(committed)
  <2>1. mx > 0 => mx \in 1..mx
    BY <1>0
  <2> QED
    BY <2>1 DEF ClientInv, Complement
<1> QED
  BY <1>3, <1>4 DEF ClientInv, Complement, Frame

LEMMA CheckpointKeeps ==
  ASSUME ClientInv, CopyBack \/ CutFile
  PROVE  ClientInv'
<1>1. ClientTyped'
  BY Checkpoint DEF ClientTyped, Sized, ClientInv
<1>2. LogInv'
  BY Checkpoint, SameLog DEF ClientInv
<1>3. Complement(db)'
  <2>1. ASSUME NEW p \in DOMAIN committed PROVE Held(db, p)'
    <3>1. Held(db, p)
      BY DEF ClientInv, Complement
    <3>2. CASE \E i \in 1..mx :
               /\ Frame(i).page = p /\ Frame(i).body = committed[p] /\ Covers(p, i)
               /\ \A j \in i+1..mx : Frame(j).page # p
      BY <3>2, Checkpoint DEF Held, Frame, Covers
    <3>3. CASE /\ \A i \in 1..mx : Frame(i).page = p => ~Covers(p, i)
               /\ p \in DOMAIN db /\ db[p] = committed[p]
      BY <3>3, Checkpoint DEF Held, Frame, Covers
    <3> QED
      BY <3>1, <3>2, <3>3 DEF Held
  <2> QED
    BY <2>1, Checkpoint DEF ClientInv, Complement, Frame
<1> QED
  BY <1>1, <1>2, <1>3 DEF ClientInv

LEMMA AbandonKeeps ==
  ASSUME ClientInv, Abandon
  PROVE  ClientInv'
<1> USE Bounds DEF ClientInv, Abandon, Idle
<1>0. tx <= MaxTx /\ tx \in Nat
  BY LogFacts DEF LogInv, UnderWay
<1>1. ClientTyped'
  <2>1. Sized'
    BY <1>0 DEF ClientTyped, Sized
  <2> QED
    BY <2>1, LogFacts DEF ClientTyped
<1>2. LogInv'
  <2>1. Written'
    <3>1. ASSUME NEW j \in 1..mx
          PROVE  j \in 1..tip
      BY LogFacts
    <3> QED
      BY <3>1 DEF LogInv, Written, Frame, Cell
  <2>2. UnderWay' /\ HeaderWritten'
    BY LogFacts DEF LogInv, UnderWay, HeaderWritten, Frame
  <2>3. Leftover' /\ Generations'
    BY LogFacts DEF LogInv, Leftover, Generations, Frame, Cell
  <2>4. Old'
    <3>1. ASSUME NEW j \in 1..Len(wal.frames)
          PROVE  Frame(j).body = NoPage \/ Frame(j).body[2] < tx + 1
      <4>1. Frame(j).body = NoPage \/ Frame(j).body[2] \in Nat
        BY FrameFacts
      <4>2. CASE j <= mx \/ j > tip
        BY <1>0, <4>1, <4>2 DEF LogInv, Old
      <4>3. CASE j \in mx+1..tip
        <5>1. Frame(j).body = <<Frame(j).page, tx>>
          BY <4>3 DEF LogInv, UnderWay
        <5> QED
          BY <1>0, <5>1
      <4> QED
        BY <4>2, <4>3, LogFacts
    <3> QED
      BY <3>1 DEF Old, Frame
  <2> QED
    BY <2>1, <2>2, <2>3, <2>4 DEF LogInv
<1>3. Complement(db)'
  BY CommittedSame DEF Frame
<1> QED
  BY <1>1, <1>2, <1>3

LEMMA NewLogKeeps ==
  ASSUME ClientInv, StartLog \/ RestartLog \/ RemoveLog
  PROVE  ClientInv' /\ mx' = 0 /\ committed' = committed /\ db' = db
<1> USE Bounds DEF ClientInv
<1>0. /\ mx' = 0 /\ tip' = 0 /\ half' = FALSE /\ ~half /\ UNCHANGED <<committed, db, tx>>
      /\ db = committed
  BY DEF StartLog, RestartLog, RemoveLog, NewGeneration, Idle, ClientTyped, Complement
<1>1. \/ wal' = NoLog /\ salts' = salts
      \/ wal' = [gen |-> salts + 1, frames |-> <<>>] /\ salts' = salts + 1 /\ salts < MaxGen
      \/ wal' = [gen |-> salts + 1, frames |-> wal.frames] /\ salts' = salts + 1 /\ salts < MaxGen
  BY DEF StartLog, RestartLog, RemoveLog, NewGeneration, WriteLog
<1>2. CASE wal' = NoLog \/ wal' = [gen |-> salts + 1, frames |-> <<>>]
  <2>1. wal'.frames = <<>> /\ Len(wal'.frames) = 0 /\ wal'.gen \in 0..salts'
    BY <1>1, <1>2, LogFacts DEF NoLog
  <2>2. ClientTyped'
    <3>1. wal' \in Logs /\ salts' \in 0..MaxGen
      <4>1. <<>> \in Seq(Frames) /\ 0 \in 0..MaxGen
        OBVIOUS
      <4>2. CASE wal' = NoLog
        BY <1>1, <4>1, <4>2, LogFacts DEF NoLog, Logs
      <4>3. CASE wal' = [gen |-> salts + 1, frames |-> <<>>] /\ salts' = salts + 1 /\ salts < MaxGen
        BY <4>1, <4>3, LogFacts DEF Logs
      <4> QED
        BY <1>1, <1>2, <4>2, <4>3 DEF NoLog
    <3>2. Sized'
      BY <1>0, <2>1, <3>1 DEF ClientTyped, Sized
    <3> QED
      BY <1>0, <2>1, <3>2 DEF ClientTyped
  <2>3. LogInv'
    BY <1>0, <2>1 DEF LogInv, Written, UnderWay, HeaderWritten, Old, Leftover, Generations
  <2> QED
    BY <1>0, <2>2, <2>3 DEF Complement, Held, Covers
<1>3. CASE /\ wal' = [gen |-> salts + 1, frames |-> wal.frames]
           /\ salts' = salts + 1 /\ salts < MaxGen
  <2>1. wal'.frames = wal.frames /\ wal'.gen = salts' /\ wal' \in Logs /\ salts' \in 0..MaxGen
    BY <1>3, LogFacts DEF Logs
  <2>2. ClientTyped'
    <3>1. Sized'
      BY <1>0, <2>1, LogFacts DEF ClientTyped, Sized
    <3>2. wal'.gen # 0
      BY <1>3, <2>1, LogFacts
    <3> QED
      BY <1>0, <3>1, <3>2 DEF ClientTyped
  <2>3. \A j \in 1..Len(wal.frames) : Frame(j).gen < wal'.gen
    BY <1>3, <2>1, FrameFacts, LogFacts DEF LogInv, Generations
  <2>4. Written' /\ UnderWay' /\ HeaderWritten'
    BY <1>0 DEF Written, UnderWay, HeaderWritten
  <2>5. Old'
    <3>1. ASSUME NEW j \in 1..Len(wal.frames)
          PROVE  Frame(j).body = NoPage \/ Frame(j).body[2] < tx
      <4>1. tip = mx
        BY <1>0, <1>3, LogFacts DEF StartLog, RestartLog, RemoveLog, Idle, ClientTyped
      <4> QED
        BY <4>1, LogFacts DEF LogInv, Old
    <3> QED
      BY <1>0, <2>1, <3>1 DEF Old, Frame
  <2>6. Leftover'
    <3>1. ASSUME NEW j \in 1..Len(wal.frames), Frame(j).gen = wal'.gen
          PROVE  FALSE
      BY <2>3, <3>1, <2>1, FrameFacts, LogFacts
    <3> QED
      BY <2>1, <3>1 DEF Leftover, Frame
  <2>7. Generations'
    <3>1. ASSUME NEW j \in 1..Len(wal.frames) PROVE Frame(j).gen <= wal'.gen
      BY <2>3, <2>1, FrameFacts, LogFacts
    <3> QED
      BY <2>1, <3>1 DEF Generations, Frame
  <2> QED
    BY <1>0, <2>2, <2>4, <2>5, <2>6, <2>7 DEF LogInv, Complement, Held, Covers
<1> QED
  BY <1>0, <1>1, <1>2, <1>3

-----------------------------------------------------------------------------
(* A frame is written in two steps.                                        *)

LEMMA HeaderStep ==
  ASSUME ClientInv, NEW p \in 1..MaxDbPages, NEW size \in 0..MaxDbPages, WriteHeader(p, size)
  PROVE  /\ ~half /\ half' = TRUE /\ tip < MaxFrames /\ tx <= MaxTx /\ wal.gen # 0
         /\ size # 0 => Complete(p, size)
         /\ UNCHANGED <<committed, db, salts, tx, mx, tip>>
         /\ wal'.gen = wal.gen /\ wal' \in Logs
         /\ Len(wal'.frames) = (IF tip < Len(wal.frames) THEN Len(wal.frames) ELSE tip + 1)
         /\ \A i \in 1..Len(wal'.frames) :
              i # tip + 1 => i \in 1..Len(wal.frames) /\ wal'.frames[i] = Frame(i)
         /\ LET new == wal'.frames[tip + 1]
            IN /\ new.page = p /\ new.commit = size /\ new.gen = wal.gen
               /\ new.body = IF tip < Len(wal.frames) THEN Frame(tip + 1).body ELSE NoPage
               /\ Len(new.sum) = tip + 1
               /\ \A k \in 1..tip : new.sum[k] = Cell(Frame(k))
               /\ new.sum[tip + 1] = <<p, size, <<p, tx>>>>
<1> DEFINE before == IF tip = 0 THEN <<>> ELSE wal.frames[tip].sum
           sum == Append(before, <<p, size, <<p, tx>>>>)
           body == IF tip < Len(wal.frames) THEN wal.frames[tip + 1].body ELSE NoPage
           frame == [page |-> p, commit |-> size, gen |-> wal.gen, sum |-> sum, body |-> body]
           length == IF tip < Len(wal.frames) THEN Len(wal.frames) ELSE tip + 1
           frames == [i \in 1..length |-> IF i = tip + 1 THEN frame ELSE wal.frames[i]]
<1>0. ClientTyped /\ LogInv
  BY DEF ClientInv
<1>1. /\ ~half /\ half' = TRUE /\ tip < MaxFrames /\ tx <= MaxTx /\ wal.gen # 0
      /\ size # 0 => Complete(p, size)
      /\ UNCHANGED <<committed, db, salts, tx, mx, tip>>
  BY DEF WriteHeader
<1>2. wal' = [wal EXCEPT !.frames = frames]
  BY DEF WriteHeader, WriteLog
<1>3. before \in Seq(Cells) /\ Len(before) = tip /\ \A k \in 1..tip : before[k] = Cell(Frame(k))
  <2>1. CASE tip = 0
    BY <2>1
  <2>2. CASE tip # 0
    <3>1. tip \in 1..tip /\ tip \in 1..Len(wal.frames)
      BY <1>0, <2>2, LogFacts
    <3>2. before = Frame(tip).sum
      BY <2>2 DEF Frame
    <3> HIDE DEF before
    <3> QED
      BY <1>0, <3>1, <3>2, FrameFacts DEF LogInv, Written
  <2> QED
    BY <2>1, <2>2
<1>4. sum \in Seq(Cells) /\ Len(sum) = tip + 1 /\ sum[tip + 1] = <<p, size, <<p, tx>>>>
      /\ \A k \in 1..tip : sum[k] = Cell(Frame(k))
  <2>1. <<p, tx>> \in Bodies /\ <<p, size, <<p, tx>>>> \in Cells /\ tip \in Nat
    BY <1>0, <1>1, Bounds, LogFacts DEF Bodies, Cells
  <2> HIDE DEF before
  <2> QED
    BY <1>3, <2>1
<1>5. body \in Bodies \cup {NoPage}
  <2>1. CASE tip < Len(wal.frames)
    <3>1. tip + 1 \in 1..Len(wal.frames)
      BY <1>0, <2>1, LogFacts
    <3> QED
      BY <1>0, <2>1, <3>1, FrameFacts DEF Frame
  <2> QED
    BY <2>1
<1>6. frame \in Frames
  <2>1. wal.gen \in 1..MaxGen
    BY <1>0, <1>1, LogFacts, Bounds
  <2> HIDE DEF sum, body
  <2> QED
    BY <1>4, <1>5, <2>1 DEF Frames
<1>7. length \in Nat /\ \A i \in 1..length : i # tip + 1 => i \in 1..Len(wal.frames)
  BY <1>0, LogFacts
<1>8. frames \in Seq(Frames) /\ Len(frames) = length
  <2>1. \A i \in 1..length : i # tip + 1 => wal.frames[i] \in Frames
    BY <1>0, <1>7, FrameFacts DEF Frame
  <2>2. \A i \in 1..length : frames[i] \in Frames
    <3> HIDE DEF frame, length
    <3> QED
      BY <1>6, <2>1
  <2> HIDE DEF frame, length
  <2> QED
    BY <1>7, <2>2
<1>9. wal' = [gen |-> wal.gen, frames |-> frames]
  <2> HIDE DEF frames
  <2> QED
    BY <1>0, <1>2, LogFacts
<1>10. wal'.gen = wal.gen /\ wal' \in Logs /\ wal'.frames = frames
  <2>1. wal.gen \in 0..MaxGen
    BY <1>0, LogFacts, Bounds
  <2> HIDE DEF frames
  <2> QED
    BY <1>8, <1>9, <2>1 DEF Logs
<1>11. tip + 1 \in 1..length /\ frames[tip + 1] = frame
  <2>1. tip + 1 \in 1..length
    BY <1>0, LogFacts
  <2> HIDE DEF frame, length
  <2> QED
    BY <2>1
<1>12. \A i \in 1..length : i # tip + 1 => frames[i] = Frame(i)
  <2> HIDE DEF frame, length
  <2> QED
    BY DEF Frame
<1>13. /\ frame.page = p /\ frame.commit = size /\ frame.gen = wal.gen /\ frame.sum = sum
       /\ frame.body = body
  <2> HIDE DEF sum, body
  <2> QED
    OBVIOUS
<1>14. body = IF tip < Len(wal.frames) THEN Frame(tip + 1).body ELSE NoPage
  BY DEF Frame
<1>15. LET new == wal'.frames[tip + 1]
       IN /\ new.page = p /\ new.commit = size /\ new.gen = wal.gen
          /\ new.body = IF tip < Len(wal.frames) THEN Frame(tip + 1).body ELSE NoPage
          /\ Len(new.sum) = tip + 1
          /\ \A k \in 1..tip : new.sum[k] = Cell(Frame(k))
          /\ new.sum[tip + 1] = <<p, size, <<p, tx>>>>
  <2>1. wal'.frames[tip + 1] = frame
    BY <1>10, <1>11
  <2> HIDE DEF frame, sum, body
  <2> QED
    BY <1>4, <1>13, <1>14, <2>1
<1>16. Len(wal'.frames) = length
  <2> HIDE DEF frames, length
  <2> QED
    BY <1>8, <1>10
<1>17. \A i \in 1..Len(wal'.frames) :
         i # tip + 1 => i \in 1..Len(wal.frames) /\ wal'.frames[i] = Frame(i)
  <2> HIDE DEF frames, length
  <2> QED
    BY <1>7, <1>10, <1>12, <1>16
<1> QED
  BY <1>1, <1>10, <1>15, <1>16, <1>17

LEMMA WriteHeaderKeeps ==
  ASSUME ClientInv, NEW p \in 1..MaxDbPages, NEW size \in 0..MaxDbPages, WriteHeader(p, size)
  PROVE  ClientInv'
<1> DEFINE n == tip + 1
<1>0. ClientTyped /\ LogInv
  BY DEF ClientInv
<1>1. /\ mx \in Nat /\ tip \in Nat /\ mx <= tip /\ n \in 1..Len(wal'.frames)
      /\ Len(wal'.frames) \in Nat /\ Len(wal'.frames) <= MaxFrames
      /\ tip < Len(wal'.frames)
  <2>1. Len(wal.frames) <= MaxFrames /\ Len(wal.frames) \in Nat /\ MaxFrames \in Nat
        /\ mx \in Nat /\ tip \in Nat /\ mx <= tip
    BY <1>0, LogFacts, Bounds DEF ClientTyped, Sized
  <2>2. tip < MaxFrames
        /\ Len(wal'.frames) = (IF tip < Len(wal.frames) THEN Len(wal.frames) ELSE tip + 1)
    BY HeaderStep
  <2> QED
    BY <2>1, <2>2
<1>2. \A i \in 1..Len(wal'.frames) :
        i # n => i \in 1..Len(wal.frames) /\ wal'.frames[i] = Frame(i)
  BY HeaderStep
<1>3. \A i \in 1..tip : wal'.frames[i] = Frame(i) /\ i \in 1..Len(wal.frames)
  BY <1>1, <1>2
<1>4. UNCHANGED <<committed, db, salts, tx, mx, tip>> /\ wal'.gen = wal.gen /\ wal' \in Logs
      /\ half' = TRUE /\ wal.gen # 0
  BY HeaderStep
<1>5. LET new == wal'.frames[n]
      IN /\ new.page = p /\ new.commit = size /\ new.gen = wal.gen
         /\ new.body = IF tip < Len(wal.frames) THEN Frame(n).body ELSE NoPage
         /\ Len(new.sum) = n
         /\ \A k \in 1..tip : new.sum[k] = Cell(Frame(k))
         /\ new.sum[n] = <<p, size, <<p, tx>>>>
  BY HeaderStep
<1>6. ClientTyped'
  <2>1. Sized'
    BY <1>0, <1>1, <1>4 DEF ClientTyped, Sized
  <2> QED
    BY <1>4, <2>1 DEF ClientTyped
<1>7. Written'
  <2>1. ASSUME NEW j \in 1..tip
        PROVE  /\ wal'.frames[j].gen = wal.gen /\ wal'.frames[j].body # NoPage
               /\ Len(wal'.frames[j].sum) = j
               /\ \A k \in 1..j : wal'.frames[j].sum[k] = Cell(wal'.frames[k])
    <3>1. \A k \in 1..j : k \in 1..tip
      BY <1>1
    <3> QED
      BY <1>0, <1>3, <3>1 DEF LogInv, Written, Frame
  <2> QED
    BY <1>4, <2>1 DEF Written, Frame, Cell
<1>8. UnderWay'
  <2>1. ASSUME NEW j \in mx+1..tip
        PROVE  wal'.frames[j].commit = 0 /\ wal'.frames[j].body = <<wal'.frames[j].page, tx>>
    BY <1>0, <1>1, <1>3 DEF LogInv, UnderWay
  <2>2. tx <= MaxTx
    BY HeaderStep
  <2> QED
    BY <1>4, <2>1, <2>2 DEF UnderWay, Frame
<1>9. HeaderWritten'
  <2>1. size # 0 => Complete(p, size)'
    <3>1. \A i \in mx+1..tip : wal'.frames[i].page = wal.frames[i].page
      BY <1>1, <1>3 DEF Frame
    <3>2. {wal'.frames[i].page : i \in mx+1..tip} = {wal.frames[i].page : i \in mx+1..tip}
      BY <3>1
    <3>3. size # 0 => Complete(p, size)
      BY HeaderStep
    <3> QED
      BY <1>4, <3>2, <3>3 DEF Complete
  <2>2. \A k \in 1..tip : wal'.frames[n].sum[k] = Cell(wal'.frames[k])
    BY <1>3, <1>5
  <2>3. /\ wal'.frames[n].page = p /\ wal'.frames[n].commit = size
        /\ wal'.frames[n].gen = wal.gen /\ Len(wal'.frames[n].sum) = n
        /\ wal'.frames[n].sum[n] = <<p, size, <<p, tx>>>>
    BY <1>5
  <2>4. (n = tip + 1)' /\ tip' = tip /\ tx' = tx /\ wal'.gen = wal.gen
    BY <1>4
  <2>5. tip < Len(wal'.frames)
    BY <1>1
  <2> HIDE DEF n
  <2>6. (Frame(tip + 1).commit # 0 => Complete(Frame(tip + 1).page, Frame(tip + 1).commit))'
    BY <2>1, <2>3, <2>4 DEF Complete, Frame, n
  <2>7. (\A k \in 1..tip : Frame(tip + 1).sum[k] = Cell(Frame(k)))'
    BY <2>2, <2>4 DEF Frame, n, Cell
  <2>8. (/\ tip < Len(wal.frames)
         /\ Frame(tip + 1).gen = wal.gen
         /\ Len(Frame(tip + 1).sum) = tip + 1
         /\ Frame(tip + 1).sum[tip + 1] =
              <<Frame(tip + 1).page, Frame(tip + 1).commit, <<Frame(tip + 1).page, tx>>>>)'
    BY <2>3, <2>4, <2>5 DEF Frame, n
  <2> QED
    BY <2>6, <2>7, <2>8 DEF HeaderWritten
<1>10. \A j \in 1..Len(wal'.frames) : j <= mx \/ j > tip =>
         \/ wal'.frames[j].body = NoPage
         \/ wal'.frames[j].body[2] < tx
  <2> SUFFICES ASSUME NEW j \in 1..Len(wal'.frames), j <= mx \/ j > tip
               PROVE  wal'.frames[j].body = NoPage \/ wal'.frames[j].body[2] < tx
    OBVIOUS
  <2>1. CASE j # n
    BY <1>0, <1>2, <2>1 DEF LogInv, Old
  <2>2. CASE j = n /\ tip < Len(wal.frames)
    <3>1. n \in 1..Len(wal.frames) /\ n > tip
      BY <1>0, <1>1, <2>2, LogFacts
    <3>2. Frame(n).body = NoPage \/ Frame(n).body[2] < tx
      BY <1>0, <3>1 DEF LogInv, Old
    <3> QED
      BY <1>5, <2>2, <3>2
  <2>3. CASE j = n /\ ~(tip < Len(wal.frames))
    BY <1>5, <2>3
  <2> QED
    BY <2>1, <2>2, <2>3
<1>11. Old'
  BY <1>4, <1>10 DEF Old, Frame
<1>12. Leftover'
  <2> SUFFICES ASSUME NEW j \in 1..Len(wal'.frames), j > mx, wal'.frames[j].gen = wal.gen
               PROVE  wal'.frames[j].commit = 0 \/ wal'.frames[j].sum[j] # Cell(wal'.frames[j])
    BY <1>4 DEF Leftover, Frame, Cell
  <2>1. CASE j # n
    BY <1>0, <1>2, <2>1 DEF LogInv, Leftover
  <2>2. CASE j = n
    <3>1. wal'.frames[n].body = NoPage \/ wal'.frames[n].body[2] < tx
      BY <1>1, <1>10
    <3>2. wal'.frames[n].body # <<p, tx>>
      <4>1. <<p, tx>> # NoPage /\ <<p, tx>>[2] = tx /\ tx \in Nat /\ ~(tx < tx)
        BY <1>0, LogFacts DEF NoPage
      <4> QED
        BY <3>1, <4>1
    <3> QED
      BY <1>5, <2>2, <3>2 DEF Cell
  <2> QED
    BY <2>1, <2>2
<1>13. Generations'
  <2>1. ASSUME NEW j \in 1..Len(wal'.frames) PROVE wal'.frames[j].gen <= wal.gen
    <3>1. CASE j = n
      BY <1>0, <1>5, <3>1, LogFacts
    <3>2. CASE j # n
      BY <1>0, <1>2, <3>2 DEF LogInv, Generations
    <3> QED
      BY <3>1, <3>2
  <2> QED
    BY <1>0, <1>4, <2>1 DEF LogInv, Generations, Frame
<1>14. Complement(db)'
  <2>1. \A i \in 1..mx : wal'.frames[i] = Frame(i)
    BY <1>1, <1>3
  <2> QED
    BY <1>4, <2>1, CommittedSame
<1> QED
  BY <1>6, <1>7, <1>8, <1>9, <1>11, <1>12, <1>13, <1>14 DEF ClientInv, LogInv

\* The frames of the current transaction that hold page p, the one being
\* written included.
Latest(p) == {j \in mx+1..tip+1 : Frame(j).page = p}

LEMMA PageStep ==
  ASSUME ClientInv, WritePage
  PROVE  /\ half /\ half' = FALSE /\ tip + 1 \in 1..Len(wal.frames) /\ tip' = tip + 1
         /\ UNCHANGED <<db, salts>>
         /\ wal'.gen = wal.gen /\ wal' \in Logs /\ Len(wal'.frames) = Len(wal.frames)
         /\ \A i \in 1..Len(wal.frames) : i # tip + 1 => wal'.frames[i] = Frame(i)
         /\ LET new == wal'.frames[tip + 1]
                old == Frame(tip + 1)
            IN /\ new.page = old.page /\ new.commit = old.commit /\ new.gen = old.gen
               /\ new.sum = old.sum /\ new.body = <<old.page, tx>>
         /\ IF Frame(tip + 1).commit = 0 THEN UNCHANGED <<committed, tx, mx, window>>
            ELSE /\ committed' = [p \in 1..Frame(tip + 1).commit |->
                                    IF Latest(p) # {} THEN <<p, tx>> ELSE committed[p]]
                 /\ window' = IF window = {} THEN {} ELSE window \cup {committed'}
                 /\ tx' = tx + 1 /\ mx' = tip + 1
<1> DEFINE n == tip + 1
           f == wal.frames[n]
           frame == [f EXCEPT !.body = <<f.page, tx>>]
           frames == [wal.frames EXCEPT ![n] = frame]
           new == [wal EXCEPT !.frames[n].body = <<f.page, tx>>]
<1>0. ClientTyped /\ LogInv
  BY DEF ClientInv
<1>1. half /\ half' = FALSE /\ UNCHANGED <<db, salts>> /\ tip' = n /\ wal' = new
  BY DEF WritePage, WriteLog
<1>2. n \in 1..Len(wal.frames) /\ tx <= MaxTx
  BY <1>0, <1>1, LogFacts DEF LogInv, HeaderWritten, UnderWay
<1>3. f \in Frames /\ f.page \in 1..MaxDbPages
  BY <1>0, <1>2, FrameFacts, Bounds DEF Frame
<1>4. <<f.page, tx>> \in Bodies
  BY <1>0, <1>2, <1>3, LogFacts, Bounds DEF Bodies
<1>5. /\ frame \in Frames /\ frame.page = f.page /\ frame.commit = f.commit /\ frame.gen = f.gen
      /\ frame.sum = f.sum /\ frame.body = <<f.page, tx>>
  <2> HIDE DEF f
  <2> QED
    BY <1>3, <1>4 DEF Frames
<1>6. frames \in Seq(Frames) /\ Len(frames) = Len(wal.frames) /\ frames[n] = frame
      /\ \A i \in 1..Len(wal.frames) : i # n => frames[i] = Frame(i)
  <2>1. wal.frames \in Seq(Frames)
    BY <1>0, LogFacts
  <2> HIDE DEF frame
  <2> QED
    BY <1>2, <1>5, <2>1 DEF Frame
<1>7. new.gen = wal.gen /\ new.frames = frames /\ new \in Logs
  <2>1. wal \in Logs
    BY <1>0 DEF ClientTyped, Sized
  <2>2. new = [wal EXCEPT !.frames = frames]
    BY <1>0, LogFacts
  <2> HIDE DEF frames, new
  <2> QED
    BY <1>6, <2>1, <2>2 DEF Logs
<1>8. \A p : {j \in mx+1..n : new.frames[j].page = p} = Latest(p)
  <2>1. \A j \in mx+1..n : new.frames[j].page = Frame(j).page
    <3> HIDE DEF new, frames, frame
    <3> QED
      BY <1>0, <1>2, <1>5, <1>6, <1>7, LogFacts DEF Frame
  <2> HIDE DEF new
  <2> QED
    BY <2>1 DEF Latest
<1>9. IF Frame(n).commit = 0 THEN UNCHANGED <<committed, tx, mx, window>>
      ELSE /\ committed' = [p \in 1..Frame(n).commit |->
                              IF Latest(p) # {} THEN <<p, tx>> ELSE committed[p]]
           /\ window' = IF window = {} THEN {} ELSE window \cup {committed'}
           /\ tx' = tx + 1 /\ mx' = n
  <2>1. CASE f.commit = 0
    BY <2>1 DEF WritePage, Frame
  <2>2. CASE f.commit # 0
    <3> DEFINE latest(p) == {j \in mx+1..n : new.frames[j].page = p}
               state == [p \in 1..f.commit |-> IF latest(p) # {} THEN <<p, tx>> ELSE committed[p]]
    <3>1. /\ committed' = state
          /\ window' = IF window = {} THEN {} ELSE window \cup {state}
          /\ tx' = tx + 1 /\ mx' = n
      BY <2>2 DEF WritePage
    <3>2. state = [p \in 1..f.commit |-> IF Latest(p) # {} THEN <<p, tx>> ELSE committed[p]]
      <4> HIDE DEF new, f
      <4> QED
        BY <1>8
    <3> HIDE DEF state, new
    <3> QED
      BY <2>2, <3>1, <3>2 DEF Frame
  <2> QED
    BY <2>1, <2>2
<1> HIDE DEF new, frames, frame
<1> QED
  BY <1>1, <1>2, <1>5, <1>6, <1>7, <1>9 DEF Frame

LEMMA PageFacts ==
  ASSUME ClientInv, WritePage
  PROVE  LET n == tip + 1
         IN /\ mx \in Nat /\ tip \in Nat /\ mx <= tip /\ n \in 1..Len(wal.frames)
            /\ Len(wal.frames) \in Nat /\ tx \in Nat /\ tx <= MaxTx
            /\ \A i \in 1..tip : i # n /\ i \in 1..Len(wal.frames) /\ wal'.frames[i] = Frame(i)
            /\ \A i \in 1..Len(wal.frames) :
                 /\ wal'.frames[i].page = Frame(i).page
                 /\ wal'.frames[i].commit = Frame(i).commit
                 /\ wal'.frames[i].gen = Frame(i).gen
                 /\ wal'.frames[i].sum = Frame(i).sum
            /\ wal'.frames[n].body = <<Frame(n).page, tx>>
<1>0. ClientTyped /\ LogInv
  BY DEF ClientInv
<1>1. /\ mx \in Nat /\ tip \in Nat /\ mx <= tip /\ tip + 1 \in 1..Len(wal.frames)
      /\ Len(wal.frames) \in Nat /\ tx \in Nat
  BY <1>0, PageStep, LogFacts
<1>2. tx <= MaxTx
  BY <1>0, PageStep DEF LogInv, UnderWay
<1>3. \A i \in 1..tip : i # tip + 1 /\ i \in 1..Len(wal.frames)
  BY <1>1
<1> QED
  BY <1>1, <1>2, <1>3, PageStep

LEMMA WritePageLog ==
  ASSUME ClientInv, WritePage
  PROVE  Written' /\ HeaderWritten' /\ Generations'
<1> DEFINE n == tip + 1
<1>0. ClientTyped /\ LogInv
  BY DEF ClientInv
<1>1. Written'
  <2> SUFFICES ASSUME NEW j \in 1..n
               PROVE  /\ wal'.frames[j].gen = wal.gen /\ wal'.frames[j].body # NoPage
                      /\ Len(wal'.frames[j].sum) = j
                      /\ \A k \in 1..j : wal'.frames[j].sum[k] = Cell(wal'.frames[k])
    BY PageStep DEF Written, Frame, Cell
  <2>1. CASE j # n
    <3>1. j \in 1..tip /\ \A k \in 1..j : k \in 1..tip
      BY <2>1, PageFacts
    <3> QED
      BY <1>0, <3>1, PageFacts DEF LogInv, Written
  <2>2. CASE j = n
    <3>1. /\ Frame(n).gen = wal.gen /\ Len(Frame(n).sum) = n
          /\ \A k \in 1..tip : Frame(n).sum[k] = Cell(Frame(k))
          /\ Frame(n).sum[n] = <<Frame(n).page, Frame(n).commit, <<Frame(n).page, tx>>>>
      BY <1>0, PageStep DEF LogInv, HeaderWritten
    <3>2. \A k \in 1..tip : wal'.frames[n].sum[k] = Cell(wal'.frames[k])
      BY <3>1, PageFacts
    <3>3. wal'.frames[n].sum[n] = Cell(wal'.frames[n])
      BY <3>1, PageFacts DEF Cell
    <3>4. \A k \in 1..n : k = n \/ k \in 1..tip
      BY PageFacts
    <3>5. wal'.frames[n].body # NoPage
      <4>1. wal'.frames[n].body = <<Frame(n).page, tx>>
        BY PageFacts
      <4> QED
        BY <4>1 DEF NoPage
    <3> QED
      BY <2>2, <3>1, <3>2, <3>3, <3>4, <3>5, PageFacts
  <2> QED
    BY <2>1, <2>2
<1>2. HeaderWritten'
  BY PageStep DEF HeaderWritten
<1>3. Generations'
  BY <1>0, PageStep, PageFacts DEF LogInv, Generations, Frame
<1> QED
  BY <1>1, <1>2, <1>3

\* The page of a frame that ends no transaction.
LEMMA WritePageGoesOn ==
  ASSUME ClientInv, WritePage, Frame(tip + 1).commit = 0
  PROVE  ClientInv' /\ window' = window
<1> DEFINE n == tip + 1
<1>0. ClientTyped /\ LogInv
  BY DEF ClientInv
<1>1. UNCHANGED <<committed, db, salts, tx, mx, window>> /\ tip' = n /\ half' = FALSE
      /\ wal'.gen = wal.gen /\ wal' \in Logs /\ Len(wal'.frames) = Len(wal.frames)
  BY PageStep
<1>2. ClientTyped'
  <2>1. Sized'
    BY <1>0, <1>1, PageFacts DEF ClientTyped, Sized
  <2>2. wal.gen # 0
    <3>1. half /\ half \in BOOLEAN
      BY <1>0, PageStep DEF ClientTyped
    <3> QED
      BY <1>0, <3>1 DEF ClientTyped
  <2> QED
    BY <1>1, <2>1, <2>2 DEF ClientTyped
<1>3. UnderWay'
  <2>1. ASSUME NEW j \in mx+1..n
        PROVE  wal'.frames[j].commit = 0 /\ wal'.frames[j].body = <<wal'.frames[j].page, tx>>
    <3>1. CASE j = n
      BY <3>1, PageFacts
    <3>2. CASE j # n
      <4>1. j \in mx+1..tip /\ j \in 1..tip
        BY <3>2, PageFacts
      <4> QED
        BY <1>0, <4>1, PageFacts DEF LogInv, UnderWay
    <3> QED
      BY <3>1, <3>2
  <2> QED
    BY <1>1, <2>1, PageFacts DEF UnderWay, Frame
<1>4. Old'
  <2>1. ASSUME NEW j \in 1..Len(wal.frames), j <= mx \/ j > n
        PROVE  wal'.frames[j].body = NoPage \/ wal'.frames[j].body[2] < tx
    <3>1. j # n /\ (j <= mx \/ j > tip)
      BY <2>1, PageFacts
    <3>2. wal'.frames[j] = Frame(j)
      BY <3>1, PageStep
    <3> QED
      BY <1>0, <3>1, <3>2 DEF LogInv, Old
  <2> QED
    BY <1>1, <2>1 DEF Old, Frame
<1>5. Leftover'
  <2>1. ASSUME NEW j \in 1..Len(wal.frames), j > mx, wal'.frames[j].gen = wal.gen
        PROVE  wal'.frames[j].commit = 0 \/ wal'.frames[j].sum[j] # Cell(wal'.frames[j])
    <3>1. CASE j = n
      BY <3>1, PageFacts
    <3>2. CASE j # n
      <4>1. wal'.frames[j] = Frame(j)
        BY <3>2, PageStep
      <4> QED
        BY <1>0, <2>1, <4>1 DEF LogInv, Leftover
    <3> QED
      BY <3>1, <3>2
  <2> QED
    BY <1>1, <2>1 DEF Leftover, Frame, Cell
<1>6. Complement(db)'
  <2>1. \A i \in 1..mx : wal'.frames[i] = Frame(i)
    BY PageFacts
  <2> QED
    BY <1>1, <2>1, CommittedSame
<1> QED
  BY <1>1, <1>2, <1>3, <1>4, <1>5, <1>6, WritePageLog DEF ClientInv, LogInv

\* The page of a frame that ends a transaction: the transaction is committed.
LEMMA WritePageCommits ==
  ASSUME ClientInv, WritePage, Frame(tip + 1).commit # 0
  PROVE  ClientInv' /\ window' = IF window = {} THEN {} ELSE window \cup {committed'}
<1> DEFINE n == tip + 1
           size == Frame(n).commit
<1>0. ClientTyped /\ LogInv
  BY DEF ClientInv
<1>1. /\ UNCHANGED <<db, salts>> /\ tip' = n /\ half' = FALSE /\ tx' = tx + 1 /\ mx' = n
      /\ window' = (IF window = {} THEN {} ELSE window \cup {committed'})
      /\ wal'.gen = wal.gen /\ wal' \in Logs /\ Len(wal'.frames) = Len(wal.frames)
      /\ committed' = [p \in 1..size |-> IF Latest(p) # {} THEN <<p, tx>> ELSE committed[p]]
  BY PageStep
<1>2. size \in 1..MaxDbPages /\ MaxDbPages \in Nat
  BY <1>0, FrameFacts, PageFacts, Bounds
<1>3. \A p \in 1..size : Latest(p) # {} \/ p \in DOMAIN committed
  <2> SUFFICES ASSUME NEW p \in 1..size, p \notin DOMAIN committed PROVE Latest(p) # {}
    OBVIOUS
  <2>1. Complete(Frame(n).page, size)
    BY <1>0, PageStep DEF LogInv, HeaderWritten
  <2>2. p \in {wal.frames[i].page : i \in mx+1..tip} \cup {Frame(n).page}
    BY <2>1 DEF Complete
  <2>3. CASE p = Frame(n).page
    BY <2>3, PageFacts DEF Latest
  <2>4. CASE p \in {wal.frames[i].page : i \in mx+1..tip}
    <3>1. PICK i \in mx+1..tip : p = Frame(i).page
      BY <2>4 DEF Frame
    <3>2. i \in mx+1..tip+1
      BY PageFacts
    <3> QED
      BY <3>1, <3>2 DEF Latest
  <2> QED
    BY <2>2, <2>3, <2>4
<1>4. committed' \in Seq(Bodies) /\ Len(committed') = size /\ DOMAIN committed' = 1..size
  <2>1. \A p \in 1..size : (IF Latest(p) # {} THEN <<p, tx>> ELSE committed[p]) \in Bodies
    <3> SUFFICES ASSUME NEW p \in 1..size
                 PROVE  (IF Latest(p) # {} THEN <<p, tx>> ELSE committed[p]) \in Bodies
      OBVIOUS
    <3>1. <<p, tx>> \in Bodies
      BY <1>2, PageFacts, Bounds DEF Bodies
    <3>2. p \in DOMAIN committed => committed[p] \in Bodies
      BY <1>0 DEF ClientTyped, Sized
    <3> QED
      BY <1>3, <3>1, <3>2
  <2>2. size \in Nat
    BY <1>2
  <2> HIDE DEF size
  <2> QED
    BY <1>1, <2>1, <2>2
<1>5. ClientTyped'
  <2>1. Sized'
    <3>1. size >= 1 /\ tx + 1 \in 1..MaxTx + 1 /\ n \in Nat /\ n <= Len(wal.frames)
      BY <1>2, PageFacts, Bounds
    <3>2. UNCHANGED <<db, salts>> /\ tip' = n /\ mx' = n /\ tx' = tx + 1 /\ wal' \in Logs
          /\ Len(wal'.frames) = Len(wal.frames)
      BY <1>1
    <3>3. committed' \in Seq(Bodies) /\ Len(committed') >= 1
      BY <1>4, <3>1
    <3>4. Sized
      BY <1>0 DEF ClientTyped
    <3> HIDE DEF n, size
    <3> QED
      BY <3>1, <3>2, <3>3, <3>4 DEF Sized
  <2>2. wal.gen # 0
    <3>1. half /\ half \in BOOLEAN
      BY <1>0, PageStep DEF ClientTyped
    <3> QED
      BY <1>0, <3>1 DEF ClientTyped
  <2> QED
    BY <1>1, <2>1, <2>2 DEF ClientTyped
<1>6. UnderWay'
  <2>1. n \in Nat /\ \A j : j \notin n+1..n
    BY PageFacts
  <2> HIDE DEF n
  <2> QED
    BY <1>1, <2>1 DEF UnderWay
<1>7. Old'
  <2>1. ASSUME NEW j \in 1..Len(wal.frames)
        PROVE  wal'.frames[j].body = NoPage \/ wal'.frames[j].body[2] < tx + 1
    <3>1. CASE j = n
      <4>1. wal'.frames[j].body = <<Frame(n).page, tx>> /\ tx \in Nat
        BY <3>1, PageFacts
      <4> QED
        BY <4>1
    <3>2. CASE j # n
      <4>1. wal'.frames[j] = Frame(j) /\ tx \in Nat /\ mx \in Nat /\ tip \in Nat
        BY <3>2, PageStep, PageFacts
      <4>2. CASE j <= mx \/ j > tip
        <5>1. Frame(j).body = NoPage \/ Frame(j).body[2] < tx
          BY <1>0, <4>2 DEF LogInv, Old
        <5>2. Frame(j).body = NoPage \/ Frame(j).body[2] \in Nat
          BY <1>0, FrameFacts
        <5> QED
          BY <4>1, <5>1, <5>2
      <4>3. CASE j \in mx+1..tip
        <5>1. Frame(j).body = <<Frame(j).page, tx>>
          BY <1>0, <4>3 DEF LogInv, UnderWay
        <5> QED
          BY <4>1, <5>1
      <4> QED
        BY <4>1, <4>2, <4>3
    <3> QED
      BY <3>1, <3>2
  <2> QED
    BY <1>1, <2>1 DEF Old, Frame
<1>8. Leftover'
  <2>1. ASSUME NEW j \in 1..Len(wal.frames), j > n, wal'.frames[j].gen = wal.gen
        PROVE  wal'.frames[j].commit = 0 \/ wal'.frames[j].sum[j] # Cell(wal'.frames[j])
    <3>1. j # n /\ j > mx
      BY <2>1, PageFacts
    <3>2. wal'.frames[j] = Frame(j)
      BY <3>1, PageStep
    <3> QED
      BY <1>0, <2>1, <3>1, <3>2 DEF LogInv, Leftover
  <2> QED
    BY <1>1, <2>1 DEF Leftover, Frame, Cell
<1>9. \A j \in mx+1..tip : wal'.frames[j].commit = 0
  <2> SUFFICES ASSUME NEW j \in mx+1..tip PROVE wal'.frames[j].commit = 0
    OBVIOUS
  <2>1. j \in 1..Len(wal.frames) /\ Frame(j).commit = 0
    BY <1>0, PageFacts DEF LogInv, UnderWay
  <2> QED
    BY <2>1, PageFacts
<1>10. ASSUME NEW p \in 1..size PROVE Held(db, p)'
  <2>1. \A j \in mx+1..n : wal'.frames[j].commit = 0 \/ p <= wal'.frames[j].commit
    <3> SUFFICES ASSUME NEW j \in mx+1..n
                 PROVE  wal'.frames[j].commit = 0 \/ p <= wal'.frames[j].commit
      OBVIOUS
    <3>1. j = n \/ j \in mx+1..tip
      BY PageFacts
    <3>2. wal'.frames[n].commit = size
      BY PageFacts
    <3> QED
      BY <1>9, <3>1, <3>2
  <2>2. CASE Latest(p) # {}
    <3> DEFINE i == Max(Latest(p))
    <3>1. Latest(p) \in SUBSET (0..n) /\ n \in Nat
      BY PageFacts DEF Latest
    <3>2. i \in Latest(p) /\ \A j \in Latest(p) : j <= i
      BY <2>2, <3>1, MaxOfSome
    <3> HIDE DEF i
    <3>3. i \in mx+1..n /\ Frame(i).page = p /\ i \in 1..n
      BY <3>2, PageFacts DEF Latest
    <3>4. wal'.frames[i].page = p /\ wal'.frames[i].body = <<p, tx>>
      <4>1. CASE i = n
        BY <3>3, <4>1, PageFacts
      <4>2. CASE i # n
        <5>1. i \in mx+1..tip /\ i \in 1..tip
          BY <3>3, <4>2, PageFacts
        <5> QED
          BY <1>0, <3>3, <5>1, PageFacts DEF LogInv, UnderWay
      <4> QED
        BY <4>1, <4>2
    <3>5. committed'[p] = <<p, tx>>
      <4> HIDE DEF size
      <4> QED
        BY <1>1, <2>2
    <3>6. \A j \in i..n : wal'.frames[j].commit = 0 \/ p <= wal'.frames[j].commit
      <4>1. \A j \in i..n : j \in mx+1..n
        BY <3>3, PageFacts
      <4> QED
        BY <2>1, <4>1
    <3>7. \A j \in i+1..n : wal'.frames[j].page # p
      <4> SUFFICES ASSUME NEW j \in i+1..n, wal'.frames[j].page = p PROVE FALSE
        OBVIOUS
      <4>1. j \in mx+1..n /\ j \in 1..Len(wal.frames) /\ ~(j <= i)
        BY <3>3, PageFacts
      <4>2. Frame(j).page = p
        BY <4>1, PageFacts
      <4> QED
        BY <3>2, <4>1, <4>2 DEF Latest
    <3> HIDE DEF n
    <3> QED
      BY <1>1, <3>3, <3>4, <3>5, <3>6, <3>7 DEF Held, Covers, Frame
  <2>3. CASE Latest(p) = {}
    <3>1. p \in DOMAIN committed /\ committed'[p] = committed[p]
      <4> HIDE DEF size
      <4> QED
        BY <1>1, <1>3, <2>3
    <3>2. Held(db, p)
      BY <3>1 DEF ClientInv, Complement
    <3>3. \A j \in mx+1..n : wal'.frames[j].page # p
      <4> SUFFICES ASSUME NEW j \in mx+1..n, wal'.frames[j].page = p PROVE FALSE
        OBVIOUS
      <4>1. j \in 1..Len(wal.frames)
        BY PageFacts
      <4> QED
        BY <2>3, <4>1, PageFacts DEF Latest
    <3>4. \A j \in 1..mx : wal'.frames[j] = Frame(j) /\ j \in 1..n
      BY PageFacts
    <3>5. \A i \in 1..mx : Covers(p, i)' <=> Covers(p, i)
      <4> SUFFICES ASSUME NEW i \in 1..mx PROVE Covers(p, i)' <=> Covers(p, i)
        OBVIOUS
      <4>1. \A j \in i..n : j \in i..mx \/ j \in mx+1..n
        BY PageFacts
      <4>2. \A j \in i..mx : j \in i..n /\ j \in 1..mx
        BY PageFacts
      <4> HIDE DEF n
      <4>3. ASSUME Covers(p, i) PROVE Covers(p, i)'
        BY <1>1, <2>1, <3>4, <4>1, <4>2, <4>3 DEF Covers, Frame
      <4>4. ASSUME Covers(p, i)' PROVE Covers(p, i)
        BY <1>1, <3>4, <4>2, <4>4 DEF Covers, Frame
      <4> QED
        BY <4>3, <4>4
    <3>6. CASE \E i \in 1..mx : /\ Frame(i).page = p /\ Frame(i).body = committed[p]
                               /\ Covers(p, i) /\ \A j \in i+1..mx : Frame(j).page # p
      <4>1. PICK i \in 1..mx : /\ Frame(i).page = p /\ Frame(i).body = committed[p]
                               /\ Covers(p, i) /\ \A j \in i+1..mx : Frame(j).page # p
        BY <3>6
      <4>2. \A j \in i+1..n : j \in i+1..mx \/ j \in mx+1..n
        BY PageFacts
      <4>3. \A j \in i+1..mx : j \in 1..mx
        BY PageFacts
      <4>4. \A j \in i+1..n : wal'.frames[j].page # p
        BY <3>3, <3>4, <4>1, <4>2, <4>3
      <4> HIDE DEF n
      <4> QED
        BY <1>1, <3>1, <3>4, <3>5, <4>1, <4>4 DEF Held, Frame
    <3>7. CASE /\ \A i \in 1..mx : Frame(i).page = p => ~Covers(p, i)
               /\ p \in DOMAIN db /\ db[p] = committed[p]
      <4>1. \A i \in 1..n : i \in 1..mx \/ i \in mx+1..n
        BY PageFacts
      <4>2. \A i \in 1..n : wal'.frames[i].page = p => ~Covers(p, i)'
        BY <3>3, <3>4, <3>5, <3>7, <4>1
      <4> HIDE DEF n
      <4> QED
        BY <1>1, <3>1, <3>7, <4>2 DEF Held, Frame
    <3> QED
      BY <3>2, <3>6, <3>7 DEF Held
  <2> QED
    BY <2>2, <2>3
<1>11. Complement(db)'
  <2>1. n # 0
    BY PageFacts
  <2>2. wal'.frames[n].commit = size
    BY PageFacts
  <2> HIDE DEF n, size
  <2> QED
    BY <1>1, <1>4, <1>10, <2>1, <2>2 DEF Complement, Frame
<1> QED
  BY <1>1, <1>5, <1>6, <1>7, <1>8, <1>11, WritePageLog DEF ClientInv, LogInv

-----------------------------------------------------------------------------
(* What open_database makes of an unchanged pair of files.                 *)

\* The log's own generation reaches at least to the last commit.
LEMMA CurrentFrames ==
  ASSUME ClientInv
  PROVE  /\ Current(wal) \in mx..Len(wal.frames)
         /\ \A i \in 1..Current(wal) : Frame(i).gen = wal.gen /\ Frame(i).body # NoPage
<1> DEFINE N == Len(wal.frames)
           Good(n) == \A i \in 1..n : wal.frames[i].gen = wal.gen /\ wal.frames[i].body # NoPage
           S == {0} \cup {n \in DOMAIN wal.frames : Good(n)}
<1>0. /\ ClientTyped /\ LogInv /\ N \in Nat /\ DOMAIN wal.frames = 1..N
      /\ mx \in Nat /\ tip \in Nat /\ mx <= tip /\ tip <= N
  BY LogFacts DEF ClientInv
<1>1. S \in SUBSET (0..N) /\ S # {}
  <2> HIDE DEF Good, N
  <2> QED
    BY <1>0
<1>2. Max(S) \in S /\ \A x \in S : x <= Max(S)
  <2> HIDE DEF S
  <2> QED
    BY <1>0, <1>1, MaxOfSome
<1>3. mx \in S
  <2>1. \A i \in 1..mx : i \in 1..tip
    BY <1>0
  <2>2. Good(mx)
    BY <1>0, <2>1 DEF LogInv, Written, Frame
  <2>3. mx = 0 \/ mx \in DOMAIN wal.frames
    BY <1>0
  <2> HIDE DEF Good
  <2> QED
    BY <2>2, <2>3
<1>4. Current(wal) = Max(S)
  BY DEF Current
<1>5. Good(Max(S))
  <2>1. CASE Max(S) = 0
    BY <2>1
  <2>2. CASE Max(S) # 0
    <3> HIDE DEF Good
    <3> QED
      BY <1>2, <2>2
  <2> QED
    BY <2>1, <2>2
<1>6. Max(S) \in mx..N
  <2> HIDE DEF S
  <2>1. Max(S) \in 0..N /\ mx <= Max(S)
    BY <1>1, <1>2, <1>3
  <2> QED
    BY <1>0, <2>1
<1> HIDE DEF S
<1> QED
  BY <1>4, <1>5, <1>6 DEF Frame

LEMMA MismatchIsBehind ==
  ASSUME ClientInv, NEW i \in 1..Current(wal),
         wal.frames[i].sum # [j \in 1..i |-> Cell(wal.frames[j])]
  PROVE  i \in mx+1..Len(wal.frames) /\ Frame(i).gen = wal.gen
<1>0. /\ ClientTyped /\ LogInv /\ Len(wal.frames) \in Nat
      /\ mx \in Nat /\ tip \in Nat /\ mx <= tip /\ tip <= Len(wal.frames)
  BY LogFacts DEF ClientInv
<1>1. i \in 1..Len(wal.frames) /\ Frame(i).gen = wal.gen
  BY <1>0, CurrentFrames
<1>2. ASSUME i <= mx PROVE FALSE
  <2>1. i \in 1..tip
    BY <1>0, <1>1, <1>2
  <2>2. /\ Len(Frame(i).sum) = i /\ Frame(i).sum \in Seq(Cells)
        /\ \A k \in 1..i : Frame(i).sum[k] = Cell(Frame(k))
    BY <1>0, <1>1, <2>1, FrameFacts DEF LogInv, Written
  <2>3. Frame(i).sum = [k \in 1..i |-> Frame(i).sum[k]]
    BY <2>2
  <2> QED
    BY <2>2, <2>3 DEF Frame
<1> QED
  BY <1>0, <1>1, <1>2

\* If every checksum is right, the last commit the reader sees is the last
\* commit.
LEMMA LastCommitIsMx ==
  ASSUME ClientInv, ~ChecksumMismatch(wal), mx > 0 => Frame(mx).commit = Len(committed)
  PROVE  LastCommit(wal) = mx
<1> DEFINE S == {0} \cup {i \in 1..Current(wal) : wal.frames[i].commit # 0}
<1>0. /\ ClientTyped /\ LogInv /\ Len(wal.frames) \in Nat
      /\ mx \in Nat /\ mx <= Len(wal.frames)
      /\ Len(committed) \in Nat /\ Len(committed) >= 1
  BY LogFacts DEF ClientInv
<1>1. Current(wal) \in mx..Len(wal.frames)
  BY CurrentFrames
<1>2. ASSUME NEW i \in 1..Current(wal), i > mx PROVE Frame(i).commit = 0
  <2>1. i \in 1..Len(wal.frames) /\ Frame(i).gen = wal.gen
    BY <1>0, <1>1, CurrentFrames
  <2>2. Frame(i).sum = [j \in 1..i |-> Cell(Frame(j))]
    BY DEF ChecksumMismatch, Frame
  <2>3. i \in 1..i
    BY <1>0, <1>1
  <2>4. Frame(i).sum[i] = Cell(Frame(i))
    BY <2>2, <2>3
  <2> QED
    BY <1>0, <1>2, <2>1, <2>4 DEF LogInv, Leftover
<1>3. \A x \in S : x <= mx
  BY <1>0, <1>1, <1>2 DEF Frame
<1>4. mx \in S
  BY <1>0, <1>1 DEF Frame
<1>5. S \in SUBSET (0..mx) /\ S # {}
  BY <1>0, <1>1, <1>3, <1>4
<1>6. Max(S) \in S /\ \A x \in S : x <= Max(S)
  <2> HIDE DEF S
  <2> QED
    BY <1>0, <1>5, MaxOfSome
<1>7. Max(S) = mx
  <2> HIDE DEF S
  <2>1. Max(S) \in 0..mx /\ mx <= Max(S)
    BY <1>4, <1>5, <1>6
  <2> QED
    BY <1>0, <2>1
<1> QED
  BY <1>7 DEF LastCommit

LEMMA OpenIsCommitted ==
  ASSUME ClientInv, NEW d \in Seq(Bodies), Complement(d), ~ChecksumMismatch(wal)
  PROVE  SnapshotSize(d, wal) = Len(committed) /\ Image(d, wal) = committed
<1>0. /\ ClientTyped /\ LogInv /\ Len(wal.frames) \in Nat
      /\ mx \in Nat /\ mx <= Len(wal.frames)
      /\ Len(committed) \in Nat /\ Len(committed) >= 1 /\ DOMAIN committed = 1..Len(committed)
      /\ committed \in Seq(Bodies)
  BY LogFacts DEF ClientInv, ClientTyped, Sized
<1>1. LastCommit(wal) = mx
  BY LastCommitIsMx DEF Complement
<1>2. SnapshotSize(d, wal) = Len(committed)
  BY <1>0, <1>1 DEF SnapshotSize, Complement, Frame
<1>3. \A p : Overlay(wal, p) = {i \in 1..mx : Frame(i).page = p /\ Covers(p, i)}
  BY <1>1 DEF Overlay, Covers, Frame
<1>4. ASSUME NEW p \in 1..Len(committed)
      PROVE  (IF Overlay(wal, p) # {} THEN wal.frames[Max(Overlay(wal, p))].body
              ELSE IF p <= Len(d) THEN d[p] ELSE NoPage) = committed[p]
  <2>1. Held(d, p)
    BY <1>0 DEF Complement
  <2>2. CASE \E i \in 1..mx :
               /\ Frame(i).page = p /\ Frame(i).body = committed[p] /\ Covers(p, i)
               /\ \A j \in i+1..mx : Frame(j).page # p
    <3>1. PICK i \in 1..mx :
                 /\ Frame(i).page = p /\ Frame(i).body = committed[p] /\ Covers(p, i)
                 /\ \A j \in i+1..mx : Frame(j).page # p
      BY <2>2
    <3>2. i \in Overlay(wal, p)
      BY <1>3, <3>1
    <3>3. Overlay(wal, p) \in SUBSET (0..mx)
      BY <1>0, <1>3
    <3>4. Max(Overlay(wal, p)) \in Overlay(wal, p) /\ i <= Max(Overlay(wal, p))
      BY <1>0, <3>2, <3>3, MaxOfSome
    <3>5. Max(Overlay(wal, p)) = i
      <4>1. Max(Overlay(wal, p)) \in 1..mx /\ Frame(Max(Overlay(wal, p))).page = p
        BY <1>3, <3>4
      <4> QED
        BY <1>0, <3>1, <3>4, <4>1
    <3> QED
      BY <3>1, <3>2, <3>5 DEF Frame
  <2>3. CASE /\ \A i \in 1..mx : Frame(i).page = p => ~Covers(p, i)
             /\ p \in DOMAIN d /\ d[p] = committed[p]
    <3>1. Overlay(wal, p) = {}
      BY <1>3, <2>3
    <3>2. p <= Len(d)
      BY <2>3
    <3> QED
      BY <2>3, <3>1, <3>2
  <2> QED
    BY <2>1, <2>2, <2>3 DEF Held
<1>5. Image(d, wal) = [p \in 1..Len(committed) |-> committed[p]]
  BY <1>2, <1>4 DEF Image
<1> QED
  BY <1>0, <1>2, <1>5

-----------------------------------------------------------------------------
(* The reader, whatever the client does between its steps.                 *)

ReaderTyped ==
  /\ data \in Seq(Bodies) /\ image \in Seq(Bodies) /\ window \subseteq Seq(Bodies)
  /\ copy.gen \in 0..MaxGen
  /\ try \in 1..Tries /\ floor \in 0..MaxFrames
  /\ same \subseteq {"db", "wal"}
  /\ pc \in {"sign_db", "sign_wal", "read_db", "read_header", "read_wal", "check_db",
             "check_wal", "done"}
  /\ outcome \in {"none", "read", "busy", "size_limit", "checksum_mismatch", "incomplete_page"}

\* While the database file's signature is what it was, the pages that were
\* read of it are the pages that are in it ...
DbRead ==
  /\ pc \in {"sign_db", "sign_wal"} => data = <<>>
  /\ "db" \in same /\ pc = "read_db" =>
       Len(data) <= Len(db) /\ \A k \in 1..Len(data) : data[k] = db[k]
  /\ "db" \in same /\ pc \in {"read_header", "read_wal", "check_db"} => data = db

\* ... and so are the frames that were read of the log.
WalRead ==
  /\ pc \in {"sign_db", "sign_wal", "read_db", "read_header"} => copy = NoLog
  /\ pc = "read_wal" => copy.frames \in Seq(Frames) /\ copy = [gen |-> copy.gen, frames |-> copy.frames]
  /\ "wal" \in same /\ pc = "read_wal" =>
       /\ copy.gen = wal.gen /\ Len(copy.frames) <= Len(wal.frames)
       /\ \A k \in 1..Len(copy.frames) : copy.frames[k] = wal.frames[k]
  /\ "wal" \in same /\ pc \in {"check_db", "check_wal"} =>
       copy = wal /\ (floor = mx \/ wal.gen = 0)

\* Pages found unchanged, and the log if it is found unchanged as well, hold
\* the committed state, however far a checkpoint has come in between.
PairRead == pc = "check_wal" /\ okDb /\ "wal" \in same => Complement(data)

InWindow ==
  /\ pc \notin {"sign_db", "done"} => committed \in window
  /\ pc # "done" => outcome = "none"

ReaderInv ==
  /\ ReaderTyped /\ okDb \in BOOLEAN
  /\ DbRead /\ WalRead /\ PairRead /\ InWindow
  /\ SnapshotIsCommitted /\ StaleGenerationsIgnored

SnapshotInv == ClientInv /\ ReaderInv

LEMMA ReaderInit == SnapshotInit => ReaderInv
<1> SUFFICES ASSUME SnapshotInit PROVE ReaderInv
  OBVIOUS
<1> USE DEF SnapshotInit
<1>1. ReaderTyped
  <2>1. /\ data = <<>> /\ image = <<>> /\ window = {} /\ copy.gen = 0 /\ try = 1 /\ floor = 0
        /\ same = {} /\ pc = "sign_db" /\ outcome = "none"
    BY DEF NoLog
  <2> HIDE DEF SnapshotInit
  <2> QED
    BY <2>1, Bounds DEF ReaderTyped
<1>2. DbRead /\ WalRead /\ PairRead /\ InWindow
  BY DEF DbRead, WalRead, PairRead, InWindow
<1>3. SnapshotIsCommitted /\ StaleGenerationsIgnored
  BY DEF SnapshotIsCommitted, StaleGenerationsIgnored
<1>4. okDb \in BOOLEAN
  OBVIOUS
<1> QED
  BY <1>1, <1>2, <1>3, <1>4 DEF ReaderInv

\* A step of the client, as the reader could notice it.
LEMMA ClientStep ==
  ASSUME ClientInv, Client
  PROVE  /\ ClientInv'
         /\ pc # "done" /\ UNCHANGED readerVars
         /\ same' \subseteq same
         /\ "db" \in same' => db' = db
         /\ "wal" \in same' => UNCHANGED <<wal, mx, committed>>
         /\ \/ UNCHANGED <<committed, window>>
            \/ window' = IF window = {} THEN {} ELSE window \cup {committed'}
<1>1. CASE StartLog \/ RestartLog \/ RemoveLog
  <2>1. ClientInv'
    BY <1>1, NewLogKeeps
  <2> QED
    BY <1>1, <2>1 DEF StartLog, RestartLog, RemoveLog, NewGeneration, WriteLog, Reading
<1>2. ASSUME NEW p \in 1..MaxDbPages, NEW size \in 0..MaxDbPages, WriteHeader(p, size)
      PROVE  /\ ClientInv' /\ pc # "done" /\ UNCHANGED <<readerVars, committed, window, db>>
             /\ same' = same \ {"wal"}
  <2>1. ClientInv'
    BY <1>2, WriteHeaderKeeps
  <2> QED
    BY <1>2, <2>1 DEF WriteHeader, WriteLog, Reading
<1>3. CASE WritePage
  <2>1. ClientInv' /\ (\/ UNCHANGED <<committed, window>>
                       \/ window' = IF window = {} THEN {} ELSE window \cup {committed'})
    <3>1. CASE Frame(tip + 1).commit = 0
      BY <1>3, <3>1, WritePageGoesOn, PageStep
    <3>2. CASE Frame(tip + 1).commit # 0
      BY <1>3, <3>2, WritePageCommits
    <3> QED
      BY <3>1, <3>2
  <2>2. pc # "done" /\ UNCHANGED <<readerVars, db>> /\ same' = same \ {"wal"}
    BY <1>3 DEF WritePage, WriteLog, Reading
  <2> QED
    BY <2>1, <2>2
<1>4. CASE Abandon
  <2>1. ClientInv'
    BY <1>4, AbandonKeeps
  <2> QED
    BY <1>4, <2>1 DEF Abandon, Reading
<1>5. CASE CopyBack \/ CutFile
  <2>1. ClientInv'
    BY <1>5, CheckpointKeeps
  <2>2. pc # "done" /\ UNCHANGED <<readerVars, wal, mx, committed, window>> /\ same' = same \ {"db"}
    BY <1>5 DEF CopyBack, CutFile, WriteDb, Reading
  <2> QED
    BY <2>1, <2>2
<1>6. CASE \E p \in 1..MaxDbPages, size \in 0..MaxDbPages : WriteHeader(p, size)
  <2>1. /\ ClientInv' /\ pc # "done" /\ UNCHANGED <<readerVars, committed, window, db>>
        /\ same' = same \ {"wal"}
    BY <1>2, <1>6
  <2> QED
    BY <2>1
<1> QED
  BY <1>1, <1>3, <1>4, <1>5, <1>6 DEF Client

LEMMA ClientKeeps ==
  ASSUME SnapshotInv, Client
  PROVE  SnapshotInv'
<1>0. ClientInv /\ ReaderInv
  BY DEF SnapshotInv
<1>1. ClientInv' /\ ClientTyped'
  BY <1>0, ClientStep DEF ClientInv
<1>2. pc # "done" /\ UNCHANGED <<pc, try, okDb, data, copy, outcome, image, floor>>
      /\ same' \subseteq same
  BY <1>0, ClientStep DEF readerVars
<1>3. ReaderTyped' /\ okDb' \in BOOLEAN
  <2>1. window' \subseteq Seq(Bodies)
    <3>1. committed' \in Seq(Bodies)
      BY <1>1 DEF ClientTyped, Sized
    <3>2. window \subseteq Seq(Bodies)
      BY <1>0 DEF ReaderInv, ReaderTyped
    <3> QED
      BY <1>0, <3>1, <3>2, ClientStep
  <2> QED
    BY <1>0, <1>2, <2>1 DEF ReaderInv, ReaderTyped
<1>4. DbRead'
  <2>1. "db" \in same' => "db" \in same /\ db' = db
    BY <1>0, <1>2, ClientStep
  <2> QED
    BY <1>0, <1>2, <2>1 DEF ReaderInv, DbRead
<1>5. WalRead' /\ PairRead'
  <2>1. "wal" \in same' => "wal" \in same /\ UNCHANGED <<wal, mx, committed>>
    BY <1>0, <1>2, ClientStep
  <2>2. WalRead'
    BY <1>0, <1>2, <2>1 DEF ReaderInv, WalRead
  <2>3. ASSUME "wal" \in same', Complement(data) PROVE Complement(data)'
    BY <1>2, <2>1, <2>3, ComplementSame
  <2> QED
    BY <1>0, <1>2, <2>1, <2>2, <2>3 DEF ReaderInv, PairRead
<1>6. InWindow'
  BY <1>0, <1>2, ClientStep DEF ReaderInv, InWindow
<1>7. SnapshotIsCommitted' /\ StaleGenerationsIgnored'
  BY <1>0, <1>2 DEF ReaderInv, InWindow, SnapshotIsCommitted, StaleGenerationsIgnored
<1> QED
  BY <1>1, <1>3, <1>4, <1>5, <1>6, <1>7 DEF SnapshotInv, ReaderInv

\* What is decided when the pair is found unchanged.
LEMMA OpenKeeps ==
  ASSUME SnapshotInv, pc = "check_wal", Unchanged, OpenDatabase, UNCHANGED <<window, floor, copy>>
  PROVE  /\ SnapshotIsCommitted' /\ StaleGenerationsIgnored' /\ pc' = "done"
         /\ outcome' \in {"none", "read", "busy", "size_limit", "checksum_mismatch", "incomplete_page"}
         /\ image' \in Seq(Bodies)
<1>0. /\ copy = wal /\ (floor = mx \/ wal.gen = 0) /\ ClientInv /\ Complement(data)
      /\ data \in Seq(Bodies) /\ committed \in window /\ outcome = "none" /\ image \in Seq(Bodies)
  BY DEF SnapshotInv, ReaderInv, ReaderTyped, WalRead, PairRead, InWindow, Unchanged
<1>1. ClientTyped /\ committed \in Seq(Bodies)
  BY <1>0 DEF ClientInv, ClientTyped, Sized
<1>2. CASE Finish("size_limit")
  BY <1>0, <1>2 DEF Finish, SnapshotIsCommitted, StaleGenerationsIgnored
<1>3. CASE ChecksumMismatch(copy) /\ Finish("checksum_mismatch")
  <2>1. PICK i \in 1..Current(wal) : wal.frames[i].sum # [j \in 1..i |-> Cell(wal.frames[j])]
    BY <1>0, <1>3 DEF ChecksumMismatch
  <2>2. i \in mx+1..Len(wal.frames) /\ Frame(i).gen = wal.gen
    BY <1>0, <2>1, MismatchIsBehind
  <2>3. floor = mx
    <3>1. CASE wal.gen = 0
      <4>1. Len(wal.frames) = 0
        BY <1>1, <3>1 DEF ClientTyped
      <4> QED
        BY <1>1, <2>2, <4>1, LogFacts
    <3> QED
      BY <1>0, <3>1
  <2>4. StaleGenerationsIgnored'
    BY <1>0, <2>2, <2>3 DEF StaleGenerationsIgnored, Frame
  <2> QED
    BY <1>0, <1>3, <2>4 DEF Finish, SnapshotIsCommitted
<1>4. CASE ~ChecksumMismatch(copy)
  <2>1. SnapshotSize(data, copy) = Len(committed) /\ Image(data, copy) = committed
    BY <1>0, <1>4, OpenIsCommitted
  <2>2. \A p \in 1..Len(committed) : committed[p] # NoPage
    <3>1. \A b \in Bodies : b # NoPage
      BY DEF Bodies, NoPage
    <3> QED
      BY <1>1, <3>1
  <2>3. ~(\E p \in 1..SnapshotSize(data, copy) : Image(data, copy)[p] = NoPage)
    BY <2>1, <2>2
  <2>4. Finish("size_limit") \/ (pc' = "done" /\ outcome' = "read" /\ image' = committed)
    BY <1>4, <2>1, <2>3 DEF OpenDatabase
  <2> QED
    BY <1>0, <1>1, <1>2, <2>4 DEF SnapshotIsCommitted, StaleGenerationsIgnored
<1> QED
  BY <1>2, <1>3, <1>4 DEF OpenDatabase

LEMMA ReaderKeeps ==
  ASSUME SnapshotInv, Reader
  PROVE  SnapshotInv'
<1>0. ClientInv /\ ReaderInv /\ ReaderTyped /\ ClientTyped
  BY DEF SnapshotInv, ReaderInv, ClientInv
<1>1. UNCHANGED clientVars
  BY DEF Reader, SignDb, SignWal, ReadDb, ReadHeader, ReadWal, CheckDb, CheckWal
<1>2. ClientInv'
  BY <1>0, <1>1, ClientSame DEF clientVars
<1>3. ReaderInv'
  <2> USE DEF SnapshotIsCommitted, StaleGenerationsIgnored, InWindow
  <2>1. CASE SignDb
    BY <1>0, <1>1, <2>1 DEF SignDb, ReaderInv, ReaderTyped, DbRead, WalRead, PairRead, clientVars,
         ClientTyped, Sized
  <2>2. CASE SignWal
    BY <1>0, <1>1, <2>2 DEF SignWal, Finish, ReaderInv, ReaderTyped, DbRead, WalRead, PairRead, clientVars
  <2>3. CASE ReadDb
    <3>1. CASE Len(data) < Len(db)
      <4>1. /\ data' = Append(data, db[Len(data) + 1]) /\ pc = "read_db"
            /\ UNCHANGED <<clientVars, pc, try, same, okDb, copy, outcome, image, window, floor>>
        BY <2>3, <3>1 DEF ReadDb
      <4>2. data \in Seq(Bodies) /\ db \in Seq(Bodies)
        BY <1>0 DEF ReaderTyped, ClientTyped, Sized
      <4>3. data' \in Seq(Bodies) /\ Len(data') = Len(data) + 1 /\ Len(data') <= Len(db)
            /\ data'[Len(data) + 1] = db[Len(data) + 1]
            /\ \A k \in 1..Len(data) : data'[k] = data[k]
        BY <3>1, <4>1, <4>2
      <4>4. DbRead'
        <5>1. ASSUME "db" \in same, NEW k \in 1..Len(data') PROVE data'[k] = db[k]
          <6>1. k = Len(data) + 1 \/ k \in 1..Len(data)
            BY <4>2, <4>3
          <6> QED
            BY <1>0, <4>1, <4>3, <5>1, <6>1 DEF ReaderInv, DbRead
        <5> QED
          BY <4>1, <4>3, <5>1 DEF DbRead, clientVars
      <4>5. ReaderTyped' /\ WalRead' /\ PairRead'
        BY <1>0, <4>1, <4>3 DEF ReaderInv, ReaderTyped, WalRead, PairRead, clientVars
      <4> QED
        BY <1>0, <4>1, <4>4, <4>5 DEF ReaderInv, clientVars
    <3>2. CASE ~(Len(data) < Len(db))
      <4>1. /\ pc' = "read_header" /\ pc = "read_db"
            /\ UNCHANGED <<clientVars, data, try, same, okDb, copy, outcome, image, window, floor>>
        BY <2>3, <3>2 DEF ReadDb
      <4>2. data \in Seq(Bodies) /\ db \in Seq(Bodies)
        BY <1>0 DEF ReaderTyped, ClientTyped, Sized
      <4>3. ASSUME "db" \in same PROVE data = db
        <5>1. Len(data) = Len(db) /\ \A k \in 1..Len(data) : data[k] = db[k]
          BY <1>0, <3>2, <4>1, <4>2, <4>3 DEF ReaderInv, DbRead
        <5> QED
          BY <4>2, <5>1
      <4> QED
        BY <1>0, <4>1, <4>3 DEF ReaderInv, ReaderTyped, DbRead, WalRead, PairRead, clientVars
    <3> QED
      BY <3>1, <3>2
  <2>4. CASE ReadHeader
    <3>1. /\ pc = "read_header" /\ pc' = (IF wal.gen = 0 THEN "check_db" ELSE "read_wal")
          /\ copy' = [copy EXCEPT !.gen = wal.gen]
          /\ UNCHANGED <<clientVars, try, same, okDb, data, outcome, image, window, floor>>
      BY <2>4 DEF ReadHeader
    <3>2. copy = NoLog
      BY <1>0, <3>1 DEF ReaderInv, WalRead
    <3>3. copy' = [gen |-> wal.gen, frames |-> <<>>]
      BY <3>1, <3>2 DEF NoLog
    <3>4. wal.gen = 0 => copy' = wal
      BY <1>0, <3>3, LogFacts DEF ClientTyped
    <3>5. /\ copy'.frames = <<>> /\ copy'.frames \in Seq(Frames) /\ Len(copy'.frames) = 0
          /\ copy'.gen = wal.gen /\ copy'.gen \in 0..MaxGen
          /\ copy' = [gen |-> copy'.gen, frames |-> copy'.frames]
      BY <1>0, <3>3, LogFacts, Bounds
    <3>6. WalRead'
      <4>1. Len(copy'.frames) <= Len(wal.frames) /\ \A k \in 1..Len(copy'.frames) : FALSE
        BY <1>0, <3>5, LogFacts
      <4> QED
        BY <3>1, <3>4, <3>5, <4>1 DEF WalRead, clientVars
    <3>7. ReaderTyped' /\ DbRead' /\ PairRead'
      BY <1>0, <3>1, <3>5 DEF ReaderInv, ReaderTyped, DbRead, PairRead, clientVars
    <3> QED
      BY <1>0, <3>1, <3>6, <3>7 DEF ReaderInv, clientVars
  <2>5. CASE ReadWal
    <3> DEFINE i == Len(copy.frames) + 1
    <3>1. /\ pc = "read_wal" /\ floor' = mx
          /\ UNCHANGED <<clientVars, try, same, okDb, data, outcome, image, window>>
          /\ IF i <= Len(wal.frames)
             THEN copy' = [copy EXCEPT !.frames = Append(@, wal.frames[i])] /\ pc' = pc
             ELSE pc' = "check_db" /\ copy' = copy
      BY <2>5 DEF ReadWal
    <3>2. /\ copy.frames \in Seq(Frames) /\ copy = [gen |-> copy.gen, frames |-> copy.frames]
          /\ copy.gen \in 0..MaxGen /\ wal.frames \in Seq(Frames)
          /\ wal = [gen |-> wal.gen, frames |-> wal.frames]
      BY <1>0, <3>1, LogFacts DEF ReaderInv, ReaderTyped, WalRead
    <3>3. copy'.gen = copy.gen /\ copy'.gen \in 0..MaxGen
      BY <3>1, <3>2
    <3>4. mx \in 0..MaxFrames
      BY <1>0, Bounds DEF ClientTyped, Sized
    <3>5. ReaderTyped' /\ DbRead' /\ PairRead'
      BY <1>0, <3>1, <3>3, <3>4 DEF ReaderInv, ReaderTyped, DbRead, PairRead, clientVars
    <3>6. WalRead'
      <4>1. CASE i <= Len(wal.frames)
        <5>1. i \in 1..Len(wal.frames) /\ wal.frames[i] \in Frames
          BY <3>2, <4>1
        <5>2. copy' = [gen |-> copy.gen, frames |-> Append(copy.frames, wal.frames[i])]
          <6> HIDE DEF i
          <6> QED
            BY <3>1, <3>2, <4>1
        <5>3. copy'.frames = Append(copy.frames, wal.frames[i]) /\ copy'.gen = copy.gen
              /\ copy' = [gen |-> copy'.gen, frames |-> copy'.frames]
          <6> HIDE DEF i
          <6> QED
            BY <5>2
        <5>4. /\ copy'.frames \in Seq(Frames) /\ Len(copy'.frames) = i
              /\ copy'.frames[i] = wal.frames[i]
              /\ \A k \in 1..Len(copy.frames) : copy'.frames[k] = copy.frames[k]
              /\ \A k \in 1..i : k = i \/ k \in 1..Len(copy.frames)
          BY <3>2, <5>1, <5>3
        <5>5. ASSUME "wal" \in same
              PROVE  \A k \in 1..i : copy'.frames[k] = wal.frames[k]
          <6>1. \A k \in 1..Len(copy.frames) : copy.frames[k] = wal.frames[k]
            BY <1>0, <3>1, <5>5 DEF ReaderInv, WalRead
          <6> HIDE DEF i
          <6> QED
            BY <5>4, <6>1
        <5>6. "wal" \in same => copy.gen = wal.gen
          BY <1>0, <3>1 DEF ReaderInv, WalRead
        <5> HIDE DEF i
        <5> QED
          BY <3>1, <4>1, <5>3, <5>4, <5>5, <5>6 DEF WalRead, clientVars
      <4>2. CASE ~(i <= Len(wal.frames))
        <5>1. ASSUME "wal" \in same PROVE copy = wal
          <6>1. /\ copy.gen = wal.gen /\ Len(copy.frames) <= Len(wal.frames)
                /\ \A k \in 1..Len(copy.frames) : copy.frames[k] = wal.frames[k]
            BY <1>0, <3>1, <5>1 DEF ReaderInv, WalRead
          <6>2. Len(copy.frames) = Len(wal.frames)
            BY <3>2, <4>2, <6>1
          <6>3. copy.frames = wal.frames
            BY <3>2, <6>1, <6>2
          <6> QED
            BY <3>2, <6>1, <6>3
        <5> QED
          BY <3>1, <4>2, <5>1 DEF WalRead, clientVars
      <4> QED
        BY <4>1, <4>2
    <3> QED
      BY <1>0, <3>1, <3>5, <3>6 DEF ReaderInv, clientVars
  <2>6. CASE CheckDb
    <3>1. /\ pc = "check_db" /\ okDb' = ("db" \in same) /\ pc' = "check_wal"
          /\ UNCHANGED <<clientVars, try, same, data, copy, outcome, image, window, floor>>
      BY <2>6 DEF CheckDb
    <3>2. ASSUME "db" \in same PROVE Complement(data)
      BY <1>0, <3>1, <3>2 DEF ReaderInv, DbRead, ClientInv
    <3>3. ASSUME Complement(data) PROVE Complement(data)'
      BY <3>1, <3>3, ComplementSame DEF clientVars
    <3>4. PairRead'
      BY <3>1, <3>2, <3>3 DEF PairRead
    <3>5. ReaderTyped' /\ DbRead' /\ WalRead'
      BY <1>0, <3>1 DEF ReaderInv, ReaderTyped, DbRead, WalRead, clientVars
    <3>6. okDb' \in BOOLEAN
      BY <3>1
    <3> QED
      BY <1>0, <3>1, <3>4, <3>5, <3>6 DEF ReaderInv, clientVars
  <2>7. CASE CheckWal
    <3>1. CASE /\ Unchanged /\ OpenDatabase
               /\ UNCHANGED <<try, data, copy, same, okDb, window, floor>>
      <4>1. /\ SnapshotIsCommitted' /\ StaleGenerationsIgnored' /\ pc' = "done"
            /\ outcome' \in {"none", "read", "busy", "size_limit", "checksum_mismatch", "incomplete_page"}
            /\ image' \in Seq(Bodies)
        BY <2>7, <3>1, OpenKeeps DEF CheckWal
      <4> QED
        BY <1>0, <3>1, <4>1 DEF ReaderInv, ReaderTyped, DbRead, WalRead, PairRead
    <3>2. CASE /\ Finish("busy") /\ UNCHANGED <<try, data, copy, same, okDb, window, floor>>
      BY <1>0, <3>2 DEF Finish, ReaderInv, ReaderTyped, DbRead, WalRead, PairRead
    <3>3. CASE /\ ~LastTry /\ try' = try + 1 /\ pc' = "sign_db"
               /\ data' = <<>> /\ copy' = NoLog /\ same' = {} /\ window' = {}
               /\ okDb' = FALSE /\ floor' = 0
               /\ UNCHANGED <<outcome, image>>
      <4>1. try' \in 1..Tries
        BY <1>0, <3>3, Bounds DEF ReaderTyped, LastTry
      <4>2. ReaderTyped'
        BY <1>0, <3>3, <4>1, Bounds DEF ReaderTyped, NoLog
      <4>3. pc = "check_wal"
        BY <2>7 DEF CheckWal
      <4> QED
        BY <1>0, <3>3, <4>2, <4>3 DEF ReaderInv, DbRead, WalRead, PairRead
    <3> QED
      BY <2>7, <3>1, <3>2, <3>3 DEF CheckWal
  <2> QED
    BY <2>1, <2>2, <2>3, <2>4, <2>5, <2>6, <2>7 DEF Reader
<1> QED
  BY <1>2, <1>3 DEF SnapshotInv

LEMMA SnapshotStep ==
  ASSUME SnapshotInv, [SnapshotNext]_snapshotVars
  PROVE  SnapshotInv'
<1>1. CASE Client
  BY <1>1, ClientKeeps
<1>2. CASE Reader
  BY <1>2, ReaderKeeps
<1>3. CASE UNCHANGED snapshotVars
  <2>1. UNCHANGED <<committed, db, wal, salts, tx, mx, tip, half>>
    BY <1>3 DEF snapshotVars, clientVars
  <2>2. UNCHANGED <<pc, try, okDb, data, copy, outcome, image, floor, same, window>>
    BY <1>3 DEF snapshotVars, readerVars
  <2>3. ClientInv'
    BY <2>1, ClientSame DEF SnapshotInv
  <2>4. ReaderInv'
    BY <2>1, <2>2, ComplementSame DEF SnapshotInv, ReaderInv, ReaderTyped, DbRead, WalRead, PairRead, InWindow,
         SnapshotIsCommitted, StaleGenerationsIgnored
  <2> QED
    BY <2>3, <2>4 DEF SnapshotInv
<1> QED
  BY <1>1, <1>2, <1>3 DEF SnapshotNext, SnapshotEnded

(* What is known of the client's log and of what the reader has read of it *)
(* holds in every reachable state.                                         *)
THEOREM SnapshotInvariant == SnapshotSpec => []SnapshotInv
<1>1. SnapshotInit => SnapshotInv
  BY ClientInit, ReaderInit DEF SnapshotInv
<1>2. SnapshotInv /\ [SnapshotNext]_snapshotVars => SnapshotInv'
  BY SnapshotStep
<1> QED
  BY <1>1, <1>2, PTL DEF SnapshotSpec

(* The reader's and the client's variables keep their types (native_db.py). *)
THEOREM SnapshotTypes == SnapshotSpec => []SnapshotTypeOK
<1>1. SnapshotInv => SnapshotTypeOK
  <2> SUFFICES ASSUME SnapshotInv PROVE SnapshotTypeOK
    OBVIOUS
  <2>0. ClientTyped /\ Sized /\ ReaderTyped /\ okDb \in BOOLEAN /\ half \in BOOLEAN
    BY DEF SnapshotInv, ClientInv, ReaderInv, ClientTyped
  <2>1. {committed, db, data, image} \cup window \subseteq Seq((1..MaxDbPages) \X (0..MaxTx))
    BY <2>0 DEF Sized, ReaderTyped, Bodies
  <2>2. {wal.gen, copy.gen, salts} \subseteq 0..MaxGen
    BY <2>0, LogFacts, Bounds DEF Sized, ReaderTyped
  <2>3. Len(wal.frames) <= MaxFrames /\ 0 <= mx /\ mx <= tip /\ tip <= Len(wal.frames)
        /\ tx \in 1..MaxTx + 1
    BY <2>0 DEF Sized
  <2> QED
    BY <2>0, <2>1, <2>2, <2>3 DEF SnapshotTypeOK, ReaderTyped
<1> QED
  BY <1>1, SnapshotInvariant, PTL

(* What open_database returns is the database as one transaction left it,  *)
(* committed at some moment of the read, and never lacks a page, for any   *)
(* number of pages, frames, transactions, log generations and attempts and *)
(* wherever the client's commits, checkpoints and restarts of the log fall *)
(* between the reads (stable_read, committed_wal).                         *)
THEOREM SnapshotIsOneState == SnapshotSpec => []SnapshotIsCommitted
<1>1. SnapshotInv => SnapshotIsCommitted
  BY DEF SnapshotInv, ReaderInv
<1> QED
  BY <1>1, SnapshotInvariant, PTL

(* A checksum is refused only when frames of the log's own generation      *)
(* follow the last commit: what earlier generations left in the file never *)
(* makes a read fail (committed_wal).                                      *)
THEOREM StaleFramesNeverFail == SnapshotSpec => []StaleGenerationsIgnored
<1>1. SnapshotInv => StaleGenerationsIgnored
  BY DEF SnapshotInv, ReaderInv
<1> QED
  BY <1>1, SnapshotInvariant, PTL
=============================================================================
