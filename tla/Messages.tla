------------------------------ MODULE Messages ------------------------------
(***************************************************************************)
(* Reading the messages of one conversation (native_messages.messages),    *)
(* page after page: the shards are opened one after the other, each as a   *)
(* consistent snapshot (module Snapshot), while the client goes on to      *)
(* store and delete messages; the newest of each are merged under the      *)
(* limit.  The next page is asked for with --before, the time of the last  *)
(* message of the page.  Text and names are left out.                      *)
(***************************************************************************)
EXTENDS Integers, FiniteSets

CONSTANTS
  Shards,       \* message_0.db .. in the order in which they are read
  Rows,         \* possible messages: shard, create_time and sort_seq
  Limit,        \* --limit
  None,
  MaxChanges,   \* bound on the messages stored or deleted while pages are read
  MaxPages      \* bound on the pages

ASSUME MessagesAssumption ==
  /\ Shards \in Nat /\ MaxChanges \in Nat /\ MaxPages \in Nat
  /\ Limit \in Nat \ {0}
  /\ Rows \subseteq [shard : 1..Shards, time : Nat, seq : Nat]
  /\ IsFiniteSet(Rows)
  /\ None \notin Nat

Times == {r.time : r \in Rows}

VARIABLES
  stage,     \* "idle", "open", "done" or "failed"
  stored,    \* the messages the client has stored
  lasting,   \* those of them that were there when the first page was asked for
  since, before,   \* the filters
  next,      \* the shard that is opened next
  known,     \* a shard with a table of the conversation has been seen
  items,     \* rows fetched so far
  page,      \* the items that are returned
  earlier,   \* the items of the pages before
  edges,     \* the values of before of the pages so far
  changes    \* messages stored or deleted so far

callVars == <<stage, since, before, next, known, items, page, earlier, edges>>
pageVars == <<stored, lasting, changes, callVars>>

PageInit ==
  /\ stage = "idle"
  /\ stored \in SUBSET Rows
  /\ lasting = stored
  /\ since \in Times \cup {None}
  /\ before = None
  /\ next = 1
  /\ known = FALSE
  /\ items = {}
  /\ page = {}
  /\ earlier = {}
  /\ edges = {}
  /\ changes = 0

-----------------------------------------------------------------------------
\* ORDER BY create_time DESC, sort_seq DESC.
Newer(r, s) == r.time > s.time \/ (r.time = s.time /\ r.seq > s.seq)

\* What LIMIT n leaves of the rows; rows that are equal in order are in any.
Newest(rows, n) ==
  {top \in SUBSET rows :
     /\ Cardinality(top) = IF Cardinality(rows) < n THEN Cardinality(rows) ELSE n
     /\ \A r \in top, s \in rows \ top : ~Newer(s, r)}

\* Mutant: before is taken as inclusive.
Matches_Inclusive(r) ==
  /\ before = None \/ r.time <= before
  /\ since = None \/ r.time >= since

\* The WHERE clause.
Matches(r) ==
  /\ before = None \/ r.time < before
  /\ since = None \/ r.time >= since

\* Names and sessions are read and the conversation is found, or is not unique.
Begin ==
  /\ stage = "idle"
  /\ stage' \in {"open", "failed"}
  /\ lasting' = IF earlier = {} THEN stored ELSE lasting
  /\ UNCHANGED <<stored, changes, since, before, next, known, items, page, earlier, edges>>

\* Mutant: no further shard is opened once there are enough items.
Open_Enough ==
  /\ stage = "open" /\ next <= Shards
  /\ LET here == {r \in stored : r.shard = next} IN
     /\ known' \in {TRUE, known \/ here # {}}
     /\ IF Cardinality(items) >= Limit THEN UNCHANGED items
        ELSE \E top \in Newest({r \in here : Matches(r)}, Limit) : items' = items \cup top
  /\ next' = next + 1
  /\ UNCHANGED <<stage, stored, lasting, changes, since, before, page, earlier, edges>>

\* One shard: its newest matching rows.  A shard may hold no table of the
\* conversation, or an empty one.
Open ==
  /\ stage = "open" /\ next <= Shards
  /\ LET here == {r \in stored : r.shard = next} IN
     /\ known' \in {TRUE, known \/ here # {}}
     /\ \E top \in Newest({r \in here : Matches(r)}, Limit) : items' = items \cup top
  /\ next' = next + 1
  /\ UNCHANGED <<stage, stored, lasting, changes, since, before, page, earlier, edges>>

\* The snapshot of a shard cannot be had, or its schema is unknown.
OpenFails ==
  /\ stage = "open" /\ next <= Shards
  /\ stage' = "failed"
  /\ UNCHANGED <<stored, lasting, changes, since, before, next, known, items, page, earlier, edges>>

\* The items are sorted and cut; without any table the call fails.
Merge ==
  /\ stage = "open" /\ next > Shards
  /\ IF known THEN stage' = "done" /\ page' \in Newest(items, Limit)
     ELSE stage' = "failed" /\ UNCHANGED page
  /\ UNCHANGED <<stored, lasting, changes, since, before, next, known, items, earlier, edges>>

\* The owner asks for the messages before the last one of the page.
NextPage ==
  /\ stage = "done" /\ page # {} /\ Cardinality(edges) + 1 < MaxPages
  /\ stage' = "idle"
  /\ \E r \in page : before' = r.time /\ \A s \in page : ~Newer(r, s)
  /\ edges' = edges \cup {before'}
  /\ earlier' = earlier \cup page
  /\ page' = {} /\ items' = {}
  /\ next' = 1
  /\ known' = FALSE
  /\ UNCHANGED <<stored, lasting, changes, since>>

\* The client receives, synchronises or deletes a message.
Change ==
  /\ stage \in {"idle", "open"} /\ changes < MaxChanges
  /\ changes' = changes + 1
  /\ \E r \in Rows :
       /\ stored' = IF r \in stored THEN stored \ {r} ELSE stored \cup {r}
       /\ lasting' = lasting \ {r}
  /\ UNCHANGED callVars

PagesEnded == stage \in {"done", "failed"} /\ UNCHANGED pageVars

PagesNext == Begin \/ Open \/ OpenFails \/ Merge \/ NextPage \/ Change \/ PagesEnded

PagesSpec == PageInit /\ [][PagesNext]_pageVars

-----------------------------------------------------------------------------
PagesTypeOK ==
  /\ stage \in {"idle", "open", "done", "failed"}
  /\ stored \subseteq Rows /\ lasting \subseteq stored
  /\ since \in Times \cup {None} /\ before \in Times \cup {None}
  /\ next \in 1..Shards + 1
  /\ known \in BOOLEAN
  /\ items \subseteq Rows /\ page \subseteq items /\ earlier \subseteq Rows
  /\ Cardinality(page) <= Limit

(* Nothing is skipped: a message that was there all the time, and is not   *)
(* before since, is on one of the pages, or is older than all of a full    *)
(* last page, or has the very second in which a page before ended.         *)
NothingIsSkipped ==
  stage = "done" =>
    \A r \in lasting :
      \/ since # None /\ r.time < since
      \/ r \in page \cup earlier
      \/ r.time \in edges
      \/ Cardinality(page) = Limit /\ \A s \in page : ~Newer(r, s)

(* No message is on two pages, although they come from different snapshots *)
(* of the shards.                                                          *)
PagesAreDisjoint == page \cap earlier = {}
=============================================================================
