----------------------------- MODULE MemberTable -----------------------------
(***************************************************************************)
(* InsertMembers (server/database/members.go), the upsert all imports and  *)
(* raffles share.  A batch is written in chunks, each by one INSERT ... ON *)
(* CONFLICT DO UPDATE.  The function opens a transaction, but executes the *)
(* chunks on the pool, so each of them commits by itself.                  *)
(*                                                                         *)
(* Of a member only the name is kept, "" for the placeholder of an RSVP    *)
(* whose member Campfire did not list.                                     *)
(***************************************************************************)
EXTENDS Integers, Sequences, FiniteSets, SequencesExt

CONSTANTS
  Members,
  Names,       \* names a member can have on Campfire
  Goroutines,  \* callers of InsertMembers
  BatchSize    \* 10,000 in the code

VARIABLES
  name,   \* name of each member with a row, "absent" without one
  call    \* the last call of each goroutine

table == <<name, call>>

Entry == [id : Members, name : Names \cup {""}]

Columns == Names \cup {"", "absent"}

\* What is left of the argument of a call, and the argument itself.
Calls == [pc : {"idle", "insert", "committed"}, batch : Seq(Entry), whole : Seq(Entry)]

NoCall == [pc |-> "idle", batch |-> <<>>, whole |-> <<>>]

TypeOK ==
  /\ name \in [Members -> Columns]
  /\ call \in [Goroutines -> Calls]

Init ==
  /\ name \in [Members -> Columns]
  /\ call = [g \in Goroutines |-> NoCall]

\* An empty batch is nothing to do.
InsertMembers(g, b) ==
  /\ call[g].pc \in {"idle", "committed"}
  /\ call' = [call EXCEPT ![g] =
                [pc |-> IF b = <<>> THEN "committed" ELSE "insert", batch |-> b, whole |-> b]]
  /\ UNCHANGED name

Smaller(m, n) == IF m < n THEN m ELSE n

Chunk(b) == SubSeq(b, 1, Smaller(Len(b), BatchSize))

Rest(b) == SubSeq(b, Smaller(Len(b), BatchSize) + 1, Len(b))

\* One statement cannot update a row twice.
Insertable(chunk) ==
  \A i, j \in DOMAIN chunk : chunk[i].id = chunk[j].id => i = j

\* Mutant: empty fields are written like the others.
OverwriteWith(chunk) ==
  [m \in Members |->
     IF \E i \in DOMAIN chunk : chunk[i].id = m
       THEN chunk[CHOOSE i \in DOMAIN chunk : chunk[i].id = m].name
       ELSE name[m]]

\* COALESCE(NULLIF(EXCLUDED.name, ''), members.name)
UpsertWith(chunk) ==
  [m \in Members |->
     IF \E i \in DOMAIN chunk : chunk[i].id = m
       THEN LET new == chunk[CHOOSE i \in DOMAIN chunk : chunk[i].id = m].name
            IN  IF new = "" /\ name[m] # "absent" THEN name[m] ELSE new
       ELSE name[m]]

\* Mutant: what is left when the batch is shorter than a chunk is forgotten.
InsertFullChunk(g) ==
  /\ call[g].pc = "insert"
  /\ call[g].batch # <<>>
  /\ Insertable(Chunk(call[g].batch))
  /\ name' = IF Len(call[g].batch) < BatchSize THEN name ELSE UpsertWith(Chunk(call[g].batch))
  /\ call' = [call EXCEPT ![g].batch = Rest(@)]

InsertChunk(g) ==
  /\ call[g].pc = "insert"
  /\ call[g].batch # <<>>
  /\ Insertable(Chunk(call[g].batch))
  /\ name' = UpsertWith(Chunk(call[g].batch))
  /\ call' = [call EXCEPT ![g].batch = Rest(@)]

\* A statement fails: a member is twice in the chunk, it waits for a row of
\* a statement that waits for one of its own, or for any other reason.  The
\* chunks before it stay: the rollback finds nothing of theirs to roll back.
InsertFails(g) ==
  /\ call[g].pc = "insert"
  /\ call' = [call EXCEPT ![g] = NoCall]
  /\ UNCHANGED name

Commit(g) ==
  /\ call[g].pc = "insert"
  /\ call[g].batch = <<>>
  /\ call' = [call EXCEPT ![g].pc = "committed"]
  /\ UNCHANGED name

Next ==
  \E g \in Goroutines :
    \/ \E b \in Seq(Entry) : InsertMembers(g, b)
    \/ InsertChunk(g) \/ InsertFails(g) \/ Commit(g)

Spec == Init /\ [][Next]_table

-----------------------------------------------------------------------------
(* Properties. *)

Known(m) == name[m] \notin {"", "absent"}

\* "Fields which are an empty string will not be updated" (members.go:89): a
\* name that is known is never lost to the placeholder of another import.
NamesKept == [][\A m \in Members : Known(m) => Known(m)']_table

\* An entry is in the table, by a name if it has one.
Stored(entry) ==
  /\ name[entry.id] # "absent"
  /\ entry.name # "" => Known(entry.id)

\* A call that returned without error has stored every member of its batch,
\* by the name it gave unless a later one has replaced it.
BatchStored ==
  \A g \in Goroutines :
    call[g].pc = "committed" =>
      \A i \in DOMAIN call[g].whole : Stored(call[g].whole[i])

\* The inductive invariant behind it: what is left of a batch is its end, and
\* what is not left is stored.
MemberInv ==
  /\ TypeOK
  /\ \A g \in Goroutines :
       /\ Len(call[g].batch) <= Len(call[g].whole)
       /\ \A i \in 1..Len(call[g].batch) :
            call[g].batch[i] = call[g].whole[Len(call[g].whole) - Len(call[g].batch) + i]
       /\ \A i \in 1..(Len(call[g].whole) - Len(call[g].batch)) : Stored(call[g].whole[i])
       /\ call[g].pc = "committed" => call[g].batch = <<>>
=============================================================================
