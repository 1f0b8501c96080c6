---------------------------- MODULE MemoryStore ----------------------------
(***************************************************************************)
(* The in-process store (type Memory of internal/storage/storage.go): an   *)
(* append-only list of rows, each with the revision that created it and    *)
(* the one that deleted it, and two indexes of row offsets.                *)
(*                                                                         *)
(* Write holds the mutex across both of its loops.  Here it is one action  *)
(* for taking the lock, one for each pass of a loop and one for releasing  *)
(* the lock, so that what the store promises of a whole write is a theorem *)
(* about the loops.  Readers take the same mutex: a read sees the rows     *)
(* only in the states where no write is under way (Readable).              *)
(*                                                                         *)
(* An index knows a relation of an object by its key, a text, and no part  *)
(* of that text is refused a separator: two relations of two objects may   *)
(* have one key (Texts tells when).  What the store does not tell apart is *)
(* one Entry, and everything here is said of entries.                      *)
(***************************************************************************)
EXTENDS Relationships

CONSTANTS Tuples,        \* the relationship tuples that may be written
          MaxRevision,   \* bound: writes stop at this revision
          MaxBatch       \* bound: the length of the two lists of one write

ASSUME MemoryMaxRevisionAssumption == MaxRevision \in Nat

ASSUME MemoryMaxBatchAssumption == MaxBatch \in Nat

ASSUME MemoryTuplesAssumption ==
    \A t \in Tuples : t = Tuple(t.object, t.relation, t.subject)

VARIABLES head,          \* Memory.head
          rows,          \* Memory.rows
          index,         \* Memory.index: offsets by object and relation
          reverse,       \* Memory.reverse: offsets by subject
          phase,         \* where Write is; "idle" when the mutex is free
          adding,        \* its argument add
          removing,      \* its argument remove
          next           \* the position of the loop in its list

dataVars == <<head, rows, index, reverse>>

writerVars == <<phase, adding, removing, next>>

vars == <<head, rows, index, reverse, phase, adding, removing, next>>

(* key(): the separators are written, whatever the three parts hold.       *)
Key(object, relation) == object.type \o ":" \o object.id \o "#" \o relation

IndexKey(t) == Key(t.object, t.relation)

Keys == {IndexKey(t) : t \in Tuples}

Subjects == {t.subject : t \in Tuples}

Batches == UNION {[1..n -> Tuples] : n \in 0..MaxBatch}

(* The tuples that Write cannot tell from t: it compares the key and the   *)
(* subject of a row, and nothing else.                                     *)
Alike(t) == {u \in Tuples : IndexKey(u) = IndexKey(t) /\ u.subject = t.subject}

(* One of them stands for all; t itself, if it is the only one.            *)
Entry == [t \in Tuples |-> CHOOSE u \in Alike(t) : TRUE]

EntriesOf(tuples) == {Entry[t] : t \in tuples}

(* No other relation of any object has the key of t.                       *)
OwnsKey(t) == \A u \in Tuples : IndexKey(u) = IndexKey(t) => KeyOf(u) = KeyOf(t)

Owned(tuples) == {u \in tuples : OwnsKey(u)}

Offsets == 1..Len(rows)

(* 0 stands for "not deleted". *)
RowType == [tuple : Tuples, created : Nat, deleted : Nat]

(* Type invariant.  Memory: offsets are positions of rows, and no row is  *)
(* created or deleted by a revision that does not exist yet.               *)
TypeOK ==
    /\ head \in 0..MaxRevision
    /\ rows \in Seq(RowType)
    /\ \A i \in Offsets : rows[i].created \in 1..head /\ rows[i].deleted \in 0..head
    /\ index \in [Keys -> SUBSET Offsets]
    /\ reverse \in [Subjects -> SUBSET Offsets]
    /\ phase \in {"idle", "remove", "add"}
    /\ phase # "idle" => head > 0
    /\ adding \in Seq(Tuples)
    /\ removing \in Seq(Tuples)
    /\ next \in Nat \ {0}

----------------------------------------------------------------------------
IsLive(r) == r.deleted = 0

(* Visible iff it existed by rev and had not yet been deleted at rev. *)
IsVisible(r, rev) == r.created <= rev /\ (r.deleted = 0 \/ r.deleted > rev)

(* Variant: the loops compare keys and not subjects.                       *)
MatchesOfKey(t) == {i \in index[IndexKey(t)] : IsLive(rows[i])}

(* The offsets of the rows that the loops over index[key] act on: the      *)
(* object and the relation of a row are not compared.                      *)
LiveMatches(t) ==
    {i \in index[IndexKey(t)] : IsLive(rows[i]) /\ rows[i].tuple.subject = t.subject}

(* Variant: a live row does not stop the second loop.                      *)
NeverDuplicate(t) == FALSE

IsDuplicate(t) == LiveMatches(t) # {}

(* Variant: deleted is the last revision in which the row lives.           *)
TombstoneTooEarly(r) == [r EXCEPT !.deleted = head - 1]

Tombstone(r) == [r EXCEPT !.deleted = head]

NewRow(t) == [tuple |-> t, created |-> head, deleted |-> 0]

(* Variant: the indexes get the offset of the row before.                  *)
AppendRowOffByOne(t) ==
    /\ rows' = Append(rows, NewRow(t))
    /\ index' = [index EXCEPT ![IndexKey(t)] = @ \cup {Len(rows)}]
    /\ reverse' = [reverse EXCEPT ![t.subject] = @ \cup {Len(rows)}]

(* Variant: the reverse index is forgotten.                                *)
AppendRowForward(t) ==
    /\ rows' = Append(rows, NewRow(t))
    /\ index' = [index EXCEPT ![IndexKey(t)] = @ \cup {Len(rows) + 1}]
    /\ UNCHANGED reverse

(* Variant: the row is stamped with the revision before.                   *)
AppendRowBackdated(t) ==
    /\ rows' = Append(rows, [NewRow(t) EXCEPT !.created = head - 1])
    /\ index' = [index EXCEPT ![IndexKey(t)] = @ \cup {Len(rows) + 1}]
    /\ reverse' = [reverse EXCEPT ![t.subject] = @ \cup {Len(rows) + 1}]

AppendRow(t) ==
    /\ rows' = Append(rows, NewRow(t))
    /\ index' = [index EXCEPT ![IndexKey(t)] = @ \cup {Len(rows) + 1}]
    /\ reverse' = [reverse EXCEPT ![t.subject] = @ \cup {Len(rows) + 1}]

----------------------------------------------------------------------------
Init ==
    /\ head = 0
    /\ rows = << >>
    /\ index = [k \in Keys |-> {}]
    /\ reverse = [s \in Subjects |-> {}]
    /\ phase = "idle"
    /\ adding = << >>
    /\ removing = << >>
    /\ next = 1

(* Write takes the mutex and claims the next revision. *)
BeginWrite(add, remove) ==
    /\ phase = "idle"
    /\ head < MaxRevision
    /\ head' = head + 1
    /\ phase' = "remove"
    /\ adding' = add
    /\ removing' = remove
    /\ next' = 1
    /\ UNCHANGED <<rows, index, reverse>>

(* One pass of the first loop: every live row of the tuple dies now. *)
RemoveOne ==
    /\ phase = "remove"
    /\ next <= Len(removing)
    /\ LET dying == LiveMatches(removing[next])
       IN rows' = [i \in Offsets |->
                     IF i \in dying THEN Tombstone(rows[i]) ELSE rows[i]]
    /\ next' = next + 1
    /\ UNCHANGED <<head, index, reverse, phase, adding, removing>>

(* Variant: the first loop leaves out the last removal.                    *)
RemovesDoneEarly ==
    /\ phase = "remove"
    /\ next >= Len(removing)
    /\ phase' = "add"
    /\ next' = 1
    /\ UNCHANGED <<head, rows, index, reverse, adding, removing>>

RemovesDone ==
    /\ phase = "remove"
    /\ next > Len(removing)
    /\ phase' = "add"
    /\ next' = 1
    /\ UNCHANGED <<head, rows, index, reverse, adding, removing>>

(* One pass of the second loop: a tuple that is already live is skipped. *)
AddDuplicate ==
    /\ phase = "add"
    /\ next <= Len(adding)
    /\ IsDuplicate(adding[next])
    /\ next' = next + 1
    /\ UNCHANGED <<head, rows, index, reverse, phase, adding, removing>>

AddRow ==
    /\ phase = "add"
    /\ next <= Len(adding)
    /\ ~ IsDuplicate(adding[next])
    /\ AppendRow(adding[next])
    /\ next' = next + 1
    /\ UNCHANGED <<head, phase, adding, removing>>

(* Write releases the mutex and returns head. *)
EndWrite ==
    /\ phase = "add"
    /\ next > Len(adding)
    /\ phase' = "idle"
    /\ adding' = << >>
    /\ removing' = << >>
    /\ next' = 1
    /\ UNCHANGED dataVars

Next ==
    \/ \E add, remove \in Batches : BeginWrite(add, remove)
    \/ RemoveOne
    \/ RemovesDone
    \/ AddDuplicate
    \/ AddRow
    \/ EndWrite

Spec == Init /\ [][Next]_vars

----------------------------------------------------------------------------
(* The readers. *)

Readable == phase = "idle"

Read(rev, object, relation) ==
    {rows[i].tuple : i \in {j \in index[Key(object, relation)] :
                              IsVisible(rows[j], rev)}}

(* Variant: rows that have been deleted since are left out.                *)
ReadLiveBySubject(rev, subject, relation) ==
    {rows[i].tuple : i \in {j \in reverse[subject] :
                              /\ relation \in {NoRelation, rows[j].tuple.relation}
                              /\ IsVisible(rows[j], rev) /\ IsLive(rows[j])}}

(* Relation NoRelation matches every relation. *)
ReadBySubject(rev, subject, relation) ==
    {rows[i].tuple : i \in {j \in reverse[subject] :
                              /\ relation \in {NoRelation, rows[j].tuple.relation}
                              /\ IsVisible(rows[j], rev)}}

----------------------------------------------------------------------------
(* The state of VersionedStore that this one stands for: the revision that *)
(* a write under way has claimed does not exist for anyone else yet.       *)

CommittedHead == IF Readable THEN head ELSE head - 1

VisibleAt(rev) ==
    {Entry[rows[i].tuple] : i \in {j \in Offsets : IsVisible(rows[j], rev)}}

Abstract == INSTANCE VersionedStore
    WITH head <- CommittedHead,
         history <- [rev \in 0..CommittedHead |-> VisibleAt(rev)]

----------------------------------------------------------------------------
(* Properties.                                                             *)

(* Memory.index and Memory.reverse hold the offsets of exactly the rows of *)
(* their key, also between the two appends of Write: a row that one of the *)
(* indexes misses would be seen by Check and not by ListObjects, or by     *)
(* neither.                                                                *)
IndexesExact ==
    /\ \A k \in Keys : index[k] = {i \in Offsets : IndexKey(rows[i].tuple) = k}
    /\ \A s \in Subjects : reverse[s] = {i \in Offsets : rows[i].tuple.subject = s}

(* A row lives in at least one revision, and                               *)
(* two rows of one entry never live at the same revision: however writes   *)
(* repeat, revoke and grant again, the older row died no later than the    *)
(* newer one was created.  Hence no revision shows a tuple twice and one   *)
(* removal always revokes.                                                 *)
LifetimesDisjoint ==
    /\ \A i \in Offsets : IsLive(rows[i]) \/ rows[i].created < rows[i].deleted
    /\ \A i, j \in Offsets :
          i < j /\ Entry[rows[i].tuple] = Entry[rows[j].tuple]
            => rows[i].deleted \in 1..rows[j].created

(* What the two loops of Write have done so far, told by the entries that  *)
(* the revision being written shows.  Removals are finished before the     *)
(* first addition: no row of this revision exists while they run.          *)
Processed(batch, n) == {Entry[batch[i]] : i \in 1..n}

WriteProgress ==
    /\ phase = "remove" =>
         /\ next <= Len(removing) + 1
         /\ \A i \in Offsets : rows[i].created < head
         /\ VisibleAt(head) = VisibleAt(head - 1) \ Processed(removing, next - 1)
    /\ phase = "add" =>
         /\ next <= Len(adding) + 1
         /\ VisibleAt(head) = (VisibleAt(head - 1) \ Processed(removing, Len(removing)))
                                 \cup Processed(adding, next - 1)

(* When the mutex is free, Read and ReadBySubject return, in the past, at  *)
(* the head and beyond it, each entry of the revision asked for that has   *)
(* the key or the subject, as a tuple that was written under it.  Where a  *)
(* relation shares its key with no other, they return exactly the tuples   *)
(* of the revision, ReadBySubject by relation as well.                     *)
ReadsAgree ==
    Readable =>
      \A rev \in 0..(head + 1) : \A t \in Tuples :
        /\ EntriesOf(Read(rev, t.object, t.relation))
             = {u \in Abstract!World(rev) : IndexKey(u) = IndexKey(t)}
        /\ EntriesOf(ReadBySubject(rev, t.subject, NoRelation))
             = Abstract!ReadBySubject(rev, t.subject, NoRelation)
        /\ OwnsKey(t) =>
             Read(rev, t.object, t.relation) = Abstract!Read(rev, t.object, t.relation)
        /\ \A relation \in {NoRelation, t.relation} :
             Owned(ReadBySubject(rev, t.subject, relation))
               = Owned(Abstract!ReadBySubject(rev, t.subject, relation))

(* No step of a write changes what a read of an earlier revision returns   *)
(* ("a read at an older revision still sees the world as it was").         *)
HistoryImmutable ==
    [][\A rev \in 0..CommittedHead : VisibleAt(rev)' = VisibleAt(rev)]_vars

(* A write commits what it was given: its removals, then its additions, as *)
(* one new revision, however its lists overlap with each other and with    *)
(* what is stored.                                                         *)
WritesCommit ==
    [][EndWrite => Abstract!Commit(Processed(adding, Len(adding)),
                                   Processed(removing, Len(removing)))]_vars

(* No pass of the loops of Write is a change of VersionedStore by itself.  *)
ImplementsStore == Abstract!StoreSpec

=============================================================================
