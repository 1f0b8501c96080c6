--------------------------- MODULE PostgresStore ---------------------------
(***************************************************************************)
(* The store over Postgres (internal/storage/postgres.go): each Write is a *)
(* transaction that allocates a revision, runs one UPDATE for each removal *)
(* and one INSERT for each addition, and commits.  Transactions run        *)
(* concurrently at the isolation level that BeginTx(ctx, nil) asks for,    *)
(* READ COMMITTED: a statement sees what was committed when it began, and  *)
(* waits for the transaction that holds a row it wants.                    *)
(*                                                                         *)
(* The statements are those of the code; how the database runs them is     *)
(* modelled from its documentation.  A sequence is never rolled back, so a *)
(* failed write leaves a gap in the revisions.                             *)
(***************************************************************************)
EXTENDS Relationships, FiniteSets

CONSTANTS Tuples,        \* the relationship tuples that may be written
          MaxRevision,   \* bound: no revision above it is allocated
          Writers,       \* the connections that may write at once
          Writes         \* the writes they may ask for: [add, remove]

ASSUME PostgresMaxRevisionAssumption == MaxRevision \in Nat

ASSUME PostgresTuplesAssumption ==
    \A t \in Tuples : t = Tuple(t.object, t.relation, t.subject)

ASSUME PostgresWritesAssumption ==
    Writes \subseteq [add : Seq(Tuples), remove : Seq(Tuples)]

VARIABLES rows,          \* the committed rows of tuples
          committed,     \* the committed rows of revisions
          sequence,      \* the last value that revisions.id has given out
          txn,           \* the transaction of each connection
          met            \* the open transactions that have had company

vars == <<rows, committed, sequence, txn, met>>

(* 0 stands for "not deleted". *)
RowType == [tuple : Tuples, created : Nat, deleted : Nat]

(* phase: "remove" and "add" are the loops of Write, "update" an UPDATE    *)
(* that has taken its snapshot; found: the rows of that snapshot; killed   *)
(* and born: what the transaction has done so far, for itself alone.       *)
IdleTxn == [phase |-> "idle", rev |-> 0, adding |-> << >>, removing |-> << >>,
            next |-> 1, found |-> {}, killed |-> {}, born |-> {}]

TxnType ==
    [phase : {"idle", "remove", "update", "add"}, rev : 0..MaxRevision,
     adding : Seq(Tuples), removing : Seq(Tuples), next : Nat \ {0},
     found : SUBSET RowType, killed : SUBSET RowType, born : SUBSET Tuples]

(* Type invariant.  Postgres: a revision is committed only after the       *)
(* sequence has given it out, and rows carry revisions.                    *)
TypeOK ==
    /\ rows \subseteq RowType
    /\ sequence \in 0..MaxRevision
    /\ committed \subseteq 1..sequence
    /\ txn \in [Writers -> TxnType]
    /\ \A w \in met : w \in Writers /\ txn[w].phase # "idle"

Busy(w) == txn[w].phase # "idle"

----------------------------------------------------------------------------
IsLive(row) == row.deleted = 0

IsVisible(row, rev) == row.created <= rev /\ (row.deleted = 0 \/ row.deleted > rev)

LiveRows(t) == {row \in rows : row.tuple = t /\ IsLive(row)}

Tombstone(row, rev) == [row EXCEPT !.deleted = rev]

NewRow(t, rev) == [tuple |-> t, created |-> rev, deleted |-> 0]

(* The tuple that the loop of w has come to. *)
Current(w) ==
    IF txn[w].phase = "add" THEN txn[w].adding[txn[w].next]
                            ELSE txn[w].removing[txn[w].next]

InLoop(w, phase, batch) == txn[w].phase = phase /\ txn[w].next <= Len(batch)

(* The transactions that hold one of these rows against w.                 *)
Killers(w, held) == {x \in Writers \ {w} : txn[x].killed \cap held # {}}

(* The transactions that have inserted t and not yet committed it.         *)
Inserters(w, t) == {x \in Writers \ {w} : t \in txn[x].born}

(* Variant: an INSERT does not wait, as without idx_tuple_live_unique.     *)
UpdateWaitsOnly(w) ==
    IF txn[w].phase = "update" THEN Killers(w, txn[w].found) ELSE {}

(* Whom the current statement of w waits for.                              *)
WaitsFor(w) ==
    IF txn[w].phase = "update"
      THEN Killers(w, txn[w].found)
      ELSE IF InLoop(w, "add", txn[w].adding)
             THEN Killers(w, LiveRows(Current(w))) \cup Inserters(w, Current(w))
             ELSE {}

(* Variant: the unique index has no WHERE deleted_rev = 0.                 *)
ConflictsWithHistory(w) ==
    \/ Current(w) \in txn[w].born
    \/ {row \in rows : row.tuple = Current(w)} \ txn[w].killed # {}

(* A live row of the tuple, as the unique index tells it to w.             *)
Conflicts(w) ==
    Current(w) \in txn[w].born \/ LiveRows(Current(w)) \ txn[w].killed # {}

----------------------------------------------------------------------------
Init ==
    /\ rows = {}
    /\ committed = {}
    /\ sequence = 0
    /\ txn = [w \in Writers |-> IdleTxn]
    /\ met = {}

(* met is a history variable: no transaction looks at it.                  *)
Becomes(w, t) ==
    /\ txn' = [txn EXCEPT ![w] = t]
    /\ LET busy == {x \in Writers : txn'[x].phase # "idle"}
       IN met' = {x \in busy : x \in met \/ busy # {x}}

NewestOf(set) == CHOOSE rev \in set : \A other \in set : other <= rev

(* SELECT max(id) FROM revisions; NULL is 0. *)
DbHead == NewestOf(committed \cup {0})

(* Variant: the revision is SELECT max(id) + 1.                            *)
BeginWriteByHead(w) ==
    /\ ~ Busy(w)
    /\ sequence < MaxRevision
    /\ \E write \in Writes :
         Becomes(w, [IdleTxn EXCEPT !.phase = "remove", !.rev = DbHead + 1,
                                    !.adding = write.add, !.removing = write.remove])
    /\ UNCHANGED <<rows, committed, sequence>>

(* BeginTx, and the INSERT INTO revisions that allocates the revision.     *)
BeginWrite(w) ==
    /\ ~ Busy(w)
    /\ sequence < MaxRevision
    /\ sequence' = sequence + 1
    /\ \E write \in Writes :
         Becomes(w, [IdleTxn EXCEPT !.phase = "remove", !.rev = sequence + 1,
                                    !.adding = write.add, !.removing = write.remove])
    /\ UNCHANGED <<rows, committed>>

(* The UPDATE of one removal begins: its snapshot is what is committed now *)
(* and what the transaction itself has done.                               *)
ScanRemoval(w) ==
    /\ InLoop(w, "remove", txn[w].removing)
    /\ Becomes(w, [txn[w] EXCEPT !.phase = "update",
                                 !.found = LiveRows(Current(w)) \ txn[w].killed])
    /\ UNCHANGED <<rows, committed, sequence>>

(* Variant: the UPDATE runs on db and not on tx, in a transaction of its   *)
(* own.                                                                    *)
RemoveOutsideTxn(w) ==
    /\ txn[w].phase = "update"
    /\ WaitsFor(w) = {}
    /\ Becomes(w, [txn[w] EXCEPT !.phase = "remove", !.next = @ + 1, !.found = {}])
    /\ rows' = (rows \ txn[w].found)
                  \cup {Tombstone(row, txn[w].rev) : row \in txn[w].found \cap rows}
    /\ UNCHANGED <<committed, sequence>>

(* The UPDATE locks the rows of its snapshot, after waiting for whoever    *)
(* holds them.  A row that somebody else has deleted meanwhile no longer   *)
(* satisfies the WHERE clause; a row inserted meanwhile is not looked at.  *)
Remove(w) ==
    /\ txn[w].phase = "update"
    /\ WaitsFor(w) = {}
    /\ Becomes(w, [txn[w] EXCEPT !.phase = "remove", !.next = @ + 1, !.found = {},
                                 !.killed = @ \cup (txn[w].found \cap rows)])
    /\ UNCHANGED <<rows, committed, sequence>>

RemovesDone(w) ==
    /\ txn[w].phase = "remove"
    /\ txn[w].next > Len(txn[w].removing)
    /\ Becomes(w, [txn[w] EXCEPT !.phase = "add", !.next = 1])
    /\ UNCHANGED <<rows, committed, sequence>>

(* ON CONFLICT DO NOTHING. *)
AddConflict(w) ==
    /\ InLoop(w, "add", txn[w].adding)
    /\ WaitsFor(w) = {}
    /\ Conflicts(w)
    /\ Becomes(w, [txn[w] EXCEPT !.next = @ + 1])
    /\ UNCHANGED <<rows, committed, sequence>>

AddRow(w) ==
    /\ InLoop(w, "add", txn[w].adding)
    /\ WaitsFor(w) = {}
    /\ ~ Conflicts(w)
    /\ Becomes(w, [txn[w] EXCEPT !.next = @ + 1, !.born = @ \cup {Current(w)}])
    /\ UNCHANGED <<rows, committed, sequence>>

----------------------------------------------------------------------------
(* Variant: a removal is a DELETE. *)
PhysicalRows(t) ==
    (rows \ t.killed) \cup {NewRow(b, t.rev) : b \in t.born}

(* What tuples holds once the transaction t has committed.                 *)
RowsAfter(t) ==
    (rows \ t.killed) \cup {Tombstone(row, t.rev) : row \in t.killed}
                      \cup {NewRow(b, t.rev) : b \in t.born}

(* tx.Commit, whether or not its reply reaches Write.  *)
CommitWrite(w) ==
    /\ txn[w].phase = "add"
    /\ txn[w].next > Len(txn[w].adding)
    /\ rows' = RowsAfter(txn[w])
    /\ committed' = committed \cup {txn[w].rev}
    /\ Becomes(w, IdleTxn)
    /\ UNCHANGED sequence

(* Variant: no deferred Rollback; the locks stay with the connection.      *)
Leaked(t) == [IdleTxn EXCEPT !.killed = t.killed, !.born = t.born]

RolledBack(t) == IdleTxn

(* A statement or the commit fails, the request is cancelled, or the       *)
(* process dies: the deferred Rollback, or the loss of the connection,     *)
(* undoes all but the gap in the revisions.                                *)
Fail(w) ==
    /\ Busy(w)
    /\ Becomes(w, RolledBack(txn[w]))
    /\ UNCHANGED <<rows, committed, sequence>>

Deadlocked(set) == set # {} /\ \A x \in set : WaitsFor(x) \cap set # {}

(* The database breaks a circular wait by failing a statement of one of    *)
(* the transactions in it.                                                 *)
DeadlockVictim(w) ==
    /\ \E set \in SUBSET Writers :
         /\ w \in set
         /\ Deadlocked(set)
         /\ \A smaller \in SUBSET set : Deadlocked(smaller) => smaller = set
    /\ Fail(w)

(* What a connection does when nothing goes wrong. *)
Step(w) ==
    \/ ScanRemoval(w)
    \/ Remove(w)
    \/ RemovesDone(w)
    \/ AddConflict(w)
    \/ AddRow(w)
    \/ CommitWrite(w)

Next ==
    \E w \in Writers : BeginWrite(w) \/ Step(w) \/ Fail(w) \/ DeadlockVictim(w)

(* A statement that waits for a lock is queued before those that come      *)
(* later, so one that can run again and again does run; the database looks *)
(* for circular waits.  Nobody is obliged to begin a write, or to fail.    *)
Fairness == \A w \in Writers : SF_vars(Step(w)) /\ WF_vars(DeadlockVictim(w))

Spec == Init /\ [][Next]_vars /\ Fairness

----------------------------------------------------------------------------
(* The readers: one statement each, outside any transaction of a write.    *)

Read(rev, object, relation) ==
    {row.tuple : row \in {r \in rows : /\ KeyOf(r.tuple) = RelationKey(object, relation)
                                       /\ IsVisible(r, rev)}}

(* Relation NoRelation matches every relation. *)
ReadBySubject(rev, subject, relation) ==
    {row.tuple : row \in {r \in rows : /\ r.tuple.subject = subject
                                       /\ relation \in {NoRelation, r.tuple.relation}
                                       /\ IsVisible(r, rev)}}

VisibleAt(rev) == {row.tuple : row \in {r \in rows : IsVisible(r, rev)}}

----------------------------------------------------------------------------
(* The state of VersionedStore that this one stands for.  Gaps are closed: *)
(* the k-th revision there is the k-th committed one here.                 *)

CommittedAt(k) ==
    CHOOSE rev \in committed \cup {0} :
      Cardinality({r \in committed : r <= rev}) = k

Abstract == INSTANCE VersionedStore
    WITH head <- Cardinality(committed),
         history <- [k \in 0..Cardinality(committed) |-> VisibleAt(CommittedAt(k))]

----------------------------------------------------------------------------
(* Properties.                                                             *)

(* "At most one live row per relationship", whoever grants, revokes and    *)
(* grants it again at once: one removal always finds all there is.         *)
LiveUnique == \A t \in Tuples : Cardinality(LiveRows(t)) <= 1

(* Both halves of a write land together or not at all: no row was created  *)
(* or deleted by a write that is still running or has failed.              *)
OnlyCommitted ==
    \A row \in rows :
        row.created \in committed /\ row.deleted \in committed \cup {0}

(* The revisions below every write that is still open.                     *)
IsSettled(rev) == rev <= sequence /\ \A w \in Writers : Busy(w) => rev < txn[w].rev

(* "A read at an older revision still sees the world as it was, and        *)
(* history is never destroyed": what a read of a settled revision returns, *)
(* in either direction, never changes again, whatever commits, fails or    *)
(* waits afterwards.  Head does not wait for a revision to be settled.     *)
SettledImmutable ==
    [][\A rev \in 0..MaxRevision : IsSettled(rev) =>
         \A t \in Tuples :
            /\ Read(rev, t.object, t.relation)' = Read(rev, t.object, t.relation)
            /\ \A relation \in {NoRelation, t.relation} :
                 ReadBySubject(rev, t.subject, relation)'
                   = ReadBySubject(rev, t.subject, relation)]_vars

(* Every write commits or fails: no lock outlives its transaction, and no  *)
(* two writes that name the same tuples in different orders wait forever.  *)
WritesEnd == \A w \in Writers : Busy(w) ~> ~ Busy(w)

Listed(batch) == {batch[i] : i \in DOMAIN batch}

(* A write that runs alone commits what it was given, its removals and     *)
(* then its additions, to the revision before it, whatever raced or failed *)
(* before: also when it repeats a write whose reply was lost and that has  *)
(* been revoked since.                                                     *)
WritesCommit ==
    [][\A w \in Writers : CommitWrite(w) /\ w \notin met =>
         Abstract!Commit(Listed(txn[w].adding), Listed(txn[w].removing))]_vars

=============================================================================
