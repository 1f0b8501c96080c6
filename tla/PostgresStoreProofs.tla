------------------------ MODULE PostgresStoreProofs -------------------------
(***************************************************************************)
(* Theorems about the store over Postgres, for any tuples, writes, bounds  *)
(* and number of connections.  The inductive invariant says of each        *)
(* transaction what its locks give it, and of two of them that they share  *)
(* nothing.                                                                *)
(***************************************************************************)
EXTENDS PostgresStore, FiniteSetTheorems, TLAPS

(* A tuple has one live row at most. *)
OneLive ==
    \A r1 \in rows, r2 \in rows :
        IsLive(r1) /\ IsLive(r2) /\ r1.tuple = r2.tuple => r1 = r2

(* What holds of a transaction on its own: it has deleted live rows, and   *)
(* every live row of a tuple that it has inserted; its revision is its own *)
(* and not committed.                                                      *)
Owns(t, rws, com, seq) ==
    /\ t.killed \subseteq rws
    /\ \A row \in t.killed : IsLive(row)
    /\ \A row \in t.found : IsLive(row)
    /\ \A row \in rws : IsLive(row) /\ row.tuple \in t.born => row \in t.killed
    /\ t.phase = "idle" => t.killed = {} /\ t.born = {}
    /\ t.phase # "idle" => t.rev \in 1..seq /\ t.rev \notin com

(* Two transactions hold no row, tuple or revision in common.              *)
Apart(s, t) ==
    /\ s.killed \cap t.killed = {}
    /\ s.born \cap t.born = {}
    /\ s.phase # "idle" /\ t.phase # "idle" => s.rev # t.rev

IInv ==
    /\ TypeOK
    /\ OnlyCommitted
    /\ OneLive
    /\ \A w \in Writers : Owns(txn[w], rows, committed, sequence)
    /\ \A w \in Writers, x \in Writers : w # x => Apart(txn[w], txn[x])

----------------------------------------------------------------------------
LEMMA RowFields ==
    ASSUME NEW row \in RowType
    PROVE  row.tuple \in Tuples /\ row.created \in Nat /\ row.deleted \in Nat
BY DEF RowType

LEMMA TxnFields ==
    ASSUME NEW t \in TxnType
    PROVE  /\ t.phase \in {"idle", "remove", "update", "add"}
           /\ t.rev \in Nat
           /\ t.rev \in 0..MaxRevision
           /\ t.adding \in Seq(Tuples) /\ t.removing \in Seq(Tuples)
           /\ t.next \in Nat \ {0}
           /\ t.found \subseteq RowType /\ t.killed \subseteq RowType
           /\ t.born \subseteq Tuples
BY PostgresMaxRevisionAssumption DEF TxnType

LEMMA IdleTyped == IdleTxn \in TxnType
BY PostgresMaxRevisionAssumption DEF IdleTxn, TxnType

LEMMA Initially == Init => IInv
<1> SUFFICES ASSUME Init PROVE IInv
  OBVIOUS
<1>1. TypeOK
  BY IdleTyped, PostgresMaxRevisionAssumption DEF Init, TypeOK
<1>2. OnlyCommitted /\ OneLive
  BY DEF Init, OnlyCommitted, OneLive
<1>3. ASSUME NEW w \in Writers
      PROVE  txn[w] = IdleTxn
  BY DEF Init
<1>4. Owns(IdleTxn, rows, committed, sequence)
  BY DEF Init, Owns, IdleTxn
<1>5. Apart(IdleTxn, IdleTxn)
  BY DEF Apart, IdleTxn
<1> QED
  BY <1>1, <1>2, <1>3, <1>4, <1>5 DEF IInv

(* The history variable keeps its type, whatever becomes of a transaction. *)
LEMMA MetTyped ==
    ASSUME NEW w \in Writers, NEW t, Becomes(w, t)
    PROVE  \A x \in met' : x \in Writers /\ txn'[x].phase # "idle"
BY DEF Becomes

(* A step that leaves the tables alone keeps the invariant if what becomes *)
(* of its transaction owns what it claims and is apart from the others.    *)
LEMMA QuietStep ==
    ASSUME IInv, NEW w \in Writers, NEW t \in TxnType, Becomes(w, t),
           rows' = rows, committed' = committed,
           sequence' \in sequence..MaxRevision,
           Owns(t, rows, committed, sequence'),
           \A x \in Writers \ {w} : Apart(t, txn[x])
    PROVE  IInv'
<1>1. txn' = [txn EXCEPT ![w] = t] /\ txn \in [Writers -> TxnType]
  BY DEF Becomes, IInv, TypeOK
<1>2. sequence \in Nat /\ sequence' \in Nat /\ sequence <= sequence'
  BY PostgresMaxRevisionAssumption DEF IInv, TypeOK
<1>3. TypeOK'
  BY <1>1, <1>2, MetTyped, PostgresMaxRevisionAssumption DEF IInv, TypeOK
<1>4. OnlyCommitted' /\ OneLive'
  BY DEF IInv, OnlyCommitted, OneLive
<1>5. ASSUME NEW x \in Writers
      PROVE  Owns(txn[x], rows, committed, sequence)' 
  <2>1. CASE x = w
    BY <1>1, <2>1
  <2>2. CASE x # w
    <3>1. Owns(txn[x], rows, committed, sequence)
      BY DEF IInv
    <3>2. Owns(txn[x], rows, committed, sequence')
      BY <1>2, <3>1 DEF Owns
    <3> QED
      BY <1>1, <2>2, <3>2
  <2> QED
    BY <2>1, <2>2
<1>6. ASSUME NEW x \in Writers, NEW y \in Writers, x # y
      PROVE  Apart(txn'[x], txn'[y])
  <2>1. Apart(txn[x], txn[y])
    BY <1>6 DEF IInv
  <2>2. CASE x = w
    BY <1>1, <1>6, <2>2
  <2>3. CASE y = w
    <3>1. Apart(t, txn[x])
      BY <1>6, <2>3
    <3> QED
      BY <1>1, <1>6, <2>3, <3>1 DEF Apart
  <2>4. CASE x # w /\ y # w
    BY <1>1, <2>1, <2>4
  <2> QED
    BY <2>2, <2>3, <2>4
<1> QED
  BY <1>3, <1>4, <1>5, <1>6 DEF IInv

----------------------------------------------------------------------------
(* One lemma for each action.                                              *)

(* What the invariant says of one transaction, and of it and the others.   *)
LEMMA OfTxn ==
    ASSUME IInv, NEW w \in Writers
    PROVE  /\ txn[w] \in TxnType
           /\ Owns(txn[w], rows, committed, sequence)
           /\ \A x \in Writers \ {w} : /\ Apart(txn[w], txn[x])
                                      /\ Apart(txn[x], txn[w])
                                      /\ txn[x] \in TxnType
           /\ sequence \in sequence..MaxRevision
           /\ sequence \in Nat
           /\ rows \subseteq RowType
BY PostgresMaxRevisionAssumption DEF IInv, TypeOK

LEMMA BeginWriteStep ==
    ASSUME IInv, NEW w \in Writers, BeginWrite(w)
    PROVE  IInv'
<1>1. PICK write \in Writes :
        Becomes(w, [IdleTxn EXCEPT !.phase = "remove", !.rev = sequence + 1,
                                   !.adding = write.add, !.removing = write.remove])
  BY DEF BeginWrite
<1> DEFINE t == [IdleTxn EXCEPT !.phase = "remove", !.rev = sequence + 1,
                                !.adding = write.add, !.removing = write.remove]
<1>2. /\ sequence' = sequence + 1
      /\ sequence + 1 \in 1..MaxRevision
      /\ sequence' \in sequence..MaxRevision
      /\ committed \subseteq 1..sequence
      /\ UNCHANGED <<rows, committed>>
  BY PostgresMaxRevisionAssumption DEF BeginWrite, IInv, TypeOK
<1>3. t \in TxnType
  <2>1. write.add \in Seq(Tuples) /\ write.remove \in Seq(Tuples)
    BY PostgresWritesAssumption
  <2>2. sequence + 1 \in 0..MaxRevision
    BY <1>2, OfTxn, PostgresMaxRevisionAssumption
  <2> QED
    BY <2>1, <2>2, IdleTyped DEF TxnType
<1>4. /\ t.killed = {} /\ t.born = {} /\ t.found = {}
      /\ t.phase = "remove" /\ t.rev = sequence + 1
  BY DEF IdleTxn
<1> HIDE DEF t
<1>5. Owns(t, rows, committed, sequence')
  BY <1>2, <1>4, OfTxn DEF Owns
<1>6. ASSUME NEW x \in Writers \ {w}
      PROVE  Apart(t, txn[x])
  <2>1. Owns(txn[x], rows, committed, sequence)
    BY OfTxn
  <2>2. txn[x].phase # "idle" => txn[x].rev # sequence + 1
    BY <2>1, OfTxn DEF Owns
  <2> QED
    BY <1>4, <2>2 DEF Apart
<1>7. Becomes(w, t)
  BY <1>1 DEF t
<1> QED
  BY <1>2, <1>3, <1>5, <1>6, <1>7, QuietStep

LEMMA ScanRemovalStep ==
    ASSUME IInv, NEW w \in Writers, ScanRemoval(w)
    PROVE  IInv'
<1> DEFINE t == [txn[w] EXCEPT !.phase = "update",
                               !.found = LiveRows(Current(w)) \ txn[w].killed]
<1>1. Becomes(w, t) /\ UNCHANGED <<rows, committed, sequence>> /\ txn[w].phase = "remove"
  BY DEF ScanRemoval, InLoop
<1>2. t \in TxnType
  BY OfTxn DEF TxnType, LiveRows
<1>3. /\ t.killed = txn[w].killed /\ t.born = txn[w].born /\ t.rev = txn[w].rev
      /\ t.phase = "update" /\ \A row \in t.found : IsLive(row)
  BY OfTxn DEF TxnType, LiveRows
<1> HIDE DEF t
<1>4. Owns(t, rows, committed, sequence')
  BY <1>1, <1>3, OfTxn DEF Owns
<1>5. \A x \in Writers \ {w} : Apart(t, txn[x])
  BY <1>1, <1>3, OfTxn DEF Apart
<1> QED
  BY <1>1, <1>2, <1>4, <1>5, OfTxn, QuietStep

LEMMA RemoveStep ==
    ASSUME IInv, NEW w \in Writers, Remove(w)
    PROVE  IInv'
<1> DEFINE t == [txn[w] EXCEPT !.phase = "remove", !.next = @ + 1, !.found = {},
                               !.killed = @ \cup (txn[w].found \cap rows)]
<1>1. Becomes(w, t) /\ UNCHANGED <<rows, committed, sequence>> /\ txn[w].phase = "update"
  BY DEF Remove
<1>2. \A x \in Writers \ {w} : txn[x].killed \cap txn[w].found = {}
  BY DEF Remove, WaitsFor, Killers
<1>3. t \in TxnType
  <2>1. /\ txn[w].next + 1 \in Nat \ {0}
        /\ txn[w].killed \cup (txn[w].found \cap rows) \in SUBSET RowType
        /\ {} \in SUBSET RowType
    BY OfTxn, TxnFields
  <2> QED
    BY <2>1, OfTxn DEF TxnType
<1>4. /\ t.killed = txn[w].killed \cup (txn[w].found \cap rows)
      /\ t.born = txn[w].born /\ t.rev = txn[w].rev
      /\ t.phase = "remove" /\ t.found = {}
  BY OfTxn DEF TxnType
<1> HIDE DEF t
<1>5. Owns(t, rows, committed, sequence')
  BY <1>1, <1>4, OfTxn DEF Owns
<1>6. \A x \in Writers \ {w} : Apart(t, txn[x])
  BY <1>1, <1>2, <1>4, OfTxn DEF Apart
<1> QED
  BY <1>1, <1>3, <1>5, <1>6, OfTxn, QuietStep

LEMMA RemovesDoneStep ==
    ASSUME IInv, NEW w \in Writers, RemovesDone(w)
    PROVE  IInv'
<1> DEFINE t == [txn[w] EXCEPT !.phase = "add", !.next = 1]
<1>1. Becomes(w, t) /\ UNCHANGED <<rows, committed, sequence>> /\ txn[w].phase = "remove"
  BY DEF RemovesDone
<1>2. /\ t \in TxnType
      /\ t.killed = txn[w].killed /\ t.born = txn[w].born /\ t.rev = txn[w].rev
      /\ t.phase = "add" /\ t.found = txn[w].found
  <2>1. 1 \in Nat \ {0}
    OBVIOUS
  <2> QED
    BY <2>1, OfTxn DEF TxnType
<1> HIDE DEF t
<1>3. Owns(t, rows, committed, sequence')
  BY <1>1, <1>2, OfTxn DEF Owns
<1>4. \A x \in Writers \ {w} : Apart(t, txn[x])
  BY <1>1, <1>2, OfTxn DEF Apart
<1> QED
  BY <1>1, <1>2, <1>3, <1>4, OfTxn, QuietStep

LEMMA AddConflictStep ==
    ASSUME IInv, NEW w \in Writers, AddConflict(w)
    PROVE  IInv'
<1> DEFINE t == [txn[w] EXCEPT !.next = @ + 1]
<1>1. Becomes(w, t) /\ UNCHANGED <<rows, committed, sequence>>
  BY DEF AddConflict
<1>2. /\ t \in TxnType
      /\ t.killed = txn[w].killed /\ t.born = txn[w].born /\ t.rev = txn[w].rev
      /\ t.phase = txn[w].phase /\ t.found = txn[w].found
  <2>1. txn[w].next + 1 \in Nat \ {0}
    BY OfTxn, TxnFields
  <2> QED
    BY <2>1, OfTxn DEF TxnType
<1> HIDE DEF t
<1>3. Owns(t, rows, committed, sequence')
  BY <1>1, <1>2, OfTxn DEF Owns
<1>4. \A x \in Writers \ {w} : Apart(t, txn[x])
  BY <1>1, <1>2, OfTxn DEF Apart
<1> QED
  BY <1>1, <1>2, <1>3, <1>4, OfTxn, QuietStep

(* An insertion that neither waits nor conflicts is of a tuple whose live  *)
(* row, if it has one, this transaction has deleted.                       *)
LEMMA AddRowStep ==
    ASSUME IInv, NEW w \in Writers, AddRow(w)
    PROVE  IInv'
<1> DEFINE b == Current(w)
           t == [txn[w] EXCEPT !.next = @ + 1, !.born = @ \cup {b}]
<1>1. /\ Becomes(w, t) /\ UNCHANGED <<rows, committed, sequence>>
      /\ txn[w].phase = "add" /\ txn[w].next <= Len(txn[w].adding)
  BY DEF AddRow, InLoop
<1>2. b \in Tuples
  BY <1>1, OfTxn, TxnFields DEF Current
<1>3. \A x \in Writers \ {w} : b \notin txn[x].born
  BY <1>1 DEF AddRow, WaitsFor, Inserters
<1>4. \A row \in rows : IsLive(row) /\ row.tuple = b => row \in txn[w].killed
  BY DEF AddRow, Conflicts, LiveRows
<1> HIDE DEF b
<1>5. /\ t \in TxnType
      /\ t.killed = txn[w].killed /\ t.born = txn[w].born \cup {b}
      /\ t.rev = txn[w].rev /\ t.phase = "add" /\ t.found = txn[w].found
  <2>1. /\ txn[w].next + 1 \in Nat \ {0}
        /\ txn[w].born \cup {b} \in SUBSET Tuples
    BY <1>2, OfTxn, TxnFields
  <2> QED
    BY <1>1, <2>1, OfTxn DEF TxnType
<1> HIDE DEF t
<1>6. Owns(t, rows, committed, sequence')
  BY <1>1, <1>4, <1>5, OfTxn DEF Owns
<1>7. \A x \in Writers \ {w} : Apart(t, txn[x])
  BY <1>1, <1>3, <1>5, OfTxn DEF Apart
<1> QED
  BY <1>1, <1>5, <1>6, <1>7, OfTxn, QuietStep

LEMMA FailStep ==
    ASSUME IInv, NEW w \in Writers, Fail(w)
    PROVE  IInv'
<1>1. Becomes(w, IdleTxn) /\ UNCHANGED <<rows, committed, sequence>>
  BY DEF Fail, RolledBack
<1>2. Owns(IdleTxn, rows, committed, sequence')
  BY DEF Owns, IdleTxn
<1>3. \A x \in Writers \ {w} : Apart(IdleTxn, txn[x])
  BY DEF Apart, IdleTxn
<1> QED
  BY <1>1, <1>2, <1>3, IdleTyped, OfTxn, QuietStep

----------------------------------------------------------------------------
(* The commit.                                                             *)

(* The rows that a commit leaves: those of before that are not its own,    *)
(* those it has deleted, and those it has inserted.                        *)
LEMMA RowsOfCommit ==
    ASSUME IInv, NEW w \in Writers, CommitWrite(w)
    PROVE  /\ txn[w].phase = "add"
           /\ txn[w].rev \in 1..sequence /\ txn[w].rev \notin committed
           /\ txn[w].rev \in Nat \ {0}
           /\ committed' = committed \cup {txn[w].rev}
           /\ sequence' = sequence
           /\ txn' = [txn EXCEPT ![w] = IdleTxn]
           /\ rows' \subseteq RowType
           /\ \A row \in rows' :
                \/ row \in rows /\ row \notin txn[w].killed
                \/ \E old \in txn[w].killed :
                     /\ row = Tombstone(old, txn[w].rev)
                     /\ row.tuple = old.tuple /\ row.created = old.created
                     /\ row.deleted = txn[w].rev
                \/ /\ row.tuple \in txn[w].born /\ row = NewRow(row.tuple, txn[w].rev)
                   /\ row.created = txn[w].rev /\ row.deleted = 0
           /\ \A row \in rows \ txn[w].killed : row \in rows'
           /\ \A old \in txn[w].killed : Tombstone(old, txn[w].rev) \in rows'
<1>1. /\ txn[w].phase = "add"
      /\ rows' = RowsAfter(txn[w])
      /\ committed' = committed \cup {txn[w].rev}
      /\ sequence' = sequence
      /\ txn' = [txn EXCEPT ![w] = IdleTxn]
  BY DEF CommitWrite, Becomes
<1>2. /\ txn[w].rev \in 1..sequence /\ txn[w].rev \notin committed
      /\ txn[w].rev \in Nat \ {0}
  BY <1>1, OfTxn DEF Owns
<1>3. ASSUME NEW old \in txn[w].killed
      PROVE  LET row == Tombstone(old, txn[w].rev)
             IN /\ row \in RowType
                /\ row.tuple = old.tuple /\ row.created = old.created
                /\ row.deleted = txn[w].rev
  <2>1. old \in RowType
    BY OfTxn, TxnFields
  <2> QED
    BY <1>2, <2>1 DEF Tombstone, RowType
<1>4. ASSUME NEW t \in txn[w].born
      PROVE  LET row == NewRow(t, txn[w].rev)
             IN /\ row \in RowType
                /\ row.tuple = t /\ row.created = txn[w].rev /\ row.deleted = 0
  <2>1. t \in Tuples
    BY OfTxn, TxnFields
  <2> QED
    BY <1>2, <2>1 DEF NewRow, RowType
<1>5. ASSUME NEW row \in rows'
      PROVE  \/ row \in rows /\ row \notin txn[w].killed
             \/ \E old \in txn[w].killed : row = Tombstone(old, txn[w].rev)
             \/ \E t \in txn[w].born : row = NewRow(t, txn[w].rev)
  BY <1>1, <1>5 DEF RowsAfter
<1>6. ASSUME NEW row \in rows'
      PROVE  \/ row \in rows /\ row \notin txn[w].killed
             \/ \E old \in txn[w].killed :
                  /\ row = Tombstone(old, txn[w].rev)
                  /\ row.tuple = old.tuple /\ row.created = old.created
                  /\ row.deleted = txn[w].rev
             \/ /\ row.tuple \in txn[w].born /\ row = NewRow(row.tuple, txn[w].rev)
                /\ row.created = txn[w].rev /\ row.deleted = 0
  BY <1>3, <1>4, <1>5, <1>6
<1>7. rows' \subseteq RowType
  BY <1>3, <1>4, <1>5, OfTxn
<1>8. /\ \A row \in rows \ txn[w].killed : row \in rows'
      /\ \A old \in txn[w].killed : Tombstone(old, txn[w].rev) \in rows'
  BY <1>1 DEF RowsAfter
<1> QED
  BY <1>1, <1>2, <1>6, <1>7, <1>8

(* A row that is live after a commit was live before and not deleted by    *)
(* it, or is the one that it has inserted.                                 *)
LEMMA LiveAfterCommit ==
    ASSUME IInv, NEW w \in Writers, CommitWrite(w), NEW row \in rows', IsLive(row)
    PROVE  \/ row \in rows /\ row \notin txn[w].killed /\ row.tuple \notin txn[w].born
           \/ row.tuple \in txn[w].born /\ row = NewRow(row.tuple, txn[w].rev)
<1>1. CASE row \in rows /\ row \notin txn[w].killed
  BY <1>1, OfTxn DEF Owns
<1>2. CASE \E old \in txn[w].killed : row.deleted = txn[w].rev
  BY <1>2, RowsOfCommit DEF IsLive
<1> QED
  BY <1>1, <1>2, RowsOfCommit

LEMMA CommitStep ==
    ASSUME IInv, NEW w \in Writers, CommitWrite(w)
    PROVE  IInv'
<1>1. TypeOK'
  <2>1. committed' \subseteq 1..sequence'
    BY RowsOfCommit DEF IInv, TypeOK
  <2>2. txn' \in [Writers -> TxnType]
    BY RowsOfCommit, IdleTyped DEF IInv, TypeOK
  <2>3. \A x \in met' : x \in Writers /\ txn'[x].phase # "idle"
    BY MetTyped DEF CommitWrite
  <2> QED
    BY <2>1, <2>2, <2>3, RowsOfCommit DEF IInv, TypeOK
<1>2. OnlyCommitted'
  <2> SUFFICES ASSUME NEW row \in rows'
               PROVE  row.created \in committed' /\ row.deleted \in committed' \cup {0}
    BY DEF OnlyCommitted
  <2>1. CASE row \in rows
    BY <2>1, RowsOfCommit DEF IInv, OnlyCommitted
  <2>2. ASSUME NEW old \in txn[w].killed,
               row.created = old.created, row.deleted = txn[w].rev
        PROVE  row.created \in committed' /\ row.deleted \in committed' \cup {0}
    <3>1. old.created \in committed
      BY OfTxn DEF Owns, IInv, OnlyCommitted
    <3> QED
      BY <2>2, <3>1, RowsOfCommit
  <2>3. CASE row.created = txn[w].rev /\ row.deleted = 0
    BY <2>3, RowsOfCommit
  <2> QED
    BY <2>1, <2>2, <2>3, RowsOfCommit
<1>3. OneLive'
  <2> SUFFICES ASSUME NEW r1 \in rows', NEW r2 \in rows',
                      IsLive(r1), IsLive(r2), r1.tuple = r2.tuple
               PROVE  r1 = r2
    BY DEF OneLive
  <2>1. CASE r1.tuple \in txn[w].born
    BY <2>1, LiveAfterCommit
  <2>2. CASE r1.tuple \notin txn[w].born
    <3>1. r1 \in rows /\ r2 \in rows
      BY <2>2, LiveAfterCommit
    <3> QED
      BY <3>1 DEF IInv, OneLive
  <2> QED
    BY <2>1, <2>2
<1>4. ASSUME NEW x \in Writers
      PROVE  Owns(txn[x], rows, committed, sequence)'
  <2>1. CASE x = w
    <3>1. txn'[x] = IdleTxn
      BY <2>1, RowsOfCommit DEF IInv, TypeOK
    <3> QED
      BY <3>1 DEF Owns, IdleTxn
  <2>2. CASE x # w
    <3>1. txn'[x] = txn[x]
      BY <2>2, RowsOfCommit DEF IInv, TypeOK
    <3>2. Owns(txn[x], rows, committed, sequence) /\ Apart(txn[x], txn[w])
      BY <2>2, OfTxn
    <3>3. txn[x].killed \subseteq rows'
      BY <3>2, RowsOfCommit DEF Owns, Apart
    <3>4. ASSUME NEW row \in rows', IsLive(row), row.tuple \in txn[x].born
          PROVE  row \in txn[x].killed
      BY <3>2, <3>4, LiveAfterCommit DEF Owns, Apart
    <3>5. txn[x].phase # "idle"
            => txn[x].rev \in 1..sequence' /\ txn[x].rev \notin committed'
      BY <3>2, RowsOfCommit DEF Owns, Apart
    <3>6. Owns(txn[x], rows', committed', sequence')
      BY <3>2, <3>3, <3>4, <3>5 DEF Owns
    <3> QED
      BY <3>1, <3>6
  <2> QED
    BY <2>1, <2>2
<1>5. ASSUME NEW x \in Writers, NEW y \in Writers, x # y
      PROVE  Apart(txn'[x], txn'[y])
  <2>1. Apart(txn[x], txn[y])
    BY <1>5 DEF IInv
  <2>2. /\ txn'[x] = IF x = w THEN IdleTxn ELSE txn[x]
        /\ txn'[y] = IF y = w THEN IdleTxn ELSE txn[y]
    BY RowsOfCommit DEF IInv, TypeOK
  <2> QED
    BY <2>1, <2>2 DEF Apart, IdleTxn
<1> QED
  BY <1>1, <1>2, <1>3, <1>4, <1>5 DEF IInv

----------------------------------------------------------------------------
LEMMA NextInv == IInv /\ [Next]_vars => IInv'
<1> SUFFICES ASSUME IInv, [Next]_vars PROVE IInv'
  OBVIOUS
<1>1. CASE UNCHANGED vars
  BY <1>1 DEF vars, IInv, TypeOK, OnlyCommitted, OneLive
<1>2. ASSUME NEW w \in Writers, BeginWrite(w) \/ Step(w) \/ Fail(w) \/ DeadlockVictim(w)
      PROVE  IInv'
  <2>1. CASE BeginWrite(w)
    BY <2>1, BeginWriteStep
  <2>2. CASE Step(w)
    BY <2>2, ScanRemovalStep, RemoveStep, RemovesDoneStep, AddConflictStep, AddRowStep,
       CommitStep DEF Step
  <2>3. CASE Fail(w) \/ DeadlockVictim(w)
    BY <2>3, FailStep DEF DeadlockVictim
  <2> QED
    BY <1>2, <2>1, <2>2, <2>3
<1> QED
  BY <1>1, <1>2 DEF Next

(* The inductive invariant, whatever the transactions race for.            *)
THEOREM PostgresInvariance == Spec => []IInv
BY Initially, NextInv, PTL DEF Spec

(* The types of the tables and of the transactions; a revision is          *)
(* committed only after the sequence has given it out.                     *)
THEOREM PostgresTypeCorrect == Spec => []TypeOK
<1>1. IInv => TypeOK
  BY DEF IInv
<1> QED
  BY <1>1, PostgresInvariance, PTL

(* Nothing of a write that failed or is still running is in the tables,    *)
(* though each of its statements has run.                                  *)
THEOREM CommittedCorrect == Spec => []OnlyCommitted
<1>1. IInv => OnlyCommitted
  BY DEF IInv
<1> QED
  BY <1>1, PostgresInvariance, PTL

(* A tuple has one live row at most, which is what the unique index        *)
(* promises and what a removal relies on.                                  *)
THEOREM LiveUniqueCorrect == Spec => []LiveUnique
<1>1. ASSUME IInv, NEW t \in Tuples
      PROVE  Cardinality(LiveRows(t)) <= 1
  <2>1. CASE LiveRows(t) = {}
    BY <2>1, FS_EmptySet
  <2>2. ASSUME NEW row \in LiveRows(t)
        PROVE  Cardinality(LiveRows(t)) <= 1
    <3>1. LiveRows(t) = {row}
      BY <1>1 DEF LiveRows, IInv, OneLive
    <3> QED
      BY <3>1, FS_Singleton
  <2> QED
    BY <2>1, <2>2
<1>2. IInv => LiveUnique
  BY <1>1 DEF LiveUnique
<1> QED
  BY <1>2, PostgresInvariance, PTL

----------------------------------------------------------------------------
(* The past.                                                               *)

(* A commit of a higher revision changes what is visible at a lower one    *)
(* for no tuple.                                                           *)
LEMMA CommitKeepsPast ==
    ASSUME IInv, NEW w \in Writers, CommitWrite(w), NEW rev \in Nat, rev < txn[w].rev
    PROVE  /\ \A row \in rows : IsVisible(row, rev) =>
                \E other \in rows' : other.tuple = row.tuple /\ IsVisible(other, rev)
           /\ \A row \in rows' : IsVisible(row, rev) =>
                \E other \in rows : other.tuple = row.tuple /\ IsVisible(other, rev)
<1> DEFINE high == txn[w].rev
<1>1. high \in Nat \ {0} /\ rev < high
  BY RowsOfCommit
<1>2. ASSUME NEW old \in txn[w].killed
      PROVE  /\ old \in rows
             /\ Tombstone(old, high) \in rows'
             /\ Tombstone(old, high).tuple = old.tuple
             /\ IsVisible(Tombstone(old, high), rev) <=> IsVisible(old, rev)
  <2>1. old \in rows /\ IsLive(old) /\ old \in RowType
    BY OfTxn DEF Owns
  <2>2. /\ Tombstone(old, high).tuple = old.tuple
        /\ Tombstone(old, high).created = old.created
        /\ Tombstone(old, high).deleted = high
    BY <2>1 DEF Tombstone, RowType
  <2> QED
    BY <1>1, <2>1, <2>2, RowFields, RowsOfCommit DEF IsVisible, IsLive
<1>3. ASSUME NEW row \in rows, IsVisible(row, rev)
      PROVE  \E other \in rows' : other.tuple = row.tuple /\ IsVisible(other, rev)
  BY <1>2, <1>3, RowsOfCommit
<1>4. ASSUME NEW row \in rows', IsVisible(row, rev)
      PROVE  \E other \in rows : other.tuple = row.tuple /\ IsVisible(other, rev)
  <2>1. row.created # high
    BY <1>1, <1>4 DEF IsVisible
  <2> QED
    BY <1>2, <1>4, <2>1, RowsOfCommit
<1> QED
  BY <1>3, <1>4

(* What a read of a settled revision returns never changes, whatever       *)
(* transactions commit, fail or wait: in both directions.                  *)
THEOREM SettledCorrect == Spec => SettledImmutable
<1>1. ASSUME IInv, [Next]_vars, NEW rev \in 0..MaxRevision, IsSettled(rev), NEW t \in Tuples
      PROVE  /\ Read(rev, t.object, t.relation)' = Read(rev, t.object, t.relation)
             /\ \A relation \in {NoRelation, t.relation} :
                  ReadBySubject(rev, t.subject, relation)'
                    = ReadBySubject(rev, t.subject, relation)
  <2>1. CASE rows' = rows
    BY <2>1 DEF Read, ReadBySubject
  <2>2. ASSUME NEW w \in Writers, CommitWrite(w)
        PROVE  /\ Read(rev, t.object, t.relation)' = Read(rev, t.object, t.relation)
               /\ \A relation \in {NoRelation, t.relation} :
                    ReadBySubject(rev, t.subject, relation)'
                      = ReadBySubject(rev, t.subject, relation)
    <3>1. rev \in Nat /\ rev < txn[w].rev
      BY <1>1, <2>2, PostgresMaxRevisionAssumption DEF IsSettled, Busy, CommitWrite
    <3>2. /\ \A row \in rows : IsVisible(row, rev) =>
               \E other \in rows' : other.tuple = row.tuple /\ IsVisible(other, rev)
          /\ \A row \in rows' : IsVisible(row, rev) =>
               \E other \in rows : other.tuple = row.tuple /\ IsVisible(other, rev)
      BY <1>1, <2>2, <3>1, CommitKeepsPast
    <3> QED
      BY <3>2 DEF Read, ReadBySubject
  <2>3. \/ UNCHANGED rows
        \/ \E w \in Writers : CommitWrite(w)
    BY <1>1 DEF Next, vars, Step, BeginWrite, ScanRemoval, Remove, RemovesDone, AddConflict,
                AddRow, Fail, DeadlockVictim
  <2> QED
    BY <2>1, <2>2, <2>3
<1>2. ASSUME IInv, [Next]_vars
      PROVE  [\A rev \in 0..MaxRevision : IsSettled(rev) =>
                \A t \in Tuples :
                  /\ Read(rev, t.object, t.relation)' = Read(rev, t.object, t.relation)
                  /\ \A relation \in {NoRelation, t.relation} :
                       ReadBySubject(rev, t.subject, relation)'
                         = ReadBySubject(rev, t.subject, relation)]_vars
  BY <1>1, <1>2
<1> QED
  BY <1>2, PostgresInvariance, PTL DEF Spec, SettledImmutable

----------------------------------------------------------------------------
(* The write that runs alone.                                              *)

(* The tuples that the rows grant, and those that t has left so far.       *)
Live(rws) == {row.tuple : row \in {r \in rws : IsLive(r)}}

Left(t, rws) == {row.tuple : row \in {r \in rws : IsLive(r) /\ r \notin t.killed}}

(* The tuples of a list before its n-th.                                   *)
Named(batch, n) == {batch[i] : i \in {j \in DOMAIN batch : j < n}}

(* The snapshot of an UPDATE when nobody has committed since it was taken. *)
Snapshot(t, rws) ==
    {r \in rws : IsLive(r) /\ r.tuple = t.removing[t.next] /\ r \notin t.killed}

(* What a transaction that has had no company has made of the rows, at     *)
(* each point of the two loops.                                            *)
Done(t, rws) ==
    /\ t.phase \in {"remove", "update"} =>
         t.born = {} /\ Left(t, rws) = Live(rws) \ Named(t.removing, t.next)
    /\ t.phase = "update" =>
         t.next \in DOMAIN t.removing /\ t.found = Snapshot(t, rws)
    /\ t.phase = "add" =>
         Left(t, rws) \cup t.born
           = (Live(rws) \ Listed(t.removing)) \cup Named(t.adding, t.next)

(* The revisions of S up to rev, and the k-th of them.                     *)
UpTo(S, rev) == {r \in S : r <= rev}

NthOf(S, k) == CHOOSE rev \in S \cup {0} : Cardinality(UpTo(S, rev)) = k

(* Every count up to all of S is reached at a member, or at 0.             *)
Counts(S) ==
    \A k \in 0..Cardinality(S) : \E rev \in S \cup {0} : Cardinality(UpTo(S, rev)) = k

(* Whoever has had no company holds the newest revision, and what it has   *)
(* done is what its lists say.                                             *)
LonelyInv ==
    /\ \A w \in Writers, x \in Writers : w # x /\ Busy(w) /\ Busy(x) => w \in met
    /\ \A w \in Writers :
         Busy(w) /\ w \notin met => txn[w].rev = sequence /\ Done(txn[w], rows)
    /\ Counts(committed)

LEMMA UpToFinite ==
    ASSUME NEW S, IsFiniteSet(S), NEW rev
    PROVE  /\ IsFiniteSet(UpTo(S, rev))
           /\ Cardinality(UpTo(S, rev)) \in Nat
           /\ Cardinality(S) \in Nat
           /\ Cardinality(UpTo(S, rev)) <= Cardinality(S)
           /\ Cardinality(UpTo(S, rev)) = Cardinality(S) => UpTo(S, rev) = S
<1>1. UpTo(S, rev) \in SUBSET S
  BY DEF UpTo
<1> QED
  BY <1>1, FS_Subset, FS_CardinalityType

(* A higher member counts more. *)
LEMMA CountsRise ==
    ASSUME NEW S, IsFiniteSet(S), S \subseteq Nat \ {0}, NEW low \in Nat, NEW rev \in S, low < rev
    PROVE  Cardinality(UpTo(S, low)) < Cardinality(UpTo(S, rev))
<1>1. UpTo(S, low) \in SUBSET UpTo(S, rev) /\ rev \in UpTo(S, rev) /\ rev \notin UpTo(S, low)
  <2>1. ASSUME NEW r \in UpTo(S, low)
        PROVE  r \in UpTo(S, rev)
    BY DEF UpTo
  <2>2. rev \in Nat /\ ~ rev <= low /\ rev <= rev
    OBVIOUS
  <2> QED
    BY <2>1, <2>2 DEF UpTo
<1>2. IsFiniteSet(UpTo(S, rev))
  BY UpToFinite
<1>3. /\ Cardinality(UpTo(S, low)) <= Cardinality(UpTo(S, rev))
      /\ Cardinality(UpTo(S, low)) = Cardinality(UpTo(S, rev)) => UpTo(S, low) = UpTo(S, rev)
  BY <1>1, <1>2, FS_Subset
<1>4. Cardinality(UpTo(S, low)) \in Nat /\ Cardinality(UpTo(S, rev)) \in Nat
  BY UpToFinite
<1> QED
  BY <1>1, <1>3, <1>4

(* The k-th member is the one at which the count is k. *)
LEMMA NthUnique ==
    ASSUME NEW S, IsFiniteSet(S), S \subseteq Nat \ {0}, NEW rev \in S \cup {0}
    PROVE  NthOf(S, Cardinality(UpTo(S, rev))) = rev
<1> DEFINE k == Cardinality(UpTo(S, rev))
           nth == NthOf(S, k)
<1>1. nth \in S \cup {0} /\ Cardinality(UpTo(S, nth)) = k
  BY DEF NthOf
<1> HIDE DEF nth
<1>2. k \in Nat /\ rev \in Nat /\ nth \in Nat
  BY <1>1, UpToFinite
<1>3. ASSUME nth < rev PROVE FALSE
  <2>1. rev \in S
    BY <1>2, <1>3
  <2>2. Cardinality(UpTo(S, nth)) < k
    BY <1>2, <1>3, <2>1, CountsRise
  <2> QED
    BY <1>1, <1>2, <2>2
<1>4. ASSUME rev < nth PROVE FALSE
  <2>1. nth \in S
    BY <1>1, <1>2, <1>4
  <2>2. k < Cardinality(UpTo(S, nth))
    BY <1>2, <1>4, <2>1, CountsRise
  <2> QED
    BY <1>1, <1>2, <2>2
<1>5. nth = rev
  BY <1>2, <1>3, <1>4
<1> QED
  BY <1>5 DEF nth

LEMMA NthExists ==
    ASSUME NEW S, Counts(S), NEW k \in 0..Cardinality(S)
    PROVE  /\ NthOf(S, k) \in S \cup {0}
           /\ Cardinality(UpTo(S, NthOf(S, k))) = k
BY DEF Counts, NthOf

(* A revision that is committed late, below others, is counted among them. *)
LEMMA CountsInsert ==
    ASSUME NEW S, IsFiniteSet(S), S \subseteq Nat \ {0}, Counts(S),
           NEW new \in Nat \ {0}, new \notin S
    PROVE  Counts(S \cup {new})
<1> DEFINE T == S \cup {new}
           c == Cardinality(UpTo(S, new))
<1>1. Cardinality(T) = Cardinality(S) + 1 /\ Cardinality(S) \in Nat
  BY FS_AddElement, FS_CardinalityType
<1>2. c \in Nat /\ c <= Cardinality(S) /\ IsFiniteSet(UpTo(S, new))
  BY UpToFinite
<1>3. ASSUME NEW rev \in S \cup {0}, rev < new
      PROVE  UpTo(T, rev) = UpTo(S, rev)
  BY <1>3 DEF UpTo
<1>4. ASSUME NEW rev \in S \cup {new}, new <= rev
      PROVE  Cardinality(UpTo(T, rev)) = Cardinality(UpTo(S, rev)) + 1
  <2>1. UpTo(T, rev) = UpTo(S, rev) \cup {new} /\ new \notin UpTo(S, rev)
    BY <1>4 DEF UpTo
  <2>2. IsFiniteSet(UpTo(S, rev))
    BY UpToFinite
  <2> QED
    BY <2>1, <2>2, FS_AddElement
<1>5. ASSUME NEW rev \in S, new < rev
      PROVE  c < Cardinality(UpTo(S, rev))
  BY <1>5, CountsRise
<1>6. ASSUME NEW rev \in S \cup {0}, rev < new
      PROVE  Cardinality(UpTo(S, rev)) <= c
  <2>1. ASSUME NEW r \in UpTo(S, rev)
        PROVE  r \in UpTo(S, new)
    BY <1>6 DEF UpTo
  <2>2. UpTo(S, rev) \in SUBSET UpTo(S, new)
    BY <2>1
  <2> QED
    BY <1>2, <2>2, FS_Subset
<1> HIDE DEF c
<1> SUFFICES ASSUME NEW k \in 0..Cardinality(T)
             PROVE  \E rev \in T \cup {0} : Cardinality(UpTo(T, rev)) = k
  BY DEF Counts
<1>7. CASE k <= c
  <2>1. PICK rev \in S \cup {0} : Cardinality(UpTo(S, rev)) = k
    BY <1>1, <1>2, <1>7 DEF Counts
  <2>2. rev < new
    BY <1>2, <1>5, <1>7, <2>1
  <2> QED
    BY <1>3, <2>1, <2>2
<1>8. CASE k = c + 1
  <2>1. Cardinality(UpTo(T, new)) = c + 1
    BY <1>4 DEF c
  <2> QED
    BY <1>8, <2>1
<1>9. CASE k > c + 1
  <2>1. k - 1 \in 0..Cardinality(S)
    BY <1>1, <1>2, <1>9
  <2>2. PICK rev \in S \cup {0} : Cardinality(UpTo(S, rev)) = k - 1
    BY <2>1 DEF Counts
  <2>3. ~ rev < new
    BY <1>2, <1>6, <1>9, <2>1, <2>2
  <2>4. rev \in S /\ new <= rev
    BY <2>3
  <2>5. Cardinality(UpTo(T, rev)) = Cardinality(UpTo(S, rev)) + 1
    BY <1>4, <2>4
  <2> QED
    BY <2>2, <2>4, <2>5
<1> QED
  BY <1>2, <1>7, <1>8, <1>9

(* After a step of w nobody else is without company who was not before; w  *)
(* itself is only if it was.                                               *)
LEMMA Company ==
    ASSUME IInv, LonelyInv, NEW w \in Writers, NEW t, Becomes(w, t),
           Busy(w) \/ t.phase # "idle"
    PROVE  /\ \A x \in Writers, y \in Writers :
                x # y /\ Busy(x)' /\ Busy(y)' => x \in met'
           /\ \A x \in Writers : Busy(x)' /\ x \notin met' => x = w /\ w \notin met
<1>1. txn' = [txn EXCEPT ![w] = t] /\ txn \in [Writers -> TxnType]
  BY DEF Becomes, IInv, TypeOK
<1> DEFINE busy == {x \in Writers : txn'[x].phase # "idle"}
<1>2. met' = {x \in busy : x \in met \/ busy # {x}}
  BY DEF Becomes
<1>3. ASSUME NEW x \in Writers, NEW y \in Writers, x # y, Busy(x)', Busy(y)'
      PROVE  x \in met'
  BY <1>2, <1>3 DEF Busy
<1>4. ASSUME NEW x \in Writers, Busy(x)', x \notin met'
      PROVE  x = w /\ w \notin met
  <2>1. x \notin met
    BY <1>2, <1>4 DEF Busy
  <2>2. ASSUME x # w PROVE FALSE
    <3>1. Busy(x) /\ ~ Busy(w)'
      BY <1>1, <1>3, <1>4, <2>2 DEF Busy
    <3>2. Busy(w)
      BY <1>1, <3>1 DEF Busy
    <3> QED
      BY <2>1, <2>2, <3>1, <3>2 DEF LonelyInv
  <2> QED
    BY <2>1, <2>2
<1> QED
  BY <1>3, <1>4

LEMMA LonelyQuietStep ==
    ASSUME IInv, LonelyInv, NEW w \in Writers, NEW t, Becomes(w, t),
           UNCHANGED <<rows, committed>>,
           Busy(w) \/ t.phase # "idle",
           t.phase # "idle" /\ w \notin met => t.rev = sequence' /\ Done(t, rows)
    PROVE  LonelyInv'
<1>1. txn' = [txn EXCEPT ![w] = t] /\ txn \in [Writers -> TxnType]
  BY DEF Becomes, IInv, TypeOK
<1>2. ASSUME NEW x \in Writers, Busy(x)', x \notin met'
      PROVE  txn'[x].rev = sequence' /\ Done(txn'[x], rows')
  <2>1. x = w /\ w \notin met
    BY <1>2, Company
  <2>2. txn'[w] = t
    BY <1>1
  <2>3. t.phase # "idle"
    BY <1>2, <2>1, <2>2 DEF Busy
  <2> QED
    BY <2>1, <2>2, <2>3
<1>3. Counts(committed)'
  BY DEF LonelyInv
<1>4. \A x \in Writers, y \in Writers : x # y /\ Busy(x)' /\ Busy(y)' => x \in met'
  BY Company
<1> QED
  BY <1>2, <1>3, <1>4 DEF LonelyInv

LEMMA LonelyInit == Init => LonelyInv
<1> SUFFICES ASSUME Init PROVE LonelyInv
  OBVIOUS
<1>1. \A w \in Writers : ~ Busy(w)
  BY DEF Init, Busy, IdleTxn
<1>2. committed = {} /\ Cardinality({}) = 0
  BY FS_EmptySet DEF Init
<1>3. UpTo({}, 0) = {}
  BY DEF UpTo
<1>4. Counts(committed)
  BY <1>2, <1>3 DEF Counts
<1> QED
  BY <1>1, <1>4 DEF LonelyInv

(* What the invariant says of a transaction that has had no company.       *)
LEMMA OfLonely ==
    ASSUME LonelyInv, NEW w \in Writers, Busy(w), w \notin met
    PROVE  txn[w].rev = sequence /\ Done(txn[w], rows)
BY DEF LonelyInv

(* A list of which one more is named. *)
LEMMA NamedNext ==
    ASSUME NEW batch \in Seq(Tuples), NEW n \in DOMAIN batch
    PROVE  Named(batch, n + 1) = Named(batch, n) \cup {batch[n]}
<1>1. \A j \in DOMAIN batch : j < n + 1 <=> j < n \/ j = n
  OBVIOUS
<1> QED
  BY <1>1 DEF Named

LEMMA NamedFirst ==
    ASSUME NEW batch \in Seq(Tuples)
    PROVE  Named(batch, 1) = {}
<1>1. \A j \in DOMAIN batch : ~ j < 1
  OBVIOUS
<1> QED
  BY <1>1 DEF Named

LEMMA NamedAll ==
    ASSUME NEW batch \in Seq(Tuples), NEW n \in Nat, n > Len(batch)
    PROVE  Named(batch, n) = Listed(batch)
<1>1. \A j \in DOMAIN batch : j < n
  OBVIOUS
<1> QED
  BY <1>1 DEF Named, Listed

LEMMA LonelyBeginWrite ==
    ASSUME IInv, LonelyInv, NEW w \in Writers, BeginWrite(w)
    PROVE  LonelyInv'
<1>1. PICK write \in Writes :
        Becomes(w, [IdleTxn EXCEPT !.phase = "remove", !.rev = sequence + 1,
                                   !.adding = write.add, !.removing = write.remove])
  BY DEF BeginWrite
<1> DEFINE t == [IdleTxn EXCEPT !.phase = "remove", !.rev = sequence + 1,
                                !.adding = write.add, !.removing = write.remove]
<1>2. UNCHANGED <<rows, committed>> /\ sequence' = sequence + 1
  BY DEF BeginWrite
<1>3. /\ t.killed = {} /\ t.born = {} /\ t.next = 1 /\ t.removing = write.remove
      /\ t.phase = "remove" /\ t.rev = sequence + 1
  BY DEF IdleTxn
<1>4. Becomes(w, t)
  BY <1>1
<1> HIDE DEF t
<1>5. write.remove \in Seq(Tuples)
  BY PostgresWritesAssumption
<1>6. Left(t, rows) = Live(rows)
  BY <1>3 DEF Left, Live
<1>7. Named(t.removing, t.next) = {}
  BY <1>3, <1>5, NamedFirst
<1>8. Done(t, rows)
  BY <1>3, <1>6, <1>7 DEF Done
<1> QED
  BY <1>2, <1>3, <1>4, <1>8, LonelyQuietStep

LEMMA LonelyScanRemoval ==
    ASSUME IInv, LonelyInv, NEW w \in Writers, ScanRemoval(w)
    PROVE  LonelyInv'
<1> DEFINE t == [txn[w] EXCEPT !.phase = "update",
                               !.found = LiveRows(Current(w)) \ txn[w].killed]
<1>1. /\ Becomes(w, t) /\ UNCHANGED <<rows, committed, sequence>>
      /\ txn[w].phase = "remove" /\ txn[w].next <= Len(txn[w].removing)
  BY DEF ScanRemoval, InLoop
<1>2. Busy(w) /\ txn[w].next \in DOMAIN txn[w].removing
  BY <1>1, OfTxn, TxnFields DEF Busy
<1>3. /\ t.killed = txn[w].killed /\ t.born = txn[w].born /\ t.rev = txn[w].rev
      /\ t.phase = "update" /\ t.next = txn[w].next /\ t.removing = txn[w].removing
      /\ t.found = LiveRows(Current(w)) \ txn[w].killed
  BY OfTxn DEF TxnType
<1> HIDE DEF t
<1>4. t.found = Snapshot(t, rows)
  BY <1>1, <1>3 DEF LiveRows, Current, Snapshot
<1>5. ASSUME w \notin met
      PROVE  t.rev = sequence /\ Done(t, rows)
  <2>1. txn[w].rev = sequence /\ Done(txn[w], rows)
    BY <1>2, <1>5, OfLonely
  <2>2. Left(t, rows) = Left(txn[w], rows)
    BY <1>3 DEF Left
  <2> QED
    BY <1>1, <1>2, <1>3, <1>4, <2>1, <2>2 DEF Done
<1> QED
  BY <1>1, <1>2, <1>5, LonelyQuietStep

LEMMA LonelyRemove ==
    ASSUME IInv, LonelyInv, NEW w \in Writers, Remove(w)
    PROVE  LonelyInv'
<1> DEFINE t == [txn[w] EXCEPT !.phase = "remove", !.next = @ + 1, !.found = {},
                               !.killed = @ \cup (txn[w].found \cap rows)]
<1>1. /\ Becomes(w, t) /\ UNCHANGED <<rows, committed, sequence>>
      /\ txn[w].phase = "update" /\ Busy(w)
  BY DEF Remove, Busy
<1>2. /\ t.killed = txn[w].killed \cup (txn[w].found \cap rows)
      /\ t.born = txn[w].born /\ t.rev = txn[w].rev
      /\ t.phase = "remove" /\ t.next = txn[w].next + 1 /\ t.removing = txn[w].removing
  BY OfTxn DEF TxnType
<1> HIDE DEF t
<1>3. ASSUME w \notin met
      PROVE  t.rev = sequence /\ Done(t, rows)
  <2> DEFINE gone == txn[w].removing[txn[w].next]
  <2>1. /\ txn[w].rev = sequence /\ txn[w].born = {}
        /\ Left(txn[w], rows) = Live(rows) \ Named(txn[w].removing, txn[w].next)
        /\ txn[w].next \in DOMAIN txn[w].removing
        /\ txn[w].found = Snapshot(txn[w], rows)
    BY <1>1, <1>3, OfLonely DEF Done
  <2>2. Named(t.removing, t.next) = Named(txn[w].removing, txn[w].next) \cup {gone}
    BY <1>2, <2>1, OfTxn, TxnFields, NamedNext
  <2>3. \A row \in rows :
           row \in t.killed <=> \/ row \in txn[w].killed
                                \/ IsLive(row) /\ row.tuple = gone
    BY <1>2, <2>1, OfTxn DEF Snapshot, Owns
  <2>4. Left(t, rows) = Left(txn[w], rows) \ {gone}
    BY <2>3 DEF Left
  <2> QED
    BY <1>2, <2>1, <2>2, <2>4 DEF Done
<1> QED
  BY <1>1, <1>3, LonelyQuietStep

LEMMA LonelyRemovesDone ==
    ASSUME IInv, LonelyInv, NEW w \in Writers, RemovesDone(w)
    PROVE  LonelyInv'
<1> DEFINE t == [txn[w] EXCEPT !.phase = "add", !.next = 1]
<1>1. /\ Becomes(w, t) /\ UNCHANGED <<rows, committed, sequence>>
      /\ txn[w].phase = "remove" /\ txn[w].next > Len(txn[w].removing) /\ Busy(w)
  BY DEF RemovesDone, Busy
<1>2. /\ t.killed = txn[w].killed /\ t.born = txn[w].born /\ t.rev = txn[w].rev
      /\ t.phase = "add" /\ t.next = 1
      /\ t.removing = txn[w].removing /\ t.adding = txn[w].adding
  BY OfTxn DEF TxnType
<1> HIDE DEF t
<1>3. ASSUME w \notin met
      PROVE  t.rev = sequence /\ Done(t, rows)
  <2>1. /\ txn[w].rev = sequence /\ txn[w].born = {}
        /\ Left(txn[w], rows) = Live(rows) \ Named(txn[w].removing, txn[w].next)
    BY <1>1, <1>3, OfLonely DEF Done
  <2>2. Named(txn[w].removing, txn[w].next) = Listed(txn[w].removing)
    BY <1>1, OfTxn, TxnFields, NamedAll
  <2>3. Named(t.adding, t.next) = {}
    BY <1>2, OfTxn, TxnFields, NamedFirst
  <2>4. Left(t, rows) = Left(txn[w], rows)
    BY <1>2 DEF Left
  <2> QED
    BY <1>2, <2>1, <2>2, <2>3, <2>4 DEF Done
<1> QED
  BY <1>1, <1>3, LonelyQuietStep

(* Both outcomes of an INSERT leave its tuple live in the end: a conflict  *)
(* means that it is already.                                               *)
LEMMA LonelyAdd ==
    ASSUME IInv, LonelyInv, NEW w \in Writers, AddConflict(w) \/ AddRow(w)
    PROVE  LonelyInv'
<1> DEFINE b == Current(w)
           added == IF Conflicts(w) THEN {} ELSE {b}
           t == [txn[w] EXCEPT !.next = @ + 1, !.born = @ \cup added]
<1>1. /\ UNCHANGED <<rows, committed, sequence>>
      /\ txn[w].phase = "add" /\ txn[w].next <= Len(txn[w].adding) /\ Busy(w)
  BY DEF AddConflict, AddRow, InLoop, Busy
<1>2. /\ txn[w].next \in DOMAIN txn[w].adding
      /\ b = txn[w].adding[txn[w].next]
  BY <1>1, OfTxn, TxnFields DEF Current
<1>3. Becomes(w, t)
  <2>1. CASE Conflicts(w)
    <3>1. txn[w] \in TxnType /\ txn[w].born \cup added = txn[w].born
      BY <2>1, OfTxn
    <3>2. t = [txn[w] EXCEPT !.next = @ + 1]
      BY <3>1 DEF TxnType
    <3>3. Becomes(w, [txn[w] EXCEPT !.next = @ + 1])
      BY <2>1 DEF AddConflict, AddRow
    <3> QED
      BY ONLY <3>2, <3>3
  <2>2. CASE ~ Conflicts(w)
    <3>1. t = [txn[w] EXCEPT !.next = @ + 1, !.born = @ \cup {b}]
      BY <2>2
    <3>2. Becomes(w, [txn[w] EXCEPT !.next = @ + 1, !.born = @ \cup {b}])
      BY <2>2 DEF AddConflict, AddRow
    <3> QED
      BY ONLY <3>1, <3>2
  <2> QED
    BY <2>1, <2>2
<1>4. /\ t.killed = txn[w].killed /\ t.born = txn[w].born \cup added /\ t.rev = txn[w].rev
      /\ t.phase = "add" /\ t.next = txn[w].next + 1
      /\ t.removing = txn[w].removing /\ t.adding = txn[w].adding
  BY <1>1, OfTxn DEF TxnType
<1>5. Conflicts(w) => b \in Left(txn[w], rows) \cup txn[w].born
  BY DEF Conflicts, LiveRows, Left
<1>6. \/ added = {b}
      \/ added = {} /\ b \in Left(txn[w], rows) \cup txn[w].born
  BY <1>5
<1> HIDE DEF t, b, added
<1>7. ASSUME w \notin met
      PROVE  t.rev = sequence /\ Done(t, rows)
  <2>1. /\ txn[w].rev = sequence
        /\ Left(txn[w], rows) \cup txn[w].born
             = (Live(rows) \ Listed(txn[w].removing)) \cup Named(txn[w].adding, txn[w].next)
    BY <1>1, <1>7, OfLonely DEF Done
  <2>2. Named(t.adding, t.next) = Named(txn[w].adding, txn[w].next) \cup {b}
    BY <1>2, <1>4, OfTxn, TxnFields, NamedNext
  <2>3. Left(t, rows) = Left(txn[w], rows)
    BY <1>4 DEF Left
  <2>4. Left(t, rows) \cup t.born = (Left(txn[w], rows) \cup txn[w].born) \cup {b}
    BY <1>4, <1>6, <2>3
  <2> QED
    BY <1>4, <2>1, <2>2, <2>4 DEF Done
<1> QED
  BY <1>1, <1>3, <1>7, LonelyQuietStep

LEMMA LonelyFail ==
    ASSUME IInv, LonelyInv, NEW w \in Writers, Fail(w)
    PROVE  LonelyInv'
<1>1. /\ Becomes(w, IdleTxn) /\ UNCHANGED <<rows, committed, sequence>> /\ Busy(w)
      /\ IdleTxn.phase = "idle"
  BY DEF Fail, RolledBack, IdleTxn
<1> QED
  BY <1>1, LonelyQuietStep

(* There are at most as many members of S as numbers up to its bound.      *)
LEMMA BoundedCount ==
    ASSUME NEW n \in Nat, NEW S, S \subseteq 1..n
    PROVE  IsFiniteSet(S) /\ Cardinality(S) \in Nat /\ Cardinality(S) <= n
<1>1. S \in SUBSET (1..n) /\ n \in Int
  OBVIOUS
<1>2. IsFiniteSet(1..n) /\ Cardinality(1..n) = n
  BY <1>1, FS_Interval
<1> QED
  BY <1>1, <1>2, FS_Subset, FS_CardinalityType

(* The committed revisions are a finite set of positive numbers.           *)
LEMMA CommittedFinite ==
    ASSUME IInv
    PROVE  /\ IsFiniteSet(committed) /\ committed \subseteq Nat \ {0}
           /\ Cardinality(committed) \in Nat /\ Cardinality(committed) <= sequence
           /\ sequence \in 0..MaxRevision
<1>1. sequence \in 0..MaxRevision /\ sequence \in Nat /\ committed \subseteq 1..sequence
  BY PostgresMaxRevisionAssumption DEF IInv, TypeOK
<1>2. committed \subseteq Nat \ {0}
  BY <1>1
<1>3. IsFiniteSet(committed) /\ Cardinality(committed) \in Nat /\ Cardinality(committed) <= sequence
  BY <1>1, BoundedCount
<1> QED
  BY <1>1, <1>2, <1>3

LEMMA LonelyCommit ==
    ASSUME IInv, LonelyInv, NEW w \in Writers, CommitWrite(w)
    PROVE  LonelyInv'
<1>1. Becomes(w, IdleTxn) /\ Busy(w) /\ IdleTxn.phase = "idle"
  BY DEF CommitWrite, Busy, IdleTxn
<1>2. \A x \in Writers, y \in Writers : x # y /\ Busy(x)' /\ Busy(y)' => x \in met'
  BY <1>1, Company
<1>3. ASSUME NEW x \in Writers, Busy(x)', x \notin met' PROVE FALSE
  <2>1. x = w
    BY <1>1, <1>3, Company
  <2>2. txn'[w] = IdleTxn
    BY <1>1 DEF Becomes, IInv, TypeOK
  <2> QED
    BY <1>1, <1>3, <2>1, <2>2 DEF Busy
<1>4. Counts(committed)'
  BY CommittedFinite, RowsOfCommit, CountsInsert DEF LonelyInv
<1> QED
  BY <1>2, <1>3, <1>4 DEF LonelyInv

LEMMA LonelyNext == IInv /\ LonelyInv /\ [Next]_vars => LonelyInv'
<1> SUFFICES ASSUME IInv, LonelyInv, [Next]_vars PROVE LonelyInv'
  OBVIOUS
<1>1. CASE UNCHANGED vars
  BY <1>1 DEF vars, LonelyInv, Busy
<1>2. ASSUME NEW w \in Writers, BeginWrite(w) \/ Step(w) \/ Fail(w) \/ DeadlockVictim(w)
      PROVE  LonelyInv'
  <2>1. CASE BeginWrite(w)
    BY <2>1, LonelyBeginWrite
  <2>2. CASE Step(w)
    BY <2>2, LonelyScanRemoval, LonelyRemove, LonelyRemovesDone, LonelyAdd, LonelyCommit
       DEF Step
  <2>3. CASE Fail(w) \/ DeadlockVictim(w)
    BY <2>3, LonelyFail DEF DeadlockVictim
  <2> QED
    BY <1>2, <2>1, <2>2, <2>3
<1> QED
  BY <1>1, <1>2 DEF Next

(* The invariant of the write that runs alone.                             *)
THEOREM LonelyInvariance == Spec => []LonelyInv
BY LonelyInit, LonelyNext, PostgresInvariance, PTL DEF Spec

----------------------------------------------------------------------------
(* The commit of a write that has run alone.                               *)

(* What is visible in these rows at rev. *)
VisibleIn(rws, rev) == {row.tuple : row \in {r \in rws : IsVisible(r, rev)}}

(* At the newest committed revision exactly the live rows are visible.     *)
LEMMA NewestVisible ==
    ASSUME IInv, LonelyInv
    PROVE  VisibleIn(rows, NthOf(committed, Cardinality(committed))) = Live(rows)
<1> DEFINE k == Cardinality(committed)
           newest == NthOf(committed, k)
<1>1. newest \in committed \cup {0} /\ Cardinality(UpTo(committed, newest)) = k
  BY CommittedFinite, NthExists DEF LonelyInv
<1>2. UpTo(committed, newest) = committed
  BY <1>1, CommittedFinite, UpToFinite
<1>3. newest \in Nat /\ \A rev \in committed : rev <= newest /\ rev \in Nat /\ rev # 0
  BY <1>1, <1>2, CommittedFinite DEF UpTo
<1> HIDE DEF newest
<1>4. ASSUME NEW row \in rows
      PROVE  IsVisible(row, newest) <=> IsLive(row)
  <2>1. row.created \in committed /\ row.deleted \in committed \cup {0}
    BY DEF IInv, OnlyCommitted
  <2> QED
    BY <1>3, <2>1 DEF IsVisible, IsLive
<1>5. VisibleIn(rows, newest) = Live(rows)
  BY <1>4 DEF VisibleIn, Live
<1> QED
  BY <1>5 DEF newest

(* The revision of a write that has run alone is above all others; what is *)
(* visible at it afterwards is what the write has made of the live rows.   *)
LEMMA LonelyCommitRows ==
    ASSUME IInv, LonelyInv, NEW w \in Writers, CommitWrite(w), w \notin met
    PROVE  /\ \A rev \in committed : rev < txn[w].rev
           /\ VisibleIn(rows', txn[w].rev)
                = (Live(rows) \ Listed(txn[w].removing)) \cup Listed(txn[w].adding)
<1> DEFINE t == txn[w]
           new == t.rev
<1>1. /\ Busy(w) /\ t.phase = "add" /\ t.next > Len(t.adding)
      /\ t.adding \in Seq(Tuples) /\ t.next \in Nat
  BY OfTxn, TxnFields DEF CommitWrite, Busy
<1>2. /\ new = sequence
      /\ Left(t, rows) \cup t.born
           = (Live(rows) \ Listed(t.removing)) \cup Named(t.adding, t.next)
  BY <1>1, OfLonely DEF Done
<1>3. Named(t.adding, t.next) = Listed(t.adding)
  BY <1>1, NamedAll
<1>4. \A rev \in committed : rev < new /\ rev \in Nat
  BY <1>2, RowsOfCommit DEF IInv, TypeOK
<1>5. new \in Nat \ {0} /\ committed' = committed \cup {new}
  BY RowsOfCommit
<1>6. IInv'
  BY CommitStep
<1>7. ASSUME NEW row \in rows'
      PROVE  IsVisible(row, new) <=> IsLive(row)
  <2>1. row.created \in committed' /\ row.deleted \in committed' \cup {0}
    BY <1>6 DEF IInv, OnlyCommitted
  <2> QED
    BY <1>4, <1>5, <2>1 DEF IsVisible, IsLive
<1>8. Live(rows') = Left(t, rows) \cup t.born
  <2>1. ASSUME NEW row \in rows', IsLive(row)
        PROVE  row.tuple \in Left(t, rows) \cup t.born
    BY <2>1, LiveAfterCommit DEF Left
  <2>2. ASSUME NEW row \in rows, IsLive(row), row \notin t.killed
        PROVE  row \in rows'
    BY <2>2, RowsOfCommit
  <2>3. ASSUME NEW b \in t.born
        PROVE  /\ NewRow(b, new) \in rows' /\ IsLive(NewRow(b, new))
               /\ NewRow(b, new).tuple = b
    BY DEF CommitWrite, RowsAfter, NewRow, IsLive
  <2> QED
    BY <2>1, <2>2, <2>3 DEF Live, Left
<1>9. VisibleIn(rows', new) = Live(rows')
  BY <1>7 DEF VisibleIn, Live
<1> QED
  BY <1>2, <1>3, <1>4, <1>8, <1>9

(* The older revisions keep their place, and what is visible at them.      *)
LEMMA LonelyCommitPast ==
    ASSUME IInv, LonelyInv, NEW w \in Writers, CommitWrite(w), w \notin met,
           NEW k \in 0..Cardinality(committed)
    PROVE  /\ NthOf(committed', k) = NthOf(committed, k)
           /\ VisibleIn(rows', NthOf(committed, k)) = VisibleIn(rows, NthOf(committed, k))
<1> DEFINE new == txn[w].rev
           nth == NthOf(committed, k)
<1>1. nth \in committed \cup {0} /\ Cardinality(UpTo(committed, nth)) = k
  BY NthExists DEF LonelyInv
<1> HIDE DEF nth
<1>2. /\ nth \in Nat /\ nth < new /\ new \in Nat \ {0}
      /\ committed' = committed \cup {new}
  BY <1>1, CommittedFinite, RowsOfCommit, LonelyCommitRows
<1>3. UpTo(committed', nth) = UpTo(committed, nth)
  BY <1>2 DEF UpTo
<1>4. IsFiniteSet(committed') /\ committed' \subseteq Nat \ {0} /\ nth \in committed' \cup {0}
  BY <1>1, <1>2, CommittedFinite, FS_AddElement
<1>5. NthOf(committed', Cardinality(UpTo(committed', nth))) = nth
  BY <1>4, NthUnique
<1>6. NthOf(committed', k) = nth
  BY <1>1, <1>3, <1>5
<1>7. VisibleIn(rows', nth) = VisibleIn(rows, nth)
  <2>1. /\ \A row \in rows : IsVisible(row, nth) =>
             \E other \in rows' : other.tuple = row.tuple /\ IsVisible(other, nth)
        /\ \A row \in rows' : IsVisible(row, nth) =>
             \E other \in rows : other.tuple = row.tuple /\ IsVisible(other, nth)
    BY <1>2, CommitKeepsPast
  <2> QED
    BY <2>1 DEF VisibleIn
<1> QED
  BY <1>6, <1>7 DEF nth

(* The commit of such a write is a commit of the abstract store.           *)
LEMMA LonelyIsCommit ==
    ASSUME IInv, LonelyInv, NEW w \in Writers, CommitWrite(w), w \notin met
    PROVE  Abstract!Commit(Listed(txn[w].adding), Listed(txn[w].removing))
<1> DEFINE new == txn[w].rev
           add == Listed(txn[w].adding)
           remove == Listed(txn[w].removing)
           n == Cardinality(committed)
           before == [k \in 0..n |-> VisibleIn(rows, NthOf(committed, k))]
           after == [k \in 0..(n + 1) |-> VisibleIn(rows', NthOf(committed', k))]
<1>1. /\ n \in Nat /\ IsFiniteSet(committed) /\ committed \subseteq Nat \ {0}
      /\ new \in Nat \ {0} /\ new \notin committed /\ committed' = committed \cup {new}
  BY CommittedFinite, RowsOfCommit
<1>2. Cardinality(committed') = n + 1 /\ IsFiniteSet(committed')
  BY <1>1, FS_AddElement
<1>3. n < MaxRevision
  <2>1. IInv'
    BY CommitStep
  <2>2. /\ sequence' \in Nat /\ sequence' <= MaxRevision
        /\ committed' \subseteq 1..(sequence')
    BY <2>1, PostgresMaxRevisionAssumption DEF IInv, TypeOK
  <2>3. Cardinality(committed') <= sequence'
    BY <2>2, BoundedCount
  <2> QED
    BY <1>1, <1>2, <2>2, <2>3, PostgresMaxRevisionAssumption
<1>4. NthOf(committed', n + 1) = new
  <2>1. UpTo(committed', new) = committed'
    <3>1. \A rev \in committed : rev < new /\ rev \in Nat
      BY <1>1, LonelyCommitRows
    <3>2. \A rev \in committed' : rev <= new
      BY <1>1, <3>1
    <3> QED
      BY <3>2 DEF UpTo
  <2>2. committed' \subseteq Nat \ {0} /\ new \in committed' \cup {0}
    BY <1>1
  <2>3. NthOf(committed', Cardinality(UpTo(committed', new))) = new
    BY <1>2, <2>2, NthUnique
  <2> QED
    BY <1>2, <2>1, <2>3
<1>5. before[n] = Live(rows)
  BY <1>1, NewestVisible
<1>6. after[n + 1] = (before[n] \ remove) \cup add
  BY <1>1, <1>4, <1>5, LonelyCommitRows
<1>7. ASSUME NEW k \in 0..n
      PROVE  after[k] = before[k]
  <2>1. k \in 0..(n + 1)
    BY <1>1
  <2>2. VisibleIn(rows', NthOf(committed', k)) = VisibleIn(rows, NthOf(committed, k))
    BY LonelyCommitPast
  <2> QED
    BY <2>1, <2>2
<1>8. after = [k \in 0..(n + 1) |-> IF k <= n THEN before[k]
                                      ELSE (before[n] \ remove) \cup add]
  <2>1. ASSUME NEW k \in 0..(n + 1)
        PROVE  after[k] = IF k <= n THEN before[k] ELSE (before[n] \ remove) \cup add
    <3>1. (k \in 0..n /\ k <= n) \/ (k = n + 1 /\ ~ k <= n)
      BY <1>1
    <3> HIDE DEF after, before, add, remove, n
    <3> QED
      BY <1>6, <1>7, <3>1
  <2> QED
    BY <2>1
<1>9. before = [k \in 0..Cardinality(committed) |-> VisibleAt(CommittedAt(k))]
  BY DEF VisibleIn, VisibleAt, NthOf, UpTo, CommittedAt
<1>10. after = [k \in 0..Cardinality(committed) |-> VisibleAt(CommittedAt(k))]'
  BY <1>2 DEF VisibleIn, VisibleAt, NthOf, UpTo, CommittedAt
<1> QED
  BY <1>2, <1>3, <1>8, <1>9, <1>10 DEF Abstract!Commit

(* A write that runs alone is one commit of its lists to the revision      *)
(* before it: the state of the abstract store moves by exactly one step of *)
(* its own, whatever raced, failed or was lost before.                     *)
THEOREM LonelyWritesCorrect == Spec => WritesCommit
<1>1. ASSUME IInv, LonelyInv, NEW w \in Writers, CommitWrite(w), w \notin met
      PROVE  Abstract!Commit(Listed(txn[w].adding), Listed(txn[w].removing))
  BY <1>1, LonelyIsCommit
<1>2. ASSUME IInv, LonelyInv
      PROVE  [\A w \in Writers : CommitWrite(w) /\ w \notin met =>
                Abstract!Commit(Listed(txn[w].adding), Listed(txn[w].removing))]_vars
  BY <1>1, <1>2
<1> QED
  BY <1>2, PostgresInvariance, LonelyInvariance, PTL DEF WritesCommit

(* What the engine relies on of the readers: a committed revision reads as *)
(* its place in the abstract history does, and Head is the newest of them. *)
ReadsAgree ==
    /\ DbHead = CommittedAt(Cardinality(committed))
    /\ \A k \in 0..Cardinality(committed), t \in Tuples :
         /\ Read(CommittedAt(k), t.object, t.relation)
              = Abstract!Read(k, t.object, t.relation)
         /\ \A relation \in {NoRelation, t.relation} :
              ReadBySubject(CommittedAt(k), t.subject, relation)
                = Abstract!ReadBySubject(k, t.subject, relation)

(* The two readers and Head, whatever writes are open, agree with the      *)
(* abstract store about what has been committed.                           *)
THEOREM ReadersCorrect == Spec => []ReadsAgree
<1>1. ASSUME IInv, LonelyInv
      PROVE  DbHead = CommittedAt(Cardinality(committed))
  <2> DEFINE newest == NthOf(committed, Cardinality(committed))
  <2>1. /\ newest \in committed \cup {0}
        /\ Cardinality(UpTo(committed, newest)) = Cardinality(committed)
    BY <1>1, CommittedFinite, NthExists DEF LonelyInv
  <2>2. UpTo(committed, newest) = committed /\ committed \subseteq Nat \ {0}
    BY <1>1, <2>1, CommittedFinite, UpToFinite
  <2>3. newest = CommittedAt(Cardinality(committed))
    BY DEF NthOf, UpTo, CommittedAt
  <2> HIDE DEF newest
  <2>4. \A other \in committed \cup {0} : other <= newest
    BY <2>1, <2>2 DEF UpTo
  <2>5. DbHead \in committed \cup {0} /\ \A other \in committed \cup {0} : other <= DbHead
    BY <2>1, <2>4 DEF DbHead, NewestOf
  <2>6. DbHead \in Nat /\ newest \in Nat /\ DbHead <= newest /\ newest <= DbHead
    BY <2>1, <2>2, <2>4, <2>5
  <2> QED
    BY <2>3, <2>6
<1>2. ASSUME IInv, NEW k \in 0..Cardinality(committed), NEW t \in Tuples
      PROVE  /\ Read(CommittedAt(k), t.object, t.relation)
                  = Abstract!Read(k, t.object, t.relation)
             /\ \A relation \in {NoRelation, t.relation} :
                  ReadBySubject(CommittedAt(k), t.subject, relation)
                    = Abstract!ReadBySubject(k, t.subject, relation)
  <2>1. k <= Cardinality(committed)
    BY <1>2, CommittedFinite
  <2>2. Abstract!World(k) = VisibleAt(CommittedAt(k))
    BY <2>1 DEF Abstract!World
  <2>3. Read(CommittedAt(k), t.object, t.relation) = Abstract!Read(k, t.object, t.relation)
    BY <2>2 DEF Read, Abstract!Read, VisibleAt, KeyOf, RelationKey,
                Abstract!KeyOf, Abstract!RelationKey
  <2>4. ASSUME NEW relation \in {NoRelation, t.relation}
        PROVE  ReadBySubject(CommittedAt(k), t.subject, relation)
                 = Abstract!ReadBySubject(k, t.subject, relation)
    BY <2>2 DEF ReadBySubject, Abstract!ReadBySubject, VisibleAt,
                NoRelation, Abstract!NoRelation
  <2> QED
    BY <2>3, <2>4
<1>3. IInv /\ LonelyInv => ReadsAgree
  BY <1>1, <1>2 DEF ReadsAgree
<1> QED
  BY <1>3, PostgresInvariance, LonelyInvariance, PTL

(* As long as no two writes are open at once, the store over Postgres      *)
(* implements VersionedStore, with its transactions, its failures and the  *)
(* gaps that they leave: each step is one commit of the abstract store or  *)
(* none of its steps.                                                      *)
THEOREM SerialImplements == Spec /\ [](met = {}) => Abstract!StoreSpec
<1>1. Init => Abstract!StoreInit
  <2> SUFFICES ASSUME Init PROVE Abstract!StoreInit
    OBVIOUS
  <2>1. rows = {} /\ Cardinality(committed) = 0 /\ 0..0 = {0}
    BY FS_EmptySet DEF Init
  <2>2. \A rev : VisibleAt(rev) = {}
    BY <2>1 DEF VisibleAt
  <2> QED
    BY <2>1, <2>2 DEF Abstract!StoreInit
<1>2. ASSUME IInv, LonelyInv, met = {}, NEW w \in Writers, CommitWrite(w)
      PROVE  Abstract!StoreNext
  <2> DEFINE add == Listed(txn[w].adding)
             remove == Listed(txn[w].removing)
  <2>1. add \in SUBSET Tuples /\ remove \in SUBSET Tuples
    BY <1>2, OfTxn, TxnFields DEF Listed
  <2>2. Abstract!Commit(add, remove)
    BY <1>2, LonelyIsCommit
  <2> HIDE DEF add, remove
  <2> QED
    BY <2>1, <2>2 DEF Abstract!StoreNext
<1>3. ASSUME UNCHANGED <<rows, committed>>
      PROVE  UNCHANGED Abstract!storeVars
  BY <1>3 DEF Abstract!storeVars, VisibleAt, CommittedAt
<1>4. ASSUME [Next]_vars
      PROVE  UNCHANGED <<rows, committed>> \/ \E w \in Writers : CommitWrite(w)
  BY <1>4 DEF Next, vars, Step, BeginWrite, ScanRemoval, Remove, RemovesDone, AddConflict,
              AddRow, Fail, DeadlockVictim
<1>5. IInv /\ LonelyInv /\ met = {} /\ [Next]_vars
        => [Abstract!StoreNext]_(Abstract!storeVars)
  BY <1>2, <1>3, <1>4
<1> QED
  BY <1>1, <1>5, PostgresInvariance, LonelyInvariance, PTL DEF Spec, Abstract!StoreSpec

=============================================================================
