--------------------------- MODULE VersionedStore ---------------------------
(***************************************************************************)
(* What a Store promises the engine above it: a sequence of revisions, one *)
(* for each write, each with the set of tuples that is live in it, and     *)
(* reads of any revision of the past (the Store interface, and the         *)
(* comments on Revision and on Memory, of internal/storage/storage.go).    *)
(***************************************************************************)
EXTENDS Relationships

CONSTANTS Tuples,        \* the relationship tuples that may be written
          MaxRevision    \* bound: writes stop at this revision

ASSUME MaxRevisionAssumption == MaxRevision \in Nat

(* A tuple is no more than its three parts. *)
ASSUME TuplesAssumption ==
    \A t \in Tuples : t = Tuple(t.object, t.relation, t.subject)

VARIABLES head,          \* the newest revision
          history        \* the tuples that are live in each revision

storeVars == <<head, history>>

StoreTypeOK ==
    /\ head \in 0..MaxRevision
    /\ history \in [0..head -> SUBSET Tuples]

----------------------------------------------------------------------------
StoreInit ==
    /\ head = 0
    /\ history = [rev \in {0} |-> {}]

(* A write is one new revision; removals come before additions, so a tuple *)
(* that is in both lists is live afterwards.                               *)
Commit(add, remove) ==
    /\ head < MaxRevision
    /\ head' = head + 1
    /\ history' = [rev \in 0..(head + 1) |->
                     IF rev <= head THEN history[rev]
                                    ELSE (history[head] \ remove) \cup add]

StoreNext == \E add, remove \in SUBSET Tuples : Commit(add, remove)

StoreSpec == StoreInit /\ [][StoreNext]_storeVars

----------------------------------------------------------------------------
(* Reads.  A revision that does not exist yet reads as the newest one:     *)
(* every row of the head is visible in it, and nothing else is.            *)

World(rev) == history[IF rev <= head THEN rev ELSE head]

Read(rev, object, relation) ==
    {t \in World(rev) : KeyOf(t) = RelationKey(object, relation)}

(* Relation NoRelation matches every relation. *)
ReadBySubject(rev, subject, relation) ==
    {t \in World(rev) : /\ t.subject = subject
                        /\ relation \in {NoRelation, t.relation}}

=============================================================================
