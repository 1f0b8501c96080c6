---------------------------- MODULE ListObjects ----------------------------
(***************************************************************************)
(* Listing the objects on which a subject has a permission                 *)
(* (internal/check/listobjects.go, and handleListObjects of                *)
(* internal/api/api.go), while writes go on: a walk over the reverse index *)
(* proposes candidates, and the check engine verifies them one by one, all *)
(* at the revision that was the head when the list began.                  *)
(*                                                                         *)
(* A walk is a queue of subjects.  One step takes a subject off the queue  *)
(* and reads its tuples, or follows one of them.                           *)
(***************************************************************************)
EXTENDS CheckEngine, Meaning

CONSTANTS Writes,        \* the writes that go on: [add, remove]
          Requests,      \* lists asked for: [subject, permission, type, limit]
          Ordered,       \* all objects, in the order of type and identifier
          MaxPage,       \* the cap of handleListObjects (1000)
          Contributing(_, _), \* Schema.Contributors: type, permission
          WalksTo(_)     \* Schema.WalksInto: relation

ASSUME ListAssumption ==
    /\ MaxPage \in Nat \ {0}
    /\ \A write \in Writes : write.add \subseteq Tuples
    /\ \A request \in Requests :
         request = [subject |-> request.subject, permission |-> request.permission,
                    type |-> request.type, limit |-> request.limit]

(* The store and the schema are finite.                                    *)
ASSUME FiniteAssumption ==
    IsFiniteSet(Tuples) /\ \A t \in Tuples : IsFiniteSet(WalksTo(t.relation))

VARIABLES list           \* the list that each handler is working on

vars == <<head, history, cache, call, list>>

NoList == [subject |-> NoRequest.subject, permission |-> "", type |-> "", limit |-> 1]

(* phase: "head" is read, "walk", "visit" the tuples of one subject,       *)
(* "verify" the candidates, "done".  began: head when the request arrived. *)
IdleList == [phase |-> "idle", request |-> NoList, began |-> 0, revision |-> 0,
             frontier |-> << >>, tuples |-> << >>, depth |-> 0, seen |-> {},
             candidates |-> {}, todo |-> << >>, objects |-> << >>, error |-> "none"]

Init == StoreInit /\ EngineInit /\ list = [c \in Calls |-> IdleList]

(* A step of one list that leaves the engine and the store alone.          *)
ListBecomes(c, l) ==
    /\ list' = [list EXCEPT ![c] = l]
    /\ UNCHANGED <<storeVars, engineVars>>

ListFailed(l, error) ==
    [IdleList EXCEPT !.phase = "done", !.request = l.request, !.error = error]

----------------------------------------------------------------------------
(* Variant: the handler passes the limit of the request on.                *)
AnyPage(limit) == limit

(* A limit of 0 is no limit, which the handler does not allow.             *)
PageSize(limit) == IF limit \in 1..MaxPage THEN limit ELSE MaxPage

(* handleListObjects calls Engine.ListObjects.                             *)
ReceiveList(c) ==
    /\ list[c].phase = "idle"
    /\ \E request \in Requests :
         ListBecomes(c, [IdleList EXCEPT !.phase = "head", !.began = head,
                           !.request = [request EXCEPT !.limit = PageSize(@)]])

Item(subject, depth) == [subject |-> subject, depth |-> depth]

ResolveList(c) ==
    LET l == list[c]
    IN /\ l.phase = "head"
       /\ ListBecomes(c, [l EXCEPT !.phase = "walk", !.revision = head,
                                   !.frontier = <<Item(l.request.subject, 0)>>])

----------------------------------------------------------------------------
(* Engine.candidates.                                                      *)

Walking(c) == list[c].phase = "walk" /\ list[c].frontier # << >>

(* Variant: the frontier is looked at and not shortened.                   *)
FrontierLeft(l) == l.frontier

Dequeued(l) == Tail(l.frontier)

TooDeep(c) ==
    /\ Walking(c)
    /\ Head(list[c].frontier).depth > MaxDepth
    /\ ListBecomes(c, [list[c] EXCEPT !.frontier = Dequeued(list[c])])

(* The tuples of the next subject, in any order.                           *)
ReadFrontier(c) ==
    LET l == list[c]
        item == Head(l.frontier)
    IN /\ Walking(c)
       /\ item.depth <= MaxDepth
       /\ \E tuples \in Orders(ReadBySubject(l.revision, item.subject, NoRelation)) :
            ListBecomes(c, [l EXCEPT !.phase = "visit", !.frontier = Dequeued(l),
                                     !.tuples = tuples, !.depth = item.depth])

Visited(l) == [l EXCEPT !.tuples = Tail(@)]

VisitSeen(c) ==
    LET l == list[c]
    IN /\ l.phase = "visit"
       /\ l.tuples # << >>
       /\ KeyOf(Head(l.tuples)) \in l.seen
       /\ ListBecomes(c, Visited(l))

(* Variant: looks for tuples that name the userset, not the plain object.  *)
InheritingUserset(rev, t) ==
    UNION {{RelationKey(edge.object, walk.permission) :
              edge \in {e \in ReadBySubject(rev, Userset(t.object, t.relation), walk.tupleset) :
                          e.object.type = walk.objectType}} :
           walk \in WalksTo(t.relation)}

(* The permissions that objects inherit from the object of t, through a    *)
(* tuple that names it.                                                    *)
Inheriting(rev, t) ==
    UNION {{RelationKey(edge.object, walk.permission) :
              edge \in {e \in ReadBySubject(rev, Concrete(t.object), walk.tupleset) :
                          e.object.type = walk.objectType}} :
           walk \in WalksTo(t.relation)}

(* The objects that are worth verifying once these keys are reached.       *)
Proposed(request, keys) ==
    {key.object : key \in {k \in keys :
       /\ k.object.type = request.type
       /\ k.relation \in Contributing(request.type, request.permission)}}

(* The relation that t grants, and those that inherit from it, are reached *)
(* once each.                                                              *)
VisitNew(c) ==
    LET l == list[c]
        key == KeyOf(Head(l.tuples))
        inherited == Inheriting(l.revision, Head(l.tuples)) \ (l.seen \cup {key})
        reached == {key} \cup inherited
    IN /\ l.phase = "visit"
       /\ l.tuples # << >>
       /\ key \notin l.seen
       /\ \E order \in Orders(inherited) :
            ListBecomes(c,
              [Visited(l) EXCEPT
                 !.seen = @ \cup reached,
                 !.candidates = @ \cup Proposed(l.request, reached),
                 !.frontier = @ \o [i \in 1..(1 + Len(order)) |->
                   LET k == (<<key>> \o order)[i]
                   IN Item(Userset(k.object, k.relation), l.depth + 1)]])

EndOfVisit(c) ==
    /\ list[c].phase = "visit"
    /\ list[c].tuples = << >>
    /\ ListBecomes(c, [list[c] EXCEPT !.phase = "walk"])

----------------------------------------------------------------------------
(* The candidates, sorted, are checked until the page is full.             *)

Before(a, b) ==
    \E i, j \in DOMAIN Ordered : i < j /\ Ordered[i] = a /\ Ordered[j] = b

InOrder(objects) ==
    \A i, j \in DOMAIN objects : i < j => Before(objects[i], objects[j])

StartVerifying(c) ==
    LET l == list[c]
    IN /\ l.phase = "walk"
       /\ l.frontier = << >>
       /\ \E todo \in Orders(l.candidates) :
            /\ InOrder(todo)
            /\ ListBecomes(c, [l EXCEPT !.phase = "verify", !.todo = todo])

Full(l) == Len(l.objects) >= l.request.limit

Verifying(c) == list[c].phase = "verify"

(* Variant: each check resolves a revision of its own.                     *)
UnpinnedCheck(l) ==
    [NoRequest EXCEPT !.key = RelationKey(Head(l.todo), l.request.permission),
                      !.subject = l.request.subject]

PinnedCheck(l) ==
    [NoRequest EXCEPT !.key = RelationKey(Head(l.todo), l.request.permission),
                      !.subject = l.request.subject, !.revision = l.revision]

VerifyNext(c) ==
    /\ Verifying(c)
    /\ list[c].todo # << >>
    /\ ~ Full(list[c])
    /\ Begin(c, PinnedCheck(list[c]))
    /\ UNCHANGED <<storeVars, list>>

VerifyStep(c) == Verifying(c) /\ EngineStep(c) /\ UNCHANGED <<storeVars, list>>

(* Variant: a candidate whose check fails is left out of the list.         *)
TakenAnyway(l, e) ==
    [l EXCEPT !.todo = Tail(@),
              !.objects = IF e.value THEN Append(@, Head(l.todo)) ELSE @]

(* An error of any check is the error of the list.                         *)
Taken(l, e) ==
    IF e.error # "none"
      THEN ListFailed(l, e.error)
      ELSE [l EXCEPT !.todo = Tail(@),
                     !.objects = IF e.value THEN Append(@, Head(l.todo)) ELSE @]

Verified(c) ==
    /\ Verifying(c)
    /\ call[c].phase = "done"
    /\ list' = [list EXCEPT ![c] = Taken(list[c], call[c])]
    /\ call' = [call EXCEPT ![c] = IdleCall]
    /\ UNCHANGED <<storeVars, cache>>

EndOfList(c) ==
    LET l == list[c]
    IN /\ Verifying(c)
       /\ l.todo = << >> \/ Full(l)
       /\ ListBecomes(c, [IdleList EXCEPT !.phase = "done", !.request = l.request,
                            !.began = l.began, !.revision = l.revision,
                            !.candidates = l.candidates, !.objects = l.objects])

(* Head or a read fails, or the client has hung up.                        *)
ListFails(c) ==
    /\ \/ list[c].phase \in {"head", "walk", "visit"}
       \/ Verifying(c) /\ call[c].phase = "idle"
    /\ \E error \in {"store", "canceled"} : ListBecomes(c, ListFailed(list[c], error))

(* The handler answers. *)
RespondList(c) == list[c].phase = "done" /\ ListBecomes(c, IdleList)

----------------------------------------------------------------------------
ListStep(c) ==
    \/ ResolveList(c)
    \/ TooDeep(c)
    \/ ReadFrontier(c)
    \/ VisitSeen(c)
    \/ VisitNew(c)
    \/ EndOfVisit(c)
    \/ StartVerifying(c)
    \/ VerifyNext(c)
    \/ VerifyStep(c)
    \/ Verified(c)
    \/ EndOfList(c)
    \/ RespondList(c)

(* Somebody else writes. *)
WriteArrives ==
    /\ \E write \in Writes : Commit(write.add, write.remove)
    /\ UNCHANGED <<engineVars, list>>

Next ==
    \/ \E c \in Calls : ReceiveList(c) \/ ListStep(c) \/ ListFails(c)
    \/ WriteArrives

(* The goroutine of a handler runs whenever it can.                        *)
Spec == Init /\ [][Next]_vars /\ \A c \in Calls : WF_vars(ListStep(c))

----------------------------------------------------------------------------
(* What the theorems assume of the requests: they are about subjects and   *)
(* subproblems that have a meaning.                                        *)
RequestsKnown ==
    \A request \in Requests :
       /\ request.subject \in Subjects
       /\ \A t \in Tuples : t.object.type = request.type =>
            RelationKey(t.object, request.permission) \in Keys

----------------------------------------------------------------------------
(* Properties.                                                             *)

(* The objects that tuples of a world name.                                *)
NamedIn(world) == {t.object : t \in world}

(* Type invariant: a page is never longer than the cap of the API; the     *)
(* queue holds nothing deeper than one level below MaxDepth; a check is    *)
(* under way only for a candidate; and the walk is of one revision,        *)
(* although writes land between its reads: whatever it follows, has seen   *)
(* or proposes is a tuple of that revision, or an object that one names.   *)
TypeOK ==
    /\ StoreTypeOK
    /\ \A c \in Calls :
         LET l == list[c]
         IN /\ l.phase \in {"idle", "head", "walk", "visit", "verify", "done"}
            /\ l.request.limit \in 1..MaxPage
            /\ Len(l.objects) <= l.request.limit
            /\ l.revision \in 0..head /\ l.began \in 0..head
            /\ \A i \in DOMAIN l.frontier : l.frontier[i].depth \in 0..(MaxDepth + 1)
            /\ call[c].phase # "idle" => l.phase = "verify"
            /\ l.phase \in {"walk", "visit"} =>
                 /\ \A i \in DOMAIN l.tuples : l.tuples[i] \in World(l.revision)
                 /\ \A k \in l.seen : k.object \in NamedIn(World(l.revision))
            /\ l.error = "none" => l.candidates \subseteq NamedIn(World(l.revision))

Listed(c) == list[c].phase = "done" /\ list[c].error = "none"

IsAllowed(l, object) ==
    /\ object.type = l.request.type
    /\ Holds(World(l.revision), RelationKey(object, l.request.permission), l.request.subject)

IsRanked(l, object) ==
    Ranked(World(l.revision), RelationKey(object, l.request.permission))

(* The first page, in order, of the objects that ought to be on it: only   *)
(* objects that are allowed at the one revision of the list, and all that  *)
(* ought to be there, unless the page is full of earlier ones.             *)
IsPageOf(l, objects) ==
    LET found == Range(l.objects)
    IN /\ l.revision \in l.began..head
       /\ InOrder(l.objects)
       /\ Len(l.objects) <= l.request.limit
       /\ \A object \in found : IsAllowed(l, object)
       /\ \A object \in objects \ found :
            Full(l) /\ \A other \in found : Before(other, object)

(* A list is the first page of exactly the objects that are allowed.       *)
IsExact(l) == IsPageOf(l, {object \in Range(Ordered) : IsAllowed(l, object)})

(* "ListObjects and Check must never disagree": a list is the first page,  *)
(* in order, of exactly the objects that are allowed at one revision,      *)
(* which was the head while the request was being served, although writes  *)
(* land during the walk and between the checks.                            *)
ListExact == \A c \in Calls : Listed(c) => IsExact(list[c])

(* Whatever the walk has proposed, in whatever order the checks and other  *)
(* people's writes interleave: a page holds, in order, only objects that   *)
(* are allowed at the one revision of the list, and every candidate that   *)
(* is allowed there, unless the page is full of earlier ones.  (Candidates *)
(* whose permission leads into a cycle may be denied, as by Check.)        *)
PageExact ==
    \A c \in Calls : Listed(c) =>
      LET l == list[c]
      IN IsPageOf(l, {object \in l.candidates : IsAllowed(l, object) /\ IsRanked(l, object)})

(* No object that the subject may reach is hidden from a list that has     *)
(* room for it.                                                            *)
NothingHidden ==
    \A c \in Calls : Listed(c) /\ ~ Full(list[c]) =>
      \A i \in DOMAIN Ordered :
        IsAllowed(list[c], Ordered[i]) => Ordered[i] \in Range(list[c].objects)

(* Every list is answered, whatever cycles the groups have.                *)
ListsEnd == \A c \in Calls : list[c].phase = "head" ~> list[c].phase = "idle"

=============================================================================
