----------------------------- MODULE ListProofs -----------------------------
(***************************************************************************)
(* Theorems about lists, for every schema, data, reverse analysis and page *)
(* limit, and any number of lists at once: the checks of a list are pinned *)
(* to its revision, and its page is what they decide of its candidates.    *)
(* What CheckEngineProofs shows of one step of one check, whoever asks,    *)
(* is used here with lists as its callers.                                 *)
(***************************************************************************)
EXTENDS ListObjects, CheckEngineProofs

ListPhases == {"idle", "head", "walk", "visit", "verify", "done"}

IsList(l) ==
    l = [phase |-> l.phase, request |-> l.request, began |-> l.began,
         revision |-> l.revision, frontier |-> l.frontier, tuples |-> l.tuples,
         depth |-> l.depth, seen |-> l.seen, candidates |-> l.candidates,
         todo |-> l.todo, objects |-> l.objects, error |-> l.error]

IsSequence(s) == \E S : s \in Seq(S)

(* The objects that a list may hold.                                       *)
Listable(request) == {t.object : t \in {u \in Tuples : u.object.type = request.type}}

(* Its revision is fixed.                                                  *)
IsPinned(l) ==
    l.phase \in {"walk", "visit", "verify"} \/ (l.phase = "done" /\ l.error = "none")

(* The state of a list while h is the head.  Revision 0, which a check     *)
(* would take for a request to read at the head, has no candidates.        *)
ListOK(h, l) ==
    /\ IsList(l)
    /\ l.phase \in ListPhases
    /\ l.request.limit \in 1..MaxPage
    /\ l.began \in 0..h /\ l.revision \in 0..h
    /\ IsPinned(l) => l.began <= l.revision
    /\ IsSequence(l.frontier)
    /\ \A i \in DOMAIN l.frontier : l.frontier[i].depth \in 0..(MaxDepth + 1)
    /\ l.depth \in 0..MaxDepth
    /\ l.tuples \in Seq(Tuples)
    /\ l.candidates \subseteq Listable(l.request)
    /\ l.revision = 0 => l.tuples = << >> /\ l.candidates = {}
    /\ l.todo \in Seq(l.candidates) /\ l.objects \in Seq(l.candidates)
    /\ Len(l.objects) <= l.request.limit
    /\ l.phase \notin {"verify", "done"} => l.objects = << >>
    /\ l.phase # "verify" => l.todo = << >>
    /\ l.phase \in {"idle", "head"} => l.revision = 0

(* The check that a list waits for, if any, is that of its next candidate. *)
CheckFor(l, e) ==
    /\ e.phase # "idle" => l.phase = "verify" /\ l.todo # << >> /\ ~ Full(l)
    /\ e.phase = "resolve" \/ HasSnapshot(e) => e.request = PinnedCheck(l)
    /\ HasSnapshot(e) => e.revision = l.revision

ListInv ==
    /\ StoreTypeOK
    /\ history[0] = {}
    /\ CallsOK
    /\ list = [c \in Calls |-> list[c]]
    /\ \A c \in Calls : ListOK(head, list[c]) /\ CheckFor(list[c], call[c])

LEMMA VisitedFields ==
    ASSUME NEW l, IsList(l), NEW m, m = Visited(l)
    PROVE  /\ IsList(m)
           /\ m.phase = l.phase /\ m.request = l.request /\ m.began = l.began
           /\ m.revision = l.revision /\ m.frontier = l.frontier
           /\ m.tuples = Tail(l.tuples) /\ m.depth = l.depth /\ m.seen = l.seen
           /\ m.candidates = l.candidates /\ m.todo = l.todo /\ m.objects = l.objects
<1> DEFINE tuples == Tail(l.tuples)
<1>1. m = [l EXCEPT !.tuples = tuples]
  BY DEF Visited
<1> HIDE DEF tuples
<1>2. /\ IsList(m)
      /\ m.phase = l.phase /\ m.request = l.request /\ m.began = l.began
      /\ m.revision = l.revision /\ m.frontier = l.frontier
      /\ m.tuples = tuples /\ m.depth = l.depth /\ m.seen = l.seen
      /\ m.candidates = l.candidates /\ m.todo = l.todo /\ m.objects = l.objects
  BY <1>1 DEF IsList
<1> QED
  BY <1>2 DEF tuples

----------------------------------------------------------------------------
(* The store, and the checks.                                              *)

LEMMA WorldInTuples ==
    ASSUME StoreTypeOK, NEW rev \in 0..head
    PROVE  /\ World(rev) \subseteq Tuples /\ IsFiniteSet(World(rev))
           /\ World(rev) = history[rev]
<1>1. World(rev) = history[rev] /\ history[rev] \subseteq Tuples
  BY HeadTypes DEF World, StoreTypeOK
<1> QED
  BY <1>1, FS_Subset, FiniteAssumption

(* An order of a finite set is a sequence of all of it.                    *)
LEMMA OrderOf ==
    ASSUME NEW S, IsFiniteSet(S), NEW order \in Orders(S)
    PROVE  /\ order \in Seq(S) /\ Len(order) \in Nat
           /\ \A x \in S : \E i \in DOMAIN order : order[i] = x
<1> DEFINE n == Cardinality(S)
<1>1. n \in Nat
  BY FS_CardinalityType
<1>2. /\ order \in [1..n -> S]
      /\ \A x \in S : \E i \in 1..n : order[i] = x
  BY DEF Orders, Bijection, Injection, Surjection, IsInjective
<1> HIDE DEF n
<1>3. order \in Seq(S)
  BY <1>1, <1>2
<1> QED
  BY <1>2, <1>3

LEMMA NotChecking ==
    ASSUME NEW l, NEW e, CheckFor(l, e),
           l.phase # "verify" \/ e.phase = "idle", NEW m
    PROVE  CheckFor(m, e)
BY DEF CheckFor, HasSnapshot, Deciding

(* A step of one list that leaves its check alone.                         *)
LEMMA BecomesInv ==
    ASSUME ListInv, NEW c \in Calls, NEW m, ListBecomes(c, m),
           ListOK(head, m), CheckFor(m, call[c])
    PROVE  ListInv'
<1>1. /\ list' = [list EXCEPT ![c] = m]
      /\ head' = head /\ history' = history /\ cache' = cache /\ call' = call
  BY DEF ListBecomes, storeVars, engineVars
<1>2. /\ list' = [d \in Calls |-> list'[d]]
      /\ list'[c] = m
      /\ \A d \in Calls : d # c => list'[d] = list[d]
  BY <1>1 DEF ListInv
<1>3. StoreTypeOK' /\ history'[0] = {} /\ CallsOK'
  BY <1>1 DEF ListInv, StoreTypeOK, CallsOK
<1>4. ASSUME NEW d \in Calls
      PROVE  ListOK(head', list'[d]) /\ CheckFor(list'[d], call'[d])
  BY <1>1, <1>2 DEF ListInv
<1> QED
  BY <1>2, <1>3, <1>4 DEF ListInv

LEMMA IdleListOK ==
    ASSUME NEW h \in Nat
    PROVE  ListOK(h, IdleList)
<1> DEFINE l == IdleList
<1>1. /\ IsList(l)
      /\ l.phase = "idle" /\ l.request.limit = 1 /\ l.began = 0 /\ l.revision = 0
      /\ l.frontier = << >> /\ l.tuples = << >> /\ l.depth = 0 /\ l.candidates = {}
      /\ l.todo = << >> /\ l.objects = << >> /\ l.error = "none"
  BY DEF IdleList, NoList, IsList
<1> HIDE DEF l
<1>2. IsSequence(l.frontier)
  BY <1>1, << >> \in Seq({}) DEF IsSequence
<1>3. 1 \in 1..MaxPage /\ 0 \in 0..MaxDepth
  BY ListAssumption, EngineAssumption
<1>4. /\ l.tuples \in Seq(Tuples) /\ l.todo \in Seq(l.candidates)
      /\ l.objects \in Seq(l.candidates) /\ Len(l.objects) = 0
  BY <1>1
<1>5. DOMAIN l.frontier = {}
  BY <1>1
<1>6. l.phase \in ListPhases /\ ~ IsPinned(l) /\ 0 \in 0..h
  BY <1>1 DEF ListPhases, IsPinned
<1>7. ListOK(h, l)
  BY <1>1, <1>2, <1>3, <1>4, <1>5, <1>6 DEF ListOK
<1> QED
  BY <1>7 DEF l

----------------------------------------------------------------------------
(* A request arrives, and its list gets a revision.                        *)

LEMMA ReceiveListInv ==
    ASSUME ListInv, NEW c \in Calls, ReceiveList(c)
    PROVE  ListInv'
<1>1. PICK request \in Requests :
        /\ list[c].phase = "idle"
        /\ ListBecomes(c, [IdleList EXCEPT !.phase = "head", !.began = head,
                             !.request = [request EXCEPT !.limit = PageSize(@)]])
  BY DEF ReceiveList
<1> DEFINE asked == [request EXCEPT !.limit = PageSize(@)]
           m == [IdleList EXCEPT !.phase = "head", !.began = head, !.request = asked]
<1>2. asked.limit \in 1..MaxPage
  <2>1. asked.limit = PageSize(request.limit)
    BY ListAssumption
  <2> QED
    BY <2>1, ListAssumption DEF PageSize
<1> HIDE DEF asked, m
<1>3. /\ IsList(m)
      /\ m.phase = "head" /\ m.request = asked /\ m.began = head /\ m.revision = 0
      /\ m.frontier = << >> /\ m.tuples = << >> /\ m.depth = 0 /\ m.candidates = {}
      /\ m.todo = << >> /\ m.objects = << >>
  <2>1. m = [IdleList EXCEPT !.phase = "head", !.began = head, !.request = asked]
    BY DEF m
  <2> QED
    BY ONLY <2>1 DEF IdleList, IsList
<1>4. head \in Nat /\ 0 \in 0..MaxDepth
  BY HeadTypes, EngineAssumption DEF ListInv
<1>5. IsSequence(m.frontier) /\ m.tuples \in Seq(Tuples) /\ m.todo \in Seq(m.candidates)
      /\ Len(m.objects) = 0
  BY <1>3, << >> \in Seq({}) DEF IsSequence
<1>6. ListOK(head, m)
  BY <1>2, <1>3, <1>4, <1>5 DEF ListOK, ListPhases, IsPinned
<1>7. CheckFor(m, call[c])
  BY <1>1, NotChecking DEF ListInv
<1> QED
  BY <1>1, <1>6, <1>7, BecomesInv DEF m, asked

LEMMA ResolveListInv ==
    ASSUME ListInv, NEW c \in Calls, ResolveList(c)
    PROVE  ListInv'
<1> DEFINE l == list[c]
           first == <<Item(l.request.subject, 0)>>
           m == [l EXCEPT !.phase = "walk", !.revision = head, !.frontier = first]
<1>1. l.phase = "head" /\ ListOK(head, l) /\ CheckFor(l, call[c]) /\ ListBecomes(c, m)
  BY DEF ListInv, ResolveList
<1>2. IsSequence(first) /\ \A i \in DOMAIN first : first[i].depth = 0
  <2> DEFINE item == Item(l.request.subject, 0)
  <2>1. item.depth = 0
    BY DEF Item
  <2> HIDE DEF item
  <2>2. <<item>> \in Seq({item}) /\ \A i \in DOMAIN <<item>> : <<item>>[i] = item
    OBVIOUS
  <2> QED
    BY <2>1, <2>2 DEF IsSequence, item
<1> HIDE DEF first, m
<1>3. /\ IsList(m)
      /\ m.phase = "walk" /\ m.request = l.request /\ m.began = l.began
      /\ m.revision = head /\ m.frontier = first /\ m.tuples = l.tuples
      /\ m.depth = l.depth /\ m.candidates = l.candidates /\ m.todo = l.todo
      /\ m.objects = l.objects
  <2>1. m = [l EXCEPT !.phase = "walk", !.revision = head, !.frontier = first]
    BY DEF m
  <2>2. IsList(l)
    BY <1>1 DEF ListOK
  <2> HIDE DEF l
  <2> QED
    BY ONLY <2>1, <2>2 DEF IsList
<1>4. l.tuples = << >> /\ l.candidates = {}
  BY <1>1 DEF ListOK
<1>5. head \in Nat /\ 0 \in 0..(MaxDepth + 1) /\ l.began \in 0..head
  BY <1>1, HeadTypes, EngineAssumption DEF ListInv, ListOK
<1>6. ListOK(head, m)
  BY <1>1, <1>2, <1>3, <1>4, <1>5 DEF ListOK, ListPhases, IsPinned
<1>7. CheckFor(m, call[c])
  BY <1>1, NotChecking
<1> QED
  BY <1>1, <1>6, <1>7, BecomesInv DEF m, first

----------------------------------------------------------------------------
(* The walk.                                                               *)

LEMMA TailOf ==
    ASSUME NEW S, NEW s \in Seq(S), s # << >>
    PROVE  /\ Tail(s) \in Seq(S) /\ Head(s) \in S /\ Head(s) = s[1] /\ 1 \in DOMAIN s
           /\ \A i \in DOMAIN Tail(s) : i + 1 \in DOMAIN s /\ Tail(s)[i] = s[i + 1]
           /\ \A i \in DOMAIN s : i # 1 => i - 1 \in DOMAIN Tail(s) /\ s[i] = Tail(s)[i - 1]
OBVIOUS

LEMMA AppendOf ==
    ASSUME NEW S, NEW s \in Seq(S), NEW x \in S
    PROVE  /\ Append(s, x) \in Seq(S) /\ Len(s) \in Nat
           /\ Len(Append(s, x)) = Len(s) + 1
           /\ DOMAIN s = 1..Len(s) /\ DOMAIN Append(s, x) = 1..(Len(s) + 1)
           /\ Append(s, x)[Len(s) + 1] = x
           /\ \A i \in 1..Len(s) : Append(s, x)[i] = s[i]
OBVIOUS

LEMMA DequeuedIs ==
    ASSUME NEW l, IsSequence(l.frontier), l.frontier # << >>, NEW D,
           \A i \in DOMAIN l.frontier : l.frontier[i].depth \in D
    PROVE  /\ IsSequence(Dequeued(l)) /\ Head(l.frontier).depth \in D
           /\ \A i \in DOMAIN Dequeued(l) : Dequeued(l)[i].depth \in D
<1>1. PICK S : l.frontier \in Seq(S)
  BY DEF IsSequence
<1> DEFINE s == l.frontier
<1>2. /\ Tail(s) \in Seq(S) /\ Head(s) = s[1] /\ 1 \in DOMAIN s
      /\ \A i \in DOMAIN Tail(s) : i + 1 \in DOMAIN s /\ Tail(s)[i] = s[i + 1]
  BY <1>1, TailOf
<1> QED
  BY <1>2 DEF IsSequence, Dequeued

(* A list in the walk that goes on with other fields of the walk.          *)
LEMMA WalkInv ==
    ASSUME ListInv, NEW c \in Calls, list[c].phase \in {"walk", "visit"},
           NEW m, ListBecomes(c, m), IsList(m), m.phase \in {"walk", "visit"},
           m.request = list[c].request, m.began = list[c].began,
           m.revision = list[c].revision,
           m.todo = list[c].todo, m.objects = list[c].objects,
           IsSequence(m.frontier),
           \A i \in DOMAIN m.frontier : m.frontier[i].depth \in 0..(MaxDepth + 1),
           m.depth \in 0..MaxDepth, m.tuples \in Seq(Tuples),
           m.candidates \subseteq Listable(m.request),
           m.revision = 0 => m.tuples = << >> /\ m.candidates = {}
    PROVE  ListInv'
<1>1. ListOK(head, list[c]) /\ CheckFor(list[c], call[c])
  BY DEF ListInv
<1>2. m.todo = << >> /\ m.objects = << >>
  BY <1>1 DEF ListOK
<1>3. m.todo \in Seq(m.candidates) /\ m.objects \in Seq(m.candidates)
  BY <1>2
<1>4. ListOK(head, m)
  BY <1>1, <1>2, <1>3 DEF ListOK, ListPhases, IsPinned
<1>5. CheckFor(m, call[c])
  BY <1>1, NotChecking
<1> QED
  BY <1>4, <1>5, BecomesInv

LEMMA TooDeepInv ==
    ASSUME ListInv, NEW c \in Calls, TooDeep(c)
    PROVE  ListInv'
<1> DEFINE l == list[c]
           m == [l EXCEPT !.frontier = Dequeued(l)]
<1>1. /\ l.phase = "walk" /\ l.frontier # << >>
      /\ ListOK(head, l) /\ ListBecomes(c, m)
  BY DEF ListInv, TooDeep, Walking
<1>2. /\ IsSequence(Dequeued(l))
      /\ \A i \in DOMAIN Dequeued(l) : Dequeued(l)[i].depth \in 0..(MaxDepth + 1)
  BY <1>1, DequeuedIs DEF ListOK
<1>3. /\ IsList(m)
      /\ m.phase = l.phase /\ m.request = l.request /\ m.began = l.began
      /\ m.revision = l.revision /\ m.frontier = Dequeued(l) /\ m.tuples = l.tuples
      /\ m.depth = l.depth /\ m.candidates = l.candidates /\ m.todo = l.todo
      /\ m.objects = l.objects
  BY <1>1 DEF ListOK, IsList
<1> HIDE DEF m
<1>4. /\ l.depth \in 0..MaxDepth /\ l.tuples \in Seq(Tuples)
      /\ l.candidates \subseteq Listable(l.request)
      /\ l.revision = 0 => l.tuples = << >> /\ l.candidates = {}
  BY <1>1 DEF ListOK
<1> QED
  BY <1>1, <1>2, <1>3, <1>4, WalkInv

LEMMA ReadFrontierInv ==
    ASSUME ListInv, NEW c \in Calls, ReadFrontier(c)
    PROVE  ListInv'
<1> DEFINE l == list[c]
           item == Head(l.frontier)
           found == ReadBySubject(l.revision, item.subject, NoRelation)
<1>1. PICK tuples \in Orders(found) :
        ListBecomes(c, [l EXCEPT !.phase = "visit", !.frontier = Dequeued(l),
                                 !.tuples = tuples, !.depth = item.depth])
  BY DEF ReadFrontier
<1> DEFINE m == [l EXCEPT !.phase = "visit", !.frontier = Dequeued(l),
                          !.tuples = tuples, !.depth = item.depth]
<1>2. /\ l.phase = "walk" /\ l.frontier # << >> /\ item.depth <= MaxDepth
      /\ ListOK(head, l) /\ StoreTypeOK /\ history[0] = {}
  BY DEF ListInv, ReadFrontier, Walking
<1>3. /\ IsSequence(Dequeued(l)) /\ item.depth \in 0..(MaxDepth + 1)
      /\ \A i \in DOMAIN Dequeued(l) : Dequeued(l)[i].depth \in 0..(MaxDepth + 1)
  BY <1>2, DequeuedIs DEF ListOK
<1>4. /\ found \subseteq Tuples /\ IsFiniteSet(found)
      /\ l.revision = 0 => found = {}
  <2>1. l.revision \in 0..head
    BY <1>2 DEF ListOK
  <2>2. /\ World(l.revision) \subseteq Tuples /\ IsFiniteSet(World(l.revision))
        /\ World(l.revision) = history[l.revision]
    BY <1>2, <2>1, WorldInTuples
  <2>3. found \subseteq World(l.revision)
    BY DEF ReadBySubject
  <2> QED
    BY <1>2, <2>2, <2>3, FS_Subset
<1> HIDE DEF found
<1>5. tuples \in Seq(Tuples) /\ (l.revision = 0 => tuples = << >>)
  <2>1. tuples \in Seq(found)
    BY <1>4, OrderOf
  <2> QED
    BY <1>4, <2>1
<1> HIDE DEF m, item
<1>6. /\ IsList(m)
      /\ m.phase = "visit" /\ m.request = l.request /\ m.began = l.began
      /\ m.revision = l.revision /\ m.frontier = Dequeued(l) /\ m.tuples = tuples
      /\ m.depth = item.depth /\ m.candidates = l.candidates /\ m.todo = l.todo
      /\ m.objects = l.objects
  <2>1. m = [l EXCEPT !.phase = "visit", !.frontier = Dequeued(l),
                      !.tuples = tuples, !.depth = item.depth]
    BY DEF m
  <2>2. IsList(l)
    BY <1>2 DEF ListOK
  <2> HIDE DEF l
  <2> QED
    BY ONLY <2>1, <2>2 DEF IsList
<1>7. /\ item.depth \in 0..MaxDepth
      /\ l.candidates \subseteq Listable(l.request)
      /\ l.revision = 0 => l.candidates = {}
  BY <1>2, <1>3, EngineAssumption DEF ListOK
<1> QED
  BY <1>1, <1>2, <1>3, <1>5, <1>6, <1>7, WalkInv DEF m

LEMMA VisitSeenInv ==
    ASSUME ListInv, NEW c \in Calls, VisitSeen(c)
    PROVE  ListInv'
<1> DEFINE l == list[c]
           m == Visited(l)
<1>1. /\ l.phase = "visit" /\ l.tuples # << >>
      /\ ListOK(head, l) /\ ListBecomes(c, m)
  BY DEF ListInv, VisitSeen
<1>2. /\ IsList(m)
      /\ m.phase = l.phase /\ m.request = l.request /\ m.began = l.began
      /\ m.revision = l.revision /\ m.frontier = l.frontier /\ m.tuples = Tail(l.tuples)
      /\ m.depth = l.depth /\ m.candidates = l.candidates /\ m.todo = l.todo
      /\ m.objects = l.objects
  BY <1>1, VisitedFields DEF ListOK
<1> HIDE DEF m
<1>3. /\ l.depth \in 0..MaxDepth /\ l.tuples \in Seq(Tuples)
      /\ l.candidates \subseteq Listable(l.request)
      /\ l.revision # 0 /\ IsSequence(l.frontier)
      /\ \A i \in DOMAIN l.frontier : l.frontier[i].depth \in 0..(MaxDepth + 1)
  BY <1>1 DEF ListOK
<1>4. Tail(l.tuples) \in Seq(Tuples)
  BY <1>1, <1>3, TailOf
<1> QED
  BY <1>1, <1>2, <1>3, <1>4, WalkInv

LEMMA EndOfVisitInv ==
    ASSUME ListInv, NEW c \in Calls, EndOfVisit(c)
    PROVE  ListInv'
<1> DEFINE l == list[c]
           m == [l EXCEPT !.phase = "walk"]
<1>1. l.phase = "visit" /\ ListOK(head, l) /\ ListBecomes(c, m)
  BY DEF ListInv, EndOfVisit
<1>2. /\ IsList(m)
      /\ m.phase = "walk" /\ m.request = l.request /\ m.began = l.began
      /\ m.revision = l.revision /\ m.frontier = l.frontier /\ m.tuples = l.tuples
      /\ m.depth = l.depth /\ m.candidates = l.candidates /\ m.todo = l.todo
      /\ m.objects = l.objects
  BY <1>1 DEF ListOK, IsList
<1> HIDE DEF m
<1>3. /\ l.depth \in 0..MaxDepth /\ l.tuples \in Seq(Tuples)
      /\ l.candidates \subseteq Listable(l.request)
      /\ l.revision = 0 => l.tuples = << >> /\ l.candidates = {}
      /\ IsSequence(l.frontier)
      /\ \A i \in DOMAIN l.frontier : l.frontier[i].depth \in 0..(MaxDepth + 1)
  BY <1>1 DEF ListOK
<1> QED
  BY <1>1, <1>2, <1>3, WalkInv

LEMMA FiniteImage ==
    ASSUME NEW S, IsFiniteSet(S), NEW f, f = [x \in S |-> f[x]]
    PROVE  IsFiniteSet({f[x] : x \in S})
<1> DEFINE T == {f[x] : x \in S}
<1>1. f \in Surjection(S, T)
  <2>1. f \in [S -> T] /\ \A y \in T : \E x \in S : f[x] = y
    OBVIOUS
  <2> QED
    BY <2>1 DEF Surjection
<1> HIDE DEF T
<1>2. IsFiniteSet(T)
  BY <1>1, FS_Surjection
<1> QED
  BY <1>2 DEF T

(* What a tuple of the walk leads to is finite, and made of stored objects. *)
LEMMA InheritingIs ==
    ASSUME StoreTypeOK, NEW rev \in 0..head, NEW t \in Tuples
    PROVE  /\ IsFiniteSet(Inheriting(rev, t))
           /\ \A k \in Inheriting(rev, t) : \E u \in Tuples : k.object = u.object
<1> DEFINE walks == WalksTo(t.relation)
           pairs == Tuples \X walks
           f == [p \in pairs |-> RelationKey(p[1].object, p[2].permission)]
           image == {f[p] : p \in pairs}
<1>1. IsFiniteSet(image)
  <2>1. IsFiniteSet(pairs)
    BY FiniteAssumption, FS_Product
  <2>2. f = [p \in pairs |-> f[p]]
    OBVIOUS
  <2> HIDE DEF pairs, f
  <2> QED
    BY <2>1, <2>2, FiniteImage
<1>2. ASSUME NEW k \in Inheriting(rev, t)
      PROVE  k \in image /\ \E u \in Tuples : k.object = u.object
  <2>1. PICK walk \in walks, u \in World(rev) : k = RelationKey(u.object, walk.permission)
    BY <1>2 DEF Inheriting, ReadBySubject
  <2>2. u \in Tuples
    BY WorldInTuples
  <2>3. <<u, walk>> \in pairs /\ f[<<u, walk>>] = k
    BY <2>1, <2>2
  <2>4. k.object = u.object
    BY <2>1 DEF RelationKey
  <2> QED
    BY <2>2, <2>3, <2>4
<1> HIDE DEF image
<1> QED
  BY <1>1, <1>2, FS_Subset

LEMMA ProposedIs ==
    ASSUME NEW request, NEW keys,
           \A k \in keys : \E u \in Tuples : k.object = u.object
    PROVE  Proposed(request, keys) \subseteq Listable(request)
<1>1. ASSUME NEW k \in keys, k.object.type = request.type
      PROVE  k.object \in Listable(request)
  BY <1>1 DEF Listable
<1> QED
  BY <1>1 DEF Proposed

LEMMA FrontierGrows ==
    ASSUME NEW s, IsSequence(s), NEW D, \A i \in DOMAIN s : s[i].depth \in D,
           NEW n \in Nat, NEW T, NEW more \in [1..n -> T],
           \A i \in 1..n : more[i].depth \in D
    PROVE  /\ IsSequence(s \o more)
           /\ \A i \in DOMAIN (s \o more) : (s \o more)[i].depth \in D
<1>1. PICK S : s \in Seq(S)
  BY DEF IsSequence
<1> DEFINE both == S \cup T
<1>2. more \in [1..n -> T]
  OBVIOUS
<1>3. S \subseteq both /\ T \subseteq both
  OBVIOUS
<1> HIDE DEF both
<1>4. s \in Seq(both) /\ Len(s) \in Nat
  BY <1>1, <1>3
<1>5. more \in [1..n -> both]
  BY <1>2, <1>3
<1>6. more \in Seq(both) /\ Len(more) = n
  BY <1>5
<1>7. /\ s \o more \in Seq(both)
      /\ DOMAIN (s \o more) = 1..(Len(s) + n)
      /\ \A i \in 1..(Len(s) + n) :
           (s \o more)[i] = IF i <= Len(s) THEN s[i] ELSE more[i - Len(s)]
  BY <1>4, <1>6
<1>8. ASSUME NEW i \in 1..(Len(s) + n)
      PROVE  (s \o more)[i].depth \in D
  <2>1. CASE i <= Len(s)
    <3>1. i \in DOMAIN s
      BY <1>4, <1>6, <2>1
    <3> QED
      BY <1>7, <2>1, <3>1
  <2>2. CASE ~ (i <= Len(s))
    <3>1. i - Len(s) \in 1..n
      BY <1>4, <1>6, <2>2
    <3> QED
      BY <1>7, <2>2, <3>1
  <2> QED
    BY <2>1, <2>2
<1> QED
  BY <1>7, <1>8 DEF IsSequence

LEMMA VisitNewInv ==
    ASSUME ListInv, NEW c \in Calls, VisitNew(c)
    PROVE  ListInv'
<1> DEFINE l == list[c]
           key == KeyOf(Head(l.tuples))
           inherited == Inheriting(l.revision, Head(l.tuples)) \ (l.seen \cup {key})
           reached == {key} \cup inherited
           more(order) == [i \in 1..(1 + Len(order)) |->
                             LET k == (<<key>> \o order)[i]
                             IN Item(Userset(k.object, k.relation), l.depth + 1)]
<1>1. PICK order \in Orders(inherited) :
        ListBecomes(c, [Visited(l) EXCEPT
                          !.seen = @ \cup reached,
                          !.candidates = @ \cup Proposed(l.request, reached),
                          !.frontier = @ \o more(order)])
  BY DEF VisitNew
<1>2. /\ l.phase = "visit" /\ l.tuples # << >>
      /\ ListOK(head, l) /\ StoreTypeOK
  BY DEF ListInv, VisitNew
<1>3. /\ IsList(l) /\ l.revision \in 0..head /\ l.revision # 0
      /\ l.tuples \in Seq(Tuples) /\ l.depth \in 0..MaxDepth
      /\ l.candidates \subseteq Listable(l.request)
      /\ IsSequence(l.frontier)
      /\ \A i \in DOMAIN l.frontier : l.frontier[i].depth \in 0..(MaxDepth + 1)
  BY <1>2 DEF ListOK
<1>4. Head(l.tuples) \in Tuples /\ Tail(l.tuples) \in Seq(Tuples)
  BY <1>2, <1>3, TailOf
<1>5. IsFiniteSet(inherited) /\ \A k \in reached : \E u \in Tuples : k.object = u.object
  <2>1. /\ IsFiniteSet(Inheriting(l.revision, Head(l.tuples)))
        /\ \A k \in Inheriting(l.revision, Head(l.tuples)) : \E u \in Tuples : k.object = u.object
    BY <1>2, <1>3, <1>4, InheritingIs
  <2>2. key.object = Head(l.tuples).object
    BY DEF KeyOf, RelationKey
  <2> QED
    BY <1>4, <2>1, <2>2, FS_Subset
<1> HIDE DEF inherited, key
<1>6. Proposed(l.request, reached) \subseteq Listable(l.request)
  BY <1>5, ProposedIs
<1> HIDE DEF reached
<1> DEFINE n == 1 + Len(order)
           proposed == Proposed(l.request, reached)
           frontier == l.frontier \o more(order)
<1>7. IsSequence(frontier) /\ \A i \in DOMAIN frontier : frontier[i].depth \in 0..(MaxDepth + 1)
  <2>1. n \in Nat
    BY <1>1, <1>5, OrderOf
  <2>2. l.depth + 1 \in 0..(MaxDepth + 1)
    BY <1>3, EngineAssumption
  <2>3. \A i \in 1..n : more(order)[i].depth = l.depth + 1
    BY DEF Item
  <2> DEFINE T == {more(order)[i] : i \in 1..n}
  <2>4. more(order) \in [1..n -> T]
    OBVIOUS
  <2> DEFINE D == 0..(MaxDepth + 1)
             b == more(order)
  <2>5. \A i \in 1..n : b[i].depth \in D
    BY <2>2, <2>3
  <2>6. IsSequence(l.frontier) /\ \A i \in DOMAIN l.frontier : l.frontier[i].depth \in D
    BY <1>3
  <2> HIDE DEF n, more, T, D, b
  <2>7. b \in [1..n -> T]
    BY <2>4 DEF b
  <2>8. /\ IsSequence(l.frontier \o b)
        /\ \A i \in DOMAIN (l.frontier \o b) : (l.frontier \o b)[i].depth \in D
    BY ONLY <2>1, <2>5, <2>6, <2>7, FrontierGrows
  <2> QED
    BY <2>8 DEF D, b
<1> DEFINE v == Visited(l)
           m == [v EXCEPT !.seen = @ \cup reached, !.candidates = @ \cup proposed,
                          !.frontier = @ \o more(order)]
<1>8. ListBecomes(c, m)
  BY <1>1
<1> HIDE DEF proposed, more, m, v
<1>9. /\ IsList(m)
      /\ m.phase = v.phase /\ m.request = v.request /\ m.began = v.began
      /\ m.revision = v.revision /\ m.frontier = v.frontier \o more(order)
      /\ m.tuples = v.tuples /\ m.depth = v.depth
      /\ m.candidates = v.candidates \cup proposed /\ m.todo = v.todo
      /\ m.objects = v.objects
  <2>1. m = [v EXCEPT !.seen = @ \cup reached, !.candidates = @ \cup proposed,
                      !.frontier = @ \o more(order)]
    BY DEF m
  <2>2. IsList(v)
    BY <1>3, VisitedFields DEF v
  <2> DEFINE seen == v.seen \cup reached
             candidates == v.candidates \cup proposed
             longer == v.frontier \o more(order)
  <2>3. m = [v EXCEPT !.seen = seen, !.candidates = candidates, !.frontier = longer]
    BY <2>1
  <2> HIDE DEF seen, candidates, longer
  <2>4. /\ IsList(m)
        /\ m.phase = v.phase /\ m.request = v.request /\ m.began = v.began
        /\ m.revision = v.revision /\ m.frontier = longer
        /\ m.tuples = v.tuples /\ m.depth = v.depth
        /\ m.candidates = candidates /\ m.todo = v.todo /\ m.objects = v.objects
    BY ONLY <2>2, <2>3 DEF IsList
  <2> QED
    BY <2>4 DEF candidates, longer
<1>10. /\ v.phase = l.phase /\ v.request = l.request /\ v.began = l.began
       /\ v.revision = l.revision /\ v.frontier = l.frontier
       /\ v.tuples = Tail(l.tuples) /\ v.depth = l.depth
       /\ v.candidates = l.candidates /\ v.todo = l.todo /\ v.objects = l.objects
  BY <1>3, VisitedFields DEF v
<1>11. /\ m.phase = "visit" /\ m.request = l.request /\ m.began = l.began
       /\ m.revision = l.revision /\ m.frontier = frontier
       /\ m.tuples = Tail(l.tuples) /\ m.depth = l.depth
       /\ m.candidates = l.candidates \cup proposed /\ m.todo = l.todo
       /\ m.objects = l.objects
  BY <1>2, <1>9, <1>10
<1>12. m.candidates \subseteq Listable(m.request)
  BY <1>3, <1>6, <1>11 DEF proposed
<1> HIDE DEF frontier
<1> QED
  BY <1>2, <1>3, <1>4, <1>7, <1>8, <1>9, <1>11, <1>12, WalkInv

----------------------------------------------------------------------------
(* The checks of the candidates.                                           *)

LEMMA StartVerifyingIs ==
    ASSUME ListInv, NEW c \in Calls, StartVerifying(c)
    PROVE  \E m : /\ ListBecomes(c, m) /\ ListOK(head, m) /\ CheckFor(m, call[c])
                  /\ m.phase = "verify" /\ m.request = list[c].request
                  /\ InOrder(m.todo) /\ m.objects = << >>
                  /\ \A x \in m.candidates : \E i \in DOMAIN m.todo : m.todo[i] = x
<1> DEFINE l == list[c]
<1>1. PICK todo \in Orders(l.candidates) :
        /\ InOrder(todo)
        /\ ListBecomes(c, [l EXCEPT !.phase = "verify", !.todo = todo])
  BY DEF StartVerifying
<1> DEFINE m == [l EXCEPT !.phase = "verify", !.todo = todo]
<1>2. l.phase = "walk" /\ ListOK(head, l) /\ CheckFor(l, call[c])
  BY DEF StartVerifying, ListInv
<1>3. /\ IsList(l) /\ l.candidates \subseteq Listable(l.request)
      /\ l.objects = << >>
  BY <1>2 DEF ListOK
<1>4. /\ todo \in Seq(l.candidates)
      /\ \A x \in l.candidates : \E i \in DOMAIN todo : todo[i] = x
  <2> DEFINE some == {u \in Tuples : u.object.type = l.request.type}
             f == [t \in some |-> t.object]
  <2>1. IsFiniteSet(some)
    BY FiniteAssumption, FS_Subset
  <2>2. f = [t \in some |-> f[t]] /\ Listable(l.request) = {f[t] : t \in some}
    BY DEF Listable
  <2> HIDE DEF some, f
  <2>3. IsFiniteSet(Listable(l.request))
    BY <2>1, <2>2, FiniteImage
  <2> QED
    BY <1>1, <1>3, <2>3, FS_Subset, OrderOf
<1> HIDE DEF m
<1>5. /\ IsList(m)
      /\ m.phase = "verify" /\ m.request = l.request /\ m.began = l.began
      /\ m.revision = l.revision /\ m.frontier = l.frontier /\ m.tuples = l.tuples
      /\ m.depth = l.depth /\ m.candidates = l.candidates /\ m.todo = todo
      /\ m.objects = l.objects
  <2>1. m = [l EXCEPT !.phase = "verify", !.todo = todo]
    BY DEF m
  <2> HIDE DEF l
  <2> QED
    BY ONLY <1>3, <2>1 DEF IsList
<1>6. ListOK(head, m)
  BY <1>2, <1>4, <1>5 DEF ListOK, ListPhases, IsPinned
<1>7. CheckFor(m, call[c])
  BY <1>2, NotChecking
<1>8. ListBecomes(c, m)
  BY <1>1 DEF m
<1> QED
  BY <1>1, <1>3, <1>4, <1>5, <1>6, <1>7, <1>8

LEMMA StartVerifyingInv ==
    ASSUME ListInv, NEW c \in Calls, StartVerifying(c)
    PROVE  ListInv'
BY StartVerifyingIs, BecomesInv

(* A step of the check that a list waits for, and perhaps of the list.     *)
LEMMA CheckMovesInv ==
    ASSUME ListInv, NEW c \in Calls, UNCHANGED <<head, history>>,
           call' = [call EXCEPT ![c] = call'[c]],
           EvalInv(call'[c]), Decisions(cache'),
           list' = [list EXCEPT ![c] = list'[c]],
           ListOK(head, list'[c]), CheckFor(list'[c], call'[c])
    PROVE  ListInv'
<1>1. /\ call' = [d \in Calls |-> call'[d]]
      /\ list' = [d \in Calls |-> list'[d]]
      /\ \A d \in Calls : d # c => call'[d] = call[d] /\ list'[d] = list[d]
  BY DEF ListInv, CallsOK
<1>2. \A d \in Calls : EvalInv(call'[d])
  BY <1>1 DEF ListInv, CallsOK
<1>3. \A d \in Calls : ListOK(head', list'[d]) /\ CheckFor(list'[d], call'[d])
  BY <1>1 DEF ListInv
<1>4. StoreTypeOK' /\ history'[0] = {}
  BY DEF ListInv, StoreTypeOK
<1> QED
  BY <1>1, <1>2, <1>3, <1>4 DEF ListInv, CallsOK

LEMMA VerifyNextIs ==
    ASSUME ListInv, NEW c \in Calls, VerifyNext(c)
    PROVE  /\ UNCHANGED <<head, history, cache, list>>
           /\ call' = [call EXCEPT ![c] = call'[c]]
           /\ call[c].phase = "idle" /\ list[c].phase = "verify"
           /\ list[c].todo # << >> /\ ~ Full(list[c])
           /\ EvalInv(call'[c]) /\ call'[c].phase = "resolve"
           /\ call'[c].request = PinnedCheck(list[c]) /\ call'[c].memo = Empty
<1> DEFINE request == PinnedCheck(list[c])
           f == [IdleCall EXCEPT !.phase = "resolve", !.request = request]
<1>1. /\ call[c].phase = "idle"
      /\ call' = [call EXCEPT ![c] = f]
      /\ UNCHANGED <<head, history, cache, list>>
      /\ list[c].phase = "verify" /\ list[c].todo # << >> /\ ~ Full(list[c])
  BY DEF VerifyNext, Verifying, Begin, Becomes, storeVars
<1> HIDE DEF request
<1>2. EvalInv(f) /\ f.phase = "resolve" /\ f.request = request
  BY ReceivedInv
<1>3. f.memo = Empty
  BY DEF IdleCall
<1> HIDE DEF f
<1>4. call'[c] = f
  BY <1>1 DEF ListInv, CallsOK
<1> QED
  BY <1>1, <1>2, <1>3, <1>4 DEF request

LEMMA VerifyNextInv ==
    ASSUME ListInv, NEW c \in Calls, VerifyNext(c)
    PROVE  ListInv'
<1>1. /\ UNCHANGED <<head, history, cache, list>>
      /\ call' = [call EXCEPT ![c] = call'[c]]
      /\ list[c].phase = "verify" /\ list[c].todo # << >> /\ ~ Full(list[c])
      /\ EvalInv(call'[c]) /\ call'[c].phase = "resolve"
      /\ call'[c].request = PinnedCheck(list[c])
  BY VerifyNextIs
<1>2. list' = [list EXCEPT ![c] = list'[c]] /\ ListOK(head, list'[c])
  BY <1>1 DEF ListInv
<1>3. CheckFor(list'[c], call'[c])
  BY <1>1 DEF CheckFor, HasSnapshot, Deciding
<1>4. Decisions(cache')
  BY <1>1 DEF ListInv, CallsOK
<1> QED
  BY <1>1, <1>2, <1>3, <1>4, CheckMovesInv

(* A check that is under way has a candidate to decide.                    *)
LEMMA UnderWay ==
    ASSUME ListInv, NEW c \in Calls, call[c].phase # "idle"
    PROVE  /\ list[c].phase = "verify" /\ list[c].todo # << >> /\ ~ Full(list[c])
           /\ list[c].revision \in 0..head /\ list[c].revision # 0
<1>1. ListOK(head, list[c]) /\ CheckFor(list[c], call[c])
  BY DEF ListInv
<1>2. list[c].phase = "verify" /\ list[c].todo # << >> /\ ~ Full(list[c])
  BY <1>1 DEF CheckFor
<1>3. list[c].revision # 0
  <2>1. list[c].todo \in Seq(list[c].candidates)
    BY <1>1 DEF ListOK
  <2>2. list[c].candidates # {}
    BY <1>2, <2>1
  <2> QED
    BY <1>1, <2>2 DEF ListOK
<1> QED
  BY <1>1, <1>2, <1>3 DEF ListOK

(* The check of a candidate reads at the revision of the list.             *)
LEMMA PinnedSnapshot ==
    ASSUME ListInv, NEW c \in Calls, call[c].phase # "idle",
           call[c].request = PinnedCheck(list[c])
    PROVE  SnapshotFor(call[c].request) = list[c].revision
<1>1. PinnedCheck(list[c]).revision = list[c].revision
  BY DEF PinnedCheck, NoRequest
<1> QED
  BY <1>1, UnderWay DEF SnapshotFor

LEMMA VerifyStepIs ==
    ASSUME ListInv, NEW c \in Calls, VerifyStep(c)
    PROVE  /\ UNCHANGED <<head, history, list>> /\ EngineStep(c) /\ Stepped(c)
           /\ call[c].phase # "idle"
           /\ CheckFor(list[c], call'[c])
<1> DEFINE e == call[c]
           f == call'[c]
           l == list[c]
<1>1. /\ EngineStep(c) /\ UNCHANGED <<head, history, list>>
      /\ CallsOK /\ CheckFor(l, e)
  BY DEF VerifyStep, storeVars, ListInv
<1>2. Stepped(c)
  BY <1>1, EngineStepCorrect
<1>3. e.phase \in Deciding \/ e.phase = "resolve"
  BY <1>1, StepPhases
<1>4. e.phase # "idle" /\ HasSnapshot(e) = (e.phase \in Deciding)
  BY <1>3 DEF Deciding, HasSnapshot
<1>5. e.request = PinnedCheck(l) /\ (e.phase \in Deciding => e.revision = l.revision)
  BY <1>1, <1>3, <1>4 DEF CheckFor
<1>6. SnapshotFor(e.request) = l.revision
  BY <1>4, <1>5, PinnedSnapshot
<1>7. \/ f.request = e.request /\ f.revision = l.revision
      \/ f.phase = "done" /\ f.error # "none"
  BY <1>2, <1>5, <1>6 DEF Stepped, StepRevision, Keeps
<1>8. CheckFor(l, f)
  BY <1>1, <1>4, <1>5, <1>7 DEF CheckFor, HasSnapshot, Deciding
<1> QED
  BY <1>1, <1>2, <1>4, <1>8

LEMMA VerifyStepInv ==
    ASSUME ListInv, NEW c \in Calls, VerifyStep(c)
    PROVE  ListInv'
<1>1. /\ UNCHANGED <<head, history, list>> /\ Stepped(c)
      /\ CheckFor(list[c], call'[c])
  BY VerifyStepIs
<1>2. list' = [list EXCEPT ![c] = list'[c]] /\ ListOK(head, list'[c])
  BY <1>1 DEF ListInv
<1> QED
  BY <1>1, <1>2, CheckMovesInv DEF Stepped

LEMMA FailedOK ==
    ASSUME NEW h \in Nat, NEW l, ListOK(h, l), NEW error, error # "none"
    PROVE  /\ ListOK(h, ListFailed(l, error))
           /\ ListFailed(l, error).phase = "done"
           /\ ListFailed(l, error).error = error
           /\ ListFailed(l, error).request = l.request
<1> DEFINE m == ListFailed(l, error)
<1>1. /\ IsList(m)
      /\ m.phase = "done" /\ m.request = l.request /\ m.began = 0 /\ m.revision = 0
      /\ m.frontier = << >> /\ m.tuples = << >> /\ m.depth = 0 /\ m.candidates = {}
      /\ m.todo = << >> /\ m.objects = << >> /\ m.error = error
  <2>1. m = [IdleList EXCEPT !.phase = "done", !.request = l.request, !.error = error]
    BY DEF ListFailed
  <2> HIDE DEF m
  <2> QED
    BY ONLY <2>1 DEF IdleList, IsList
<1> HIDE DEF m
<1>2. /\ IsSequence(m.frontier) /\ DOMAIN m.frontier = {}
      /\ m.tuples \in Seq(Tuples) /\ m.todo \in Seq(m.candidates)
      /\ m.objects \in Seq(m.candidates) /\ Len(m.objects) = 0
  BY <1>1, << >> \in Seq({}) DEF IsSequence
<1>3. l.request.limit \in 1..MaxPage /\ l.request.limit \in Nat
  <2>1. l.request.limit \in 1..MaxPage
    BY DEF ListOK
  <2> QED
    BY <2>1, ListAssumption
<1>4. m.phase \in ListPhases /\ ~ IsPinned(m) /\ 0 \in 0..h /\ 0 \in 0..MaxDepth
  BY <1>1, EngineAssumption DEF ListPhases, IsPinned
<1>5. ListOK(h, m)
  BY <1>1, <1>2, <1>3, <1>4 DEF ListOK
<1> QED
  BY <1>1, <1>5 DEF m

LEMMA ListFailsInv ==
    ASSUME ListInv, NEW c \in Calls, ListFails(c)
    PROVE  ListInv'
<1>1. PICK error \in {"store", "canceled"} : ListBecomes(c, ListFailed(list[c], error))
  BY DEF ListFails
<1>2. ListOK(head, ListFailed(list[c], error))
  BY HeadTypes, FailedOK DEF ListInv
<1>3. list[c].phase # "verify" \/ call[c].phase = "idle"
  BY DEF ListFails, Verifying
<1>4. CheckFor(ListFailed(list[c], error), call[c])
  BY <1>3, NotChecking DEF ListInv
<1> QED
  BY <1>1, <1>2, <1>4, BecomesInv

LEMMA RespondListInv ==
    ASSUME ListInv, NEW c \in Calls, RespondList(c)
    PROVE  ListInv'
<1>1. list[c].phase = "done" /\ ListBecomes(c, IdleList)
  BY DEF RespondList
<1>2. ListOK(head, IdleList)
  BY HeadTypes, IdleListOK DEF ListInv
<1>3. CheckFor(IdleList, call[c])
  BY <1>1, NotChecking DEF ListInv
<1> QED
  BY <1>1, <1>2, <1>3, BecomesInv

LEMMA EndOfListIs ==
    ASSUME ListInv, NEW c \in Calls, EndOfList(c)
    PROVE  \E m : /\ ListBecomes(c, m) /\ ListOK(head, m) /\ CheckFor(m, call[c])
                  /\ m.phase = "done" /\ m.error = "none"
                  /\ m.request = list[c].request /\ m.revision = list[c].revision
                  /\ m.candidates = list[c].candidates /\ m.objects = list[c].objects
                  /\ list[c].phase = "verify"
                  /\ list[c].todo = << >> \/ Full(list[c])
<1> DEFINE l == list[c]
           m == [IdleList EXCEPT !.phase = "done", !.request = l.request,
                   !.began = l.began, !.revision = l.revision,
                   !.candidates = l.candidates, !.objects = l.objects]
<1>1. /\ l.phase = "verify" /\ (l.todo = << >> \/ Full(l))
      /\ ListOK(head, l) /\ CheckFor(l, call[c]) /\ ListBecomes(c, m)
  BY DEF EndOfList, Verifying, ListInv
<1>2. /\ IsList(m)
      /\ m.phase = "done" /\ m.request = l.request /\ m.began = l.began
      /\ m.revision = l.revision /\ m.frontier = << >> /\ m.tuples = << >>
      /\ m.depth = 0 /\ m.candidates = l.candidates /\ m.todo = << >>
      /\ m.objects = l.objects /\ m.error = "none"
  <2>1. m = [IdleList EXCEPT !.phase = "done", !.request = l.request,
               !.began = l.began, !.revision = l.revision,
               !.candidates = l.candidates, !.objects = l.objects]
    OBVIOUS
  <2> HIDE DEF m, l
  <2> QED
    BY ONLY <2>1 DEF IdleList, IsList
<1> HIDE DEF m
<1>3. /\ IsSequence(m.frontier) /\ DOMAIN m.frontier = {}
      /\ m.tuples \in Seq(Tuples) /\ m.todo \in Seq(m.candidates)
  BY <1>2, << >> \in Seq({}) DEF IsSequence
<1>4. m.phase \in ListPhases /\ 0 \in 0..MaxDepth /\ l.began <= l.revision
  BY <1>1, <1>2, EngineAssumption DEF ListPhases, IsPinned, ListOK
<1>5. ListOK(head, m)
  BY <1>1, <1>2, <1>3, <1>4 DEF ListOK
<1>6. CheckFor(m, call[c])
  BY <1>1, UnderWay, NotChecking DEF Full
<1> QED
  BY <1>1, <1>2, <1>5, <1>6

LEMMA EndOfListInv ==
    ASSUME ListInv, NEW c \in Calls, EndOfList(c)
    PROVE  ListInv'
BY EndOfListIs, BecomesInv

(* The list takes the answer about its next candidate.                     *)
LEMMA VerifiedIs ==
    ASSUME ListInv, NEW c \in Calls, Verified(c)
    PROVE  /\ UNCHANGED <<head, history, cache>>
           /\ call' = [call EXCEPT ![c] = IdleCall] /\ call'[c] = IdleCall
           /\ list' = [list EXCEPT ![c] = list'[c]]
           /\ list'[c] = Taken(list[c], call[c])
           /\ call[c].phase = "done"
BY DEF Verified, storeVars, ListInv, CallsOK

LEMMA TakenFields ==
    ASSUME NEW l, IsList(l), NEW e, e.error = "none", NEW m, m = Taken(l, e)
    PROVE  /\ IsList(m)
           /\ m.phase = l.phase /\ m.request = l.request /\ m.began = l.began
           /\ m.revision = l.revision /\ m.frontier = l.frontier /\ m.tuples = l.tuples
           /\ m.depth = l.depth /\ m.candidates = l.candidates
           /\ m.todo = Tail(l.todo)
           /\ e.value => m.objects = Append(l.objects, Head(l.todo))
           /\ ~ e.value => m.objects = l.objects
<1> DEFINE todo == Tail(l.todo)
           objects == IF e.value THEN Append(l.objects, Head(l.todo)) ELSE l.objects
<1>1. m = [l EXCEPT !.todo = todo, !.objects = objects]
  BY DEF Taken
<1> HIDE DEF todo, objects
<1>2. /\ IsList(m)
      /\ m.phase = l.phase /\ m.request = l.request /\ m.began = l.began
      /\ m.revision = l.revision /\ m.frontier = l.frontier /\ m.tuples = l.tuples
      /\ m.depth = l.depth /\ m.candidates = l.candidates
      /\ m.todo = todo /\ m.objects = objects
  BY ONLY IsList(l), <1>1 DEF IsList
<1> QED
  BY <1>2 DEF todo, objects

LEMMA TakenOK ==
    ASSUME NEW h \in Nat, NEW l, ListOK(h, l), l.phase = "verify", l.todo # << >>,
           ~ Full(l), NEW e, e.error = "none", e.value \in BOOLEAN
    PROVE  ListOK(h, Taken(l, e))
<1> DEFINE m == Taken(l, e)
<1>1. /\ IsList(m)
      /\ m.phase = l.phase /\ m.request = l.request /\ m.began = l.began
      /\ m.revision = l.revision /\ m.frontier = l.frontier /\ m.tuples = l.tuples
      /\ m.depth = l.depth /\ m.candidates = l.candidates
      /\ m.todo = Tail(l.todo)
      /\ e.value => m.objects = Append(l.objects, Head(l.todo))
      /\ ~ e.value => m.objects = l.objects
  BY TakenFields DEF ListOK
<1> HIDE DEF m
<1>2. /\ l.todo \in Seq(l.candidates) /\ l.objects \in Seq(l.candidates)
      /\ l.request.limit \in Nat /\ Len(l.objects) < l.request.limit
  <2>1. /\ l.todo \in Seq(l.candidates) /\ l.objects \in Seq(l.candidates)
        /\ l.request.limit \in 1..MaxPage
    BY DEF ListOK
  <2> QED
    BY <2>1, ListAssumption DEF Full
<1>3. Tail(l.todo) \in Seq(l.candidates) /\ Head(l.todo) \in l.candidates
  BY <1>2, TailOf
<1>4. m.objects \in Seq(l.candidates) /\ Len(m.objects) <= l.request.limit
  <2> DEFINE S == l.candidates
             objects == l.objects
             next == Head(l.todo)
  <2>1. objects \in Seq(S) /\ next \in S /\ Len(objects) < l.request.limit
    BY <1>2, <1>3
  <2>2. m.objects = Append(objects, next) \/ m.objects = objects
    BY <1>1
  <2> HIDE DEF S, objects, next
  <2>3. /\ Append(objects, next) \in Seq(S) /\ Len(objects) \in Nat
        /\ Len(Append(objects, next)) = Len(objects) + 1
    BY ONLY <2>1, AppendOf
  <2> DEFINE longer == Append(objects, next)
             page == m.objects
             limit == l.request.limit
  <2>4. /\ page = longer \/ page = objects
        /\ limit \in Nat /\ Len(objects) < limit
    BY <1>2, <2>1, <2>2
  <2> HIDE DEF longer, page, limit
  <2>5. longer \in Seq(S) /\ Len(longer) = Len(objects) + 1
    BY <2>3 DEF longer
  <2>6. page \in Seq(S) /\ Len(page) <= limit
    BY ONLY <2>1, <2>3, <2>4, <2>5
  <2> QED
    BY <2>6 DEF S, page, limit
<1>5. IsPinned(m) => l.began <= l.revision
  BY DEF ListOK, IsPinned
<1>6. ListOK(h, m)
  BY <1>1, <1>3, <1>4, <1>5 DEF ListOK
<1> QED
  BY <1>6 DEF m

LEMMA VerifiedInv ==
    ASSUME ListInv, NEW c \in Calls, Verified(c)
    PROVE  ListInv'
<1> DEFINE l == list[c]
           e == call[c]
<1>1. /\ UNCHANGED <<head, history, cache>>
      /\ call' = [call EXCEPT ![c] = IdleCall] /\ call'[c] = IdleCall
      /\ list' = [list EXCEPT ![c] = list'[c]]
      /\ list'[c] = Taken(l, e) /\ e.phase = "done"
  BY VerifiedIs
<1>2. /\ l.phase = "verify" /\ l.todo # << >> /\ ~ Full(l)
      /\ ListOK(head, l) /\ head \in Nat /\ e.value \in BOOLEAN
  BY <1>1, UnderWay, HeadTypes DEF ListInv, CallsOK, EvalInv, EvalBase
<1>3. ListOK(head, Taken(l, e))
  <2>1. CASE e.error # "none"
    BY <1>2, <2>1, FailedOK DEF Taken
  <2>2. CASE e.error = "none"
    BY <1>2, <2>2, TakenOK
  <2> QED
    BY <2>1, <2>2
<1>4. CheckFor(list'[c], IdleCall)
  BY IdleFields DEF CheckFor, HasSnapshot, Deciding
<1>5. Decisions(cache')
  BY <1>1 DEF ListInv, CallsOK
<1> QED
  BY <1>1, <1>3, <1>4, <1>5, IdleInv, CheckMovesInv

----------------------------------------------------------------------------
(* The inductive invariant, without the meaning of schemas.                *)

LEMMA OlderList ==
    ASSUME NEW h \in Nat, NEW g \in Nat, h <= g, NEW l, ListOK(h, l)
    PROVE  ListOK(g, l)
<1>1. l.began \in 0..g /\ l.revision \in 0..g
  BY DEF ListOK
<1> QED
  BY <1>1 DEF ListOK

LEMMA WriteArrivesInv ==
    ASSUME ListInv, WriteArrives
    PROVE  ListInv'
<1>1. PICK write \in Writes : Commit(write.add, write.remove)
  BY DEF WriteArrives
<1>2. head \in Nat /\ StoreTypeOK' /\ head' = head + 1
  BY <1>1, CommitTypes, HeadTypes, ListAssumption DEF ListInv
<1>3. history'[0] = {}
  BY <1>1, <1>2, CommitKeepsWorlds DEF ListInv
<1>4. call' = call /\ cache' = cache /\ list' = list
  BY DEF WriteArrives, engineVars
<1>5. \A c \in Calls : ListOK(head', list'[c]) /\ CheckFor(list'[c], call'[c])
  BY <1>2, <1>4, OlderList DEF ListInv
<1> QED
  BY <1>2, <1>3, <1>4, <1>5 DEF ListInv, CallsOK

LEMMA ListInit == Init => ListInv
<1> SUFFICES ASSUME Init
             PROVE  ListInv
  OBVIOUS
<1>1. /\ head = 0 /\ history = [rev \in {0} |-> {}]
      /\ call = [c \in Calls |-> IdleCall] /\ cache = Empty
      /\ list = [c \in Calls |-> IdleList]
  BY DEF Init, StoreInit, EngineInit
<1>2. StoreTypeOK /\ history[0] = {}
  BY <1>1, MaxRevisionAssumption DEF StoreTypeOK
<1>3. CallsOK
  BY <1>1, IdleInv DEF CallsOK, Decisions, Empty
<1>4. CheckFor(IdleList, IdleCall)
  BY IdleFields DEF CheckFor, HasSnapshot, Deciding
<1>5. \A c \in Calls : ListOK(head, list[c]) /\ CheckFor(list[c], call[c])
  BY <1>1, <1>4, IdleListOK
<1> QED
  BY <1>1, <1>2, <1>3, <1>5 DEF ListInv

LEMMA ListStepInv == ListInv /\ [Next]_vars => ListInv'
<1> SUFFICES ASSUME ListInv, [Next]_vars
             PROVE  ListInv'
  OBVIOUS
<1>1. ASSUME NEW c \in Calls,
             ReceiveList(c) \/ ResolveList(c) \/ ListFails(c) \/ RespondList(c)
      PROVE  ListInv'
  BY <1>1, ReceiveListInv, ResolveListInv, ListFailsInv, RespondListInv
<1>2. ASSUME NEW c \in Calls,
             \/ TooDeep(c) \/ ReadFrontier(c)
             \/ VisitSeen(c) \/ VisitNew(c) \/ EndOfVisit(c)
      PROVE  ListInv'
  BY <1>2, TooDeepInv, ReadFrontierInv, VisitSeenInv, VisitNewInv, EndOfVisitInv
<1>3. ASSUME NEW c \in Calls,
             \/ StartVerifying(c) \/ VerifyNext(c) \/ VerifyStep(c)
             \/ Verified(c) \/ EndOfList(c)
      PROVE  ListInv'
  BY <1>3, StartVerifyingInv, VerifyNextInv, VerifyStepInv, VerifiedInv, EndOfListInv
<1>4. CASE WriteArrives
  BY <1>4, WriteArrivesInv
<1>5. CASE UNCHANGED vars
  BY <1>5 DEF vars, ListInv, StoreTypeOK, CallsOK
<1> QED
  BY <1>1, <1>2, <1>3, <1>4, <1>5 DEF Next, ListStep

(* In every reachable state the check that a list waits for is that of its *)
(* next candidate, pinned to the revision of the list; no list comes to    *)
(* check a candidate at revision 0, which the engine would not take for a  *)
(* revision.                                                               *)
THEOREM ListInvariance == Spec => []ListInv
BY ListInit, ListStepInv, PTL DEF Spec

----------------------------------------------------------------------------
(* What a page says of the world of its revision.                          *)

IsGiven(asked) ==
    \E request \in Requests : /\ asked.subject = request.subject
                              /\ asked.permission = request.permission
                              /\ asked.type = request.type

(* The objects of a list, and what they are asked for, have a meaning.     *)
RequestKnown(l) ==
    l.phase # "idle" =>
      /\ IsGiven(l.request)
      /\ l.request.subject \in Subjects
      /\ \A object \in Listable(l.request) :
           RelationKey(object, l.request.permission) \in Keys

KeyFor(l, object) == RelationKey(object, l.request.permission)

Grants(world, l, object) == Holds(world, KeyFor(l, object), l.request.subject)

(* In order: the page so far, and then the candidates that are left.       *)
Sorted(l) ==
    /\ InOrder(l.objects) /\ InOrder(l.todo)
    /\ \A i \in DOMAIN l.objects, j \in DOMAIN l.todo : Before(l.objects[i], l.todo[j])

PageGranted(world, l) == \A i \in DOMAIN l.objects : Grants(world, l, l.objects[i])

Holding(s, object) == \E i \in DOMAIN s : s[i] = object

(* A candidate that has been checked and is not on the page was denied.    *)
RestDenied(world, l) ==
    \A object \in l.candidates :
       \/ Holding(l.objects, object)
       \/ Holding(l.todo, object)
       \/ ~ (Grants(world, l, object) /\ Ranked(world, KeyFor(l, object)))

PageSoFar(world, l) == Sorted(l) /\ PageGranted(world, l) /\ RestDenied(world, l)

(* What is not on the page was denied, or comes after a full page.         *)
PageFinal(world, l) ==
    /\ InOrder(l.objects) /\ PageGranted(world, l)
    /\ \A object \in l.candidates :
         \/ Holding(l.objects, object)
         \/ ~ (Grants(world, l, object) /\ Ranked(world, KeyFor(l, object)))
         \/ Full(l) /\ \A i \in DOMAIN l.objects : Before(l.objects[i], object)

PageRight(world, l) ==
    /\ l.phase = "verify" => PageSoFar(world, l)
    /\ l.phase = "done" /\ l.error = "none" => PageFinal(world, l)

ListRight(worlds) ==
    /\ WorldsKnown(worlds)
    /\ CacheRight
    /\ \A c \in Calls :
         /\ RequestKnown(list[c])
         /\ CallRight(World(call[c].revision), call[c])
         /\ PageRight(World(list[c].revision), list[c])

----------------------------------------------------------------------------
(* What a step does not concern.                                           *)

LEMMA OtherLists ==
    ASSUME ListInv, NEW d \in Calls, call'[d] = call[d], list'[d] = list[d],
           \A rev \in 0..head : World(rev)' = World(rev),
           RequestKnown(list[d]), CallRight(World(call[d].revision), call[d]),
           PageRight(World(list[d].revision), list[d])
    PROVE  /\ RequestKnown(list[d])'
           /\ CallRight(World(call[d].revision), call[d])'
           /\ PageRight(World(list[d].revision), list[d])'
<1>1. ListOK(head, list[d]) /\ CheckFor(list[d], call[d])
  BY DEF ListInv
<1>2. list[d].revision \in 0..head
  BY <1>1 DEF ListOK
<1>3. HasSnapshot(call[d]) => call[d].revision \in 0..head
  BY <1>1, <1>2 DEF CheckFor
<1>4. World(list[d].revision)' = World(list[d].revision)
  BY <1>2
<1>5. PageRight(World(list[d].revision), list[d])'
  BY <1>4
<1> QED
  BY <1>3, <1>5, CallLeft

LEMMA SameWorlds ==
    ASSUME ListInv, UNCHANGED <<head, history>>
    PROVE  /\ \A rev : World(rev)' = World(rev)
           /\ head' \in Nat /\ head <= head'
BY HeadTypes DEF ListInv, World

(* One list changes, and perhaps its check.                                *)
LEMMA OneListRight ==
    ASSUME NEW worlds, ListInv, ListRight(worlds), NEW c \in Calls,
           UNCHANGED <<head, history>>,
           call' = [call EXCEPT ![c] = call'[c]],
           list' = [list EXCEPT ![c] = list'[c]],
           RequestKnown(list'[c]),
           CallRight(World(call[c].revision), call[c])',
           PageRight(World(list[c].revision), list[c])',
           CacheRight'
    PROVE  ListRight(worlds)'
<1>1. \A rev \in 0..head : World(rev)' = World(rev)
  BY SameWorlds
<1>2. ASSUME NEW d \in Calls, d # c
      PROVE  /\ RequestKnown(list[d])'
             /\ CallRight(World(call[d].revision), call[d])'
             /\ PageRight(World(list[d].revision), list[d])'
  <2>1. call'[d] = call[d] /\ list'[d] = list[d]
    BY <1>2 DEF ListInv, CallsOK
  <2> QED
    BY <1>1, <2>1, OtherLists DEF ListRight
<1>3. WorldsKnown(worlds)'
  BY DEF ListRight, WorldsKnown
<1> QED
  BY <1>2, <1>3 DEF ListRight

(* Neither the store nor the checks are concerned.                         *)
LEMMA BecomesRight ==
    ASSUME NEW worlds, ListInv, ListRight(worlds), NEW c \in Calls, NEW m,
           ListBecomes(c, m), RequestKnown(m), PageRight(World(m.revision), m)
    PROVE  ListRight(worlds)'
<1>1. /\ list' = [list EXCEPT ![c] = m]
      /\ head' = head /\ history' = history /\ cache' = cache /\ call' = call
  BY DEF ListBecomes, storeVars, engineVars
<1>2. list' = [list EXCEPT ![c] = list'[c]] /\ list'[c] = m
  BY <1>1 DEF ListInv
<1>3. call' = [call EXCEPT ![c] = call'[c]]
  BY <1>1 DEF ListInv, CallsOK
<1>4. \A rev : World(rev)' = World(rev)
  BY <1>1, SameWorlds
<1>5. CallRight(World(call[c].revision), call[c])'
  BY <1>1, <1>4 DEF ListRight
<1>6. PageRight(World(list[c].revision), list[c])'
  BY <1>2, <1>4
<1>7. CacheRight'
  BY <1>1, SameWorlds, OldEntries DEF ListInv, ListRight
<1> QED
  BY <1>1, <1>2, <1>3, <1>5, <1>6, <1>7, OneListRight

----------------------------------------------------------------------------
(* The steps that decide nothing.                                          *)

(* A list that has not begun to verify has promised nothing.               *)
LEMMA WalkRight ==
    ASSUME NEW worlds, ListInv, ListRight(worlds), NEW c \in Calls, NEW m,
           ListBecomes(c, m), list[c].phase # "idle",
           m.request = list[c].request, m.phase \in {"walk", "visit"}
    PROVE  ListRight(worlds)'
<1>1. RequestKnown(m)
  BY DEF ListRight, RequestKnown
<1>2. PageRight(World(m.revision), m)
  BY DEF PageRight
<1> QED
  BY <1>1, <1>2, BecomesRight

LEMMA ReceiveListRight ==
    ASSUME NEW worlds, ListInv, ListRight(worlds), RequestsKnown,
           NEW c \in Calls, ReceiveList(c)
    PROVE  ListRight(worlds)'
<1>1. PICK request \in Requests :
        ListBecomes(c, [IdleList EXCEPT !.phase = "head", !.began = head,
                          !.request = [request EXCEPT !.limit = PageSize(@)]])
  BY DEF ReceiveList
<1> DEFINE asked == [request EXCEPT !.limit = PageSize(@)]
           m == [IdleList EXCEPT !.phase = "head", !.began = head, !.request = asked]
<1>2. /\ asked.subject = request.subject /\ asked.type = request.type
      /\ asked.permission = request.permission
  BY ListAssumption
<1> HIDE DEF asked
<1>3. m.phase = "head" /\ m.request = asked
  BY DEF IdleList
<1> HIDE DEF m
<1>4. RequestKnown(m)
  <2>1. IsGiven(asked)
    BY <1>2 DEF IsGiven
  <2>2. /\ asked.subject \in Subjects
        /\ \A object \in Listable(asked) : RelationKey(object, asked.permission) \in Keys
    BY <1>2 DEF RequestsKnown, Listable
  <2> QED
    BY <1>3, <2>1, <2>2 DEF RequestKnown
<1>5. PageRight(World(m.revision), m)
  BY <1>3 DEF PageRight
<1> QED
  BY <1>1, <1>4, <1>5, BecomesRight DEF m, asked

LEMMA ResolveListRight ==
    ASSUME NEW worlds, ListInv, ListRight(worlds), NEW c \in Calls, ResolveList(c)
    PROVE  ListRight(worlds)'
<1> DEFINE l == list[c]
           first == <<Item(l.request.subject, 0)>>
           m == [l EXCEPT !.phase = "walk", !.revision = head, !.frontier = first]
<1>1. l.phase = "head" /\ IsList(l) /\ ListBecomes(c, m)
  BY DEF ResolveList, ListInv, ListOK
<1>2. m.phase = "walk" /\ m.request = l.request
  <2> HIDE DEF first, l
  <2> QED
    BY <1>1 DEF IsList
<1> HIDE DEF m
<1> QED
  BY <1>1, <1>2, WalkRight

LEMMA TooDeepRight ==
    ASSUME NEW worlds, ListInv, ListRight(worlds), NEW c \in Calls, TooDeep(c)
    PROVE  ListRight(worlds)'
<1> DEFINE l == list[c]
           m == [l EXCEPT !.frontier = Dequeued(l)]
<1>1. l.phase = "walk" /\ IsList(l) /\ ListBecomes(c, m)
  BY DEF TooDeep, Walking, ListInv, ListOK
<1>2. m.phase = "walk" /\ m.request = l.request
  <2> HIDE DEF l
  <2> QED
    BY <1>1 DEF IsList
<1> HIDE DEF m
<1> QED
  BY <1>1, <1>2, WalkRight

LEMMA ReadFrontierRight ==
    ASSUME NEW worlds, ListInv, ListRight(worlds), NEW c \in Calls, ReadFrontier(c)
    PROVE  ListRight(worlds)'
<1> DEFINE l == list[c]
           depth == Head(l.frontier).depth
<1>1. PICK tuples : ListBecomes(c, [l EXCEPT !.phase = "visit", !.frontier = Dequeued(l),
                                             !.tuples = tuples, !.depth = depth])
  BY DEF ReadFrontier
<1> DEFINE m == [l EXCEPT !.phase = "visit", !.frontier = Dequeued(l),
                          !.tuples = tuples, !.depth = depth]
<1>2. l.phase = "walk" /\ IsList(l)
  BY DEF ReadFrontier, Walking, ListInv, ListOK
<1>3. m.phase = "visit" /\ m.request = l.request
  <2> HIDE DEF l, depth
  <2> QED
    BY <1>2 DEF IsList
<1>4. ListBecomes(c, m)
  BY <1>1
<1> HIDE DEF m
<1> QED
  BY <1>2, <1>3, <1>4, WalkRight

LEMMA VisitSeenRight ==
    ASSUME NEW worlds, ListInv, ListRight(worlds), NEW c \in Calls, VisitSeen(c)
    PROVE  ListRight(worlds)'
<1> DEFINE l == list[c]
           m == Visited(l)
<1>1. l.phase = "visit" /\ IsList(l) /\ ListBecomes(c, m)
  BY DEF VisitSeen, ListInv, ListOK
<1>2. m.phase = "visit" /\ m.request = l.request
  BY <1>1, VisitedFields
<1> HIDE DEF m
<1> QED
  BY <1>1, <1>2, WalkRight

LEMMA VisitNewRight ==
    ASSUME NEW worlds, ListInv, ListRight(worlds), NEW c \in Calls, VisitNew(c)
    PROVE  ListRight(worlds)'
<1> DEFINE l == list[c]
           v == Visited(l)
<1>1. PICK seen, candidates, frontier :
        ListBecomes(c, [v EXCEPT !.seen = seen, !.candidates = candidates,
                                 !.frontier = frontier])
  BY DEF VisitNew
<1> DEFINE m == [v EXCEPT !.seen = seen, !.candidates = candidates,
                          !.frontier = frontier]
<1>2. l.phase = "visit" /\ IsList(l)
  BY DEF VisitNew, ListInv, ListOK
<1>3. IsList(v) /\ v.phase = "visit" /\ v.request = l.request
  BY <1>2, VisitedFields
<1> HIDE DEF v
<1>4. m.phase = "visit" /\ m.request = l.request
  BY <1>3 DEF IsList
<1>5. ListBecomes(c, m)
  BY <1>1
<1> HIDE DEF m
<1> QED
  BY <1>2, <1>4, <1>5, WalkRight

LEMMA EndOfVisitRight ==
    ASSUME NEW worlds, ListInv, ListRight(worlds), NEW c \in Calls, EndOfVisit(c)
    PROVE  ListRight(worlds)'
<1> DEFINE l == list[c]
           m == [l EXCEPT !.phase = "walk"]
<1>1. l.phase = "visit" /\ IsList(l) /\ ListBecomes(c, m)
  BY DEF EndOfVisit, ListInv, ListOK
<1>2. m.phase = "walk" /\ m.request = l.request
  BY <1>1 DEF IsList
<1> HIDE DEF m
<1> QED
  BY <1>1, <1>2, WalkRight

LEMMA ListFailsRight ==
    ASSUME NEW worlds, ListInv, ListRight(worlds), NEW c \in Calls, ListFails(c)
    PROVE  ListRight(worlds)'
<1> DEFINE l == list[c]
<1>1. PICK error \in {"store", "canceled"} : ListBecomes(c, ListFailed(l, error))
  BY DEF ListFails
<1> DEFINE m == ListFailed(l, error)
<1>2. m.phase = "done" /\ m.error # "none" /\ m.request = l.request
  BY HeadTypes, FailedOK DEF ListInv
<1>3. l.phase # "idle"
  BY DEF ListFails, Verifying
<1> HIDE DEF m
<1>4. RequestKnown(m) /\ PageRight(World(m.revision), m)
  BY <1>2, <1>3 DEF ListRight, RequestKnown, PageRight
<1> QED
  BY <1>1, <1>4, BecomesRight DEF m

LEMMA RespondListRight ==
    ASSUME NEW worlds, ListInv, ListRight(worlds), NEW c \in Calls, RespondList(c)
    PROVE  ListRight(worlds)'
<1>1. IdleList.phase = "idle"
  BY DEF IdleList
<1>2. RequestKnown(IdleList) /\ PageRight(World(IdleList.revision), IdleList)
  BY <1>1 DEF RequestKnown, PageRight
<1> QED
  BY <1>2, BecomesRight DEF RespondList

----------------------------------------------------------------------------
(* The page, from the first check to the last.                             *)

LEMMA StartVerifyingRight ==
    ASSUME NEW worlds, ListInv, ListRight(worlds), NEW c \in Calls, StartVerifying(c)
    PROVE  ListRight(worlds)'
<1>1. PICK m :
        /\ ListBecomes(c, m) /\ m.phase = "verify" /\ m.request = list[c].request
        /\ InOrder(m.todo) /\ m.objects = << >>
        /\ \A x \in m.candidates : \E i \in DOMAIN m.todo : m.todo[i] = x
  BY StartVerifyingIs
<1>2. list[c].phase = "walk"
  BY DEF StartVerifying
<1>3. RequestKnown(m)
  BY <1>1, <1>2 DEF ListRight, RequestKnown
<1>4. DOMAIN m.objects = {}
  BY <1>1
<1>5. Sorted(m) /\ PageGranted(World(m.revision), m) /\ RestDenied(World(m.revision), m)
  BY <1>1, <1>4 DEF Sorted, InOrder, PageGranted, RestDenied, Holding
<1>6. PageRight(World(m.revision), m)
  BY <1>1, <1>5 DEF PageRight, PageSoFar
<1> QED
  BY <1>1, <1>3, <1>6, BecomesRight

(* Nothing is left to check, or there is no room for it.                   *)
LEMMA PageEnds ==
    ASSUME NEW world, NEW l, PageSoFar(world, l), l.todo = << >> \/ Full(l)
    PROVE  PageFinal(world, l)
<1>1. ASSUME NEW object \in l.candidates, Holding(l.todo, object)
      PROVE  Full(l) /\ \A i \in DOMAIN l.objects : Before(l.objects[i], object)
  <2>1. PICK j \in DOMAIN l.todo : l.todo[j] = object
    BY <1>1 DEF Holding
  <2>2. l.todo # << >>
    BY <2>1
  <2> QED
    BY <2>1, <2>2 DEF PageSoFar, Sorted
<1> QED
  BY <1>1 DEF PageSoFar, PageFinal, RestDenied, Sorted

LEMMA EndOfListRight ==
    ASSUME NEW worlds, ListInv, ListRight(worlds), NEW c \in Calls, EndOfList(c)
    PROVE  ListRight(worlds)'
<1> DEFINE l == list[c]
           world == World(l.revision)
<1>1. PICK m :
        /\ ListBecomes(c, m) /\ m.phase = "done" /\ m.error = "none"
        /\ m.request = l.request /\ m.revision = l.revision
        /\ m.candidates = l.candidates /\ m.objects = l.objects
        /\ l.phase = "verify" /\ (l.todo = << >> \/ Full(l))
  BY EndOfListIs
<1>2. PageSoFar(world, l)
  BY <1>1 DEF ListRight, PageRight
<1>3. PageFinal(world, l)
  BY <1>1, <1>2, PageEnds
<1>4. PageFinal(world, m)
  BY <1>1, <1>3 DEF PageFinal, PageGranted, Grants, KeyFor, Full
<1>5. RequestKnown(m)
  BY <1>1 DEF ListRight, RequestKnown
<1>6. PageRight(World(m.revision), m)
  BY <1>1, <1>4 DEF PageRight
<1> QED
  BY <1>1, <1>5, <1>6, BecomesRight

(* The next candidate has a meaning.                                       *)
LEMMA NextKnown ==
    ASSUME NEW worlds, ListInv, ListRight(worlds), NEW c \in Calls,
           list[c].phase = "verify", list[c].todo # << >>
    PROVE  LET request == PinnedCheck(list[c])
           IN /\ request.key = KeyFor(list[c], Head(list[c].todo))
              /\ request.key \in Keys
              /\ request.subject = list[c].request.subject
              /\ request.subject \in Subjects
              /\ Head(list[c].todo) \in list[c].candidates
<1> DEFINE l == list[c]
           request == PinnedCheck(l)
<1>1. /\ request.key = KeyFor(l, Head(l.todo))
      /\ request.subject = l.request.subject
  BY DEF PinnedCheck, NoRequest, KeyFor
<1>2. l.todo \in Seq(l.candidates) /\ l.candidates \subseteq Listable(l.request)
  BY DEF ListInv, ListOK
<1>3. Head(l.todo) \in l.candidates
  BY <1>2, TailOf
<1>4. RequestKnown(l)
  BY DEF ListRight
<1> QED
  BY <1>1, <1>2, <1>3, <1>4 DEF RequestKnown, KeyFor

LEMMA VerifyNextRight ==
    ASSUME NEW worlds, ListInv, ListRight(worlds), NEW c \in Calls, VerifyNext(c)
    PROVE  ListRight(worlds)'
<1> DEFINE l == list[c]
           request == PinnedCheck(l)
<1>1. /\ UNCHANGED <<head, history, cache, list>>
      /\ call' = [call EXCEPT ![c] = call'[c]]
      /\ l.phase = "verify" /\ l.todo # << >>
      /\ call'[c].phase = "resolve"
      /\ call'[c].request = request /\ call'[c].memo = Empty
  BY VerifyNextIs
<1>2. request.key \in Keys /\ request.subject \in Subjects
  BY <1>1, NextKnown
<1> HIDE DEF request
<1>3. CallRight(World(call[c].revision), call[c])'
  BY <1>1, <1>2 DEF CallRight, HasSnapshot, Deciding
<1>4. \A rev : World(rev)' = World(rev)
  BY <1>1, SameWorlds
<1>5. RequestKnown(list'[c]) /\ PageRight(World(list[c].revision), list[c])'
  BY <1>1, <1>4 DEF ListRight
<1>6. list' = [list EXCEPT ![c] = list'[c]]
  BY <1>1 DEF ListInv
<1>7. CacheRight'
  BY <1>1, SameWorlds, OldEntries DEF ListInv, ListRight
<1> QED
  BY <1>1, <1>3, <1>5, <1>6, <1>7, OneListRight

(* The check of a candidate is right about the world of the list.          *)
LEMMA VerifyStepRight ==
    ASSUME NEW worlds, Interpreted(worlds), ListInv, ListRight(worlds),
           NEW c \in Calls, VerifyStep(c)
    PROVE  ListRight(worlds)'
<1> DEFINE e == call[c]
           l == list[c]
<1>1. /\ UNCHANGED <<head, history, list>> /\ EngineStep(c) /\ Stepped(c)
      /\ e.phase # "idle"
  BY VerifyStepIs
<1>2. l.revision \in 0..head /\ CheckFor(l, e)
  BY <1>1, UnderWay DEF ListInv
<1>3. e.phase \in Deciding => e.revision \in 0..head
  BY <1>2 DEF CheckFor, HasSnapshot
<1>4. e.phase = "resolve" => SnapshotFor(e.request) \in 0..head
  BY <1>1, <1>2, PinnedSnapshot DEF CheckFor
<1>5. CallRight(World(call[c].revision), call[c])' /\ CacheRight'
  BY <1>1, <1>3, <1>4, CheckStepRight DEF ListInv, ListRight
<1>6. call' = [call EXCEPT ![c] = call'[c]]
  BY <1>1 DEF Stepped
<1>7. list' = [list EXCEPT ![c] = list'[c]]
  BY <1>1 DEF ListInv
<1>8. \A rev : World(rev)' = World(rev)
  BY <1>1, SameWorlds
<1>9. RequestKnown(list'[c]) /\ PageRight(World(list[c].revision), list[c])'
  BY <1>1, <1>8 DEF ListRight
<1> QED
  BY <1>1, <1>5, <1>6, <1>7, <1>9, OneListRight

(* A page that is in order, and before all of what is left, stays so when  *)
(* the first of what is left goes on the page.                             *)
LEMMA AppendSorted ==
    ASSUME NEW S, NEW objects \in Seq(S), NEW todo \in Seq(S), todo # << >>,
           InOrder(objects), InOrder(todo),
           \A i \in DOMAIN objects, j \in DOMAIN todo : Before(objects[i], todo[j])
    PROVE  LET longer == Append(objects, Head(todo))
           IN /\ InOrder(longer)
              /\ \A i \in DOMAIN longer, j \in DOMAIN Tail(todo) :
                   Before(longer[i], Tail(todo)[j])
<1> DEFINE first == Head(todo)
           rest == Tail(todo)
           longer == Append(objects, first)
           n == Len(objects)
<1>1. /\ first \in S /\ first = todo[1] /\ 1 \in DOMAIN todo
      /\ \A j \in DOMAIN rest : j + 1 \in DOMAIN todo /\ rest[j] = todo[j + 1]
      /\ rest \in Seq(S)
  BY TailOf
<1> HIDE DEF first, rest
<1>2. /\ n \in Nat /\ DOMAIN objects = 1..n /\ DOMAIN longer = 1..(n + 1)
      /\ longer[n + 1] = first
      /\ \A i \in 1..n : longer[i] = objects[i]
  BY <1>1, AppendOf
<1> HIDE DEF longer, n
<1>3. ASSUME NEW i \in 1..(n + 1), NEW j \in 1..(n + 1), i < j
      PROVE  Before(longer[i], longer[j])
  <2>1. i \in 1..n
    BY <1>2, <1>3
  <2>2. CASE j = n + 1
    BY <1>1, <1>2, <2>1, <2>2
  <2>3. CASE j # n + 1
    <3>1. j \in 1..n
      BY <1>2, <2>3
    <3> QED
      BY <1>2, <1>3, <2>1, <3>1 DEF InOrder
  <2> QED
    BY <2>2, <2>3
<1>4. ASSUME NEW i \in 1..(n + 1), NEW j \in DOMAIN rest
      PROVE  Before(longer[i], rest[j])
  <2>1. j + 1 \in DOMAIN todo /\ rest[j] = todo[j + 1]
    BY <1>1
  <2>2. CASE i = n + 1
    <3>1. 1 < j + 1
      <4>1. j \in Nat /\ j >= 1
        BY <1>1
      <4> QED
        BY <4>1
    <3>2. Before(todo[1], todo[j + 1])
      BY <1>1, <2>1, <3>1 DEF InOrder
    <3> QED
      BY <1>1, <1>2, <2>1, <2>2, <3>2
  <2>3. CASE i # n + 1
    <3>1. i \in 1..n
      BY <1>2, <2>3
    <3> QED
      BY <1>2, <2>1, <3>1
  <2> QED
    BY <2>2, <2>3
<1>5. InOrder(longer)
  BY <1>2, <1>3 DEF InOrder
<1> QED
  BY <1>2, <1>4, <1>5 DEF longer, first, rest

LEMMA RestSorted ==
    ASSUME NEW S, NEW todo \in Seq(S), todo # << >>, InOrder(todo)
    PROVE  InOrder(Tail(todo))
<1> DEFINE rest == Tail(todo)
<1>1. /\ rest \in Seq(S)
      /\ \A j \in DOMAIN rest : j + 1 \in DOMAIN todo /\ rest[j] = todo[j + 1]
  BY TailOf
<1> HIDE DEF rest
<1>2. ASSUME NEW i \in DOMAIN rest, NEW j \in DOMAIN rest, i < j
      PROVE  Before(rest[i], rest[j])
  <2>1. i \in Nat /\ j \in Nat
    BY <1>1
  <2>2. i + 1 < j + 1
    BY <1>2, <2>1
  <2> QED
    BY <1>1, <2>2 DEF InOrder
<1>3. InOrder(rest)
  BY <1>2 DEF InOrder
<1> QED
  BY <1>3 DEF rest

(* The answer about the next candidate puts it where it belongs.           *)
LEMMA TakenRight ==
    ASSUME NEW world, NEW l, IsList(l), PageSoFar(world, l),
           l.todo \in Seq(l.candidates), l.objects \in Seq(l.candidates),
           l.todo # << >>,
           NEW e, e.error = "none", e.value \in BOOLEAN,
           Right(world, l.request.subject, KeyFor(l, Head(l.todo)), e.value)
    PROVE  PageSoFar(world, Taken(l, e))
<1> DEFINE m == Taken(l, e)
           first == Head(l.todo)
           rest == Tail(l.todo)
           longer == Append(l.objects, first)
<1>1. /\ m.request = l.request /\ m.candidates = l.candidates /\ m.todo = rest
      /\ e.value => m.objects = longer
      /\ ~ e.value => m.objects = l.objects
  BY TakenFields
<1>2. /\ Sorted(l) /\ PageGranted(world, l) /\ RestDenied(world, l)
  BY DEF PageSoFar
<1>3. /\ first = l.todo[1]
      /\ \A j \in DOMAIN rest : j + 1 \in DOMAIN l.todo /\ rest[j] = l.todo[j + 1]
      /\ \A j \in DOMAIN l.todo : j # 1 => j - 1 \in DOMAIN rest /\ l.todo[j] = rest[j - 1]
      /\ first \in l.candidates
  BY TailOf
<1>4. /\ InOrder(longer) /\ InOrder(rest)
      /\ \A i \in DOMAIN longer, j \in DOMAIN rest : Before(longer[i], rest[j])
  BY <1>2, AppendSorted, RestSorted DEF Sorted
<1>5. /\ Len(l.objects) \in Nat
      /\ DOMAIN l.objects = 1..Len(l.objects)
      /\ DOMAIN longer = 1..(Len(l.objects) + 1)
      /\ longer[Len(l.objects) + 1] = first
      /\ \A i \in 1..Len(l.objects) : longer[i] = l.objects[i]
  BY <1>3, AppendOf
<1> HIDE DEF longer, m, rest, first
<1>6. \A object : KeyFor(m, object) = KeyFor(l, object)
                    /\ Grants(world, m, object) = Grants(world, l, object)
  BY <1>1 DEF KeyFor, Grants
<1>7. \A object : Holding(l.todo, object) => object = first \/ Holding(rest, object)
  BY <1>3 DEF Holding
<1>8. CASE e.value
  <2>1. Sorted(m)
    BY <1>1, <1>4, <1>8 DEF Sorted
  <2>2. Grants(world, l, first)
    BY <1>8 DEF Right, Grants, first
  <2>3. ASSUME NEW i \in DOMAIN longer
        PROVE  Grants(world, l, longer[i])
    <3>1. CASE i = Len(l.objects) + 1
      BY <1>5, <2>2, <3>1
    <3>2. CASE i # Len(l.objects) + 1
      <4>1. i \in 1..Len(l.objects)
        BY <1>5, <3>2
      <4> QED
        BY <1>2, <1>5, <4>1 DEF PageGranted
    <3> QED
      BY <3>1, <3>2
  <2>4. PageGranted(world, m)
    BY <1>1, <1>6, <1>8, <2>3 DEF PageGranted
  <2>5. Holding(longer, first) /\ \A object : Holding(l.objects, object) => Holding(longer, object)
    <3>1. Len(l.objects) + 1 \in DOMAIN longer
      BY <1>5
    <3>2. \A i \in DOMAIN l.objects : i \in DOMAIN longer /\ longer[i] = l.objects[i]
      BY <1>5
    <3> QED
      BY <1>5, <3>1, <3>2 DEF Holding
  <2>6. RestDenied(world, m)
    BY <1>1, <1>2, <1>6, <1>7, <1>8, <2>5 DEF RestDenied
  <2> QED
    BY <2>1, <2>4, <2>6 DEF PageSoFar, m
<1>9. CASE ~ e.value
  <2>1. \A i \in DOMAIN l.objects, j \in DOMAIN rest : Before(l.objects[i], rest[j])
    BY <1>2, <1>3 DEF Sorted
  <2>2. Sorted(m)
    BY <1>1, <1>2, <1>4, <1>9, <2>1 DEF Sorted
  <2>3. PageGranted(world, m)
    BY <1>1, <1>2, <1>6, <1>9 DEF PageGranted
  <2>4. ~ (Grants(world, l, first) /\ Ranked(world, KeyFor(l, first)))
    BY <1>9 DEF Right, Grants, first
  <2>5. RestDenied(world, m)
    BY <1>1, <1>2, <1>6, <1>7, <1>9, <2>4 DEF RestDenied
  <2> QED
    BY <2>2, <2>3, <2>5 DEF PageSoFar, m
<1> QED
  BY <1>8, <1>9

LEMMA VerifiedRight ==
    ASSUME NEW worlds, ListInv, ListRight(worlds), NEW c \in Calls, Verified(c)
    PROVE  ListRight(worlds)'
<1> DEFINE l == list[c]
           e == call[c]
           world == World(l.revision)
<1>1. /\ UNCHANGED <<head, history, cache>>
      /\ call' = [call EXCEPT ![c] = call'[c]] /\ call'[c] = IdleCall
      /\ list' = [list EXCEPT ![c] = list'[c]]
      /\ list'[c] = Taken(l, e) /\ e.phase = "done"
  BY VerifiedIs
<1>2. /\ l.phase = "verify" /\ l.todo # << >>
      /\ ListOK(head, l) /\ CheckFor(l, e) /\ e.value \in BOOLEAN
      /\ CallRight(World(e.revision), e) /\ PageRight(world, l) /\ RequestKnown(l)
  BY <1>1, UnderWay DEF ListInv, CallsOK, EvalInv, EvalBase, ListRight
<1> DEFINE next == Taken(l, e)
<1>3. next.request = l.request /\ PageRight(World(next.revision), next)
  <2>1. CASE e.error # "none"
    <3>1. next = ListFailed(l, e.error)
      BY <2>1 DEF Taken
    <3>2. /\ ListFailed(l, e.error).phase = "done"
          /\ ListFailed(l, e.error).error = e.error
          /\ ListFailed(l, e.error).request = l.request
      BY <1>2, <2>1, HeadTypes, FailedOK DEF ListInv
    <3> HIDE DEF next
    <3> QED
      BY <2>1, <3>1, <3>2 DEF PageRight
  <2>2. CASE e.error = "none"
    <3>1. next.phase = "verify" /\ next.request = l.request /\ next.revision = l.revision
      BY <1>2, <2>2, TakenFields DEF ListOK
    <3>2. HasSnapshot(e)
      BY <1>1, <2>2 DEF HasSnapshot
    <3>3. e.request = PinnedCheck(l) /\ e.revision = l.revision
      BY <1>2, <3>2 DEF CheckFor
    <3>4. Right(world, l.request.subject, KeyFor(l, Head(l.todo)), e.value)
      BY <1>1, <1>2, <2>2, <3>3, NextKnown DEF CallRight
    <3>5. /\ IsList(l) /\ l.todo \in Seq(l.candidates)
          /\ l.objects \in Seq(l.candidates) /\ PageSoFar(world, l)
      BY <1>2 DEF PageRight, ListOK
    <3> HIDE DEF l, e, world, next
    <3>6. PageSoFar(world, Taken(l, e))
      BY <1>2, <2>2, <3>4, <3>5, TakenRight
    <3>7. PageSoFar(World(next.revision), next)
      BY <3>1, <3>6 DEF world, next
    <3> QED
      BY <3>1, <3>7 DEF PageRight
  <2> QED
    BY <2>1, <2>2
<1> HIDE DEF next
<1>4. RequestKnown(next)
  BY <1>2, <1>3 DEF RequestKnown
<1>5. PICK m : m = next
  OBVIOUS
<1>6. list'[c] = m /\ RequestKnown(m) /\ PageRight(World(m.revision), m)
  BY <1>1, <1>3, <1>4, <1>5 DEF next
<1>7. PageRight(World(list[c].revision), list[c])'
  <2>1. World(m.revision)' = World(m.revision)
    BY <1>1, SameWorlds
  <2> QED
    BY <1>6, <2>1
<1>8. CallRight(World(call[c].revision), call[c])'
  BY <1>1, IdleRight
<1>9. CacheRight'
  BY <1>1, SameWorlds, OldEntries DEF ListInv, ListRight
<1> QED
  BY <1>1, <1>6, <1>7, <1>8, <1>9, OneListRight

(* Writes go on; the revisions that lists and checks read stay as they are. *)
LEMMA WriteArrivesRight ==
    ASSUME NEW worlds, ClosedUnder(worlds, Writes), ListInv, ListRight(worlds),
           WriteArrives
    PROVE  ListRight(worlds)'
<1>1. PICK write \in Writes : Commit(write.add, write.remove)
  BY DEF WriteArrives
<1>2. /\ StoreTypeOK /\ head \in Nat /\ head' = head + 1
      /\ call' = call /\ cache' = cache /\ list' = list
  BY <1>1, HeadTypes DEF ListInv, WriteArrives, engineVars, Commit
<1>3. \A rev \in 0..head : World(rev)' = World(rev)
  BY <1>1, <1>2, CommitKeepsWorlds
<1>4. WorldsKnown(worlds)'
  BY <1>1, <1>2, CommitKnown DEF ListRight
<1>5. ASSUME NEW d \in Calls
      PROVE  /\ RequestKnown(list[d])'
             /\ CallRight(World(call[d].revision), call[d])'
             /\ PageRight(World(list[d].revision), list[d])'
  BY <1>2, <1>3, OtherLists DEF ListRight
<1>6. CacheRight'
  BY <1>2, <1>3, OldEntries DEF ListRight
<1> QED
  BY <1>4, <1>5, <1>6 DEF ListRight

LEMMA ListRightInit ==
    ASSUME NEW worlds, ClosedUnder(worlds, Writes), Init
    PROVE  ListRight(worlds)
<1>1. /\ head = 0 /\ history = [rev \in {0} |-> {}] /\ cache = Empty
      /\ call = [c \in Calls |-> IdleCall] /\ list = [c \in Calls |-> IdleList]
  BY DEF Init, StoreInit, EngineInit
<1>2. WorldsKnown(worlds)
  BY <1>1 DEF ClosedUnder, WorldsKnown
<1>3. CacheRight
  BY <1>1 DEF CacheRight, Empty
<1>4. IdleList.phase = "idle"
  BY DEF IdleList
<1>5. ASSUME NEW c \in Calls
      PROVE  /\ RequestKnown(list[c])
             /\ CallRight(World(call[c].revision), call[c])
             /\ PageRight(World(list[c].revision), list[c])
  <2>1. call[c] = IdleCall /\ list[c] = IdleList
    BY <1>1
  <2>2. RequestKnown(list[c]) /\ PageRight(World(list[c].revision), list[c])
    BY <1>4, <2>1 DEF RequestKnown, PageRight
  <2> QED
    BY <2>1, <2>2, IdleRight
<1> QED
  BY <1>2, <1>3, <1>5 DEF ListRight

LEMMA ListRightStep ==
    ASSUME NEW worlds, Interpreted(worlds), ClosedUnder(worlds, Writes), RequestsKnown,
           ListInv, ListRight(worlds), [Next]_vars
    PROVE  ListRight(worlds)'
<1>1. ASSUME NEW c \in Calls,
             ReceiveList(c) \/ ResolveList(c) \/ ListFails(c) \/ RespondList(c)
      PROVE  ListRight(worlds)'
  BY <1>1, ReceiveListRight, ResolveListRight, ListFailsRight, RespondListRight
<1>2. ASSUME NEW c \in Calls,
             \/ TooDeep(c) \/ ReadFrontier(c)
             \/ VisitSeen(c) \/ VisitNew(c) \/ EndOfVisit(c)
      PROVE  ListRight(worlds)'
  BY <1>2, TooDeepRight, ReadFrontierRight, VisitSeenRight, VisitNewRight,
     EndOfVisitRight
<1>3. ASSUME NEW c \in Calls,
             \/ StartVerifying(c) \/ VerifyNext(c) \/ VerifyStep(c)
             \/ Verified(c) \/ EndOfList(c)
      PROVE  ListRight(worlds)'
  BY <1>3, StartVerifyingRight, VerifyNextRight, VerifyStepRight, VerifiedRight,
     EndOfListRight
<1>4. CASE WriteArrives
  BY <1>4, WriteArrivesRight
<1>5. CASE UNCHANGED vars
  <2>1. /\ head' = head /\ history' = history /\ cache' = cache
        /\ call' = call /\ list' = list
    BY <1>5 DEF vars
  <2>2. \A rev : World(rev)' = World(rev)
    BY <2>1, SameWorlds
  <2>3. WorldsKnown(worlds)' /\ CacheRight'
    BY <2>1, SameWorlds, OldEntries DEF ListInv, ListRight, WorldsKnown
  <2>4. ASSUME NEW d \in Calls
        PROVE  /\ RequestKnown(list[d])'
               /\ CallRight(World(call[d].revision), call[d])'
               /\ PageRight(World(list[d].revision), list[d])'
    BY <2>1, <2>2, OtherLists DEF ListRight
  <2> QED
    BY <2>3, <2>4 DEF ListRight
<1> QED
  BY <1>1, <1>2, <1>3, <1>4, <1>5 DEF Next, ListStep

(* In every reachable state the check of a candidate is right about the    *)
(* world of its list, and so is what the list has made of the answers.     *)
THEOREM ListRightInvariance ==
    ASSUME NEW worlds, Interpreted(worlds), ClosedUnder(worlds, Writes), RequestsKnown
    PROVE  Spec => []ListRight(worlds)
<1>1. Init => ListRight(worlds)
  BY ListRightInit
<1>2. ListInv /\ ListRight(worlds) /\ [Next]_vars => ListRight(worlds)'
  BY ListRightStep
<1> QED
  BY <1>1, <1>2, ListInvariance, PTL DEF Spec

(* A page holds, in order, objects that are allowed at the one revision of *)
(* the list, which was the head while the request was being served, and    *)
(* every ranked candidate that is, unless it is full of earlier ones: for  *)
(* any schema with a meaning, any reverse analysis, any page limit, any    *)
(* number of lists at once, and whatever is written while they run.        *)
THEOREM PageCorrect ==
    ASSUME NEW worlds, Interpreted(worlds), ClosedUnder(worlds, Writes), RequestsKnown
    PROVE  Spec => []PageExact
<1>1. ASSUME ListInv, ListRight(worlds)
      PROVE  PageExact
  <2>1. ASSUME NEW c \in Calls, Listed(c)
        PROVE  LET l == list[c]
               IN IsPageOf(l, {object \in l.candidates :
                                 IsAllowed(l, object) /\ IsRanked(l, object)})
    <3> DEFINE l == list[c]
               world == World(l.revision)
               found == Range(l.objects)
    <3>1. /\ l.phase = "done" /\ l.error = "none"
          /\ ListOK(head, l) /\ PageRight(world, l)
      BY <1>1, <2>1 DEF Listed, ListInv, ListRight
    <3>2. PageFinal(world, l)
      BY <3>1 DEF PageRight
    <3>3. l.revision \in l.began..head
      <4>1. /\ l.began \in 0..head /\ l.revision \in 0..head /\ l.began <= l.revision
        BY <3>1 DEF ListOK, IsPinned
      <4> QED
        BY <1>1, <4>1, HeadTypes DEF ListInv
    <3>4. /\ l.objects \in Seq(l.candidates)
          /\ \A object \in l.candidates : object.type = l.request.type
      BY <3>1 DEF ListOK, Listable
    <3>5. \A object : object \in found <=> Holding(l.objects, object)
      BY DEF Range, Holding
    <3>6. ASSUME NEW object \in found
          PROVE  IsAllowed(l, object)
      <4>1. PICK i \in DOMAIN l.objects : l.objects[i] = object
        BY <3>5, <3>6 DEF Holding
      <4>2. object \in l.candidates
        BY <3>4, <4>1
      <4> QED
        BY <3>2, <3>4, <4>1, <4>2 DEF PageFinal, PageGranted, Grants, KeyFor, IsAllowed
    <3>7. ASSUME NEW object \in l.candidates \ found,
                 IsAllowed(l, object), IsRanked(l, object)
          PROVE  Full(l) /\ \A other \in found : Before(other, object)
      <4>1. Grants(world, l, object) /\ Ranked(world, KeyFor(l, object))
        BY <3>7 DEF IsAllowed, IsRanked, Grants, KeyFor
      <4>2. ~ Holding(l.objects, object)
        BY <3>5, <3>7
      <4>3. Full(l) /\ \A i \in DOMAIN l.objects : Before(l.objects[i], object)
        BY <3>2, <3>7, <4>1, <4>2 DEF PageFinal
      <4> QED
        BY <3>5, <4>3 DEF Holding
    <3>8. Len(l.objects) <= l.request.limit
      BY <3>1 DEF ListOK
    <3> QED
      BY <3>2, <3>3, <3>6, <3>7, <3>8 DEF PageFinal, IsPageOf
  <2> QED
    BY <2>1 DEF PageExact
<1> QED
  BY <1>1, ListInvariance, ListRightInvariance, PTL

=============================================================================
