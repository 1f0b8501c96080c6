------------------------------ MODULE Service ------------------------------
(***************************************************************************)
(* The server and its clients: checks and writes arrive over HTTP          *)
(* (internal/api/api.go) and run concurrently in one process over one      *)
(* store and one cache (cmd/zanzo/main.go).  Every response carries a      *)
(* token, the revision it was computed at, which the client may hand back. *)
(*                                                                         *)
(* Each client waits for its answer before it sends the next request.  The *)
(* process may be restarted: the cache and the requests in flight are      *)
(* lost, and so is the store unless it is Durable.  Clients keep their     *)
(* tokens.                                                                 *)
(***************************************************************************)
EXTENDS CheckEngine, Meaning

CONSTANTS Writes,        \* the writes that clients send: [add, remove]
          Queries,       \* the questions they ask: [key, subject]
          Consistencies, \* the consistency modes they ask for
          Durable        \* FALSE for the in-process store

ASSUME WritesAssumption == \A write \in Writes : write.add \subseteq Tuples

VARIABLES seen,          \* the newest token that each client holds
          began          \* head when the check of each client arrived

clientVars == <<seen, began>>

vars == <<head, history, cache, call, seen, began>>

Init ==
    /\ StoreInit
    /\ EngineInit
    /\ seen = [c \in Calls |-> 0]
    /\ began = [c \in Calls |-> 0]

(* handleCheck calls Engine.Check; the request pins no revision.           *)
ReceiveCheck(c) ==
    /\ \E query \in Queries, consistency \in Consistencies :
         Begin(c, [key |-> query.key, subject |-> query.subject, revision |-> 0,
                   consistency |-> consistency,
                   token |-> IF consistency = "at_least_as_fresh" THEN seen[c] ELSE 0])
    /\ began' = [began EXCEPT ![c] = head]
    /\ UNCHANGED <<storeVars, seen>>

Step(c) == EngineStep(c) /\ UNCHANGED <<storeVars, clientVars>>

(* The client gets the decision and the token of its snapshot, or an error *)
(* status and no token.                                                    *)
Respond(c) ==
    /\ call[c].phase = "done"
    /\ call' = [call EXCEPT ![c] = IdleCall]
    /\ seen' = IF call[c].error = "none"
                 THEN [seen EXCEPT ![c] = call[c].revision] ELSE seen
    /\ began' = [began EXCEPT ![c] = 0]
    /\ UNCHANGED <<storeVars, cache>>

(* handleWrite: the client gets the token of the revision it has created.  *)
ReceiveWrite(c) ==
    /\ call[c].phase = "idle"
    /\ \E write \in Writes : Commit(write.add, write.remove)
    /\ seen' = [seen EXCEPT ![c] = head']
    /\ UNCHANGED <<engineVars, began>>

Restart ==
    /\ cache' = Empty
    /\ call' = [c \in Calls |-> IdleCall]
    /\ began' = [c \in Calls |-> 0]
    /\ IF Durable
         THEN UNCHANGED storeVars
         ELSE head' = 0 /\ history' = [rev \in {0} |-> {}]
    /\ UNCHANGED seen

Next ==
    \/ \E c \in Calls : \/ ReceiveCheck(c)
                        \/ Step(c)
                        \/ Respond(c)
                        \/ ReceiveWrite(c)
    \/ Restart

(* The Go scheduler runs every goroutine that can run, and the handler     *)
(* writes its response.  No client is obliged to send anything.            *)
Fairness == \A c \in Calls : WF_vars(Step(c)) /\ WF_vars(Respond(c))

Spec == Init /\ [][Next]_vars /\ Fairness

----------------------------------------------------------------------------
(* What the theorems about answers assume of the clients.                  *)

(* They ask about subproblems and subjects that have a meaning.            *)
QueriesKnown ==
    \A query \in Queries : query.key \in Keys /\ query.subject \in Subjects

(* None of them can hold a token of a revision that has been forgotten.    *)
TokensKept == Durable \/ "at_least_as_fresh" \notin Consistencies

----------------------------------------------------------------------------
(* Properties.                                                             *)

FrameOK(frame) ==
    /\ frame.kind \in FrameKinds
    /\ frame.goal.depth \in 0..MaxDepth
    /\ frame.kind \in {"check", "subtract"} => frame.todo = << >>
    /\ frame.kind = "base" => Len(frame.todo) = 1

(* Type invariant: a memo or a cache entry is a decision, what is pending  *)
(* stays within the depth limit, and an answer has left nothing pending.   *)
TypeOK ==
    /\ StoreTypeOK
    /\ \A k \in DOMAIN cache : cache[k] \in BOOLEAN
    /\ \A c \in Calls :
         LET e == call[c]
         IN /\ e.phase \in {"idle", "resolve", "check", "eval", "loop", "return", "done"}
            /\ e.error \in {"none", "canceled", "depth", "lookup", "store"}
            /\ e.value \in BOOLEAN
            /\ \A k \in DOMAIN e.memo : e.memo[k] \in BOOLEAN
            /\ \A i \in DOMAIN e.stack : FrameOK(e.stack[i])
            /\ e.phase \in {"eval", "loop"} => e.stack # << >>
            /\ e.phase \in {"idle", "resolve", "done"} => e.stack = << >>
            /\ seen[c] \in 0..MaxRevision
            /\ began[c] \in 0..MaxRevision

Answered(c) == call[c].phase = "done" /\ call[c].error = "none"

Truth(request, rev) == Holds(World(rev), request.key, request.subject)

(* Every answer was true at one single revision, which was the head at     *)
(* some moment between the arrival of the request and the answer, however  *)
(* writes and other checks interleave with it, and whatever the memo and   *)
(* the cache contributed.  (Request.Revision: "a check cannot observe a    *)
(* write that lands mid-evaluation".)                                      *)
AnswersLinearize ==
    \A c \in Calls : Answered(c) =>
        /\ call[c].revision \in began[c]..head
        /\ call[c].value = Truth(call[c].request, call[c].revision)

(* The cache never holds an entry of a revision that does not exist, and   *)
(* each entry is the truth of its revision ("an entry can never outlive    *)
(* the state that produced it").                                           *)
CacheSound ==
    /\ \A k \in DOMAIN cache : k.revision <= head
    /\ cache = [k \in DOMAIN cache |->
                  Holds(World(k.revision), KeyOfEntry(k), k.subject)]

(* The engine fails closed: whatever cycles the data has, an answer that   *)
(* allows, or a cached one, is a grant of its revision, and an error never *)
(* allows.  Denials are not promised here.                                 *)
GrantsTrue ==
    /\ \A c \in Calls : call[c].phase = "done" /\ call[c].value =>
         call[c].error = "none" /\ Truth(call[c].request, call[c].revision)
    /\ \A k \in DOMAIN cache : cache[k] =>
         Holds(World(k.revision), KeyOfEntry(k), k.subject)

(* Cycles elsewhere do no harm: every answer, and every cache entry, about *)
(* a ranked subproblem is the truth of its revision, whatever pending      *)
(* subproblems were cut while it was computed.                             *)
RankedExact ==
    /\ \A c \in Calls :
         LET world == World(call[c].revision)
         IN Answered(c) /\ Ranked(world, call[c].request.key) =>
              call[c].value = Truth(call[c].request, call[c].revision)
    /\ \A k \in DOMAIN cache :
         Ranked(World(k.revision), KeyOfEntry(k)) =>
           cache[k] = Holds(World(k.revision), KeyOfEntry(k), k.subject)

(* A denial is a denial of its revision: the engine finds every grant.     *)
GrantsFound ==
    \A c \in Calls : Answered(c) /\ Truth(call[c].request, call[c].revision)
                        => call[c].value

(* "FullConsistency always reads at head.  Correct, ...": the answer of a  *)
(* full check is the truth of its revision.                                *)
FullChecksCorrect ==
    \A c \in Calls :
        Answered(c) /\ call[c].request.consistency = "full"
          => call[c].value = Truth(call[c].request, call[c].revision)

(* The depth of a subproblem is the number of distinct subproblems that it *)
(* is nested in, so that a depth error is never the work of a cycle: it    *)
(* takes MaxDepth + 1 different subproblems, each waiting for the next.    *)
DepthIsNesting ==
    \A c \in Calls : call[c].phase = "check" =>
        call[c].goal.depth = Cardinality(Visiting(call[c]))

(* A client's token never goes back: its next read is no older than what   *)
(* it has already seen, in every consistency mode.                         *)
SessionsMonotone == [][\A c \in Calls : seen'[c] >= seen[c]]_vars

(* Every check that reaches the engine is answered, cycles or not.         *)
ChecksTerminate ==
    \A c \in Calls : call[c].phase = "resolve" ~> call[c].phase \in {"done", "idle"}

=============================================================================
