--------------------------- MODULE ServiceProofs ---------------------------
(***************************************************************************)
(* Theorems about the service, for every schema, data, bound and number of *)
(* clients.  First what CheckEngineProofs shows of one step of one check,  *)
(* carried to all behaviours of checks, writes, answers and restarts.      *)
(* Then the answers: in a schema that has a meaning in every world that    *)
(* the writes can bring about, no interleaving of checks, writes, answers  *)
(* and restarts, and nothing that one check leaves in the cache for        *)
(* another, makes an answer wrong.                                         *)
(***************************************************************************)
EXTENDS Service, CheckEngineProofs

(* The revisions that the server and its clients hold are real ones.       *)
RevisionsOK ==
    \A c \in Calls :
       /\ call[c].request.revision = 0
       /\ call[c].request.token \in 0..MaxRevision
       /\ call[c].revision \in 0..MaxRevision

ServiceInv ==
    /\ StoreTypeOK
    /\ CallsOK
    /\ RevisionsOK
    /\ seen \in [Calls -> 0..MaxRevision]
    /\ began \in [Calls -> 0..MaxRevision]

----------------------------------------------------------------------------
(* The store.                                                              *)

LEMMA SnapshotTypes ==
    ASSUME StoreTypeOK, NEW request,
           request.revision = 0, request.token \in 0..MaxRevision
    PROVE  SnapshotFor(request) \in 0..MaxRevision
BY HeadTypes DEF SnapshotFor

----------------------------------------------------------------------------
(* The calls.                                                              *)

(* The request that handleCheck makes of a query.                          *)
LEMMA ReceiveCheckFields ==
    ASSUME call = [d \in Calls |-> call[d]], NEW c \in Calls, ReceiveCheck(c)
    PROVE  /\ call[c].phase = "idle"
           /\ call' = [call EXCEPT ![c] = call'[c]]
           /\ EvalInv(call'[c])
           /\ call'[c].phase = "resolve" /\ call'[c].revision = 0
           /\ call'[c].request.revision = 0
           /\ call'[c].request.token \in {0, seen[c]}
           /\ began' = [began EXCEPT ![c] = head]
           /\ UNCHANGED <<head, history, cache, seen>>
<1>1. PICK query \in Queries, consistency \in Consistencies :
        Begin(c, [key |-> query.key, subject |-> query.subject, revision |-> 0,
                  consistency |-> consistency,
                  token |-> IF consistency = "at_least_as_fresh" THEN seen[c] ELSE 0])
  BY DEF ReceiveCheck
<1> DEFINE request ==
             [key |-> query.key, subject |-> query.subject, revision |-> 0,
              consistency |-> consistency,
              token |-> IF consistency = "at_least_as_fresh" THEN seen[c] ELSE 0]
           f == [IdleCall EXCEPT !.phase = "resolve", !.request = request]
<1>2. request.revision = 0 /\ request.token \in {0, seen[c]}
  OBVIOUS
<1>3. /\ call[c].phase = "idle"
      /\ call' = [call EXCEPT ![c] = f]
      /\ cache' = cache
  BY <1>1 DEF Begin, Becomes
<1> HIDE DEF request
<1>4. EvalInv(f) /\ f.phase = "resolve" /\ f.request = request /\ f.revision = 0
  BY ReceivedInv
<1> HIDE DEF f
<1>5. call'[c] = f
  BY <1>3
<1> QED
  BY <1>2, <1>3, <1>4, <1>5 DEF ReceiveCheck, storeVars

(* A call that becomes an evaluation in which all is well.                 *)
LEMMA OneCall ==
    ASSUME CallsOK, RevisionsOK, NEW c \in Calls,
           call' = [call EXCEPT ![c] = call'[c]],
           EvalInv(call'[c]),
           call'[c].request.revision = 0,
           call'[c].request.token \in 0..MaxRevision,
           call'[c].revision \in 0..MaxRevision,
           Decisions(cache')
    PROVE  CallsOK' /\ RevisionsOK'
<1>1. call' = [d \in Calls |-> call'[d]]
  BY DEF CallsOK
<1>2. ASSUME NEW d \in Calls, d # c
      PROVE  call'[d] = call[d]
  BY <1>2 DEF CallsOK
<1>3. \A d \in Calls : EvalInv(call'[d])
  BY <1>2 DEF CallsOK
<1>4. RevisionsOK'
  BY <1>2 DEF RevisionsOK
<1> QED
  BY <1>1, <1>3, <1>4 DEF CallsOK

LEMMA AllIdle ==
    ASSUME call' = [c \in Calls |-> IdleCall], cache' = Empty
    PROVE  CallsOK' /\ RevisionsOK'
<1>1. \A c \in Calls : call'[c] = IdleCall
  OBVIOUS
<1>2. call' = [c \in Calls |-> call'[c]]
  OBVIOUS
<1>3. Decisions(cache')
  BY DEF Decisions, Empty
<1>4. CallsOK'
  BY <1>1, <1>2, <1>3, IdleInv DEF CallsOK
<1>5. RevisionsOK'
  BY <1>1, IdleFields, MaxRevisionAssumption DEF RevisionsOK
<1> QED
  BY <1>4, <1>5


----------------------------------------------------------------------------
(* The inductive invariant.                                                *)

LEMMA ServiceInit == Init => ServiceInv
<1> SUFFICES ASSUME Init
             PROVE  ServiceInv
  OBVIOUS
<1>1. StoreTypeOK
  BY MaxRevisionAssumption DEF Init, StoreInit, StoreTypeOK
<1>2. call = [c \in Calls |-> IdleCall] /\ cache = Empty
  BY DEF Init, EngineInit
<1>3. CallsOK
  BY <1>2, IdleInv DEF CallsOK, Decisions, Empty
<1>4. RevisionsOK
  BY <1>2, IdleFields, MaxRevisionAssumption DEF RevisionsOK
<1>5. seen \in [Calls -> 0..MaxRevision] /\ began \in [Calls -> 0..MaxRevision]
  BY MaxRevisionAssumption DEF Init
<1> QED
  BY <1>1, <1>3, <1>4, <1>5 DEF ServiceInv

LEMMA ReceiveCheckInv ==
    ASSUME ServiceInv, NEW c \in Calls, ReceiveCheck(c)
    PROVE  ServiceInv'
<1>1. /\ call' = [call EXCEPT ![c] = call'[c]]
      /\ EvalInv(call'[c])
      /\ call'[c].revision = 0
      /\ call'[c].request.revision = 0
      /\ call'[c].request.token \in {0, seen[c]}
      /\ began' = [began EXCEPT ![c] = head]
      /\ UNCHANGED <<head, history, cache, seen>>
  BY ReceiveCheckFields DEF ServiceInv, CallsOK
<1>2. seen[c] \in 0..MaxRevision /\ 0 \in 0..MaxRevision /\ head \in 0..MaxRevision
  BY HeadTypes, MaxRevisionAssumption DEF ServiceInv
<1>3. Decisions(cache')
  BY <1>1 DEF ServiceInv, CallsOK
<1>4. CallsOK' /\ RevisionsOK'
  BY <1>1, <1>2, <1>3, OneCall DEF ServiceInv
<1> QED
  BY <1>1, <1>2, <1>4 DEF ServiceInv, StoreTypeOK

LEMMA StepInv ==
    ASSUME ServiceInv, NEW c \in Calls, Step(c)
    PROVE  ServiceInv'
<1>1. Stepped(c) /\ UNCHANGED <<head, history, seen, began>>
  BY EngineStepCorrect DEF ServiceInv, Step, storeVars, clientVars
<1>2. /\ call' = [call EXCEPT ![c] = call'[c]]
      /\ EvalInv(call'[c])
      /\ StepRevision(call[c], call'[c])
      /\ Decisions(cache')
  BY <1>1 DEF Stepped
<1>3. /\ call[c].request.revision = 0
      /\ call[c].request.token \in 0..MaxRevision
      /\ call[c].revision \in 0..MaxRevision
  BY DEF ServiceInv, RevisionsOK
<1>4. SnapshotFor(call[c].request) \in 0..MaxRevision
  BY <1>3, SnapshotTypes DEF ServiceInv
<1>5. 0 \in 0..MaxRevision
  BY MaxRevisionAssumption
<1>6. /\ call'[c].request.revision = 0
      /\ call'[c].request.token \in 0..MaxRevision
      /\ call'[c].revision \in 0..MaxRevision
  BY <1>2, <1>3, <1>4, <1>5, IdleFields DEF StepRevision, Keeps
<1>7. CallsOK' /\ RevisionsOK'
  BY <1>2, <1>6, OneCall DEF ServiceInv
<1> QED
  BY <1>1, <1>7 DEF ServiceInv, StoreTypeOK

LEMMA RespondInv ==
    ASSUME ServiceInv, NEW c \in Calls, Respond(c)
    PROVE  ServiceInv'
<1>1. /\ call' = [call EXCEPT ![c] = IdleCall]
      /\ UNCHANGED <<head, history, cache>>
      /\ seen' = [seen EXCEPT ![c] = call[c].revision] \/ seen' = seen
      /\ began' = [began EXCEPT ![c] = 0]
  BY DEF Respond, storeVars
<1>2. call'[c] = IdleCall
  BY <1>1 DEF ServiceInv, CallsOK
<1>3. 0 \in 0..MaxRevision
  BY MaxRevisionAssumption
<1>4. CallsOK' /\ RevisionsOK'
  BY <1>1, <1>2, <1>3, IdleInv, IdleFields, OneCall DEF ServiceInv, CallsOK
<1>5. call[c].revision \in 0..MaxRevision
  BY DEF ServiceInv, RevisionsOK
<1> QED
  BY <1>1, <1>3, <1>4, <1>5 DEF ServiceInv, StoreTypeOK

LEMMA ReceiveWriteInv ==
    ASSUME ServiceInv, NEW c \in Calls, ReceiveWrite(c)
    PROVE  ServiceInv' /\ head' = head + 1
<1>1. PICK write \in Writes : Commit(write.add, write.remove)
  BY DEF ReceiveWrite
<1>2. write.add \subseteq Tuples
  BY WritesAssumption
<1>3. StoreTypeOK' /\ head' = head + 1
  BY <1>1, <1>2, CommitTypes DEF ServiceInv
<1>4. head' \in 0..MaxRevision
  BY <1>3 DEF StoreTypeOK
<1>5. seen' = [seen EXCEPT ![c] = head'] /\ UNCHANGED <<cache, call, began>>
  BY DEF ReceiveWrite, engineVars
<1>6. CallsOK' /\ RevisionsOK'
  BY <1>5 DEF ServiceInv, CallsOK, RevisionsOK
<1> QED
  BY <1>3, <1>4, <1>5, <1>6 DEF ServiceInv

LEMMA RestartInv ==
    ASSUME ServiceInv, Restart
    PROVE  ServiceInv'
<1>1. StoreTypeOK'
  <2>1. CASE Durable
    BY <2>1 DEF Restart, storeVars, ServiceInv, StoreTypeOK
  <2>2. CASE ~ Durable
    BY <2>2, MaxRevisionAssumption DEF Restart, StoreTypeOK
  <2> QED
    BY <2>1, <2>2
<1>2. CallsOK' /\ RevisionsOK'
  BY AllIdle DEF Restart
<1> QED
  BY <1>1, <1>2, MaxRevisionAssumption DEF Restart, ServiceInv

LEMMA ServiceStep == ServiceInv /\ [Next]_vars => ServiceInv'
<1> SUFFICES ASSUME ServiceInv, [Next]_vars
             PROVE  ServiceInv'
  OBVIOUS
<1>1. ASSUME NEW c \in Calls,
             ReceiveCheck(c) \/ Step(c) \/ Respond(c) \/ ReceiveWrite(c)
      PROVE  ServiceInv'
  BY <1>1, ReceiveCheckInv, StepInv, RespondInv, ReceiveWriteInv
<1>2. CASE Restart
  BY <1>2, RestartInv
<1>3. CASE UNCHANGED vars
  BY <1>3 DEF vars, ServiceInv, StoreTypeOK, CallsOK, RevisionsOK
<1> QED
  BY <1>1, <1>2, <1>3 DEF Next

(* In every reachable state the pending calls of every check are nested as *)
(* their depths say, no subproblem is pending twice, and all revisions are *)
(* in range.                                                               *)
THEOREM ServiceInvariance == Spec => []ServiceInv
BY ServiceInit, ServiceStep, PTL DEF Spec

(* Every memo and cache entry is a decision, and what is pending stays     *)
(* within MaxDepth, in every reachable state.                              *)
THEOREM ServiceTypeCorrect == Spec => []TypeOK
<1>1. ASSUME ServiceInv
      PROVE  TypeOK
  <2>1. ASSUME NEW c \in Calls
        PROVE  LET e == call[c]
               IN /\ e.phase \in Phases
                  /\ e.error \in Errors
                  /\ e.value \in BOOLEAN
                  /\ \A k \in DOMAIN e.memo : e.memo[k] \in BOOLEAN
                  /\ \A i \in DOMAIN e.stack : FrameOK(e.stack[i])
                  /\ e.phase \in {"eval", "loop"} => e.stack # << >>
                  /\ e.phase \in {"idle", "resolve", "done"} => e.stack = << >>
    <3> DEFINE e == call[c]
    <3>1. EvalInv(e) /\ EvalBase(e)
      BY <1>1, CallTypes DEF ServiceInv
    <3> HIDE DEF e
    <3>2. \A i \in DOMAIN e.stack : FrameInv(e.stack[i])
      BY <3>1, StackShape DEF EvalBase, StackInv
    <3>3. \A i \in DOMAIN e.stack : FrameOK(e.stack[i])
      BY <3>2 DEF FrameInv, FrameOK
    <3> QED
      BY <3>1, <3>3 DEF EvalInv, EvalBase, Decisions, e
  <2>2. \A c \in Calls : seen[c] \in 0..MaxRevision /\ began[c] \in 0..MaxRevision
    BY <1>1 DEF ServiceInv
  <2>3. StoreTypeOK /\ Decisions(cache)
    BY <1>1 DEF ServiceInv, CallsOK
  <2> QED
    BY <2>1, <2>2, <2>3 DEF TypeOK, Decisions, Phases, Errors
<1> QED
  BY <1>1, ServiceInvariance, PTL

(* The depth that check passes down is the number of distinct subproblems  *)
(* that are pending, so that visiting and depth never disagree and a cycle *)
(* in the data or in the schema cannot exhaust the depth.                  *)
THEOREM DepthCorrect == Spec => []DepthIsNesting
<1>1. ASSUME ServiceInv
      PROVE  DepthIsNesting
  <2>1. ASSUME NEW c \in Calls, call[c].phase = "check"
        PROVE  call[c].goal.depth = Cardinality(Visiting(call[c]))
    <3>1. EvalInv(call[c]) /\ StackInv(call[c].stack)
      BY <1>1, CallTypes DEF ServiceInv, EvalBase
    <3> QED
      BY <2>1, <3>1, DepthIsVisiting DEF EvalInv
  <2> QED
    BY <2>1 DEF DepthIsNesting
<1> QED
  BY <1>1, ServiceInvariance, PTL

----------------------------------------------------------------------------
(* Freshness, when a restart does not lose the store.                      *)

(* What a client has seen bounds what its check may read from below, and   *)
(* the head bounds it from above.  That no token is ahead of the head is   *)
(* what makes a token a promise of the past.                               *)
SessionFresh(c) ==
    /\ seen[c] <= head
    /\ call[c].request.token <= head
    /\ call[c].phase # "idle" => seen[c] <= began[c] /\ began[c] <= head
    /\ HasSnapshot(call[c]) => began[c] <= call[c].revision /\ call[c].revision <= head

Fresh == \A c \in Calls : SessionFresh(c)

LEMMA RevisionTypes ==
    ASSUME ServiceInv, NEW c \in Calls
    PROVE  /\ seen[c] \in Nat /\ began[c] \in Nat /\ head \in Nat
           /\ call[c].revision \in Nat /\ call[c].request.token \in Nat
           /\ call[c].request.revision = 0
BY HeadTypes, MaxRevisionAssumption DEF ServiceInv, RevisionsOK

LEMMA IdleFresh ==
    ASSUME ServiceInv, NEW c \in Calls, call[c] = IdleCall, seen[c] <= head
    PROVE  SessionFresh(c)
BY IdleFields, RevisionTypes DEF SessionFresh, HasSnapshot, Deciding

LEMMA FreshInit == Init => Fresh
<1> SUFFICES ASSUME Init, NEW c \in Calls
             PROVE  SessionFresh(c)
  BY DEF Fresh
<1>1. call[c] = IdleCall /\ seen[c] <= head
  BY DEF Init, StoreInit, EngineInit
<1> QED
  BY <1>1, ServiceInit, IdleFresh

(* A client that is not concerned by a step, while the head may advance.   *)
LEMMA OthersFresh ==
    ASSUME ServiceInv, NEW c \in Calls, SessionFresh(c),
           call'[c] = call[c], seen'[c] = seen[c], began'[c] = began[c],
           head' \in Nat, head <= head'
    PROVE  SessionFresh(c)'
BY RevisionTypes DEF SessionFresh, HasSnapshot

LEMMA ReceiveCheckFresh ==
    ASSUME ServiceInv, Fresh, NEW c \in Calls, ReceiveCheck(c)
    PROVE  Fresh' /\ seen' = seen
<1>1. /\ call' = [call EXCEPT ![c] = call'[c]]
      /\ call'[c].phase = "resolve"
      /\ call'[c].request.token \in {0, seen[c]}
      /\ began' = [began EXCEPT ![c] = head]
      /\ UNCHANGED <<head, seen>>
  BY ReceiveCheckFields DEF ServiceInv, CallsOK
<1>2. seen[c] <= head /\ head \in Nat /\ seen[c] \in Nat
  BY RevisionTypes DEF Fresh, SessionFresh
<1>3. began'[c] = head
  BY <1>1 DEF ServiceInv
<1>4. SessionFresh(c)'
  BY <1>1, <1>2, <1>3 DEF SessionFresh, HasSnapshot, Deciding
<1>5. ASSUME NEW d \in Calls, d # c
      PROVE  SessionFresh(d)'
  <2>1. call'[d] = call[d] /\ began'[d] = began[d]
    BY <1>1, <1>5 DEF ServiceInv, CallsOK
  <2> QED
    BY <1>1, <1>2, <2>1, OthersFresh DEF Fresh
<1> QED
  BY <1>1, <1>4, <1>5 DEF Fresh

LEMMA StepFresh ==
    ASSUME ServiceInv, Fresh, NEW c \in Calls, Step(c)
    PROVE  Fresh' /\ seen' = seen
<1> DEFINE e == call[c]
           f == call'[c]
<1>1. /\ call' = [call EXCEPT ![c] = f]
      /\ StepRevision(e, f)
      /\ UNCHANGED <<head, seen, began>>
  BY EngineStepCorrect DEF ServiceInv, Step, Stepped, storeVars, clientVars
<1>2. /\ seen[c] \in Nat /\ began[c] \in Nat /\ head \in Nat
      /\ e.request.token \in Nat /\ e.request.revision = 0
      /\ SessionFresh(c)
  BY RevisionTypes DEF Fresh
<1>3. SessionFresh(c)'
  <2>1. CASE e.phase = "resolve" /\ f.request = e.request
               /\ f.revision = SnapshotFor(e.request)
    <3>1. f.revision = head
      BY <1>2, <2>1 DEF SnapshotFor, SessionFresh
    <3> QED
      BY <1>1, <1>2, <2>1, <3>1 DEF SessionFresh
  <2>2. CASE e.phase \in Deciding /\ Keeps(e, f)
    BY <1>1, <1>2, <2>2 DEF SessionFresh, Deciding, HasSnapshot, Keeps
  <2>3. CASE e.phase # "idle" /\ f.phase = "done" /\ f.error # "none"
               /\ f.request = NoRequest
    BY <1>1, <1>2, <2>3, IdleFields DEF SessionFresh, Deciding, HasSnapshot
  <2> QED
    BY <1>1, <2>1, <2>2, <2>3 DEF StepRevision
<1>4. ASSUME NEW d \in Calls, d # c
      PROVE  SessionFresh(d)'
  <2>1. call'[d] = call[d]
    BY <1>1, <1>4 DEF ServiceInv, CallsOK
  <2> QED
    BY <1>1, <1>2, <2>1, OthersFresh DEF Fresh
<1> QED
  BY <1>1, <1>3, <1>4 DEF Fresh

LEMMA RespondFresh ==
    ASSUME ServiceInv, Fresh, NEW c \in Calls, Respond(c)
    PROVE  Fresh' /\ \A d \in Calls : seen'[d] >= seen[d]
<1>1. /\ call[c].phase = "done"
      /\ call' = [call EXCEPT ![c] = IdleCall]
      /\ seen' = IF call[c].error = "none"
                   THEN [seen EXCEPT ![c] = call[c].revision] ELSE seen
      /\ began' = [began EXCEPT ![c] = 0]
      /\ head' = head
  BY DEF Respond, storeVars
<1>2. /\ seen[c] \in Nat /\ began[c] \in Nat /\ head \in Nat
      /\ call[c].revision \in Nat /\ SessionFresh(c)
  BY RevisionTypes DEF Fresh
<1>3. seen'[c] >= seen[c] /\ seen'[c] <= head
  BY <1>1, <1>2 DEF ServiceInv, SessionFresh, HasSnapshot
<1>4. call'[c] = IdleCall
  BY <1>1 DEF ServiceInv, CallsOK
<1>5. SessionFresh(c)'
  BY <1>1, <1>2, <1>3, <1>4, IdleFields DEF SessionFresh, HasSnapshot, Deciding
<1>6. ASSUME NEW d \in Calls, d # c
      PROVE  SessionFresh(d)' /\ seen'[d] = seen[d]
  <2>1. call'[d] = call[d] /\ seen'[d] = seen[d] /\ began'[d] = began[d]
    BY <1>1, <1>6 DEF ServiceInv, CallsOK
  <2> QED
    BY <1>1, <1>2, <2>1, OthersFresh DEF Fresh
<1> QED
  BY <1>3, <1>5, <1>6, RevisionTypes DEF Fresh

LEMMA ReceiveWriteFresh ==
    ASSUME ServiceInv, Fresh, NEW c \in Calls, ReceiveWrite(c)
    PROVE  Fresh' /\ \A d \in Calls : seen'[d] >= seen[d]
<1>1. /\ call[c].phase = "idle"
      /\ head' = head + 1
      /\ seen' = [seen EXCEPT ![c] = head']
      /\ call' = call /\ began' = began
  BY ReceiveWriteInv DEF ReceiveWrite, engineVars
<1>2. /\ seen[c] \in Nat /\ head \in Nat /\ call[c].request.token \in Nat
      /\ SessionFresh(c)
  BY RevisionTypes DEF Fresh
<1>3. seen'[c] = head' /\ seen'[c] >= seen[c]
  BY <1>1, <1>2 DEF ServiceInv, SessionFresh
<1>4. SessionFresh(c)'
  BY <1>1, <1>2, <1>3 DEF SessionFresh, HasSnapshot, Deciding
<1>5. ASSUME NEW d \in Calls, d # c
      PROVE  SessionFresh(d)' /\ seen'[d] = seen[d]
  <2>1. seen'[d] = seen[d]
    BY <1>1, <1>5 DEF ServiceInv
  <2> QED
    BY <1>1, <1>2, <2>1, OthersFresh DEF Fresh
<1> QED
  BY <1>3, <1>4, <1>5, RevisionTypes DEF Fresh

LEMMA RestartFresh ==
    ASSUME Durable, ServiceInv, Fresh, Restart
    PROVE  Fresh' /\ seen' = seen
<1>1. /\ call' = [c \in Calls |-> IdleCall]
      /\ began' = [c \in Calls |-> 0]
      /\ head' = head /\ seen' = seen
  BY DEF Restart, storeVars
<1>2. ASSUME NEW c \in Calls
      PROVE  SessionFresh(c)'
  <2>1. seen[c] <= head /\ head \in Nat
    BY RevisionTypes DEF Fresh, SessionFresh
  <2> QED
    BY <1>1, <2>1, IdleFields DEF SessionFresh, HasSnapshot, Deciding
<1> QED
  BY <1>1, <1>2 DEF Fresh

LEMMA FreshStep ==
    ASSUME Durable, ServiceInv, Fresh, [Next]_vars
    PROVE  Fresh' /\ [\A c \in Calls : seen'[c] >= seen[c]]_vars
<1>1. ASSUME seen' = seen
      PROVE  \A c \in Calls : seen'[c] >= seen[c]
  BY <1>1, RevisionTypes
<1>2. ASSUME NEW c \in Calls,
             ReceiveCheck(c) \/ Step(c) \/ Respond(c) \/ ReceiveWrite(c)
      PROVE  Fresh' /\ \A d \in Calls : seen'[d] >= seen[d]
  BY <1>1, <1>2, ReceiveCheckFresh, StepFresh, RespondFresh, ReceiveWriteFresh
<1>3. CASE Restart
  BY <1>1, <1>3, RestartFresh
<1>4. CASE UNCHANGED vars
  BY <1>4 DEF vars, Fresh, SessionFresh
<1> QED
  BY <1>2, <1>3, <1>4 DEF Next

(* Every check reads at a revision between the arrival of its request and  *)
(* the head, so no consistency mode needs to wait for a token, as long as  *)
(* the store survives restarts.                                            *)
THEOREM FreshInvariance ==
    ASSUME Durable
    PROVE  Spec => []Fresh
<1>1. ServiceInv /\ Fresh /\ [Next]_vars => Fresh'
  BY FreshStep
<1> QED
  BY <1>1, FreshInit, ServiceInvariance, PTL DEF Spec

(* An answer is of a revision that was the head between arrival and answer *)
(* (the part of AnswersLinearize that does not depend on the schema).      *)
THEOREM AnswersFresh ==
    ASSUME Durable
    PROVE  Spec => [](\A c \in Calls : Answered(c) => call[c].revision \in began[c]..head)
<1>1. ASSUME ServiceInv, Fresh
      PROVE  \A c \in Calls : Answered(c) => call[c].revision \in began[c]..head
  BY <1>1, RevisionTypes DEF Fresh, SessionFresh, HasSnapshot, Answered
<1> QED
  BY <1>1, ServiceInvariance, FreshInvariance, PTL

(* No response hands a client an older token than it holds, whatever the   *)
(* consistency mode of its checks, as long as the store survives restarts. *)
THEOREM SessionsCorrect ==
    ASSUME Durable
    PROVE  Spec => SessionsMonotone
<1>1. ServiceInv /\ Fresh /\ [Next]_vars
        => [\A c \in Calls : seen'[c] >= seen[c]]_vars
  BY FreshStep
<1> QED
  BY <1>1, ServiceInvariance, FreshInvariance, PTL DEF Spec, SessionsMonotone

----------------------------------------------------------------------------
(* Answers: the invariant.                                                 *)

(* The snapshot of a check is a revision between its arrival and the head. *)
Windowed(c) ==
    /\ call[c].request.token <= head
    /\ call[c].phase # "idle" => began[c] <= head
    /\ HasSnapshot(call[c]) =>
         began[c] <= call[c].revision /\ call[c].revision <= head

AnswersInv(worlds) ==
    /\ WorldsKnown(worlds)
    /\ \A c \in Calls : Windowed(c) /\ CallRight(World(call[c].revision), call[c])
    /\ CacheRight

(* All that the proofs carry along.                                        *)
AnswersOK(worlds) == ServiceInv /\ (Durable => Fresh) /\ AnswersInv(worlds)

LEMMA IdleWindowed ==
    ASSUME NEW c \in Calls, call[c] = IdleCall, head \in Nat
    PROVE  Windowed(c)
BY IdleFields DEF Windowed, HasSnapshot, Deciding

LEMMA AnswersInit ==
    ASSUME NEW worlds, ClosedUnder(worlds, Writes), Init
    PROVE  AnswersInv(worlds)
<1>1. head = 0 /\ history = [rev \in {0} |-> {}] /\ cache = Empty
  BY DEF Init, StoreInit, EngineInit
<1>2. WorldsKnown(worlds)
  BY <1>1 DEF ClosedUnder, WorldsKnown
<1>3. ASSUME NEW c \in Calls
      PROVE  Windowed(c) /\ CallRight(World(call[c].revision), call[c])
  <2>1. call[c] = IdleCall
    BY DEF Init, EngineInit
  <2> QED
    BY <1>1, <2>1, IdleRight, IdleWindowed
<1>4. CacheRight
  BY <1>1 DEF CacheRight, Empty
<1> QED
  BY <1>2, <1>3, <1>4 DEF AnswersInv

----------------------------------------------------------------------------
(* What a step does not concern.                                           *)

LEMMA OtherCalls ==
    ASSUME ServiceInv, NEW c \in Calls,
           Windowed(c), CallRight(World(call[c].revision), call[c]),
           call'[c] = call[c], began'[c] = began[c], head' \in Nat, head <= head',
           \A rev \in 0..head : World(rev)' = World(rev)
    PROVE  Windowed(c)' /\ CallRight(World(call[c].revision), call[c])'
<1> DEFINE e == call[c]
           rev == e.revision
<1>1. /\ began[c] \in Nat /\ head \in Nat /\ rev \in Nat
      /\ e.request.token \in Nat
  BY RevisionTypes
<1>2. Windowed(c)'
  BY <1>1 DEF Windowed
<1>3. HasSnapshot(e) => rev \in 0..head
  BY <1>1 DEF Windowed
<1> QED
  BY <1>2, <1>3, CallLeft

(* One call changes, the store does not.                                   *)
LEMMA OneCallAnswers ==
    ASSUME NEW worlds, AnswersOK(worlds), NEW c \in Calls,
           call' = [call EXCEPT ![c] = call'[c]],
           began' = [began EXCEPT ![c] = began'[c]],
           UNCHANGED <<head, history>>,
           Windowed(c)', CallRight(World(call[c].revision), call[c])', CacheRight'
    PROVE  AnswersInv(worlds)'
<1>1. \A rev \in 0..head : World(rev)' = World(rev)
  BY DEF World
<1>2. head' \in Nat /\ head <= head'
  BY HeadTypes DEF AnswersOK, ServiceInv
<1>3. ASSUME NEW d \in Calls, d # c
      PROVE  Windowed(d)' /\ CallRight(World(call[d].revision), call[d])'
  <2>1. call'[d] = call[d] /\ began'[d] = began[d]
    BY <1>3 DEF AnswersOK, ServiceInv, CallsOK
  <2> QED
    BY <1>1, <1>2, <2>1, OtherCalls DEF AnswersOK, AnswersInv
<1>4. WorldsKnown(worlds)'
  BY DEF AnswersOK, AnswersInv, WorldsKnown
<1> QED
  BY <1>3, <1>4 DEF AnswersInv

(* A cache that a step leaves alone, and the store with it.                *)
LEMMA CacheLeft ==
    ASSUME NEW worlds, AnswersOK(worlds), UNCHANGED <<head, history, cache>>
    PROVE  CacheRight'
<1>1. \A rev \in 0..head : World(rev)' = World(rev)
  BY DEF World
<1>2. head' \in Nat /\ head <= head'
  BY HeadTypes DEF AnswersOK, ServiceInv
<1> QED
  BY <1>1, <1>2, OldEntries DEF AnswersOK, ServiceInv, AnswersInv

----------------------------------------------------------------------------
(* The arrival of a request.                                               *)

LEMMA ReceiveCheckAsks ==
    ASSUME TokensKept, QueriesKnown, ServiceInv, Durable => Fresh,
           NEW c \in Calls, ReceiveCheck(c)
    PROVE  /\ call'[c].phase = "resolve"
           /\ call'[c].memo = Empty
           /\ call'[c].request.key \in Keys
           /\ call'[c].request.subject \in Subjects
           /\ call'[c].request.token <= head
<1>1. PICK query \in Queries, consistency \in Consistencies :
        Begin(c, [key |-> query.key, subject |-> query.subject, revision |-> 0,
                  consistency |-> consistency,
                  token |-> IF consistency = "at_least_as_fresh" THEN seen[c] ELSE 0])
  BY DEF ReceiveCheck
<1> DEFINE token == IF consistency = "at_least_as_fresh" THEN seen[c] ELSE 0
           request == [key |-> query.key, subject |-> query.subject, revision |-> 0,
                       consistency |-> consistency, token |-> token]
           f == [IdleCall EXCEPT !.phase = "resolve", !.request = request]
<1>2. token <= head
  <2>1. head \in Nat
    BY HeadTypes DEF ServiceInv
  <2>2. CASE Durable
    BY <2>1, <2>2 DEF Fresh, SessionFresh
  <2>3. CASE ~ Durable
    BY <2>1, <2>3 DEF TokensKept
  <2> QED
    BY <2>2, <2>3
<1> HIDE DEF token
<1>3. /\ request.key \in Keys /\ request.subject \in Subjects
      /\ request.token <= head
  BY <1>2 DEF QueriesKnown
<1>4. call' = [call EXCEPT ![c] = f]
  BY <1>1 DEF Begin, Becomes, token
<1> HIDE DEF request
<1>5. f.phase = "resolve" /\ f.memo = Empty /\ f.request = request
  BY DEF IdleCall
<1> HIDE DEF f
<1>6. call'[c] = f
  BY <1>4 DEF ServiceInv, CallsOK
<1> QED
  BY <1>3, <1>5, <1>6

LEMMA ReceiveCheckAnswers ==
    ASSUME NEW worlds, AnswersOK(worlds), TokensKept, QueriesKnown,
           NEW c \in Calls, ReceiveCheck(c)
    PROVE  AnswersInv(worlds)'
<1>1. ServiceInv /\ (Durable => Fresh)
  BY DEF AnswersOK
<1>2. /\ call' = [call EXCEPT ![c] = call'[c]]
      /\ began' = [began EXCEPT ![c] = head]
      /\ UNCHANGED <<head, history, cache>>
  BY <1>1, ReceiveCheckFields DEF ServiceInv, CallsOK
<1>3. /\ call'[c].phase = "resolve" /\ call'[c].memo = Empty
      /\ call'[c].request.key \in Keys /\ call'[c].request.subject \in Subjects
      /\ call'[c].request.token <= head
  BY <1>1, ReceiveCheckAsks
<1>4. began'[c] = head /\ head \in Nat
  BY <1>1, <1>2, HeadTypes DEF ServiceInv
<1>5. Windowed(c)'
  BY <1>2, <1>3, <1>4 DEF Windowed, HasSnapshot, Deciding
<1>6. CallRight(World(call[c].revision), call[c])'
  BY <1>3 DEF CallRight, HasSnapshot, Deciding
<1>7. CacheRight'
  BY <1>2, CacheLeft
<1> QED
  BY <1>2, <1>4, <1>5, <1>6, <1>7, OneCallAnswers

----------------------------------------------------------------------------
(* A step of a check.                                                      *)

LEMMA StepWindowed ==
    ASSUME NEW worlds, AnswersOK(worlds), NEW c \in Calls, Step(c)
    PROVE  Windowed(c)'
<1> DEFINE e == call[c]
           f == call'[c]
<1>1. StepRevision(e, f) /\ UNCHANGED <<head, began>>
  BY EngineStepCorrect
     DEF AnswersOK, ServiceInv, Step, Stepped, storeVars, clientVars
<1>2. /\ began[c] \in Nat /\ head \in Nat /\ e.request.token \in Nat
      /\ e.request.revision = 0 /\ Windowed(c)
  BY RevisionTypes DEF AnswersOK, AnswersInv
<1>3. CASE e.phase = "resolve" /\ f.request = e.request
             /\ f.revision = SnapshotFor(e.request)
  <2>1. f.revision = head
    BY <1>2, <1>3 DEF SnapshotFor, Windowed
  <2> QED
    BY <1>1, <1>2, <1>3, <2>1 DEF Windowed
<1>4. CASE e.phase \in Deciding /\ Keeps(e, f)
  BY <1>1, <1>2, <1>4 DEF Windowed, Deciding, HasSnapshot, Keeps
<1>5. CASE e.phase # "idle" /\ f.phase = "done" /\ f.error # "none"
             /\ f.request = NoRequest
  BY <1>1, <1>2, <1>5, IdleFields DEF Windowed, Deciding, HasSnapshot
<1> QED
  BY <1>1, <1>3, <1>4, <1>5 DEF StepRevision

(* No token is ahead of the head: the snapshot of every check is the head. *)
LEMMA StepAnswers ==
    ASSUME NEW worlds, AnswersOK(worlds), Interpreted(worlds), NEW c \in Calls, Step(c)
    PROVE  AnswersInv(worlds)'
<1> DEFINE e == call[c]
<1>1. /\ EngineStep(c)
      /\ UNCHANGED <<head, history, began>>
      /\ call' = [call EXCEPT ![c] = call'[c]]
  BY EngineStepCorrect
     DEF AnswersOK, ServiceInv, Step, Stepped, storeVars, clientVars
<1>2. CallRight(World(call[c].revision), call[c])' /\ CacheRight'
  <2>1. /\ head \in Nat /\ began[c] \in Nat /\ e.revision \in Nat
        /\ e.request.token \in Nat /\ e.request.revision = 0
        /\ Windowed(c) /\ CallRight(World(e.revision), e)
    BY RevisionTypes DEF AnswersOK, AnswersInv
  <2>2. e.phase \in Deciding => e.revision \in 0..head
    BY <2>1 DEF Windowed, HasSnapshot
  <2>3. SnapshotFor(e.request) \in 0..head
    BY <2>1 DEF SnapshotFor, Windowed
  <2> QED
    BY <1>1, <2>1, <2>2, <2>3, CheckStepRight DEF AnswersOK, ServiceInv, AnswersInv
<1>3. began' = [began EXCEPT ![c] = began'[c]]
  BY <1>1 DEF AnswersOK, ServiceInv
<1>4. Windowed(c)'
  BY StepWindowed
<1> QED
  BY <1>1, <1>2, <1>3, <1>4, OneCallAnswers

----------------------------------------------------------------------------
(* Responses, writes and restarts.                                         *)

LEMMA RespondAnswers ==
    ASSUME NEW worlds, AnswersOK(worlds), NEW c \in Calls, Respond(c)
    PROVE  AnswersInv(worlds)'
<1>1. /\ call' = [call EXCEPT ![c] = IdleCall]
      /\ UNCHANGED <<head, history, cache>>
      /\ began' = [began EXCEPT ![c] = 0]
  BY DEF Respond, storeVars
<1>2. call'[c] = IdleCall /\ began'[c] = 0 /\ head' \in Nat
  BY <1>1, HeadTypes DEF AnswersOK, ServiceInv, CallsOK
<1>3. Windowed(c)'
  BY <1>2, IdleFields DEF Windowed, HasSnapshot, Deciding
<1>4. CallRight(World(call[c].revision), call[c])'
  BY <1>2, IdleRight
<1>5. CacheRight'
  BY <1>1, CacheLeft
<1> QED
  BY <1>1, <1>2, <1>3, <1>4, <1>5, OneCallAnswers

LEMMA ReceiveWriteAnswers ==
    ASSUME NEW worlds, AnswersOK(worlds), ClosedUnder(worlds, Writes),
           NEW c \in Calls, ReceiveWrite(c)
    PROVE  AnswersInv(worlds)'
<1>1. PICK write \in Writes : Commit(write.add, write.remove)
  BY DEF ReceiveWrite
<1>2. /\ StoreTypeOK /\ head \in Nat /\ head' = head + 1
      /\ call' = call /\ began' = began /\ cache' = cache
  BY HeadTypes, ReceiveWriteInv DEF AnswersOK, ServiceInv, ReceiveWrite, engineVars
<1>3. \A rev \in 0..head : World(rev)' = World(rev)
  BY <1>1, <1>2, CommitKeepsWorlds
<1>4. WorldsKnown(worlds)'
  BY <1>1, <1>2, CommitKnown DEF AnswersOK, AnswersInv
<1>5. head' \in Nat /\ head <= head'
  BY <1>2
<1>6. ASSUME NEW d \in Calls
      PROVE  Windowed(d)' /\ CallRight(World(call[d].revision), call[d])'
  BY <1>2, <1>3, <1>5, OtherCalls DEF AnswersOK, AnswersInv
<1>7. CacheRight'
  BY <1>2, <1>3, <1>5, OldEntries DEF AnswersOK, AnswersInv
<1> QED
  BY <1>4, <1>6, <1>7 DEF AnswersInv

LEMMA RestartAnswers ==
    ASSUME NEW worlds, AnswersOK(worlds), ClosedUnder(worlds, Writes), Restart
    PROVE  AnswersInv(worlds)'
<1>1. /\ cache' = Empty
      /\ call' = [c \in Calls |-> IdleCall]
  BY DEF Restart
<1>2. head' \in Nat /\ WorldsKnown(worlds)'
  <2>1. CASE Durable
    BY <2>1, HeadTypes
       DEF Restart, storeVars, AnswersOK, ServiceInv, AnswersInv, WorldsKnown
  <2>2. CASE ~ Durable
    <3>1. head' = 0 /\ history' = [rev \in {0} |-> {}]
      BY <2>2 DEF Restart
    <3>2. {} \in worlds
      BY DEF ClosedUnder
    <3>3. \A rev \in 0..head' : history'[rev] = {}
      BY <3>1
    <3> QED
      BY <3>1, <3>2, <3>3 DEF WorldsKnown
  <2> QED
    BY <2>1, <2>2
<1>3. ASSUME NEW c \in Calls
      PROVE  Windowed(c)' /\ CallRight(World(call[c].revision), call[c])'
  <2>1. call'[c] = IdleCall
    BY <1>1
  <2>2. Windowed(c)'
    BY <1>2, <2>1, IdleFields DEF Windowed, HasSnapshot, Deciding
  <2> QED
    BY <2>1, <2>2, IdleRight
<1>4. CacheRight'
  BY <1>1 DEF CacheRight, Empty
<1> QED
  BY <1>2, <1>3, <1>4 DEF AnswersInv

LEMMA AnswersStep ==
    ASSUME NEW worlds, Interpreted(worlds), ClosedUnder(worlds, Writes),
           QueriesKnown, TokensKept, AnswersOK(worlds), [Next]_vars
    PROVE  AnswersInv(worlds)'
<1>1. ASSUME NEW c \in Calls,
             ReceiveCheck(c) \/ Step(c) \/ Respond(c) \/ ReceiveWrite(c)
      PROVE  AnswersInv(worlds)'
  BY <1>1, ReceiveCheckAnswers, StepAnswers, RespondAnswers, ReceiveWriteAnswers
<1>2. CASE Restart
  BY <1>2, RestartAnswers
<1>3. CASE UNCHANGED vars
  BY <1>3
     DEF vars, AnswersOK, AnswersInv, WorldsKnown, Windowed, CacheRight, World
<1> QED
  BY <1>1, <1>2, <1>3 DEF Next

(* In every reachable state each pending call waits for a value that       *)
(* decides its subproblem, every answer is right about the world of its    *)
(* snapshot, and every entry of the cache about the world of its revision. *)
THEOREM AnswersInvariance ==
    ASSUME NEW worlds, Interpreted(worlds), ClosedUnder(worlds, Writes),
           QueriesKnown, TokensKept
    PROVE  Spec => []AnswersOK(worlds)
<1>1. Spec => [](Durable => Fresh)
  <2>1. CASE Durable
    <3>1. Spec => []Fresh
      BY <2>1, FreshInvariance
    <3>2. Fresh => (Durable => Fresh)
      OBVIOUS
    <3> QED
      BY <3>1, <3>2, PTL
  <2>2. CASE ~ Durable
    <3>1. Durable => Fresh
      BY <2>2
    <3> QED
      BY <3>1, PTL
  <2> QED
    BY <2>1, <2>2
<1>2. Init => AnswersInv(worlds)
  BY AnswersInit
<1>3. ServiceInv /\ (Durable => Fresh) /\ AnswersInv(worlds) /\ [Next]_vars
        => AnswersInv(worlds)'
  BY AnswersStep DEF AnswersOK
<1>4. ServiceInv /\ (Durable => Fresh) /\ AnswersInv(worlds) => AnswersOK(worlds)
  BY DEF AnswersOK
<1> QED
  BY <1>1, <1>2, <1>3, <1>4, ServiceInvariance, PTL DEF Spec

----------------------------------------------------------------------------
(* What that says of an answer and of an entry.                            *)

LEMMA AnswerIs ==
    ASSUME NEW worlds, AnswersOK(worlds), Interpreted(worlds),
           NEW c \in Calls, Answered(c)
    PROVE  LET e == call[c]
               w == World(e.revision)
           IN /\ e.revision \in began[c]..head
              /\ e.request.key \in Keys
              /\ e.value \in BOOLEAN /\ Truth(e.request, e.revision) \in BOOLEAN
              /\ e.value => Truth(e.request, e.revision)
              /\ Ranked(w, e.request.key) => (e.value <=> Truth(e.request, e.revision))
              /\ w \in worlds
<1> DEFINE e == call[c]
           u == e.request.subject
           key == e.request.key
           w == World(e.revision)
<1>1. /\ Windowed(c) /\ CallRight(w, e) /\ HasSnapshot(e)
      /\ e.phase = "done" /\ e.error = "none"
  BY DEF AnswersOK, AnswersInv, HasSnapshot, Answered
<1>2. /\ e.revision \in Nat /\ began[c] \in Nat /\ head \in Nat
      /\ e.value \in BOOLEAN
  BY RevisionTypes, CallTypes DEF AnswersOK, ServiceInv, EvalBase
<1>3. e.revision \in began[c]..head /\ e.revision \in 0..head
  BY <1>1, <1>2 DEF Windowed
<1>4. key \in Keys /\ u \in Subjects /\ Right(w, u, key, e.value)
  BY <1>1 DEF CallRight
<1>5. w \in worlds
  BY <1>3, WorldKnown DEF AnswersOK, ServiceInv, AnswersInv
<1>6. Holds(w, key, u) \in BOOLEAN
  BY <1>4, <1>5 DEF Interpreted, Explained, HoldsClosed
<1> QED
  BY <1>2, <1>3, <1>4, <1>5, <1>6 DEF Right, Truth

LEMMA EntryIs ==
    ASSUME NEW worlds, AnswersOK(worlds), Interpreted(worlds), NEW k \in DOMAIN cache
    PROVE  LET w == World(k.revision)
               truth == Holds(w, KeyOfEntry(k), k.subject)
           IN /\ k.revision <= head
              /\ KeyOfEntry(k) \in Keys
              /\ cache[k] \in BOOLEAN /\ truth \in BOOLEAN
              /\ cache[k] => truth
              /\ Ranked(w, KeyOfEntry(k)) => (cache[k] <=> truth)
              /\ w \in worlds
<1> DEFINE w == World(k.revision)
           truth == Holds(w, KeyOfEntry(k), k.subject)
<1>1. k.revision <= head /\ EntryRight(w, k, cache[k])
  BY DEF AnswersOK, AnswersInv, CacheRight
<1>2. k.revision \in 0..head
  BY <1>1, HeadTypes DEF EntryRight, AnswersOK, ServiceInv
<1>3. w \in worlds
  BY <1>2, WorldKnown DEF AnswersOK, ServiceInv, AnswersInv
<1>4. truth \in BOOLEAN
  BY <1>1, <1>3 DEF EntryRight, Interpreted, Explained, HoldsClosed
<1>5. cache[k] \in BOOLEAN
  BY DEF AnswersOK, ServiceInv, CallsOK, Decisions
<1> QED
  BY <1>1, <1>3, <1>4, <1>5 DEF EntryRight, Right

----------------------------------------------------------------------------
(* The theorems.                                                           *)

(* The engine fails closed, whatever cycles the data has, as long as what  *)
(* is subtracted leads into none: an answer that allows, or a cached one,  *)
(* is a grant of its revision, and an error never allows.                  *)
THEOREM GrantsCorrect ==
    ASSUME NEW worlds, Interpreted(worlds), ClosedUnder(worlds, Writes),
           QueriesKnown, TokensKept
    PROVE  Spec => []GrantsTrue
<1>1. ASSUME AnswersOK(worlds)
      PROVE  GrantsTrue
  <2>1. ASSUME NEW c \in Calls, call[c].phase = "done", call[c].value
        PROVE  call[c].error = "none" /\ Truth(call[c].request, call[c].revision)
    <3>1. CallRight(World(call[c].revision), call[c])
      BY <1>1 DEF AnswersOK, AnswersInv
    <3>2. call[c].error = "none"
      BY <2>1, <3>1 DEF CallRight
    <3>3. Answered(c)
      BY <2>1, <3>2 DEF Answered
    <3> QED
      BY <1>1, <2>1, <3>2, <3>3, AnswerIs
  <2>2. ASSUME NEW k \in DOMAIN cache, cache[k]
        PROVE  Holds(World(k.revision), KeyOfEntry(k), k.subject)
    BY <1>1, <2>2, EntryIs
  <2> QED
    BY <2>1, <2>2 DEF GrantsTrue
<1> QED
  BY <1>1, AnswersInvariance, PTL

(* Of a subproblem that no cycle can be reached from, every answer and     *)
(* every entry of the cache is the truth, whatever pending subproblems the *)
(* visited set has cut elsewhere while it was computed or memoised.        *)
THEOREM RankedCorrect ==
    ASSUME NEW worlds, Interpreted(worlds), ClosedUnder(worlds, Writes),
           QueriesKnown, TokensKept
    PROVE  Spec => []RankedExact
<1>1. ASSUME AnswersOK(worlds)
      PROVE  RankedExact
  <2>1. ASSUME NEW c \in Calls, Answered(c),
               Ranked(World(call[c].revision), call[c].request.key)
        PROVE  call[c].value = Truth(call[c].request, call[c].revision)
    BY <1>1, <2>1, AnswerIs
  <2>2. ASSUME NEW k \in DOMAIN cache, Ranked(World(k.revision), KeyOfEntry(k))
        PROVE  cache[k] = Holds(World(k.revision), KeyOfEntry(k), k.subject)
    BY <1>1, <2>2, EntryIs
  <2> QED
    BY <2>1, <2>2 DEF RankedExact
<1> QED
  BY <1>1, AnswersInvariance, PTL

(* Where no cycle can be written, every answer is the truth of one         *)
(* revision, which was the head between the arrival of the request and the *)
(* answer, however checks, writes and restarts interleave.                 *)
THEOREM AnswersCorrect ==
    ASSUME NEW worlds, Interpreted(worlds), ClosedUnder(worlds, Writes),
           QueriesKnown, TokensKept,
           \A world \in worlds : Acyclic(world)
    PROVE  Spec => []AnswersLinearize
<1>1. ASSUME AnswersOK(worlds)
      PROVE  AnswersLinearize
  <2>1. ASSUME NEW c \in Calls, Answered(c)
        PROVE  /\ call[c].revision \in began[c]..head
               /\ call[c].value = Truth(call[c].request, call[c].revision)
    BY <1>1, <2>1, AnswerIs DEF Acyclic
  <2> QED
    BY <2>1 DEF AnswersLinearize
<1> QED
  BY <1>1, AnswersInvariance, PTL

(* Where no cycle can be written, the cache holds the truth of revisions   *)
(* that exist, and nothing else, however many checks fill it at once.      *)
THEOREM CacheCorrect ==
    ASSUME NEW worlds, Interpreted(worlds), ClosedUnder(worlds, Writes),
           QueriesKnown, TokensKept,
           \A world \in worlds : Acyclic(world)
    PROVE  Spec => []CacheSound
<1>1. ASSUME AnswersOK(worlds)
      PROVE  CacheSound
  <2>1. ASSUME NEW k \in DOMAIN cache
        PROVE  /\ k.revision <= head
               /\ cache[k] = Holds(World(k.revision), KeyOfEntry(k), k.subject)
    BY <1>1, <2>1, EntryIs DEF Acyclic
  <2>2. cache = [k \in DOMAIN cache |-> cache[k]]
    BY <1>1 DEF AnswersOK, AnswersInv, CacheRight
  <2> QED
    BY <2>1, <2>2 DEF CacheSound
<1> QED
  BY <1>1, AnswersInvariance, PTL

=============================================================================
