# zanzo: specifications and proofs

zanzo answers "may this subject perform this relation on this object?" over a
versioned store of relationship tuples, in the manner of Zanzibar. These modules
specify its stores, its check engine and the service around them. TLC checks
them on small instances; TLAPS proves what can be proved for all instances.

## The system

| part | source | state it keeps | operations |
| --- | --- | --- | --- |
| tuples, `Store` interface | `internal/storage/storage.go` | a sequence of revisions | `Write`, `Read`, `ReadBySubject`, `Head` |
| in-process store `Memory` | `internal/storage/storage.go` | `head`, `rows`, `index`, `reverse` behind a mutex | the same |
| Postgres store | `internal/storage/postgres.go` | tables `revisions` and `tuples` | the same, one transaction for each write |
| schema | `internal/schema/schema.go` | types, relations, rewrites; constant after start | `Lookup` |
| schema parser | `internal/schema/parse.go` | none | `Parse` |
| reverse analysis | `internal/schema/reverse.go` | none | `Contributors`, `WalksInto` |
| check engine | `internal/check/check.go` | per check: memo, visited set, revision | `Check`, with `check` and `eval` in mutual recursion |
| cache | `internal/check/cache.go` | `entries`, shared by all checks | `Get`, `Set` |
| expand | `internal/check/expand.go` | per call: visited set | `Expand` |
| list objects | `internal/check/listobjects.go` | per call: frontier, seen set | `ListObjects` |
| HTTP API | `internal/api/api.go` | none; clients hold tokens | check, write, expand, list objects, health |
| process | `cmd/zanzo/main.go` | one store, one cache, statistics | start, drain, stop |

A request arrives over HTTP and runs in a goroutine of its own. A write is one
call of `Store.Write`, which makes one new revision, and its response carries a
token that names it. A check resolves a revision once (`Store.Head`, or the
token), then reads only at that revision, recursing through rewrites and
usersets, and looks up and fills a memo of its own and the cache of the process.
Its response carries the revision as a token. Checks never wait for each other;
they meet in the store and in the cache.

What is hard about it:

* checks interleave with writes and with each other at every read and at every
  access to the cache, and answers must still be of one moment;
* the data, and the schema, may be cyclic: the engine cuts cycles with a false
  whose meaning depends on what is pending;
* cached answers must stay true, although nothing is ever invalidated;
* rows are updated in place, but the past must not change;
* a client's tokens survive what the server forgets;
* any call of the store may fail, and any request may be cancelled, half way.

`PROJECT.json` lists these at their lines under `hazards`.

What makes each part correct, in one line each: a store is a sequence of
revisions, each of them its predecessor with one write applied, and a read of a
revision is a read of that set. A check tells the truth of one revision between
its start and its end, and it ends. A cache entry is the truth of its revision.
A client never goes back in time. `Expand` draws what `Check` decides on;
`ListObjects` lists exactly the objects that `Check` allows; `Parse` builds the
tree that the grammar means.

## The modules

| module | models | how it corresponds |
| --- | --- | --- |
| `Relationships` | objects, subjects, tuples, rewrites, `Lookup` | records for the structs; a schema is a function of types to functions of relations to rewrites |
| `VersionedStore` | the promise of `Store` | `history[rev]` is the set of live tuples; `Commit` is `Write`; `Read`, `ReadBySubject` are the queries |
| `MemoryStore` | type `Memory` | the four fields, and the program counter, arguments and loop position of the `Write` that holds the mutex |
| `MemoryStoreProofs` | | the theorems about `MemoryStore` |
| `Engine` | type `Engine` | the schema and the depth limit, which checks, lists and trees share |
| `CheckEngine` | `Engine.Check`, `check`, `eval`, `RevisionKeyed` | the pending calls of a check are a stack of frames; one action for each way through `check` and each case of `eval` |
| `CheckEngineProofs` | | what one step of one check preserves: the nesting of its calls, and, above any cache, claims about values on their way up the stack |
| `Semantics` | | what schemas and tuples mean, computed independently of the engine |
| `Meaning` | | the same as equations, over `Holds`, `Satisfied`, `Ranked` and the like as constants |
| `Service` | handlers, process, clients | checks, writes, answers and restarts, over `CheckEngine` over `VersionedStore` |
| `ServiceProofs` | | the theorems about `Service`: first those that hold whatever `Holds` is, then those about what its answers and its cache say |
| `PostgresStore` | type `Postgres` | the two tables, the sequence, and the transaction of each connection, statement by statement |
| `PostgresStoreProofs` | | the theorems about `PostgresStore` |
| `SchemaReverse` | `Contributors`, `WalksInto` | operators on schemas |
| `ListObjects` | `Engine.ListObjects`, `candidates`, `handleListObjects` | the walk one tuple at a time, and a check of `CheckEngine` for each candidate; the reverse analysis comes in as constants |
| `ReverseMeaning` | | what a walk has to reach, said of the data without a queue; what the reverse analysis must get right for that to be all |
| `ListProofs` | | the theorems about the requests, checks and pages of `ListObjects` |
| `WalkProofs` | | the theorems about its walk, and that lists are exact |
| `ExpandTree` | `Engine.Expand`, `expand`, `expandRewrite`, `handleExpand` | one operator for each of the two functions, over constants for what they call, and the request around them |
| `TreeMeaning` | | what data and schema must be for trees to decide, and how the constants of `ExpandTree` are tied to its operators |
| `ExpandProofs` | | the theorems about trees |
| `SchemaParser` | `Parse` and its descent, `validate` | one operator for each function of the parser, from tokens to a schema |
| `Naming` | `ParseObject`, `ParseSubject`, `String`, `key` | operators on sequences of letters |
| `Texts` | | texts that grow, and what the parsers of names promise of them |
| `NamingProofs` | | the theorems about names |
| `Parsers` | | what the schema parser promises, over all texts up to a bound |

The modules that begin with `MC` are the instances; `MCMeaning` solves the
equations of `Meaning` with the operators of `Semantics`.

**Store.** `Write` is one action in `VersionedStore` and many in `MemoryStore`
(`BeginWrite`, a `RemoveOne` for each removal, `RemovesDone`, an `AddRow` or
`AddDuplicate` for each addition, `EndWrite`), so that what a whole write does is
a result about its loops and not an assumption. The mutex makes the passes
invisible to readers: they read only when `Readable`. `MemoryStore` implements
`VersionedStore` under the mapping `Abstract`, in which a revision that is being
written does not exist yet; `EndWrite` maps to `Commit` and everything else to a
stutter. That result is what lets the engine be specified above `VersionedStore`.

The store knows a relation of an object by a text, `Key`, which joins type,
identifier and relation with `:` and `#`. Nothing keeps a `#` out of an identifier,
nor out of the relation of a tuple that is written: the handler refuses only the empty one,
and no write is held against the schema. So `old#viewer` of `document:readme` and
`viewer` of `document:readme#old` share a key, and as `Write` compares the subject of a row
and nothing else of it, such tuples are one to it: adding the second does nothing
while the first is live, removing either removes what is there, and a read of one
relation returns what was written for the other. What `Write` cannot tell apart is an
`Entry`, and the properties of `MemoryStore` are about entries. Where every
relation has a key of its own (`OwnsKey`), entries are tuples (`EntriesAreTuples`), and this is
the store that the engine is specified above. `Names` below says which relations
share a key: none that a schema can have. Postgres keeps type, identifier and
relation in columns of their own, and has no such case. The reverse index is keyed
by rendered subjects, which `SubjectsRoundTrip` keeps apart.

**Engine.** `check` and `eval` call each other. `call[c]` is the evaluation of
client `c`: its request and revision, the stack of pending calls, the memo, and
what it does next (`phase`): `check` a goal, `eval` a rewrite, continue the `loop`
of the top frame, or `return` a value to it. A frame is `check` (waiting for
`eval`), `members` (the loops over stored tuples), `union`, `intersection`,
`base` or `subtract` (the two halves of an exclusion). The visited set is not a
variable: `visiting` holds exactly the keys of the pending `check` calls (set on
entry, deleted by `defer`), which is `Visiting`. An error unwinds the whole stack
in one step, since every caller returns it at once. Rows come back in any
order. Every step touches the store or the cache at most once, so the
interleavings are those of the code. `Result`'s counters are left out.

**Service.** A client sends a check or a write when it has no check pending, keeps
the newest token it was given (`seen`) and presents it with `at_least_as_fresh`.
`Restart` discards cache and calls in flight; `Durable` says whether the store
survives. `began` is a history variable: the head when a check arrived.
A write is atomic here, by the refinement above.

**Postgres.** `Write` is a transaction: `BeginWrite` allocates the revision (the
sequence, which is never rolled back), each removal is a `ScanRemoval`, where the
UPDATE takes its snapshot, and a `Remove`, where it has the row locks; each
addition is an `AddRow` or an `AddConflict`; `CommitWrite` makes all of it
visible. `Fail` is the deferred `Rollback`, and stands for a failed statement, a
cancelled request and a lost connection alike. A lost reply to the commit is a
`CommitWrite` after which the caller writes again. What the database does with
the statements (waits on row locks and on entries of the unique index,
READ COMMITTED, deadlock victims) is modelled from its documentation and marked
external in `PROJECT.json`. `met` is a history variable that tells which open
transactions have ever been open next to another.

**Lists.** `list[c]` is the request that a handler is working on: the queue of
subjects, the tuples of the one that is being visited, what was seen, the
candidates, and the page. While it verifies, `call[c]` is the check of the
current candidate, stepped by the actions of `CheckEngine`, so that a list runs
through the same cache as checks do. **Expand** draws a tree in one step: it
shares nothing, and reads at one revision only. `expand` and `expandRewrite` call each
other: here each is an operator over a constant for the other (`TreeOfKey`,
`TreeOfRewrite`), and `MCExpand` ties the knot by giving the constants the operators
themselves.

**Parsers.** A token is its text; the lexer is left out. Recursive descent is
translated function by function, with the position of the next token as part of
every result. `Texts` grows a text by one fragment in each step, so that every
text up to the bound is parsed, well-formed or not; `Parsers` holds the result
against a meaning that is read off the text: the operator applied last is the last loose
one outside all parentheses.

Every definition marked "Variant" is a plausible mistake in the definition below
it, used to confirm that a property would notice; no specification uses one.

## What is checked

| run | instance | bounds | shows |
| --- | --- | --- | --- |
| `memory_store` | four tuples, two of one relation, two whose relations differ and share a key | 3 revisions, lists of at most 2 | all of the store's properties, with the abstract store as a property |
| `service` | a document in a folder shared with a group, a ban on the group | 2 clients, 2 revisions, 2 consistency modes, durable store | answers are exact and of one moment, cache entries are true, tokens never go back |
| `groups_uncached` | two groups that contain each other, a union | 2 clients, 2 revisions, no cache, restarts lose the store | exact answers and termination in spite of cycles |
| `groups_cached` | the same groups, an intersection | 2 clients, 1 revision, cache, `MaxDepth` 3 | what is allowed is true, what leads into no cycle exact; depth is nesting |
| `cycle_deny` | the same, a union, one client | 1 revision, cache | refutes that every grant is found |
| `cycle_allow` | the same, an exclusion, one client | 2 revisions, no cache | refutes that every allow is true |
| `token_ahead` | as `service`, one client | 2 revisions, restarts lose the store | refutes that full checks are correct |
| `postgres` | grants, revocations and replacements of two tuples, in both orders | 2 connections, 4 revisions, failures anywhere | one live row, nothing of failed writes, settled revisions never change, lonely writes are exact, writes end |
| `lists` | documents in a shared folder, groups that contain each other and a chain of two more, a ban and its pardon, an editor | 1 list, 2 revisions, cache, `MaxDepth` 3, pages of 2 | lists are exactly what `Check` allows at one revision, short of no candidate; the walk misses nothing within its limit; lists end |
| `list_hides` | a folder in a folder, permissions computed on the way | 1 list, 1 revision | refutes that lists hide nothing |
| `expand` | a document, a folder and two groups, any of six relationships stored or not | 1 request, 2 revisions, `MaxDepth` 8 | trees decide what the semantics decides; cycles never exhaust the depth |
| `parsers` | seven kinds of fragments for expressions, nine for schemas, three for names | 7 fragments, 6 for whole schemas | expressions mean what they say, names resolve, nothing is overwritten, names survive, keys are shared only where two names hold a `#` |

*Store bounds.* Three revisions are what it takes to grant, revoke and grant one
tuple again. Lists of two contain a tuple twice, a tuple in both lists, two
tuples of one relation, and two that `Write` takes for one (`SomeKeysShared`). Reads are compared at every revision and one past the head.

*Service bounds.* Two revisions let a write land between any two reads of a check,
and let another client's check of the next revision fill the cache meanwhile.
In the first revision Mallory may see the secret through her group; in the second
she has left it, or the group is banned. The schema has every construct but
intersection, which `groups_cached` has. `MaxDepth` 3 is deep enough for all these
answers; in `groups_cached` the longest chain exceeds it, so that `DepthExceeded`
happens, and the one revision either has the cycle or has one group in the other
without a cycle, so that `RankedExact` has ranked subproblems of both. All queries, writes and consistency modes are enumerated sets, and
`minimize_latency` is left out as a third mode because it takes the branch of
`full`. Clients are symmetric and the runs with symmetry check no liveness.

*Postgres bounds.* Two connections are what races need; the third revision lets a
tuple be granted after it was granted and revoked, and the fourth lets that write
race with one more. Writes name both tuples in both orders, so that deadlocks
happen, and one names a tuple twice and in both lists.

*List bounds.* Lists see nothing (revision 0), the sharing, and what becomes of it
when the ban is pardoned, the membership ends or the editor is removed while they
run. The chain of groups
is deeper than `MaxDepth`, so that the walk stops short, and three documents are
one more than a page. The pardon is an exclusion inside the exclusion, so that what is
subtracted twice decides. *Expand:* every set of the six relationships is stored by
some write; a second write revokes everything while the tree is being drawn.
*Texts:* seven fragments are a chain of four operands, or two with parentheses
and two operators; six are two definitions with members.

`CHECK_DEADLOCK FALSE` is set where the bound on revisions, or all clients being
content, ends a behaviour.

The reference for answers is `Semantics`: a subproblem is true iff it is in the
well-founded model of the rewrites over the tuples, which is their least fixed
point when nothing is subtracted. It is computed by iteration and shares no
definition with the engine but the data. A subproblem is *ranked* in a world when
no chain of subproblems from it ends in a cycle (`Ranked`); `Rank` is the length of
the longest one.

*Properties.* `AnswersLinearize`: an answer is the truth of one revision that was
the head between arrival and answer. `CacheSound`: so is every cache entry, of its
own revision. `SessionsMonotone`: no client is given an older token than it has.
`GrantsTrue`: allow is never wrong, after errors neither. `RankedExact`: of a ranked
subproblem, answers and cache entries are exact, in data with cycles elsewhere. `DepthIsNesting`: the
depth is the number of distinct pending subproblems, so cycles never cause depth
errors. `ChecksTerminate`: a check that reaches the engine is answered.
`LifetimesDisjoint`: rows of one entry, so of one tuple, never overlap. `HistoryImmutable`: no step
changes what an earlier revision shows. `ReadsAgree`, `IndexesExact`,
`WriteProgress`, `WritesCommit` and `ImplementsStore` relate rows and indexes to
revisions of entries. `KeysDistinct`: two relations share a key only if they name one
type, the relation of one holds a `#`, and so does the identifier of the other.

`LiveUnique`, `OnlyCommitted`: no race leaves two live rows of a tuple, and no row
is of a write that did not commit. `SettledImmutable`: reads of a revision below
every open transaction never change. `WritesCommit` of `PostgresStore`: a write
that ran alone does exactly what `VersionedStore` says, whatever raced before it.
`ListExact`: a list is the first page, in order, of exactly the objects that are
allowed at one revision between arrival and answer. `PageExact` says the part of it
that does not rest on the walk: whatever the candidates, the page is of one
revision, in order, all allowed, and short of no ranked candidate that is allowed
unless it is full of earlier ones; a failed check fails the list. `WalkComplete` says
what the walk owes: all that can be reached from the subject within `MaxDepth` + 1
steps, in whatever order the store returns tuples, has its object among the
candidates. `TypeOK` of `ListObjects` adds that the walk is of one revision: what it
follows, has seen and proposes is of the tuples there. `TreesDecide`: reading a tree
decides what the semantics decides, of every subject, also where a cycle is cut
under an exclusion.

*Fairness.* `Service` assumes weak fairness of each check's steps and of its
response: a goroutine that can run does so eventually and the handler then writes
its answer. Nothing else is fair: no client need send anything, no write or
restart need happen, and errors are never obliged to. `ChecksTerminate` does not
lean on errors as a way out: without a restart, every fair choice of steps
reaches an answer or an error. `ListObjects` is fair in the same way to the steps
of each list. `PostgresStore` is strongly fair to the steps of a connection, for
the lock queues of the database are first come, first served, and weakly fair to
the detection of deadlocks; a failure is never obliged to happen, so `WritesEnd`
does not live off failures other than deadlock victims.

## What the runs refute

* **`cycle_allow`.** `check` cuts a cycle by answering false for a subproblem that
  is pending, and memoises everything that was computed from that false. The
  comment on the cut calls it sound, and for the pending subproblem it is. But
  the subproblems in between are recorded as denied although they may be granted.
  When the document is `viewer - banned`, where `viewer` leads through group a to
  group b and `banned` asks group b, the recorded denial is subtracted: a banned
  subject is allowed. One check and no cache suffice.
* **`cycle_deny`.** With the cache, the same denial outlives the check that
  computed it: a check of group b at that revision is denied, against the test's
  own "must still find a grant that exists outside the cycle".
* **`token_ahead`.** A token ahead of the head is honoured by reading at it, and by
  caching under it. The store answers with what it has. Once the revision really
  is written, even a `full` check at it is served from those entries. The run gets
  there by restarting the in-process store, after which revisions count from 1
  again while clients hold tokens of the former store.

* **`list_hides`.** The walk from a subject to objects asks `WalksInto` for the
  relation of the tuple it has reached (`folder:root#viewer`), and never for the
  permission which that relation makes true of the same object
  (`folder:root#view`). Where a schema inherits a computed permission along a
  chain, `parent->view` of a folder in a folder, the document at its end is
  allowed by `Check` and hidden from the list, against "`ListObjects` and `Check`
  must never disagree". The schema of `lists`, which is that of the tests,
  inherits a stored relation; there the lists are exact.

`groups_uncached` and `groups_cached` state what remains true next to these:
without a cache and without reuse of a subproblem that is decided on the way,
answers are exact; and as long as nothing is subtracted, an allow is always true.

**What Postgres does not promise.** `SettledImmutable` says "settled" for a reason:
`Head` is the largest committed revision, and a lower one may still be open,
since a revision is allocated when its transaction begins. A snapshot read at
the head then changes when the lower one commits; and a removal does not see a
row that an open lower revision has inserted, so that the row it was to remove is
visible at its own revision. Without `IsSettled`, or without `w \notin met` in
`WritesCommit`, TLC refutes either property with two writes. `Service` and its theorems rest on
`VersionedStore`, so with concurrent writers they speak of the in-process store;
of Postgres they speak as far as writes do not overlap (`SerialImplements`).

## What is proved

**The store.** `MemoryStoreProofs`, for any set of tuples and any bounds. The assumptions are
that `MaxRevision` and `MaxBatch` are naturals and that a tuple is a record of its
three parts. No key need be anybody's own.

The argument rests on one inductive invariant, `IInv`: the type invariant with
`IndexesExact`, `LifetimesDisjoint` and what the loops have done so far. None of
the last three is inductive alone. That a re-granted tuple has no live row is
known to `AddRow` only through the index, hence `IndexesExact`; that the row it
adds does not overlap older ones needs that those died no later than this
revision, hence the types and `WriteProgress`'s remark that no row of the revision
being written exists while removals run; and that a removal empties the row set
of an entry needs `LifetimesDisjoint`, which leaves at most one live row of it.

* `Invariance`: `Spec => []IInv`; from it `TypeCorrect`, `IndexesCorrect`,
  `LifetimesCorrect`, `ProgressCorrect`.
* `ReadsCorrect`: reads through either index return the abstract revision, entry
  for entry, and exactly its tuples where a relation owns its key.
* `PastIsImmutable`, `WritesCorrect`: what a step, and what a whole write, does
  to the visible history.
* `StoreImplemented`: `Spec => Abstract!StoreSpec`, the abstract store being one of
  entries; `EntriesAreTuples`: if every relation owns its key, of tuples.

**The engine and the service.** `CheckEngineProofs` and `ServiceProofs`, for any
schema (cyclic or not), queries, number of clients, writes, depth limit, with or
without a cache, and whatever `Holds` is. The assumptions are that `MaxDepth` is
positive, `Caching` a Boolean, and writes add members of `Tuples`.

* `EngineStepCorrect`: each step of a check keeps the invariant `EvalInv` of its
  evaluation, and either resolves its revision, keeps it, or fails. The heart of
  `EvalInv` is `StackInv`: every pending `check` is nested in exactly `depth` other
  pending subproblems, none of them its own, and a loop in one more. It is stated
  frame by frame (`NestedAt`), since the set of pending subproblems that a property
  speaks of is of the whole stack, and a push or a pop must not disturb what is
  known of the frames below. `DepthIsNesting` alone is not inductive: it is silent
  on the depth of pending loops, from which the next goal takes its own.
* `ServiceInvariance`, `ServiceTypeCorrect`, `DepthCorrect`: `TypeOK` and
  `DepthIsNesting` in every reachable state, restarts included. It follows that a
  cycle in the data or in the schema cannot exhaust the depth: `CutCycle` comes
  first.
* `FreshInvariance`, `AnswersFresh`, `SessionsCorrect`, all for a `Durable` store:
  `seen[c] <= began[c] <= revision <= head` as far as a check has got, and no token
  is ahead of the head. Hence answers are of a revision between arrival and
  answer, and `SessionsMonotone`. `Durable` cannot be dropped: `token_ahead` shows
  what happens without it.

**Postgres.** `PostgresStoreProofs`, for any tuples, writes, bounds and number of
connections. The assumptions are that `MaxRevision` is a natural, that a tuple is a
record of its three parts, and that writes are lists of tuples.

`IInv` adds to `TypeOK` and `OnlyCommitted` that a tuple has one live row
(`OneLive`), what each transaction owns (`Owns`) and that two of them are `Apart`.
`OneLive` is not inductive: that an INSERT which neither waits nor conflicts adds
the only live row is known at its commit only if, meanwhile, no other transaction
has inserted the tuple (`Apart`) and every live row of it is one that this
transaction has deleted (`Owns`), and those stay live until the commit because
nobody else can hold them. A step that leaves the tables alone is dealt with once
(`QuietStep`); the commit is the case that needs all of it.

* `PostgresInvariance`; from it `PostgresTypeCorrect`, `CommittedCorrect`,
  `LiveUniqueCorrect`.
* `SettledCorrect`: `Spec => SettledImmutable`. A commit of a higher revision turns
  live rows into rows deleted at that revision, which are visible below it as
  before, and adds rows created there, which are not.
* `LonelyInvariance`, `LonelyWritesCorrect`: `Spec => WritesCommit`. `IInv` says
  what locks give a transaction, not what it has done with them. `LonelyInv` adds
  that two open transactions have both met, so that one that has not is the only
  one and nothing is committed under it; that it therefore holds the newest
  revision; and what it has `Done` at each statement: the live rows it has left
  are those of the start without the removals behind it, and together with its
  insertions they make up the additions behind it too. A conflict of an INSERT and
  an UPDATE that finds nothing are the cases in which it has done nothing and that
  is right.
* `ReadersCorrect`: `Read` and `ReadBySubject` of the k-th committed revision
  return the k-th abstract one, and `Head` is the newest. Revisions are committed in
  any order and with gaps, so that there is a k-th for each k up to their number is
  an invariant of its own (`Counts`): a late commit is inserted below others
  (`CountsInsert`).
* `SerialImplements`: `Spec /\ [](met = {}) => Abstract!StoreSpec`. A behaviour in
  which no two writes are ever open at once, for example of a single connection,
  implements `VersionedStore`, with failed writes, repeated writes and gaps.

**Answers.** The second parts of `CheckEngineProofs` and `ServiceProofs` are about what
the engine says. `Holds` is a constant there, of which nothing is known but equations:
what a rewrite grants follows from what its parts and the subproblems it asks about
grant (`Compositional`), what is granted holds (`HoldsClosed`), and a ranked
subproblem asks only about subproblems of lower rank and holds only if it is
granted (`RankedGrounded`). The fourth, `SubtractsSettled`, is a condition on data
and schema: what an exclusion subtracts leads into no cycle. The theorems suppose a
set of worlds that has the empty one and is closed under the writes
(`ClosedUnder`), in all of which the equations hold (`Interpreted`), and queries
about subproblems and subjects that the equations speak of (`QueriesKnown`,
`RequestsKnown`). These are not left as hopes: `ASSUME`s in `MCService`, `MCGroups`
and `MCLists` have TLC evaluate them for the worlds of each run, where `Semantics`
solves the equations. `MCGroups` also evaluates that some of its worlds are
cyclic, and that `SubtractsSettled` is what the schema of `cycle_allow` lacks.

That every allow is true is not inductive: in the middle of a check there is no
answer yet, and under an exclusion a denial must be exact. What is inductive is
that each frame of the stack waits for a value that meets a *claim*, and that the
next steps produce one. A claim says which truth the value is about, whether it
must be exact (`sure`), and the rank below which it is (`rank`). A frame turns the
claim on its own value into a claim on the one it waits for (`Waits`): a union
waits for any of its parts, an exclusion first for the base and then for the
complement. Where a value must be exact the ranks go down from frame to frame, so
a subproblem that is pending is never met again under such a claim, and the denial
with which `CutCycle` answers is allowed wherever it happens.
`Right` is the claim about a whole subproblem; memo, cache and answers are
`Right` about the world of their revision.

* `EngineStepSound`, `CheckStepRight`: a step of a check keeps `Meant`, and what
  it puts into memo and cache is `Right`.
* `GrantsCorrect`, `RankedCorrect`: `GrantsTrue` and `RankedExact`, with cycles
  and with a cache, for any number of clients.
* `AnswersCorrect`, `CacheCorrect`: `AnswersLinearize` and `CacheSound`, where no
  world has a cycle (`Acyclic`).

Each hypothesis is needed. Without `Acyclic`, `cycle_deny` refutes exactness; without
`SubtractsSettled`, `cycle_allow` refutes `GrantsTrue`; without `TokensKept` (a
durable store, or no client that asks for `at_least_as_fresh`), `token_ahead`
does.

**Lists.** `ListProofs`, for any schema, reverse analysis, cap of the API and number
of lists. The assumptions are that `MaxPage` is positive, that requests are records
of their four parts, that writes add members of `Tuples`, and that the store and
the schema are finite, which sorting and ordering need.

* `ListInvariance`: the check that a list waits for is that of
  its next candidate, pinned to the revision of the list (`CheckFor`). That it is
  pinned needs an argument, since the engine takes revision 0 for "at the head":
  at revision 0 nothing is stored, so the walk finds no tuple, no candidate, and
  nothing is ever checked (`ListOK`).
* `ListRightInvariance`, `PageCorrect`: `PageExact`, from `CheckStepRight` with lists
  in the place of clients. In between, the page so far is in order and before all
  that is left (`Sorted`), all granted, and every candidate neither on it nor left
  was denied by an answer that was `Right` (`RestDenied`).

`WalkProofs` is about the candidates, which `PageExact` takes as they come. The walk
is almost a breadth-first search. The twists are that what inherits from a
relation is queued together with it, a level above its own step, and that a
relation which is met again is never followed again. If a relation could first
be met with less depth left than its shortest way leaves, something within the
limit would be lost, and only for some orders of rows.

* `WalkInvariance`: this does not happen. The queue holds at most two levels, in
  order (`InLevels`); everything within n steps has been seen once the walk is on
  level n; what was seen is queued, or what it leads to was seen (`SourcesKept`);
  and what waits on the next level was not within reach of this one (`NewBelow`).
  `NewBelow` makes the first meeting the shortest one, and is what the early
  inheritance could have broken. One tuple gives a relation and what inherits from
  it in the same step, and `Within` counts steps the same way (`GivenBy`).
  `IsExhausted` is what holds when nothing is left in the queue but items below the
  limit.
* `ListTypeCorrect`: `TypeOK`, which needs this invariant for what it says of the one
  revision of the walk.
* `WalkCorrect`: `Spec => []WalkComplete`, for any schema, data and reverse analysis.
  Nothing is supposed but the assumptions of the modules.
* `RankedListsExact`, `ListCorrect`: a list is exactly the page of what is allowed,
  among the ranked objects where there are cycles, and among all (`ListExact`)
  where there are none. The argument goes down the ranks: a ranked permission that holds
  is granted, by a stored tuple of the subject or of a userset that holds, by a
  computed relation, or by an object that it inherits from; each of these is
  within reach by induction, and the reverse analysis follows it from there.

Inductions over numbers and ranks are done with sets of counterexamples and
`WFMin`, since the library's rules that take an operator are out of reach.

The hypotheses of the last two, beyond those of `PageCorrect`, are about schema and
data:

* `ReverseSound(height)`: the reverse analysis names every relation through which a
  permission may be granted, and the walk on every inheritance; `height` is any
  measure of the depth of rewrites, so that a rewrite is no part of itself.
  `AnalysisSound` in `MCLists` evaluates it of `SchemaReverse`, with both schemas.
* `IsPlain`: usersets name, and objects inherit, stored relations, and parents are
  plain objects. `list_hides` is what happens otherwise, and `AnalysisSound`
  evaluates that its schema is the one that is not plain. It also leaves out a
  quieter difference: where a userset is stored as the parent of a document,
  `Check` follows the object in it, while the walk looks for the object by itself
  and finds no tuple.
* `IsShallow`: no chain from the subject is longer than the limit. Where one is,
  `Check` says that it is too deep (or, helped by its cache, tells the truth), while
  a list that never proposed the object is short of it without a word.
* `Acyclic`, for `ListCorrect` only: on a cycle, `Check` may deny what is granted
  (`cycle_deny`), and the list repeats it.

`lists` satisfies all but the last, and the worlds without one of its groups satisfy
that too (`CalmWorldsExact`).

**Trees.** `ExpandProofs`, for any schema, data, requests and writes. The trees are
constants that satisfy the two equations of the code (`TreesUnfold`): the tree of a
key is what `expand` draws of it, that of a rewrite what `expandRewrite` does.

* `ExpandInvariance`: a tree that is answered is drawn from one world of the history,
  of a revision that was the head while the request was served.
* `TreesCorrect`: `Spec => []TreesDecide`.
* `DrawnCorrect`: `Spec => []TreesDrawn`.

The visited set is that of the path from the root, so the tree of a relation is
another on every path, and what it shows is less the more of it is cut. What a
subtree owes is therefore relative to its path (`KeyRight`): what it shows holds; and
what holds it shows, provided that it needs nothing on the path (`IsFree`). That is
so of each relation on the path for one of two reasons. It has a higher *level*:
an exclusion lies between, and what is subtracted never asks about anything of its own
level. Or it did not hold *yet*: what holds does so at a stage, and is granted by what
held at an earlier one (`Founded`), so a derivation never needs what it derives. From
the root nothing is on the path, and the tree decides. The induction is over the
relations that are not on the path yet and, inside one relation, over the height of
the rewrite (`RewriteRight`, `EveryKeyRight`); those that draw `DrawnCorrect`
(`RewriteDrawn`, `EveryKeyDrawn`) are the same, with the length of the path for the
depth.

The hypotheses, all of which `EveryTreeExplained` in `MCExpand` evaluates for every
world of `expand`, cyclic ones among them (`SomeWorldsCyclic`): `Compositional` and
`HoldsClosed` as above; levels (`Stratified`), which exist where no cycle goes through
what an exclusion subtracts, and stages (`Founded`), of which there are as many as `Semantics` takes
rounds; for `DrawnCorrect` instead, that no relationship and no rewrite names a
relation that the schema does not have (`NamesKnown`). This is less than
`SubtractsSettled` asks of the data for `Check`: what is subtracted may itself be
cyclic, as where two groups that contain each other are banned. `cycle_allow` is
such a case. There `Check` allows who is banned, and by `TreesCorrect` the tree of
the same question does not show them: `expand` keeps no memo, and takes each
key out of the visited set with nothing remembered.

**Names.** `NamingProofs`, for texts of any length over any letters; the assumption is
that the fragments a text grows by are sequences of letters. `ParseSubject` cuts at
the first `#` and `ParseObject` at the first `:`, while `key` writes the relation last,
behind a `#` that the identifier, and the relation, may hold too. An owner of a key
(`Owners`) is any object that is parsed with any relation that is not empty, as a
write accepts them.

* `SubjectsSurvive`: `Spec => []SubjectsRoundTrip`: rendering is the inverse of parsing on
  all that is accepted, and no part of an object holds a `#`. It rests on what cutting
  a text at a place and joining it again give (`CutAt`, `WholeAgain`), and on the
  first separator of a rendered name being the one it was cut at (`IndexIs`).
* `KeysApart`: `Spec => []KeysDistinct`. A key is cut by `:` and `#` wherever its owner
  says (`CutAtSeparator`). The first `:` is the same for both owners, hence one type;
  the owner that cuts earlier has the other's `#` in its relation, and the other has
  that owner's `#` in its identifier (`TwoCuts`). So relations without a `#`, which are all
  that a schema can have, keep their keys to themselves.

**Only model-checked.** `ExpressionsExact`, `NamesResolve` and `NothingOverwritten` of
`Parsers`, and all liveness (`ChecksTerminate`, `ListsEnd`, `WritesEnd`). The prover
does not reach liveness under fairness and `ENABLED`; induction over data (that
`Semantics` solves the equations for every schema, that levels and stages exist for
every schema and data without a cycle through what an exclusion subtracts); and recursive operators,
which is why `Semantics` and `SchemaReverse` are kept apart and enter the other modules
as constants. The parser is recursive in the code and in its module.

## What is not modelled

The lexer (comments, line numbers, which characters make a name) and the wording of
errors. `parseTypeList` reads a list and forgets it, and so does its model: the
program never enforces the types of a relation, nor that a tuple is not written
against a permission. JSON, status codes, the health route, request statistics,
flags, HTTP timeouts and signals are process I/O without a property to state.
`Migrate` only creates tables. Eviction does not exist: the cache only grows.

`expand` keeps its visited set by rendered names too; `ExpandTree` keeps it by object and
relation. The two differ only if the tree is asked for of an object whose identifier
holds a `#` and comes to a userset whose relation does. A tree is drawn in one
step: what writes in between could do to it is reduced to the choice of the revision
that it is read at.

The handlers of lists and expansions are modelled next to the service rather than
in it: they share with checks the store and the cache, through the modules that
both extend, and nothing else. A list whose candidate exceeds the depth limit
fails as a whole; `ListObjects` does so too.

## Plan

* The service over Postgres with writes that overlap: what remains of
  `AnswersLinearize` when only settled revisions are immutable.
