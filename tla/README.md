# Verification of hazop-safeguard-coverage

The repository is an offline HAZOP workbench: engineers describe process nodes,
deviation scenarios and safeguards; the server freezes them into a *coverage
evaluation*, computes a conclusion with a deterministic algorithm, and a reviewer
other than the scenario's author confirms it. Every write leaves an audit entry.
The modules in this directory model the server (Go, Gin, GORM over PostgreSQL or
SQLite) where concurrency, failure and ordering decide whether it keeps its
promises.

## 1. Inventory

All paths are below `src/backend/internal/` unless they start with `frontend/`.

| Component | State it keeps | Operations that change it | What makes it correct |
| --- | --- | --- | --- |
| Coverage evaluations (`service/`, `repository/`, `handler/coverage_evaluation*`) | `coverage_evaluations` rows: key, scenario, frozen input, state, conclusion, confirmer, replay verdict | Run, Confirm, Void, Replay | a key names one evaluation; a row follows its life cycle; the frozen columns never change; one confirmer, not the author; replay reproduces; no row is stranded |
| Audit trail (`middleware/audit.go`, `AuditRepository`) | `audit_logs`, append-only | one entry per service write, one per successful HTTP write | an answered write has its entry; an entry tells the truth about the rows |
| Roles (`constants/roles.go`, `middleware/rbac.go`) | constant table; role travels in the token | none | auditors write nothing; only reviewers confirm |
| Deviation scenarios (`service/deviation_scenario_service.go`) | `deviation_scenarios` rows with a version and a review state | Create, Update, Transition | versioned updates: no lost update; reviewer differs from author; accepted is final |
| Safeguards (`service/safeguard_service.go`) | `safeguards` rows: life cycle, last verification, interval, evidence | Create, Update, Verify, Invalidate, Restore | a verification shown can be traced to one request; the state moves only as the ledger's operations say |
| Process nodes (`service/process_node_service.go`) | `process_nodes` rows, active or inactive | Create, Update, Deactivate | unique code; one deactivation takes effect; an inactive node is reactivated on purpose only |
| Coverage algorithm (`algorithm/`) | none: a pure function of the snapshot | - | deterministic; one contribution per independence key; the score is the probability that a layer works; less protection is no better |
| Rate limiter (`middleware/auth.go`) | a window per scope and user, under a mutex | one count per request | at most `limit` requests per window; windows start a minute apart although old ones are forgotten |
| Evidence packs (`ExportEvidencePack` of the evaluation service) | none: made from one row | - | packs exported at different times do not contradict each other |
| Authentication, request id, recovery, error handler | none | - | an actor with a role, or 401 |
| Server process (`cmd/server/main.go`) | - | start, graceful shutdown | handlers run concurrently and may be cut off |
| Frontend run hook (`frontend/src/hooks/useCoverageRun.ts`) | generation counter, timer, two flags | launch, stop, poll | only the newest launch reports |
| Frontend session and routing (`useAuth.ts`, `stores/auth.ts`, `router/index.ts`) | token and user in local storage | login, logout, expiry | no page without its permission |

**How they interact.** A route passes authentication, the audit middleware, a role
check and, for Run and Replay, a rate limiter, then calls one service method in the
goroutine of the request. Services call repositories; services do not call each
other but read each other's tables: Run reads the scenario, its node and its
safeguards, Confirm reads the scenario's author. There is no background worker, no
cache, no queue: the database is the only shared state, apart from the limiter's map.

**Why it is hard.** A repository call is one SQL statement and is atomic. No
transaction spans two of them, so every handler is a sequence of steps between which
any other handler may run. The context handed down is the HTTP request's: a client
that disconnects, a failed statement, a shutdown or a crash ends a handler between
any two steps and undoes nothing. What protects the data are conditional updates
(`UPDATE ... WHERE id = ? AND state IN ?`), version numbers, and one unique index.
The list of hazards in `PROJECT.json` names each place where that may not suffice.

## 2. Modules

| Module | What it is |
| --- | --- |
| `CoverageLifecycle` | Abstract specification: what the evaluation store promises, with every handler step hidden. One action per published change: Queue, Start, Complete, Fail, Confirm, Void. |
| `CoverageEvaluations` | Detailed specification: the handlers of `coverage_evaluation_service.go`, interleaved per SQL statement, interrupted anywhere; the audit trail; its properties; the refinement mapping to `CoverageLifecycle`; the inductive invariant. |
| `EvidencePacks` | Extends it: the pack an export makes of a row, and what packs say of each other over time. |
| `MCCoverageEvaluations` | Values for the constants, symmetry, and `SettledSpec`, which starts after an earlier Run. |
| `ScenarioReview` | Abstract specification: how a deviation scenario is drafted, edited, analysed, approved and sent back, each change making the next version. |
| `DeviationScenarios` | Detailed specification: the handlers of `deviation_scenario_service.go`, with the version number the client sends; refinement mapping to `ScenarioReview`; the inductive invariant. |
| `MCDeviationScenarios` | Values for the constants, symmetry, and `LaterSpec`, which starts with a scenario in any of its five states. |
| `SafeguardLifecycle` | Abstract specification: state and verification of a safeguard; Register, Verify, Expire, Invalidate, Restore. |
| `Safeguards` | Detailed specification: the handlers of `safeguard_service.go`, with the clock; refinement mapping to `SafeguardLifecycle`; the inductive invariant. |
| `ProcessNodes` | The handlers of `process_node_service.go`; the inductive invariant. |
| `CoverageAlgorithm` | The package `algorithm/` as operators over frozen inputs, and one evaluation as a step. |
| `RateLimiter` | The limiter of `middleware/auth.go`: clock readings, mutex, windows, pruning, `Retry-After`; the inductive invariant. |
| `MCSafeguards`, `MCProcessNodes`, `MCCoverageAlgorithm`, `MCRateLimiter` | Values for the constants, symmetry, and beginnings later in the life of the database. |
| `CoverageClaims`, `DeviationScenarioClaims`, `AlgorithmClaims` | Statements of the repository's documents and messages the code does not keep. |
| `*_proofs` | Theorems about the module of that name, for all values of its constants. |
| `AlgorithmLemmas` | What the proofs about `CoverageAlgorithm` know of finite sets, sorting, products, sums and division. |

The modules meet where the services do. `CoverageEvaluations` takes the input a Run
freezes, and the conclusion drawn from it, from a set: `CoverageAlgorithm` says what
that conclusion is, and that it is a function of what was read. `DeviationScenarios`
lets the status of a node change at any time; `ProcessNodes` says how it does. Nothing
else of one service's table constrains another's writes, which is why the services can
be checked one by one.

### CoverageEvaluations and the code

State. `evaluations` is the table (`None` for an id not handed out yet), `audits` the
audit table, `req[r]` what the goroutine of request `r` holds: its label, the call,
the row id, the frozen input, the rows it read, the replay verdict, the HTTP status.

| Label | Next statement | Action |
| --- | --- | --- |
| `find` | key length, `FindByIdempotencyKey` | `FindByIdempotencyKey` |
| `freeze` | reads of scenario, node, safeguards; snapshot | `FreezeSnapshot` |
| `create` | `INSERT` | `Create` |
| `refind` | second lookup after a unique violation | `FindAfterViolation` |
| `start` | `Transition` queued to running | `Start` |
| `evaluate` | `Evaluate`, then `Complete` or `Transition` to failed | `StoreResult`, `StoreFailure` |
| `load` | `GetByID` and the checks on what was read | `LoadEvaluation` |
| `update` | the conditional update, or `SetReplayResult` | `ConfirmTransition`, `VoidTransition`, `SetReplayResult` |
| `reload` | `GetByID` | `Reload` |
| `audit` | `audits.Record` | `RecordAudit` |
| `get` | `Get` at the end of Replay | `GetAfterReplay` |
| `answered` | `respond` has written the status; the audit middleware follows | `AuditMiddleware` |

`Submit` is the dispatch of a request, with the 403 of `RequirePermission`.
`Abort` is a handler cut off; `DatabaseError` is the early return with 500 when a
statement fails. Both may happen at every label.

Abstractions, and why they are sound for what is asked:

- A frozen snapshot, its hash and the conclusion drawn from it are one value, a
  member of `Inputs`: the algorithm is a function of the snapshot, so the conclusion
  is named by the input. The score is the exception that matters: a row that has not
  been completed stores score 0, hence `ZeroInputs`, the inputs whose score really is
  0, replay successfully before they were completed.
- `FailingInputs` are the inputs `Evaluate` returns an error for. With the snapshot
  `Run` builds this takes a value JSON cannot represent; a Replay also meets it on a
  snapshot of another algorithm version. The error path is part of the code either
  way; the proofs hold when the set is empty.
- The three reads of `FreezeSnapshot` are one step with an arbitrary result, since
  nothing in this module constrains what other services store. Inputs torn between
  two writes of other services are among the arbitrary ones.
- `Confirm` reads the scenario after the evaluation. Only its author is used, and no
  statement of the repository updates `created_by`, so the read is part of
  `LoadEvaluation`.
- A `None` row is an id never used. Rows are never deleted by this code, so a handler
  that has read one can read it again.
- 401 and 429 answers precede the service and change nothing here; 403 in `Submit`
  stands for an early refusal.

Properties, each with a mutant and, the last excepted, proved:

- `SameKeySameEvaluation` - however Runs with one key interleave, all that succeed
  answer with one evaluation and one of them created it.
- `RunKeepsItsRow` - the conflict answers inside Run are unreachable: Confirm and
  Void cannot touch a row before it is settled.
- `UnsettledHasItsRun` - behind a queued or running row stands its Run, at the
  matching step, or cut off. It is the precise form of "no row is stranded".
- `OneWinner`, `ConfirmedByReviewer` - one confirmer, never the author, with a role
  that may confirm, of the conclusion drawn from the row's own input.
- `AnsweredWritesAudited`, `StateAuditsShowTheirEffect` - what the audit trail can be
  relied on for.
- `ReplayOfSettledPasses` - a Replay that reads a settled row passes.
- `ImplementsLifecycle` - every published change is a step of `CoverageLifecycle`.
- `IInv` - the inductive invariant of the proofs, `TypeOK` included.
- `UnsettledSettles` - a queued or running evaluation settles unless its Run is cut off.

`RefusalsUnlogged` (a refused request leaves no service entry) is proved and is not
among the runs' properties.

### EvidencePacks and the code

`Pack(row)` is `ExportEvidencePack`: `Presents` is the `switch` on the state, `RankAfter`
and `BoundaryNote` the columns whose value depends on whether a conclusion was ever
stored. An export reads one row in one statement, so what can go wrong is between two
exports. `PresentedForGood` says that a later pack never takes back what an earlier one
presented. `HollowPacksAreVoidedFailures` says which packs show a conclusion's place
without a conclusion (score 0, the initial rank, no boundary note): those of evaluations
voided after they had failed, which nobody confirmed.

### DeviationScenarios and the code

State. `scenarios` is the table, `audits` the entries of `recordAudit`, `activeNodes`
the nodes whose status is active (changed at any time by `NodeStatusChanges`, which
stands for the process node service), `req[r]` what the goroutine of `r` holds: its
label, the call, the row's id, the row it read (`before`), what it made of it (`after`),
the status.

| Label | Next statement | Action |
| --- | --- | --- |
| `node` | `nodes.GetByID` and the check of its status | `LoadNode` |
| `insert` | `scenarios.Create` | `InsertScenario` |
| `load` | `GetByID`, the role, state and author checks | `LoadForUpdate`, `LoadForTransition` |
| `update` | the conditional `UPDATE` | `UpdateWithVersion`, `Transition` |
| `audit` | `audits.Record` | `RecordAudit` |
| `get` | `Get` for the answer | `GetAfterWrite` |

`Interrupt` ends a handler at any label: a failed statement, a client that leaves, a
crash.

What decides whether this protocol is correct is the version number. A request carries
one (`dto.UpdateDeviationScenarioRequest.Version`); the `UPDATE` is guarded by *that*
number, but the columns it writes are merged into the row the handler *read*, whose
version is compared with nothing. `Lead` says how far a client's number may be ahead of
the stored one when it submits: 0 for a client that sends what it was shown, as the
frontend's store does (`frontend/src/stores/deviation-scenario.ts:16,22`); more for one
that counts its own unanswered writes. `Lag` says how far it may be behind. A number
that is too small never matches again, so one stale value stands for all of them; the
proofs hold for every `Lag`.

A content is a function from the patchable columns to values; names beside user ids,
timestamps and comments are left out. The 422 for an unknown guideword cannot be
reached behind the binding (`oneof`), and 401 precedes the service. The HTTP audit
entry of the middleware is the one modelled in `CoverageEvaluations`.

Properties, each with a mutant and proved:

- `OneWriterPerVersion` - of the requests naming one version, one takes effect;
- `VersionNamesRow` (`Lead` = 0) - a version number names one content and one review
  state for ever: the table, every handler and the audit trail agree on it. What was
  approved is what the reviewer saw, and what the trail shows;
- `StaleWritesRefused` (`Lead` = 0) - a write that takes effect replaces the very row
  its handler read;
- `ReviewedByAnother` - verified and accepted rows have a reviewer, not the author;
- `ImplementsReview` - every change of a stored row is a step of `ScenarioReview`:
  accepted is final, content changes only in draft and rework, node and author never.
  `StepsFollowReview` is its step part, for `LaterSpec`, which does not begin empty.

### Safeguards and the code

State. `safeguards` is the table, `audits` the entries of `recordAudit`, `now` the
server's clock, `req[r]` what the goroutine of `r` holds: label, call, the row's id,
`before` and `after`, the state a Restore decided on (`goal`), the status. `seen` is a
history field that no guard reads: the requests whose lifecycle changes had taken effect
when the handler first read its safeguard, for Restore in `target`, for the others in `load`.

| Label | Next statement | Action |
| --- | --- | --- |
| `scenario` | the scenario is looked up; the row is made | `LoadScenario` |
| `insert` | `safeguards.Create` | `InsertSafeguard` |
| `target` | Restore's own `GetByID`, deciding the goal | `RestoreTarget` |
| `load` | `GetByID` | `LoadForUpdate`, `LoadForVerify`, `LoadForChange` |
| `update` | `safeguards.Update` of the edited columns | `UpdateColumns` |
| `expire` | `SetLifecycle` from the state read to the one computed | `SynchronizeLifecycle` |
| `set` | `SetLifecycle` of Verify, Invalidate, Restore | `SetLifecycle` |
| `reload`, `audit`, `get` | `GetByID`, `audits.Record`, `Get` | `Reload`, `RecordAudit`, `GetAfterUpdate` |

`s.now()` is read in the step of the statement before it, and the clock may advance
between any two steps. An instant is a number; an interval is in the same units. Of the
columns that may be patched the interval and the evidence are kept; the evidence text is
the set of requests whose note it holds.

- `VerificationTraceable` - the instant and the verifier a safeguard shows were submitted
  together, by one permitted request, which the audit trail holds once it is answered. No
  write carries a version here: that the pair is not mixed rests on which columns each
  statement writes.
- `StepsFollowLifecycle` - no step changes state or verification other than
  `SafeguardLifecycle` allows: in particular the row an Update read earlier never brings
  an old verification or an old state back.
- `StaleDecisionsAreRaced` - Verify, Restore and Update decide on a row read earlier, and no
  write carries a version, so all three can be overtaken. The property says how far that
  goes. A statement that makes an invalid safeguard active belongs to a Verify that had read
  it as invalid, or an invalidation took effect between the request's first read and that
  statement: a Restore never yields an active safeguard otherwise. A statement that expires
  a safeguard whose verification still holds belongs to an Update whose verification or
  interval has been replaced since. All three races occur.
- `NoVerificationAhead` - no verification lies ahead of the clock by more than the
  tolerance. `TypeOK`.

### ProcessNodes and the code

State. `nodes`, `audits` and `req` as above; the design columns are one field, the four
counts of `Summary` change nothing and are one step. Labels: `code` (`CheckCode`, the
lookup before an insert), `insert` (`InsertNode`, the unique index included), `load`
(`LoadForUpdate`, `LoadForDeactivate`), `update` (`UpdateNode`, `Deactivate`), `audit`,
`summary`. Deactivate is conditional on the status; Update writes every column but the
code from the row it read.

- `OneCreationPerCode` - two clients may both find a code free; one node results.
- `DeactivationsAlternate` - of racing deactivations one takes effect, unless an update
  wrote the node active at some time.
- `UnaskedReactivationIsRaced` - an update that names no status can reactivate a node,
  but only one that was retired after the update had read it. `TypeOK`.

### CoverageAlgorithm and the code

`Scenario` and `Row` are the inputs the binding and the primary key let in: ids differ,
likelihood and severity are 1 to 5, an effectiveness is at most 100, an interval a whole
number of seconds. `NewSnapshot`, `SplitStatements`, `BuildGraph` and `Paths` are `graph.go`;
`IneligibleReason` and `ResolveIndependence` are `independence.go`; `CoverageScore`,
`IsCovered`, `Residual` and `RiskRank` are `scoring.go`; `Evaluation` is `evaluator.go`.
Instants are ticks, `Second` to the second, since snapshots truncate to seconds while the
ledger does not. `InOrder` is `sort.Slice`: an element goes to the place that the number of
those before it gives. Effectiveness is counted in hundredths, so that products are exact;
the score is rounded to one of `ScoreParts` parts (`round4` of a percentage, a million parts
in the code); `RoundedUp` lists the values for which the build's doubles come out above the
exact product, which is where the ceiling in `Residual` differs; `MCRoundedUp` has all of
them for the effects of the instance, up to three layers and every initial risk. Key 0 is the
empty key: a request of blanks passes the binding (`min=2`) before it is trimmed.

- `SnapshotIgnoresRowOrder` - the snapshot, hence the input hash, is the same in whatever
  order the database returns rows.
- `OneContributionPerKey` - one layer per key counts, the strongest and then the first;
  every other layer is listed once.
- `EffectiveTakesPart` - a layer effective for the ledger (`IsEffectiveAt`) takes part; one
  that takes part was effective within the last second. Truncation is why it is not "if
  and only if".
- `ScoreIsProbability` - the score is, to the nearest part, the probability by inclusion and
  exclusion that at least one layer works; paths are uncovered below one half.
- `LessProtectionIsNoBetter` - removing a layer never improves score or residual risk,
  although another with its key may take its place.
- `PathsAreTheGraphs` - the paths are the connections of the graph, each once, for blank,
  repeated and differently spelled statements. A node is reached when every set of nodes
  that no edge leaves has it.

All six are proved for every input.

### RateLimiter and the code

`Middleware` reads the clock (`Arrive`) and then waits for the mutex; the rest is one
critical section (`Decide`): open or count, prune above `Cap` keys, decide, compute
`Retry-After`. Requests may get the mutex in another order than they read the clock;
`Stall` bounds how long one is held up between the two. The capacity (10000), the limit
and the length of a window are constants. One instance stands for each limiter of
`main.go`: the login's, keyed by client address, and the one Run and Replay share, keyed
by scope and user.

- `LimitIsExact` - at most `Limit` requests of a key are admitted in a window, and nobody
  is refused before `Limit` were.
- `WindowsApart` - windows of a key start a minute apart although they are forgotten. This
  needs `Stall <= Minute`, and is what the second minute in the pruning age is for: the
  proof uses it there and nowhere else.
- `KeepsRecentOnly` - above the cap only recent windows are held.
- `WaitingHelps` - the seconds of `Retry-After` and one more are enough. `TypeOK`.

## 3. Runs

| Run | Instance | Shows |
| --- | --- | --- |
| `coverage_requests` | 3 requests of any kind, 2 keys, 2 rows, 2 inputs (one fails), from an empty database | idempotency, ownership, stranded rows, audit of answered writes, replay, refinement |
| `coverage_settled` | 3 requests on a row left completed or failed by an earlier Run; two users may confirm, one is the author | winners, reviewer separation, truth of audit snapshots, evidence packs |
| `coverage_refusals` | 2 requests, 3 users, all refusals: role, short key, missing scenario, failing and zero-score inputs; `FairSpec` | inductive invariant, typing included; evaluations settle |
| `scenario_creations` | 3 requests of any kind, 2 ids, a missing node, `Lead` = 1, from an empty database | inductive invariant, typing included; refinement for clients that count ahead |
| `scenario_later` | 3 requests on a scenario in any of its five states, `Lead` = 0 | optimistic locking, versions, review |
| `safeguards` | 2 requests of any kind on an empty ledger or on a safeguard entered before, 2 intervals, clock to 3, tolerance 1 | what verifications, updates, invalidations and restorations do to each other |
| `nodes` | 3 requests of any kind, 2 nodes, 2 codes, on an empty table or on a node entered before, active or not | codes, deactivations, reactivations |
| `algorithm` | every list of up to 2 safeguards of 50 kinds and of 3 eligible ones, in every order; every pair of texts of up to 3 and 2 parts | the algorithm against reference definitions |
| `limiter` | 5 requests of one user on 2 scopes, limit 2, cap 1, a minute and a second of 2 ticks, stall 2, clock to 8 | limit, windows, memory, waiting |
| `claim_*` | 2 or 3 requests, one row; for `claim_residual` the inputs of `algorithm` | the divergences of section 5 |

Bounds. A race here involves at most a creator, a competitor and a third request that
observes or voids, and every request makes at most one update of one row (an Update of a
safeguard at most two): three requests reach every pair of conflicting updates with an
observer. Two keys and two rows are needed for a key to be confused with another's row;
one row suffices where a property is about one evaluation, since requests on different
rows share no condition. Two inputs distinguish success from failure; the third, of score
zero, matters for Replay only. `coverage_settled` starts from a settled row so that all
three requests race on it; the rows it starts from are what a Run leaves in
`coverage_requests`. Requests, and in `coverage_requests` rows and keys, are
interchangeable, and no property names one, so symmetry is sound; the run with a liveness
property uses none.

For scenarios, three requests again allow a writer, its competitor and a third that acts
on the result. From an empty database they reach a verified scenario; `LaterSpec` starts
from the states earlier requests leave behind, so that acceptance, rework and refusals
afterwards are raced too. One column with two values is enough to see a lost edit, since
the columns are treated alike. Two users, an admin who is the author and may review, and
a reviewer, meet every role check: the admin passes the roles and is stopped as author.

For safeguards the beginning with an entered safeguard gives both requests a row to race
on, and the answered request `r0` that entered it (`MCSpec` keeps its handler as it is);
the intervals 1 and 2 and a clock to 3 let a verification run out before, between and
after the reads, and the instants include the first one beyond the tolerance. For nodes, a
third request is what deactivates between an update's read and its write while another
observes; roles stand for users, since nothing depends on who somebody is.

For the algorithm, `Second` = 3 ticks makes every phase of truncation occur; two eligible
keys and the empty one, three effects, ties included, and verifications that end at every
instant from two ticks before the reference time on. Three layers are
where a sum, a product and inclusion-exclusion first differ in all terms. `ScoreParts` is
100 there, since with a million parts no product of three effects would be rounded.

For the limiter, a window of a limit of two, a request too many and two more for the next
window are five requests; a second scope and `Cap` = 1 make forgetting happen; a clock to
8 is four minutes of two ticks, past the age of two minutes and a stall.

Deadlock checking is off where the system may stop: requests are finite in an instance and
nobody must send one, the clock is bounded, and an evaluation is made once. In the
scenario runs the status of a node may change for ever, so there it is on.

Fairness. `FairSpec` asks weak fairness of each handler's own steps, which the Go
scheduler and the database give to a goroutine that can run. It asks nothing of
`Submit`, since no client must call, and nothing of `Abort` and `DatabaseError`, since
no failure must happen. Without it a handler could sit between two statements for ever.

## 4. Proofs

`CoverageEvaluations_proofs` proves every safety property of the evaluations for arbitrary sets of
requests, ids, keys, scenarios, users and inputs. Assumptions: `ScopeAssumption`
(acceptable keys are keys, existing scenarios are scenario ids, authors are users, and
`None` is none of the values it stands beside) and `RoleAssumption`.

The argument. None of the properties is inductive: `OneWinner`, for example, is about
answers given long after the update that decided. `IInv` adds what ties a row to the
handler working on it:

- `RowInv` - what a row's state says of its conclusion and its confirmer;
- `RunInv` - a Run past `Create` holds an existing row with its key and input, queued
  at `start`, running at `evaluate`;
- `StateCallInv` - the row a Confirm, Void or Replay read precedes the stored one, and
  a request whose update took effect can rely on a stored state only Void may leave;
- `CreatedOnce`, `WonOnce` - creators of a row, and winners of a transition, are unique.

Each action changes at most the row its handler holds, by one of six updates
(`RowStep`). So the proof has three parts: the updates preserve `RowInv`; the *other*
handlers keep what they know under any `RowStep` of their row (a Run's knowledge
survives because nothing but its own steps leaves queued or running); and the handler
that moves establishes what its next label needs. `KeysUnique` follows from `Create`
inserting only when the index finds no holder.

`Implementation` maps every `RowStep` to the step of `CoverageLifecycle` of the same
name, `SetReplayResult` and all reads to stuttering. The audit theorems use `IInv` and
one more inductive fact each, stated beside them: what a handler at `audit` holds, and
what an entry says of the handler that wrote it.

`DeviationScenarios_proofs` does the same for scenarios, from `ScopeAssumption`,
`RoleAssumption` and `NoneAssumption` (`None` is no row and no call). A successful write
(`Writes`) turns version v, the one the request names, into v + 1. `IInv` therefore says
that a request that took effect names a version below the stored one; the next writer
names the stored one, hence another (`OneWriter`). For `ReviewerSeparated` it says that
the author in the row a handler read is the stored author, which no write changes.
`Implementation` maps each successful write to the step of `ScenarioReview` it makes,
for every `Lead`: the guards on state and author hold of the *stored* row because the
`UPDATE` repeats the state and the author never changes. `ReviewFollowed` states the same of
behaviours that begin in any state of `IInv`, as those of `LaterSpec` do.

`VersionsNameRows` and `NoLostUpdate` assume `Lead = 0`. Their invariant adds
`KnowsNoLaterVersion`: nothing a handler holds or the trail shows is newer than the
table, and a handler has read at least the version its client was shown. A write that
matches then has read exactly the stored version, hence, by `VersionNamesRow`, the stored
row; so what it makes of the row it read is what it stores. Without the assumption both
fail, see `claim_lost_edit`.

`EvidencePacks_proofs` builds on it: a pack is a function of the row, `RowInv` says what a
row without a conclusion can be, and no `RowStep` takes a presented column back.

`Safeguards_proofs` assumes `TimeAssumption`, `RoleAssumption` and `NoneAssumption`.
`VerificationTraceable` is about requests long answered, `StaleDecisionsAreRaced` about a
read some steps before the write, so `IInv` adds what the handlers still at work know:
`InsertInv` (the row about to be inserted shows its own call), `HandlerInv` (the rows and the
target a label holds; an Update about to expire a row has read it active, with a verification
that was over and, as time goes on, stays over; an instant about to be stored is within the
tolerance, which time only makes weaker), `RestoreInv` (a Restore with the goal active has
seen a verified safeguard, and if it is invalid by now, an invalidation not in `seen` took
effect) and `VerifyInv` (the same for a Verify that has not read the safeguard as invalid).
`seen` holds only requests that have taken effect, so one that takes effect later is not in
it. `StaleDecisions` follows: the only statement that revives is `SetLifecycle`, and Restore
matches only a row that is invalid. Two lemmas carry the proof: a step that leaves the table
alone keeps what others know (`QuietStep`), and one that writes a row either keeps its
verification or writes its own request's (`WritingStep`). `LifecycleSteps` and
`Implementation` map each write to its step: an Update's columns to stuttering, its expiry to
Expire.

`ProcessNodes_proofs` assumes `NoneAssumption`. `IInv` says that what a request wrote is in the
table under its code (`WrittenInv`, `OneCreator`, `CodesDiffer`), that a deactivated node stays
inactive until an update writes it active (`StaysDeactivated`), and that a node an Update has
read active still is, or was retired since (`ReadActive`); the last gives
`UnaskedReactivationIsRaced`.

`RateLimiter_proofs` assumes `TimeAssumption`, `NoneAssumption` and `FiniteAssumption`. That the
limit is exact is a statement about cardinalities; `IInv` says instead that the counts handed
out in one window are 1, 2, 3, ..., each once (`CountsDiffer`, `CountsFrom1`), so that the
requests admitted are in bijection with the counts up to `Limit`. `LatestInv` says that the
map holds the latest window of a key or, once forgotten, that every window of the key is over
for whoever can still be waiting: here `Stall <= Minute` is used.

`CoverageAlgorithm_proofs` assumes `UnitsAssumption`, `NoneAssumption`, `InputsAssumption`
and `RoundedUpAssumption`. The only inductive fact is that a result is the `Evaluation` of
the input (the lemma `AlwaysEvaluated`); each property is then a lemma about `Evaluation(i)`,
for any number of safeguards and statements:

- Row order. A row's place is the number of rows before it, and two lists of the same rows
  with different ids differ by a renaming of places that carries one order to the other;
  such a renaming preserves ranks (`SameRanks`). By key alone it would not be carried: rows
  of one key would stay in the order of the list.
- One per key. `Kept` is the first of a group in a strict order on a finite set, so it exists
  and is unique (`LeastExists`); retained, deduplicated and rejected rows are disjoint, and
  their number is that of the list because ids differ.
- Eligibility. Truncation is monotone and, since an interval is whole seconds, adds up with
  it; hence one direction is exact and the other loses less than a second.
- Score. The product of the complements is what inclusion and exclusion leave
  (`InclusionExclusion`, by adding one layer at a time: the subsets that have it and those
  that have not are in pairs), and the integer division is the nearest part (`Nearest`).
- Less protection. Of the retained layers, a row taken away leaves the same, or one fewer, or
  a weaker one of its key (`SameButFor`). The remaining risk of two lists is compared as
  fractions, and strictly where they differ, which is what makes up for `RoundedUp`: a residual
  that doubles put one too high is still at most the ceiling of a strictly larger product.
- Paths. Numbers row by row and pairs are in bijection; the closed set a cause generates is
  the cause, the node and the consequences.

`AlgorithmLemmas` holds what these proofs need and the library does not have. The folds of the
community modules are `CHOOSE`s of recursive functions and the library's induction theorems
cannot be instantiated, so induction is stated about sets: a set of subsets of U that has the
empty set and grows by single elements has U (`SubsetInduction`, from the least element
outside). From it follow that a product or a sum over a finite set takes any element first
(`ProductStep`, `SumStep`), survives renaming (`ProductRenamed`) and adds up in pairs
(`SumOfPairs`), and that ranks enumerate a finite strict order (`Ranks`, `ByRank`).

Model-checked only: `UnsettledSettles` (liveness under fairness is beyond the proof system
used), and the violations of section 5. All other properties of the passing runs are
theorems. What no proof covers is the arithmetic of doubles: `RoundedUp` is
a parameter, assumed only to hold cases in which the exact product is whole and a layer counts,
and beyond three layers the score is the exact one, not the doubles'.

## 5. Divergences found

Each of these has a run that finds it.

| Run | The document says | The code does |
| --- | --- | --- |
| `claim_replay_verdict` | `README.md:51`: the same input gives the same result | a Replay that overlaps its Run marks a reproducible evaluation as not reproducible |
| `claim_lost_edit` | `deviation_scenario_service.go:172`: 409 when the scenario changed concurrently | the request's version is compared with the stored row, not with the row read; a request one version ahead overwrites a concurrent edit with older columns |
| `claim_residual` | `scoring.go:83`: the residual index is the ceiling of the product shown | where the exact product is whole and the product of doubles is just above it, the index is one higher: 7 for 20 and 0.7; 12, a rank higher, for 25 and layers of 0.2 and 0.45 |

Others were met while modelling. They have no run of their own; the property named says
how far they reach.

- `gb-531.md:52` asks for the snapshots before and after every write. Read, update and
  re-read are three statements, so an entry can show a row before it was completed or after
  it was voided; `StateAuditsShowTheirEffect` says what it always shows.
- `gb-531.md:52,69` ask that all writes be recorded, and for transactions. The audit insert
  follows the update without one; interrupted between them the change stays unrecorded, and a
  retry gets 409. `AnsweredWritesAudited` holds for writes that were answered.
- `coverage_evaluation_service.go:449` describes a running evaluation as being computed. After
  an interruption nobody computes it and no transition leads out of running;
  `UnsettledHasItsRun` bounds it.
- `deviation_scenario_service.go:55` refuses scenarios under an inactive node. Status read and
  insert are two statements; a deactivation in between is not noticed (`NodeStatusChanges`
  between `LoadNode` and `InsertScenario`).
- `process_node_service.go:128` writes back the status it read: a node deactivated meanwhile is
  active again, see `UnaskedReactivationIsRaced`.
- `README.md:126` calls restore a return to the effective state. `safeguard_service.go:225` asks
  whether the safeguard is effective, which an invalid one never is, so that a restored
  safeguard is pending however recent its verification;
  the one exception is a race, see `StaleDecisionsAreRaced`.
- `safeguard_service.go:187` matches every state: a Verify that read an active safeguard makes
  it active again although it was invalidated meanwhile, and `safeguard_service.go:152` expires
  a safeguard that was verified anew after the Update had read it; `StaleDecisionsAreRaced`
  bounds both.
- `safeguard_service.go:247` appends to the note it read: of two concurrent changes the reason
  of one is lost from the row, not from the audit trail. An Update and a Verify replace the
  note altogether.
- `safeguard_service.go:187` gives all four states as origins, so that the conflict of line 191
  cannot be reached and a Verify silently undoes an Invalidate made after it read the row.
- `coverage_evaluation_service.go:402` keeps conclusion columns from packs of failed
  evaluations, not from those of failed ones that were voided;
  `HollowPacksAreVoidedFailures`.
- `auth.go:127` cuts `Retry-After` to whole seconds, so that waiting exactly as long can be too
  short; `WaitingHelps` needs one second more.
- `README.md:186` documents `VERIFICATION_GRACE_DAYS`; `config.go:31` loads it and nothing uses
  it.

## 6. Plan

All modules of the plan are done. In the order they were written:

1. `CoverageLifecycle`, `CoverageEvaluations`, with proofs.
2. `ScenarioReview`, `DeviationScenarios`, with proofs.
3. `ProcessNodes`, with proofs.
4. `SafeguardLifecycle`, `Safeguards`, with proofs.
5. `CoverageAlgorithm`, checked against reference definitions, and later `AlgorithmLemmas` with
   its proofs.
6. `RateLimiter`, with proofs.
7. `EvidencePacks`, with proofs.

What a continuation would add first is a composition of the four services in which
`FreezeSnapshot` is three reads of the others' tables. It would show which torn snapshots a
Run may freeze; no document says which it must not.

## 7. Not modelled

- The timeline that `Get` of a scenario assembles from the newest 100 audit entries is a
  query; in which order it must list transitions is said nowhere. Other list queries and
  paging hold no state either.
- The polling loop of `useCoverageRun.ts`. An older loop that ends late would clear the flag of
  a newer one (line 32), and a loop whose timer is cleared never returns. But `launch` makes a
  fresh key, and the server answers a Run with a fresh key by a settled evaluation or an error,
  so that the loop's condition is false from the start; nothing else calls `watch`.
- Frontend session and route guards decide what is shown; the server checks each request by
  itself. Pages, components and types have no protocol of their own.
- Password hashing, token parsing, request ids, panic recovery and error formatting are library
  calls or shape responses: an actor with a role is where the models begin, and a recovered
  panic is an interruption.
- DTO conversion and binding, except where a bound decides (key length, effectiveness, blank
  keys).
- Database bootstrap, demo rows and configuration precede every request.
