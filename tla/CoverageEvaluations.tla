------------------------- MODULE CoverageEvaluations -------------------------
(***************************************************************************)
(* service/coverage_evaluation_service.go over                             *)
(* repository/coverage_evaluation_repository.go: the Run, Confirm, Void    *)
(* and Replay handlers as concurrent requests.  A repository call is one   *)
(* SQL statement, hence one step; nothing makes two calls atomic.  The     *)
(* request context is the HTTP request's, so a client that leaves, a       *)
(* database error or a crash ends a handler between any two calls.         *)
(*                                                                         *)
(* A frozen input snapshot is a member of Inputs: the string, its hash     *)
(* and, because the algorithm is a function of it, its conclusion (score,  *)
(* paths, explanation, risk after) are named by that one value.            *)
(***************************************************************************)
EXTENDS Naturals

CONSTANTS
    Requests,        \* HTTP requests; each is made once and has its own id
    EvalIds,         \* primary keys the database may hand out
    Keys,            \* Idempotency-Key header values
    AcceptableKeys,  \* those of 8 to 128 characters
    ScenarioIds,     \* scenario ids a request may name
    Scenarios,       \* the ones that exist
    Users,
    RoleOf,          \* RoleOf[u]: the role in u's token
    AuthorOf,        \* AuthorOf[s]: created_by of scenario s, never updated
    Inputs,
    FailingInputs,   \* inputs Evaluate returns an error for (there may be none)
    ZeroInputs,      \* inputs whose coverage score is 0, the stored default
    None             \* nil / absent

VARIABLES
    evaluations,     \* the coverage_evaluations table
    audits,          \* the audit_logs table
    req              \* what each handler goroutine holds

vars == <<evaluations, audits, req>>

States == {"queued", "running", "completed", "failed", "confirmed", "voided"}
Operations == {"run", "confirm", "void", "replay"}
Verdicts == {"none", "passed", "failed"}

\* model.CoverageEvaluation
Row == [key : Keys, scenario : Scenarios, by : Users, input : Inputs,
        state : States, conclusion : Inputs \cup {None},
        confirmedBy : Users \cup {None}, replay : Verdicts]

\* The columns the life cycle of CoverageLifecycle is about.
Published(row) == [key |-> row.key, scenario |-> row.scenario, input |-> row.input,
                   state |-> row.state, conclusion |-> row.conclusion,
                   confirmedBy |-> row.confirmedBy]

\* model.AuditLog: the columns that tell one write from another
AuditEntry == [request : Requests, action : Operations \cup {"http_write"},
               actor : Users, id : EvalIds \cup {None},
               before : Row \cup {None}, after : Row \cup {None},
               input : Inputs \cup {None}, verdict : Verdicts]

RunCalls == [op : {"run"}, actor : Users, key : Keys,
             scenario : ScenarioIds, id : {None}]
StateCalls == [op : Operations \ {"run"}, actor : Users, key : {None},
               scenario : {None}, id : EvalIds]
Calls == RunCalls \cup StateCalls

ASSUME ScopeAssumption ==
    /\ AcceptableKeys \subseteq Keys
    /\ Scenarios \subseteq ScenarioIds
    /\ AuthorOf \in [Scenarios -> Users]
    /\ FailingInputs \subseteq Inputs
    /\ ZeroInputs \subseteq Inputs
    /\ \A S \in {Keys, ScenarioIds, Users, EvalIds, Inputs} : None \notin S
    /\ None \notin Row /\ None \notin Calls
    /\ \A row \in Row : Published(row) # None

(***************************************************************************)
(* constants/roles.go and the evaluation routes' RequirePermission.        *)
(***************************************************************************)
Roles == {"admin", "process_engineer", "safety_reviewer", "auditor"}

ASSUME RoleAssumption == RoleOf \in [Users -> Roles]

PermittedRoles(op) ==
    IF op \in {"confirm", "void"}
    THEN {"admin", "safety_reviewer"}
    ELSE {"admin", "process_engineer", "safety_reviewer"}

Exists(e) == evaluations[e] # None
KeyHolders(k) == {e \in EvalIds : Exists(e) /\ evaluations[e].key = k}

Idle == [pc |-> "idle", call |-> None, target |-> None, input |-> None,
         before |-> None, after |-> None, verdict |-> "none", status |-> 0]

Init ==
    /\ evaluations = [e \in EvalIds |-> None]
    /\ audits = {}
    /\ req = [r \in Requests |-> Idle]

(***************************************************************************)
(* Control of one handler.  Answer is a return from the service followed   *)
(* by respond(): the status is written and the audit middleware is next.   *)
(***************************************************************************)
Become(r, handler) == req' = [req EXCEPT ![r] = handler]
Goto(r, label) == Become(r, [req[r] EXCEPT !.pc = label])
Answer(r, code) == Become(r, [req[r] EXCEPT !.pc = "answered", !.status = code])
AnswerWith(r, e, code) ==
    Become(r, [req[r] EXCEPT !.pc = "answered", !.status = code, !.target = e])

At(r, label) == req[r].pc = label
Op(r) == req[r].call.op

(***************************************************************************)
(* Repository.Transition and Complete: UPDATE ... WHERE id = ? AND state   *)
(* IN from.  The condition is evaluated on the stored row by the update    *)
(* itself, whatever the handler read before.                               *)
(***************************************************************************)
\* Mutant: the state the handler read is checked instead of the stored one.
MatchesWhatWasRead(r, from) ==
    IF req[r].before = None THEN evaluations[req[r].target].state \in from
    ELSE req[r].before.state \in from

Matches(r, from) == evaluations[req[r].target].state \in from
Update(r, row) == evaluations' = [evaluations EXCEPT ![req[r].target] = row]
Stored(r) == evaluations[req[r].target]

Started(row) == [row EXCEPT !.state = "running"]
\* Mutant: the error is returned and the row is left running.
FailedForgotten(row) == row
Failed(row) == [row EXCEPT !.state = "failed"]
\* Mutant: the result columns are missing from the update.
CompletedWithoutResult(row, i) == [row EXCEPT !.state = "completed", !.input = i]
Completed(row, i) ==
    [row EXCEPT !.state = "completed", !.input = i, !.conclusion = i]
Confirmed(row, u) == [row EXCEPT !.state = "confirmed", !.confirmedBy = u]
Voided(row) == [row EXCEPT !.state = "voided"]

ConfirmableStates == {"completed"}
\* Mutant: everything but voided can be voided.
VoidableAnything == States \ {"voided"}
VoidableStates == {"completed", "failed", "confirmed"}

FirstLabel(op) == IF op = "run" THEN "find" ELSE "load"

(***************************************************************************)
(* RequireAuth, RequirePermission and the dispatch to the handler.         *)
(***************************************************************************)
Submit(r) ==
    /\ At(r, "idle")
    /\ \E c \in Calls :
          IF RoleOf[c.actor] \notin PermittedRoles(c.op)
          THEN Become(r, [req[r] EXCEPT !.pc = "answered", !.call = c,
                                        !.status = 403])
          ELSE Become(r, [req[r] EXCEPT !.pc = FirstLabel(c.op), !.call = c,
                                        !.target = c.id])
    /\ UNCHANGED <<evaluations, audits>>

----------------------------------------------------------------------------
(***************************************************************************)
(* Run                                                                     *)
(***************************************************************************)
FindByIdempotencyKey(r) ==
    /\ At(r, "find")
    /\ LET k == req[r].call.key IN
          IF k \notin AcceptableKeys THEN Answer(r, 400)
          ELSE \/ \E e \in KeyHolders(k) : AnswerWith(r, e, 200)
               \/ KeyHolders(k) = {} /\ Goto(r, "freeze")
    /\ UNCHANGED <<evaluations, audits>>

ScenarioFound(s) == s \in Scenarios

\* Reads of the scenario, its node and its safeguards, and NewSnapshot; what
\* they hold belongs to other services and may be any input.
FreezeSnapshot(r) ==
    /\ At(r, "freeze")
    /\ IF ~ScenarioFound(req[r].call.scenario)
       THEN Answer(r, 404)
       ELSE \E i \in Inputs :
               Become(r, [req[r] EXCEPT !.pc = "create", !.input = i])
    /\ UNCHANGED <<evaluations, audits>>

\* The unique index on idempotency_key decides between concurrent creators.
\* Mutant: no unique index, only the lookup made earlier.
UniqueViolationUnseen(k) == FALSE
UniqueViolation(k) == KeyHolders(k) # {}

Create(r) ==
    /\ At(r, "create")
    /\ LET c == req[r].call IN
          IF UniqueViolation(c.key)
          THEN Goto(r, "refind") /\ UNCHANGED evaluations
          ELSE \E e \in EvalIds :
                  /\ ~Exists(e)
                  /\ evaluations' = [evaluations EXCEPT ![e] =
                        [key |-> c.key, scenario |-> c.scenario, by |-> c.actor,
                         input |-> req[r].input, state |-> "queued",
                         conclusion |-> None, confirmedBy |-> None,
                         replay |-> "none"]]
                  /\ Become(r, [req[r] EXCEPT !.pc = "start", !.target = e])
    /\ UNCHANGED audits

FindAfterViolation(r) ==
    /\ At(r, "refind")
    /\ IF KeyHolders(req[r].call.key) = {}
       THEN Answer(r, 500)
       ELSE \E e \in KeyHolders(req[r].call.key) : AnswerWith(r, e, 200)
    /\ UNCHANGED <<evaluations, audits>>

Start(r) ==
    /\ At(r, "start")
    /\ IF Matches(r, {"queued"})
       THEN Update(r, Started(Stored(r))) /\ Goto(r, "evaluate")
       ELSE Answer(r, 409) /\ UNCHANGED evaluations
    /\ UNCHANGED audits

\* Evaluate on the snapshot in memory, then the one conditional update that
\* stores its outcome.  After an error, whether it changed a row is ignored.
StoreFailure(r) ==
    /\ At(r, "evaluate")
    /\ req[r].input \in FailingInputs
    /\ IF Matches(r, {"running"})
       THEN Update(r, Failed(Stored(r)))
       ELSE UNCHANGED evaluations
    /\ Answer(r, 422)
    /\ UNCHANGED audits

StoreResult(r) ==
    /\ At(r, "evaluate")
    /\ req[r].input \notin FailingInputs
    /\ IF Matches(r, {"running"})
       THEN Update(r, Completed(Stored(r), req[r].input)) /\ Goto(r, "reload")
       ELSE Answer(r, 409) /\ UNCHANGED evaluations
    /\ UNCHANGED audits

----------------------------------------------------------------------------
(***************************************************************************)
(* Confirm, Void and Replay                                                *)
(***************************************************************************)
\* Replay's verdict on the row it read: the conclusion must be the stored one.
Reproduces(row) == row.conclusion = row.input \/ row.input \in ZeroInputs

Verdict(op, row) ==
    IF op # "replay" THEN "none" ELSE IF Reproduces(row) THEN "passed" ELSE "failed"

\* Whom ReviewerSeparated's rule keeps from confirming this evaluation.
\* Mutant: separation from whoever ran the evaluation.
IsEvaluator(u, row) == row.by = u
IsAuthor(u, row) == AuthorOf[row.scenario] = u

\* GetByID, and the checks made on the row that was read.  The scenario
\* Confirm reads next contributes only its author, which no update changes.
LoadEvaluation(r) ==
    /\ At(r, "load")
    /\ LET c == req[r].call
           row == evaluations[c.id] IN
          IF ~Exists(c.id) THEN Answer(r, 404)
          ELSE \/ /\ c.op = "confirm"
                  /\ IsAuthor(c.actor, row)
                  /\ Answer(r, 409)
               \/ /\ c.op = "replay"
                  /\ row.input \in FailingInputs
                  /\ Answer(r, 422)
               \/ /\ c.op = "confirm" => ~IsAuthor(c.actor, row)
                  /\ c.op = "replay" => row.input \notin FailingInputs
                  /\ Become(r, [req[r] EXCEPT !.pc = "update", !.before = row,
                                              !.verdict = Verdict(c.op, row)])
    /\ UNCHANGED <<evaluations, audits>>

ConfirmTransition(r) ==
    /\ At(r, "update")
    /\ Op(r) = "confirm"
    /\ IF Matches(r, ConfirmableStates)
       THEN Update(r, Confirmed(Stored(r), req[r].call.actor)) /\ Goto(r, "reload")
       ELSE Answer(r, 409) /\ UNCHANGED evaluations
    /\ UNCHANGED audits

VoidTransition(r) ==
    /\ At(r, "update")
    /\ Op(r) = "void"
    /\ IF Matches(r, VoidableStates)
       THEN Update(r, Voided(Stored(r))) /\ Goto(r, "reload")
       ELSE Answer(r, 409) /\ UNCHANGED evaluations
    /\ UNCHANGED audits

\* Unconditional: whatever state the row is in by now.
SetReplayResult(r) ==
    /\ At(r, "update")
    /\ Op(r) = "replay"
    /\ Update(r, [Stored(r) EXCEPT !.replay = req[r].verdict])
    /\ Goto(r, "audit")
    /\ UNCHANGED audits

----------------------------------------------------------------------------
(***************************************************************************)
(* Shared tail: reload, audit entry, response, HTTP audit                  *)
(***************************************************************************)
Reload(r) ==
    /\ At(r, "reload")
    /\ Become(r, [req[r] EXCEPT !.pc = "audit", !.after = Stored(r)])
    /\ UNCHANGED <<evaluations, audits>>

\* Run and Replay log "{}" before; Confirm and Void log the two rows they read.
BeforeSnapshot(r) == IF Op(r) \in {"confirm", "void"} THEN req[r].before ELSE None
\* Mutant: the row read at the start is logged as the outcome.
AfterSnapshotNotReloaded(r) ==
    IF Op(r) \in {"confirm", "void"} THEN req[r].before ELSE None
AfterSnapshot(r) == IF Op(r) \in {"confirm", "void"} THEN req[r].after ELSE None

\* Mutant: the id of the route, which a Run does not have.
EntityIDOfRoute(r) == req[r].call.id
EntityID(r) == req[r].target

Entry(r) ==
    [request |-> r, action |-> Op(r), actor |-> req[r].call.actor,
     id |-> EntityID(r), before |-> BeforeSnapshot(r), after |-> AfterSnapshot(r),
     input |-> IF Op(r) = "run" THEN req[r].input ELSE req[r].before.input,
     verdict |-> req[r].verdict]

RecordAudit(r) ==
    /\ At(r, "audit")
    /\ audits' = audits \cup {Entry(r)}
    /\ \/ Op(r) = "run" /\ Answer(r, 201)
       \/ Op(r) \in {"confirm", "void"} /\ Answer(r, 200)
       \/ Op(r) = "replay" /\ req[r].verdict = "passed" /\ Goto(r, "get")
       \/ Op(r) = "replay" /\ req[r].verdict = "failed" /\ Answer(r, 409)
    /\ UNCHANGED evaluations

GetAfterReplay(r) ==
    /\ At(r, "get")
    /\ Become(r, [req[r] EXCEPT !.pc = "answered", !.status = 200,
                                !.after = Stored(r)])
    /\ UNCHANGED <<evaluations, audits>>

\* middleware/audit.go, after the handler: only a successful write is logged,
\* under the :id of the route (none for a Run).
LogsWrite(status) == status < 400

AuditMiddleware(r) ==
    /\ At(r, "answered")
    /\ audits' = IF ~LogsWrite(req[r].status) THEN audits
                 ELSE audits \cup
                      {[request |-> r, action |-> "http_write",
                        actor |-> req[r].call.actor, id |-> req[r].call.id,
                        before |-> None, after |-> None, input |-> None,
                        verdict |-> "none"]}
    /\ Goto(r, "done")
    /\ UNCHANGED evaluations

(***************************************************************************)
(* The client leaves or the process dies: the handler stops where it is    *)
(* and what it stored stays.  (At "answered" this is also a failed insert  *)
(* by the audit middleware, whose error only reaches the log.)             *)
(***************************************************************************)
InFlight(r) == req[r].pc \notin {"idle", "done", "aborted"}

Abort(r) ==
    /\ InFlight(r)
    /\ Goto(r, "aborted")
    /\ UNCHANGED <<evaluations, audits>>

\* Every repository call of the service returns early when its statement
\* fails, with a 500 for the client; nothing done before is undone.
DatabaseError(r) ==
    /\ InFlight(r) /\ ~At(r, "answered")
    /\ At(r, "find") => req[r].call.key \in AcceptableKeys
    /\ Answer(r, 500)
    /\ UNCHANGED <<evaluations, audits>>

Interrupt(r) == Abort(r) \/ DatabaseError(r)

Step(r) ==
    \/ FindByIdempotencyKey(r) \/ FreezeSnapshot(r) \/ Create(r)
    \/ FindAfterViolation(r) \/ Start(r) \/ StoreFailure(r) \/ StoreResult(r)
    \/ LoadEvaluation(r) \/ ConfirmTransition(r) \/ VoidTransition(r)
    \/ SetReplayResult(r) \/ Reload(r) \/ RecordAudit(r) \/ GetAfterReplay(r)
    \/ AuditMiddleware(r)

Next == \E r \in Requests : Submit(r) \/ Step(r) \/ Interrupt(r)

Spec == Init /\ [][Next]_vars

(***************************************************************************)
(* A handler goroutine that can run does run.  Nobody must send a request, *)
(* and nothing promises that a handler is not cut off.                     *)
(***************************************************************************)
FairSpec == Spec /\ \A r \in Requests : WF_vars(Step(r))

----------------------------------------------------------------------------
(***************************************************************************)
(* Properties                                                              *)
(***************************************************************************)
Labels == {"idle", "find", "freeze", "create", "refind", "start", "evaluate",
           "load", "update", "reload", "audit", "get", "answered", "done",
           "aborted"}
Statuses == {0, 200, 201, 400, 403, 404, 409, 422, 500}

Request == [pc : Labels, call : Calls \cup {None}, target : EvalIds \cup {None},
            input : Inputs \cup {None}, before : Row \cup {None},
            after : Row \cup {None}, verdict : Verdicts, status : Statuses]

(* Every stored row, audit entry and handler is well formed; in particular *)
(* no row names a scenario that does not exist.                            *)
TypeOK ==
    /\ evaluations \in [EvalIds -> Row \cup {None}]
    /\ audits \subseteq AuditEntry
    /\ req \in [Requests -> Request]

IsRun(r) == req[r].call # None /\ Op(r) = "run"
IsStateCall(r, op) == req[r].call # None /\ Op(r) = op
RunSucceeded(r) == IsRun(r) /\ req[r].status \in {200, 201}

(* However Run requests with one key interleave, all that succeed answer   *)
(* with the same evaluation, and only one of them created it               *)
(* (FindByIdempotencyKey, the unique index and the second lookup).         *)
SameKeySameEvaluation ==
    \A r, q \in Requests :
        /\ RunSucceeded(r) /\ RunSucceeded(q)
        /\ req[r].call.key = req[q].call.key
        => /\ req[r].target = req[q].target
           /\ req[r].status = 201 /\ req[q].status = 201 => r = q

(* No other request takes a row away from the Run that is computing it:    *)
(* the two conflict answers in Run cannot be reached.                      *)
RunKeepsItsRow == \A r \in Requests : IsRun(r) => req[r].status # 409

Unsettled(e) == Exists(e) /\ evaluations[e].state \in {"queued", "running"}

CutOff(r) == At(r, "aborted") \/ req[r].status = 500

(* A row that is queued or running has the Run that created it still at    *)
(* work on it at the matching step, unless that Run was cut off.           *)
UnsettledHasItsRun ==
    \A e \in EvalIds : Unsettled(e) =>
        \E r \in Requests :
            /\ IsRun(r) /\ req[r].target = e
            /\ \/ CutOff(r)
               \/ evaluations[e].state = "queued" /\ At(r, "start")
               \/ evaluations[e].state = "running" /\ At(r, "evaluate")

(* Of several concurrent Confirms of one evaluation at most one succeeds,  *)
(* and of several Voids likewise.                                          *)
OneWinner ==
    \A r, q \in Requests :
        /\ r # q /\ req[r].status = 200 /\ req[q].status = 200
        /\ \E op \in {"confirm", "void"} : IsStateCall(r, op) /\ IsStateCall(q, op)
        => req[r].target # req[q].target

(* Whoever confirmed an evaluation is not the author of its scenario and   *)
(* has a role that may confirm; what was confirmed is the conclusion drawn *)
(* from the row's own frozen input, and a later Void keeps the signature.  *)
ConfirmedByReviewer ==
    \A e \in EvalIds : Exists(e) =>
        /\ evaluations[e].state = "confirmed" => evaluations[e].confirmedBy # None
        /\ evaluations[e].confirmedBy # None =>
              /\ evaluations[e].confirmedBy # AuthorOf[evaluations[e].scenario]
              /\ RoleOf[evaluations[e].confirmedBy] \in PermittedRoles("confirm")
              /\ evaluations[e].state \in {"confirmed", "voided"}
              /\ evaluations[e].conclusion = evaluations[e].input

(* A client told that its Run, Confirm, Void or Replay took effect can     *)
(* find the audit entry of that request, made by it, on that evaluation.   *)
AnsweredWritesAudited ==
    \A r \in Requests :
        /\ req[r].call # None
        /\ req[r].status = (IF Op(r) = "run" THEN 201 ELSE 200)
        => \E a \in audits :
              /\ a.request = r /\ a.action = Op(r)
              /\ a.actor = req[r].call.actor /\ a.id = req[r].target

(* The rows a Confirm or Void entry shows belong to one evaluation, and    *)
(* the later one shows the effect of that very request: its actor as the   *)
(* confirmer, or the voided state.                                         *)
StateAuditsShowTheirEffect ==
    \A a \in audits : a.action \in {"confirm", "void"} =>
        /\ a.before.key = a.after.key
        /\ a.before.input = a.after.input
        /\ a.before.conclusion \in {None, a.after.conclusion}
        /\ IF a.action = "confirm"
           THEN /\ a.after.confirmedBy = a.actor
                /\ a.after.state \in {"confirmed", "voided"}
           ELSE a.after.state = "voided"

(* Replaying an evaluation that was read completed or confirmed passes:    *)
(* what is stored beside the input is what the input determines.           *)
ReplayOfSettledPasses ==
    \A r \in Requests :
        /\ IsStateCall(r, "replay") /\ req[r].before # None
        /\ req[r].before.state \in {"completed", "confirmed"}
        => req[r].verdict = "passed"

(* A request answered with an error left no entry in the audit trail,      *)
(* except a replay that ran: the stored result was not reproduced, or the  *)
(* row could not be read back afterwards.                                  *)
RefusalsUnlogged ==
    \A a \in audits :
        req[a.request].status >= 400 =>
            /\ a.action = "replay"
            /\ a.verdict = "failed" \/ req[a.request].status = 500

PublishedRecord ==
    [e \in EvalIds |-> IF Exists(e) THEN Published(evaluations[e]) ELSE None]

Lifecycle == INSTANCE CoverageLifecycle WITH record <- PublishedRecord

(* The handlers, interleaved and cut off anywhere, change a published      *)
(* evaluation only as its life cycle allows: frozen columns never change,  *)
(* a conclusion appears once and stays, voided is final.                   *)
ImplementsLifecycle == Lifecycle!Spec

(* A queued or running evaluation settles, unless its Run is cut off.      *)
UnsettledSettles ==
    \A e \in EvalIds : Unsettled(e) ~>
        \/ ~Unsettled(e)
        \/ \E r \in Requests :
              IsRun(r) /\ req[r].target = e /\ CutOff(r)
----------------------------------------------------------------------------
(***************************************************************************)
(* The inductive invariant: what ties a row to the handler working on it.  *)
(***************************************************************************)
\* r created the row it works on, or was answered 201 for it.
Created(r) ==
    /\ IsRun(r)
    /\ req[r].pc \in {"start", "evaluate", "reload", "audit"} \/ req[r].status = 201

\* r's update took effect.
Won(r, op) ==
    /\ IsStateCall(r, op)
    /\ req[r].pc \in {"reload", "audit"} \/ req[r].status = 200

RowInv(row) ==
    /\ row.conclusion \in {None, row.input}
    /\ row.state \in {"queued", "running"} => row.conclusion = None
    /\ row.state \in {"completed", "confirmed"} => row.conclusion = row.input
    /\ row.state = "confirmed" => row.confirmedBy # None
    /\ row.confirmedBy # None =>
          /\ row.state \in {"confirmed", "voided"}
          /\ row.conclusion = row.input
          /\ row.confirmedBy # AuthorOf[row.scenario]
          /\ RoleOf[row.confirmedBy] \in PermittedRoles("confirm")

\* A handler has a status only once it has answered.
AnswerInv(r) ==
    /\ req[r].call = None => At(r, "idle")
    /\ req[r].pc \notin {"answered", "done", "aborted"} => req[r].status = 0

RunInv(r) == IsRun(r) =>
    /\ req[r].pc \notin {"idle", "load", "update", "get"}
    /\ At(r, "create") => /\ req[r].call.scenario \in Scenarios
                         /\ req[r].input \in Inputs
    /\ Created(r) \/ req[r].status = 200 =>
          /\ req[r].target \in EvalIds /\ Exists(req[r].target)
          /\ Stored(r).key = req[r].call.key
    /\ Created(r) => Stored(r).input = req[r].input /\ req[r].input \in Inputs
    /\ At(r, "start") => Stored(r).state = "queued"
    /\ At(r, "evaluate") => Stored(r).state = "running"
    /\ req[r].status # 409

\* What the row a Confirm, Void or Replay read says of the row as it is now.
Precedes(old, new) ==
    /\ new.key = old.key /\ new.scenario = old.scenario /\ new.input = old.input
    /\ old.conclusion \in {None, new.conclusion}

StateCallInv(r) == req[r].call # None /\ Op(r) # "run" =>
    /\ req[r].pc \notin {"idle", "find", "freeze", "create", "refind", "start", "evaluate"}
    /\ req[r].status # 403 => /\ req[r].target = req[r].call.id
                             /\ RoleOf[req[r].call.actor] \in PermittedRoles(Op(r))
    /\ req[r].pc \in {"update", "reload", "audit", "get"} =>
          /\ Exists(req[r].target) /\ req[r].before # None
          /\ Precedes(req[r].before, Stored(r))
          /\ Op(r) = "confirm" => ~IsAuthor(req[r].call.actor, Stored(r))
    /\ At(r, "get") => Op(r) = "replay"
    /\ Won(r, "confirm") => /\ Exists(req[r].target)
                           /\ Stored(r).state \in {"confirmed", "voided"}
                           /\ Stored(r).confirmedBy = req[r].call.actor
    /\ Won(r, "void") => Exists(req[r].target) /\ Stored(r).state = "voided"

KeysUnique ==
    \A e, f \in EvalIds :
        /\ Exists(e) /\ Exists(f) /\ evaluations[e].key = evaluations[f].key
        => e = f

RowsInv == \A e \in EvalIds : Exists(e) => RowInv(evaluations[e])

HandlersInv == \A r \in Requests : AnswerInv(r) /\ RunInv(r) /\ StateCallInv(r)

CreatedOnce ==
    \A r, q \in Requests :
        Created(r) /\ Created(q) /\ req[r].target = req[q].target => r = q

WonOnce ==
    \A r, q \in Requests, op \in {"confirm", "void"} :
        Won(r, op) /\ Won(q, op) /\ req[r].target = req[q].target => r = q

IInv == TypeOK /\ KeysUnique /\ RowsInv /\ HandlersInv /\ CreatedOnce /\ WonOnce
=============================================================================
