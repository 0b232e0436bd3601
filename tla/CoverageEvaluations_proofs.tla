--------------------- MODULE CoverageEvaluations_proofs ---------------------
EXTENDS CoverageEvaluations, TLAPS

USE DEF At, Op

\* What the two shapes of a call say of its fields.
LEMMA CallTypes ==
    ASSUME IInv, NEW r \in Requests, req[r].pc # "idle"
    PROVE  /\ req[r].call \in Calls /\ req[r].call # None
           /\ req[r].call.actor \in Users
           /\ Op(r) \in Operations
           /\ Op(r) = "run" => /\ req[r].call.key \in Keys
                               /\ req[r].call.scenario \in ScenarioIds
                               /\ req[r].call.id = None
           /\ Op(r) # "run" => req[r].call.id \in EvalIds
  BY DEF IInv, TypeOK, Request, HandlersInv, AnswerInv, Calls, RunCalls,
         StateCalls, Operations

(* A handler past its first database write or read holds a stored row.     *)
LEMMA HoldsRow ==
    ASSUME IInv, NEW r \in Requests,
           req[r].pc \in {"start", "evaluate", "update", "reload", "audit", "get"}
    PROVE  /\ req[r].target \in EvalIds
           /\ Exists(req[r].target)
           /\ Stored(r) \in Row
           /\ Op(r) = "run" \/ req[r].before \in Row
<1>1. req[r].call # None /\ Op(r) \in Operations
  BY CallTypes
<1>2. req[r].target \in EvalIds /\ Exists(req[r].target)
  BY <1>1, CallTypes DEF IInv, HandlersInv, AnswerInv, RunInv, StateCallInv, Created,
                         IsRun, TypeOK, Request
<1>3. Stored(r) \in Row
  BY <1>2 DEF IInv, TypeOK, Exists, Stored
<1>4. Op(r) = "run" \/ req[r].before \in Row
  BY <1>1 DEF IInv, TypeOK, Request, HandlersInv, RunInv, StateCallInv, Created, IsRun
<1> QED BY <1>2, <1>3, <1>4

(* Which operation a label belongs to, where its guard does not say.       *)
LEMMA LabelsOfOperations ==
    ASSUME IInv, NEW r \in Requests
    PROVE  /\ req[r].pc \in {"find", "freeze", "create", "refind", "start", "evaluate"}
              => IsRun(r)
           /\ req[r].pc \in {"load", "update", "get"}
              => Op(r) \in {"confirm", "void", "replay"}
           /\ At(r, "evaluate") => req[r].input \in Inputs
           /\ At(r, "create") => /\ req[r].call.scenario \in Scenarios
                                /\ req[r].input \in Inputs
<1>1. CASE req[r].pc = "idle"
  BY <1>1 DEF IInv, HandlersInv, RunInv
<1>2. CASE req[r].pc # "idle"
  BY <1>2, CallTypes DEF IInv, HandlersInv, RunInv, StateCallInv, IsRun, Created, Operations
<1> QED BY <1>1, <1>2

(* Each update of a stored row leaves a well-formed row.                   *)
LEMMA RowUpdatesTyped ==
    ASSUME NEW row \in Row
    PROVE  /\ Started(row) \in Row /\ Failed(row) \in Row /\ Voided(row) \in Row
           /\ \A i \in Inputs : Completed(row, i) \in Row
           /\ \A u \in Users : Confirmed(row, u) \in Row
           /\ \A v \in Verdicts : [row EXCEPT !.replay = v] \in Row
  BY DEF Started, Failed, Completed, Confirmed, Voided, Row, States

\* The entry a handler writes at "audit" is well formed.
LEMMA EntryTyped ==
    ASSUME IInv, NEW r \in Requests, At(r, "audit")
    PROVE  Entry(r) \in AuditEntry
<1>1. req[r] \in Request
  BY DEF IInv, TypeOK
<1>2. req[r].input \in Inputs \cup {None} /\ req[r].verdict \in Verdicts
  BY <1>1 DEF Request
<1>3. Op(r) = "run" \/ req[r].before.input \in Inputs
  BY HoldsRow DEF Row
<1>4. /\ BeforeSnapshot(r) \in Row \cup {None}
      /\ AfterSnapshot(r) \in Row \cup {None}
      /\ EntityID(r) \in EvalIds \cup {None}
  BY <1>1 DEF BeforeSnapshot, AfterSnapshot, EntityID, Request
<1>5. req[r].call.actor \in Users /\ Op(r) \in Operations
  BY CallTypes
<1> QED BY <1>2, <1>3, <1>4, <1>5 DEF Entry, AuditEntry

(* The handler records the actions install are well formed ...             *)
LEMMA HandlerRecordsTyped ==
    ASSUME NEW h \in Request
    PROVE  /\ \A l \in Labels : [h EXCEPT !.pc = l] \in Request
           /\ \A code \in Statuses :
                 [h EXCEPT !.pc = "answered", !.status = code] \in Request
           /\ \A code \in Statuses, e \in EvalIds :
                 [h EXCEPT !.pc = "answered", !.status = code, !.target = e] \in Request
           /\ \A c \in Calls :
                 /\ [h EXCEPT !.pc = "answered", !.call = c, !.status = 403] \in Request
                 /\ [h EXCEPT !.pc = FirstLabel(c.op), !.call = c, !.target = c.id]
                       \in Request
           /\ \A i \in Inputs : [h EXCEPT !.pc = "create", !.input = i] \in Request
           /\ \A e \in EvalIds : [h EXCEPT !.pc = "start", !.target = e] \in Request
           /\ \A row \in Row, v \in Verdicts :
                 [h EXCEPT !.pc = "update", !.before = row, !.verdict = v] \in Request
           /\ \A row \in Row :
                 /\ [h EXCEPT !.pc = "audit", !.after = row] \in Request
                 /\ [h EXCEPT !.pc = "answered", !.status = 200, !.after = row]
                       \in Request
<1>1. ASSUME NEW c \in Calls
      PROVE  /\ [h EXCEPT !.pc = "answered", !.call = c, !.status = 403] \in Request
             /\ [h EXCEPT !.pc = FirstLabel(c.op), !.call = c, !.target = c.id] \in Request
  <2>1. c.id \in EvalIds \cup {None} /\ FirstLabel(c.op) \in Labels
    BY DEF Calls, RunCalls, StateCalls, FirstLabel, Labels
  <2>2. "answered" \in Labels /\ 403 \in Statuses
    BY DEF Labels, Statuses
  <2>3. ASSUME NEW l \in Labels, NEW code \in Statuses
        PROVE  [h EXCEPT !.pc = l, !.call = c, !.status = code] \in Request
    BY DEF Request
  <2>4. [h EXCEPT !.pc = FirstLabel(c.op), !.call = c, !.target = c.id] \in Request
    BY <2>1 DEF Request
  <2> QED BY <2>2, <2>3, <2>4
<1>2. ASSUME NEW l \in Labels PROVE [h EXCEPT !.pc = l] \in Request
  BY DEF Request
<1>3. ASSUME NEW code \in Statuses
      PROVE  [h EXCEPT !.pc = "answered", !.status = code] \in Request
  BY DEF Request, Labels
<1>4. ASSUME NEW code \in Statuses, NEW e \in EvalIds
      PROVE  [h EXCEPT !.pc = "answered", !.status = code, !.target = e] \in Request
  BY DEF Request, Labels
<1>5. ASSUME NEW i \in Inputs PROVE [h EXCEPT !.pc = "create", !.input = i] \in Request
  BY DEF Request, Labels
<1>6. ASSUME NEW e \in EvalIds PROVE [h EXCEPT !.pc = "start", !.target = e] \in Request
  BY DEF Request, Labels
<1>7. ASSUME NEW row \in Row, NEW v \in Verdicts
      PROVE  [h EXCEPT !.pc = "update", !.before = row, !.verdict = v] \in Request
  BY DEF Request, Labels
<1>8. ASSUME NEW row \in Row
      PROVE  /\ [h EXCEPT !.pc = "audit", !.after = row] \in Request
             /\ [h EXCEPT !.pc = "answered", !.status = 200, !.after = row] \in Request
  <2>1. "answered" \in Labels /\ "audit" \in Labels /\ 200 \in Statuses
    BY DEF Labels, Statuses
  <2>2. [h EXCEPT !.pc = "audit", !.after = row] \in Request
    BY <2>1 DEF Request
  <2>3. [h EXCEPT !.pc = "answered", !.status = 200] \in Request
    BY <1>3, <2>1
  <2>4. ASSUME NEW k \in Request PROVE [k EXCEPT !.after = row] \in Request
    BY DEF Request
  <2>5. [[h EXCEPT !.pc = "answered", !.status = 200] EXCEPT !.after = row] \in Request
    BY <2>3, <2>4
  <2>6. [[h EXCEPT !.pc = "answered", !.status = 200] EXCEPT !.after = row]
           = [h EXCEPT !.pc = "answered", !.status = 200, !.after = row]
    OBVIOUS
  <2> QED BY <2>2, <2>5, <2>6
<1> QED BY <1>1, <1>2, <1>3, <1>4, <1>5, <1>6, <1>7, <1>8

(* What a step or an interruption makes of its handler, action by action.  *)
Loaded(r) ==
    Become(r, [req[r] EXCEPT
                 !.pc = "update", !.before = evaluations[req[r].call.id],
                 !.verdict = Verdict(req[r].call.op, evaluations[req[r].call.id])])

LEMMA LoadMoves ==
    ASSUME NEW r, LoadEvaluation(r)
    PROVE  Answer(r, 404) \/ Answer(r, 409) \/ Answer(r, 422) \/ Loaded(r)
<1>1. CASE Exists(req[r].call.id)
  BY <1>1, Zenon DEF LoadEvaluation, Loaded
<1>2. CASE ~Exists(req[r].call.id)
  BY <1>2, Zenon DEF LoadEvaluation
<1> QED BY <1>1, <1>2

Moved(r) ==
    \/ \E l \in Labels \ {"audit"} : Goto(r, l)
    \/ SetReplayResult(r) /\ Goto(r, "audit")
    \/ \E code : Answer(r, code)
    \/ \E e, code : AnswerWith(r, e, code)
    \/ \E i : Become(r, [req[r] EXCEPT !.pc = "create", !.input = i])
    \/ \E e : Become(r, [req[r] EXCEPT !.pc = "start", !.target = e])
    \/ LoadEvaluation(r) /\ Loaded(r)
    \/ Reload(r) /\ Become(r, [req[r] EXCEPT !.pc = "audit", !.after = Stored(r)])
    \/ GetAfterReplay(r) /\ Become(r, [req[r] EXCEPT !.pc = "answered", !.status = 200,
                                                    !.after = Stored(r)])

LEMMA StepMoves ==
    ASSUME NEW r, Step(r) \/ Interrupt(r)
    PROVE  Moved(r) /\ req[r].pc # "idle"
<1> USE DEF Moved, Labels
<1>1. CASE FindByIdempotencyKey(r)
  BY <1>1 DEF FindByIdempotencyKey
<1>2. CASE FreezeSnapshot(r)
  BY <1>2 DEF FreezeSnapshot
<1>3. CASE Create(r)
  BY <1>3 DEF Create
<1>4. CASE FindAfterViolation(r)
  BY <1>4 DEF FindAfterViolation
<1>5. CASE Start(r)
  BY <1>5 DEF Start
<1>6. CASE StoreFailure(r)
  BY <1>6 DEF StoreFailure
<1>7. CASE StoreResult(r)
  BY <1>7 DEF StoreResult
<1>8. CASE LoadEvaluation(r)
  <2>1. req[r].pc # "idle"
    BY <1>8 DEF LoadEvaluation
  <2> QED BY <1>8, <2>1, LoadMoves
<1>9. CASE ConfirmTransition(r)
  BY <1>9 DEF ConfirmTransition
<1>10. CASE VoidTransition(r)
  BY <1>10 DEF VoidTransition
<1>11. CASE SetReplayResult(r)
  BY <1>11 DEF SetReplayResult
<1>12. CASE Reload(r)
  BY <1>12 DEF Reload
<1>13. CASE RecordAudit(r)
  BY <1>13 DEF RecordAudit
<1>14. CASE GetAfterReplay(r)
  BY <1>14 DEF GetAfterReplay
<1>15. CASE AuditMiddleware(r)
  BY <1>15 DEF AuditMiddleware
<1>16. CASE Abort(r)
  BY <1>16 DEF Abort, InFlight
<1>17. CASE DatabaseError(r)
  BY <1>17 DEF DatabaseError, InFlight
<1> QED BY <1>1, <1>2, <1>3, <1>4, <1>5, <1>6, <1>7, <1>8, <1>9, <1>10, <1>11, <1>12,
           <1>13, <1>14, <1>15, <1>16, <1>17 DEF Step, Interrupt

(* ... and so is what every step makes of its handler.                     *)
LEMMA HandlersTyped ==
    ASSUME IInv, NEW r \in Requests, Submit(r) \/ Step(r) \/ Interrupt(r)
    PROVE  req' \in [Requests -> Request]
<1>1. req \in [Requests -> Request] /\ req[r] \in Request
  BY DEF IInv, TypeOK
<1>2. ASSUME NEW h \in Request, Become(r, h) PROVE req' \in [Requests -> Request]
  BY <1>1, <1>2 DEF Become
<1>3. ASSUME NEW l \in Labels, Goto(r, l) PROVE req' \in [Requests -> Request]
  BY <1>1, <1>2, <1>3, HandlerRecordsTyped DEF Goto
<1>4. ASSUME NEW code \in Statuses, Answer(r, code) PROVE req' \in [Requests -> Request]
  BY <1>1, <1>2, <1>4, HandlerRecordsTyped DEF Answer
<1>5. ASSUME NEW code \in Statuses, NEW e \in EvalIds, AnswerWith(r, e, code)
      PROVE  req' \in [Requests -> Request]
  BY <1>1, <1>2, <1>5, HandlerRecordsTyped DEF AnswerWith
<1>6. CASE Submit(r)
  <2>1. \E c \in Calls :
          \/ Become(r, [req[r] EXCEPT !.pc = "answered", !.call = c, !.status = 403])
          \/ Become(r, [req[r] EXCEPT !.pc = FirstLabel(c.op), !.call = c,
                                      !.target = c.id])
    BY <1>6 DEF Submit
  <2>2. ASSUME NEW c \in Calls
        PROVE  /\ [req[r] EXCEPT !.pc = "answered", !.call = c, !.status = 403] \in Request
               /\ [req[r] EXCEPT !.pc = FirstLabel(c.op), !.call = c, !.target = c.id]
                     \in Request
    BY <1>1, HandlerRecordsTyped, Zenon
  <2> QED BY <1>2, <2>1, <2>2
<1>7. CASE FindByIdempotencyKey(r)
  BY <1>3, <1>4, <1>5, <1>7 DEF FindByIdempotencyKey, KeyHolders, Labels, Statuses
<1>8. CASE FreezeSnapshot(r)
  <2>1. \/ Answer(r, 404)
        \/ \E i \in Inputs : Become(r, [req[r] EXCEPT !.pc = "create", !.input = i])
    BY <1>8 DEF FreezeSnapshot
  <2>2. 404 \in Statuses
    BY DEF Statuses
  <2> QED BY <1>1, <1>2, <1>4, <2>1, <2>2, HandlerRecordsTyped
<1>9. CASE Create(r)
  BY <1>1, <1>2, <1>3, <1>9, HandlerRecordsTyped DEF Create, Labels
<1>10. CASE FindAfterViolation(r)
  BY <1>4, <1>5, <1>10 DEF FindAfterViolation, KeyHolders, Statuses
<1>11. CASE Start(r)
  BY <1>3, <1>4, <1>11 DEF Start, Labels, Statuses
<1>12. CASE StoreFailure(r)
  BY <1>4, <1>12 DEF StoreFailure, Statuses
<1>13. CASE StoreResult(r)
  BY <1>3, <1>4, <1>13 DEF StoreResult, Labels, Statuses
<1>14. CASE LoadEvaluation(r)
  <2>1. req[r].call.id \in EvalIds
    BY <1>14, CallTypes, LabelsOfOperations DEF LoadEvaluation
  <2>2. Exists(req[r].call.id) => evaluations[req[r].call.id] \in Row
    BY <2>1 DEF Exists, IInv, TypeOK
  <2>3. ASSUME NEW row PROVE Verdict(req[r].call.op, row) \in Verdicts
    BY DEF Verdict, Verdicts
  <2>4. \/ \E code \in Statuses : Answer(r, code)
        \/ /\ Exists(req[r].call.id)
           /\ Become(r, [req[r] EXCEPT
                  !.pc = "update", !.before = evaluations[req[r].call.id],
                  !.verdict = Verdict(req[r].call.op, evaluations[req[r].call.id])])
    BY <1>14 DEF LoadEvaluation, Statuses
  <2> QED BY <1>1, <1>2, <1>4, <2>2, <2>3, <2>4, HandlerRecordsTyped
<1>15. CASE ConfirmTransition(r)
  BY <1>3, <1>4, <1>15 DEF ConfirmTransition, Labels, Statuses
<1>16. CASE VoidTransition(r)
  BY <1>3, <1>4, <1>16 DEF VoidTransition, Labels, Statuses
<1>17. CASE SetReplayResult(r)
  BY <1>3, <1>17 DEF SetReplayResult, Labels
<1>18. CASE Reload(r)
  <2>1. Stored(r) \in Row
    BY <1>18, HoldsRow DEF Reload
  <2>2. [req[r] EXCEPT !.pc = "audit", !.after = Stored(r)] \in Request
    BY <1>1, <2>1, HandlerRecordsTyped, Zenon
  <2> QED BY <1>2, <1>18, <2>2 DEF Reload
<1>19. CASE RecordAudit(r)
  BY <1>3, <1>4, <1>19 DEF RecordAudit, Labels, Statuses
<1>20. CASE GetAfterReplay(r)
  <2>1. Stored(r) \in Row
    BY <1>20, HoldsRow DEF GetAfterReplay
  <2>2. [req[r] EXCEPT !.pc = "answered", !.status = 200, !.after = Stored(r)] \in Request
    BY <1>1, <2>1, HandlerRecordsTyped, Zenon
  <2> QED BY <1>2, <1>20, <2>2 DEF GetAfterReplay
<1>21. CASE AuditMiddleware(r)
  BY <1>3, <1>21 DEF AuditMiddleware, Labels
<1>22. CASE Interrupt(r)
  BY <1>3, <1>4, <1>22 DEF Interrupt, Abort, DatabaseError, Labels, Statuses
<1> QED BY <1>6, <1>7, <1>8, <1>9, <1>10, <1>11, <1>12, <1>13, <1>14, <1>15, <1>16,
           <1>17, <1>18, <1>19, <1>20, <1>21, <1>22 DEF Step

\* Every step leaves well-formed audit entries.
LEMMA AuditsTyped ==
    ASSUME IInv, NEW r \in Requests, Submit(r) \/ Step(r) \/ Interrupt(r)
    PROVE  audits' \subseteq AuditEntry
<1>1. audits \subseteq AuditEntry
  BY DEF IInv, TypeOK
<1>2. CASE RecordAudit(r)
  BY <1>1, <1>2, EntryTyped DEF RecordAudit
<1>3. CASE AuditMiddleware(r)
  <2>1. [request |-> r, action |-> "http_write", actor |-> req[r].call.actor,
         id |-> req[r].call.id, before |-> None, after |-> None, input |-> None,
         verdict |-> "none"] \in AuditEntry
    BY <1>3, CallTypes DEF AuditMiddleware, AuditEntry, Verdicts, Operations
  <2> QED BY <1>1, <1>3, <2>1 DEF AuditMiddleware
<1>4. CASE UNCHANGED audits
  BY <1>1, <1>4
<1> QED BY <1>2, <1>3, <1>4 DEF Step, Submit, Interrupt, Abort, DatabaseError,
     FindByIdempotencyKey, FreezeSnapshot, Create, FindAfterViolation, Start, StoreFailure,
     StoreResult, LoadEvaluation, ConfirmTransition, VoidTransition, SetReplayResult, Reload,
     GetAfterReplay

\* Every step leaves well-formed rows.
LEMMA RowsTyped ==
    ASSUME IInv, NEW r \in Requests, Submit(r) \/ Step(r) \/ Interrupt(r)
    PROVE  evaluations' \in [EvalIds -> Row \cup {None}]
<1>1. evaluations \in [EvalIds -> Row \cup {None}]
  BY DEF IInv, TypeOK
<1>2. ASSUME NEW row \in Row, Update(r, row), req[r].target \in EvalIds
      PROVE  evaluations' \in [EvalIds -> Row \cup {None}]
  BY <1>1, <1>2 DEF Update
<1>3. CASE Create(r)
  <2>1. /\ req[r].call.key \in Keys /\ req[r].call.scenario \in Scenarios
        /\ req[r].call.actor \in Users /\ req[r].input \in Inputs
    BY <1>3, LabelsOfOperations, CallTypes DEF Create, IsRun
  <2>2. [key |-> req[r].call.key, scenario |-> req[r].call.scenario,
         by |-> req[r].call.actor, input |-> req[r].input, state |-> "queued",
         conclusion |-> None, confirmedBy |-> None, replay |-> "none"] \in Row
    BY <2>1 DEF Row, States, Verdicts
  <2> QED BY <1>1, <1>3, <2>2 DEF Create
<1>4. CASE Start(r)
  BY <1>1, <1>2, <1>4, HoldsRow, RowUpdatesTyped DEF Start
<1>5. CASE StoreFailure(r)
  BY <1>1, <1>2, <1>5, HoldsRow, RowUpdatesTyped DEF StoreFailure
<1>6. CASE StoreResult(r)
  BY <1>1, <1>2, <1>6, HoldsRow, LabelsOfOperations, RowUpdatesTyped DEF StoreResult
<1>7. CASE ConfirmTransition(r)
  BY <1>1, <1>2, <1>7, HoldsRow, CallTypes, RowUpdatesTyped DEF ConfirmTransition
<1>8. CASE VoidTransition(r)
  BY <1>1, <1>2, <1>8, HoldsRow, RowUpdatesTyped DEF VoidTransition
<1>9. CASE SetReplayResult(r)
  <2>1. req[r].verdict \in Verdicts
    BY DEF IInv, TypeOK, Request
  <2> QED BY <1>2, <1>9, <2>1, HoldsRow, RowUpdatesTyped DEF SetReplayResult
<1>10. CASE UNCHANGED evaluations
  BY <1>1, <1>10
<1> QED BY <1>3, <1>4, <1>5, <1>6, <1>7, <1>8, <1>9, <1>10 DEF Step, Submit, Interrupt,
     Abort, DatabaseError, FindByIdempotencyKey, FreezeSnapshot, FindAfterViolation,
     LoadEvaluation, Reload, RecordAudit, GetAfterReplay, AuditMiddleware

\* The typing invariant is preserved.
LEMMA TypingStep ==
    ASSUME IInv, [Next]_vars
    PROVE  TypeOK'
<1>1. CASE UNCHANGED vars
  BY <1>1 DEF vars, IInv, TypeOK
<1> QED BY <1>1, HandlersTyped, AuditsTyped, RowsTyped DEF Next, TypeOK

----------------------------------------------------------------------------
(***************************************************************************)
(* What one step does to the other handlers and to the rows                *)
(***************************************************************************)
\* A step of one request leaves the other handlers as they are.
LEMMA OtherHandlers ==
    ASSUME IInv, NEW r \in Requests, Submit(r) \/ Step(r) \/ Interrupt(r),
           NEW q \in Requests, q # r
    PROVE  req'[q] = req[q]
<1>1. \E h : Become(r, h)
  <2>1. CASE Submit(r)
    BY <2>1, Zenon DEF Submit
  <2>2. CASE Step(r) \/ Interrupt(r)
    BY <2>2, StepMoves, Zenon DEF Moved, Loaded, Goto, Answer, AnswerWith
  <2> QED BY <2>1, <2>2
<1> QED BY <1>1 DEF Become, IInv, TypeOK

(* A step changes at most the row its handler holds ...                    *)
LEMMA OtherRows ==
    ASSUME IInv, NEW r \in Requests, Submit(r) \/ Step(r) \/ Interrupt(r),
           NEW e \in EvalIds, Exists(e), e # req[r].target
    PROVE  evaluations'[e] = evaluations[e]
  BY DEF Step, Submit, Interrupt, Abort, DatabaseError, FindByIdempotencyKey,
       FreezeSnapshot, Create, FindAfterViolation, Start, StoreFailure, StoreResult,
       LoadEvaluation, ConfirmTransition, VoidTransition, SetReplayResult, Reload,
       RecordAudit, GetAfterReplay, AuditMiddleware, Update, Exists, IInv, TypeOK

RowStep(r, old, new) ==
    \/ new = old
    \/ IsRun(r) /\ At(r, "start") /\ old.state = "queued" /\ new = Started(old)
    \/ IsRun(r) /\ At(r, "evaluate") /\ old.state = "running" /\ new = Failed(old)
    \/ /\ IsRun(r) /\ At(r, "evaluate") /\ old.state = "running"
       /\ new = Completed(old, req[r].input)
    \/ /\ IsStateCall(r, "confirm") /\ At(r, "update")
       /\ old.state = "completed" /\ new = Confirmed(old, req[r].call.actor)
    \/ /\ IsStateCall(r, "void") /\ At(r, "update")
       /\ old.state \in VoidableStates /\ new = Voided(old)
    \/ /\ IsStateCall(r, "replay")
       /\ \E v \in Verdicts : new = [old EXCEPT !.replay = v]

(* ... and that one as its handler's conditional update allows.            *)
LEMMA TargetRow ==
    ASSUME IInv, NEW r \in Requests, Submit(r) \/ Step(r) \/ Interrupt(r),
           NEW e \in EvalIds, Exists(e), e = req[r].target
    PROVE  RowStep(r, evaluations[e], evaluations'[e])
<1> USE DEF RowStep, Stored, Update, Matches
<1>0. evaluations \in [EvalIds -> Row \cup {None}] /\ req[r].verdict \in Verdicts
  BY DEF IInv, TypeOK, Request
<1>1. CASE Create(r)
  BY <1>1 DEF Create, Exists, IInv, TypeOK
<1>2. CASE Start(r)
  BY <1>0, <1>2, LabelsOfOperations DEF Start
<1>3. CASE StoreFailure(r)
  BY <1>0, <1>3, LabelsOfOperations DEF StoreFailure
<1>4. CASE StoreResult(r)
  BY <1>0, <1>4, LabelsOfOperations DEF StoreResult
<1>5. CASE ConfirmTransition(r)
  BY <1>0, <1>5, CallTypes DEF ConfirmTransition, IsStateCall, ConfirmableStates
<1>6. CASE VoidTransition(r)
  BY <1>0, <1>6, CallTypes DEF VoidTransition, IsStateCall
<1>7. CASE SetReplayResult(r)
  BY <1>0, <1>7, CallTypes DEF SetReplayResult, IsStateCall
<1>8. CASE UNCHANGED evaluations
  BY <1>8
<1> QED BY <1>1, <1>2, <1>3, <1>4, <1>5, <1>6, <1>7, <1>8 DEF Step, Submit, Interrupt,
     Abort, DatabaseError, FindByIdempotencyKey, FreezeSnapshot, FindAfterViolation,
     LoadEvaluation, Reload, RecordAudit, GetAfterReplay, AuditMiddleware

(* A row's key, scenario and input never change, and its conclusion stays. *)
LEMMA RowStepPrecedes ==
    ASSUME IInv, NEW r \in Requests, NEW old \in Row, NEW new,
           RowStep(r, old, new), RowInv(old),
           At(r, "evaluate") => req[r].input = old.input
    PROVE  Precedes(old, new)
  BY DEF RowStep, Precedes, Started, Failed, Completed, Confirmed, Voided, Row, RowInv

\* No update of a stored row breaks what a row says of itself.
LEMMA RowStepKeepsRowInv ==
    ASSUME IInv, NEW r \in Requests, NEW old \in Row, NEW new,
           RowStep(r, old, new), RowInv(old),
           At(r, "evaluate") => req[r].input = old.input,
           IsStateCall(r, "confirm") /\ At(r, "update") =>
              /\ req[r].call.actor \in Users
              /\ ~IsAuthor(req[r].call.actor, old)
              /\ RoleOf[req[r].call.actor] \in PermittedRoles("confirm")
    PROVE  RowInv(new)
<1> USE DEF Row, RowInv
<1>0. None \notin Users /\ None \notin Inputs
  BY ScopeAssumption
<1>1. CASE new = old
  BY <1>1
<1>2. CASE old.state = "queued" /\ new = Started(old)
  BY <1>2 DEF Started
<1>3. CASE old.state = "running" /\ new = Failed(old)
  BY <1>3 DEF Failed
<1>4. CASE At(r, "evaluate") /\ old.state = "running" /\ new = Completed(old, req[r].input)
  BY <1>4 DEF Completed
<1>5. CASE /\ IsStateCall(r, "confirm") /\ At(r, "update")
           /\ old.state = "completed" /\ new = Confirmed(old, req[r].call.actor)
  BY <1>0, <1>5 DEF Confirmed, IsAuthor
<1>6. CASE old.state \in VoidableStates /\ new = Voided(old)
  BY <1>6 DEF Voided, VoidableStates
<1>7. CASE \E v \in Verdicts : new = [old EXCEPT !.replay = v]
  BY <1>7
<1> QED BY <1>1, <1>2, <1>3, <1>4, <1>5, <1>6, <1>7 DEF RowStep

(* Every stored row stays stored and makes a RowStep.                      *)
LEMMA RowAfter ==
    ASSUME IInv, NEW r \in Requests, Submit(r) \/ Step(r) \/ Interrupt(r),
           NEW e \in EvalIds, Exists(e)
    PROVE  /\ evaluations[e] \in Row /\ evaluations'[e] \in Row
           /\ Exists(e)'
           /\ RowStep(r, evaluations[e], evaluations'[e])
           /\ evaluations'[e] # evaluations[e] => e = req[r].target
           /\ Precedes(evaluations[e], evaluations'[e])
           /\ RowInv(evaluations'[e])
<1>1. evaluations[e] \in Row /\ RowInv(evaluations[e]) /\ None \notin Row
  BY ScopeAssumption DEF IInv, TypeOK, RowsInv, Exists
<1>2. CASE e # req[r].target
  <2>1. evaluations'[e] = evaluations[e]
    BY <1>2, OtherRows
  <2> QED BY <1>1, <1>2, <2>1 DEF Exists, RowStep, Precedes, RowInv
<1>3. CASE e = req[r].target
  <2>1. RowStep(r, evaluations[e], evaluations'[e])
    BY <1>3, TargetRow
  <2>2. At(r, "evaluate") => req[r].input = evaluations[e].input
    BY <1>3, LabelsOfOperations DEF IInv, HandlersInv, RunInv, Created, Stored
  <2>3. IsStateCall(r, "confirm") /\ At(r, "update") =>
              /\ req[r].call.actor \in Users
              /\ ~IsAuthor(req[r].call.actor, evaluations[e])
              /\ RoleOf[req[r].call.actor] \in PermittedRoles("confirm")
    <3> SUFFICES ASSUME IsStateCall(r, "confirm"), At(r, "update")
                 PROVE  /\ req[r].call.actor \in Users
                        /\ ~IsAuthor(req[r].call.actor, evaluations[e])
                        /\ RoleOf[req[r].call.actor] \in PermittedRoles("confirm")
      OBVIOUS
    <3>1. req[r].call.actor \in Users
      BY CallTypes
    <3>2. StateCallInv(r) /\ AnswerInv(r) /\ req[r].call # None /\ Op(r) = "confirm"
      BY DEF IInv, HandlersInv, IsStateCall
    <3> QED BY <1>3, <3>1, <3>2 DEF StateCallInv, AnswerInv, Stored
  <2>4. Precedes(evaluations[e], evaluations'[e])
    BY <1>1, <2>1, <2>2, RowStepPrecedes
  <2>5. RowInv(evaluations'[e])
    BY <1>1, <2>1, <2>2, <2>3, RowStepKeepsRowInv
  <2>6. evaluations' \in [EvalIds -> Row \cup {None}]
    BY RowsTyped
  <2>7. evaluations'[e] # None
    <3>1. evaluations'[e] = evaluations[e] \/ evaluations'[e] \in Row
      BY <1>1, <2>1, RowUpdatesTyped, CallTypes, LabelsOfOperations DEF RowStep
    <3> QED BY <1>1, <3>1
  <2> QED BY <1>1, <1>3, <2>1, <2>4, <2>5, <2>6, <2>7 DEF Exists
<1> QED BY <1>2, <1>3

(* A row appears only by Create, when no row has its key.                  *)
LEMMA NewRow ==
    ASSUME IInv, NEW r \in Requests, Submit(r) \/ Step(r) \/ Interrupt(r),
           NEW e \in EvalIds, ~Exists(e), Exists(e)'
    PROVE  /\ Create(r) /\ KeyHolders(req[r].call.key) = {}
           /\ req'[r] = [req[r] EXCEPT !.pc = "start", !.target = e]
           /\ evaluations'[e] =
                 [key |-> req[r].call.key, scenario |-> req[r].call.scenario,
                  by |-> req[r].call.actor, input |-> req[r].input,
                  state |-> "queued", conclusion |-> None,
                  confirmedBy |-> None, replay |-> "none"]
<1>1. evaluations'[e] # evaluations[e]
  BY DEF Exists
<1>2. CASE Create(r)
  <2>1. ~UniqueViolation(req[r].call.key)
    BY <1>1, <1>2 DEF Create
  <2>2. PICK f \in EvalIds :
          /\ evaluations' = [evaluations EXCEPT ![f] =
                [key |-> req[r].call.key, scenario |-> req[r].call.scenario,
                 by |-> req[r].call.actor, input |-> req[r].input,
                 state |-> "queued", conclusion |-> None,
                 confirmedBy |-> None, replay |-> "none"]]
          /\ Become(r, [req[r] EXCEPT !.pc = "start", !.target = f])
    BY <1>2, <2>1 DEF Create
  <2>3. evaluations \in [EvalIds -> Row \cup {None}] /\ req \in [Requests -> Request]
    BY DEF IInv, TypeOK
  <2>4. e = f
    BY <1>1, <2>2, <2>3
  <2>5. req'[r] = [req[r] EXCEPT !.pc = "start", !.target = e]
    BY <2>2, <2>3, <2>4 DEF Become
  <2> QED BY <1>2, <2>1, <2>2, <2>3, <2>4, <2>5 DEF UniqueViolation
<1>3. CASE ~Create(r)
  <2>1. \/ UNCHANGED evaluations
        \/ /\ req[r].target \in EvalIds /\ Exists(req[r].target)
           /\ \E row : Update(r, row)
    BY <1>3, HoldsRow DEF Step, Submit, Interrupt, Abort, DatabaseError,
         FindByIdempotencyKey, FreezeSnapshot, FindAfterViolation, Start, StoreFailure,
         StoreResult, LoadEvaluation, ConfirmTransition, VoidTransition, SetReplayResult,
         Reload, RecordAudit, GetAfterReplay, AuditMiddleware
  <2> QED BY <1>1, <2>1 DEF Update, Exists, IInv, TypeOK
<1> QED BY <1>2, <1>3

\* RowsInv is preserved.
LEMMA RowsInvStep ==
    ASSUME IInv, NEW r \in Requests, Submit(r) \/ Step(r) \/ Interrupt(r)
    PROVE  RowsInv'
<1> SUFFICES ASSUME NEW e \in EvalIds, Exists(e)'
             PROVE  RowInv(evaluations'[e])
  BY DEF RowsInv, RowInv
<1>1. CASE Exists(e)
  BY <1>1, RowAfter
<1>2. CASE ~Exists(e)
  <2>1. evaluations'[e] =
           [key |-> req[r].call.key, scenario |-> req[r].call.scenario,
            by |-> req[r].call.actor, input |-> req[r].input, state |-> "queued",
            conclusion |-> None, confirmedBy |-> None, replay |-> "none"]
    BY <1>2, NewRow
  <2> QED BY <2>1 DEF RowInv
<1> QED BY <1>1, <1>2

\* Keys stay unique: Create is the only insert and it checks the index.
LEMMA KeysUniqueStep ==
    ASSUME IInv, NEW r \in Requests, Submit(r) \/ Step(r) \/ Interrupt(r)
    PROVE  KeysUnique'
<1> SUFFICES ASSUME NEW e \in EvalIds, NEW f \in EvalIds, Exists(e)', Exists(f)',
                    evaluations'[e].key = evaluations'[f].key
             PROVE  e = f
  BY DEF KeysUnique, Exists
<1>1. ASSUME NEW g \in EvalIds, Exists(g)
      PROVE  evaluations'[g].key = evaluations[g].key
  BY <1>1, RowAfter DEF Precedes
<1>2. ASSUME NEW g \in EvalIds, NEW h \in EvalIds, Exists(g), ~Exists(h), Exists(h)'
      PROVE  evaluations'[g].key # evaluations'[h].key
  <2>1. KeyHolders(req[r].call.key) = {}
    BY <1>2, NewRow
  <2>2. evaluations'[h] =
           [key |-> req[r].call.key, scenario |-> req[r].call.scenario,
            by |-> req[r].call.actor, input |-> req[r].input, state |-> "queued",
            conclusion |-> None, confirmedBy |-> None, replay |-> "none"]
    BY <1>2, NewRow
  <2>3. evaluations'[h].key = req[r].call.key
    BY <2>2
  <2> QED BY <1>1, <1>2, <2>1, <2>3 DEF KeyHolders
<1>3. CASE Exists(e) /\ Exists(f)
  BY <1>1, <1>3 DEF IInv, KeysUnique
<1>4. CASE ~Exists(e) /\ ~Exists(f)
  <2>1. /\ req'[r] = [req[r] EXCEPT !.pc = "start", !.target = e]
        /\ req'[r] = [req[r] EXCEPT !.pc = "start", !.target = f]
    BY <1>4, NewRow
  <2>2. req[r] \in Request
    BY DEF IInv, TypeOK
  <2> QED BY <2>1, <2>2 DEF Request
<1> QED BY <1>2, <1>3, <1>4

----------------------------------------------------------------------------
(***************************************************************************)
(* Handlers: the others keep what they know of their rows ...              *)
(***************************************************************************)
\* ... and stay, or stay not, creators and winners ...
LEMMA OthersCreated ==
    ASSUME IInv, NEW r \in Requests, Submit(r) \/ Step(r) \/ Interrupt(r),
           NEW q \in Requests, q # r
    PROVE  /\ Created(q)' = Created(q) /\ IsRun(q)' = IsRun(q)
           /\ \A op : Won(q, op)' = Won(q, op)
  BY OtherHandlers DEF Created, IsRun, Won, IsStateCall

\* ... and a Run what it knows of the row it created ...
LEMMA OthersRunInv ==
    ASSUME IInv, NEW r \in Requests, Submit(r) \/ Step(r) \/ Interrupt(r),
           NEW q \in Requests, q # r
    PROVE  RunInv(q)'
<1>1. req'[q] = req[q] /\ RunInv(q)
  BY OtherHandlers DEF IInv, HandlersInv
<1>2. CASE ~(IsRun(q) /\ (Created(q) \/ req[q].status = 200))
  BY <1>1, <1>2 DEF RunInv, Created, IsRun
<1>3. CASE IsRun(q) /\ (Created(q) \/ req[q].status = 200)
  <2>0. PICK e \in EvalIds : e = req[q].target
    BY <1>1, <1>3 DEF RunInv
  <2>1. /\ Exists(e)
        /\ evaluations[e].key = req[q].call.key
        /\ Created(q) => evaluations[e].input = req[q].input /\ req[q].input \in Inputs
        /\ At(q, "start") => evaluations[e].state = "queued"
        /\ At(q, "evaluate") => evaluations[e].state = "running"
    BY <1>1, <1>3, <2>0 DEF RunInv, Stored
  <2>2. /\ Exists(e)' /\ RowStep(r, evaluations[e], evaluations'[e])
        /\ evaluations'[e] # evaluations[e] => e = req[r].target
        /\ Precedes(evaluations[e], evaluations'[e])
        /\ evaluations[e] \in Row
    BY <2>1, RowAfter
  <2>3. evaluations'[e].key = req[q].call.key
    BY <2>1, <2>2 DEF Precedes
  <2>4. Created(q) => evaluations'[e].input = req[q].input /\ req[q].input \in Inputs
    BY <2>1, <2>2 DEF Precedes
  <2>5. At(q, "start") \/ At(q, "evaluate") =>
           ~(IsRun(r) /\ (At(r, "start") \/ At(r, "evaluate")) /\ e = req[r].target)
    BY <1>3, <2>0 DEF Created, IInv, CreatedOnce
  <2>6. (At(q, "start") => evaluations'[e].state = "queued")
        /\ (At(q, "evaluate") => evaluations'[e].state = "running")
    <3> SUFFICES ASSUME At(q, "start") \/ At(q, "evaluate")
                 PROVE  evaluations'[e].state = evaluations[e].state
      BY <2>1
    <3>1. evaluations[e].state \in {"queued", "running"}
      BY <2>1
    <3>2. CASE evaluations'[e] = evaluations[e]
      BY <3>2
    <3>3. CASE \E v \in Verdicts : evaluations'[e] = [evaluations[e] EXCEPT !.replay = v]
      BY <2>2, <3>3 DEF Row
    <3> QED BY <2>2, <2>5, <3>1, <3>2, <3>3 DEF RowStep, VoidableStates
  <2>7. /\ req[q].pc \notin {"idle", "load", "update", "get"}
        /\ At(q, "create") => /\ req[q].call.scenario \in Scenarios
                             /\ req[q].input \in Inputs
        /\ req[q].status # 409
    BY <1>1, <1>3 DEF RunInv
  <2>8. Created(q)' = Created(q) /\ Stored(q)' = evaluations'[e]
    BY <1>1, <2>0, OthersCreated DEF Stored
  <2>9. Exists(req[q].target)'
    BY <1>1, <2>0, <2>2 DEF Exists
  <2> QED BY <1>1, <2>0, <2>3, <2>4, <2>6, <2>7, <2>8, <2>9 DEF RunInv
<1> QED BY <1>2, <1>3

\* Precedes composes along the updates of a row.
LEMMA PrecedesTransitive ==
    ASSUME NEW a, NEW b, NEW c, Precedes(a, b), Precedes(b, c)
    PROVE  Precedes(a, c)
  BY DEF Precedes

(* Once confirmed or voided a row can only be voided.                      *)
LEMMA WonStays ==
    ASSUME IInv, NEW r \in Requests, NEW old \in Row, NEW new,
           RowStep(r, old, new)
    PROVE  /\ old.state \in {"confirmed", "voided"} =>
                 /\ new.state \in {"confirmed", "voided"}
                 /\ new.confirmedBy = old.confirmedBy
           /\ old.state = "voided" => new.state = "voided"
  BY DEF RowStep, VoidableStates, Voided, Row

\* ... and a Confirm, Void or Replay what it knows of the row it read ...
LEMMA OthersStateCallInv ==
    ASSUME IInv, NEW r \in Requests, Submit(r) \/ Step(r) \/ Interrupt(r),
           NEW q \in Requests, q # r
    PROVE  StateCallInv(q)'
<1>1. req'[q] = req[q] /\ StateCallInv(q) /\ AnswerInv(q)
  BY OtherHandlers DEF IInv, HandlersInv
<1> SUFFICES ASSUME req[q].call # None, Op(q) # "run"
             PROVE  StateCallInv(q)'
  BY <1>1 DEF StateCallInv
<1>2. Won(q, "confirm")' = Won(q, "confirm") /\ Won(q, "void")' = Won(q, "void")
  BY OthersCreated
<1>3. Stored(q)' = evaluations'[req[q].target]
  BY <1>1 DEF Stored
<1>4. /\ req[q].pc \notin {"idle", "find", "freeze", "create", "refind", "start", "evaluate"}
      /\ req[q].status # 403 =>
            /\ req[q].target = req[q].call.id
            /\ RoleOf[req[q].call.actor] \in PermittedRoles(Op(q))
      /\ At(q, "get") => Op(q) = "replay"
  BY <1>1 DEF StateCallInv
<1>5. CASE req[q].pc \in {"update", "reload", "audit", "get"}
           \/ (Won(q, "confirm") \/ Won(q, "void"))
  <2>1. PICK e \in EvalIds : e = req[q].target
    BY <1>1, <1>4, <1>5, CallTypes DEF Won, AnswerInv
  <2>2. Exists(e)
    BY <1>1, <1>5, <2>1 DEF StateCallInv
  <2>3. /\ evaluations[e] \in Row /\ Exists(e)'
        /\ RowStep(r, evaluations[e], evaluations'[e])
        /\ Precedes(evaluations[e], evaluations'[e])
    BY <2>1, <2>2, RowAfter
  <2>4. req[q].pc \in {"update", "reload", "audit", "get"} =>
          /\ req[q].before # None
          /\ Precedes(req[q].before, evaluations'[e])
          /\ Op(q) = "confirm" => ~IsAuthor(req[q].call.actor, evaluations'[e])
    <3>1. req[q].pc \in {"update", "reload", "audit", "get"} =>
            /\ req[q].before # None
            /\ Precedes(req[q].before, evaluations[e])
            /\ Op(q) = "confirm" => ~IsAuthor(req[q].call.actor, evaluations[e])
      BY <1>1, <2>1 DEF StateCallInv, Stored
    <3>2. evaluations'[e].scenario = evaluations[e].scenario
      BY <2>3 DEF Precedes
    <3> QED BY <2>3, <3>1, <3>2, PrecedesTransitive DEF IsAuthor
  <2>5. /\ Won(q, "confirm") => /\ evaluations'[e].state \in {"confirmed", "voided"}
                                /\ evaluations'[e].confirmedBy = req[q].call.actor
        /\ Won(q, "void") => evaluations'[e].state = "voided"
    <3>1. /\ Won(q, "confirm") => /\ evaluations[e].state \in {"confirmed", "voided"}
                                  /\ evaluations[e].confirmedBy = req[q].call.actor
          /\ Won(q, "void") => evaluations[e].state = "voided"
      BY <1>1, <2>1 DEF StateCallInv, Stored
    <3> QED BY <2>3, <3>1, WonStays
  <2>6. Exists(req[q].target)'
    BY <1>1, <2>1, <2>3 DEF Exists
  <2> QED BY <1>1, <1>2, <1>3, <1>4, <2>1, <2>4, <2>5, <2>6 DEF StateCallInv
<1>6. CASE ~(req[q].pc \in {"update", "reload", "audit", "get"}
           \/ (Won(q, "confirm") \/ Won(q, "void")))
  BY <1>1, <1>2, <1>3, <1>4, <1>6 DEF StateCallInv
<1> QED BY <1>5, <1>6

\* ... and the status they answered with.
LEMMA OthersAnswerInv ==
    ASSUME IInv, NEW r \in Requests, Submit(r) \/ Step(r) \/ Interrupt(r),
           NEW q \in Requests, q # r
    PROVE  AnswerInv(q)'
  BY OtherHandlers DEF IInv, HandlersInv, AnswerInv

(***************************************************************************)
(* ... and the one that steps learns what it relies on next.               *)
(***************************************************************************)
\* The handler record a step installs is the one found afterwards.
LEMMA AfterBecome ==
    ASSUME IInv, NEW r \in Requests, NEW h, Become(r, h)
    PROVE  req'[r] = h
  BY DEF Become, IInv, TypeOK

SameCall(r) == /\ req'[r].call = req[r].call /\ req'[r].before = req[r].before
               /\ req'[r].input = req[r].input /\ req'[r].verdict = req[r].verdict

\* Goto changes the label only.
LEMMA AfterGoto ==
    ASSUME IInv, NEW r \in Requests, NEW l, Goto(r, l)
    PROVE  /\ req'[r].pc = l /\ req'[r].target = req[r].target
           /\ req'[r].status = req[r].status /\ req'[r].after = req[r].after
           /\ SameCall(r)
<1>1. req'[r] = [req[r] EXCEPT !.pc = l]
  BY AfterBecome DEF Goto
<1>2. req[r] \in Request
  BY DEF IInv, TypeOK
<1> QED BY <1>1, <1>2 DEF Request, SameCall

\* Answer changes the label and the status only.
LEMMA AfterAnswer ==
    ASSUME IInv, NEW r \in Requests, NEW code, Answer(r, code)
    PROVE  /\ req'[r].pc = "answered" /\ req'[r].target = req[r].target
           /\ req'[r].status = code /\ req'[r].after = req[r].after
           /\ SameCall(r)
<1>1. req'[r] = [req[r] EXCEPT !.pc = "answered", !.status = code]
  BY AfterBecome DEF Answer
<1>2. req[r] \in Request
  BY DEF IInv, TypeOK
<1> QED BY <1>1, <1>2 DEF Request, SameCall

\* AnswerWith also sets the evaluation answered with.
LEMMA AfterAnswerWith ==
    ASSUME IInv, NEW r \in Requests, NEW e, NEW code, AnswerWith(r, e, code)
    PROVE  /\ req'[r].pc = "answered" /\ req'[r].target = e
           /\ req'[r].status = code /\ req'[r].after = req[r].after
           /\ SameCall(r)
<1>1. req'[r] = [req[r] EXCEPT !.pc = "answered", !.status = code, !.target = e]
  BY AfterBecome DEF AnswerWith
<1>2. req[r] \in Request
  BY DEF IInv, TypeOK
<1> QED BY <1>1, <1>2 DEF Request, SameCall

OwnInv(r) == AnswerInv(r) /\ RunInv(r) /\ StateCallInv(r)

(* An answer with an error relies on nothing any more.                     *)
LEMMA RefusedInv ==
    ASSUME IInv, NEW r \in Requests, NEW code, Answer(r, code),
           code \in {400, 404, 409, 422, 500}, code = 409 => Op(r) # "run",
           req[r].pc \notin {"idle", "answered", "done", "aborted"}
    PROVE  OwnInv(r)'
<1>1. /\ req'[r].pc = "answered" /\ req'[r].target = req[r].target
      /\ req'[r].status = code /\ SameCall(r)
  BY AfterAnswer
<1>2. AnswerInv(r) /\ RunInv(r) /\ StateCallInv(r)
  BY DEF IInv, HandlersInv
<1>3. req[r].call # None /\ req[r].status = 0
  BY <1>2 DEF AnswerInv
<1>4. AnswerInv(r)'
  BY <1>1, <1>3 DEF AnswerInv, SameCall
<1>5. RunInv(r)'
  BY <1>1 DEF RunInv, Created, IsRun, SameCall
<1>6. StateCallInv(r)'
  BY <1>1, <1>2, <1>3 DEF StateCallInv, Won, IsStateCall, SameCall
<1> QED BY <1>4, <1>5, <1>6 DEF OwnInv

(* A handler that ends keeps what its answer promised.                     *)
LEMMA EndedInv ==
    ASSUME IInv, NEW r \in Requests, NEW l \in {"done", "aborted"}, Goto(r, l),
           UNCHANGED evaluations, req[r].pc # "idle"
    PROVE  OwnInv(r)'
<1>1. /\ req'[r].pc = l /\ req'[r].target = req[r].target
      /\ req'[r].status = req[r].status /\ SameCall(r)
  BY AfterGoto
<1>2. AnswerInv(r) /\ RunInv(r) /\ StateCallInv(r)
  BY DEF IInv, HandlersInv
<1>3. Stored(r)' = Stored(r) /\ (Exists(req[r].target)' <=> Exists(req[r].target))
  BY <1>1 DEF Stored, Exists
<1>4. AnswerInv(r)'
  BY <1>1, <1>2 DEF AnswerInv, SameCall
<1>5. RunInv(r)'
  BY <1>1, <1>2, <1>3 DEF RunInv, Created, IsRun, SameCall
<1>6. StateCallInv(r)'
  BY <1>1, <1>2, <1>3 DEF StateCallInv, Won, IsStateCall, SameCall
<1> QED BY <1>4, <1>5, <1>6 DEF OwnInv

\* Submit establishes what a new handler relies on.
LEMMA SubmitOwn ==
    ASSUME IInv, NEW r \in Requests, Submit(r)
    PROVE  OwnInv(r)'
<1>1. AnswerInv(r) /\ RunInv(r) /\ StateCallInv(r) /\ req[r] \in Request
  BY DEF IInv, HandlersInv, TypeOK
<1>2. req[r].call = None /\ req[r].status = 0
  BY <1>1 DEF Submit, AnswerInv, RunInv, StateCallInv, IsRun
<1>3. PICK c \in Calls :
         IF RoleOf[c.actor] \notin PermittedRoles(c.op)
         THEN Become(r, [req[r] EXCEPT !.pc = "answered", !.call = c, !.status = 403])
         ELSE Become(r, [req[r] EXCEPT !.pc = FirstLabel(c.op), !.call = c,
                                       !.target = c.id])
  BY DEF Submit
<1>4. c # None
  BY ScopeAssumption
<1>5. CASE RoleOf[c.actor] \notin PermittedRoles(c.op)
  <2>1. req'[r] = [req[r] EXCEPT !.pc = "answered", !.call = c, !.status = 403]
    BY <1>3, <1>5, AfterBecome
  <2>2. req'[r].pc = "answered" /\ req'[r].call = c /\ req'[r].status = 403
    BY <1>1, <2>1 DEF Request
  <2> QED BY <1>4, <2>2 DEF OwnInv, AnswerInv, RunInv, StateCallInv, Created, Won,
                            IsRun, IsStateCall
<1>6. CASE RoleOf[c.actor] \in PermittedRoles(c.op)
  <2>1. req'[r] = [req[r] EXCEPT !.pc = FirstLabel(c.op), !.call = c, !.target = c.id]
    BY <1>3, <1>6, AfterBecome
  <2>2. /\ req'[r].pc = FirstLabel(c.op) /\ req'[r].call = c
        /\ req'[r].target = c.id /\ req'[r].status = 0
    BY <1>1, <1>2, <2>1 DEF Request
  <2> QED BY <1>4, <1>6, <2>2 DEF OwnInv, AnswerInv, RunInv, StateCallInv, Created,
                                  Won, IsRun, IsStateCall, FirstLabel
<1> QED BY <1>5, <1>6

(* A Run answered with the evaluation another Run created.                 *)
LEMMA FoundInv ==
    ASSUME IInv, NEW r \in Requests, IsRun(r), UNCHANGED evaluations,
           NEW e \in KeyHolders(req[r].call.key), AnswerWith(r, e, 200)
    PROVE  OwnInv(r)'
<1>1. /\ req'[r].pc = "answered" /\ req'[r].target = e
      /\ req'[r].status = 200 /\ SameCall(r)
  BY AfterAnswerWith
<1>2. e \in EvalIds /\ evaluations'[e] # None /\ evaluations'[e].key = req'[r].call.key
  BY <1>1 DEF KeyHolders, Exists, SameCall
<1> QED BY <1>1, <1>2 DEF OwnInv, AnswerInv, RunInv, StateCallInv, Created, Won,
                          IsRun, IsStateCall, SameCall, Exists, Stored

\* Each step of a Run establishes what its next step relies on.
LEMMA RunOwn ==
    ASSUME IInv, NEW r \in Requests,
           \/ FindByIdempotencyKey(r) \/ FreezeSnapshot(r) \/ Create(r)
           \/ FindAfterViolation(r) \/ Start(r) \/ StoreFailure(r) \/ StoreResult(r)
    PROVE  OwnInv(r)'
<1>0. req[r].pc \in {"find", "freeze", "create", "refind", "start", "evaluate"}
  BY DEF FindByIdempotencyKey, FreezeSnapshot, Create, FindAfterViolation, Start,
         StoreFailure, StoreResult
<1>1. IsRun(r) /\ req[r].call # None /\ Op(r) = "run" /\ req[r].status = 0
  BY <1>0, LabelsOfOperations DEF IInv, HandlersInv, AnswerInv, IsRun
<1>2. AnswerInv(r) /\ RunInv(r) /\ StateCallInv(r) /\ req[r] \in Request
  BY DEF IInv, HandlersInv, TypeOK
<1>3. ASSUME NEW code \in {400, 404, 422, 500}, Answer(r, code) PROVE OwnInv(r)'
  BY <1>0, <1>3, RefusedInv
<1>4. ASSUME NEW l \in {"freeze", "refind"}, Goto(r, l) PROVE OwnInv(r)'
  <2>1. req'[r].pc = l /\ req'[r].status = 0 /\ SameCall(r)
    BY <1>1, <1>4, AfterGoto
  <2> QED BY <1>1, <2>1 DEF OwnInv, AnswerInv, RunInv, StateCallInv, Created, Won,
                           IsRun, IsStateCall, SameCall
<1>5. CASE FindByIdempotencyKey(r)
  BY <1>1, <1>3, <1>4, <1>5, FoundInv DEF FindByIdempotencyKey
<1>6. CASE FreezeSnapshot(r)
  <2>1. CASE ~ScenarioFound(req[r].call.scenario)
    BY <1>3, <1>6, <2>1 DEF FreezeSnapshot
  <2>2. CASE ScenarioFound(req[r].call.scenario)
    <3>1. PICK i \in Inputs : Become(r, [req[r] EXCEPT !.pc = "create", !.input = i])
      BY <1>6, <2>2 DEF FreezeSnapshot
    <3>2. req'[r] = [req[r] EXCEPT !.pc = "create", !.input = i]
      BY <3>1, AfterBecome
    <3>3. /\ req'[r].pc = "create" /\ req'[r].call = req[r].call
          /\ req'[r].input = i /\ req'[r].status = 0
      BY <1>1, <1>2, <3>2 DEF Request
    <3>4. req[r].call.scenario \in Scenarios
      BY <2>2 DEF ScenarioFound
    <3> QED BY <1>1, <3>3, <3>4 DEF OwnInv, AnswerInv, RunInv, StateCallInv, Created,
                               Won, IsRun, IsStateCall
  <2> QED BY <2>1, <2>2
<1>7. CASE Create(r)
  <2>1. CASE UniqueViolation(req[r].call.key)
    BY <1>4, <1>7, <2>1 DEF Create
  <2>2. CASE ~UniqueViolation(req[r].call.key)
    <3>1. PICK e \in EvalIds : ~Exists(e) /\ Exists(e)'
      <4>1. PICK e \in EvalIds :
              /\ ~Exists(e)
              /\ evaluations' = [evaluations EXCEPT ![e] =
                    [key |-> req[r].call.key, scenario |-> req[r].call.scenario,
                     by |-> req[r].call.actor, input |-> req[r].input,
                     state |-> "queued", conclusion |-> None,
                     confirmedBy |-> None, replay |-> "none"]]
        BY <1>7, <2>2 DEF Create
      <4>2. Exists(e)'
        <5>1. evaluations'[e] \in Row
          BY <1>1, <1>7, <4>1, LabelsOfOperations, CallTypes
             DEF Create, IInv, TypeOK, Row, States, Verdicts
        <5> QED BY <5>1, ScopeAssumption DEF Exists
      <4> QED BY <4>1, <4>2
    <3>2. req'[r] = [req[r] EXCEPT !.pc = "start", !.target = e]
      BY <1>7, <3>1, NewRow DEF Step
    <3>3. evaluations'[e] =
             [key |-> req[r].call.key, scenario |-> req[r].call.scenario,
              by |-> req[r].call.actor, input |-> req[r].input,
              state |-> "queued", conclusion |-> None,
              confirmedBy |-> None, replay |-> "none"]
      BY <1>7, <3>1, NewRow DEF Step
    <3>4. /\ req'[r].pc = "start" /\ req'[r].target = e /\ req'[r].status = 0
          /\ req'[r].call = req[r].call /\ req'[r].input = req[r].input
      BY <1>1, <1>2, <3>2 DEF Request
    <3>5. /\ evaluations'[e].key = req[r].call.key
          /\ evaluations'[e].input = req[r].input /\ evaluations'[e].state = "queued"
      BY <3>3
    <3>6. req[r].input \in Inputs
      BY <1>7, LabelsOfOperations DEF Create
    <3>7. Exists(req[r].target)'
      BY <3>1, <3>4 DEF Exists
    <3> QED BY <1>1, <3>1, <3>4, <3>5, <3>6 DEF OwnInv, AnswerInv, RunInv, StateCallInv,
                           Created, Won, IsRun, IsStateCall, Stored, Exists
  <2> QED BY <2>1, <2>2
<1>8. CASE FindAfterViolation(r)
  BY <1>1, <1>3, <1>8, FoundInv DEF FindAfterViolation
<1>9. ASSUME Created(r), NEW l \in {"evaluate", "reload"}, Goto(r, l), NEW row \in Row,
             Update(r, row), row.key = Stored(r).key, row.input = Stored(r).input,
             l = "evaluate" => row.state = "running"
      PROVE  OwnInv(r)'
  <2>1. /\ req'[r].pc = l /\ req'[r].status = 0 /\ SameCall(r)
        /\ req'[r].target = req[r].target
    BY <1>1, <1>9, AfterGoto
  <2>2. req[r].target \in EvalIds
    BY <1>1, <1>2, <1>9 DEF RunInv
  <2>3. Stored(r)' = row /\ Exists(req[r].target)'
    BY <1>9, <2>1, <2>2, ScopeAssumption DEF Update, Stored, Exists, IInv, TypeOK
  <2> QED BY <1>1, <1>2, <1>9, <2>1, <2>2, <2>3 DEF OwnInv, AnswerInv, RunInv,
                    StateCallInv, Created, Won, IsRun, IsStateCall, SameCall
<1>10. CASE Start(r)
  <2>1. Created(r) /\ Matches(r, {"queued"})
    BY <1>1, <1>2, <1>10 DEF Start, Created, RunInv, Matches, Stored
  <2>2. Stored(r) \in Row
    BY <1>10, HoldsRow DEF Start
  <2>3. /\ Started(Stored(r)) \in Row /\ Started(Stored(r)).key = Stored(r).key
        /\ Started(Stored(r)).input = Stored(r).input
        /\ Started(Stored(r)).state = "running"
    BY <2>2 DEF Started, Row, States
  <2> QED BY <1>9, <1>10, <2>1, <2>3 DEF Start
<1>11. CASE StoreFailure(r)
  BY <1>3, <1>11 DEF StoreFailure
<1>12. CASE StoreResult(r)
  <2>1. Created(r) /\ Matches(r, {"running"}) /\ Stored(r).input = req[r].input
    BY <1>1, <1>2, <1>12 DEF StoreResult, Created, RunInv, Matches, Stored
  <2>2. Stored(r) \in Row
    BY <1>12, HoldsRow DEF StoreResult
  <2>3. /\ Completed(Stored(r), req[r].input) \in Row
        /\ Completed(Stored(r), req[r].input).key = Stored(r).key
        /\ Completed(Stored(r), req[r].input).input = Stored(r).input
    BY <2>1, <2>2 DEF Completed, Row, States
  <2> QED BY <1>9, <1>12, <2>1, <2>3 DEF StoreResult
<1> QED BY <1>5, <1>6, <1>7, <1>8, <1>10, <1>11, <1>12

\* So does each step of a Confirm, Void or Replay ...
LEMMA StateCallOwn ==
    ASSUME IInv, NEW r \in Requests,
           \/ LoadEvaluation(r) \/ ConfirmTransition(r) \/ VoidTransition(r)
           \/ SetReplayResult(r)
    PROVE  OwnInv(r)'
<1>0. req[r].pc \in {"load", "update"}
  BY DEF LoadEvaluation, ConfirmTransition, VoidTransition, SetReplayResult
<1>1. /\ req[r].call # None /\ req[r].status = 0
      /\ Op(r) \in {"confirm", "void", "replay"} /\ req[r].call.id \in EvalIds
  BY <1>0, LabelsOfOperations, CallTypes DEF IInv, HandlersInv, AnswerInv
<1>2. AnswerInv(r) /\ RunInv(r) /\ StateCallInv(r) /\ req[r] \in Request
  BY DEF IInv, HandlersInv, TypeOK
<1>3. /\ req[r].target = req[r].call.id
      /\ RoleOf[req[r].call.actor] \in PermittedRoles(Op(r))
  BY <1>1, <1>2 DEF StateCallInv
<1>4. ASSUME NEW code \in {404, 409, 422}, Answer(r, code) PROVE OwnInv(r)'
  BY <1>0, <1>1, <1>4, RefusedInv
<1>5. CASE LoadEvaluation(r)
  <2> DEFINE row == evaluations[req[r].call.id]
             v == Verdict(req[r].call.op, row)
  <2>1. CASE \E code \in {404, 409, 422} : Answer(r, code)
    BY <1>4, <2>1
  <2>2. CASE /\ Exists(req[r].call.id)
             /\ Op(r) = "confirm" => ~IsAuthor(req[r].call.actor, row)
             /\ Become(r, [req[r] EXCEPT !.pc = "update", !.before = row, !.verdict = v])
    <3>1. req'[r] = [req[r] EXCEPT !.pc = "update", !.before = row, !.verdict = v]
      BY <2>2, AfterBecome
    <3>2. /\ req'[r].pc = "update" /\ req'[r].call = req[r].call
          /\ req'[r].target = req[r].target /\ req'[r].status = 0
          /\ req'[r].before = row
      BY <1>1, <1>2, <3>1 DEF Request
    <3>3. Stored(r)' = row /\ Exists(req[r].target)'
      BY <1>3, <1>5, <2>2, <3>2 DEF LoadEvaluation, Stored, Exists
    <3>4. row \in Row /\ row # None /\ row.conclusion \in {None, row.conclusion}
      BY <1>1, <2>2 DEF Exists, IInv, TypeOK
    <3> QED BY <1>1, <1>3, <2>2, <3>2, <3>3, <3>4 DEF OwnInv, AnswerInv, RunInv,
              StateCallInv, Created, Won, IsRun, IsStateCall, Precedes
  <2> QED BY <1>5, <2>1, <2>2 DEF LoadEvaluation
<1>6. ASSUME At(r, "update"), NEW l \in {"reload", "audit"}, Goto(r, l), NEW row \in Row,
             Update(r, row), Precedes(Stored(r), row),
             Op(r) = "confirm" => row.state = "confirmed" /\ row.confirmedBy = req[r].call.actor,
             Op(r) = "void" => row.state = "voided"
      PROVE  OwnInv(r)'
  <2>1. /\ req'[r].pc = l /\ req'[r].status = 0 /\ SameCall(r)
        /\ req'[r].target = req[r].target
    BY <1>1, <1>6, AfterGoto
  <2>2. Stored(r)' = row /\ Exists(req[r].target)'
    BY <1>1, <1>3, <1>6, <2>1, ScopeAssumption DEF Update, Stored, Exists, IInv, TypeOK
  <2>3. /\ req[r].before # None /\ Precedes(req[r].before, Stored(r))
        /\ Op(r) = "confirm" => ~IsAuthor(req[r].call.actor, Stored(r))
    BY <1>1, <1>2, <1>6 DEF StateCallInv
  <2>4. Precedes(req[r].before, row)
    BY <1>6, <2>3, PrecedesTransitive
  <2>5. Op(r) = "confirm" => ~IsAuthor(req[r].call.actor, row)
    BY <1>6, <2>3 DEF Precedes, IsAuthor
  <2> QED BY <1>1, <1>3, <1>6, <2>1, <2>2, <2>3, <2>4, <2>5 DEF OwnInv, AnswerInv,
            RunInv, StateCallInv, Created, Won, IsRun, IsStateCall, SameCall
<1>7. CASE ConfirmTransition(r)
  <2>1. Stored(r) \in Row /\ req[r].call.actor \in Users
    BY <1>7, HoldsRow, CallTypes DEF ConfirmTransition
  <2>2. LET row == Confirmed(Stored(r), req[r].call.actor) IN
           /\ row \in Row /\ Precedes(Stored(r), row)
           /\ row.state = "confirmed" /\ row.confirmedBy = req[r].call.actor
    BY <2>1 DEF Confirmed, Row, States, Precedes
  <2> QED BY <1>4, <1>6, <1>7, <2>2 DEF ConfirmTransition
<1>8. CASE VoidTransition(r)
  <2>1. Stored(r) \in Row
    BY <1>8, HoldsRow DEF VoidTransition
  <2>2. LET row == Voided(Stored(r)) IN
           /\ row \in Row /\ Precedes(Stored(r), row) /\ row.state = "voided"
    BY <2>1 DEF Voided, Row, States, Precedes
  <2> QED BY <1>4, <1>6, <1>8, <2>2 DEF VoidTransition
<1>9. CASE SetReplayResult(r)
  <2>1. Stored(r) \in Row /\ req[r].verdict \in Verdicts
    BY <1>2, <1>9, HoldsRow DEF SetReplayResult, Request
  <2>2. LET row == [Stored(r) EXCEPT !.replay = req[r].verdict] IN
           /\ row \in Row /\ Precedes(Stored(r), row)
    BY <2>1 DEF Row, Precedes
  <2> QED BY <1>6, <1>9, <2>2 DEF SetReplayResult
<1> QED BY <1>5, <1>7, <1>8, <1>9

\* ... and each step of the shared tail and each interruption.
LEMMA TailOwn ==
    ASSUME IInv, NEW r \in Requests,
           \/ Reload(r) \/ RecordAudit(r) \/ GetAfterReplay(r) \/ AuditMiddleware(r)
           \/ Interrupt(r)
    PROVE  OwnInv(r)'
<1>1. AnswerInv(r) /\ RunInv(r) /\ StateCallInv(r) /\ req[r] \in Request
  BY DEF IInv, HandlersInv, TypeOK
<1>2. req[r].pc # "idle" /\ UNCHANGED evaluations
  BY DEF Reload, RecordAudit, GetAfterReplay, AuditMiddleware, Interrupt, Abort,
         DatabaseError, InFlight
<1>3. req[r].call # None /\ Op(r) \in Operations
  BY <1>2, CallTypes
<1>4. CASE Reload(r)
  <2>1. req'[r] = [req[r] EXCEPT !.pc = "audit", !.after = Stored(r)]
    BY <1>4, AfterBecome DEF Reload
  <2>2. /\ req'[r].pc = "audit" /\ req'[r].target = req[r].target
        /\ req'[r].status = req[r].status /\ SameCall(r)
    BY <1>1, <2>1 DEF Request, SameCall
  <2>3. Stored(r)' = Stored(r) /\ (Exists(req[r].target)' <=> Exists(req[r].target))
    BY <1>2, <2>2 DEF Stored, Exists
  <2> QED BY <1>1, <1>3, <1>4, <2>2, <2>3 DEF Reload, OwnInv, AnswerInv, RunInv,
        StateCallInv, Created, Won, IsRun, IsStateCall, SameCall
<1>5. CASE RecordAudit(r)
  <2>1. CASE Op(r) = "run" /\ Answer(r, 201)
    <3>1. /\ req'[r].pc = "answered" /\ req'[r].target = req[r].target
          /\ req'[r].status = 201 /\ SameCall(r)
      BY <2>1, AfterAnswer
    <3>2. Stored(r)' = Stored(r) /\ (Exists(req[r].target)' <=> Exists(req[r].target))
      BY <1>2, <3>1 DEF Stored, Exists
    <3> QED BY <1>1, <1>3, <1>5, <2>1, <3>1, <3>2 DEF RecordAudit, OwnInv, AnswerInv,
          RunInv, StateCallInv, Created, Won, IsRun, IsStateCall, SameCall
  <2>2. CASE Op(r) \in {"confirm", "void"} /\ Answer(r, 200)
    <3>1. /\ req'[r].pc = "answered" /\ req'[r].target = req[r].target
          /\ req'[r].status = 200 /\ SameCall(r)
      BY <2>2, AfterAnswer
    <3>2. Stored(r)' = Stored(r) /\ (Exists(req[r].target)' <=> Exists(req[r].target))
      BY <1>2, <3>1 DEF Stored, Exists
    <3> QED BY <1>1, <1>3, <1>5, <2>2, <3>1, <3>2 DEF RecordAudit, OwnInv, AnswerInv,
          RunInv, StateCallInv, Created, Won, IsRun, IsStateCall, SameCall
  <2>3. CASE Op(r) = "replay" /\ Goto(r, "get")
    <3>1. /\ req'[r].pc = "get" /\ req'[r].target = req[r].target
          /\ req'[r].status = req[r].status /\ SameCall(r)
      BY <2>3, AfterGoto
    <3>2. Stored(r)' = Stored(r) /\ (Exists(req[r].target)' <=> Exists(req[r].target))
      BY <1>2, <3>1 DEF Stored, Exists
    <3> QED BY <1>1, <1>3, <1>5, <2>3, <3>1, <3>2 DEF RecordAudit, OwnInv, AnswerInv,
          RunInv, StateCallInv, Created, Won, IsRun, IsStateCall, SameCall
  <2>4. CASE Op(r) = "replay" /\ Answer(r, 409)
    BY <1>5, <2>4, RefusedInv DEF RecordAudit
  <2> QED BY <1>5, <2>1, <2>2, <2>3, <2>4 DEF RecordAudit
<1>6. CASE GetAfterReplay(r)
  <2>1. req'[r] = [req[r] EXCEPT !.pc = "answered", !.status = 200, !.after = Stored(r)]
    BY <1>6, AfterBecome DEF GetAfterReplay
  <2>2. /\ req'[r].pc = "answered" /\ req'[r].target = req[r].target
        /\ req'[r].status = 200 /\ SameCall(r)
    BY <1>1, <2>1 DEF Request, SameCall
  <2>3. Op(r) = "replay" /\ req[r].target = req[r].call.id
        /\ RoleOf[req[r].call.actor] \in PermittedRoles(Op(r))
    BY <1>1, <1>3, <1>6, LabelsOfOperations DEF GetAfterReplay, StateCallInv, AnswerInv
  <2> QED BY <1>3, <2>2, <2>3 DEF OwnInv, AnswerInv, RunInv, StateCallInv, Created,
                            Won, IsRun, IsStateCall, SameCall
<1>7. CASE AuditMiddleware(r)
  BY <1>2, <1>7, EndedInv DEF AuditMiddleware
<1>8. CASE Abort(r)
  BY <1>2, <1>8, EndedInv DEF Abort
<1>9. CASE DatabaseError(r)
  BY <1>2, <1>9, RefusedInv DEF DatabaseError, InFlight
<1> QED BY <1>4, <1>5, <1>6, <1>7, <1>8, <1>9 DEF Interrupt

\* HandlersInv is preserved.
LEMMA HandlersInvStep ==
    ASSUME IInv, NEW r \in Requests, Submit(r) \/ Step(r) \/ Interrupt(r)
    PROVE  HandlersInv'
<1>1. ASSUME NEW q \in Requests, q # r
      PROVE  AnswerInv(q)' /\ RunInv(q)' /\ StateCallInv(q)'
  BY <1>1, OthersAnswerInv, OthersRunInv, OthersStateCallInv
<1>2. OwnInv(r)'
  BY SubmitOwn, RunOwn, StateCallOwn, TailOwn DEF Step
<1> QED BY <1>1, <1>2 DEF HandlersInv, OwnInv

----------------------------------------------------------------------------
(***************************************************************************)
(* Uniqueness of the creator and of the winner                             *)
(***************************************************************************)
\* A request just submitted has neither created nor won anything.
LEMMA AfterSubmit ==
    ASSUME IInv, NEW r \in Requests, Submit(r)
    PROVE  req'[r].status \in {0, 403} /\ req'[r].pc \in {"answered", "find", "load"}
<1>1. req[r] \in Request /\ req[r].status = 0
  BY DEF Submit, AnswerInv, IInv, TypeOK, HandlersInv
<1>2. PICK c \in Calls :
         \/ Become(r, [req[r] EXCEPT !.pc = "answered", !.call = c, !.status = 403])
         \/ Become(r, [req[r] EXCEPT !.pc = FirstLabel(c.op), !.call = c,
                                     !.target = c.id])
  <2>1. \E c \in Calls :
          IF RoleOf[c.actor] \notin PermittedRoles(c.op)
          THEN Become(r, [req[r] EXCEPT !.pc = "answered", !.call = c, !.status = 403])
          ELSE Become(r, [req[r] EXCEPT !.pc = FirstLabel(c.op), !.call = c,
                                        !.target = c.id])
    BY DEF Submit
  <2> QED BY <2>1
<1>3. CASE Become(r, [req[r] EXCEPT !.pc = "answered", !.call = c, !.status = 403])
  <2>1. req'[r] = [req[r] EXCEPT !.pc = "answered", !.call = c, !.status = 403]
    BY <1>3, AfterBecome
  <2> QED BY <1>1, <2>1 DEF Request
<1>4. CASE Become(r, [req[r] EXCEPT !.pc = FirstLabel(c.op), !.call = c, !.target = c.id])
  <2>1. req'[r] = [req[r] EXCEPT !.pc = FirstLabel(c.op), !.call = c, !.target = c.id]
    BY <1>4, AfterBecome
  <2> QED BY <1>1, <2>1 DEF Request, FirstLabel
<1> QED BY <1>2, <1>3, <1>4

\* A request becomes Created only by inserting the row it then holds.
LEMMA CreatedBy ==
    ASSUME IInv, NEW r \in Requests, Submit(r) \/ Step(r) \/ Interrupt(r), Created(r)'
    PROVE  \/ Created(r) /\ req'[r].target = req[r].target
           \/ /\ req'[r].target \in EvalIds
              /\ ~Exists(req'[r].target)
<1>1. req[r] \in Request /\ AnswerInv(r) /\ RunInv(r) /\ StateCallInv(r)
  BY DEF IInv, TypeOK, HandlersInv
<1>2. CASE Submit(r)
  <2>1. req'[r].status \in {0, 403} /\ req'[r].pc \in {"answered", "find", "load"}
    BY <1>2, AfterSubmit
  <2> QED BY <2>1 DEF Created
<1>3. CASE Create(r)
  <2>1. CASE Goto(r, "refind")
    <3>1. req[r].status = 0
      BY <1>1, <1>3 DEF AnswerInv, Create
    <3>2. req'[r].pc = "refind" /\ req'[r].status = 0
      BY <2>1, <3>1, AfterGoto
    <3> QED BY <3>2 DEF Created
  <2>2. CASE ~Goto(r, "refind")
    <3>1. PICK e \in EvalIds :
             ~Exists(e) /\ Become(r, [req[r] EXCEPT !.pc = "start", !.target = e])
      BY <1>3, <2>2 DEF Create
    <3>2. req'[r].target = e
      BY <1>1, <3>1, AfterBecome DEF Request
    <3> QED BY <3>1, <3>2
  <2> QED BY <2>1, <2>2
<1>4. CASE \E l \in Labels : Goto(r, l) /\ (l \in {"start", "evaluate", "reload", "audit"} => Created(r))
  <2>1. PICK l \in Labels :
          Goto(r, l) /\ (l \in {"start", "evaluate", "reload", "audit"} => Created(r))
    BY <1>4
  <2>2. /\ req'[r].pc = l /\ req'[r].target = req[r].target
        /\ req'[r].status = req[r].status /\ req'[r].call = req[r].call
    BY <2>1, AfterGoto DEF SameCall
  <2> QED BY <2>1, <2>2 DEF Created, IsRun
<1>5. CASE \E code \in Statuses : Answer(r, code) /\ (code = 201 => Created(r))
  BY <1>5, AfterAnswer DEF Created, IsRun, SameCall
<1>6. CASE \E e : AnswerWith(r, e, 200)
  BY <1>6, AfterAnswerWith DEF Created
<1>7. CASE FreezeSnapshot(r)
  <2>1. CASE Answer(r, 404)
    BY <2>1, AfterAnswer DEF Created
  <2>2. CASE \E i \in Inputs : Become(r, [req[r] EXCEPT !.pc = "create", !.input = i])
    <3>1. req[r].status = 0
      BY <1>1, <1>7 DEF FreezeSnapshot, AnswerInv
    <3>2. req'[r].pc = "create" /\ req'[r].status = 0
      BY <1>1, <2>2, <3>1, AfterBecome DEF Request
    <3> QED BY <3>2 DEF Created
  <2> QED BY <1>7, <2>1, <2>2 DEF FreezeSnapshot
<1>8. CASE LoadEvaluation(r)
  <2>1. CASE \E code \in {404, 409, 422} : Answer(r, code)
    BY <2>1, AfterAnswer DEF Created
  <2>2. CASE ~\E code \in {404, 409, 422} : Answer(r, code)
    <3>1. Loaded(r)
      BY <1>8, <2>2, LoadMoves
    <3>2. req'[r].pc = "update" /\ req'[r].call = req[r].call
      BY <1>1, <3>1, AfterBecome DEF Loaded, Request
    <3>3. Op(r) # "run"
      BY <1>8, LabelsOfOperations DEF LoadEvaluation
    <3> QED BY <3>2, <3>3 DEF Created, IsRun
  <2> QED BY <2>1, <2>2
<1>9. CASE Reload(r) \/ GetAfterReplay(r)
  <2>1. \/ At(r, "reload") /\ \E row : Become(r, [req[r] EXCEPT !.pc = "audit", !.after = row])
        \/ /\ At(r, "get")
           /\ \E row : Become(r, [req[r] EXCEPT !.pc = "answered", !.status = 200, !.after = row])
    BY <1>9 DEF Reload, GetAfterReplay
  <2>2. /\ req'[r].call = req[r].call /\ req'[r].target = req[r].target
        /\ \/ At(r, "reload") /\ req'[r].pc = "audit"
           \/ req'[r].pc = "answered" /\ req'[r].status = 200
    <3>1. CASE At(r, "reload") /\ \E row : Become(r, [req[r] EXCEPT !.pc = "audit",
                                                                  !.after = row])
      <4>1. \E row : req'[r] = [req[r] EXCEPT !.pc = "audit", !.after = row]
        BY <3>1, AfterBecome
      <4> QED BY <1>1, <3>1, <4>1 DEF Request
    <3>2. CASE /\ At(r, "get")
               /\ \E row : Become(r, [req[r] EXCEPT !.pc = "answered", !.status = 200,
                                                    !.after = row])
      <4>1. \E row : req'[r] = [req[r] EXCEPT !.pc = "answered", !.status = 200,
                                              !.after = row]
        BY <3>2, AfterBecome
      <4> QED BY <1>1, <4>1 DEF Request
    <3> QED BY <2>1, <3>1, <3>2
  <2> QED BY <2>2 DEF Created, IsRun
<1>10. CASE FindByIdempotencyKey(r) \/ FindAfterViolation(r)
  <2>1. \/ \E e : AnswerWith(r, e, 200)
        \/ \E code \in {400, 500} : Answer(r, code)
        \/ Goto(r, "freeze")
    BY <1>10 DEF FindByIdempotencyKey, FindAfterViolation
  <2> QED BY <1>4, <1>5, <1>6, <2>1 DEF Statuses, Labels
<1>11. CASE Start(r) \/ StoreFailure(r) \/ StoreResult(r)
  <2>1. Created(r)
    BY <1>11, LabelsOfOperations DEF Created, Start, StoreFailure, StoreResult
  <2>2. \/ \E code \in {409, 422} : Answer(r, code)
        \/ \E l \in {"evaluate", "reload"} : Goto(r, l)
    BY <1>11 DEF Start, StoreFailure, StoreResult
  <2> QED BY <1>4, <1>5, <2>1, <2>2 DEF Statuses, Labels
<1>12. CASE \/ ConfirmTransition(r) \/ VoidTransition(r) \/ SetReplayResult(r)
  <2>1. /\ Op(r) # "run"
        /\ Answer(r, 409) \/ \E l \in {"reload", "audit"} : Goto(r, l)
    BY <1>12 DEF ConfirmTransition, VoidTransition, SetReplayResult
  <2>2. req'[r].call = req[r].call
    BY <2>1, AfterGoto, AfterAnswer DEF SameCall
  <2> QED BY <2>1, <2>2 DEF Created, IsRun
<1>13. CASE RecordAudit(r)
  <2>1. At(r, "audit")
    BY <1>13 DEF RecordAudit
  <2>2. \/ Answer(r, 201) /\ Op(r) = "run"
        \/ \E code \in {200, 409} : Answer(r, code)
        \/ Goto(r, "get")
    BY <1>13 DEF RecordAudit
  <2>3. req[r].call # None
    BY <2>1, CallTypes
  <2> QED BY <1>4, <1>5, <2>1, <2>2, <2>3 DEF Statuses, Labels, Created, IsRun
<1>14. CASE AuditMiddleware(r) \/ Interrupt(r)
  BY <1>4, <1>5, <1>14 DEF AuditMiddleware, Interrupt, Abort, DatabaseError, Labels,
                           Statuses
<1> QED BY <1>2, <1>3, <1>7, <1>8, <1>9, <1>10, <1>11, <1>12, <1>13, <1>14 DEF Step

\* An evaluation has one creator.
LEMMA CreatedOnceStep ==
    ASSUME IInv, NEW r \in Requests, Submit(r) \/ Step(r) \/ Interrupt(r)
    PROVE  CreatedOnce'
<1>1. ASSUME NEW q \in Requests, q # r, Created(q)', Created(r)',
             req'[q].target = req'[r].target
      PROVE  FALSE
  <2>1. Created(q) /\ req'[q] = req[q]
    BY <1>1, OthersCreated, OtherHandlers
  <2>2. req[q].target \in EvalIds /\ Exists(req[q].target)
    BY <2>1 DEF IInv, HandlersInv, RunInv, Created
  <2>3. Created(r) /\ req'[r].target = req[r].target
    BY <1>1, <2>1, <2>2, CreatedBy
  <2> QED BY <1>1, <2>1, <2>3 DEF IInv, CreatedOnce
<1>2. ASSUME NEW p \in Requests, NEW q \in Requests, p # r, q # r,
             Created(p)', Created(q)', req'[p].target = req'[q].target
      PROVE  p = q
  BY <1>2, OthersCreated, OtherHandlers DEF IInv, CreatedOnce
<1> QED BY <1>1, <1>2 DEF CreatedOnce

\* r's own win is a transition of a row no one else has won in that way.
LEMMA WonBy ==
    ASSUME IInv, NEW r \in Requests, Submit(r) \/ Step(r) \/ Interrupt(r),
           NEW op \in {"confirm", "void"}, Won(r, op)'
    PROVE  /\ req'[r].target = req[r].target
           /\ \/ Won(r, op)
              \/ op = "confirm" /\ Stored(r).state = "completed"
              \/ op = "void" /\ Stored(r).state \in VoidableStates
<1>1. req[r] \in Request /\ AnswerInv(r) /\ RunInv(r) /\ StateCallInv(r)
  BY DEF IInv, TypeOK, HandlersInv
<1>2. CASE Submit(r)
  <2>1. req'[r].status \in {0, 403} /\ req'[r].pc \in {"answered", "find", "load"}
    BY <1>2, AfterSubmit
  <2> QED BY <2>1 DEF Won
<1>3. CASE ~Submit(r)
  <2>1. req[r].pc # "idle" /\ req'[r].call = req[r].call
    <3>1. Moved(r) /\ req[r].pc # "idle"
      BY <1>3, StepMoves
    <3>2. CASE \E l : Goto(r, l)
      BY <3>1, <3>2, AfterGoto DEF SameCall
    <3>3. CASE (\E code : Answer(r, code)) \/ (\E e, code : AnswerWith(r, e, code))
      BY <3>1, <3>3, AfterAnswer, AfterAnswerWith DEF SameCall
    <3>4. ASSUME NEW h, Become(r, h), h.call = req[r].call
          PROVE  req'[r].call = req[r].call
      BY <3>4, AfterBecome
    <3>5. ASSUME NEW i, Become(r, [req[r] EXCEPT !.pc = "create", !.input = i])
          PROVE  req'[r].call = req[r].call
      <4>1. [req[r] EXCEPT !.pc = "create", !.input = i].call = req[r].call
        BY <1>1 DEF Request
      <4> QED BY <3>4, <3>5, <4>1
    <3>6. ASSUME NEW e, Become(r, [req[r] EXCEPT !.pc = "start", !.target = e])
          PROVE  req'[r].call = req[r].call
      <4>1. [req[r] EXCEPT !.pc = "start", !.target = e].call = req[r].call
        BY <1>1 DEF Request
      <4> QED BY <3>4, <3>6, <4>1
    <3>7. ASSUME Loaded(r) PROVE req'[r].call = req[r].call
      <4>1. \A row, v : [req[r] EXCEPT !.pc = "update", !.before = row, !.verdict = v].call
                         = req[r].call
        BY <1>1 DEF Request
      <4>2. \E row, v : Become(r, [req[r] EXCEPT !.pc = "update", !.before = row,
                                                  !.verdict = v])
        BY <3>7, Zenon DEF Loaded
      <4>3. ASSUME NEW row, NEW v,
                   Become(r, [req[r] EXCEPT !.pc = "update", !.before = row,
                                            !.verdict = v])
            PROVE  req'[r].call = req[r].call
        <5>1. [req[r] EXCEPT !.pc = "update", !.before = row, !.verdict = v].call
                = req[r].call
          BY <4>1
        <5> QED BY <3>4, <4>3, <5>1
      <4> QED BY <4>2, <4>3
    <3>8. ASSUME NEW row, Become(r, [req[r] EXCEPT !.pc = "audit", !.after = row])
          PROVE  req'[r].call = req[r].call
      <4>1. [req[r] EXCEPT !.pc = "audit", !.after = row].call = req[r].call
        BY <1>1 DEF Request
      <4> QED BY <3>4, <3>8, <4>1
    <3>9. ASSUME NEW row, Become(r, [req[r] EXCEPT !.pc = "answered", !.status = 200,
                                                   !.after = row])
          PROVE  req'[r].call = req[r].call
      <4>1. [req[r] EXCEPT !.pc = "answered", !.status = 200, !.after = row].call
              = req[r].call
        BY <1>1 DEF Request
      <4> QED BY <3>4, <3>9, <4>1
    <3> QED BY <3>1, <3>2, <3>3, <3>5, <3>6, <3>7, <3>8, <3>9 DEF Moved
  <2>2. IsStateCall(r, op) /\ req[r].call # None /\ Op(r) = op /\ op # "run"
    BY <1>3, <2>1, CallTypes DEF Won, IsStateCall
  <2>3. /\ ~FindByIdempotencyKey(r) /\ ~FreezeSnapshot(r) /\ ~Create(r)
        /\ ~FindAfterViolation(r) /\ ~Start(r) /\ ~StoreFailure(r) /\ ~StoreResult(r)
    BY <2>2, LabelsOfOperations DEF IsRun, FindByIdempotencyKey, FreezeSnapshot,
         Create, FindAfterViolation, Start, StoreFailure, StoreResult
  <2>4. ~SetReplayResult(r) /\ ~GetAfterReplay(r)
    BY <1>1, <2>2 DEF SetReplayResult, GetAfterReplay, StateCallInv
  <2>5. CASE LoadEvaluation(r)
    <3>1. CASE \E code \in {404, 409, 422} : Answer(r, code)
      BY <3>1, AfterAnswer DEF Won
    <3>2. CASE ~\E code \in {404, 409, 422} : Answer(r, code)
      <4>1. Loaded(r)
        BY <2>5, <3>2, LoadMoves
      <4>2. req[r].status = 0
        BY <1>1, <2>5 DEF LoadEvaluation, AnswerInv
      <4>3. req'[r].pc = "update" /\ req'[r].status = 0
        BY <1>1, <4>1, <4>2, AfterBecome DEF Loaded, Request
      <4> QED BY <4>3 DEF Won
    <3> QED BY <3>1, <3>2
  <2>6. CASE ConfirmTransition(r)
    <3>1. CASE Answer(r, 409)
      BY <3>1, AfterAnswer DEF Won
    <3>2. CASE ~Answer(r, 409)
      BY <2>2, <2>6, <3>2, AfterGoto
         DEF ConfirmTransition, Matches, ConfirmableStates, Stored
    <3> QED BY <3>1, <3>2
  <2>7. CASE VoidTransition(r)
    <3>1. CASE Answer(r, 409)
      BY <3>1, AfterAnswer DEF Won
    <3>2. CASE ~Answer(r, 409)
      BY <2>2, <2>7, <3>2, AfterGoto DEF VoidTransition, Matches, Stored
    <3> QED BY <3>1, <3>2
  <2>8. CASE Reload(r)
    <3>1. req'[r] = [req[r] EXCEPT !.pc = "audit", !.after = Stored(r)]
      BY <2>8, AfterBecome DEF Reload
    <3>2. req'[r].target = req[r].target
      BY <1>1, <3>1 DEF Request
    <3> QED BY <2>2, <2>8, <3>2 DEF Reload, Won
  <2>9. CASE RecordAudit(r)
    <3>1. Won(r, op) /\ \E code : Answer(r, code)
      BY <2>2, <2>9 DEF RecordAudit, Won
    <3> QED BY <3>1, AfterAnswer
  <2>10. CASE DatabaseError(r)
    BY <2>10, AfterAnswer DEF DatabaseError, Won
  <2>11. CASE AuditMiddleware(r) \/ Abort(r)
    <3>1. PICK l \in {"done", "aborted"} : Goto(r, l)
      BY <2>11 DEF AuditMiddleware, Abort
    <3>2. /\ req'[r].pc = l /\ req'[r].target = req[r].target
          /\ req'[r].status = req[r].status
      BY <3>1, AfterGoto
    <3> QED BY <2>2, <3>2 DEF Won
  <2> QED BY <1>3, <2>3, <2>4, <2>5, <2>6, <2>7, <2>8, <2>9, <2>10,
             <2>11 DEF Step, Interrupt
<1> QED BY <1>2, <1>3

\* An evaluation is confirmed once and voided once.
LEMMA WonOnceStep ==
    ASSUME IInv, NEW r \in Requests, Submit(r) \/ Step(r) \/ Interrupt(r)
    PROVE  WonOnce'
<1>1. ASSUME NEW q \in Requests, q # r, NEW op \in {"confirm", "void"},
             Won(q, op)', Won(r, op)', req'[q].target = req'[r].target
      PROVE  FALSE
  <2>1. Won(q, op) /\ req'[q] = req[q]
    BY <1>1, OthersCreated, OtherHandlers
  <2>2. /\ op = "confirm" => Stored(q).state \in {"confirmed", "voided"}
        /\ op = "void" => Stored(q).state = "voided"
    BY <1>1, <2>1 DEF IInv, HandlersInv, StateCallInv, Won, IsStateCall
  <2>3. req'[r].target = req[r].target /\ Stored(q) = Stored(r)
    BY <1>1, <2>1, WonBy DEF Stored
  <2>4. Won(r, op)
    BY <1>1, <2>2, <2>3, WonBy DEF VoidableStates
  <2> QED BY <1>1, <2>1, <2>3, <2>4 DEF IInv, WonOnce
<1>2. ASSUME NEW p \in Requests, NEW q \in Requests, p # r, q # r,
             NEW op \in {"confirm", "void"},
             Won(p, op)', Won(q, op)', req'[p].target = req'[q].target
      PROVE  p = q
  BY <1>2, OthersCreated, OtherHandlers DEF IInv, WonOnce
<1> QED BY <1>1, <1>2 DEF WonOnce

----------------------------------------------------------------------------
(***************************************************************************)
(* The invariant and what follows from it                                  *)
(***************************************************************************)
\* The inductive invariant holds of the empty database.
LEMMA InitIInv == Init => IInv
<1> SUFFICES ASSUME Init PROVE IInv
  OBVIOUS
<1>1. req = [r \in Requests |-> Idle] /\ evaluations = [e \in EvalIds |-> None] /\ audits = {}
  BY DEF Init
<1>2. \A r \in Requests : req[r] = Idle
  BY <1>1
<1>3. Idle \in Request
  BY DEF Idle, Request, Labels, Statuses, Verdicts
<1>4. TypeOK
  BY <1>1, <1>3 DEF TypeOK
<1>5. KeysUnique /\ RowsInv
  BY <1>1 DEF KeysUnique, RowsInv, Exists
<1>6. \A r \in Requests : req[r].call = None /\ At(r, "idle") /\ req[r].status = 0
  <2>1. Idle.call = None /\ Idle.pc = "idle" /\ Idle.status = 0
    BY DEF Idle
  <2> QED BY <1>2, <2>1
<1>7. HandlersInv
  BY <1>6 DEF HandlersInv, AnswerInv, RunInv, StateCallInv, IsRun
<1>8. CreatedOnce /\ WonOnce
  BY <1>6 DEF CreatedOnce, WonOnce, Created, Won, IsRun, IsStateCall
<1> QED BY <1>4, <1>5, <1>7, <1>8 DEF IInv

\* The inductive invariant is preserved by every step.
LEMMA IInvStep == IInv /\ [Next]_vars => IInv'
<1> SUFFICES ASSUME IInv, [Next]_vars PROVE IInv'
  OBVIOUS
<1>1. CASE UNCHANGED vars
  BY <1>1 DEF vars, IInv, TypeOK, KeysUnique, RowsInv, RowInv, HandlersInv, AnswerInv,
       RunInv, StateCallInv, CreatedOnce, WonOnce, Created, Won, IsRun, IsStateCall,
       Exists, Stored, Precedes, IsAuthor
<1>2. ASSUME NEW r \in Requests, Submit(r) \/ Step(r) \/ Interrupt(r) PROVE IInv'
  BY <1>2, TypingStep, KeysUniqueStep, RowsInvStep, HandlersInvStep, CreatedOnceStep,
     WonOnceStep DEF IInv, Next
<1> QED BY <1>1, <1>2 DEF Next

(* The inductive invariant: every key has one row, every row belongs to    *)
(* its life cycle, every handler relies only on what other requests cannot *)
(* undo, and creators and winners are unique.                              *)
THEOREM Invariance == Spec => []IInv
  BY InitIInv, IInvStep, PTL DEF Spec

(* Every stored row, audit entry and handler stays well formed.            *)
THEOREM TypeCorrect == Spec => []TypeOK
<1>1. IInv => TypeOK
  BY DEF IInv
<1> QED BY Invariance, <1>1, PTL

(* Run requests with one key that succeed answer with one evaluation, and  *)
(* one of them created it: FindByIdempotencyKey, the unique index and the  *)
(* second lookup suffice for any number of concurrent requests.            *)
THEOREM KeyedOnce == Spec => []SameKeySameEvaluation
<1>1. IInv => SameKeySameEvaluation
  <2> SUFFICES ASSUME IInv, NEW r \in Requests, NEW q \in Requests,
                      RunSucceeded(r), RunSucceeded(q),
                      req[r].call.key = req[q].call.key
               PROVE  /\ req[r].target = req[q].target
                      /\ req[r].status = 201 /\ req[q].status = 201 => r = q
    BY DEF SameKeySameEvaluation
  <2>1. /\ req[r].target \in EvalIds /\ Exists(req[r].target)
        /\ evaluations[req[r].target].key = req[r].call.key
    BY DEF IInv, HandlersInv, RunInv, Created, RunSucceeded, Stored
  <2>2. /\ req[q].target \in EvalIds /\ Exists(req[q].target)
        /\ evaluations[req[q].target].key = req[q].call.key
    BY DEF IInv, HandlersInv, RunInv, Created, RunSucceeded, Stored
  <2>3. req[r].target = req[q].target
    BY <2>1, <2>2 DEF IInv, KeysUnique
  <2>4. req[r].status = 201 /\ req[q].status = 201 => r = q
    BY <2>3 DEF IInv, CreatedOnce, Created, RunSucceeded
  <2> QED BY <2>3, <2>4
<1> QED BY Invariance, <1>1, PTL

(* No request takes a row away from the Run that is computing it, so the   *)
(* conflict answers in Run are unreachable.                                *)
THEOREM RunUndisturbed == Spec => []RunKeepsItsRow
<1>1. IInv => RunKeepsItsRow
  BY DEF IInv, HandlersInv, RunInv, RunKeepsItsRow
<1> QED BY Invariance, <1>1, PTL

(* At most one of the concurrent Confirms (Voids) of an evaluation         *)
(* succeeds: the conditional update decides.                               *)
THEOREM SingleWinner == Spec => []OneWinner
<1>1. IInv => OneWinner
  BY DEF IInv, WonOnce, Won, OneWinner
<1> QED BY Invariance, <1>1, PTL

(* The author of a scenario never confirms its evaluation, whoever races,  *)
(* and only the conclusion of the row's own frozen input gets confirmed.   *)
THEOREM ReviewerSeparated == Spec => []ConfirmedByReviewer
<1>1. IInv => ConfirmedByReviewer
  BY DEF IInv, RowsInv, RowInv, ConfirmedByReviewer
<1> QED BY Invariance, <1>1, PTL

----------------------------------------------------------------------------
(***************************************************************************)
(* Refinement                                                              *)
(***************************************************************************)
\* The abstract record shows the columns of the stored row.
LEMMA PublishedFields ==
    ASSUME IInv, NEW e \in EvalIds
    PROVE  /\ Exists(e) => /\ PublishedRecord[e] = Published(evaluations[e])
                           /\ PublishedRecord[e] # None
           /\ ~Exists(e) => PublishedRecord[e] = None
           /\ e \in Lifecycle!Unused <=> ~Exists(e)
<1>1. Exists(e) => evaluations[e] \in Row /\ Published(evaluations[e]) # None
  BY ScopeAssumption DEF IInv, TypeOK, Exists
<1> QED BY <1>1 DEF PublishedRecord, Lifecycle!Unused

\* Updating one row updates one record.
LEMMA OneRowPublished ==
    ASSUME IInv, NEW e \in EvalIds, NEW new,
           \A f \in EvalIds : f # e => evaluations'[f] = evaluations[f],
           evaluations'[e] # None, Published(evaluations'[e]) = new
    PROVE  PublishedRecord' = [PublishedRecord EXCEPT ![e] = new]
<1>1. ASSUME NEW f \in EvalIds
      PROVE  PublishedRecord'[f] = [PublishedRecord EXCEPT ![e] = new][f]
  BY <1>1 DEF PublishedRecord, Exists
<1> QED BY <1>1 DEF PublishedRecord

\* Complete, seen in the published columns.
LEMMA PublishedCompleted ==
    ASSUME NEW row \in Row, NEW i, row.input = i
    PROVE  Published(Completed(row, i)) =
              [Published(row) EXCEPT !.state = "completed", !.conclusion = i]
<1>1. PICK mid : mid = [Published(row) EXCEPT !.state = "completed"]
  OBVIOUS
<1>2. mid = [key |-> row.key, scenario |-> row.scenario, input |-> row.input,
             state |-> "completed", conclusion |-> row.conclusion, confirmedBy |-> row.confirmedBy]
  BY <1>1 DEF Published
<1>3. [mid EXCEPT !.conclusion = i] =
            [key |-> row.key, scenario |-> row.scenario, input |-> row.input,
             state |-> "completed", conclusion |-> i, confirmedBy |-> row.confirmedBy]
  BY <1>2
<1>4. [Published(row) EXCEPT !.state = "completed", !.conclusion = i] =
            [mid EXCEPT !.conclusion = i]
  BY <1>1
<1>5. Published(Completed(row, i)) =
            [key |-> row.key, scenario |-> row.scenario, input |-> row.input,
             state |-> "completed", conclusion |-> i, confirmedBy |-> row.confirmedBy]
  BY DEF Published, Row, Completed
<1> QED BY <1>3, <1>4, <1>5

\* Confirm, seen in the published columns.
LEMMA PublishedConfirmed ==
    ASSUME NEW row \in Row, NEW u
    PROVE  Published(Confirmed(row, u)) =
              [Published(row) EXCEPT !.state = "confirmed", !.confirmedBy = u]
<1>1. PICK mid : mid = [Published(row) EXCEPT !.state = "confirmed"]
  OBVIOUS
<1>2. mid = [key |-> row.key, scenario |-> row.scenario, input |-> row.input,
             state |-> "confirmed", conclusion |-> row.conclusion, confirmedBy |-> row.confirmedBy]
  BY <1>1 DEF Published
<1>3. [mid EXCEPT !.confirmedBy = u] =
            [key |-> row.key, scenario |-> row.scenario, input |-> row.input,
             state |-> "confirmed", conclusion |-> row.conclusion, confirmedBy |-> u]
  BY <1>2
<1>4. [Published(row) EXCEPT !.state = "confirmed", !.confirmedBy = u] =
            [mid EXCEPT !.confirmedBy = u]
  BY <1>1
<1>5. Published(Confirmed(row, u)) =
            [key |-> row.key, scenario |-> row.scenario, input |-> row.input,
             state |-> "confirmed", conclusion |-> row.conclusion, confirmedBy |-> u]
  BY DEF Published, Row, Confirmed
<1> QED BY <1>3, <1>4, <1>5

(* A row that makes a RowStep makes a step of the life cycle or none.      *)
LEMMA RowStepImplements ==
    ASSUME IInv, NEW r \in Requests, NEW e \in EvalIds, Exists(e),
           \A f \in EvalIds : f # e => evaluations'[f] = evaluations[f],
           evaluations'[e] \in Row,
           RowStep(r, evaluations[e], evaluations'[e]),
           At(r, "evaluate") => req[r].input = evaluations[e].input,
           IsStateCall(r, "confirm") /\ At(r, "update") =>
              /\ req[r].call.actor \in Users
              /\ ~IsAuthor(req[r].call.actor, evaluations[e])
    PROVE  Lifecycle!Next \/ UNCHANGED PublishedRecord
<1> DEFINE R == PublishedRecord
           old == evaluations[e]
<1>1. /\ R[e] = Published(old) /\ e \notin Lifecycle!Unused
      /\ old \in Row /\ None \notin Row
  BY PublishedFields, ScopeAssumption DEF IInv, TypeOK, Exists
<1>2. ASSUME NEW new, Published(evaluations'[e]) = new
      PROVE  R' = [R EXCEPT ![e] = new]
  BY <1>1, <1>2, OneRowPublished
<1>3. /\ R[e].state = old.state /\ R[e].scenario = old.scenario
      /\ R[e].input = old.input
  BY <1>1 DEF Published
<1>4. CASE Published(evaluations'[e]) = Published(old)
  <2>1. R' = [R EXCEPT ![e] = R[e]]
    BY <1>1, <1>2, <1>4
  <2> QED BY <2>1 DEF PublishedRecord
<1>5. CASE old.state = "queued" /\ evaluations'[e] = Started(old)
  <2>1. Published(evaluations'[e]) = [R[e] EXCEPT !.state = "running"]
    BY <1>1, <1>5 DEF Published, Started, Row
  <2>2. R' = [R EXCEPT ![e].state = "running"]
    BY <1>2, <2>1
  <2>3. Lifecycle!Start(e)
    BY <1>1, <1>3, <1>5, <2>2 DEF Lifecycle!Start
  <2> QED BY <2>3 DEF Lifecycle!Next
<1>6. CASE old.state = "running" /\ evaluations'[e] = Failed(old)
  <2>1. Published(evaluations'[e]) = [R[e] EXCEPT !.state = "failed"]
    BY <1>1, <1>6 DEF Published, Failed, Row
  <2>2. R' = [R EXCEPT ![e].state = "failed"]
    BY <1>2, <2>1
  <2>3. Lifecycle!Fail(e)
    BY <1>1, <1>3, <1>6, <2>2 DEF Lifecycle!Fail
  <2> QED BY <2>3 DEF Lifecycle!Next
<1>7. CASE /\ At(r, "evaluate") /\ old.state = "running"
           /\ evaluations'[e] = Completed(old, req[r].input)
  <2>1. Published(evaluations'[e]) =
           [R[e] EXCEPT !.state = "completed", !.conclusion = R[e].input]
    <3>1. PICK i : i = req[r].input /\ old.input = i
      BY <1>7
    <3>2. Published(Completed(old, i)) =
             [Published(old) EXCEPT !.state = "completed", !.conclusion = i]
      BY <1>1, <3>1, PublishedCompleted
    <3> QED BY <1>1, <1>3, <1>7, <3>1, <3>2
  <2>2. R' = [R EXCEPT ![e].state = "completed", ![e].conclusion = R[e].input]
    BY <1>2, <2>1
  <2>3. Lifecycle!Complete(e)
    BY <1>1, <1>3, <1>7, <2>2 DEF Lifecycle!Complete
  <2> QED BY <2>3 DEF Lifecycle!Next
<1>8. CASE /\ IsStateCall(r, "confirm") /\ At(r, "update")
           /\ old.state = "completed"
           /\ evaluations'[e] = Confirmed(old, req[r].call.actor)
  <2>1. PICK u \in Users : u = req[r].call.actor
    BY <1>8
  <2>2. Published(evaluations'[e]) =
           [R[e] EXCEPT !.state = "confirmed", !.confirmedBy = u]
    <3>1. Published(Confirmed(old, u)) =
             [Published(old) EXCEPT !.state = "confirmed", !.confirmedBy = u]
      BY <1>1, PublishedConfirmed
    <3> QED BY <1>1, <1>8, <2>1, <3>1
  <2>3. R' = [R EXCEPT ![e].state = "confirmed", ![e].confirmedBy = u]
    BY <1>2, <2>2
  <2>4. u # AuthorOf[R[e].scenario]
    BY <1>3, <1>8, <2>1 DEF IsAuthor
  <2>5. Lifecycle!Confirm(e, u)
    BY <1>1, <1>3, <1>8, <2>3, <2>4 DEF Lifecycle!Confirm
  <2> QED BY <2>5 DEF Lifecycle!Next
<1>9. CASE old.state \in VoidableStates /\ evaluations'[e] = Voided(old)
  <2>1. Published(evaluations'[e]) = [R[e] EXCEPT !.state = "voided"]
    BY <1>1, <1>9 DEF Published, Voided, Row
  <2>2. R' = [R EXCEPT ![e].state = "voided"]
    BY <1>2, <2>1
  <2>3. Lifecycle!Void(e)
    BY <1>1, <1>3, <1>9, <2>2 DEF Lifecycle!Void, VoidableStates
  <2> QED BY <2>3 DEF Lifecycle!Next
<1>10. CASE \E v \in Verdicts : evaluations'[e] = [old EXCEPT !.replay = v]
  <2>1. Published(evaluations'[e]) = Published(old)
    BY <1>1, <1>10 DEF Published, Row
  <2> QED BY <1>4, <2>1
<1> QED BY <1>4, <1>5, <1>6, <1>7, <1>8, <1>9, <1>10 DEF RowStep

\* Every step of the handlers is a step of the life cycle or a stutter.
LEMMA StepImplements ==
    ASSUME IInv, NEW r \in Requests, Submit(r) \/ Step(r) \/ Interrupt(r)
    PROVE  Lifecycle!Next \/ UNCHANGED PublishedRecord
<1>1. CASE \E e \in EvalIds : ~Exists(e) /\ evaluations'[e] # None
  <2>1. PICK e \in EvalIds : ~Exists(e) /\ evaluations'[e] # None
    BY <1>1
  <2> DEFINE c == req[r].call
             i == req[r].input
  <2>2. Exists(e)'
    BY <2>1 DEF Exists
  <2>3. Create(r) /\ KeyHolders(c.key) = {}
    BY <2>1, <2>2, NewRow
  <2>4. evaluations'[e] =
           [key |-> c.key, scenario |-> c.scenario, by |-> c.actor, input |-> i,
            state |-> "queued", conclusion |-> None, confirmedBy |-> None,
            replay |-> "none"]
    BY <2>1, <2>2, NewRow
  <2>5. c.key \in Keys /\ c.scenario \in Scenarios /\ i \in Inputs
    BY <2>3, LabelsOfOperations, CallTypes DEF Create, IsRun
  <2>6. \A f \in EvalIds : f # e => evaluations'[f] = evaluations[f]
    <3>1. PICK g \in EvalIds : \E row : evaluations' = [evaluations EXCEPT ![g] = row]
      BY <2>1, <2>3 DEF Create, Exists
    <3>2. PICK row : evaluations' = [evaluations EXCEPT ![g] = row]
      BY <3>1
    <3> QED BY <2>1, <3>2 DEF Exists, IInv, TypeOK
  <2>7. Published(evaluations'[e]) =
           [key |-> c.key, scenario |-> c.scenario, input |-> i, state |-> "queued",
            conclusion |-> None, confirmedBy |-> None]
    BY <2>4 DEF Published
  <2>8. PublishedRecord' = [PublishedRecord EXCEPT ![e] =
           [key |-> c.key, scenario |-> c.scenario, input |-> i, state |-> "queued",
            conclusion |-> None, confirmedBy |-> None]]
    BY <2>1, <2>6, <2>7, OneRowPublished
  <2>9. \A f \in EvalIds \ Lifecycle!Unused : PublishedRecord[f].key # c.key
    <3> SUFFICES ASSUME NEW f \in EvalIds, f \notin Lifecycle!Unused
                 PROVE  PublishedRecord[f].key # c.key
      OBVIOUS
    <3>1. Exists(f) /\ PublishedRecord[f] = Published(evaluations[f])
      BY PublishedFields
    <3>2. evaluations[f].key # c.key
      BY <2>3, <3>1 DEF KeyHolders
    <3> QED BY <3>1, <3>2 DEF Published
  <2>10. e \in Lifecycle!Unused
    BY <2>1, PublishedFields
  <2>11. Lifecycle!Queue(e, c.key, c.scenario, i)
    BY <2>8, <2>9, <2>10 DEF Lifecycle!Queue
  <2> QED BY <2>5, <2>11 DEF Lifecycle!Next
<1>2. CASE /\ \A e \in EvalIds : ~Exists(e) => evaluations'[e] = None
           /\ req[r].target \in EvalIds /\ Exists(req[r].target)
  <2>1. PICK e \in EvalIds : e = req[r].target /\ Exists(e)
    BY <1>2
  <2>2. \A f \in EvalIds : f # e => evaluations'[f] = evaluations[f]
    BY <1>2, <2>1, OtherRows DEF Exists
  <2>3. evaluations'[e] \in Row /\ RowStep(r, evaluations[e], evaluations'[e])
    BY <2>1, RowAfter
  <2>4. At(r, "evaluate") => req[r].input = evaluations[e].input
    BY <2>1, LabelsOfOperations DEF IInv, HandlersInv, RunInv, Created, Stored
  <2>5. IsStateCall(r, "confirm") /\ At(r, "update") =>
           /\ req[r].call.actor \in Users
           /\ ~IsAuthor(req[r].call.actor, evaluations[e])
    BY <2>1, CallTypes DEF IInv, HandlersInv, StateCallInv, IsStateCall, Stored
  <2> QED BY <2>1, <2>2, <2>3, <2>4, <2>5, RowStepImplements
<1>3. CASE /\ \A e \in EvalIds : ~Exists(e) => evaluations'[e] = None
           /\ ~(req[r].target \in EvalIds /\ Exists(req[r].target))
  <2>1. \A e \in EvalIds : evaluations'[e] = evaluations[e]
    BY <1>3, OtherRows DEF Exists
  <2> QED BY <2>1 DEF PublishedRecord, Exists
<1> QED BY <1>1, <1>2, <1>3

(* The handlers implement the life cycle: however requests interleave and  *)
(* wherever they are cut off, a stored evaluation changes only by the      *)
(* steps CoverageLifecycle allows.                                         *)
THEOREM Implementation == Spec => ImplementsLifecycle
<1>1. Init => Lifecycle!Init
  BY DEF Init, Lifecycle!Init, PublishedRecord, Exists
<1>2. IInv /\ [Next]_vars => [Lifecycle!Next]_PublishedRecord
  <2> SUFFICES ASSUME IInv, [Next]_vars
               PROVE  Lifecycle!Next \/ UNCHANGED PublishedRecord
    OBVIOUS
  <2>1. CASE UNCHANGED vars
    BY <2>1 DEF vars, PublishedRecord, Exists
  <2>2. ASSUME NEW r \in Requests, Submit(r) \/ Step(r) \/ Interrupt(r)
        PROVE  Lifecycle!Next \/ UNCHANGED PublishedRecord
    BY <2>2, StepImplements
  <2> QED BY <2>1, <2>2 DEF Next
<1> QED BY Invariance, <1>1, <1>2, PTL DEF Spec, ImplementsLifecycle, Lifecycle!Spec

----------------------------------------------------------------------------
(***************************************************************************)
(* What a handler holds, and the audit trail                               *)
(***************************************************************************)
\* What a handler keeps of what it read, step by step.
LEMMA Kept ==
    ASSUME IInv, NEW r \in Requests, Step(r) \/ Interrupt(r)
    PROVE  /\ req[r].pc # "idle" /\ req'[r].call = req[r].call
           /\ LoadEvaluation(r) \/ /\ req'[r].before = req[r].before
                                   /\ req'[r].verdict = req[r].verdict
           /\ Reload(r) \/ GetAfterReplay(r) \/ req'[r].after = req[r].after
           /\ req'[r].pc = "answered" \/ req'[r].status = req[r].status
<1>1. req[r] \in Request
  BY DEF IInv, TypeOK
<1>2. req[r].pc # "idle"
  BY StepMoves
<1>3. \/ \E l : Goto(r, l)
      \/ \E code : Answer(r, code)
      \/ \E e, code : AnswerWith(r, e, code)
      \/ \E i : Become(r, [req[r] EXCEPT !.pc = "create", !.input = i])
      \/ \E e : Become(r, [req[r] EXCEPT !.pc = "start", !.target = e])
      \/ LoadEvaluation(r) /\ Loaded(r)
      \/ Reload(r) /\ Become(r, [req[r] EXCEPT !.pc = "audit", !.after = Stored(r)])
      \/ /\ GetAfterReplay(r)
         /\ Become(r, [req[r] EXCEPT !.pc = "answered", !.status = 200,
                                     !.after = Stored(r)])
  BY StepMoves, Zenon DEF Moved
<1>4. CASE \/ \E l : Goto(r, l)
           \/ \E code : Answer(r, code)
           \/ \E e, code : AnswerWith(r, e, code)
  BY <1>2, <1>4, AfterGoto, AfterAnswer, AfterAnswerWith DEF SameCall
<1>5. CASE \E i : Become(r, [req[r] EXCEPT !.pc = "create", !.input = i])
  <2>1. \E i : req'[r] = [req[r] EXCEPT !.pc = "create", !.input = i]
    BY <1>5, AfterBecome
  <2> QED BY <1>1, <1>2, <2>1 DEF Request
<1>6. CASE \E e : Become(r, [req[r] EXCEPT !.pc = "start", !.target = e])
  <2>1. \E e : req'[r] = [req[r] EXCEPT !.pc = "start", !.target = e]
    BY <1>6, AfterBecome
  <2> QED BY <1>1, <1>2, <2>1 DEF Request
<1>7. CASE LoadEvaluation(r) /\ Loaded(r)
  <2>1. \E row, v : req'[r] = [req[r] EXCEPT !.pc = "update", !.before = row,
                                             !.verdict = v]
    BY <1>7, AfterBecome DEF Loaded
  <2> QED BY <1>1, <1>2, <1>7, <2>1 DEF Request
<1>8. CASE Reload(r) /\ Become(r, [req[r] EXCEPT !.pc = "audit", !.after = Stored(r)])
  <2>1. \E row : req'[r] = [req[r] EXCEPT !.pc = "audit", !.after = row]
    BY <1>8, AfterBecome
  <2> QED BY <1>1, <1>2, <1>8, <2>1 DEF Request
<1>9. CASE /\ GetAfterReplay(r)
           /\ Become(r, [req[r] EXCEPT !.pc = "answered", !.status = 200,
                                       !.after = Stored(r)])
  <2>1. \E row : req'[r] = [req[r] EXCEPT !.pc = "answered", !.status = 200, !.after = row]
    BY <1>9, AfterBecome
  <2> QED BY <1>1, <1>2, <1>9, <2>1 DEF Request
<1> QED BY <1>3, <1>4, <1>5, <1>6, <1>7, <1>8, <1>9

(***************************************************************************)
(* Replay of a settled evaluation                                          *)
(***************************************************************************)
Reproduced(r) ==
    /\ req[r].call = None => req[r].before = None
    /\ /\ IsStateCall(r, "replay") /\ req[r].before # None
       /\ req[r].before.state \in {"completed", "confirmed"}
       => req[r].verdict = "passed"

\* A replay verdict agrees with the row it was computed from.
LEMMA ReproducedStep ==
    ASSUME IInv, NEW r \in Requests, Submit(r) \/ Step(r) \/ Interrupt(r), Reproduced(r)
    PROVE  Reproduced(r)'
<1>1. req[r] \in Request /\ AnswerInv(r) /\ RunInv(r) /\ StateCallInv(r)
  BY DEF IInv, TypeOK, HandlersInv
<1>2. CASE Submit(r)
  <2>1. req[r].call = None
    BY <1>1, <1>2 DEF Submit, AnswerInv, RunInv, StateCallInv, IsRun
  <2>2. req[r].before = None
    BY <2>1 DEF Reproduced
  <2>3. PICK c \in Calls :
          \/ Become(r, [req[r] EXCEPT !.pc = "answered", !.call = c, !.status = 403])
          \/ Become(r, [req[r] EXCEPT !.pc = FirstLabel(c.op), !.call = c,
                                      !.target = c.id])
    BY <1>2 DEF Submit
  <2>4. req'[r].before = None
    <3>1. CASE Become(r, [req[r] EXCEPT !.pc = "answered", !.call = c, !.status = 403])
      <4>1. req'[r] = [req[r] EXCEPT !.pc = "answered", !.call = c, !.status = 403]
        BY <3>1, AfterBecome
      <4> QED BY <1>1, <2>2, <4>1 DEF Request
    <3>2. CASE Become(r, [req[r] EXCEPT !.pc = FirstLabel(c.op), !.call = c,
                                        !.target = c.id])
      <4>1. req'[r] = [req[r] EXCEPT !.pc = FirstLabel(c.op), !.call = c, !.target = c.id]
        BY <3>2, AfterBecome
      <4> QED BY <1>1, <2>2, <4>1 DEF Request
    <3> QED BY <2>3, <3>1, <3>2
  <2> QED BY <2>4 DEF Reproduced
<1>3. CASE LoadEvaluation(r)
  <2>1. CASE \E code : Answer(r, code)
    BY <2>1, AfterAnswer DEF Reproduced, IsStateCall, SameCall
  <2>2. CASE ~\E code : Answer(r, code)
    <3> DEFINE row == evaluations[req[r].call.id]
    <3>1. /\ Exists(req[r].call.id)
          /\ Become(r, [req[r] EXCEPT !.pc = "update", !.before = row,
                                      !.verdict = Verdict(req[r].call.op, row)])
      BY <1>3, <2>2 DEF LoadEvaluation
    <3>2. req'[r] = [req[r] EXCEPT !.pc = "update", !.before = row,
                                   !.verdict = Verdict(req[r].call.op, row)]
      BY <3>1, AfterBecome
    <3>3. /\ req'[r].before = row /\ req'[r].call = req[r].call
          /\ req'[r].verdict = Verdict(req[r].call.op, row)
      BY <1>1, <3>2 DEF Request
    <3>4. req[r].call # None /\ req[r].call.id \in EvalIds
      BY <1>3, CallTypes, LabelsOfOperations DEF LoadEvaluation
    <3>5. RowInv(row)
      BY <3>1, <3>4 DEF IInv, RowsInv
    <3>6. row.state \in {"completed", "confirmed"} /\ Op(r) = "replay"
             => Verdict(req[r].call.op, row) = "passed"
      BY <3>5 DEF RowInv, Verdict, Reproduces
    <3> QED BY <3>3, <3>4, <3>6 DEF Reproduced, IsStateCall
  <2> QED BY <2>1, <2>2
<1>4. CASE (Step(r) \/ Interrupt(r)) /\ ~LoadEvaluation(r)
  BY <1>4, Kept DEF Reproduced, IsStateCall
<1> QED BY <1>2, <1>3, <1>4

(* What is stored beside the input of a settled evaluation is what the     *)
(* input determines, so a Replay that reads it passes.                     *)
THEOREM SettledReplayPasses == Spec => []ReplayOfSettledPasses
<1> DEFINE Inv == \A r \in Requests : Reproduced(r)
<1>1. Init => Inv
  <2>1. Idle.call = None /\ Idle.before = None
    BY DEF Idle
  <2> QED BY <2>1 DEF Init, Reproduced, IsStateCall
<1>2. IInv /\ Inv /\ [Next]_vars => Inv'
  <2> SUFFICES ASSUME IInv, Inv, [Next]_vars, NEW q \in Requests
               PROVE  Reproduced(q)'
    OBVIOUS
  <2>1. CASE UNCHANGED vars
    BY <2>1 DEF vars, Reproduced, IsStateCall
  <2>2. ASSUME NEW r \in Requests, Submit(r) \/ Step(r) \/ Interrupt(r)
        PROVE  Reproduced(q)'
    <3>1. CASE q = r
      BY <2>2, <3>1, ReproducedStep
    <3>2. CASE q # r
      <4>1. req'[q] = req[q]
        BY <2>2, <3>2, OtherHandlers
      <4> QED BY <4>1 DEF Reproduced, IsStateCall
    <3> QED BY <3>1, <3>2
  <2> QED BY <2>1, <2>2 DEF Next
<1>3. Inv => ReplayOfSettledPasses
  BY DEF Reproduced, ReplayOfSettledPasses
<1> QED BY Invariance, <1>1, <1>2, <1>3, PTL DEF Spec

(***************************************************************************)
(* Audit entries                                                           *)
(***************************************************************************)
\* A step adds at most the entry of its own handler to the audit trail.
LEMMA AuditsGrow ==
    ASSUME IInv, NEW r \in Requests, Submit(r) \/ Step(r) \/ Interrupt(r)
    PROVE  /\ audits \subseteq audits'
           /\ \/ /\ RecordAudit(r)
                 /\ audits' = audits \cup {Entry(r)}
              \/ /\ AuditMiddleware(r)
                 /\ audits' = audits
                    \/ /\ LogsWrite(req[r].status)
                       /\ audits' = audits \cup
                            {[request |-> r, action |-> "http_write",
                              actor |-> req[r].call.actor, id |-> req[r].call.id,
                              before |-> None, after |-> None, input |-> None,
                              verdict |-> "none"]}
              \/ audits' = audits
<1>1. CASE RecordAudit(r)
  BY <1>1 DEF RecordAudit
<1>2. CASE AuditMiddleware(r)
  BY <1>2 DEF AuditMiddleware
<1>3. CASE ~RecordAudit(r) /\ ~AuditMiddleware(r)
  <2>1. audits' = audits
    BY <1>3 DEF Step, Submit, Interrupt, Abort, DatabaseError, FindByIdempotencyKey,
       FreezeSnapshot, Create, FindAfterViolation, Start, StoreFailure, StoreResult,
       LoadEvaluation, ConfirmTransition, VoidTransition, SetReplayResult, Reload,
       GetAfterReplay
  <2> QED BY <2>1
<1> QED BY <1>1, <1>2, <1>3

\* What a Confirm or Void is about to log shows its own effect.
EffectShown(op, actor, before, after) ==
    /\ before.key = after.key /\ before.input = after.input
    /\ before.conclusion \in {None, after.conclusion}
    /\ IF op = "confirm"
       THEN after.confirmedBy = actor /\ after.state \in {"confirmed", "voided"}
       ELSE after.state = "voided"

HoldsEffect(r) ==
    At(r, "audit") /\ Op(r) \in {"confirm", "void"} =>
        EffectShown(Op(r), req[r].call.actor, req[r].before, req[r].after)

\* A winner that has reloaded holds a row that shows its effect.
LEMMA HoldsEffectStep ==
    ASSUME IInv, NEW r \in Requests, Submit(r) \/ Step(r) \/ Interrupt(r)
    PROVE  HoldsEffect(r)'
<1>1. req[r] \in Request
  BY DEF IInv, TypeOK
<1>2. CASE Reload(r)
  <2>1. req'[r] = [req[r] EXCEPT !.pc = "audit", !.after = Stored(r)]
    BY <1>2, AfterBecome DEF Reload
  <2>2. /\ req'[r].call = req[r].call /\ req'[r].before = req[r].before
        /\ req'[r].after = Stored(r)
    BY <1>1, <2>1 DEF Request
  <2>3. StateCallInv(r) /\ req[r].call # None
    BY <1>2, CallTypes DEF Reload, IInv, HandlersInv
  <2>4. Op(r) \in {"confirm", "void"} =>
           EffectShown(Op(r), req[r].call.actor, req[r].before, Stored(r))
    BY <1>2, <2>3 DEF Reload, StateCallInv, Won, IsStateCall, Precedes, EffectShown
  <2> QED BY <2>2, <2>4 DEF HoldsEffect
<1>3. CASE SetReplayResult(r)
  <2>1. req'[r].call = req[r].call
    BY <1>3, AfterGoto DEF SetReplayResult, SameCall
  <2> QED BY <1>3, <2>1 DEF HoldsEffect, SetReplayResult
<1>4. CASE ~Reload(r) /\ ~SetReplayResult(r)
  <2>1. req'[r].pc # "audit"
    <3>1. CASE Submit(r)
      BY <3>1, AfterSubmit
    <3>2. CASE \E l \in Labels \ {"audit"} : Goto(r, l)
      BY <3>2, AfterGoto
    <3>3. CASE \E code : Answer(r, code)
      BY <3>3, AfterAnswer
    <3>4. CASE \E e, code : AnswerWith(r, e, code)
      BY <3>4, AfterAnswerWith
    <3>5. CASE \E i : Become(r, [req[r] EXCEPT !.pc = "create", !.input = i])
      <4>1. \E i : req'[r] = [req[r] EXCEPT !.pc = "create", !.input = i]
        BY <3>5, AfterBecome
      <4> QED BY <1>1, <4>1 DEF Request
    <3>6. CASE \E e : Become(r, [req[r] EXCEPT !.pc = "start", !.target = e])
      <4>1. \E e : req'[r] = [req[r] EXCEPT !.pc = "start", !.target = e]
        BY <3>6, AfterBecome
      <4> QED BY <1>1, <4>1 DEF Request
    <3>7. CASE Loaded(r)
      <4>1. \E row, v : req'[r] = [req[r] EXCEPT !.pc = "update", !.before = row,
                                                 !.verdict = v]
        BY <3>7, AfterBecome DEF Loaded
      <4> QED BY <1>1, <4>1 DEF Request
    <3>8. CASE GetAfterReplay(r)
      <4>1. req'[r] = [req[r] EXCEPT !.pc = "answered", !.status = 200,
                                     !.after = Stored(r)]
        BY <3>8, AfterBecome DEF GetAfterReplay
      <4> QED BY <1>1, <4>1 DEF Request
    <3>9. Submit(r) \/ Moved(r)
      BY StepMoves
    <3> QED BY <1>4, <3>1, <3>2, <3>3, <3>4, <3>5, <3>6, <3>7, <3>8, <3>9, Zenon DEF Moved
  <2> QED BY <2>1 DEF HoldsEffect
<1> QED BY <1>2, <1>3, <1>4

(* A Confirm or Void entry shows the effect of that very request, for any  *)
(* number of requests: the row it reloads is past its own update.          *)
THEOREM EffectsAudited == Spec => []StateAuditsShowTheirEffect
<1> DEFINE Inv == (\A r \in Requests : HoldsEffect(r)) /\ StateAuditsShowTheirEffect
<1>1. Init => Inv
  <2>1. Idle.pc = "idle"
    BY DEF Idle
  <2> QED BY <2>1 DEF Init, HoldsEffect, StateAuditsShowTheirEffect
<1>2. IInv /\ Inv /\ [Next]_vars => Inv'
  <2> SUFFICES ASSUME IInv, Inv, [Next]_vars PROVE Inv'
    OBVIOUS
  <2>1. CASE UNCHANGED vars
    BY <2>1 DEF vars, HoldsEffect, StateAuditsShowTheirEffect
  <2>2. ASSUME NEW r \in Requests, Submit(r) \/ Step(r) \/ Interrupt(r)
        PROVE  Inv'
    <3>1. ASSUME NEW q \in Requests PROVE HoldsEffect(q)'
      <4>1. CASE q = r
        BY <2>2, <4>1, HoldsEffectStep
      <4>2. CASE q # r
        <5>1. req'[q] = req[q]
          BY <2>2, <4>2, OtherHandlers
        <5> QED BY <5>1 DEF HoldsEffect
      <4> QED BY <4>1, <4>2
    <3>2. ASSUME NEW a \in audits', a.action \in {"confirm", "void"}
          PROVE  EffectShown(a.action, a.actor, a.before, a.after)
      <4>1. CASE a \in audits
        BY <3>2, <4>1 DEF StateAuditsShowTheirEffect, EffectShown
      <4>2. CASE a \notin audits
        <5>1. RecordAudit(r) /\ a = Entry(r)
          BY <2>2, <3>2, <4>2, AuditsGrow
        <5>2. /\ a.action = Op(r) /\ a.actor = req[r].call.actor
              /\ a.before = BeforeSnapshot(r) /\ a.after = AfterSnapshot(r)
          BY <5>1 DEF Entry
        <5>3. HoldsEffect(r) /\ At(r, "audit")
          BY <5>1 DEF RecordAudit
        <5> QED BY <3>2, <5>2, <5>3 DEF HoldsEffect, BeforeSnapshot, AfterSnapshot
      <4> QED BY <4>1, <4>2
    <3> QED BY <3>1, <3>2 DEF StateAuditsShowTheirEffect, EffectShown
  <2> QED BY <2>1, <2>2 DEF Next
<1>3. Inv => StateAuditsShowTheirEffect
  OBVIOUS
<1> QED BY Invariance, <1>1, <1>2, <1>3, PTL DEF Spec

Succeeded(r) == req[r].status = (IF Op(r) = "run" THEN 201 ELSE 200)

HasEntry(r) ==
    \E a \in audits : /\ a.request = r /\ a.action = Op(r)
                      /\ a.actor = req[r].call.actor /\ a.id = req[r].target

Audited(r) == req[r].call # None /\ (At(r, "get") \/ Succeeded(r)) => HasEntry(r)

\* Until its audit entry is written a handler has nothing to show for it.
LEMMA Unanswered ==
    ASSUME IInv, NEW r \in Requests, Step(r) \/ Interrupt(r),
           ~RecordAudit(r), ~GetAfterReplay(r), ~AuditMiddleware(r), ~Abort(r)
    PROVE  /\ req'[r].pc \notin {"get", "idle", "done", "aborted"}
           /\ req'[r].status \in {0, 200, 400, 404, 409, 422, 500}
           /\ req'[r].status = 200 => Op(r) = "run"
<1>1. req[r] \in Request
  BY DEF IInv, TypeOK
<1>2. req[r].status = 0
  BY DEF IInv, HandlersInv, AnswerInv, Step, Interrupt, DatabaseError, InFlight,
     FindByIdempotencyKey, FreezeSnapshot, Create, FindAfterViolation, Start,
     StoreFailure, StoreResult, LoadEvaluation, ConfirmTransition, VoidTransition,
     SetReplayResult, Reload
<1>3. CASE \E l \in {"freeze", "refind", "evaluate", "reload", "audit"} : Goto(r, l)
  BY <1>2, <1>3, AfterGoto
<1>4. CASE \E code \in {400, 404, 409, 422, 500} : Answer(r, code)
  BY <1>4, AfterAnswer
<1>5. CASE IsRun(r) /\ \E e : AnswerWith(r, e, 200)
  BY <1>5, AfterAnswerWith DEF IsRun
<1>6. CASE \E i : Become(r, [req[r] EXCEPT !.pc = "create", !.input = i])
  <2>1. \E i : req'[r] = [req[r] EXCEPT !.pc = "create", !.input = i]
    BY <1>6, AfterBecome
  <2> QED BY <1>1, <1>2, <2>1 DEF Request
<1>7. CASE \E e : Become(r, [req[r] EXCEPT !.pc = "start", !.target = e])
  <2>1. \E e : req'[r] = [req[r] EXCEPT !.pc = "start", !.target = e]
    BY <1>7, AfterBecome
  <2> QED BY <1>1, <1>2, <2>1 DEF Request
<1>8. CASE Loaded(r)
  <2>1. \E row, v : req'[r] = [req[r] EXCEPT !.pc = "update", !.before = row,
                                             !.verdict = v]
    BY <1>8, AfterBecome DEF Loaded
  <2> QED BY <1>1, <1>2, <2>1 DEF Request
<1>9. CASE \E row : Become(r, [req[r] EXCEPT !.pc = "audit", !.after = row])
  <2>1. \E row : req'[r] = [req[r] EXCEPT !.pc = "audit", !.after = row]
    BY <1>9, AfterBecome
  <2> QED BY <1>1, <1>2, <2>1 DEF Request
<1>10. CASE FindByIdempotencyKey(r) \/ FindAfterViolation(r)
  <2>1. IsRun(r)
    BY <1>10, LabelsOfOperations DEF FindByIdempotencyKey, FindAfterViolation
  <2> QED BY <1>3, <1>4, <1>5, <1>10, <2>1 DEF FindByIdempotencyKey, FindAfterViolation
<1>11. CASE FreezeSnapshot(r) \/ Create(r)
  <2>1. CASE FreezeSnapshot(r)
    <3>1. \/ Answer(r, 404)
          \/ \E i : Become(r, [req[r] EXCEPT !.pc = "create", !.input = i])
      BY <2>1, Zenon DEF FreezeSnapshot
    <3>2. CASE Answer(r, 404)
      BY <1>4, <3>2
    <3> QED BY <1>6, <3>1, <3>2
  <2>2. CASE Create(r)
    <3>1. \/ Goto(r, "refind")
          \/ \E e : Become(r, [req[r] EXCEPT !.pc = "start", !.target = e])
      BY <2>2, Zenon DEF Create
    <3> QED BY <1>3, <1>7, <3>1
  <2> QED BY <1>11, <2>1, <2>2
<1>12. CASE Start(r) \/ StoreFailure(r) \/ StoreResult(r)
  BY <1>3, <1>4, <1>12 DEF Start, StoreFailure, StoreResult
<1>13. CASE LoadEvaluation(r)
  BY <1>4, <1>8, <1>13, LoadMoves
<1>14. CASE ConfirmTransition(r) \/ VoidTransition(r) \/ SetReplayResult(r) \/ Reload(r)
  <2>1. CASE ConfirmTransition(r)
    BY <1>3, <1>4, <2>1 DEF ConfirmTransition
  <2>2. CASE VoidTransition(r)
    BY <1>3, <1>4, <2>2 DEF VoidTransition
  <2>3. CASE SetReplayResult(r)
    BY <1>3, <2>3 DEF SetReplayResult
  <2>4. CASE Reload(r)
    BY <1>9, <2>4 DEF Reload
  <2> QED BY <1>14, <2>1, <2>2, <2>3, <2>4
<1>15. CASE DatabaseError(r)
  BY <1>4, <1>15 DEF DatabaseError
<1> QED BY <1>10, <1>11, <1>12, <1>13, <1>14, <1>15 DEF Step, Interrupt

\* A handler that answered success has its entry, which stays.
LEMMA AuditedStep ==
    ASSUME IInv, NEW r \in Requests, Submit(r) \/ Step(r) \/ Interrupt(r), Audited(r)
    PROVE  Audited(r)'
<1>1. req[r] \in Request
  BY DEF IInv, TypeOK
<1>2. CASE Submit(r)
  BY <1>2, AfterSubmit DEF Audited, Succeeded
<1>3. CASE RecordAudit(r)
  <2>1. /\ req'[r].call = req[r].call /\ req'[r].target = req[r].target
    BY <1>3, AfterGoto, AfterAnswer DEF RecordAudit, SameCall
  <2>2. Entry(r) \in audits'
    BY <1>3 DEF RecordAudit
  <2>3. /\ Entry(r).request = r /\ Entry(r).action = Op(r)
        /\ Entry(r).actor = req[r].call.actor /\ Entry(r).id = req[r].target
    BY DEF Entry, EntityID
  <2> QED BY <2>1, <2>2, <2>3 DEF Audited, HasEntry
<1>4. CASE GetAfterReplay(r)
  <2>1. req'[r] = [req[r] EXCEPT !.pc = "answered", !.status = 200, !.after = Stored(r)]
    BY <1>4, AfterBecome DEF GetAfterReplay
  <2>2. req'[r].call = req[r].call /\ req'[r].target = req[r].target
    BY <1>1, <2>1 DEF Request
  <2> QED BY <1>4, <2>2, AuditsGrow DEF GetAfterReplay, Audited, HasEntry
<1>5. CASE AuditMiddleware(r) \/ Abort(r)
  <2>1. PICK l \in {"done", "aborted"} : Goto(r, l)
    BY <1>5 DEF AuditMiddleware, Abort
  <2>2. /\ req'[r].pc = l /\ req'[r].target = req[r].target
        /\ req'[r].status = req[r].status /\ req'[r].call = req[r].call
    BY <2>1, AfterGoto DEF SameCall
  <2>3. audits \subseteq audits'
    BY AuditsGrow
  <2> QED BY <2>2, <2>3 DEF Audited, Succeeded, HasEntry
<1>6. CASE /\ Step(r) \/ Interrupt(r)
           /\ ~RecordAudit(r) /\ ~GetAfterReplay(r) /\ ~AuditMiddleware(r) /\ ~Abort(r)
  <2>1. /\ req'[r].pc # "get" /\ req'[r].call = req[r].call
        /\ req'[r].status \in {0, 200, 400, 404, 409, 422, 500}
        /\ req'[r].status = 200 => Op(r) = "run"
    BY <1>6, Unanswered, Kept
  <2> QED BY <2>1 DEF Audited, Succeeded
<1> QED BY <1>2, <1>3, <1>4, <1>5, <1>6

(* Whoever is told that a write took effect finds its audit entry.         *)
THEOREM WritesAudited == Spec => []AnsweredWritesAudited
<1> DEFINE Inv == \A r \in Requests : Audited(r)
<1>1. Init => Inv
  <2>1. Idle.call = None
    BY DEF Idle
  <2> QED BY <2>1 DEF Init, Audited
<1>2. IInv /\ Inv /\ [Next]_vars => Inv'
  <2> SUFFICES ASSUME IInv, Inv, [Next]_vars, NEW q \in Requests
               PROVE  Audited(q)'
    OBVIOUS
  <2>1. CASE UNCHANGED vars
    BY <2>1 DEF vars, Audited, Succeeded, HasEntry
  <2>2. ASSUME NEW r \in Requests, Submit(r) \/ Step(r) \/ Interrupt(r)
        PROVE  Audited(q)'
    <3>1. CASE q = r
      BY <2>2, <3>1, AuditedStep
    <3>2. CASE q # r
      <4>1. req'[q] = req[q]
        BY <2>2, <3>2, OtherHandlers
      <4>2. audits \subseteq audits'
        BY <2>2, AuditsGrow
      <4> QED BY <4>1, <4>2 DEF Audited, Succeeded, HasEntry
    <3> QED BY <3>1, <3>2
  <2> QED BY <2>1, <2>2 DEF Next
<1>3. Inv => AnsweredWritesAudited
  BY DEF Audited, Succeeded, HasEntry, AnsweredWritesAudited
<1> QED BY Invariance, <1>1, <1>2, <1>3, PTL DEF Spec

(***************************************************************************)
(* What an entry of the trail says of the answer                           *)
(***************************************************************************)
EntryInv(a) ==
    LET r == a.request IN
       /\ r \in Requests
       /\ \/ a.action = "http_write" /\ At(r, "done") /\ req[r].status < 400
          \/ a.action # "replay" /\ req[r].pc \in {"answered", "done", "aborted"}
             /\ req[r].status \in {200, 201}
          \/ /\ a.action = "replay"
             /\ \/ At(r, "get") /\ req[r].status = 0
                \/ req[r].pc \in {"answered", "done", "aborted"} /\ req[r].status \in {0, 200, 500}
                \/ /\ req[r].pc \in {"answered", "done", "aborted"}
                   /\ req[r].status = 409 /\ a.verdict = "failed"

\* What an entry says of its handler is preserved ...
LEMMA EntryInvStep ==
    ASSUME IInv, NEW r \in Requests, Submit(r) \/ Step(r) \/ Interrupt(r),
           NEW a \in audits, a.request = r, EntryInv(a)
    PROVE  EntryInv(a)'
<1>1. req[r] \in Request
  BY DEF IInv, TypeOK
<1>2. CASE GetAfterReplay(r)
  <2>1. req'[r] = [req[r] EXCEPT !.pc = "answered", !.status = 200, !.after = Stored(r)]
    BY <1>2, AfterBecome DEF GetAfterReplay
  <2>2. req'[r].pc = "answered" /\ req'[r].status = 200
    BY <1>1, <2>1 DEF Request
  <2> QED BY <1>2, <2>2 DEF GetAfterReplay, EntryInv
<1>3. CASE AuditMiddleware(r) \/ Abort(r)
  <2>1. PICK l \in {"done", "aborted"} : Goto(r, l)
    BY <1>3 DEF AuditMiddleware, Abort
  <2>2. req'[r].pc = l /\ req'[r].status = req[r].status
    BY <2>1, AfterGoto
  <2>3. ~At(r, "done")
    BY <1>3 DEF AuditMiddleware, Abort, InFlight
  <2> QED BY <2>2, <2>3 DEF EntryInv
<1>4. CASE DatabaseError(r)
  <2>1. req'[r].pc = "answered" /\ req'[r].status = 500
    BY <1>4, AfterAnswer DEF DatabaseError
  <2> QED BY <1>4, <2>1 DEF DatabaseError, InFlight, EntryInv
<1>5. CASE ~(GetAfterReplay(r) \/ AuditMiddleware(r) \/ Interrupt(r))
  <2>1. req[r].pc \notin {"get", "answered", "done", "aborted"}
    BY <1>5 DEF Step, Submit, FindByIdempotencyKey, FreezeSnapshot, Create,
       FindAfterViolation, Start, StoreFailure, StoreResult, LoadEvaluation,
       ConfirmTransition, VoidTransition, SetReplayResult, Reload, RecordAudit
  <2> QED BY <2>1 DEF EntryInv
<1> QED BY <1>2, <1>3, <1>4, <1>5 DEF Interrupt

\* ... and holds of an entry when it is written.
LEMMA NewEntryInv ==
    ASSUME IInv, NEW r \in Requests, Submit(r) \/ Step(r) \/ Interrupt(r),
           NEW a \in audits', a \notin audits
    PROVE  a.request = r /\ EntryInv(a)'
<1>1. CASE RecordAudit(r) /\ a = Entry(r)
  <2>1. /\ a.request = r /\ a.action = Op(r) /\ a.verdict = req[r].verdict
    BY <1>1 DEF Entry
  <2>2. req[r].status = 0
    BY <1>1 DEF RecordAudit, IInv, HandlersInv, AnswerInv
  <2>3. CASE Answer(r, 201) /\ Op(r) = "run"
    BY <2>1, <2>3, AfterAnswer DEF EntryInv
  <2>4. CASE Answer(r, 200) /\ Op(r) \in {"confirm", "void"}
    BY <2>1, <2>4, AfterAnswer DEF EntryInv
  <2>5. CASE Goto(r, "get") /\ Op(r) = "replay"
    BY <2>1, <2>2, <2>5, AfterGoto DEF EntryInv
  <2>6. CASE Answer(r, 409) /\ Op(r) = "replay" /\ req[r].verdict = "failed"
    BY <2>1, <2>6, AfterAnswer DEF EntryInv
  <2> QED BY <1>1, <2>1, <2>3, <2>4, <2>5, <2>6 DEF RecordAudit
<1>2. CASE /\ AuditMiddleware(r) /\ LogsWrite(req[r].status)
           /\ a.request = r /\ a.action = "http_write"
  <2>1. req'[r].pc = "done" /\ req'[r].status = req[r].status
    BY <1>2, AfterGoto DEF AuditMiddleware
  <2> QED BY <1>2, <2>1 DEF EntryInv, LogsWrite
<1> QED BY <1>1, <1>2, AuditsGrow

(* An error answer leaves no audit entry, replays that ran excepted.       *)
THEOREM RefusalsLeaveNoEntry == Spec => []RefusalsUnlogged
<1> DEFINE Inv == \A a \in audits : EntryInv(a)
<1>1. Init => Inv
  BY DEF Init
<1>2. IInv /\ Inv /\ [Next]_vars => Inv'
  <2> SUFFICES ASSUME IInv, Inv, [Next]_vars, NEW a \in audits'
               PROVE  EntryInv(a)'
    OBVIOUS
  <2>1. CASE UNCHANGED vars
    BY <2>1 DEF vars, EntryInv
  <2>2. ASSUME NEW r \in Requests, Submit(r) \/ Step(r) \/ Interrupt(r)
        PROVE  EntryInv(a)'
    <3>1. CASE a \notin audits
      BY <2>2, <3>1, NewEntryInv
    <3>2. CASE a \in audits /\ a.request = r
      BY <2>2, <3>2, EntryInvStep
    <3>3. CASE a \in audits /\ a.request # r
      <4>1. EntryInv(a)
        BY <3>3
      <4>2. req'[a.request] = req[a.request]
        BY <2>2, <3>3, <4>1, OtherHandlers DEF EntryInv
      <4> QED BY <4>1, <4>2 DEF EntryInv
    <3> QED BY <3>1, <3>2, <3>3
  <2> QED BY <2>1, <2>2 DEF Next
<1>3. IInv /\ Inv => RefusalsUnlogged
  <2> SUFFICES ASSUME IInv, Inv, NEW a \in audits, req[a.request].status >= 400
               PROVE  a.action = "replay" /\ (a.verdict = "failed"
                                              \/ req[a.request].status = 500)
    BY DEF RefusalsUnlogged
  <2>1. EntryInv(a)
    OBVIOUS
  <2>2. req[a.request].status \in Statuses
    BY <2>1 DEF EntryInv, IInv, TypeOK, Request
  <2> QED BY <2>1, <2>2 DEF EntryInv, Statuses
<1> QED BY Invariance, <1>1, <1>2, <1>3, PTL DEF Spec

----------------------------------------------------------------------------
(***************************************************************************)
(* The Run behind every unsettled row                                      *)
(***************************************************************************)
WorksOn(r, e) ==
    /\ IsRun(r) /\ req[r].target = e
    /\ \/ CutOff(r)
       \/ evaluations[e].state = "queued" /\ At(r, "start")
       \/ evaluations[e].state = "running" /\ At(r, "evaluate")

\* A Run that is cut off stays so.
LEMMA CutOffStays ==
    ASSUME IInv, NEW r \in Requests, Submit(r) \/ Step(r) \/ Interrupt(r),
           CutOff(r), IsRun(r)
    PROVE  CutOff(r)' /\ IsRun(r)' /\ req'[r].target = req[r].target
<1>1. req[r].pc \in {"answered", "done", "aborted"}
  BY DEF CutOff, IInv, HandlersInv, AnswerInv
<1>2. AuditMiddleware(r) \/ Abort(r)
  BY <1>1 DEF Step, Submit, Interrupt, DatabaseError, InFlight, FindByIdempotencyKey,
     FreezeSnapshot, Create, FindAfterViolation, Start, StoreFailure, StoreResult,
     LoadEvaluation, ConfirmTransition, VoidTransition, SetReplayResult, Reload,
     RecordAudit, GetAfterReplay
<1>3. PICK l \in {"done", "aborted"} : Goto(r, l)
  BY <1>2 DEF AuditMiddleware, Abort
<1>4. /\ req'[r].pc = l /\ req'[r].target = req[r].target
      /\ req'[r].status = req[r].status /\ req'[r].call = req[r].call
  BY <1>3, AfterGoto DEF SameCall
<1>5. req[r].status = 500 \/ l = "aborted"
  BY <1>2, <1>3, <1>4 DEF CutOff, AuditMiddleware, Abort, InFlight
<1> QED BY <1>4, <1>5 DEF CutOff, IsRun

\* At its two matching labels a Run moves on with the row or is cut off.
LEMMA WorkerMoves ==
    ASSUME IInv, NEW r \in Requests, Submit(r) \/ Step(r) \/ Interrupt(r),
           NEW e \in EvalIds, Exists(e), req[r].target = e, IsRun(r),
           \/ evaluations[e].state = "queued" /\ At(r, "start")
           \/ evaluations[e].state = "running" /\ At(r, "evaluate"),
           evaluations'[e].state \in {"queued", "running"}
    PROVE  WorksOn(r, e)'
<1>1. evaluations[e] \in Row /\ evaluations \in [EvalIds -> Row \cup {None}]
  BY DEF Exists, IInv, TypeOK
<1>2. CASE Interrupt(r)
  <2>1. CASE Abort(r)
    BY <2>1, AfterGoto DEF Abort, WorksOn, CutOff, IsRun, SameCall
  <2>2. CASE DatabaseError(r)
    BY <2>2, AfterAnswer DEF DatabaseError, WorksOn, CutOff, IsRun, SameCall
  <2> QED BY <1>2, <2>1, <2>2 DEF Interrupt
<1>3. CASE Start(r)
  <2>1. evaluations[e].state = "queued"
    BY <1>3 DEF Start
  <2>2. Matches(r, {"queued"})
    BY <2>1 DEF Matches
  <2>3. Update(r, Started(evaluations[e])) /\ Goto(r, "evaluate")
    BY <1>3, <2>2 DEF Start, Stored
  <2>4. evaluations'[e].state = "running"
    BY <1>1, <2>3 DEF Update, Started, Row
  <2>5. req'[r].pc = "evaluate" /\ req'[r].target = e /\ req'[r].call = req[r].call
    BY <2>3, AfterGoto DEF SameCall
  <2> QED BY <2>4, <2>5 DEF WorksOn, IsRun
<1>4. CASE StoreFailure(r) \/ StoreResult(r)
  <2>1. Matches(r, {"running"})
    BY <1>4 DEF StoreFailure, StoreResult, Matches
  <2>2. \/ Update(r, Failed(evaluations[e]))
        \/ Update(r, Completed(evaluations[e], req[r].input))
    BY <1>4, <2>1 DEF StoreFailure, StoreResult, Stored
  <2>3. evaluations'[e].state \in {"failed", "completed"}
    <3>1. CASE Update(r, Failed(evaluations[e]))
      BY <1>1, <3>1 DEF Update, Failed, Row
    <3>2. CASE Update(r, Completed(evaluations[e], req[r].input))
      BY <1>1, <3>2 DEF Update, Completed, Row
    <3> QED BY <2>2, <3>1, <3>2
  <2> QED BY <2>3
<1> QED BY <1>2, <1>3, <1>4 DEF Step, Submit, FindByIdempotencyKey, FreezeSnapshot,
    Create, FindAfterViolation, LoadEvaluation, ConfirmTransition, VoidTransition,
    SetReplayResult, Reload, RecordAudit, GetAfterReplay, AuditMiddleware

(* Behind every queued or running evaluation there is the Run that created *)
(* it, at the matching step or cut off: nothing else strands a row.        *)
THEOREM UnsettledTracked == Spec => []UnsettledHasItsRun
<1> DEFINE Inv == \A e \in EvalIds : Unsettled(e) => \E r \in Requests : WorksOn(r, e)
<1>1. Init => Inv
  BY DEF Init, Unsettled, Exists
<1>2. IInv /\ Inv /\ [Next]_vars => Inv'
  <2> SUFFICES ASSUME IInv, Inv, [Next]_vars, NEW e \in EvalIds, Unsettled(e)'
               PROVE  (\E q \in Requests : WorksOn(q, e))'
    OBVIOUS
  <2>1. CASE UNCHANGED vars
    BY <2>1 DEF vars, Unsettled, Exists, WorksOn, IsRun, CutOff
  <2>2. ASSUME NEW r \in Requests, Submit(r) \/ Step(r) \/ Interrupt(r)
        PROVE  (\E q \in Requests : WorksOn(q, e))'
    <3>1. Exists(e)' /\ evaluations'[e].state \in {"queued", "running"}
      BY DEF Unsettled, Exists
    <3>2. CASE ~Exists(e)
      <4>1. req'[r] = [req[r] EXCEPT !.pc = "start", !.target = e] /\ Create(r)
        BY <2>2, <3>1, <3>2, NewRow
      <4>2. evaluations'[e] =
               [key |-> req[r].call.key, scenario |-> req[r].call.scenario,
                by |-> req[r].call.actor, input |-> req[r].input, state |-> "queued",
                conclusion |-> None, confirmedBy |-> None, replay |-> "none"]
        BY <2>2, <3>1, <3>2, NewRow
      <4>3. IsRun(r) /\ req[r] \in Request
        BY <4>1, LabelsOfOperations DEF Create, IInv, TypeOK
      <4>4. /\ req'[r].pc = "start" /\ req'[r].target = e
            /\ req'[r].call = req[r].call
        BY <4>1, <4>3 DEF Request
      <4> QED BY <4>2, <4>3, <4>4 DEF WorksOn, IsRun
    <3>3. CASE Exists(e)
      <4>1. /\ evaluations[e] \in Row
            /\ RowStep(r, evaluations[e], evaluations'[e])
            /\ evaluations'[e] # evaluations[e] => e = req[r].target
        BY <2>2, <3>3, RowAfter
      <4>2. Unsettled(e)
        BY <3>1, <3>3, <4>1 DEF Unsettled, RowStep, Confirmed, Voided, VoidableStates,
                               Row
      <4>3. PICK q \in Requests : WorksOn(q, e)
        BY <4>2
      <4>4. CASE q = r
        <5>1. CASE CutOff(r)
          BY <2>2, <4>3, <4>4, <5>1, CutOffStays DEF WorksOn
        <5>2. CASE ~CutOff(r)
          BY <2>2, <3>1, <3>3, <4>3, <4>4, <5>2, WorkerMoves DEF WorksOn
        <5> QED BY <5>1, <5>2
      <4>5. CASE q # r
        <5>1. req'[q] = req[q]
          BY <2>2, <4>5, OtherHandlers
        <5>2. At(q, "start") \/ At(q, "evaluate") =>
                 ~(IsRun(r) /\ (At(r, "start") \/ At(r, "evaluate")) /\ e = req[r].target)
          BY <4>3, <4>5 DEF WorksOn, Created, IInv, CreatedOnce
        <5>3. At(q, "start") \/ At(q, "evaluate") =>
                 evaluations'[e].state = evaluations[e].state
          <6>1. CASE evaluations'[e] = evaluations[e]
            BY <6>1
          <6>2. CASE \E v \in Verdicts : evaluations'[e] = [evaluations[e] EXCEPT !.replay = v]
            BY <4>1, <6>2 DEF Row
          <6> QED BY <4>1, <4>2, <5>2, <6>1, <6>2 DEF RowStep, Unsettled, VoidableStates
        <5> QED BY <4>3, <5>1, <5>3 DEF WorksOn, IsRun, CutOff
      <4> QED BY <4>4, <4>5
    <3> QED BY <3>2, <3>3
  <2> QED BY <2>1, <2>2 DEF Next
<1>3. Inv => UnsettledHasItsRun
  BY DEF WorksOn, UnsettledHasItsRun
<1> QED BY Invariance, <1>1, <1>2, <1>3, PTL DEF Spec
=============================================================================
