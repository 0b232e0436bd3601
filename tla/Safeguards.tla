----------------------------- MODULE Safeguards -----------------------------
(***************************************************************************)
(* service/safeguard_service.go over repository/safeguard_repository.go:   *)
(* Create, Update, Verify, Invalidate and Restore as concurrent requests,  *)
(* one step per SQL statement.  No write carries a version: each is        *)
(* conditional on the lifecycle state at most.                             *)
(*                                                                         *)
(* The evidence text is the set of requests whose note it holds.  Of the   *)
(* columns an Update may patch, the interval and the evidence are kept.    *)
(* s.now() is read in the step of the statement before it.                 *)
(***************************************************************************)
EXTENDS Naturals

CONSTANTS
    Requests,      \* HTTP requests; each is made once
    SafeguardIds,  \* primary keys the database may hand out
    ScenarioIds,   \* deviation scenarios a Create may name
    Scenarios,     \* the ones that exist
    Intervals,     \* test intervals, in units of time
    Tolerance,     \* the five minutes a verification may lie ahead
    MaxTime,       \* bound of the clock
    Users,
    RoleOf,        \* RoleOf[u]: the role in u's token
    None           \* nil / absent

VARIABLES
    now,           \* the server's clock
    safeguards,    \* the safeguards table
    audits,        \* the entries recordAudit wrote
    req            \* what each handler goroutine holds

vars == <<now, safeguards, audits, req>>

ASSUME TimeAssumption ==
    /\ Intervals \subseteq Nat \ {0}
    /\ Tolerance \in Nat /\ MaxTime \in Nat

Roles == {"admin", "process_engineer", "safety_reviewer", "auditor"}

ASSUME RoleAssumption ==
    /\ Scenarios \subseteq ScenarioIds
    /\ RoleOf \in [Users -> Roles]

States == {"pending", "active", "expired", "invalid"}

\* Instants a client may name; the last is beyond the tolerance.
Instants == 0 .. MaxTime + Tolerance + 1

\* model.Safeguard
Row == [scenario : Scenarios, interval : Intervals, state : States,
        verifiedAt : Instants \cup {None}, by : Users \cup {None},
        evidence : SUBSET Requests]

CreateCalls == [op : {"create"}, actor : Users, scenario : ScenarioIds,
                interval : Intervals, at : Instants \cup {None}]
UpdateCalls == [op : {"update"}, actor : Users, id : SafeguardIds,
                interval : Intervals \cup {None}, note : BOOLEAN]
VerifyCalls == [op : {"verify"}, actor : Users, id : SafeguardIds, at : Instants]
ActionCalls == [op : {"invalidate", "restore"}, actor : Users, id : SafeguardIds]
Calls == CreateCalls \cup UpdateCalls \cup VerifyCalls \cup ActionCalls

ASSUME NoneAssumption ==
    /\ None \notin Row /\ None \notin Calls /\ None \notin SafeguardIds
    /\ None \notin Instants /\ None \notin Intervals /\ None \notin Users
    /\ None \notin [state : States, verifiedAt : Instants \cup {None}]

\* The roles that hold PermissionSafeguard.
Permitted == {"admin", "process_engineer", "safety_reviewer"}

Exists(e) == safeguards[e] # None

\* seen is history, which the code does not keep: whose lifecycle changes
\* had taken effect when the handler first read its safeguard.
Idle == [pc |-> "idle", call |-> None, target |-> None, goal |-> None,
         before |-> None, after |-> None, seen |-> {}, status |-> 0]

Init ==
    /\ now = 0
    /\ safeguards = [e \in SafeguardIds |-> None]
    /\ audits = {}
    /\ req = [r \in Requests |-> Idle]

Become(r, handler) == req' = [req EXCEPT ![r] = handler]
Goto(r, label) == Become(r, [req[r] EXCEPT !.pc = label])
Answer(r, code) == Become(r, [req[r] EXCEPT !.pc = "answered", !.status = code])
At(r, label) == req[r].pc = label
Stored(r) == safeguards[req[r].target]
Store(r, row) == safeguards' = [safeguards EXCEPT ![req[r].target] = row]

\* r changed the lifecycle of a safeguard.
Wrote(r) == req[r].call # None /\ req[r].after # None
                /\ req[r].call.op \in {"verify", "invalidate", "restore"}

Writers == {r \in Requests : Wrote(r)}

(***************************************************************************)
(* Time                                                                    *)
(***************************************************************************)
\* Mutant: the tolerance is not bounded.
NeverInFuture(at) == FALSE
InFuture(at) == at > now + Tolerance

Over(at, interval) == now > at + interval

\* model.Safeguard.IsEffectiveAt; effectiveness is positive by its binding.
IsEffective(row) ==
    /\ row.state = "active"
    /\ row.verifiedAt # None /\ ~Over(row.verifiedAt, row.interval)

----------------------------------------------------------------------------
(***************************************************************************)
(* Dispatch                                                                *)
(***************************************************************************)
Dispatch(r, c, label) ==
    IF RoleOf[c.actor] \notin Permitted
    THEN Become(r, [req[r] EXCEPT !.pc = "answered", !.call = c, !.status = 403])
    ELSE Become(r, [req[r] EXCEPT !.pc = label, !.call = c])

FirstLabel(c) ==
    IF c.op = "create" THEN "scenario"
    ELSE IF c.op = "restore" THEN "target" ELSE "load"

Submit(r) ==
    /\ At(r, "idle")
    /\ \E c \in Calls : Dispatch(r, c, FirstLabel(c))
    /\ UNCHANGED <<now, safeguards, audits>>

----------------------------------------------------------------------------
(***************************************************************************)
(* Create                                                                  *)
(***************************************************************************)
CreatedState(at, interval) ==
    IF at = None THEN "pending"
    ELSE IF Over(at, interval) THEN "expired" ELSE "active"

Created(r, c) ==
    [scenario |-> c.scenario, interval |-> c.interval, verifiedAt |-> c.at,
     state |-> CreatedState(c.at, c.interval),
     by |-> IF c.at = None THEN None ELSE c.actor, evidence |-> {r}]

LoadScenario(r) ==
    /\ At(r, "scenario")
    /\ LET c == req[r].call IN
          IF c.scenario \notin Scenarios THEN Answer(r, 404)
          ELSE IF c.at # None /\ InFuture(c.at) THEN Answer(r, 422)
          ELSE Become(r, [req[r] EXCEPT !.pc = "insert", !.after = Created(r, c)])
    /\ UNCHANGED <<now, safeguards, audits>>

\* A fresh primary key; they run out in the instances only.
InsertSafeguard(r) ==
    /\ At(r, "insert")
    /\ \E e \in SafeguardIds :
          /\ ~Exists(e)
          /\ safeguards' = [safeguards EXCEPT ![e] = req[r].after]
          /\ Become(r, [req[r] EXCEPT !.pc = "audit", !.target = e])
    /\ UNCHANGED <<now, audits>>

----------------------------------------------------------------------------
(***************************************************************************)
(* Update                                                                  *)
(***************************************************************************)
\* Mutant: an absent interval is written as well.
PatchedBlindly(r, row) ==
    [row EXCEPT !.interval = req[r].call.interval,
                !.evidence = IF req[r].call.note THEN {r} ELSE @]
Edited(r, row) ==
    LET c == req[r].call
        interval == IF c.interval = None THEN row.interval ELSE c.interval
    IN  [row EXCEPT
            !.interval = interval,
            !.evidence = IF c.note THEN {r} ELSE @,
            !.state = IF /\ row.verifiedAt # None /\ Over(row.verifiedAt, interval)
                         /\ row.state = "active"
                      THEN "expired" ELSE @]

\* GetByID, the first statement of the operations on a safeguard but for
\* Restore, which has read it before.
Load(r, label, after) ==
    LET e == req[r].call.id IN
    IF ~Exists(e) THEN Answer(r, 404)
    ELSE Become(r, [req[r] EXCEPT !.pc = label, !.target = e,
                        !.before = safeguards[e], !.after = after,
                        !.seen = IF req[r].call.op = "restore" THEN @ ELSE Writers])

LoadForUpdate(r) ==
    /\ At(r, "load") /\ req[r].call.op = "update"
    /\ Load(r, "update", Edited(r, safeguards[req[r].call.id]))
    /\ UNCHANGED <<now, safeguards, audits>>

\* Mutant: the whole row is saved.
SaveRow(r) == req[r].after
\* The columns are written from the row read earlier; state and
\* verification are not among them.
UpdatedColumns(r) ==
    [Stored(r) EXCEPT !.interval = req[r].after.interval,
                      !.evidence = req[r].after.evidence]

UpdateColumns(r) ==
    /\ At(r, "update")
    /\ Store(r, UpdatedColumns(r))
    /\ Goto(r, IF req[r].after.state # req[r].before.state THEN "expire" ELSE "audit")
    /\ UNCHANGED <<now, audits>>

\* Whether a row still was in the state that was read is not looked at.
SynchronizeLifecycle(r) ==
    /\ At(r, "expire")
    /\ IF Stored(r).state = req[r].before.state
       THEN Store(r, [Stored(r) EXCEPT !.state = req[r].after.state])
       ELSE UNCHANGED safeguards
    /\ Goto(r, "audit")
    /\ UNCHANGED <<now, audits>>

----------------------------------------------------------------------------
(***************************************************************************)
(* Verify, Invalidate, Restore                                             *)
(***************************************************************************)
LoadForVerify(r) ==
    /\ At(r, "load") /\ req[r].call.op = "verify"
    /\ LET c == req[r].call IN
          IF ~Exists(c.id) THEN Answer(r, 404)
          ELSE IF InFuture(c.at) \/ Over(c.at, safeguards[c.id].interval)
               THEN Answer(r, 422)
          ELSE Load(r, "set", None)
    /\ UNCHANGED <<now, safeguards, audits>>

\* Mutant: only the verification is looked at.
RestoredIfInTime(row) ==
    IF row.verifiedAt # None /\ ~Over(row.verifiedAt, row.interval)
    THEN "active" ELSE "pending"
RestoredState(row) == IF IsEffective(row) THEN "active" ELSE "pending"

\* Restore's own read: the state to restore to.
RestoreTarget(r) ==
    /\ At(r, "target")
    /\ LET e == req[r].call.id IN
          IF ~Exists(e) THEN Answer(r, 404)
          ELSE Become(r, [req[r] EXCEPT !.pc = "load", !.seen = Writers,
                                        !.goal = RestoredState(safeguards[e])])
    /\ UNCHANGED <<now, safeguards, audits>>

LoadForChange(r) ==
    /\ At(r, "load") /\ req[r].call.op \in {"invalidate", "restore"}
    /\ Load(r, "set", None)
    /\ UNCHANGED <<now, safeguards, audits>>

FromStates(r) ==
    CASE req[r].call.op = "verify" -> States
      [] req[r].call.op = "invalidate" -> States \ {"invalid"}
      [] req[r].call.op = "restore" -> {"invalid"}

\* Mutant: the verifier is not written with the instant.
VerifierKept(r) ==
    [Stored(r) EXCEPT !.state = "active", !.verifiedAt = req[r].call.at, !.evidence = {r}]
VerifiedRow(r) ==
    [Stored(r) EXCEPT !.state = "active", !.verifiedAt = req[r].call.at,
                      !.by = req[r].call.actor, !.evidence = {r}]

ChangedRow(r) ==
    [Stored(r) EXCEPT !.evidence = req[r].before.evidence \cup {r},
        !.state = IF req[r].call.op = "invalidate" THEN "invalid" ELSE req[r].goal]

SetLifecycle(r) ==
    /\ At(r, "set")
    /\ LET row == IF req[r].call.op = "verify" THEN VerifiedRow(r) ELSE ChangedRow(r) IN
          IF Stored(r).state \in FromStates(r)
          THEN /\ Store(r, row)
               /\ Become(r, [req[r] EXCEPT !.pc = "reload", !.after = row])
          ELSE Answer(r, 409) /\ UNCHANGED safeguards
    /\ UNCHANGED <<now, audits>>

Reload(r) ==
    /\ At(r, "reload")
    /\ Become(r, [req[r] EXCEPT !.pc = "audit", !.after = Stored(r)])
    /\ UNCHANGED <<now, safeguards, audits>>

----------------------------------------------------------------------------
(***************************************************************************)
(* Shared tail, interruptions, time                                        *)
(***************************************************************************)
Recorded(r) ==
    audits \cup {[request |-> r, id |-> req[r].target, before |-> req[r].before,
                  after |-> req[r].after]}

RecordAudit(r) ==
    /\ At(r, "audit")
    /\ audits' = Recorded(r)
    /\ LET op == req[r].call.op IN
          IF op = "update" THEN Goto(r, "get")
          ELSE Answer(r, IF op = "create" THEN 201 ELSE 200)
    /\ UNCHANGED <<now, safeguards>>

GetAfterUpdate(r) ==
    /\ At(r, "get")
    /\ Answer(r, 200)
    /\ UNCHANGED <<now, safeguards, audits>>

\* A failed statement, a client that leaves or a crash ends the handler.
Interrupt(r) ==
    /\ req[r].pc \notin {"idle", "answered", "interrupted"}
    /\ Goto(r, "interrupted")
    /\ UNCHANGED <<now, safeguards, audits>>

Tick ==
    /\ now < MaxTime
    /\ now' = now + 1
    /\ UNCHANGED <<safeguards, audits, req>>

Step(r) ==
    \/ LoadScenario(r) \/ InsertSafeguard(r)
    \/ LoadForUpdate(r) \/ UpdateColumns(r) \/ SynchronizeLifecycle(r)
    \/ LoadForVerify(r) \/ RestoreTarget(r) \/ LoadForChange(r)
    \/ SetLifecycle(r) \/ Reload(r)
    \/ RecordAudit(r) \/ GetAfterUpdate(r)

Next ==
    \/ \E r \in Requests : Submit(r) \/ Step(r) \/ Interrupt(r)
    \/ Tick

Spec == Init /\ [][Next]_vars

----------------------------------------------------------------------------
(***************************************************************************)
(* Properties                                                              *)
(***************************************************************************)
Labels == {"idle", "scenario", "insert", "target", "load", "update", "expire",
           "set", "reload", "audit", "get", "answered", "interrupted"}
Statuses == {0, 200, 201, 403, 404, 409, 422}

Request == [pc : Labels, call : Calls \cup {None}, target : SafeguardIds \cup {None},
            goal : {"active", "pending", None}, before : Row \cup {None},
            after : Row \cup {None}, seen : SUBSET Requests, status : Statuses]

AuditEntry == [request : Requests, id : SafeguardIds, before : Row \cup {None},
               after : Row]

(* Rows, entries and handlers are well formed.                             *)
TypeOK ==
    /\ now \in 0 .. MaxTime
    /\ safeguards \in [SafeguardIds -> Row \cup {None}]
    /\ audits \subseteq AuditEntry
    /\ req \in [Requests -> Request]

Audited(r, e) == \E a \in audits : a.request = r /\ a.id = e

\* q submitted the verification that e shows, and has put it in the audit
\* trail unless it was cut short or is not there yet.
VerifiedThrough(q, e) ==
    /\ req[q].call # None /\ req[q].call.op \in {"create", "verify"}
    /\ req[q].target = e /\ req[q].after # None
    /\ req[q].call.at = safeguards[e].verifiedAt
    /\ req[q].call.actor = safeguards[e].by
    /\ RoleOf[req[q].call.actor] \in Permitted
    /\ \/ req[q].pc \in {"reload", "audit", "interrupted"}
       \/ Audited(q, e)

(* Safeguards enter a coverage score on the strength of their last         *)
(* verification.  However creations, updates, verifications, invalidations *)
(* and restorations interleave, the instant and the verifier that a        *)
(* safeguard shows were submitted together, by one permitted user's        *)
(* request, which the audit trail holds once it is answered.               *)
VerificationTraceable ==
    \A e \in SafeguardIds :
        Exists(e) /\ safeguards[e].verifiedAt # None
            => \E q \in Requests : VerifiedThrough(q, e)

(* No stored verification lies further ahead of the clock than the five    *)
(* minutes of lines 52 and 176, so none outlives its interval by more.     *)
NoVerificationAhead ==
    \A e \in SafeguardIds :
        Exists(e) /\ safeguards[e].verifiedAt # None
            => safeguards[e].verifiedAt <= now + Tolerance

\* An invalidation of e took effect after r had first read e.
InvalidatedSince(r, e) ==
    \E q \in Writers \ req[r].seen :
        req[q].call.op = "invalidate" /\ req[q].target = e

\* The statement of r makes e, invalid until then, active.
Revives(r, e) ==
    /\ At(r, "set") /\ At(r, "reload")' /\ req[r].target = e
    /\ safeguards[e].state = "invalid" /\ safeguards'[e].state = "active"

\* It expires e, whose verification still holds.
ExpiresEarly(r, e) ==
    /\ At(r, "expire") /\ At(r, "audit")' /\ req[r].target = e
    /\ safeguards[e].state = "active" /\ safeguards'[e].state = "expired"
    /\ ~Over(safeguards[e].verifiedAt, safeguards[e].interval)

\* The step decides on the row as it is, or on one that r has lost a race for.
UnlessRaced(r, e) ==
    /\ Revives(r, e) =>
          \/ req[r].call.op = "verify" /\ req[r].before.state = "invalid"
          \/ InvalidatedSince(r, e)
    /\ ExpiresEarly(r, e) =>
          \/ safeguards[e].verifiedAt # req[r].before.verifiedAt
          \/ safeguards[e].interval # req[r].after.interval

(* Verify, Restore and Update decide on a row read before they write.  An  *)
(* invalid safeguard becomes active knowingly, by a verification that had  *)
(* read it as invalid, or else an invalidation took effect between the     *)
(* read and the write of the request that undoes it, a Restore included:   *)
(* without that race a restored safeguard is pending (lines 187, 225).  An *)
(* Update expires a safeguard whose verification holds only where the      *)
(* verification or the interval it decided on has been replaced (line 152).*)
StaleDecisionsAreRaced ==
    [][\A r \in Requests : \A e \in SafeguardIds : UnlessRaced(r, e)]_vars

StandingOf(row) == [state |-> row.state, verifiedAt |-> row.verifiedAt]

\* The lifecycle columns of the table.
Standings ==
    [e \in SafeguardIds |-> IF Exists(e) THEN StandingOf(safeguards[e]) ELSE None]

Lifecycle == INSTANCE SafeguardLifecycle WITH standing <- Standings

(* However requests interleave, the lifecycle of a stored safeguard takes  *)
(* the ledger's steps only: an unverified one is never active or expired,  *)
(* invalid is left through Verify or Restore alone, expired through Verify *)
(* or Invalidate alone, and a stale row written back by Update never       *)
(* brings an old verification or an old state with it.                     *)
StepsFollowLifecycle == [][Lifecycle!Next]_Standings

(* The ledger implements its lifecycle.                                    *)
ImplementsLifecycle == Lifecycle!Spec

----------------------------------------------------------------------------
(***************************************************************************)
(* The inductive invariant                                                 *)
(***************************************************************************)
\* No row is active or expired unverified, and none verified ahead of time.
SoundRow(row) ==
    /\ row.state \in {"active", "expired"} => row.verifiedAt # None
    /\ row.verifiedAt # None => row.verifiedAt <= now + Tolerance

RowInv(e) == Exists(e) => SoundRow(safeguards[e])

Working == {"scenario", "insert", "target", "load", "update", "expire", "set",
            "reload", "audit", "get"}

\* The row r is about to insert.
InsertInv(r) ==
    LET h == req[r] IN
    h.pc = "insert" =>
        /\ h.after \in Row /\ SoundRow(h.after)
        /\ h.after.state # "invalid"
        /\ h.after.state = "pending" <=> h.after.verifiedAt = None
        /\ h.after.verifiedAt = h.call.at
        /\ h.after.verifiedAt # None => h.after.by = h.call.actor

\* What the handler of r holds at each label.
HandlerInv(r) ==
    LET h == req[r] IN
    /\ h.pc = "idle" => h.call = None
    /\ h.call = None => h.after = None
    /\ h.pc \in {"idle", "scenario", "insert"} => h.target = None
    /\ h.pc \in Working => h.call \in Calls /\ RoleOf[h.call.actor] \in Permitted
    /\ h.pc \in {"scenario", "insert"} => h.call.op = "create"
    /\ h.pc = "target" => h.call.op = "restore"
    /\ h.pc = "load" => h.call.op # "create"
    /\ h.pc \in {"update", "expire"} => h.call.op = "update"
    /\ h.pc = "set" => h.call.op \in {"verify", "invalidate", "restore"}
    /\ h.pc \in {"idle", "scenario", "target", "load", "set"} => h.after = None
    /\ h.pc \in {"load", "set"} /\ h.call.op = "restore" => h.goal \in {"active", "pending"}
    /\ h.pc \in {"update", "expire", "set"} =>
          h.target = h.call.id /\ Exists(h.call.id) /\ h.before \in Row
    /\ h.pc \in {"update", "expire"} =>
          /\ h.after \in Row
          /\ \/ h.pc = "update" /\ h.after.state = h.before.state
             \/ /\ h.before.state = "active" /\ h.after.state = "expired"
                /\ h.before.verifiedAt # None
                /\ Over(h.before.verifiedAt, h.after.interval)
    /\ h.pc = "set" /\ h.call.op = "verify" => h.call.at <= now + Tolerance
    /\ h.pc \in {"reload", "audit", "get"} =>
          h.after \in Row /\ h.target \in SafeguardIds /\ Exists(h.target)

\* A restoration with the goal active has seen an active safeguard: it is
\* verified, and where it is invalid by now, that came after.
RestoreInv(r) ==
    LET h == req[r] IN
    h.pc \in {"load", "set"} /\ h.call.op = "restore" /\ h.goal = "active" =>
        /\ Exists(h.call.id) /\ safeguards[h.call.id].verifiedAt # None
        /\ safeguards[h.call.id].state = "invalid" => InvalidatedSince(r, h.call.id)

\* Where a verification has not seen that a safeguard is invalid, that came
\* after.
VerifyInv(r) ==
    LET h == req[r] IN
    /\ h.pc = "set" /\ h.call.op = "verify" /\ h.before.state # "invalid"
    /\ safeguards[h.call.id].state = "invalid"
    => InvalidatedSince(r, h.call.id)

IInv ==
    /\ TypeOK
    /\ \A r \in Requests : HandlerInv(r) /\ InsertInv(r) /\ RestoreInv(r) /\ VerifyInv(r)
    /\ \A r \in Requests : req[r].seen \subseteq Writers
    /\ \A e \in SafeguardIds : RowInv(e)
    /\ VerificationTraceable
=============================================================================
