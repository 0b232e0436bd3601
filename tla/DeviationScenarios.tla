-------------------------- MODULE DeviationScenarios --------------------------
(***************************************************************************)
(* service/deviation_scenario_service.go over                              *)
(* repository/deviation_scenario_repository.go: Create, Update and         *)
(* Transition as concurrent requests, one step per SQL statement.  A write *)
(* is guarded by the version number the client sent, not by the one the    *)
(* handler read.                                                           *)
(*                                                                         *)
(* The text, guideword and risk columns are fields of a content; the       *)
(* timestamps and the user names beside user ids are left out.             *)
(***************************************************************************)
EXTENDS Naturals

CONSTANTS
    Requests,     \* HTTP requests; each is made once and has its own id
    ScenarioIds,  \* primary keys the database may hand out
    NodeIds,      \* process node ids a request may name
    Nodes,        \* the ones that exist
    Fields,       \* columns an Update may patch
    Values,
    Users,
    RoleOf,       \* RoleOf[u]: the role in u's token
    Lag,          \* how far behind the stored version a client may be
    Lead,         \* how far ahead of it a client may count
    None          \* nil / absent

VARIABLES
    scenarios,    \* the deviation_scenarios table
    activeNodes,  \* nodes whose status is active, kept by another service
    audits,       \* the entries recordAudit wrote
    req           \* what each handler goroutine holds

vars == <<scenarios, activeNodes, audits, req>>

ASSUME ScopeAssumption ==
    /\ Nodes \subseteq NodeIds
    /\ Lag \in Nat /\ Lead \in Nat
    /\ \A S \in {ScenarioIds, NodeIds, Users, Values} : None \notin S

Roles == {"admin", "process_engineer", "safety_reviewer", "auditor"}

ASSUME RoleAssumption == RoleOf \in [Users -> Roles]

States == {"draft", "analyzed", "verified", "accepted", "rework"}
Targets == States \ {"draft"}
Contents == [Fields -> Values]
Patches == [Fields -> Values \cup {None}]

\* model.DeviationScenario
Row == [node : Nodes, content : Contents, state : States, version : Nat \ {0},
        author : Users, reviewer : Users \cup {None}]

CreateCalls == [op : {"create"}, actor : Users, node : NodeIds, content : Contents]
UpdateCalls == [op : {"update"}, actor : Users, id : ScenarioIds,
                version : Nat \ {0}, patch : Patches]
TransitionCalls == [op : {"transition"}, actor : Users, id : ScenarioIds,
                    version : Nat \ {0}, to : Targets]
Calls == CreateCalls \cup UpdateCalls \cup TransitionCalls

ASSUME NoneAssumption == None \notin Row /\ None \notin Calls

(***************************************************************************)
(* Roles: those of the routes, and those Transition itself asks for.       *)
(***************************************************************************)
Permitted(op) ==
    IF op = "transition"
    THEN {"admin", "process_engineer", "safety_reviewer"}
    ELSE {"admin", "process_engineer"}

MayMoveTo(to) ==
    IF to = "analyzed" THEN {"admin", "process_engineer"}
    ELSE {"admin", "safety_reviewer"}

\* Mutant: an accepted scenario may be sent back.
CanReopenAccepted(from, to) ==
    \/ from \in {"draft", "rework"} /\ to = "analyzed"
    \/ from \in {"analyzed", "verified", "accepted"} /\ to \in {"verified", "accepted", "rework"}
CanTransitionScenario(from, to) ==
    \/ from \in {"draft", "rework"} /\ to = "analyzed"
    \/ from = "analyzed" /\ to \in {"verified", "rework"}
    \/ from = "verified" /\ to \in {"accepted", "rework"}

\* Mutant: verification is not yet a review.
OnlyAcceptanceReviews(to) == to = "accepted"
IsReview(to) == to \in {"verified", "accepted"}

\* Mutant: analysed scenarios may still be edited.
EditableUntilVerified == {"draft", "rework", "analyzed"}
Editable == {"draft", "rework"}

FirstVersion == 1

\* Mutant: the update leaves the version alone.
VersionKept(v) == v
NextVersion(v) == v + 1

Exists(e) == scenarios[e] # None

Idle == [pc |-> "idle", call |-> None, target |-> None, before |-> None,
         after |-> None, status |-> 0]

Init ==
    /\ scenarios = [e \in ScenarioIds |-> None]
    /\ activeNodes = Nodes
    /\ audits = {}
    /\ req = [r \in Requests |-> Idle]

Become(r, handler) == req' = [req EXCEPT ![r] = handler]
Goto(r, label) == Become(r, [req[r] EXCEPT !.pc = label])
Answer(r, code) == Become(r, [req[r] EXCEPT !.pc = "answered", !.status = code])
At(r, label) == req[r].pc = label
Stored(r) == scenarios[req[r].target]

(***************************************************************************)
(* Dispatch.  The version a client sends is one it was shown, or, if it    *)
(* counts its own writes before they are answered, up to Lead ahead.       *)
(***************************************************************************)
OfferedVersions(e) ==
    LET shown == IF Exists(e) THEN scenarios[e].version ELSE 1
    IN  {v \in 1 .. shown + Lead : v + Lag >= shown}

Dispatch(r, c, label) ==
    IF RoleOf[c.actor] \notin Permitted(c.op)
    THEN Become(r, [req[r] EXCEPT !.pc = "answered", !.call = c, !.status = 403])
    ELSE Become(r, [req[r] EXCEPT !.pc = label, !.call = c])

SubmitCreate(r) ==
    /\ At(r, "idle")
    /\ \E u \in Users, n \in NodeIds, x \in Contents :
          Dispatch(r, [op |-> "create", actor |-> u, node |-> n, content |-> x],
                   "node")
    /\ UNCHANGED <<scenarios, activeNodes, audits>>

SubmitUpdate(r) ==
    /\ At(r, "idle")
    /\ \E u \in Users, e \in ScenarioIds, p \in Patches : \E v \in OfferedVersions(e) :
          Dispatch(r, [op |-> "update", actor |-> u, id |-> e, version |-> v,
                       patch |-> p], "load")
    /\ UNCHANGED <<scenarios, activeNodes, audits>>

SubmitTransition(r) ==
    /\ At(r, "idle")
    /\ \E u \in Users, e \in ScenarioIds, to \in Targets : \E v \in OfferedVersions(e) :
          Dispatch(r, [op |-> "transition", actor |-> u, id |-> e, version |-> v,
                       to |-> to], "load")
    /\ UNCHANGED <<scenarios, activeNodes, audits>>

----------------------------------------------------------------------------
(***************************************************************************)
(* Create                                                                  *)
(***************************************************************************)
LoadNode(r) ==
    /\ At(r, "node")
    /\ LET n == req[r].call.node IN
          IF n \notin Nodes THEN Answer(r, 404)
          ELSE IF n \notin activeNodes THEN Answer(r, 409)
          ELSE Goto(r, "insert")
    /\ UNCHANGED <<scenarios, activeNodes, audits>>

Drafted(c) ==
    [node |-> c.node, content |-> c.content, state |-> "draft",
     version |-> FirstVersion, author |-> c.actor, reviewer |-> None]

\* A fresh primary key; they run out in the instances only.
InsertScenario(r) ==
    /\ At(r, "insert")
    /\ \E e \in ScenarioIds :
          /\ ~Exists(e)
          /\ scenarios' = [scenarios EXCEPT ![e] = Drafted(req[r].call)]
          /\ Become(r, [req[r] EXCEPT !.pc = "audit", !.target = e,
                                      !.after = Drafted(req[r].call)])
    /\ UNCHANGED <<activeNodes, audits>>

----------------------------------------------------------------------------
(***************************************************************************)
(* Update                                                                  *)
(***************************************************************************)
Merge(content, patch) ==
    [f \in Fields |-> IF patch[f] = None THEN content[f] ELSE patch[f]]

\* What the handler makes of the row it read, once the write succeeded.
Edited(row, c) ==
    [row EXCEPT !.content = Merge(row.content, c.patch),
                !.version = NextVersion(c.version)]

LoadForUpdate(r) ==
    /\ At(r, "load")
    /\ req[r].call.op = "update"
    /\ LET e == req[r].call.id IN
          IF ~Exists(e) THEN Answer(r, 404)
          ELSE IF scenarios[e].state \notin Editable THEN Answer(r, 409)
          ELSE Become(r, [req[r] EXCEPT !.pc = "update", !.target = e,
                                        !.before = scenarios[e]])
    /\ UNCHANGED <<scenarios, activeNodes, audits>>

\* Mutant: the condition on the version is missing.
VersionIgnored(r) == TRUE
VersionMatches(r) == Stored(r).version = req[r].call.version

\* All content columns are written from the row read earlier.
UpdateWithVersion(r) ==
    /\ At(r, "update")
    /\ req[r].call.op = "update"
    /\ LET edited == Edited(req[r].before, req[r].call) IN
          IF VersionMatches(r) /\ Stored(r).state \in Editable
          THEN /\ scenarios' = [scenarios EXCEPT ![req[r].target] =
                     [@ EXCEPT !.content = edited.content,
                               !.version = edited.version]]
               /\ Become(r, [req[r] EXCEPT !.pc = "audit", !.after = edited])
          ELSE Answer(r, 409) /\ UNCHANGED scenarios
    /\ UNCHANGED <<activeNodes, audits>>

----------------------------------------------------------------------------
(***************************************************************************)
(* Transition                                                              *)
(***************************************************************************)
Moved(row, c) ==
    [row EXCEPT !.state = c.to, !.version = NextVersion(c.version),
                !.reviewer = IF IsReview(c.to) THEN c.actor ELSE @]

LoadForTransition(r) ==
    /\ At(r, "load")
    /\ req[r].call.op = "transition"
    /\ LET c == req[r].call
           row == scenarios[c.id] IN
          IF ~Exists(c.id) THEN Answer(r, 404)
          ELSE IF RoleOf[c.actor] \notin MayMoveTo(c.to) THEN Answer(r, 403)
          ELSE IF \/ ~CanTransitionScenario(row.state, c.to)
                  \/ IsReview(c.to) /\ row.author = c.actor
               THEN Answer(r, 409)
          ELSE Become(r, [req[r] EXCEPT !.pc = "update", !.target = c.id,
                                        !.before = row])
    /\ UNCHANGED <<scenarios, activeNodes, audits>>

\* The columns updated are those of Moved; they are the same computed from
\* the stored row as from the one that was read.
Transition(r) ==
    /\ At(r, "update")
    /\ req[r].call.op = "transition"
    /\ IF VersionMatches(r) /\ Stored(r).state = req[r].before.state
       THEN /\ scenarios' = [scenarios EXCEPT
                  ![req[r].target] = Moved(Stored(r), req[r].call)]
            /\ Become(r, [req[r] EXCEPT !.pc = "audit",
                             !.after = Moved(req[r].before, req[r].call)])
       ELSE Answer(r, 409) /\ UNCHANGED scenarios
    /\ UNCHANGED <<activeNodes, audits>>

----------------------------------------------------------------------------
(***************************************************************************)
(* Shared tail, interruptions, the node service                            *)
(***************************************************************************)
RecordAudit(r) ==
    /\ At(r, "audit")
    /\ audits' = audits \cup
          {[request |-> r, action |-> req[r].call.op, actor |-> req[r].call.actor,
            id |-> req[r].target, before |-> req[r].before, after |-> req[r].after]}
    /\ IF req[r].call.op = "create" THEN Answer(r, 201) ELSE Goto(r, "get")
    /\ UNCHANGED <<scenarios, activeNodes>>

GetAfterWrite(r) ==
    /\ At(r, "get")
    /\ Answer(r, 200)
    /\ UNCHANGED <<scenarios, activeNodes, audits>>

\* A failed statement, a client that leaves or a crash ends the handler.
Interrupt(r) ==
    /\ req[r].pc \notin {"idle", "answered", "interrupted"}
    /\ Goto(r, "interrupted")
    /\ UNCHANGED <<scenarios, activeNodes, audits>>

\* ProcessNodes' Deactivate and Update, seen from here.
NodeStatusChanges ==
    /\ \E n \in Nodes :
          activeNodes' = IF n \in activeNodes THEN activeNodes \ {n}
                         ELSE activeNodes \cup {n}
    /\ UNCHANGED <<scenarios, audits, req>>

Submit(r) == SubmitCreate(r) \/ SubmitUpdate(r) \/ SubmitTransition(r)

Step(r) ==
    \/ LoadNode(r) \/ InsertScenario(r)
    \/ LoadForUpdate(r) \/ UpdateWithVersion(r)
    \/ LoadForTransition(r) \/ Transition(r)
    \/ RecordAudit(r) \/ GetAfterWrite(r)

Next ==
    \/ \E r \in Requests : Submit(r) \/ Step(r) \/ Interrupt(r)
    \/ NodeStatusChanges

Spec == Init /\ [][Next]_vars

----------------------------------------------------------------------------
(***************************************************************************)
(* Properties                                                              *)
(***************************************************************************)
Labels == {"idle", "node", "insert", "load", "update", "audit", "get",
           "answered", "interrupted"}
Statuses == {0, 200, 201, 403, 404, 409}

Request == [pc : Labels, call : Calls \cup {None}, target : ScenarioIds \cup {None},
            before : Row \cup {None}, after : Row \cup {None}, status : Statuses]

AuditEntry == [request : Requests, action : {"create", "update", "transition"},
               actor : Users, id : ScenarioIds, before : Row \cup {None},
               after : Row]

(* Rows, entries and handlers are well formed; versions start at 1.        *)
TypeOK ==
    /\ scenarios \in [ScenarioIds -> Row \cup {None}]
    /\ activeNodes \subseteq Nodes
    /\ audits \subseteq AuditEntry
    /\ req \in [Requests -> Request]

\* r's update or transition took effect.
Wrote(r) == req[r].after # None /\ req[r].call.op # "create"

(* Of the requests that name one version of one scenario, however they     *)
(* interleave, at most one takes effect: no write is overwritten unseen by *)
(* a client that sends the version it read.                                *)
OneWriterPerVersion ==
    \A r, q \in Requests :
        r # q /\ Wrote(r) /\ Wrote(q) /\ req[r].target = req[q].target
            => req[r].call.version # req[q].call.version

(* A verified or accepted scenario has a reviewer, with a reviewing role,  *)
(* who is not its author.                                                  *)
ReviewedByAnother ==
    \A e \in ScenarioIds :
        Exists(e) /\ scenarios[e].state \in {"verified", "accepted"} =>
            /\ scenarios[e].reviewer # None
            /\ scenarios[e].reviewer # scenarios[e].author
            /\ RoleOf[scenarios[e].reviewer] \in {"admin", "safety_reviewer"}

\* The rows of e that are stored, held by a handler or shown in the audit.
KnownRows(e) ==
    {row \in {scenarios[e]}
             \cup {req[r].before : r \in {q \in Requests : req[q].target = e}}
             \cup {req[r].after : r \in {q \in Requests : req[q].target = e}}
             \cup {a.before : a \in {b \in audits : b.id = e}}
             \cup {a.after : a \in {b \in audits : b.id = e}} : row # None}

(* If clients send versions they were shown, a version number names one    *)
(* content and one review state for ever: the table, every handler and     *)
(* the audit trail agree on it, so what a reviewer approved is what the    *)
(* trail shows and what is stored.                                         *)
VersionNamesRow ==
    \A e \in ScenarioIds : \A old, new \in KnownRows(e) :
        old.version = new.version => old = new

(* deviation_scenario_service.go:172 and :232 answer 409 when the scenario *)
(* changed concurrently: if clients send versions they were shown, a write *)
(* that takes effect replaces the very row its handler read.               *)
StaleWritesRefused ==
    [][\A r \in Requests :
          At(r, "update") /\ At(r, "audit")' => Stored(r) = req[r].before]_vars

Reviewers == {u \in Users : RoleOf[u] \in {"admin", "safety_reviewer"}}

Review == INSTANCE ScenarioReview WITH scenario <- scenarios

(* However requests interleave and whatever versions clients send, a       *)
(* stored scenario changes only as its review allows: content only while   *)
(* editable, approval only by another, accepted is final, node and author  *)
(* never change.                                                           *)
ImplementsReview == Review!Spec

(* The same of behaviours that begin later, where acceptance and what may  *)
(* follow it are reached early: no request changes an accepted scenario,   *)
(* content changes only in draft and rework, approval is by another.       *)
StepsFollowReview == [][Review!Next]_scenarios

----------------------------------------------------------------------------
(***************************************************************************)
(* Inductive invariant                                                     *)
(***************************************************************************)
\* The checks of LoadForTransition hold of the row that was read.
MayMove(row, c) ==
    /\ RoleOf[c.actor] \in MayMoveTo(c.to)
    /\ CanTransitionScenario(row.state, c.to)
    /\ IsReview(c.to) => row.author # c.actor

\* What the handler of r may rely on.
HandlerInv(r) ==
    LET h == req[r] IN
    /\ h.pc = "idle" => h.call = None
    /\ h.pc \in {"node", "insert"} => h.call \in CreateCalls
    /\ h.pc \in {"load", "update"} => h.call \in UpdateCalls \cup TransitionCalls
    /\ h.pc \in {"idle", "node", "insert", "load"} => h.before = None
    /\ h.pc \in {"idle", "node", "insert", "load", "update"} => h.after = None
    /\ h.pc = "update" =>
          /\ h.target = h.call.id /\ Exists(h.target)
          /\ h.before \in Row /\ h.before.author = Stored(r).author
          /\ h.call.op = "transition" => MayMove(h.before, h.call)
    /\ h.pc \in {"audit", "get"} =>
          h.call \in Calls /\ h.target \in ScenarioIds /\ h.after \in Row
    /\ h.pc = "insert" => h.call.node \in Nodes
    /\ Wrote(r) =>
          /\ h.call \in UpdateCalls \cup TransitionCalls
          /\ h.target \in ScenarioIds /\ Exists(h.target)
          /\ Stored(r).version > h.call.version

(* The inductive invariant: a request that took effect used up its         *)
(* version, and one about to write knows the author of the row.            *)
IInv ==
    /\ TypeOK
    /\ \A r \in Requests : HandlerInv(r)
    /\ ReviewedByAnother
    /\ OneWriterPerVersion

(* If no client counts ahead: nobody knows a version newer than the stored *)
(* one, and a handler has read at least the version its client was shown.  *)
KnowsNoLaterVersion ==
    /\ \A e \in ScenarioIds : \A row \in KnownRows(e) :
          Exists(e) /\ row.version <= scenarios[e].version
    /\ \A r \in Requests :
          /\ At(r, "load") => \/ req[r].call.version = 1
                             \/ /\ Exists(req[r].call.id)
                                /\ req[r].call.version <= scenarios[req[r].call.id].version
          /\ At(r, "update") => req[r].call.version <= req[r].before.version
=============================================================================
