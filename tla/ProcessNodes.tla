---------------------------- MODULE ProcessNodes ----------------------------
(***************************************************************************)
(* service/process_node_service.go over                                    *)
(* repository/process_node_repository.go: Create, Update and Deactivate as *)
(* concurrent requests, one step per SQL statement.  Deactivate is         *)
(* conditional on the status; Update rewrites every column, the status     *)
(* included, from the row it read.                                         *)
(*                                                                         *)
(* The design columns are one field, design; the four counts of Summary    *)
(* change nothing and are one step.                                        *)
(***************************************************************************)
EXTENDS Naturals

CONSTANTS
    Requests,  \* HTTP requests; each is made once
    NodeIds,   \* primary keys the database may hand out
    Codes,     \* values of node_code
    Designs,   \* values of the design columns
    Roles,     \* roles in the tokens of callers
    None       \* nil / absent

VARIABLES
    nodes,     \* the process_nodes table
    audits,    \* the entries recordAudit wrote
    req        \* what each handler goroutine holds

vars == <<nodes, audits, req>>

Statuses == {"active", "inactive"}

\* model.ProcessNode
Row == [code : Codes, design : Designs, status : Statuses]

CreateCalls == [op : {"create"}, role : Roles, code : Codes, design : Designs]
UpdateCalls == [op : {"update"}, role : Roles, id : NodeIds,
                design : Designs \cup {None}, status : Statuses \cup {None}]
DeactivateCalls == [op : {"deactivate"}, role : Roles, id : NodeIds]
Calls == CreateCalls \cup UpdateCalls \cup DeactivateCalls

ASSUME NoneAssumption ==
    /\ None \notin Row /\ None \notin Calls /\ None \notin NodeIds
    /\ None \notin Designs /\ None \notin Statuses

\* The roles that hold PermissionNodeWrite.
Permitted == {"admin", "process_engineer"}

Exists(n) == nodes[n] # None

Idle == [pc |-> "idle", call |-> None, target |-> None, before |-> None,
         after |-> None, status |-> 0]

Init ==
    /\ nodes = [n \in NodeIds |-> None]
    /\ audits = {}
    /\ req = [r \in Requests |-> Idle]

Become(r, handler) == req' = [req EXCEPT ![r] = handler]
Goto(r, label) == Become(r, [req[r] EXCEPT !.pc = label])
Answer(r, code) == Become(r, [req[r] EXCEPT !.pc = "answered", !.status = code])
At(r, label) == req[r].pc = label
Stored(r) == nodes[req[r].target]

FirstLabel(c) == IF c.op = "create" THEN "code" ELSE "load"

Submit(r) ==
    /\ At(r, "idle")
    /\ \E c \in Calls :
          IF c.role \notin Permitted
          THEN Become(r, [req[r] EXCEPT !.pc = "answered", !.call = c, !.status = 403])
          ELSE Become(r, [req[r] EXCEPT !.pc = FirstLabel(c), !.call = c])
    /\ UNCHANGED <<nodes, audits>>

----------------------------------------------------------------------------
(***************************************************************************)
(* Create                                                                  *)
(***************************************************************************)
CodeTaken(code) == \E n \in NodeIds : Exists(n) /\ nodes[n].code = code

CheckCode(r) ==
    /\ At(r, "code")
    /\ IF CodeTaken(req[r].call.code) THEN Answer(r, 409) ELSE Goto(r, "insert")
    /\ UNCHANGED <<nodes, audits>>

Created(c) == [code |-> c.code, design |-> c.design, status |-> "active"]

\* Mutant: the column has no unique index.
NoUniqueIndex(code) == FALSE
UniqueViolation(code) == CodeTaken(code)

\* A fresh primary key; they run out in the instances only.
InsertNode(r) ==
    /\ At(r, "insert")
    /\ IF UniqueViolation(req[r].call.code)
       THEN Answer(r, 409) /\ UNCHANGED nodes
       ELSE \E n \in NodeIds :
              /\ ~Exists(n)
              /\ nodes' = [nodes EXCEPT ![n] = Created(req[r].call)]
              /\ Become(r, [req[r] EXCEPT !.pc = "audit", !.target = n,
                                          !.after = Created(req[r].call)])
    /\ UNCHANGED audits

----------------------------------------------------------------------------
(***************************************************************************)
(* Update, Deactivate                                                      *)
(***************************************************************************)
\* Mutant: absent design columns are written as well.
PatchedBlindly(row, c) ==
    [row EXCEPT !.design = c.design, !.status = IF c.status = None THEN @ ELSE c.status]
\* Mutant: a status that is not sent means active.
StatusDefaulted(row, c) ==
    [row EXCEPT !.design = IF c.design = None THEN @ ELSE c.design,
                !.status = IF c.status = None THEN "active" ELSE c.status]
Edited(row, c) ==
    [row EXCEPT !.design = IF c.design = None THEN @ ELSE c.design,
                !.status = IF c.status = None THEN @ ELSE c.status]

Load(r, label) ==
    Become(r, [req[r] EXCEPT !.pc = label, !.target = req[r].call.id,
                             !.before = nodes[req[r].call.id]])

LoadForUpdate(r) ==
    /\ At(r, "load") /\ req[r].call.op = "update"
    /\ IF Exists(req[r].call.id) THEN Load(r, "update") ELSE Answer(r, 404)
    /\ UNCHANGED <<nodes, audits>>

Write(r, stored, held) ==
    /\ nodes' = [nodes EXCEPT ![req[r].target] = stored]
    /\ Become(r, [req[r] EXCEPT !.pc = "audit", !.after = held])

\* Every column, the code alone excepted.
UpdateNode(r) ==
    /\ At(r, "update") /\ req[r].call.op = "update"
    /\ LET edited == Edited(req[r].before, req[r].call) IN
          Write(r, [edited EXCEPT !.code = Stored(r).code], edited)
    /\ UNCHANGED audits

LoadForDeactivate(r) ==
    /\ At(r, "load") /\ req[r].call.op = "deactivate"
    /\ LET n == req[r].call.id IN
          IF ~Exists(n) THEN Answer(r, 404)
          ELSE IF nodes[n].status = "inactive" THEN Answer(r, 409)
          ELSE Load(r, "update")
    /\ UNCHANGED <<nodes, audits>>

\* Mutant: the update has no condition on the status.
AnyStatus(r) == TRUE
StillActive(r) == Stored(r).status = "active"

Deactivate(r) ==
    /\ At(r, "update") /\ req[r].call.op = "deactivate"
    /\ IF StillActive(r)
       THEN Write(r, [Stored(r) EXCEPT !.status = "inactive"],
                     [req[r].before EXCEPT !.status = "inactive"])
       ELSE Answer(r, 409) /\ UNCHANGED nodes
    /\ UNCHANGED audits

----------------------------------------------------------------------------
(***************************************************************************)
(* Shared tail, interruptions                                              *)
(***************************************************************************)
RecordAudit(r) ==
    /\ At(r, "audit")
    /\ audits' = audits \cup
          {[request |-> r, id |-> req[r].target, before |-> req[r].before,
            after |-> req[r].after]}
    /\ IF req[r].call.op = "create" THEN Answer(r, 201) ELSE Goto(r, "summary")
    /\ UNCHANGED nodes

Summarize(r) ==
    /\ At(r, "summary")
    /\ Answer(r, 200)
    /\ UNCHANGED <<nodes, audits>>

\* A failed statement, a client that leaves or a crash ends the handler.
Interrupt(r) ==
    /\ req[r].pc \notin {"idle", "answered", "interrupted"}
    /\ Goto(r, "interrupted")
    /\ UNCHANGED <<nodes, audits>>

Step(r) ==
    \/ CheckCode(r) \/ InsertNode(r)
    \/ LoadForUpdate(r) \/ UpdateNode(r)
    \/ LoadForDeactivate(r) \/ Deactivate(r)
    \/ RecordAudit(r) \/ Summarize(r)

Next == \E r \in Requests : Submit(r) \/ Step(r) \/ Interrupt(r)

Spec == Init /\ [][Next]_vars

----------------------------------------------------------------------------
(***************************************************************************)
(* Properties                                                              *)
(***************************************************************************)
Labels == {"idle", "code", "insert", "load", "update", "audit", "summary",
           "answered", "interrupted"}
HttpStatuses == {0, 200, 201, 403, 404, 409}

Request == [pc : Labels, call : Calls \cup {None}, target : NodeIds \cup {None},
            before : Row \cup {None}, after : Row \cup {None},
            status : HttpStatuses]

AuditEntry == [request : Requests, id : NodeIds, before : Row \cup {None}, after : Row]

(* Rows, entries and handlers are well formed.                             *)
TypeOK ==
    /\ nodes \in [NodeIds -> Row \cup {None}]
    /\ audits \subseteq AuditEntry
    /\ req \in [Requests -> Request]

\* r took effect on node n.
Wrote(r, op, n) ==
    req[r].after # None /\ req[r].call.op = op /\ req[r].target = n

(* Two clients that create a node with one code may both find it free      *)
(* (line 35): at most one is told that it was created, and no two nodes    *)
(* have one code, even if the code was free when both looked.              *)
OneCreationPerCode ==
    /\ \A r, q \in Requests : \A m, n \in NodeIds :
          r # q /\ Wrote(r, "create", m) /\ Wrote(q, "create", n)
              => req[r].call.code # req[q].call.code
    /\ \A m, n \in NodeIds :
          m # n /\ Exists(m) /\ Exists(n) => nodes[m].code # nodes[n].code

\* A request set the status of n to active on its own or on a stale row.
Reactivated(n) ==
    \E q \in Requests : Wrote(q, "update", n) /\ req[q].after.status = "active"

(* Of the requests that deactivate one node, however they interleave, one  *)
(* takes effect, unless an update writes the node active at some time.     *)
DeactivationsAlternate ==
    \A r, q \in Requests : \A n \in NodeIds :
        r # q /\ Wrote(r, "deactivate", n) /\ Wrote(q, "deactivate", n)
            => Reactivated(n)

\* A request, by deactivating n or by an update, wrote it inactive.
Retired(n) ==
    \E q \in Requests :
        /\ Wrote(q, "deactivate", n) \/ Wrote(q, "update", n)
        /\ req[q].after.status = "inactive"

(* An update that does not name the status turns an inactive node active   *)
(* only by a race: another request wrote the node inactive after the update*)
(* had read it.  No sequence of requests, one after the other, does it.    *)
UnaskedReactivationIsRaced ==
    [][\A r \in Requests : \A n \in NodeIds :
             /\ At(r, "update") /\ At(r, "audit")' /\ req[r].target = n
             /\ req[r].call.op = "update" /\ req[r].call.status = None
             /\ nodes[n].status = "inactive" /\ nodes'[n].status = "active"
          => req[r].before.status = "active" /\ Retired(n)]_vars

----------------------------------------------------------------------------
(***************************************************************************)
(* The inductive invariant                                                 *)
(***************************************************************************)
\* What the handler of r holds at each label.
HandlerInv(r) ==
    LET h == req[r] IN
    /\ h.pc = "idle" => h.call = None
    /\ h.call = None => h.after = None
    /\ h.pc \in {"code", "insert", "load", "update", "audit", "summary"} =>
          h.call \in Calls
    /\ h.pc \in {"code", "insert"} => h.call.op = "create"
    /\ h.pc = "load" => h.call.op # "create"
    /\ h.pc \in {"idle", "code", "insert", "load", "update"} => h.after = None
    /\ h.pc = "update" =>
          /\ h.call.op # "create"
          /\ h.target \in NodeIds /\ Exists(h.target) /\ h.before \in Row
    /\ h.pc \in {"audit", "summary"} => h.after \in Row

\* What r wrote is in the table, under the code it was created with.
WrittenInv(r) ==
    LET h == req[r] IN
    h.after # None =>
        /\ h.target \in NodeIds /\ Exists(h.target) /\ h.call \in Calls
        /\ h.call.op = "create" => nodes[h.target].code = h.call.code

OneCreator ==
    \A r, q \in Requests : \A n \in NodeIds :
        Wrote(r, "create", n) /\ Wrote(q, "create", n) => r = q

CodesDiffer ==
    \A m, n \in NodeIds :
        Exists(m) /\ Exists(n) /\ nodes[m].code = nodes[n].code => m = n

\* A node that was deactivated is inactive until an update writes it active.
StaysDeactivated ==
    \A q \in Requests : \A n \in NodeIds :
        Wrote(q, "deactivate", n) => nodes[n].status = "inactive" \/ Reactivated(n)

\* A node that an update has read active is, or another request retired it.
ReadActive(r) ==
    /\ At(r, "update") /\ req[r].call.op = "update"
    /\ req[r].before.status = "active" /\ nodes[req[r].target].status = "inactive"
    => Retired(req[r].target)

IInv ==
    /\ TypeOK
    /\ \A r \in Requests : HandlerInv(r) /\ WrittenInv(r) /\ ReadActive(r)
    /\ OneCreator /\ CodesDiffer /\ StaysDeactivated /\ DeactivationsAlternate
=============================================================================
