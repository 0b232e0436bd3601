------------------------- MODULE ProcessNodes_proofs -------------------------
EXTENDS ProcessNodes, TLAPS

USE DEF At, Exists

(***************************************************************************)
(* The calls and the rows                                                  *)
(***************************************************************************)
LEMMA CallFields ==
    ASSUME NEW c \in Calls
    PROVE  /\ c.op \in {"create", "update", "deactivate"}
           /\ c.op = "create" => c.code \in Codes /\ c.design \in Designs
           /\ c.op # "create" => c.id \in NodeIds
           /\ c.op = "update" =>
                 c.design \in Designs \cup {None} /\ c.status \in Statuses \cup {None}
<1>1. CASE c \in CreateCalls
  BY <1>1 DEF CreateCalls
<1>2. CASE c \in UpdateCalls
  BY <1>2 DEF UpdateCalls
<1>3. CASE c \in DeactivateCalls
  BY <1>3 DEF DeactivateCalls
<1> QED
  BY <1>1, <1>2, <1>3 DEF Calls

LEMMA CreatedRow ==
    ASSUME NEW c \in Calls, c.op = "create"
    PROVE  Created(c) \in Row /\ Created(c).code = c.code
BY CallFields DEF Created, Row, Statuses

LEMMA EditedRow ==
    ASSUME NEW c \in Calls, c.op = "update", NEW row \in Row
    PROVE  /\ Edited(row, c) \in Row
           /\ c.status = None => Edited(row, c).status = row.status
<1>1. c.design \in Designs \cup {None} /\ c.status \in Statuses \cup {None}
  BY CallFields
<1>2. Edited(row, c) =
         [row EXCEPT !.design = IF c.design = None THEN row.design ELSE c.design,
                     !.status = IF c.status = None THEN row.status ELSE c.status]
  BY DEF Edited, Row
<1> QED
  BY <1>1, <1>2 DEF Row

----------------------------------------------------------------------------
(***************************************************************************)
(* Two kinds of steps                                                      *)
(***************************************************************************)
(* A step of r that leaves the table and what r wrote alone.               *)
LEMMA QuietStep ==
    ASSUME IInv, NEW r \in Requests, NEW h \in Request,
           req' = [req EXCEPT ![r] = h], nodes' = nodes, audits' \subseteq AuditEntry,
           HandlerInv(r)', h.after = req[r].after,
           h.after # None => h.call = req[r].call /\ h.target = req[r].target,
           h.pc = "update" => h.before = nodes[h.target]
    PROVE  IInv'
<1>1. req \in [Requests -> Request] /\ nodes \in [NodeIds -> Row \cup {None}]
  BY DEF IInv, TypeOK
<1>2. req'[r] = h /\ \A q \in Requests \ {r} : req'[q] = req[q]
  BY <1>1
<1>3. TypeOK'
  BY <1>1 DEF TypeOK
<1>4. ASSUME NEW q \in Requests
      PROVE  /\ req'[q].after = req[q].after
             /\ req[q].after # None =>
                   req'[q].call = req[q].call /\ req'[q].target = req[q].target
  BY <1>2
<1>5. ASSUME NEW q \in Requests, NEW op, NEW n \in NodeIds
      PROVE  Wrote(q, op, n)' <=> Wrote(q, op, n)
  BY <1>4 DEF Wrote
<1>6. ASSUME NEW n \in NodeIds
      PROVE  (Reactivated(n)' <=> Reactivated(n)) /\ (Retired(n)' <=> Retired(n))
  BY <1>4, <1>5 DEF Reactivated, Retired
<1>7. ASSUME NEW q \in Requests PROVE HandlerInv(q)'
  <2>1. CASE q = r
    BY <2>1
  <2>2. CASE q # r
    BY <1>2, <2>2 DEF IInv, HandlerInv
  <2> QED
    BY <2>1, <2>2
<1>8. ASSUME NEW q \in Requests PROVE WrittenInv(q)'
  BY <1>4 DEF IInv, WrittenInv
<1>9. ASSUME NEW q \in Requests PROVE ReadActive(q)'
  <2>1. CASE q = r
    BY <1>2, <2>1 DEF ReadActive
  <2>2. CASE q # r
    <3>1. req[q].pc = "update" => req[q].target \in NodeIds
      BY DEF IInv, HandlerInv
    <3> QED
      BY <1>2, <1>6, <2>2, <3>1 DEF IInv, ReadActive
  <2> QED
    BY <2>1, <2>2
<1>10. OneCreator'
  BY <1>5 DEF IInv, OneCreator
<1>11. CodesDiffer'
  BY DEF IInv, CodesDiffer
<1>12. StaysDeactivated'
  BY <1>5, <1>6 DEF IInv, StaysDeactivated
<1>13. DeactivationsAlternate'
  BY <1>5, <1>6 DEF IInv, DeactivationsAlternate
<1> QED
  BY <1>3, <1>7, <1>8, <1>9, <1>10, <1>11, <1>12, <1>13 DEF IInv

(* A step of r that writes a row: a new one under a code that is free, or  *)
(* one in the place of another with the same code.                         *)
LEMMA WritingStep ==
    ASSUME IInv, NEW r \in Requests, NEW h \in Request, NEW n \in NodeIds,
           NEW row \in Row,
           req' = [req EXCEPT ![r] = h], nodes' = [nodes EXCEPT ![n] = row],
           audits' = audits,
           req[r].after = None, h.pc = "audit", h.call = req[r].call, h.target = n,
           h.call \in Calls, h.after \in Row, h.after.status = row.status,
           \/ /\ h.call.op = "create" /\ ~Exists(n)
              /\ row.code = h.call.code /\ ~CodeTaken(row.code)
           \/ h.call.op # "create" /\ Exists(n) /\ row.code = nodes[n].code,
           h.call.op = "deactivate" =>
              nodes[n].status = "active" /\ row.status = "inactive"
    PROVE  IInv'
<1>1. req \in [Requests -> Request] /\ nodes \in [NodeIds -> Row \cup {None}]
  BY DEF IInv, TypeOK
<1>2. req'[r] = h /\ \A q \in Requests \ {r} : req'[q] = req[q]
  BY <1>1
<1>3. nodes'[n] = row /\ \A m \in NodeIds \ {n} : nodes'[m] = nodes[m]
  BY <1>1
<1>4. TypeOK'
  BY <1>1 DEF IInv, TypeOK
<1>5. None \notin Row
  BY NoneAssumption
<1>6. ASSUME NEW q \in Requests, NEW op, NEW m \in NodeIds
      PROVE  Wrote(q, op, m)' <=>
                \/ Wrote(q, op, m)
                \/ q = r /\ m = n /\ op = h.call.op
  <2>1. CASE q = r
    BY <1>2, <1>5, <2>1 DEF Wrote
  <2>2. CASE q # r
    BY <1>2, <2>2 DEF Wrote
  <2> QED
    BY <2>1, <2>2
<1>7. ASSUME NEW q \in Requests, NEW op, NEW m \in NodeIds, Wrote(q, op, m)
      PROVE  /\ q # r /\ req'[q] = req[q] /\ Exists(m)
             /\ req[q].call \in Calls
             /\ req[q].call.op = "create" => nodes[m].code = req[q].call.code
  BY <1>2, <1>7 DEF Wrote, IInv, WrittenInv
<1>8. ASSUME NEW m \in NodeIds
      PROVE  (Reactivated(m) => Reactivated(m)') /\ (Retired(m) => Retired(m)')
  BY <1>6, <1>7 DEF Reactivated, Retired
<1>9. HandlerInv(r)'
  BY <1>2, <1>5, NoneAssumption DEF HandlerInv
<1>10. ASSUME NEW q \in Requests PROVE HandlerInv(q)'
  <2>1. CASE q = r
    BY <1>9, <2>1
  <2>2. CASE q # r
    <3>1. \A m \in NodeIds : Exists(m) => Exists(m)'
      BY <1>3, <1>5
    <3> QED
      BY <1>2, <2>2, <3>1 DEF IInv, HandlerInv
  <2> QED
    BY <2>1, <2>2
<1>11. ASSUME NEW q \in Requests PROVE WrittenInv(q)'
  <2>1. CASE q = r
    BY <1>2, <1>3, <1>5, <2>1 DEF WrittenInv
  <2>2. CASE q # r
    <3>1. \A m \in NodeIds :
             nodes[m] # None => nodes'[m] # None /\ nodes'[m].code = nodes[m].code
      BY <1>3, <1>5
    <3> QED
      BY <1>2, <2>2, <3>1 DEF IInv, WrittenInv
  <2> QED
    BY <2>1, <2>2
<1>12. ASSUME NEW q \in Requests PROVE ReadActive(q)'
  <2>1. CASE q = r
    BY <1>2, <2>1 DEF ReadActive
  <2>2. CASE q # r
    <3> SUFFICES ASSUME NEW m \in NodeIds, m = req[q].target, Exists(m),
                        req[q].pc = "update", req[q].call.op = "update",
                        req[q].before.status = "active",
                        nodes'[m].status = "inactive"
                 PROVE  Retired(m)'
      <4>1. req[q].pc = "update" => req[q].target \in NodeIds /\ Exists(req[q].target)
        BY DEF IInv, HandlerInv
      <4> QED
        BY <1>2, <2>2, <4>1 DEF ReadActive
    <3>1. CASE m # n
      <4>1. nodes[m].status = "inactive"
        BY <1>3, <3>1
      <4>2. Retired(m)
        BY <4>1 DEF IInv, ReadActive
      <4> QED
        BY <1>8, <4>2
    <3>2. CASE m = n
      <4>1. h.call.op \in {"update", "deactivate"}
        BY <3>2, CallFields
      <4>2. Wrote(r, h.call.op, n)'
        BY <1>6
      <4>3. h.after.status = "inactive"
        BY <1>3, <3>2
      <4> QED
        BY <1>2, <3>2, <4>1, <4>2, <4>3 DEF Retired
    <3> QED
      BY <3>1, <3>2
  <2> QED
    BY <2>1, <2>2
<1>13. OneCreator'
  <2>1. ASSUME NEW q \in Requests, Wrote(q, "create", n)
        PROVE  h.call.op # "create"
    BY <1>7, <2>1
  <2> QED
    BY <1>6, <2>1 DEF IInv, OneCreator
<1>14. CodesDiffer'
  <2>1. ASSUME NEW m \in NodeIds, m # n, Exists(m) PROVE nodes[m].code # row.code
    BY <2>1 DEF CodeTaken, IInv, CodesDiffer
  <2> QED
    BY <1>3, <2>1 DEF IInv, CodesDiffer
<1>15. ASSUME NEW q \in Requests, NEW m \in NodeIds, Wrote(q, "deactivate", m)'
       PROVE  nodes'[m].status = "inactive" \/ Reactivated(m)'
  <2>1. CASE m # n
    BY <1>3, <1>6, <1>8, <1>15, <2>1 DEF IInv, StaysDeactivated
  <2>2. CASE m = n /\ row.status = "inactive"
    BY <1>3, <2>2
  <2>3. CASE m = n /\ row.status = "active"
    <3>1. h.call.op # "deactivate"
      BY <2>3
    <3>2. Wrote(q, "deactivate", n)
      BY <1>6, <1>15, <2>3, <3>1
    <3>3. h.call.op = "update"
      BY <1>7, <3>1, <3>2, CallFields
    <3>4. Wrote(r, "update", n)' /\ req'[r].after.status = "active"
      BY <1>2, <1>6, <2>3, <3>3
    <3> QED
      BY <2>3, <3>4 DEF Reactivated
  <2>4. row.status \in {"active", "inactive"}
    BY DEF Row, Statuses
  <2> QED
    BY <2>1, <2>2, <2>3, <2>4
<1>16. ASSUME NEW p \in Requests, NEW q \in Requests, NEW m \in NodeIds, p # q,
              Wrote(p, "deactivate", m)', Wrote(q, "deactivate", m)'
       PROVE  Reactivated(m)'
  <2>1. ASSUME NEW a \in Requests, Wrote(a, "deactivate", n),
               h.call.op = "deactivate"
        PROVE  Reactivated(n)'
    <3>1. nodes[n].status # "inactive"
      BY <2>1
    <3> QED
      BY <1>8, <2>1, <3>1 DEF IInv, StaysDeactivated
  <2>2. CASE Wrote(p, "deactivate", m) /\ Wrote(q, "deactivate", m)
    BY <1>8, <1>16, <2>2 DEF IInv, DeactivationsAlternate
  <2> QED
    BY <1>6, <1>16, <2>1, <2>2
<1> QED
  BY <1>4, <1>10, <1>11, <1>12, <1>13, <1>14, <1>15, <1>16
     DEF IInv, StaysDeactivated, DeactivationsAlternate

----------------------------------------------------------------------------
(***************************************************************************)
(* The invariant, one lemma per action                                     *)
(***************************************************************************)
LEMMA InvInit == Init => IInv
<1> SUFFICES ASSUME Init PROVE IInv
  OBVIOUS
<1>1. \A r \in Requests : req[r] = Idle
  BY DEF Init
<1>2. TypeOK
  BY DEF Init, TypeOK, Request, Labels, HttpStatuses, Idle
<1>3. ASSUME NEW r \in Requests PROVE HandlerInv(r) /\ WrittenInv(r) /\ ReadActive(r)
  BY <1>1 DEF HandlerInv, WrittenInv, ReadActive, Idle
<1>4. OneCreator /\ StaysDeactivated /\ DeactivationsAlternate
  BY <1>1 DEF OneCreator, StaysDeactivated, DeactivationsAlternate, Wrote, Idle
<1>5. CodesDiffer
  BY DEF Init, CodesDiffer
<1> QED
  BY <1>2, <1>3, <1>4, <1>5 DEF IInv

(* What every step starts from.                                            *)
LEMMA Held ==
    ASSUME IInv, NEW r \in Requests
    PROVE  /\ req \in [Requests -> Request] /\ req[r] \in Request
           /\ nodes \in [NodeIds -> Row \cup {None}] /\ audits \subseteq AuditEntry
           /\ HandlerInv(r)
BY DEF IInv, TypeOK

LEMMA Submitted ==
    ASSUME NEW h \in Request, NEW label \in Labels, NEW c \in Calls,
           NEW code \in HttpStatuses
    PROVE  [h EXCEPT !.pc = label, !.call = c, !.status = code] \in Request
BY DEF Request

LEMMA Forbidden ==
    ASSUME NEW h \in Request, NEW c \in Calls
    PROVE  [h EXCEPT !.pc = "answered", !.call = c, !.status = 403] \in Request
<1>1. PICK label \in Labels : label = "answered"
  BY DEF Labels
<1>2. PICK code \in HttpStatuses : code = 403
  BY DEF HttpStatuses
<1>3. [h EXCEPT !.pc = label, !.call = c, !.status = code] \in Request
  BY Submitted
<1> QED
  BY <1>1, <1>2, <1>3, Zenon

(* A handler that answers, or only goes on.                                *)
LEMMA Proceed ==
    ASSUME IInv, NEW r \in Requests, NEW label \in Labels \ {"idle", "update"},
           NEW code \in HttpStatuses,
           req' = [req EXCEPT ![r] = [req[r] EXCEPT !.pc = label, !.status = code]],
           nodes' = nodes, audits' \subseteq AuditEntry,
           req[r].call # None,
           label = "insert" => req[r].pc = "code",
           label \notin {"code", "load"},
           label = "audit" => req[r].pc = "audit",
           label = "summary" => req[r].pc = "audit"
    PROVE  IInv'
<1> DEFINE h == [req[r] EXCEPT !.pc = label, !.status = code]
<1>1. req[r] \in Request /\ HandlerInv(r) /\ req \in [Requests -> Request]
  BY Held
<1>2. h \in Request
  <2>1. req[r] \in Request
    BY <1>1
  <2> QED
    BY <2>1 DEF Request
<1>3. /\ h.pc = label /\ h.after = req[r].after /\ h.call = req[r].call
      /\ h.target = req[r].target
  BY <1>1 DEF Request
<1>4. req'[r] = h
  BY <1>1
<1> HIDE DEF h
<1>5. HandlerInv(r)'
  BY <1>1, <1>3, <1>4 DEF HandlerInv
<1> QED
  BY <1>2, <1>3, <1>5, QuietStep DEF h

LEMMA InvAnswer ==
    ASSUME IInv, NEW r \in Requests, NEW code \in HttpStatuses,
           Answer(r, code), nodes' = nodes, audits' \subseteq AuditEntry,
           req[r].call # None
    PROVE  IInv'
<1>1. req' = [req EXCEPT ![r] = [req[r] EXCEPT !.pc = "answered", !.status = code]]
  BY Zenon DEF Answer, Become
<1>2. "answered" \in Labels \ {"idle", "update"}
  BY DEF Labels
<1> QED
  BY <1>1, <1>2, Proceed

LEMMA InvGoto ==
    ASSUME IInv, NEW r \in Requests, NEW label \in {"insert", "summary", "interrupted"},
           Goto(r, label), nodes' = nodes, audits' \subseteq AuditEntry,
           req[r].call # None,
           label = "insert" => req[r].pc = "code",
           label = "summary" => req[r].pc = "audit"
    PROVE  IInv'
<1>1. req[r] \in Request
  BY Held
<1>2. [req[r] EXCEPT !.pc = label] =
         [req[r] EXCEPT !.pc = label, !.status = req[r].status]
  BY <1>1 DEF Request
<1>3. req[r].status \in HttpStatuses
  BY <1>1 DEF Request
<1>4. req' = [req EXCEPT ![r] = [req[r] EXCEPT !.pc = label,
                                               !.status = req[r].status]]
  BY <1>2, Zenon DEF Goto, Become
<1>5. label \in Labels \ {"idle", "update"}
  BY DEF Labels
<1> QED
  BY <1>3, <1>4, <1>5, Proceed

LEMMA InvSubmit == ASSUME IInv, NEW r \in Requests, Submit(r) PROVE IInv'
<1>1. /\ req[r] \in Request /\ HandlerInv(r) /\ req \in [Requests -> Request]
      /\ audits \subseteq AuditEntry
  BY Held
<1>2. /\ req[r].pc = "idle" /\ req[r].call = None /\ req[r].after = None
      /\ nodes' = nodes /\ audits' = audits
  BY <1>1 DEF Submit, HandlerInv
<1>3. PICK c \in Calls :
         IF c.role \notin Permitted
         THEN Become(r, [req[r] EXCEPT !.pc = "answered", !.call = c, !.status = 403])
         ELSE Become(r, [req[r] EXCEPT !.pc = FirstLabel(c), !.call = c])
  BY DEF Submit
<1>4. c # None
  BY NoneAssumption
<1>5. CASE c.role \notin Permitted
  <2> DEFINE h == [req[r] EXCEPT !.pc = "answered", !.call = c, !.status = 403]
  <2>1. h \in Request
    <3>1. req[r] \in Request
      BY <1>1
    <3> QED
      BY <3>1, Forbidden, Zenon
  <2>2. h.pc = "answered" /\ h.after = None /\ h.call = c
    BY <1>1, <1>2 DEF Request
  <2>3. req' = [req EXCEPT ![r] = h] /\ req'[r] = h
    BY <1>1, <1>3, <1>5 DEF Become
  <2> HIDE DEF h
  <2>4. HandlerInv(r)'
    BY <1>4, <2>2, <2>3 DEF HandlerInv
  <2> QED
    BY <1>1, <1>2, <2>1, <2>2, <2>3, <2>4, QuietStep
<1>6. CASE c.role \in Permitted
  <2> DEFINE h == [req[r] EXCEPT !.pc = FirstLabel(c), !.call = c]
  <2>1. h \in Request
    <3>1. req[r] \in Request /\ FirstLabel(c) \in Labels
      BY <1>1 DEF Labels, FirstLabel
    <3> QED
      BY <3>1 DEF Request
  <2>2. h.pc = FirstLabel(c) /\ h.after = None /\ h.call = c
    BY <1>1, <1>2 DEF Request
  <2>3. req' = [req EXCEPT ![r] = h] /\ req'[r] = h
    BY <1>1, <1>3, <1>6 DEF Become
  <2> HIDE DEF h
  <2>4. HandlerInv(r)'
    BY <1>4, <2>2, <2>3 DEF HandlerInv, FirstLabel
  <2> QED
    BY <1>1, <1>2, <2>1, <2>2, <2>3, <2>4, QuietStep DEF FirstLabel
<1> QED
  BY <1>5, <1>6

LEMMA InvCheckCode == ASSUME IInv, NEW r \in Requests, CheckCode(r) PROVE IInv'
<1>1. HandlerInv(r) /\ audits \subseteq AuditEntry
  BY Held
<1>2. /\ req[r].pc = "code" /\ req[r].call # None
      /\ nodes' = nodes /\ audits' \subseteq AuditEntry
  BY <1>1, NoneAssumption DEF CheckCode, HandlerInv
<1>3. 409 \in HttpStatuses
  BY DEF HttpStatuses
<1>4. Answer(r, 409) \/ Goto(r, "insert")
  BY DEF CheckCode
<1> QED
  BY <1>2, <1>3, <1>4, InvAnswer, InvGoto

(* The new primary key is fresh, and the unique index found the code free. *)
LEMMA InvInsertNode == ASSUME IInv, NEW r \in Requests, InsertNode(r) PROVE IInv'
<1>1. /\ req[r] \in Request /\ HandlerInv(r) /\ audits \subseteq AuditEntry
      /\ nodes \in [NodeIds -> Row \cup {None}]
  BY Held
<1>2. /\ req[r].pc = "insert" /\ req[r].call \in Calls /\ req[r].call # None
      /\ req[r].call.op = "create" /\ req[r].after = None /\ audits' = audits
  BY <1>1, NoneAssumption DEF InsertNode, HandlerInv
<1>3. CASE UniqueViolation(req[r].call.code)
  <2>1. 409 \in HttpStatuses
    BY DEF HttpStatuses
  <2>2. Answer(r, 409) /\ nodes' = nodes
    BY <1>3 DEF InsertNode
  <2> QED
    BY <1>1, <1>2, <2>1, <2>2, InvAnswer
<1>4. CASE ~UniqueViolation(req[r].call.code)
  <2> DEFINE row == Created(req[r].call)
  <2>1. PICK n \in NodeIds :
           /\ ~Exists(n) /\ nodes' = [nodes EXCEPT ![n] = row]
           /\ Become(r, [req[r] EXCEPT !.pc = "audit", !.target = n, !.after = row])
    BY <1>4 DEF InsertNode
  <2> DEFINE h == [req[r] EXCEPT !.pc = "audit", !.target = n, !.after = row]
  <2>2. row \in Row /\ row.code = req[r].call.code
    BY <1>2, CreatedRow
  <2>3. ~CodeTaken(row.code)
    BY <1>4, <2>2 DEF UniqueViolation
  <2> HIDE DEF row
  <2>4. h \in Request
    <3>1. "audit" \in Labels
      BY DEF Labels
    <3> QED
      BY <1>1, <2>2, <3>1 DEF Request
  <2>5. /\ h.pc = "audit" /\ h.target = n /\ h.after = row
        /\ h.call = req[r].call
    BY <1>1 DEF Request
  <2>6. req' = [req EXCEPT ![r] = h]
    BY <2>1 DEF Become
  <2> HIDE DEF h
  <2>7. nodes' = [nodes EXCEPT ![n] = row] /\ ~Exists(n)
    BY <2>1
  <2>8. h.call \in Calls /\ h.call.op = "create" /\ h.after \in Row
    BY <1>2, <2>2, <2>5
  <2>9. h.after.status = row.status /\ row.code = h.call.code
    BY <2>2, <2>5
  <2> QED
    BY <1>2, <2>2, <2>3, <2>4, <2>5, <2>6, <2>7, <2>8, <2>9, WritingStep
<1> QED
  BY <1>3, <1>4

(* GetByID: what a handler reads is in the table when it is read.          *)
LEMMA InvLoad ==
    ASSUME IInv, NEW r \in Requests, req[r].pc = "load", Exists(req[r].call.id),
           Load(r, "update"), nodes' = nodes, audits' = audits
    PROVE  IInv'
<1> DEFINE n == req[r].call.id
           h == [req[r] EXCEPT !.pc = "update", !.target = n, !.before = nodes[n]]
<1>1. /\ req \in [Requests -> Request] /\ req[r] \in Request /\ HandlerInv(r)
      /\ audits \subseteq AuditEntry /\ nodes \in [NodeIds -> Row \cup {None}]
  BY Held
<1>2. req[r].call \in Calls /\ req[r].call.op # "create" /\ req[r].after = None
  BY <1>1 DEF HandlerInv
<1>3. n \in NodeIds /\ nodes[n] \in Row
  BY <1>1, <1>2, CallFields
<1>4. req' = [req EXCEPT ![r] = h]
  BY DEF Load, Become
<1> HIDE DEF n
<1>5. h \in Request
  <2>1. "update" \in Labels
    BY DEF Labels
  <2> QED
    BY <1>1, <1>3, <2>1 DEF Request
<1>6. /\ h.pc = "update" /\ h.target = n /\ h.before = nodes[n]
      /\ h.call = req[r].call /\ h.after = None
  BY <1>1, <1>2 DEF Request
<1>7. req'[r] = h
  BY <1>1, <1>4
<1> HIDE DEF h
<1>8. HandlerInv(r)'
  BY <1>2, <1>3, <1>6, <1>7, NoneAssumption DEF HandlerInv
<1> QED
  BY <1>1, <1>2, <1>4, <1>5, <1>6, <1>8, QuietStep

LEMMA InvLoadForUpdate ==
    ASSUME IInv, NEW r \in Requests, LoadForUpdate(r) PROVE IInv'
<1>1. HandlerInv(r) /\ audits \subseteq AuditEntry
  BY Held
<1>2. /\ req[r].pc = "load" /\ req[r].call # None
      /\ nodes' = nodes /\ audits' = audits
  BY <1>1, NoneAssumption DEF LoadForUpdate, HandlerInv
<1>3. 404 \in HttpStatuses
  BY DEF HttpStatuses
<1>4. CASE Exists(req[r].call.id)
  BY <1>2, <1>4, InvLoad DEF LoadForUpdate
<1>5. CASE ~Exists(req[r].call.id)
  <2>1. Answer(r, 404)
    BY <1>5 DEF LoadForUpdate
  <2> QED
    BY <1>1, <1>2, <1>3, <2>1, InvAnswer
<1> QED
  BY <1>4, <1>5

LEMMA InvLoadForDeactivate ==
    ASSUME IInv, NEW r \in Requests, LoadForDeactivate(r) PROVE IInv'
<1>1. HandlerInv(r) /\ audits \subseteq AuditEntry
  BY Held
<1>2. /\ req[r].pc = "load" /\ req[r].call # None
      /\ nodes' = nodes /\ audits' = audits
  BY <1>1, NoneAssumption DEF LoadForDeactivate, HandlerInv
<1>3. 404 \in HttpStatuses /\ 409 \in HttpStatuses
  BY DEF HttpStatuses
<1>4. \/ Answer(r, 404) \/ Answer(r, 409)
      \/ Exists(req[r].call.id) /\ Load(r, "update")
  BY DEF LoadForDeactivate
<1>5. CASE Exists(req[r].call.id) /\ Load(r, "update")
  BY <1>2, <1>5, InvLoad
<1>6. CASE Answer(r, 404) \/ Answer(r, 409)
  BY <1>1, <1>2, <1>3, <1>6, InvAnswer
<1> QED
  BY <1>4, <1>5, <1>6

(* The write of an Update or a Deactivate.                                 *)
LEMMA InvWrite ==
    ASSUME IInv, NEW r \in Requests, req[r].pc = "update",
           NEW row \in Row, NEW after \in Row,
           Write(r, row, after), audits' = audits,
           row.code = Stored(r).code, after.status = row.status,
           req[r].call.op = "deactivate" =>
              Stored(r).status = "active" /\ row.status = "inactive"
    PROVE  IInv'
<1> DEFINE n == req[r].target
           h == [req[r] EXCEPT !.pc = "audit", !.after = after]
<1>1. req[r] \in Request /\ HandlerInv(r)
  BY Held
<1>2. /\ req[r].call \in Calls /\ req[r].call.op # "create"
      /\ req[r].after = None /\ n \in NodeIds /\ Exists(n)
  BY <1>1 DEF HandlerInv
<1>3. h \in Request
  <2>1. "audit" \in Labels
    BY DEF Labels
  <2> QED
    BY <1>1, <2>1 DEF Request
<1>4. h.pc = "audit" /\ h.target = n /\ h.after = after /\ h.call = req[r].call
  BY <1>1 DEF Request
<1>5. req' = [req EXCEPT ![r] = h] /\ nodes' = [nodes EXCEPT ![n] = row]
  BY DEF Write, Become
<1>6. /\ row.code = nodes[n].code
      /\ h.call.op = "deactivate" => nodes[n].status = "active" /\ row.status = "inactive"
  BY <1>4 DEF Stored
<1> HIDE DEF n, h
<1> QED
  BY <1>2, <1>3, <1>4, <1>5, <1>6, WritingStep

LEMMA InvUpdateNode == ASSUME IInv, NEW r \in Requests, UpdateNode(r) PROVE IInv'
<1> DEFINE edited == Edited(req[r].before, req[r].call)
           row == [edited EXCEPT !.code = Stored(r).code]
<1>1. HandlerInv(r) /\ nodes \in [NodeIds -> Row \cup {None}]
  BY Held
<1>2. /\ req[r].pc = "update" /\ req[r].call.op = "update"
      /\ Write(r, row, edited) /\ audits' = audits
  BY DEF UpdateNode
<1>3. /\ req[r].call \in Calls /\ req[r].before \in Row
      /\ req[r].target \in NodeIds /\ Stored(r) \in Row
  BY <1>1, <1>2 DEF HandlerInv, Stored
<1>4. edited \in Row
  BY <1>2, <1>3, EditedRow
<1> HIDE DEF edited
<1>5. row \in Row /\ row.code = Stored(r).code /\ edited.status = row.status
  BY <1>3, <1>4 DEF Row
<1> HIDE DEF row
<1> QED
  BY <1>2, <1>4, <1>5, InvWrite

LEMMA InvDeactivate == ASSUME IInv, NEW r \in Requests, Deactivate(r) PROVE IInv'
<1>1. /\ HandlerInv(r) /\ audits \subseteq AuditEntry
      /\ nodes \in [NodeIds -> Row \cup {None}]
  BY Held
<1>2. req[r].pc = "update" /\ req[r].call # None /\ audits' = audits
  BY <1>1, NoneAssumption DEF Deactivate, HandlerInv
<1>3. req[r].before \in Row /\ Stored(r) \in Row
  BY <1>1, <1>2 DEF HandlerInv, Stored
<1>4. CASE ~StillActive(r)
  <2>1. 409 \in HttpStatuses
    BY DEF HttpStatuses
  <2>2. Answer(r, 409) /\ nodes' = nodes
    BY <1>4 DEF Deactivate
  <2> QED
    BY <1>1, <1>2, <2>1, <2>2, InvAnswer
<1>5. CASE StillActive(r)
  <2> DEFINE row == [Stored(r) EXCEPT !.status = "inactive"]
             after == [req[r].before EXCEPT !.status = "inactive"]
  <2>1. Write(r, row, after)
    BY <1>5 DEF Deactivate
  <2>2. /\ row \in Row /\ row.code = Stored(r).code /\ row.status = "inactive"
        /\ after \in Row /\ after.status = "inactive"
    BY <1>3 DEF Row, Statuses
  <2>3. Stored(r).status = "active"
    BY <1>5 DEF StillActive
  <2> HIDE DEF row, after
  <2> QED
    BY <1>2, <2>1, <2>2, <2>3, InvWrite
<1> QED
  BY <1>4, <1>5

LEMMA InvRecordAudit == ASSUME IInv, NEW r \in Requests, RecordAudit(r) PROVE IInv'
<1>1. /\ req[r] \in Request /\ HandlerInv(r) /\ audits \subseteq AuditEntry
  BY Held
<1>2. /\ req[r].pc = "audit" /\ req[r].call # None /\ nodes' = nodes
      /\ req[r].after \in Row /\ req[r].after # None
  BY <1>1, NoneAssumption DEF RecordAudit, HandlerInv
<1>3. req[r].target \in NodeIds
  BY <1>2 DEF IInv, WrittenInv
<1>4. audits' \subseteq AuditEntry
  BY <1>1, <1>2, <1>3 DEF RecordAudit, AuditEntry, Request
<1>5. 201 \in HttpStatuses
  BY DEF HttpStatuses
<1>6. Answer(r, 201) \/ Goto(r, "summary")
  BY DEF RecordAudit
<1> QED
  BY <1>2, <1>4, <1>5, <1>6, InvAnswer, InvGoto

LEMMA InvSummarize == ASSUME IInv, NEW r \in Requests, Summarize(r) PROVE IInv'
<1>1. HandlerInv(r) /\ audits \subseteq AuditEntry
  BY Held
<1>2. req[r].call # None /\ nodes' = nodes /\ audits' = audits /\ Answer(r, 200)
  BY <1>1, NoneAssumption DEF Summarize, HandlerInv
<1>3. 200 \in HttpStatuses
  BY DEF HttpStatuses
<1> QED
  BY <1>1, <1>2, <1>3, InvAnswer

(* An interrupted handler keeps what it wrote; an idle one has no call.    *)
LEMMA InvInterrupt == ASSUME IInv, NEW r \in Requests, Interrupt(r) PROVE IInv'
<1>1. HandlerInv(r) /\ audits \subseteq AuditEntry /\ req[r] \in Request
  BY Held
<1>2. req[r].call # None
  BY <1>1, NoneAssumption DEF Interrupt, HandlerInv, Request, Labels
<1>3. nodes' = nodes /\ audits' = audits /\ Goto(r, "interrupted")
  BY DEF Interrupt
<1> QED
  BY <1>1, <1>2, <1>3, InvGoto

LEMMA InvStutter == IInv /\ UNCHANGED vars => IInv'
<1> SUFFICES ASSUME IInv, UNCHANGED vars PROVE IInv'
  OBVIOUS
<1>1. nodes' = nodes /\ audits' = audits /\ req' = req
  BY DEF vars
<1>2. TypeOK' /\ \A r \in Requests : (HandlerInv(r) /\ WrittenInv(r))'
  BY <1>1 DEF IInv, TypeOK, HandlerInv, WrittenInv
<1>3. \A r \in Requests : ReadActive(r)'
  BY <1>1 DEF IInv, ReadActive, Retired, Wrote
<1>4. (OneCreator /\ CodesDiffer)'
  BY <1>1 DEF IInv, OneCreator, CodesDiffer, Wrote
<1>5. (StaysDeactivated /\ DeactivationsAlternate)'
  BY <1>1 DEF IInv, StaysDeactivated, DeactivationsAlternate, Reactivated, Wrote
<1> QED
  BY <1>2, <1>3, <1>4, <1>5 DEF IInv

LEMMA InvNext == IInv /\ [Next]_vars => IInv'
<1> SUFFICES ASSUME IInv, [Next]_vars PROVE IInv'
  OBVIOUS
<1>1. ASSUME NEW r \in Requests, Submit(r) \/ Step(r) \/ Interrupt(r) PROVE IInv'
  <2>1. CASE CheckCode(r) \/ InsertNode(r) \/ LoadForUpdate(r) \/ UpdateNode(r)
    BY <2>1, InvCheckCode, InvInsertNode, InvLoadForUpdate, InvUpdateNode
  <2>2. CASE LoadForDeactivate(r) \/ Deactivate(r) \/ RecordAudit(r) \/ Summarize(r)
    BY <2>2, InvLoadForDeactivate, InvDeactivate, InvRecordAudit, InvSummarize
  <2> QED
    BY <1>1, <2>1, <2>2, InvSubmit, InvInterrupt DEF Step
<1> QED
  BY <1>1, InvStutter DEF Next

----------------------------------------------------------------------------
(***************************************************************************)
(* The theorems                                                            *)
(***************************************************************************)
(* The inductive invariant holds in every state requests can bring the     *)
(* table to.                                                               *)
THEOREM Invariance == Spec => []IInv
<1> QED
  BY InvInit, InvNext, PTL DEF Spec

(* For any number of requests, nodes and codes: rows, audit entries and    *)
(* handlers are well formed.                                               *)
THEOREM TypeCorrect == Spec => []TypeOK
<1>1. IInv => TypeOK
  BY DEF IInv
<1> QED
  BY <1>1, Invariance, PTL

(* Of any number of racing creations of one code one succeeds, and no two  *)
(* nodes have one code.                                                    *)
THEOREM CodesAreUnique == Spec => []OneCreationPerCode
<1>1. ASSUME IInv, NEW r \in Requests, NEW q \in Requests,
             NEW m \in NodeIds, NEW n \in NodeIds,
             r # q, Wrote(r, "create", m), Wrote(q, "create", n)
      PROVE  req[r].call.code # req[q].call.code
  <2>1. /\ Exists(m) /\ nodes[m].code = req[r].call.code
        /\ Exists(n) /\ nodes[n].code = req[q].call.code
    BY <1>1 DEF IInv, WrittenInv, Wrote
  <2>2. m # n
    BY <1>1 DEF IInv, OneCreator
  <2> QED
    BY <1>1, <2>1, <2>2 DEF IInv, CodesDiffer
<1>2. IInv => OneCreationPerCode
  BY <1>1 DEF OneCreationPerCode, IInv, CodesDiffer
<1> QED
  BY <1>2, Invariance, PTL

(* Of any number of racing deactivations of a node one takes effect, unless*)
(* an update wrote it active at some time.                                 *)
THEOREM OneDeactivation == Spec => []DeactivationsAlternate
<1>1. IInv => DeactivationsAlternate
  BY DEF IInv
<1> QED
  BY <1>1, Invariance, PTL

(* An update that names no status reactivates a node only if the node was  *)
(* retired after the update had read it.                                   *)
THEOREM ReactivationRaced == Spec => UnaskedReactivationIsRaced
<1> DEFINE Raced(r, n) ==
              /\ At(r, "update") /\ At(r, "audit")' /\ req[r].target = n
              /\ req[r].call.op = "update" /\ req[r].call.status = None
              /\ nodes[n].status = "inactive" /\ nodes'[n].status = "active"
              => req[r].before.status = "active" /\ Retired(n)
<1>1. ASSUME IInv, Next, NEW r \in Requests, NEW n \in NodeIds,
             req[r].pc = "update", req'[r].pc = "audit", req[r].target = n,
             req[r].call.op = "update", req[r].call.status = None,
             nodes[n].status = "inactive", nodes'[n].status = "active"
      PROVE  req[r].before.status = "active" /\ Retired(n)
  <2> DEFINE edited == Edited(req[r].before, req[r].call)
             row == [edited EXCEPT !.code = Stored(r).code]
  <2>1. /\ HandlerInv(r) /\ nodes \in [NodeIds -> Row \cup {None}]
        /\ req \in [Requests -> Request]
    BY <1>1, Held
  <2>2. /\ req[r].call \in Calls /\ req[r].before \in Row
        /\ n \in NodeIds /\ Stored(r) \in Row
    BY <1>1, <2>1 DEF HandlerInv, Stored
  <2>3. edited \in Row /\ edited.status = req[r].before.status
    BY <1>1, <2>2, EditedRow
  <2>4. row.status = edited.status
    BY <2>2, <2>3 DEF Row
  <2> HIDE DEF edited, row
  <2>5. PICK q \in Requests : Submit(q) \/ Step(q) \/ Interrupt(q)
    BY <1>1 DEF Next
  <2>6. q = r
    BY <1>1, <2>1, <2>5
       DEF Submit, Step, Interrupt, CheckCode, InsertNode, LoadForUpdate,
           UpdateNode, LoadForDeactivate, Deactivate, RecordAudit, Summarize,
           Load, Write, Answer, Goto, Become
  <2>7. UpdateNode(r)
    BY <1>1, <2>1, <2>5, <2>6
       DEF Submit, Step, Interrupt, CheckCode, InsertNode, LoadForUpdate,
           LoadForDeactivate, Deactivate, RecordAudit, Summarize
  <2>8. nodes' = [nodes EXCEPT ![n] = row]
    BY <1>1, <2>7 DEF UpdateNode, Write, edited, row
  <2>9. req[r].before.status = "active"
    BY <1>1, <2>1, <2>2, <2>3, <2>4, <2>8
  <2> QED
    BY <1>1, <2>9 DEF IInv, ReadActive
<1>2. ASSUME IInv, [Next]_vars
      PROVE  [\A r \in Requests : \A n \in NodeIds : Raced(r, n)]_vars
  BY <1>1, <1>2
<1> QED
  BY <1>2, Invariance, PTL DEF Spec, UnaskedReactivationIsRaced
=============================================================================
