-------------------------- MODULE Safeguards_proofs --------------------------
EXTENDS Safeguards, TLAPS

USE DEF At, Exists

(***************************************************************************)
(* The calls and the rows                                                  *)
(***************************************************************************)
LEMMA CallFields ==
    ASSUME NEW c \in Calls
    PROVE  /\ c.op \in {"create", "update", "verify", "invalidate", "restore"}
           /\ c.actor \in Users
           /\ c.op = "create" =>
                 /\ c.scenario \in ScenarioIds /\ c.interval \in Intervals
                 /\ c.at \in Instants \cup {None}
           /\ c.op # "create" => c.id \in SafeguardIds
           /\ c.op = "update" =>
                 c.interval \in Intervals \cup {None} /\ c.note \in BOOLEAN
           /\ c.op = "verify" => c.at \in Instants
<1>1. CASE c \in CreateCalls
  BY <1>1 DEF CreateCalls
<1>2. CASE c \in UpdateCalls
  BY <1>2 DEF UpdateCalls
<1>3. CASE c \in VerifyCalls
  BY <1>3 DEF VerifyCalls
<1>4. CASE c \in ActionCalls
  BY <1>4 DEF ActionCalls
<1> QED
  BY <1>1, <1>2, <1>3, <1>4 DEF Calls

(* A row as Create enters it: active or expired with a verification only.  *)
LEMMA CreatedRow ==
    ASSUME NEW r \in Requests, NEW c \in Calls, c.op = "create",
           c.scenario \in Scenarios, c.at # None => ~InFuture(c.at),
           now \in 0 .. MaxTime
    PROVE  /\ Created(r, c) \in Row /\ SoundRow(Created(r, c))
           /\ Created(r, c).state # "invalid"
           /\ Created(r, c).state = "pending" <=> Created(r, c).verifiedAt = None
           /\ Created(r, c).verifiedAt = c.at
           /\ Created(r, c).verifiedAt # None => Created(r, c).by = c.actor
<1> DEFINE row == Created(r, c)
<1>1. c.actor \in Users /\ c.interval \in Intervals /\ c.at \in Instants \cup {None}
  BY CallFields
<1>2. CreatedState(c.at, c.interval) \in {"pending", "expired", "active"}
  BY DEF CreatedState
<1>3. CreatedState(c.at, c.interval) = "pending" <=> c.at = None
  BY DEF CreatedState
<1>4. row = [scenario |-> c.scenario, interval |-> c.interval, verifiedAt |-> c.at,
             state |-> CreatedState(c.at, c.interval),
             by |-> IF c.at = None THEN None ELSE c.actor, evidence |-> {r}]
  BY DEF Created
<1>5. (IF c.at = None THEN None ELSE c.actor) \in Users \cup {None}
  BY <1>1
<1>6. row \in Row
  <2>1. CreatedState(c.at, c.interval) \in States /\ {r} \in SUBSET Requests
    BY <1>2 DEF States
  <2> QED
    BY <1>1, <1>4, <1>5, <2>1 DEF Row
<1>7. c.at # None => c.at <= now + Tolerance
  <2>1. c.at # None => c.at \in Nat
    BY <1>1, TimeAssumption DEF Instants
  <2>2. now + Tolerance \in Nat
    BY TimeAssumption
  <2> QED
    BY <2>1, <2>2 DEF InFuture
<1> QED
  BY <1>2, <1>3, <1>4, <1>6, <1>7 DEF SoundRow

(* Of the lifecycle an edit changes an active row to expired at most, when *)
(* its verification is over the edited interval.                           *)
LEMMA EditedRow ==
    ASSUME NEW r \in Requests, req[r].call \in Calls, req[r].call.op = "update",
           NEW row \in Row
    PROVE  /\ Edited(r, row) \in Row
           /\ \/ Edited(r, row).state = row.state
              \/ /\ row.state = "active" /\ Edited(r, row).state = "expired"
                 /\ row.verifiedAt # None
                 /\ Over(row.verifiedAt, Edited(r, row).interval)
<1> DEFINE c == req[r].call
           i == IF c.interval = None THEN row.interval ELSE c.interval
           note == IF c.note THEN {r} ELSE row.evidence
           s == IF /\ row.verifiedAt # None /\ Over(row.verifiedAt, i)
                   /\ row.state = "active"
                THEN "expired" ELSE row.state
<1>1. c.interval \in Intervals \cup {None}
  BY CallFields
<1>2. i \in Intervals /\ note \in SUBSET Requests /\ s \in States
  BY <1>1 DEF Row, States
<1>3. \/ s = row.state
      \/ /\ row.state = "active" /\ s = "expired"
         /\ row.verifiedAt # None /\ Over(row.verifiedAt, i)
  OBVIOUS
<1>4. Edited(r, row) = [row EXCEPT !.interval = i, !.evidence = note, !.state = s]
  BY DEF Edited
<1> HIDE DEF i, note, s
<1>5. Edited(r, row) \in Row /\ Edited(r, row).state = s /\ Edited(r, row).interval = i
  BY <1>2, <1>4 DEF Row
<1> QED
  BY <1>3, <1>5

----------------------------------------------------------------------------
(***************************************************************************)
(* Two kinds of steps                                                      *)
(***************************************************************************)
(* What every step starts from.                                            *)
LEMMA Held ==
    ASSUME IInv, NEW r \in Requests
    PROVE  /\ req \in [Requests -> Request] /\ req[r] \in Request
           /\ safeguards \in [SafeguardIds -> Row \cup {None}]
           /\ audits \subseteq AuditEntry /\ now \in 0 .. MaxTime
           /\ HandlerInv(r) /\ InsertInv(r) /\ RestoreInv(r) /\ VerifyInv(r)
           /\ req[r].seen \subseteq Writers
BY DEF IInv, TypeOK

(* A step of r that leaves the table alone, and what r has done to it.     *)
LEMMA QuietStep ==
    ASSUME IInv, NEW r \in Requests, NEW h \in Request,
           req' = [req EXCEPT ![r] = h], safeguards' = safeguards, now' = now,
           audits \subseteq audits', audits' \subseteq AuditEntry,
           HandlerInv(r)', InsertInv(r)', RestoreInv(r)', VerifyInv(r)',
           h.seen = req[r].seen \/ h.seen = Writers,
           req[r].after # None =>
              h.after # None /\ h.call = req[r].call /\ h.target = req[r].target,
           req[r].after = None =>
              h.after = None \/ h.call.op \notin {"verify", "invalidate", "restore"},
           req[r].pc \in {"reload", "audit", "interrupted"} =>
              \/ h.pc \in {"reload", "audit", "interrupted"}
              \/ \E a \in audits' : a.request = r /\ a.id = h.target
    PROVE  IInv'
<1>1. req \in [Requests -> Request] /\ safeguards \in [SafeguardIds -> Row \cup {None}]
  BY Held
<1>2. req'[r] = h /\ \A q \in Requests \ {r} : req'[q] = req[q]
  BY <1>1
<1>3. TypeOK'
  BY <1>1 DEF IInv, TypeOK
<1>4. ASSUME NEW q \in Requests
      PROVE  /\ Wrote(q) => Wrote(q)'
             /\ Wrote(q)' => Wrote(q)
             /\ Wrote(q) => /\ req'[q].call = req[q].call
                            /\ req'[q].target = req[q].target
  <2>1. CASE q = r
    BY <1>2, <2>1 DEF Wrote, IInv, HandlerInv
  <2>2. CASE q # r
    BY <1>2, <2>2 DEF Wrote
  <2> QED
    BY <2>1, <2>2
<1>5. /\ Writers' = Writers
      /\ \A q \in Requests : req'[q].seen \subseteq Writers
  BY <1>2, <1>4 DEF Writers, IInv
<1>6. ASSUME NEW q \in Requests
      PROVE  HandlerInv(q)' /\ InsertInv(q)'
  <2>1. CASE q = r
    BY <2>1
  <2>2. CASE q # r
    BY <1>2, <2>2 DEF IInv, HandlerInv, Over, InsertInv, SoundRow
  <2> QED
    BY <2>1, <2>2
<1>7. ASSUME NEW q \in Requests PROVE RestoreInv(q)' /\ VerifyInv(q)'
  <2>1. CASE q = r
    BY <2>1
  <2>2. CASE q # r
    <3>1. \A e : InvalidatedSince(q, e) => InvalidatedSince(q, e)'
      BY <1>2, <1>4, <1>5, <2>2 DEF InvalidatedSince, Writers
    <3>2. req'[q] = req[q] /\ RestoreInv(q) /\ VerifyInv(q)
      BY <1>2, <2>2, Held
    <3> QED
      BY <3>1, <3>2 DEF RestoreInv, VerifyInv
  <2> QED
    BY <2>1, <2>2
<1>8. \A e \in SafeguardIds : RowInv(e)'
  BY DEF IInv, RowInv, SoundRow
<1>9. VerificationTraceable'
  <2>1. ASSUME NEW e \in SafeguardIds, NEW q \in Requests, VerifiedThrough(q, e)
        PROVE  VerifiedThrough(q, e)'
    <3>1. CASE q = r
      <4>1. /\ req[r].after # None /\ req[r].target = e
            /\ h.after # None /\ h.call = req[r].call /\ h.target = e
        BY <2>1, <3>1 DEF VerifiedThrough
      <4>2. CASE Audited(r, e)
        BY <1>2, <2>1, <3>1, <4>1, <4>2 DEF VerifiedThrough, Audited
      <4>3. CASE req[r].pc \in {"reload", "audit", "interrupted"}
        BY <1>2, <2>1, <3>1, <4>1, <4>3 DEF VerifiedThrough, Audited
      <4> QED
        BY <2>1, <3>1, <4>2, <4>3 DEF VerifiedThrough
    <3>2. CASE q # r
      BY <1>2, <2>1, <3>2 DEF VerifiedThrough, Audited
    <3> QED
      BY <3>1, <3>2
  <2> QED
    BY <2>1 DEF IInv, VerificationTraceable
<1> QED
  BY <1>3, <1>5, <1>6, <1>7, <1>8, <1>9 DEF IInv

(* A step of r that writes the row of e: its own new one, one with the     *)
(* verification r carries, or one with the verification e had.             *)
LEMMA WritingStep ==
    ASSUME IInv, NEW r \in Requests, NEW h \in Request, NEW e \in SafeguardIds,
           NEW row \in Row, SoundRow(row),
           req' = [req EXCEPT ![r] = h], safeguards' = [safeguards EXCEPT ![e] = row],
           now' = now, audits' = audits,
           HandlerInv(r)', h.pc \in {"reload", "audit", "expire"},
           h.target = e, h.call = req[r].call, h.seen = req[r].seen, h.after # None,
           ~Wrote(r), \A m \in SafeguardIds : ~VerifiedThrough(r, m),
           \/ /\ Exists(e) /\ row.verifiedAt = safeguards[e].verifiedAt
              /\ row.by = safeguards[e].by
           \/ /\ h.call.op \in {"create", "verify"} /\ h.pc \in {"reload", "audit"}
              /\ RoleOf[h.call.actor] \in Permitted
              /\ row.verifiedAt = h.call.at
              /\ row.verifiedAt # None => row.by = h.call.actor,
           Exists(e) /\ safeguards[e].verifiedAt # None => row.verifiedAt # None,
           row.state = "invalid" =>
              \/ Exists(e) /\ safeguards[e].state = "invalid"
              \/ h.call.op = "invalidate"
    PROVE  IInv'
<1>1. req \in [Requests -> Request] /\ safeguards \in [SafeguardIds -> Row \cup {None}]
  BY Held
<1>2. req'[r] = h /\ \A q \in Requests \ {r} : req'[q] = req[q]
  BY <1>1
<1>3. safeguards'[e] = row /\ \A m \in SafeguardIds \ {e} : safeguards'[m] = safeguards[m]
  BY <1>1
<1>4. None \notin Row
  BY NoneAssumption
<1>5. TypeOK'
  BY <1>1 DEF IInv, TypeOK
<1>6. ASSUME NEW q \in Requests, Wrote(q) PROVE q # r /\ req'[q] = req[q]
  BY <1>2, <1>6
<1>7. /\ Writers \subseteq Writers'
      /\ \A q \in Requests : req'[q].seen = req[q].seen /\ req'[q].seen \subseteq Writers'
  BY <1>1, <1>2, <1>6 DEF Writers, Wrote, IInv
<1>8. h.call # None
  BY NoneAssumption, <1>2 DEF HandlerInv, Working
<1>9. InsertInv(r)' /\ RestoreInv(r)' /\ VerifyInv(r)'
  BY <1>2 DEF InsertInv, RestoreInv, VerifyInv
<1>10. ASSUME NEW q \in Requests, q # r PROVE HandlerInv(q)' /\ InsertInv(q)'
  <2>1. \A m \in SafeguardIds : Exists(m) => Exists(m)'
    BY <1>3, <1>4
  <2>2. /\ req'[q] = req[q] /\ HandlerInv(q) /\ InsertInv(q)
    BY <1>2, <1>10, Held
  <2>3. req[q].pc \in Working => req[q].call \in Calls
    BY <2>2 DEF HandlerInv
  <2>4. req[q].pc \in {"update", "expire", "set"} => req[q].call.id \in SafeguardIds
    BY <2>2, <2>3, CallFields DEF HandlerInv, Working
  <2>5. HandlerInv(q)'
    BY <2>1, <2>2, <2>4 DEF HandlerInv, Over
  <2>6. InsertInv(q)'
    BY <2>2 DEF InsertInv, SoundRow
  <2> QED
    BY <2>5, <2>6
<1>11. ASSUME NEW q \in Requests, q # r PROVE RestoreInv(q)' /\ VerifyInv(q)'
  <2>1. /\ req'[q] = req[q] /\ HandlerInv(q) /\ RestoreInv(q) /\ VerifyInv(q)
        /\ req[q].seen \subseteq Writers
    BY <1>2, <1>11, Held
  <2>2. \A m : InvalidatedSince(q, m) => InvalidatedSince(q, m)'
    BY <1>6, <1>7 DEF InvalidatedSince, Writers
  <2>3. h.call.op = "invalidate" => InvalidatedSince(q, e)'
    <3>1. h.call.op = "invalidate" => r \in Writers'
      BY <1>2, <1>8 DEF Writers, Wrote
    <3>2. r \notin req'[q].seen
      BY <2>1 DEF Writers
    <3> QED
      BY <1>2, <3>1, <3>2 DEF InvalidatedSince
  <2> DEFINE m == req[q].call.id
  <2>4. req[q].pc \in {"load", "set"} => m \in SafeguardIds
    <3>1. req[q].pc \in {"load", "set"} =>
             req[q].call \in Calls /\ req[q].call.op # "create"
      BY <2>1 DEF HandlerInv, Working
    <3> QED
      BY <3>1, CallFields
  <2>5. ASSUME req[q].pc \in {"load", "set"}, safeguards'[m].state = "invalid",
               safeguards[m] # None,
               safeguards[m].state = "invalid" => InvalidatedSince(q, m)
        PROVE  InvalidatedSince(q, m)'
    BY <1>3, <2>2, <2>3, <2>4, <2>5
  <2>6. ASSUME req[q].pc \in {"load", "set"}, safeguards[m] # None,
               safeguards[m].verifiedAt # None
        PROVE  safeguards'[m] # None /\ safeguards'[m].verifiedAt # None
    BY <1>3, <1>4, <2>4, <2>6
  <2>7. RestoreInv(q)'
    BY <2>1, <2>5, <2>6 DEF RestoreInv
  <2>8. VerifyInv(q)'
    <3>1. req[q].pc = "set" => safeguards[m] # None
      BY <2>1 DEF HandlerInv
    <3> QED
      BY <2>1, <2>5, <3>1 DEF VerifyInv
  <2> QED
    BY <2>7, <2>8
<1>12. ASSUME NEW m \in SafeguardIds PROVE RowInv(m)'
  <2>1. CASE m = e
    BY <1>3, <2>1 DEF RowInv, SoundRow
  <2>2. CASE m # e
    BY <1>3, <2>2 DEF IInv, RowInv, SoundRow
  <2> QED
    BY <2>1, <2>2
<1>13. VerificationTraceable'
  <2> SUFFICES ASSUME NEW m \in SafeguardIds, safeguards'[m] # None,
                      safeguards'[m].verifiedAt # None
               PROVE  \E q \in Requests : VerifiedThrough(q, m)'
    BY DEF VerificationTraceable
  <2>1. CASE /\ safeguards[m] # None
             /\ safeguards'[m].verifiedAt = safeguards[m].verifiedAt
             /\ safeguards'[m].by = safeguards[m].by
    <3>1. PICK q \in Requests : VerifiedThrough(q, m)
      BY <2>1 DEF IInv, VerificationTraceable
    <3>2. req'[q] = req[q]
      BY <1>2, <3>1
    <3> QED
      BY <2>1, <3>1, <3>2 DEF VerifiedThrough, Audited
  <2>2. CASE /\ m = e
             /\ h.call.op \in {"create", "verify"} /\ h.pc \in {"reload", "audit"}
             /\ RoleOf[h.call.actor] \in Permitted
             /\ row.verifiedAt = h.call.at /\ row.by = h.call.actor
    <3>1. VerifiedThrough(r, e)'
      BY <1>2, <1>3, <1>8, <2>2 DEF VerifiedThrough
    <3> QED
      BY <2>2, <3>1
  <2> QED
    BY <1>3, <2>1, <2>2
<1> QED
  BY <1>5, <1>7, <1>9, <1>10, <1>11, <1>12, <1>13 DEF IInv

----------------------------------------------------------------------------
(***************************************************************************)
(* The invariant, one lemma per action                                     *)
(***************************************************************************)
LEMMA InvInit == Init => IInv
<1> SUFFICES ASSUME Init PROVE IInv
  OBVIOUS
<1>1. \A r \in Requests : req[r] = Idle
  BY DEF Init
<1>2. \A e \in SafeguardIds : safeguards[e] = None
  BY DEF Init
<1>3. TypeOK
  <2>1. Idle \in Request
    BY DEF Idle, Request, Labels, Statuses
  <2> QED
    BY TimeAssumption, <2>1 DEF Init, TypeOK
<1>4. ASSUME NEW r \in Requests
      PROVE  /\ HandlerInv(r) /\ InsertInv(r) /\ RestoreInv(r) /\ VerifyInv(r)
             /\ req[r].seen = {}
  BY <1>1 DEF HandlerInv, InsertInv, RestoreInv, VerifyInv, Idle, Working
<1>5. \A e \in SafeguardIds : RowInv(e)
  BY <1>2 DEF RowInv
<1>6. VerificationTraceable
  BY <1>2 DEF VerificationTraceable
<1> QED
  BY <1>3, <1>4, <1>5, <1>6 DEF IInv

LEMMA Submitted ==
    ASSUME NEW h \in Request, NEW label \in Labels, NEW c \in Calls,
           NEW code \in Statuses
    PROVE  [h EXCEPT !.pc = label, !.call = c, !.status = code] \in Request
BY DEF Request

LEMMA Forbidden ==
    ASSUME NEW h \in Request, NEW c \in Calls
    PROVE  [h EXCEPT !.pc = "answered", !.call = c, !.status = 403] \in Request
<1>1. PICK label \in Labels : label = "answered"
  BY DEF Labels
<1>2. PICK code \in Statuses : code = 403
  BY DEF Statuses
<1>3. [h EXCEPT !.pc = label, !.call = c, !.status = code] \in Request
  BY Submitted
<1> QED
  BY <1>1, <1>2, <1>3, Zenon

LEMMA InvSubmit == ASSUME IInv, NEW r \in Requests, Submit(r) PROVE IInv'
<1>1. /\ req[r] \in Request /\ HandlerInv(r) /\ req \in [Requests -> Request]
      /\ audits \subseteq AuditEntry
  BY Held
<1>2. /\ req[r].pc = "idle" /\ req[r].call = None /\ req[r].after = None
      /\ req[r].target = None
      /\ safeguards' = safeguards /\ audits' = audits /\ now' = now
  BY <1>1 DEF Submit, HandlerInv
<1>3. PICK c \in Calls : Dispatch(r, c, FirstLabel(c))
  BY DEF Submit
<1>4. c # None
  BY NoneAssumption
<1>5. CASE RoleOf[c.actor] \notin Permitted
  <2> DEFINE h == [req[r] EXCEPT !.pc = "answered", !.call = c, !.status = 403]
  <2>1. h \in Request
    <3>1. req[r] \in Request
      BY <1>1
    <3> QED
      BY <3>1, Forbidden, Zenon
  <2>2. h.pc = "answered" /\ h.after = None /\ h.call = c /\ h.seen = req[r].seen
    BY <1>1, <1>2 DEF Request
  <2>3. req' = [req EXCEPT ![r] = h]
    BY <1>3, <1>5 DEF Dispatch, Become
  <2>4. req'[r] = h
    BY <1>1, <2>3
  <2> HIDE DEF h
  <2>5. HandlerInv(r)' /\ InsertInv(r)' /\ RestoreInv(r)' /\ VerifyInv(r)'
    BY <1>4, <2>2, <2>4 DEF HandlerInv, InsertInv, RestoreInv, VerifyInv, Working
  <2> QED
    BY <1>1, <1>2, <2>1, <2>2, <2>3, <2>5, QuietStep
<1>6. CASE RoleOf[c.actor] \in Permitted
  <2> DEFINE h == [req[r] EXCEPT !.pc = FirstLabel(c), !.call = c]
  <2>1. h \in Request
    <3>1. req[r] \in Request /\ FirstLabel(c) \in Labels
      BY <1>1 DEF Labels, FirstLabel
    <3> QED
      BY <3>1 DEF Request
  <2>2. /\ h.pc = FirstLabel(c) /\ h.after = None /\ h.call = c /\ h.target = None
        /\ h.seen = req[r].seen
    BY <1>1, <1>2 DEF Request
  <2>3. req' = [req EXCEPT ![r] = h]
    BY <1>3, <1>6 DEF Dispatch, Become
  <2>4. req'[r] = h
    BY <1>1, <2>3
  <2> HIDE DEF h
  <2>5. HandlerInv(r)'
    BY <1>4, <1>6, <2>2, <2>4 DEF HandlerInv, Working, FirstLabel
  <2>6. InsertInv(r)' /\ RestoreInv(r)' /\ VerifyInv(r)'
    BY <2>2, <2>4 DEF InsertInv, RestoreInv, VerifyInv, FirstLabel
  <2> QED
    BY <1>1, <1>2, <2>1, <2>2, <2>3, <2>5, <2>6, QuietStep
<1> QED
  BY <1>5, <1>6

(* A handler that answers, is cut short or only goes on.                   *)
LEMMA Proceed ==
    ASSUME IInv, NEW r \in Requests, NEW label \in {"answered", "interrupted", "get", "audit"},
           NEW code \in Statuses,
           req' = [req EXCEPT ![r] = [req[r] EXCEPT !.pc = label, !.status = code]],
           safeguards' = safeguards, now' = now,
           audits \subseteq audits', audits' \subseteq AuditEntry,
           req[r].call # None,
           label = "get" => req[r].pc = "audit",
           label = "audit" => req[r].pc = "expire",
           req[r].pc \in {"reload", "audit", "interrupted"} =>
              \/ label = "interrupted"
              \/ \E a \in audits' : a.request = r /\ a.id = req[r].target
    PROVE  IInv'
<1> DEFINE h == [req[r] EXCEPT !.pc = label, !.status = code]
<1>1. req[r] \in Request /\ HandlerInv(r) /\ req \in [Requests -> Request]
  BY Held
<1>2. h \in Request
  <2>1. req[r] \in Request /\ label \in Labels
    BY <1>1 DEF Labels
  <2> QED
    BY <2>1 DEF Request
<1>3. /\ h.pc = label /\ h.after = req[r].after /\ h.call = req[r].call
      /\ h.target = req[r].target /\ h.seen = req[r].seen
  BY <1>1 DEF Request
<1>4. req'[r] = h
  BY <1>1
<1> HIDE DEF h
<1>5. req[r].pc = "expire" => req[r].target \in SafeguardIds /\ Exists(req[r].target)
  BY <1>1, CallFields DEF HandlerInv, Working
<1>6. HandlerInv(r)'
  BY <1>1, <1>3, <1>4, <1>5 DEF HandlerInv, Working
<1>7. InsertInv(r)' /\ RestoreInv(r)' /\ VerifyInv(r)'
  BY <1>3, <1>4 DEF InsertInv, RestoreInv, VerifyInv
<1> QED
  BY <1>2, <1>3, <1>6, <1>7, QuietStep DEF h

LEMMA InvAnswer ==
    ASSUME IInv, NEW r \in Requests, NEW code \in Statuses,
           Answer(r, code), safeguards' = safeguards, now' = now,
           audits \subseteq audits', audits' \subseteq AuditEntry,
           req[r].call # None,
           req[r].pc \in {"reload", "audit", "interrupted"} =>
              \E a \in audits' : a.request = r /\ a.id = req[r].target
    PROVE  IInv'
<1>1. req' = [req EXCEPT ![r] = [req[r] EXCEPT !.pc = "answered", !.status = code]]
  BY Zenon DEF Answer, Become
<1>2. PICK label \in {"answered", "interrupted", "get", "audit"} : label = "answered"
  OBVIOUS
<1>3. req' = [req EXCEPT ![r] = [req[r] EXCEPT !.pc = label, !.status = code]]
  BY <1>1, <1>2, Zenon
<1> QED
  BY <1>2, <1>3, Proceed

LEMMA InvGoto ==
    ASSUME IInv, NEW r \in Requests, NEW label \in {"interrupted", "get", "audit"},
           Goto(r, label), safeguards' = safeguards, now' = now,
           audits \subseteq audits', audits' \subseteq AuditEntry,
           req[r].call # None,
           label = "get" => req[r].pc = "audit",
           label = "audit" => req[r].pc = "expire",
           req[r].pc \in {"reload", "audit", "interrupted"} =>
              \/ label = "interrupted"
              \/ \E a \in audits' : a.request = r /\ a.id = req[r].target
    PROVE  IInv'
<1>1. req[r] \in Request
  BY Held
<1>2. [req[r] EXCEPT !.pc = label] =
         [req[r] EXCEPT !.pc = label, !.status = req[r].status]
  BY <1>1 DEF Request
<1>3. req[r].status \in Statuses
  BY <1>1 DEF Request
<1>4. req' = [req EXCEPT ![r] = [req[r] EXCEPT !.pc = label,
                                               !.status = req[r].status]]
  BY <1>2, Zenon DEF Goto, Become
<1> QED
  BY <1>3, <1>4, Proceed

(* The answers of a handler that has changed nothing.                      *)
LEMMA Refused ==
    ASSUME IInv, NEW r \in Requests, NEW code \in {404, 409, 422}, Answer(r, code),
           safeguards' = safeguards, now' = now, audits' = audits,
           req[r].pc \in Working \ {"reload", "audit", "get"}
    PROVE  IInv'
<1>1. HandlerInv(r) /\ audits \subseteq AuditEntry
  BY Held
<1>2. req[r].call # None
  BY <1>1, NoneAssumption DEF HandlerInv
<1>3. code \in Statuses
  BY DEF Statuses
<1>4. req[r].pc \notin {"reload", "audit", "interrupted"}
  BY DEF Working
<1> QED
  BY <1>1, <1>2, <1>3, <1>4, InvAnswer

LEMMA InvLoadScenario ==
    ASSUME IInv, NEW r \in Requests, LoadScenario(r) PROVE IInv'
<1> DEFINE c == req[r].call
<1>1. /\ req[r] \in Request /\ HandlerInv(r) /\ req \in [Requests -> Request]
      /\ audits \subseteq AuditEntry /\ now \in 0 .. MaxTime
  BY Held
<1>2. /\ req[r].pc = "scenario"
      /\ safeguards' = safeguards /\ audits' = audits /\ now' = now
  BY DEF LoadScenario
<1>3. /\ c \in Calls /\ c.op = "create" /\ RoleOf[c.actor] \in Permitted
      /\ req[r].target = None /\ req[r].after = None
  BY <1>1, <1>2 DEF HandlerInv, Working
<1>4. CASE Answer(r, 404) \/ Answer(r, 422)
  BY <1>2, <1>4, Refused DEF Working
<1>5. CASE /\ c.scenario \in Scenarios
           /\ c.at # None => ~InFuture(c.at)
           /\ Become(r, [req[r] EXCEPT !.pc = "insert", !.after = Created(r, c)])
  <2> DEFINE row == Created(r, c)
             h == [req[r] EXCEPT !.pc = "insert", !.after = row]
  <2>1. /\ row \in Row /\ SoundRow(row) /\ row.state # "invalid"
        /\ row.state = "pending" <=> row.verifiedAt = None
        /\ row.verifiedAt = c.at
        /\ row.verifiedAt # None => row.by = c.actor
    BY <1>1, <1>3, <1>5, CreatedRow
  <2>2. req' = [req EXCEPT ![r] = h]
    BY <1>5 DEF Become
  <2> HIDE DEF row
  <2>3. h \in Request
    <3>1. "insert" \in Labels
      BY DEF Labels
    <3> QED
      BY <1>1, <2>1, <3>1 DEF Request
  <2>4. /\ h.pc = "insert" /\ h.after = row /\ h.call = c /\ h.target = None
        /\ h.seen = req[r].seen
    BY <1>1, <1>3 DEF Request
  <2>5. req'[r] = h
    BY <1>1, <2>2
  <2> HIDE DEF h, c
  <2>6. HandlerInv(r)'
    BY <1>3, <2>4, <2>5, NoneAssumption DEF HandlerInv, Working
  <2>7. InsertInv(r)'
    BY <1>2, <2>1, <2>4, <2>5 DEF InsertInv, SoundRow
  <2>8. RestoreInv(r)' /\ VerifyInv(r)'
    BY <2>4, <2>5 DEF RestoreInv, VerifyInv
  <2> QED
    BY <1>1, <1>2, <1>3, <2>2, <2>3, <2>4, <2>6, <2>7, <2>8, QuietStep
<1> QED
  BY <1>4, <1>5 DEF LoadScenario

LEMMA InvInsertSafeguard ==
    ASSUME IInv, NEW r \in Requests, InsertSafeguard(r) PROVE IInv'
<1> DEFINE c == req[r].call
           row == req[r].after
<1>1. /\ req[r] \in Request /\ HandlerInv(r) /\ req \in [Requests -> Request]
      /\ InsertInv(r)
  BY Held
<1>2. PICK e \in SafeguardIds :
         /\ ~Exists(e) /\ safeguards' = [safeguards EXCEPT ![e] = row]
         /\ Become(r, [req[r] EXCEPT !.pc = "audit", !.target = e])
  BY DEF InsertSafeguard
<1>3. req[r].pc = "insert" /\ audits' = audits /\ now' = now
  BY DEF InsertSafeguard
<1>4. /\ c \in Calls /\ c.op = "create" /\ RoleOf[c.actor] \in Permitted
      /\ req[r].target = None
  BY <1>1, <1>3 DEF HandlerInv, Working
<1>5. /\ row \in Row /\ SoundRow(row) /\ row.state # "invalid"
      /\ row.verifiedAt = c.at
      /\ row.verifiedAt # None => row.by = c.actor
  BY <1>1, <1>3 DEF InsertInv
<1> DEFINE h == [req[r] EXCEPT !.pc = "audit", !.target = e]
<1>6. h \in Request
  <2>1. "audit" \in Labels
    BY DEF Labels
  <2> QED
    BY <1>1, <2>1 DEF Request
<1>7. /\ h.pc = "audit" /\ h.target = e /\ h.after = row /\ h.call = c
      /\ h.seen = req[r].seen
  BY <1>1 DEF Request
<1>8. req' = [req EXCEPT ![r] = h]
  BY <1>2 DEF Become
<1>9. req'[r] = h /\ safeguards'[e] = row
  BY <1>1, <1>2, <1>8, Held
<1> HIDE DEF h, c, row
<1>10. HandlerInv(r)'
  BY <1>4, <1>5, <1>7, <1>9, NoneAssumption DEF HandlerInv, Working
<1>11. ~Wrote(r)
  BY <1>4 DEF Wrote, c
<1>12. \A m \in SafeguardIds : ~VerifiedThrough(r, m)
  BY <1>4, NoneAssumption DEF VerifiedThrough
<1>13. ~Exists(e) /\ safeguards' = [safeguards EXCEPT ![e] = row]
  BY <1>2
<1>14. h.after # None
  BY <1>5, <1>7, NoneAssumption
<1>15. h.call = req[r].call
  BY <1>7 DEF c
<1>16. /\ h.call.op = "create" /\ RoleOf[h.call.actor] \in Permitted
       /\ row.verifiedAt = h.call.at
       /\ row.verifiedAt # None => row.by = h.call.actor
  BY <1>4, <1>5, <1>7
<1> QED
  BY <1>3, <1>5, <1>6, <1>7, <1>8, <1>10, <1>11, <1>12, <1>13, <1>14, <1>15, <1>16,
     WritingStep

(* GetByID: the row a handler goes on with is in the table.                *)
LEMMA InvLoad ==
    ASSUME IInv, NEW r \in Requests, req[r].pc = "load", Exists(req[r].call.id),
           NEW label \in {"update", "set"}, NEW after \in Row \cup {None},
           Load(r, label, after), safeguards' = safeguards, audits' = audits, now' = now,
           label = "update" =>
              /\ req[r].call.op = "update" /\ after \in Row
              /\ \/ after.state = safeguards[req[r].call.id].state
                 \/ /\ safeguards[req[r].call.id].state = "active"
                    /\ after.state = "expired"
                    /\ safeguards[req[r].call.id].verifiedAt # None
                    /\ Over(safeguards[req[r].call.id].verifiedAt, after.interval),
           label = "set" =>
              /\ req[r].call.op \in {"verify", "invalidate", "restore"}
              /\ after = None
              /\ req[r].call.op = "verify" => req[r].call.at <= now + Tolerance
    PROVE  IInv'
<1>1. /\ req \in [Requests -> Request] /\ req[r] \in Request /\ HandlerInv(r)
      /\ RestoreInv(r) /\ audits \subseteq AuditEntry
      /\ safeguards \in [SafeguardIds -> Row \cup {None}]
  BY Held
<1>2. PICK c \in Calls : c = req[r].call
  BY <1>1 DEF HandlerInv, Working
<1>3. /\ RoleOf[c.actor] \in Permitted /\ c.op # "create" /\ c # None
      /\ req[r].after = None
      /\ c.op = "restore" => req[r].goal \in {"active", "pending"}
  BY <1>1, <1>2, NoneAssumption DEF HandlerInv, Working
<1>4. PICK e \in SafeguardIds : e = c.id
  BY <1>3, CallFields
<1>5. PICK before \in Row : before = safeguards[e]
  BY <1>1, <1>2, <1>4
<1> DEFINE seen == IF c.op = "restore" THEN req[r].seen ELSE Writers
           h == [req[r] EXCEPT !.pc = label, !.target = e, !.before = before,
                               !.after = after, !.seen = seen]
<1>6. req' = [req EXCEPT ![r] = h]
  BY <1>2, <1>4, <1>5 DEF Load, Become
<1>7. h \in Request
  <2>1. label \in Labels
    BY DEF Labels
  <2>2. seen \in SUBSET Requests
    BY <1>1 DEF Request, Writers
  <2> HIDE DEF seen
  <2> QED
    BY <1>1, <2>1, <2>2 DEF Request
<1>8. /\ h.pc = label /\ h.target = e /\ h.before = before /\ h.seen = seen
      /\ h.call = c /\ h.after = after /\ h.goal = req[r].goal
  BY <1>1, <1>2 DEF Request
<1>9. req'[r] = h
  BY <1>1, <1>6
<1> HIDE DEF h
<1>10. HandlerInv(r)'
  <2>1. safeguards'[e] # None
    BY <1>5, NoneAssumption
  <2>2. label = "update" =>
           /\ c.op = "update" /\ after \in Row
           /\ \/ after.state = before.state
              \/ /\ before.state = "active" /\ after.state = "expired"
                 /\ before.verifiedAt # None
                 /\ Over(before.verifiedAt, after.interval)
    BY <1>2, <1>4, <1>5
  <2>3. label = "set" =>
           /\ c.op \in {"verify", "invalidate", "restore"} /\ after = None
           /\ c.op = "verify" => c.at <= now' + Tolerance
    BY <1>2
  <2> QED
    BY <1>3, <1>4, <1>8, <1>9, <2>1, <2>2, <2>3 DEF HandlerInv, Working, Over
<1>11. InsertInv(r)'
  BY <1>8, <1>9 DEF InsertInv
<1>12. RestoreInv(r)'
  <2> SUFFICES ASSUME c.op = "restore", req[r].goal = "active"
               PROVE  /\ safeguards[e] # None /\ safeguards[e].verifiedAt # None
                      /\ safeguards[e].state = "invalid" => InvalidatedSince(r, e)'
    BY <1>4, <1>8, <1>9 DEF RestoreInv
  <2>1. /\ safeguards[e] # None /\ safeguards[e].verifiedAt # None
        /\ safeguards[e].state = "invalid" => InvalidatedSince(r, e)
    BY <1>1, <1>2, <1>4 DEF RestoreInv
  <2>2. InvalidatedSince(r, e) => InvalidatedSince(r, e)'
    <3>1. \A q \in Requests : Wrote(q) => req'[q] = req[q]
      BY <1>1, <1>3, <1>6 DEF Wrote
    <3>2. req'[r].seen = req[r].seen
      BY <1>8, <1>9
    <3> QED
      BY <3>1, <3>2 DEF InvalidatedSince, Writers, Wrote
  <2> QED
    BY <2>1, <2>2
<1>14. VerifyInv(r)'
  BY <1>2, <1>4, <1>5, <1>8, <1>9 DEF VerifyInv
<1>15. h.seen = req[r].seen \/ h.seen = Writers
  BY <1>8
<1>13. h.after = None \/ h.call.op \notin {"verify", "invalidate", "restore"}
  BY <1>2, <1>8
<1> QED
  BY <1>1, <1>3, <1>6, <1>7, <1>10, <1>11, <1>12, <1>13, <1>14, <1>15, QuietStep

LEMMA InvLoadForUpdate ==
    ASSUME IInv, NEW r \in Requests, LoadForUpdate(r) PROVE IInv'
<1> DEFINE e == req[r].call.id
<1>1. HandlerInv(r) /\ safeguards \in [SafeguardIds -> Row \cup {None}]
  BY Held
<1>2. /\ req[r].pc = "load" /\ req[r].call.op = "update"
      /\ safeguards' = safeguards /\ audits' = audits /\ now' = now
  BY DEF LoadForUpdate
<1>3. CASE ~Exists(e)
  <2>1. Answer(r, 404)
    BY <1>3 DEF LoadForUpdate, Load
  <2> QED
    BY <1>2, <2>1, Refused DEF Working
<1>4. CASE Exists(e)
  <2>1. req[r].call \in Calls
    BY <1>1, <1>2 DEF HandlerInv, Working
  <2>2. safeguards[e] \in Row
    BY <1>1, <1>2, <1>4, <2>1, CallFields
  <2>3. PICK after : after = Edited(r, safeguards[e])
    OBVIOUS
  <2>4. /\ after \in Row
        /\ \/ after.state = safeguards[e].state
           \/ /\ safeguards[e].state = "active" /\ after.state = "expired"
              /\ safeguards[e].verifiedAt # None
              /\ Over(safeguards[e].verifiedAt, after.interval)
    BY <1>2, <2>1, <2>2, <2>3, EditedRow
  <2>5. Load(r, "update", after)
    BY <2>3 DEF LoadForUpdate
  <2> QED
    BY <1>2, <1>4, <2>4, <2>5, InvLoad
<1> QED
  BY <1>3, <1>4

LEMMA InvLoadForVerify ==
    ASSUME IInv, NEW r \in Requests, LoadForVerify(r) PROVE IInv'
<1> DEFINE c == req[r].call
<1>1. HandlerInv(r) /\ now \in 0 .. MaxTime
  BY Held
<1>2. /\ req[r].pc = "load" /\ c.op = "verify"
      /\ safeguards' = safeguards /\ audits' = audits /\ now' = now
  BY DEF LoadForVerify
<1>3. CASE Answer(r, 404) \/ Answer(r, 422)
  BY <1>2, <1>3, Refused DEF Working
<1>4. CASE Exists(c.id) /\ ~InFuture(c.at) /\ Load(r, "set", None)
  <2>1. c.at \in Nat
    <3>1. c \in Calls
      BY <1>1, <1>2 DEF HandlerInv, Working
    <3> QED
      BY <1>2, <3>1, CallFields, TimeAssumption DEF Instants
  <2>2. c.at <= now + Tolerance
    BY <1>1, <1>4, <2>1, TimeAssumption DEF InFuture
  <2> QED
    BY <1>2, <1>4, <2>2, InvLoad
<1> QED
  BY <1>3, <1>4 DEF LoadForVerify

LEMMA InvLoadForChange ==
    ASSUME IInv, NEW r \in Requests, LoadForChange(r) PROVE IInv'
<1>1. /\ req[r].pc = "load" /\ req[r].call.op \in {"invalidate", "restore"}
      /\ safeguards' = safeguards /\ audits' = audits /\ now' = now
      /\ Load(r, "set", None)
  BY DEF LoadForChange
<1>2. CASE Exists(req[r].call.id)
  BY <1>1, <1>2, InvLoad
<1>3. CASE ~Exists(req[r].call.id)
  <2>1. Answer(r, 404)
    BY <1>1, <1>3 DEF Load
  <2> QED
    BY <1>1, <2>1, Refused DEF Working
<1> QED
  BY <1>2, <1>3

(* The goal is active only if the row was, so that it is verified.         *)
LEMMA InvRestoreTarget ==
    ASSUME IInv, NEW r \in Requests, RestoreTarget(r) PROVE IInv'
<1>1. /\ req \in [Requests -> Request] /\ req[r] \in Request /\ HandlerInv(r)
      /\ audits \subseteq AuditEntry
      /\ safeguards \in [SafeguardIds -> Row \cup {None}]
  BY Held
<1>2. /\ req[r].pc = "target"
      /\ safeguards' = safeguards /\ audits' = audits /\ now' = now
  BY DEF RestoreTarget
<1>3. PICK c \in Calls : c = req[r].call
  BY <1>1, <1>2 DEF HandlerInv, Working
<1>4. /\ RoleOf[c.actor] \in Permitted /\ c.op = "restore" /\ c # None
      /\ req[r].after = None
  BY <1>1, <1>2, <1>3, NoneAssumption DEF HandlerInv, Working
<1>5. PICK e \in SafeguardIds : e = c.id
  BY <1>4, CallFields
<1>6. CASE ~Exists(e)
  <2>1. Answer(r, 404)
    BY <1>3, <1>5, <1>6 DEF RestoreTarget
  <2> QED
    BY <1>2, <2>1, Refused DEF Working
<1>7. CASE Exists(e)
  <2>1. PICK goal \in {"active", "pending"} :
           goal = RestoredState(safeguards[e])
    BY DEF RestoredState
  <2> DEFINE h == [req[r] EXCEPT !.pc = "load", !.seen = Writers, !.goal = goal]
  <2>2. req' = [req EXCEPT ![r] = h]
    BY <1>3, <1>5, <1>7, <2>1 DEF RestoreTarget, Become
  <2>3. h \in Request
    <3>1. PICK label \in Labels : label = "load"
      BY DEF Labels
    <3>2. Writers \in SUBSET Requests
      BY DEF Writers
    <3>3. [req[r] EXCEPT !.pc = label, !.seen = Writers, !.goal = goal] \in Request
      BY <1>1, <3>2 DEF Request
    <3> QED
      BY <3>1, <3>3, Zenon
  <2>4. /\ h.pc = "load" /\ h.goal = goal /\ h.call = c /\ h.after = None
        /\ h.seen = Writers
    BY <1>1, <1>3, <1>4 DEF Request
  <2>5. req'[r] = h
    BY <1>1, <2>2
  <2> HIDE DEF h
  <2>6. HandlerInv(r)'
    BY <1>4, <2>4, <2>5 DEF HandlerInv, Working
  <2>7. InsertInv(r)' /\ VerifyInv(r)'
    BY <2>4, <2>5 DEF InsertInv, VerifyInv
  <2>8. RestoreInv(r)'
    <3>1. goal = "active" =>
             safeguards[e].state = "active" /\ safeguards[e].verifiedAt # None
      BY <2>1 DEF RestoredState, IsEffective
    <3> QED
      BY <1>2, <1>5, <1>7, <2>4, <2>5, <3>1 DEF RestoreInv
  <2> QED
    BY <1>1, <1>2, <1>4, <2>2, <2>3, <2>4, <2>6, <2>7, <2>8, QuietStep
<1> QED
  BY <1>6, <1>7

(* The columns of an edit: the verification and the state stay.            *)
LEMMA InvUpdateColumns ==
    ASSUME IInv, NEW r \in Requests, UpdateColumns(r) PROVE IInv'
<1>1. /\ req \in [Requests -> Request] /\ req[r] \in Request /\ HandlerInv(r)
      /\ safeguards \in [SafeguardIds -> Row \cup {None}]
  BY Held
<1>2. /\ req[r].pc = "update" /\ Store(r, UpdatedColumns(r))
      /\ audits' = audits /\ now' = now
  BY DEF UpdateColumns
<1>3. PICK c \in Calls : c = req[r].call
  BY <1>1, <1>2 DEF HandlerInv, Working
<1>4. /\ RoleOf[c.actor] \in Permitted /\ c.op = "update" /\ c # None
      /\ req[r].target = c.id /\ req[r].before \in Row /\ req[r].after \in Row
      /\ Exists(c.id)
      /\ \/ req[r].after.state = req[r].before.state
         \/ /\ req[r].before.state = "active" /\ req[r].after.state = "expired"
            /\ req[r].before.verifiedAt # None
            /\ Over(req[r].before.verifiedAt, req[r].after.interval)
  BY <1>1, <1>2, <1>3, NoneAssumption DEF HandlerInv, Working
<1>5. PICK e \in SafeguardIds : e = c.id
  BY <1>4, CallFields
<1>6. PICK old \in Row : old = safeguards[e]
  BY <1>1, <1>4, <1>5
<1>7. PICK after \in Row : after = req[r].after
  BY <1>4
<1> DEFINE row == [old EXCEPT !.interval = after.interval, !.evidence = after.evidence]
<1>8. /\ row \in Row /\ row.verifiedAt = old.verifiedAt /\ row.by = old.by
      /\ row.state = old.state
  BY DEF Row
<1>9. safeguards' = [safeguards EXCEPT ![e] = row]
  BY <1>2, <1>4, <1>5, <1>6, <1>7 DEF Store, UpdatedColumns, Stored
<1> HIDE DEF row
<1>10. SoundRow(row)
  <2>1. SoundRow(old)
    BY <1>4, <1>5, <1>6 DEF IInv, RowInv
  <2> QED
    BY <1>8, <2>1 DEF SoundRow
<1>11. PICK label \in {"expire", "audit"} :
          label = IF req[r].after.state # req[r].before.state THEN "expire" ELSE "audit"
  OBVIOUS
<1> DEFINE h == [req[r] EXCEPT !.pc = label]
<1>12. h \in Request
  <2>1. label \in Labels
    BY DEF Labels
  <2> QED
    BY <1>1, <2>1 DEF Request
<1>13. /\ h.pc = label /\ h.target = e /\ h.call = c /\ h.after = after
       /\ h.before = req[r].before /\ h.seen = req[r].seen
  BY <1>1, <1>3, <1>4, <1>5, <1>7 DEF Request
<1>14. req' = [req EXCEPT ![r] = h]
  BY <1>11 DEF UpdateColumns, Goto, Become
<1>15. req'[r] = h /\ safeguards'[e] = row
  BY <1>1, <1>9, <1>14
<1> HIDE DEF h
<1>16. HandlerInv(r)'
  <2>1. safeguards'[e] # None /\ e = c.id
    BY <1>5, <1>8, <1>15, NoneAssumption
  <2>2. label = "expire" =>
           /\ h.before.state = "active" /\ h.after.state = "expired"
           /\ h.before.verifiedAt # None /\ Over(h.before.verifiedAt, h.after.interval)
    BY <1>4, <1>7, <1>11, <1>13
  <2>3. h.before \in Row /\ h.after \in Row
    BY <1>4, <1>13
  <2> QED
    BY <1>2, <1>4, <1>11, <1>13, <1>15, <2>1, <2>2, <2>3 DEF HandlerInv, Working, Over
<1>17. ~Wrote(r) /\ \A m \in SafeguardIds : ~VerifiedThrough(r, m)
  BY <1>3, <1>4 DEF Wrote, VerifiedThrough
<1>18. Exists(e) /\ old = safeguards[e] /\ h.after # None /\ h.call = req[r].call
  BY <1>3, <1>4, <1>5, <1>6, <1>13, NoneAssumption
<1>19. h.call.op # "invalidate"
  BY <1>4, <1>13
<1>20. h.pc \in {"reload", "audit", "expire"} /\ h.target = e /\ h.seen = req[r].seen
  BY <1>13
<1>21. /\ row.verifiedAt = safeguards[e].verifiedAt /\ row.by = safeguards[e].by
       /\ row.state = safeguards[e].state
  BY <1>8, <1>18
<1> QED
  BY <1>2, <1>8, <1>9, <1>10, <1>12, <1>14, <1>16, <1>17, <1>18, <1>19, <1>20, <1>21,
     WritingStep

(* Only an active row that is over is expired, and it keeps the rest.      *)
LEMMA InvSynchronizeLifecycle ==
    ASSUME IInv, NEW r \in Requests, SynchronizeLifecycle(r) PROVE IInv'
<1>1. /\ req \in [Requests -> Request] /\ req[r] \in Request /\ HandlerInv(r)
      /\ safeguards \in [SafeguardIds -> Row \cup {None}] /\ audits \subseteq AuditEntry
  BY Held
<1>2. /\ req[r].pc = "expire" /\ Goto(r, "audit") /\ audits' = audits /\ now' = now
  BY DEF SynchronizeLifecycle
<1>3. PICK c \in Calls : c = req[r].call
  BY <1>1, <1>2 DEF HandlerInv, Working
<1>4. /\ RoleOf[c.actor] \in Permitted /\ c.op = "update" /\ c # None
      /\ req[r].target = c.id /\ req[r].before \in Row /\ req[r].after \in Row
      /\ Exists(c.id)
      /\ req[r].before.state = "active" /\ req[r].after.state = "expired"
  BY <1>1, <1>2, <1>3, NoneAssumption DEF HandlerInv, Working
<1>5. PICK e \in SafeguardIds : e = c.id
  BY <1>4, CallFields
<1>6. PICK old \in Row : old = safeguards[e]
  BY <1>1, <1>4, <1>5
<1>7. Stored(r) = old
  BY <1>4, <1>5, <1>6 DEF Stored
<1>8. CASE old.state # "active"
  <2>1. safeguards' = safeguards
    BY <1>4, <1>7, <1>8 DEF SynchronizeLifecycle
  <2>2. req[r].call # None
    BY <1>3, <1>4
  <2>3. audits \subseteq audits' /\ audits' \subseteq AuditEntry
    BY <1>1, <1>2
  <2>4. PICK label \in {"interrupted", "get", "audit"} : label = "audit"
    OBVIOUS
  <2>5. Goto(r, label)
    BY <1>2, <2>4
  <2> QED
    BY <1>2, <2>1, <2>2, <2>3, <2>4, <2>5, InvGoto
<1>9. CASE old.state = "active"
  <2> DEFINE row == [old EXCEPT !.state = "expired"]
             h == [req[r] EXCEPT !.pc = "audit"]
  <2>1. safeguards' = [safeguards EXCEPT ![e] = row]
    BY <1>4, <1>5, <1>7, <1>9 DEF SynchronizeLifecycle, Store
  <2>2. /\ row \in Row /\ row.verifiedAt = old.verifiedAt /\ row.by = old.by
        /\ row.state = "expired"
    BY DEF Row, States
  <2> HIDE DEF row
  <2>3. SoundRow(row)
    <3>1. SoundRow(old)
      BY <1>4, <1>5, <1>6 DEF IInv, RowInv
    <3> QED
      BY <1>9, <2>2, <3>1 DEF SoundRow
  <2>4. h \in Request
    <3>1. "audit" \in Labels
      BY DEF Labels
    <3> QED
      BY <1>1, <3>1 DEF Request
  <2>5. /\ h.pc = "audit" /\ h.target = e /\ h.call = c /\ h.after = req[r].after
        /\ h.seen = req[r].seen
    BY <1>1, <1>3, <1>4, <1>5 DEF Request
  <2>6. req' = [req EXCEPT ![r] = h]
    BY <1>2 DEF Goto, Become
  <2>7. req'[r] = h /\ safeguards'[e] = row
    BY <1>1, <2>1, <2>6
  <2> HIDE DEF h
  <2>8. HandlerInv(r)'
    <3>1. safeguards'[e] # None
      BY <2>2, <2>7, NoneAssumption
    <3> QED
      BY <1>4, <2>5, <2>7, <3>1 DEF HandlerInv, Working
  <2>9. ~Wrote(r) /\ \A m \in SafeguardIds : ~VerifiedThrough(r, m)
    BY <1>3, <1>4 DEF Wrote, VerifiedThrough
  <2>10. Exists(e) /\ h.after # None /\ h.call = req[r].call
    BY <1>3, <1>4, <1>5, <2>5, NoneAssumption
  <2>11. row.state # "invalid"
    BY <2>2
  <2>12. h.pc \in {"reload", "audit", "expire"} /\ h.target = e /\ h.seen = req[r].seen
    BY <2>5
  <2>13. row.verifiedAt = safeguards[e].verifiedAt /\ row.by = safeguards[e].by
    BY <1>6, <2>2
  <2> QED
    BY <1>2, <2>1, <2>2, <2>3, <2>4, <2>6, <2>8, <2>9, <2>10, <2>11, <2>12, <2>13,
       WritingStep
<1> QED
  BY <1>8, <1>9

(* What a handler about to set a lifecycle state holds.                    *)
LEMMA AtSet ==
    ASSUME IInv, NEW r \in Requests, req[r].pc = "set"
    PROVE  \E c \in Calls : \E e \in SafeguardIds : \E old \in Row :
              /\ c = req[r].call /\ e = c.id /\ e = req[r].target
              /\ old = safeguards[e] /\ old = Stored(r)
              /\ c.op \in {"verify", "invalidate", "restore"} /\ c # None
              /\ RoleOf[c.actor] \in Permitted /\ c.actor \in Users
              /\ req[r].before \in Row /\ req[r].after = None
              /\ c.op = "verify" => c.at \in Instants /\ c.at <= now + Tolerance
              /\ c.op = "restore" => req[r].goal \in {"active", "pending"}
              /\ c.op = "restore" /\ req[r].goal = "active" => old.verifiedAt # None
              /\ SoundRow(old)
<1>1. /\ HandlerInv(r) /\ RestoreInv(r)
      /\ safeguards \in [SafeguardIds -> Row \cup {None}]
  BY Held
<1>2. PICK c \in Calls : c = req[r].call
  BY <1>1 DEF HandlerInv, Working
<1>3. /\ c.op \in {"verify", "invalidate", "restore"} /\ c # None
      /\ RoleOf[c.actor] \in Permitted
      /\ req[r].target = c.id /\ Exists(c.id)
      /\ req[r].before \in Row /\ req[r].after = None
      /\ c.op = "verify" => c.at <= now + Tolerance
      /\ c.op = "restore" => req[r].goal \in {"active", "pending"}
  BY <1>1, <1>2, NoneAssumption DEF HandlerInv, Working
<1>4. PICK e \in SafeguardIds : e = c.id
  BY <1>3, CallFields
<1>5. c.actor \in Users /\ (c.op = "verify" => c.at \in Instants)
  BY CallFields
<1>6. PICK old \in Row : old = safeguards[e]
  BY <1>1, <1>3, <1>4
<1>7. SoundRow(old)
  BY <1>3, <1>4, <1>6 DEF IInv, RowInv
<1>8. c.op = "restore" /\ req[r].goal = "active" => old.verifiedAt # None
  BY <1>1, <1>2, <1>4, <1>6 DEF RestoreInv
<1> QED
  BY <1>2, <1>3, <1>4, <1>5, <1>6, <1>7, <1>8 DEF Stored

(* The write of Verify, Invalidate and Restore.                            *)
LEMMA InvSet ==
    ASSUME IInv, NEW r \in Requests, req[r].pc = "set",
           NEW c \in Calls, c = req[r].call, c.op \in {"verify", "invalidate", "restore"},
           RoleOf[c.actor] \in Permitted, req[r].after = None,
           NEW e \in SafeguardIds, e = req[r].target,
           NEW old \in Row, old = safeguards[e],
           NEW row \in Row, SoundRow(row),
           safeguards' = [safeguards EXCEPT ![e] = row],
           Become(r, [req[r] EXCEPT !.pc = "reload", !.after = row]),
           audits' = audits, now' = now,
           c.op = "verify" => row.verifiedAt = c.at /\ row.by = c.actor,
           c.op # "verify" => row.verifiedAt = old.verifiedAt /\ row.by = old.by,
           row.verifiedAt = None => old.verifiedAt = None,
           row.state = "invalid" => c.op = "invalidate"
    PROVE  IInv'
<1> DEFINE h == [req[r] EXCEPT !.pc = "reload", !.after = row]
<1>1. req \in [Requests -> Request] /\ req[r] \in Request
      /\ safeguards \in [SafeguardIds -> Row \cup {None}]
  BY Held
<1>2. h \in Request
  <2>1. "reload" \in Labels
    BY DEF Labels
  <2> QED
    BY <1>1, <2>1 DEF Request
<1>3. /\ h.pc = "reload" /\ h.after = row /\ h.call = c /\ h.target = e
      /\ h.seen = req[r].seen
  BY <1>1 DEF Request
<1>4. req' = [req EXCEPT ![r] = h]
  BY DEF Become
<1>5. req'[r] = h /\ safeguards'[e] = row
  BY <1>1, <1>4
<1> HIDE DEF h
<1>6. c # None /\ row # None /\ old # None
  BY NoneAssumption
<1>7. HandlerInv(r)'
  BY <1>3, <1>5, <1>6 DEF HandlerInv, Working
<1>8. ~Wrote(r) /\ \A m \in SafeguardIds : ~VerifiedThrough(r, m)
  BY DEF Wrote, VerifiedThrough
<1>9. /\ Exists(e) /\ h.after # None /\ h.call = req[r].call /\ h.target = e
      /\ h.seen = req[r].seen
  BY <1>3, <1>6
<1>10. \/ row.verifiedAt = safeguards[e].verifiedAt /\ row.by = safeguards[e].by
       \/ /\ h.call.op \in {"create", "verify"} /\ h.pc \in {"reload", "audit"}
          /\ RoleOf[h.call.actor] \in Permitted
          /\ row.verifiedAt = h.call.at
          /\ row.verifiedAt # None => row.by = h.call.actor
  BY <1>3
<1>11. /\ Exists(e) /\ safeguards[e].verifiedAt # None => row.verifiedAt # None
       /\ row.state = "invalid" => h.call.op = "invalidate"
  BY <1>3
<1>12. h.pc \in {"reload", "audit", "expire"}
  BY <1>3
<1> QED
  BY <1>2, <1>4, <1>7, <1>8, <1>9, <1>10, <1>11, <1>12, WritingStep

LEMMA InvSetLifecycle ==
    ASSUME IInv, NEW r \in Requests, SetLifecycle(r) PROVE IInv'
<1>1. req[r].pc = "set" /\ audits' = audits /\ now' = now
  BY DEF SetLifecycle
<1>2. PICK c \in Calls, e \in SafeguardIds, old \in Row :
         /\ c = req[r].call /\ e = c.id /\ e = req[r].target
         /\ old = safeguards[e] /\ old = Stored(r)
         /\ c.op \in {"verify", "invalidate", "restore"} /\ c # None
         /\ RoleOf[c.actor] \in Permitted /\ c.actor \in Users
         /\ req[r].before \in Row /\ req[r].after = None
         /\ c.op = "verify" => c.at \in Instants /\ c.at <= now + Tolerance
         /\ c.op = "restore" => req[r].goal \in {"active", "pending"}
         /\ c.op = "restore" /\ req[r].goal = "active" => old.verifiedAt # None
         /\ SoundRow(old)
  BY <1>1, AtSet
<1>3. CASE Stored(r).state \notin FromStates(r)
  <2>1. Answer(r, 409) /\ safeguards' = safeguards
    BY <1>3 DEF SetLifecycle
  <2> QED
    BY <1>1, <2>1, Refused DEF Working
<1>4. CASE old.state \in FromStates(r) /\ c.op = "verify"
  <2> DEFINE row == [old EXCEPT !.state = "active", !.verifiedAt = c.at,
                                !.by = c.actor, !.evidence = {r}]
  <2>1. row \in Row /\ row.state = "active" /\ row.verifiedAt = c.at /\ row.by = c.actor
    BY <1>2, <1>4 DEF Row, States
  <2>2. row = VerifiedRow(r)
    BY <1>2 DEF VerifiedRow
  <2> HIDE DEF row
  <2>3. Store(r, row) /\ Become(r, [req[r] EXCEPT !.pc = "reload", !.after = row])
    BY <1>2, <1>4, <2>2 DEF SetLifecycle
  <2>4. safeguards' = [safeguards EXCEPT ![e] = row]
    BY <1>2, <2>3 DEF Store
  <2>5. c.at # None
    BY <1>2, <1>4, NoneAssumption
  <2>6. SoundRow(row)
    BY <1>2, <1>4, <2>1, <2>5 DEF SoundRow
  <2> QED
    BY <1>1, <1>2, <1>4, <2>1, <2>3, <2>4, <2>5, <2>6, InvSet
<1>5. CASE old.state \in FromStates(r) /\ c.op # "verify"
  <2>1. PICK state \in States :
           state = IF c.op = "invalidate" THEN "invalid" ELSE req[r].goal
    BY <1>2, <1>5 DEF States
  <2>2. /\ state = "invalid" => c.op = "invalidate"
        /\ state = "active" => c.op = "restore" /\ req[r].goal = "active"
        /\ state # "expired"
    BY <1>2, <1>5, <2>1
  <2> DEFINE row == [old EXCEPT !.evidence = req[r].before.evidence \cup {r},
                                !.state = state]
  <2>3. /\ row \in Row /\ row.state = state
        /\ row.verifiedAt = old.verifiedAt /\ row.by = old.by
    <3>1. req[r].before.evidence \cup {r} \in SUBSET Requests
      BY <1>2 DEF Row
    <3> QED
      BY <3>1 DEF Row
  <2>4. row = ChangedRow(r)
    BY <1>2, <2>1 DEF ChangedRow
  <2> HIDE DEF row
  <2>5. Store(r, row) /\ Become(r, [req[r] EXCEPT !.pc = "reload", !.after = row])
    BY <1>2, <1>5, <2>4 DEF SetLifecycle
  <2>6. safeguards' = [safeguards EXCEPT ![e] = row]
    BY <1>2, <2>5 DEF Store
  <2>7. SoundRow(row)
    BY <1>2, <2>2, <2>3 DEF SoundRow
  <2> QED
    BY <1>1, <1>2, <1>5, <2>2, <2>3, <2>5, <2>6, <2>7, InvSet
<1> QED
  BY <1>2, <1>3, <1>4, <1>5

LEMMA InvReload == ASSUME IInv, NEW r \in Requests, Reload(r) PROVE IInv'
<1>1. /\ req \in [Requests -> Request] /\ req[r] \in Request /\ HandlerInv(r)
      /\ audits \subseteq AuditEntry
      /\ safeguards \in [SafeguardIds -> Row \cup {None}]
  BY Held
<1>2. /\ req[r].pc = "reload" /\ safeguards' = safeguards /\ audits' = audits /\ now' = now
  BY DEF Reload
<1>3. PICK c \in Calls : c = req[r].call
  BY <1>1, <1>2 DEF HandlerInv, Working
<1>4. /\ RoleOf[c.actor] \in Permitted /\ c # None
      /\ req[r].after \in Row /\ req[r].after # None
      /\ req[r].target \in SafeguardIds /\ Exists(req[r].target)
  BY <1>1, <1>2, <1>3, NoneAssumption DEF HandlerInv, Working
<1>5. PICK row \in Row : row = Stored(r)
  BY <1>1, <1>4 DEF Stored
<1> DEFINE h == [req[r] EXCEPT !.pc = "audit", !.after = row]
<1>6. h \in Request
  <2>1. "audit" \in Labels
    BY DEF Labels
  <2> QED
    BY <1>1, <2>1 DEF Request
<1>7. /\ h.pc = "audit" /\ h.after = row /\ h.call = c /\ h.target = req[r].target
      /\ h.seen = req[r].seen
  BY <1>1, <1>3 DEF Request
<1>8. req' = [req EXCEPT ![r] = h]
  BY <1>5 DEF Reload, Become
<1>9. req'[r] = h
  BY <1>1, <1>8
<1> HIDE DEF h
<1>10. HandlerInv(r)' /\ InsertInv(r)' /\ RestoreInv(r)' /\ VerifyInv(r)'
  BY <1>2, <1>4, <1>7, <1>9 DEF HandlerInv, InsertInv, RestoreInv, VerifyInv, Working
<1>11. h.after # None /\ h.call = req[r].call
  BY <1>3, <1>7, NoneAssumption
<1> QED
  BY <1>1, <1>2, <1>4, <1>6, <1>7, <1>8, <1>10, <1>11, QuietStep

LEMMA InvRecordAudit ==
    ASSUME IInv, NEW r \in Requests, RecordAudit(r) PROVE IInv'
<1>1. req[r] \in Request /\ HandlerInv(r) /\ audits \subseteq AuditEntry
  BY Held
<1>2. /\ req[r].pc = "audit" /\ audits' = Recorded(r)
      /\ safeguards' = safeguards /\ now' = now
  BY DEF RecordAudit
<1>3. /\ req[r].call # None /\ req[r].after \in Row /\ req[r].target \in SafeguardIds
      /\ req[r].before \in Row \cup {None}
  BY <1>1, <1>2, NoneAssumption DEF HandlerInv, Working, Request
<1> DEFINE entry == [request |-> r, id |-> req[r].target, before |-> req[r].before,
                     after |-> req[r].after]
<1>4. audits' = audits \cup {entry}
  BY <1>2 DEF Recorded
<1>5. entry \in AuditEntry /\ entry.request = r /\ entry.id = req[r].target
  BY <1>3 DEF AuditEntry
<1> HIDE DEF entry
<1>6. /\ audits \subseteq audits' /\ audits' \subseteq AuditEntry
      /\ \E a \in audits' : a.request = r /\ a.id = req[r].target
  BY <1>1, <1>4, <1>5
<1>7. CASE req[r].call.op = "update"
  <2>1. PICK label \in {"interrupted", "get", "audit"} : label = "get"
    OBVIOUS
  <2>2. Goto(r, label)
    BY <1>7, <2>1 DEF RecordAudit
  <2> QED
    BY <1>2, <1>3, <1>6, <2>1, <2>2, InvGoto
<1>8. CASE req[r].call.op # "update"
  <2>1. PICK code \in Statuses : code = IF req[r].call.op = "create" THEN 201 ELSE 200
    BY DEF Statuses
  <2>2. Answer(r, code)
    BY <1>8, <2>1 DEF RecordAudit
  <2> QED
    BY <1>2, <1>3, <1>6, <2>2, InvAnswer
<1> QED
  BY <1>7, <1>8

LEMMA InvGetAfterUpdate ==
    ASSUME IInv, NEW r \in Requests, GetAfterUpdate(r) PROVE IInv'
<1>1. HandlerInv(r) /\ audits \subseteq AuditEntry
  BY Held
<1>2. /\ req[r].pc = "get" /\ Answer(r, 200)
      /\ safeguards' = safeguards /\ audits' = audits /\ now' = now
  BY DEF GetAfterUpdate
<1>3. req[r].call # None
  BY <1>1, <1>2, NoneAssumption DEF HandlerInv, Working
<1>4. PICK code \in Statuses : code = 200
  BY DEF Statuses
<1>5. Answer(r, code)
  BY <1>2, <1>4
<1> QED
  BY <1>1, <1>2, <1>3, <1>5, InvAnswer

LEMMA InvInterrupt == ASSUME IInv, NEW r \in Requests, Interrupt(r) PROVE IInv'
<1>1. HandlerInv(r) /\ audits \subseteq AuditEntry /\ req[r] \in Request
  BY Held
<1>2. /\ req[r].pc \in Working /\ Goto(r, "interrupted")
      /\ safeguards' = safeguards /\ audits' = audits /\ now' = now
  BY <1>1 DEF Interrupt, Request, Labels, Working
<1>3. req[r].call # None
  BY <1>1, <1>2, NoneAssumption DEF HandlerInv
<1>4. PICK label \in {"interrupted", "get", "audit"} : label = "interrupted"
  OBVIOUS
<1>5. Goto(r, label)
  BY <1>2, <1>4
<1> QED
  BY <1>1, <1>2, <1>3, <1>4, <1>5, InvGoto

(* Time makes the bound on verifications weaker; what is over stays over.  *)
LEMMA InvTick == ASSUME IInv, Tick PROVE IInv'
<1>1. /\ now \in 0 .. MaxTime /\ now' \in 0 .. MaxTime /\ now' = now + 1
      /\ safeguards' = safeguards /\ audits' = audits /\ req' = req
      /\ safeguards \in [SafeguardIds -> Row \cup {None}]
      /\ req \in [Requests -> Request]
  BY TimeAssumption DEF Tick, IInv, TypeOK
<1>2. TypeOK'
  BY <1>1 DEF IInv, TypeOK
<1>3. ASSUME NEW at \in Instants, at <= now + Tolerance PROVE at <= now' + Tolerance
  BY <1>1, <1>3, TimeAssumption DEF Instants
<1>4. ASSUME NEW row \in Row, SoundRow(row) PROVE SoundRow(row)'
  BY <1>3, <1>4 DEF SoundRow, Row
<1>5. ASSUME NEW r \in Requests PROVE HandlerInv(r)'
  <2>1. HandlerInv(r)
    BY <1>5, Held
  <2>2. req[r].pc = "set" /\ req[r].call.op = "verify" => req[r].call.at \in Instants
    BY <2>1, CallFields DEF HandlerInv, Working
  <2>3. req[r].pc = "set" /\ req[r].call.op = "verify" => req[r].call.at <= now' + Tolerance
    BY <1>3, <2>1, <2>2 DEF HandlerInv
  <2>4. req[r].pc \in {"update", "expire"} =>
           /\ req[r].before.verifiedAt \in Instants \cup {None}
           /\ req[r].after.interval \in Intervals
    BY <2>1 DEF HandlerInv, Row
  <2>5. ASSUME NEW at \in Instants, NEW interval \in Intervals, Over(at, interval)
        PROVE  Over(at, interval)'
    BY <1>1, <2>5, TimeAssumption DEF Over, Instants
  <2> QED
    BY <1>1, <2>1, <2>3, <2>4, <2>5 DEF HandlerInv
<1>6. ASSUME NEW r \in Requests PROVE InsertInv(r)'
  <2>1. InsertInv(r)
    BY <1>6, Held
  <2> QED
    BY <1>1, <1>3, <2>1 DEF InsertInv, SoundRow, Row
<1>7. ASSUME NEW r \in Requests
      PROVE  RestoreInv(r)' /\ VerifyInv(r)' /\ req'[r].seen \subseteq Writers'
  BY <1>1 DEF IInv, RestoreInv, VerifyInv, InvalidatedSince, Writers, Wrote
<1>8. ASSUME NEW e \in SafeguardIds PROVE RowInv(e)'
  BY <1>1, <1>3 DEF IInv, RowInv, SoundRow, Row
<1>9. VerificationTraceable'
  BY <1>1 DEF IInv, VerificationTraceable, VerifiedThrough, Audited
<1> QED
  BY <1>2, <1>5, <1>6, <1>7, <1>8, <1>9 DEF IInv

LEMMA InvStutter == IInv /\ UNCHANGED vars => IInv'
<1> SUFFICES ASSUME IInv, UNCHANGED vars PROVE IInv'
  OBVIOUS
<1>1. now' = now /\ safeguards' = safeguards /\ audits' = audits /\ req' = req
  BY DEF vars
<1>2. TypeOK' /\ \A r \in Requests : (HandlerInv(r) /\ InsertInv(r))'
  BY <1>1 DEF IInv, TypeOK, HandlerInv, Over, InsertInv, SoundRow
<1>3. \A r \in Requests : (RestoreInv(r) /\ VerifyInv(r) /\ req[r].seen \subseteq Writers)'
  BY <1>1 DEF IInv, RestoreInv, VerifyInv, InvalidatedSince, Writers, Wrote
<1>4. \A e \in SafeguardIds : RowInv(e)'
  BY <1>1 DEF IInv, RowInv, SoundRow
<1>5. VerificationTraceable'
  BY <1>1 DEF IInv, VerificationTraceable, VerifiedThrough, Audited
<1> QED
  BY <1>2, <1>3, <1>4, <1>5 DEF IInv

LEMMA InvNext == IInv /\ [Next]_vars => IInv'
<1> SUFFICES ASSUME IInv, [Next]_vars PROVE IInv'
  OBVIOUS
<1>1. ASSUME NEW r \in Requests, Submit(r) \/ Step(r) \/ Interrupt(r) PROVE IInv'
  <2>1. CASE LoadScenario(r) \/ InsertSafeguard(r) \/ LoadForUpdate(r)
             \/ UpdateColumns(r) \/ SynchronizeLifecycle(r) \/ LoadForVerify(r)
    BY <2>1, InvLoadScenario, InvInsertSafeguard, InvLoadForUpdate, InvUpdateColumns,
       InvSynchronizeLifecycle, InvLoadForVerify
  <2>2. CASE RestoreTarget(r) \/ LoadForChange(r) \/ SetLifecycle(r) \/ Reload(r)
             \/ RecordAudit(r) \/ GetAfterUpdate(r)
    BY <2>2, InvRestoreTarget, InvLoadForChange, InvSetLifecycle, InvReload,
       InvRecordAudit, InvGetAfterUpdate
  <2> QED
    BY <1>1, <2>1, <2>2, InvSubmit, InvInterrupt DEF Step
<1> QED
  BY <1>1, InvTick, InvStutter DEF Next

----------------------------------------------------------------------------
(***************************************************************************)
(* The steps of the lifecycle                                              *)
(***************************************************************************)
LEMMA StandingRow ==
    ASSUME safeguards \in [SafeguardIds -> Row \cup {None}],
           NEW e \in SafeguardIds, NEW row \in Row,
           safeguards' = [safeguards EXCEPT ![e] = row]
    PROVE  /\ Standings' = [Standings EXCEPT ![e] = StandingOf(row)]
           /\ StandingOf(row) \in Lifecycle!Standing
<1>1. row # None
  BY NoneAssumption
<1>2. Standings' =
         [m \in SafeguardIds |-> IF safeguards'[m] # None THEN StandingOf(safeguards'[m])
                                 ELSE None]
  BY DEF Standings, StandingOf
<1>3. \A m \in SafeguardIds :
         safeguards'[m] = IF m = e THEN row ELSE safeguards[m]
  OBVIOUS
<1>4. Standings' = [Standings EXCEPT ![e] = StandingOf(row)]
  BY <1>1, <1>2, <1>3 DEF Standings
<1>5. StandingOf(row) \in Lifecycle!Standing
  BY DEF StandingOf, Lifecycle!Standing, Lifecycle!States, Row, States
<1> QED
  BY <1>4, <1>5

LEMMA StoredStanding ==
    ASSUME NEW e \in SafeguardIds, NEW old \in Row, old = safeguards[e]
    PROVE  /\ Standings[e] = StandingOf(old) /\ Standings[e] # None
           /\ Standings[e].state = old.state
           /\ Standings[e].verifiedAt = old.verifiedAt
<1>1. old # None
  BY NoneAssumption
<1>2. Standings[e] = StandingOf(old)
  BY <1>1 DEF Standings
<1>3. StandingOf(old) \in [state : States, verifiedAt : Instants \cup {None}]
  BY DEF StandingOf, Row
<1>4. StandingOf(old) # None
  BY <1>3, NoneAssumption
<1> QED
  BY <1>2, <1>4 DEF StandingOf

(* A write that leaves state and verification alone.                       *)
LEMMA SameStanding ==
    ASSUME safeguards \in [SafeguardIds -> Row \cup {None}],
           NEW e \in SafeguardIds, NEW old \in Row, old = safeguards[e],
           NEW row \in Row, row.state = old.state, row.verifiedAt = old.verifiedAt,
           safeguards' = [safeguards EXCEPT ![e] = row]
    PROVE  Standings' = Standings
<1>1. Standings' = [Standings EXCEPT ![e] = StandingOf(row)]
  BY StandingRow
<1>2. StandingOf(row) = Standings[e]
  BY StoredStanding DEF StandingOf
<1>3. Standings = [m \in SafeguardIds |-> Standings[m]]
  BY DEF Standings
<1> QED
  BY <1>1, <1>2, <1>3

(* A write that changes the state and keeps the verification.              *)
LEMMA MovesStanding ==
    ASSUME safeguards \in [SafeguardIds -> Row \cup {None}],
           NEW e \in SafeguardIds, NEW old \in Row, old = safeguards[e],
           NEW row \in Row, row.verifiedAt = old.verifiedAt,
           safeguards' = [safeguards EXCEPT ![e] = row],
           NEW from, old.state \in from
    PROVE  Lifecycle!Move(e, from, row.state)
<1>1. Standings' = [Standings EXCEPT ![e] = StandingOf(row)]
  BY StandingRow
<1>2. /\ Standings[e] = StandingOf(old) /\ Standings[e] # None
      /\ Standings[e].state = old.state
  BY StoredStanding
<1>3. StandingOf(row) = [Standings[e] EXCEPT !.state = row.state]
  BY <1>2 DEF StandingOf
<1> QED
  BY <1>1, <1>2, <1>3 DEF Lifecycle!Move, Lifecycle!Change

LEMMA InsertRegisters ==
    ASSUME IInv, NEW r \in Requests, InsertSafeguard(r) PROVE Lifecycle!Next
<1>1. /\ InsertInv(r) /\ safeguards \in [SafeguardIds -> Row \cup {None}]
      /\ req[r].pc = "insert"
  BY Held DEF InsertSafeguard
<1>2. PICK row \in Row : row = req[r].after
  BY <1>1 DEF InsertInv
<1>3. /\ row.state # "invalid"
      /\ row.state = "pending" <=> row.verifiedAt = None
  BY <1>1, <1>2 DEF InsertInv
<1>4. PICK e \in SafeguardIds :
         safeguards[e] = None /\ safeguards' = [safeguards EXCEPT ![e] = row]
  BY <1>2 DEF InsertSafeguard
<1>5. /\ Standings' = [Standings EXCEPT ![e] = StandingOf(row)]
      /\ StandingOf(row) \in Lifecycle!Standing
  BY <1>1, <1>4, StandingRow
<1>6. Standings[e] = None
  BY <1>4 DEF Standings
<1>7. /\ StandingOf(row).state # "invalid"
      /\ StandingOf(row).state = "pending" <=> ~Lifecycle!Verified(StandingOf(row))
  BY <1>3 DEF StandingOf, Lifecycle!Verified
<1>8. Lifecycle!Register(e)
  BY <1>5, <1>6, <1>7 DEF Lifecycle!Register, Lifecycle!Change
<1> QED
  BY <1>8 DEF Lifecycle!Next

LEMMA UpdateKeepsStandings ==
    ASSUME IInv, NEW r \in Requests, UpdateColumns(r) PROVE Standings' = Standings
<1>1. /\ HandlerInv(r) /\ safeguards \in [SafeguardIds -> Row \cup {None}]
      /\ req[r].pc = "update"
  BY Held DEF UpdateColumns
<1>2. /\ req[r].call \in Calls /\ req[r].call.op = "update"
      /\ req[r].target = req[r].call.id /\ safeguards[req[r].target] # None
  BY <1>1 DEF HandlerInv, Working
<1>3. PICK e \in SafeguardIds : e = req[r].target
  BY <1>2, CallFields
<1>4. PICK old \in Row : old = safeguards[e]
  BY <1>1, <1>2, <1>3
<1>5. PICK after \in Row : after = req[r].after
  BY <1>1 DEF HandlerInv
<1> DEFINE row == [old EXCEPT !.interval = after.interval, !.evidence = after.evidence]
<1>6. row \in Row /\ row.state = old.state /\ row.verifiedAt = old.verifiedAt
  BY DEF Row
<1>7. safeguards' = [safeguards EXCEPT ![e] = row]
  BY <1>3, <1>4, <1>5 DEF UpdateColumns, Store, UpdatedColumns, Stored
<1> HIDE DEF row
<1> QED
  BY <1>1, <1>4, <1>6, <1>7, SameStanding

LEMMA SynchronizeExpires ==
    ASSUME IInv, NEW r \in Requests, SynchronizeLifecycle(r)
    PROVE  Lifecycle!Next \/ Standings' = Standings
<1>1. /\ HandlerInv(r) /\ safeguards \in [SafeguardIds -> Row \cup {None}]
      /\ req[r].pc = "expire"
  BY Held DEF SynchronizeLifecycle
<1>2. /\ req[r].call \in Calls /\ req[r].call.op = "update"
      /\ req[r].target = req[r].call.id /\ safeguards[req[r].target] # None
      /\ req[r].before.state = "active" /\ req[r].after.state = "expired"
  BY <1>1 DEF HandlerInv, Working
<1>3. PICK e \in SafeguardIds : e = req[r].target
  BY <1>2, CallFields
<1>4. PICK old \in Row : old = safeguards[e]
  BY <1>1, <1>2, <1>3
<1>5. CASE old.state # "active"
  <2>1. safeguards' = safeguards
    BY <1>2, <1>3, <1>4, <1>5 DEF SynchronizeLifecycle, Stored
  <2> QED
    BY <2>1 DEF Standings
<1>6. CASE old.state = "active"
  <2> DEFINE row == [old EXCEPT !.state = "expired"]
  <2>1. row \in Row /\ row.state = "expired" /\ row.verifiedAt = old.verifiedAt
    BY DEF Row, States
  <2>2. safeguards' = [safeguards EXCEPT ![e] = row]
    BY <1>2, <1>3, <1>4, <1>6 DEF SynchronizeLifecycle, Stored, Store
  <2> HIDE DEF row
  <2>3. old.state \in {"active"}
    BY <1>6
  <2>4. Lifecycle!Move(e, {"active"}, row.state)
    BY <1>1, <1>4, <2>1, <2>2, <2>3, MovesStanding
  <2> QED
    BY <2>1, <2>4 DEF Lifecycle!Expire, Lifecycle!Next
<1> QED
  BY <1>5, <1>6

LEMMA SetSteps ==
    ASSUME IInv, NEW r \in Requests, SetLifecycle(r)
    PROVE  Lifecycle!Next \/ Standings' = Standings
<1>1. req[r].pc = "set" /\ safeguards \in [SafeguardIds -> Row \cup {None}]
  BY Held DEF SetLifecycle
<1>2. PICK c \in Calls, e \in SafeguardIds, old \in Row :
         /\ c = req[r].call /\ e = req[r].target
         /\ old = safeguards[e] /\ old = Stored(r)
         /\ c.op \in {"verify", "invalidate", "restore"}
         /\ c.actor \in Users /\ req[r].before \in Row
         /\ c.op = "verify" => c.at \in Instants
         /\ c.op = "restore" => req[r].goal \in {"active", "pending"}
         /\ c.op = "restore" /\ req[r].goal = "active" => old.verifiedAt # None
  BY <1>1, AtSet
<1>3. CASE Stored(r).state \notin FromStates(r)
  <2>1. safeguards' = safeguards
    BY <1>3 DEF SetLifecycle
  <2> QED
    BY <2>1 DEF Standings
<1>4. CASE old.state \in FromStates(r) /\ c.op = "verify"
  <2> DEFINE row == [old EXCEPT !.state = "active", !.verifiedAt = c.at,
                                !.by = c.actor, !.evidence = {r}]
  <2>1. row \in Row /\ row.state = "active" /\ row.verifiedAt = c.at
    BY <1>2, <1>4 DEF Row, States
  <2>2. row = VerifiedRow(r)
    BY <1>2 DEF VerifiedRow
  <2> HIDE DEF row
  <2>3. safeguards' = [safeguards EXCEPT ![e] = row]
    BY <1>2, <1>4, <2>2 DEF SetLifecycle, Store
  <2>4. Standings' = [Standings EXCEPT ![e] = StandingOf(row)]
    BY <1>1, <2>1, <2>3, StandingRow
  <2>5. StandingOf(row) = [state |-> "active", verifiedAt |-> c.at]
    BY <2>1 DEF StandingOf
  <2>6. Lifecycle!Verify(e)
    BY <1>2, <1>4, <2>4, <2>5, StoredStanding DEF Lifecycle!Verify, Lifecycle!Change
  <2> QED
    BY <2>6 DEF Lifecycle!Next
<1>5. CASE old.state \in FromStates(r) /\ c.op # "verify"
  <2>1. PICK state \in States :
           state = IF c.op = "invalidate" THEN "invalid" ELSE req[r].goal
    BY <1>2, <1>5 DEF States
  <2> DEFINE row == [old EXCEPT !.evidence = req[r].before.evidence \cup {r},
                                !.state = state]
  <2>2. row \in Row /\ row.state = state /\ row.verifiedAt = old.verifiedAt
    <3>1. req[r].before.evidence \cup {r} \in SUBSET Requests
      BY <1>2 DEF Row
    <3> QED
      BY <3>1 DEF Row
  <2>3. row = ChangedRow(r)
    BY <1>2, <2>1 DEF ChangedRow
  <2> HIDE DEF row
  <2>4. safeguards' = [safeguards EXCEPT ![e] = row]
    BY <1>2, <1>5, <2>3 DEF SetLifecycle, Store
  <2>5. \A from : old.state \in from => Lifecycle!Move(e, from, state)
    BY <1>1, <1>2, <2>2, <2>4, MovesStanding
  <2>6. CASE c.op = "invalidate"
    <3>1. FromStates(r) = Lifecycle!States \ {"invalid"} /\ state = "invalid"
      BY <1>2, <2>1, <2>6 DEF FromStates, States, Lifecycle!States
    <3>2. Lifecycle!Invalidate(e)
      BY <1>5, <2>5, <3>1 DEF Lifecycle!Invalidate
    <3> QED
      BY <3>2 DEF Lifecycle!Next
  <2>7. CASE c.op = "restore"
    <3>1. old.state \in {"invalid"} /\ state \in {"active", "pending"}
      BY <1>2, <1>5, <2>1, <2>7 DEF FromStates
    <3>2. state = "active" => Lifecycle!Verified(Standings[e])
      BY <1>2, <2>1, <2>7, StoredStanding DEF Lifecycle!Verified
    <3>3. Lifecycle!Restore(e)
      BY <2>5, <3>1, <3>2 DEF Lifecycle!Restore
    <3> QED
      BY <3>3 DEF Lifecycle!Next
  <2> QED
    BY <1>2, <1>5, <2>6, <2>7
<1> QED
  BY <1>2, <1>3, <1>4, <1>5

LEMMA StepRefines == IInv /\ [Next]_vars => [Lifecycle!Next]_Standings
<1> SUFFICES ASSUME IInv, [Next]_vars PROVE Lifecycle!Next \/ Standings' = Standings
  OBVIOUS
<1>1. ASSUME safeguards' = safeguards PROVE Standings' = Standings
  BY <1>1 DEF Standings
<1>2. ASSUME NEW r \in Requests, Submit(r) \/ Step(r) \/ Interrupt(r)
      PROVE  Lifecycle!Next \/ Standings' = Standings
  <2>1. CASE InsertSafeguard(r) \/ UpdateColumns(r) \/ SynchronizeLifecycle(r)
             \/ SetLifecycle(r)
    BY <2>1, InsertRegisters, UpdateKeepsStandings, SynchronizeExpires, SetSteps
  <2>2. CASE Submit(r) \/ Interrupt(r) \/ LoadScenario(r) \/ LoadForUpdate(r)
             \/ LoadForVerify(r) \/ RestoreTarget(r) \/ LoadForChange(r)
             \/ Reload(r) \/ RecordAudit(r) \/ GetAfterUpdate(r)
    BY <1>1, <2>2
       DEF Submit, Interrupt, LoadScenario, LoadForUpdate, LoadForVerify,
           RestoreTarget, LoadForChange, Reload, RecordAudit, GetAfterUpdate
  <2> QED
    BY <1>2, <2>1, <2>2 DEF Step
<1> QED
  BY <1>1, <1>2 DEF Next, Tick, vars

----------------------------------------------------------------------------
(***************************************************************************)
(* Decisions on rows read earlier                                          *)
(***************************************************************************)
(* A step after which the handler of q stands elsewhere is a step of q.    *)
LEMMA OwnStep ==
    ASSUME req \in [Requests -> Request], NEW q \in Requests, [Next]_vars,
           req'[q].pc # req[q].pc
    PROVE  Submit(q) \/ Step(q) \/ Interrupt(q)
<1>1. ASSUME NEW r \in Requests, NEW h, Become(r, h), r # q PROVE FALSE
  BY <1>1 DEF Become
<1>2. ASSUME NEW r \in Requests, Submit(r) \/ Step(r) \/ Interrupt(r) PROVE r = q
  <2>1. \E h : Become(r, h)
    <3>1. CASE Submit(r)
      BY <3>1 DEF Submit, Dispatch
    <3>2. CASE LoadScenario(r) \/ InsertSafeguard(r) \/ LoadForUpdate(r)
               \/ UpdateColumns(r) \/ SynchronizeLifecycle(r)
      BY <3>2 DEF LoadScenario, InsertSafeguard, LoadForUpdate, UpdateColumns,
                  SynchronizeLifecycle, Load, Goto, Answer
    <3>3. CASE LoadForVerify(r) \/ RestoreTarget(r) \/ LoadForChange(r)
               \/ SetLifecycle(r) \/ Reload(r)
      BY <3>3 DEF LoadForVerify, RestoreTarget, LoadForChange, SetLifecycle, Reload,
                  Load, Goto, Answer
    <3>4. CASE RecordAudit(r) \/ GetAfterUpdate(r) \/ Interrupt(r)
      BY <3>4 DEF RecordAudit, GetAfterUpdate, Interrupt, Goto, Answer
    <3> QED
      BY <1>2, <3>1, <3>2, <3>3, <3>4 DEF Step
  <2> QED
    BY <1>1, <2>1
<1>3. ~UNCHANGED vars /\ ~Tick
  BY DEF vars, Tick
<1> QED
  BY <1>2, <1>3 DEF Next

(* A safeguard is revived by SetLifecycle alone: by a verification that    *)
(* has read it as invalid, or after an invalidation made since.            *)
LEMMA RevivalIsRaced ==
    ASSUME IInv, [Next]_vars, NEW r \in Requests, NEW e \in SafeguardIds, Revives(r, e)
    PROVE  \/ req[r].call.op = "verify" /\ req[r].before.state = "invalid"
           \/ InvalidatedSince(r, e)
<1>1. /\ req \in [Requests -> Request] /\ req[r] \in Request
      /\ HandlerInv(r) /\ RestoreInv(r) /\ VerifyInv(r)
      /\ safeguards \in [SafeguardIds -> Row \cup {None}]
  BY Held
<1>2. /\ req[r].pc = "set" /\ req'[r].pc = "reload" /\ req[r].target = e
      /\ safeguards[e].state = "invalid" /\ safeguards'[e].state = "active"
  BY DEF Revives
<1>3. /\ req[r].call.op \in {"verify", "invalidate", "restore"}
      /\ req[r].call.id = e
  BY <1>1, <1>2 DEF HandlerInv
<1>4. SetLifecycle(r) /\ Stored(r).state \in FromStates(r)
  <2>1. Submit(r) \/ Step(r) \/ Interrupt(r)
    BY <1>1, <1>2, OwnStep
  <2>2. ~Interrupt(r)
    BY <1>1, <1>2 DEF Interrupt, Goto, Become
  <2>3. SetLifecycle(r)
    BY <1>2, <2>1, <2>2
       DEF Submit, Step, LoadScenario, InsertSafeguard, LoadForUpdate, UpdateColumns,
           SynchronizeLifecycle, LoadForVerify, RestoreTarget, LoadForChange,
           Reload, RecordAudit, GetAfterUpdate
  <2>4. ~Answer(r, 409)
    <3> DEFINE h == [req[r] EXCEPT !.pc = "answered", !.status = 409]
    <3>1. h.pc = "answered"
      BY <1>1 DEF Request
    <3>2. Answer(r, 409) => req'[r] = h
      BY <1>1 DEF Answer, Become
    <3> QED
      BY <1>2, <3>1, <3>2
  <2> QED
    BY <2>3, <2>4 DEF SetLifecycle
<1>5. CASE req[r].call.op = "verify"
  BY <1>1, <1>2, <1>3, <1>5 DEF VerifyInv
<1>6. CASE req[r].call.op # "verify"
  <2>1. PICK old \in Row : old = safeguards[e]
    BY <1>2, AtSet
  <2>2. Store(r, ChangedRow(r))
    BY <1>4, <1>6 DEF SetLifecycle
  <2>3. safeguards'[e] = ChangedRow(r)
    BY <1>1, <1>2, <2>2 DEF Store
  <2>4. ChangedRow(r).state =
           IF req[r].call.op = "invalidate" THEN "invalid" ELSE req[r].goal
    BY <1>2, <2>1 DEF ChangedRow, Stored, Row
  <2>5. req[r].call.op = "restore" /\ req[r].goal = "active"
    BY <1>2, <1>3, <1>6, <2>3, <2>4
  <2> QED
    BY <1>1, <1>2, <1>3, <2>5 DEF RestoreInv
<1> QED
  BY <1>5, <1>6

(* SynchronizeLifecycle alone expires: had the verification and the        *)
(* interval stayed, what was over would be over.                           *)
LEMMA EarlyExpiryIsRaced ==
    ASSUME IInv, NEW r \in Requests, NEW e \in SafeguardIds, ExpiresEarly(r, e)
    PROVE  \/ safeguards[e].verifiedAt # req[r].before.verifiedAt
           \/ safeguards[e].interval # req[r].after.interval
<1>1. HandlerInv(r)
  BY Held
<1>2. /\ req[r].pc = "expire"
      /\ ~Over(safeguards[e].verifiedAt, safeguards[e].interval)
  BY DEF ExpiresEarly
<1>3. Over(req[r].before.verifiedAt, req[r].after.interval)
  BY <1>1, <1>2 DEF HandlerInv
<1> QED
  BY <1>2, <1>3

LEMMA StepIsRaced ==
    IInv /\ [Next]_vars =>
       [\A r \in Requests : \A e \in SafeguardIds : UnlessRaced(r, e)]_vars
BY RevivalIsRaced, EarlyExpiryIsRaced DEF UnlessRaced

----------------------------------------------------------------------------
(***************************************************************************)
(* The theorems                                                            *)
(***************************************************************************)
(* The inductive invariant of the ledger's handlers holds in every state.  *)
THEOREM Invariance == Spec => []IInv
BY InvInit, InvNext, PTL DEF Spec

(* Rows, audit entries and handlers stay well formed.                      *)
THEOREM TypeCorrect == Spec => []TypeOK
<1>1. IInv => TypeOK
  BY DEF IInv
<1> QED
  BY <1>1, Invariance, PTL

(* No stored verification lies further ahead than the tolerance.           *)
THEOREM NoneAhead == Spec => []NoVerificationAhead
<1>1. IInv => NoVerificationAhead
  BY DEF IInv, RowInv, SoundRow, NoVerificationAhead
<1> QED
  BY <1>1, Invariance, PTL

(* The instant and the verifier a safeguard shows come from one permitted  *)
(* request, which the audit trail holds once it is answered.               *)
THEOREM VerificationsAreTraced == Spec => []VerificationTraceable
<1>1. IInv => VerificationTraceable
  BY DEF IInv
<1> QED
  BY <1>1, Invariance, PTL

(* What a stale read leads to, an invalidation undone unseen or a          *)
(* safeguard expired early, takes a race with the change it has not seen.  *)
THEOREM StaleDecisions == Spec => StaleDecisionsAreRaced
BY Invariance, StepIsRaced, PTL DEF Spec, StaleDecisionsAreRaced

(* Every change of a stored safeguard is a step of its lifecycle.          *)
THEOREM LifecycleSteps == Spec => StepsFollowLifecycle
BY Invariance, StepRefines, PTL DEF Spec, StepsFollowLifecycle

(* The ledger implements its lifecycle.                                    *)
THEOREM Implementation == Spec => ImplementsLifecycle
<1>1. Init => Lifecycle!Init
  BY DEF Init, Lifecycle!Init, Standings
<1> QED
  BY <1>1, Invariance, StepRefines, PTL DEF Spec, ImplementsLifecycle, Lifecycle!Spec
=============================================================================
