---------------------- MODULE DeviationScenarios_proofs ----------------------
EXTENDS DeviationScenarios, TLAPS

USE DEF At

\* What the three shapes of a call say of its fields.
LEMMA CallShapes ==
    /\ \A c \in CreateCalls :
          /\ c.op = "create" /\ c.actor \in Users /\ c.content \in Contents
          /\ c \in Calls /\ c # None
    /\ \A c \in UpdateCalls :
          /\ c.op = "update" /\ c.actor \in Users /\ c.id \in ScenarioIds
          /\ c.version \in Nat \ {0} /\ c.patch \in Patches
          /\ c \in Calls /\ c # None
    /\ \A c \in TransitionCalls :
          /\ c.op = "transition" /\ c.actor \in Users /\ c.id \in ScenarioIds
          /\ c.version \in Nat \ {0} /\ c.to \in Targets
          /\ c \in Calls /\ c # None
  BY NoneAssumption DEF CreateCalls, UpdateCalls, TransitionCalls, Calls

(* What an action that starts a handler finds in the call.                 *)
LEMMA HandlerCalls ==
    ASSUME IInv, NEW r \in Requests
    PROVE  /\ req[r] \in Request
           /\ req[r].pc \in {"node", "insert"} => req[r].call \in CreateCalls
           /\ req[r].pc \in {"load", "update"} /\ req[r].call.op = "update"
                 => req[r].call \in UpdateCalls
           /\ req[r].pc \in {"load", "update"} /\ req[r].call.op = "transition"
                 => req[r].call \in TransitionCalls
           /\ req[r].pc \in {"audit", "get"} => req[r].call \in Calls
<1>1. req[r] \in Request /\ HandlerInv(r)
  BY DEF IInv, TypeOK
<1> QED BY <1>1, CallShapes DEF HandlerInv

\* A stored row is well formed.
LEMMA StoredRow ==
    ASSUME IInv, NEW e \in ScenarioIds, Exists(e)
    PROVE  scenarios[e] \in Row
  BY DEF IInv, TypeOK, Exists

LEMMA RowFields ==
    ASSUME NEW row \in Row
    PROVE  /\ row # None /\ row.node \in Nodes /\ row.content \in Contents
           /\ row.state \in States /\ row.version \in Nat \ {0}
           /\ row.author \in Users /\ row.reviewer \in Users \cup {None}
  BY NoneAssumption DEF Row

\* Writing a patch into a content gives a content.
LEMMA MergeType ==
    ASSUME NEW x \in Contents, NEW p \in Patches
    PROVE  Merge(x, p) \in Contents
  BY DEF Merge, Contents, Patches

\* A create call that passed LoadNode makes a row.
LEMMA DraftedRow ==
    ASSUME NEW c \in CreateCalls, c.node \in Nodes
    PROVE  Drafted(c) \in Row
  BY CallShapes DEF Drafted, Row, States, FirstVersion

LEMMA EditedRow ==
    ASSUME NEW row \in Row, NEW c \in UpdateCalls
    PROVE  /\ Edited(row, c) \in Row
           /\ Edited(row, c).content \in Contents
           /\ Edited(row, c).version = c.version + 1
<1>1. c.version + 1 \in Nat \ {0} /\ Merge(row.content, c.patch) \in Contents
  BY CallShapes, RowFields, MergeType
<1> QED BY <1>1 DEF Edited, NextVersion, Row

LEMMA MovedRow ==
    ASSUME NEW row \in Row, NEW c \in TransitionCalls
    PROVE  /\ Moved(row, c) \in Row
           /\ Moved(row, c).version = c.version + 1
           /\ Moved(row, c).state = c.to
           /\ Moved(row, c).author = row.author
           /\ Moved(row, c).reviewer = IF IsReview(c.to) THEN c.actor ELSE row.reviewer
<1>1. c.version + 1 \in Nat \ {0} /\ c.to \in States /\ c.actor \in Users
  BY CallShapes DEF Targets
<1> QED BY <1>1 DEF Moved, NextVersion, Row

(* A handler about to write knows an existing row by its id.               *)
LEMMA UpdateHolds ==
    ASSUME IInv, NEW r \in Requests, At(r, "update")
    PROVE  /\ req[r].target \in ScenarioIds /\ Exists(req[r].target)
           /\ Stored(r) \in Row /\ req[r].before \in Row
           /\ req[r].before.author = Stored(r).author
           /\ req[r].call.op = "transition" => MayMove(req[r].before, req[r].call)
           /\ req[r].after = None
<1>1. HandlerInv(r)
  BY DEF IInv
<1>2. req[r].target \in ScenarioIds /\ Exists(req[r].target)
  BY <1>1, CallShapes DEF HandlerInv
<1>3. Stored(r) \in Row
  BY <1>2, StoredRow DEF Stored
<1> QED BY <1>1, <1>2, <1>3 DEF HandlerInv

\* What a row owes to its review.
Reviewed(row) ==
    row.state \in {"verified", "accepted"} =>
        /\ row.reviewer # None
        /\ row.reviewer # row.author
        /\ RoleOf[row.reviewer] \in {"admin", "safety_reviewer"}

LEMMA ReviewedRows ==
    ReviewedByAnother <=> \A e \in ScenarioIds : Exists(e) => Reviewed(scenarios[e])
  BY DEF ReviewedByAnother, Reviewed

(* An update that is not refused makes the next version of a row of the    *)
(* same author.                                                            *)
Writes(r, new, held) ==
    /\ Become(r, [req[r] EXCEPT !.pc = "audit", !.after = held])
    /\ scenarios' = [scenarios EXCEPT ![req[r].target] = new]
    /\ req[r].call \in UpdateCalls \cup TransitionCalls
    /\ Stored(r).version = req[r].call.version
    /\ new.version = req[r].call.version + 1
    /\ new.author = Stored(r).author
    /\ Reviewed(new)
    /\ req[r].before = Stored(r) => held = new

LEMMA UpdateWrites ==
    ASSUME IInv, NEW r \in Requests, UpdateWithVersion(r)
    PROVE  \/ Answer(r, 409) /\ scenarios' = scenarios
           \/ \E new, held \in Row : Writes(r, new, held)
<1> DEFINE edited == Edited(req[r].before, req[r].call)
           new == [Stored(r) EXCEPT !.content = edited.content,
                                    !.version = edited.version]
<1>1. /\ At(r, "update") /\ req[r].call \in UpdateCalls /\ req[r].before \in Row
      /\ Stored(r) \in Row
  BY HandlerCalls, UpdateHolds DEF UpdateWithVersion
<1>2. /\ edited \in Row /\ edited.content \in Contents
      /\ edited.version = req[r].call.version + 1
      /\ edited.version \in Nat \ {0}
  BY <1>1, EditedRow, RowFields
<1>3. /\ new \in Row /\ new.version = edited.version /\ new.author = Stored(r).author
      /\ new.state = Stored(r).state
  <2> HIDE DEF edited
  <2> QED BY <1>1, <1>2 DEF Row
<1>4. CASE ~(VersionMatches(r) /\ Stored(r).state \in Editable)
  BY <1>4 DEF UpdateWithVersion
<1>5. CASE VersionMatches(r) /\ Stored(r).state \in Editable
  <2>1. Reviewed(new)
    BY <1>3, <1>5 DEF Reviewed, Editable
  <2>2. /\ scenarios' = [scenarios EXCEPT ![req[r].target] = new]
        /\ Become(r, [req[r] EXCEPT !.pc = "audit", !.after = edited])
    BY <1>5 DEF UpdateWithVersion, Stored
  <2>3. Stored(r).version = req[r].call.version
    BY <1>5 DEF VersionMatches
  <2>4. req[r].before = Stored(r) => edited = new
    BY <1>1 DEF Edited, Row
  <2> HIDE DEF edited, new
  <2>5. Writes(r, new, edited)
    BY <1>1, <1>2, <1>3, <2>1, <2>2, <2>3, <2>4 DEF Writes
  <2> QED BY <1>2, <1>3, <2>5
<1> QED BY <1>4, <1>5

LEMMA TransitionWrites ==
    ASSUME IInv, NEW r \in Requests, Transition(r)
    PROVE  \/ Answer(r, 409) /\ scenarios' = scenarios
           \/ \E new, held \in Row : Writes(r, new, held)
<1> DEFINE new == Moved(Stored(r), req[r].call)
           held == Moved(req[r].before, req[r].call)
<1>1. /\ At(r, "update") /\ req[r].call \in TransitionCalls /\ req[r].before \in Row
      /\ Stored(r) \in Row /\ req[r].before.author = Stored(r).author
      /\ MayMove(req[r].before, req[r].call)
  BY HandlerCalls, UpdateHolds DEF Transition
<1>2. /\ new \in Row /\ held \in Row
      /\ new.version = req[r].call.version + 1
      /\ new.state = req[r].call.to
      /\ new.author = Stored(r).author
      /\ new.reviewer = IF IsReview(req[r].call.to) THEN req[r].call.actor
                        ELSE Stored(r).reviewer
  BY <1>1, MovedRow
<1>3. Reviewed(new)
  <2>1. req[r].call.actor \in Users /\ req[r].call.actor # None
    BY <1>1, CallShapes, ScopeAssumption
  <2> HIDE DEF new, held
  <2> QED BY <1>1, <1>2, <2>1 DEF Reviewed, MayMove, MayMoveTo, IsReview
<1>4. CASE ~(VersionMatches(r) /\ Stored(r).state = req[r].before.state)
  BY <1>4 DEF Transition
<1>5. CASE VersionMatches(r) /\ Stored(r).state = req[r].before.state
  <2>1. /\ scenarios' = [scenarios EXCEPT ![req[r].target] = new]
        /\ Become(r, [req[r] EXCEPT !.pc = "audit", !.after = held])
    BY <1>5 DEF Transition
  <2>2. Stored(r).version = req[r].call.version
    BY <1>5 DEF VersionMatches
  <2>3. req[r].before = Stored(r) => held = new
    OBVIOUS
  <2> HIDE DEF new, held
  <2>4. Writes(r, new, held)
    BY <1>1, <1>2, <1>3, <2>1, <2>2, <2>3 DEF Writes
  <2> QED BY <1>2, <2>4
<1> QED BY <1>4, <1>5

----------------------------------------------------------------------------
(* What a step does to the table and to its own handler.                   *)

Inserts(r, e) ==
    /\ ~Exists(e)
    /\ Drafted(req[r].call) \in Row
    /\ req[r].call \in CreateCalls
    /\ scenarios' = [scenarios EXCEPT ![e] = Drafted(req[r].call)]
    /\ Become(r, [req[r] EXCEPT !.pc = "audit", !.target = e,
                                !.after = Drafted(req[r].call)])

LEMMA InsertInserts ==
    ASSUME IInv, NEW r \in Requests, InsertScenario(r)
    PROVE  \E e \in ScenarioIds : Inserts(r, e)
<1>1. req[r].call \in CreateCalls /\ req[r].call.node \in Nodes
  BY HandlerCalls DEF InsertScenario, IInv, HandlerInv
<1>2. Drafted(req[r].call) \in Row
  BY <1>1, DraftedRow
<1> QED BY <1>1, <1>2 DEF InsertScenario, Inserts

LEMMA TableStep ==
    ASSUME IInv, NEW r \in Requests, Submit(r) \/ Step(r) \/ Interrupt(r)
    PROVE  \/ scenarios' = scenarios
           \/ \E e \in ScenarioIds : Inserts(r, e)
           \/ /\ At(r, "update")
              /\ \E new, held \in Row : Writes(r, new, held)
<1>1. CASE InsertScenario(r)
  BY <1>1, InsertInserts
<1>2. CASE UpdateWithVersion(r)
  BY <1>2, UpdateWrites DEF UpdateWithVersion
<1>3. CASE Transition(r)
  BY <1>3, TransitionWrites DEF Transition
<1>4. CASE ~InsertScenario(r) /\ ~UpdateWithVersion(r) /\ ~Transition(r)
  BY <1>4 DEF Step, Submit, SubmitCreate, SubmitUpdate, SubmitTransition, LoadNode,
              LoadForUpdate, LoadForTransition, RecordAudit, GetAfterWrite, Interrupt
<1> QED BY <1>1, <1>2, <1>3, <1>4

\* Only the handler that steps moves.
LEMMA OneMoves ==
    ASSUME IInv, NEW r \in Requests, Submit(r) \/ Step(r) \/ Interrupt(r)
    PROVE  \E h : Become(r, h)
<1> USE DEF Answer, Goto
<1>1. CASE Submit(r)
  <2>1. CASE SubmitCreate(r)
    BY <2>1 DEF SubmitCreate, Dispatch
  <2>2. CASE SubmitUpdate(r)
    BY <2>2 DEF SubmitUpdate, Dispatch
  <2>3. CASE SubmitTransition(r)
    BY <2>3 DEF SubmitTransition, Dispatch
  <2> QED BY <1>1, <2>1, <2>2, <2>3 DEF Submit
<1>2. CASE LoadNode(r) \/ InsertScenario(r)
  BY <1>2 DEF LoadNode, InsertScenario
<1>3. CASE LoadForUpdate(r)
  BY <1>3 DEF LoadForUpdate
<1>4. CASE UpdateWithVersion(r)
  BY <1>4 DEF UpdateWithVersion
<1>5. CASE LoadForTransition(r)
  BY <1>5 DEF LoadForTransition
<1>6. CASE Transition(r)
  BY <1>6 DEF Transition
<1>7. CASE RecordAudit(r) \/ GetAfterWrite(r) \/ Interrupt(r)
  BY <1>7 DEF RecordAudit, GetAfterWrite, Interrupt
<1> QED BY <1>1, <1>2, <1>3, <1>4, <1>5, <1>6, <1>7 DEF Step

LEMMA OtherHandlers ==
    ASSUME IInv, NEW r \in Requests, Submit(r) \/ Step(r) \/ Interrupt(r),
           NEW q \in Requests, q # r
    PROVE  req'[q] = req[q]
<1>1. PICK h : Become(r, h)
  BY OneMoves
<1> QED BY <1>1 DEF Become, IInv, TypeOK

LEMMA Became ==
    ASSUME IInv, NEW r \in Requests, NEW h \in Request, Become(r, h)
    PROVE  req' \in [Requests -> Request] /\ req'[r] = h
  BY DEF Become, IInv, TypeOK

(* A row never loses its id, its author or a version.                      *)
LEMMA RowsGrow ==
    ASSUME IInv, NEW r \in Requests, Submit(r) \/ Step(r) \/ Interrupt(r),
           NEW e \in ScenarioIds, Exists(e)
    PROVE  /\ Exists(e)' /\ scenarios'[e].author = scenarios[e].author
           /\ scenarios'[e].version >= scenarios[e].version
<1>1. scenarios \in [ScenarioIds -> Row \cup {None}] /\ scenarios[e] \in Row
  BY StoredRow DEF IInv, TypeOK
<1>2. CASE scenarios' = scenarios
  BY <1>1, <1>2, RowFields DEF Exists
<1>3. ASSUME NEW d \in ScenarioIds, Inserts(r, d)
      PROVE  scenarios'[e] = scenarios[e]
  BY <1>1, <1>3 DEF Inserts, Exists
<1>4. ASSUME At(r, "update"), NEW new \in Row, NEW held \in Row, Writes(r, new, held)
      PROVE  /\ scenarios'[e] # None /\ scenarios'[e].author = scenarios[e].author
             /\ scenarios'[e].version >= scenarios[e].version
  <2>1. CASE e = req[r].target
    <3>1. scenarios'[e] = new
      BY <1>1, <1>4, <2>1 DEF Writes
    <3>2. new.author = scenarios[e].author /\ new.version = scenarios[e].version + 1
      BY <1>4, <2>1 DEF Writes, Stored
    <3> QED BY <1>1, <3>1, <3>2, RowFields
  <2>2. CASE e # req[r].target
    BY <1>1, <1>4, <2>2, RowFields DEF Writes, Exists
  <2> QED BY <2>1, <2>2
<1> QED BY <1>1, <1>2, <1>3, <1>4, TableStep, RowFields DEF Exists

----------------------------------------------------------------------------
(* Every handler keeps what it may rely on.                                *)

LEMMA OthersKeep ==
    ASSUME IInv, NEW r \in Requests, Submit(r) \/ Step(r) \/ Interrupt(r),
           NEW q \in Requests, q # r
    PROVE  HandlerInv(q)'
<1>1. req'[q] = req[q] /\ HandlerInv(q) /\ req[q] \in Request
  BY OtherHandlers DEF IInv, TypeOK
<1>2. /\ Wrote(q)' <=> Wrote(q)
      /\ Stored(q)' = scenarios'[req[q].target]
  BY <1>1 DEF Wrote, Stored
<1>3. ASSUME req[q].target \in ScenarioIds, Exists(req[q].target)
      PROVE  /\ Stored(q)' # None /\ Stored(q)'.author = Stored(q).author
             /\ Stored(q)'.version >= Stored(q).version
             /\ Stored(q).version \in Nat /\ Stored(q)'.version \in Nat
  <2>1. /\ Stored(q)' # None /\ Stored(q)'.author = Stored(q).author
        /\ Stored(q)'.version >= Stored(q).version
    <3> DEFINE e == req[q].target
    <3>1. /\ scenarios'[e] # None /\ scenarios'[e].author = scenarios[e].author
          /\ scenarios'[e].version >= scenarios[e].version
      BY <1>3, RowsGrow DEF Exists
    <3> QED BY <1>2, <3>1 DEF Stored
  <2>2. Stored(q).version \in Nat
    BY <1>3, StoredRow, RowFields DEF Stored
  <2>3. Stored(q)'.version \in Nat
    <3>1. CASE scenarios' = scenarios
      BY <1>2, <2>2, <3>1 DEF Stored
    <3>2. ASSUME NEW d \in ScenarioIds, Inserts(r, d)
          PROVE  Stored(q)' = Stored(q)
      BY <1>2, <1>3, <3>2 DEF Inserts, Exists, Stored, IInv, TypeOK
    <3>3. ASSUME NEW new \in Row, NEW held \in Row, Writes(r, new, held)
          PROVE  Stored(q)' = Stored(q) \/ Stored(q)' = new
      BY <1>2, <1>3, <3>3 DEF Writes, Stored, IInv, TypeOK
    <3> QED BY <2>2, <3>1, <3>2, <3>3, TableStep, RowFields
  <2> QED BY <2>1, <2>2, <2>3
<1>4. CASE Wrote(q)
  <2>1. /\ req[q].call \in UpdateCalls \cup TransitionCalls
        /\ req[q].target \in ScenarioIds /\ Exists(req[q].target)
        /\ Stored(q).version > req[q].call.version
    BY <1>1, <1>4 DEF HandlerInv
  <2>2. Stored(q)' # None /\ Stored(q)'.version > req[q].call.version
    BY <1>3, <2>1, CallShapes
  <2>3. req[q].pc # "update" /\ req[q].after # None
    BY <1>1, <1>4 DEF HandlerInv, Wrote
  <2> QED BY <1>1, <1>2, <2>1, <2>2, <2>3 DEF HandlerInv, Exists
<1>5. CASE ~Wrote(q)
  <2>1. CASE req[q].pc = "update"
    <3>1. /\ req[q].target \in ScenarioIds /\ Exists(req[q].target)
          /\ req[q].target = req[q].call.id
          /\ req[q].before.author = Stored(q).author
      BY <2>1, UpdateHolds DEF IInv, HandlerInv
    <3>2. Stored(q)' # None /\ req[q].before.author = Stored(q)'.author
      BY <1>3, <3>1
    <3> QED BY <1>1, <1>2, <1>5, <2>1, <3>2 DEF HandlerInv, Exists
  <2>2. CASE req[q].pc # "update"
    BY <1>1, <1>2, <1>5, <2>2 DEF HandlerInv
  <2> QED BY <2>1, <2>2
<1> QED BY <1>4, <1>5

\* Once answered or cut off, a handler relies on what it wrote, if it did.
LEMMA EndedKeeps ==
    ASSUME IInv, NEW r \in Requests, scenarios' = scenarios,
           \/ \E code \in Statuses : Answer(r, code)
           \/ Goto(r, "interrupted")
           \/ At(r, "audit") /\ Goto(r, "get")
    PROVE  req' \in [Requests -> Request] /\ HandlerInv(r)'
<1>1. req[r] \in Request /\ HandlerInv(r)
  BY DEF IInv, TypeOK
<1>2. PICK h \in Request :
        /\ Become(r, h)
        /\ \/ h.pc \in {"answered", "interrupted"}
           \/ req[r].pc = "audit" /\ h.pc = "get"
        /\ h.call = req[r].call /\ h.target = req[r].target /\ h.after = req[r].after
  <2>1. ASSUME NEW code \in Statuses, Answer(r, code)
        PROVE  \E h \in Request :
                  /\ Become(r, h) /\ h.pc = "answered"
                  /\ h.call = req[r].call /\ h.target = req[r].target
                  /\ h.after = req[r].after
    <3> DEFINE h == [req[r] EXCEPT !.pc = "answered", !.status = code]
    <3>1. /\ h \in Request /\ h.pc = "answered"
          /\ h.call = req[r].call /\ h.target = req[r].target
          /\ h.after = req[r].after
      BY <1>1, <2>1 DEF Request, Labels
    <3> QED BY <2>1, <3>1 DEF Answer
  <2>2. ASSUME NEW l \in Labels, Goto(r, l)
        PROVE  \E h \in Request :
                  /\ Become(r, h) /\ h.pc = l
                  /\ h.call = req[r].call /\ h.target = req[r].target
                  /\ h.after = req[r].after
    <3> DEFINE h == [req[r] EXCEPT !.pc = l]
    <3>1. /\ h \in Request /\ h.pc = l
          /\ h.call = req[r].call /\ h.target = req[r].target
          /\ h.after = req[r].after
      BY <1>1, <2>2 DEF Request
    <3> QED BY <2>2, <3>1 DEF Goto
  <2>3. "get" \in Labels /\ "interrupted" \in Labels
    BY DEF Labels
  <2> QED BY <2>1, <2>2, <2>3
<1>3. req' \in [Requests -> Request] /\ req'[r] = h
  BY <1>2, Became
<1>4. (Wrote(r)' <=> Wrote(r)) /\ Stored(r)' = Stored(r)
  BY <1>2, <1>3 DEF Wrote, Stored
<1> QED BY <1>1, <1>2, <1>3, <1>4 DEF HandlerInv, Exists

(* A row the handler wrote, and shows as the row after the write.          *)
LEMMA WriterKeeps ==
    ASSUME IInv, NEW r \in Requests,
           \/ \E e \in ScenarioIds : Inserts(r, e)
           \/ At(r, "update") /\ \E new, held \in Row : Writes(r, new, held)
    PROVE  req' \in [Requests -> Request] /\ HandlerInv(r)'
<1>1. req[r] \in Request /\ scenarios \in [ScenarioIds -> Row \cup {None}]
  BY DEF IInv, TypeOK
<1>2. ASSUME NEW e \in ScenarioIds, Inserts(r, e)
      PROVE  req' \in [Requests -> Request] /\ HandlerInv(r)'
  <2> DEFINE h == [req[r] EXCEPT !.pc = "audit", !.target = e,
                                 !.after = Drafted(req[r].call)]
  <2>1. /\ h \in Request /\ h.pc = "audit" /\ h.target = e
        /\ h.after = Drafted(req[r].call) /\ h.call = req[r].call
    BY <1>1, <1>2 DEF Inserts, Request, Labels
  <2>2. req' \in [Requests -> Request] /\ req'[r] = h
    BY <1>2, <2>1, Became DEF Inserts
  <2>3. req[r].call \in Calls /\ req[r].call.op = "create"
    BY <1>2, CallShapes DEF Inserts
  <2>4. Drafted(req[r].call) \in Row
    BY <1>2 DEF Inserts
  <2>5. ~Wrote(r)'
    BY <2>1, <2>2, <2>3 DEF Wrote
  <2> HIDE DEF h
  <2> QED BY <2>1, <2>2, <2>3, <2>4, <2>5 DEF HandlerInv
<1>3. ASSUME At(r, "update"), NEW new \in Row, NEW held \in Row, Writes(r, new, held)
      PROVE  req' \in [Requests -> Request] /\ HandlerInv(r)'
  <2> DEFINE h == [req[r] EXCEPT !.pc = "audit", !.after = held]
  <2>1. /\ h \in Request /\ h.pc = "audit" /\ h.target = req[r].target
        /\ h.after = held /\ h.call = req[r].call
    BY <1>1 DEF Request, Labels
  <2>2. req' \in [Requests -> Request] /\ req'[r] = h
    BY <1>3, <2>1, Became DEF Writes
  <2>3. /\ req[r].target \in ScenarioIds
        /\ req[r].call \in UpdateCalls \cup TransitionCalls /\ req[r].call \in Calls
        /\ req[r].call.version \in Nat
    BY <1>3, UpdateHolds, CallShapes DEF Writes
  <2>4. scenarios'[req[r].target] = new /\ new.version = req[r].call.version + 1
    BY <1>1, <1>3, <2>3 DEF Writes
  <2>5. new # None /\ new.version > req[r].call.version
    BY <2>3, <2>4, RowFields
  <2> HIDE DEF h
  <2>6. Stored(r)' = new
    BY <2>1, <2>2, <2>4 DEF Stored
  <2>7. Exists(req[r].target)'
    BY <2>5, <2>6 DEF Exists, Stored
  <2> QED BY <2>1, <2>2, <2>3, <2>5, <2>6, <2>7 DEF HandlerInv, Exists
<1> QED BY <1>2, <1>3

\* A dispatched call is answered 403 or waits at its first label.
LEMMA DispatchKeeps ==
    ASSUME IInv, NEW r \in Requests, At(r, "idle"), scenarios' = scenarios,
           NEW c \in Calls, NEW l \in Labels, Dispatch(r, c, l),
           \/ c \in CreateCalls /\ l = "node"
           \/ c \in UpdateCalls \cup TransitionCalls /\ l = "load"
    PROVE  req' \in [Requests -> Request] /\ HandlerInv(r)'
<1>1. req[r] \in Request /\ req[r].before = None /\ req[r].after = None
  BY DEF IInv, TypeOK, HandlerInv
<1>2. PICK h \in Request :
        /\ Become(r, h) /\ h.call = c /\ h.before = None /\ h.after = None
        /\ h.pc = "answered" \/ h.pc = l
  <2>1. /\ [req[r] EXCEPT !.pc = "answered", !.call = c, !.status = 403] \in Request
        /\ [req[r] EXCEPT !.pc = l, !.call = c] \in Request
    <3>1. "answered" \in Labels /\ 403 \in Statuses
      BY DEF Labels, Statuses
    <3>2. ASSUME NEW k \in Labels, NEW code \in Statuses
          PROVE  [req[r] EXCEPT !.pc = k, !.call = c, !.status = code] \in Request
      BY <1>1 DEF Request
    <3>3. [req[r] EXCEPT !.pc = l, !.call = c] \in Request
      BY <1>1 DEF Request
    <3> QED BY <3>1, <3>2, <3>3
  <2>2. /\ [req[r] EXCEPT !.pc = "answered", !.call = c, !.status = 403].pc = "answered"
        /\ [req[r] EXCEPT !.pc = "answered", !.call = c, !.status = 403].call = c
        /\ [req[r] EXCEPT !.pc = "answered", !.call = c, !.status = 403].before = None
        /\ [req[r] EXCEPT !.pc = "answered", !.call = c, !.status = 403].after = None
        /\ [req[r] EXCEPT !.pc = l, !.call = c].pc = l
        /\ [req[r] EXCEPT !.pc = l, !.call = c].call = c
        /\ [req[r] EXCEPT !.pc = l, !.call = c].before = None
        /\ [req[r] EXCEPT !.pc = l, !.call = c].after = None
    BY <1>1 DEF Request
  <2> QED BY <2>1, <2>2 DEF Dispatch
<1>3. req' \in [Requests -> Request] /\ req'[r] = h
  BY <1>2, Became
<1>4. ~Wrote(r)'
  BY <1>2, <1>3 DEF Wrote
<1> QED BY <1>2, <1>3, <1>4 DEF HandlerInv

LEMMA SubmitKeeps ==
    ASSUME IInv, NEW r \in Requests, Submit(r)
    PROVE  req' \in [Requests -> Request] /\ HandlerInv(r)'
<1>0. "node" \in Labels /\ "load" \in Labels
  BY DEF Labels
<1>1. CASE SubmitCreate(r)
  <2>1. \E c \in CreateCalls : Dispatch(r, c, "node")
    BY <1>1 DEF SubmitCreate, CreateCalls
  <2> QED BY <1>0, <1>1, <2>1, CallShapes, DispatchKeeps DEF SubmitCreate
<1>2. ASSUME NEW e \in ScenarioIds
      PROVE  OfferedVersions(e) \subseteq Nat \ {0}
  BY DEF OfferedVersions
<1>3. CASE SubmitUpdate(r)
  <2>1. \E c \in UpdateCalls : Dispatch(r, c, "load")
    BY <1>2, <1>3 DEF SubmitUpdate, UpdateCalls
  <2> QED BY <1>0, <1>3, <2>1, CallShapes, DispatchKeeps DEF SubmitUpdate
<1>4. CASE SubmitTransition(r)
  <2>1. \E c \in TransitionCalls : Dispatch(r, c, "load")
    BY <1>2, <1>4 DEF SubmitTransition, TransitionCalls
  <2> QED BY <1>0, <1>4, <2>1, CallShapes, DispatchKeeps DEF SubmitTransition
<1> QED BY <1>1, <1>3, <1>4 DEF Submit

\* A handler that read a row and found it fit goes on to the write.
LEMMA LoadedKeeps ==
    ASSUME IInv, NEW r \in Requests, At(r, "load"), scenarios' = scenarios,
           NEW e \in ScenarioIds, e = req[r].call.id, Exists(e),
           req[r].call.op = "transition" => MayMove(scenarios[e], req[r].call),
           Become(r, [req[r] EXCEPT !.pc = "update", !.target = e,
                                    !.before = scenarios[e]])
    PROVE  req' \in [Requests -> Request] /\ HandlerInv(r)'
<1> DEFINE h == [req[r] EXCEPT !.pc = "update", !.target = e, !.before = scenarios[e]]
<1>1. req[r] \in Request /\ HandlerInv(r) /\ scenarios[e] \in Row
  BY StoredRow DEF IInv, TypeOK
<1>2. /\ h \in Request /\ h.pc = "update" /\ h.target = e /\ h.before = scenarios[e]
      /\ h.call = req[r].call /\ h.after = req[r].after
  BY <1>1 DEF Request, Labels
<1>3. req' \in [Requests -> Request] /\ req'[r] = h
  BY <1>2, Became
<1> HIDE DEF h
<1>4. /\ req[r].after = None
      /\ req[r].call \in UpdateCalls \cup TransitionCalls
  BY <1>1 DEF HandlerInv
<1>5. ~Wrote(r)' /\ Stored(r)' = scenarios[e]
  BY <1>2, <1>3, <1>4 DEF Wrote, Stored
<1>6. Exists(req[r].target)'
  BY <1>1, <1>2, <1>3, <1>5, RowFields DEF Exists, Stored
<1> QED BY <1>1, <1>2, <1>3, <1>4, <1>5, <1>6 DEF HandlerInv, Exists

LEMMA OwnKeeps ==
    ASSUME IInv, NEW r \in Requests, Submit(r) \/ Step(r) \/ Interrupt(r)
    PROVE  req' \in [Requests -> Request] /\ HandlerInv(r)'
<1>1. CASE Submit(r)
  BY <1>1, SubmitKeeps
<1>2. CASE InsertScenario(r)
  BY <1>2, InsertInserts, WriterKeeps
<1>3. CASE UpdateWithVersion(r)
  <2>1. CASE Answer(r, 409) /\ scenarios' = scenarios
    <3>1. \E code \in Statuses : Answer(r, code)
      BY <2>1 DEF Statuses
    <3> QED BY <2>1, <3>1, EndedKeeps
  <2>2. CASE \E new, held \in Row : Writes(r, new, held)
    <3>1. At(r, "update")
      BY <1>3 DEF UpdateWithVersion
    <3> QED BY <2>2, <3>1, WriterKeeps
  <2> QED BY <1>3, <2>1, <2>2, UpdateWrites
<1>4. CASE Transition(r)
  <2>1. CASE Answer(r, 409) /\ scenarios' = scenarios
    <3>1. \E code \in Statuses : Answer(r, code)
      BY <2>1 DEF Statuses
    <3> QED BY <2>1, <3>1, EndedKeeps
  <2>2. CASE \E new, held \in Row : Writes(r, new, held)
    <3>1. At(r, "update")
      BY <1>4 DEF Transition
    <3> QED BY <2>2, <3>1, WriterKeeps
  <2> QED BY <1>4, <2>1, <2>2, TransitionWrites
<1>5. CASE LoadNode(r)
  <2>1. req[r] \in Request /\ req[r].call \in CreateCalls /\ HandlerInv(r)
    BY <1>5, HandlerCalls DEF LoadNode, IInv
  <2>2. CASE Answer(r, 404) \/ Answer(r, 409)
    BY <1>5, <2>2, EndedKeeps DEF LoadNode, Statuses
  <2>3. CASE Goto(r, "insert") /\ req[r].call.node \in Nodes
    <3> DEFINE h == [req[r] EXCEPT !.pc = "insert"]
    <3>1. /\ h \in Request /\ h.pc = "insert"
          /\ h.call = req[r].call
          /\ h.before = req[r].before /\ h.after = req[r].after
      BY <2>1 DEF Request, Labels
    <3>2. req' \in [Requests -> Request] /\ req'[r] = h
      BY <2>3, <3>1, Became DEF Goto
    <3>3. req[r].before = None /\ req[r].after = None
      BY <1>5, <2>1 DEF LoadNode, HandlerInv
    <3> HIDE DEF h
    <3>4. ~Wrote(r)'
      BY <3>1, <3>2, <3>3 DEF Wrote
    <3> QED BY <2>1, <2>3, <3>1, <3>2, <3>3, <3>4 DEF HandlerInv
  <2> QED BY <1>5, <2>2, <2>3 DEF LoadNode
<1>6. CASE LoadForUpdate(r)
  <2>1. req[r].call.id \in ScenarioIds /\ req[r].call.op = "update"
    BY <1>6, HandlerCalls, CallShapes DEF LoadForUpdate
  <2>2. CASE Answer(r, 404) \/ Answer(r, 409)
    BY <1>6, <2>2, EndedKeeps DEF LoadForUpdate, Statuses
  <2> QED BY <1>6, <2>1, <2>2, LoadedKeeps DEF LoadForUpdate
<1>7. CASE LoadForTransition(r)
  <2>1. req[r].call.id \in ScenarioIds
    BY <1>7, HandlerCalls, CallShapes DEF LoadForTransition
  <2>2. CASE Answer(r, 404) \/ Answer(r, 403) \/ Answer(r, 409)
    BY <1>7, <2>2, EndedKeeps DEF LoadForTransition, Statuses
  <2> QED BY <1>7, <2>1, <2>2, LoadedKeeps DEF LoadForTransition, MayMove
<1>8. CASE RecordAudit(r)
  BY <1>8, EndedKeeps DEF RecordAudit, Statuses
<1>9. CASE GetAfterWrite(r)
  BY <1>9, EndedKeeps DEF GetAfterWrite, Statuses
<1>10. CASE Interrupt(r)
  BY <1>10, EndedKeeps DEF Interrupt
<1> QED BY <1>1, <1>2, <1>3, <1>4, <1>5, <1>6, <1>7, <1>8, <1>9, <1>10 DEF Step

----------------------------------------------------------------------------
(* The inductive invariant.                                                *)

LEMMA TypingStep ==
    ASSUME IInv, NEW r \in Requests, Submit(r) \/ Step(r) \/ Interrupt(r)
    PROVE  TypeOK'
<1>1. scenarios' \in [ScenarioIds -> Row \cup {None}]
  <2>1. scenarios \in [ScenarioIds -> Row \cup {None}]
    BY DEF IInv, TypeOK
  <2>2. ASSUME NEW e \in ScenarioIds, Inserts(r, e)
        PROVE  scenarios' \in [ScenarioIds -> Row \cup {None}]
    BY <2>1, <2>2 DEF Inserts
  <2>3. ASSUME NEW new \in Row, NEW held \in Row, Writes(r, new, held)
        PROVE  scenarios' \in [ScenarioIds -> Row \cup {None}]
    BY <2>1, <2>3 DEF Writes
  <2> QED BY <2>1, <2>2, <2>3, TableStep
<1>2. activeNodes' \subseteq Nodes
  <2>1. activeNodes' = activeNodes
    BY DEF Submit, SubmitCreate, SubmitUpdate, SubmitTransition, Step, LoadNode,
           InsertScenario, LoadForUpdate, UpdateWithVersion, LoadForTransition,
           Transition, RecordAudit, GetAfterWrite, Interrupt
  <2> QED BY <2>1 DEF IInv, TypeOK
<1>3. audits' \subseteq AuditEntry
  <2>1. CASE RecordAudit(r)
    <3>1. /\ req[r] \in Request /\ HandlerInv(r) /\ req[r].pc = "audit"
      BY <2>1 DEF RecordAudit, IInv, TypeOK
    <3>2. /\ req[r].call \in Calls /\ req[r].target \in ScenarioIds
          /\ req[r].after \in Row /\ req[r].before \in Row \cup {None}
      BY <3>1 DEF HandlerInv, Request
    <3>3. /\ req[r].call.op \in {"create", "update", "transition"}
          /\ req[r].call.actor \in Users
      BY <3>2, CallShapes DEF Calls
    <3> QED BY <2>1, <3>2, <3>3 DEF RecordAudit, AuditEntry, IInv, TypeOK
  <2>2. CASE ~RecordAudit(r)
    <3>1. audits' = audits
      BY <2>2 DEF Submit, SubmitCreate, SubmitUpdate, SubmitTransition, Step, LoadNode,
           InsertScenario, LoadForUpdate, UpdateWithVersion, LoadForTransition,
           Transition, GetAfterWrite, Interrupt
    <3> QED BY <3>1 DEF IInv, TypeOK
  <2> QED BY <2>1, <2>2
<1>4. req' \in [Requests -> Request]
  BY OwnKeeps
<1> QED BY <1>1, <1>2, <1>3, <1>4 DEF TypeOK

LEMMA ReviewedStep ==
    ASSUME IInv, NEW r \in Requests, Submit(r) \/ Step(r) \/ Interrupt(r)
    PROVE  ReviewedByAnother'
<1> SUFFICES ASSUME NEW e \in ScenarioIds, scenarios'[e] # None
             PROVE  Reviewed(scenarios'[e])
  BY DEF ReviewedByAnother, Reviewed, Exists
<1>1. scenarios \in [ScenarioIds -> Row \cup {None}]
  BY DEF IInv, TypeOK
<1>2. Exists(e) => Reviewed(scenarios[e])
  BY ReviewedRows DEF IInv
<1>3. ASSUME NEW d \in ScenarioIds, Inserts(r, d) PROVE Reviewed(scenarios'[e])
  <2>1. Reviewed(Drafted(req[r].call))
    BY DEF Reviewed, Drafted
  <2>2. scenarios'[e] = scenarios[e] \/ scenarios'[e] = Drafted(req[r].call)
    BY <1>1, <1>3 DEF Inserts
  <2> QED BY <1>2, <2>1, <2>2 DEF Exists
<1>4. ASSUME NEW new \in Row, NEW held \in Row, Writes(r, new, held)
      PROVE  Reviewed(scenarios'[e])
  <2>1. scenarios'[e] = scenarios[e] \/ scenarios'[e] = new
    BY <1>1, <1>4 DEF Writes
  <2> QED BY <1>2, <1>4, <2>1 DEF Exists, Writes
<1> QED BY <1>2, <1>3, <1>4, TableStep DEF Exists

(* A request that took effect did so before, or by the write of this step. *)
LEMMA TookEffect ==
    ASSUME IInv, NEW r \in Requests, Submit(r) \/ Step(r) \/ Interrupt(r), Wrote(r)'
    PROVE  \/ /\ Wrote(r)
              /\ req'[r].call = req[r].call /\ req'[r].target = req[r].target
           \/ /\ At(r, "update")
              /\ \E new, held \in Row : Writes(r, new, held)
<1>1. req \in [Requests -> Request] /\ req[r] \in Request /\ HandlerInv(r)
  BY DEF IInv, TypeOK
<1>2. CASE \E e \in ScenarioIds : Inserts(r, e)
  <2>1. req'[r].call = req[r].call
    BY <1>1, <1>2 DEF Inserts, Become, Request
  <2> QED BY <1>2, <2>1, CallShapes DEF Inserts, Wrote
<1>3. CASE At(r, "update") /\ \E new, held \in Row : Writes(r, new, held)
  BY <1>3
<1>4. CASE Answer(r, 403) \/ Answer(r, 404) \/ Answer(r, 409) \/ Answer(r, 201)
           \/ Answer(r, 200) \/ Goto(r, "get") \/ Goto(r, "insert")
           \/ Goto(r, "interrupted")
  <2>1. ASSUME NEW code, Answer(r, code)
        PROVE  /\ req'[r].call = req[r].call /\ req'[r].target = req[r].target
               /\ req'[r].after = req[r].after
    BY <1>1, <2>1 DEF Answer, Become, Request
  <2>2. ASSUME NEW l, Goto(r, l)
        PROVE  /\ req'[r].call = req[r].call /\ req'[r].target = req[r].target
               /\ req'[r].after = req[r].after
    BY <1>1, <2>2 DEF Goto, Become, Request
  <2> QED BY <1>4, <2>1, <2>2 DEF Wrote
<1>5. CASE Submit(r)
  <2>1. req[r].pc = "idle" /\ req[r].after = None
    BY <1>1, <1>5 DEF Submit, SubmitCreate, SubmitUpdate, SubmitTransition, HandlerInv
  <2>2. \E c, l : Dispatch(r, c, l)
    BY <1>5 DEF Submit, SubmitCreate, SubmitUpdate, SubmitTransition
  <2>3. ASSUME NEW c,
               Become(r, [req[r] EXCEPT !.pc = "answered", !.call = c, !.status = 403])
        PROVE  req'[r].after = None
    BY <1>1, <2>1, <2>3 DEF Become, Request
  <2>4. ASSUME NEW c, NEW l, Become(r, [req[r] EXCEPT !.pc = l, !.call = c])
        PROVE  req'[r].after = None
    BY <1>1, <2>1, <2>4 DEF Become, Request
  <2> QED BY <2>2, <2>3, <2>4 DEF Wrote, Dispatch
<1>6. CASE At(r, "load") /\ \E e, row :
              Become(r, [req[r] EXCEPT !.pc = "update", !.target = e, !.before = row])
  <2>1. req'[r].after = None
    BY <1>1, <1>6 DEF Become, Request, HandlerInv
  <2> QED BY <2>1 DEF Wrote
<1>7. CASE InsertScenario(r)
  BY <1>2, <1>7, InsertInserts
<1>8. CASE UpdateWithVersion(r)
  BY <1>3, <1>4, <1>8, UpdateWrites DEF UpdateWithVersion
<1>9. CASE Transition(r)
  BY <1>3, <1>4, <1>9, TransitionWrites DEF Transition
<1>10. CASE LoadForUpdate(r)
  BY <1>4, <1>6, <1>10 DEF LoadForUpdate
<1>11. CASE LoadForTransition(r)
  BY <1>4, <1>6, <1>11 DEF LoadForTransition
<1> QED BY <1>4, <1>5, <1>7, <1>8, <1>9, <1>10, <1>11
        DEF Step, LoadNode, RecordAudit, GetAfterWrite, Interrupt

(* The version a write uses up is newer than that of every request that    *)
(* took effect before it.                                                  *)
LEMMA OneWriterStep ==
    ASSUME IInv, NEW r \in Requests, Submit(r) \/ Step(r) \/ Interrupt(r)
    PROVE  OneWriterPerVersion'
<1>1. req \in [Requests -> Request]
  BY DEF IInv, TypeOK
<1>2. ASSUME NEW q \in Requests, Wrote(q)'
      PROVE  \/ /\ Wrote(q)
                /\ req'[q].call = req[q].call /\ req'[q].target = req[q].target
             \/ q = r /\ At(r, "update") /\ \E new, held \in Row : Writes(r, new, held)
  BY <1>2, TookEffect, OtherHandlers DEF Wrote
<1>3. ASSUME NEW q \in Requests, q # r, Wrote(q),
             At(r, "update"), NEW new \in Row, NEW held \in Row, Writes(r, new, held),
             req[q].target = req'[r].target
      PROVE  req[q].call.version # req'[r].call.version
  <2>1. req'[r].target = req[r].target /\ req'[r].call = req[r].call
    BY <1>1, <1>3 DEF Writes, Become, Request
  <2>2. Stored(q).version > req[q].call.version /\ req[q].call.version \in Nat
    BY <1>3, CallShapes DEF IInv, HandlerInv
  <2>3. Stored(q).version = req[r].call.version
    BY <1>3, <2>1 DEF Writes, Stored
  <2> QED BY <2>1, <2>2, <2>3
<1> SUFFICES ASSUME NEW p \in Requests, NEW q \in Requests, p # q,
                    Wrote(p)', Wrote(q)', req'[p].target = req'[q].target
             PROVE  req'[p].call.version # req'[q].call.version
  BY DEF OneWriterPerVersion
<1>4. CASE Wrote(p) /\ req'[p].call = req[p].call /\ req'[p].target = req[p].target
  <2>1. CASE Wrote(q) /\ req'[q].call = req[q].call /\ req'[q].target = req[q].target
    BY <1>4, <2>1 DEF IInv, OneWriterPerVersion
  <2>2. CASE q = r /\ At(r, "update") /\ \E new, held \in Row : Writes(r, new, held)
    BY <1>3, <1>4, <2>2
  <2> QED BY <1>2, <2>1, <2>2
<1>5. CASE p = r /\ At(r, "update") /\ \E new, held \in Row : Writes(r, new, held)
  <2>1. Wrote(q) /\ req'[q].call = req[q].call /\ req'[q].target = req[q].target
    BY <1>2, <1>5
  <2> QED BY <1>3, <1>5, <2>1
<1> QED BY <1>2, <1>4, <1>5

LEMMA InitIInv == Init => IInv
<1> SUFFICES ASSUME Init PROVE IInv
  OBVIOUS
<1>1. /\ Idle \in Request /\ Idle.pc = "idle" /\ Idle.call = None
      /\ Idle.before = None /\ Idle.after = None
  BY DEF Idle, Request, Labels, Statuses
<1>2. TypeOK
  BY <1>1 DEF Init, TypeOK
<1>3. \A r \in Requests : req[r] = Idle /\ ~Wrote(r)
  BY <1>1 DEF Init, Wrote
<1>4. \A r \in Requests : HandlerInv(r)
  BY <1>1, <1>3 DEF HandlerInv
<1>5. ReviewedByAnother /\ OneWriterPerVersion
  BY <1>3 DEF Init, ReviewedByAnother, OneWriterPerVersion, Exists
<1> QED BY <1>2, <1>4, <1>5 DEF IInv

LEMMA IInvStep == IInv /\ [Next]_vars => IInv'
<1> SUFFICES ASSUME IInv, [Next]_vars PROVE IInv'
  OBVIOUS
<1>1. ASSUME NEW r \in Requests, Submit(r) \/ Step(r) \/ Interrupt(r)
      PROVE  IInv'
  <2>1. \A q \in Requests : HandlerInv(q)'
    BY <1>1, OwnKeeps, OthersKeep
  <2> QED BY <1>1, <2>1, TypingStep, ReviewedStep, OneWriterStep DEF IInv
<1>2. CASE UNCHANGED <<scenarios, audits, req>> /\ activeNodes' \subseteq Nodes
  BY <1>2 DEF IInv, TypeOK, HandlerInv, Wrote, Stored, Exists, ReviewedByAnother,
              OneWriterPerVersion
<1>3. CASE UNCHANGED vars
  BY <1>2, <1>3 DEF vars, IInv, TypeOK
<1>4. CASE NodeStatusChanges
  BY <1>2, <1>4 DEF NodeStatusChanges, IInv, TypeOK
<1> QED BY <1>1, <1>3, <1>4 DEF Next

(* The inductive invariant holds however requests to the scenario handlers *)
(* interleave, for clients that send any version number whatever.          *)
THEOREM Invariance == Spec => []IInv
  BY InitIInv, IInvStep, PTL DEF Spec

(* Rows, entries and handlers stay well formed.                            *)
THEOREM TypeCorrect == Spec => []TypeOK
<1>1. IInv => TypeOK
  BY DEF IInv
<1> QED BY Invariance, <1>1, PTL

(* Optimistic locking: of the updates and transitions that name one        *)
(* version of a scenario, at most one takes effect.                        *)
THEOREM OneWriter == Spec => []OneWriterPerVersion
<1>1. IInv => OneWriterPerVersion
  BY DEF IInv
<1> QED BY Invariance, <1>1, PTL

(* A verified or accepted scenario was reviewed by a reviewer who is not   *)
(* its author.                                                             *)
THEOREM ReviewerSeparated == Spec => []ReviewedByAnother
<1>1. IInv => ReviewedByAnother
  BY DEF IInv
<1> QED BY Invariance, <1>1, PTL

----------------------------------------------------------------------------
(* Refinement.                                                             *)

LEMMA InsertDrafts ==
    ASSUME IInv, NEW r \in Requests, InsertScenario(r)
    PROVE  Review!Next
<1>1. PICK e \in ScenarioIds : Inserts(r, e)
  BY InsertInserts
<1>2. /\ req[r].call.node \in Nodes /\ req[r].call.content \in Contents
      /\ req[r].call.actor \in Users
  BY <1>1, CallShapes, RowFields DEF InsertScenario, IInv, HandlerInv
<1>3. Review!Draft(e, req[r].call.node, req[r].call.content, req[r].call.actor)
  BY <1>1 DEF Inserts, Exists, Drafted, FirstVersion, Review!Draft, Review!Unused
<1> QED BY <1>2, <1>3 DEF Review!Next

LEMMA UpdateEdits ==
    ASSUME IInv, NEW r \in Requests, UpdateWithVersion(r)
    PROVE  Review!Next \/ scenarios' = scenarios
<1> DEFINE edited == Edited(req[r].before, req[r].call)
           e == req[r].target
<1>1. CASE ~(VersionMatches(r) /\ Stored(r).state \in Editable)
  BY <1>1 DEF UpdateWithVersion
<1>2. CASE VersionMatches(r) /\ Stored(r).state \in Editable
  <2>1. /\ req[r].call \in UpdateCalls /\ req[r].before \in Row
        /\ e \in ScenarioIds /\ Exists(e) /\ scenarios[e] \in Row
    BY HandlerCalls, UpdateHolds DEF UpdateWithVersion, Stored
  <2>2. /\ edited.content \in Contents
        /\ edited.version = scenarios[e].version + 1
    BY <1>2, <2>1, EditedRow DEF VersionMatches, Stored
  <2>3. scenarios' = [scenarios EXCEPT ![e] =
            [scenarios[e] EXCEPT !.content = edited.content, !.version = edited.version]]
    BY <1>2 DEF UpdateWithVersion
  <2>4. [scenarios[e] EXCEPT !.content = edited.content, !.version = edited.version]
           = [[scenarios[e] EXCEPT !.content = edited.content] EXCEPT !.version = @ + 1]
    <3> HIDE DEF edited
    <3> QED BY <2>1, <2>2 DEF Row
  <2> HIDE DEF edited
  <2>5. Review!Edit(e, edited.content)
    BY <1>2, <2>1, <2>3, <2>4
       DEF Review!Edit, Review!Unused, Review!Revise, Exists, Stored, Editable
  <2> QED BY <2>1, <2>2, <2>5 DEF Review!Next
<1> QED BY <1>1, <1>2

LEMMA TransitionReviews ==
    ASSUME IInv, NEW r \in Requests, Transition(r)
    PROVE  Review!Next \/ scenarios' = scenarios
<1> DEFINE e == req[r].target
           c == req[r].call
<1>1. CASE ~(VersionMatches(r) /\ Stored(r).state = req[r].before.state)
  BY <1>1 DEF Transition
<1>2. CASE VersionMatches(r) /\ Stored(r).state = req[r].before.state
  <2>1. /\ c \in TransitionCalls /\ e \in ScenarioIds /\ Exists(e)
        /\ scenarios[e] \in Row /\ scenarios[e].version = c.version
        /\ c.actor \in Users /\ c.to \in Targets
        /\ RoleOf[c.actor] \in MayMoveTo(c.to)
        /\ CanTransitionScenario(scenarios[e].state, c.to)
        /\ IsReview(c.to) => scenarios[e].author # c.actor
    BY <1>2, HandlerCalls, UpdateHolds, CallShapes
       DEF Transition, Stored, VersionMatches, MayMove
  <2>2. scenarios' = [scenarios EXCEPT ![e] = Moved(scenarios[e], c)]
    BY <1>2 DEF Transition, Stored
  <2>3. CASE c.to \in {"analyzed", "rework"}
    <3>1. Moved(scenarios[e], c) =
             [[scenarios[e] EXCEPT !.state = c.to] EXCEPT !.version = @ + 1]
      <4> HIDE DEF c
      <4> QED BY <2>1, <2>3 DEF Moved, NextVersion, IsReview, Row
    <3>2. Review!Analyze(e) \/ Review!SendBack(e)
      BY <2>1, <2>2, <2>3, <3>1
         DEF Review!Analyze, Review!SendBack, Review!Revise, Review!Unused, Exists,
             CanTransitionScenario
    <3> QED BY <2>1, <3>2 DEF Review!Next
  <2>4. CASE IsReview(c.to)
    <3>1. Moved(scenarios[e], c) =
             [[scenarios[e] EXCEPT !.state = c.to, !.reviewer = c.actor]
                 EXCEPT !.version = @ + 1]
      <4> HIDE DEF c
      <4> QED BY <2>1, <2>4 DEF Moved, NextVersion, Row
    <3>2. \/ c.to = "verified" /\ scenarios[e].state = "analyzed"
          \/ c.to = "accepted" /\ scenarios[e].state = "verified"
      BY <2>1, <2>4 DEF CanTransitionScenario, IsReview
    <3>3. Review!Approve(e, scenarios[e].state, c.to, c.actor)
      BY <2>1, <2>2, <2>4, <3>1
         DEF Review!Approve, Review!Revise, Review!Unused, Exists
    <3>4. c.actor \in Reviewers
      BY <2>1, <2>4 DEF Reviewers, MayMoveTo, IsReview
    <3> QED BY <2>1, <3>2, <3>3, <3>4 DEF Review!Next
  <2> QED BY <2>1, <2>3, <2>4 DEF Targets, States, IsReview
<1> QED BY <1>1, <1>2

LEMMA StepReviews == IInv /\ [Next]_vars => [Review!Next]_scenarios
<1> SUFFICES ASSUME IInv, [Next]_vars PROVE Review!Next \/ scenarios' = scenarios
  OBVIOUS
<1>1. ASSUME NEW r \in Requests, Submit(r) \/ Step(r) \/ Interrupt(r)
      PROVE  Review!Next \/ scenarios' = scenarios
  <2>1. CASE InsertScenario(r)
    BY <2>1, InsertDrafts
  <2>2. CASE UpdateWithVersion(r)
    BY <2>2, UpdateEdits
  <2>3. CASE Transition(r)
    BY <2>3, TransitionReviews
  <2>4. CASE ~InsertScenario(r) /\ ~UpdateWithVersion(r) /\ ~Transition(r)
    BY <1>1, <2>4
       DEF Step, Submit, SubmitCreate, SubmitUpdate, SubmitTransition, LoadNode,
           LoadForUpdate, LoadForTransition, RecordAudit, GetAfterWrite, Interrupt
  <2> QED BY <2>1, <2>2, <2>3, <2>4
<1> QED BY <1>1 DEF Next, NodeStatusChanges, vars

(* The handlers implement ScenarioReview: every change of a stored row is  *)
(* a step of its review, whatever versions clients send.                   *)
THEOREM Implementation == Spec => ImplementsReview
<1>1. Init => Review!Init
  BY DEF Init, Review!Init
<1> QED BY Invariance, StepReviews, <1>1, PTL DEF Spec, ImplementsReview, Review!Spec

(* The same wherever a behaviour begins, in a state the earlier requests   *)
(* may have left: an accepted scenario is final, and nobody approves his   *)
(* own.                                                                    *)
THEOREM ReviewFollowed == IInv /\ [][Next]_vars => StepsFollowReview
<1>1. IInv /\ [Next]_vars => IInv'
  BY IInvStep
<1> QED BY StepReviews, <1>1, PTL DEF StepsFollowReview

----------------------------------------------------------------------------
(* Clients that send versions they were shown (Lead = 0).                  *)

KInv == IInv /\ KnowsNoLaterVersion /\ VersionNamesRow

LEMMA KnownRow ==
    ASSUME NEW e \in ScenarioIds, NEW row
    PROVE  row \in KnownRows(e) <=>
              /\ row # None
              /\ \/ row = scenarios[e]
                 \/ \E q \in Requests : /\ req[q].target = e
                                        /\ row = req[q].before \/ row = req[q].after
                 \/ \E a \in audits : /\ a.id = e
                                      /\ row = a.before \/ row = a.after
  BY DEF KnownRows

\* The same, one step later.
LEMMA KnownRowNext ==
    ASSUME NEW e \in ScenarioIds, NEW row
    PROVE  row \in KnownRows(e)' <=>
              /\ row # None
              /\ \/ row = scenarios'[e]
                 \/ \E q \in Requests : /\ req'[q].target = e
                                        /\ row = req'[q].before \/ row = req'[q].after
                 \/ \E a \in audits' : /\ a.id = e
                                       /\ row = a.before \/ row = a.after
  BY DEF KnownRows

LEMMA KnownRowsAreRows ==
    ASSUME IInv, NEW e \in ScenarioIds
    PROVE  KnownRows(e) \subseteq Row
<1> SUFFICES ASSUME NEW row \in KnownRows(e) PROVE row \in Row
  OBVIOUS
<1>1. ASSUME NEW q \in Requests PROVE req[q].before \in Row \cup {None}
                                      /\ req[q].after \in Row \cup {None}
  BY DEF IInv, TypeOK, Request
<1>2. ASSUME NEW a \in audits PROVE a.before \in Row \cup {None} /\ a.after \in Row
  BY DEF IInv, TypeOK, AuditEntry
<1>3. scenarios[e] \in Row \cup {None}
  BY DEF IInv, TypeOK
<1> QED BY <1>1, <1>2, <1>3, KnownRow

(* A handler whose write the version admits has read the row it replaces.  *)
LEMMA WritesWhatWasRead ==
    ASSUME KInv, NEW r \in Requests, At(r, "update"), Stored(r).version = req[r].call.version,
           req[r].call \in UpdateCalls \cup TransitionCalls
    PROVE  req[r].before = Stored(r)
<1> DEFINE e == req[r].target
<1>1. /\ e \in ScenarioIds /\ Exists(e) /\ Stored(r) = scenarios[e]
      /\ scenarios[e] \in Row /\ req[r].before \in Row
  BY UpdateHolds DEF KInv, Stored
<1>2. req[r].before \in KnownRows(e) /\ scenarios[e] \in KnownRows(e)
  BY <1>1, KnownRow, RowFields
<1>3. req[r].before.version <= scenarios[e].version
  BY <1>1, <1>2 DEF KInv, KnowsNoLaterVersion
<1>4. req[r].call.version <= req[r].before.version
  BY DEF KInv, KnowsNoLaterVersion
<1>5. req[r].before.version = scenarios[e].version
  BY <1>1, <1>3, <1>4, CallShapes, RowFields
<1> QED BY <1>1, <1>2, <1>5 DEF KInv, VersionNamesRow

(* What a handler holds after a step that leaves the table alone it held,  *)
(* or read from the table.                                                 *)
LEMMA HandlerLearns ==
    ASSUME IInv, NEW r \in Requests, Submit(r) \/ Step(r) \/ Interrupt(r),
           scenarios' = scenarios
    PROVE  \/ /\ req'[r].target = req[r].target
              /\ req'[r].before = req[r].before /\ req'[r].after = req[r].after
           \/ /\ At(r, "load") /\ At(r, "update")'
              /\ req'[r].target = req[r].call.id /\ req'[r].call = req[r].call
              /\ req[r].call.id \in ScenarioIds /\ Exists(req[r].call.id)
              /\ req'[r].before = scenarios[req[r].call.id]
              /\ req'[r].after = None
<1>1. req \in [Requests -> Request] /\ req[r] \in Request /\ HandlerInv(r)
  BY DEF IInv, TypeOK
<1>2. ASSUME NEW code, Answer(r, code)
      PROVE  /\ req'[r].target = req[r].target
             /\ req'[r].before = req[r].before /\ req'[r].after = req[r].after
  BY <1>1, <1>2 DEF Answer, Become, Request
<1>3. ASSUME NEW l, Goto(r, l)
      PROVE  /\ req'[r].target = req[r].target
             /\ req'[r].before = req[r].before /\ req'[r].after = req[r].after
  BY <1>1, <1>3 DEF Goto, Become, Request
<1>4. CASE Submit(r)
  <2>1. \E c, l : Dispatch(r, c, l)
    BY <1>4 DEF Submit, SubmitCreate, SubmitUpdate, SubmitTransition
  <2>2. ASSUME NEW c,
               Become(r, [req[r] EXCEPT !.pc = "answered", !.call = c, !.status = 403])
        PROVE  /\ req'[r].target = req[r].target
               /\ req'[r].before = req[r].before /\ req'[r].after = req[r].after
    BY <1>1, <2>2 DEF Become, Request
  <2>3. ASSUME NEW c, NEW l, Become(r, [req[r] EXCEPT !.pc = l, !.call = c])
        PROVE  /\ req'[r].target = req[r].target
               /\ req'[r].before = req[r].before /\ req'[r].after = req[r].after
    BY <1>1, <2>3 DEF Become, Request
  <2> QED BY <2>1, <2>2, <2>3 DEF Dispatch
<1>5. CASE At(r, "load") /\ req[r].call.id \in ScenarioIds /\ Exists(req[r].call.id)
           /\ Become(r, [req[r] EXCEPT !.pc = "update", !.target = req[r].call.id,
                                       !.before = scenarios[req[r].call.id]])
  BY <1>1, <1>5 DEF Become, Request, HandlerInv
<1>6. CASE LoadForUpdate(r)
  <2>1. req[r].call.id \in ScenarioIds
    BY <1>6, HandlerCalls, CallShapes DEF LoadForUpdate
  <2> QED BY <1>2, <1>5, <1>6, <2>1 DEF LoadForUpdate
<1>7. CASE LoadForTransition(r)
  <2>1. req[r].call.id \in ScenarioIds
    BY <1>7, HandlerCalls, CallShapes DEF LoadForTransition
  <2> QED BY <1>2, <1>5, <1>7, <2>1 DEF LoadForTransition
<1>8. CASE InsertScenario(r)
  <2>1. PICK e \in ScenarioIds : Inserts(r, e)
    BY <1>8, InsertInserts
  <2>2. scenarios'[e] # None /\ scenarios[e] = None
    BY <2>1, RowFields DEF Inserts, Exists, IInv, TypeOK
  <2> QED BY <2>2
<1>9. CASE UpdateWithVersion(r) \/ Transition(r)
  <2>1. ASSUME At(r, "update"), NEW new \in Row, NEW held \in Row, Writes(r, new, held)
        PROVE  FALSE
    <3>1. /\ req[r].target \in ScenarioIds /\ Stored(r) \in Row
          /\ new.version = Stored(r).version + 1
      BY <2>1, UpdateHolds DEF Writes
    <3>2. scenarios'[req[r].target] = new
      BY <2>1, <3>1 DEF Writes, IInv, TypeOK
    <3>3. Stored(r).version \in Nat
      BY <3>1, RowFields
    <3> QED BY <3>1, <3>2, <3>3 DEF Stored
  <2> QED BY <1>2, <1>9, <2>1, UpdateWrites, TransitionWrites
             DEF UpdateWithVersion, Transition
<1> QED BY <1>2, <1>3, <1>4, <1>6, <1>7, <1>8, <1>9
        DEF Step, LoadNode, RecordAudit, GetAfterWrite, Interrupt

(* An audit entry shows what its handler holds.                            *)
LEMMA AuditsLearn ==
    ASSUME IInv, NEW r \in Requests, Submit(r) \/ Step(r) \/ Interrupt(r),
           NEW e \in ScenarioIds, NEW a \in audits', a.id = e, NEW row,
           row # None, row = a.before \/ row = a.after
    PROVE  row \in KnownRows(e)
<1>1. CASE a \in audits
  BY <1>1, KnownRow
<1>2. CASE a \notin audits
  <2>1. RecordAudit(r)
    BY <1>2 DEF Submit, SubmitCreate, SubmitUpdate, SubmitTransition, Step, LoadNode,
       InsertScenario, LoadForUpdate, UpdateWithVersion, LoadForTransition,
       Transition, GetAfterWrite, Interrupt
  <2>2. a.id = req[r].target /\ a.before = req[r].before /\ a.after = req[r].after
    BY <1>2, <2>1 DEF RecordAudit
  <2> QED BY <2>2, KnownRow
<1> QED BY <1>1, <1>2

LEMMA KnownWithoutChange ==
    ASSUME IInv, NEW r \in Requests, Submit(r) \/ Step(r) \/ Interrupt(r),
           scenarios' = scenarios, NEW e \in ScenarioIds, NEW row \in KnownRows(e)'
    PROVE  row \in KnownRows(e)
<1>1. row # None
  BY KnownRowNext
<1>2. CASE row = scenarios'[e]
  BY <1>1, <1>2, KnownRow
<1>3. ASSUME NEW q \in Requests, req'[q].target = e,
             row = req'[q].before \/ row = req'[q].after
      PROVE  row \in KnownRows(e)
  <2>1. CASE q # r
    BY <1>1, <1>3, <2>1, OtherHandlers, KnownRow
  <2>2. CASE q = r
    BY <1>1, <1>3, <2>2, HandlerLearns, KnownRow
  <2> QED BY <2>1, <2>2
<1>4. ASSUME NEW a \in audits', a.id = e, row = a.before \/ row = a.after
      PROVE  row \in KnownRows(e)
  BY <1>1, <1>4, AuditsLearn
<1> QED BY <1>2, <1>3, <1>4, KnownRowNext

LEMMA KnownAfterInsert ==
    ASSUME KInv, NEW r \in Requests, InsertScenario(r),
           NEW e \in ScenarioIds, NEW row \in KnownRows(e)'
    PROVE  row \in KnownRows(e) \/ (row = scenarios'[e] /\ ~Exists(e))
<1>0. row # None /\ IInv /\ Step(r)
  BY KnownRowNext DEF KInv, Step
<1>1. PICK d \in ScenarioIds : Inserts(r, d)
  BY <1>0, InsertInserts
<1>2. /\ scenarios' = [scenarios EXCEPT ![d] = Drafted(req[r].call)]
      /\ scenarios \in [ScenarioIds -> Row \cup {None}]
      /\ req'[r].target = d /\ req'[r].before = None
      /\ req'[r].after = scenarios'[d] /\ ~Exists(d)
  <2>1. req \in [Requests -> Request] /\ req[r] \in Request /\ req[r].before = None
    BY <1>0 DEF IInv, TypeOK, HandlerInv, InsertScenario
  <2>2. /\ req'[r].target = d /\ req'[r].before = None
        /\ req'[r].after = Drafted(req[r].call)
    BY <1>1, <2>1 DEF Inserts, Become, Request
  <2>3. scenarios \in [ScenarioIds -> Row \cup {None}]
    BY <1>0 DEF IInv, TypeOK
  <2> QED BY <1>1, <2>2, <2>3 DEF Inserts
<1>3. CASE row = scenarios'[e]
  BY <1>0, <1>2, <1>3, KnownRow DEF Exists
<1>4. ASSUME NEW q \in Requests, req'[q].target = e,
             row = req'[q].before \/ row = req'[q].after
      PROVE  row \in KnownRows(e) \/ (row = scenarios'[e] /\ ~Exists(e))
  <2>1. CASE q # r
    BY <1>0, <1>4, <2>1, OtherHandlers, KnownRow
  <2>2. CASE q = r
    BY <1>0, <1>2, <1>4, <2>2
  <2> QED BY <2>1, <2>2
<1>5. ASSUME NEW a \in audits', a.id = e, row = a.before \/ row = a.after
      PROVE  row \in KnownRows(e)
  BY <1>0, <1>5, AuditsLearn
<1> QED BY <1>3, <1>4, <1>5, KnownRowNext

(* Only the next version joins what is known of a scenario.                *)
LEMMA KnownAfterWrite ==
    ASSUME KInv, NEW r \in Requests, UpdateWithVersion(r) \/ Transition(r),
           NEW e \in ScenarioIds, NEW row \in KnownRows(e)'
    PROVE  \/ row \in KnownRows(e)
           \/ /\ row = scenarios'[e] /\ Exists(e)
              /\ scenarios'[e].version = scenarios[e].version + 1
<1>0. row # None /\ IInv /\ Step(r) /\ At(r, "update")
  BY KnownRowNext DEF KInv, Step, UpdateWithVersion, Transition
<1>1. CASE scenarios' = scenarios
  BY <1>0, <1>1, KnownWithoutChange
<1>2. ASSUME NEW new \in Row, NEW held \in Row, Writes(r, new, held)
      PROVE  \/ row \in KnownRows(e)
             \/ /\ row = scenarios'[e] /\ Exists(e)
                /\ scenarios'[e].version = scenarios[e].version + 1
  <2> DEFINE d == req[r].target
  <2>1. d \in ScenarioIds /\ Exists(d) /\ Stored(r) = scenarios[d]
    BY <1>0, UpdateHolds DEF Stored
  <2>2. held = new
    BY <1>0, <1>2, WritesWhatWasRead DEF Writes
  <2>3. /\ scenarios' = [scenarios EXCEPT ![d] = new]
        /\ scenarios \in [ScenarioIds -> Row \cup {None}]
        /\ new.version = scenarios[d].version + 1
    BY <1>0, <1>2, <2>1 DEF Writes, IInv, TypeOK
  <2>4. /\ req'[r].target = d /\ req'[r].before = req[r].before
        /\ req'[r].after = new
    <3>1. req \in [Requests -> Request] /\ req[r] \in Request
      BY <1>0 DEF IInv, TypeOK
    <3> QED BY <1>2, <2>2, <3>1 DEF Writes, Become, Request
  <2>5. CASE row = scenarios'[e]
    BY <1>0, <2>1, <2>3, <2>5, KnownRow
  <2>6. ASSUME NEW q \in Requests, req'[q].target = e,
               row = req'[q].before \/ row = req'[q].after
        PROVE  \/ row \in KnownRows(e)
               \/ /\ row = scenarios'[e] /\ Exists(e)
                  /\ scenarios'[e].version = scenarios[e].version + 1
    <3>1. CASE q # r
      BY <1>0, <2>6, <3>1, OtherHandlers, KnownRow
    <3>2. CASE q = r
      <4>1. CASE row = req[r].before
        BY <1>0, <2>4, <2>6, <3>2, <4>1, KnownRow
      <4>2. CASE row = new
        BY <2>1, <2>3, <2>4, <2>6, <3>2, <4>2
      <4> QED BY <2>4, <2>6, <3>2, <4>1, <4>2
    <3> QED BY <3>1, <3>2
  <2>7. ASSUME NEW a \in audits', a.id = e, row = a.before \/ row = a.after
        PROVE  row \in KnownRows(e)
    BY <1>0, <2>7, AuditsLearn
  <2> QED BY <2>5, <2>6, <2>7, KnownRowNext
<1> QED BY <1>0, <1>1, <1>2, UpdateWrites, TransitionWrites

LEMMA KnownStep ==
    ASSUME KInv, NEW r \in Requests, Submit(r) \/ Step(r) \/ Interrupt(r),
           NEW e \in ScenarioIds, NEW row \in KnownRows(e)'
    PROVE  \/ row \in KnownRows(e)
           \/ row = scenarios'[e] /\ ~Exists(e)
           \/ /\ row = scenarios'[e] /\ Exists(e)
              /\ scenarios'[e].version = scenarios[e].version + 1
<1>1. CASE InsertScenario(r)
  BY <1>1, KnownAfterInsert
<1>2. CASE UpdateWithVersion(r) \/ Transition(r)
  BY <1>2, KnownAfterWrite
<1>3. CASE ~InsertScenario(r) /\ ~UpdateWithVersion(r) /\ ~Transition(r)
  <2>1. scenarios' = scenarios /\ IInv
    BY <1>3 DEF Step, Submit, SubmitCreate, SubmitUpdate, SubmitTransition, LoadNode,
                LoadForUpdate, LoadForTransition, RecordAudit, GetAfterWrite, Interrupt,
                KInv
  <2> QED BY <2>1, KnownWithoutChange
<1> QED BY <1>1, <1>2, <1>3

LEMMA VersionsStep ==
    ASSUME KInv, NEW r \in Requests, Submit(r) \/ Step(r) \/ Interrupt(r)
    PROVE  VersionNamesRow'
<1> SUFFICES ASSUME NEW e \in ScenarioIds, NEW old \in KnownRows(e)',
                    NEW new \in KnownRows(e)', old.version = new.version
             PROVE  old = new
  BY DEF VersionNamesRow
<1>1. IInv /\ VersionNamesRow /\ KnowsNoLaterVersion
  BY DEF KInv
<1>2. ASSUME NEW row \in KnownRows(e)
      PROVE  /\ Exists(e) /\ row.version <= scenarios[e].version
             /\ row.version \in Nat /\ scenarios[e].version \in Nat
  <2>1. Exists(e) /\ row.version <= scenarios[e].version
    BY <1>1 DEF KnowsNoLaterVersion
  <2>2. row \in Row /\ scenarios[e] \in Row
    BY <1>1, <2>1, KnownRowsAreRows, StoredRow
  <2> QED BY <2>1, <2>2, RowFields
<1>3. CASE old \in KnownRows(e) /\ new \in KnownRows(e)
  BY <1>1, <1>3 DEF VersionNamesRow
<1>4. CASE old \notin KnownRows(e) /\ new \notin KnownRows(e)
  BY <1>4, KnownStep
<1>5. CASE old \in KnownRows(e) /\ new \notin KnownRows(e)
  BY <1>2, <1>5, KnownStep
<1>6. CASE old \notin KnownRows(e) /\ new \in KnownRows(e)
  BY <1>2, <1>6, KnownStep
<1> QED BY <1>3, <1>4, <1>5, <1>6

LEMMA KnownNoLater ==
    ASSUME KInv, IInv', NEW r \in Requests, Submit(r) \/ Step(r) \/ Interrupt(r),
           NEW e \in ScenarioIds, NEW row \in KnownRows(e)'
    PROVE  Exists(e)' /\ row.version <= scenarios'[e].version
<1>1. IInv /\ KnowsNoLaterVersion
  BY DEF KInv
<1>2. CASE row \in KnownRows(e)
  <2>1. Exists(e) /\ row.version <= scenarios[e].version
    BY <1>1, <1>2 DEF KnowsNoLaterVersion
  <2>2. Exists(e)' /\ scenarios'[e].version >= scenarios[e].version
    BY <1>1, <2>1, RowsGrow
  <2>3. scenarios'[e] \in Row
    BY <2>2 DEF Exists, IInv, TypeOK
  <2>4. row \in Row /\ scenarios[e] \in Row
    BY <1>1, <1>2, <2>1, KnownRowsAreRows, StoredRow
  <2> QED BY <2>1, <2>2, <2>3, <2>4, RowFields
<1>3. CASE row = scenarios'[e]
  <2>1. row # None
    BY KnownRowNext
  <2>2. row \in Row
    BY <1>3, <2>1 DEF IInv, TypeOK
  <2> QED BY <1>3, <2>1, <2>2, RowFields DEF Exists
<1> QED BY <1>2, <1>3, KnownStep

(* With Lead = 0 a client's version is not ahead of what its handler reads.*)
LEMMA OfferedShown ==
    ASSUME Lead = 0, IInv, NEW r \in Requests, Submit(r), At(r, "load")'
    PROVE  /\ req'[r].call.id \in ScenarioIds /\ scenarios' = scenarios
           /\ \/ req'[r].call.version = 1
              \/ /\ Exists(req'[r].call.id)
                 /\ req'[r].call.version <= scenarios[req'[r].call.id].version
<1>1. req \in [Requests -> Request] /\ req[r] \in Request
  BY DEF IInv, TypeOK
<1>2. ASSUME NEW e \in ScenarioIds, NEW v \in OfferedVersions(e)
      PROVE  v = 1 \/ (Exists(e) /\ v <= scenarios[e].version)
  <2>1. CASE Exists(e)
    <3>1. scenarios[e].version \in Nat
      BY <2>1, StoredRow, RowFields
    <3> QED BY <2>1, <3>1 DEF OfferedVersions
  <2>2. CASE ~Exists(e)
    BY <2>2 DEF OfferedVersions
  <2> QED BY <2>1, <2>2
<1>3. ASSUME NEW c, NEW l, Dispatch(r, c, l)
      PROVE  req'[r].call = c /\ req'[r].pc \in {"answered", l}
  <2>1. ASSUME Become(r, [req[r] EXCEPT !.pc = "answered", !.call = c, !.status = 403])
        PROVE  req'[r].call = c /\ req'[r].pc = "answered"
    BY <1>1, <2>1 DEF Become, Request
  <2>2. ASSUME Become(r, [req[r] EXCEPT !.pc = l, !.call = c])
        PROVE  req'[r].call = c /\ req'[r].pc = l
    BY <1>1, <2>2 DEF Become, Request
  <2> QED BY <1>3, <2>1, <2>2 DEF Dispatch
<1>4. CASE SubmitCreate(r)
  <2>1. PICK c : Dispatch(r, c, "node")
    BY <1>4 DEF SubmitCreate
  <2> QED BY <1>3, <2>1
<1>5. CASE SubmitUpdate(r)
  <2>1. PICK u \in Users, e \in ScenarioIds, p \in Patches :
           \E v \in OfferedVersions(e) :
              Dispatch(r, [op |-> "update", actor |-> u, id |-> e, version |-> v,
                           patch |-> p], "load")
    BY <1>5 DEF SubmitUpdate
  <2>2. PICK v \in OfferedVersions(e) :
           Dispatch(r, [op |-> "update", actor |-> u, id |-> e, version |-> v,
                        patch |-> p], "load")
    BY <2>1
  <2>3. req'[r].call.id = e /\ req'[r].call.version = v
    BY <1>3, <2>2
  <2> QED BY <1>2, <1>5, <2>3 DEF SubmitUpdate
<1>6. CASE SubmitTransition(r)
  <2>1. PICK u \in Users, e \in ScenarioIds, to \in Targets :
           \E v \in OfferedVersions(e) :
              Dispatch(r, [op |-> "transition", actor |-> u, id |-> e, version |-> v,
                           to |-> to], "load")
    BY <1>6 DEF SubmitTransition
  <2>2. PICK v \in OfferedVersions(e) :
           Dispatch(r, [op |-> "transition", actor |-> u, id |-> e, version |-> v,
                        to |-> to], "load")
    BY <2>1
  <2>3. req'[r].call.id = e /\ req'[r].call.version = v
    BY <1>3, <2>2
  <2> QED BY <1>2, <1>6, <2>3 DEF SubmitTransition
<1> QED BY <1>4, <1>5, <1>6 DEF Submit

LEMMA LabelsReached ==
    ASSUME IInv, NEW r \in Requests, Submit(r) \/ Step(r) \/ Interrupt(r)
    PROVE  /\ At(r, "load")' => Submit(r)
           /\ At(r, "update")' => LoadForUpdate(r) \/ LoadForTransition(r)
           /\ At(r, "audit")' => InsertScenario(r) \/ UpdateWithVersion(r) \/ Transition(r)
<1>1. req \in [Requests -> Request] /\ req[r] \in Request
  BY DEF IInv, TypeOK
<1>2. ASSUME NEW code, Answer(r, code) PROVE req'[r].pc = "answered"
  BY <1>1, <1>2 DEF Answer, Become, Request
<1>3. ASSUME NEW l, Goto(r, l) PROVE req'[r].pc = l
  BY <1>1, <1>3 DEF Goto, Become, Request
<1>4. ASSUME NEW c, NEW l, Dispatch(r, c, l) PROVE req'[r].pc \in {"answered", l}
  <2>1. ASSUME Become(r, [req[r] EXCEPT !.pc = "answered", !.call = c, !.status = 403])
        PROVE  req'[r].pc = "answered"
    BY <1>1, <2>1 DEF Become, Request
  <2>2. ASSUME Become(r, [req[r] EXCEPT !.pc = l, !.call = c])
        PROVE  req'[r].pc = l
    BY <1>1, <2>2 DEF Become, Request
  <2> QED BY <1>4, <2>1, <2>2 DEF Dispatch
<1>5. CASE Submit(r)
  <2>1. \E c : Dispatch(r, c, "node") \/ Dispatch(r, c, "load")
    BY <1>5 DEF Submit, SubmitCreate, SubmitUpdate, SubmitTransition
  <2> QED BY <1>4, <1>5, <2>1
<1>6. CASE LoadForUpdate(r) \/ LoadForTransition(r)
  <2>1. ASSUME NEW e, NEW row,
               Become(r, [req[r] EXCEPT !.pc = "update", !.target = e, !.before = row])
        PROVE  req'[r].pc = "update"
    BY <1>1, <2>1 DEF Become, Request
  <2>2. CASE LoadForUpdate(r)
    BY <1>2, <2>1, <2>2 DEF LoadForUpdate
  <2>3. CASE LoadForTransition(r)
    BY <1>2, <2>1, <2>3 DEF LoadForTransition
  <2> QED BY <1>6, <2>2, <2>3
<1>7. CASE InsertScenario(r)
  <2>1. ASSUME NEW e, NEW row,
               Become(r, [req[r] EXCEPT !.pc = "audit", !.target = e, !.after = row])
        PROVE  req'[r].pc = "audit"
    BY <1>1, <2>1 DEF Become, Request
  <2> QED BY <1>7, <2>1 DEF InsertScenario
<1>8. CASE UpdateWithVersion(r) \/ Transition(r)
  <2>1. ASSUME NEW new \in Row, NEW held \in Row, Writes(r, new, held)
        PROVE  req'[r].pc = "audit"
    BY <1>1, <2>1 DEF Writes, Become, Request
  <2> QED BY <1>2, <1>8, <2>1, UpdateWrites, TransitionWrites
<1> QED BY <1>2, <1>3, <1>5, <1>6, <1>7, <1>8
        DEF Step, LoadNode, RecordAudit, GetAfterWrite, Interrupt

LEMMA HandlersNoLater ==
    ASSUME Lead = 0, KInv, NEW r \in Requests, Submit(r) \/ Step(r) \/ Interrupt(r),
           NEW q \in Requests
    PROVE  /\ At(q, "load")' => \/ req'[q].call.version = 1
                                \/ /\ scenarios'[req'[q].call.id] # None
                                   /\ req'[q].call.version
                                         <= scenarios'[req'[q].call.id].version
           /\ At(q, "update")' => req'[q].call.version <= req'[q].before.version
<1>1. IInv /\ HandlerInv(q) /\ KnowsNoLaterVersion
  BY DEF KInv, IInv
<1>2. CASE q # r
  <2>1. req'[q] = req[q]
    BY <1>1, <1>2, OtherHandlers
  <2>2. ASSUME At(q, "load"), Exists(req[q].call.id),
               req[q].call.version <= scenarios[req[q].call.id].version
        PROVE  /\ scenarios'[req[q].call.id] # None
               /\ req[q].call.version <= scenarios'[req[q].call.id].version
    <3> DEFINE e == req[q].call.id
    <3>1. e \in ScenarioIds /\ req[q].call.version \in Nat
      BY <1>1, <2>2, CallShapes DEF HandlerInv
    <3>2. /\ scenarios'[e] # None
          /\ scenarios'[e].version >= scenarios[e].version
      BY <1>1, <2>2, <3>1, RowsGrow DEF Exists
    <3>3. scenarios[e].version \in Nat /\ scenarios'[e].version \in Nat
      <4>1. scenarios[e] \in Row
        BY <1>1, <2>2, <3>1, StoredRow
      <4>2. scenarios'[e] \in Row
        BY <1>1, <3>1, <3>2, TypingStep DEF TypeOK
      <4> QED BY <4>1, <4>2, RowFields
    <3> QED BY <2>2, <3>1, <3>2, <3>3
  <2> QED BY <1>1, <2>1, <2>2 DEF KnowsNoLaterVersion
<1>3. CASE q = r /\ At(r, "load")'
  BY <1>1, <1>3, LabelsReached, OfferedShown DEF Exists
<1>4. CASE q = r /\ At(r, "update")'
  <2>1. scenarios' = scenarios /\ At(r, "load")
    BY <1>1, <1>4, LabelsReached DEF LoadForUpdate, LoadForTransition
  <2>2. /\ req'[r].call = req[r].call /\ req[r].call.id \in ScenarioIds
        /\ Exists(req[r].call.id) /\ req'[r].before = scenarios[req[r].call.id]
    <3>1. req[r].before = None /\ req'[r].before # None
      BY <1>1, <1>4, <2>1, OwnKeeps, RowFields DEF IInv, HandlerInv
    <3> QED BY <1>1, <2>1, <3>1, HandlerLearns
  <2>3. req'[r].before.version \in Nat \ {0}
    BY <1>1, <2>2, StoredRow, RowFields
  <2>4. \/ req[r].call.version = 1
        \/ req[r].call.version <= req'[r].before.version
    BY <1>1, <2>1, <2>2 DEF KnowsNoLaterVersion
  <2> QED BY <1>4, <2>2, <2>3, <2>4
<1> QED BY <1>2, <1>3, <1>4

LEMMA KInvStep == ASSUME Lead = 0 PROVE KInv /\ [Next]_vars => KInv'
<1> SUFFICES ASSUME KInv, [Next]_vars PROVE KInv'
  OBVIOUS
<1>1. IInv'
  BY IInvStep DEF KInv
<1>2. ASSUME NEW r \in Requests, Submit(r) \/ Step(r) \/ Interrupt(r)
      PROVE  VersionNamesRow' /\ KnowsNoLaterVersion'
  BY <1>1, <1>2, VersionsStep, KnownNoLater, HandlersNoLater
     DEF KnowsNoLaterVersion, Exists
<1>3. CASE UNCHANGED <<scenarios, audits, req>>
  <2>1. \A e \in ScenarioIds : KnownRows(e)' = KnownRows(e)
    BY <1>3 DEF KnownRows
  <2> QED BY <1>1, <1>3, <2>1 DEF KInv, VersionNamesRow, KnowsNoLaterVersion, Exists
<1> QED BY <1>1, <1>2, <1>3 DEF KInv, Next, NodeStatusChanges, vars

LEMMA InitKInv == Init => KInv
<1> SUFFICES ASSUME Init PROVE KInv
  OBVIOUS
<1>1. /\ scenarios = [e \in ScenarioIds |-> None] /\ audits = {}
      /\ \A r \in Requests :
            req[r].pc = "idle" /\ req[r].before = None /\ req[r].after = None
  BY DEF Init, Idle
<1>2. \A e \in ScenarioIds : KnownRows(e) = {}
  BY <1>1, KnownRow
<1> QED BY <1>1, <1>2, InitIInv DEF KInv, VersionNamesRow, KnowsNoLaterVersion

(* If clients send only versions they were shown, a version number names   *)
(* one row for ever: table, handlers and audit trail agree on it.          *)
THEOREM VersionsNameRows == ASSUME Lead = 0 PROVE Spec => []VersionNamesRow
<1>1. KInv => VersionNamesRow
  BY DEF KInv
<1> QED BY InitKInv, KInvStep, <1>1, PTL DEF Spec

(* If clients send only versions they were shown, a write that takes       *)
(* effect replaces the very row its handler read.                          *)
THEOREM NoLostUpdate == ASSUME Lead = 0 PROVE Spec => StaleWritesRefused
<1> DEFINE Fresh == \A r \in Requests :
                       At(r, "update") /\ At(r, "audit")' => Stored(r) = req[r].before
<1>1. KInv /\ [Next]_vars => [Fresh]_vars
  <2> SUFFICES ASSUME KInv, Next, NEW r \in Requests,
                      At(r, "update"), At(r, "audit")'
               PROVE  Stored(r) = req[r].before
    BY DEF vars
  <2>1. IInv
    BY DEF KInv
  <2>2. ASSUME NEW q \in Requests, Submit(q) \/ Step(q) \/ Interrupt(q) PROVE q = r
    BY <2>1, <2>2, OtherHandlers
  <2>3. Submit(r) \/ Step(r) \/ Interrupt(r)
    BY <2>2 DEF Next, NodeStatusChanges
  <2>4. UpdateWithVersion(r) \/ Transition(r)
    BY <2>1, <2>3, LabelsReached DEF InsertScenario
  <2>5. ~Answer(r, 409)
    <3>1. req \in [Requests -> Request] /\ req'[r].pc = "audit"
      BY <2>1 DEF IInv, TypeOK, At
    <3>2. [req[r] EXCEPT !.pc = "answered", !.status = 409].pc = "answered"
      BY <3>1 DEF Request
    <3>3. Answer(r, 409) =>
             req'[r] = [req[r] EXCEPT !.pc = "answered", !.status = 409]
      BY <3>1 DEF Answer, Become
    <3> QED BY <3>1, <3>2, <3>3
  <2>6. PICK new \in Row : \E held \in Row : Writes(r, new, held)
    BY <2>1, <2>4, <2>5, UpdateWrites, TransitionWrites
  <2> QED BY <2>6, WritesWhatWasRead DEF Writes
<1> QED BY InitKInv, KInvStep, <1>1, PTL DEF Spec, StaleWritesRefused
=============================================================================
