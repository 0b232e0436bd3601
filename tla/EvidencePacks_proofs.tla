------------------------- MODULE EvidencePacks_proofs -------------------------
EXTENDS EvidencePacks, CoverageEvaluations_proofs

(* What a stored row says of itself, and so of its pack.                   *)
LEMMA HollowRow ==
    ASSUME NEW row \in Row, RowInv(row)
    PROVE  /\ Pack(row).note = "empty" =>
                 Pack(row).state = "voided" /\ Pack(row).confirmedBy = None
           /\ Pack(row).rankAfter = "initial" <=> Pack(row).note = "empty"
           /\ Pack(row).confirmedBy # None =>
                 /\ Pack(row).conclusion = Pack(row).input
                 /\ Pack(row).confirmedBy # AuthorOf[Pack(row).scenario]
<1>1. row.state \in States /\ row.input \in Inputs /\ None \notin Inputs
  BY ScopeAssumption DEF Row
<1>2. /\ Pack(row).state = row.state /\ Pack(row).confirmedBy = row.confirmedBy
      /\ Pack(row).input = row.input /\ Pack(row).scenario = row.scenario
      /\ Pack(row).conclusion = IF Presents(row) THEN row.conclusion ELSE None
      /\ Pack(row).note = "empty" <=> Presents(row) /\ row.conclusion = None
      /\ Pack(row).rankAfter = "initial" <=> Presents(row) /\ row.conclusion = None
  BY DEF Pack, RankAfter, BoundaryNote
<1>3. Presents(row) /\ row.conclusion = None =>
         row.state = "voided" /\ row.confirmedBy = None
  BY <1>1 DEF Presents, WithheldStates, RowInv, States
<1>4. row.confirmedBy # None =>
         /\ Presents(row) /\ row.conclusion = row.input
         /\ row.confirmedBy # AuthorOf[row.scenario]
  BY DEF Presents, WithheldStates, RowInv
<1> QED
  BY <1>2, <1>3, <1>4

(* A pack without a conclusion that should have one is that of an          *)
(* evaluation voided after it had failed, which nobody ever confirmed.     *)
THEOREM HollowPacks == Spec => []HollowPacksAreVoidedFailures
<1>1. IInv => HollowPacksAreVoidedFailures
  <2> SUFFICES ASSUME IInv, NEW e \in EvalIds, Exists(e)
               PROVE  /\ Pack(evaluations[e]).note = "empty" =>
                            /\ Pack(evaluations[e]).state = "voided"
                            /\ Pack(evaluations[e]).confirmedBy = None
                      /\ Pack(evaluations[e]).rankAfter = "initial"
                            <=> Pack(evaluations[e]).note = "empty"
                      /\ Pack(evaluations[e]).confirmedBy # None =>
                            /\ Pack(evaluations[e]).conclusion = Pack(evaluations[e]).input
                            /\ Pack(evaluations[e]).confirmedBy
                                  # AuthorOf[Pack(evaluations[e]).scenario]
    BY DEF HollowPacksAreVoidedFailures
  <2>1. PICK row \in Row : row = evaluations[e] /\ RowInv(row)
    BY DEF IInv, TypeOK, RowsInv, Exists
  <2> QED
    BY <2>1, HollowRow
<1> QED
  BY <1>1, Invariance, PTL

(* No update of a stored row takes back what a pack of it has presented.   *)
LEMMA RowStepKeepsPack ==
    ASSUME NEW r \in Requests, NEW old \in Row, NEW new \in Row,
           RowStep(r, old, new), Precedes(old, new), RowInv(old), RowInv(new)
    PROVE  /\ new.scenario = old.scenario /\ new.key = old.key
           /\ new.input = old.input /\ new.by = old.by
           /\ old.confirmedBy # None => new.confirmedBy = old.confirmedBy
           /\ Presents(old) /\ old.conclusion # None =>
                 Presents(new) /\ new.conclusion = old.conclusion
<1> USE DEF Row, Presents, WithheldStates
<1>1. CASE new = old
  BY <1>1
<1>2. CASE old.state = "queued" /\ new = Started(old)
  BY <1>2 DEF Started
<1>3. CASE old.state = "running" /\ new = Failed(old)
  BY <1>3 DEF Failed
<1>4. CASE old.state = "running" /\ new = Completed(old, req[r].input)
  BY <1>4 DEF Completed, Precedes, RowInv
<1>5. CASE old.state = "completed" /\ new = Confirmed(old, req[r].call.actor)
  BY <1>5 DEF Confirmed, RowInv
<1>6. CASE old.state \in VoidableStates /\ new = Voided(old)
  BY <1>6 DEF Voided, VoidableStates
<1>7. CASE \E v \in Verdicts : new = [old EXCEPT !.replay = v]
  BY <1>7
<1> QED
  BY <1>1, <1>2, <1>3, <1>4, <1>5, <1>6, <1>7 DEF RowStep

(* What one pack has presented every later one presents too.               *)
THEOREM Presented == Spec => PresentedForGood
<1> DEFINE Agree(earlier, later) ==
              /\ \A column \in {"scenario", "key", "input", "by"} :
                    later[column] = earlier[column]
              /\ \A column \in {"conclusion", "confirmedBy"} :
                    earlier[column] # None => later[column] = earlier[column]
<1>1. ASSUME NEW old \in Row, NEW new \in Row,
             new.scenario = old.scenario, new.key = old.key,
             new.input = old.input, new.by = old.by,
             old.confirmedBy # None => new.confirmedBy = old.confirmedBy,
             Presents(old) /\ old.conclusion # None =>
                Presents(new) /\ new.conclusion = old.conclusion
      PROVE  Agree(Pack(old), Pack(new))
  BY <1>1 DEF Pack
<1>2. ASSUME IInv, Next, NEW e \in EvalIds, Exists(e)
      PROVE  Agree(Pack(evaluations[e]), Pack(evaluations'[e]))
  <2>1. PICK r \in Requests : Submit(r) \/ Step(r) \/ Interrupt(r)
    BY <1>2 DEF Next
  <2>2. PICK old \in Row, new \in Row :
           /\ old = evaluations[e] /\ new = evaluations'[e]
           /\ RowStep(r, old, new) /\ Precedes(old, new)
           /\ RowInv(old) /\ RowInv(new)
    BY <1>2, <2>1, RowAfter DEF IInv, RowsInv
  <2> HIDE DEF Agree
  <2> QED
    BY <1>1, <2>2, RowStepKeepsPack
<1>3. ASSUME IInv, [Next]_vars
      PROVE  [\A e \in EvalIds : Exists(e) =>
                 Agree(Pack(evaluations[e]), Pack(evaluations'[e]))]_vars
  BY <1>2, <1>3
<1> QED
  BY <1>3, Invariance, PTL DEF Spec, PresentedForGood
=============================================================================
