---------------------------- MODULE EvidencePacks ----------------------------
(***************************************************************************)
(* What an export shows of an evaluation: ExportEvidencePack of            *)
(* service/coverage_evaluation_service.go.  It makes its answer from one   *)
(* row it reads in one statement, so that a pack is a function of a row,   *)
(* and what packs exported at different times say of each other is a       *)
(* question about the steps between.                                       *)
(*                                                                         *)
(* Score, steps, paths and deduplication notes are the conclusion; a row   *)
(* without one still carries the columns' defaults, which Run inserts:     *)
(* score 0, no paths, the rank of the initial risk, an empty explanation.  *)
(***************************************************************************)
EXTENDS CoverageEvaluations

\* Mutant: a voided evaluation loses its history.
WithheldWhenVoided == {"queued", "running", "failed", "voided"}
\* Mutant: the columns of a failed evaluation are exported.
WithheldUntilRun == {"queued", "running"}
WithheldStates == {"queued", "running", "failed"}

Presents(row) == row.state \notin WithheldStates

\* A withheld rank is empty; SafetyBoundary is the note of a withheld pack,
\* the explanation's own of one that presents its conclusion.
RankAfter(row) ==
    IF ~Presents(row) THEN "empty"
    ELSE IF row.conclusion = None THEN "initial" ELSE "computed"
BoundaryNote(row) ==
    IF Presents(row) /\ row.conclusion = None THEN "empty" ELSE "boundary"

\* CoverageEvidencePackResponse
Pack(row) ==
    [scenario |-> row.scenario, key |-> row.key, input |-> row.input, by |-> row.by,
     state |-> row.state, confirmedBy |-> row.confirmedBy,
     conclusion |-> IF Presents(row) THEN row.conclusion ELSE None,
     rankAfter |-> RankAfter(row), note |-> BoundaryNote(row)]

----------------------------------------------------------------------------
(***************************************************************************)
(* Properties                                                              *)
(***************************************************************************)
(* What one pack of an evaluation has presented, every later one presents  *)
(* too, whoever confirms, voids or replays it in the meantime; the packs   *)
(* agree on the frozen input, and on the confirmer once there is one.      *)
PresentedForGood ==
    [][\A e \in EvalIds : Exists(e) =>
          LET earlier == Pack(evaluations[e])
              later == Pack(evaluations'[e]) IN
          /\ \A column \in {"scenario", "key", "input", "by"} :
                later[column] = earlier[column]
          /\ \A column \in {"conclusion", "confirmedBy"} :
                earlier[column] # None => later[column] = earlier[column]]_vars

(* A pack that should present a conclusion and has none, so that it shows  *)
(* score 0 with the rank of the initial risk and no boundary note, is that *)
(* of an evaluation voided after it had failed; nobody ever confirmed it.  *)
(* The comment at line 402 keeps conclusion columns from packs of failed   *)
(* evaluations, and does not think of these.                               *)
HollowPacksAreVoidedFailures ==
    \A e \in EvalIds : Exists(e) =>
        LET pack == Pack(evaluations[e]) IN
        /\ pack.note = "empty" => pack.state = "voided" /\ pack.confirmedBy = None
        /\ pack.rankAfter = "initial" <=> pack.note = "empty"
        /\ pack.confirmedBy # None =>
              /\ pack.conclusion = pack.input
              /\ pack.confirmedBy # AuthorOf[pack.scenario]
=============================================================================
