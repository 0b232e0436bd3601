--------------------------- MODULE CoverageClaims ---------------------------
(***************************************************************************)
(* What the repository's documents and messages say of coverage            *)
(* evaluations and the handlers, run concurrently or cut off, do not keep. *)
(***************************************************************************)
EXTENDS MCCoverageEvaluations

(* README.md:51, a replay uses the frozen input, so the same input gives   *)
(* the same result: no completed evaluation is marked as not reproducible. *)
CompletedReproducible ==
    \A e \in EvalIds : Exists(e) /\ evaluations[e].state = "completed" =>
        evaluations[e].replay # "failed"
=============================================================================
