-------------------------- MODULE AlgorithmClaims ----------------------------
EXTENDS MCCoverageAlgorithm

(* scoring.go:83, the explanation stored with each evaluation: the residual*)
(* risk index is ceil(initial * (1 - protection)), at least 1.  In doubles *)
(* 1 - (1 - (1 - 0.7)) is a little more than 0.3, so that 20 and 0.7 give  *)
(* 7; with the layers 0.2 and 0.45, 25 gives 12 and a rank too high.       *)
ResidualIsTheCeiling ==
    Done =>
        LET effects == Effects(result.independence.retained)
            scaled == Initial(result.snapshot) * Remaining(effects) IN
        result.residual = 1
            \/ (result.residual - 1) * Whole(effects) < scaled
=============================================================================
