------------------------ MODULE MCCoverageEvaluations ------------------------
(***************************************************************************)
(* Instances of CoverageEvaluations for TLC.  One scenario, written by u1; *)
(* u1 and u2 may confirm, so that the author rule decides.                 *)
(***************************************************************************)
EXTENDS EvidencePacks, TLC

CONSTANTS u1, u2, u3, s1, sMissing, kGood, kOther, kShort, e1, e2

MCAuthorOf == s1 :> u1
MCRoleOf == u1 :> "admin" @@ u2 :> "safety_reviewer"
\* The author has since become an auditor; one user is left to act.
MCRoleOfOne == u1 :> "auditor" @@ u2 :> "safety_reviewer"
MCRoleOfThree == MCRoleOf @@ u3 :> "auditor"

RequestSymmetry == Permutations(Requests)
TwoRowSymmetry ==
    RequestSymmetry \cup Permutations({e1, e2}) \cup Permutations({kGood, kOther})

(***************************************************************************)
(* Later in the life of the database: an earlier Run, long answered, left  *)
(* e1 completed or failed, so that all requests race on a settled row.     *)
(***************************************************************************)
EarlierRun(i) ==
    [key |-> kGood, scenario |-> s1, by |-> u2, input |-> i,
     state |-> IF i \in FailingInputs THEN "failed" ELSE "completed",
     conclusion |-> IF i \in FailingInputs THEN None ELSE i,
     confirmedBy |-> None, replay |-> "none"]

SettledInit ==
    /\ \E i \in Inputs : evaluations = (e1 :> EarlierRun(i))
    /\ audits = {}
    /\ req = [r \in Requests |-> Idle]

SettledSpec == SettledInit /\ [][Next]_vars
=============================================================================
