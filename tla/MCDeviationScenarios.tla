------------------------ MODULE MCDeviationScenarios ------------------------
(***************************************************************************)
(* Instances of DeviationScenarios for TLC.  u1 writes and may review, u2  *)
(* reviews; a content is one column with one of two values.                *)
(***************************************************************************)
EXTENDS DeviationScenarios, TLC

CONSTANTS u1, u2, n1, d1, a, b

MCRoleOf == u1 :> "admin" @@ u2 :> "safety_reviewer"

RequestSymmetry == Permutations(Requests)
CreationSymmetry == RequestSymmetry \cup Permutations(ScenarioIds)

(***************************************************************************)
(* Later in the life of the database: u1 wrote scenario d1, and earlier    *)
(* requests, long answered, have brought it to one of the five states.     *)
(***************************************************************************)
EarlierRow(state, version, reviewer) ==
    [node |-> n1, content |-> [f \in Fields |-> a], state |-> state,
     version |-> version, author |-> u1, reviewer |-> reviewer]

EarlierRows ==
    {EarlierRow("draft", 1, None), EarlierRow("analyzed", 2, None),
     EarlierRow("verified", 3, u2), EarlierRow("rework", 4, u2),
     EarlierRow("accepted", 4, u2)}

LaterInit ==
    /\ \E row \in EarlierRows :
          scenarios = [e \in ScenarioIds |-> IF e = d1 THEN row ELSE None]
    /\ activeNodes = Nodes
    /\ audits = {}
    /\ req = [r \in Requests |-> Idle]

LaterSpec == LaterInit /\ [][Next]_vars
=============================================================================
