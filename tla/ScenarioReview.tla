---------------------------- MODULE ScenarioReview ----------------------------
(***************************************************************************)
(* What the deviation scenario store promises: a scenario is drafted by an *)
(* author, its content changes only while it is a draft or in rework, each *)
(* change of any kind makes the next version, a reviewer other than the    *)
(* author verifies and accepts it, and an accepted scenario is final.      *)
(* DeviationScenarios implements this specification.                       *)
(***************************************************************************)
EXTENDS Naturals

CONSTANTS
    ScenarioIds,  \* primary keys of deviation_scenarios
    Nodes,        \* process nodes that exist
    Contents,     \* what a scenario says: guideword, parameter, cause, ...
    Users,
    Reviewers,    \* users whose role may verify, accept or send back
    None

VARIABLE scenario

Unused == {e \in ScenarioIds : scenario[e] = None}

Init == scenario = [e \in ScenarioIds |-> None]

\* The next version of e, otherwise as described by next.
Revise(e, next) ==
    scenario' = [scenario EXCEPT ![e] = [next EXCEPT !.version = @ + 1]]

Draft(e, n, x, u) ==
    /\ e \in Unused
    /\ scenario' = [scenario EXCEPT ![e] =
          [node |-> n, content |-> x, state |-> "draft", version |-> 1,
           author |-> u, reviewer |-> None]]

Edit(e, x) ==
    /\ e \notin Unused
    /\ scenario[e].state \in {"draft", "rework"}
    /\ Revise(e, [scenario[e] EXCEPT !.content = x])

Analyze(e) ==
    /\ e \notin Unused
    /\ scenario[e].state \in {"draft", "rework"}
    /\ Revise(e, [scenario[e] EXCEPT !.state = "analyzed"])

SendBack(e) ==
    /\ e \notin Unused
    /\ scenario[e].state \in {"analyzed", "verified"}
    /\ Revise(e, [scenario[e] EXCEPT !.state = "rework"])

Approve(e, from, to, u) ==
    /\ e \notin Unused
    /\ scenario[e].state = from
    /\ u # scenario[e].author
    /\ Revise(e, [scenario[e] EXCEPT !.state = to, !.reviewer = u])

Next ==
    \E e \in ScenarioIds :
        \/ \E n \in Nodes, x \in Contents, u \in Users : Draft(e, n, x, u)
        \/ \E x \in Contents : Edit(e, x)
        \/ Analyze(e)
        \/ SendBack(e)
        \/ \E u \in Reviewers :
              \/ Approve(e, "analyzed", "verified", u)
              \/ Approve(e, "verified", "accepted", u)

Spec == Init /\ [][Next]_scenario
=============================================================================
