-------------------------- MODULE CoverageLifecycle --------------------------
(***************************************************************************)
(* What the coverage evaluation store promises, with every handler step    *)
(* that does not change a published evaluation hidden: an evaluation is    *)
(* queued once per idempotency key with a frozen input, runs to one        *)
(* conclusion drawn from that input, may be confirmed by someone other     *)
(* than the scenario's author, and may be voided once it is settled.       *)
(* CoverageEvaluations implements this specification.                      *)
(***************************************************************************)
CONSTANTS
    EvalIds,    \* primary keys of coverage_evaluations
    Keys,       \* idempotency keys
    Scenarios,  \* deviation scenarios that exist
    Users,      \* users that may call the API
    Inputs,     \* frozen input snapshots; a conclusion is named by its input
    AuthorOf,   \* AuthorOf[s]: created_by of scenario s
    None        \* nil / absent

VARIABLE record

Unused == {e \in EvalIds : record[e] = None}

Init == record = [e \in EvalIds |-> None]

(***************************************************************************)
(* A key names at most one evaluation, for ever: voiding does not free it. *)
(***************************************************************************)
Queue(e, k, s, i) ==
    /\ e \in Unused
    /\ \A f \in EvalIds \ Unused : record[f].key # k
    /\ record' = [record EXCEPT ![e] =
          [key |-> k, scenario |-> s, input |-> i, state |-> "queued",
           conclusion |-> None, confirmedBy |-> None]]

Start(e) ==
    /\ e \notin Unused
    /\ record[e].state = "queued"
    /\ record' = [record EXCEPT ![e].state = "running"]

Complete(e) ==
    /\ e \notin Unused
    /\ record[e].state = "running"
    /\ record' = [record EXCEPT ![e].state = "completed",
                                ![e].conclusion = record[e].input]

Fail(e) ==
    /\ e \notin Unused
    /\ record[e].state = "running"
    /\ record' = [record EXCEPT ![e].state = "failed"]

Confirm(e, u) ==
    /\ e \notin Unused
    /\ record[e].state = "completed"
    /\ u # AuthorOf[record[e].scenario]
    /\ record' = [record EXCEPT ![e].state = "confirmed",
                                ![e].confirmedBy = u]

Void(e) ==
    /\ e \notin Unused
    /\ record[e].state \in {"completed", "failed", "confirmed"}
    /\ record' = [record EXCEPT ![e].state = "voided"]

Next ==
    \E e \in EvalIds :
        \/ \E k \in Keys, s \in Scenarios, i \in Inputs : Queue(e, k, s, i)
        \/ Start(e)
        \/ Complete(e)
        \/ Fail(e)
        \/ \E u \in Users : Confirm(e, u)
        \/ Void(e)

Spec == Init /\ [][Next]_record
=============================================================================
