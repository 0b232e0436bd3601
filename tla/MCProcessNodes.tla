--------------------------- MODULE MCProcessNodes ---------------------------
(***************************************************************************)
(* Instances of ProcessNodes for TLC.                                      *)
(***************************************************************************)
EXTENDS ProcessNodes, TLC

CONSTANTS n1, c1, a

(***************************************************************************)
(* The table is empty, or it is later in the life of the database and      *)
(* holds a node n1, active or not, entered long ago.                       *)
(***************************************************************************)
LaterInit ==
    /\ \E s \in Statuses :
          nodes = [n \in NodeIds |->
                      IF n = n1 THEN [code |-> c1, design |-> a, status |-> s] ELSE None]
    /\ audits = {}
    /\ req = [r \in Requests |-> Idle]

\* Where the table was empty a request creates, or is about what was created.
MCSpec == (Init \/ LaterInit) /\ [][Next]_vars

NodeSymmetry == Permutations(Requests)
=============================================================================
