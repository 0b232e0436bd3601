---------------------------- MODULE MCSafeguards ----------------------------
(***************************************************************************)
(* Instances of Safeguards for TLC.  u1 may write, u2 may not.             *)
(***************************************************************************)
EXTENDS Safeguards, TLC

CONSTANTS u1, u2, r0, d1, s1

MCRoleOf == [u \in Users |-> IF u = u1 THEN "safety_reviewer" ELSE "auditor"]

(***************************************************************************)
(* The ledger is empty, or it is later in the life of the database and     *)
(* request r0, long answered, entered safeguard s1, with a verification or *)
(* without one.                                                            *)
(***************************************************************************)
EnteredCalls == {c \in CreateCalls : c.actor = u1 /\ c.scenario = d1 /\ c.at \in {0, None}}

LaterInit ==
    /\ now = 0
    /\ \E c \in EnteredCalls :
          LET row == Created(r0, c) IN
          /\ safeguards = [e \in SafeguardIds |-> IF e = s1 THEN row ELSE None]
          /\ audits = {[request |-> r0, id |-> s1, before |-> None, after |-> row]}
          /\ req = [r \in Requests |->
                IF r = r0 THEN [Idle EXCEPT !.pc = "answered", !.call = c, !.target = s1,
                                            !.after = row, !.status = 201]
                ELSE Idle]

\* r0 is made before or not at all.
MCSpec == (Init \/ LaterInit) /\ [][Next /\ req'[r0] = req[r0]]_vars

SafeguardSymmetry == Permutations(Requests \ {r0})
=============================================================================
