------------------------- MODULE SafeguardLifecycle -------------------------
(***************************************************************************)
(* What the safeguard ledger promises of one safeguard, requests and       *)
(* handlers left out: which lifecycle states follow each other, and that a *)
(* verification is replaced only by another one.                           *)
(*                                                                         *)
(* A safeguard whose state is active may be expired at any time here:      *)
(* the detailed specification decides when.                                *)
(***************************************************************************)
CONSTANTS SafeguardIds, Instants, None

VARIABLE standing  \* state and last verification of each safeguard, or None

States == {"pending", "active", "expired", "invalid"}

Standing == [state : States, verifiedAt : Instants \cup {None}]

Verified(s) == s.verifiedAt # None

Init == standing = [e \in SafeguardIds |-> None]

Change(e, s) == standing' = [standing EXCEPT ![e] = s]

\* Entered with or without a verification of its own.
Register(e) ==
    /\ standing[e] = None
    /\ \E s \in Standing :
          /\ s.state # "invalid"
          /\ s.state = "pending" <=> ~Verified(s)
          /\ Change(e, s)

\* From any state; the only way an expired or a pending one becomes active.
Verify(e) ==
    /\ standing[e] # None
    /\ \E t \in Instants : Change(e, [state |-> "active", verifiedAt |-> t])

Move(e, from, to) ==
    /\ standing[e] # None
    /\ standing[e].state \in from
    /\ Change(e, [standing[e] EXCEPT !.state = to])

Expire(e) == Move(e, {"active"}, "expired")

Invalidate(e) == Move(e, States \ {"invalid"}, "invalid")

Restore(e) ==
    \/ Move(e, {"invalid"}, "pending")
    \/ Move(e, {"invalid"}, "active") /\ Verified(standing[e])

Next ==
    \E e \in SafeguardIds :
        Register(e) \/ Verify(e) \/ Expire(e) \/ Invalidate(e) \/ Restore(e)

Spec == Init /\ [][Next]_standing
=============================================================================
