------------------------- MODULE MCCoverageAlgorithm -------------------------
(***************************************************************************)
(* Instances of CoverageAlgorithm for TLC: every list of up to MaxRows     *)
(* safeguards, in any order, and every short text of causes and            *)
(* consequences.                                                           *)
(***************************************************************************)
EXTENDS CoverageAlgorithm

CONSTANTS MaxRows, MaxParts

Reference == 9

\* Two keys and the empty one, three effects; verified long ago, so that
\* the interval of two seconds ends in the second of the reference time or
\* in the one before, or just now.
RowKinds ==
    [key : {1, 2}, effect : {20, 45, 70}, interval : {2 * Second},
     verifiedAt : {Reference - 2 * Second - 2, Reference}, state : {"active"}]
    \cup
    [key : {0, 1}, effect : {70}, interval : {2 * Second},
     verifiedAt : {None} \cup (Reference - 2 * Second - 2 .. Reference),
     state : {"active", "invalid"}]

Lists(kinds, n) ==
    {[k \in 1 .. n |->
        [id |-> p[k], key |-> f[p[k]].key, effect |-> f[p[k]].effect,
         interval |-> f[p[k]].interval, verifiedAt |-> f[p[k]].verifiedAt,
         state |-> f[p[k]].state]] :
     p \in SetToSeqs(1 .. n), f \in [1 .. n -> kinds]}

Parts == {[text |-> None, spelling |-> 0], [text |-> "pump", spelling |-> 0],
          [text |-> "pump", spelling |-> 1], [text |-> "valve", spelling |-> 0]}

TextsUpTo(max) == UNION {[1 .. n -> Parts] : n \in 0 .. max}

OneText == <<[text |-> "pump", spelling |-> 0]>>

RiskOnly(l, v) == [cause |-> OneText, consequence |-> OneText,
                   likelihood |-> l, severity |-> v]

RowInputs ==
    {[rows |-> rows, scenario |-> RiskOnly(lv[1], lv[2]), reference |-> Reference] :
        rows \in UNION {Lists(RowKinds, n) : n \in 0 .. MaxRows},
        lv \in {<<1, 2>>, <<4, 5>>, <<5, 5>>}}

ThreeRows == Lists({kind \in RowKinds : kind.verifiedAt = Reference /\ kind.state = "active"
                                           /\ kind.key # 0}, 3)

ThreeRowInputs ==
    {[rows |-> rows, scenario |-> RiskOnly(4, 5), reference |-> Reference] : rows \in ThreeRows}

TextInputs ==
    {[rows |-> rows, scenario |-> [cause |-> c, consequence |-> q,
                                   likelihood |-> 4, severity |-> 5],
      reference |-> Reference] :
        rows \in {<<>>} \cup {<<row>> : row \in
            {[id |-> 1, key |-> 1, effect |-> e, interval |-> 2 * Second,
              verifiedAt |-> Reference, state |-> "active"] : e \in {20, 70}}},
        c \in TextsUpTo(MaxParts), q \in TextsUpTo(MaxParts - 1)}

MCInputs == RowInputs \cup ThreeRowInputs \cup TextInputs

\* Every likelihood times severity and every list of up to three of the
\* effects above for which the doubles are above the whole number:
\* 20 * (1 - 0.7) is 6.000000000000001, 25 * (0.8 * 0.8) is
\* 16.000000000000004, the others likewise.  None comes out below.
MCRoundedUp ==
    {<<10, <<70>>>>, <<20, <<70>>>>, <<25, <<20, 20>>>>, <<25, <<20, 45>>>>,
     <<25, <<45, 20>>>>}
=============================================================================
