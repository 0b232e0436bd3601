-------------------------- MODULE CoverageAlgorithm --------------------------
(***************************************************************************)
(* algorithm/: what Evaluate makes of a scenario and its safeguards, as    *)
(* operators over frozen inputs, and one evaluation as a step.             *)
(*                                                                         *)
(* Instants are counted in ticks, Second to the second; an interval is a   *)
(* whole number of seconds.  Effectiveness is counted in hundredths, so    *)
(* that products are exact; where Go's doubles come out differently is     *)
(* said at CoverageScore and Residual.  The text of a cause or a           *)
(* consequence is its statements; two spellings of one statement differ in *)
(* letter case.                                                            *)
(***************************************************************************)
EXTENDS Integers, Sequences, FiniteSets, SequencesExt

CONSTANTS
    Second,     \* ticks in a second
    ScoreParts, \* parts the full score is counted in, a million in the code
    Inputs,     \* evaluations to be made: rows, scenario, reference time
    RoundedUp,  \* <<initial, effects>> whose residual risk the doubles of
                \* the build put just above a whole number
    None        \* nil / absent

VARIABLES
    input,      \* what Run loaded, the rows in the database's order
    result      \* what Evaluate returned, or None

vars == <<input, result>>

Row == [id : Nat, key : Nat, effect : Int, interval : Int,
        verifiedAt : Int \cup {None}, state : STRING]

Part == [text : STRING \cup {None}, spelling : Nat]

Scenario == [cause : Seq(Part), consequence : Seq(Part),
             likelihood : 1 .. 5, severity : 1 .. 5]

ASSUME UnitsAssumption == Second \in Nat \ {0} /\ ScoreParts \in Nat \ {0}

ASSUME NoneAssumption == None \notin Int /\ None \notin STRING

\* Ids are a primary key; likelihood, severity and effectiveness are checked
\* on entry.
ASSUME InputsAssumption ==
    \A i \in Inputs :
        /\ i \in [rows : Seq(Row), scenario : Scenario, reference : Int]
        /\ \A j, k \in DOMAIN i.rows : i.rows[j].id = i.rows[k].id => j = k
        /\ \A k \in DOMAIN i.rows :
              i.rows[k].interval % Second = 0 /\ i.rows[k].effect <= 100

----------------------------------------------------------------------------
\* sort.Slice: each element in the place that the number of those before it
\* gives.
InOrder(S, before(_, _)) ==
    [p \in 1 .. Cardinality(S) |->
        CHOOSE x \in S : Cardinality({y \in S : before(y, x)}) = p - 1]

----------------------------------------------------------------------------
(***************************************************************************)
(* graph.go                                                                *)
(***************************************************************************)
Truncate(t) == t - (t % Second)

\* Mutant: rows of one key stay in the order of the database.
ByKeyAlone(a, b) == a.key < b.key
ByKeyThenId(a, b) == a.key < b.key \/ (a.key = b.key /\ a.id < b.id)

\* Rows that compare as equal stay in the order of the database.
Earlier(rows, j, k) ==
    ByKeyThenId(rows[j], rows[k])
        \/ (~ByKeyThenId(rows[k], rows[j]) /\ j < k)

Frozen(row) ==
    [row EXCEPT !.verifiedAt = IF @ = None THEN None ELSE Truncate(@)]

NewSnapshot(i) ==
    LET order == InOrder(DOMAIN i.rows, LAMBDA j, k : Earlier(i.rows, j, k)) IN
    [scenario |-> i.scenario, reference |-> Truncate(i.reference),
     safeguards |-> [p \in DOMAIN order |-> Frozen(i.rows[order[p]])]]

Unspecified == [text |-> "unspecified", spelling |-> 0]

\* The parts that are not blank and differ, letter case aside, from those
\* before; a blank part has no text.
\* Mutant: spellings are compared as they are.
CaseMatters(parts, k) ==
    parts[k].text # None /\ \A j \in 1 .. k - 1 : parts[j] # parts[k]
IsNew(parts, k) ==
    parts[k].text # None /\ \A j \in 1 .. k - 1 : parts[j].text # parts[k].text

SplitStatements(parts) ==
    LET kept == {k \in DOMAIN parts : IsNew(parts, k)}
        order == InOrder(kept, LAMBDA j, k : j < k) IN
    IF kept = {} THEN <<Unspecified>> ELSE [p \in DOMAIN order |-> parts[order[p]]]

Side(kind, statements) == {<<kind, k>> : k \in DOMAIN statements}

BuildGraph(s) ==
    LET causes == Side("cause", SplitStatements(s.scenario.cause))
        consequences == Side("consequence", SplitStatements(s.scenario.consequence))
        layers == {<<"safeguard", s.safeguards[k].id>> : k \in DOMAIN s.safeguards}
        node == <<"node", 0>> IN
    [node |-> {node} \cup causes \cup consequences \cup layers,
     edge |-> (causes \X {node}) \cup ({node} \X consequences) \cup (layers \X consequences)]

\* graph.Paths: all causes by all consequences, numbered row by row.
Paths(s) ==
    LET width == Len(SplitStatements(s.scenario.consequence)) IN
    [p \in 1 .. Len(SplitStatements(s.scenario.cause)) * width |->
        [cause |-> ((p - 1) \div width) + 1, consequence |-> ((p - 1) % width) + 1]]

----------------------------------------------------------------------------
(***************************************************************************)
(* independence.go                                                         *)
(***************************************************************************)
\* Mutant: the last instant of the interval is refused.
RefusedAtExpiry(row, reference) == reference >= row.verifiedAt + row.interval
PastExpiry(row, reference) == reference > row.verifiedAt + row.interval

\* The empty string where the row is eligible.
IneligibleReason(row, reference) ==
    IF row.state # "active" THEN "lifecycle"
    ELSE IF row.effect \notin 1 .. 100 THEN "effectiveness"
    ELSE IF row.verifiedAt = None THEN "unverified"
    ELSE IF row.interval <= 0 THEN "interval"
    ELSE IF PastExpiry(row, reference) THEN "expired" ELSE ""

\* Key 0 is the empty key, which blanks in a request are trimmed to.
Reason(row, reference) ==
    IF row.key = 0 THEN "missing key" ELSE IneligibleReason(row, reference)

Rows(s) == {s.safeguards[k] : k \in DOMAIN s.safeguards}

Eligible(s) == {row \in Rows(s) : Reason(row, s.reference) = ""}

\* Mutant: the weakest layer of a key is kept.
WeakestFirst(a, b) == a.effect < b.effect \/ (a.effect = b.effect /\ a.id < b.id)
StrongestFirst(a, b) == a.effect > b.effect \/ (a.effect = b.effect /\ a.id < b.id)

\* items[0] of the sorted group of a key.
Kept(group) == CHOOSE a \in group : \A b \in group : a = b \/ StrongestFirst(a, b)

ResolveIndependence(s) ==
    LET eligible == Eligible(s)
        group(key) == {row \in eligible : row.key = key}
        keys == {row.key : row \in eligible} IN
    [retained |-> {Kept(group(key)) : key \in keys},
     ignored |-> UNION {group(key) \ {Kept(group(key))} : key \in keys},
     rejected |-> Rows(s) \ eligible]

----------------------------------------------------------------------------
(***************************************************************************)
(* scoring.go                                                              *)
(***************************************************************************)
\* The effects of the retained layers, in the order of their keys.
Effects(retained) ==
    LET ordered == InOrder(retained, ByKeyThenId) IN
    [k \in DOMAIN ordered |-> ordered[k].effect]

Product(f) == FoldFunction(LAMBDA a, b : a * b, 1, f)

Whole(effects) == Product([k \in DOMAIN effects |-> 100])

\* The product of 1 - effectiveness, over Whole.
Remaining(effects) == Product([k \in DOMAIN effects |-> 100 - effects[k]])

\* combined >= coveredThreshold
IsCovered(effects) == 2 * Remaining(effects) <= Whole(effects)

\* Mutant: effects are added up.
AddedUp(effects) == (ScoreParts * SumFunction(effects)) \div 100
\* round4(combined * 100): the nearest part, a half upwards.  It is exact for
\* up to three layers; of more, the doubles may take a half downwards.
CoverageScore(effects) ==
    (2 * (Whole(effects) - Remaining(effects)) * ScoreParts + Whole(effects))
        \div (2 * Whole(effects))

CeilingDiv(a, b) == -((-a) \div b)

\* Where the exact product is whole, the product of the doubles may come
\* out above it and the ceiling is one higher; not without layers, where
\* the doubles are exact.  (Up to six layers: a product that is not whole is
\* then further from the next whole number than the doubles err.)
ASSUME RoundedUpAssumption ==
    \A p \in RoundedUp : p[2] # <<>> /\ (p[1] * Remaining(p[2])) % Whole(p[2]) = 0

Residual(initial, effects) ==
    LET exact == CeilingDiv(initial * Remaining(effects), Whole(effects))
        index == IF <<initial, effects>> \in RoundedUp THEN exact + 1 ELSE exact IN
    IF index < 1 THEN 1 ELSE index

RiskRank(score) ==
    IF score >= 20 THEN "critical" ELSE IF score >= 12 THEN "high"
    ELSE IF score >= 6 THEN "medium" ELSE "low"

Initial(s) == s.scenario.likelihood * s.scenario.severity

----------------------------------------------------------------------------
(***************************************************************************)
(* evaluator.go                                                            *)
(***************************************************************************)
Evaluation(i) ==
    LET s == NewSnapshot(i)
        independence == ResolveIndependence(s)
        effects == Effects(independence.retained) IN
    [snapshot |-> s, independence |-> independence,
     score |-> CoverageScore(effects),
     paths |-> Paths(s),
     uncovered |-> IF IsCovered(effects) THEN <<>> ELSE Paths(s),
     residual |-> Residual(Initial(s), effects),
     riskBefore |-> RiskRank(Initial(s)),
     riskAfter |-> RiskRank(Residual(Initial(s), effects))]

Init ==
    /\ input \in Inputs
    /\ result = None

Evaluate ==
    /\ result = None
    /\ result' = Evaluation(input)
    /\ UNCHANGED input

Next == Evaluate

Spec == Init /\ [][Next]_vars

----------------------------------------------------------------------------
(***************************************************************************)
(* Properties                                                              *)
(***************************************************************************)
Done == result # None

(* gb-531.md: the same input gives the same result.  Whatever the order in *)
(* which the database returns the rows, also where its collation is not    *)
(* Go's, the frozen snapshot, and with it the input hash, is the same.     *)
SnapshotIgnoresRowOrder ==
    Done => \A rows \in SetToSeqs(Range(input.rows)) :
               NewSnapshot([input EXCEPT !.rows = rows]) = result.snapshot

Ids(rows) == {row.id : row \in rows}

(* README, step 3: of the layers with one independence key one takes part, *)
(* the most effective and then the first; each of the others is listed as  *)
(* deduplicated or as rejected, and none is lost or listed twice.          *)
OneContributionPerKey ==
    Done =>
        LET i == result.independence IN
        /\ Ids(i.retained) \cup Ids(i.ignored) \cup Ids(i.rejected)
              = Ids(Rows(result.snapshot))
        /\ Cardinality(i.retained) + Cardinality(i.ignored) + Cardinality(i.rejected)
              = Len(input.rows)
        /\ \A a, b \in i.retained : a.key = b.key => a = b
        /\ \A b \in i.ignored : \E a \in i.retained :
              a.key = b.key /\ (a.effect > b.effect \/ (a.effect = b.effect /\ a.id < b.id))

\* model.Safeguard.IsEffectiveAt, with the instants that are stored.
IsEffectiveAt(row, t) ==
    /\ row.state = "active" /\ row.effect > 0
    /\ row.verifiedAt # None /\ row.interval > 0
    /\ t <= row.verifiedAt + row.interval

(* The ledger and the algorithm each decide for themselves whether a       *)
(* verification still holds, on instants of different precision.  A layer  *)
(* effective at the reference time (and with a key) takes part; one that   *)
(* takes part was effective within the last second.                        *)
EffectiveTakesPart ==
    Done =>
        \A k \in DOMAIN input.rows :
            LET row == input.rows[k]
                takesPart == row.id \notin Ids(result.independence.rejected) IN
            /\ row.key # 0 /\ IsEffectiveAt(row, input.reference) => takesPart
            /\ takesPart => IsEffectiveAt(row, input.reference - (Second - 1))

\* The probability, over Whole, that all layers of S work.
AllWork(effects, S) ==
    Product([k \in DOMAIN effects |-> IF k \in S THEN effects[k] ELSE 100])

\* That at least one of the layers works, by inclusion and exclusion.
AnyWorks(effects) ==
    SumFunction([S \in (SUBSET DOMAIN effects) \ {{}} |->
                    IF Cardinality(S) % 2 = 1 THEN AllWork(effects, S)
                    ELSE -AllWork(effects, S)])

Distance(a, b) == IF a < b THEN b - a ELSE a - b

(* README, step 4: the score is the probability that at least one retained *)
(* layer works, were they independent, to the nearest part; paths are      *)
(* uncovered below one half.                                               *)
ScoreIsProbability ==
    Done =>
        LET effects == Effects(result.independence.retained) IN
        /\ 2 * Distance(result.score * Whole(effects), AnyWorks(effects) * ScoreParts)
              <= Whole(effects)
        /\ result.uncovered = <<>> <=> 2 * AnyWorks(effects) >= Whole(effects)

Without(i, k) == [i EXCEPT !.rows = RemoveAt(@, k)]

RanksUp == <<"low", "medium", "high", "critical">>

RankOf(rank) == CHOOSE k \in DOMAIN RanksUp : RanksUp[k] = rank

(* Taking a layer away never raises the score or lowers the residual risk, *)
(* also where it is one of several with its key; and no protection makes a *)
(* risk rank higher than it is without.                                    *)
LessProtectionIsNoBetter ==
    Done =>
        /\ RankOf(result.riskAfter) <= RankOf(result.riskBefore)
        /\ \A k \in DOMAIN input.rows :
              LET less == Evaluation(Without(input, k)) IN
              less.score <= result.score /\ less.residual >= result.residual

\* q is reached from c along the edges: it is in every set of nodes that has
\* c and that no edge leaves.
Connects(G, c, q) ==
    \A X \in SUBSET G.node :
        c \in X /\ (\A e \in G.edge : e[1] \in X => e[2] \in X) => q \in X

(* README, steps 1 and 2: the paths are the cause and consequence pairs    *)
(* that the graph connects, each once; the statements of a side are those  *)
(* of its text, each once, whatever the spelling; all paths are uncovered  *)
(* where no layer takes part.                                              *)
PathsAreTheGraphs ==
    Done =>
        LET G == BuildGraph(result.snapshot) IN
        /\ Range(result.paths) =
              {p \in [cause : 1 .. Len(input.scenario.cause) + 1,
                      consequence : 1 .. Len(input.scenario.consequence) + 1] :
                  /\ <<"cause", p.cause>> \in G.node
                  /\ <<"consequence", p.consequence>> \in G.node
                  /\ Connects(G, <<"cause", p.cause>>, <<"consequence", p.consequence>>)}
        /\ IsInjective(result.paths)
        /\ \A side \in {input.scenario.cause, input.scenario.consequence} :
              LET split == SplitStatements(side)
                  texts == {part.text : part \in Range(side)} \ {None} IN
              IF texts = {} THEN split = <<Unspecified>>
              ELSE /\ {part.text : part \in Range(split)} = texts
                   /\ Len(split) = Cardinality(texts)
        /\ result.independence.retained = {} => result.uncovered = result.paths
=============================================================================
