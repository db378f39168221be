----------------------------- MODULE BenchProofs -----------------------------
(* Why the benchmark's gate can be trusted for any desired states, any        *)
(* selections and any number of runs and faults: the cells of a run come in   *)
(* the order of the matrix, so each has at most one reference; that all that  *)
(* can run is measured; and that no container left behind stops a run.       *)
EXTENDS Bench, SequenceTheorems, TLAPS

Starting == {"remove", "run", "wait"}
Working == {"remove", "run", "wait", "measure", "loop"}
Steps == Working \cup {"idle", "threw", "stop", "compare", "gate"} \cup Returned
Verdicts == {"none", "identical", "benign", "differs"}

Observations == [desired: Shapes \cup {Nothing.desired}, provided: BOOLEAN]
Cells == [runtime: {"kcl", "kclx", "python"}, scenario: {"bucket-aws", "appstack-aws"},
          phase: {"initial", "observed"}, observed: Observations, canonical: Shapes,
          equivalence: Verdicts]

\* The place of a cell in the matrix, and the place of the one to come.
Rank(c) ==
  (IF c.runtime = "kcl" THEN 0 ELSE IF c.runtime = "kclx" THEN 4 ELSE 8)
  + (IF c.scenario = "bucket-aws" THEN 0 ELSE 2) + (IF c.phase = "initial" THEN 0 ELSE 1)
Cursor == 4 * (runtime - 1) + 2 * (scenario - 1) + (phase - 1)

Typed ==
  /\ pc \in Steps /\ runtime \in 1..3 /\ scenario \in 1..2 /\ phase \in 1..2
  /\ observed \in Observations /\ cells \in Seq(Cells)
  /\ pc = "loop" => answer \in Shapes
InOrder == \A i, j \in 1..Len(cells) : i < j => Rank(cells[i]) < Rank(cells[j])
Ahead ==
  /\ pc \in Working => \A i \in 1..Len(cells) : Rank(cells[i]) < Cursor
  /\ pc = "stop" => \A i \in 1..Len(cells) : Rank(cells[i]) < 4 * runtime
  /\ pc \in Starting => scenario = 1 /\ phase = 1
SameCell(c, d) == c.scenario = d.scenario /\ c.phase = d.phase
Judged ==
  /\ pc \in {"gate"} \cup Returned =>
       \A i, j \in 1..Len(cells) :
         cells[i].runtime = REFERENCE /\ cells[j].runtime # REFERENCE
         /\ SameCell(cells[i], cells[j])
         => \/ cells[j].equivalence = "differs"
            \/ stripEmptyMetadata(cells[i].canonical) = stripEmptyMetadata(cells[j].canonical)
  /\ pc = "passed" => Mismatched = {}

Inv == Typed /\ InOrder /\ Ahead /\ Judged

-----------------------------------------------------------------------------
LEMMA LeastIsLeast ==
  ASSUME NEW S \in SUBSET (1..3), S # {}
  PROVE  Least(S) \in S /\ \A j \in S : Least(S) <= j
<1>1. \E i \in S : \A j \in S : i <= j
  <2>1. CASE 1 \in S
    BY <2>1
  <2>2. CASE 1 \notin S /\ 2 \in S
    BY <2>2
  <2>3. CASE 1 \notin S /\ 2 \notin S
    <3>1. 3 \in S /\ \A j \in S : j = 3
      <4>1. PICK k \in S : TRUE
        OBVIOUS
      <4>2. \A j \in S : j \in 1..3 /\ j # 1 /\ j # 2
        BY <2>3
      <4>3. \A j \in S : j = 3
        BY <4>2
      <4> QED
        BY <4>1, <4>3
    <3> QED
      BY <3>1
  <2> QED
    BY <2>1, <2>2, <2>3
<1> QED
  BY <1>1 DEF Least

LEMMA OnlyOneIsLeast ==
  ASSUME NEW S, NEW i \in S, i \in Nat, \A k \in S : k = i
  PROVE  Least(S) = i
<1>1. \A j \in S : i <= j
  OBVIOUS
<1>2. Least(S) \in S
  BY <1>1 DEF Least
<1> QED
  BY <1>2

\* A later runtime and a later scenario are further on.
LEMMA LaterRuntime ==
  ASSUME NEW r \in 1..3, NEW r2 \in 1..3, r2 >= r + 1
  PROVE  /\ 4 * (r2 - 1) + 2 * (1 - 1) + (1 - 1) >= 4 * r
         /\ 4 * (r2 - 1) + 2 * (1 - 1) + (1 - 1) \in Int
OBVIOUS

LEMMA FurtherOn ==
  ASSUME NEW r \in 1..3, NEW s \in 1..2, NEW p \in 1..2, NEW s2 \in 1..2
  PROVE  /\ s2 > s => 4 * (r - 1) + 2 * (s2 - 1) + (1 - 1) > 4 * (r - 1) + 2 * (s - 1) + (p - 1)
         /\ 4 * (r - 1) + 2 * (s - 1) + (p - 1) \in 0..11
OBVIOUS

LEMMA RankIsNat == ASSUME NEW c \in Cells PROVE Rank(c) \in 0..11
BY DEF Rank, Cells

\* The next scenario is one that can run from there on, and none before it can.
LEMMA GoesOn ==
  ASSUME Typed, NEW j \in 1..3, NextScenario(j)
  PROVE  \/ pc' = "stop" /\ UNCHANGED scenario /\ Runnable(runtime, j) = {}
         \/ /\ pc' = "measure" /\ scenario' \in 1..2 /\ scenario' >= j
            /\ scenario' \in Runnable(runtime, j)
            /\ \A k \in Runnable(runtime, j) : scenario' <= k
<1> DEFINE rest == Runnable(runtime, j)
<1>1. rest \in SUBSET (1..3) /\ \A k \in rest : k \in 1..2 /\ k >= j
  <2>1. Len(SCENARIOS) = 2
    BY DEF SCENARIOS
  <2> QED
    BY <2>1 DEF Runnable
<1>2. CASE rest = {}
  BY <1>2 DEF NextScenario
<1>3. CASE rest # {}
  <2>1. Least(rest) \in rest /\ \A k \in rest : Least(rest) <= k
    BY <1>1, <1>3, LeastIsLeast
  <2>2. pc' = "measure" /\ scenario' = Least(rest)
    BY <1>3 DEF NextScenario
  <2> QED
    BY <1>1, <2>1, <2>2
<1> QED
  BY <1>2, <1>3

\* Steps that measure and judge nothing, and stay before the cell to come.
LEMMA Elsewhere ==
  ASSUME Inv, UNCHANGED cells, Typed',
         \/ pc' \in Steps \ (Working \cup {"stop", "gate"} \cup Returned)
         \/ /\ pc' \in Working /\ pc \in Working /\ UNCHANGED <<runtime, scenario, phase>>
            /\ pc' \in Starting => pc \in Starting
  PROVE  Inv'
BY DEF Inv, InOrder, Ahead, Judged, Working, Starting, Returned, Cursor, Typed, Steps

LEMMA MainKeeps ==
  ASSUME NEW selection \in Selections, NEW scenarios \in Asked, main(selection, scenarios)
  PROVE  Inv'
<1> DEFINE chosen == {j \in 1..Len(runtimes) : runtimes[j] \in selection}
<1>1. /\ cells' = <<>> /\ observed' = Nothing /\ scenario' = 1 /\ phase' = 1
      /\ \/ pc' = "threw" /\ runtime' = 1
         \/ chosen # {} /\ pc' = "remove" /\ runtime' = Least(chosen)
  BY DEF main
<1>2. chosen \in SUBSET (1..3)
  <2>1. Len(runtimes) = 3
    BY DEF runtimes
  <2> QED
    BY <2>1
<1>3. runtime' \in 1..3 /\ pc' \in {"threw", "remove"}
  <2>1. chosen # {} => Least(chosen) \in 1..3
    BY <1>2, LeastIsLeast
  <2> QED
    BY <1>1, <2>1
<1>4. Nothing \in Observations
  BY DEF Nothing, Observations
<1>5. cells' \in Seq(Cells) /\ Len(cells') = 0
  BY <1>1
<1> QED
  BY <1>1, <1>3, <1>4, <1>5
     DEF Inv, Typed, InOrder, Ahead, Judged, Steps, Working, Starting, Returned, Mismatched

\* A cell is recorded from a response of the right shape.
LEMMA MeasureRecords == ASSUME Typed, measure PROVE \E last \in Shapes : Record(last)
BY DEF Typed, measure

LEMMA MeasureKeeps == ASSUME Inv, measure PROVE Inv'
<1>0. PICK last \in Shapes : Record(last)
  BY MeasureRecords DEF Inv
<1>1. /\ cells' = Append(cells,
             [runtime |-> Runtime, scenario |-> Scenario, phase |-> Phase,
              observed |-> observed, canonical |-> last, equivalence |-> "none"])
      /\ observed' = ObservedNext(last)
  BY <1>0 DEF Record
<1> DEFINE cell == [runtime |-> Runtime, scenario |-> Scenario, phase |-> Phase,
                    observed |-> observed, canonical |-> last, equivalence |-> "none"]
<1>2. /\ runtime \in 1..3 /\ scenario \in 1..2 /\ phase \in 1..2 /\ pc = "loop"
      /\ observed \in Observations /\ cells \in Seq(Cells) /\ Len(cells) \in Nat
      /\ UNCHANGED runtime
  BY <1>0 DEF Inv, Typed, measure, Record
<1>3. /\ Runtime \in {"kcl", "kclx", "python"} /\ Scenario \in {"bucket-aws", "appstack-aws"}
      /\ Phase \in {"initial", "observed"}
  BY <1>2 DEF Runtime, Scenario, Phase, runtimes, SCENARIOS, PHASES
<1>4. cell \in Cells
  BY <1>2, <1>3 DEF Cells, Verdicts
<1>5. Rank(cell) = Cursor
  <2>1. (IF cell.runtime = "kcl" THEN 0 ELSE IF cell.runtime = "kclx" THEN 4 ELSE 8) = 4 * (runtime - 1)
    BY <1>2 DEF Runtime, runtimes
  <2>2. (IF cell.scenario = "bucket-aws" THEN 0 ELSE 2) = 2 * (scenario - 1)
    BY <1>2 DEF Scenario, SCENARIOS
  <2>3. (IF cell.phase = "initial" THEN 0 ELSE 1) = phase - 1
    BY <1>2 DEF Phase, PHASES
  <2> QED
    BY <1>2, <2>1, <2>2, <2>3 DEF Rank, Cursor
<1>6. /\ cells' \in Seq(Cells) /\ Len(cells') = Len(cells) + 1
      /\ \A i \in 1..Len(cells) : cells'[i] = cells[i]
      /\ cells'[Len(cells) + 1] = cell
  BY <1>1, <1>2, <1>4
<1>7. \A i \in 1..Len(cells) : Rank(cells[i]) < Cursor
  BY <1>2 DEF Inv, Ahead, Working, Starting
<1>8. InOrder'
  <2> SUFFICES ASSUME NEW i \in 1..Len(cells'), NEW j \in 1..Len(cells'), i < j
               PROVE  Rank(cells'[i]) < Rank(cells'[j])
    BY DEF InOrder, Rank
  <2>1. i \in 1..Len(cells)
    BY <1>2, <1>6
  <2>2. CASE j \in 1..Len(cells)
    BY <1>6, <2>1, <2>2 DEF Inv, InOrder
  <2>3. CASE j = Len(cells) + 1
    BY <1>5, <1>6, <1>7, <2>1, <2>3
  <2> QED
    BY <1>2, <1>6, <2>2, <2>3
<1>9. \A i \in 1..Len(cells') : Rank(cells'[i]) <= Cursor
  <2>1. Cursor \in Int /\ \A i \in 1..Len(cells) : Rank(cells[i]) \in 0..11
    BY <1>2, RankIsNat DEF Cursor
  <2> QED
    BY <1>2, <1>5, <1>6, <1>7, <2>1
<1>10. observed' \in Observations
  BY <1>1 DEF ObservedNext, observedFrom, Nothing, Observations
<1>11. CASE Phase = "initial"
  <2>1. phase = 1 /\ phase' = 2 /\ pc' = "measure" /\ UNCHANGED scenario
    BY <1>0, <1>2, <1>11 DEF Record, Phase, PHASES
  <2>2. Cursor' = Cursor + 1
    BY <1>2, <2>1 DEF Cursor
  <2>3. \A i \in 1..Len(cells') : Rank(cells'[i]) < Cursor'
    <3>1. \A i \in 1..Len(cells') : Rank(cells'[i]) \in 0..11
      BY <1>6, RankIsNat
    <3> QED
      BY <1>2, <1>9, <2>2, <3>1 DEF Cursor
  <2>4. Typed'
    BY <1>2, <1>6, <1>10, <2>1 DEF Typed, Inv, Steps, Working, Starting
  <2> QED
    BY <1>2, <1>8, <2>1, <2>3, <2>4 DEF Inv, Ahead, Judged, Rank, Working, Starting, Returned
<1>12. CASE Phase # "initial"
  <2>1. phase' = 1 /\ NextScenario(scenario + 1) /\ scenario + 1 \in 1..3 /\ Typed
    BY <1>0, <1>2, <1>12 DEF Record, Inv
  <2>3. CASE pc' = "stop" /\ UNCHANGED scenario
    <3>2. \A i \in 1..Len(cells') : Rank(cells'[i]) < 4 * runtime'
      <4>1. \A i \in 1..Len(cells') : Rank(cells'[i]) \in 0..11
        BY <1>6, RankIsNat
      <4> QED
        BY <1>2, <1>9, <4>1 DEF Cursor
    <3>3. Typed'
      BY <1>2, <1>6, <1>10, <2>1, <2>3 DEF Typed, Steps
    <3> QED
      BY <1>8, <2>3, <3>2, <3>3 DEF Inv, Ahead, Judged, Rank, Working, Starting, Returned
  <2>4. CASE pc' = "measure" /\ scenario' \in 1..2 /\ scenario' > scenario
    <3>2. \A i \in 1..Len(cells') : Rank(cells'[i]) < Cursor'
      <4>1. \A i \in 1..Len(cells') : Rank(cells'[i]) \in 0..11
        BY <1>6, RankIsNat
      <4>2. Cursor' > Cursor /\ Cursor \in Int /\ Cursor' \in Int
        <5>1. phase' = 1 /\ runtime' = runtime
          BY <1>2, <2>1
        <5>2. /\ runtime \in 1..3 /\ scenario \in 1..2 /\ phase \in 1..2
              /\ scenario' \in 1..2 /\ scenario' > scenario
          BY <1>2, <2>4
        <5>3. Cursor' = 4 * (runtime - 1) + 2 * (scenario' - 1) + (1 - 1)
          BY <5>1 DEF Cursor
        <5>4. Cursor' > Cursor
          BY <5>2, <5>3, FurtherOn DEF Cursor
        <5> QED
          BY <5>2, <5>3, <5>4 DEF Cursor
      <4> QED
        BY <1>9, <4>1, <4>2
    <3>3. Typed'
      BY <1>2, <1>6, <1>10, <2>1, <2>4 DEF Typed, Steps, Working, Starting
    <3> QED
      BY <1>8, <2>4, <3>2, <3>3 DEF Inv, Ahead, Judged, Rank, Working, Starting, Returned
  <2>5. scenario' \in 1..2 /\ scenario' >= scenario + 1 => scenario' > scenario
    BY <1>2
  <2> QED
    BY <2>1, <2>3, <2>4, <2>5, GoesOn
<1> QED
  BY <1>11, <1>12

\* A runtime that serves goes on to its first scenario that is asked for.
LEMMA ReadyKeeps == ASSUME Inv, waitForReady PROVE Inv'
<1>1. /\ pc = "wait" /\ NextScenario(1) /\ UNCHANGED <<runtime, phase, observed, cells>>
      /\ Typed /\ runtime \in 1..3 /\ scenario = 1 /\ phase = 1
  BY DEF waitForReady, Inv, Typed, Ahead, Starting
<1>2. \A i \in 1..Len(cells) : Rank(cells[i]) \in 0..11 /\ Rank(cells[i]) < 4 * (runtime - 1)
  <2>1. Cursor = 4 * (runtime - 1)
    BY <1>1 DEF Cursor
  <2> QED
    BY <1>1, <2>1, RankIsNat DEF Inv, Typed, Ahead, Working
<1>3. \/ pc' = "stop" /\ UNCHANGED scenario
      \/ pc' = "measure" /\ scenario' \in 1..2
  BY <1>1, GoesOn
<1>4. Typed'
  BY <1>1, <1>3 DEF Typed, Steps, Working
<1>5. InOrder'
  BY <1>1 DEF Inv, InOrder, Rank
<1>6. Judged'
  BY <1>1, <1>3 DEF Judged, Returned
<1>7. Ahead'
  <2>1. pc' = "measure" => Cursor' \in Int /\ Cursor' >= 4 * (runtime - 1)
    BY <1>1, <1>3 DEF Cursor
  <2>2. CASE pc' = "stop"
    <3>1. \A i \in 1..Len(cells) : Rank(cells[i]) < 4 * runtime
      BY <1>1, <1>2
    <3> QED
      BY <1>1, <2>2, <3>1 DEF Ahead, Rank, Working, Starting
  <2>3. CASE pc' = "measure"
    <3>1. \A i \in 1..Len(cells) : Rank(cells[i]) < Cursor'
      BY <1>1, <1>2, <2>1, <2>3
    <3> QED
      BY <1>1, <2>3, <3>1 DEF Ahead, Rank, Working, Starting
  <2> QED
    BY <1>3, <2>2, <2>3
<1> QED
  BY <1>4, <1>5, <1>6, <1>7 DEF Inv

LEMMA StopKeeps == ASSUME Inv, StopRuntime PROVE Inv'
<1> DEFINE rest == Selected(runtime + 1)
<1>1. /\ pc = "stop" /\ UNCHANGED <<observed, cells>> /\ scenario' = 1 /\ phase' = 1
      /\ \/ pc' = "compare" /\ UNCHANGED runtime
         \/ rest # {} /\ pc' = "remove" /\ runtime' = Least(rest)
  BY DEF StopRuntime
<1>2. runtime \in 1..3 /\ cells \in Seq(Cells) /\ Len(cells) \in Nat
  BY DEF Inv, Typed
<1>3. rest \in SUBSET (1..3) /\ \A j \in rest : j >= runtime + 1
  <2>1. Len(runtimes) = 3
    BY DEF runtimes
  <2> QED
    BY <1>2, <2>1 DEF Selected
<1>4. CASE pc' = "compare" /\ UNCHANGED runtime
  <2>1. Typed'
    BY <1>1, <1>4 DEF Inv, Typed, Steps
  <2> QED
    BY <1>1, <1>4, <2>1, Elsewhere DEF Steps, Working, Starting, Returned
<1>5. CASE rest # {} /\ pc' = "remove" /\ runtime' = Least(rest)
  <2>1. runtime' \in 1..3 /\ runtime' >= runtime + 1
    BY <1>3, <1>5, LeastIsLeast
  <2>2. Typed'
    BY <1>1, <1>5, <2>1 DEF Inv, Typed, Steps, Working, Starting
  <2>3. \A i \in 1..Len(cells) : Rank(cells[i]) < Cursor'
    <3>1. \A i \in 1..Len(cells) : Rank(cells[i]) \in 0..11 /\ Rank(cells[i]) < 4 * runtime
      BY <1>1, <1>2, RankIsNat DEF Inv, Ahead
    <3>2. Cursor' >= 4 * runtime /\ Cursor' \in Int
      <4>1. Cursor' = 4 * (runtime' - 1) + 2 * (1 - 1) + (1 - 1)
        BY <1>1 DEF Cursor
      <4>2. runtime \in 1..3 /\ runtime' \in 1..3 /\ runtime' >= runtime + 1
        BY <1>2, <2>1
      <4>3. /\ 4 * (runtime' - 1) + 2 * (1 - 1) + (1 - 1) >= 4 * runtime
            /\ 4 * (runtime' - 1) + 2 * (1 - 1) + (1 - 1) \in Int
        BY <4>2, LaterRuntime
      <4> QED
        BY <4>1, <4>3
    <3> QED
      BY <1>2, <3>1, <3>2
  <2> QED
    BY <1>1, <1>5, <2>2, <2>3 DEF Inv, InOrder, Ahead, Judged, Rank, Working, Starting, Returned
<1> QED
  BY <1>1, <1>4, <1>5

-----------------------------------------------------------------------------
\* In order, so one reference for a cell.
LEMMA OneReference ==
  ASSUME Typed, InOrder, NEW i \in 1..Len(cells), NEW j \in 1..Len(cells),
         cells[i].runtime = cells[j].runtime, SameCell(cells[i], cells[j])
  PROVE  i = j
<1>1. Rank(cells[i]) = Rank(cells[j])
  BY DEF Rank, SameCell
<1>2. Rank(cells[i]) \in 0..11 /\ Len(cells) \in Nat
  BY RankIsNat DEF Typed
<1> QED
  BY <1>1, <1>2 DEF InOrder

LEMMA CompareKeeps == ASSUME Inv, Compare PROVE Inv'
<1>1. /\ cells' = [i \in DOMAIN cells |-> [cells[i] EXCEPT !.equivalence = Verdict(cells[i])]]
      /\ pc' = "gate" /\ UNCHANGED cursor
  BY DEF Compare
<1>2. cells \in Seq(Cells) /\ Len(cells) \in Nat /\ DOMAIN cells = 1..Len(cells) /\ Typed /\ InOrder
  BY DEF Inv, Typed
<1>3. ASSUME NEW c \in Cells PROVE Verdict(c) \in Verdicts
  BY DEF Verdict, Verdicts
<1>4. ASSUME NEW i \in 1..Len(cells)
      PROVE  /\ cells'[i] \in Cells
             /\ cells'[i].runtime = cells[i].runtime
             /\ SameCell(cells'[i], cells[i])
             /\ cells'[i].canonical = cells[i].canonical
             /\ cells'[i].equivalence = Verdict(cells[i])
  <2>1. cells[i] \in Cells /\ Verdict(cells[i]) \in Verdicts
    BY <1>2, <1>3
  <2>2. cells'[i] = [cells[i] EXCEPT !.equivalence = Verdict(cells[i])]
    BY <1>1, <1>2
  <2> HIDE DEF Verdict
  <2> QED
    BY <2>1, <2>2 DEF Cells, SameCell
<1>5. cells' \in Seq(Cells) /\ Len(cells') = Len(cells)
  <2>1. DOMAIN cells' = 1..Len(cells)
    BY <1>1, <1>2
  <2>2. cells' \in [1..Len(cells) -> Cells]
    BY <1>1, <1>2, <1>4, <2>1
  <2> QED
    BY <1>2, <2>2
<1>6. Typed'
  BY <1>1, <1>2, <1>5 DEF Typed, cursor, Steps
<1>7. \A i \in 1..Len(cells) : Rank(cells'[i]) = Rank(cells[i])
  BY <1>4 DEF Rank, SameCell
<1>8. InOrder'
  BY <1>2, <1>5, <1>7 DEF InOrder, Rank
<1>9. ASSUME NEW i \in 1..Len(cells), NEW j \in 1..Len(cells),
             cells[i].runtime = REFERENCE, cells[j].runtime # REFERENCE,
             SameCell(cells[i], cells[j])
      PROVE  \/ Verdict(cells[j]) = "differs"
             \/ stripEmptyMetadata(cells[i].canonical) = stripEmptyMetadata(cells[j].canonical)
  <2>1. i \in ReferenceOf(cells[j])
    BY <1>2, <1>9 DEF ReferenceOf, SameCell
  <2>2. ASSUME NEW k \in ReferenceOf(cells[j]) PROVE k = i
    <3>1. k \in 1..Len(cells) /\ cells[k].runtime = cells[i].runtime /\ SameCell(cells[k], cells[i])
      BY <1>2, <1>9 DEF ReferenceOf, SameCell
    <3> QED
      BY <1>2, <3>1, OneReference
  <2>3. Least(ReferenceOf(cells[j])) = i
    <3>1. i \in Nat
      OBVIOUS
    <3> QED
      BY <2>1, <2>2, <3>1, OnlyOneIsLeast
  <2>4. ReferenceOf(cells[j]) # {}
    BY <2>1
  <2> DEFINE wanted == cells[i].canonical
             given == cells[j].canonical
  <2>5. Verdict(cells[j]) =
          CASE ~diffText(wanted, given) -> "identical"
            [] diffText(wanted, given)
               /\ ~diffText(stripEmptyMetadata(wanted), stripEmptyMetadata(given)) -> "benign"
            [] OTHER -> "differs"
    BY <1>9, <2>3, <2>4 DEF Verdict
  <2>6. CASE wanted = given
    BY <2>6
  <2>7. CASE stripEmptyMetadata(wanted) = stripEmptyMetadata(given)
    BY <2>7
  <2>8. CASE wanted # given /\ stripEmptyMetadata(wanted) # stripEmptyMetadata(given)
    BY <2>5, <2>8 DEF diffText
  <2> QED
    BY <2>6, <2>7, <2>8
<1>10. Judged'
  <2>0. pc' = "gate" /\ pc' # "passed"
    BY <1>1
  <2> SUFFICES ASSUME NEW i \in 1..Len(cells'), NEW j \in 1..Len(cells'),
                      cells'[i].runtime = REFERENCE, cells'[j].runtime # REFERENCE,
                      SameCell(cells'[i], cells'[j])
               PROVE  \/ cells'[j].equivalence = "differs"
                      \/ stripEmptyMetadata(cells'[i].canonical)
                           = stripEmptyMetadata(cells'[j].canonical)
    BY <2>0 DEF Judged, SameCell, REFERENCE, stripEmptyMetadata
  <2>1. /\ cells[i].runtime = REFERENCE /\ cells[j].runtime # REFERENCE
        /\ SameCell(cells[i], cells[j])
        /\ i \in 1..Len(cells) /\ j \in 1..Len(cells)
    BY <1>4, <1>5 DEF SameCell
  <2> QED
    BY <1>4, <1>9, <2>1
<1>11. Ahead'
  BY <1>1 DEF Ahead, Working, Starting
<1> QED
  BY <1>6, <1>8, <1>10, <1>11 DEF Inv

LEMMA GateKeeps == ASSUME Inv, NEW noGate \in BOOLEAN, Gate(noGate) PROVE Inv'
<1>1. /\ pc = "gate" /\ pc' \in Returned /\ UNCHANGED <<cursor, cells>>
      /\ pc' = "passed" => Mismatched = {}
  BY DEF Gate, Returned
<1>2. Typed'
  BY <1>1 DEF Inv, Typed, Steps, Returned, cursor
<1>3. Judged'
  BY <1>1 DEF Inv, Judged, Mismatched, SameCell, stripEmptyMetadata
<1>4. InOrder' /\ Ahead'
  BY <1>1 DEF Inv, InOrder, Ahead, Rank, Working, Starting, Returned
<1> QED
  BY <1>2, <1>3, <1>4 DEF Inv

\* The faults and the functions' own steps, and the steps of a run that only
\* move containers.
LEMMA RestKeeps ==
  ASSUME Inv,
         ClearName \/ startFunction \/ FirstCall \/ Fatal \/ NoAnswer \/ Throws
  PROVE  Inv'
<1>1. /\ UNCHANGED <<runtime, scenario, phase, observed, cells>> /\ pc \in Working \cup {"stop", "gate"}
      /\ pc' \in {"run", "wait", "loop", "threw"}
      /\ pc \in {"stop", "gate"} => pc' = "threw"
      /\ pc' = "loop" => answer' \in Shapes
      /\ pc' \in Starting => pc \in Starting
  BY DEF ClearName, startFunction, FirstCall, Fatal, NoAnswer, Throws, cursor, Working, Starting
<1>2. Typed'
  BY <1>1 DEF Inv, Typed, Steps, Working, Starting
<1> QED
  BY <1>1, <1>2, Elsewhere DEF Steps, Working, Starting, Returned

LEMMA StutterKeeps == ASSUME Inv, UNCHANGED <<pc, cursor, cells>> PROVE Inv'
BY DEF Inv, Typed, InOrder, Ahead, Judged, Rank, Cursor, cursor, Mismatched, SameCell,
       stripEmptyMetadata

LEMMA NextKeeps == Inv /\ [Next]_vars => Inv'
<1> SUFFICES ASSUME Inv, [Next]_vars PROVE Inv'
  OBVIOUS
<1>1. ASSUME NEW selection \in Selections, NEW scenarios \in Asked, main(selection, scenarios)
      PROVE  Inv'
  BY <1>1, MainKeeps
<1>2. CASE Advance
  <2>1. ASSUME NEW noGate \in BOOLEAN, Gate(noGate) PROVE Inv'
    BY <2>1, GateKeeps
  <2> QED
    BY <1>2, <2>1, RestKeeps, ReadyKeeps, MeasureKeeps, StopKeeps, CompareKeeps DEF Advance
<1>3. CASE Throws
  BY <1>3, RestKeeps
<1>4. ASSUME NEW n \in Names, ContainerBoots(n) \/ ContainerDies(n) PROVE Inv'
  <2>1. UNCHANGED <<pc, cursor, cells>>
    BY <1>4 DEF ContainerBoots, ContainerDies
  <2> QED
    BY <2>1, StutterKeeps
<1>5. CASE UNCHANGED vars
  BY <1>5, StutterKeeps DEF vars
<1> QED
  BY <1>1, <1>2, <1>3, <1>4, <1>5 DEF Next

LEMMA InitIsInv == Init => Inv
<1> SUFFICES ASSUME Init PROVE Inv
  OBVIOUS
<1>1. cells = <<>> /\ Len(cells) = 0 /\ cells \in Seq(Cells)
  BY DEF Init
<1>2. Nothing \in Observations
  BY DEF Nothing, Observations
<1> QED
  BY <1>1, <1>2 DEF Init, Inv, Typed, InOrder, Ahead, Judged, Steps, Working, Starting, Returned, Mismatched

\* Nobody passes the gate who desires something else than the reference did in
\* the same scenario and phase, empty metadata maps apart.
THEOREM GateIsSound == Spec => []GateIsHonest
<1>1. Inv => GateIsHonest
  <2> SUFFICES ASSUME Inv, pc = "passed", NEW i \in DOMAIN cells, NEW j \in DOMAIN cells,
                      cells[i].runtime = REFERENCE, SameCell(cells[i], cells[j])
               PROVE  stripEmptyMetadata(cells[i].canonical)
                        = stripEmptyMetadata(cells[j].canonical)
    BY DEF GateIsHonest, SameCell
  <2>1. DOMAIN cells = 1..Len(cells) /\ Typed /\ InOrder
    BY DEF Inv, Typed
  <2>2. CASE cells[j].runtime = REFERENCE
    BY <2>1, <2>2, OneReference
  <2>3. CASE cells[j].runtime # REFERENCE
    <3>1. cells[j].equivalence # "differs"
      BY DEF Inv, Judged, Mismatched
    <3> QED
      BY <2>1, <2>3, <3>1 DEF Inv, Judged, Returned
  <2> QED
    BY <2>2, <2>3
<1> QED
  BY <1>1, InitIsInv, NextKeeps, PTL DEF Spec

-----------------------------------------------------------------------------
(* The matrix is filled up to the cursor and no further.                    *)

IsAt(c, r, s, p) ==
  c.runtime = runtimes[r] /\ c.scenario = SCENARIOS[s] /\ c.phase = PHASES[p]
Place(r, s, p) == 4 * (r - 1) + 2 * (s - 1) + (p - 1)
\* The runtime and the scenario are asked for, and the one has the other.
Due(r, s) ==
  runtimes[r] \in only /\ SCENARIOS[s] \in asked /\ ~Skipped(runtimes[r], SCENARIOS[s])
Measured(r, s, p) == \E i \in 1..Len(cells) : IsAt(cells[i], r, s, p)

Until == IF pc \in Working THEN Cursor ELSE IF pc = "stop" THEN 4 * runtime ELSE 12
Filled ==
  pc \notin {"idle", "threw"} =>
    \A r \in 1..3, s \in 1..2, p \in 1..2 :
      Measured(r, s, p) <=> (Due(r, s) /\ Place(r, s, p) < Until)

\* A first reconcile observes nothing, a second one what the cell before desired.
Chained ==
  \A i \in 1..Len(cells) :
    \/ cells[i].phase = "initial" /\ cells[i].observed = Nothing
    \/ /\ cells[i].phase = "observed" /\ i > 1
       /\ cells[i].observed = observedFrom(cells[i - 1].canonical, cells[i].scenario)
Poised ==
  /\ pc \in Starting => Runtime \in only /\ observed = Nothing
  /\ pc \in {"measure", "loop"} =>
       /\ Due(runtime, scenario)
       /\ \/ phase = 1 /\ observed = Nothing
          \/ /\ phase = 2 /\ cells # <<>>
             /\ observed = observedFrom(cells[Len(cells)].canonical, Scenario)
  /\ pc = "stop" => observed = Nothing /\ Runtime \in only

Matrix == Filled /\ Chained /\ Poised

LEMMA Numbers ==
  /\ Len(runtimes) = 3 /\ Len(SCENARIOS) = 2 /\ Len(PHASES) = 2
  /\ \A r \in 1..3, r2 \in 1..3 : runtimes[r] = runtimes[r2] => r = r2
  /\ \A s \in 1..2, s2 \in 1..2 : SCENARIOS[s] = SCENARIOS[s2] => s = s2
  /\ \A p \in 1..2, p2 \in 1..2 : PHASES[p] = PHASES[p2] => p = p2
  /\ \A r \in 1..3, s \in 1..2 : Skipped(runtimes[r], SCENARIOS[s]) <=> r = 3 /\ s = 2
  /\ \A r \in 1..3 : runtimes[r] \in {"kcl", "kclx", "python"}
BY DEF runtimes, SCENARIOS, PHASES, Skipped

LEMMA PlaceIsNat ==
  ASSUME NEW r \in 1..3, NEW s \in 1..2, NEW p \in 1..2
  PROVE  Place(r, s, p) \in 0..11 /\ Place(r, s, p) < 4 * r /\ Place(r, s, p) >= 4 * (r - 1)
BY DEF Place

LEMMA PlacesDiffer ==
  ASSUME NEW r \in 1..3, NEW s \in 1..2, NEW p \in 1..2,
         NEW r2 \in 1..3, NEW s2 \in 1..2, NEW p2 \in 1..2, Place(r, s, p) = Place(r2, s2, p2)
  PROVE  r = r2 /\ s = s2 /\ p = p2
BY DEF Place

LEMMA SameSide ==
  ASSUME NEW r \in 1..3, NEW s \in 1..2, NEW p \in 1..2, NEW now \in 1..3, NEW next \in 1..2,
         NEW j \in 1..3, next >= j, r = now => s < j \/ s >= next
  PROVE  4 * (r - 1) + 2 * (s - 1) + (p - 1) < 4 * (now - 1) + 2 * (next - 1)
           <=> 4 * (r - 1) + 2 * (s - 1) + (p - 1) < 4 * (now - 1) + 2 * (j - 1)
<1>1. CASE r = now
  BY <1>1
<1>2. CASE r < now
  BY <1>2
<1>3. CASE r > now
  BY <1>3
<1> QED
  BY <1>1, <1>2, <1>3

\* No place that is due lies between where the cursor was and the next scenario.
LEMMA NoneBetween ==
  ASSUME Typed, runtime' = runtime, phase' = 1, NEW j \in 1..3, NextScenario(j),
         NEW r \in 1..3, NEW s \in 1..2, NEW p \in 1..2, Due(r, s)
  PROVE  Place(r, s, p) < Until' <=> Place(r, s, p) < 4 * (runtime - 1) + 2 * (j - 1)
<1> DEFINE rest == Runnable(runtime, j)
<1>1. runtime \in 1..3 /\ (r = runtime /\ s >= j => s \in rest)
  <2>1. rest = {k \in j..2 : SCENARIOS[k] \in asked /\ ~Skipped(runtimes[runtime], SCENARIOS[k])}
    BY Numbers DEF Runnable
  <2> QED
    BY <2>1 DEF Typed, Due
<1>2. /\ Place(r, s, p) = 4 * (r - 1) + 2 * (s - 1) + (p - 1)
      /\ Place(r, s, p) < 4 * r /\ Place(r, s, p) >= 4 * (r - 1) /\ Place(r, s, p) \in 0..11
  BY PlaceIsNat DEF Place
<1>3. CASE pc' = "stop" /\ rest = {}
  <2>1. Until' = 4 * runtime
    BY <1>3 DEF Until, Working
  <2>2. r = runtime => s < j
    BY <1>1, <1>3
  <2> QED
    BY <1>1, <1>2, <2>1, <2>2
<1>4. CASE /\ pc' = "measure" /\ scenario' \in 1..2 /\ scenario' >= j
           /\ \A k \in rest : scenario' <= k
  <2>1. Until' = 4 * (runtime - 1) + 2 * (scenario' - 1)
    BY <1>1, <1>4 DEF Until, Working, Cursor
  <2>2. r = runtime => s < j \/ s >= scenario'
    BY <1>1, <1>4
  <2>3. PICK next \in 1..2 : next = scenario'
    BY <1>4
  <2>4. PICK now \in 1..3 : now = runtime
    BY <1>1
  <2>5. 4 * (r - 1) + 2 * (s - 1) + (p - 1) < 4 * (now - 1) + 2 * (next - 1)
          <=> 4 * (r - 1) + 2 * (s - 1) + (p - 1) < 4 * (now - 1) + 2 * (j - 1)
    BY <1>4, <2>2, <2>3, <2>4, SameSide
  <2> QED
    BY <2>1, <2>3, <2>4, <2>5 DEF Place
<1> QED
  BY <1>3, <1>4, GoesOn

\* Where the next scenario is one that is due.
LEMMA NextIsDue ==
  ASSUME Typed, UNCHANGED <<runtime, only, asked>>, NEW j \in 1..3, NextScenario(j),
         Runtime \in only, observed' = Nothing, phase' = 1
  PROVE  Poised' /\ pc' \in {"stop", "measure"}
<1>1. /\ runtime \in 1..3
      /\ Runnable(runtime, j)
           = {k \in j..2 : SCENARIOS[k] \in asked /\ ~Skipped(runtimes[runtime], SCENARIOS[k])}
  BY Numbers DEF Typed, Runnable
<1>2. CASE pc' = "stop"
  BY <1>2 DEF Poised, Starting, Runtime, Nothing
<1>3. CASE pc' = "measure" /\ scenario' \in Runnable(runtime, j)
  <2>1. Due(runtime, scenario)'
    BY <1>1, <1>3 DEF Due, Runtime
  <2> QED
    BY <1>3, <2>1 DEF Poised, Starting, Nothing, Due
<1> QED
  BY <1>2, <1>3, GoesOn

\* Steps that measure nothing and move no cursor, and steps of the verdict.
LEMMA SameMatrix ==
  ASSUME Typed, Matrix, UNCHANGED <<flags, runtime, scenario, phase, observed>>, Typed',
         \/ UNCHANGED cells
         \/ /\ pc' \notin Working \cup {"stop"} /\ Len(cells') = Len(cells)
            /\ \A i \in 1..Len(cells) :
                 /\ cells'[i].runtime = cells[i].runtime /\ SameCell(cells'[i], cells[i])
                 /\ cells'[i].canonical = cells[i].canonical
                 /\ cells'[i].observed = cells[i].observed,
         \/ pc' = pc
         \/ pc' = "threw"
         \/ pc \in Starting /\ pc' \in Starting
         \/ pc = "measure" /\ pc' = "loop"
         \/ /\ pc \in {"compare", "gate"} \cup Returned
            /\ pc' \in {"compare", "gate"} \cup Returned
  PROVE  Matrix'
<1>1. /\ Len(cells') = Len(cells) /\ Len(cells) \in Nat
      /\ \A i \in 1..Len(cells) :
           /\ cells'[i].runtime = cells[i].runtime /\ cells'[i].scenario = cells[i].scenario
           /\ cells'[i].phase = cells[i].phase /\ cells'[i].canonical = cells[i].canonical
           /\ cells'[i].observed = cells[i].observed
  BY DEF Typed, SameCell
<1>2. Chained'
  <2> SUFFICES ASSUME NEW i \in 1..Len(cells')
               PROVE  \/ cells'[i].phase = "initial" /\ cells'[i].observed = Nothing
                      \/ /\ cells'[i].phase = "observed" /\ i > 1
                         /\ cells'[i].observed
                              = observedFrom(cells'[i - 1].canonical, cells'[i].scenario)
    BY DEF Chained, observedFrom, Nothing
  <2>1. i \in 1..Len(cells) /\ (i > 1 => i - 1 \in 1..Len(cells))
    BY <1>1
  <2> QED
    BY <1>1, <2>1 DEF Matrix, Chained
<1>3. Filled'
  <2>1. pc' \notin {"idle", "threw"} => pc \notin {"idle", "threw"} /\ Until' = Until
    BY DEF Until, Cursor, Working, Starting, Returned
  <2>2. ASSUME NEW r \in 1..3, NEW s \in 1..2, NEW p \in 1..2
        PROVE  (Measured(r, s, p)' <=> Measured(r, s, p)) /\ (Due(r, s)' <=> Due(r, s))
    BY <1>1 DEF Measured, IsAt, Due, flags
  <2> QED
    BY <2>1, <2>2 DEF Matrix, Filled, Place
<1>4. Poised'
  BY <1>1 DEF Matrix, Poised, Due, Working, Starting, Returned, flags, Runtime, Scenario,
              observedFrom, Nothing
<1> QED
  BY <1>2, <1>3, <1>4 DEF Matrix

LEMMA MainFills ==
  ASSUME NEW selection \in Selections, NEW scenarios \in Asked, main(selection, scenarios)
  PROVE  Matrix'
<1> DEFINE chosen == {j \in 1..Len(runtimes) : runtimes[j] \in selection}
<1>1. /\ cells' = <<>> /\ observed' = Nothing /\ scenario' = 1 /\ phase' = 1
      /\ only' = selection
      /\ \/ pc' = "threw" /\ runtime' = 1
         \/ chosen # {} /\ pc' = "remove" /\ runtime' = Least(chosen)
  BY DEF main
<1>2. chosen \in SUBSET (1..3) /\ Len(cells') = 0
  BY <1>1, Numbers
<1>3. chosen # {} => Least(chosen) \in chosen /\ \A j \in chosen : Least(chosen) <= j
  BY <1>2, LeastIsLeast
<1>4. CASE pc' = "threw"
  BY <1>1, <1>2, <1>4 DEF Matrix, Filled, Chained, Poised, Starting
<1>5. CASE chosen # {} /\ pc' = "remove" /\ runtime' = Least(chosen)
  <2>1. runtime' \in 1..3 /\ runtimes[runtime'] \in only' /\ \A j \in chosen : runtime' <= j
    BY <1>1, <1>3, <1>5, Numbers
  <2>2. Poised'
    BY <1>1, <1>5, <2>1 DEF Poised, Starting, Runtime, Nothing
  <2>3. Until' = 4 * (runtime' - 1)
    BY <1>1, <1>5, <2>1 DEF Until, Cursor, Working
  <2>4. ASSUME NEW r \in 1..3, NEW s \in 1..2, NEW p \in 1..2
        PROVE  ~Measured(r, s, p)' /\ ~(Due(r, s)' /\ Place(r, s, p) < Until')
    <3>1. Due(r, s)' => r \in chosen
      BY <1>1, Numbers DEF Due
    <3>2. Place(r, s, p) < Until' => r < runtime'
      <4>1. Place(r, s, p) \in 0..11 /\ Place(r, s, p) >= 4 * (r - 1) /\ runtime' \in 1..3
        BY <2>1, PlaceIsNat
      <4> QED
        BY <2>3, <4>1
    <3>3. ~Measured(r, s, p)'
      BY <1>2 DEF Measured
    <3> QED
      BY <2>1, <3>1, <3>2, <3>3
  <2>5. Filled'
    BY <2>4 DEF Filled, Place
  <2> QED
    BY <1>2, <2>2, <2>5 DEF Matrix, Chained
<1> QED
  BY <1>1, <1>4, <1>5

\* No place that is due lies between the cell measured and the next.
LEMMA MeasureFills == ASSUME Inv, Matrix, measure PROVE Matrix'
<1>0. PICK last \in Shapes : Record(last)
  BY MeasureRecords DEF Inv
<1>1. /\ cells' = Append(cells,
             [runtime |-> Runtime, scenario |-> Scenario, phase |-> Phase,
              observed |-> observed, canonical |-> last, equivalence |-> "none"])
      /\ observed' = ObservedNext(last)
  BY <1>0 DEF Record
<1> DEFINE cell == [runtime |-> Runtime, scenario |-> Scenario, phase |-> Phase,
                    observed |-> observed, canonical |-> last, equivalence |-> "none"]
<1>2. /\ runtime \in 1..3 /\ scenario \in 1..2 /\ phase \in 1..2 /\ pc = "loop"
      /\ cells \in Seq(Cells) /\ Len(cells) \in Nat
      /\ UNCHANGED <<runtime, only, asked>> /\ Due(runtime, scenario) /\ Typed
  BY <1>0 DEF Inv, Typed, measure, Record, Matrix, Poised, flags
<1>3. /\ Len(cells') = Len(cells) + 1 /\ cells'[Len(cells) + 1] = cell
      /\ \A i \in 1..Len(cells) : cells'[i] = cells[i]
  BY <1>1, <1>2
<1>4. IsAt(cell, runtime, scenario, phase)
  BY DEF IsAt, Runtime, Scenario, Phase
<1>5. \/ phase = 1 /\ observed = Nothing /\ Phase = "initial"
      \/ /\ phase = 2 /\ Phase = "observed" /\ Len(cells) > 0
         /\ observed = observedFrom(cells[Len(cells)].canonical, Scenario)
  <2>1. cells # <<>> => Len(cells) > 0
    BY <1>2
  <2> QED
    BY <1>2, <2>1 DEF Matrix, Poised, Phase, PHASES
<1>6. Chained'
  <2> SUFFICES ASSUME NEW i \in 1..Len(cells')
               PROVE  \/ cells'[i].phase = "initial" /\ cells'[i].observed = Nothing
                      \/ /\ cells'[i].phase = "observed" /\ i > 1
                         /\ cells'[i].observed
                              = observedFrom(cells'[i - 1].canonical, cells'[i].scenario)
    BY DEF Chained, observedFrom, Nothing
  <2>1. CASE i \in 1..Len(cells)
    <3>1. i > 1 => i - 1 \in 1..Len(cells)
      BY <1>2, <2>1
    <3> QED
      BY <1>3, <2>1, <3>1 DEF Matrix, Chained
  <2>2. CASE i = Len(cells) + 1
    <3>1. cells'[i] = cell /\ (Len(cells) > 0 => i > 1 /\ cells'[i - 1] = cells[Len(cells)])
      BY <1>2, <1>3, <2>2
    <3> QED
      BY <1>5, <3>1
  <2> QED
    BY <1>2, <1>3, <2>1, <2>2
<1>7. ASSUME NEW r \in 1..3, NEW s \in 1..2, NEW p \in 1..2
      PROVE  /\ Measured(r, s, p)'
                  <=> (Measured(r, s, p) \/ Place(r, s, p) = Place(runtime, scenario, phase))
             /\ Due(r, s)' <=> Due(r, s)
  <2>1. Measured(r, s, p)' <=> (Measured(r, s, p) \/ IsAt(cell, r, s, p))
    <3>1. ASSUME NEW i \in 1..Len(cells') PROVE i \in 1..Len(cells) \/ i = Len(cells) + 1
      BY <1>2, <1>3
    <3>2. 1..Len(cells) \subseteq 1..Len(cells') /\ Len(cells) + 1 \in 1..Len(cells')
      BY <1>2, <1>3
    <3> HIDE DEF cell
    <3> QED
      BY <1>3, <3>1, <3>2 DEF Measured, IsAt
  <2>2. IsAt(cell, r, s, p) => r = runtime /\ s = scenario /\ p = phase
    BY <1>2, <1>4, Numbers DEF IsAt
  <2>3. Place(r, s, p) = Place(runtime, scenario, phase) => r = runtime /\ s = scenario /\ p = phase
    BY <1>2, PlacesDiffer
  <2> QED
    BY <1>2, <1>4, <2>1, <2>2, <2>3 DEF Due
<1>8. Until = Place(runtime, scenario, phase)
  BY <1>2 DEF Until, Working, Cursor, Place
<1>9. ASSUME /\ pc' \notin {"idle", "threw"}
             /\ \A r \in 1..3, s \in 1..2, p \in 1..2 :
                  Due(r, s) => (Place(r, s, p) < Until' <=> Place(r, s, p) < Until + 1)
      PROVE  Filled'
  <2>1. ASSUME NEW r \in 1..3, NEW s \in 1..2, NEW p \in 1..2
        PROVE  Measured(r, s, p)' <=> (Due(r, s)' /\ Place(r, s, p) < Until')
    <3>1. Measured(r, s, p) <=> (Due(r, s) /\ Place(r, s, p) < Until)
      BY <1>2 DEF Matrix, Filled
    <3>2. Place(r, s, p) < Until + 1
            <=> (Place(r, s, p) < Until \/ Place(r, s, p) = Place(runtime, scenario, phase))
      <4>1. Place(r, s, p) \in 0..11 /\ Place(runtime, scenario, phase) \in 0..11
        BY <1>2, PlaceIsNat
      <4> QED
        BY <1>8, <4>1
    <3>3. Place(r, s, p) = Place(runtime, scenario, phase) => Due(r, s)
      BY <1>2, PlacesDiffer
    <3> QED
      BY <1>7, <1>9, <3>1, <3>2, <3>3
  <2> QED
    BY <1>9, <2>1 DEF Filled, Place
<1>10. CASE Phase = "initial"
  <2>1. phase = 1 /\ phase' = 2 /\ pc' = "measure" /\ UNCHANGED scenario
    BY <1>0, <1>2, <1>5, <1>10 DEF Record
  <2>2. Until' = Until + 1
    BY <1>2, <2>1 DEF Until, Working, Cursor
  <2>3. Filled'
    BY <1>2, <1>9, <2>1, <2>2
  <2>4. Poised'
    <3>1. /\ cells' # <<>> /\ cells'[Len(cells')].canonical = last
          /\ Scenario' = Scenario
      BY <1>2, <1>3, <2>1 DEF Scenario
    <3>2. observed' = observedFrom(last, Scenario)
      BY <1>1, <1>10 DEF ObservedNext
    <3>3. Due(runtime, scenario)'
      BY <1>2, <2>1 DEF Due
    <3> QED
      BY <1>2, <2>1, <3>1, <3>2, <3>3 DEF Poised, observedFrom, Due, Starting
  <2> QED
    BY <1>6, <2>3, <2>4 DEF Matrix
<1>11. CASE Phase # "initial"
  <2>1. /\ phase = 2 /\ phase' = 1 /\ observed' = Nothing
        /\ NextScenario(scenario + 1) /\ scenario + 1 \in 1..3
    BY <1>0, <1>1, <1>2, <1>5, <1>11 DEF Record, ObservedNext
  <2>2. Runtime \in only
    BY <1>2 DEF Due, Runtime
  <2>3. Poised' /\ pc' \in {"stop", "measure"}
    BY <1>2, <2>1, <2>2, NextIsDue
  <2>4. Filled'
    <3> SUFFICES ASSUME NEW r \in 1..3, NEW s \in 1..2, NEW p \in 1..2, Due(r, s)
                 PROVE  Place(r, s, p) < Until' <=> Place(r, s, p) < Until + 1
      BY <1>9, <2>3
    <3>1. Until + 1 = 4 * (runtime - 1) + 2 * (scenario + 1 - 1)
      BY <1>2, <1>8, <2>1 DEF Place
    <3> QED
      BY <1>2, <2>1, <3>1, NoneBetween
  <2> QED
    BY <1>6, <2>3, <2>4 DEF Matrix
<1> QED
  BY <1>10, <1>11

\* A runtime that serves: none of its scenarios before the first that is due.
LEMMA ReadyFills == ASSUME Inv, Matrix, waitForReady PROVE Matrix'
<1>1. /\ pc = "wait" /\ NextScenario(1) /\ UNCHANGED <<runtime, only, asked, phase, observed, cells>>
      /\ Typed /\ runtime \in 1..3 /\ scenario = 1 /\ phase = 1
      /\ Runtime \in only /\ observed = Nothing
  BY DEF waitForReady, Inv, Typed, Ahead, Starting, Matrix, Poised, flags
<1>2. Poised' /\ pc' \in {"stop", "measure"}
  BY <1>1, NextIsDue
<1>3. Chained'
  BY <1>1 DEF Matrix, Chained, observedFrom, Nothing
<1>4. Filled'
  <2>1. ASSUME NEW r \in 1..3, NEW s \in 1..2, NEW p \in 1..2
        PROVE  /\ Measured(r, s, p)' <=> Measured(r, s, p)
               /\ Due(r, s)' <=> Due(r, s)
               /\ Due(r, s) => (Place(r, s, p) < Until' <=> Place(r, s, p) < Until)
    <3>1. Until = 4 * (runtime - 1) + 2 * (1 - 1)
      BY <1>1 DEF Until, Working, Cursor
    <3>2. Due(r, s) => (Place(r, s, p) < Until' <=> Place(r, s, p) < Until)
      BY <1>1, <3>1, NoneBetween
    <3> QED
      BY <1>1, <3>2 DEF Measured, IsAt, Due
  <2>2. \A r \in 1..3, s \in 1..2, p \in 1..2 :
          Measured(r, s, p) <=> (Due(r, s) /\ Place(r, s, p) < Until)
    BY <1>1 DEF Matrix, Filled
  <2> QED
    BY <2>1, <2>2 DEF Filled, Place
<1> QED
  BY <1>2, <1>3, <1>4 DEF Matrix

\* No runtime that is asked for lies between the one that is done and the next.
LEMMA StopFills == ASSUME Inv, Matrix, StopRuntime PROVE Matrix'
<1> DEFINE rest == Selected(runtime + 1)
<1>1. /\ pc = "stop" /\ UNCHANGED <<observed, cells, only, asked>> /\ scenario' = 1 /\ phase' = 1
      /\ \/ rest = {} /\ pc' = "compare" /\ UNCHANGED runtime
         \/ rest # {} /\ pc' = "remove" /\ runtime' = Least(rest)
  BY DEF StopRuntime, flags
<1>2. runtime \in 1..3 /\ observed = Nothing /\ Until = 4 * runtime
  BY <1>1 DEF Inv, Typed, Matrix, Poised, Until, Working
<1>3. /\ rest \in SUBSET (1..3)
      /\ \A j \in 1..3 : j \in rest <=> j > runtime /\ runtimes[j] \in only
  BY <1>2, Numbers DEF Selected
<1>4. Chained'
  BY <1>1 DEF Matrix, Chained, observedFrom, Nothing
<1>5. ASSUME /\ pc' \notin {"idle", "threw"}
             /\ \A r \in 1..3, s \in 1..2, p \in 1..2 :
                  Due(r, s) => (Place(r, s, p) < Until' <=> Place(r, s, p) < Until)
      PROVE  Filled'
  <2>1. ASSUME NEW r \in 1..3, NEW s \in 1..2, NEW p \in 1..2
        PROVE  (Measured(r, s, p)' <=> Measured(r, s, p)) /\ (Due(r, s)' <=> Due(r, s))
    BY <1>1 DEF Measured, IsAt, Due
  <2> QED
    BY <1>1, <1>5, <2>1 DEF Matrix, Filled, Place
<1>6. CASE rest = {} /\ pc' = "compare"
  <2>1. Until' = 12
    BY <1>6 DEF Until, Working
  <2>2. Filled'
    <3> SUFFICES ASSUME NEW r \in 1..3, NEW s \in 1..2, NEW p \in 1..2, Due(r, s)
                 PROVE  Place(r, s, p) < Until' <=> Place(r, s, p) < Until
      BY <1>5, <1>6
    <3>1. r <= runtime
      BY <1>2, <1>3, <1>6 DEF Due
    <3>2. Place(r, s, p) \in 0..11 /\ Place(r, s, p) < 4 * r
      BY PlaceIsNat
    <3> QED
      BY <1>2, <2>1, <3>1, <3>2
  <2> QED
    BY <1>4, <1>6, <2>2 DEF Matrix, Poised, Starting
<1>7. CASE rest # {} /\ pc' = "remove" /\ runtime' = Least(rest)
  <2>1. /\ runtime' \in 1..3 /\ runtimes[runtime'] \in only
        /\ \A j \in 1..3 : j > runtime /\ runtimes[j] \in only => runtime' <= j
    BY <1>3, <1>7, LeastIsLeast
  <2>2. Until' = 4 * (runtime' - 1) /\ runtime' > runtime
    <3>1. runtime' > runtime
      BY <1>3, <1>7, LeastIsLeast
    <3> QED
      BY <1>1, <1>7, <2>1, <3>1 DEF Until, Working, Cursor
  <2>3. Filled'
    <3> SUFFICES ASSUME NEW r \in 1..3, NEW s \in 1..2, NEW p \in 1..2, Due(r, s)
                 PROVE  Place(r, s, p) < Until' <=> Place(r, s, p) < Until
      BY <1>5, <1>7
    <3>1. r <= runtime \/ r >= runtime'
      BY <1>2, <2>1 DEF Due
    <3>2. /\ Place(r, s, p) \in 0..11 /\ Place(r, s, p) < 4 * r
          /\ Place(r, s, p) >= 4 * (r - 1)
      BY PlaceIsNat
    <3> QED
      BY <1>2, <2>1, <2>2, <3>1, <3>2
  <2>4. Poised'
    BY <1>1, <1>2, <1>7, <2>1 DEF Poised, Nothing, Runtime, Starting
  <2> QED
    BY <1>4, <2>3, <2>4 DEF Matrix
<1> QED
  BY <1>1, <1>6, <1>7

LEMMA NextFills == Inv /\ Matrix /\ Inv' /\ [Next]_vars => Matrix'
<1> SUFFICES ASSUME Inv, Matrix, Inv', [Next]_vars PROVE Matrix'
  OBVIOUS
<1>1. Typed /\ Typed'
  BY DEF Inv
<1>2. ASSUME NEW selection \in Selections, NEW scenarios \in Asked, main(selection, scenarios)
      PROVE  Matrix'
  BY <1>2, MainFills
<1>3. CASE ClearName \/ startFunction \/ FirstCall \/ Fatal \/ NoAnswer \/ Throws
  <2>1. /\ UNCHANGED <<flags, runtime, scenario, phase, observed, cells>>
        /\ \/ pc' = "threw"
           \/ pc \in Starting /\ pc' \in Starting
           \/ pc = "measure" /\ pc' = "loop"
    BY <1>3 DEF ClearName, startFunction, FirstCall, Fatal, NoAnswer, Throws, Starting, cursor
  <2> QED
    BY <1>1, <2>1, SameMatrix
<1>4. CASE Compare
  <2>1. /\ cells' = [i \in DOMAIN cells |-> [cells[i] EXCEPT !.equivalence = Verdict(cells[i])]]
        /\ pc = "compare" /\ pc' = "gate"
        /\ UNCHANGED <<flags, runtime, scenario, phase, observed>>
    BY <1>4 DEF Compare, cursor
  <2>2. Len(cells') = Len(cells) /\ DOMAIN cells = 1..Len(cells)
    BY <1>1, <2>1 DEF Typed
  <2>3. ASSUME NEW i \in 1..Len(cells)
        PROVE  /\ cells'[i].runtime = cells[i].runtime /\ SameCell(cells'[i], cells[i])
               /\ cells'[i].canonical = cells[i].canonical
               /\ cells'[i].observed = cells[i].observed
    <3>1. cells[i] \in Cells
      BY <1>1 DEF Typed
    <3>2. cells'[i] = [cells[i] EXCEPT !.equivalence = Verdict(cells[i])]
      BY <2>1, <2>2
    <3> HIDE DEF Verdict
    <3> QED
      BY <3>1, <3>2 DEF Cells, SameCell
  <2> QED
    BY <1>1, <2>1, <2>2, <2>3, SameMatrix DEF Working, Returned
<1>5. ASSUME NEW noGate \in BOOLEAN, Gate(noGate) PROVE Matrix'
  <2>1. pc = "gate" /\ pc' \in Returned /\ UNCHANGED <<flags, runtime, scenario, phase, observed, cells>>
    BY <1>5 DEF Gate, Returned, cursor
  <2> QED
    BY <1>1, <2>1, SameMatrix
<1>6. ASSUME NEW n \in Names, ContainerBoots(n) \/ ContainerDies(n) PROVE Matrix'
  <2>1. UNCHANGED <<pc, flags, runtime, scenario, phase, observed, cells>>
    BY <1>6 DEF ContainerBoots, ContainerDies, cursor
  <2> QED
    BY <1>1, <2>1, SameMatrix
<1>7. CASE UNCHANGED vars
  <2>1. UNCHANGED <<pc, flags, runtime, scenario, phase, observed, cells>>
    BY <1>7 DEF vars, cursor
  <2> QED
    BY <1>1, <2>1, SameMatrix
<1> QED
  BY <1>2, <1>3, <1>4, <1>5, <1>6, <1>7, ReadyFills, MeasureFills, StopFills DEF Next, Advance

\* A run that returns has measured each phase of each scenario it was asked for and
\* its runtimes have, once, and each second reconcile on what the first one of its runtime desired.
THEOREM MatrixIsMeasured == Spec => []MatrixIsWhole
<1>1. Init => Matrix
  <2> SUFFICES ASSUME Init PROVE Matrix
    OBVIOUS
  <2>1. pc = "idle" /\ Len(cells) = 0
    BY DEF Init
  <2> QED
    BY <2>1 DEF Matrix, Filled, Chained, Poised, Starting
<1>2. Inv /\ Matrix => MatrixIsWhole
  <2> SUFFICES ASSUME Inv, Matrix, pc \in Returned, NEW r \in {1, 2, 3}, NEW s \in {1, 2},
                      NEW p \in {1, 2}
               PROVE
       LET mine == {i \in DOMAIN cells : IsAt(cells[i], r, s, p)}
       IN IF Due(r, s)
          THEN \E i \in mine :
                 /\ mine = {i}
                 /\ cells[i].observed =
                      IF p = 1 THEN Nothing
                      ELSE observedFrom(cells[i - 1].canonical, SCENARIOS[s])
          ELSE mine = {}
    BY DEF MatrixIsWhole, IsAt, Due, observedFrom, Nothing
  <2> DEFINE mine == {i \in DOMAIN cells : IsAt(cells[i], r, s, p)}
  <2>1. /\ Typed /\ InOrder /\ DOMAIN cells = 1..Len(cells)
        /\ r \in 1..3 /\ s \in 1..2 /\ p \in 1..2
    BY DEF Inv, Typed
  <2>2. Measured(r, s, p) <=> Due(r, s)
    <3>1. Until = 12 /\ pc \notin {"idle", "threw"}
      BY DEF Until, Working, Returned
    <3>2. Place(r, s, p) \in 0..11
      BY <2>1, PlaceIsNat
    <3>3. Measured(r, s, p) <=> (Due(r, s) /\ Place(r, s, p) < Until)
      BY <2>1, <3>1 DEF Matrix, Filled
    <3> QED
      BY <3>1, <3>2, <3>3
  <2>3. CASE ~Due(r, s)
    BY <2>1, <2>2, <2>3 DEF Measured
  <2>4. CASE Due(r, s)
    <3>1. PICK i \in 1..Len(cells) : IsAt(cells[i], r, s, p)
      BY <2>2, <2>4 DEF Measured
    <3>2. ASSUME NEW j \in mine PROVE j = i
      BY <2>1, <3>1, OneReference DEF IsAt, SameCell
    <3>3. cells[i].observed = IF p = 1 THEN Nothing
                              ELSE observedFrom(cells[i - 1].canonical, SCENARIOS[s])
      <4>1. cells[i].phase = PHASES[p] /\ cells[i].scenario = SCENARIOS[s]
        BY <3>1 DEF IsAt
      <4>2. \/ cells[i].phase = "initial" /\ cells[i].observed = Nothing
            \/ /\ cells[i].phase = "observed"
               /\ cells[i].observed = observedFrom(cells[i - 1].canonical, cells[i].scenario)
        BY <3>1 DEF Matrix, Chained
      <4>3. PHASES[1] = "initial" /\ PHASES[2] = "observed"
        BY DEF PHASES
      <4> QED
        BY <4>1, <4>2, <4>3
    <3>4. i \in mine /\ mine = {i}
      BY <2>1, <3>1, <3>2
    <3> QED
      BY <2>4, <3>3, <3>4
  <2> QED
    BY <2>3, <2>4
<1> QED
  BY <1>1, <1>2, InitIsInv, NextKeeps, NextFills, PTL DEF Spec
-----------------------------------------------------------------------------
(* The containers of a run.                                                 *)

\* Only the runtimes have containers, each on the port that is its own; the next
\* one's name is free when it is started, unless its removal failed.
Hosted ==
  /\ containers \in [Names -> Containers \cup {NoContainer}] /\ faults \in Nat
  /\ \A n \in Names : Exists(n) =>
       n \in {"kcl", "kclx", "python"} /\ containers[n].port = hostPort[n]
  /\ pc = "run" => ~Exists(Runtime) \/ swallowed

LEMMA NamesAreRuntimes ==
  ASSUME NEW r \in 1..3
  PROVE  runtimes[r] \in Names /\ runtimes[r] \in {"kcl", "kclx", "python"}
<1>1. runtimes[r] \in {"kcl", "kclx", "python"}
  BY DEF runtimes
<1> QED
  BY <1>1, BenchAssumption

LEMMA PortsDiffer ==
  ASSUME NEW a \in {"kcl", "kclx", "python"}, NEW b \in {"kcl", "kclx", "python"},
         hostPort[a] = hostPort[b]
  PROVE  a = b
BY DEF hostPort

\* What a step may make of a container: what it was, nothing, or one that is the
\* runtime's own.
Own(n, c) == c # NoContainer => n \in {"kcl", "kclx", "python"} /\ c.port = hostPort[n]

LEMMA HostedStep ==
  ASSUME Hosted, NEW n \in Names, NEW c \in Containers \cup {NoContainer}, With(n, c),
         Own(n, c), faults' \in Nat,
         pc' = "run" => \/ Runtime' = n /\ c = NoContainer
                        \/ swallowed'
                        \/ /\ pc = "run" /\ Runtime' = Runtime /\ swallowed' = swallowed
                           /\ Exists(n) \/ c = NoContainer
  PROVE  Hosted'
<1>1. /\ containers' = [containers EXCEPT ![n] = c]
      /\ containers \in [Names -> Containers \cup {NoContainer}]
  BY DEF Hosted, With
<1>2. containers'[n] = c /\ \A m \in Names : m # n => containers'[m] = containers[m]
  BY <1>1
<1>3. ASSUME NEW m \in Names, containers'[m] # NoContainer
      PROVE  m \in {"kcl", "kclx", "python"} /\ containers'[m].port = hostPort[m]
  <2>1. CASE m = n
    BY <1>2, <1>3, <2>1 DEF Own
  <2>2. CASE m # n
    BY <1>2, <1>3, <2>2 DEF Hosted, Exists
  <2> QED
    BY <2>1, <2>2
<1>4. ASSUME pc' = "run", ~swallowed' PROVE containers'[Runtime'] = NoContainer
  <2>1. CASE Runtime' = n /\ c = NoContainer
    BY <1>2, <2>1
  <2>2. CASE /\ pc = "run" /\ Runtime' = Runtime /\ swallowed' = swallowed
             /\ Exists(n) \/ c = NoContainer
    <3>1. containers[Runtime] = NoContainer
      BY <1>4, <2>2 DEF Hosted, Exists
    <3>2. containers' = [containers EXCEPT ![n] = c] /\ DOMAIN containers = Names
      BY <1>1
    <3>3. Runtime # n => containers'[Runtime] = containers[Runtime]
      BY <3>2
    <3>4. Runtime = n => c = NoContainer
      BY <2>2, <3>1 DEF Exists
    <3> QED
      BY <1>2, <2>2, <3>1, <3>3, <3>4
  <2> QED
    BY <1>4, <2>1, <2>2
<1>5. containers' \in [Names -> Containers \cup {NoContainer}]
  BY <1>1
<1> QED
  BY <1>3, <1>4, <1>5 DEF Hosted, Exists

LEMMA SameContainers ==
  ASSUME Hosted, UNCHANGED containers, faults' \in Nat,
         pc' # "run" \/ swallowed' \/ (pc = "run" /\ UNCHANGED <<runtime, swallowed>>)
  PROVE  Hosted'
BY DEF Hosted, Exists, Runtime

\* What bears the name has been removed, and no other holds the port.
LEMMA NothingBlocks ==
  ASSUME Hosted, Typed, pc = "run", ~swallowed
  PROVE  CanRun(Runtime, hostPort[Runtime])
<1>1. Runtime \in {"kcl", "kclx", "python"} /\ ~Exists(Runtime)
  BY NamesAreRuntimes DEF Hosted, Typed, Runtime
<1>2. ASSUME NEW n \in Names, Running(n), containers[n].port = hostPort[Runtime]
      PROVE  FALSE
  <2>1. Exists(n) /\ n \in {"kcl", "kclx", "python"} /\ containers[n].port = hostPort[n]
    BY <1>2 DEF Hosted, Running
  <2>2. n = Runtime
    BY <1>1, <1>2, <2>1, PortsDiffer
  <2> QED
    BY <1>1, <2>1, <2>2
<1> QED
  BY <1>1, <1>2 DEF CanRun, PortOpen

LEMMA StepHosts == Typed /\ Hosted /\ [Next]_vars => Hosted'
<1> SUFFICES ASSUME Typed, Hosted, [Next]_vars PROVE Hosted'
  OBVIOUS
<1>0. /\ runtime \in 1..3 /\ Runtime \in Names /\ Runtime \in {"kcl", "kclx", "python"}
      /\ faults \in Nat
  BY NamesAreRuntimes DEF Typed, Runtime, Hosted
<1>1. CASE \/ \E selection \in Selections, scenarios \in Asked : main(selection, scenarios)
           \/ waitForReady \/ FirstCall \/ measure \/ Fatal \/ Compare \/ NoAnswer \/ Throws
           \/ \E noGate \in BOOLEAN : Gate(noGate)
           \/ UNCHANGED vars
  <2>1. UNCHANGED containers /\ (faults' = faults \/ faults' = faults + 1)
    BY <1>1 DEF main, waitForReady, FirstCall, measure, Record, Fatal, Compare, NoAnswer, Throws,
                Gate, vars
  <2>2. pc' # "run" \/ (pc = "run" /\ UNCHANGED <<runtime, swallowed>>)
    <3>1. CASE \E selection \in Selections, scenarios \in Asked : main(selection, scenarios)
      BY <3>1 DEF main
    <3>2. CASE measure \/ waitForReady
      BY <3>2 DEF measure, Record, waitForReady, NextScenario
    <3>3. CASE FirstCall \/ Fatal \/ Compare \/ NoAnswer \/ Throws
      BY <3>3 DEF FirstCall, Fatal, Compare, NoAnswer, Throws
    <3>4. CASE \E noGate \in BOOLEAN : Gate(noGate)
      BY <3>4 DEF Gate
    <3>5. CASE UNCHANGED vars
      BY <3>5 DEF vars, cursor, history
    <3> QED
      BY <1>1, <3>1, <3>2, <3>3, <3>4, <3>5
  <2> QED
    BY <1>0, <2>1, <2>2, SameContainers
<1>2. CASE ClearName
  <2>1. /\ pc' = "run" /\ Runtime' = Runtime /\ swallowed' = (faults' # faults)
        /\ \/ With(Runtime, NoContainer) /\ faults' = faults
           \/ UNCHANGED containers /\ faults' = faults + 1
    BY <1>2 DEF ClearName, removeContainer, Rm, cursor, Runtime
  <2>2. CASE With(Runtime, NoContainer) /\ faults' = faults
    BY <1>0, <2>1, <2>2, HostedStep DEF Own
  <2>3. CASE UNCHANGED containers /\ faults' = faults + 1
    <3>1. faults' \in Nat /\ faults' # faults
      BY <1>0, <2>3
    <3>2. swallowed' = TRUE
      BY <2>1, <3>1
    <3> QED
      BY <2>3, <3>1, <3>2, SameContainers
  <2> QED
    BY <2>1, <2>2, <2>3
<1>3. CASE startFunction
  <2>1. pc' # "run" /\ faults' = faults
    BY <1>3 DEF startFunction
  <2> DEFINE c == [image |-> Runtime, root |-> Repo, port |-> hostPort[Runtime],
                   state |-> IF PortOpen(hostPort[Runtime]) THEN "created" ELSE "booting"]
  <2>2. UNCHANGED containers \/ With(Runtime, c)
    BY <1>3 DEF startFunction, Run
  <2>3. c \in Containers
    <3>1. Runtime \in Images /\ Repo \in Roots
      BY <1>0, BenchAssumption
    <3>2. hostPort[Runtime] \in Ports
      BY <1>0, BenchAssumption DEF hostPort
    <3> QED
      BY <3>1, <3>2 DEF Containers
  <2>4. Own(Runtime, c)
    BY <1>0 DEF Own
  <2>5. CASE UNCHANGED containers
    BY <1>0, <2>1, <2>5, SameContainers
  <2>6. CASE With(Runtime, c)
    <3> HIDE DEF c
    <3> QED
      BY <1>0, <2>1, <2>3, <2>4, <2>6, HostedStep
  <2> QED
    BY <2>2, <2>5, <2>6
<1>4. CASE StopRuntime
  <2>1. /\ pc' # "run"
        /\ \/ UNCHANGED containers /\ (faults' = faults \/ faults' = faults + 1)
           \/ With(Runtime, NoContainer) /\ faults' = faults
    BY <1>4 DEF StopRuntime, removeContainer, Rm
  <2>2. CASE UNCHANGED containers /\ (faults' = faults \/ faults' = faults + 1)
    <3>1. faults' \in Nat
      BY <1>0, <2>2
    <3> QED
      BY <2>1, <2>2, <3>1, SameContainers
  <2>3. CASE With(Runtime, NoContainer) /\ faults' = faults
    BY <1>0, <2>1, <2>3, HostedStep DEF Own
  <2> QED
    BY <2>1, <2>2, <2>3
<1>5. ASSUME NEW n \in Names, ContainerBoots(n) \/ ContainerDies(n) PROVE Hosted'
  <2>1. /\ Running(n) /\ UNCHANGED <<pc, cursor, swallowed>> /\ (faults' = faults \/ faults' = faults + 1)
        /\ \E s \in {"serving", "exited"} : With(n, [containers[n] EXCEPT !.state = s])
    BY <1>5 DEF ContainerBoots, ContainerDies, Boots, Dies, history
  <2>2. PICK s \in {"serving", "exited"} : With(n, [containers[n] EXCEPT !.state = s])
    BY <2>1
  <2>3. PICK c : c = [containers[n] EXCEPT !.state = s]
    OBVIOUS
  <2>4. containers[n] \in Containers /\ Exists(n)
    BY <2>1 DEF Running, Exists, Hosted
  <2>5. c \in Containers /\ c.port = containers[n].port
    BY <2>3, <2>4 DEF Containers
  <2>6. Own(n, c)
    BY <2>4, <2>5 DEF Own, Hosted
  <2>7. Runtime' = Runtime
    BY <2>1 DEF cursor, Runtime
  <2> QED
    BY <1>0, <2>1, <2>2, <2>3, <2>4, <2>5, <2>6, <2>7, HostedStep
<1> QED
  BY <1>1, <1>2, <1>3, <1>4, <1>5 DEF Next, Advance

\* A runtime that cannot be started met a fault now, or the removal of its name
\* failed just before: no container that an earlier run left, kept on purpose or
\* not, stands in the way of one whose name could be cleared.
THEOREM LeftoversDoNotBlock == Spec => LeftoversNeverBlock
<1>1. Init => Hosted
  BY BenchAssumption DEF Init, Hosted, Exists
<1>2. Inv /\ Hosted /\ [Next]_vars
        => (pc = "run" /\ pc' = "threw" => faults' > faults \/ swallowed)
  <2> SUFFICES ASSUME Typed, Hosted, Next, pc = "run", pc' = "threw", ~swallowed
               PROVE  faults' > faults
    BY DEF Inv, vars
  <2>1. ~startFunction
    BY NothingBlocks DEF startFunction
  <2>2. Throws
    BY <2>1 DEF Next, Advance, main, ClearName, waitForReady, FirstCall, measure, Fatal,
                StopRuntime, Compare, NoAnswer, Gate, ContainerBoots, ContainerDies, Returned
  <2> QED
    BY <2>2 DEF Throws, Hosted
<1>3. Inv /\ Hosted /\ [Next]_vars => Hosted'
  BY StepHosts DEF Inv
<1> QED
  BY <1>1, <1>2, <1>3, InitIsInv, NextKeeps, PTL DEF Spec, LeftoversNeverBlock
=============================================================================
