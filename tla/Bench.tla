-------------------------------- MODULE Bench --------------------------------
(***************************************************************************)
(* tools/bench/src: one benchmark after another on one docker host.  Each     *)
(* runtime is started, measured on every scenario in two phases, and removed; *)
(* then the desired states are compared with the reference's and the gate     *)
(* decides.  A function may answer every call differently, call a request     *)
(* fatal, or die, and so may docker fail: a removal that fails is swallowed.  *)
(*                                                                         *)
(* Timings, resource statistics and the report are left out.  A desired state *)
(* is its content, and whether it carries empty metadata maps.               *)
(***************************************************************************)
EXTENDS DockerHost, Sequences

CONSTANTS
  Shapes,       \* the desired states a function may answer with
  Selections,   \* --only: the sets of runtimes a run may be asked for
  Asked,        \* --scenario: the sets of scenarios a run may be asked for
  Repo,         \* the working tree
  MaxRuns, MaxFaults  \* bounds

ASSUME BenchAssumption ==
  /\ Shapes \subseteq [content: STRING, empties: BOOLEAN]
  /\ {"kcl", "kclx", "python"} \subseteq Names \cap Images
  /\ {19443, 19444, 19445} \subseteq Ports
  /\ Repo \in Roots
  /\ MaxRuns \in Nat /\ MaxFaults \in Nat

-----------------------------------------------------------------------------
(* The matrix, and what is read off a response.                             *)

runtimes == <<"kcl", "kclx", "python">>
REFERENCE == "kcl"
hostPort == [kcl |-> 19443, kclx |-> 19444, python |-> 19445]
SCENARIOS == <<"bucket-aws", "appstack-aws">>
\* Only the bucket has a python port.
Skipped(runtime, scenario) == runtime = "python" /\ scenario # "bucket-aws"
PHASES == <<"initial", "observed">>

\* The observed state of the next reconcile: everything the last one desired,
\* and the provider's status on the bucket.
Nothing == [desired |-> [content |-> "nothing", empties |-> FALSE], provided |-> FALSE]
observedFrom(response, of) == [desired |-> response, provided |-> of = "bucket-aws"]

\* Equal text; or equal once empty annotations and labels are dropped.
stripEmptyMetadata(shape) == [shape EXCEPT !.empties = FALSE]
diffText(a, b) == a # b

VARIABLES
  pc, only, asked, keep,  \* the running benchmark and its arguments
  runtime, scenario, phase,  \* positions in the matrix
  observed,             \* observedResources of the next request
  answer,               \* the last answer of the function in this run
  cells,                \* what has been measured, each with its verdict
  runs, faults,
  swallowed             \* history: the removal before this docker run failed

flags == <<only, asked, keep>>
cursor == <<runtime, scenario, phase, observed, answer>>
history == <<runs, swallowed>>
vars == <<containers, pc, flags, cursor, cells, faults, history>>

Returned == {"passed", "mismatched", "recorded"}
Runtime == runtimes[runtime]
Scenario == SCENARIOS[scenario]
Phase == PHASES[phase]
Selected(i) == {j \in i..Len(runtimes) : runtimes[j] \in only}
Least(S) == CHOOSE i \in S : \A j \in S : i <= j

-----------------------------------------------------------------------------
(* One run of main().                                                      *)

\* The scenarios at or after position j that are asked for and that the runtime has.
Runnable(i, j) ==
  {k \in j..Len(SCENARIOS) : SCENARIOS[k] \in asked /\ ~Skipped(runtimes[i], SCENARIOS[k])}

\* Arguments: a selection that matches no runtime throws, and so does one that
\* matches no scenario.  An option that is not given asks for all.
main(selection, scenarios) ==
  /\ pc \in {"idle", "threw"} \cup Returned /\ runs < MaxRuns
  /\ runs' = runs + 1 /\ swallowed' = FALSE
  /\ only' = selection /\ asked' = scenarios /\ keep' \in BOOLEAN
  /\ LET chosen == {j \in 1..Len(runtimes) : runtimes[j] \in selection} IN
       IF chosen = {} \/ \A k \in 1..Len(SCENARIOS) : SCENARIOS[k] \notin scenarios
       THEN pc' = "threw" /\ runtime' = 1
       ELSE pc' = "remove" /\ runtime' = Least(chosen)
  /\ scenario' = 1 /\ phase' = 1 /\ observed' = Nothing /\ cells' = <<>>
  /\ answer' = Nothing.desired
  /\ UNCHANGED <<containers, faults>>

\* A removal that fails is taken for "never existed", whatever its reason.
removeNothing(name) == UNCHANGED <<containers, faults>>
removeContainer(name) ==
  \/ Rm(name) /\ UNCHANGED faults
  \/ faults < MaxFaults /\ faults' = faults + 1 /\ UNCHANGED containers

\* startFunction: whatever bears the name is removed, then a fresh container is
\* started.
ClearName ==
  /\ pc = "remove"
  /\ removeContainer(Runtime)
  /\ swallowed' = (faults' # faults)
  /\ pc' = "run"
  /\ UNCHANGED <<flags, cursor, cells, runs>>

startFunction ==
  /\ pc = "run"
  /\ Run(Runtime, Runtime, Repo, hostPort[Runtime])
  /\ pc' = IF CanRun(Runtime, hostPort[Runtime]) THEN "wait" ELSE "threw"
  /\ UNCHANGED <<flags, cursor, cells, faults, history>>

\* On to the first of the scenarios from position j, or the runtime is done.
NextScenario(j) ==
  LET rest == Runnable(runtime, j) IN
    IF rest = {} THEN pc' = "stop" /\ UNCHANGED scenario
    ELSE pc' = "measure" /\ scenario' = Least(rest)

\* The port answers as soon as it is published; the handshake is retried until
\* the function behind it serves.
waitForReady ==
  /\ pc = "wait"
  /\ Answering(hostPort[Runtime]) # {}
  /\ NextScenario(1)
  /\ UNCHANGED <<containers, flags, runtime, phase, observed, answer, cells, faults, history>>

\* measure: a first call, which must not be fatal ...
FirstCall ==
  /\ pc = "measure"
  /\ Answering(hostPort[Runtime]) # {}
  /\ answer' \in Shapes
  /\ pc' = "loop"
  /\ UNCHANGED <<containers, flags, runtime, scenario, phase, observed, cells, faults, history>>
Fatal ==
  /\ pc = "measure"
  /\ Answering(hostPort[Runtime]) # {}
  /\ pc' = "threw"
  /\ UNCHANGED <<containers, flags, cursor, cells, faults, history>>

\* ... then the warm-up and the loop, whatever they answer; the last response is
\* kept as the cell, and observed by the second phase.
ObservedFirst(response) ==
  IF Phase = "initial" THEN observedFrom(answer, Scenario) ELSE Nothing
ObservedNext(response) ==
  IF Phase = "initial" THEN observedFrom(response, Scenario) ELSE Nothing

Record(last) ==
  /\ cells' = Append(cells,
       [runtime |-> Runtime, scenario |-> Scenario, phase |-> Phase,
        observed |-> observed, canonical |-> last, equivalence |-> "none"])
  /\ answer' = last /\ observed' = ObservedNext(last)
  /\ IF Phase = "initial"
     THEN phase' = 2 /\ pc' = "measure" /\ UNCHANGED scenario
     ELSE phase' = 1 /\ NextScenario(scenario + 1)
  /\ UNCHANGED <<containers, flags, runtime, faults, history>>

\* No iterations: what the first call answered is the last response.
measure ==
  /\ pc = "loop"
  /\ \/ Record(answer)
     \/ Answering(hostPort[Runtime]) # {} /\ \E last \in Shapes : Record(last)

\* The runtime is done: its container goes, unless it is to be kept.
StopRuntime ==
  /\ pc = "stop"
  /\ IF keep THEN UNCHANGED <<containers, faults>> ELSE removeContainer(Runtime)
  /\ LET rest == Selected(runtime + 1) IN
       IF rest = {} THEN pc' = "compare" /\ UNCHANGED runtime
       ELSE pc' = "remove" /\ runtime' = Least(rest)
  /\ scenario' = 1 /\ phase' = 1
  /\ UNCHANGED <<flags, observed, answer, cells, history>>

\* Behavioural equivalence, cell by cell.
ReferenceOf(cell) ==
  {i \in DOMAIN cells : /\ cells[i].runtime = REFERENCE
                        /\ cells[i].scenario = cell.scenario
                        /\ cells[i].phase = cell.phase}
VerdictOfScenario(cell) ==
  LET refs == {i \in DOMAIN cells : /\ cells[i].runtime = REFERENCE
                                    /\ cells[i].scenario = cell.scenario} IN
  IF cell.runtime = REFERENCE \/ refs = {} THEN "none"
  ELSE LET wanted == cells[Least(refs)].canonical IN
    CASE ~diffText(wanted, cell.canonical) -> "identical"
      [] diffText(wanted, cell.canonical)
         /\ ~diffText(stripEmptyMetadata(wanted), stripEmptyMetadata(cell.canonical))
           -> "benign"
      [] OTHER -> "differs"
Verdict(cell) ==
  IF cell.runtime = REFERENCE \/ ReferenceOf(cell) = {} THEN "none"
  ELSE LET wanted == cells[Least(ReferenceOf(cell))].canonical IN
    CASE ~diffText(wanted, cell.canonical) -> "identical"
      [] diffText(wanted, cell.canonical)
         /\ ~diffText(stripEmptyMetadata(wanted), stripEmptyMetadata(cell.canonical))
           -> "benign"
      [] OTHER -> "differs"

Compare ==
  /\ pc = "compare"
  /\ cells' = [i \in DOMAIN cells |->
                 [cells[i] EXCEPT !.equivalence = Verdict(cells[i])]]
  /\ pc' = "gate"
  /\ UNCHANGED <<containers, flags, cursor, faults, history>>

\* The results are written; a mismatch fails the run unless --no-gate.
Mismatched == {i \in DOMAIN cells : cells[i].equivalence = "differs"}
Gate(noGate) ==
  /\ pc = "gate"
  /\ pc' = IF noGate THEN "recorded"
           ELSE IF Mismatched = {} THEN "passed" ELSE "mismatched"
  /\ UNCHANGED <<containers, flags, cursor, cells, faults, history>>

-----------------------------------------------------------------------------
(* Failures: a docker command, a call or the process fails, a container dies. *)

Throws ==
  /\ pc \in {"remove", "run", "wait", "measure", "loop", "stop", "gate"}
  /\ faults < MaxFaults /\ faults' = faults + 1
  /\ pc' = "threw"
  /\ UNCHANGED <<containers, flags, cursor, cells, history>>

ContainerBoots(n) == Boots(n) /\ UNCHANGED <<pc, flags, cursor, cells, faults, history>>
ContainerDies(n) ==
  /\ Dies(n) /\ faults < MaxFaults /\ faults' = faults + 1
  /\ UNCHANGED <<pc, flags, cursor, cells, history>>
\* Nobody listens any more: a wait or a call ends in an error.
NoAnswer ==
  /\ pc \in {"wait", "measure", "loop"} /\ ~Running(Runtime)
  /\ pc' = "threw"
  /\ UNCHANGED <<containers, flags, cursor, cells, faults, history>>

Init ==
  /\ containers = [n \in Names |-> NoContainer]
  /\ pc = "idle" /\ only = {} /\ asked = {} /\ keep = FALSE
  /\ runtime = 1 /\ scenario = 1 /\ phase = 1 /\ observed = Nothing
  /\ answer = Nothing.desired
  /\ cells = <<>> /\ runs = 0 /\ faults = 0 /\ swallowed = FALSE

Advance ==
  \/ ClearName \/ startFunction \/ waitForReady \/ FirstCall \/ Fatal \/ measure
  \/ StopRuntime \/ Compare \/ NoAnswer
  \/ \E noGate \in BOOLEAN : Gate(noGate)

Next ==
  \/ \E selection \in Selections, scenarios \in Asked : main(selection, scenarios)
  \/ Advance \/ Throws
  \/ \E n \in Names : ContainerBoots(n) \/ ContainerDies(n)

Spec == Init /\ [][Next]_vars

-----------------------------------------------------------------------------
\* The gate lets nobody pass who desires something else than the reference did
\* in the same scenario and phase, empty metadata maps apart (main.ts, "a
\* runtime is only a drop-in replacement if the desired state matches").
GateIsHonest ==
  pc = "passed" =>
    \A i, j \in DOMAIN cells :
      /\ cells[i].runtime = REFERENCE
      /\ cells[i].scenario = cells[j].scenario /\ cells[i].phase = cells[j].phase
      => stripEmptyMetadata(cells[i].canonical) = stripEmptyMetadata(cells[j].canonical)

\* A run that returns has one cell for each phase of each scenario that it was
\* asked for and its runtimes have; what a second reconcile observed is what its
\* runtime desired in the cell before, not in an earlier call.
MatrixIsWhole ==
  pc \in Returned =>
    \A r \in {1, 2, 3}, s \in {1, 2}, p \in {1, 2} :
      LET mine == {i \in DOMAIN cells :
                     /\ cells[i].runtime = runtimes[r]
                     /\ cells[i].scenario = SCENARIOS[s]
                     /\ cells[i].phase = PHASES[p]}
      IN IF runtimes[r] \in only /\ SCENARIOS[s] \in asked
            /\ ~Skipped(runtimes[r], SCENARIOS[s])
         THEN \E i \in mine :
                /\ mine = {i}
                /\ cells[i].observed =
                     IF p = 1 THEN Nothing
                     ELSE observedFrom(cells[i - 1].canonical, SCENARIOS[s])
         ELSE mine = {}

\* A runtime that cannot be started met a fault now, or the removal of its own
\* name failed just before: no container that an earlier run or runtime left, kept
\* on purpose or not, stands in the way of one whose name could be cleared.
LeftoversNeverBlock ==
  [][pc = "run" /\ pc' = "threw" => faults' > faults \/ swallowed]_vars
=============================================================================
