-------------------------- MODULE PriceRefreshProofs --------------------------
(***************************************************************************)
(* What TLAPS proves about PriceRefresh, for any number of runs, prices,     *)
(* pages, days and changes: the file keeps the promise of RateCard, and a     *)
(* check that passes is honest.                                            *)
(***************************************************************************)
EXTENDS PriceRefresh, FiniteSetTheorems, TLAPS

(***************************************************************************)
(* The constants.                                                          *)
(***************************************************************************)

\* The meters of each cloud, spelled out.
LEMMA MetersSpelledOut ==
  /\ MetersOf("aws") = {"ec2", "rds", "eks", "ebs", "rdsStorage", "s3"}
  /\ MetersOf("azure") = {"vm", "aksStandard", "disk", "pgCompute", "pgStorage", "blob"}
  /\ MetersOf("gcp") = {"serviceIds", "coreRate", "ramRate", "pdStandard", "gkeFee",
                        "sqlVcpu", "sqlRam", "sqlStorage", "gcs"}
<1>1. MetersOf("aws") = {"ec2", "rds", "eks", "ebs", "rdsStorage", "s3"}
  <2>1. BUILDERS["aws"] = BuildAws
    BY DEF BUILDERS
  <2>2. DOMAIN BuildAws = 1..6
    BY DEF BuildAws
  <2>3. UNION {BuildAws[i] : i \in 1..6} =
          BuildAws[1] \cup BuildAws[2] \cup BuildAws[3] \cup BuildAws[4] \cup BuildAws[5]
            \cup BuildAws[6]
    <3>1. 1..6 = {1, 2, 3, 4, 5, 6}
      OBVIOUS
    <3> QED BY <3>1, Zenon
  <2> QED
    BY <2>1, <2>2, <2>3 DEF MetersOf, BuildAws
<1>2. MetersOf("azure") = {"vm", "aksStandard", "disk", "pgCompute", "pgStorage", "blob"}
  <2>1. BUILDERS["azure"] = BuildAzure
    BY DEF BUILDERS
  <2>2. DOMAIN BuildAzure = 1..5
    BY DEF BuildAzure
  <2>3. UNION {BuildAzure[i] : i \in 1..5} =
          BuildAzure[1] \cup BuildAzure[2] \cup BuildAzure[3] \cup BuildAzure[4]
            \cup BuildAzure[5]
    <3>1. 1..5 = {1, 2, 3, 4, 5}
      OBVIOUS
    <3> QED BY <3>1, Zenon
  <2> QED
    BY <2>1, <2>2, <2>3 DEF MetersOf, BuildAzure
<1>3. MetersOf("gcp") = {"serviceIds", "coreRate", "ramRate", "pdStandard", "gkeFee",
                         "sqlVcpu", "sqlRam", "sqlStorage", "gcs"}
  <2>1. BUILDERS["gcp"] = BuildGcp
    BY DEF BUILDERS
  <2>2. DOMAIN BuildGcp = 1..5
    BY DEF BuildGcp
  <2>3. UNION {BuildGcp[i] : i \in 1..5} =
          BuildGcp[1] \cup BuildGcp[2] \cup BuildGcp[3] \cup BuildGcp[4] \cup BuildGcp[5]
    <3>1. 1..5 = {1, 2, 3, 4, 5}
      OBVIOUS
    <3> QED BY <3>1, Zenon
  <2> QED
    BY <2>1, <2>2, <2>3 DEF MetersOf, BuildGcp
<1> QED
  BY <1>1, <1>2, <1>3

\* A builder is a non-empty sequence of queries, and covers its cloud's meters.
LEMMA Builders ==
  ASSUME NEW c \in Clouds
  PROVE  /\ Len(BUILDERS[c]) \in Nat \ {0}
         /\ DOMAIN BUILDERS[c] = 1..Len(BUILDERS[c])
         /\ \A i \in 1..Len(BUILDERS[c]) : BUILDERS[c][i] \subseteq MetersOf(c)
         /\ \A m \in MetersOf(c) : \E i \in 1..Len(BUILDERS[c]) : m \in BUILDERS[c][i]
         /\ MetersOf(c) \subseteq Meters
<1>1. /\ Len(BUILDERS[c]) \in Nat \ {0}
      /\ DOMAIN BUILDERS[c] = 1..Len(BUILDERS[c])
  BY DEF Clouds, BUILDERS, BuildAws, BuildAzure, BuildGcp
<1>2. MetersOf(c) = UNION {BUILDERS[c][i] : i \in 1..Len(BUILDERS[c])}
  BY <1>1 DEF MetersOf
<1> QED
  BY <1>1, <1>2 DEF Meters

\* Every cell is in the block of one cloud.
LEMMA OneBlock ==
  /\ \A m \in Cells : CloudOf[m] \in Clouds /\ m \in CellsOf(CloudOf[m]) /\ m \in Meters
  /\ \A c \in Clouds : \A m \in CellsOf(c) : m \in Cells /\ CloudOf[m] = c
<1>1. \A c, k \in Clouds : \A m : m \in MetersOf(c) /\ m \in MetersOf(k) => c = k
  BY MetersSpelledOut DEF Clouds
<1>2. \A m \in Cells : \E c \in Clouds : m \in MetersOf(c)
  BY DEF Cells, Meters
<1>3. \A m \in Cells : CloudOf[m] \in Clouds /\ m \in MetersOf(CloudOf[m])
  BY <1>2, Zenon DEF CloudOf
<1>4. \A m \in Cells : CloudOf[m] \in Clouds /\ m \in CellsOf(CloudOf[m]) /\ m \in Meters
  BY <1>3 DEF CellsOf, Cells
<1>5. \A c \in Clouds : \A m \in CellsOf(c) : m \in Cells
  BY DEF CellsOf, Cells, Meters
<1>6. \A c \in Clouds : \A m \in CellsOf(c) : CloudOf[m] = c
  BY <1>1, <1>3, <1>5 DEF CellsOf
<1> QED
  BY <1>4, <1>5, <1>6

(***************************************************************************)
(* The inductive invariant.  A promise about dates needs all that a run      *)
(* knows: where it is in its clouds, that what it has fetched was quoted       *)
(* since it began, that its copy of the file is as honest as the file was, and *)
(* what the clouds it is done with have got.  It is stated over a run's record *)
(* and the day and the quotes at hand, so that only the run that steps has to  *)
(* be looked at.                                                           *)
(***************************************************************************)

Days == 0..MaxDay
AllQuotes == Meters \X Prices \X Days

HonestAt(card, q) ==
  \A m \in Cells : card.asOf[CloudOf[m]] # Undated =>
    \E d \in Days : d >= card.asOf[CloudOf[m]] /\ <<m, card.rates[m], d>> \in q

Seen(m, price, from, to, q) == \E d \in from..to : <<m, price, d>> \in q

Done(s) == Len(s.wanted) - Len(s.todo)

\* Where a run is in the clouds it was asked for.
Walks(s) ==
  /\ Len(s.todo) <= Len(s.wanted)
  /\ \A j \in 1..Len(s.todo) : s.todo[j] = s.wanted[Done(s) + j]
  /\ s.pc \in {"inventory", "build", "fetch", "built"} => s.todo # <<>>
  /\ s.pc = "inventory" => s.todo = s.wanted /\ ~s.drift
  /\ s.pc = "idle" => ~s.drift
  /\ s.pc \in {"write", "ok"} => s.todo = <<>>
  /\ s.pc = "write" => ~s.check
  /\ s.pc = "ok" /\ s.check => ~s.drift
  /\ s.pc = "fetch" => s.query <= Len(BUILDERS[Head(s.todo)])

\* What it has fetched.
Fetched(s, to, q) ==
  /\ s.pc = "fetch" =>
       /\ \A x \in s.found : Seen(x[1], x[2][2], s.TODAY, to, q)
       /\ \A i \in 1..(s.query - 1) : \A m \in BUILDERS[Head(s.todo)][i] :
            s.built[m] # Unpriced
  /\ s.pc \in {"fetch", "built"} => \A m \in Meters :
       s.built[m] # Unpriced => Seen(m, s.built[m], s.TODAY, to, q)
  /\ s.pc = "built" => \A m \in MetersOf(Head(s.todo)) : s.built[m] # Unpriced

\* What the clouds it is done with have got.
Refreshed(s) ==
  ~s.check /\ s.pc \notin {"idle", "failed"} =>
    \A i \in 1..Done(s) : s.source.asOf[s.wanted[i]] = s.TODAY

Passed(s, c, to, q) ==
  /\ s.TODAY - s.source.asOf[c] <= StalenessDays
  /\ \A m \in CellsOf(c) : Seen(m, s.source.rates[m], s.TODAY, to, q)

Checked(s, to, q) ==
  s.check /\ ~s.drift /\ s.pc \notin {"idle", "failed"} =>
    \A i \in 1..Done(s) : Passed(s, s.wanted[i], to, q)

RunOK(s, to, q) ==
  /\ s \in RunType /\ s.TODAY <= to /\ HonestAt(s.source, q)
  /\ Walks(s) /\ Fetched(s, to, q) /\ Refreshed(s) /\ Checked(s, to, q)

\* What the vendors list today has been quoted today.
Listed == \A m \in Meters : \A s \in listing[m] : <<m, s[2], day>> \in quotes

Inv ==
  /\ TypeOK /\ Listed /\ HonestAt(file, quotes)
  /\ \A r \in Runs : RunOK(run[r], day, quotes)

\* Days pass and quotes are added: what was seen stays seen.
LEMMA SeenStays ==
  ASSUME NEW to \in Days, NEW later \in Days, to <= later, NEW q, NEW p, q \subseteq p,
         NEW from \in Days
  PROVE  \A m, price : Seen(m, price, from, to, q) => Seen(m, price, from, later, p)
BY DEF Seen, Days

LEMMA HonestStays ==
  ASSUME NEW card, NEW q, NEW p, q \subseteq p, HonestAt(card, q)
  PROVE  HonestAt(card, p)
BY DEF HonestAt

LEMMA RunStays ==
  ASSUME NEW s, NEW to \in Days, NEW later \in Days, to <= later,
         NEW q, NEW p, q \subseteq p, RunOK(s, to, q)
  PROVE  RunOK(s, later, p)
<1>1. s \in RunType /\ s.TODAY \in Days
  BY DEF RunOK, RunType, Days
<1>2. s.TODAY <= later
  BY <1>1 DEF RunOK, Days
<1>3. HonestAt(s.source, p)
  BY HonestStays DEF RunOK
<1>4. \A m, price : Seen(m, price, s.TODAY, to, q) => Seen(m, price, s.TODAY, later, p)
  BY <1>1, SeenStays
<1>5. Fetched(s, later, p)
  BY <1>4 DEF RunOK, Fetched
<1>6. Checked(s, later, p)
  BY <1>4 DEF RunOK, Checked, Passed
<1> QED
  BY <1>1, <1>2, <1>3, <1>5, <1>6 DEF RunOK

\* A run that has not begun, and one that has failed.
LEMMA IdleRun ==
  ASSUME NEW card \in Files, NEW to \in Days, NEW q, HonestAt(card, q)
  PROVE  /\ RunOK(Idle(card), to, q)
         /\ RunOK([Idle(card) EXCEPT !.pc = "failed"], to, q)
<1>1. <<>> \in Seq(Clouds) /\ Len(<<>>) = 0
  OBVIOUS
<1>2. 0 \in Days /\ 1 \in 1..LastPage /\ 1 \in Nat \ {0}
  BY RefreshAssumption DEF Days
<1>3. [m \in Meters |-> Unpriced] \in [Meters -> Prices \cup {Unpriced}]
  OBVIOUS
<1>4. Idle(card) \in RunType /\ [Idle(card) EXCEPT !.pc = "failed"] \in RunType
  BY <1>1, <1>2, <1>3 DEF Idle, RunType, Days, Ended
<1>5. /\ Idle(card).pc = "idle" /\ [Idle(card) EXCEPT !.pc = "failed"].pc = "failed"
      /\ \A s \in {Idle(card), [Idle(card) EXCEPT !.pc = "failed"]} :
           /\ s.todo = <<>> /\ s.wanted = <<>> /\ s.TODAY = 0 /\ s.source = card
           /\ s.drift = FALSE
  BY DEF Idle
<1>6. ASSUME NEW s \in {Idle(card), [Idle(card) EXCEPT !.pc = "failed"]}
      PROVE  RunOK(s, to, q)
  <2>1. /\ s.pc \in {"idle", "failed"} /\ s.todo = <<>> /\ s.wanted = <<>>
        /\ s.TODAY = 0 /\ s.source = card /\ s.drift = FALSE
    BY <1>5, Zenon
  <2>2. Walks(s)
    BY <1>1, <2>1 DEF Walks, Done
  <2>3. Fetched(s, to, q) /\ Refreshed(s) /\ Checked(s, to, q)
    BY <2>1 DEF Fetched, Refreshed, Checked
  <2>4. s.TODAY <= to /\ HonestAt(s.source, q)
    BY <2>1 DEF Days
  <2> QED
    BY <1>4, <2>2, <2>3, <2>4 DEF RunOK
<1> QED
  BY <1>6

(***************************************************************************)
(* The initial states.                                                     *)
(***************************************************************************)

LEMMA QuotedToday ==
  ASSUME listing \in [Meters -> SUBSET Skus], NEW d \in Days
  PROVE  /\ \A m \in Meters : \A s \in listing[m] : <<m, s[2], d>> \in QuotedOn(d)
         /\ QuotedOn(d) \subseteq AllQuotes
<1>1. ASSUME NEW m \in Meters, NEW s \in listing[m] PROVE <<m, s[2], d>> \in QuotedOn(d)
  <2>1. <<m, s>> \in {x \in Meters \X Skus : x[2] \in listing[x[1]]}
    OBVIOUS
  <2>2. << <<m, s>>[1], <<m, s>>[2][2], d>> \in QuotedOn(d)
    BY <2>1, Zenon DEF QuotedOn
  <2> QED
    BY <2>2
<1>4. QuotedOn(d) \subseteq AllQuotes
  <2> SUFFICES ASSUME NEW x \in Meters \X Skus
               PROVE  <<x[1], x[2][2], d>> \in AllQuotes
    BY DEF QuotedOn
  <2>1. x[1] \in Meters /\ x[2][2] \in Prices
    BY DEF Skus
  <2> QED
    BY <2>1 DEF AllQuotes
<1> QED
  BY <1>1, <1>4

LEMMA InitOK == Init => Inv
<1> SUFFICES ASSUME Init PROVE Inv
  OBVIOUS
<1>1. 0 \in Days /\ day = 0
  BY RefreshAssumption DEF Init, Days
<1>2. listing \in [Meters -> SUBSET Skus] /\ file \in Files
  BY DEF Init
<1>3. quotes \subseteq AllQuotes /\ Listed
  BY <1>1, <1>2, QuotedToday DEF Init, Listed
<1>4. HonestAt(file, quotes)
  <2> SUFFICES ASSUME NEW m \in Cells, file.asOf[CloudOf[m]] # Undated
               PROVE  \E d \in Days : /\ d >= file.asOf[CloudOf[m]]
                                      /\ <<m, file.rates[m], d>> \in quotes
    BY DEF HonestAt
  <2>1. CloudOf[m] \in Clouds /\ m \in Meters
    BY OneBlock
  <2>2. file.asOf[CloudOf[m]] = 0
    BY <2>1 DEF Init
  <2>3. PICK s \in listing[m] : s[2] = file.rates[m]
    BY <2>1 DEF Init
  <2> QED
    BY <2>1, <2>2, <2>3, <1>1, <1>3 DEF Listed
<1>5. \A r \in Runs : RunOK(run[r], day, quotes)
  BY <1>1, <1>2, <1>4, IdleRun DEF Init
<1>6. TypeOK
  <2>1. run \in [Runs -> RunType]
    <3>1. \A r \in Runs : run[r] \in RunType
      BY <1>5 DEF RunOK
    <3> QED
      BY <3>1 DEF Init
  <2>2. quotes \subseteq Meters \X Prices \X (0..MaxDay) /\ steady \subseteq Runs
    BY <1>3 DEF Init, AllQuotes, Days
  <2>3. day \in 0..MaxDay /\ moves \in 0..MaxMoves
    BY RefreshAssumption DEF Init
  <2> QED
    BY <1>2, <2>1, <2>2, <2>3 DEF TypeOK
<1> QED
  BY <1>3, <1>4, <1>5, <1>6 DEF Inv

(***************************************************************************)
(* The steps of a run.  Each needs only the record it leaves behind to be     *)
(* looked at.                                                              *)
(***************************************************************************)

LEMMA StepKeeps ==
  ASSUME Inv, NEW r \in Runs, NEW new, Becomes(r, new), RunOK(new, day, quotes),
         UNCHANGED <<day, listing, moves, quotes>>,
         file' \in Files, HonestAt(file', quotes), steady' \subseteq Runs
  PROVE  Inv'
<1>1. \A q \in Runs : RunOK(run'[q], day, quotes)
  BY DEF Inv, TypeOK, Becomes
<1>2. run' \in [Runs -> RunType]
  <2>1. \A q \in Runs : run'[q] \in RunType
    BY <1>1 DEF RunOK
  <2> QED
    BY <2>1 DEF Inv, TypeOK, Becomes
<1>3. TypeOK'
  BY <1>2 DEF Inv, TypeOK
<1>4. Listed'
  BY DEF Inv, Listed
<1>5. \A q \in Runs : RunOK(run[q], day, quotes)'
  BY <1>1
<1>6. HonestAt(file, quotes)'
  OBVIOUS
<1> QED
  BY <1>3, <1>4, <1>5, <1>6 DEF Inv

LEMMA FailsKeeps ==
  ASSUME Inv, NEW r \in Runs, Fails(r), UNCHANGED <<day, listing, file, moves, quotes>>,
         steady' \subseteq Runs
  PROVE  Inv'
<1>1. run[r].source \in Files /\ HonestAt(run[r].source, quotes) /\ day \in Days
  BY DEF Inv, RunOK, RunType, TypeOK, Days
<1>2. RunOK([Idle(run[r].source) EXCEPT !.pc = "failed"], day, quotes)
  BY <1>1, IdleRun
<1>3. file' \in Files /\ HonestAt(file', quotes)
  BY DEF Inv, TypeOK
<1> QED
  BY <1>2, <1>3, StepKeeps DEF Fails

\* The first of a run's clouds, and the rest.
LEMMA HeadAndRest ==
  ASSUME NEW todo \in Seq(Clouds), todo # <<>>
  PROVE  /\ Head(todo) \in Clouds /\ Head(todo) = todo[1] /\ Len(todo) >= 1
         /\ Tail(todo) \in Seq(Clouds) /\ Len(Tail(todo)) = Len(todo) - 1
         /\ \A j \in 1..Len(Tail(todo)) : Tail(todo)[j] = todo[j + 1]
         /\ Len(todo) = 1 => Tail(todo) = <<>>
         /\ Len(todo) # 1 => Tail(todo) # <<>>
<1>1. /\ Head(todo) \in Clouds /\ Head(todo) = todo[1] /\ Len(todo) >= 1
      /\ Tail(todo) \in Seq(Clouds) /\ Len(Tail(todo)) = Len(todo) - 1
  OBVIOUS
<1>2. \A j \in 1..Len(Tail(todo)) : Tail(todo)[j] = todo[j + 1]
  BY <1>1
<1>3. \A q \in Seq(Clouds) : Len(q) = 0 <=> q = <<>>
  OBVIOUS
<1>4. Len(todo) = 1 <=> Tail(todo) = <<>>
  BY <1>1, <1>3
<1> QED
  BY <1>1, <1>2, <1>4

\* The clouds a run is asked for are clouds, and at least one.
LEMMA WantedClouds ==
  ASSUME NEW argv \in Requests, ~Named(argv, "other")
  PROVE  Wanted(argv) \in Seq(Clouds) /\ Wanted(argv) # <<>>
<1>1. argv \in Seq({"aws", "gcp", "azure", "all", "other"})
  BY RefreshAssumption
<1>2. <<"aws", "gcp", "azure">> \in Seq(Clouds) /\ <<"aws", "gcp", "azure">> # <<>>
  BY DEF Clouds
<1>3. CASE argv # <<>> /\ ~Named(argv, "all")
  <2>1. \A i \in 1..Len(argv) : argv[i] \in Clouds
    BY <1>1, <1>3 DEF Named, Clouds
  <2>2. argv \in Seq(Clouds)
    BY <1>1, <2>1
  <2> QED
    BY <1>3, <2>2 DEF Wanted
<1> QED
  BY <1>2, <1>3 DEF Wanted

LEMMA LaunchKeeps == ASSUME Inv, NEW r \in Runs, Launch(r) PROVE Inv'
<1>1. PICK argv \in Requests, env \in Environments, check \in BOOLEAN :
        IF Named(argv, "other") THEN Fails(r)
        ELSE Becomes(r, [run[r] EXCEPT
               !.pc = "inventory", !.check = check, !.wanted = Wanted(argv),
               !.todo = Wanted(argv), !.env = env, !.TODAY = day])
  BY DEF Launch
<1>2. /\ UNCHANGED <<day, listing, file, moves, quotes>> /\ steady' \subseteq Runs
      /\ file' \in Files /\ HonestAt(file', quotes) /\ day \in Days
  BY DEF Launch, history, Inv, TypeOK, Days
<1>3. CASE Named(argv, "other")
  BY <1>1, <1>2, <1>3, FailsKeeps
<1>4. CASE ~Named(argv, "other")
  <2> DEFINE new == [run[r] EXCEPT
               !.pc = "inventory", !.check = check, !.wanted = Wanted(argv),
               !.todo = Wanted(argv), !.env = env, !.TODAY = day]
  <2>1. run[r] \in RunType /\ HonestAt(run[r].source, quotes) /\ Walks(run[r])
    BY DEF Inv, RunOK
  <2>2. Wanted(argv) \in Seq(Clouds) /\ Wanted(argv) # <<>>
    BY <1>4, WantedClouds
  <2>3. /\ new.pc = "inventory" /\ new.check = check /\ new.wanted = Wanted(argv)
        /\ new.todo = Wanted(argv) /\ new.TODAY = day /\ new.source = run[r].source
        /\ new.drift = run[r].drift
    BY <2>1 DEF RunType
  <2>4. new \in RunType
    BY <1>2, <2>1, <2>2, RefreshAssumption DEF RunType, Days
  <2>5. ~run[r].drift
    BY <2>1 DEF Launch, Walks
  <2>6. Done(new) = 0
    BY <2>2, <2>3 DEF Done
  <2>7. Walks(new)
    BY <2>2, <2>3, <2>5, <2>6 DEF Walks
  <2>8. Fetched(new, day, quotes) /\ Refreshed(new) /\ Checked(new, day, quotes)
    BY <2>3, <2>6 DEF Fetched, Refreshed, Checked
  <2>9. RunOK(new, day, quotes)
    BY <1>2, <2>1, <2>3, <2>4, <2>7, <2>8 DEF RunOK, Days
  <2> QED
    BY <1>1, <1>2, <1>4, <2>9, StepKeeps
<1> QED
  BY <1>3, <1>4

LEMMA InventoryKeeps == ASSUME Inv, NEW r \in Runs, Inventory(r) PROVE Inv'
<1> DEFINE s == run[r]
           new == [s EXCEPT !.pc = "build", !.source = file]
<1>1. /\ s \in RunType /\ s.TODAY <= day /\ Walks(s) /\ s.pc = "inventory"
      /\ file \in Files /\ HonestAt(file, quotes)
  BY DEF Inv, RunOK, Inventory, TypeOK
<1>2. /\ new \in RunType /\ new.pc = "build" /\ new.source = file
      /\ new.check = s.check /\ new.wanted = s.wanted /\ new.todo = s.todo
      /\ new.TODAY = s.TODAY /\ new.drift = s.drift
  BY <1>1 DEF RunType
<1> HIDE DEF new
<1>3. s.todo = s.wanted /\ s.todo # <<>> /\ s.todo \in Seq(Clouds)
  BY <1>1 DEF Walks, RunType
<1>4. Done(new) = 0
  BY <1>2, <1>3 DEF Done
<1>5. Walks(new)
  BY <1>2, <1>3, <1>4 DEF Walks
<1>6. Fetched(new, day, quotes) /\ Refreshed(new) /\ Checked(new, day, quotes)
  BY <1>2, <1>4 DEF Fetched, Refreshed, Checked
<1>7. RunOK(new, day, quotes)
  BY <1>1, <1>2, <1>5, <1>6 DEF RunOK
<1>8. /\ Becomes(r, new) /\ UNCHANGED <<day, listing, file, moves, quotes>>
      /\ steady' \subseteq Runs
  BY DEF Inventory, history, Inv, TypeOK, new
<1> QED
  BY <1>1, <1>7, <1>8, StepKeeps

LEMMA BeginKeeps == ASSUME Inv, NEW r \in Runs, Begin(r) PROVE Inv'
<1>0. PICK none : none = [m \in Meters |-> Unpriced]
  OBVIOUS
<1> DEFINE s == run[r]
           new == [s EXCEPT !.pc = "fetch", !.query = 1, !.page = 1, !.found = {},
                            !.built = none]
<1>1. /\ s \in RunType /\ s.TODAY <= day /\ s.pc = "build" /\ HonestAt(s.source, quotes)
      /\ Walks(s) /\ Refreshed(s) /\ Checked(s, day, quotes)
      /\ file \in Files /\ HonestAt(file, quotes)
  BY DEF Inv, RunOK, Begin, TypeOK
<1>2. UNCHANGED <<day, listing, file, moves, quotes>> /\ steady' \subseteq Runs
  BY DEF Begin, Inv, TypeOK
<1>3. CASE Authorised(r)
  <2>1. none \in [Meters -> Prices \cup {Unpriced}]
    BY <1>0
  <2>2. new \in RunType
    <3>1. 1 \in 1..LastPage /\ 1 \in Nat \ {0} /\ {} \in SUBSET (Meters \X Skus)
      BY RefreshAssumption
    <3> QED
      BY <1>1, <2>1, <3>1, Zenon DEF RunType
  <2>3. /\ new.pc = "fetch" /\ new.source = s.source /\ new.query = 1 /\ new.found = {}
        /\ new.check = s.check /\ new.wanted = s.wanted /\ new.todo = s.todo
        /\ new.TODAY = s.TODAY /\ new.drift = s.drift /\ new.built = none
    BY <1>1 DEF RunType
  <2> HIDE DEF new
  <2>4. s.todo # <<>> /\ s.todo \in Seq(Clouds)
    BY <1>1 DEF Walks, RunType
  <2>5. 1 <= Len(BUILDERS[Head(s.todo)])
    BY <2>4, HeadAndRest, Builders
  <2>6. Walks(new)
    BY <1>1, <2>3, <2>4, <2>5 DEF Walks, Done
  <2>7. Fetched(new, day, quotes)
    BY <1>0, <2>3 DEF Fetched
  <2>8. Refreshed(new) /\ Checked(new, day, quotes)
    BY <1>1, <2>3 DEF Refreshed, Checked, Passed, Done
  <2>9. RunOK(new, day, quotes)
    BY <1>1, <2>2, <2>3, <2>6, <2>7, <2>8 DEF RunOK
  <2>10. Becomes(r, new)
    BY <1>0, <1>3 DEF Begin, new
  <2> QED
    BY <1>1, <1>2, <2>9, <2>10, StepKeeps
<1>4. CASE ~Authorised(r)
  BY <1>2, <1>4, FailsKeeps DEF Begin
<1> QED
  BY <1>3, <1>4

\* What a run has found, and finds on its page, was quoted since it began.
LEMMA FoundSeen ==
  ASSUME Inv, NEW r \in Runs, run[r].pc = "fetch"
  PROVE  /\ Found(r) \subseteq Meters \X Skus
         /\ \A x \in Found(r) : Seen(x[1], x[2][2], run[r].TODAY, day, quotes)
         /\ Cloud(r) \in Clouds /\ Query(r) \subseteq MetersOf(Cloud(r))
         /\ Query(r) \subseteq Meters
<1> DEFINE s == run[r]
<1>1. s \in RunType /\ Walks(s) /\ Fetched(s, day, quotes) /\ s.TODAY <= day
  BY DEF Inv, RunOK
<1>2. /\ s.todo # <<>> /\ s.todo \in Seq(Clouds) /\ s.query \in Nat \ {0}
      /\ s.query <= Len(BUILDERS[Head(s.todo)]) /\ s.found \subseteq Meters \X Skus
      /\ s.TODAY \in Days /\ day \in Days
  BY <1>1 DEF Walks, RunType, Inv, TypeOK, Days
<1>3. Cloud(r) \in Clouds
  BY <1>2, HeadAndRest DEF Cloud
<1>4. Query(r) \subseteq MetersOf(Cloud(r)) /\ Query(r) \subseteq Meters
  BY <1>2, <1>3, Builders DEF Query, Cloud
<1>5. ASSUME NEW x \in Query(r) \X Skus, x[2] \in listing[x[1]]
      PROVE  Seen(x[1], x[2][2], s.TODAY, day, quotes)
  <2>1. <<x[1], x[2][2], day>> \in quotes
    BY <1>4, <1>5 DEF Inv, Listed
  <2>2. day \in s.TODAY..day
    BY <1>1, <1>2 DEF Days
  <2> QED
    BY <2>1, <2>2 DEF Seen
<1>6. \A x \in s.found : Seen(x[1], x[2][2], s.TODAY, day, quotes)
  BY <1>1 DEF Fetched
<1>7. Found(r) \subseteq Meters \X Skus
  BY <1>2, <1>4 DEF Found
<1>8. \A x \in Found(r) : x \in s.found \/ (x \in Query(r) \X Skus /\ x[2] \in listing[x[1]])
  BY DEF Found
<1> QED
  BY <1>3, <1>4, <1>5, <1>6, <1>7, <1>8

LEMMA AwsProductsKeeps == ASSUME Inv, NEW r \in Runs, AwsProducts(r) PROVE Inv'
<1>0. PICK found : found = Found(r)
  OBVIOUS
<1> DEFINE s == run[r]
           new == [s EXCEPT !.found = found, !.page = @ + 1]
<1>1. /\ s \in RunType /\ s.TODAY <= day /\ s.pc = "fetch" /\ HonestAt(s.source, quotes)
      /\ Walks(s) /\ Fetched(s, day, quotes) /\ Refreshed(s) /\ Checked(s, day, quotes)
      /\ file \in Files /\ HonestAt(file, quotes) /\ listing \in [Meters -> SUBSET Skus]
  BY DEF Inv, RunOK, AwsProducts, TypeOK
<1>2. /\ UNCHANGED <<day, listing, file, moves, quotes>> /\ steady' \subseteq Runs
      /\ Becomes(r, new)
  BY <1>0 DEF AwsProducts, Inv, TypeOK, history
<1>3. /\ found \subseteq Meters \X Skus
      /\ \A x \in found : Seen(x[1], x[2][2], s.TODAY, day, quotes)
      /\ Query(r) \subseteq Meters
  BY <1>0, <1>1, FoundSeen
<1>4. s.page + 1 \in 1..LastPage
  <2>0. PICK m \in Query(r) : \E sku \in listing[m] : sku[1] > s.page
    BY DEF AwsProducts, More
  <2>1. PICK sku \in listing[m] : sku[1] > s.page
    BY <2>0
  <2>2. sku[1] \in 1..LastPage /\ s.page \in 1..LastPage
    BY <1>1, <1>3, <2>1 DEF Skus, RunType
  <2> QED
    BY <2>1, <2>2, RefreshAssumption
<1>5. new \in RunType
  BY <1>1, <1>3, <1>4 DEF RunType
<1>6. /\ new.pc = "fetch" /\ new.source = s.source /\ new.query = s.query /\ new.found = found
      /\ new.check = s.check /\ new.wanted = s.wanted /\ new.todo = s.todo
      /\ new.TODAY = s.TODAY /\ new.drift = s.drift /\ new.built = s.built
  BY <1>1 DEF RunType
<1> HIDE DEF new
<1>7. Walks(new)
  BY <1>1, <1>6 DEF Walks, Done
<1>8. Fetched(new, day, quotes)
  BY <1>1, <1>3, <1>6 DEF Fetched
<1>9. Refreshed(new) /\ Checked(new, day, quotes)
  BY <1>1, <1>6 DEF Refreshed, Checked, Passed, Done
<1>10. RunOK(new, day, quotes)
  BY <1>1, <1>5, <1>6, <1>7, <1>8, <1>9 DEF RunOK
<1> QED
  BY <1>1, <1>2, <1>10, StepKeeps

\* A query's rates: each the only match that was found.
LEMMA BuiltSeen ==
  ASSUME Inv, NEW r \in Runs, run[r].pc = "fetch",
         \A m \in Query(r) : Only(MatchesOf(Found(r), m))
  PROVE  /\ Built(r) \in [Meters -> Prices \cup {Unpriced}]
         /\ \A m \in Query(r) : Built(r)[m] # Unpriced
         /\ \A m \in (Meters \ Query(r)) : Built(r)[m] = run[r].built[m]
         /\ \A m \in Meters : Built(r)[m] # Unpriced =>
              Seen(m, Built(r)[m], run[r].TODAY, day, quotes)
<1> DEFINE s == run[r]
<1>1. /\ Found(r) \subseteq Meters \X Skus /\ Query(r) \subseteq Meters
      /\ \A x \in Found(r) : Seen(x[1], x[2][2], s.TODAY, day, quotes)
  BY FoundSeen
<1>2. s.built \in [Meters -> Prices \cup {Unpriced}] /\ Fetched(s, day, quotes)
  BY DEF Inv, RunOK, RunType
<1>3. ASSUME NEW m \in Query(r)
      PROVE  /\ Built(r)[m] \in Prices
             /\ Seen(m, Built(r)[m], s.TODAY, day, quotes)
  <2>1. PICK sku \in MatchesOf(Found(r), m) : MatchesOf(Found(r), m) = {sku}
    BY DEF Only
  <2>2. (CHOOSE k \in MatchesOf(Found(r), m) : TRUE) = sku
    BY <2>1
  <2>3. PICK x \in Found(r) : x[1] = m /\ x[2] = sku
    BY <2>1 DEF MatchesOf
  <2>4. Built(r)[m] = sku[2]
    BY <1>1, <2>2, Zenon DEF Built
  <2>5. sku[2] \in Prices
    BY <1>1, <2>3 DEF Skus
  <2> QED
    BY <1>1, <2>3, <2>4, <2>5
<1>4. \A m \in (Meters \ Query(r)) : Built(r)[m] = s.built[m]
  BY DEF Built
<1>5. Built(r) \in [Meters -> Prices \cup {Unpriced}]
  <2>1. \A m \in Meters : Built(r)[m] \in Prices \cup {Unpriced}
    BY <1>2, <1>3, <1>4
  <2> QED
    BY <2>1 DEF Built
<1>6. \A p \in Prices : p # Unpriced
  BY RefreshAssumption DEF Unpriced
<1>7. \A m \in Meters : s.built[m] # Unpriced => Seen(m, s.built[m], s.TODAY, day, quotes)
  BY <1>2 DEF Fetched
<1>8. ASSUME NEW m \in Meters, Built(r)[m] # Unpriced
      PROVE  Seen(m, Built(r)[m], s.TODAY, day, quotes)
  BY <1>3, <1>4, <1>7, <1>8
<1> QED
  BY <1>3, <1>4, <1>5, <1>6, <1>8

LEMMA AwsFlatKeeps == ASSUME Inv, NEW r \in Runs, AwsFlat(r) PROVE Inv'
<1>0. PICK pc, built :
        /\ pc = IF run[r].query = Len(BUILDERS[Cloud(r)]) THEN "built" ELSE "fetch"
        /\ built = Built(r)
  OBVIOUS
<1> DEFINE s == run[r]
           new == [s EXCEPT !.pc = pc, !.built = built, !.query = @ + 1, !.page = 1,
                            !.found = {}]
<1>1. /\ s \in RunType /\ s.TODAY <= day /\ s.pc = "fetch" /\ HonestAt(s.source, quotes)
      /\ Walks(s) /\ Fetched(s, day, quotes) /\ Refreshed(s) /\ Checked(s, day, quotes)
      /\ file \in Files /\ HonestAt(file, quotes)
  BY DEF Inv, RunOK, AwsFlat, TypeOK
<1>2. UNCHANGED <<day, listing, file, moves, quotes>> /\ steady' \subseteq Runs
  BY DEF AwsFlat, Inv, TypeOK
<1>3. CASE \A m \in Query(r) : Only(MatchesOf(Found(r), m))
  <2>1. /\ built \in [Meters -> Prices \cup {Unpriced}]
        /\ \A m \in Query(r) : built[m] # Unpriced
        /\ \A m \in (Meters \ Query(r)) : built[m] = s.built[m]
        /\ \A m \in Meters : built[m] # Unpriced => Seen(m, built[m], s.TODAY, day, quotes)
    BY <1>0, <1>1, <1>3, BuiltSeen
  <2>2. new \in RunType
    <3>1. 1 \in 1..LastPage /\ {} \in SUBSET (Meters \X Skus)
      BY RefreshAssumption
    <3>2. s.query + 1 \in Nat \ {0} /\ pc \in {"fetch", "built"}
      BY <1>0, <1>1 DEF RunType
    <3> QED
      BY <1>1, <2>1, <3>1, <3>2, Zenon DEF RunType
  <2>3. /\ new.pc = pc /\ new.source = s.source /\ new.query = s.query + 1
        /\ new.check = s.check /\ new.wanted = s.wanted /\ new.todo = s.todo
        /\ new.TODAY = s.TODAY /\ new.drift = s.drift /\ new.built = built /\ new.found = {}
    BY <1>1 DEF RunType
  <2>4. Becomes(r, new)
    BY <1>0, <1>3 DEF AwsFlat
  <2> HIDE DEF new
  <2>5. /\ s.todo # <<>> /\ s.todo \in Seq(Clouds) /\ s.query \in Nat \ {0}
        /\ Head(s.todo) \in Clouds /\ s.query <= Len(BUILDERS[Head(s.todo)])
        /\ Cloud(r) = Head(s.todo) /\ Query(r) = BUILDERS[Head(s.todo)][s.query]
        /\ Len(BUILDERS[Head(s.todo)]) \in Nat
    BY <1>1, HeadAndRest, Builders DEF Walks, RunType, Cloud, Query
  <2>6. pc \in {"fetch", "built"}
    BY <1>0
  <2>7. pc = "fetch" => s.query + 1 <= Len(BUILDERS[Head(s.todo)])
    BY <1>0, <2>5
  <2>8. Walks(new)
    BY <1>1, <2>3, <2>5, <2>6, <2>7 DEF Walks, Done
  <2>9. \A i \in 1..s.query : \A m \in BUILDERS[Head(s.todo)][i] : built[m] # Unpriced
    <3> SUFFICES ASSUME NEW i \in 1..s.query, NEW m \in BUILDERS[Head(s.todo)][i]
                 PROVE  built[m] # Unpriced
      OBVIOUS
    <3>1. m \in Meters
      BY <2>5, Builders
    <3>2. CASE i = s.query
      BY <2>1, <2>5, <3>2
    <3>3. CASE i # s.query
      <4>1. i \in 1..(s.query - 1)
        BY <2>5, <3>3
      <4>2. s.built[m] # Unpriced
        BY <1>1, <4>1 DEF Fetched
      <4> QED
        BY <2>1, <3>1, <4>2
    <3> QED
      BY <3>2, <3>3
  <2>10. pc = "built" => \A m \in MetersOf(Head(s.todo)) : built[m] # Unpriced
    <3> SUFFICES ASSUME pc = "built", NEW m \in MetersOf(Head(s.todo))
                 PROVE  built[m] # Unpriced
      OBVIOUS
    <3>1. s.query = Len(BUILDERS[Head(s.todo)])
      BY <1>0, <2>5
    <3> QED
      BY <2>5, <2>9, <3>1, Builders
  <2>11. Fetched(new, day, quotes)
    <3>1. new.query - 1 = s.query
      BY <2>3, <2>5
    <3> QED
      BY <2>1, <2>3, <2>9, <2>10, <3>1 DEF Fetched
  <2>12. Refreshed(new) /\ Checked(new, day, quotes)
    BY <1>1, <2>3, <2>6 DEF Refreshed, Checked, Passed, Done
  <2>13. RunOK(new, day, quotes)
    BY <1>1, <2>2, <2>3, <2>8, <2>11, <2>12 DEF RunOK
  <2> QED
    BY <1>1, <1>2, <2>4, <2>13, StepKeeps
<1>4. CASE ~(\A m \in Query(r) : Only(MatchesOf(Found(r), m)))
  BY <1>2, <1>4, FailsKeeps DEF AwsFlat
<1> QED
  BY <1>3, <1>4

\* The clouds a run has left when one is done, and where it goes from there.
LEMMA NextCloud ==
  ASSUME NEW s \in RunType, Walks(s), s.pc = "built"
  PROVE  /\ Head(s.todo) \in Clouds /\ Head(s.todo) = s.wanted[Done(s) + 1]
         /\ Tail(s.todo) \in Seq(Clouds) /\ Len(s.todo) >= 1
         /\ Len(Tail(s.todo)) = Len(s.todo) - 1 /\ Len(s.todo) <= Len(s.wanted)
         /\ Len(s.wanted) \in Nat /\ Len(s.todo) \in Nat
         /\ \A j \in 1..Len(Tail(s.todo)) : Tail(s.todo)[j] = s.wanted[Done(s) + 1 + j]
         /\ Len(s.todo) = 1 => Tail(s.todo) = <<>>
         /\ Len(s.todo) # 1 => Tail(s.todo) # <<>>
<1>1. s.todo \in Seq(Clouds) /\ s.wanted \in Seq(Clouds) /\ s.todo # <<>>
  BY DEF RunType, Walks
<1>2. /\ Head(s.todo) \in Clouds /\ Head(s.todo) = s.todo[1] /\ Len(s.todo) >= 1
      /\ Tail(s.todo) \in Seq(Clouds) /\ Len(Tail(s.todo)) = Len(s.todo) - 1
      /\ \A j \in 1..Len(Tail(s.todo)) : Tail(s.todo)[j] = s.todo[j + 1]
      /\ Len(s.todo) = 1 => Tail(s.todo) = <<>>
      /\ Len(s.todo) # 1 => Tail(s.todo) # <<>>
  BY <1>1, HeadAndRest
<1>3. Len(s.wanted) \in Nat /\ Len(s.todo) \in Nat
  BY <1>1
<1>4. /\ Len(s.todo) <= Len(s.wanted)
      /\ \A j \in 1..Len(s.todo) : s.todo[j] = s.wanted[Done(s) + j]
  BY DEF Walks
<1>5. ASSUME NEW j \in 1..Len(Tail(s.todo))
      PROVE  Tail(s.todo)[j] = s.wanted[Done(s) + 1 + j]
  <2>1. j + 1 \in 1..Len(s.todo)
    BY <1>2, <1>3
  <2>2. Done(s) \in Int /\ Done(s) + (j + 1) = Done(s) + 1 + j
    <3>1. \A a, b, k \in Int : a - b \in Int /\ (a - b) + (k + 1) = (a - b) + 1 + k
      OBVIOUS
    <3>2. Len(s.wanted) \in Int /\ Len(s.todo) \in Int /\ j \in Int
      BY <1>3
    <3> QED
      BY <3>1, <3>2, Zenon DEF Done
  <2>3. s.todo[j + 1] = s.wanted[Done(s) + (j + 1)]
    BY <1>4, <2>1
  <2> QED
    BY <1>2, <2>2, <2>3
<1>6. Head(s.todo) = s.wanted[Done(s) + 1]
  BY <1>2, <1>3, <1>4
<1> QED
  BY <1>2, <1>3, <1>4, <1>5, <1>6

LEMMA CompareKeeps == ASSUME Inv, NEW r \in Runs, Compare(r) PROVE Inv'
<1>0. PICK pc, drift :
        /\ pc = IF Len(run[r].todo) > 1 THEN "build"
                ELSE IF Drifts(r) THEN "drifted" ELSE "ok"
        /\ drift = Drifts(r)
  OBVIOUS
<1> DEFINE s == run[r]
           new == [s EXCEPT !.drift = drift, !.todo = Tail(@), !.pc = pc]
<1>1. /\ s \in RunType /\ s.TODAY <= day /\ s.pc = "built" /\ HonestAt(s.source, quotes)
      /\ Walks(s) /\ Fetched(s, day, quotes) /\ Checked(s, day, quotes) /\ s.check
      /\ file \in Files /\ HonestAt(file, quotes) /\ day \in Days
  BY DEF Inv, RunOK, Compare, TypeOK, Days
<1>2. UNCHANGED <<day, listing, file, moves, quotes>> /\ steady' \subseteq Runs
  BY DEF Compare, Inv, TypeOK, history
<1>3. CASE BlockBounds(r) /\ AsOfOf(r) # Undated
  <2>1. /\ Head(s.todo) \in Clouds /\ Head(s.todo) = s.wanted[Done(s) + 1]
        /\ Tail(s.todo) \in Seq(Clouds) /\ Len(s.todo) >= 1
        /\ Len(Tail(s.todo)) = Len(s.todo) - 1 /\ Len(s.todo) <= Len(s.wanted)
        /\ Len(s.wanted) \in Nat /\ Len(s.todo) \in Nat
        /\ \A j \in 1..Len(Tail(s.todo)) : Tail(s.todo)[j] = s.wanted[Done(s) + 1 + j]
        /\ Len(s.todo) = 1 => Tail(s.todo) = <<>>
        /\ Len(s.todo) # 1 => Tail(s.todo) # <<>>
    BY <1>1, NextCloud
  <2>2. pc \in {"build", "drifted", "ok"} /\ drift \in BOOLEAN
    BY <1>0 DEF Drifts
  <2>3. new \in RunType
    <3>1. pc \in {"idle", "inventory", "build", "fetch", "built", "write"} \cup Ended
      BY <2>2 DEF Ended
    <3> QED
      BY <1>1, <2>1, <2>2, <3>1, Zenon DEF RunType
  <2>4. /\ new.pc = pc /\ new.source = s.source /\ new.check = s.check
        /\ new.wanted = s.wanted /\ new.todo = Tail(s.todo)
        /\ new.TODAY = s.TODAY /\ new.drift = drift
    BY <1>1 DEF RunType
  <2>5. Becomes(r, new)
    BY <1>0, <1>3 DEF Compare
  <2> HIDE DEF new
  <2>6. Done(new) = Done(s) + 1 /\ Done(s) \in Nat
    <3>1. \A a, b \in Nat : b <= a => a - (b - 1) = (a - b) + 1 /\ a - b \in Nat
      OBVIOUS
    <3>2. Done(new) = Len(s.wanted) - (Len(s.todo) - 1)
      BY <2>1, <2>4, Zenon DEF Done
    <3> QED
      BY <2>1, <3>1, <3>2, Zenon DEF Done
  <2>7. /\ pc = "build" => Tail(s.todo) # <<>>
        /\ pc # "build" => Tail(s.todo) = <<>>
        /\ pc = "ok" => ~drift
    BY <1>0, <2>1
  <2>8. Walks(new)
    <3>1. Len(new.todo) <= Len(new.wanted)
      BY <2>1, <2>4
    <3>2. \A j \in 1..Len(new.todo) : new.todo[j] = new.wanted[Done(new) + j]
      BY <2>1, <2>4, <2>6
    <3> QED
      BY <2>2, <2>4, <2>7, <3>1, <3>2 DEF Walks
  <2>9. Fetched(new, day, quotes) /\ Refreshed(new)
    BY <1>1, <2>2, <2>4 DEF Fetched, Refreshed
  <2>10. ~drift => Passed(s, Head(s.todo), day, quotes) /\ ~s.drift
    <3> SUFFICES ASSUME ~drift PROVE Passed(s, Head(s.todo), day, quotes) /\ ~s.drift
      OBVIOUS
    <3>1. /\ Strip(s.built, Head(s.todo)) = Strip(s.source.rates, Head(s.todo))
          /\ ~(day - s.source.asOf[Head(s.todo)] > StalenessDays)
          /\ ~s.drift
      BY <1>0, Zenon DEF Drifts, Cloud, AsOfOf
    <3>2. \A m \in CellsOf(Head(s.todo)) : s.source.rates[m] = s.built[m]
      BY <3>1, Zenon DEF Strip
    <3>3. \A m \in CellsOf(Head(s.todo)) :
            /\ m \in Meters /\ s.built[m] # Unpriced
            /\ Seen(m, s.built[m], s.TODAY, day, quotes)
      BY <1>1, <2>1, Builders DEF Fetched, CellsOf
    <3>4. s.TODAY - s.source.asOf[Head(s.todo)] <= StalenessDays
      <4>1. s.source.asOf[Head(s.todo)] \in -1..MaxDay
        BY <1>1, <2>1 DEF RunType, Files
      <4>2. s.TODAY \in 0..MaxDay /\ day \in 0..MaxDay
        BY <1>1 DEF RunType, Days
      <4>3. \A from, to, asOf, days \in Int :
              from <= to /\ ~(to - asOf > days) => from - asOf <= days
        OBVIOUS
      <4>4. /\ s.source.asOf[Head(s.todo)] \in Int /\ s.TODAY \in Int /\ day \in Int
            /\ StalenessDays \in Int
        BY <4>1, <4>2, RefreshAssumption
      <4> QED
        BY <1>1, <3>1, <4>3, <4>4, Zenon
    <3> QED
      BY <3>1, <3>2, <3>3, <3>4 DEF Passed
  <2>11. Checked(new, day, quotes)
    <3> SUFFICES ASSUME ~drift, NEW i \in 1..(Done(s) + 1)
                 PROVE  Passed(s, s.wanted[i], day, quotes)
      BY <2>4, <2>6 DEF Checked, Passed
    <3>1. CASE i = Done(s) + 1
      BY <2>1, <2>10, <3>1
    <3>2. CASE i # Done(s) + 1
      <4>1. i \in 1..Done(s)
        BY <2>6, <3>2
      <4> QED
        BY <1>1, <2>10, <4>1 DEF Checked
    <3> QED
      BY <3>1, <3>2
  <2>12. RunOK(new, day, quotes)
    BY <1>1, <2>3, <2>4, <2>8, <2>9, <2>11 DEF RunOK
  <2> QED
    BY <1>1, <1>2, <2>5, <2>12, StepKeeps
<1>4. CASE ~(BlockBounds(r) /\ AsOfOf(r) # Undated)
  BY <1>2, <1>4, FailsKeeps DEF Compare
<1> QED
  BY <1>3, <1>4

\* What the splice leaves in a run's copy is as honest as what it found there.
LEMMA SplicedOK ==
  ASSUME Inv, NEW r \in Runs, run[r].pc = "built"
  PROVE  /\ Spliced(r) \in Files /\ HonestAt(Spliced(r), quotes)
         /\ \A c \in Clouds : Spliced(r).asOf[c] =
              IF c = Cloud(r) THEN run[r].TODAY ELSE run[r].source.asOf[c]
<1> DEFINE s == run[r]
<1>1. /\ s \in RunType /\ s.TODAY <= day /\ HonestAt(s.source, quotes)
      /\ Walks(s) /\ Fetched(s, day, quotes) /\ day \in Days
  BY DEF Inv, RunOK, TypeOK, Days
<1>2. /\ s.source \in Files /\ s.built \in [Meters -> Prices \cup {Unpriced}]
      /\ s.TODAY \in Days
  BY <1>1 DEF RunType, Days
<1>3. Cloud(r) \in Clouds
  BY <1>1, NextCloud DEF Cloud
<1>4. PICK rates : rates = [m \in Cells |-> IF m \in CellsOf(Cloud(r))
                                            THEN s.built[m] ELSE s.source.rates[m]]
  OBVIOUS
<1>5. PICK asOf : asOf = [s.source.asOf EXCEPT ![Cloud(r)] = s.TODAY]
  OBVIOUS
<1>6. Spliced(r) = [s.source EXCEPT !.rates = rates, !.asOf = asOf]
  BY <1>4, <1>5 DEF Spliced, Dated
<1>7. \A m \in CellsOf(Cloud(r)) :
        s.built[m] \in Prices /\ Seen(m, s.built[m], s.TODAY, day, quotes)
  BY <1>1, <1>2, <1>3, Builders DEF Fetched, CellsOf, Cloud
<1>8. rates \in [Cells -> Prices]
  BY <1>2, <1>4, <1>7 DEF Files
<1>9. asOf \in [Clouds -> -1..MaxDay]
  BY <1>2, <1>3, <1>5 DEF Files, Days
<1>10. \A c \in Clouds : asOf[c] = IF c = Cloud(r) THEN s.TODAY ELSE s.source.asOf[c]
  BY <1>2, <1>5 DEF Files
<1>11. Spliced(r) \in Files /\ Spliced(r).asOf = asOf /\ Spliced(r).rates = rates
  BY <1>2, <1>6, <1>8, <1>9 DEF Files
<1>12. HonestAt(Spliced(r), quotes)
  <2> SUFFICES ASSUME NEW m \in Cells, asOf[CloudOf[m]] # Undated
               PROVE  \E d \in Days : d >= asOf[CloudOf[m]] /\ <<m, rates[m], d>> \in quotes
    BY <1>11 DEF HonestAt
  <2>1. CloudOf[m] \in Clouds /\ m \in CellsOf(CloudOf[m])
    BY OneBlock
  <2>2. CASE CloudOf[m] = Cloud(r)
    <3>1. rates[m] = s.built[m] /\ asOf[CloudOf[m]] = s.TODAY
      BY <1>4, <1>10, <2>1, <2>2
    <3>2. PICK d \in s.TODAY..day : <<m, s.built[m], d>> \in quotes
      BY <1>7, <2>1, <2>2 DEF Seen
    <3>3. d \in Days /\ d >= s.TODAY
      BY <1>1, <1>2, RefreshAssumption DEF Days
    <3> QED
      BY <3>1, <3>2, <3>3
  <2>3. CASE CloudOf[m] # Cloud(r)
    <3>1. m \notin CellsOf(Cloud(r))
      BY <1>3, <2>3, OneBlock
    <3>2. rates[m] = s.source.rates[m] /\ asOf[CloudOf[m]] = s.source.asOf[CloudOf[m]]
      BY <1>4, <1>10, <2>1, <2>3, <3>1
    <3> QED
      BY <1>1, <3>2 DEF HonestAt
  <2> QED
    BY <2>2, <2>3
<1> QED
  BY <1>10, <1>11, <1>12

LEMMA SpliceKeeps == ASSUME Inv, NEW r \in Runs, Splice(r) PROVE Inv'
<1>0. PICK pc, source :
        /\ pc = IF Len(run[r].todo) = 1 THEN "write" ELSE "build"
        /\ source = Spliced(r)
  OBVIOUS
<1> DEFINE s == run[r]
           new == [s EXCEPT !.source = source, !.todo = Tail(@), !.pc = pc]
<1>1. /\ s \in RunType /\ s.TODAY <= day /\ s.pc = "built"
      /\ Walks(s) /\ Refreshed(s) /\ ~s.check
      /\ file \in Files /\ HonestAt(file, quotes)
  BY DEF Inv, RunOK, Splice, TypeOK
<1>2. UNCHANGED <<day, listing, file, moves, quotes>> /\ steady' \subseteq Runs
  BY DEF Splice, Inv, TypeOK, history
<1>3. CASE BlockBounds(r)
  <2>1. /\ Head(s.todo) \in Clouds /\ Head(s.todo) = s.wanted[Done(s) + 1]
        /\ Tail(s.todo) \in Seq(Clouds) /\ Len(s.todo) >= 1
        /\ Len(Tail(s.todo)) = Len(s.todo) - 1 /\ Len(s.todo) <= Len(s.wanted)
        /\ Len(s.wanted) \in Nat /\ Len(s.todo) \in Nat
        /\ \A j \in 1..Len(Tail(s.todo)) : Tail(s.todo)[j] = s.wanted[Done(s) + 1 + j]
        /\ Len(s.todo) = 1 => Tail(s.todo) = <<>>
        /\ Len(s.todo) # 1 => Tail(s.todo) # <<>>
    BY <1>1, NextCloud
  <2>2. pc \in {"build", "write"} /\ (pc = "build" => Tail(s.todo) # <<>>)
        /\ (pc = "write" => Tail(s.todo) = <<>>)
    BY <1>0, <2>1
  <2>3. /\ source \in Files /\ HonestAt(source, quotes)
        /\ \A c \in Clouds :
             source.asOf[c] = IF c = Head(s.todo) THEN s.TODAY ELSE s.source.asOf[c]
    BY <1>0, <1>1, SplicedOK DEF Cloud
  <2>4. new \in RunType
    <3>1. pc \in {"idle", "inventory", "build", "fetch", "built", "write"} \cup Ended
      BY <2>2
    <3> QED
      BY <1>1, <2>1, <2>3, <3>1, Zenon DEF RunType
  <2>5. /\ new.pc = pc /\ new.source = source /\ new.check = s.check
        /\ new.wanted = s.wanted /\ new.todo = Tail(s.todo)
        /\ new.TODAY = s.TODAY /\ new.drift = s.drift
    BY <1>1 DEF RunType
  <2>6. Becomes(r, new)
    BY <1>0, <1>3 DEF Splice
  <2> HIDE DEF new
  <2>7. Done(new) = Done(s) + 1 /\ Done(s) \in Nat /\ Done(s) + 1 <= Len(s.wanted)
    <3>1. \A a, b \in Nat : b <= a /\ b >= 1 =>
            a - (b - 1) = (a - b) + 1 /\ a - b \in Nat /\ (a - b) + 1 <= a
      OBVIOUS
    <3>2. Done(new) = Len(s.wanted) - (Len(s.todo) - 1)
      BY <2>1, <2>5, Zenon DEF Done
    <3> QED
      BY <2>1, <3>1, <3>2, Zenon DEF Done
  <2>8. Walks(new)
    <3>1. Len(new.todo) <= Len(new.wanted)
      BY <2>1, <2>5
    <3>2. \A j \in 1..Len(new.todo) : new.todo[j] = new.wanted[Done(new) + j]
      BY <2>1, <2>5, <2>7
    <3> QED
      BY <1>1, <2>2, <2>5, <3>1, <3>2 DEF Walks
  <2>9. Fetched(new, day, quotes) /\ Checked(new, day, quotes)
    BY <1>1, <2>2, <2>5 DEF Fetched, Checked
  <2>10. Refreshed(new)
    <3> SUFFICES ASSUME NEW i \in 1..(Done(s) + 1)
                 PROVE  source.asOf[s.wanted[i]] = s.TODAY
      BY <2>5, <2>7 DEF Refreshed
    <3>1. s.wanted[i] \in Clouds
      <4>1. i \in 1..Len(s.wanted)
        BY <2>1, <2>7
      <4> QED
        BY <1>1, <4>1 DEF RunType
    <3>2. CASE i = Done(s) + 1
      BY <2>1, <2>3, <3>2
    <3>3. CASE i # Done(s) + 1
      <4>1. i \in 1..Done(s)
        BY <2>7, <3>3
      <4>2. s.source.asOf[s.wanted[i]] = s.TODAY
        BY <1>1, <4>1 DEF Refreshed
      <4> QED
        BY <2>3, <3>1, <4>2
    <3> QED
      BY <3>2, <3>3
  <2>11. RunOK(new, day, quotes)
    BY <1>1, <2>3, <2>4, <2>5, <2>8, <2>9, <2>10 DEF RunOK
  <2> QED
    BY <1>1, <1>2, <2>6, <2>11, StepKeeps
<1>4. CASE ~BlockBounds(r)
  BY <1>2, <1>4, FailsKeeps DEF Splice
<1> QED
  BY <1>3, <1>4

LEMMA WriteKeeps == ASSUME Inv, NEW r \in Runs, Write(r) PROVE Inv'
<1> DEFINE s == run[r]
           new == [s EXCEPT !.pc = "ok"]
<1>1. /\ s \in RunType /\ s.TODAY <= day /\ s.pc = "write"
      /\ Walks(s) /\ Refreshed(s) /\ HonestAt(s.source, quotes)
  BY DEF Inv, RunOK, Write
<1>2. /\ UNCHANGED <<day, listing, moves, quotes>> /\ steady' \subseteq Runs
      /\ file' = s.source /\ Becomes(r, new)
  BY DEF Write, Inv, TypeOK, history
<1>3. s.source \in Files /\ ~s.check /\ s.todo = <<>>
  BY <1>1 DEF RunType, Walks
<1>4. new \in RunType
  BY <1>1 DEF RunType, Ended
<1>5. /\ new.pc = "ok" /\ new.source = s.source /\ new.check = s.check
      /\ new.wanted = s.wanted /\ new.todo = s.todo
      /\ new.TODAY = s.TODAY /\ new.drift = s.drift
  BY <1>1 DEF RunType
<1> HIDE DEF new
<1>6. Walks(new)
  BY <1>1, <1>3, <1>5 DEF Walks, Done
<1>7. Fetched(new, day, quotes) /\ Refreshed(new) /\ Checked(new, day, quotes)
  BY <1>1, <1>3, <1>5 DEF Fetched, Refreshed, Checked, Done
<1>8. RunOK(new, day, quotes)
  BY <1>1, <1>4, <1>5, <1>6, <1>7 DEF RunOK
<1> QED
  BY <1>1, <1>2, <1>3, <1>8, StepKeeps

LEMMA BreaksKeeps == ASSUME Inv, NEW r \in Runs, Breaks(r) PROVE Inv'
BY FailsKeeps DEF Breaks, history, Inv, TypeOK

(***************************************************************************)
(* The steps of the world: quotes are only added, and no run is disturbed.    *)
(***************************************************************************)

LEMMA WorldKeeps ==
  ASSUME Inv, UNCHANGED run, day' \in Days, day <= day', moves' \in 0..MaxMoves,
         quotes \subseteq quotes', quotes' \subseteq AllQuotes,
         listing' \in [Meters -> SUBSET Skus], Listed', steady' \subseteq Runs,
         file' \in Files, HonestAt(file', quotes')
  PROVE  Inv'
<1>1. day \in Days
  BY DEF Inv, TypeOK, Days
<1>2. ASSUME NEW r \in Runs PROVE RunOK(run[r], day', quotes')
  BY <1>1, RunStays DEF Inv
<1>3. TypeOK'
  BY DEF Inv, TypeOK, AllQuotes, Days
<1>4. \A r \in Runs : RunOK(run[r], day, quotes)'
  BY <1>2
<1> QED
  BY <1>3, <1>4 DEF Inv

LEMMA PublishKeeps == ASSUME Inv, Publish PROVE Inv'
<1>1. PICK m \in Repriced \cap Meters, skus \in SUBSET Skus :
        /\ listing' = [listing EXCEPT ![m] = skus]
        /\ quotes' = quotes \cup {<<m, s[2], day>> : s \in skus}
  BY DEF Publish
<1>2. /\ UNCHANGED <<run, day, file>> /\ day \in Days /\ day <= day'
      /\ file \in Files /\ HonestAt(file, quotes) /\ quotes \subseteq AllQuotes
      /\ listing \in [Meters -> SUBSET Skus] /\ steady' \subseteq Runs
      /\ moves' \in 0..MaxMoves
  BY RefreshAssumption DEF Publish, Inv, TypeOK, AllQuotes, Days
<1>3. quotes' \subseteq AllQuotes /\ quotes \subseteq quotes'
  <2>1. \A s \in skus : s[2] \in Prices
    BY DEF Skus
  <2> QED
    BY <1>1, <1>2, <2>1 DEF AllQuotes
<1>4. listing' \in [Meters -> SUBSET Skus]
  BY <1>1, <1>2
<1>5. Listed'
  <2> SUFFICES ASSUME NEW k \in Meters, NEW s \in listing'[k]
               PROVE  <<k, s[2], day>> \in quotes'
    BY <1>2 DEF Listed
  <2>1. CASE k = m
    BY <1>1, <1>2, <2>1
  <2>2. CASE k # m
    <3>1. s \in listing[k]
      BY <1>1, <1>2, <2>2
    <3> QED
      BY <1>3, <3>1 DEF Inv, Listed
  <2> QED
    BY <2>1, <2>2
<1>6. HonestAt(file', quotes')
  BY <1>2, <1>3, HonestStays
<1> QED
  BY <1>2, <1>3, <1>4, <1>5, <1>6, WorldKeeps

LEMMA TranscribeKeeps == ASSUME Inv, NEW c \in Clouds, Transcribe(c) PROVE Inv'
<1>1. PICK cell \in Repriced \cap CellsOf(c), price \in Prices :
        file' = [file EXCEPT !.rates[cell] = price, !.asOf[c] = day]
  BY DEF Transcribe
<1>2. /\ UNCHANGED <<run, day, listing, steady>> /\ day \in Days /\ day <= day'
      /\ file \in Files /\ HonestAt(file, quotes) /\ quotes \subseteq AllQuotes
      /\ listing \in [Meters -> SUBSET Skus] /\ steady' \subseteq Runs
      /\ moves' \in 0..MaxMoves /\ Listed
      /\ quotes' = quotes \cup {<<m, file'.rates[m], day>> : m \in CellsOf(c)}
  BY RefreshAssumption DEF Transcribe, Inv, TypeOK, AllQuotes, Days
<1>3. \A m \in CellsOf(c) : m \in Cells /\ CloudOf[m] = c
  BY OneBlock
<1>4. file.rates \in [Cells -> Prices] /\ file.asOf \in [Clouds -> -1..MaxDay]
  BY <1>2 DEF Files
<1>5. /\ file'.rates = [file.rates EXCEPT ![cell] = price]
      /\ file'.asOf = [file.asOf EXCEPT ![c] = day] /\ file' \in Files
  <2>1. PICK rates, asOf : /\ rates = [file.rates EXCEPT ![cell] = price]
                           /\ asOf = [file.asOf EXCEPT ![c] = day]
    OBVIOUS
  <2>2. rates \in [Cells -> Prices] /\ asOf \in [Clouds -> -1..MaxDay]
    <3>1. day \in -1..MaxDay
      BY <1>2, RefreshAssumption DEF Days
    <3> QED
      BY <1>4, <2>1, <3>1
  <2>3. file' = [file EXCEPT !.rates = rates, !.asOf = asOf]
    BY <1>1, <1>2, <2>1 DEF Files
  <2>4. file'.rates = rates /\ file'.asOf = asOf /\ file' \in Files
    BY <1>2, <2>2, <2>3 DEF Files
  <2> QED
    BY <2>1, <2>4
<1>6. \A m \in CellsOf(c) : file'.rates[m] \in Prices /\ m \in Meters
  BY <1>3, <1>5, OneBlock DEF Files
<1>7. quotes' \subseteq AllQuotes /\ quotes \subseteq quotes'
  BY <1>2, <1>6 DEF AllQuotes
<1>8. HonestAt(file', quotes')
  <2> SUFFICES ASSUME NEW m \in Cells, file'.asOf[CloudOf[m]] # Undated
               PROVE  \E d \in Days : /\ d >= file'.asOf[CloudOf[m]]
                                      /\ <<m, file'.rates[m], d>> \in quotes'
    BY DEF HonestAt
  <2>1. CloudOf[m] \in Clouds /\ m \in CellsOf(CloudOf[m])
    BY OneBlock
  <2>2. CASE CloudOf[m] = c
    <3>1. file'.asOf[CloudOf[m]] = day
      BY <1>4, <1>5, <2>2
    <3>2. <<m, file'.rates[m], day>> \in quotes'
      BY <1>2, <2>1, <2>2
    <3>3. day >= day
      BY <1>2, RefreshAssumption DEF Days
    <3> QED
      BY <1>2, <3>1, <3>2, <3>3
  <2>3. CASE CloudOf[m] # c
    <3>1. m # cell
      BY <1>3, <2>3
    <3>2. file'.rates[m] = file.rates[m] /\ file'.asOf[CloudOf[m]] = file.asOf[CloudOf[m]]
      BY <1>4, <1>5, <2>1, <2>3, <3>1
    <3> QED
      BY <1>2, <1>7, <3>2 DEF HonestAt
  <2> QED
    BY <2>2, <2>3
<1>9. Listed'
  BY <1>2, <1>7 DEF Listed
<1> QED
  BY <1>2, <1>5, <1>7, <1>8, <1>9, WorldKeeps

LEMMA SpoilKeeps == ASSUME Inv, NEW c \in Clouds, Spoil(c) PROVE Inv'
<1>1. /\ UNCHANGED <<run, day, listing, steady, quotes>> /\ day \in Days /\ day <= day'
      /\ file \in Files /\ HonestAt(file, quotes) /\ quotes \subseteq AllQuotes
      /\ listing \in [Meters -> SUBSET Skus] /\ steady' \subseteq Runs
      /\ moves' \in 0..MaxMoves /\ Listed
  BY RefreshAssumption DEF Spoil, history, Inv, TypeOK, AllQuotes, Days
<1>2. file' \in Files
  <2>1. -1 \in -1..MaxDay
    BY RefreshAssumption
  <2> QED
    BY <1>1, <2>1 DEF Spoil, Files, Undated
<1>3. HonestAt(file', quotes)
  <2>1. file'.rates = file.rates
    BY <1>1 DEF Spoil, Files
  <2>2. \A k \in Clouds : file'.asOf[k] = Undated \/ file'.asOf[k] = file.asOf[k]
    BY <1>1 DEF Spoil, Files
  <2>3. \A m \in Cells : CloudOf[m] \in Clouds
    BY OneBlock
  <2> QED
    BY <1>1, <2>1, <2>2, <2>3 DEF HonestAt
<1>4. Listed'
  BY <1>1 DEF Listed
<1> QED
  BY <1>1, <1>2, <1>3, <1>4, WorldKeeps

LEMMA TickKeeps == ASSUME Inv, Tick PROVE Inv'
<1>1. /\ UNCHANGED <<run, listing, file, moves, steady>> /\ day \in Days
      /\ file \in Files /\ HonestAt(file, quotes) /\ quotes \subseteq AllQuotes
      /\ listing \in [Meters -> SUBSET Skus] /\ steady' \subseteq Runs
      /\ moves' \in 0..MaxMoves /\ day' = day + 1
      /\ quotes' = quotes \cup QuotedOn(day + 1)
  BY DEF Tick, Inv, TypeOK, AllQuotes, Days
<1>2. day + 1 \in Days /\ day <= day'
  BY <1>1, RefreshAssumption DEF Tick, Days
<1>3. /\ \A m \in Meters : \A s \in listing[m] : <<m, s[2], day + 1>> \in QuotedOn(day + 1)
      /\ QuotedOn(day + 1) \subseteq AllQuotes
  BY <1>1, <1>2, QuotedToday
<1>4. quotes \subseteq quotes' /\ quotes' \subseteq AllQuotes
  BY <1>1, <1>3
<1>5. Listed'
  BY <1>1, <1>3 DEF Listed
<1>6. HonestAt(file', quotes')
  BY <1>1, <1>4, HonestStays
<1> QED
  BY <1>1, <1>2, <1>4, <1>5, <1>6, WorldKeeps

\* Every step keeps the invariant.
LEMMA NextKeeps == ASSUME Inv, [Next]_vars PROVE Inv'
<1>1. CASE UNCHANGED vars
  <2>1. UNCHANGED <<day, listing, file, run, moves, quotes, steady>>
    BY <1>1 DEF vars, history
  <2> QED
    BY <2>1 DEF Inv, TypeOK, Listed
<1>2. CASE World
  BY <1>2, PublishKeeps, TranscribeKeeps, SpoilKeeps, TickKeeps DEF World
<1>3. ASSUME NEW r \in Runs, Step(r) PROVE Inv'
  BY <1>3, LaunchKeeps, InventoryKeeps, BeginKeeps, AwsProductsKeeps, AwsFlatKeeps,
     SpliceKeeps, CompareKeeps, WriteKeeps, BreaksKeeps DEF Step
<1> QED
  BY <1>1, <1>2, <1>3 DEF Next

LEMMA InvHolds == Spec => []Inv
BY InitOK, NextKeeps, PTL DEF Spec

(***************************************************************************)
(* The theorems.                                                           *)
(***************************************************************************)

\* Every reachable state of the vendors' lists, the file and the runs is well
\* typed.
THEOREM TypeIsCorrect == Spec => []TypeOK
<1>1. Inv => TypeOK
  BY DEF Inv
<1> QED
  BY <1>1, InvHolds, PTL

\* The invariant's honesty is the one RateCard states.
LEMMA SameHonesty ==
  ASSUME NEW card, NEW q, q \subseteq AllQuotes
  PROVE  HonestAt(card, q) <=> Card!Honest(card.rates, card.asOf, q)
<1>1. ASSUME NEW m \in Cells, NEW d, <<m, card.rates[m], d>> \in q
      PROVE  d \in Days /\ d \in {x[3] : x \in q}
  <2>1. <<m, card.rates[m], d>> \in AllQuotes /\ <<m, card.rates[m], d>>[3] = d
    BY <1>1
  <2> QED
    BY <1>1, <2>1 DEF AllQuotes
<1> QED
  BY <1>1 DEF HonestAt, Card!Honest

\* At any moment the date of a block does not flatter it: every rate of a dated
\* block was quoted on that day or after, whatever runs, people and vendors do.
THEOREM HonestDates == Spec => []AsOfIsHonest
<1>1. Inv => AsOfIsHonest
  BY SameHonesty DEF Inv, TypeOK, AsOfIsHonest, AllQuotes, Days
<1> QED
  BY <1>1, InvHolds, PTL

\* Runs of the refresher, with people and vendors around them, implement the
\* rate card: a stale copy that overwrites a newer one carries its own dates.
THEOREM KeepsTheCard == Spec => ImplementsCard
<1>1. Init => Card!Init
  BY InitOK, SameHonesty DEF Inv, TypeOK, Card!Init, AllQuotes, Days
<1>2. ASSUME Inv, Inv', [Next]_vars PROVE [Card!Next]_(Card!vars)
  <2>1. quotes \subseteq quotes'
    BY <1>2 DEF Next, World, Step, vars, history, Publish, Tick, Transcribe, Spoil, Launch,
       Inventory, Begin, AwsProducts, AwsFlat, Splice, Compare, Write, Breaks
  <2>2. Card!Honest(file'.rates, file'.asOf, quotes')
    BY <1>2, SameHonesty DEF Inv, TypeOK, AllQuotes, Days
  <2> QED
    BY <2>1, <2>2 DEF Card!Next
<1>3. Inv /\ Inv' /\ [Next]_vars => [Card!Next]_(Card!vars)
  BY <1>2
<1> QED
  BY <1>1, <1>3, InvHolds, PTL DEF Spec, ImplementsCard, Card!Spec

\* A check that passes has seen every committed rate it was asked about quoted
\* since it began, in blocks no older than the contract allows.
THEOREM ChecksAreHonest == Spec => []CheckIsHonest
<1>1. ASSUME Inv, NEW r \in Runs, run[r].pc = "ok", run[r].check,
             NEW i \in DOMAIN run[r].wanted
      PROVE  Passed(run[r], run[r].wanted[i], day, quotes)
  <2>1. RunOK(run[r], day, quotes)
    BY <1>1 DEF Inv
  <2>2. ~run[r].drift /\ run[r].todo = <<>> /\ run[r].wanted \in Seq(Clouds)
    BY <1>1, <2>1 DEF RunOK, Walks, RunType
  <2>3. i \in 1..Done(run[r])
    BY <1>1, <2>2 DEF Done
  <2> QED
    BY <1>1, <2>1, <2>2, <2>3 DEF RunOK, Checked
<1>2. Inv => CheckIsHonest
  BY <1>1, Zenon DEF CheckIsHonest, Passed, Seen
<1> QED
  BY <1>2, InvHolds, PTL

\* A run writes the file once, when it succeeds, with every block it was asked
\* for refreshed; before that, and when it fails, it changes nothing.
THEOREM RefreshesAreWhole == Spec => RefreshIsWhole
<1> DEFINE Whole ==
      file' # file /\ run' # run =>
        \E r \in Runs :
          /\ run[r].pc # "ok" /\ run'[r].pc = "ok" /\ ~run[r].check
          /\ \A i \in DOMAIN run[r].wanted : file'.asOf[run[r].wanted[i]] = run[r].TODAY
<1>1. ASSUME Inv, NEW r \in Runs, Write(r) PROVE Whole
  <2>1. /\ run[r] \in RunType /\ Walks(run[r]) /\ Refreshed(run[r]) /\ run[r].pc = "write"
    BY <1>1 DEF Inv, RunOK, Write
  <2>2. /\ ~run[r].check /\ run[r].todo = <<>> /\ run[r].wanted \in Seq(Clouds)
    BY <2>1 DEF Walks, RunType
  <2>3. ASSUME NEW i \in DOMAIN run[r].wanted
        PROVE  run[r].source.asOf[run[r].wanted[i]] = run[r].TODAY
    <3>1. i \in 1..Done(run[r])
      BY <2>2 DEF Done
    <3> QED
      BY <2>1, <2>2, <3>1 DEF Refreshed
  <2>4. run'[r].pc = "ok" /\ file' = run[r].source
    BY <1>1, <2>1 DEF Write, Becomes, Inv, TypeOK, RunType
  <2> QED
    BY <2>1, <2>2, <2>3, <2>4
<1>2. ASSUME Inv, [Next]_vars PROVE [Whole]_vars
  <2>1. ASSUME NEW r \in Runs, Step(r), ~Write(r) PROVE UNCHANGED file
    BY <2>1 DEF Step, Launch, Inventory, Begin, AwsProducts, AwsFlat, Splice, Compare, Breaks
  <2>2. World => UNCHANGED run
    BY DEF World, Publish, Tick, Transcribe, Spoil
  <2> QED
    BY <1>1, <1>2, <2>1, <2>2 DEF Next, vars
<1>3. Inv /\ [Next]_vars => [Whole]_vars
  BY <1>2
<1> QED
  BY <1>3, InvHolds, PTL DEF Spec, RefreshIsWhole

\* While no vendor has changed what a run looks for, it has found what the pages
\* behind it list, and nothing else.
SteadyOK(r) ==
  run[r].pc = "fetch" =>
    run[r].found = {x \in Query(r) \X Skus : x[2] \in listing[x[1]] /\ x[2][1] < run[r].page}

LEMMA FailedRun ==
  ASSUME run \in [Runs -> RunType], NEW r \in Runs, Fails(r)
  PROVE  run'[r].pc = "failed" /\ run'[r].query = 1
BY DEF Fails, Becomes, Idle

LEMMA SteadyStep ==
  ASSUME Inv, Next, \A r \in steady : SteadyOK(r), NEW r \in steady'
  PROVE  SteadyOK(r)'
<1>1. run \in [Runs -> RunType] /\ steady \subseteq Runs
  BY DEF Inv, TypeOK
<1>2. CASE World
  <2>1. CASE Publish
    BY <2>1 DEF Publish
  <2>2. CASE ~Publish
    <3>1. UNCHANGED <<run, listing, steady>>
      BY <1>2, <2>2 DEF World, Tick, Transcribe, Spoil, history
    <3> QED
      BY <3>1 DEF SteadyOK, Query, Cloud
  <2> QED
    BY <2>1, <2>2
<1>3. ASSUME NEW q \in Runs, Step(q), q # r PROVE SteadyOK(r)'
  <2>1. run'[r] = run[r] /\ UNCHANGED listing /\ r \in steady
    BY <1>1, <1>3 DEF Step, Launch, Inventory, Begin, AwsProducts, AwsFlat, Splice, Compare,
       Write, Breaks, Fails, Becomes, history
  <2> QED
    BY <2>1 DEF SteadyOK, Query, Cloud
<1>4. ASSUME r \in Runs, Step(r) PROVE SteadyOK(r)'
  <2>1. ASSUME AwsProducts(r) PROVE SteadyOK(r)'
    <3>1. PICK found : found = Found(r)
      OBVIOUS
    <3>2. /\ run'[r] = [run[r] EXCEPT !.found = found, !.page = @ + 1]
          /\ UNCHANGED listing /\ r \in steady /\ run[r].pc = "fetch"
          /\ run[r] \in RunType
      BY <1>1, <1>4, <2>1, <3>1 DEF AwsProducts, Becomes, history
    <3>3. /\ run'[r].found = found /\ run'[r].page = run[r].page + 1
          /\ run'[r].query = run[r].query /\ run'[r].todo = run[r].todo
      BY <3>2 DEF RunType
    <3>4. run[r].page \in Int
      BY <3>2 DEF RunType
    <3>5. \A k \in Skus : k[1] \in Int
      BY DEF Skus
    <3>6. \A p, n \in Int : p < n \/ p = n <=> p < n + 1
      OBVIOUS
    <3>7. found = {x \in Query(r) \X Skus :
                     x[2] \in listing[x[1]] /\ x[2][1] < run[r].page + 1}
      BY <3>1, <3>2, <3>4, <3>5, <3>6 DEF SteadyOK, Found
    <3> QED
      BY <3>2, <3>3, <3>7 DEF SteadyOK, Query, Cloud
  <2>2. ASSUME run'[r].pc = "fetch", run'[r].page = 1, run'[r].found = {}
        PROVE  SteadyOK(r)'
    BY <2>2 DEF SteadyOK, Skus
  <2>3. ASSUME Begin(r) \/ AwsFlat(r) PROVE SteadyOK(r)'
    <3>1. CASE Fails(r)
      BY <1>1, <1>4, <3>1, FailedRun DEF SteadyOK
    <3>2. ASSUME Begin(r), ~Fails(r) PROVE run'[r].page = 1 /\ run'[r].found = {}
      <4>1. PICK built : run' = [run EXCEPT ![r] =
              [run[r] EXCEPT !.pc = "fetch", !.query = 1, !.page = 1, !.found = {},
                             !.built = built]]
        BY <3>2 DEF Begin, Becomes
      <4> QED
        BY <1>1, <1>4, <4>1 DEF RunType
    <3>3. ASSUME AwsFlat(r), ~Fails(r) PROVE run'[r].page = 1 /\ run'[r].found = {}
      <4>1. PICK pc, built : run' = [run EXCEPT ![r] =
              [run[r] EXCEPT !.pc = pc, !.built = built, !.query = @ + 1, !.page = 1,
                             !.found = {}]]
        BY <3>3 DEF AwsFlat, Becomes
      <4> QED
        BY <1>1, <1>4, <4>1 DEF RunType
    <3> QED
      BY <2>2, <2>3, <3>1, <3>2, <3>3 DEF SteadyOK
  <2>4. ASSUME ~AwsProducts(r), ~(Begin(r) \/ AwsFlat(r)) PROVE run'[r].pc # "fetch"
    <3>1. CASE Fails(r)
      BY <1>1, <1>4, <3>1, FailedRun
    <3>2. ASSUME Launch(r), ~Fails(r) PROVE run'[r].pc = "inventory"
      <4>1. PICK argv, check, env, wanted :
              /\ run' = [run EXCEPT ![r] =
                   [run[r] EXCEPT !.pc = "inventory", !.check = check, !.wanted = wanted,
                                  !.todo = wanted, !.env = env, !.TODAY = day]]
              /\ wanted = Wanted(argv)
        BY <3>2 DEF Launch, Becomes
      <4> QED
        BY <1>1, <1>4, <4>1 DEF RunType
    <3>3. ASSUME Inventory(r) PROVE run'[r].pc = "build"
      BY <1>1, <1>4, <3>3 DEF Inventory, Becomes, RunType
    <3>4. ASSUME Splice(r), ~Fails(r) PROVE run'[r].pc \in {"write", "build"}
      <4>1. PICK pc, source :
              /\ run' = [run EXCEPT ![r] =
                   [run[r] EXCEPT !.source = source, !.todo = Tail(@), !.pc = pc]]
              /\ pc = IF Len(run[r].todo) = 1 THEN "write" ELSE "build"
        BY <3>4 DEF Splice, Becomes
      <4> QED
        BY <1>1, <1>4, <4>1 DEF RunType
    <3>5. ASSUME Compare(r), ~Fails(r) PROVE run'[r].pc \in {"build", "drifted", "ok"}
      <4>1. PICK pc, drift :
              /\ run' = [run EXCEPT ![r] =
                   [run[r] EXCEPT !.drift = drift, !.todo = Tail(@), !.pc = pc]]
              /\ pc = IF Len(run[r].todo) > 1 THEN "build"
                      ELSE IF Drifts(r) THEN "drifted" ELSE "ok"
        BY <3>5 DEF Compare, Becomes
      <4> QED
        BY <1>1, <1>4, <4>1 DEF RunType
    <3>6. ASSUME Write(r) PROVE run'[r].pc = "ok"
      BY <1>1, <1>4, <3>6 DEF Write, Becomes, RunType
    <3> QED
      BY <1>4, <2>4, <3>1, <3>2, <3>3, <3>4, <3>5, <3>6, Zenon DEF Step, Breaks
  <2> QED
    BY <2>1, <2>3, <2>4 DEF SteadyOK
<1> QED
  BY <1>2, <1>3, <1>4 DEF Next

LEMMA SteadyHolds == Spec => [](\A r \in steady : SteadyOK(r))
<1>1. Init => \A r \in steady : SteadyOK(r)
  BY DEF Init
<1>2. Inv /\ (\A r \in steady : SteadyOK(r)) /\ [Next]_vars => (\A r \in steady : SteadyOK(r))'
  <2>1. (\A r \in steady : SteadyOK(r)) /\ UNCHANGED vars => (\A r \in steady : SteadyOK(r))'
    BY DEF vars, history, SteadyOK, Query, Cloud
  <2> QED
    BY <2>1, SteadyStep
<1> QED
  BY <1>1, <1>2, InvHolds, PTL DEF Spec

\* While a query's listings stand still, a meter that several SKUs or none
\* match is never priced, wherever the pages break.
THEOREM AmbiguityIsRefused == Spec => AmbiguousNeverTaken
<1> DEFINE Refused ==
      \A r \in steady : run[r].pc = "fetch" /\ run'[r].query > run[r].query =>
        \A m \in Query(r) : Cardinality(listing[m]) = 1
<1>1. ASSUME Inv, \A r \in steady : SteadyOK(r), Next PROVE Refused
  <2> SUFFICES ASSUME NEW r \in steady, run[r].pc = "fetch", run'[r].query > run[r].query,
                      NEW m \in Query(r)
               PROVE  Cardinality(listing[m]) = 1
    OBVIOUS
  <2>1. r \in Runs /\ run \in [Runs -> RunType] /\ run[r].query \in Nat \ {0}
    BY <1>1 DEF Inv, TypeOK, RunType
  <2>2. run'[r] # run[r]
    BY <2>1
  <2>3. Step(r)
    <3>1. ~World
      BY <2>2 DEF World, Publish, Tick, Transcribe, Spoil
    <3>2. PICK q \in Runs : Step(q)
      BY <1>1, <3>1 DEF Next
    <3>3. \E new : run' = [run EXCEPT ![q] = new]
      BY <3>2 DEF Step, Launch, Inventory, Begin, AwsProducts, AwsFlat, Splice, Compare,
         Write, Breaks, Fails, Becomes
    <3>4. q = r
      BY <2>1, <2>2, <3>3
    <3> QED
      BY <3>2, <3>4
  <2>4. ~Fails(r)
    <3>1. Fails(r) => run'[r].query = 1
      BY <2>1, FailedRun
    <3> QED
      BY <2>1, <3>1
  <2>5. ~AwsProducts(r)
    <3>1. AwsProducts(r) => run'[r].query = run[r].query
      BY <2>1 DEF AwsProducts, Becomes, RunType
    <3> QED
      BY <2>1, <3>1
  <2>6. AwsFlat(r)
    BY <2>3, <2>4, <2>5 DEF Step, Launch, Inventory, Begin, Splice, Compare, Write, Breaks
  <2>7. ~More(r) /\ Only(MatchesOf(Found(r), m))
    BY <2>4, <2>6 DEF AwsFlat
  <2>8. /\ m \in Meters /\ listing[m] \subseteq Skus
    BY <1>1, FoundSeen, <2>1 DEF Inv, TypeOK
  <2>9. run[r].page \in Int /\ \A k \in Skus : k[1] \in Int
    BY <2>1 DEF RunType, Skus
  <2>10. \A k \in listing[m] : <<m, k>> \in Found(r)
    <3> SUFFICES ASSUME NEW k \in listing[m] PROVE <<m, k>> \in Found(r)
      OBVIOUS
    <3>1. k \in Skus /\ (k[1] < run[r].page \/ k[1] = run[r].page)
      BY <2>7, <2>8, <2>9 DEF More
    <3>2. SteadyOK(r)
      BY <1>1
    <3> QED
      BY <3>1, <3>2 DEF SteadyOK, Found
  <2>11. \A x \in Found(r) : x[1] = m => x[2] \in listing[m]
    BY <1>1 DEF SteadyOK, Found
  <2>12. MatchesOf(Found(r), m) = listing[m]
    <3>1. ASSUME NEW k \in listing[m] PROVE k \in MatchesOf(Found(r), m)
      <4>1. <<m, k>> \in {x \in Found(r) : x[1] = m} /\ <<m, k>>[2] = k
        BY <2>10
      <4> QED
        BY <4>1, Zenon DEF MatchesOf
    <3>2. \A k \in MatchesOf(Found(r), m) : k \in listing[m]
      BY <2>11 DEF MatchesOf
    <3> QED
      BY <3>1, <3>2
  <2>13. PICK k : listing[m] = {k}
    BY <2>7, <2>12 DEF Only
  <2> QED
    BY <2>13, FS_Singleton
<1>2. Inv /\ (\A r \in steady : SteadyOK(r)) /\ [Next]_vars => [Refused]_vars
  BY <1>1
<1> QED
  BY <1>2, InvHolds, SteadyHolds, PTL DEF Spec, AmbiguousNeverTaken

=============================================================================
