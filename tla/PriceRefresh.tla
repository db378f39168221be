----------------------------- MODULE PriceRefresh -----------------------------
(***************************************************************************)
(* tools/pricing/src/refresh-rates.ts: runs of the rate card's refresher,   *)
(* which read rates.k, fetch the vendors' prices page by page, and write the *)
(* file back (or, with --check, compare).  Runs share nothing but the file;  *)
(* vendors change their lists and people edit the file at any time.          *)
(*                                                                         *)
(* A cell stands for the meters it is computed from, and a price for one     *)
(* meter's: the arithmetic and the text of a block are left out, the queries, *)
(* their order, and what each must match exactly once are kept.  A machine    *)
(* type, a disk tier or a database class is one rung of its ladder.           *)
(***************************************************************************)
EXTENDS Integers, Sequences, FiniteSets

CONSTANTS
  Runs,
  Prices,
  LastPage,       \* an answer comes in at most this many pages
  Requests,       \* the clouds a run may be asked for: sequences of words
  Environments,   \* the credentials a run may find: sets of clouds
  StalenessDays,
  Repriced,         \* bound: the meters whose lists and rates are changed
  MaxDay, MaxMoves  \* bounds: the clock; the changes vendors and people make

ASSUME RefreshAssumption ==
  /\ Prices \subseteq Nat \ {0}
  /\ LastPage \in Nat \ {0}
  /\ Requests \subseteq Seq({"aws", "gcp", "azure", "all", "other"})
  /\ Environments \subseteq SUBSET {"aws", "gcp", "azure"}
  /\ StalenessDays \in Nat /\ MaxDay \in Nat /\ MaxMoves \in Nat

-----------------------------------------------------------------------------
(* The lookups of each cloud: a sequence of queries, each with the meters     *)
(* looked for in its answer.                                                *)

Clouds == {"aws", "gcp", "azure"}

\* One product query per cell.
BuildAws == <<{"ec2"}, {"rds"}, {"eks"}, {"ebs"}, {"rdsStorage"}, {"s3"}>>

\* One query per machine, then one per service, whose answer prices several
\* cells.
BuildAzure == <<{"vm"}, {"aksStandard"}, {"disk"}, {"pgCompute", "pgStorage"},
                {"blob"}>>

\* The services' ids, then the SKUs of one service after the other.
BuildGcp == <<{"serviceIds"}, {"coreRate", "ramRate", "pdStandard"}, {"gkeFee"},
              {"sqlVcpu", "sqlRam", "sqlStorage"}, {"gcs"}>>

BUILDERS == [aws |-> BuildAws, gcp |-> BuildGcp, azure |-> BuildAzure]
MetersOf(c) == UNION {BUILDERS[c][i] : i \in DOMAIN BUILDERS[c]}
Meters == UNION {MetersOf(c) : c \in Clouds}
\* A service id is looked up like a price and never written.
CellsOf(c) == MetersOf(c) \ {"serviceIds"}
Cells == Meters \ {"serviceIds"}
CloudOf == [m \in Cells |-> CHOOSE c \in Clouds : m \in MetersOf(c)]

Skus == (1..LastPage) \X Prices
Undated == -1
Unpriced == 0

VARIABLES
  day,
  listing,   \* meter -> the SKUs that match it, each on its page
  file,      \* rates.k: rates, asOf, and the clouds whose markers are there
  run,       \* the processes
  moves,
  quotes,    \* <<meter, price, day>> ever quoted (history)
  steady     \* runs whose current query no vendor has changed (history)

history == <<quotes, steady>>
vars == <<day, listing, file, run, moves, history>>

Files == [rates: [Cells -> Prices], asOf: [Clouds -> -1..MaxDay],
          marked: SUBSET Clouds]
Ended == {"ok", "drifted", "failed"}

Idle(source) ==
  [pc |-> "idle", check |-> FALSE, wanted |-> <<>>, todo |-> <<>>, env |-> {},
   TODAY |-> 0, source |-> source, query |-> 1, page |-> 1, found |-> {},
   built |-> [m \in Meters |-> Unpriced], drift |-> FALSE]

Becomes(r, new) == run' = [run EXCEPT ![r] = new]
Fails(r) == Becomes(r, [Idle(run[r].source) EXCEPT !.pc = "failed"])
Cloud(r) == Head(run[r].todo)

-----------------------------------------------------------------------------
(* A run.                                                                  *)

\* Exactly one, or a named error.
OnlyFirst(matches) == matches # {}
Only(matches) == \E s \in matches : matches = {s}

\* The clouds asked for: the ones named, or all.
Named(argv, word) == \E i \in DOMAIN argv : argv[i] = word
Wanted(argv) == IF argv = <<>> \/ Named(argv, "all")
                THEN <<"aws", "gcp", "azure">> ELSE argv

\* main() up to its loop: the day, the arguments ...
Launch(r) ==
  /\ run[r].pc = "idle"
  /\ \E argv \in Requests, env \in Environments, check \in BOOLEAN :
       IF Named(argv, "other")
       THEN Fails(r)
       ELSE Becomes(r, [run[r] EXCEPT
              !.pc = "inventory", !.check = check, !.wanted = Wanted(argv),
              !.todo = Wanted(argv), !.env = env, !.TODAY = day])
  /\ UNCHANGED <<day, listing, file, moves, history>>

\* ... the inventory, and the file, read once.
Inventory(r) ==
  /\ run[r].pc = "inventory"
  /\ Becomes(r, [run[r] EXCEPT !.pc = "build", !.source = file])
  /\ UNCHANGED <<day, listing, file, moves, history>>

\* Credentials: every AWS request is signed, GCP needs a key, Azure nothing.
Sigv4(r) == "aws" \in run[r].env
GcpKey(r) == "gcp" \in run[r].env
Authorised(r) == /\ Cloud(r) = "aws" => Sigv4(r)
                 /\ Cloud(r) = "gcp" => GcpKey(r)

Begin(r) ==
  /\ run[r].pc = "build"
  /\ IF Authorised(r)
     THEN /\ Becomes(r, [run[r] EXCEPT !.pc = "fetch", !.query = 1, !.page = 1,
                                       !.found = {},
                                       !.built = [m \in Meters |-> Unpriced]])
          /\ steady' = steady \cup {r}
     ELSE Fails(r) /\ UNCHANGED steady
  /\ UNCHANGED <<day, listing, file, moves, quotes>>

\* What the query has found once this page has arrived.
Query(r) == BUILDERS[Cloud(r)][run[r].query]
Found(r) ==
  run[r].found \cup {ms \in Query(r) \X Skus :
                       ms[2] \in listing[ms[1]] /\ ms[2][1] = run[r].page}
MatchesOf(found, m) == {ms[2] : ms \in {x \in found : x[1] = m}}
Built(r) ==
  [m \in Meters |->
     IF m \in Query(r)
     THEN (CHOOSE s \in MatchesOf(Found(r), m) : TRUE)[2]
     ELSE run[r].built[m]]

\* A page that names a next one (NextToken, NextPageLink, nextPageToken).
More(r) == \E m \in Query(r) : \E s \in listing[m] : s[1] > run[r].page

AwsProducts(r) ==
  /\ run[r].pc = "fetch" /\ More(r)
  /\ Becomes(r, [run[r] EXCEPT !.found = Found(r), !.page = @ + 1])
  /\ UNCHANGED <<day, listing, file, moves, history>>

\* The last page, and the rates chosen from the answer.
AwsFlat(r) ==
  /\ run[r].pc = "fetch" /\ ~More(r)
  /\ IF \A m \in Query(r) : Only(MatchesOf(Found(r), m))
     THEN Becomes(r, [run[r] EXCEPT
            !.pc = IF run[r].query = Len(BUILDERS[Cloud(r)])
                   THEN "built" ELSE "fetch",
            !.built = Built(r), !.query = @ + 1, !.page = 1, !.found = {}])
     ELSE Fails(r)
  /\ steady' = steady \cup {r}
  /\ UNCHANGED <<day, listing, file, moves, quotes>>

\* The block of the current cloud, and the file with it replaced.
BlockBounds(r) == Cloud(r) \in run[r].source.marked
Dated(r) == [run[r].source.asOf EXCEPT ![Cloud(r)] = run[r].TODAY]
SplicedHeader(r) == [run[r].source EXCEPT !.asOf = Dated(r)]
Spliced(r) ==
  [run[r].source EXCEPT
     !.rates = [m \in Cells |-> IF m \in CellsOf(Cloud(r))
                                THEN run[r].built[m] ELSE @[m]],
     !.asOf = Dated(r)]

SpliceAndSave(r) ==
  /\ run[r].pc = "built" /\ ~run[r].check
  /\ IF BlockBounds(r)
     THEN /\ file' = Spliced(r)
          /\ Becomes(r, [run[r] EXCEPT
               !.source = Spliced(r), !.todo = Tail(@),
               !.pc = IF Len(run[r].todo) = 1 THEN "write" ELSE "build"])
     ELSE Fails(r) /\ UNCHANGED file
  /\ UNCHANGED <<day, listing, moves, history>>

Splice(r) ==
  /\ run[r].pc = "built" /\ ~run[r].check
  /\ IF BlockBounds(r)
     THEN Becomes(r, [run[r] EXCEPT
            !.source = Spliced(r), !.todo = Tail(@),
            !.pc = IF Len(run[r].todo) = 1 THEN "write" ELSE "build"])
     ELSE Fails(r)
  /\ UNCHANGED <<day, listing, file, moves, history>>

\* --check: the data of the block, its provenance and date stripped; then its
\* age.
Strip(rates, c) == [m \in CellsOf(c) |-> rates[m]]
AsOfOf(r) == run[r].source.asOf[Cloud(r)]
DriftsInData(r) ==
  \/ run[r].drift
  \/ Strip(run[r].built, Cloud(r)) # Strip(run[r].source.rates, Cloud(r))
Drifts(r) ==
  \/ run[r].drift
  \/ Strip(run[r].built, Cloud(r)) # Strip(run[r].source.rates, Cloud(r))
  \/ day - AsOfOf(r) > StalenessDays

Compare(r) ==
  /\ run[r].pc = "built" /\ run[r].check
  /\ IF BlockBounds(r) /\ AsOfOf(r) # Undated
     THEN Becomes(r, [run[r] EXCEPT
            !.drift = Drifts(r), !.todo = Tail(@),
            !.pc = IF Len(run[r].todo) > 1 THEN "build"
                   ELSE IF Drifts(r) THEN "drifted" ELSE "ok"])
     ELSE Fails(r)
  /\ UNCHANGED <<day, listing, file, moves, history>>

\* One write, after the last cloud.
Write(r) ==
  /\ run[r].pc = "write"
  /\ file' = run[r].source
  /\ Becomes(r, [run[r] EXCEPT !.pc = "ok"])
  /\ UNCHANGED <<day, listing, moves, history>>

\* The inventory cannot be read, a request is refused, or the run is killed.
Breaks(r) ==
  /\ run[r].pc \notin Ended \cup {"idle"}
  /\ Fails(r)
  /\ UNCHANGED <<day, listing, file, moves, history>>

-----------------------------------------------------------------------------
(* Vendors, people and the clock.                                          *)

QuotedOn(d) == {<<ms[1], ms[2][2], d>> :
                  ms \in {x \in Meters \X Skus : x[2] \in listing[x[1]]}}

Publish ==
  /\ moves < MaxMoves /\ moves' = moves + 1
  /\ \E m \in Repriced \cap Meters, skus \in SUBSET Skus :
       /\ listing' = [listing EXCEPT ![m] = skus]
       /\ quotes' = quotes \cup {<<m, s[2], day>> : s \in skus}
  /\ steady' = {}
  /\ UNCHANGED <<day, file, run>>

\* A person transcribes a rate, vouching for the whole block that day ...
Transcribe(c) ==
  /\ moves < MaxMoves /\ moves' = moves + 1
  /\ \E m \in Repriced \cap CellsOf(c), price \in Prices :
       file' = [file EXCEPT !.rates[m] = price, !.asOf[c] = day]
  /\ quotes' = quotes \cup {<<m, file'.rates[m], day>> : m \in CellsOf(c)}
  /\ UNCHANGED <<day, listing, run, steady>>

\* ... or spoils its date or its markers.
Spoil(c) ==
  /\ moves < MaxMoves /\ moves' = moves + 1
  /\ \/ file' = [file EXCEPT !.asOf[c] = Undated]
     \/ file' = [file EXCEPT !.marked = @ \ {c}]
  /\ UNCHANGED <<day, listing, run, history>>

Tick ==
  /\ day < MaxDay /\ day' = day + 1
  /\ quotes' = quotes \cup QuotedOn(day + 1)
  /\ UNCHANGED <<listing, file, run, moves, steady>>

-----------------------------------------------------------------------------
\* A card whose rates were all quoted on day 0, or carry no date.
Init ==
  /\ day = 0
  /\ listing \in [Meters -> SUBSET Skus]
  /\ file \in {f \in Files :
       /\ f.asOf \in [Clouds -> {0, Undated}]
       /\ \A m \in Cells : f.asOf[CloudOf[m]] # Undated =>
                             \E s \in listing[m] : s[2] = f.rates[m]}
  /\ run = [r \in Runs |-> Idle(file)]
  /\ moves = 0
  /\ quotes = QuotedOn(0)
  /\ steady = {}

Step(r) ==
  \/ Launch(r) \/ Inventory(r) \/ Begin(r) \/ AwsProducts(r) \/ AwsFlat(r) \/ Splice(r)
  \/ Compare(r) \/ Write(r) \/ Breaks(r)

World == Publish \/ Tick \/ \E c \in Clouds : Transcribe(c) \/ Spoil(c)

Next == World \/ \E r \in Runs : Step(r)

Spec == Init /\ [][Next]_vars

-----------------------------------------------------------------------------
RunType ==
  [pc: {"idle", "inventory", "build", "fetch", "built", "write"} \cup Ended,
   check: BOOLEAN, wanted: Seq(Clouds), todo: Seq(Clouds),
   env: SUBSET {"aws", "gcp", "azure"}, TODAY: 0..MaxDay, source: Files,
   query: Nat \ {0}, page: 1..LastPage, found: SUBSET (Meters \X Skus),
   built: [Meters -> Prices \cup {Unpriced}], drift: BOOLEAN]

TypeOK ==
  /\ day \in 0..MaxDay /\ moves \in 0..MaxMoves
  /\ listing \in [Meters -> SUBSET Skus]
  /\ file \in Files
  /\ run \in [Runs -> RunType]
  /\ quotes \subseteq Meters \X Prices \X (0..MaxDay)
  /\ steady \subseteq Runs

\* The promise of RateCard, kept by any number of runs, edits and crashes:
\* a stale copy that overwrites a newer one still carries its own dates.
Card == INSTANCE RateCard WITH rates <- file.rates, asOf <- file.asOf
ImplementsCard == Card!Spec

\* The date of a block never flatters it: each of its rates was quoted on that
\* day or after (main: one TODAY per run, set before anything is fetched).
AsOfIsHonest == Card!Honest(file.rates, file.asOf, quotes)

\* A check that passes has seen the committed rates quoted, each since the run
\* began, and blocks no older than the contract (main, --check).
CheckIsHonest ==
  \A r \in Runs : run[r].pc = "ok" /\ run[r].check =>
    \A i \in DOMAIN run[r].wanted : LET c == run[r].wanted[i] IN
      /\ run[r].TODAY - run[r].source.asOf[c] <= StalenessDays
      /\ \A m \in CellsOf(c) : \E d \in run[r].TODAY..day :
           <<m, run[r].source.rates[m], d>> \in quotes

\* While a query's listings stand still, a meter that several SKUs or none
\* match is never priced, wherever the pages break (only).
AmbiguousNeverTaken ==
  [][\A r \in steady :
       run[r].pc = "fetch" /\ run'[r].query > run[r].query =>
         \A m \in Query(r) : Cardinality(listing[m]) = 1]_vars

\* A run changes the file once, in the step in which it succeeds and with every
\* block it was asked for refreshed; a run that fails at a later cloud changes
\* nothing, although it has announced the earlier ones (main).
RefreshIsWhole ==
  [][file' # file /\ run' # run =>
       \E r \in Runs :
         /\ run[r].pc # "ok" /\ run'[r].pc = "ok" /\ ~run[r].check
         /\ \A i \in DOMAIN run[r].wanted :
              file'.asOf[run[r].wanted[i]] = run[r].TODAY]_vars

=============================================================================
