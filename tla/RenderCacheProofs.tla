-------------------------- MODULE RenderCacheProofs --------------------------
(* What RenderCache keeps for any number of processes, threads, packages and  *)
(* versions of them, whatever is republished, fails, crashes or is wiped, and *)
(* whether or not the cache is left alone while something renders.           *)
EXTENDS RenderCache, TLAPS

Locals == <<pc, want, layer, staged, root, queue, visited, pending, found, result>>

\* The pieces of TypeOK.
Places ==
  /\ pc \in [Threads -> Labels]
  /\ result \in [Threads -> {"none", "ok", "failed"}]
  /\ want \in [Threads -> Refs \cup {None}]
  /\ layer \in [Threads -> Layers \cup {None}]
  /\ root \in [Threads -> Layers \cup {None}]
Walks ==
  /\ staged \in [Threads -> SUBSET Files]
  /\ queue \in [Threads -> SUBSET Layers] /\ visited \in [Threads -> SUBSET Layers]
  /\ pending \in [Threads -> SUBSET Refs] /\ found \in [Threads -> SUBSET Layers]
Stores ==
  /\ registry \in [Refs -> Layers]
  /\ cache \in [Layers -> SUBSET Files] /\ doomed \subseteq Layers
  /\ fresh \in [Threads -> [Refs -> SUBSET Layers]]
  /\ moves \in 0..MaxMoves /\ faults \in 0..MaxFaults /\ wipes \in 0..MaxWipes
Memos ==
  /\ pulled \in [Procs -> [Refs -> Layers \cup {None}]]
  /\ deps \in [Procs -> [Layers -> SUBSET SUBSET Layers]]
\* What is being fetched, and what is rendered, where the code uses it.
Named ==
  \A t \in Threads :
    /\ pc[t] \in {"manifest", "probe", "unpack", "confirm"} => want[t] \in Refs
    /\ pc[t] \in {"probe", "unpack", "confirm"} => layer[t] \in Layers
    /\ pc[t] \in {"deps", "walk", "exec"} => root[t] \in Layers

Typed == Places /\ Walks /\ Stores /\ Memos /\ Named

\* Updating one entry of a table of tables.
LEMMA UpdatedTable ==
  ASSUME NEW A, NEW B, NEW S, NEW f \in [A -> [B -> S]], NEW a \in A, NEW b \in B, NEW v \in S
  PROVE  [f EXCEPT ![a][b] = v] \in [A -> [B -> S]]
<1>1. [f[a] EXCEPT ![b] = v] \in [B -> S]
  OBVIOUS
<1>2. [f EXCEPT ![a] = [f[a] EXCEPT ![b] = v]] \in [A -> [B -> S]]
  BY <1>1
<1> QED
  BY <1>2

LEMMA FinishTyped ==
  ASSUME Places, Walks, NEW t \in Threads, NEW outcome \in {"none", "ok", "failed"},
         Finish(t, outcome)
  PROVE  Places' /\ Walks'
BY DEF Places, Walks, Finish, GoTo, Labels

LEMMA FinishNamed ==
  ASSUME Places, Named, NEW t \in Threads, NEW outcome, Finish(t, outcome)
  PROVE  Named'
<1>1. /\ pc'[t] = "idle"
      /\ \A s \in Threads \ {t} : /\ pc'[s] = pc[s] /\ want'[s] = want[s]
                                  /\ layer'[s] = layer[s] /\ root'[s] = root[s]
  BY DEF Places, Finish, GoTo
<1> QED
  BY <1>1 DEF Named

LEMMA FinishFresh ==
  ASSUME fresh \in [Threads -> [Refs -> SUBSET Layers]], NEW t \in Threads, NEW outcome,
         Finish(t, outcome)
  PROVE  fresh' \in [Threads -> [Refs -> SUBSET Layers]]
<1>1. [r \in Refs |-> {}] \in [Refs -> SUBSET Layers]
  OBVIOUS
<1> QED
  BY <1>1 DEF Finish

\* fetch() returns.
LEMMA FetchedTyped ==
  ASSUME Typed, NEW t \in Threads, NEW l \in Layers, Fetched(t, l), want[t] \in Refs
  PROVE  /\ Places' /\ Walks' /\ Named'
         /\ pulled' \in [Procs -> [Refs -> Layers \cup {None}]]
<1>1. Home[t] \in Procs /\ None \notin Layers
  BY CacheAssumption
<1>2. Places'
  BY DEF Typed, Places, Fetched, GoTo, Labels
<1>3. Walks'
  <2>1. staged' \in [Threads -> SUBSET Files]
    BY DEF Typed, Walks, Fetched
  <2>2. queue' \in [Threads -> SUBSET Layers]
    BY DEF Typed, Walks, Fetched
  <2>3. found' \in [Threads -> SUBSET Layers]
    <3>1. found[t] \subseteq Layers /\ found[t] \cup {l} \subseteq Layers
      BY DEF Typed, Walks
    <3>2. UNCHANGED found \/ found' = [found EXCEPT ![t] = found[t]]
          \/ found' = [found EXCEPT ![t] = found[t] \cup {l}]
      BY DEF Fetched
    <3> QED
      BY <3>1, <3>2 DEF Typed, Walks
  <2>4. UNCHANGED <<visited, pending>>
    BY DEF Fetched
  <2> QED
    BY <2>1, <2>2, <2>3, <2>4 DEF Typed, Walks
<1>4. pulled' \in [Procs -> [Refs -> Layers \cup {None}]]
  <2>1. UNCHANGED pulled \/ pulled' = [pulled EXCEPT ![Home[t]][want[t]] = l]
    BY DEF Fetched, Remember
  <2>2. pulled \in [Procs -> [Refs -> Layers \cup {None}]] /\ l \in Layers \cup {None}
    BY DEF Typed, Memos
  <2>3. [pulled EXCEPT ![Home[t]][want[t]] = l] \in [Procs -> [Refs -> Layers \cup {None}]]
    BY <1>1, <2>2, UpdatedTable
  <2> QED
    BY <2>1, <2>2, <2>3
<1>5. Named'
  <2>1. ASSUME NEW s \in Threads \ {t}
        PROVE  pc'[s] = pc[s] /\ want'[s] = want[s] /\ layer'[s] = layer[s] /\ root'[s] = root[s]
    BY DEF Typed, Places, Fetched, GoTo
  <2>2. /\ pc'[t] \in {"deps", "walk"} /\ root'[t] \in Layers
    BY DEF Typed, Places, Fetched, GoTo
  <2> QED
    BY <2>1, <2>2 DEF Typed, Named
<1> QED
  BY <1>2, <1>3, <1>4, <1>5

(***************************************************************************)
(* The steps of one render.                                                *)
(***************************************************************************)

LEMMA BeginTyped == ASSUME Typed, NEW t \in Threads, Begin(t) PROVE Typed'
<1>1. Home[t] \in Procs /\ Entries \subseteq Refs /\ None \notin Layers
  BY CacheAssumption
<1>2. PICK r \in Entries :
        /\ want' = [want EXCEPT ![t] = r]
        /\ \/ /\ GoTo(t, "deps") /\ UNCHANGED pulled
              /\ root' = [root EXCEPT ![t] = pulled[Home[t]][r]]
              /\ pulled[Home[t]][r] # None
           \/ /\ GoTo(t, "manifest") /\ UNCHANGED root
              /\ pulled' = [pulled EXCEPT ![Home[t]][r] = None]
  BY DEF Begin
<1>3. r \in Refs /\ pulled[Home[t]][r] \in Layers \cup {None}
  BY <1>1, <1>2 DEF Typed, Memos
<1>4. Places'
  BY <1>1, <1>2, <1>3 DEF Typed, Places, Begin, GoTo, Labels
<1>5. Walks'
  <2>1. UNCHANGED <<staged, queue, visited, pending, found>>
    BY DEF Begin
  <2> QED
    BY <2>1 DEF Typed, Walks
<1>6. Memos'
  <2>1. None \in Layers \cup {None} /\ UNCHANGED deps
    BY DEF Begin
  <2>2. pulled' \in [Procs -> [Refs -> Layers \cup {None}]]
    <3>1. pulled \in [Procs -> [Refs -> Layers \cup {None}]]
      BY DEF Typed, Memos
    <3>2. [pulled EXCEPT ![Home[t]][r] = None] \in [Procs -> [Refs -> Layers \cup {None}]]
      BY <1>1, <1>3, <2>1, <3>1, UpdatedTable
    <3> QED
      BY <1>2, <3>1, <3>2
  <2> QED
    BY <2>1, <2>2 DEF Typed, Memos
<1>7. Stores'
  <2>1. [q \in Refs |-> {registry[q]}] \in [Refs -> SUBSET Layers]
    BY DEF Typed, Stores
  <2> QED
    BY <2>1 DEF Typed, Stores, Begin, budgets
<1>8. Named'
  <2>1. ASSUME NEW s \in Threads \ {t}
        PROVE  pc'[s] = pc[s] /\ want'[s] = want[s] /\ layer'[s] = layer[s] /\ root'[s] = root[s]
    BY <1>2 DEF Typed, Places, Begin, GoTo
  <2>2. want'[t] \in Refs
    BY <1>2, <1>3 DEF Typed, Places
  <2>3. pc'[t] = "manifest" \/ (pc'[t] = "deps" /\ root'[t] \in Layers)
    BY <1>2, <1>3 DEF Typed, Places, GoTo
  <2> QED
    BY <2>1, <2>2, <2>3 DEF Typed, Named
<1> QED
  BY <1>4, <1>5, <1>6, <1>7, <1>8 DEF Typed

LEMMA FetchManifestTyped == ASSUME Typed, NEW t \in Threads, FetchManifest(t) PROVE Typed'
<1>1. want[t] \in Refs /\ registry[want[t]] \in Layers
  BY DEF Typed, Named, Stores, FetchManifest
<1>2. Places'
  BY <1>1 DEF Typed, Places, FetchManifest, GoTo, Labels
<1>3. Walks' /\ Stores' /\ Memos'
  BY DEF Typed, Walks, Stores, Memos, FetchManifest, budgets
<1>4. Named'
  BY <1>1 DEF Typed, Places, Named, FetchManifest, GoTo
<1> QED
  BY <1>2, <1>3, <1>4 DEF Typed

LEMMA ProbeTyped == ASSUME Typed, NEW t \in Threads, Probe(t) PROVE Typed'
<1>1. want[t] \in Refs /\ UNCHANGED <<fresh, deps>> /\ Stores'
  BY DEF Typed, Named, Stores, Probe, budgets, Fetched
<1>2. CASE \E l \in CachedCopies(t) : Fetched(t, l)
  <2>1. PICK l \in Layers : Fetched(t, l)
    BY <1>2 DEF CachedCopies, Typed, Named, Probe
  <2> QED
    BY <1>1, <2>1, FetchedTyped DEF Typed, Memos
<1>3. CASE GoTo(t, "unpack") /\ UNCHANGED <<pulled, want, layer, staged, root, queue, visited,
                                            pending, found, result, fresh>>
  <2>1. Places' /\ Named'
    BY <1>3 DEF Typed, Places, Named, GoTo, Labels, Probe
  <2> QED
    BY <1>1, <1>3, <2>1 DEF Typed, Walks, Memos
<1> QED
  BY <1>2, <1>3 DEF Probe

LEMMA UnpackTyped == ASSUME Typed, NEW t \in Threads, Unpack(t) PROVE Typed'
<1>1. Places' /\ Stores' /\ Memos' /\ Named'
  BY DEF Typed, Places, Stores, Memos, Named, Unpack, budgets
<1>2. Walks'
  BY DEF Typed, Walks, Unpack
<1> QED
  BY <1>1, <1>2 DEF Typed

LEMMA PublishTyped == ASSUME Typed, NEW t \in Threads, Publish(t) PROVE Typed'
<1>1. Memos' /\ UNCHANGED <<registry, doomed, budgets>>
  BY DEF Publish, Typed, Memos
<1>2. CASE UNCHANGED cache /\ Finish(t, "failed")
  <2>1. fresh' \in [Threads -> [Refs -> SUBSET Layers]]
    BY <1>2, FinishFresh DEF Typed, Stores
  <2> QED
    BY <1>1, <1>2, <2>1, FinishTyped, FinishNamed DEF Typed, Stores, budgets
<1>3. CASE /\ cache' = [cache EXCEPT ![layer[t]] = IF @ = {} THEN staged[t] ELSE @]
           /\ GoTo(t, "confirm")
           /\ UNCHANGED <<want, layer, staged, root, queue, visited, pending,
                          found, result, fresh>>
  <2>1. cache' \in [Layers -> SUBSET Files]
    BY <1>3 DEF Publish, Typed, Stores
  <2>2. Places' /\ Named'
    BY <1>3 DEF Typed, Places, Named, Publish, GoTo, Labels
  <2>3. Walks'
    BY <1>3 DEF Typed, Walks
  <2> QED
    BY <1>1, <1>3, <2>1, <2>2, <2>3 DEF Typed, Stores, budgets
<1> QED
  BY <1>2, <1>3 DEF Publish

LEMMA ConfirmTyped == ASSUME Typed, NEW t \in Threads, Confirm(t) PROVE Typed'
<1>1. UNCHANGED <<registry, cache, doomed, deps, budgets>> /\ want[t] \in Refs /\ layer[t] \in Layers
  BY DEF Confirm, Typed, Named
<1>2. CASE Fetched(t, layer[t])
  <2>1. UNCHANGED fresh
    BY <1>2 DEF Fetched
  <2> QED
    BY <1>1, <1>2, <2>1, FetchedTyped DEF Typed, Stores, Memos, budgets
<1>3. CASE Finish(t, "failed") /\ UNCHANGED pulled
  <2>1. fresh' \in [Threads -> [Refs -> SUBSET Layers]]
    BY <1>3, FinishFresh DEF Typed, Stores
  <2> QED
    BY <1>1, <1>3, <2>1, FinishTyped, FinishNamed DEF Typed, Stores, Memos, budgets
<1> QED
  BY <1>2, <1>3 DEF Confirm

LEMMA DependenciesTyped == ASSUME Typed, NEW t \in Threads, Dependencies(t) PROVE Typed'
<1>1. Home[t] \in Procs /\ root[t] \in Layers
  BY CacheAssumption DEF Typed, Named, Dependencies
<1>2. /\ pc' = [pc EXCEPT ![t] = "exec"] \/ pc' = [pc EXCEPT ![t] = "walk"]
      /\ want' = [want EXCEPT ![t] = None] /\ layer' = [layer EXCEPT ![t] = None]
      /\ UNCHANGED <<root, result>>
  BY DEF Dependencies, GoTo
<1>3. Places'
  BY <1>2 DEF Typed, Places, Labels
<1>4. Stores'
  <2>1. UNCHANGED <<registry, cache, doomed, fresh, moves, faults, wipes>>
    BY DEF Dependencies, budgets
  <2> QED
    BY <2>1 DEF Typed, Stores
<1>5. Memos'
  <2>1. /\ UNCHANGED deps \/ deps' = [deps EXCEPT ![Home[t]][root[t]] = {}]
        /\ UNCHANGED pulled
    BY DEF Dependencies
  <2>2. {} \in SUBSET SUBSET Layers
    OBVIOUS
  <2>3. deps' \in [Procs -> [Layers -> SUBSET SUBSET Layers]]
    <3>1. deps \in [Procs -> [Layers -> SUBSET SUBSET Layers]]
      BY DEF Typed, Memos
    <3>2. [deps EXCEPT ![Home[t]][root[t]] = {}] \in [Procs -> [Layers -> SUBSET SUBSET Layers]]
      BY <1>1, <2>2, <3>1, UpdatedTable
    <3> QED
      BY <2>1, <3>1, <3>2
  <2> QED
    BY <2>1, <2>3 DEF Typed, Memos
<1>6. Walks'
  <2>1. UNCHANGED <<staged, visited, pending>>
    BY DEF Dependencies
  <2>2. queue' \in [Threads -> SUBSET Layers]
    BY <1>1 DEF Dependencies, Typed, Walks
  <2>3. found' \in [Threads -> SUBSET Layers]
    <3>1. ASSUME NEW hit \in deps[Home[t]][root[t]] PROVE hit \subseteq Layers
      BY <1>1 DEF Typed, Memos
    <3> QED
      BY <3>1 DEF Dependencies, Typed, Walks
  <2> QED
    BY <2>1, <2>2, <2>3 DEF Typed, Walks
<1>7. Named'
  BY <1>1, <1>2 DEF Typed, Places, Named
<1> QED
  BY <1>3, <1>4, <1>5, <1>6, <1>7 DEF Typed

LEMMA ReadManifestTyped == ASSUME Typed, NEW t \in Threads, ReadManifest(t) PROVE Typed'
<1>1. Places' /\ Stores' /\ Memos' /\ Named'
  BY DEF Typed, Places, Stores, Memos, Named, ReadManifest, budgets
<1>2. PICK l \in queue[t] :
        /\ queue' = [queue EXCEPT ![t] = @ \ {l}]
        /\ visited' = [visited EXCEPT ![t] = @ \cup {l}]
        /\ pending' = [pending EXCEPT ![t] = IF HasRoot(l) THEN Needs[l] ELSE {}]
        /\ UNCHANGED <<staged, found>>
  BY DEF ReadManifest
<1>3. l \in Layers /\ Needs[l] \subseteq Refs
  BY CacheAssumption DEF Typed, Walks
<1>4. Walks'
  BY <1>2, <1>3 DEF Typed, Walks
<1> QED
  BY <1>1, <1>4 DEF Typed

LEMMA FetchNextTyped == ASSUME Typed, NEW t \in Threads, FetchNext(t) PROVE Typed'
<1>1. PICK r \in Refs : /\ want' = [want EXCEPT ![t] = r]
                        /\ pending' = [pending EXCEPT ![t] = @ \ {r}]
  BY DEF FetchNext, Typed, Walks
<1>2. Places'
  BY <1>1 DEF Typed, Places, FetchNext, GoTo, Labels
<1>3. Walks' /\ Stores' /\ Memos'
  BY <1>1 DEF Typed, Walks, Stores, Memos, FetchNext, budgets
<1>4. Named'
  BY <1>1 DEF Typed, Places, Named, FetchNext, GoTo
<1> QED
  BY <1>2, <1>3, <1>4 DEF Typed

LEMMA ResolvedTyped == ASSUME Typed, NEW t \in Threads, Resolved(t) PROVE Typed'
<1>1. Home[t] \in Procs /\ root[t] \in Layers
  BY CacheAssumption DEF Typed, Named, Resolved
<1>2. Places'
  BY DEF Typed, Places, Resolved, GoTo, Labels
<1>3. Walks' /\ Stores'
  BY DEF Typed, Walks, Stores, Resolved, budgets
<1>4. Memos'
  BY <1>1 DEF Typed, Memos, Walks, Resolved
<1>5. Named'
  BY <1>1 DEF Typed, Places, Named, Resolved, GoTo
<1> QED
  BY <1>2, <1>3, <1>4, <1>5 DEF Typed

\* Exec, and a call that fails.
LEMMA FinishesTyped ==
  ASSUME Typed, NEW t \in Threads, NEW outcome \in {"none", "ok", "failed"}, Finish(t, outcome),
         UNCHANGED <<registry, cache, doomed, pulled, deps, moves, wipes>>, faults' \in 0..MaxFaults
  PROVE  Typed'
<1>1. fresh' \in [Threads -> [Refs -> SUBSET Layers]]
  BY FinishFresh DEF Typed, Stores
<1> QED
  BY <1>1, FinishTyped, FinishNamed DEF Typed, Stores, Memos

(***************************************************************************)
(* The surroundings, and the specification.                                *)
(***************************************************************************)

LEMMA RepublishTyped == ASSUME Typed, NEW r \in Refs, Republish(r) PROVE Typed'
<1>1. PICK l \in Layers :
        /\ registry' = [registry EXCEPT ![r] = l]
        /\ fresh' = [t \in Threads |-> IF pc[t] = "idle" THEN fresh[t]
                                       ELSE [fresh[t] EXCEPT ![r] = @ \cup {l}]]
  BY DEF Republish
<1>2. ASSUME NEW t \in Threads
      PROVE  [fresh[t] EXCEPT ![r] = @ \cup {l}] \in [Refs -> SUBSET Layers]
  BY DEF Typed, Stores
<1>3. fresh' \in [Threads -> [Refs -> SUBSET Layers]]
  BY <1>1, <1>2 DEF Typed, Stores
<1>4. moves' \in 0..MaxMoves
  BY CacheAssumption DEF Typed, Stores, Republish
<1>5. UNCHANGED <<cache, doomed, pulled, deps, pc, want, layer, staged, root, queue,
                  visited, pending, found, result, faults, wipes>>
  BY DEF Republish
<1>6. registry' \in [Refs -> Layers]
  BY <1>1 DEF Typed, Stores
<1>7. Places' /\ Walks' /\ Memos' /\ Named'
  BY <1>5 DEF Typed, Places, Walks, Memos, Named
<1>8. Stores'
  BY <1>3, <1>4, <1>5, <1>6 DEF Typed, Stores
<1> QED
  BY <1>7, <1>8 DEF Typed

LEMMA CrashTyped == ASSUME Typed, NEW p \in Procs, Crash(p) PROVE Typed'
<1>1. /\ pc' = [t \in Threads |-> IF Home[t] = p THEN "idle" ELSE pc[t]]
      /\ result' = [t \in Threads |-> IF Home[t] = p THEN "none" ELSE result[t]]
      /\ want' = [t \in Threads |-> IF Home[t] = p THEN None ELSE want[t]]
      /\ layer' = [t \in Threads |-> IF Home[t] = p THEN None ELSE layer[t]]
      /\ root' = [t \in Threads |-> IF Home[t] = p THEN None ELSE root[t]]
  BY DEF Crash
<1>2. /\ staged' = [t \in Threads |-> IF Home[t] = p THEN {} ELSE staged[t]]
      /\ queue' = [t \in Threads |-> IF Home[t] = p THEN {} ELSE queue[t]]
      /\ visited' = [t \in Threads |-> IF Home[t] = p THEN {} ELSE visited[t]]
      /\ pending' = [t \in Threads |-> IF Home[t] = p THEN {} ELSE pending[t]]
      /\ found' = [t \in Threads |-> IF Home[t] = p THEN {} ELSE found[t]]
  BY DEF Crash
<1>3. /\ pulled' = [pulled EXCEPT ![p] = [r \in Refs |-> None]]
      /\ deps' = [deps EXCEPT ![p] = [l \in Layers |-> {}]]
      /\ fresh' = [t \in Threads |-> IF Home[t] = p THEN [r \in Refs |-> {}] ELSE fresh[t]]
      /\ UNCHANGED <<registry, cache, doomed, moves, wipes>>
      /\ faults < MaxFaults /\ faults' = faults + 1
  BY DEF Crash
<1>4. Places'
  BY <1>1 DEF Typed, Places, Labels
<1>5. Walks'
  BY <1>2 DEF Typed, Walks
<1>6. Memos'
  BY <1>3 DEF Typed, Memos
<1>7. Stores'
  BY <1>3, CacheAssumption DEF Typed, Stores
<1>8. Named'
  BY <1>1 DEF Typed, Named
<1> QED
  BY <1>4, <1>5, <1>6, <1>7, <1>8 DEF Typed

LEMMA WipesTyped == ASSUME Typed, Wipe \/ WipeFile PROVE Typed'
<1>1. UNCHANGED <<registry, pulled, deps, render, moves, faults>>
  BY DEF Wipe, WipeFile, budgets
<1>2. /\ cache' \in [Layers -> SUBSET Files] /\ doomed' \subseteq Layers
      /\ wipes' \in 0..MaxWipes
  <2>1. CASE Wipe
    BY <2>1, CacheAssumption DEF Wipe, Typed, Stores
  <2>2. CASE WipeFile
    <3>1. PICK l \in doomed : \E f \in cache[l] :
            /\ cache' = [cache EXCEPT ![l] = @ \ {f}]
            /\ doomed' = IF cache[l] = {f} THEN doomed \ {l} ELSE doomed
      BY <2>2 DEF WipeFile
    <3> QED
      BY <2>2, <3>1 DEF WipeFile, Typed, Stores, budgets
  <2> QED
    BY <2>1, <2>2
<1>3. Places' /\ Walks' /\ Memos' /\ Named'
  BY <1>1 DEF Typed, Places, Walks, Memos, Named, render
<1>4. Stores'
  BY <1>1, <1>2 DEF Typed, Stores, render
<1> QED
  BY <1>3, <1>4 DEF Typed

LEMMA InitTyped == Init => Typed
<1> SUFFICES ASSUME Init PROVE Typed
  OBVIOUS
<1>1. Places /\ Named
  BY DEF Init, Places, Named, Labels
<1>2. Walks
  BY DEF Init, Walks
<1>3. Memos
  BY DEF Init, Memos
<1>4. Stores
  BY CacheAssumption DEF Init, Stores
<1> QED
  BY <1>1, <1>2, <1>3, <1>4 DEF Typed

LEMMA NextTyped == Typed /\ [Next]_vars => Typed'
<1> SUFFICES ASSUME Typed, [Next]_vars PROVE Typed'
  OBVIOUS
<1>1. ASSUME NEW r \in Refs, Republish(r) PROVE Typed'
  BY <1>1, RepublishTyped
<1>2. ASSUME NEW t \in Threads, CallFails(t) PROVE Typed'
  <2>1. /\ Finish(t, "failed") /\ UNCHANGED <<registry, cache, doomed, pulled, deps, moves, wipes>>
        /\ faults' \in 0..MaxFaults
    BY <1>2, CacheAssumption DEF CallFails, Typed, Stores
  <2> QED
    BY <2>1, FinishesTyped
<1>3. ASSUME NEW p \in Procs, Crash(p) PROVE Typed'
  BY <1>3, CrashTyped
<1>4. CASE Wipe \/ WipeFile
  BY <1>4, WipesTyped
<1>5. ASSUME NEW t \in Threads, Begin(t) PROVE Typed'
  BY <1>5, BeginTyped
<1>6. ASSUME NEW t \in Threads, Advance(t) PROVE Typed'
  <2>1. CASE Exec(t)
    <3>1. PICK outcome \in {"none", "ok", "failed"} : Finish(t, outcome)
      BY <2>1 DEF Exec
    <3>2. UNCHANGED <<registry, cache, doomed, pulled, deps, moves, wipes>> /\ faults' \in 0..MaxFaults
      BY <2>1 DEF Exec, budgets, Typed, Stores
    <3> QED
      BY <3>1, <3>2, FinishesTyped
  <2> QED
    BY <1>6, <2>1, FetchManifestTyped, ProbeTyped, UnpackTyped, PublishTyped, ConfirmTyped,
       DependenciesTyped, ReadManifestTyped, FetchNextTyped, ResolvedTyped DEF Advance
<1>7. CASE UNCHANGED vars
  BY <1>7 DEF vars, render, budgets, Typed, Places, Walks, Stores, Memos, Named
<1> QED
  BY <1>1, <1>2, <1>3, <1>4, <1>5, <1>6, <1>7 DEF Next, Surroundings

\* Every variable of the cache and of its renders holds a value of its kind.
THEOREM CacheIsTyped == Spec => []TypeOK
<1>1. Typed => TypeOK
  BY DEF Typed, Places, Walks, Stores, Memos, TypeOK
<1> QED
  BY <1>1, InitTyped, NextTyped, PTL DEF Spec

(***************************************************************************)
(* A directory appears whole.                                              *)
(***************************************************************************)

\* A directory that no rm -rf is working on is absent or whole.
Whole == \A l \in Layers \ doomed : cache[l] = {} \/ cache[l] = Files

LEMMA WholeKeeps == ASSUME Typed, Whole, [Next]_vars PROVE Whole'
<1> USE DEF Typed, Stores
<1>1. CASE UNCHANGED <<cache, doomed>>
  BY <1>1 DEF Whole
<1>2. ASSUME NEW t \in Threads, Publish(t) PROVE Whole'
  <2>1. UNCHANGED doomed /\ staged[t] = Files
    BY <1>2 DEF Publish
  <2>2. UNCHANGED cache \/ cache' = [cache EXCEPT ![layer[t]] = IF @ = {} THEN staged[t] ELSE @]
    BY <1>2 DEF Publish
  <2> QED
    BY <2>1, <2>2 DEF Whole
<1>3. CASE Wipe
  BY <1>3 DEF Wipe, Whole, Exists
<1>4. CASE WipeFile
  <2>1. PICK l \in doomed : \E f \in cache[l] :
          /\ cache' = [cache EXCEPT ![l] = @ \ {f}]
          /\ doomed' = IF cache[l] = {f} THEN doomed \ {l} ELSE doomed
    BY <1>4 DEF WipeFile
  <2>2. ASSUME NEW k \in Layers \ doomed' PROVE cache'[k] = {} \/ cache'[k] = Files
    <3>1. CASE k = l
      BY <2>1, <2>2, <3>1
    <3>2. CASE k # l
      BY <2>1, <2>2, <3>2 DEF Whole
    <3> QED
      BY <3>1, <3>2
  <2> QED
    BY <2>2 DEF Whole
<1>5. ASSUME NEW t \in Threads, Begin(t) \/ Advance(t), ~Publish(t) PROVE UNCHANGED <<cache, doomed>>
  BY <1>5 DEF Begin, Advance, FetchManifest, Probe, Unpack, Confirm, Dependencies, ReadManifest,
              FetchNext, Resolved, Exec
<1>6. ASSUME NEW r, Republish(r) PROVE UNCHANGED <<cache, doomed>>
  BY <1>6 DEF Republish
<1>7. ASSUME NEW t, CallFails(t) PROVE UNCHANGED <<cache, doomed>>
  BY <1>7 DEF CallFails
<1>8. ASSUME NEW p, Crash(p) PROVE UNCHANGED <<cache, doomed>>
  BY <1>8 DEF Crash
<1>9. CASE UNCHANGED vars
  BY <1>1, <1>9 DEF vars
<1> QED
  BY <1>1, <1>2, <1>3, <1>4, <1>5, <1>6, <1>7, <1>8, <1>9 DEF Next, Surroundings

\* A kcl.mod in a directory means the whole package, whoever crashed while
\* unpacking it; only a directory that is being removed is an exception.
THEOREM DirectoriesAreWhole == Spec => []PublishedComplete
<1>1. Init => Whole
  BY DEF Init, Whole
<1>2. Whole => PublishedComplete
  BY DEF Whole, PublishedComplete, HasRoot
<1> QED
  BY <1>1, <1>2, InitTyped, NextTyped, WholeKeeps, PTL DEF Spec

(***************************************************************************)
(* A pull is never older than its render.                                  *)
(***************************************************************************)

\* What the tags name now, and the layer being fetched, were seen since the
\* render began.
Recent ==
  \A t \in Threads :
    /\ pc[t] # "idle" => \A r \in Refs : registry[r] \in fresh[t][r]
    /\ pc[t] \in {"probe", "unpack", "confirm"} => layer[t] \in fresh[t][want[t]]

\* A thread's step leaves the others' alone.
LEMMA RecentOthers ==
  ASSUME Typed, Recent, NEW t \in Threads, UNCHANGED registry,
         \A s \in Threads \ {t} : /\ pc'[s] = pc[s] /\ want'[s] = want[s]
                                  /\ layer'[s] = layer[s] /\ fresh'[s] = fresh[s],
         pc'[t] # "idle" => \A r \in Refs : registry[r] \in fresh'[t][r],
         pc'[t] \in {"probe", "unpack", "confirm"} => layer'[t] \in fresh'[t][want'[t]]
  PROVE  Recent'
BY DEF Recent

LEMMA RecentKeeps == ASSUME Typed, Recent, [Next]_vars PROVE Recent'
<1> USE DEF Typed, Places, Stores
<1>1. ASSUME NEW r \in Refs, Republish(r) PROVE Recent'
  <2>1. PICK l \in Layers :
          /\ registry' = [registry EXCEPT ![r] = l]
          /\ fresh' = [t \in Threads |-> IF pc[t] = "idle" THEN fresh[t]
                                         ELSE [fresh[t] EXCEPT ![r] = @ \cup {l}]]
          /\ UNCHANGED <<pc, layer, want>>
    BY <1>1 DEF Republish
  <2> SUFFICES ASSUME NEW t \in Threads, pc[t] # "idle"
               PROVE  /\ \A q \in Refs : registry'[q] \in fresh'[t][q]
                      /\ pc[t] \in {"probe", "unpack", "confirm"} => layer[t] \in fresh'[t][want[t]]
    BY <2>1 DEF Recent
  <2>2. fresh'[t] = [fresh[t] EXCEPT ![r] = @ \cup {l}] /\ fresh[t] \in [Refs -> SUBSET Layers]
    BY <2>1
  <2>3. \A q \in Refs : fresh[t][q] \subseteq fresh'[t][q]
    BY <2>2
  <2>4. l \in fresh'[t][r]
    BY <2>2
  <2>5. pc[t] \in {"probe", "unpack", "confirm"} => want[t] \in Refs
    BY DEF Named
  <2> QED
    BY <2>1, <2>3, <2>4, <2>5 DEF Recent
<1>2. ASSUME NEW t \in Threads, NEW outcome, Finish(t, outcome), UNCHANGED registry PROVE Recent'
  <2>1. /\ pc'[t] = "idle"
        /\ \A s \in Threads \ {t} : /\ pc'[s] = pc[s] /\ want'[s] = want[s]
                                    /\ layer'[s] = layer[s] /\ fresh'[s] = fresh[s]
    BY <1>2 DEF Finish, GoTo
  <2> QED
    BY <1>2, <2>1, RecentOthers
<1>3. ASSUME NEW p \in Procs, Crash(p) PROVE Recent'
  <2>1. /\ \A t \in Threads : pc'[t] = "idle" \/ (/\ pc'[t] = pc[t] /\ want'[t] = want[t]
                                                   /\ layer'[t] = layer[t] /\ fresh'[t] = fresh[t])
        /\ UNCHANGED registry
    BY <1>3 DEF Crash
  <2> QED
    BY <2>1 DEF Recent
<1>4. CASE Wipe \/ WipeFile
  BY <1>4 DEF Wipe, WipeFile, render, Recent
<1>5. ASSUME NEW t \in Threads, Begin(t) PROVE Recent'
  <2>1. /\ fresh'[t] = [r \in Refs |-> {registry[r]}] /\ UNCHANGED registry
        /\ \A s \in Threads \ {t} : /\ pc'[s] = pc[s] /\ want'[s] = want[s]
                                    /\ layer'[s] = layer[s] /\ fresh'[s] = fresh[s]
    BY <1>5 DEF Begin, GoTo
  <2>2. pc'[t] \in {"deps", "manifest"}
    BY <1>5 DEF Begin, GoTo
  <2> QED
    BY <2>1, <2>2, RecentOthers
<1>6. ASSUME NEW t \in Threads, FetchManifest(t) PROVE Recent'
  <2>1. /\ layer'[t] = registry[want[t]] /\ pc'[t] = "probe" /\ UNCHANGED <<registry, fresh, want>>
        /\ \A s \in Threads \ {t} : pc'[s] = pc[s] /\ layer'[s] = layer[s]
    BY <1>6 DEF FetchManifest, GoTo
  <2>2. want[t] \in Refs /\ pc[t] # "idle"
    BY <1>6 DEF FetchManifest, Named
  <2> QED
    BY <2>1, <2>2 DEF Recent
<1>7. ASSUME NEW t \in Threads, NEW l, Fetched(t, l), pc[t] # "idle", UNCHANGED registry PROVE Recent'
  <2>1. /\ pc'[t] \in {"deps", "walk"} /\ UNCHANGED <<fresh, want>>
        /\ \A s \in Threads \ {t} : pc'[s] = pc[s] /\ layer'[s] = layer[s]
    BY <1>7 DEF Fetched, GoTo
  <2> QED
    BY <1>7, <2>1 DEF Recent
<1>8. ASSUME NEW t \in Threads, UNCHANGED <<registry, fresh, want, layer>>, pc[t] # "idle",
             \E to \in {"unpack", "confirm"} : GoTo(t, to),
             pc[t] \in {"probe", "unpack"}
      PROVE  Recent'
  BY <1>8 DEF GoTo, Recent
<1>9. ASSUME NEW t \in Threads, Probe(t) PROVE Recent'
  BY <1>7, <1>8, <1>9 DEF Probe
<1>10. ASSUME NEW t \in Threads, Unpack(t) \/ ReadManifest(t) PROVE Recent'
  <2>1. UNCHANGED <<pc, want, layer, registry, fresh>>
    BY <1>10 DEF Unpack, ReadManifest
  <2> QED
    BY <2>1 DEF Recent
<1>11. ASSUME NEW t \in Threads, Publish(t) PROVE Recent'
  BY <1>2, <1>8, <1>11 DEF Publish
<1>12. ASSUME NEW t \in Threads, Confirm(t) PROVE Recent'
  BY <1>2, <1>7, <1>12 DEF Confirm
<1>13. ASSUME NEW t \in Threads, Dependencies(t) \/ FetchNext(t) \/ Resolved(t) PROVE Recent'
  <2>1. /\ UNCHANGED <<registry, fresh>> /\ pc[t] # "idle"
        /\ pc'[t] \in {"exec", "walk", "manifest"}
        /\ \A s \in Threads \ {t} : /\ pc'[s] = pc[s] /\ want'[s] = want[s]
                                    /\ layer'[s] = layer[s]
    BY <1>13 DEF Dependencies, FetchNext, Resolved, GoTo
  <2> QED
    BY <2>1 DEF Recent
<1>14. ASSUME NEW t \in Threads, Exec(t) \/ CallFails(t) PROVE Recent'
  BY <1>2, <1>14 DEF Exec, CallFails
<1>15. CASE UNCHANGED vars
  BY <1>15 DEF vars, render, Recent
<1> QED
  BY <1>1, <1>3, <1>4, <1>5, <1>6, <1>9, <1>10, <1>11, <1>12, <1>13, <1>14, <1>15
     DEF Next, Surroundings, Advance

\* A pull ends by handing back the layer that it asked for.
LEMMA PullEnds ==
  ASSUME Typed, Next, NEW t \in Threads, pc[t] \in {"probe", "confirm"},
         pc'[t] \in {"deps", "walk"}
  PROVE  layer'[t] = layer[t]
<1> USE DEF Typed, Places
<1>1. CASE Surroundings
  BY <1>1 DEF Surroundings, Republish, CallFails, Finish, GoTo, Crash, Wipe, WipeFile, render
<1>2. ASSUME NEW s \in Threads, Begin(s) \/ Advance(s) PROVE s = t
  BY <1>2 DEF Begin, Advance, FetchManifest, Probe, Unpack, Publish, Confirm, Dependencies,
              ReadManifest, FetchNext, Resolved, Exec, Fetched, Finish, GoTo
<1>3. CASE Probe(t) \/ Confirm(t)
  BY <1>3 DEF Probe, Confirm, CachedCopies, Fetched, Finish, GoTo
<1>4. ASSUME Begin(t) \/ Advance(t) PROVE Probe(t) \/ Confirm(t)
  BY <1>4 DEF Begin, Advance, FetchManifest, Unpack, Publish, Dependencies,
              ReadManifest, FetchNext, Resolved, Exec
<1> QED
  BY <1>1, <1>2, <1>3, <1>4 DEF Next

\* What a pull hands back is what the tag named at some moment since its render
\* began, whatever is republished meanwhile and whatever the cache held.
THEOREM PullsAreFresh == Spec => FreshPull
<1>1. Init => Recent
  BY DEF Init, Recent
<1>2. ASSUME Typed, Recent, [Next]_vars
      PROVE  [\A t \in Threads :
                pc[t] \in {"probe", "confirm"} /\ pc'[t] \in {"deps", "walk"}
                  => layer'[t] \in fresh[t][want[t]]]_vars
  <2> SUFFICES ASSUME NEW t \in Threads, pc[t] \in {"probe", "confirm"},
                      pc'[t] \in {"deps", "walk"}
               PROVE  layer'[t] \in fresh[t][want[t]]
    OBVIOUS
  <2>1. layer[t] \in fresh[t][want[t]]
    BY <1>2 DEF Recent
  <2>2. layer'[t] = layer[t]
    BY <1>2, PullEnds DEF vars, render
  <2> QED
    BY <2>1, <2>2
<1> QED
  BY <1>1, <1>2, InitTyped, NextTyped, RecentKeeps, PTL DEF Spec, FreshPull

(***************************************************************************)
(* A race is harmless.                                                     *)
(***************************************************************************)

Good(l) == cache[l] = Files
Resolves(k, packages) == \A r \in Needs[k] : Provides(packages, r)
\* A resolution with which package l compiles.
Complete(l, packages) == \A k \in {l} \cup packages : Good(k) /\ Resolves(k, packages)

Fetching == {"manifest", "probe", "unpack", "confirm"}
Walking(t) == pc[t] = "walk" \/ (pc[t] \in Fetching /\ root[t] # None)
Clean(t) == queue[t] = {} /\ visited[t] = {} /\ pending[t] = {} /\ found[t] = {}
\* A reference that a package read needs is resolved, or still to be fetched.
Owed(t, r) ==
  Provides(found[t], r) \/ r \in pending[t] \/ (pc[t] \in Fetching /\ r = want[t])

\* What a render relies on is whole and stays so, and its walk loses no reference.
OnItsWay(t) ==
  /\ result[t] # "failed"
  /\ pc[t] = "idle" => root[t] = None
  /\ pc[t] \in {"idle", "deps"} \/ (pc[t] \in Fetching /\ root[t] = None) => Clean(t)
  /\ pc[t] \in {"probe", "unpack", "confirm"} => RefOf[layer[t]] = want[t]
  /\ pc[t] = "confirm" => Good(layer[t])
  /\ root[t] # None => Good(root[t])
  /\ \A l \in queue[t] \cup visited[t] \cup found[t] : Good(l)
  /\ Walking(t) => {root[t]} \cup found[t] \subseteq queue[t] \cup visited[t]
  /\ Walking(t) => \A k \in visited[t] : \A r \in Needs[k] : Owed(t, r)
  /\ pc[t] = "exec" => Complete(root[t], found[t])

Remembered ==
  /\ \A p \in Procs, r \in Refs : pulled[p][r] # None => Good(pulled[p][r])
  /\ \A p \in Procs, l \in Layers : \A hit \in deps[p][l] : Complete(l, hit)

Surrounded ==
  /\ doomed = {} /\ \A l \in Layers : cache[l] = {} \/ cache[l] = Files
  /\ \A r \in Refs : RefOf[registry[r]] = r

Calm == faults = 0 /\ wipes = 0
Undisturbed == Surrounded /\ Remembered /\ \A t \in Threads : OnItsWay(t)

\* The rows of t, and of a thread that the step is not of.
Rest(s) ==
  /\ want'[s] = want[s] /\ layer'[s] = layer[s] /\ root'[s] = root[s]
  /\ queue'[s] = queue[s] /\ visited'[s] = visited[s] /\ pending'[s] = pending[s]
  /\ found'[s] = found[s] /\ result'[s] = result[s]
Untouched(s) == pc'[s] = pc[s] /\ Rest(s)
Kept == \A l \in Layers : Good(l) => Good(l)'

LEMMA CompleteKept ==
  ASSUME Kept, NEW l \in Layers, NEW packages, packages \subseteq Layers, Complete(l, packages)
  PROVE  Complete(l, packages)'
BY DEF Kept, Complete, Resolves

LEMMA OthersOnTheirWay ==
  ASSUME Typed, Kept, NEW s \in Threads, OnItsWay(s), Untouched(s)
  PROVE  OnItsWay(s)'
<1>1. /\ root[s] \in Layers \cup {None} /\ found[s] \subseteq Layers
      /\ queue[s] \cup visited[s] \cup found[s] \subseteq Layers
      /\ pc[s] = "confirm" => layer[s] \in Layers
      /\ pc[s] = "exec" => root[s] \in Layers
  BY DEF Typed, Places, Walks, Named
<1>2. /\ pc'[s] = pc[s] /\ want'[s] = want[s] /\ layer'[s] = layer[s] /\ root'[s] = root[s]
      /\ queue'[s] = queue[s] /\ visited'[s] = visited[s] /\ pending'[s] = pending[s]
      /\ found'[s] = found[s] /\ result'[s] = result[s]
  BY DEF Untouched, Rest
<1>3. /\ Walking(s)' <=> Walking(s)
      /\ \A r : Owed(s, r)' <=> Owed(s, r)
      /\ Clean(s)' <=> Clean(s)
  BY <1>2 DEF Walking, Owed, Clean, Fetching
<1>4. \A l \in queue'[s] \cup visited'[s] \cup found'[s] : Good(l)'
  BY <1>1, <1>2 DEF OnItsWay, Kept
<1>5. /\ root'[s] # None => Good(root[s])'
      /\ pc'[s] = "confirm" => Good(layer[s])'
  BY <1>1, <1>2 DEF OnItsWay, Kept
<1>6. pc'[s] = "exec" => Complete(root[s], found[s])'
  <2> SUFFICES ASSUME pc[s] = "exec" PROVE Complete(root[s], found[s])'
    BY <1>2
  <2>1. Complete(root[s], found[s]) /\ root[s] \in Layers
    BY <1>1 DEF OnItsWay
  <2>2. PICK l, packages : l = root[s] /\ packages = found[s]
    OBVIOUS
  <2>3. Complete(l, packages)'
    BY <1>1, <2>1, <2>2, CompleteKept
  <2> QED
    BY <1>2, <2>2, <2>3 DEF Complete, Resolves, Good
<1> QED
  BY <1>2, <1>3, <1>4, <1>5, <1>6 DEF OnItsWay, Fetching, Good

LEMMA OwnStep ==
  ASSUME Typed, Undisturbed, NEW t \in Threads, UNCHANGED <<registry, doomed>>, Kept,
         \A l \in Layers : cache'[l] = {} \/ cache'[l] = Files,
         Remembered', OnItsWay(t)', \A s \in Threads \ {t} : Untouched(s)
  PROVE  Undisturbed'
<1>1. \A s \in Threads : OnItsWay(s)'
  BY OthersOnTheirWay DEF Undisturbed
<1>2. Surrounded'
  BY DEF Undisturbed, Surrounded
<1> QED
  BY <1>1, <1>2 DEF Undisturbed

\* Most steps write no file and no memo.
LEMMA QuietStep ==
  ASSUME Typed, Undisturbed, NEW t \in Threads, UNCHANGED <<registry, doomed, cache>>,
         Remembered', OnItsWay(t)', \A s \in Threads \ {t} : Untouched(s)
  PROVE  Undisturbed'
<1>1. Kept /\ \A l \in Layers : cache'[l] = {} \/ cache'[l] = Files
  BY DEF Kept, Good, Undisturbed, Surrounded
<1> QED
  BY <1>1, OwnStep

LEMMA SameMemos == ASSUME Remembered, UNCHANGED <<pulled, deps, cache>> PROVE Remembered'
BY DEF Remembered, Complete, Good, Resolves

LEMMA FinishUndisturbed ==
  ASSUME Typed, Undisturbed, NEW t \in Threads, Finish(t, "ok"),
         UNCHANGED <<registry, cache, doomed, pulled, deps>>
  PROVE  Undisturbed'
<1>1. /\ pc'[t] = "idle" /\ result'[t] = "ok" /\ root'[t] = None
      /\ queue'[t] = {} /\ visited'[t] = {} /\ pending'[t] = {} /\ found'[t] = {}
  BY DEF Typed, Places, Walks, Finish, GoTo
<1>2. OnItsWay(t)'
  BY <1>1 DEF OnItsWay, Clean, Walking, Fetching
<1>3. \A s \in Threads \ {t} : Untouched(s)
  BY DEF Typed, Places, Walks, Finish, GoTo, Untouched, Rest
<1> QED
  BY <1>2, <1>3, QuietStep, SameMemos DEF Undisturbed

LEMMA BeginUndisturbed ==
  ASSUME Typed, Undisturbed, NEW t \in Threads, Begin(t) PROVE Undisturbed'
<1>1. PICK r \in Entries :
        /\ want' = [want EXCEPT ![t] = r]
        /\ \/ /\ GoTo(t, "deps") /\ UNCHANGED pulled
              /\ root' = [root EXCEPT ![t] = pulled[Home[t]][r]]
              /\ pulled[Home[t]][r] # None
           \/ /\ GoTo(t, "manifest") /\ UNCHANGED root
              /\ pulled' = [pulled EXCEPT ![Home[t]][r] = None]
  BY DEF Begin
<1>2. /\ pc[t] = "idle" /\ UNCHANGED <<registry, doomed, cache, deps, layer, queue, visited,
                                       pending, found>>
      /\ result' = [result EXCEPT ![t] = "none"]
  BY DEF Begin
<1>3. Home[t] \in Procs /\ r \in Refs
  BY CacheAssumption
<1>4. root[t] = None /\ Clean(t)
  BY <1>2 DEF Undisturbed, OnItsWay
<1>5. Clean(t)' /\ result'[t] = "none"
  BY <1>2, <1>4 DEF Clean, Typed, Places
<1>6. \/ pc'[t] = "deps" /\ root'[t] = pulled[Home[t]][r] /\ root'[t] # None
      \/ pc'[t] = "manifest" /\ root'[t] = None
  BY <1>1, <1>4 DEF Typed, Places, GoTo
<1>7. root'[t] # None => Good(root'[t])
  BY <1>3, <1>6 DEF Undisturbed, Remembered
<1>8. OnItsWay(t)'
  BY <1>2, <1>5, <1>6, <1>7 DEF OnItsWay, Clean, Walking, Fetching, Good
<1>9. \A s \in Threads \ {t} : Untouched(s)
  BY <1>1, <1>2 DEF Typed, Places, GoTo, Untouched, Rest
<1>10. Remembered'
  <2>1. ASSUME NEW p \in Procs, NEW q \in Refs, pulled'[p][q] # None
        PROVE  pulled'[p][q] = pulled[p][q]
    <3>1. CASE UNCHANGED pulled
      BY <3>1
    <3>2. CASE pulled' = [pulled EXCEPT ![Home[t]][r] = None]
      BY <1>3, <2>1, <3>2 DEF Typed, Memos
    <3> QED
      BY <1>1, <3>1, <3>2
  <2> QED
    BY <1>2, <2>1 DEF Undisturbed, Remembered, Complete, Resolves, Good
<1> QED
  BY <1>2, <1>8, <1>9, <1>10, QuietStep

LEMMA FetchManifestUndisturbed ==
  ASSUME Typed, Undisturbed, NEW t \in Threads, FetchManifest(t) PROVE Undisturbed'
<1>1. /\ pc[t] = "manifest" /\ pc'[t] = "probe" /\ layer'[t] = registry[want[t]]
      /\ UNCHANGED <<registry, cache, doomed, pulled, deps, want, root, queue, visited, pending,
                     found, result>>
      /\ \A s \in Threads \ {t} : pc'[s] = pc[s] /\ layer'[s] = layer[s]
  BY DEF FetchManifest, GoTo, Typed, Places
<1>2. want[t] \in Refs
  BY <1>1 DEF Typed, Named
<1>3. RefOf[layer'[t]] = want'[t]
  BY <1>1, <1>2 DEF Undisturbed, Surrounded
<1>4. OnItsWay(t)'
  BY <1>1, <1>3 DEF Undisturbed, OnItsWay, Clean, Walking, Fetching, Good, Owed
<1>5. \A s \in Threads \ {t} : Untouched(s)
  BY <1>1 DEF Untouched, Rest
<1> QED
  BY <1>1, <1>4, <1>5, QuietStep, SameMemos DEF Undisturbed

\* A copy is at hand: the entry's walk may begin, or a dependency is resolved.
LEMMA FetchedUndisturbed ==
  ASSUME Typed, Undisturbed, NEW t \in Threads, pc[t] \in {"probe", "confirm"},
         NEW l \in Layers, l = layer[t], Good(l), Fetched(t, l),
         UNCHANGED <<registry, cache, doomed, deps>>
  PROVE  Undisturbed'
<1>1. /\ OnItsWay(t) /\ RefOf[l] = want[t] /\ want[t] \in Refs /\ Home[t] \in Procs
      /\ l # None /\ UNCHANGED <<want, visited, pending, result>>
  BY CacheAssumption DEF Undisturbed, OnItsWay, Typed, Named, Fetched
<1>2. \A s \in Threads \ {t} : Untouched(s)
  BY DEF Typed, Places, Walks, Fetched, GoTo, Untouched, Rest
<1>3. CASE root[t] = None
  <2>1. /\ pulled' = [pulled EXCEPT ![Home[t]][want[t]] = l]
        /\ root'[t] = l /\ pc'[t] = "deps" /\ UNCHANGED <<queue, found>>
    BY <1>3 DEF Fetched, Remember, GoTo, Typed, Places
  <2>2. Clean(t)'
    BY <1>1, <1>3, <2>1 DEF OnItsWay, Clean, Fetching
  <2>3. OnItsWay(t)'
    BY <1>1, <2>1, <2>2 DEF OnItsWay, Clean, Walking, Fetching, Good
  <2>4. Remembered'
    <3>1. ASSUME NEW p \in Procs, NEW q \in Refs
          PROVE  pulled'[p][q] = pulled[p][q] \/ pulled'[p][q] = l
      BY <1>1, <2>1 DEF Typed, Memos
    <3> QED
      BY <3>1 DEF Undisturbed, Remembered, Complete, Resolves, Good
  <2> QED
    BY <1>2, <2>3, <2>4, QuietStep
<1>4. CASE root[t] # None
  <2>1. /\ queue'[t] = queue[t] \cup ({l} \ visited[t])
        /\ \/ found'[t] = found[t] /\ Provides(found[t], want[t])
           \/ found'[t] = found[t] \cup {l}
        /\ pc'[t] = "walk" /\ UNCHANGED <<pulled, root>>
    BY <1>4 DEF Fetched, GoTo, Typed, Places, Walks
  <2>2. Walking(t)
    BY <1>4 DEF Walking, Fetching
  <2>3. \A r : Owed(t, r) => Owed(t, r)'
    BY <1>1, <2>1 DEF Owed, Provides
  <2>4. {root'[t]} \cup found'[t] \subseteq queue'[t] \cup visited'[t]
    BY <1>1, <2>1, <2>2 DEF OnItsWay
  <2>5. \A k \in visited'[t] : \A r \in Needs[k] : Owed(t, r)'
    BY <1>1, <2>2, <2>3 DEF OnItsWay
  <2>6. \A k \in queue'[t] \cup visited'[t] \cup found'[t] : Good(k)
    BY <1>1, <2>1 DEF OnItsWay
  <2>7. OnItsWay(t)'
    BY <1>1, <2>1, <2>4, <2>5, <2>6 DEF OnItsWay, Fetching, Good
  <2> QED
    BY <1>2, <2>1, <2>7, QuietStep, SameMemos DEF Undisturbed
<1> QED
  BY <1>3, <1>4

LEMMA ProbeUndisturbed ==
  ASSUME Typed, Undisturbed, NEW t \in Threads, Probe(t) PROVE Undisturbed'
<1>1. pc[t] = "probe" /\ UNCHANGED <<registry, cache, doomed, deps>> /\ layer[t] \in Layers
  BY DEF Probe, Typed, Named
<1>2. CASE \E l \in CachedCopies(t) : Fetched(t, l)
  <2>1. PICK l \in CachedCopies(t) : Fetched(t, l)
    BY <1>2
  <2>2. l = layer[t] /\ Good(l)
    BY <1>1 DEF CachedCopies, HasRoot, Undisturbed, Surrounded, Good
  <2> QED
    BY <1>1, <2>1, <2>2, FetchedUndisturbed
<1>3. CASE GoTo(t, "unpack") /\ UNCHANGED <<pulled, want, layer, staged, root, queue, visited,
                                            pending, found, result, fresh>>
  <2>1. pc'[t] = "unpack" /\ \A s \in Threads \ {t} : Untouched(s)
    BY <1>3 DEF Typed, Places, GoTo, Untouched, Rest
  <2>2. OnItsWay(t)'
    BY <1>1, <1>3, <2>1 DEF Undisturbed, OnItsWay, Clean, Walking, Fetching, Good, Owed
  <2> QED
    BY <1>1, <1>3, <2>1, <2>2, QuietStep, SameMemos DEF Undisturbed
<1> QED
  BY <1>2, <1>3 DEF Probe

LEMMA UnpackUndisturbed ==
  ASSUME Typed, Undisturbed, NEW t \in Threads, Unpack(t) PROVE Undisturbed'
<1>1. UNCHANGED <<registry, cache, doomed, pulled, deps, pc, want, layer, root, queue,
                  visited, pending, found, result>>
  BY DEF Unpack
<1>2. Kept /\ \A s \in Threads : Untouched(s)
  BY <1>1 DEF Kept, Good, Untouched, Rest
<1>3. OnItsWay(t)'
  BY <1>2, OthersOnTheirWay DEF Undisturbed
<1> QED
  BY <1>1, <1>2, <1>3, QuietStep, SameMemos DEF Undisturbed

\* The loser of the race finds what the winner has published.
LEMMA PublishUndisturbed ==
  ASSUME Typed, Undisturbed, NEW t \in Threads, Publish(t) PROVE Undisturbed'
<1>1. /\ pc[t] = "unpack" /\ staged[t] = Files /\ layer[t] \in Layers
      /\ UNCHANGED <<registry, doomed, pulled, deps>>
      /\ Manifest \in Files
  BY CacheAssumption DEF Publish, Typed, Named
<1>2. ~(Exists(layer[t]) /\ ~HasRoot(layer[t]))
  BY <1>1 DEF Exists, HasRoot, Undisturbed, Surrounded
<1>3. /\ cache' = [cache EXCEPT ![layer[t]] = IF @ = {} THEN staged[t] ELSE @]
      /\ GoTo(t, "confirm")
      /\ UNCHANGED <<want, layer, staged, root, queue, visited, pending, found, result>>
  BY <1>2 DEF Publish
<1>4. /\ cache'[layer[t]] = Files
      /\ \A l \in Layers : cache'[l] = cache[l] \/ cache'[l] = Files
  BY <1>1, <1>3 DEF Typed, Stores, Undisturbed, Surrounded
<1>5. Kept /\ \A l \in Layers : cache'[l] = {} \/ cache'[l] = Files
  BY <1>4 DEF Kept, Good, Undisturbed, Surrounded
<1>6. Remembered'
  <2>1. ASSUME NEW p \in Procs, NEW r \in Refs, pulled[p][r] # None PROVE Good(pulled[p][r])'
    BY <1>1, <1>5, <2>1 DEF Undisturbed, Remembered, Typed, Memos, Kept, Good
  <2>2. ASSUME NEW p \in Procs, NEW l \in Layers, NEW hit \in deps[p][l] PROVE Complete(l, hit)'
    BY <1>5, CompleteKept DEF Undisturbed, Remembered, Typed, Memos
  <2> QED
    BY <1>1, <2>1, <2>2 DEF Remembered, Complete, Resolves, Good
<1>7. pc'[t] = "confirm" /\ \A s \in Threads \ {t} : Untouched(s)
  BY <1>3 DEF Typed, Places, GoTo, Untouched, Rest
<1>8. OnItsWay(t)'
  <2>1. /\ root[t] \in Layers \cup {None}
        /\ queue[t] \cup visited[t] \cup found[t] \subseteq Layers
    BY DEF Typed, Places, Walks
  <2>2. /\ \A l \in queue[t] \cup visited[t] \cup found[t] : Good(l)'
        /\ root[t] # None => Good(root[t])'
    BY <1>3, <1>5, <2>1 DEF Undisturbed, OnItsWay, Kept, Good
  <2> QED
    BY <1>1, <1>3, <1>4, <1>7, <2>2
       DEF Undisturbed, OnItsWay, Clean, Walking, Fetching, Good, Owed
<1> QED
  BY <1>1, <1>5, <1>6, <1>7, <1>8, OwnStep

LEMMA ConfirmUndisturbed ==
  ASSUME Typed, Undisturbed, NEW t \in Threads, Confirm(t) PROVE Undisturbed'
<1>1. /\ pc[t] = "confirm" /\ layer[t] \in Layers /\ Good(layer[t]) /\ Manifest \in Files
      /\ UNCHANGED <<registry, cache, doomed, deps>>
  BY CacheAssumption DEF Confirm, Typed, Named, Undisturbed, OnItsWay
<1>2. Fetched(t, layer[t])
  BY <1>1 DEF Confirm, HasRoot, Good
<1> QED
  BY <1>1, <1>2, FetchedUndisturbed

LEMMA DependenciesUndisturbed ==
  ASSUME Typed, Undisturbed, NEW t \in Threads, Dependencies(t) PROVE Undisturbed'
<1>1. /\ pc[t] = "deps" /\ Clean(t) /\ root[t] \in Layers /\ Home[t] \in Procs
      /\ root[t] # None /\ Good(root[t]) /\ OnItsWay(t)
      /\ UNCHANGED <<registry, cache, doomed, pulled, root, visited, pending, result>>
      /\ want' = [want EXCEPT ![t] = None] /\ layer' = [layer EXCEPT ![t] = None]
  BY CacheAssumption DEF Dependencies, Undisturbed, OnItsWay, Typed, Named
<1>2. \A s \in Threads \ {t} : Untouched(s)
  BY DEF Dependencies, Typed, Places, Walks, GoTo, Untouched, Rest
<1>3. ASSUME NEW hit \in deps[Home[t]][root[t]], found' = [found EXCEPT ![t] = hit],
             GoTo(t, "exec"), UNCHANGED <<deps, queue>>
      PROVE  Undisturbed'
  <2>1. Complete(root[t], hit)
    BY <1>1 DEF Undisturbed, Remembered
  <2>2. pc'[t] = "exec" /\ found'[t] = hit
    BY <1>3 DEF Typed, Places, Walks, GoTo
  <2>3. OnItsWay(t)'
    <3>1. \A l \in queue'[t] \cup visited'[t] \cup found'[t] : Good(l)
      BY <1>1, <1>3, <2>1, <2>2 DEF Clean, Complete
    <3>2. Complete(root[t], hit)'
      BY <1>1, <2>1 DEF Complete, Good, Resolves
    <3> QED
      BY <1>1, <2>2, <3>1, <3>2 DEF OnItsWay, Walking, Fetching, Good, Complete, Resolves
  <2> QED
    BY <1>1, <1>2, <1>3, <2>3, QuietStep, SameMemos DEF Undisturbed
<1>4. CASE /\ deps' = [deps EXCEPT ![Home[t]][root[t]] = {}]
           /\ queue' = [queue EXCEPT ![t] = {root[t]}]
           /\ GoTo(t, "walk") /\ UNCHANGED found
  <2>1. pc'[t] = "walk" /\ queue'[t] = {root[t]} /\ found'[t] = {} /\ visited'[t] = {}
    BY <1>1, <1>4 DEF Typed, Places, Walks, GoTo, Clean
  <2>2. OnItsWay(t)'
    BY <1>1, <2>1 DEF OnItsWay, Clean, Walking, Fetching, Good
  <2>3. Remembered'
    <3>1. ASSUME NEW p \in Procs, NEW l \in Layers, NEW hit \in deps'[p][l]
          PROVE  hit \in deps[p][l]
      BY <1>1, <1>4 DEF Typed, Memos
    <3> QED
      BY <1>1, <3>1 DEF Undisturbed, Remembered, Complete, Resolves, Good
  <2> QED
    BY <1>1, <1>2, <2>2, <2>3, QuietStep
<1> QED
  BY <1>3, <1>4 DEF Dependencies

LEMMA ReadManifestUndisturbed ==
  ASSUME Typed, Undisturbed, NEW t \in Threads, ReadManifest(t) PROVE Undisturbed'
<1>1. PICK l \in queue[t] :
        /\ queue' = [queue EXCEPT ![t] = @ \ {l}]
        /\ visited' = [visited EXCEPT ![t] = @ \cup {l}]
        /\ pending' = [pending EXCEPT ![t] = IF HasRoot(l) THEN Needs[l] ELSE {}]
  BY DEF ReadManifest
<1>2. /\ pc[t] = "walk" /\ pending[t] = {} /\ OnItsWay(t)
      /\ UNCHANGED <<registry, cache, doomed, pulled, deps, pc, want, layer, root, found, result>>
  BY DEF ReadManifest, Undisturbed
<1>3. HasRoot(l)
  BY <1>2, CacheAssumption DEF OnItsWay, Good, HasRoot
<1>4. /\ queue'[t] = queue[t] \ {l} /\ visited'[t] = visited[t] \cup {l}
      /\ pending'[t] = Needs[l]
  BY <1>1, <1>3 DEF Typed, Walks
<1>5. \A s \in Threads \ {t} : Untouched(s)
  BY <1>1, <1>2 DEF Typed, Walks, Untouched, Rest
<1>6. \A k \in visited'[t] : \A r \in Needs[k] : Owed(t, r)'
  <2> SUFFICES ASSUME NEW k \in visited'[t], NEW r \in Needs[k] PROVE Owed(t, r)'
    OBVIOUS
  <2>1. CASE k = l
    BY <1>4, <2>1 DEF Owed
  <2>2. CASE k \in visited[t]
    <3>1. Owed(t, r)
      BY <1>2, <2>2 DEF OnItsWay, Walking
    <3> QED
      BY <1>2, <3>1 DEF Owed, Fetching
  <2> QED
    BY <1>4, <2>1, <2>2
<1>7. OnItsWay(t)'
  <2>1. {root'[t]} \cup found'[t] \subseteq queue'[t] \cup visited'[t]
    BY <1>2, <1>4 DEF OnItsWay, Walking
  <2>2. \A k \in queue'[t] \cup visited'[t] \cup found'[t] : Good(k)
    BY <1>2, <1>4 DEF OnItsWay
  <2> QED
    BY <1>2, <1>6, <2>1, <2>2 DEF OnItsWay, Fetching, Good, Walking
<1> QED
  BY <1>2, <1>5, <1>7, QuietStep, SameMemos DEF Undisturbed

LEMMA FetchNextUndisturbed ==
  ASSUME Typed, Undisturbed, NEW t \in Threads, FetchNext(t) PROVE Undisturbed'
<1>1. PICK r \in pending[t] : /\ want' = [want EXCEPT ![t] = r]
                              /\ pending' = [pending EXCEPT ![t] = @ \ {r}]
  BY DEF FetchNext
<1>2. /\ pc[t] = "walk" /\ OnItsWay(t) /\ root[t] \in Layers /\ root[t] # None
      /\ UNCHANGED <<registry, cache, doomed, pulled, deps, layer, root, queue, visited,
                     found, result>>
  BY CacheAssumption DEF FetchNext, Undisturbed, Typed, Named
<1>3. pc'[t] = "manifest" /\ want'[t] = r /\ pending'[t] = pending[t] \ {r}
  BY <1>1 DEF FetchNext, GoTo, Typed, Places, Walks
<1>4. \A s \in Threads \ {t} : Untouched(s)
  BY <1>1, <1>2 DEF FetchNext, GoTo, Typed, Places, Walks, Untouched, Rest
<1>5. \A q : Owed(t, q) => Owed(t, q)'
  BY <1>2, <1>3 DEF Owed, Fetching
<1>6. OnItsWay(t)'
  <2>1. \A k \in visited'[t] : \A q \in Needs[k] : Owed(t, q)'
    BY <1>2, <1>5 DEF OnItsWay, Walking
  <2> QED
    BY <1>2, <1>3, <2>1 DEF OnItsWay, Fetching, Good, Walking
<1> QED
  BY <1>2, <1>4, <1>6, QuietStep, SameMemos DEF Undisturbed

\* The walk leaves nothing unresolved.
LEMMA ResolvedUndisturbed ==
  ASSUME Typed, Undisturbed, NEW t \in Threads, Resolved(t) PROVE Undisturbed'
<1>1. /\ pc[t] = "walk" /\ pending[t] = {} /\ queue[t] = {} /\ OnItsWay(t)
      /\ root[t] \in Layers /\ root[t] # None /\ Home[t] \in Procs
      /\ deps' = [deps EXCEPT ![Home[t]][root[t]] = {found[t]}]
      /\ UNCHANGED <<registry, cache, doomed, pulled, root, queue, pending, found, result>>
  BY CacheAssumption DEF Resolved, Undisturbed, Typed, Named
<1>2. pc'[t] = "exec" /\ visited'[t] = {}
  BY DEF Resolved, GoTo, Typed, Places, Walks
<1>3. \A s \in Threads \ {t} : Untouched(s)
  BY <1>1 DEF Resolved, GoTo, Typed, Places, Walks, Untouched, Rest
<1>4. Complete(root[t], found[t])
  <2> SUFFICES ASSUME NEW k \in {root[t]} \cup found[t]
               PROVE  Good(k) /\ Resolves(k, found[t])
    BY DEF Complete
  <2>1. k \in visited[t]
    BY <1>1 DEF OnItsWay, Walking
  <2>2. ASSUME NEW r \in Needs[k] PROVE Provides(found[t], r)
    <3>1. Owed(t, r)
      BY <1>1, <2>1 DEF OnItsWay, Walking
    <3> QED
      BY <1>1, <3>1 DEF Owed, Fetching
  <2> QED
    BY <1>1, <2>1, <2>2 DEF OnItsWay, Resolves
<1>5. OnItsWay(t)'
  BY <1>1, <1>2, <1>4 DEF OnItsWay, Walking, Fetching, Good, Complete, Resolves
<1>6. Remembered'
  <2>1. ASSUME NEW p \in Procs, NEW l \in Layers, NEW hit \in deps'[p][l]
        PROVE  hit \in deps[p][l] \/ (l = root[t] /\ hit = found[t])
    BY <1>1 DEF Typed, Memos
  <2>2. ASSUME NEW p \in Procs, NEW l \in Layers, NEW hit \in deps'[p][l] PROVE Complete(l, hit)
    BY <1>4, <2>1 DEF Undisturbed, Remembered
  <2> QED
    BY <1>1, <2>2 DEF Undisturbed, Remembered, Complete, Resolves, Good
<1> QED
  BY <1>1, <1>3, <1>5, <1>6, QuietStep

LEMMA ExecUndisturbed ==
  ASSUME Typed, Undisturbed, NEW t \in Threads, Exec(t) PROVE Undisturbed'
<1>1. Complete(root[t], found[t])
  BY DEF Exec, Undisturbed, OnItsWay
<1>2. Compiles(t)
  BY <1>1 DEF Compiles, Complete, Good, Resolves
<1> QED
  BY <1>2, FinishUndisturbed DEF Exec

LEMMA RepublishUndisturbed ==
  ASSUME Typed, Undisturbed, NEW r \in Refs, Republish(r) PROVE Undisturbed'
<1>1. PICK l \in Layers : RefOf[l] = r /\ registry' = [registry EXCEPT ![r] = l]
  BY DEF Republish
<1>2. UNCHANGED <<cache, doomed, pulled, deps, pc, want, layer, root, queue, visited, pending,
                  found, result>>
  BY DEF Republish
<1>3. Surrounded'
  BY <1>1, <1>2 DEF Undisturbed, Surrounded, Typed, Stores
<1>4. Kept /\ \A s \in Threads : Untouched(s)
  BY <1>2 DEF Kept, Good, Untouched, Rest
<1>5. \A s \in Threads : OnItsWay(s)'
  BY <1>4, OthersOnTheirWay DEF Undisturbed
<1> QED
  BY <1>2, <1>3, <1>5, SameMemos DEF Undisturbed

LEMMA StepUndisturbed ==
  ASSUME Typed, Calm => Undisturbed, [Next]_vars, Calm' PROVE Undisturbed'
<1>1. Calm /\ Undisturbed
  <2>1. faults \in Nat /\ wipes \in Nat
    BY CacheAssumption DEF Typed, Stores
  <2>2. /\ faults' = faults \/ faults' = faults + 1
        /\ wipes' = wipes \/ wipes' = wipes + 1
    BY DEF Next, Surroundings, Republish, CallFails, Crash, Wipe, WipeFile, Begin, Advance,
           FetchManifest, Probe, Unpack, Publish, Confirm, Dependencies, ReadManifest,
           FetchNext, Resolved, Exec, budgets, vars
  <2> QED
    BY <2>1, <2>2 DEF Calm
<1>2. CASE Surroundings
  <2>1. ASSUME NEW t \in Threads PROVE ~CallFails(t)
    BY <1>1 DEF CallFails, Calm
  <2>2. ASSUME NEW p \in Procs PROVE ~Crash(p)
    BY <1>1 DEF Crash, Calm
  <2>3. ~Wipe /\ ~WipeFile
    BY <1>1 DEF Wipe, WipeFile, Calm, Undisturbed, Surrounded
  <2> QED
    BY <1>1, <1>2, <2>1, <2>2, <2>3, RepublishUndisturbed DEF Surroundings
<1>3. ASSUME NEW t \in Threads, Begin(t) \/ Advance(t) PROVE Undisturbed'
  BY <1>1, <1>3, BeginUndisturbed, FetchManifestUndisturbed, ProbeUndisturbed, UnpackUndisturbed,
     PublishUndisturbed, ConfirmUndisturbed, DependenciesUndisturbed, ReadManifestUndisturbed,
     FetchNextUndisturbed, ResolvedUndisturbed, ExecUndisturbed DEF Advance
<1>4. CASE UNCHANGED vars
  <2>1. Kept /\ \A s \in Threads : Untouched(s)
    BY <1>4 DEF vars, render, Kept, Good, Untouched, Rest
  <2>2. \A s \in Threads : OnItsWay(s)'
    BY <1>1, <2>1, OthersOnTheirWay DEF Undisturbed
  <2>3. Surrounded' /\ Remembered'
    BY <1>1, <1>4, SameMemos DEF vars, Undisturbed, Surrounded
  <2> QED
    BY <2>2, <2>3 DEF Undisturbed
<1> QED
  BY <1>2, <1>3, <1>4 DEF Next

\* No render fails because of another one, of its process or not: until a call
\* fails, a process dies or the cache is wiped, each of them succeeds, whatever
\* is published in the middle of it.
THEOREM RacesAreHarmless == Spec => []RaceIsHarmless
<1>1. Init => (Calm => Undisturbed)
  <2> SUFFICES ASSUME Init PROVE Undisturbed
    OBVIOUS
  <2>1. ASSUME NEW t \in Threads PROVE OnItsWay(t)
    BY DEF Init, OnItsWay, Clean, Walking, Fetching
  <2> QED
    BY <2>1 DEF Init, Undisturbed, Surrounded, Remembered
<1>2. (Calm => Undisturbed) => RaceIsHarmless
  BY DEF Calm, Undisturbed, OnItsWay, RaceIsHarmless
<1>3. Typed /\ (Calm => Undisturbed) /\ [Next]_vars => (Calm => Undisturbed)'
  BY StepUndisturbed
<1> QED
  BY <1>1, <1>2, <1>3, InitTyped, NextTyped, PTL DEF Spec
=============================================================================
