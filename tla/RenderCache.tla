----------------------------- MODULE RenderCache -----------------------------
(***************************************************************************)
(* How rust/crates/kcl-render gets the packages of a render: the engine's  *)
(* two memos (engine.rs: `pulled` and `deps`), the resolver's pull and its *)
(* walk of kcl.mod (deps.rs), and the cache directory that threads and     *)
(* processes share, with staging directories published by rename.          *)
(*                                                                         *)
(* A render is one of the operator, of the composition function or of the  *)
(* CLI.  Every file written and every call to the registry is a step, so   *)
(* other renders, a republished tag, a crash of a process and an `rm -rf`  *)
(* of the cache come in between.                                           *)
(*                                                                         *)
(* A layer stands for the directory <repo>/<tag>/<digest> it is unpacked   *)
(* into: content that two tags share is two layers.  Staging directories   *)
(* are named after process id and pull, so each belongs to one thread; what *)
(* a crash leaves in one is never looked at again.                         *)
(***************************************************************************)
EXTENDS Integers, FiniteSets

CONSTANTS
  Procs, Threads,
  Home,        \* Home[t]: the process thread t belongs to
  Refs,        \* package references: <url>@<tag>
  Entries,     \* the references that callers render
  Layers,
  RefOf,       \* RefOf[l]: the reference that layer l is published under
  NameOf,      \* NameOf[r]: the name a dependency on r is imported under
  Needs,       \* Needs[l]: the references in [dependencies] of its kcl.mod
  Files,       \* the files of a package
  Manifest,    \* kcl.mod, the one a cache hit looks for
  None,        \* no layer, no reference
  Resting,     \* TRUE: the cache is wiped only while nothing renders
  MaxMoves,    \* bound: republished tags
  MaxFaults,   \* bound: failed calls and crashes
  MaxWipes     \* bound: wipes of the cache

ASSUME CacheAssumption ==
  /\ Home \in [Threads -> Procs] /\ Entries \subseteq Refs
  /\ RefOf \in [Layers -> Refs] /\ \A r \in Refs : \E l \in Layers : RefOf[l] = r
  /\ Needs \in [Layers -> SUBSET Refs]
  /\ Manifest \in Files
  /\ None \notin Layers /\ None \notin Refs
  /\ Resting \in BOOLEAN
  /\ MaxMoves \in Nat /\ MaxFaults \in Nat /\ MaxWipes \in Nat

VARIABLES
  registry, \* registry[r]: the layer that reference r names now
  cache,    \* cache[l]: the files in the directory of l
  doomed,   \* directories a running rm -rf has listed and not yet removed
  pulled,   \* pulled[p][r]: the package process p remembers for r
  deps,     \* deps[p][l]: the resolution it remembers for package l, if any:
            \* a set of none or one
  pc,       \* pc[t]: where the render of t stands
  want,     \* want[t]: the reference being fetched
  layer,    \* layer[t]: the layer its manifest named
  staged,   \* staged[t]: the files unpacked so far
  root,     \* root[t]: the package being rendered
  queue,    \* queue[t]: packages whose kcl.mod is still to be read
  visited,  \* visited[t]: packages whose kcl.mod has been read
  pending,  \* pending[t]: references of the module at hand still to fetch
  found,    \* found[t]: the dependencies resolved, one per name
  result,   \* result[t]: how the last render of t ended
  fresh,    \* fresh[t][r]: what r has named since the render began (history)
  moves, faults, wipes

render  == <<pc, want, layer, staged, root, queue, visited, pending, found,
             result, fresh>>
budgets == <<moves, faults, wipes>>
vars == <<registry, cache, doomed, pulled, deps, render, budgets>>

-----------------------------------------------------------------------------
(* The cache directory.                                                    *)

Exists(l) == cache[l] # {}
HasRoot(l) == Manifest \in cache[l]   \* module_root(dir) finds a kcl.mod

\* A memo entry is good while what it names is still on disk.
UsableAlways(l) == TRUE
Usable(l) == Exists(l)

\* The copies of the layer at hand that make a pull a cache hit.
CachedByTag(t)  == {l \in Layers : RefOf[l] = want[t] /\ HasRoot(l)}
CachedCopies(t) == {l \in {layer[t]} : HasRoot(l)}

-----------------------------------------------------------------------------
(* One render of thread t.                                                 *)

GoTo(t, label) == pc' = [pc EXCEPT ![t] = label]

\* The render is over: its locals are dropped.
Finish(t, outcome) ==
  /\ GoTo(t, "idle")
  /\ result' = [result EXCEPT ![t] = outcome]
  /\ want' = [want EXCEPT ![t] = None]
  /\ layer' = [layer EXCEPT ![t] = None]
  /\ staged' = [staged EXCEPT ![t] = {}]
  /\ root' = [root EXCEPT ![t] = None]
  /\ queue' = [queue EXCEPT ![t] = {}]
  /\ visited' = [visited EXCEPT ![t] = {}]
  /\ pending' = [pending EXCEPT ![t] = {}]
  /\ found' = [found EXCEPT ![t] = {}]
  /\ fresh' = [fresh EXCEPT ![t] = [r \in Refs |-> {}]]

\* Engine::entry: a remembered package serves without asking the registry.
Begin(t) ==
  /\ pc[t] = "idle"
  /\ Resting => doomed = {}
  /\ \E r \in Entries :
       LET hit == pulled[Home[t]][r] IN
         /\ want' = [want EXCEPT ![t] = r]
         /\ IF hit # None /\ Usable(hit)
            THEN /\ GoTo(t, "deps")
                 /\ root' = [root EXCEPT ![t] = hit]
                 /\ UNCHANGED pulled
            ELSE /\ GoTo(t, "manifest")
                 /\ pulled' = [pulled EXCEPT ![Home[t]][r] = None]
                 /\ UNCHANGED root
  /\ result' = [result EXCEPT ![t] = "none"]
  /\ fresh' = [fresh EXCEPT ![t] = [r \in Refs |-> {registry[r]}]]
  /\ UNCHANGED <<registry, cache, doomed, deps, layer, staged, queue, visited,
                 pending, found, budgets>>

\* pull_image_manifest: what the tag names now.
FetchManifest(t) ==
  /\ pc[t] = "manifest"
  /\ layer' = [layer EXCEPT ![t] = registry[want[t]]]
  /\ GoTo(t, "probe")
  /\ UNCHANGED <<registry, cache, doomed, pulled, deps, want, staged, root, queue,
                 visited, pending, found, result, fresh, budgets>>

\* fetch() returns the directory of l.  For the entry it is remembered under
\* url@tag; for a dependency it is queued, and listed unless its name was
\* resolved before, be it to another tag.
Remember(p, r, l)    == pulled' = [pulled EXCEPT ![p][r] = l]

Provides(packages, r) == \E k \in packages : NameOf[RefOf[k]] = NameOf[r]

Fetched(t, l) ==
  /\ layer' = [layer EXCEPT ![t] = l]
  /\ staged' = [staged EXCEPT ![t] = {}]
  /\ IF root[t] = None
     THEN /\ Remember(Home[t], want[t], l)
          /\ root' = [root EXCEPT ![t] = l]
          /\ GoTo(t, "deps")
          /\ UNCHANGED <<queue, found>>
     ELSE /\ queue' = [queue EXCEPT ![t] = @ \cup ({l} \ visited[t])]
          /\ found' = [found EXCEPT
                         ![t] = IF Provides(@, want[t])
                                THEN @ ELSE @ \cup {l}]
          /\ GoTo(t, "walk")
          /\ UNCHANGED <<pulled, root>>
  /\ UNCHANGED <<want, visited, pending, result, fresh>>

\* A directory with a kcl.mod is a hit; otherwise the blob is downloaded and
\* verified, and unpacking starts in a new staging directory.
Probe(t) ==
  /\ pc[t] = "probe"
  /\ IF CachedCopies(t) # {}
     THEN \E l \in CachedCopies(t) : Fetched(t, l)
     ELSE /\ GoTo(t, "unpack")
          /\ UNCHANGED <<pulled, want, layer, staged, root, queue, visited,
                         pending, found, result, fresh>>
  /\ UNCHANGED <<registry, cache, doomed, deps, budgets>>

\* The tarball's order of files is the publisher's.
UnpackInPlace(t) ==
  /\ pc[t] = "unpack"
  /\ \E f \in Files \ staged[t] :
       /\ staged' = [staged EXCEPT ![t] = @ \cup {f}]
       /\ cache' = [cache EXCEPT ![layer[t]] = @ \cup {f}]
  /\ UNCHANGED <<registry, doomed, pulled, deps, pc, want, layer, root, queue,
                 visited, pending, found, result, fresh, budgets>>
Unpack(t) ==
  /\ pc[t] = "unpack"
  /\ \E f \in Files \ staged[t] : staged' = [staged EXCEPT ![t] = @ \cup {f}]
  /\ UNCHANGED <<registry, cache, doomed, pulled, deps, pc, want, layer, root,
                 queue, visited, pending, found, result, fresh, budgets>>

\* rename(staging, dir) replaces nothing, or an empty directory.  When it
\* fails, a complete directory means that another pull won the race.
PublishOrFail(t) ==
  /\ pc[t] = "unpack" /\ staged[t] = Files
  /\ IF ~Exists(layer[t])
     THEN /\ cache' = [cache EXCEPT ![layer[t]] = staged[t]]
          /\ GoTo(t, "confirm")
          /\ UNCHANGED <<want, layer, staged, root, queue, visited, pending,
                         found, result, fresh>>
     ELSE UNCHANGED cache /\ Finish(t, "failed")
  /\ UNCHANGED <<registry, doomed, pulled, deps, budgets>>
Publish(t) ==
  /\ pc[t] = "unpack" /\ staged[t] = Files
  /\ IF Exists(layer[t]) /\ ~HasRoot(layer[t])
     THEN UNCHANGED cache /\ Finish(t, "failed")
     ELSE /\ cache' = [cache EXCEPT
                         ![layer[t]] = IF @ = {} THEN staged[t] ELSE @]
          /\ GoTo(t, "confirm")
          /\ UNCHANGED <<want, layer, staged, root, queue, visited, pending,
                         found, result, fresh>>
  /\ UNCHANGED <<registry, doomed, pulled, deps, budgets>>

\* The last look at the published directory.
Confirm(t) ==
  /\ pc[t] = "confirm"
  /\ IF HasRoot(layer[t])
     THEN Fetched(t, layer[t])
     ELSE Finish(t, "failed") /\ UNCHANGED pulled
  /\ UNCHANGED <<registry, cache, doomed, deps, budgets>>

\* Engine::dependencies: the remembered resolution while all of it is on disk,
\* a new walk otherwise.
Dependencies(t) ==
  /\ pc[t] = "deps"
  /\ LET hits == {hit \in deps[Home[t]][root[t]] : \A l \in hit : Usable(l)} IN
       IF hits # {}
       THEN /\ \E hit \in hits : found' = [found EXCEPT ![t] = hit]
            /\ GoTo(t, "exec")
            /\ UNCHANGED <<deps, queue>>
       ELSE /\ deps' = [deps EXCEPT ![Home[t]][root[t]] = {}]
            /\ queue' = [queue EXCEPT ![t] = {root[t]}]
            /\ GoTo(t, "walk")
            /\ UNCHANGED found
  /\ want' = [want EXCEPT ![t] = None] /\ layer' = [layer EXCEPT ![t] = None]
  /\ UNCHANGED <<registry, cache, doomed, pulled, staged, root, visited, pending,
                 result, fresh, budgets>>

\* dependencies(root): a directory without a kcl.mod simply has none.
ReadManifest(t) ==
  /\ pc[t] = "walk" /\ pending[t] = {}
  /\ \E l \in queue[t] :
       /\ queue' = [queue EXCEPT ![t] = @ \ {l}]
       /\ visited' = [visited EXCEPT ![t] = @ \cup {l}]
       /\ pending' = [pending EXCEPT ![t] = IF HasRoot(l) THEN Needs[l] ELSE {}]
  /\ UNCHANGED <<registry, cache, doomed, pulled, deps, pc, want, layer, staged,
                 root, found, result, fresh, budgets>>

\* The next dependency of the module at hand is fetched.
FetchNext(t) ==
  /\ pc[t] = "walk"
  /\ \E r \in pending[t] :
       /\ want' = [want EXCEPT ![t] = r]
       /\ pending' = [pending EXCEPT ![t] = @ \ {r}]
  /\ GoTo(t, "manifest")
  /\ UNCHANGED <<registry, cache, doomed, pulled, deps, layer, staged, root, queue,
                 visited, found, result, fresh, budgets>>

\* The walk is over, and remembered for the process's lifetime.
Resolved(t) ==
  /\ pc[t] = "walk" /\ pending[t] = {} /\ queue[t] = {}
  /\ deps' = [deps EXCEPT ![Home[t]][root[t]] = {found[t]}]
  /\ GoTo(t, "exec")
  /\ want' = [want EXCEPT ![t] = None] /\ layer' = [layer EXCEPT ![t] = None]
  /\ visited' = [visited EXCEPT ![t] = {}]
  /\ UNCHANGED <<registry, cache, doomed, pulled, staged, root, queue, pending,
                 found, result, fresh, budgets>>

\* exec_program compiles the package and every package it imports: all of
\* their files, and a path for every import.
Compiles(t) ==
  LET packages == {root[t]} \cup found[t] IN
    \A l \in packages :
      cache[l] = Files /\ \A r \in Needs[l] : Provides(found[t], r)

Exec(t) ==
  /\ pc[t] = "exec"
  /\ Finish(t, IF Compiles(t) THEN "ok" ELSE "failed")
  /\ UNCHANGED <<registry, cache, doomed, pulled, deps, budgets>>

-----------------------------------------------------------------------------
(* The surroundings.                                                       *)

\* Somebody pushes another layer under a tag.
Republish(r) ==
  /\ moves < MaxMoves
  /\ moves' = moves + 1
  /\ \E l \in Layers \ {registry[r]} :
       /\ RefOf[l] = r
       /\ registry' = [registry EXCEPT ![r] = l]
       /\ fresh' = [t \in Threads |->
                      IF pc[t] = "idle" THEN fresh[t]
                      ELSE [fresh[t] EXCEPT ![r] = @ \cup {l}]]
  /\ UNCHANGED <<cache, doomed, pulled, deps, pc, want, layer, staged, root, queue,
                 visited, pending, found, result, faults, wipes>>

\* A manifest or blob that does not arrive, does not verify or does not unpack.
CallFails(t) ==
  /\ faults < MaxFaults
  /\ faults' = faults + 1
  /\ pc[t] \in {"manifest", "probe", "unpack"}
  /\ Finish(t, "failed")
  /\ UNCHANGED <<registry, cache, doomed, pulled, deps, moves, wipes>>

\* A process dies and starts again: the directory is what survives.
Crash(p) ==
  LET lost(f, empty) == [t \in Threads |-> IF Home[t] = p THEN empty ELSE f[t]]
  IN  /\ faults < MaxFaults
      /\ faults' = faults + 1
      /\ pulled' = [pulled EXCEPT ![p] = [r \in Refs |-> None]]
      /\ deps' = [deps EXCEPT ![p] = [l \in Layers |-> {}]]
      /\ pc' = lost(pc, "idle") /\ result' = lost(result, "none")
      /\ want' = lost(want, None) /\ layer' = lost(layer, None)
      /\ root' = lost(root, None)
      /\ staged' = lost(staged, {}) /\ queue' = lost(queue, {})
      /\ visited' = lost(visited, {}) /\ pending' = lost(pending, {})
      /\ found' = lost(found, {})
      /\ fresh' = lost(fresh, [r \in Refs |-> {}])
      /\ UNCHANGED <<registry, cache, doomed, moves, wipes>>

\* rm -rf of the cache, file by file, in any order.
Wipe ==
  /\ wipes < MaxWipes /\ doomed = {}
  /\ Resting => \A t \in Threads : pc[t] = "idle"
  /\ wipes' = wipes + 1
  /\ doomed' = {l \in Layers : Exists(l)}
  /\ UNCHANGED <<registry, cache, pulled, deps, render, moves, faults>>

WipeFile ==
  /\ \E l \in doomed : \E f \in cache[l] :
       /\ cache' = [cache EXCEPT ![l] = @ \ {f}]
       /\ doomed' = IF cache[l] = {f} THEN doomed \ {l} ELSE doomed
  /\ UNCHANGED <<registry, pulled, deps, render, budgets>>

-----------------------------------------------------------------------------
Init ==
  /\ registry \in [Refs -> Layers] /\ \A r \in Refs : RefOf[registry[r]] = r
  /\ cache = [l \in Layers |-> {}] /\ doomed = {}
  /\ pulled = [p \in Procs |-> [r \in Refs |-> None]]
  /\ deps = [p \in Procs |-> [l \in Layers |-> {}]]
  /\ pc = [t \in Threads |-> "idle"] /\ result = [t \in Threads |-> "none"]
  /\ want = [t \in Threads |-> None] /\ layer = [t \in Threads |-> None]
  /\ root = [t \in Threads |-> None] /\ staged = [t \in Threads |-> {}]
  /\ queue = [t \in Threads |-> {}] /\ visited = [t \in Threads |-> {}]
  /\ pending = [t \in Threads |-> {}] /\ found = [t \in Threads |-> {}]
  /\ fresh = [t \in Threads |-> [r \in Refs |-> {}]]
  /\ moves = 0 /\ faults = 0 /\ wipes = 0

Advance(t) == \/ FetchManifest(t) \/ Probe(t) \/ Unpack(t) \/ Publish(t)
              \/ Confirm(t) \/ Dependencies(t) \/ ReadManifest(t)
              \/ FetchNext(t) \/ Resolved(t) \/ Exec(t)

Surroundings == \/ \E r \in Refs : Republish(r)
                \/ \E t \in Threads : CallFails(t)
                \/ \E p \in Procs : Crash(p)
                \/ Wipe \/ WipeFile

Next == Surroundings \/ \E t \in Threads : Begin(t) \/ Advance(t)

Spec == Init /\ [][Next]_vars

(* Callers keep asking for renders (a reconcile interval, a composition's  *)
(* own loop), threads are scheduled, and an rm -rf runs to its end.        *)
Fairness == /\ \A t \in Threads : WF_vars(Begin(t)) /\ WF_vars(Advance(t))
            /\ WF_vars(WipeFile)

FairSpec == Spec /\ Fairness

-----------------------------------------------------------------------------
(* Properties.                                                             *)

Labels == {"idle", "manifest", "probe", "unpack", "confirm", "deps", "walk",
           "exec"}

\* Every variable holds a value of its kind.
TypeOK ==
  /\ registry \in [Refs -> Layers]
  /\ cache \in [Layers -> SUBSET Files] /\ doomed \subseteq Layers
  /\ pulled \in [Procs -> [Refs -> Layers \cup {None}]]
  /\ deps \in [Procs -> [Layers -> SUBSET SUBSET Layers]]
  /\ pc \in [Threads -> Labels]
  /\ want \in [Threads -> Refs \cup {None}]
  /\ layer \in [Threads -> Layers \cup {None}]
  /\ root \in [Threads -> Layers \cup {None}]
  /\ staged \in [Threads -> SUBSET Files]
  /\ queue \in [Threads -> SUBSET Layers] /\ visited \in [Threads -> SUBSET Layers]
  /\ pending \in [Threads -> SUBSET Refs] /\ found \in [Threads -> SUBSET Layers]
  /\ result \in [Threads -> {"none", "ok", "failed"}]
  /\ fresh \in [Threads -> [Refs -> SUBSET Layers]]
  /\ moves \in 0..MaxMoves /\ faults \in 0..MaxFaults /\ wipes \in 0..MaxWipes

\* "The digest directory only ever appears complete" (deps.rs): a kcl.mod in
\* a directory means that the whole package is there, whoever crashed in the
\* middle of unpacking it; only a directory being removed is an exception.
PublishedComplete ==
  \A l \in Layers \ doomed : HasRoot(l) => cache[l] = Files

\* "Whoever won the race extracted the same bytes" (deps.rs): as long as no
\* call fails and nothing is wiped, no render fails because of another one.
RaceIsHarmless ==
  faults = 0 /\ wipes = 0 => \A t \in Threads : result[t] # "failed"

\* "Immune to republished tags" (deps.rs): what a pull hands back is what the
\* tag named at some moment since the render began.
FreshPull ==
  [][\A t \in Threads :
       pc[t] \in {"probe", "confirm"} /\ pc'[t] \in {"deps", "walk"}
         => layer'[t] \in fresh[t][want[t]]]_vars

\* "A long-lived function must not serve a dangling path" (engine.rs): after
\* the last wipe, crash or failed call, every caller's renders succeed again,
\* for good.
RendersResume == \A t \in Threads : <>[](result[t] # "failed") /\ []<>(result[t] = "ok")
=============================================================================
