------------------------------- MODULE Release -------------------------------
(***************************************************************************)
(* Releasing KCL packages: developers commit to main, the release workflow   *)
(* (.github/workflows/release.yml, one run at a time) bumps, pins, commits    *)
(* and tags what changed (tools/nx-kcl/src/release/version-actions.ts), pushes *)
(* main and its tags, and publishes each package (publish-executor.ts).      *)
(* Failures: a push to either side, a cancelled run, a retried publish.      *)
(***************************************************************************)
EXTENDS Estate, SequencesExt

CONSTANTS
  Drafts,      \* [Dirs -> what a developer may commit to the directory]
  InitialTree,
  Envs,         \* values of KCL_REGISTRY a release may run under; "unset", ""
  NxRegistry,   \* nx.json release.registry
  Budget        \* bound: commits, failed pushes of a package and cancelled
                \* runs, and what else a composition counts, together

VARIABLES
  main,       \* the branch: tree, number of its head, and per directory the
              \* number of the last commit that changed it
  docs,       \* the tree the committed catalog artefacts were generated from
  trigger,    \* what the waiting workflow run will check out, or NoRun
  run,        \* the workflow run
  tags,       \* release tags: package, version, and (history) its artifact
  base,       \* number of the commit the latest tag is on
  oci,        \* published images
  lost,       \* releases whose publish was reported failed or was cancelled
  cut,        \* a run was cancelled before its push (history)
  budget      \* what is left of Budget

releaseVars == <<main, docs, trigger, run, tags, base, oci, lost, cut, budget>>

NoRun == [stage |-> "idle"]
Spend == budget > 0 /\ budget' = budget - 1
Version(tree, d) == tree[d].mod.version

-----------------------------------------------------------------------------
(* version-actions.ts and utils.ts                                          *)

resolveRegistry(env) == IF env \notin {"unset", ""} THEN env ELSE NxRegistry

\* Only a source that names the project is pinned.
pinCompositionSource(comp, d, registry, version) ==
  IF comp # NoComp /\ comp.image = d
  THEN [comp EXCEPT !.registry = registry, !.tag = version] ELSE comp

pinnedFirst(files, d, env) ==
  [files EXCEPT !.mod.version = @ + 1,
     !.comp = pinCompositionSource(@, d, resolveRegistry(env), files.mod.version)]
updateProjectVersion(files, d, env) ==
  [files EXCEPT !.mod.version = @ + 1,
     !.comp = pinCompositionSource(@, d, resolveRegistry(env), files.mod.version + 1)]
-----------------------------------------------------------------------------
(* publish-executor.ts                                                      *)

\* ?? keeps an empty variable, which is then refused ("" here).
PushRegistry(env) == IF env # "unset" THEN env ELSE NxRegistry

registryDeps(mod) == mod.registry

\* Own entries win over those of the vendored packages, later ones among those
\* over earlier ones.
ownDepsOnly(tree, d) == registryDeps(tree[d].mod)
rewriteDeps(tree, d) ==
  LET own == registryDeps(tree[d].mod)
      path == tree[d].mod.path
      Later(i, name) == \E j \in i + 1..Len(path) :
                          \E e \in registryDeps(tree[path[j]].mod) : e.name = name IN
  own \cup UNION {{e \in registryDeps(tree[path[i]].mod) :
                     ~Later(i, e.name) /\ \A o \in own : o.name # e.name}
                    : i \in {k \in DOMAIN path : IsPackage(tree, path[k])}}

\* What is pushed: the package's sources, those of its path dependencies as
\* plain directories, and the manifest without them.
Imports(tree, m) ==
  IF IsPackage(tree, m)
  THEN ToSet(tree[m].mod.path) \cup {e.name : e \in registryDeps(tree[m].mod)} ELSE {}
Pack(tree, d) ==
  [sources |-> [m \in {d} \cup ToSet(tree[d].mod.path) |->
                  [code |-> tree[m].code, imports |-> Imports(tree, m)]],
   deps |-> rewriteDeps(tree, d)]

Image(registry, d, version) == [registry |-> registry, name |-> d, version |-> version]
Published(image) == \E o \in oci : o.image = image

-----------------------------------------------------------------------------
(* nx: the project graph (create-nodes.ts, create-dependencies.ts) and which  *)
(* projects a change affects.                                              *)

Releasable(tree, d) == IsPackage(tree, d) /\ AreaOf[d] # "providers"

Itself(tree, d) == {d}
DependsOn(tree, d) ==
  {c \in Dirs : \A S \in SUBSET Dirs :
     d \in S /\ (\A x \in S : IsPackage(tree, x) => PathDeps(tree, x) \subseteq S) => c \in S}

Affected(m) ==
  {d \in Dirs : Releasable(m.tree, d) /\ \E c \in DependsOn(m.tree, d) : m.touched[c] > base}

-----------------------------------------------------------------------------
(* Developers.                                                             *)

\* just mod-check: path dependencies are packages, a source names its own one.
ModCheck(tree) ==
  \A d \in Dirs : IsPackage(tree, d) =>
    /\ \A p \in ToSet(tree[d].mod.path) : IsPackage(tree, p)
    /\ tree[d].comp # NoComp => tree[d].comp.image \in {"", d}

\* lefthook runs the catalog check on commits of some files only; a commit it
\* refuses is made again with the artefacts regenerated.  Versions and pins are
\* left to nx release; a package is never taken out.
Hooked(old, new) == old.mod # new.mod \/ old.xrd # new.xrd \/ old.comp # new.comp
Kept(old, new) ==
  [new EXCEPT
     !.mod.version = IF old.mod = NoMod THEN @ ELSE old.mod.version,
     !.comp = CASE @ = NoComp -> NoComp
                [] @ # NoComp /\ old.comp # NoComp /\ @.image = old.comp.image ->
                     [@ EXCEPT !.tag = old.comp.tag, !.registry = old.comp.registry]
                [] OTHER -> [@ EXCEPT !.tag = 0]]

Commit(d) ==
  /\ Spend
  /\ \E files \in Drafts[d], regenerated \in BOOLEAN :
       LET new == Kept(main.tree[d], files)
           tree == [main.tree EXCEPT ![d] = new] IN
       /\ new # main.tree[d] /\ ModCheck(tree)
       /\ IsPackage(main.tree, d) => files.mod # NoMod
       /\ Hooked(main.tree[d], new) /\ ~regenerated => Artefacts(docs) = Artefacts(tree)
       /\ main' = [tree |-> tree, head |-> main.head + 1,
                   touched |-> [main.touched EXCEPT ![d] = main.head + 1]]
       /\ docs' = IF regenerated THEN tree ELSE docs
  /\ trigger' = [stage |-> "waiting", checkout |-> main']
  /\ UNCHANGED <<run, tags, base, oci, lost, cut>>

-----------------------------------------------------------------------------
(* The release workflow.                                                   *)

\* By hand (workflow_dispatch), on main only.
Dispatch ==
  /\ Spend /\ trigger = NoRun
  /\ trigger' = [stage |-> "waiting", checkout |-> main]
  /\ UNCHANGED <<main, docs, run, tags, base, oci, lost, cut>>

Running == run.stage \in {"push", "publish"}

\* The release commit: the affected packages with new versions and pins.
Bumped(m, affected, env) ==
  [tree |-> [d \in Dirs |-> IF d \in affected THEN updateProjectVersion(m.tree[d], d, env)
                           ELSE m.tree[d]],
   head |-> m.head + 1, touched |-> m.touched]

\* Check out, find the latest release tag, version and tag locally.
VersionAndTag ==
  /\ ~Running /\ trigger # NoRun
  /\ LET m == trigger.checkout
         affected == Affected(m) IN
     IF affected = {} THEN run' = NoRun
     ELSE \E env \in Envs :
       run' = [stage |-> "push", env |-> env, todo |-> affected, failed |-> {},
               bumped |-> affected, head |-> m.head,
               main |-> Bumped(m, affected, env)]
  /\ trigger' = NoRun
  /\ UNCHANGED <<main, docs, tags, base, oci, lost, cut, budget>>

Released(r) ==
  {[name |-> d, version |-> Version(r.main.tree, d), pack |-> Pack(r.main.tree, d)]
     : d \in r.bumped}

\* git push --atomic: refused when main moved since the checkout.
pushThenPublish ==
  /\ run.stage = "push"
  /\ run' = [run EXCEPT !.stage = "publish"]
  /\ IF main.head = run.head
     THEN main' = run.main /\ base' = run.main.head /\ tags' = tags \cup Released(run)
     ELSE UNCHANGED <<main, base, tags>>
  /\ UNCHANGED <<docs, trigger, oci, lost, cut, budget>>
PushMain ==
  /\ run.stage = "push"
  /\ IF main.head = run.head
     THEN /\ main' = run.main /\ base' = run.main.head
          /\ tags' = tags \cup Released(run)
          /\ run' = [run EXCEPT !.stage = "publish"]
     ELSE run' = NoRun /\ UNCHANGED <<main, base, tags>>
  /\ UNCHANGED <<docs, trigger, oci, lost, cut, budget>>
swallowsFailures(d) ==
  /\ run.stage = "publish" /\ d \in run.todo
  /\ LET image == Image(PushRegistry(run.env), d, Version(run.main.tree, d)) IN
     \/ oci' = oci \cup {[image |-> image, pack |-> Pack(run.main.tree, d)]} /\ UNCHANGED budget
     \/ Spend /\ UNCHANGED oci
  /\ run' = [run EXCEPT !.todo = @ \ {d}]
  /\ UNCHANGED <<main, docs, trigger, tags, base, lost, cut>>
\* One package: the registry refuses a version it has, which is success.  A push
\* that fails may have left the image all the same.
kclPublishExecutor(d) ==
  /\ run.stage = "publish" /\ d \in run.todo
  /\ LET image == Image(PushRegistry(run.env), d, Version(run.main.tree, d))
         new == [image |-> image, pack |-> Pack(run.main.tree, d)]
         Fails == run' = [run EXCEPT !.todo = @ \ {d}, !.failed = @ \cup {d}] IN
     \/ /\ image.registry = "" /\ Fails
        /\ UNCHANGED <<oci, lost, budget>>
     \/ /\ image.registry # ""
        /\ oci' = IF Published(image) THEN oci ELSE oci \cup {new}
        /\ lost' = lost \ {<<d, image.version>>}
        /\ run' = [run EXCEPT !.todo = @ \ {d}]
        /\ UNCHANGED budget
     \/ /\ image.registry # "" /\ Spend /\ Fails
        /\ oci' = oci \/ (~Published(image) /\ oci' = oci \cup {new})
        /\ UNCHANGED lost
  /\ UNCHANGED <<main, docs, trigger, tags, base, cut>>
Unpublished(r) == {<<d, Version(r.main.tree, d)>> : d \in r.todo \cup r.failed}

\* The run ends, red when a package failed.
Finish ==
  /\ run.stage = "publish" /\ run.todo = {}
  /\ lost' = lost \cup Unpublished(run)
  /\ run' = [run EXCEPT !.stage = "ended"]
  /\ UNCHANGED <<main, docs, trigger, tags, base, oci, cut, budget>>

Cancel ==
  /\ Running /\ Spend
  /\ IF run.stage = "push" THEN run' = NoRun /\ cut' = TRUE /\ UNCHANGED lost
     ELSE /\ run' = [run EXCEPT !.stage = "ended", !.failed = @ \cup run.todo]
          /\ lost' = lost \cup Unpublished(run)
          /\ UNCHANGED cut
  /\ UNCHANGED <<main, docs, trigger, tags, base, oci>>

\* nx release publish again, for everything the release bumped, on its commit.
RetryPublish ==
  /\ run.stage = "ended" /\ run.failed # {} /\ trigger = NoRun
  /\ run' = [run EXCEPT !.stage = "publish", !.todo = run.bumped, !.failed = {}]
  /\ UNCHANGED <<main, docs, trigger, tags, base, oci, lost, cut, budget>>

-----------------------------------------------------------------------------
(* Where it starts: what was committed and released before.                *)

Released0(d) ==
  LET comp == InitialTree[d].comp IN
  /\ Releasable(InitialTree, d) /\ comp.image = d
  /\ comp.registry = NxRegistry /\ comp.tag = Version(InitialTree, d)

ASSUME ReleaseAssumption ==
  /\ InitialTree \in [Dirs -> Files] /\ Drafts \in [Dirs -> SUBSET Files]
  /\ \A d \in Dirs : \A files \in {InitialTree[d]} \cup Drafts[d] :
       files.mod # NoMod => NamesOnce(files.mod.registry)
  /\ ModCheck(InitialTree)
  /\ \A d \in Dirs : InitialTree[d].comp # NoComp /\ InitialTree[d].comp.tag # 0
                      => Released0(d)
  /\ NxRegistry \in STRING /\ Envs \subseteq STRING /\ Budget \in Nat

ReleaseInit ==
  /\ main = [tree |-> InitialTree, head |-> 0, touched |-> [d \in Dirs |-> 0]]
  /\ docs = InitialTree /\ trigger = NoRun /\ run = NoRun /\ base = 0
  /\ tags = {[name |-> d, version |-> Version(InitialTree, d), pack |-> Pack(InitialTree, d)]
               : d \in {p \in Dirs : Releasable(InitialTree, p)}}
  /\ oci = {[image |-> Image(NxRegistry, t.name, t.version), pack |-> t.pack] : t \in tags}
  /\ lost = {} /\ cut = FALSE /\ budget = Budget

-----------------------------------------------------------------------------
\* What an image holds was packed from the commit its tag is on: publishing never
\* runs ahead of the push of main (release.yml: "Git first, OCI second").
PublishedIsTagged ==
  \A o \in oci : [name |-> o.image.name, version |-> o.image.version, pack |-> o.pack] \in tags

\* What main tells a cluster to pull is published, or about to be, or its
\* release was reported failed (publish-executor.ts: a retry finishes it; both
\* steps "always target the same registry").
PinsResolve ==
  \A d \in Dirs :
    LET comp == main.tree[d].comp IN
    comp # NoComp /\ comp.image = d /\ comp.tag # 0 =>
      \/ Published(Image(comp.registry, d, comp.tag))
      \/ run.stage = "publish" /\ <<d, comp.tag>> \in Unpublished(run)
      \/ <<d, comp.tag>> \in lost

\* Whatever changes what a package would publish gets the package a new version:
\* unless a run was cancelled before it pushed, one is waiting or under way to tag
\* it.  A rejected push, a change in a dependency, a commit during a run, a publish
\* that fails or is cancelled and a run by hand lose nothing.
NothingForgotten ==
  \A d \in Dirs : Releasable(main.tree, d) =>
    \/ [name |-> d, version |-> Version(main.tree, d), pack |-> Pack(main.tree, d)] \in tags
    \/ trigger # NoRun \/ run.stage = "push" \/ cut

\* No commit or release leaves main with a pin that the catalog would find drifted
\* (findings.ts: the two versions "are written together by nx release").
NoPinDrift == \A c \in compositionFrom(main.tree) : ~Drifted(c)

\* Every registry package that a published image imports, from its own sources or
\* from a package vendored into it, is in its manifest, and once.
Supplied(pack, name) == Cardinality({e \in pack.deps : e.name = name}) = 1
VendoredResolves ==
  \A o \in oci : \A m \in DOMAIN o.pack.sources :
    \A name \in o.pack.sources[m].imports \ Dirs : Supplied(o.pack, name)

\* "Only the published image is self-contained" (publish-executor.ts:172-174):
\* every package that a source directory in it imports is in it too.
SelfContained ==
  \A o \in oci : \A m \in DOMAIN o.pack.sources :
    o.pack.sources[m].imports \cap Dirs \subseteq DOMAIN o.pack.sources

\* The catalog committed on main describes main (docs/backstage.md: the check
\* "fails when either is stale, which is what CI runs").
PortalIsCurrent == Artefacts(docs) = Artefacts(main.tree)
=============================================================================
