-------------------------------- MODULE Estate --------------------------------
(***************************************************************************)
(* The tree of KCL packages and what the catalog tools read out of it        *)
(* (tools/catalog/src/scan.ts, findings.ts, catalog.ts), as operators on a   *)
(* tree.  A package is called after its directory and a version is a number; *)
(* descriptions, links, titles and the order of rows are left out.           *)
(***************************************************************************)
EXTENDS Naturals, FiniteSets, Sequences

CONSTANTS
  Dirs,         \* directories of packages/
  AreaOf,       \* [Dirs -> areas]; "providers" holds the generated schemas
  ModuleOf,     \* [Dirs -> capability modules], "" outside of one
  DevkitRows    \* [capability modules -> Nat], the rows of devkit.toml

(* The files of a directory:                                                *)
(*   mod       kcl.mod: version, path dependencies, registry dependencies    *)
(*   xrd       the kind its xrd.yaml defines, or ""                          *)
(*   comp      composition.yaml: kind, backend, the registry, image and tag  *)
(*             of the KCL source (tag 0: none)                               *)
(*   code      the KCL sources; cli: main.k streams YAML; refs: the kinds    *)
(*             they name; tests: a _test.k is among them                     *)
(*   examples  xrd/examples: kind, selected provider, backend in file name   *)
NoMod == [version |-> 0]
NoComp == [kind |-> "none"]

Deps == [name: STRING, version: Nat]
KclMods == [version: Nat \ {0}, path: Seq(Dirs), registry: SUBSET Deps]
Compositions == [kind: STRING, backend: STRING, registry: STRING, image: STRING, tag: Nat]
Files == [mod: {NoMod} \cup KclMods, xrd: STRING, comp: {NoComp} \cup Compositions,
          code: Nat, cli: BOOLEAN, refs: SUBSET STRING, tests: BOOLEAN,
          examples: SUBSET [kind: STRING, selected: STRING, stem: STRING]]

\* A TOML table holds a name once.
NamesOnce(registry) == \A e1, e2 \in registry : e1.name = e2.name => e1 = e2

IsPackage(tree, d) == tree[d].mod # NoMod
PathDeps(tree, d) ==
  {p \in {tree[d].mod.path[i] : i \in DOMAIN tree[d].mod.path} : IsPackage(tree, p)}

-----------------------------------------------------------------------------
(* scan.ts                                                                 *)

classify(tree, d) ==
  CASE tree[d].comp # NoComp  -> "function"
    [] tree[d].comp = NoComp /\ tree[d].xrd # "" -> "xrd"
    [] tree[d].comp = NoComp /\ tree[d].xrd = "" ->
         IF AreaOf[d] = "providers" THEN "provider"
         ELSE IF tree[d].cli THEN "cli" ELSE "lib"

packages(tree) ==
  {[name |-> d, version |-> tree[d].mod.version, kind |-> classify(tree, d),
    pathDeps |-> PathDeps(tree, d), hasTests |-> tree[d].tests,
    dependents |-> {c \in Dirs : IsPackage(tree, c) /\ d \in PathDeps(tree, c)}]
     : d \in {p \in Dirs : IsPackage(tree, p)}}

xrdFrom(tree) ==
  {[kind |-> tree[d].xrd, package |-> d] : d \in {x \in Dirs : tree[x].xrd # ""}}
xrKinds(tree) == {x.kind : x \in xrdFrom(tree)}

\* Children by a typed import of their XRD package, or by name in the sources.
childKindsOf(tree, d) ==
  ({tree[p].xrd : p \in PathDeps(tree, d)} \cup tree[d].refs)
    \cap (xrKinds(tree) \ {tree[d].comp.kind})

compositionFrom(tree) ==
  {[package |-> d, kind |-> tree[d].comp.kind, backend |-> tree[d].comp.backend,
    image |-> tree[d].comp.image, pinnedTag |-> tree[d].comp.tag,
    packageVersion |-> tree[d].mod.version,
    children |-> IF IsPackage(tree, d) THEN childKindsOf(tree, d) ELSE {}]
     : d \in {c \in Dirs : tree[c].comp # NoComp}}

exampleBackend(e, backends) ==
  IF e.selected # "" THEN e.selected ELSE IF e.stem \in backends THEN e.stem ELSE ""

examplesFrom(tree) ==
  LET backends == {c.backend : c \in compositionFrom(tree)} \ {""} IN
  UNION {{[dir |-> d, kind |-> e.kind, backend |-> exampleBackend(e, backends)]
            : e \in {x \in tree[d].examples : x.kind \in xrKinds(tree)}} : d \in Dirs}

usageOf(tree, x) ==
  LET impls == {c \in compositionFrom(tree) : c.kind = x.kind}
      childOf == {c \in compositionFrom(tree) : x.kind \in c.children}
      examples == {e \in examplesFrom(tree) : e.kind = x.kind}
      module == ModuleOf[x.package] IN
  [kind |-> x.kind,
   compositions |-> {c.package : c \in impls},
   backends |-> {c.backend : c \in impls} \ {""},
   examples |-> Cardinality(examples),
   childOf |-> {c.package : c \in childOf},
   devkitRows |-> IF module = "" THEN 0 ELSE DevkitRows[module],
   total |-> Cardinality(impls) + Cardinality(examples) + Cardinality(childOf)]

-----------------------------------------------------------------------------
(* findings.ts                                                             *)

clouds == {"aws", "azure", "gcp"}
Usage(ws, kind) == CHOOSE u \in ws.usage : u.kind = kind
Finding(rule, severity, subjects) ==
  {[rule |-> rule, severity |-> severity, subject |-> s] : s \in subjects}

Drifted(c) == c.pinnedTag # 0 /\ c.packageVersion # 0 /\ c.pinnedTag # c.packageVersion
Unpinned(c) == c.pinnedTag = 0 /\ c.image # ""
Unrendered(ws, c) ==
  c.backend # "" /\ \A e \in ws.examples : <<e.kind, e.backend>> # <<c.kind, c.backend>>

computeFindings(ws) ==
  LET kinds == {x.kind : x \in ws.xrds}
      Kinds(P(_)) == {k \in kinds : P(Usage(ws, k))}
      Comps(P(_)) == {c.package : c \in {d \in ws.compositions : P(d)}}
      Unimplemented(u) == u.compositions = {}
      NoExample(u) == u.compositions # {} /\ u.examples = 0
      Partial(u) == Cardinality(clouds \cap u.backends) = 2
      Uninstalled(u) == u.devkitRows = 0
      Orphan(c) == c.kind \notin kinds
      WithoutExample(c) == Unrendered(ws, c) IN
  UNION {
    Finding("xrd-without-composition", "high", Kinds(Unimplemented)),
    Finding("composition-without-xrd", "high", Comps(Orphan)),
    Finding("composition-pin-drift", "high", Comps(Drifted)),
    Finding("composition-unpinned", "medium", Comps(Unpinned)),
    Finding("backend-without-example", "medium", Comps(WithoutExample)),
    Finding("xrd-without-example", "medium", Kinds(NoExample)),
    Finding("backend-parity-gap", "medium", Kinds(Partial)),
    Finding("module-not-installed", "medium", Kinds(Uninstalled)),
    Finding("unused-provider-package", "low",
      {p.name : p \in {q \in ws.packages : q.kind = "provider" /\ q.dependents = {}}}),
    Finding("composition-without-tests", "medium",
      {p.name : p \in {q \in ws.packages : q.kind = "function" /\ ~q.hasTests}})}

scan(tree) ==
  LET ws == [packages |-> packages(tree), xrds |-> xrdFrom(tree),
             compositions |-> compositionFrom(tree), examples |-> examplesFrom(tree),
             usage |-> {usageOf(tree, x) : x \in xrdFrom(tree)}, findings |-> {}] IN
  [ws EXCEPT !.findings = computeFindings(ws)]

-----------------------------------------------------------------------------
(* catalog.ts: the two committed artefacts.                                *)

FindingsOf(ws, subject) == {f \in ws.findings : f.subject = subject}
Entity(kind, about, relations, findings) ==
  [kind |-> kind, about |-> about, relations |-> relations, findings |-> findings]

Provided(ws, kind) == {x.package : x \in {y \in ws.xrds : y.kind = kind}}
PackageOf(ws, name) == {p \in ws.packages : p.name = name}

Systems(ws) ==
  {Entity("System", ModuleOf[x.package], {}, {})
     : x \in {y \in ws.xrds : ModuleOf[y.package] # ""}}

APIs(ws) ==
  {Entity("API", <<x, Usage(ws, x.kind)>>, {}, FindingsOf(ws, x.kind)) : x \in ws.xrds}

CompositionComponents(ws) ==
  {Entity("Component",
          [composition |-> c,
           importers |-> Cardinality(UNION {p.dependents : p \in PackageOf(ws, c.package)})],
          [provides |-> Provided(ws, c.kind), consumes |-> c.children,
           dependsOn |-> UNION {p.pathDeps : p \in PackageOf(ws, c.package)}],
          FindingsOf(ws, c.package)) : c \in ws.compositions}

PackageComponents(ws) ==
  {Entity("Component", p, [dependsOn |-> p.pathDeps], FindingsOf(ws, p.name))
     : p \in {q \in ws.packages : q.kind # "function"}}

\* (The first composition that serves an example is kept as the set of those
\* that do.)
ExampleResources(ws) ==
  {Entity("Resource", e,
          [dependsOn |-> Provided(ws, e.kind),
           dependencyOf |-> {c.package : c \in {d \in ws.compositions :
              d.kind = e.kind /\ (e.backend = "" \/ d.backend = e.backend)}}], {})
     : e \in ws.examples}

buildEntities(ws) ==
  UNION {Systems(ws), APIs(ws), CompositionComponents(ws), PackageComponents(ws),
         ExampleResources(ws)}

capabilityDiagram(ws) ==
  [uses |-> {<<u.kind, u.total, u.compositions>> : u \in ws.usage},
   composes |-> {<<c.package, c.children>> : c \in ws.compositions}]

providerTable(ws) ==
  {<<p.name, p.dependents>> : p \in {q \in ws.packages : q.kind = "provider"}}

childTable(ws) ==
  {<<c.package, c.kind, c.children>>
     : c \in {d \in ws.compositions : d.children # {}}}

buildGraphDoc(ws) ==
  [diagram |-> capabilityDiagram(ws), usage |-> ws.usage, children |-> childTable(ws),
   providers |-> providerTable(ws), findings |-> ws.findings]

Artefacts(tree) ==
  LET ws == scan(tree) IN [entities |-> buildEntities(ws), graph |-> buildGraphDoc(ws)]
=============================================================================
