----------------------------- MODULE Composition -----------------------------
(***************************************************************************)
(* One composite resource (XR), reconciled by Crossplane through a pipeline *)
(* of steps served by `kclx function`: function.rs (one gRPC call), compose.rs *)
(* (rendered items into desired state), and the paid-feature gate that the    *)
(* gated packages share (packages/platform/entitlement/lib.k).              *)
(*                                                                         *)
(* The function keeps nothing between two calls, so a call is one step.      *)
(* Crossplane is external: it hands each step the desired state of the ones   *)
(* before, calls a step again while its requirements change, drops the      *)
(* reconcile at a fatal result, and makes the live resources be the desired  *)
(* ones.                                                                   *)
(*                                                                         *)
(* A document is two levels deep: sections of fields.  apiVersion and kind  *)
(* are the field gvk of the section "type", so that a section stands for a  *)
(* top-level key in every merge.  What a package renders depends on the XR's *)
(* spec, and on the record if the package is gated.                         *)
(***************************************************************************)
EXTENDS Integers, Sequences, SequencesExt

CONSTANTS
  Null,
  Pipeline,    \* steps: [target, gated, bases, items: spec -> items]
  Specs,       \* what users may put into the XR's spec
  MaxFetches,  \* times Crossplane calls a step again
  MaxFaults,   \* bound: failing renders and lost calls
  MaxMoves     \* bound: edits of the XR and of the entitlement record

Targets == {"Default", "Resources", "PatchDesired", "PatchResources", "XR"}
Records == {"missing", "denies", "grants"}

ASSUME CompositionAssumption ==
  /\ Pipeline \in Seq(Range(Pipeline)) /\ Pipeline # <<>>
  /\ \A p \in Range(Pipeline) :
       /\ p.target \in Targets
       /\ \A s \in Specs : p.items[s] \in Seq(Range(p.items[s]))
  /\ MaxFetches \in Nat /\ MaxFaults \in Nat /\ MaxMoves \in Nat

VARIABLES
  spec,      \* the XR's spec
  record,    \* the tenant's Entitlement
  live,      \* composed resources in the cluster, by composition resource name
  pc, seen,  \* the running reconcile, and the spec it observed
  at,        \* its step
  desired,   \* what the steps before desire
  asked,     \* requirements of the step's last response
  fetched,   \* what the step is handed for them
  fetches,   \* times the step was called again
  failure,   \* how the last reconcile ended
  granted,   \* a record that grants the feature has been read (history)
  faults, moves

call == <<at, desired, asked, fetched, fetches>>
vars == <<spec, record, live, pc, seen, call, failure, granted, faults, moves>>

-----------------------------------------------------------------------------
(* Documents.                                                              *)

\* Only a patch has sections that are null, and never its type.
Has(doc, section, field) ==
  section \in DOMAIN doc /\ field \in DOMAIN doc[section]

Gvk(doc) == IF Has(doc, "type", "gvk") THEN doc["type"]["gvk"] ELSE Null

\* Keys of dst and src, src first.
Overlay(dst, src) ==
  [k \in DOMAIN dst \cup DOMAIN src |-> IF k \in DOMAIN src THEN src[k] ELSE dst[k]]

\* dst without the keys that src sets to null.
Without(dst, src) ==
  [k \in {d \in DOMAIN dst : d \in DOMAIN src => src[d] # Null} |-> dst[k]]
Values(src) == [k \in {d \in DOMAIN src : src[d] # Null} |-> src[k]]

\* merge_patch: maps merge, null deletes, and a key that dst does not have is
\* copied as it is, with the nulls inside it.
MergeFields(dst, src) == Overlay(Without(dst, src), Values(src))
MergePatch(dst, src) ==
  LET kept == Without(dst, src)
      new  == Values(src)
      both == DOMAIN kept \cap DOMAIN new
  IN  Overlay(Overlay(kept, new), [s \in both |-> MergeFields(kept[s], new[s])])

IdentityPaths == {<<"type", "gvk">>, <<"metadata", "name">>}

\* The identity of before put back into after, where after has a place for it.
RestoreNothing(before, after) == after
Restore(before, after) ==
  [s \in DOMAIN after |->
     [f \in DOMAIN after[s] |->
        IF <<s, f>> \in IdentityPaths /\ Has(before, s, f) THEN before[s][f]
        ELSE after[s][f]]]

-----------------------------------------------------------------------------
(* compose.rs: items into desired state.                                   *)

\* The XR as observed, without its spec, which the render has read.
XR == [type |-> [gvk |-> "XR"], metadata |-> [name |-> "demo"]]

\* What a target makes of an item: a request for resources, a patch of the
\* composite, or a composed resource (a patch of one, under a patch target).
MetaKinds == {"RequiredResources", "ExtraResources", "OtherMeta"}
IsMeta(target, item) == target = "Default" /\ Gvk(item.doc) \in MetaKinds
IsCompositePatch(target, item) ==
  \/ target = "XR"
  \/ target = "Default" /\ Gvk(item.doc) = Gvk(XR)
IsComposed(target, item) ==
  ~IsMeta(target, item) /\ ~IsCompositePatch(target, item)
Patches(target) == target \in {"PatchDesired", "PatchResources"}

\* The key of a request, which the two kinds keep apart.
Key(item) == <<Gvk(item.doc), item.key>>
Asked(items, target) == {Key(i) : i \in {j \in Range(items) : IsMeta(target, j)}}

NamesOf(items, target) == {i.name : i \in {j \in Range(items) : IsComposed(target, j)}}

ReadyValues == {"True", "False", "Unspecified"}

\* A patch needs its resource, a composed resource a name of its own in the step.
NamedAnew(items, target, resources, i) ==
  items[i].name \in DOMAIN resources <=> Patches(target)
Named(items, target, resources, i) ==
  IF Patches(target) THEN items[i].name \in DOMAIN resources
  ELSE \A j \in DOMAIN items \ {i} :
         IsComposed(target, items[j]) => items[j].name # items[i].name

\* The items that apply() takes; any other fails the whole render.
Accepts(items, target, resources) ==
  \A i \in DOMAIN items :
    LET item == items[i] IN
      IF IsMeta(target, item)
      THEN /\ Gvk(item.doc) # "OtherMeta"
           /\ \A j \in DOMAIN items \ {i} :
                IsMeta(target, items[j]) => Key(items[j]) # Key(item)
      ELSE /\ item.ready \in ReadyValues
           /\ IsComposed(target, item) =>
                item.name # Null /\ Named(items, target, resources, i)

\* Under Default an item that is the composite gives its status only, which is
\* merged into the one there is, an empty one if there is none.
PatchComposite(target, composite, item) ==
  IF target = "XR" THEN MergePatch(composite, item.doc)
  ELSE IF "status" \notin DOMAIN item.doc THEN composite
  ELSE LET old == IF "status" \in DOMAIN composite THEN composite["status"] ELSE <<>>
       IN  Overlay(composite, [status |-> MergeFields(old, item.doc["status"])])

ReadyAfter(old, item) == IF item.ready = "Unspecified" THEN old ELSE item.ready

\* A composed resource: new, or laid over one that is desired already.
Upsert(resources, item) ==
  IF item.name \notin DOMAIN resources THEN [doc |-> item.doc, ready |-> item.ready]
  ELSE LET old == resources[item.name]
       IN  [doc |-> Overlay(old.doc, item.doc), ready |-> ReadyAfter(old.ready, item)]

\* A patch to a resource that is desired already; readiness is left alone.
Patch(doc, item) == Restore(doc, MergePatch(doc, item.doc))
PatchNamed(n, doc, item) == IF item.name = n THEN Patch(doc, item) ELSE doc

\* The desired state after a step whose items are accepted.
Resources(items, target, old) ==
  IF Patches(target)
  THEN [n \in DOMAIN old |->
          [old[n] EXCEPT !.doc =
             FoldLeft(LAMBDA doc, item : PatchNamed(n, doc, item), @, items)]]
  ELSE [n \in DOMAIN old \cup NamesOf(items, target) |->
          IF n \in NamesOf(items, target)
          THEN Upsert(old, CHOOSE i \in Range(items) : IsComposed(target, i) /\ i.name = n)
          ELSE old[n]]
Composite(items, target, old) ==
  FoldLeft(LAMBDA doc, item : PatchComposite(target, doc, item), old,
           SelectSeq(items, LAMBDA i : IsCompositePatch(target, i) /\ ~IsMeta(target, i)))

\* Bases of the PatchResources target, under what is desired already.
SeedBases(resources, bases) ==
  Overlay([n \in DOMAIN bases |-> [doc |-> bases[n], ready |-> "Unspecified"]], resources)

-----------------------------------------------------------------------------
(* The gate of packages/platform/entitlement/lib.k.                         *)

EntitlementKey == <<"RequiredResources", "entitlement">>
Request == [doc |-> [type |-> [gvk |-> "RequiredResources"]], key |-> "entitlement",
            name |-> Null, ready |-> "Unspecified"]

PendingOrMissing(answers) ==
  EntitlementKey \notin DOMAIN answers \/ answers[EntitlementKey] = "missing"
\* Not asked yet: an empty answer is an answer.
Pending(answers) == EntitlementKey \notin DOMAIN answers
DeniesMissing(answers) == ~Pending(answers) /\ answers[EntitlementKey] = "missing"
Denied(answers) == ~Pending(answers) /\ answers[EntitlementKey] # "grants"

\* The request goes out with every call, the resources once the answer is in.
RenderedOnce(step, observed, answers) ==
  IF ~step.gated THEN step.items[observed]
  ELSE IF Pending(answers) THEN <<Request>> ELSE step.items[observed]
Rendered(step, observed, answers) ==
  IF ~step.gated THEN step.items[observed]
  ELSE IF Pending(answers) THEN <<Request>> ELSE <<Request>> \o step.items[observed]

-----------------------------------------------------------------------------
(* function.rs: one call of the function.                                  *)

\* A desired composite without identity is given the observed one's.
MergeIdentity(composite) ==
  IF Has(composite, "type", "gvk") THEN composite
  ELSE Overlay(composite,
         [type |-> XR["type"],
          metadata |-> IF "metadata" \notin DOMAIN composite THEN XR["metadata"]
                       ELSE Overlay(XR["metadata"], composite["metadata"])])

\* Where the render starts: what earlier steps desire, and the bases.
ExistingNothing(step, resources) ==
  IF step.target = "PatchResources" THEN SeedBases(<<>>, step.bases) ELSE <<>>
Existing(step, resources) ==
  IF step.target = "PatchResources" THEN SeedBases(resources, step.bases) ELSE resources

\* The assertions of a gated package come before its items.
Fatal(step, observed, answers, desires) ==
  \/ step.gated /\ Denied(answers)
  \/ ~Accepts(Rendered(step, observed, answers), step.target, Existing(step, desires.resources))

\* A response has a requirements message only if there is something to ask
\* for, so the empty set is the absent message.
Response(step, observed, answers, desires) ==
  LET items == Rendered(step, observed, answers) IN
    [desired |->
       [composite |-> Composite(items, step.target, MergeIdentity(desires.composite)),
        resources |-> Resources(items, step.target, Existing(step, desires.resources))],
     requirements |-> Asked(items, step.target)]

-----------------------------------------------------------------------------
(* Crossplane.                                                             *)

NothingDesired == [composite |-> <<>>, resources |-> <<>>]

\* What a step starts with.
Fresh(step, desires) ==
  /\ at' = step /\ desired' = desires
  /\ asked' = {} /\ fetched' = <<>> /\ fetches' = 0

Rest(why) ==
  /\ pc' = "idle" /\ failure' = why
  /\ Fresh(1, NothingDesired)

Reconcile ==
  /\ pc = "idle" /\ pc' = "calling"
  /\ seen' = spec
  /\ failure' = "none" /\ granted' = FALSE
  /\ Fresh(1, NothingDesired)
  /\ UNCHANGED <<spec, record, live, faults, moves>>

\* Call and the ways its response is taken: a fatal result, requirements that
\* are those of the call before, and requirements that are not.
Call ==
  /\ pc = "calling"
  /\ IF Fatal(Pipeline[at], seen, fetched, desired) THEN Rest("Fatal")
     ELSE \E response \in {Response(Pipeline[at], seen, fetched, desired)} :
       IF response.requirements = asked
       THEN /\ Fresh(at + 1, response.desired)
            /\ pc' = IF at = Len(Pipeline) THEN "applying" ELSE "calling"
            /\ UNCHANGED failure
       ELSE IF fetches = MaxFetches THEN Rest("Unsettled")
       ELSE /\ pc' = "fetching"
            /\ asked' = response.requirements
            /\ UNCHANGED <<at, desired, fetched, fetches, failure>>
  /\ UNCHANGED <<spec, record, live, seen, granted, faults, moves>>

\* The requirements are looked up, and the step is called again from the start:
\* the first response's desired state is thrown away.
Fetch ==
  /\ pc = "fetching" /\ pc' = "calling"
  /\ fetched' = [k \in asked |-> record]
  /\ granted' = (granted \/ record = "grants")
  /\ fetches' = fetches + 1
  /\ UNCHANGED <<spec, record, live, seen, at, desired, asked, failure, faults, moves>>

\* The live resources become the desired ones; others are deleted.
ApplyDesired ==
  /\ pc = "applying"
  /\ live' = [n \in DOMAIN desired.resources |-> desired.resources[n].doc]
  /\ Rest("none")
  /\ UNCHANGED <<spec, record, seen, granted, faults, moves>>

\* The function's render fails (a pull, a KCL error, a panic): a fatal result.
\* Or the gRPC call does: the function restarts, the network is cut.
RenderFails ==
  /\ pc = "calling"
  /\ faults < MaxFaults /\ faults' = faults + 1
  /\ \E why \in {"Fatal", "Lost"} : Rest(why)
  /\ UNCHANGED <<spec, record, live, seen, granted, moves>>

\* A user edits the XR, or billing the tenant's record, at any time.
Others ==
  /\ moves < MaxMoves /\ moves' = moves + 1
  /\ \/ spec' \in Specs /\ UNCHANGED record
     \/ record' \in Records /\ UNCHANGED spec
  /\ UNCHANGED <<live, pc, seen, call, failure, granted, faults>>

-----------------------------------------------------------------------------
Init ==
  /\ spec \in Specs /\ record \in Records
  /\ live = <<>>
  /\ pc = "idle" /\ seen = spec
  /\ at = 1 /\ desired = NothingDesired
  /\ asked = {} /\ fetched = <<>> /\ fetches = 0
  /\ failure = "none" /\ granted = FALSE
  /\ faults = 0 /\ moves = 0

Pipelining == Reconcile \/ Call \/ Fetch \/ ApplyDesired

Next == Pipelining \/ RenderFails \/ Others

\* Crossplane reconciles an XR again and again, and finishes what it began.
Spec == Init /\ [][Next]_vars /\ WF_vars(Pipelining)

-----------------------------------------------------------------------------
(* Properties.                                                             *)

\* The items of a step that compose or patch, for a spec.
Items(step, s) == Range(step.items[s])
Composes(step, s) ==
  {i \in Items(step, s) : ~Patches(step.target) /\ IsComposed(step.target, i)}
Names(step, s) ==
  {i.name : i \in Composes(step, s)} \cup
  (IF step.target = "PatchResources" THEN DOMAIN step.bases ELSE {})

Steps == DOMAIN Pipeline
Wanted(s) == UNION {Names(Pipeline[i], s) : i \in Steps}

\* The names that gated packages alone compose.
NamesOfSteps(js) == UNION {Names(Pipeline[i], s) : i \in js, s \in Specs}
Paid == NamesOfSteps({i \in Steps : Pipeline[i].gated})
        \ NamesOfSteps({i \in Steps : ~Pipeline[i].gated})

\* "refuses to compose anything unless that record grants the feature" (lib.k):
\* what only gated packages compose comes to life only in a reconcile that
\* has read a record that grants it, whatever billing does meanwhile.
GateFailsClosed ==
  [][(DOMAIN live' \ DOMAIN live) \cap Paid # {} => granted]_vars

\* "Dropping them would delete the live resources" (function.rs): a live
\* resource is deleted only when the spec just rendered has no use for it;
\* never because a record is pending or denied or a step has failed.
DeletesOnlyOnPurpose ==
  [][(DOMAIN live \ DOMAIN live') \cap Wanted(seen) = {}]_vars

\* Some later step takes the section away by a null.
Nulled(i, name, section) ==
  \E j \in (i + 1)..(at - 1) : \E p \in Items(Pipeline[j], seen) :
    /\ p.name = name /\ Patches(Pipeline[j].target)
    /\ section \in DOMAIN p.doc /\ p.doc[section] = Null

\* "Starts from whatever earlier pipeline steps desired" (compose.rs): all that
\* earlier steps composed is still desired, with every section they gave it
\* but those a patch has nulled.
EarlierStepsKept ==
  \A i \in 1..(at - 1) :
    /\ Names(Pipeline[i], seen) \subseteq DOMAIN desired.resources
    /\ \A item \in Composes(Pipeline[i], seen) : \A s \in DOMAIN item.doc :
         s \in DOMAIN desired.resources[item.name].doc \/ Nulled(i, item.name, s)

\* The item nulls neither the field nor the section that it is in.
Gentle(item, section, field) ==
  /\ section \in DOMAIN item.doc => item.doc[section] # Null
  /\ Has(item.doc, section, field) => item.doc[section][field] # Null

\* "repointing a desired resource at another GVK or name orphans the live one,
\* so they survive the patch" (compose.rs): through all the items of a patch
\* step, an identity field that a desired resource has stays what it was,
\* unless one of them nulls it, or its section: the code lets that through.
IdentitySurvives ==
  [][ at' = at + 1 /\ Patches(Pipeline[at].target) =>
        \A n \in DOMAIN desired.resources : \A path \in IdentityPaths :
          LET s == path[1]
              f == path[2]
              old == desired.resources[n].doc
              new == desired'.resources[n].doc
          IN  Has(old, s, f) =>
                \/ Has(new, s, f) /\ new[s][f] = old[s][f]
                \/ \E p \in Items(Pipeline[at], seen) : p.name = n /\ ~Gentle(p, s, f) ]_vars

\* "Crossplane re-runs the whole step while it keeps changing" (compose.rs):
\* no reconcile gives up on requirements that do not settle.
RequirementsSettle == failure # "Unsettled"

\* No item of the pipeline is one that composition rejects.
Valid(s) ==
  \A i \in Steps : \A item \in Items(Pipeline[i], s) :
    /\ item.ready \in ReadyValues
    /\ Patches(Pipeline[i].target) =>
         \E j \in 1..i : item.name \in Names(Pipeline[j], s)

\* An entitled tenant's resources become those of its spec and stay so.
ReachesDesired ==
  \A s \in Specs :
    Valid(s) => (<>[](spec = s /\ record = "grants") => <>[](DOMAIN live = Wanted(s)))
=============================================================================
