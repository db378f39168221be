-------------------------- MODULE CompositionProofs --------------------------
(* What Composition guarantees for every pipeline, every spec and any number *)
(* of edits and failures: the gate fails closed, nothing that the spec wants  *)
(* is deleted, requirements settle, and what earlier steps composed is kept.  *)
EXTENDS Composition, WellFoundedInduction, TLAPS

\* The names a list of items composes under a target, as NamesOf and Names
\* both count them.
LEMMA NamesOfStep ==
  ASSUME NEW step, NEW s
  PROVE  /\ Patches(step.target) => Composes(step, s) = {}
         /\ ~Patches(step.target) =>
              {i.name : i \in Composes(step, s)} = NamesOf(step.items[s], step.target)
BY DEF Composes, Items, NamesOf

\* The items of a step and the request in front of them.
LEMMA RequestInFront ==
  ASSUME NEW items, items \in Seq(Range(items))
  PROVE  /\ Range(<<Request>> \o items) = {Request} \cup Range(items)
         /\ Range(<<Request>>) = {Request}
<1> DEFINE both == <<Request>> \o items
<1>1. Range(<<Request>>) = {Request}
  BY DEF Range
<1>2. ASSUME NEW r \in Range(both) PROVE r \in {Request} \cup Range(items)
  <2>1. PICK i \in DOMAIN both : r = both[i]
    BY <1>2 DEF Range
  <2>2. CASE i = 1
    BY <2>1, <2>2
  <2>3. CASE i # 1
    <3>1. i - 1 \in DOMAIN items /\ both[i] = items[i - 1]
      BY <2>1, <2>3
    <3> QED BY <2>1, <3>1 DEF Range
  <2> QED BY <2>2, <2>3
<1>3. Request \in Range(both)
  <2>1. 1 \in DOMAIN both /\ both[1] = Request
    OBVIOUS
  <2> QED BY <2>1 DEF Range
<1>4. ASSUME NEW r \in Range(items) PROVE r \in Range(both)
  <2>1. PICK i \in DOMAIN items : r = items[i]
    BY <1>4 DEF Range
  <2>2. i + 1 \in DOMAIN both /\ both[i + 1] = items[i]
    BY <2>1
  <2> QED BY <2>1, <2>2 DEF Range
<1> QED BY <1>1, <1>2, <1>3, <1>4

\* A call that is accepted has no request among what it composes: only Default
\* reads requests, and elsewhere one has no name.
LEMMA RequestIsNotComposed ==
  ASSUME NEW items, NEW target, NEW resources,
         Accepts(items, target, resources), Request \in Range(items)
  PROVE  ~IsComposed(target, Request)
<1>1. PICK i \in DOMAIN items : items[i] = Request
  BY DEF Range
<1>2. IsComposed(target, Request) => Request.name # Null
  BY <1>1 DEF Accepts, IsComposed
<1> QED BY <1>2 DEF Request

\* What a call that is not fatal makes of the names desired: it keeps them, adds
\* those of its step and no other, all of them once the record is there and
\* none before; and before, it asks for the record if it composes at all.
LEMMA CallComposes ==
  ASSUME NEW step, NEW s, NEW answers, NEW desires,
         step.target \in Targets, step.items[s] \in Seq(Range(step.items[s])),
         ~Fatal(step, s, answers, desires)
  PROVE  LET response == Response(step, s, answers, desires)
             names == DOMAIN response.desired.resources
             old == DOMAIN desires.resources
         IN  /\ old \subseteq names
             /\ names \subseteq old \cup Names(step, s)
             /\ step.gated /\ Pending(answers) =>
                  /\ names = old
                  /\ Names(step, s) = {} \/ EntitlementKey \in response.requirements
             /\ ~(step.gated /\ Pending(answers)) => Names(step, s) \subseteq names
<1> DEFINE items == Rendered(step, s, answers)
           start == Existing(step, desires.resources)
           response == Response(step, s, answers, desires)
           names == DOMAIN response.desired.resources
           old == DOMAIN desires.resources
           bases == IF step.target = "PatchResources" THEN DOMAIN step.bases ELSE {}
           composed == {i.name : i \in Composes(step, s)}
<1>1. Accepts(items, step.target, start)
  BY DEF Fatal
<1>2. DOMAIN start = old \cup bases
  BY DEF Existing, SeedBases, Overlay
<1>3. names = DOMAIN Resources(items, step.target, start)
  BY DEF Response
<1>4. names = old \cup bases \cup
         (IF Patches(step.target) THEN {} ELSE NamesOf(items, step.target))
  BY <1>2, <1>3 DEF Resources
<1>5. Names(step, s) = bases \cup composed
  BY DEF Names
<1>6. bases # {} => Patches(step.target)
  BY DEF Patches
<1>7. Patches(step.target) => composed = {}
  BY NamesOfStep
<1>8. CASE step.gated /\ Pending(answers)
  <2>1. items = <<Request>>
    BY <1>8 DEF Rendered
  <2>2. Range(items) = {Request}
    BY <2>1, RequestInFront
  <2>3. ~IsComposed(step.target, Request)
    BY <1>1, <2>2, RequestIsNotComposed
  <2>4. NamesOf(items, step.target) = {}
    BY <2>2, <2>3 DEF NamesOf
  <2>5. ~Patches(step.target)
    BY <2>3 DEF Patches, IsComposed, IsMeta, IsCompositePatch
  <2>6. step.target \in {"Default", "XR"}
    BY <2>3, <2>5 DEF Targets, Patches, IsComposed, IsMeta, IsCompositePatch
  <2>7. CASE step.target = "XR"
    <3>1. composed = {}
      BY <2>7 DEF Composes, IsComposed, IsCompositePatch
    <3> QED BY <1>4, <1>5, <1>6, <1>8, <2>4, <2>5, <3>1
  <2>8. CASE step.target = "Default"
    <3>1. IsMeta(step.target, Request) /\ Key(Request) = EntitlementKey
      <4>1. Gvk(Request.doc) = "RequiredResources"
        BY DEF Request, Gvk, Has
      <4>2. Request.key = "entitlement"
        BY DEF Request
      <4> QED BY <2>8, <4>1, <4>2 DEF IsMeta, Key, EntitlementKey, MetaKinds
    <3>2. EntitlementKey \in Asked(items, step.target)
      BY <2>2, <3>1 DEF Asked
    <3>3. EntitlementKey \in response.requirements
      BY <3>2 DEF Response
    <3> QED BY <1>4, <1>5, <1>6, <1>8, <2>4, <2>5, <3>3
  <2> QED BY <2>6, <2>7, <2>8
<1>9. CASE ~(step.gated /\ Pending(answers))
  <2>1. items \in {step.items[s], <<Request>> \o step.items[s]}
    BY <1>9 DEF Rendered
  <2>2. ~Patches(step.target) => NamesOf(items, step.target) = composed
    <3>1. CASE items = step.items[s]
      BY <3>1, NamesOfStep
    <3>2. CASE items = <<Request>> \o step.items[s]
      <4>1. Range(items) = {Request} \cup Range(step.items[s])
        BY <3>2, RequestInFront
      <4>2. ~IsComposed(step.target, Request)
        BY <1>1, <4>1, RequestIsNotComposed
      <4>3. NamesOf(items, step.target) = NamesOf(step.items[s], step.target)
        BY <4>1, <4>2 DEF NamesOf
      <4> QED BY <4>3, NamesOfStep
    <3> QED BY <2>1, <3>1, <3>2
  <2> QED BY <1>4, <1>5, <1>6, <1>7, <1>9, <2>2
<1> QED BY <1>8, <1>9

-----------------------------------------------------------------------------
(* The invariant.                                                          *)

\* Where the reconcile stands, and that it rendered a spec a user wrote.
Standing ==
  /\ spec \in Specs /\ seen \in Specs
  /\ at \in Nat \ {0}
  /\ pc \in {"idle", "calling", "fetching", "applying"}
  /\ pc \in {"calling", "fetching"} => at \in Steps
  /\ pc = "applying" => at = Len(Pipeline) + 1

\* A call is handed what the call before asked for; a record that grants the
\* feature has been seen to do so.
Answering ==
  /\ pc = "calling" => DOMAIN fetched = asked
  /\ \A k \in DOMAIN fetched : fetched[k] = "grants" => granted

\* What is paid for is desired only when the record has granted it.
Earned == DOMAIN desired.resources \cap Paid # {} => granted

\* Every step gone through has its names in the desired state.
Kept == \A i \in 1..(at - 1) : Names(Pipeline[i], seen) \subseteq DOMAIN desired.resources

Reconciling == Standing /\ Answering /\ Earned /\ Kept

LEMMA PipelineIsSequence ==
  /\ Len(Pipeline) \in Nat \ {0} /\ Steps = 1..Len(Pipeline)
  /\ \A i \in Steps : /\ Pipeline[i].target \in Targets
                      /\ \A s \in Specs :
                           Pipeline[i].items[s] \in Seq(Range(Pipeline[i].items[s]))
BY CompositionAssumption DEF Steps, Range

\* A reconcile that begins or rests desires nothing yet.
LEMMA FreshStart ==
  ASSUME Standing, Fresh(1, NothingDesired), spec' \in Specs, seen' \in Specs,
         pc' \in {"idle", "calling"}
  PROVE  Reconciling'
<1>1. at' = 1 /\ desired'.resources = <<>> /\ asked' = {} /\ fetched' = <<>>
  BY DEF Fresh, NothingDesired
<1>2. DOMAIN desired'.resources = {} /\ DOMAIN fetched' = {}
  BY <1>1
<1>3. Standing'
  BY <1>1, PipelineIsSequence DEF Standing, Steps
<1>4. Answering'
  BY <1>1, <1>2 DEF Answering
<1>5. Earned'
  BY <1>2 DEF Earned
<1>6. Kept'
  BY <1>1 DEF Kept
<1> QED BY <1>3, <1>4, <1>5, <1>6 DEF Reconciling

\* A name of a gated step is paid for only if no other step composes it.
LEMMA FreeOfCharge ==
  ASSUME NEW i \in Steps, NEW s \in Specs, ~Pipeline[i].gated
  PROVE  Names(Pipeline[i], s) \cap Paid = {}
BY DEF Paid, NamesOfSteps

\* A call that is taken: the step's names join the desired ones.
LEMMA CallKeepsReconciling ==
  ASSUME Reconciling, Call
  PROVE  Reconciling'
<1> DEFINE step == Pipeline[at]
           response == Response(step, seen, fetched, desired)
<1>1. Standing /\ Answering /\ Earned /\ Kept /\ pc = "calling" /\ at \in Steps
  BY DEF Reconciling, Standing, Call
<1>2. /\ spec' = spec /\ seen' = seen /\ granted' = granted
      /\ spec \in Specs /\ seen \in Specs
  BY <1>1 DEF Call, Standing
<1>3. CASE \E why \in {"Fatal", "Unsettled"} : Rest(why)
  <2>1. Fresh(1, NothingDesired) /\ pc' = "idle"
    BY <1>3 DEF Rest
  <2> QED BY <1>1, <1>2, <2>1, FreshStart
<1>4. CASE /\ ~Fatal(step, seen, fetched, desired)
           /\ response.requirements = asked
           /\ Fresh(at + 1, response.desired)
           /\ pc' = IF at = Len(Pipeline) THEN "applying" ELSE "calling"
  <2> DEFINE names == DOMAIN response.desired.resources
             old == DOMAIN desired.resources
  <2>1. /\ at' = at + 1 /\ desired' = response.desired
        /\ asked' = {} /\ fetched' = <<>>
    BY <1>4 DEF Fresh
  <2>2. step.target \in Targets /\ step.items[seen] \in Seq(Range(step.items[seen]))
    BY <1>1, <1>2, PipelineIsSequence
  <2>3. /\ old \subseteq names
        /\ names \subseteq old \cup Names(step, seen)
        /\ step.gated /\ Pending(fetched) =>
             /\ names = old
             /\ Names(step, seen) = {} \/ EntitlementKey \in response.requirements
        /\ ~(step.gated /\ Pending(fetched)) => Names(step, seen) \subseteq names
    BY <1>4, <2>2, CallComposes
  <2>4. Standing'
    <3>1. at + 1 \in Nat \ {0}
      BY <1>1 DEF Standing
    <3>2. at # Len(Pipeline) => at + 1 \in Steps
      BY <1>1, PipelineIsSequence
    <3> QED BY <1>1, <1>2, <1>4, <2>1, <3>1, <3>2 DEF Standing, Steps
  <2>5. Answering'
    <3>1. DOMAIN fetched' = {}
      BY <2>1
    <3> QED BY <2>1, <3>1 DEF Answering
  <2>6. Earned'
    <3>1. CASE step.gated /\ Pending(fetched)
      BY <1>1, <1>2, <2>1, <2>3, <3>1 DEF Earned
    <3>2. CASE ~step.gated
      <4>1. Names(step, seen) \cap Paid = {}
        BY <1>1, <1>2, <3>2, FreeOfCharge
      <4> QED BY <1>1, <1>2, <2>1, <2>3, <4>1 DEF Earned
    <3>3. CASE step.gated /\ ~Pending(fetched)
      <4>1. EntitlementKey \in DOMAIN fetched /\ fetched[EntitlementKey] = "grants"
        BY <1>4, <3>3 DEF Fatal, Denied, Pending
      <4> QED BY <1>1, <1>2, <4>1 DEF Answering, Earned
    <3> QED BY <3>1, <3>2, <3>3
  <2>7. Names(step, seen) \subseteq names
    <3>1. EntitlementKey \in response.requirements => ~Pending(fetched)
      BY <1>1, <1>4 DEF Answering, Pending
    <3> QED BY <2>3, <3>1
  <2>8. Kept'
    <3> SUFFICES ASSUME NEW i \in 1..(at' - 1)
                 PROVE  Names(Pipeline[i], seen) \subseteq names
      BY <1>2, <2>1 DEF Kept
    <3>1. CASE i = at
      BY <2>7, <3>1
    <3>2. CASE i # at
      <4>1. i \in 1..(at - 1)
        BY <1>1, <2>1, <3>2 DEF Standing
      <4> QED BY <1>1, <2>3, <4>1 DEF Kept
    <3> QED BY <3>1, <3>2
  <2> QED BY <2>4, <2>5, <2>6, <2>8 DEF Reconciling
<1>5. CASE pc' = "fetching" /\ UNCHANGED <<at, desired, fetched>>
  <2>1. Standing'
    BY <1>1, <1>2, <1>5 DEF Standing, Steps
  <2>2. Answering' /\ Earned' /\ Kept'
    BY <1>1, <1>2, <1>5 DEF Answering, Earned, Kept
  <2> QED BY <2>1, <2>2 DEF Reconciling
<1> QED BY <1>3, <1>4, <1>5 DEF Call

LEMMA StepKeepsReconciling ==
  ASSUME Reconciling, [Next]_vars
  PROVE  Reconciling'
<1> USE DEF Reconciling
<1>1. CASE Reconcile
  <2>1. Fresh(1, NothingDesired) /\ pc' = "calling" /\ spec' \in Specs /\ seen' \in Specs
    BY <1>1 DEF Reconcile, Standing
  <2> QED BY <2>1, FreshStart
<1>2. CASE Call
  BY <1>2, CallKeepsReconciling
<1>3. CASE Fetch
  <2>1. pc = "fetching" /\ pc' = "calling" /\ fetched' = [k \in asked |-> record]
        /\ asked' = asked /\ desired' = desired /\ at' = at /\ seen' = seen /\ spec' = spec
        /\ granted' = (granted \/ record = "grants")
    BY <1>3 DEF Fetch
  <2>2. Standing' /\ Kept'
    BY <2>1 DEF Standing, Kept, Steps
  <2>3. Answering' /\ Earned'
    BY <2>1 DEF Answering, Earned
  <2> QED BY <2>2, <2>3
<1>4. CASE ApplyDesired
  <2>1. Fresh(1, NothingDesired) /\ pc' = "idle" /\ spec' \in Specs /\ seen' \in Specs
    BY <1>4 DEF ApplyDesired, Rest, Standing
  <2> QED BY <2>1, FreshStart
<1>5. CASE RenderFails
  <2>1. Fresh(1, NothingDesired) /\ pc' = "idle" /\ spec' \in Specs /\ seen' \in Specs
    BY <1>5 DEF RenderFails, Rest, Standing
  <2> QED BY <2>1, FreshStart
<1>6. CASE Others
  <2>1. spec' \in Specs
    BY <1>6 DEF Others, Standing
  <2>2. UNCHANGED <<pc, seen, at, desired, asked, fetched, granted>>
    BY <1>6 DEF Others, call
  <2> QED BY <2>1, <2>2 DEF Standing, Answering, Earned, Kept, Steps
<1>7. CASE UNCHANGED vars
  BY <1>7 DEF vars, call, Standing, Answering, Earned, Kept, Steps
<1> QED BY <1>1, <1>2, <1>3, <1>4, <1>5, <1>6, <1>7 DEF Next, Pipelining

LEMMA InitReconciling == Init => Reconciling
<1> SUFFICES ASSUME Init PROVE Reconciling
  OBVIOUS
<1>1. DOMAIN desired.resources = {} /\ DOMAIN fetched = {} /\ at = 1 /\ pc = "idle"
  BY DEF Init, NothingDesired
<1>2. Standing
  BY <1>1 DEF Init, Standing
<1> QED BY <1>1, <1>2 DEF Reconciling, Answering, Earned, Kept, Init

LEMMA AlwaysReconciling == Spec => []Reconciling
BY InitReconciling, StepKeepsReconciling, PTL DEF Spec

-----------------------------------------------------------------------------
(* The theorems.                                                           *)

\* Only ApplyDesired touches live resources, and it makes them the desired
\* ones.
LEMMA LiveBecomesDesired ==
  ASSUME [Next]_vars
  PROVE  \/ live' = live
         \/ pc = "applying" /\ granted' = granted
            /\ DOMAIN live' = DOMAIN desired.resources
BY DEF Next, Pipelining, Reconcile, Call, Fetch, ApplyDesired, RenderFails, Others, vars

\* The gate: whatever billing and users do and wherever a reconcile fails, what
\* only gated packages compose is brought to life by no reconcile that has
\* not read a record granting the feature.
THEOREM GateHolds == Spec => GateFailsClosed
<1>1. Reconciling /\ [Next]_vars
        => ((DOMAIN live' \ DOMAIN live) \cap Paid # {} => granted)
  BY LiveBecomesDesired DEF Reconciling, Earned
<1>2. Reconciling /\ [Next]_vars
        => [(DOMAIN live' \ DOMAIN live) \cap Paid # {} => granted]_vars
  BY <1>1
<1> QED BY <1>2, AlwaysReconciling, PTL DEF Spec, GateFailsClosed

\* Deletion: no live resource that the rendered spec wants is ever deleted,
\* in particular not by the call that goes out before the record is there.
THEOREM WantedIsKept == Spec => DeletesOnlyOnPurpose
<1>1. Reconciling /\ [Next]_vars
        => (DOMAIN live \ DOMAIN live') \cap Wanted(seen) = {}
  <2> SUFFICES ASSUME Reconciling, [Next]_vars,
                      pc = "applying", DOMAIN live' = DOMAIN desired.resources
               PROVE  (DOMAIN live \ DOMAIN live') \cap Wanted(seen) = {}
    BY LiveBecomesDesired
  <2>1. at - 1 = Len(Pipeline)
    BY PipelineIsSequence DEF Reconciling, Standing
  <2>2. \A i \in Steps : Names(Pipeline[i], seen) \subseteq DOMAIN desired.resources
    BY <2>1, PipelineIsSequence DEF Reconciling, Kept
  <2> QED BY <2>2 DEF Wanted
<1>2. Reconciling /\ [Next]_vars
        => [(DOMAIN live \ DOMAIN live') \cap Wanted(seen) = {}]_vars
  BY <1>1
<1> QED BY <1>2, AlwaysReconciling, PTL DEF Spec, DeletesOnlyOnPurpose

-----------------------------------------------------------------------------
(* Requirements.  A step asks for what its spec asks for; a gated one asks for *)
(* the record first and for the rest once it is there.  So a reconcile that     *)
(* allows two more calls of a step always gets through.                      *)

Requirements(step, s, answers) == Asked(Rendered(step, s, answers), step.target)

LEMMA RequirementsOfCall ==
  ASSUME NEW step, NEW s, NEW answers, NEW desires
  PROVE  Response(step, s, answers, desires).requirements = Requirements(step, s, answers)
BY DEF Response, Requirements

Listed(step, s) == step.items[s] \in Seq(Range(step.items[s]))

LEMMA RequirementsVary ==
  ASSUME NEW step, NEW s, Listed(step, s), NEW a, NEW b
  PROVE  /\ ~step.gated => Requirements(step, s, a) = Requirements(step, s, b)
         /\ (Pending(a) <=> Pending(b)) => Requirements(step, s, a) = Requirements(step, s, b)
         /\ step.gated /\ Pending(a) /\ Requirements(step, s, a) # {}
              => EntitlementKey \in Requirements(step, s, b)
<1>1. ~step.gated \/ (Pending(a) <=> Pending(b)) => Rendered(step, s, a) = Rendered(step, s, b)
  BY DEF Rendered
<1>2. ASSUME step.gated, Pending(a), Requirements(step, s, a) # {}
      PROVE  EntitlementKey \in Requirements(step, s, b)
  <2>1. Rendered(step, s, a) = <<Request>>
    BY <1>2 DEF Rendered
  <2>2. Range(<<Request>>) = {Request} /\ Request \in Range(<<Request>> \o step.items[s])
    BY RequestInFront DEF Listed
  <2>3. IsMeta(step.target, Request)
    BY <1>2, <2>1, <2>2 DEF Requirements, Asked
  <2>4. Request \in Range(Rendered(step, s, b))
    BY <1>2, <2>2 DEF Rendered
  <2>5. Key(Request) = EntitlementKey
    <3>1. Gvk(Request.doc) = "RequiredResources"
      BY DEF Request, Gvk, Has
    <3>2. Request.key = "entitlement"
      BY DEF Request
    <3> QED
      BY <3>1, <3>2 DEF Key, EntitlementKey
  <2>6. Key(Request) \in Asked(Rendered(step, s, b), step.target)
    BY <2>3, <2>4 DEF Asked
  <2> QED
    BY <2>5, <2>6 DEF Requirements
<1> QED
  BY <1>1, <1>2 DEF Requirements

\* How often what is asked for has changed since the step was first called.
Round == IF pc = "fetching" THEN fetches + 1 ELSE fetches

Settling ==
  /\ failure # "Unsettled" /\ fetches \in Nat
  /\ pc \in {"calling", "fetching"} =>
       \/ pc = "calling" /\ fetches = 0 /\ asked = {}
       \/ /\ Round = 1 /\ asked # {}
          /\ asked = Requirements(Pipeline[at], seen, <<>>)
       \/ /\ Round = 2 /\ Pipeline[at].gated /\ EntitlementKey \in asked
          /\ \E answers : ~Pending(answers) /\ asked = Requirements(Pipeline[at], seen, answers)

\* A step starts over, or the reconcile ends, not for want of rounds.
LEMMA FreshSettles ==
  ASSUME NEW step, NEW desires, Fresh(step, desires), failure' # "Unsettled",
         pc' # "fetching"
  PROVE  Settling'
BY DEF Fresh, Settling

\* A call that changes what is asked for is the first, or the one that had the record.
LEMMA CallSettles ==
  ASSUME Reconciling, Settling, Call, MaxFetches >= 2
  PROVE  Settling'
<1> DEFINE step == Pipeline[at]
           response == Response(step, seen, fetched, desired)
<1>1. /\ Standing /\ Answering /\ pc = "calling" /\ at \in Steps /\ seen \in Specs
      /\ failure # "Unsettled" /\ fetches \in Nat /\ MaxFetches \in Nat
  BY CompositionAssumption DEF Reconciling, Standing, Call, Settling
<1>2. Listed(step, seen)
  BY <1>1, PipelineIsSequence DEF Listed
<1>3. /\ Pending(<<>>) /\ DOMAIN fetched = asked
      /\ response.requirements = Requirements(step, seen, fetched)
  <2>1. DOMAIN <<>> = {}
    OBVIOUS
  <2> QED
    BY <1>1, <2>1, RequirementsOfCall DEF Pending, Answering
<1>4. CASE \E why \in {"Fatal"} : Rest(why)
  BY <1>4, FreshSettles DEF Rest
<1>5. CASE /\ Fresh(at + 1, response.desired)
           /\ pc' = IF at = Len(Pipeline) THEN "applying" ELSE "calling"
           /\ UNCHANGED failure
  BY <1>1, <1>5, FreshSettles
<1>6. ASSUME response.requirements # asked
      PROVE  \/ fetches = 0 /\ asked = {} /\ response.requirements = Requirements(step, seen, <<>>)
             \/ /\ fetches = 1 /\ step.gated /\ EntitlementKey \in response.requirements
                /\ ~Pending(fetched)
  <2>1. CASE fetches = 0 /\ asked = {}
    <3>1. Pending(fetched)
      BY <1>3, <2>1 DEF Pending
    <3>2. Requirements(step, seen, fetched) = Requirements(step, seen, <<>>)
      BY <1>2, <1>3, <3>1, RequirementsVary
    <3> QED
      BY <1>3, <2>1, <3>2
  <2>2. CASE Round = 1 /\ asked # {} /\ asked = Requirements(step, seen, <<>>)
    <3>1. step.gated
      <4>1. ~step.gated => Requirements(step, seen, fetched) = Requirements(step, seen, <<>>)
        BY <1>2, RequirementsVary
      <4>2. Requirements(step, seen, fetched) # Requirements(step, seen, <<>>)
        BY <1>3, <1>6, <2>2
      <4> QED
        BY <4>1, <4>2
    <3>2. EntitlementKey \in asked
      BY <1>2, <1>3, <2>2, <3>1, RequirementsVary
    <3>3. EntitlementKey \in Requirements(step, seen, fetched)
      BY <1>2, <1>3, <2>2, <3>1, RequirementsVary
    <3> QED
      BY <1>1, <1>3, <2>2, <3>1, <3>2, <3>3 DEF Round, Pending
  <2>3. CASE /\ Round = 2 /\ step.gated /\ EntitlementKey \in asked
             /\ \E answers : ~Pending(answers) /\ asked = Requirements(step, seen, answers)
    <3>1. ~Pending(fetched)
      BY <1>3, <2>3 DEF Pending
    <3>2. PICK answers : ~Pending(answers) /\ asked = Requirements(step, seen, answers)
      BY <2>3
    <3>3. Requirements(step, seen, fetched) = Requirements(step, seen, answers)
      BY <1>2, <3>1, <3>2, RequirementsVary
    <3> QED
      BY <1>3, <1>6, <3>2, <3>3
  <2> QED
    BY <1>1, <2>1, <2>2, <2>3 DEF Settling
<1>7. fetches # MaxFetches \/ response.requirements = asked
  BY <1>1, <1>6
<1>8. CASE /\ response.requirements # asked /\ pc' = "fetching"
           /\ asked' = response.requirements
           /\ UNCHANGED <<at, desired, fetched, fetches, failure>>
  <2>1. seen' = seen
    BY DEF Call
  <2>2. Round' = fetches + 1
    BY <1>8 DEF Round
  <2>3. CASE fetches = 0 /\ asked = {} /\ response.requirements = Requirements(step, seen, <<>>)
    BY <1>1, <1>8, <2>1, <2>2, <2>3 DEF Settling
  <2>4. CASE /\ fetches = 1 /\ step.gated /\ EntitlementKey \in response.requirements
             /\ ~Pending(fetched)
    <3>1. Round' = 2
      BY <2>2, <2>4
    <3>2. asked' = Requirements(Pipeline[at'], seen', fetched) /\ Pipeline[at'].gated
      BY <1>3, <1>8, <2>1, <2>4
    <3> QED
      BY <1>1, <1>8, <2>4, <3>1, <3>2 DEF Settling
  <2> QED
    BY <1>6, <1>8, <2>3, <2>4
<1> HIDE DEF response, step
<1> QED
  BY <1>4, <1>5, <1>7, <1>8 DEF Call, step, response

LEMMA StepSettles ==
  ASSUME Reconciling, Settling, [Next]_vars, MaxFetches >= 2
  PROVE  Settling'
<1>1. CASE Reconcile \/ ApplyDesired \/ RenderFails
  BY <1>1, FreshSettles DEF Reconcile, ApplyDesired, RenderFails, Rest
<1>2. CASE Call
  BY <1>2, CallSettles
<1>3. CASE Fetch
  <2>1. /\ pc = "fetching" /\ pc' = "calling" /\ fetches' = fetches + 1
        /\ UNCHANGED <<at, seen, asked, failure>>
    BY <1>3 DEF Fetch
  <2>2. Round' = Round
    BY <2>1 DEF Round
  <2> QED
    BY <2>1, <2>2 DEF Settling
<1>4. CASE Others \/ UNCHANGED vars
  BY <1>4 DEF Others, vars, call, Settling, Round
<1> QED
  BY <1>1, <1>2, <1>3, <1>4 DEF Next, Pipelining

\* Crossplane gives up on a step that asks for more five times in a row (two would
\* do): no pipeline, gated or not, ever makes it.
THEOREM RequirementsDoSettle ==
  ASSUME MaxFetches >= 2 PROVE Spec => []RequirementsSettle
<1>1. Init => Settling
  BY DEF Init, Settling
<1>2. Settling => RequirementsSettle
  BY DEF Settling, RequirementsSettle
<1>3. Reconciling /\ Settling /\ [Next]_vars => Settling'
  BY StepSettles
<1> QED
  BY <1>1, <1>2, <1>3, AlwaysReconciling, PTL DEF Spec

-----------------------------------------------------------------------------
(* Folds.  The items of a step are folded into a resource one by one; what the *)
(* fold computes is what its last round does.                               *)

LEMMA LeastNat ==
  ASSUME NEW T \in SUBSET Nat, T # {}
  PROVE  \E k \in T : \A j \in T : k <= j
<1>1. PICK k \in T : \A j \in T : ~(<<j, k>> \in OpToRel(<, Nat))
  BY WFMin, NatLessThanWellFounded
<1>2. ASSUME NEW j \in T PROVE k <= j
  <2>1. j \in Nat /\ k \in Nat
    OBVIOUS
  <2>2. ~(j < k)
    BY <1>1, <2>1 DEF OpToRel
  <2> QED
    BY <2>1, <2>2
<1> QED
  BY <1>2

Layered(f, n, doc, items, m) ==
  f = [s \in SUBSET (1..m) |->
         IF s = {} THEN doc ELSE PatchNamed(n, f[s \ {Max(s)}], items[Max(s)])]

LEMMA LastOfRange ==
  ASSUME NEW m \in Nat, NEW s \in SUBSET (1..(m + 1)), m + 1 \in s
  PROVE  Max(s) = m + 1
<1>1. \A y \in s : m + 1 >= y
  OBVIOUS
<1>2. Max(s) \in s /\ \A y \in s : Max(s) >= y
  BY <1>1 DEF Max
<1>3. Max(s) \in 1..(m + 1) /\ Max(s) >= m + 1
  BY <1>2
<1> QED
  BY <1>3

\* The recursive function under FoldLeft exists.
LEMMA LayersExist ==
  ASSUME NEW n, NEW doc, NEW items, NEW m \in Nat
  PROVE  \E f : Layered(f, n, doc, items, m)
<1> DEFINE Lacking == {k \in Nat : ~ \E f : Layered(f, n, doc, items, k)}
<1> SUFFICES ASSUME Lacking # {} PROVE FALSE
  OBVIOUS
<1>1. PICK k \in Lacking : \A j \in Lacking : k <= j
  BY LeastNat
<1>2. k \in Nat /\ ~ \E f : Layered(f, n, doc, items, k)
  BY <1>1
<1>3. CASE k = 0
  <2> DEFINE f == [s \in SUBSET (1..0) |-> doc]
  <2>1. \A s \in SUBSET (1..0) : s = {}
    OBVIOUS
  <2>2. Layered(f, n, doc, items, 0)
    BY <2>1 DEF Layered
  <2> QED
    BY <1>2, <1>3, <2>2
<1>4. CASE k # 0
  <2>1. PICK l \in Nat : k = l + 1
    <3>1. k - 1 \in Nat /\ k = (k - 1) + 1
      BY <1>2, <1>4
    <3> QED
      BY <3>1
  <2>2. PICK g : Layered(g, n, doc, items, l)
    <3>1. l \notin Lacking
      BY <1>1, <2>1
    <3> QED
      BY <3>1
  <2> DEFINE f == [s \in SUBSET (1..k) |->
                     IF k \in s THEN PatchNamed(n, g[s \ {k}], items[k]) ELSE g[s]]
             next(s) == IF s = {} THEN doc
                        ELSE PatchNamed(n, f[s \ {Max(s)}], items[Max(s)])
  <2>3. ASSUME NEW s \in SUBSET (1..k) PROVE f[s] = next(s)
    <3>1. CASE k \in s
      <4>1. Max(s) = k
        BY <2>1, <3>1, LastOfRange
      <4>2. s \ {k} \in SUBSET (1..k) /\ k \notin s \ {k}
        OBVIOUS
      <4>3. f[s \ {k}] = g[s \ {k}]
        BY <4>2
      <4> QED
        BY <3>1, <4>1, <4>3
    <3>2. CASE k \notin s
      <4>1. s \in SUBSET (1..l)
        BY <2>1, <3>2
      <4>2. g[s] = IF s = {} THEN doc ELSE PatchNamed(n, g[s \ {Max(s)}], items[Max(s)])
        BY <2>2, <4>1 DEF Layered
      <4>3. s \ {Max(s)} \in SUBSET (1..k) /\ k \notin s \ {Max(s)}
        BY <3>2
      <4>4. f[s \ {Max(s)}] = g[s \ {Max(s)}]
        BY <4>3
      <4> QED
        BY <3>2, <4>2, <4>4
    <3> QED
      BY <3>1, <3>2
  <2>4. f = [s \in SUBSET (1..k) |-> next(s)]
    BY <2>3
  <2>5. Layered(f, n, doc, items, k)
    BY <2>4 DEF Layered
  <2> QED
    BY <1>2, <2>5
<1> QED
  BY <1>3, <1>4

Folded(n, doc, items) == FoldLeft(LAMBDA d, item : PatchNamed(n, d, item), doc, items)

\* Round by round: g[k] is what the first k items have made of the document.
LEMMA FoldInRounds ==
  ASSUME NEW n, NEW doc, NEW items, NEW S, items \in Seq(S)
  PROVE  \E g : /\ g[0] = doc /\ g[Len(items)] = Folded(n, doc, items)
                /\ \A k \in 1..Len(items) : g[k] = PatchNamed(n, g[k - 1], items[k])
<1> DEFINE m == Len(items)
<1>1. m \in Nat /\ DOMAIN items = 1..m
  OBVIOUS
<1>2. PICK f : f = CHOOSE h : Layered(h, n, doc, items, m)
  OBVIOUS
<1>3. Layered(f, n, doc, items, m)
  BY <1>1, <1>2, LayersExist
<1>4. Folded(n, doc, items) = f[1..m]
  <2>1. Folded(n, doc, items) = (CHOOSE h : Layered(h, n, doc, items, m))[1..m]
    BY <1>1 DEF Folded, FoldLeft, MapThenFoldSet, Layered
  <2> QED
    BY <1>2, <2>1
<1> DEFINE g == [k \in 0..m |-> f[1..k]]
<1>5. g[0] = doc
  <2>1. {} \in SUBSET (1..m) /\ 1..0 = {} /\ 0 \in 0..m
    BY <1>1
  <2> QED
    BY <1>3, <2>1 DEF Layered
<1>6. g[m] = Folded(n, doc, items)
  BY <1>1, <1>4
<1>7. ASSUME NEW k \in 1..m PROVE g[k] = PatchNamed(n, g[k - 1], items[k])
  <2>1. 1..k \in SUBSET (1..m) /\ 1..k # {} /\ k - 1 \in 0..m /\ k \in 0..m
    <3>1. k \in Nat /\ k >= 1 /\ k <= m
      BY <1>1
    <3>2. k \in 1..k /\ k - 1 \in 0..m /\ k \in 0..m
      BY <1>1, <3>1
    <3>3. 1..k \subseteq 1..m
      BY <1>1, <3>1
    <3> QED
      BY <3>2, <3>3
  <2>2. Max(1..k) = k
    <3>1. k - 1 \in Nat /\ (k - 1) + 1 = k /\ k \in 1..k
      BY <1>1
    <3> QED
      BY <3>1, LastOfRange
  <2>3. (1..k) \ {k} = 1..(k - 1)
    BY <1>1
  <2>4. f[1..k] = PatchNamed(n, f[(1..k) \ {Max(1..k)}], items[Max(1..k)])
    BY <1>3, <2>1 DEF Layered
  <2> QED
    BY <2>1, <2>2, <2>3, <2>4
<1> QED
  BY <1>5, <1>6, <1>7

-----------------------------------------------------------------------------
(* What earlier steps composed.                                            *)

\* A patch drops no section but one that it sets to null.
Nulls(item, s) == s \in DOMAIN item.doc /\ item.doc[s] = Null

LEMMA PatchKeeps ==
  ASSUME NEW doc, NEW item, NEW s \in DOMAIN doc, ~Nulls(item, s)
  PROVE  s \in DOMAIN Patch(doc, item)
<1>1. s \in DOMAIN Without(doc, item.doc)
  BY DEF Without, Nulls
<1>2. s \in DOMAIN MergePatch(doc, item.doc)
  BY <1>1 DEF MergePatch, Overlay
<1> QED
  BY <1>2 DEF Patch, Restore

LEMMA FoldKeeps ==
  ASSUME NEW n, NEW doc, NEW items, NEW S, items \in Seq(S), NEW s \in DOMAIN doc,
         \A i \in 1..Len(items) : items[i].name = n => ~Nulls(items[i], s)
  PROVE  s \in DOMAIN Folded(n, doc, items)
<1>1. PICK g : /\ g[0] = doc /\ g[Len(items)] = Folded(n, doc, items)
               /\ \A k \in 1..Len(items) : g[k] = PatchNamed(n, g[k - 1], items[k])
  BY FoldInRounds
<1> DEFINE Lost == {k \in 0..Len(items) : s \notin DOMAIN g[k]}
<1>2. Len(items) \in Nat
  OBVIOUS
<1> SUFFICES ASSUME Lost # {} PROVE FALSE
  <2>1. Len(items) \notin Lost
    OBVIOUS
  <2> QED
    BY <1>1, <1>2, <2>1
<1>3. PICK k \in Lost : \A j \in Lost : k <= j
  <2>1. Lost \in SUBSET Nat
    BY <1>2
  <2> HIDE DEF Lost
  <2> QED
    BY <2>1, LeastNat
<1>4. k \in 1..Len(items) /\ k - 1 \in 0..Len(items)
  <2>1. k # 0
    BY <1>1
  <2> QED
    BY <1>2, <2>1
<1>5. s \in DOMAIN g[k - 1]
  <2>1. k - 1 \notin Lost
    BY <1>2, <1>3, <1>4
  <2> QED
    BY <1>4, <2>1
<1>6. s \in DOMAIN g[k]
  <2>1. g[k] = PatchNamed(n, g[k - 1], items[k])
    BY <1>1, <1>4
  <2>2. CASE items[k].name = n
    <3>1. ~Nulls(items[k], s)
      BY <1>4, <2>2
    <3>2. PICK d, item : d = g[k - 1] /\ item = items[k]
      OBVIOUS
    <3>3. s \in DOMAIN Patch(d, item)
      BY <1>5, <3>1, <3>2, PatchKeeps
    <3> QED
      BY <2>1, <2>2, <3>2, <3>3 DEF PatchNamed
  <2>3. CASE items[k].name # n
    BY <1>5, <2>1, <2>3 DEF PatchNamed
  <2> QED
    BY <2>2, <2>3
<1> QED
  BY <1>6

Shaped(resources) == \A n \in DOMAIN resources : "doc" \in DOMAIN resources[n]

\* A call keeps the sections of what was desired, but for those that it patches away,
LEMMA ResourcesKeep ==
  ASSUME NEW items, items \in Seq(Range(items)), NEW target, NEW old, Shaped(old),
         NEW n \in DOMAIN old, NEW s \in DOMAIN old[n].doc
  PROVE  \/ s \in DOMAIN Resources(items, target, old)[n].doc
         \/ Patches(target) /\ \E p \in Range(items) : p.name = n /\ Nulls(p, s)
<1> SUFFICES ASSUME ~(Patches(target) /\ \E p \in Range(items) : p.name = n /\ Nulls(p, s))
             PROVE  s \in DOMAIN Resources(items, target, old)[n].doc
  OBVIOUS
<1>1. CASE Patches(target)
  <2>1. Resources(items, target, old)[n] = [old[n] EXCEPT !.doc = Folded(n, old[n].doc, items)]
    BY <1>1 DEF Resources, Folded
  <2>2. Resources(items, target, old)[n].doc = Folded(n, old[n].doc, items)
    BY <2>1 DEF Shaped
  <2>3. \A i \in 1..Len(items) : items[i].name = n => ~Nulls(items[i], s)
    BY <1>1 DEF Range
  <2>4. PICK doc : doc = old[n].doc
    OBVIOUS
  <2>5. s \in DOMAIN Folded(n, doc, items)
    BY <2>3, <2>4, FoldKeeps
  <2> QED
    BY <2>2, <2>4, <2>5
<1>2. CASE ~Patches(target)
  <2>1. CASE n \in NamesOf(items, target)
    <3>1. PICK p : p = CHOOSE i \in Range(items) : IsComposed(target, i) /\ i.name = n
      OBVIOUS
    <3>2. \E i \in Range(items) : IsComposed(target, i) /\ i.name = n
      BY <2>1 DEF NamesOf
    <3>3. p.name = n
      BY <3>1, <3>2
    <3>4. Resources(items, target, old)[n] = Upsert(old, p)
      BY <1>2, <2>1, <3>1 DEF Resources
    <3>5. Resources(items, target, old)[n].doc = Overlay(old[n].doc, p.doc)
      BY <3>3, <3>4 DEF Upsert
    <3> QED
      BY <3>5 DEF Overlay
  <2>2. CASE n \notin NamesOf(items, target)
    BY <1>2, <2>2 DEF Resources
  <2> QED
    BY <2>1, <2>2
<1> QED
  BY <1>1, <1>2

\* and gives what it composes all of its sections.
LEMMA ResourcesAdd ==
  ASSUME NEW items, items \in Seq(Range(items)), NEW target, NEW old,
         Accepts(items, target, old), ~Patches(target),
         NEW p \in Range(items), IsComposed(target, p), NEW s \in DOMAIN p.doc
  PROVE  s \in DOMAIN Resources(items, target, old)[p.name].doc
<1>1. PICK i \in DOMAIN items : items[i] = p
  BY DEF Range
<1>2. ASSUME NEW q \in Range(items), IsComposed(target, q), q.name = p.name PROVE q = p
  <2>1. PICK j \in DOMAIN items : items[j] = q
    BY DEF Range
  <2>2. Named(items, target, old, i)
    BY <1>1 DEF Accepts, IsComposed
  <2> QED
    BY <1>1, <1>2, <2>1, <2>2 DEF Named
<1>3. PICK q : q = CHOOSE j \in Range(items) : IsComposed(target, j) /\ j.name = p.name
  OBVIOUS
<1>4. q = p
  BY <1>2, <1>3
<1>5. p.name \in NamesOf(items, target)
  BY DEF NamesOf
<1>6. Resources(items, target, old)[p.name] = Upsert(old, p)
  BY <1>3, <1>4, <1>5 DEF Resources
<1> QED
  BY <1>6 DEF Upsert, Overlay

LEMMA ResourcesShaped ==
  ASSUME NEW items, NEW target, NEW old, Shaped(old)
  PROVE  Shaped(Resources(items, target, old))
<1>1. CASE Patches(target)
  BY <1>1 DEF Resources, Shaped
<1>2. CASE ~Patches(target)
  BY <1>2 DEF Resources, Shaped, Upsert
<1> QED
  BY <1>1, <1>2

Sections ==
  /\ Shaped(desired.resources)
  /\ \A i \in 1..(at - 1) : \A item \in Composes(Pipeline[i], seen) : \A s \in DOMAIN item.doc :
       s \in DOMAIN desired.resources[item.name].doc \/ Nulled(i, item.name, s)

\* One sequence after another has the members of both.
LEMMA InARow == ASSUME NEW S, NEW q \in Seq(S), NEW r \in Seq(S) PROVE q \o r \in Seq(S)
OBVIOUS

\* The items of a call: the request, the step's items, or one before the others.
LEMMA RenderedItems ==
  ASSUME NEW step, NEW s, Listed(step, s), NEW answers, NEW resources,
         Accepts(Rendered(step, s, answers), step.target, resources)
  PROVE  LET items == Rendered(step, s, answers) IN
           /\ items \in Seq(Range(items))
           /\ \A p \in Range(items) : IsComposed(step.target, p) => p \in Items(step, s)
           /\ ~(step.gated /\ Pending(answers)) => Items(step, s) \subseteq Range(items)
<1> DEFINE items == Rendered(step, s, answers)
<1>1. \/ items = <<Request>>
      \/ items = step.items[s]
      \/ items = <<Request>> \o step.items[s]
  BY DEF Rendered
<1>2. items \in Seq({Request} \cup Range(step.items[s]))
  <2>1. step.items[s] \in Seq({Request} \cup Range(step.items[s]))
    BY DEF Listed
  <2>2. <<Request>> \in Seq({Request} \cup Range(step.items[s]))
    OBVIOUS
  <2>3. <<Request>> \o step.items[s] \in Seq({Request} \cup Range(step.items[s]))
    BY <2>1, <2>2, InARow
  <2> QED
    BY <1>1, <2>1, <2>2, <2>3
<1>3. items \in Seq(Range(items))
  BY <1>2 DEF Range
<1>4. ASSUME NEW p \in Range(items), IsComposed(step.target, p) PROVE p \in Items(step, s)
  <2>1. p # Request
    BY <1>4, RequestIsNotComposed
  <2>2. p \in {Request} \cup Range(step.items[s])
    BY <1>1, RequestInFront DEF Listed
  <2> QED
    BY <2>1, <2>2 DEF Items
<1>5. ASSUME ~(step.gated /\ Pending(answers)) PROVE Items(step, s) \subseteq Range(items)
  <2>1. items = step.items[s] \/ items = <<Request>> \o step.items[s]
    BY <1>5 DEF Rendered
  <2> QED
    BY <2>1, RequestInFront DEF Items, Listed
<1> QED
  BY <1>3, <1>4, <1>5

\* Bases do not touch what is desired.
LEMMA ExistingKeeps ==
  ASSUME NEW step, NEW resources, Shaped(resources)
  PROVE  /\ Shaped(Existing(step, resources))
         /\ \A n \in DOMAIN resources : /\ n \in DOMAIN Existing(step, resources)
                                        /\ Existing(step, resources)[n] = resources[n]
BY DEF Existing, SeedBases, Overlay, Shaped

LEMMA FreshSections ==
  ASSUME at' = 1, desired' = NothingDesired
  PROVE  Sections'
<1>1. DOMAIN desired'.resources = {}
  BY DEF NothingDesired
<1> QED
  BY <1>1 DEF Sections, Shaped

LEMMA CallSections == ASSUME Reconciling, Sections, Call PROVE Sections'
<1> DEFINE step == Pipeline[at]
           items == Rendered(step, seen, fetched)
           start == Existing(step, desired.resources)
           response == Response(step, seen, fetched, desired)
<1>1. /\ Standing /\ Answering /\ Kept /\ pc = "calling" /\ at \in Steps /\ seen \in Specs
      /\ at \in Nat \ {0} /\ seen' = seen
  BY DEF Reconciling, Standing, Call
<1>2. CASE \E why \in {"Fatal", "Unsettled"} : Rest(why)
  BY <1>2, FreshSections DEF Rest, Fresh
<1>3. CASE pc' = "fetching" /\ UNCHANGED <<at, desired>>
  BY <1>1, <1>3 DEF Sections, Nulled, Shaped
<1>4. CASE /\ ~Fatal(step, seen, fetched, desired)
           /\ response.requirements = asked /\ Fresh(at + 1, response.desired)
  <2>1. /\ at' = at + 1 /\ desired' = response.desired
        /\ response.desired.resources = Resources(items, step.target, start)
    BY <1>4 DEF Fresh, Response
  <2>2. /\ step.target \in Targets /\ step.items[seen] \in Seq(Range(step.items[seen]))
        /\ Accepts(items, step.target, start)
    BY <1>1, <1>4, PipelineIsSequence DEF Fatal
  <2>3. /\ items \in Seq(Range(items))
        /\ \A p \in Range(items) : IsComposed(step.target, p) => p \in Items(step, seen)
        /\ ~(step.gated /\ Pending(fetched)) => Items(step, seen) \subseteq Range(items)
    BY <2>2, RenderedItems DEF Listed
  <2>4. step.gated /\ Pending(fetched) => Names(step, seen) = {}
    <3>1. step.gated /\ Pending(fetched) =>
            Names(step, seen) = {} \/ EntitlementKey \in response.requirements
      BY <1>4, <2>2, CallComposes
    <3>2. EntitlementKey \in response.requirements => ~Pending(fetched)
      BY <1>1, <1>4 DEF Answering, Pending
    <3> QED
      BY <3>1, <3>2
  <2>5. Shaped(start) /\ \A n \in DOMAIN desired.resources :
                           n \in DOMAIN start /\ start[n] = desired.resources[n]
    BY ExistingKeeps DEF Sections
  <2>6. Shaped(desired'.resources)
    BY <2>1, <2>5, ResourcesShaped
  <2>7. ASSUME NEW i \in 1..at, NEW item \in Composes(Pipeline[i], seen), NEW s \in DOMAIN item.doc
        PROVE  s \in DOMAIN desired'.resources[item.name].doc \/ Nulled(i, item.name, s)'
    <3>1. CASE i = at
      <4>1. item \in Items(step, seen) /\ IsComposed(step.target, item) /\ ~Patches(step.target)
        BY <3>1 DEF Composes
      <4>2. item.name \in Names(step, seen)
        BY <3>1 DEF Names
      <4>3. item \in Range(items)
        BY <2>3, <2>4, <4>1, <4>2
      <4>4. PICK target, old, list : target = step.target /\ old = start /\ list = items
        OBVIOUS
      <4>5. s \in DOMAIN Resources(list, target, old)[item.name].doc
        <5>1. /\ list \in Seq(Range(list)) /\ Accepts(list, target, old) /\ ~Patches(target)
              /\ item \in Range(list) /\ IsComposed(target, item)
          BY <2>2, <2>3, <4>1, <4>3, <4>4
        <5> QED
          BY <5>1, ResourcesAdd
      <4> QED
        BY <2>1, <4>4, <4>5
    <3>2. CASE i # at
      <4>1. i \in 1..(at - 1)
        BY <1>1, <3>2
      <4>2. CASE Nulled(i, item.name, s)
        <5>1. PICK j \in (i + 1)..(at - 1) : \E p \in Items(Pipeline[j], seen) :
                /\ p.name = item.name /\ Patches(Pipeline[j].target)
                /\ s \in DOMAIN p.doc /\ p.doc[s] = Null
          BY <4>2 DEF Nulled
        <5>2. j \in (i + 1)..(at' - 1)
          BY <1>1, <2>1, <4>1
        <5> QED
          BY <1>1, <5>1, <5>2 DEF Nulled
      <4>3. CASE s \in DOMAIN desired.resources[item.name].doc
        <5>1. item.name \in DOMAIN desired.resources
          BY <1>1, <4>1 DEF Kept, Names
        <5>2. item.name \in DOMAIN start /\ s \in DOMAIN start[item.name].doc
          BY <2>5, <4>3, <5>1
        <5>3. PICK n, target, old, list : /\ n = item.name /\ target = step.target
                                          /\ old = start /\ list = items
          OBVIOUS
        <5>4. \/ s \in DOMAIN Resources(list, target, old)[n].doc
              \/ Patches(target) /\ \E p \in Range(list) : p.name = n /\ Nulls(p, s)
          <6>1. list \in Seq(Range(list)) /\ Shaped(old)
                /\ n \in DOMAIN old /\ s \in DOMAIN old[n].doc
            BY <2>3, <2>5, <5>2, <5>3
          <6> QED
            BY <6>1, ResourcesKeep
        <5>5. CASE s \in DOMAIN Resources(list, target, old)[n].doc
          BY <2>1, <5>3, <5>5
        <5>6. ASSUME Patches(step.target), NEW p \in Range(items), p.name = item.name, Nulls(p, s)
              PROVE  Nulled(i, item.name, s)'
          <6>1. IsComposed(step.target, p)
            BY <5>6 DEF Patches, IsComposed, IsMeta, IsCompositePatch
          <6>2. p \in Items(step, seen)
            BY <2>3, <6>1
          <6>3. at \in (i + 1)..(at' - 1)
            BY <1>1, <2>1, <4>1
          <6> QED
            BY <1>1, <5>6, <6>2, <6>3 DEF Nulled, Nulls
        <5> QED
          BY <5>3, <5>4, <5>5, <5>6
      <4> QED
        BY <4>1, <4>2, <4>3 DEF Sections
    <3> QED
      BY <3>1, <3>2
  <2>8. at' - 1 = at
    BY <1>1, <2>1
  <2> QED
    BY <1>1, <2>6, <2>7, <2>8 DEF Sections
<1> QED
  BY <1>2, <1>3, <1>4 DEF Call

LEMMA StepSections == ASSUME Reconciling, Sections, [Next]_vars PROVE Sections'
<1>1. CASE Reconcile \/ ApplyDesired \/ RenderFails
  BY <1>1, FreshSections DEF Reconcile, ApplyDesired, RenderFails, Rest, Fresh
<1>2. CASE Call
  BY <1>2, CallSections
<1>3. CASE Fetch \/ Others \/ UNCHANGED vars
  <2>1. UNCHANGED <<at, desired, seen>>
    BY <1>3 DEF Fetch, Others, vars, call
  <2> QED
    BY <2>1 DEF Sections, Shaped, Nulled
<1> QED
  BY <1>1, <1>2, <1>3 DEF Next, Pipelining

LEMMA InitSections == Init => Sections
<1> SUFFICES ASSUME Init PROVE Sections
  OBVIOUS
<1>1. at = 1 /\ desired.resources = <<>>
  BY DEF Init, NothingDesired
<1>2. DOMAIN desired.resources = {}
  BY <1>1
<1> QED
  BY <1>1, <1>2 DEF Sections, Shaped

\* All that earlier steps composed is still desired, with every section they gave
\* it but those that a patch has nulled.
THEOREM EarlierStepsAreKept == Spec => []EarlierStepsKept
<1>1. Init => Sections
  BY InitSections
<1>2. Reconciling /\ Sections => EarlierStepsKept
  BY DEF Reconciling, Kept, Sections, EarlierStepsKept
<1>3. Reconciling /\ Sections /\ [Next]_vars => Sections'
  BY StepSections
<1> QED
  BY <1>1, <1>2, <1>3, AlwaysReconciling, PTL DEF Spec

-----------------------------------------------------------------------------
(* The identity of what is patched.  A null in a patch does take an identity *)
(* field, alone or with its section; nothing else a patch step does, to a    *)
(* resource or in which order, changes one that is there.                   *)

\* The field is there still, with its value.
Same(old, new, s, f) == Has(new, s, f) /\ new[s][f] = old[s][f]

LEMMA PatchKeepsField ==
  ASSUME NEW doc, NEW item, NEW s, NEW f, <<s, f>> \in IdentityPaths,
         Has(doc, s, f), Gentle(item, s, f)
  PROVE  Same(doc, Patch(doc, item), s, f)
<1> DEFINE merged == MergePatch(doc, item.doc)
<1>1. Patch(doc, item) = [t \in DOMAIN merged |->
         [g \in DOMAIN merged[t] |->
            IF <<t, g>> \in IdentityPaths /\ Has(doc, t, g) THEN doc[t][g] ELSE merged[t][g]]]
  BY DEF Patch, Restore
<1>2. DOMAIN merged = DOMAIN Without(doc, item.doc) \cup DOMAIN Values(item.doc)
  BY DEF MergePatch, Overlay
<1>3. s \in DOMAIN doc => s \in DOMAIN Without(doc, item.doc) /\ Without(doc, item.doc)[s] = doc[s]
  BY DEF Without, Gentle
<1>4. /\ s \in DOMAIN Without(doc, item.doc) => s \in DOMAIN doc
      /\ s \in DOMAIN Values(item.doc) <=> s \in DOMAIN item.doc
      /\ s \in DOMAIN item.doc => Values(item.doc)[s] = item.doc[s]
  BY DEF Without, Values, Gentle
<1>5. CASE s \in DOMAIN doc /\ s \in DOMAIN item.doc
  <2>1. merged[s] = MergeFields(doc[s], item.doc[s])
    BY <1>3, <1>4, <1>5 DEF MergePatch, Overlay
  <2>2. DOMAIN merged[s] = {d \in DOMAIN doc[s] : d \in DOMAIN item.doc[s] => item.doc[s][d] # Null}
                             \cup {d \in DOMAIN item.doc[s] : item.doc[s][d] # Null}
    BY <2>1 DEF MergeFields, Overlay, Without, Values
  <2>3. f \in DOMAIN merged[s] <=> f \in DOMAIN doc[s]
    BY <1>5, <2>2 DEF Gentle, Has
  <2>4. s \in DOMAIN merged
    BY <1>2, <1>3, <1>5
  <2> HIDE DEF merged
  <2> QED
    BY <1>1, <1>5, <2>3, <2>4 DEF Same, Has
<1>6. CASE s \in DOMAIN doc /\ s \notin DOMAIN item.doc
  <2>1. merged[s] = doc[s] /\ s \in DOMAIN merged
    BY <1>2, <1>3, <1>4, <1>6 DEF MergePatch, Overlay
  <2> HIDE DEF merged
  <2> QED
    BY <1>1, <1>6, <2>1 DEF Same, Has
<1> QED
  BY <1>5, <1>6 DEF Has

LEMMA FoldKeepsField ==
  ASSUME NEW n, NEW doc, NEW items, NEW S, items \in Seq(S), NEW s, NEW f,
         <<s, f>> \in IdentityPaths, Has(doc, s, f),
         \A i \in 1..Len(items) : items[i].name = n => Gentle(items[i], s, f)
  PROVE  Same(doc, Folded(n, doc, items), s, f)
<1>1. PICK g : /\ g[0] = doc /\ g[Len(items)] = Folded(n, doc, items)
               /\ \A k \in 1..Len(items) : g[k] = PatchNamed(n, g[k - 1], items[k])
  BY FoldInRounds
<1> DEFINE Lost == {k \in 0..Len(items) : ~Same(doc, g[k], s, f)}
<1>2. Len(items) \in Nat
  OBVIOUS
<1> SUFFICES ASSUME Lost # {} PROVE FALSE
  <2>1. Len(items) \notin Lost
    OBVIOUS
  <2> QED
    BY <1>1, <1>2, <2>1
<1>3. PICK k \in Lost : \A j \in Lost : k <= j
  <2>1. Lost \in SUBSET Nat
    BY <1>2
  <2> HIDE DEF Lost
  <2> QED
    BY <2>1, LeastNat
<1>4. k \in 1..Len(items) /\ k - 1 \in 0..Len(items)
  <2>1. k # 0
    BY <1>1 DEF Same
  <2> QED
    BY <1>2, <2>1
<1>5. Same(doc, g[k - 1], s, f)
  <2>1. k - 1 \notin Lost
    BY <1>2, <1>3, <1>4
  <2> QED
    BY <1>4, <2>1
<1>6. Same(doc, g[k], s, f)
  <2>1. g[k] = PatchNamed(n, g[k - 1], items[k])
    BY <1>1, <1>4
  <2>2. PICK d, item : d = g[k - 1] /\ item = items[k]
    OBVIOUS
  <2>3. CASE item.name = n
    <3>1. Gentle(item, s, f) /\ Has(d, s, f)
      BY <1>4, <1>5, <2>2, <2>3 DEF Same
    <3>2. Same(d, Patch(d, item), s, f)
      BY <3>1, PatchKeepsField
    <3>3. g[k] = Patch(d, item)
      BY <2>1, <2>2, <2>3 DEF PatchNamed
    <3> QED
      BY <1>5, <2>2, <3>2, <3>3 DEF Same
  <2>4. CASE item.name # n
    BY <1>5, <2>1, <2>2, <2>4 DEF PatchNamed
  <2> QED
    BY <2>3, <2>4
<1> QED
  BY <1>4, <1>6

\* A response: under a patch a field that no item of the step nulls is what it was.
LEMMA CallKeepsField ==
  ASSUME Reconciling, Shaped(desired.resources), NEW s, NEW f, <<s, f>> \in IdentityPaths,
         pc = "calling", ~Fatal(Pipeline[at], seen, fetched, desired),
         Patches(Pipeline[at].target), NEW n \in DOMAIN desired.resources,
         Has(desired.resources[n].doc, s, f),
         \A p \in Items(Pipeline[at], seen) : p.name = n => Gentle(p, s, f)
  PROVE  LET now == Response(Pipeline[at], seen, fetched, desired).desired.resources IN
           Same(desired.resources[n].doc, now[n].doc, s, f)
<1> DEFINE items == Rendered(Pipeline[at], seen, fetched)
           start == Existing(Pipeline[at], desired.resources)
<1>1. at \in Steps /\ seen \in Specs
  BY DEF Reconciling, Standing
<1>2. PICK step : step = Pipeline[at]
  OBVIOUS
<1>3. /\ step.target \in Targets /\ step.items[seen] \in Seq(Range(step.items[seen]))
      /\ Accepts(items, step.target, start)
  BY <1>1, <1>2, PipelineIsSequence DEF Fatal
<1>4. /\ items \in Seq(Range(items))
      /\ \A p \in Range(items) : IsComposed(step.target, p) => p \in Items(step, seen)
  BY <1>2, <1>3, RenderedItems DEF Listed
<1>5. PICK list, old, target : list = items /\ old = start /\ target = step.target
  OBVIOUS
<1>6. Shaped(old) /\ n \in DOMAIN old /\ old[n] = desired.resources[n]
  BY <1>5, ExistingKeeps
<1>7. PICK doc : doc = old[n].doc
  OBVIOUS
<1>8. Resources(list, target, old)[n].doc = Folded(n, doc, list)
  <2>1. Resources(list, target, old)[n] = [old[n] EXCEPT !.doc = Folded(n, old[n].doc, list)]
    BY <1>2, <1>5, <1>6 DEF Resources, Folded
  <2> QED
    BY <1>6, <1>7, <2>1 DEF Shaped
<1>9. ASSUME NEW i \in 1..Len(list), list[i].name = n PROVE Gentle(list[i], s, f)
  <2>1. PICK p : p = list[i] /\ p \in Range(list)
    BY <1>4, <1>5 DEF Range
  <2>2. IsComposed(step.target, p)
    BY <1>2 DEF Patches, IsComposed, IsMeta, IsCompositePatch
  <2>3. p \in Items(Pipeline[at], seen)
    BY <1>2, <1>4, <1>5, <2>1, <2>2
  <2> QED
    BY <1>9, <2>1, <2>3
<1>10. Same(doc, Folded(n, doc, list), s, f)
  <2>1. list \in Seq(Range(list)) /\ Has(doc, s, f)
    BY <1>4, <1>5, <1>6, <1>7
  <2> QED
    BY <1>9, <2>1, FoldKeepsField
<1>11. Response(Pipeline[at], seen, fetched, desired).desired.resources = Resources(list, target, old)
  BY <1>2, <1>5 DEF Response
<1> QED
  BY <1>6, <1>7, <1>8, <1>10, <1>11

\* Whatever a patch step does, to whichever pipeline it belongs: no identity field of
\* a resource that an earlier step desires is changed unless an item of the step
\* nulls it or its section.
THEOREM PatchesKeepIdentity == Spec => IdentitySurvives
<1> DEFINE Survives == \A n \in DOMAIN desired.resources : \A path \in IdentityPaths :
             LET s == path[1]
                 f == path[2]
                 old == desired.resources[n].doc
                 new == desired'.resources[n].doc
             IN  Has(old, s, f) =>
                   \/ Has(new, s, f) /\ new[s][f] = old[s][f]
                   \/ \E p \in Items(Pipeline[at], seen) : p.name = n /\ ~Gentle(p, s, f)
<1>1. ASSUME Reconciling, Sections, Next, at' = at + 1, Patches(Pipeline[at].target)
      PROVE  Survives
  <2>1. at \in Nat \ {0}
    BY <1>1 DEF Reconciling, Standing
  <2>2. /\ pc = "calling" /\ ~Fatal(Pipeline[at], seen, fetched, desired)
        /\ desired' = Response(Pipeline[at], seen, fetched, desired).desired
    BY <1>1, <2>1 DEF Next, Pipelining, Reconcile, ApplyDesired, RenderFails, Call, Fetch, Others,
                      Rest, Fresh, call
  <2>3. ASSUME NEW n \in DOMAIN desired.resources, NEW s, NEW f, <<s, f>> \in IdentityPaths,
               Has(desired.resources[n].doc, s, f),
               \A p \in Items(Pipeline[at], seen) : p.name = n => Gentle(p, s, f)
        PROVE  Same(desired.resources[n].doc, desired'.resources[n].doc, s, f)
    BY <1>1, <2>2, <2>3, CallKeepsField DEF Sections
  <2>4. \A path \in IdentityPaths : path = <<path[1], path[2]>>
    BY DEF IdentityPaths
  <2> QED
    BY <2>3, <2>4 DEF Same
<1>2. Reconciling /\ Sections /\ [Next]_vars
        => [at' = at + 1 /\ Patches(Pipeline[at].target) => Survives]_vars
  BY <1>1
<1>3. Reconciling /\ Sections /\ [Next]_vars => Sections'
  BY StepSections
<1>4. Init => Sections
  BY InitSections
<1> QED
  BY <1>2, <1>3, <1>4, AlwaysReconciling, PTL DEF Spec, IdentitySurvives
=============================================================================
