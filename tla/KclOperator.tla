----------------------------- MODULE KclOperator -----------------------------
(***************************************************************************)
(* The KclModule controller of rust/crates/kcl-operator: the reconcile     *)
(* loop (controller.rs), the applier (apply.rs), the pure planning rules   *)
(* they use (plan.rs) and the status bookkeeping (crd.rs), together with   *)
(* what they talk to: the API server that stores the modules and the       *)
(* rendered objects, the watch that feeds the controller's cache, and the  *)
(* finalizer wrapper of kube-runtime.                                      *)
(*                                                                         *)
(* Every await of the code that leaves the process is a step of its own:   *)
(* adding the finalizer, each server-side apply, each delete, the status   *)
(* patch, removing the finalizer.  Between two of them the user may edit   *)
(* or delete the module, another module's reconcile may run, a watch event *)
(* may arrive, and the process may crash.  A delete is a request: the      *)
(* object goes when its finalizers and its grace period let it.            *)
(*                                                                         *)
(* Rendered objects are elements of Objects (a ResourceRef after scope()), *)
(* a render is the set of them: the order of the items is the render's own *)
(* choice, so a step takes any object that is left.                        *)
(***************************************************************************)
EXTENDS Integers, Sequences, FiniteSets

CONSTANTS
  Modules,     \* KclModule objects (namespace/name)
  Objects,     \* rendered objects, as the ResourceRefs that identify them
  Sources,     \* values of spec.source (a digest stands for what it renders)
  Specs,       \* the module specs a user may write
  Items,       \* Items[s]: the objects that source s renders
  Verdict,     \* Verdict[s]: "Ok", or the reason s can never be applied
  Nobody,      \* no module: an object that is not in the cluster
  NoHash,      \* lastAppliedHash is absent
  RenderErrors, \* reasons with which a render may fail that would be applied
  Clock,       \* the values now() may return
  MaxEdits,    \* bound: user actions (create, edit, delete, drift)
  MaxFaults,   \* bound: failed calls and crashes
  MaxLag       \* bound: watch events a starting reconcile's cache may miss

SpecType == [source: Sources, prune: BOOLEAN, suspend: BOOLEAN,
             interval: BOOLEAN]   \* interval: parse_interval accepts it

ASSUME OperatorAssumption ==
  /\ Specs # {} /\ Specs \subseteq SpecType
  /\ Items \in [Sources -> SUBSET Objects]
  /\ Verdict \in [Sources -> {"Ok", "RenderFailed", "InvalidRender", "UnknownKind"}]
  /\ RenderErrors \subseteq {"RenderFailed", "ApplyFailed", "InternalError"}
  /\ Nobody \notin Modules
  /\ NoHash \notin Sources
  /\ Clock # {} /\ Clock \subseteq Nat \ {0}
  /\ MaxEdits \in Nat /\ MaxFaults \in Nat /\ MaxLag \in Nat

VARIABLES
  feed,     \* feed[m]: versions of the module, oldest first: the first is the
            \* one in the controller's cache, the last the API server's
  cluster,  \* cluster[o]: the module label on object o, Nobody when absent
  terminating, \* objects in the cluster whose deletion has been requested
  due,      \* due[m]: the scheduler holds a reconcile request for m
  armed,    \* armed[m]: a requeue timer (interval or error backoff) is set
  pc,       \* pc[m]: where the reconcile of m stands
  seen,     \* seen[m]: the cached version this reconcile was started with
  todo,     \* todo[m]: objects the running loop has still to apply or delete
  done,     \* done[m]: objects this reconcile has applied
  pruned,   \* pruned[m]: how many objects this reconcile has deleted
  outcome,  \* outcome[m]: reason of the condition about to be written
  released, \* released[m]: objects given up on purpose (spec.prune = false)
  lagged,   \* modules of which a reconcile started without the controller's
            \* own last write to the module in its cache (history)
  edits,    \* user actions so far
  faults    \* failures so far

worker == <<pc, seen, todo, done, pruned, outcome>>
objects == <<cluster, terminating>>
vars == <<feed, objects, due, armed, worker, released, lagged, edits, faults>>

-----------------------------------------------------------------------------
(* Conditions and status (crd.rs).                                         *)

Failures == {"RenderFailed", "InvalidRender", "UnknownKind", "NotFound",
             "ApplyFailed", "InternalError"}
Reasons  == Failures \cup {"Applied", "Suspended", "None"}

ReadyStatus(reason) ==
  CASE reason = "Applied"   -> "True"
    [] reason = "Suspended" -> "Unknown"
    [] reason = "None"      -> "None"
    [] OTHER                -> "False"

\* The Ready condition; `pruned` is the part of the message that can differ
\* between two reconciles of one render ("applied 2 objects, pruned 1").
Condition == [reason: Reasons, pruned: Nat, generation: Nat, since: Nat]
NoCondition == [reason |-> "None", pruned |-> 0, generation |-> 0, since |-> 0]

Status == [observed: Nat, ready: Condition, inventory: SUBSET Objects,
           hash: Sources \cup {NoHash}, time: Nat]
NoStatus == [observed |-> 0, ready |-> NoCondition, inventory |-> {},
             hash |-> NoHash, time |-> 0]

Version == [live: BOOLEAN, deleting: BOOLEAN, finalizer: BOOLEAN,
            generation: Nat, spec: Specs, status: Status]
Unborn == [live |-> FALSE, deleting |-> FALSE, finalizer |-> FALSE,
           generation |-> 0, spec |-> CHOOSE s \in Specs : TRUE,
           status |-> NoStatus]

\* The transition time moves only when the condition's status does.
SetCondition(old, new) ==
  IF ReadyStatus(old.reason) = ReadyStatus(new.reason)
  THEN [new EXCEPT !.since = old.since]
  ELSE new

StaleSwapped(previous, current) == current \ previous
StaleKept(previous, current) == previous
Stale(previous, current) == previous \ current

\* lastAppliedTime follows the content, not the reconcile.
AppliedTimeAlways(old, source, now) == now
AppliedTime(old, source, now) == IF old.hash = source THEN old.time ELSE now

\* What the API server holds after a JSON merge patch of `new` onto `old`.
\* serde skips the fields that are empty or None, and a merge patch leaves
\* alone every field it does not name.
MergePatch(old, new) ==
  [new EXCEPT
     !.inventory = IF new.inventory = {} THEN old.inventory ELSE @,
     !.hash      = IF new.hash = NoHash THEN old.hash ELSE @,
     !.time      = IF new.time = 0 THEN old.time ELSE @]

-----------------------------------------------------------------------------
(* The API server and the watch.  A write appends a version; the cache     *)
(* moves over the versions one by one, in order.  A patch that changes     *)
(* nothing makes no new version and no watch event.                        *)

Server(m) == feed[m][Len(feed[m])]
Cached(m) == feed[m][1]

Publish(m, version) ==
  feed' = IF version = Server(m) THEN feed
          ELSE [feed EXCEPT ![m] = Append(@, version)]

Gone(m)  == ~Server(m).live /\ Server(m).generation > 0
\* What carries the module's label and nobody has asked to delete.
Owned(m) == {o \in Objects : cluster[o] = m /\ o \notin terminating}

Deliver(m) ==
  /\ Len(feed[m]) > 1
  /\ feed' = [feed EXCEPT ![m] = Tail(@)]
  /\ due' = [due EXCEPT ![m] = feed[m][2].live]
  /\ UNCHANGED <<objects, armed, worker, released, lagged, edits, faults>>

\* The requeue a finished reconcile asked for comes up.
Timer(m) ==
  /\ armed[m] /\ pc[m] = "idle"
  /\ armed' = [armed EXCEPT ![m] = FALSE]
  /\ due' = [due EXCEPT ![m] = TRUE]
  /\ UNCHANGED <<feed, objects, worker, released, lagged, edits, faults>>

-----------------------------------------------------------------------------
(* The user, through kubectl, `kclx module` or the REST API.               *)

UserActs ==
  /\ edits < MaxEdits
  /\ edits' = edits + 1
  /\ UNCHANGED <<due, armed, worker, released, lagged, faults>>

Create(m) ==
  /\ UserActs
  /\ Server(m).generation = 0
  /\ \E s \in Specs :
       Publish(m, [Unborn EXCEPT !.live = TRUE, !.generation = 1, !.spec = s])
  /\ UNCHANGED objects

Edit(m) ==
  /\ UserActs
  /\ Server(m).live /\ ~Server(m).deleting
  /\ \E s \in Specs \ {Server(m).spec} :
       Publish(m, [Server(m) EXCEPT !.spec = s, !.generation = @ + 1])
  /\ UNCHANGED objects

\* With a finalizer the API server only marks the module; without one the
\* module is gone at once.
Delete(m) ==
  /\ UserActs
  /\ Server(m).live /\ ~Server(m).deleting
  /\ Publish(m, IF Server(m).finalizer
                THEN [Server(m) EXCEPT !.deleting = TRUE]
                ELSE [Server(m) EXCEPT !.live = FALSE])
  /\ UNCHANGED objects

\* Somebody deletes an applied object behind the controller's back.
Drift(o) ==
  /\ UserActs
  /\ cluster[o] # Nobody /\ o \notin terminating
  /\ terminating' = terminating \cup {o}
  /\ UNCHANGED <<feed, cluster>>

\* An object whose deletion was requested goes, sooner or later or never.
Vanish(o) ==
  /\ o \in terminating
  /\ cluster' = [cluster EXCEPT ![o] = Nobody]
  /\ terminating' = terminating \ {o}
  /\ UNCHANGED <<feed, due, armed, worker, released, lagged, edits, faults>>

-----------------------------------------------------------------------------
(* A reconcile.  kube-runtime runs at most one per module, and remembers a *)
(* trigger that arrives meanwhile.                                         *)

GoTo(m, label) == pc' = [pc EXCEPT ![m] = label]

\* Go on to the status patch with the condition's reason.
Report(m, reason) ==
  /\ GoTo(m, "write")
  /\ outcome' = [outcome EXCEPT ![m] = reason]
  /\ todo' = [todo EXCEPT ![m] = {}]

\* The reconcile ends, asking for a requeue or for the next watch event.
Return(m, requeue) ==
  /\ GoTo(m, "idle")
  /\ armed' = [armed EXCEPT ![m] = requeue]
  /\ seen' = [seen EXCEPT ![m] = Unborn]
  /\ todo' = [todo EXCEPT ![m] = {}]
  /\ done' = [done EXCEPT ![m] = {}]
  /\ pruned' = [pruned EXCEPT ![m] = 0]
  /\ outcome' = [outcome EXCEPT ![m] = "None"]

\* What finalizer() and Context::apply do with the cached module before the
\* first call: an unparsable interval fails without a status write.
Dispatch(v) ==
  IF ~v.finalizer          THEN "addFinalizer"
  ELSE IF v.deleting       THEN "cleanup"
  ELSE IF v.spec.suspend   THEN "write"
  ELSE IF ~v.spec.interval THEN "idle"
  ELSE "render"

\* What of a module the controller itself writes.
OwnPart(v) == <<v.status, v.finalizer>>

Start(m) ==
  /\ due[m] /\ pc[m] = "idle" /\ Cached(m).live
  /\ Len(feed[m]) <= MaxLag + 1
  /\ due' = [due EXCEPT ![m] = FALSE]
  /\ GoTo(m, Dispatch(Cached(m)))
  /\ armed' = [armed EXCEPT ![m] = Dispatch(Cached(m)) = "idle"]
  /\ seen' = [seen EXCEPT ![m] = IF Dispatch(Cached(m)) = "idle"
                                 THEN Unborn ELSE Cached(m)]
  /\ todo' = [todo EXCEPT ![m] = IF Dispatch(Cached(m)) = "cleanup"
                                 THEN Cached(m).status.inventory ELSE {}]
  /\ outcome' = [outcome EXCEPT ![m] = IF Dispatch(Cached(m)) = "write"
                                       THEN "Suspended" ELSE "None"]
  /\ lagged' = IF OwnPart(Cached(m)) = OwnPart(Server(m)) THEN lagged
               ELSE lagged \cup {m}
  /\ UNCHANGED <<feed, objects, done, pruned, released, edits, faults>>

\* A JSON patch that tests for the absence of finalizers, then adds ours.
AddFinalizer(m) ==
  /\ pc[m] = "addFinalizer"
  /\ IF Server(m).live /\ ~Server(m).finalizer
     THEN /\ Publish(m, [Server(m) EXCEPT !.finalizer = TRUE])
          /\ Return(m, FALSE)
     ELSE /\ UNCHANGED feed
          /\ Return(m, TRUE)
  /\ UNCHANGED <<objects, due, released, lagged, edits, faults>>

\* render, plan and resolve only read: whatever they reject is rejected
\* before the first object is applied.
AcceptsAll(source) == TRUE
Accepts(source) == Verdict[source] = "Ok"

Render(m) ==
  /\ pc[m] = "render"
  /\ LET source == seen[m].spec.source IN
       IF Accepts(source)
       THEN /\ GoTo(m, "apply")
            /\ todo' = [todo EXCEPT ![m] = Items[source]]
            /\ UNCHANGED outcome
       ELSE Report(m, Verdict[source])
  /\ UNCHANGED <<feed, objects, due, armed, seen, done, pruned, released, lagged,
                 edits, faults>>

\* One forced server-side apply: it creates the object or takes it over; one
\* that is on its way out takes the patch, and goes all the same.
ApplyOne(m) ==
  /\ pc[m] = "apply"
  /\ \E o \in todo[m] :
       /\ cluster' = [cluster EXCEPT ![o] = m]
       /\ todo' = [todo EXCEPT ![m] = @ \ {o}]
       /\ done' = [done EXCEPT ![m] = @ \cup {o}]
  /\ UNCHANGED <<feed, terminating, due, armed, pc, seen, pruned, outcome,
                 released, lagged, edits, faults>>

\* Everything is applied: prune what the recorded inventory has on top.
StartPrune(m) ==
  /\ pc[m] = "apply" /\ todo[m] = {}
  /\ IF seen[m].spec.prune
     THEN /\ GoTo(m, "prune")
          /\ todo' = [todo EXCEPT
                        ![m] = Stale(seen[m].status.inventory, done[m])]
          /\ UNCHANGED outcome
     ELSE Report(m, "Applied")
  /\ UNCHANGED <<feed, objects, due, armed, seen, done, pruned, released, lagged,
                 edits, faults>>

\* A DELETE request: accepted for what is there, on its way out or not.
Requested(o) == IF cluster[o] = Nobody THEN terminating ELSE terminating \cup {o}

\* One delete of Applier::delete, for a prune or for the cleanup; an object
\* that is already gone (404) is not counted.
DeleteOne(m) ==
  /\ pc[m] \in {"prune", "cleanup"}
  /\ \E o \in todo[m] :
       /\ terminating' = Requested(o)
       /\ todo' = [todo EXCEPT ![m] = @ \ {o}]
       /\ pruned' = [pruned EXCEPT
                       ![m] = IF cluster[o] = Nobody THEN @ ELSE @ + 1]
  /\ UNCHANGED <<feed, cluster, due, armed, pc, seen, done, outcome, released,
                 lagged, edits, faults>>

FinishPrune(m) ==
  /\ pc[m] = "prune" /\ todo[m] = {}
  /\ Report(m, "Applied")
  /\ UNCHANGED <<feed, objects, due, armed, seen, done, pruned, released, lagged,
                 edits, faults>>

\* The condition a reconcile reports: about the spec it was started with.
ConditionOfServer(m, now) ==
  [reason |-> outcome[m], generation |-> Server(m).generation,
   pruned |-> IF outcome[m] = "Applied" THEN pruned[m] ELSE 0, since |-> now]
ConditionSwapped(m, now) ==
  [reason |-> ReadyStatus(outcome[m]), generation |-> seen[m].generation,
   pruned |-> IF outcome[m] = "Applied" THEN pruned[m] ELSE 0, since |-> now]
ConditionOf(m, now) ==
  [reason |-> outcome[m], generation |-> seen[m].generation,
   pruned |-> IF outcome[m] = "Applied" THEN pruned[m] ELSE 0, since |-> now]

\* What a reconcile records as owned: a failure leaves the inventory alone.
InventoryGrown(m)     == seen[m].status.inventory \cup done[m]
InventoryOverwrite(m) == done[m]
NewInventory(m) ==
  IF outcome[m] = "Applied" THEN done[m] ELSE seen[m].status.inventory

\* The status Context::write_status builds from the cached one.
NewStatus(m, now) ==
  LET old    == seen[m].status
      source == seen[m].spec.source
      applied == outcome[m] = "Applied"
  IN  [observed  |-> seen[m].generation,
       ready     |-> SetCondition(old.ready, ConditionOf(m, now)),
       inventory |-> NewInventory(m),
       hash      |-> IF applied THEN source ELSE old.hash,
       time      |-> IF applied THEN AppliedTime(old, source, now) ELSE old.time]

\* The patch itself; a status equal to the cached one is not sent at all.
PatchStatus(m, status) ==
  IF status = seen[m].status \/ ~Server(m).live
  THEN UNCHANGED feed
  ELSE Publish(m, [Server(m) EXCEPT !.status = MergePatch(@, status)])

\* The objects this reconcile hands off, and those it takes back.
Release(m) ==
  released' = [released EXCEPT
                 ![m] = IF outcome[m] = "Applied" /\ ~seen[m].spec.prune
                        THEN (@ \cup seen[m].status.inventory) \ done[m]
                        ELSE @ \ done[m]]

\* Success asks for a requeue after the interval, a failure (of the render
\* or of the patch: 404) after the error backoff, a suspended module for none.
RequeueOnFailure(m, status) == outcome[m] \in Failures
Requeue(m, status) ==
  \/ outcome[m] # "Suspended"
  \/ status # seen[m].status /\ ~Server(m).live

WriteStatus(m) ==
  /\ pc[m] = "write"
  /\ \E now \in Clock :
       LET status == NewStatus(m, now) IN
         /\ PatchStatus(m, status)
         /\ Return(m, Requeue(m, status))
  /\ Release(m)
  /\ UNCHANGED <<objects, due, lagged, edits, faults>>

\* finalizer() drops the finalizer once cleanup returned; the module goes.
\* A patch that fails its test, or finds no module, is an error.
CleanupStarted(m)  == pc[m] = "cleanup"
CleanupFinished(m) == pc[m] = "cleanup" /\ todo[m] = {}

RemoveFinalizer(m) ==
  /\ CleanupFinished(m)
  /\ IF Server(m).live /\ Server(m).finalizer
     THEN /\ Publish(m, [Server(m) EXCEPT !.finalizer = FALSE, !.live = FALSE])
          /\ Return(m, FALSE)
     ELSE /\ UNCHANGED feed
          /\ Return(m, TRUE)
  /\ UNCHANGED <<objects, due, released, lagged, edits, faults>>

-----------------------------------------------------------------------------
(* Failures: a call that errors, and a crash of the process.  An apply or a *)
(* delete that errors may have taken effect; a patch of the module that did *)
(* is the successful step, but for one more requeue.                        *)

Fails ==
  /\ faults < MaxFaults
  /\ faults' = faults + 1
  /\ UNCHANGED edits

\* A registry, discovery or network error while rendering or resolving, or a
\* render that panics.
RenderFails(m) ==
  /\ Fails
  /\ pc[m] = "render"
  /\ \E reason \in RenderErrors : Report(m, reason)
  /\ UNCHANGED <<feed, objects, due, armed, seen, done, pruned, released, lagged>>

\* The first failed apply or delete ends the loop: what was done stays done,
\* the failing request may have reached the cluster, and Ready says ApplyFailed.
ApplyFails(m) ==
  /\ Fails
  /\ pc[m] = "apply"
  /\ \E o \in todo[m] : cluster' \in {cluster, [cluster EXCEPT ![o] = m]}
  /\ Report(m, "ApplyFailed")
  /\ UNCHANGED <<feed, terminating, due, armed, seen, done, pruned, released, lagged>>

PruneFails(m) ==
  /\ Fails
  /\ pc[m] = "prune"
  /\ \E o \in todo[m] : terminating' \in {terminating, Requested(o)}
  /\ Report(m, "ApplyFailed")
  /\ UNCHANGED <<feed, cluster, due, armed, seen, done, pruned, released, lagged>>

\* A failed delete ends the cleanup; the finalizer stays for the next try.
CleanupFails(m) ==
  /\ Fails
  /\ pc[m] = "cleanup"
  /\ \E o \in todo[m] : terminating' \in {terminating, Requested(o)}
  /\ Return(m, TRUE)
  /\ UNCHANGED <<feed, cluster, due, released, lagged>>

\* A patch of the module itself that errors, its effect lost.
PatchFails(m) ==
  /\ Fails
  /\ \/ pc[m] \in {"addFinalizer", "write"}
     \/ pc[m] = "cleanup" /\ todo[m] = {}
  /\ Return(m, TRUE)
  /\ UNCHANGED <<feed, objects, due, released, lagged>>

\* The process dies; the new one lists every module and reconciles them all.
Crash ==
  /\ Fails
  /\ feed' = [m \in Modules |-> <<Server(m)>>]
  /\ due' = [m \in Modules |-> Server(m).live]
  /\ armed' = [m \in Modules |-> FALSE]
  /\ pc' = [m \in Modules |-> "idle"]
  /\ seen' = [m \in Modules |-> Unborn]
  /\ todo' = [m \in Modules |-> {}]
  /\ done' = [m \in Modules |-> {}]
  /\ pruned' = [m \in Modules |-> 0]
  /\ outcome' = [m \in Modules |-> "None"]
  /\ UNCHANGED <<objects, released, lagged>>

-----------------------------------------------------------------------------
Init ==
  /\ feed = [m \in Modules |-> <<Unborn>>]
  /\ cluster = [o \in Objects |-> Nobody] /\ terminating = {}
  /\ due = [m \in Modules |-> FALSE]
  /\ armed = [m \in Modules |-> FALSE]
  /\ pc = [m \in Modules |-> "idle"]
  /\ seen = [m \in Modules |-> Unborn]
  /\ todo = [m \in Modules |-> {}]
  /\ done = [m \in Modules |-> {}]
  /\ pruned = [m \in Modules |-> 0]
  /\ outcome = [m \in Modules |-> "None"]
  /\ released = [m \in Modules |-> {}] /\ lagged = {}
  /\ edits = 0 /\ faults = 0

User == \/ \E m \in Modules : Create(m) \/ Edit(m) \/ Delete(m)
        \/ \E o \in Objects : Drift(o)

Reconcile(m) ==
  \/ AddFinalizer(m)
  \/ Render(m)
  \/ ApplyOne(m)
  \/ StartPrune(m)
  \/ DeleteOne(m)
  \/ FinishPrune(m)
  \/ WriteStatus(m)
  \/ RemoveFinalizer(m)

Fault == \/ \E m \in Modules : \/ RenderFails(m) \/ ApplyFails(m)
                               \/ PruneFails(m) \/ CleanupFails(m)
                               \/ PatchFails(m)
         \/ Crash

Next == \/ User
        \/ Fault
        \/ \E o \in Objects : Vanish(o)
        \/ \E m \in Modules : Deliver(m) \/ Timer(m) \/ Start(m) \/ Reconcile(m)

Spec == Init /\ [][Next]_vars

(* The runtime polls every ready task, the watch delivers every event and  *)
(* a timer comes up; nothing makes a user act or a call fail.              *)
Fairness == \A m \in Modules : /\ WF_vars(Deliver(m))
                               /\ WF_vars(Timer(m))
                               /\ WF_vars(Start(m))
                               /\ WF_vars(Reconcile(m))

FairSpec == Spec /\ Fairness

-----------------------------------------------------------------------------
(* Properties.                                                             *)

Labels == {"idle", "addFinalizer", "cleanup", "render", "apply", "prune",
           "write"}

\* Every variable holds a value of its kind; no module's history is empty.
TypeOK ==
  /\ feed \in [Modules -> Seq(Version)]
  /\ \A m \in Modules : Len(feed[m]) > 0
  /\ cluster \in [Objects -> Modules \cup {Nobody}]
  /\ terminating \subseteq {o \in Objects : cluster[o] # Nobody}
  /\ due \in [Modules -> BOOLEAN] /\ armed \in [Modules -> BOOLEAN]
  /\ pc \in [Modules -> Labels]
  /\ seen \in [Modules -> Version]
  /\ todo \in [Modules -> SUBSET Objects]
  /\ done \in [Modules -> SUBSET Objects]
  /\ pruned \in [Modules -> Nat]
  /\ outcome \in [Modules -> Reasons]
  /\ released \in [Modules -> SUBSET Objects] /\ lagged \subseteq Modules
  /\ edits \in 0..MaxEdits /\ faults \in 0..MaxFaults

\* "status.inventory lists every applied object" (README.md): every object
\* that carries the module's label is in the recorded inventory, or applied by
\* the reconcile that is still to record it, or given up by prune = false, or
\* on its way out.
InventoryListsApplied(m) ==
  Owned(m) \subseteq Server(m).status.inventory \cup done[m] \cup released[m]

\* The finalizer is "removed only once the inventory is gone from the
\* cluster" (crd.rs): a module that is gone has left no object behind, but
\* those that are on their way out.
LeavesNothing(m) == Gone(m) => Owned(m) \subseteq released[m]
DeletedLeavesNothing == \A m \in Modules : LeavesNothing(m)

\* Both promises, as long as no call has failed, of every module whose
\* reconciles all read the controller's own writes; users' edits may be
\* missed, and other modules may lag.
Undisturbed(m) == faults = 0 /\ m \notin lagged
LedgerComplete == \A m \in Modules : Undisturbed(m) => InventoryListsApplied(m)
CleanDeletion  == \A m \in Modules : Undisturbed(m) => LeavesNothing(m)

\* "Rendered objects are validated before anything is written" (README.md):
\* no object of a render that is rejected reaches the cluster, and a
\* reconcile that reports a rejection has neither applied nor deleted.
RejectedRenderWritesNothing ==
  /\ \A o \in Objects :
       cluster[o] # Nobody =>
         \E s \in Sources : o \in Items[s] /\ Verdict[s] = "Ok"
  /\ \A m \in Modules :
       outcome[m] \in {"RenderFailed", "InvalidRender", "UnknownKind", "InternalError"}
         => done[m] = {} /\ pruned[m] = 0

\* "Every object the last successful apply owns" (crd.rs): hash and inventory
\* are written together and describe the same apply, whatever stale status a
\* later write was computed from.  A render of nothing is the exception: the
\* merge patch does not name an empty inventory, so that of an earlier apply
\* stays beside the new hash.
InventoryIsLastApply ==
  \A m \in Modules :
    LET status == Server(m).status IN
      IF status.hash = NoHash THEN status.inventory = {}
      ELSE \/ status.inventory = Items[status.hash]
           \/ /\ Items[status.hash] = {}
              /\ \E s \in Sources : Accepts(s) /\ status.inventory = Items[s]

\* Ready=True stamped with the current generation speaks of the current spec:
\* the recorded hash is that of the source the user reads next to it.
ReadyDescribesSpec ==
  \A m \in Modules :
    LET v == Server(m) IN
      v.status.ready.reason = "Applied" /\ v.status.ready.generation = v.generation
        => v.status.hash = v.spec.source

\* "A failed render never clears the inventory" (README.md): a status write
\* that reports a failure keeps every object the module had recorded, unless
\* it was computed from a status that another write has replaced meanwhile.
FailureKeepsInventory ==
  [][\A m \in Modules :
       Server(m)'.status.ready.reason \in Failures =>
         \/ Server(m).status.inventory \subseteq Server(m)'.status.inventory
         \/ pc[m] = "write" /\ seen[m].status # Server(m).status]_feed

\* The operator asks for the deletion of an object only on the strength of an
\* inventory that records it, and never of one that the reconcile at hand has
\* just applied.
DeletesOnlyStale ==
  [][\A o \in terminating' \ terminating :
       edits' = edits =>
         \E m \in Modules : o \in seen[m].status.inventory \ done[m]]_vars

\* Once users and failures rest, every module ends as its spec says: rendered
\* objects in place, recorded and reported; a rejected or suspended one
\* reported as such; a deleted one gone.
Settled(m) ==
  LET v == Server(m) IN
    v.live =>
      /\ ~v.deleting
      /\ v.spec.interval \/ v.spec.suspend =>
           v.status.observed = v.generation
      /\ v.spec.suspend => v.status.ready.reason = "Suspended"
      /\ v.spec.interval /\ ~v.spec.suspend =>
           IF Verdict[v.spec.source] = "Ok"
           THEN /\ v.status.ready.reason = "Applied"
                /\ Items[v.spec.source] \in {v.status.inventory, {}}
                /\ \A o \in Items[v.spec.source] : cluster[o] # Nobody
           ELSE v.status.ready.reason = Verdict[v.spec.source]

Converges == <>[](\A m \in Modules : Settled(m))

\* "A status write that changes nothing is skipped" (README.md): the
\* controller's own writes stop waking it, so a fleet at rest is not written.
\* Not so where a render of nothing has left an inventory behind: the status
\* computed, whose inventory is empty, never equals the one it came from.
Emptied(m) == Items[Server(m).spec.source] = {} /\ Server(m).status.inventory # {}
NoHotLoop ==
  <>[][\A m \in Modules : Server(m)' = Server(m) \/ Emptied(m)]_feed
=============================================================================
