-------------------------- MODULE KclOperatorProofs --------------------------
(***************************************************************************)
(* What TLAPS proves about KclOperator, for every fleet of modules, every  *)
(* set of sources, every bound and any number of user actions.             *)
(***************************************************************************)
EXTENDS KclOperator, TLAPS

USE DEF objects

(***************************************************************************)
(* Versions.                                                               *)
(***************************************************************************)

\* The version of a module that was never created is a version.
LEMMA UnbornIsVersion == Unborn \in Version
<1>1. (CHOOSE s \in Specs : TRUE) \in Specs
  BY OperatorAssumption
<1>2. NoStatus \in Status
  BY DEF NoStatus, Status, NoCondition, Condition, Reasons
<1> QED
  BY <1>1, <1>2 DEF Unborn, Version

\* Both ends of a module's history are versions.
LEMMA EndsAreVersions ==
  ASSUME TypeOK, NEW m \in Modules
  PROVE  Server(m) \in Version /\ Cached(m) \in Version
<1>1. feed[m] \in Seq(Version) /\ Len(feed[m]) > 0
  BY DEF TypeOK
<1> QED
  BY <1>1 DEF Server, Cached

\* Publishing a version makes it the API server's, and no other module's.
LEMMA PublishSetsServer ==
  ASSUME TypeOK, NEW m \in Modules, NEW v \in Version, Publish(m, v)
  PROVE  /\ feed' \in [Modules -> Seq(Version)]
         /\ \A n \in Modules : Len(feed'[n]) > 0
         /\ Server(m)' = v
         /\ \A n \in Modules \ {m} : Server(n)' = Server(n)
<1>1. /\ feed \in [Modules -> Seq(Version)]
      /\ \A n \in Modules : Len(feed[n]) > 0
  BY DEF TypeOK
<1>2. CASE v = Server(m)
  BY <1>1, <1>2 DEF Publish, Server
<1>3. CASE v # Server(m)
  <2>1. feed' = [feed EXCEPT ![m] = Append(@, v)]
    BY <1>3 DEF Publish
  <2>2. /\ feed'[m] = Append(feed[m], v)
        /\ \A n \in Modules \ {m} : feed'[n] = feed[n]
    BY <1>1, <2>1
  <2>3. /\ Append(feed[m], v) \in Seq(Version)
        /\ Len(Append(feed[m], v)) = Len(feed[m]) + 1
        /\ Append(feed[m], v)[Len(feed[m]) + 1] = v
    BY <1>1
  <2>4. feed' \in [Modules -> Seq(Version)]
    BY <1>1, <2>1, <2>3
  <2>5. Server(m)' = v
    BY <1>1, <2>2, <2>3 DEF Server
  <2>6. \A n \in Modules : Len(feed'[n]) > 0
    <3>1. Len(feed'[m]) > 0
      BY <1>1, <2>2, <2>3
    <3> QED
      BY <1>1, <2>2, <3>1
  <2>7. \A n \in Modules \ {m} : Server(n)' = Server(n)
    BY <2>2 DEF Server
  <2> QED
    BY <2>4, <2>5, <2>6, <2>7
<1> QED
  BY <1>2, <1>3

\* Delivering an event changes no module on the server.
LEMMA DeliverKeepsServer ==
  ASSUME TypeOK, NEW m \in Modules, Deliver(m)
  PROVE  /\ feed' \in [Modules -> Seq(Version)]
         /\ \A n \in Modules : Len(feed'[n]) > 0
         /\ \A n \in Modules : Server(n)' = Server(n)
<1>1. /\ feed \in [Modules -> Seq(Version)]
      /\ Len(feed[m]) > 1
      /\ feed' = [feed EXCEPT ![m] = Tail(@)]
      /\ \A n \in Modules : Len(feed[n]) > 0
  BY DEF TypeOK, Deliver
<1>2. /\ Tail(feed[m]) \in Seq(Version)
      /\ Len(Tail(feed[m])) = Len(feed[m]) - 1
      /\ Tail(feed[m])[Len(feed[m]) - 1] = feed[m][Len(feed[m])]
  BY <1>1
<1> QED
  BY <1>1, <1>2 DEF Server

(***************************************************************************)
(* Type correctness.                                                       *)
(***************************************************************************)

\* A merge patch of a status onto a status leaves a status.
LEMMA MergePatchIsStatus ==
  ASSUME NEW old \in Status, NEW new \in Status
  PROVE  MergePatch(old, new) \in Status
BY DEF MergePatch, Status

\* write_status builds a status.
LEMMA NewStatusIsStatus ==
  ASSUME TypeOK, NEW m \in Modules, NEW now \in Clock
  PROVE  NewStatus(m, now) \in Status
<1> DEFINE old == seen[m].status
<1>1. /\ seen[m] \in Version /\ old \in Status /\ old.ready \in Condition
      /\ seen[m].spec.source \in Sources
  BY OperatorAssumption DEF TypeOK, Version, Status, SpecType
<1>2. outcome[m] \in Reasons /\ pruned[m] \in Nat /\ done[m] \in SUBSET Objects
  BY DEF TypeOK
<1>3. now \in Nat
  BY OperatorAssumption
<1>4. ConditionOf(m, now) \in Condition
  BY <1>1, <1>2, <1>3 DEF ConditionOf, Condition, Version
<1>5. SetCondition(old.ready, ConditionOf(m, now)) \in Condition
  BY <1>1, <1>4 DEF SetCondition, Condition
<1>6. AppliedTime(old, seen[m].spec.source, now) \in Nat
  BY <1>1, <1>3 DEF AppliedTime, Status
<1>7. NewInventory(m) \in SUBSET Objects
  BY <1>1, <1>2 DEF NewInventory, Status
<1>8. seen[m].generation \in Nat
  BY <1>1 DEF Version
<1> QED
  BY <1>1, <1>3, <1>5, <1>6, <1>7, <1>8 DEF NewStatus, Status

\* The bookkeeping of a reconcile that ends keeps its types.
LEMMA ReturnKeepsTypes ==
  ASSUME TypeOK, NEW m \in Modules, NEW r \in BOOLEAN, Return(m, r)
  PROVE  /\ armed' \in [Modules -> BOOLEAN] /\ pc' \in [Modules -> Labels]
         /\ seen' \in [Modules -> Version] /\ todo' \in [Modules -> SUBSET Objects]
         /\ done' \in [Modules -> SUBSET Objects] /\ pruned' \in [Modules -> Nat]
         /\ outcome' \in [Modules -> Reasons]
BY UnbornIsVersion DEF TypeOK, Return, GoTo, Labels, Reasons

\* The user's actions keep the types.
LEMMA UserKeepsTypes == TypeOK /\ User => TypeOK'
<1> SUFFICES ASSUME TypeOK, User PROVE TypeOK'
  OBVIOUS
<1>0. edits \in 0..MaxEdits /\ MaxEdits \in Nat
  BY OperatorAssumption DEF TypeOK
<1>1. ASSUME NEW m \in Modules, Create(m) PROVE TypeOK'
  <2>1. PICK s \in Specs :
          Publish(m, [Unborn EXCEPT !.live = TRUE, !.generation = 1, !.spec = s])
    BY <1>1 DEF Create
  <2>2. [Unborn EXCEPT !.live = TRUE, !.generation = 1, !.spec = s] \in Version
    BY UnbornIsVersion DEF Version
  <2>3. /\ feed' \in [Modules -> Seq(Version)]
        /\ \A n \in Modules : Len(feed'[n]) > 0
    BY <2>1, <2>2, PublishSetsServer
  <2> QED
    BY <1>0, <1>1, <2>3 DEF Create, UserActs, worker, TypeOK
<1>2. ASSUME NEW m \in Modules, Edit(m) PROVE TypeOK'
  <2>1. PICK s \in Specs :
          Publish(m, [Server(m) EXCEPT !.spec = s, !.generation = @ + 1])
    BY <1>2 DEF Edit
  <2>2. [Server(m) EXCEPT !.spec = s, !.generation = @ + 1] \in Version
    <3>1. Server(m) \in Version
      BY EndsAreVersions
    <3>2. Server(m).generation + 1 \in Nat
      BY <3>1 DEF Version
    <3> QED
      BY <3>1, <3>2 DEF Version
  <2>3. /\ feed' \in [Modules -> Seq(Version)]
        /\ \A n \in Modules : Len(feed'[n]) > 0
    BY <2>1, <2>2, PublishSetsServer
  <2> QED
    BY <1>0, <1>2, <2>3 DEF Edit, UserActs, worker, TypeOK
<1>3. ASSUME NEW m \in Modules, Delete(m) PROVE TypeOK'
  <2> DEFINE v == IF Server(m).finalizer
                  THEN [Server(m) EXCEPT !.deleting = TRUE]
                  ELSE [Server(m) EXCEPT !.live = FALSE]
  <2>1. v \in Version
    BY EndsAreVersions DEF Version
  <2>2. Publish(m, v)
    BY <1>3 DEF Delete
  <2>3. /\ feed' \in [Modules -> Seq(Version)]
        /\ \A n \in Modules : Len(feed'[n]) > 0
    BY <2>1, <2>2, PublishSetsServer
  <2> QED
    BY <1>0, <1>3, <2>3 DEF Delete, UserActs, worker, TypeOK
<1>4. ASSUME NEW o \in Objects, Drift(o) PROVE TypeOK'
  BY <1>0, <1>4 DEF Drift, UserActs, worker, TypeOK
<1> QED
  BY <1>1, <1>2, <1>3, <1>4 DEF User

\* So does an object that goes, which is no longer on its way out then.
LEMMA VanishKeepsTypes ==
  ASSUME TypeOK, NEW o \in Objects, Vanish(o)
  PROVE  TypeOK'
<1>1. cluster' \in [Objects -> Modules \cup {Nobody}]
  BY DEF Vanish, TypeOK
<1>2. terminating' \subseteq {p \in Objects : cluster'[p] # Nobody}
  BY DEF Vanish, TypeOK
<1> QED
  BY <1>1, <1>2 DEF Vanish, worker, TypeOK

\* A request for deletion is recorded of objects that are there.
LEMMA RequestedIsThere ==
  ASSUME TypeOK, NEW o \in Objects
  PROVE  Requested(o) \subseteq {p \in Objects : cluster[p] # Nobody}
BY DEF Requested, TypeOK

\* The watch, the timer and the start of a reconcile keep the types.
LEMMA SchedulingKeepsTypes ==
  ASSUME TypeOK, NEW m \in Modules, Deliver(m) \/ Timer(m) \/ Start(m)
  PROVE  TypeOK'
<1>1. CASE Deliver(m)
  <2>1. /\ feed' \in [Modules -> Seq(Version)]
        /\ \A n \in Modules : Len(feed'[n]) > 0
    BY <1>1, DeliverKeepsServer
  <2>2. feed[m][2] \in Version
    BY <1>1 DEF Deliver, TypeOK
  <2>3. due' \in [Modules -> BOOLEAN]
    BY <1>1, <2>2 DEF Deliver, TypeOK, Version
  <2> QED
    BY <1>1, <2>1, <2>3 DEF Deliver, worker, TypeOK
<1>2. CASE Timer(m)
  BY <1>2 DEF Timer, worker, TypeOK
<1>3. CASE Start(m)
  <2>1. Cached(m) \in Version /\ Unborn \in Version
    BY EndsAreVersions, UnbornIsVersion
  <2>2. Dispatch(Cached(m)) \in Labels
    BY DEF Dispatch, Labels
  <2>3. Cached(m).status.inventory \in SUBSET Objects
    BY <2>1 DEF Version, Status
  <2>4. /\ due' \in [Modules -> BOOLEAN] /\ armed' \in [Modules -> BOOLEAN]
        /\ pc' \in [Modules -> Labels]
    BY <1>3, <2>2 DEF Start, GoTo, TypeOK
  <2>5. seen' \in [Modules -> Version]
    BY <1>3, <2>1 DEF Start, TypeOK
  <2>6. todo' \in [Modules -> SUBSET Objects]
    BY <1>3, <2>3 DEF Start, TypeOK
  <2>7. outcome' \in [Modules -> Reasons]
    BY <1>3 DEF Start, TypeOK, Reasons
  <2> QED
    BY <1>3, <2>4, <2>5, <2>6, <2>7 DEF Start, TypeOK
<1> QED
  BY <1>1, <1>2, <1>3

\* Going on to the status patch keeps the types of what it sets.
LEMMA ReportKeepsTypes ==
  ASSUME TypeOK, NEW m \in Modules, NEW reason \in Reasons, Report(m, reason)
  PROVE  /\ pc' \in [Modules -> Labels] /\ outcome' \in [Modules -> Reasons]
         /\ todo' \in [Modules -> SUBSET Objects]
BY DEF TypeOK, Report, GoTo, Labels

\* What a finalizer patch or a status patch publishes is a version.
LEMMA PatchesAreVersions ==
  ASSUME TypeOK, NEW m \in Modules
  PROVE  /\ [Server(m) EXCEPT !.finalizer = TRUE] \in Version
         /\ [Server(m) EXCEPT !.finalizer = FALSE, !.live = FALSE] \in Version
         /\ \A now \in Clock :
              [Server(m) EXCEPT !.status = MergePatch(@, NewStatus(m, now))]
                \in Version
<1>1. Server(m) \in Version /\ Server(m).status \in Status
  <2>1. Server(m) \in Version
    BY EndsAreVersions
  <2> QED
    BY <2>1 DEF Version
<1>2. \A now \in Clock :
        MergePatch(Server(m).status, NewStatus(m, now)) \in Status
  BY <1>1, NewStatusIsStatus, MergePatchIsStatus
<1>3. \A now \in Clock :
        [Server(m) EXCEPT !.status = MergePatch(@, NewStatus(m, now))] \in Version
  BY <1>1, <1>2 DEF Version
<1> QED
  BY <1>1, <1>3 DEF Version

\* Each step of a reconcile keeps the types.
LEMMA ReconcileKeepsTypes ==
  ASSUME TypeOK, NEW m \in Modules, Reconcile(m)
  PROVE  TypeOK'
<1>1. CASE AddFinalizer(m)
  <2>1. /\ feed' \in [Modules -> Seq(Version)]
        /\ \A n \in Modules : Len(feed'[n]) > 0
    <3>1. CASE Publish(m, [Server(m) EXCEPT !.finalizer = TRUE])
      BY <3>1, PatchesAreVersions, PublishSetsServer
    <3>2. CASE UNCHANGED feed
      BY <3>2 DEF TypeOK
    <3> QED
      BY <1>1, <3>1, <3>2 DEF AddFinalizer
  <2>2. PICK r \in BOOLEAN : Return(m, r)
    BY <1>1 DEF AddFinalizer
  <2> QED
    BY <1>1, <2>1, <2>2, ReturnKeepsTypes DEF AddFinalizer, TypeOK
<1>2. CASE Render(m)
  <2> DEFINE source == seen[m].spec.source
  <2>1. source \in Sources
    BY OperatorAssumption DEF TypeOK, Version, SpecType
  <2>2. Verdict[source] \in Reasons \cup {"Ok"} /\ Items[source] \in SUBSET Objects
    BY <2>1, OperatorAssumption DEF Reasons, Failures
  <2>3. CASE Accepts(source)
    <3>1. /\ pc' = [pc EXCEPT ![m] = "apply"]
          /\ todo' = [todo EXCEPT ![m] = Items[source]]
          /\ UNCHANGED outcome
      BY <1>2, <2>3 DEF Render, GoTo
    <3> HIDE DEF source
    <3>2. pc' \in [Modules -> Labels] /\ todo' \in [Modules -> SUBSET Objects]
      BY <2>2, <3>1 DEF TypeOK, Labels
    <3> QED
      BY <1>2, <3>1, <3>2 DEF Render, TypeOK
  <2>4. CASE ~Accepts(source)
    <3>1. Report(m, Verdict[source]) /\ Verdict[source] \in Reasons
      BY <1>2, <2>2, <2>4 DEF Render, Accepts
    <3> QED
      BY <1>2, <3>1, ReportKeepsTypes DEF Render, TypeOK
  <2> QED
    BY <2>3, <2>4
<1>3. CASE ApplyOne(m)
  <2>1. PICK o \in todo[m] : cluster' = [cluster EXCEPT ![o] = m]
    BY <1>3 DEF ApplyOne
  <2>2. terminating' \subseteq {p \in Objects : cluster'[p] # Nobody}
    BY <1>3, <2>1, OperatorAssumption DEF ApplyOne, TypeOK
  <2> QED
    BY <1>3, <2>2 DEF ApplyOne, TypeOK
<1>4. CASE StartPrune(m)
  <2>1. CASE seen[m].spec.prune
    <3> DEFINE stale == Stale(seen[m].status.inventory, done[m])
    <3>1. stale \in SUBSET Objects
      BY DEF Stale, TypeOK, Version, Status
    <3>2. /\ pc' = [pc EXCEPT ![m] = "prune"]
          /\ todo' = [todo EXCEPT ![m] = stale]
          /\ UNCHANGED outcome
      BY <1>4, <2>1 DEF StartPrune, GoTo
    <3> HIDE DEF stale
    <3>3. pc' \in [Modules -> Labels] /\ todo' \in [Modules -> SUBSET Objects]
      BY <3>1, <3>2 DEF TypeOK, Labels
    <3> QED
      BY <1>4, <3>2, <3>3 DEF StartPrune, TypeOK
  <2>2. CASE ~seen[m].spec.prune
    <3>1. Report(m, "Applied") /\ "Applied" \in Reasons
      BY <1>4, <2>2 DEF StartPrune, Reasons
    <3> QED
      BY <1>4, <3>1, ReportKeepsTypes DEF StartPrune, TypeOK
  <2> QED
    BY <2>1, <2>2
<1>5. CASE DeleteOne(m)
  <2>1. PICK o \in todo[m] : terminating' = Requested(o)
    BY <1>5 DEF DeleteOne
  <2>2. terminating' \subseteq {p \in Objects : cluster'[p] # Nobody}
    BY <1>5, <2>1, RequestedIsThere DEF DeleteOne, TypeOK
  <2> QED
    BY <1>5, <2>2 DEF DeleteOne, TypeOK
<1>6. CASE FinishPrune(m)
  <2>1. Report(m, "Applied") /\ "Applied" \in Reasons
    BY <1>6 DEF FinishPrune, Reasons
  <2> QED
    BY <1>6, <2>1, ReportKeepsTypes DEF FinishPrune, TypeOK
<1>7. CASE WriteStatus(m)
  <2>1. PICK now \in Clock :
          /\ PatchStatus(m, NewStatus(m, now))
          /\ Return(m, Requeue(m, NewStatus(m, now)))
    BY <1>7 DEF WriteStatus
  <2>2. Requeue(m, NewStatus(m, now)) \in BOOLEAN
    BY DEF Requeue
  <2>3. /\ feed' \in [Modules -> Seq(Version)]
        /\ \A n \in Modules : Len(feed'[n]) > 0
    <3>1. CASE UNCHANGED feed
      BY <3>1 DEF TypeOK
    <3>2. CASE Publish(m, [Server(m) EXCEPT
                             !.status = MergePatch(@, NewStatus(m, now))])
      BY <3>2, PatchesAreVersions, PublishSetsServer
    <3> QED
      BY <2>1, <3>1, <3>2 DEF PatchStatus
  <2>4. released' \in [Modules -> SUBSET Objects]
    BY <1>7 DEF WriteStatus, Release, TypeOK, Version, Status
  <2> QED
    BY <1>7, <2>1, <2>2, <2>3, <2>4, ReturnKeepsTypes DEF WriteStatus, TypeOK
<1>8. CASE RemoveFinalizer(m)
  <2>1. /\ feed' \in [Modules -> Seq(Version)]
        /\ \A n \in Modules : Len(feed'[n]) > 0
    <3>1. CASE Publish(m, [Server(m) EXCEPT !.finalizer = FALSE, !.live = FALSE])
      BY <3>1, PatchesAreVersions, PublishSetsServer
    <3>2. CASE UNCHANGED feed
      BY <3>2 DEF TypeOK
    <3> QED
      BY <1>8, <3>1, <3>2 DEF RemoveFinalizer
  <2>2. PICK r \in BOOLEAN : Return(m, r)
    BY <1>8 DEF RemoveFinalizer
  <2> QED
    BY <1>8, <2>1, <2>2, ReturnKeepsTypes DEF RemoveFinalizer, TypeOK
<1> QED
  BY <1>1, <1>2, <1>3, <1>4, <1>5, <1>6, <1>7, <1>8 DEF Reconcile

\* Failures and crashes keep the types.
LEMMA FaultKeepsTypes == TypeOK /\ Fault => TypeOK'
<1> SUFFICES ASSUME TypeOK, Fault PROVE TypeOK'
  OBVIOUS
<1>0. faults \in 0..MaxFaults /\ MaxFaults \in Nat
  BY OperatorAssumption DEF TypeOK
<1>1. ASSUME Fails PROVE edits' \in 0..MaxEdits /\ faults' \in 0..MaxFaults
  BY <1>0, <1>1 DEF Fails, TypeOK
<1>2. ASSUME NEW m \in Modules, RenderFails(m) PROVE TypeOK'
  <2>1. PICK reason \in RenderErrors : Report(m, reason)
    BY <1>2 DEF RenderFails
  <2>2. reason \in Reasons
    BY OperatorAssumption DEF Reasons, Failures
  <2> QED
    BY <1>1, <1>2, <2>1, <2>2, ReportKeepsTypes DEF RenderFails, TypeOK
<1>3. ASSUME NEW m \in Modules, ApplyFails(m) \/ PruneFails(m) PROVE TypeOK'
  <2>1. Report(m, "ApplyFailed") /\ "ApplyFailed" \in Reasons
    BY <1>3 DEF ApplyFails, PruneFails, Reasons, Failures
  <2>2. cluster' \in [Objects -> Modules \cup {Nobody}]
    BY <1>3 DEF ApplyFails, PruneFails, TypeOK
  <2>3. terminating' \subseteq {p \in Objects : cluster'[p] # Nobody}
    <3>1. CASE ApplyFails(m)
      <4>1. PICK o \in todo[m] : cluster' \in {cluster, [cluster EXCEPT ![o] = m]}
        BY <3>1 DEF ApplyFails
      <4> QED
        BY <3>1, <4>1, OperatorAssumption DEF ApplyFails, TypeOK
    <3>2. CASE PruneFails(m)
      <4>1. PICK o \in todo[m] : terminating' \in {terminating, Requested(o)}
        BY <3>2 DEF PruneFails
      <4>2. UNCHANGED cluster /\ o \in Objects
        BY <3>2 DEF PruneFails, TypeOK
      <4> QED
        BY <4>1, <4>2, RequestedIsThere DEF TypeOK
    <3> QED
      BY <1>3, <3>1, <3>2
  <2> QED
    BY <1>1, <1>3, <2>1, <2>2, <2>3, ReportKeepsTypes DEF ApplyFails, PruneFails, TypeOK
<1>4. ASSUME NEW m \in Modules, CleanupFails(m) PROVE TypeOK'
  <2>1. terminating' \subseteq {p \in Objects : cluster'[p] # Nobody}
    <3>1. PICK o \in todo[m] : terminating' \in {terminating, Requested(o)}
      BY <1>4 DEF CleanupFails
    <3>2. UNCHANGED cluster /\ o \in Objects
      BY <1>4 DEF CleanupFails, TypeOK
    <3> QED
      BY <3>1, <3>2, RequestedIsThere DEF TypeOK
  <2> QED
    BY <1>1, <1>4, <2>1, ReturnKeepsTypes DEF CleanupFails, TypeOK
<1>5. ASSUME NEW m \in Modules, PatchFails(m) PROVE TypeOK'
  BY <1>1, <1>5, ReturnKeepsTypes DEF PatchFails, TypeOK
<1>6. ASSUME Crash PROVE TypeOK'
  <2>1. \A m \in Modules : Server(m) \in Version
    BY EndsAreVersions
  <2>2. /\ feed' \in [Modules -> Seq(Version)]
        /\ \A m \in Modules : Len(feed'[m]) > 0
    BY <1>6, <2>1 DEF Crash
  <2>3. due' \in [Modules -> BOOLEAN]
    BY <1>6, <2>1 DEF Crash, Version
  <2>4. /\ pc' \in [Modules -> Labels] /\ outcome' \in [Modules -> Reasons]
        /\ armed' \in [Modules -> BOOLEAN]
    BY <1>6 DEF Crash, Labels, Reasons
  <2>5. /\ seen' \in [Modules -> Version] /\ todo' \in [Modules -> SUBSET Objects]
        /\ done' \in [Modules -> SUBSET Objects] /\ pruned' \in [Modules -> Nat]
    BY <1>6, UnbornIsVersion DEF Crash
  <2> QED
    BY <1>1, <1>6, <2>2, <2>3, <2>4, <2>5 DEF Crash, TypeOK
<1> QED
  BY <1>2, <1>3, <1>4, <1>5, <1>6 DEF Fault

\* The initial state is of the right type.
LEMMA InitIsTyped == Init => TypeOK
<1> SUFFICES ASSUME Init PROVE TypeOK
  OBVIOUS
<1>1. feed \in [Modules -> Seq(Version)] /\ seen \in [Modules -> Version]
  BY UnbornIsVersion DEF Init
<1>2. \A m \in Modules : Len(feed[m]) > 0
  BY DEF Init
<1>3. edits \in 0..MaxEdits /\ faults \in 0..MaxFaults
  BY OperatorAssumption DEF Init
<1> QED
  BY <1>1, <1>2, <1>3 DEF Init, TypeOK, Labels, Reasons

\* Every reachable state is of the right type.
THEOREM TypeCorrect == Spec => []TypeOK
<1>1. TypeOK /\ [Next]_vars => TypeOK'
  <2> SUFFICES ASSUME TypeOK, [Next]_vars PROVE TypeOK'
    OBVIOUS
  <2>1. CASE User
    BY <2>1, UserKeepsTypes
  <2>2. CASE Fault
    BY <2>2, FaultKeepsTypes
  <2>3. ASSUME NEW m \in Modules,
               Deliver(m) \/ Timer(m) \/ Start(m) \/ Reconcile(m)
        PROVE  TypeOK'
    BY <2>3, SchedulingKeepsTypes, ReconcileKeepsTypes
  <2>4. CASE UNCHANGED vars
    BY <2>4 DEF vars, worker, TypeOK
  <2>5. ASSUME NEW o \in Objects, Vanish(o) PROVE TypeOK'
    BY <2>5, VanishKeepsTypes
  <2> QED
    BY <2>1, <2>2, <2>3, <2>4, <2>5 DEF Next
<1> QED
  BY InitIsTyped, <1>1, PTL DEF Spec

(***************************************************************************)
(* The ledger.  As long as the reconciles of a module read the controller's *)
(* own writes and no call has failed yet, the inventory accounts for every *)
(* object that carries the module's label.  LedgerComplete is not inductive: *)
(* it does not say that the snapshot a reconcile works from is still the      *)
(* server's status, nor what the object loops have yet to do.              *)
(***************************************************************************)

\* The steps of a reconcile that runs behind our finalizer.
Working == {"cleanup", "render", "apply", "prune", "write"}

\* The snapshot of a running reconcile that did not start behind the
\* controller's own writes is the server's status: only the reconcile writes it.
SnapshotCurrent(m) ==
  pc[m] \in Working /\ m \notin lagged => /\ seen[m].status = Server(m).status
                                         /\ Server(m).finalizer

\* A module with our finalizer is there, one that is there was created.
FinalizerHolds(m) ==
  /\ Server(m).finalizer => Server(m).live
  /\ Server(m).live => Server(m).generation > 0

\* Only a reconcile that has begun to apply has applied anything.
NothingApplied(m) ==
  /\ pc[m] \in {"idle", "addFinalizer", "cleanup", "render"} => done[m] = {}
  /\ pc[m] = "write" /\ outcome[m] # "Applied" /\ faults = 0 => done[m] = {}

\* What the module owns is recorded or about to be, narrowed by how far the
\* running loop has come.
Accounted(m) ==
  Undisturbed(m) =>
    /\ Owned(m) \subseteq Server(m).status.inventory \cup done[m] \cup released[m]
    /\ ~Server(m).finalizer => Owned(m) \subseteq released[m]
    /\ pc[m] = "prune" => /\ seen[m].spec.prune
                          /\ Owned(m) \subseteq done[m] \cup todo[m] \cup released[m]
    /\ pc[m] = "write" /\ outcome[m] = "Applied" /\ seen[m].spec.prune =>
         Owned(m) \subseteq done[m] \cup released[m]
    /\ pc[m] = "cleanup" => Owned(m) \subseteq todo[m] \cup released[m]

ModuleLedger(m) == /\ SnapshotCurrent(m)
                   /\ FinalizerHolds(m)
                   /\ NothingApplied(m)
                   /\ Accounted(m)

Ledger == \A m \in Modules : ModuleLedger(m)

\* A step that leaves a module's version and worker alone, and takes no
\* object into its name, keeps that module's ledger.
LEMMA LedgerFrame ==
  ASSUME NEW n \in Modules, ModuleLedger(n),
         Server(n)' = Server(n), pc'[n] = pc[n], seen'[n] = seen[n],
         todo'[n] = todo[n], done'[n] = done[n], outcome'[n] = outcome[n],
         released'[n] = released[n], Owned(n)' \subseteq Owned(n),
         faults' = 0 => faults = 0, n \in lagged => n \in lagged'
  PROVE  ModuleLedger(n)'
BY DEF ModuleLedger, SnapshotCurrent, FinalizerHolds, NothingApplied, Accounted, Undisturbed

\* Labelling an object m takes it from all others; a request for its deletion
\* takes it from all.
LEMMA LabelledOwned ==
  ASSUME TypeOK, NEW o \in Objects, NEW m \in Modules,
         cluster' = [cluster EXCEPT ![o] = m], UNCHANGED terminating
  PROVE  /\ \A n \in Modules \ {m} : Owned(n)' \subseteq Owned(n)
         /\ Owned(m)' \subseteq Owned(m) \cup {o}
BY DEF Owned, TypeOK

LEMMA RequestedOwned ==
  ASSUME TypeOK, NEW o \in Objects, NEW n \in Modules,
         terminating' = Requested(o), UNCHANGED cluster
  PROVE  Owned(n)' = Owned(n) \ {o}
BY OperatorAssumption DEF Owned, Requested, TypeOK

\* The user's actions keep the ledger.
LEMMA UserKeepsLedger == TypeOK /\ Ledger /\ User => Ledger'
<1> SUFFICES ASSUME TypeOK, Ledger, User, NEW n \in Modules
             PROVE  ModuleLedger(n)'
  BY DEF Ledger
<1>0. ModuleLedger(n)
  BY DEF Ledger
<1>1. ASSUME NEW m \in Modules, Create(m) PROVE ModuleLedger(n)'
  <2>1. PICK s \in Specs :
          Publish(m, [Unborn EXCEPT !.live = TRUE, !.generation = 1, !.spec = s])
    BY <1>1 DEF Create
  <2> DEFINE v == [Unborn EXCEPT !.live = TRUE, !.generation = 1, !.spec = s]
  <2>2. v \in Version
    BY UnbornIsVersion DEF Version
  <2>3. Server(m)' = v /\ \A k \in Modules \ {m} : Server(k)' = Server(k)
    BY <2>1, <2>2, PublishSetsServer
  <2>4. /\ UNCHANGED <<pc, seen, todo, done, pruned, outcome, released, lagged, faults>>
        /\ UNCHANGED objects
    BY <1>1 DEF Create, UserActs, worker
  <2>5. Owned(n)' = Owned(n)
    BY <2>4 DEF Owned
  <2>6. CASE n = m
    <3>1. ~Server(m).finalizer
      BY <1>0, <1>1, <2>6 DEF Create, ModuleLedger, FinalizerHolds
    <3>2. ~v.finalizer /\ v.generation > 0
      BY DEF Unborn
    <3>3. m \notin lagged => pc[m] \notin Working
      BY <1>0, <2>6, <3>1 DEF ModuleLedger, SnapshotCurrent
    <3>4. Server(n)' = v
      BY <2>3, <2>6
    <3> HIDE DEF v
    <3> QED
      BY <1>0, <2>4, <2>5, <2>6, <3>1, <3>2, <3>3, <3>4
      DEF ModuleLedger, SnapshotCurrent, FinalizerHolds, NothingApplied,
          Accounted, Undisturbed, Working
  <2>7. CASE n # m
    BY <1>0, <2>3, <2>4, <2>5, <2>7, LedgerFrame
  <2> QED
    BY <2>6, <2>7
<1>2. ASSUME NEW m \in Modules, Edit(m) PROVE ModuleLedger(n)'
  <2>1. PICK s \in Specs :
          Publish(m, [Server(m) EXCEPT !.spec = s, !.generation = @ + 1])
    BY <1>2 DEF Edit
  <2> DEFINE v == [Server(m) EXCEPT !.spec = s, !.generation = @ + 1]
  <2>2. Server(m) \in Version
    BY EndsAreVersions
  <2>3. v \in Version /\ v.generation > 0
    <3>1. Server(m).generation + 1 \in Nat /\ Server(m).generation + 1 > 0
      BY <2>2 DEF Version
    <3> QED
      BY <2>2, <3>1 DEF Version
  <2>4. Server(m)' = v /\ \A k \in Modules \ {m} : Server(k)' = Server(k)
    BY <2>1, <2>3, PublishSetsServer
  <2>5. /\ UNCHANGED <<pc, seen, todo, done, pruned, outcome, released, lagged, faults>>
        /\ UNCHANGED objects
    BY <1>2 DEF Edit, UserActs, worker
  <2>6. Owned(n)' = Owned(n)
    BY <2>5 DEF Owned
  <2>7. CASE n = m
    <3>1. /\ v.status = Server(m).status /\ v.finalizer = Server(m).finalizer
          /\ v.live = Server(m).live
      BY <2>2 DEF Version
    <3>2. Server(n)' = v
      BY <2>4, <2>7
    <3> HIDE DEF v
    <3> QED
      BY <1>0, <2>3, <2>5, <2>6, <2>7, <3>1, <3>2
      DEF ModuleLedger, SnapshotCurrent, FinalizerHolds, NothingApplied, Accounted, Undisturbed
  <2>8. CASE n # m
    BY <1>0, <2>4, <2>5, <2>6, <2>8, LedgerFrame
  <2> QED
    BY <2>7, <2>8
<1>3. ASSUME NEW m \in Modules, Delete(m) PROVE ModuleLedger(n)'
  <2> DEFINE v == IF Server(m).finalizer
                  THEN [Server(m) EXCEPT !.deleting = TRUE]
                  ELSE [Server(m) EXCEPT !.live = FALSE]
  <2>1. Server(m) \in Version
    BY EndsAreVersions
  <2>2. v \in Version
    BY <2>1 DEF Version
  <2>3. Server(m)' = v /\ \A k \in Modules \ {m} : Server(k)' = Server(k)
    BY <1>3, <2>2, PublishSetsServer DEF Delete
  <2>4. /\ UNCHANGED <<pc, seen, todo, done, pruned, outcome, released, lagged, faults>>
        /\ UNCHANGED objects
    BY <1>3 DEF Delete, UserActs, worker
  <2>5. Owned(n)' = Owned(n)
    BY <2>4 DEF Owned
  <2>6. CASE n = m
    <3>1. /\ v.status = Server(m).status /\ v.finalizer = Server(m).finalizer
          /\ v.generation = Server(m).generation
          /\ v.finalizer => v.live = Server(m).live
          /\ v.live => Server(m).live
      BY <2>1 DEF Version
    <3>2. Server(n)' = v
      BY <2>3, <2>6
    <3> HIDE DEF v
    <3> QED
      BY <1>0, <2>4, <2>5, <2>6, <3>1, <3>2
      DEF ModuleLedger, SnapshotCurrent, FinalizerHolds, NothingApplied, Accounted, Undisturbed
  <2>7. CASE n # m
    BY <1>0, <2>3, <2>4, <2>5, <2>7, LedgerFrame
  <2> QED
    BY <2>6, <2>7
<1>4. ASSUME NEW o \in Objects, Drift(o) PROVE ModuleLedger(n)'
  <2>1. /\ UNCHANGED <<feed, cluster, pc, seen, todo, done, pruned, outcome, released,
                       lagged, faults>>
        /\ terminating' = terminating \cup {o}
    BY <1>4 DEF Drift, UserActs, worker
  <2>3. Owned(n)' \subseteq Owned(n)
    BY <2>1 DEF Owned
  <2>4. Server(n)' = Server(n)
    BY <2>1 DEF Server
  <2> QED
    BY <1>0, <2>1, <2>3, <2>4, LedgerFrame
<1> QED
  BY <1>1, <1>2, <1>3, <1>4 DEF User

\* An object that goes is taken from its owner, whoever that is.
LEMMA VanishKeepsLedger ==
  ASSUME TypeOK, Ledger, NEW o \in Objects, Vanish(o)
  PROVE  Ledger'
<1> SUFFICES ASSUME NEW n \in Modules PROVE ModuleLedger(n)'
  BY DEF Ledger
<1>1. /\ UNCHANGED <<feed, pc, seen, todo, done, outcome, released, lagged, faults>>
      /\ cluster' = [cluster EXCEPT ![o] = Nobody] /\ terminating' = terminating \ {o}
  BY DEF Vanish, worker
<1>2. Owned(n)' \subseteq Owned(n)
  BY <1>1, OperatorAssumption DEF Owned, TypeOK
<1>3. Server(n)' = Server(n)
  BY <1>1 DEF Server
<1> QED
  BY <1>1, <1>2, <1>3, LedgerFrame DEF Ledger

\* The watch, the timer and the start of a reconcile keep the ledger: a snapshot
\* that does not lag has the server's status.
LEMMA SchedulingKeepsLedger ==
  ASSUME TypeOK, Ledger,
         NEW m \in Modules, Deliver(m) \/ Timer(m) \/ Start(m)
  PROVE  Ledger'
<1> SUFFICES ASSUME NEW n \in Modules PROVE ModuleLedger(n)'
  BY DEF Ledger
<1>0. ModuleLedger(n)
  BY DEF Ledger
<1>1. /\ UNCHANGED <<objects, done, released, faults>> /\ Owned(n)' = Owned(n)
      /\ n \in lagged => n \in lagged'
  BY DEF Deliver, Timer, Start, worker, Owned
<1>2. CASE Deliver(m)
  <2>1. Server(n)' = Server(n)
    BY <1>2, DeliverKeepsServer
  <2> QED
    BY <1>0, <1>1, <1>2, <2>1, LedgerFrame DEF Deliver, worker
<1>3. CASE Timer(m)
  <2>1. Server(n)' = Server(n)
    BY <1>3 DEF Timer, Server
  <2> QED
    BY <1>0, <1>1, <1>3, <2>1, LedgerFrame DEF Timer, worker
<1>4. CASE Start(m)
  <2>1. Server(n)' = Server(n)
    BY <1>4 DEF Start, Server
  <2>2. CASE n # m
    BY <1>0, <1>1, <1>4, <2>1, <2>2, LedgerFrame DEF Start, GoTo, TypeOK
  <2>3. CASE n = m
    <3> DEFINE d == Dispatch(Cached(m))
    <3>1. m \notin lagged' => /\ Cached(m).status = Server(m).status
                              /\ Cached(m).finalizer = Server(m).finalizer
      BY <1>4 DEF Start, OwnPart
    <3>2. pc'[m] = d /\ d \in Labels \ {"apply", "prune"}
      BY <1>4 DEF Start, GoTo, TypeOK, Dispatch, Labels
    <3>3. d \in Working /\ m \notin lagged' =>
            seen'[m].status = Server(m).status /\ Server(m).finalizer
      <4>1. seen'[m] = IF d = "idle" THEN Unborn ELSE Cached(m)
        BY <1>4 DEF Start, TypeOK
      <4>2. d \notin {"addFinalizer", "idle"} => Cached(m).finalizer
        BY DEF Dispatch
      <4> HIDE DEF d
      <4> QED
        BY <3>1, <4>1, <4>2 DEF Working
    <3>4. d = "cleanup" /\ m \notin lagged' => todo'[m] = Server(m).status.inventory
      BY <1>4, <3>1 DEF Start, TypeOK
    <3>5. d = "write" => outcome'[m] = "Suspended"
      BY <1>4 DEF Start, TypeOK
    <3>6. done[m] = {}
      BY <1>0, <1>4, <2>3 DEF Start, ModuleLedger, NothingApplied
    <3> HIDE DEF d
    <3>7. SnapshotCurrent(n)'
      BY <2>1, <2>3, <3>2, <3>3 DEF SnapshotCurrent
    <3>8. FinalizerHolds(n)'
      BY <1>0, <2>1 DEF ModuleLedger, FinalizerHolds
    <3>9. NothingApplied(n)'
      BY <1>1, <2>3, <3>6 DEF NothingApplied
    <3>10. Accounted(n)'
      BY <1>0, <1>1, <2>1, <2>3, <3>2, <3>4, <3>5, <3>6
      DEF ModuleLedger, Accounted, Undisturbed, Labels
    <3> QED
      BY <3>7, <3>8, <3>9, <3>10 DEF ModuleLedger
  <2> QED
    BY <2>2, <2>3
<1> QED
  BY <1>2, <1>3, <1>4

\* The step of one module's reconcile leaves every other module's version and
\* worker alone, and can only take objects away from it.
LEMMA ReconcileFrame ==
  ASSUME TypeOK, NEW m \in Modules, NEW n \in Modules \ {m}, Reconcile(m)
  PROVE  /\ Owned(n)' \subseteq Owned(n)
         /\ pc'[n] = pc[n] /\ seen'[n] = seen[n] /\ todo'[n] = todo[n]
         /\ done'[n] = done[n] /\ outcome'[n] = outcome[n]
         /\ released'[n] = released[n] /\ UNCHANGED <<lagged, faults>>
<1>1. CASE AddFinalizer(m)
  BY <1>1 DEF AddFinalizer, Return, GoTo, Owned, TypeOK
<1>2. CASE Render(m)
  BY <1>2 DEF Render, Report, GoTo, Owned, TypeOK
<1>3. CASE ApplyOne(m)
  <2>1. PICK o \in todo[m] : cluster' = [cluster EXCEPT ![o] = m]
    BY <1>3 DEF ApplyOne
  <2>2. o \in Objects /\ UNCHANGED terminating
    BY <1>3, <2>1 DEF ApplyOne, TypeOK
  <2>4. Owned(n)' \subseteq Owned(n)
    BY <2>1, <2>2, LabelledOwned
  <2> QED
    BY <1>3, <2>4 DEF ApplyOne, TypeOK
<1>4. CASE StartPrune(m)
  BY <1>4 DEF StartPrune, Report, GoTo, Owned, TypeOK
<1>5. CASE DeleteOne(m)
  <2>1. PICK o \in todo[m] : terminating' = Requested(o)
    BY <1>5 DEF DeleteOne
  <2>2. o \in Objects /\ UNCHANGED cluster
    BY <1>5, <2>1 DEF DeleteOne, TypeOK
  <2>4. Owned(n)' = Owned(n) \ {o}
    BY <2>1, <2>2, RequestedOwned
  <2>5. Owned(n)' \subseteq Owned(n)
    BY <2>4
  <2> QED
    BY <1>5, <2>5 DEF DeleteOne, TypeOK
<1>6. CASE FinishPrune(m)
  BY <1>6 DEF FinishPrune, Report, GoTo, Owned, TypeOK
<1>7. CASE WriteStatus(m)
  <2>1. Return(m, TRUE) \/ Return(m, FALSE)
    BY <1>7 DEF WriteStatus, Return, Requeue
  <2>2. /\ pc'[n] = pc[n] /\ seen'[n] = seen[n] /\ todo'[n] = todo[n]
        /\ done'[n] = done[n] /\ outcome'[n] = outcome[n]
    BY <2>1 DEF Return, GoTo, TypeOK
  <2>3. released'[n] = released[n]
    <3>1. released \in [Modules -> SUBSET Objects]
      BY DEF TypeOK
    <3>2. Release(m)
      BY <1>7 DEF WriteStatus
    <3> QED
      BY <3>1, <3>2 DEF Release
  <2>4. UNCHANGED <<objects, lagged, faults>>
    BY <1>7 DEF WriteStatus
  <2> QED
    BY <2>2, <2>3, <2>4 DEF Owned
<1>8. CASE RemoveFinalizer(m)
  BY <1>8 DEF RemoveFinalizer, Return, GoTo, Owned, TypeOK
<1> QED
  BY <1>1, <1>2, <1>3, <1>4, <1>5, <1>6, <1>7, <1>8 DEF Reconcile

\* Nor does it change another module on the API server.
LEMMA ReconcileSparesOthers ==
  ASSUME TypeOK, NEW m \in Modules, NEW n \in Modules \ {m}, Reconcile(m)
  PROVE  Server(n)' = Server(n)
<1>1. CASE UNCHANGED feed
  BY <1>1 DEF Server
<1>2. CASE \E v \in Version : Publish(m, v)
  BY <1>2, PublishSetsServer
<1>3. CASE AddFinalizer(m)
  BY <1>1, <1>2, <1>3, PatchesAreVersions DEF AddFinalizer
<1>4. CASE WriteStatus(m)
  BY <1>1, <1>2, <1>4, PatchesAreVersions DEF WriteStatus, PatchStatus
<1>5. CASE RemoveFinalizer(m)
  BY <1>1, <1>2, <1>5, PatchesAreVersions DEF RemoveFinalizer
<1> QED
  BY <1>1, <1>3, <1>4, <1>5 DEF Reconcile, Render, ApplyOne, StartPrune, DeleteOne,
                               FinishPrune

\* Adding and removing the finalizer keep the module's own ledger: a module
\* without one owns nothing it has not released, and cleanup ends that way.
LEMMA FinalizerKeepsLedger ==
  ASSUME TypeOK, NEW m \in Modules, ModuleLedger(m),
         AddFinalizer(m) \/ RemoveFinalizer(m)
  PROVE  ModuleLedger(m)'
<1>1. /\ pc'[m] = "idle" /\ done'[m] = {} /\ outcome'[m] = "None"
      /\ UNCHANGED <<objects, released, lagged, faults>>
  BY DEF AddFinalizer, RemoveFinalizer, Return, GoTo, TypeOK
<1>2. Owned(m)' = Owned(m) /\ released'[m] = released[m]
  BY <1>1 DEF Owned
<1>3. Server(m) \in Version
  BY EndsAreVersions
<1>4. done[m] = {}
  BY DEF AddFinalizer, RemoveFinalizer, CleanupFinished, ModuleLedger, NothingApplied
<1>5. CASE UNCHANGED feed
  <2>1. Server(m)' = Server(m)
    BY <1>5 DEF Server
  <2> QED
    BY <1>1, <1>2, <1>4, <2>1
    DEF ModuleLedger, SnapshotCurrent, FinalizerHolds, NothingApplied, Accounted, Undisturbed,
        Working
<1>6. CASE AddFinalizer(m) /\ ~UNCHANGED feed
  <2> DEFINE v == [Server(m) EXCEPT !.finalizer = TRUE]
  <2>1. Publish(m, v) /\ Server(m).live
    BY <1>6 DEF AddFinalizer
  <2>2. v \in Version /\ v.finalizer /\ v.live = Server(m).live
        /\ v.status = Server(m).status /\ v.generation = Server(m).generation
    BY <1>3 DEF Version
  <2>3. Server(m)' = v
    BY <2>1, <2>2, PublishSetsServer
  <2> HIDE DEF v
  <2> QED
    BY <1>1, <1>2, <1>4, <2>1, <2>2, <2>3
    DEF ModuleLedger, SnapshotCurrent, FinalizerHolds, NothingApplied, Accounted, Undisturbed,
        Working
<1>7. CASE RemoveFinalizer(m) /\ ~UNCHANGED feed
  <2> DEFINE v == [Server(m) EXCEPT !.finalizer = FALSE, !.live = FALSE]
  <2>1. Publish(m, v) /\ pc[m] = "cleanup" /\ todo[m] = {}
    BY <1>7 DEF RemoveFinalizer, CleanupFinished
  <2>2. v \in Version /\ ~v.finalizer /\ ~v.live /\ v.status = Server(m).status
    BY <1>3 DEF Version
  <2>3. Server(m)' = v
    BY <2>1, <2>2, PublishSetsServer
  <2> HIDE DEF v
  <2>4. Undisturbed(m) => Owned(m) \subseteq released[m]
    BY <2>1 DEF ModuleLedger, Accounted, Undisturbed
  <2> QED
    BY <1>1, <1>2, <1>4, <2>2, <2>3, <2>4
    DEF ModuleLedger, SnapshotCurrent, FinalizerHolds, NothingApplied, Accounted, Undisturbed,
        Working
<1> QED
  BY <1>5, <1>6, <1>7

\* Rendering, applying and deleting keep the module's own ledger.
LEMMA LoopsKeepLedger ==
  ASSUME TypeOK, NEW m \in Modules, ModuleLedger(m),
         \/ Render(m) \/ ApplyOne(m) \/ StartPrune(m)
         \/ DeleteOne(m) \/ FinishPrune(m)
  PROVE  ModuleLedger(m)'
<1>1. UNCHANGED <<feed, seen, released, lagged, faults>> /\ Server(m)' = Server(m)
  BY DEF Render, ApplyOne, StartPrune, DeleteOne, FinishPrune, Server
<1>2. FinalizerHolds(m)'
  BY <1>1 DEF ModuleLedger, FinalizerHolds
<1>3. pc[m] \in Working
  BY DEF Render, ApplyOne, StartPrune, DeleteOne, FinishPrune, Working
<1>4. m \notin lagged => Server(m).finalizer /\ seen[m].status = Server(m).status
  BY <1>3 DEF ModuleLedger, SnapshotCurrent
<1>5. SnapshotCurrent(m)'
  BY <1>1, <1>4 DEF SnapshotCurrent
<1>6. CASE Render(m)
  <2>1. /\ Owned(m)' = Owned(m) /\ done' = done /\ done[m] = {}
        /\ pc'[m] \in {"apply", "write"}
    BY <1>6 DEF Render, Report, GoTo, Owned, TypeOK, ModuleLedger, NothingApplied
  <2>2. pc'[m] = "write" => outcome'[m] # "Applied"
    <3>1. Verdict[seen[m].spec.source] # "Applied"
      <4>1. seen[m] \in Version
        BY DEF TypeOK
      <4>2. seen[m].spec.source \in Sources
        BY <4>1, OperatorAssumption DEF Version, SpecType
      <4>3. Verdict[seen[m].spec.source]
              \in {"Ok", "RenderFailed", "InvalidRender", "UnknownKind"}
        BY <4>2, OperatorAssumption
      <4> QED
        BY <4>3
    <3> QED
      BY <1>6, <3>1 DEF Render, Report, GoTo, TypeOK
  <2> QED
    BY <1>1, <1>2, <1>4, <1>5, <2>1, <2>2
    DEF ModuleLedger, NothingApplied, Accounted, Undisturbed
<1>7. CASE ApplyOne(m)
  <2>1. PICK o \in todo[m] : /\ cluster' = [cluster EXCEPT ![o] = m]
                             /\ done' = [done EXCEPT ![m] = @ \cup {o}]
    BY <1>7 DEF ApplyOne
  <2>2. o \in Objects /\ UNCHANGED terminating
    BY <1>7, <2>1 DEF ApplyOne, TypeOK
  <2>3. Owned(m)' \subseteq Owned(m) \cup {o}
    BY <2>1, <2>2, LabelledOwned
  <2>4. done'[m] = done[m] \cup {o}
    BY <2>1 DEF TypeOK
  <2>5. pc' = pc /\ pc[m] = "apply"
    BY <1>7 DEF ApplyOne
  <2> QED
    BY <1>1, <1>2, <1>4, <1>5, <2>3, <2>4, <2>5
    DEF ModuleLedger, NothingApplied, Accounted, Undisturbed
<1>8. CASE StartPrune(m)
  <2>1. Owned(m)' = Owned(m) /\ done' = done /\ pc[m] = "apply"
    BY <1>8 DEF StartPrune, Owned
  <2>2. CASE seen[m].spec.prune
    <3>1. /\ pc'[m] = "prune"
          /\ todo'[m] = seen[m].status.inventory \ done[m]
      BY <1>8, <2>2 DEF StartPrune, GoTo, Stale, TypeOK
    <3> QED
      BY <1>1, <1>2, <1>4, <1>5, <2>1, <2>2, <3>1
      DEF ModuleLedger, NothingApplied, Accounted, Undisturbed
  <2>3. CASE ~seen[m].spec.prune
    <3>1. pc'[m] = "write" /\ outcome'[m] = "Applied"
      BY <1>8, <2>3 DEF StartPrune, Report, GoTo, TypeOK
    <3> QED
      BY <1>1, <1>2, <1>4, <1>5, <2>1, <2>3, <3>1
      DEF ModuleLedger, NothingApplied, Accounted, Undisturbed
  <2> QED
    BY <2>2, <2>3
<1>9. CASE DeleteOne(m)
  <2>1. PICK o \in todo[m] : /\ terminating' = Requested(o)
                             /\ todo' = [todo EXCEPT ![m] = @ \ {o}]
    BY <1>9 DEF DeleteOne
  <2>2. o \in Objects /\ UNCHANGED cluster
    BY <1>9, <2>1 DEF DeleteOne, TypeOK
  <2>3. Owned(m)' = Owned(m) \ {o}
    BY <2>1, <2>2, RequestedOwned
  <2>4. todo'[m] = todo[m] \ {o}
    BY <2>1 DEF TypeOK
  <2>5. /\ pc' = pc /\ done' = done /\ outcome' = outcome
        /\ pc[m] \in {"prune", "cleanup"}
    BY <1>9 DEF DeleteOne
  <2> QED
    BY <1>1, <1>2, <1>4, <1>5, <2>3, <2>4, <2>5
    DEF ModuleLedger, NothingApplied, Accounted, Undisturbed
<1>10. CASE FinishPrune(m)
  <2>1. /\ Owned(m)' = Owned(m) /\ done' = done
        /\ pc[m] = "prune" /\ todo[m] = {}
        /\ pc'[m] = "write" /\ outcome'[m] = "Applied"
    BY <1>10 DEF FinishPrune, Report, GoTo, Owned, TypeOK
  <2> QED
    BY <1>1, <1>2, <1>4, <1>5, <2>1 DEF ModuleLedger, NothingApplied, Accounted, Undisturbed
<1> QED
  BY <1>6, <1>7, <1>8, <1>9, <1>10

\* The status write keeps the module's own ledger: after a success it records
\* what was applied, after a failure what had been recorded.
LEMMA WriteStatusKeepsLedger ==
  ASSUME TypeOK, NEW m \in Modules, ModuleLedger(m), WriteStatus(m)
  PROVE  ModuleLedger(m)'
<1>1. PICK now \in Clock : PatchStatus(m, NewStatus(m, now))
  BY DEF WriteStatus
<1> DEFINE old == Server(m).status
           status == NewStatus(m, now)
           v == [Server(m) EXCEPT !.status = MergePatch(@, status)]
<1>2. /\ pc[m] = "write" /\ Release(m)
      /\ pc'[m] = "idle" /\ done'[m] = {} /\ outcome'[m] = "None"
      /\ UNCHANGED <<objects, lagged, faults>>
  BY DEF WriteStatus, Return, GoTo, TypeOK
<1>3. /\ Server(m) \in Version /\ old \in Status /\ status \in Status
      /\ old.inventory \subseteq Objects
  BY EndsAreVersions, NewStatusIsStatus DEF Version, Status
<1>4. m \notin lagged => Server(m).finalizer /\ Server(m).live /\ seen[m].status = old
  BY <1>2 DEF ModuleLedger, SnapshotCurrent, FinalizerHolds, Working
<1>5. m \notin lagged =>
        status.inventory = IF outcome[m] = "Applied" THEN done[m] ELSE old.inventory
  BY <1>4 DEF NewStatus, NewInventory
<1>6. MergePatch(old, status).inventory =
        IF status.inventory = {} THEN old.inventory ELSE status.inventory
  BY <1>3 DEF MergePatch, Status
<1>7. /\ Server(m)'.finalizer = Server(m).finalizer /\ Server(m)'.live = Server(m).live
      /\ Server(m)'.generation = Server(m).generation
      /\ m \notin lagged => status.inventory \subseteq Server(m)'.status.inventory
  <2>1. CASE status = seen[m].status \/ ~Server(m).live
    <3>1. UNCHANGED feed
      BY <1>1, <2>1 DEF PatchStatus
    <3>2. Server(m)' = Server(m)
      BY <3>1 DEF Server
    <3> QED
      BY <1>4, <2>1, <3>2
  <2>2. CASE ~(status = seen[m].status \/ ~Server(m).live)
    <3>1. Publish(m, v)
      BY <1>1, <2>2 DEF PatchStatus
    <3>2. v \in Version
      BY PatchesAreVersions
    <3>3. Server(m)' = v
      BY <3>1, <3>2, PublishSetsServer
    <3>4. /\ v.finalizer = Server(m).finalizer /\ v.live = Server(m).live
          /\ v.generation = Server(m).generation
          /\ v.status = MergePatch(old, status)
      BY <1>3 DEF Version
    <3> HIDE DEF v, status, old
    <3> QED
      BY <1>6, <3>3, <3>4
  <2> QED
    BY <2>1, <2>2
<1> HIDE DEF v, status
<1>8. m \notin lagged =>
        released'[m] = IF outcome[m] = "Applied" /\ ~seen[m].spec.prune
                       THEN (released[m] \cup old.inventory) \ done[m]
                       ELSE released[m] \ done[m]
  BY <1>2, <1>4 DEF Release, TypeOK
<1>9. Owned(m)' = Owned(m)
  BY <1>2 DEF Owned
<1>10. Undisturbed(m) =>
         Owned(m) \subseteq Server(m)'.status.inventory \cup released'[m]
  <2> SUFFICES ASSUME faults = 0, m \notin lagged
               PROVE  Owned(m) \subseteq Server(m)'.status.inventory \cup released'[m]
    BY DEF Undisturbed
  <2>1. CASE outcome[m] = "Applied" /\ seen[m].spec.prune
    <3>1. Owned(m) \subseteq done[m] \cup released[m]
      BY <1>2, <2>1 DEF ModuleLedger, Accounted, Undisturbed
    <3> QED
      BY <1>5, <1>7, <1>8, <2>1, <3>1
  <2>2. CASE outcome[m] = "Applied" /\ ~seen[m].spec.prune
    <3>1. Owned(m) \subseteq old.inventory \cup done[m] \cup released[m]
      BY DEF ModuleLedger, Accounted, Undisturbed
    <3> QED
      BY <1>5, <1>7, <1>8, <2>2, <3>1
  <2>3. CASE outcome[m] # "Applied"
    <3>1. Owned(m) \subseteq old.inventory \cup done[m] \cup released[m]
      BY DEF ModuleLedger, Accounted, Undisturbed
    <3>2. done[m] = {}
      BY <1>2, <2>3 DEF ModuleLedger, NothingApplied
    <3> QED
      BY <1>5, <1>7, <1>8, <2>3, <3>1, <3>2
  <2> QED
    BY <2>1, <2>2, <2>3
<1>11. Undisturbed(m)' = Undisturbed(m) /\ (Undisturbed(m) => Server(m)'.finalizer)
  BY <1>2, <1>4, <1>7 DEF Undisturbed
<1>12. SnapshotCurrent(m)' /\ FinalizerHolds(m)' /\ NothingApplied(m)'
  BY <1>2, <1>7 DEF ModuleLedger, SnapshotCurrent, FinalizerHolds, NothingApplied, Working
<1>13. Accounted(m)'
  BY <1>2, <1>9, <1>10, <1>11 DEF Accounted
<1> QED
  BY <1>12, <1>13 DEF ModuleLedger

\* A failed call ends the claims about what is accounted for; the snapshot
\* and the finalizer are as good as before.
LEMMA FaultKeepsLedger ==
  ASSUME TypeOK, Ledger, Fault
  PROVE  Ledger'
<1> SUFFICES ASSUME NEW n \in Modules PROVE ModuleLedger(n)'
  BY DEF Ledger
<1>0. ModuleLedger(n)
  BY DEF Ledger
<1>1. faults' # 0
  <2>1. Fails
    BY DEF Fault, RenderFails, ApplyFails, PruneFails, CleanupFails, PatchFails, Crash
  <2>2. faults \in Nat /\ faults' = faults + 1
    BY <2>1, OperatorAssumption DEF Fails, TypeOK
  <2> QED
    BY <2>2
<1>2. Server(n)' = Server(n)
  <2>1. CASE UNCHANGED feed
    BY <2>1 DEF Server
  <2>2. CASE Crash
    <3>1. feed'[n] = <<Server(n)>>
      BY <2>2 DEF Crash
    <3> QED
      BY <3>1 DEF Server
  <2> QED
    BY <2>1, <2>2 DEF Fault, RenderFails, ApplyFails, PruneFails, CleanupFails,
                      PatchFails
<1>3. FinalizerHolds(n)'
  BY <1>0, <1>2 DEF ModuleLedger, FinalizerHolds
<1>4. Accounted(n)'
  BY <1>1 DEF Accounted, Undisturbed
<1>5. \/ /\ pc'[n] = pc[n] /\ seen'[n] = seen[n] /\ done'[n] = done[n]
      \/ /\ pc'[n] = "write" /\ seen'[n] = seen[n] /\ done'[n] = done[n]
         /\ pc[n] \in Working
      \/ pc'[n] = "idle" /\ done'[n] = {}
  <2>1. ASSUME NEW m \in Modules, RenderFails(m) \/ ApplyFails(m) \/ PruneFails(m)
        PROVE  <1>5!2 \/ <1>5!1
    BY <2>1 DEF RenderFails, ApplyFails, PruneFails, Report, GoTo, Working, TypeOK
  <2>2. ASSUME NEW m \in Modules, CleanupFails(m) \/ PatchFails(m)
        PROVE  <1>5!3 \/ <1>5!1
    BY <2>2 DEF CleanupFails, PatchFails, Return, GoTo, TypeOK
  <2>3. ASSUME Crash PROVE <1>5!3
    BY <2>3 DEF Crash
  <2> QED
    BY <2>1, <2>2, <2>3 DEF Fault
<1>6. UNCHANGED lagged
  BY DEF Fault, RenderFails, ApplyFails, PruneFails, CleanupFails, PatchFails, Crash
<1> QED
  BY <1>0, <1>1, <1>2, <1>3, <1>4, <1>5, <1>6
  DEF ModuleLedger, SnapshotCurrent, NothingApplied, Working

\* No module, no object: the ledger starts balanced.
LEMMA InitHasLedger == Init => Ledger
<1> SUFFICES ASSUME Init, NEW n \in Modules PROVE ModuleLedger(n)
  BY DEF Ledger
<1>1. Server(n) = Unborn
  BY DEF Init, Server
<1>2. Owned(n) = {}
  BY OperatorAssumption DEF Init, Owned
<1> QED
  BY <1>1, <1>2 DEF Init, Unborn, ModuleLedger, SnapshotCurrent, FinalizerHolds,
                    NothingApplied, Accounted, Undisturbed, Working

\* Every step keeps the ledger.
LEMMA StepKeepsLedger ==
  ASSUME TypeOK, Ledger, [Next]_vars
  PROVE  Ledger'
<1>1. CASE UNCHANGED vars
  BY <1>1 DEF vars, worker, Ledger, ModuleLedger, SnapshotCurrent, FinalizerHolds,
              NothingApplied, Accounted, Undisturbed, Server, Owned
<1>2. CASE User
  BY <1>2, UserKeepsLedger
<1>3. CASE Fault
  BY <1>3, FaultKeepsLedger
<1>4. ASSUME NEW m \in Modules, Deliver(m) \/ Timer(m) \/ Start(m) PROVE Ledger'
  BY <1>4, SchedulingKeepsLedger
<1>5. ASSUME NEW m \in Modules, Reconcile(m), NEW n \in Modules
      PROVE  ModuleLedger(n)'
  <2>1. ModuleLedger(n)
    BY DEF Ledger
  <2>2. CASE n = m
    <3>1. ModuleLedger(m)
      BY <2>1, <2>2
    <3>2. ModuleLedger(m)'
      BY <1>5, <3>1, FinalizerKeepsLedger, LoopsKeepLedger, WriteStatusKeepsLedger
      DEF Reconcile
    <3> QED
      BY <2>2, <3>2
  <2>3. CASE n # m
    <3>1. Server(n)' = Server(n)
      BY <1>5, <2>3, ReconcileSparesOthers
    <3> QED
      BY <1>5, <2>1, <2>3, <3>1, ReconcileFrame, LedgerFrame
  <2> QED
    BY <2>2, <2>3
<1>6. ASSUME NEW m \in Modules, Reconcile(m) PROVE Ledger'
  BY <1>5, <1>6 DEF Ledger
<1>7. ASSUME NEW o \in Objects, Vanish(o) PROVE Ledger'
  BY <1>7, VanishKeepsLedger
<1> QED
  BY <1>1, <1>2, <1>3, <1>4, <1>6, <1>7 DEF Next

\* Of a balanced ledger: everything owned is recorded or in hand, and a module
\* that is gone owns nothing it was to delete.
LEMMA LedgerSuffices == Ledger => LedgerComplete /\ CleanDeletion
BY DEF Ledger, ModuleLedger, Accounted, Undisturbed, FinalizerHolds, LedgerComplete,
       CleanDeletion, InventoryListsApplied, LeavesNothing, Gone

\* As long as no call has failed, status.inventory lists every object of a module
\* that has been applied, kept and not asked to go, if the module's reconciles
\* have read the controller's own writes: whatever users edit, suspend, keep or
\* delete behind the cache's back, and however far other modules lag.
THEOREM InventoryComplete == Spec => []LedgerComplete
<1>1. TypeOK /\ Ledger /\ [Next]_vars => Ledger'
  BY StepKeepsLedger
<1>2. Ledger => LedgerComplete
  BY LedgerSuffices
<1> QED
  BY <1>1, <1>2, InitHasLedger, TypeCorrect, PTL DEF Spec

\* Of the same modules the finalizer is dropped only once the deletion of every
\* object has been requested: one that is gone leaves nothing but what is on its
\* way out or was given up.
THEOREM DeletionIsClean == Spec => []CleanDeletion
<1>1. TypeOK /\ Ledger /\ [Next]_vars => Ledger'
  BY StepKeepsLedger
<1>2. Ledger => CleanDeletion
  BY LedgerSuffices
<1> QED
  BY <1>1, <1>2, InitHasLedger, TypeCorrect, PTL DEF Spec

(***************************************************************************)
(* What a reconcile has in hand.  This holds of every cache, however old,  *)
(* and whatever fails: it is about one reconcile and the version it saw.    *)
(***************************************************************************)

Rejections == {"RenderFailed", "InvalidRender", "UnknownKind", "InternalError"}
SourceOf(m) == seen[m].spec.source

\* A loop applies what an accepted render has, deletes what its snapshot has on
\* top, and only a reconcile that is about to write has an outcome.
InHand(m) ==
  /\ pc[m] # "write" => outcome[m] = "None"
  /\ pc[m] \in {"idle", "addFinalizer", "cleanup", "render"} => done[m] = {}
  /\ pc[m] \in {"idle", "addFinalizer", "render"} => pruned[m] = 0
  /\ pc[m] = "cleanup" => todo[m] \subseteq seen[m].status.inventory
  /\ pc[m] = "apply" => Accepts(SourceOf(m)) /\ todo[m] \cup done[m] = Items[SourceOf(m)]
  /\ pc[m] = "prune" => todo[m] \subseteq seen[m].status.inventory \ done[m]
  /\ pc[m] = "prune" \/ outcome[m] = "Applied"
       => Accepts(SourceOf(m)) /\ done[m] = Items[SourceOf(m)]
  /\ outcome[m] \in Rejections => done[m] = {} /\ pruned[m] = 0

AppliedAreAccepted ==
  \A o \in Objects :
    cluster[o] # Nobody => \E s \in Sources : o \in Items[s] /\ Verdict[s] = "Ok"

Handling == (\A m \in Modules : InHand(m)) /\ AppliedAreAccepted

\* A step that leaves a module's worker alone leaves it what it has in hand.
LEMMA InHandFrame ==
  ASSUME NEW n \in Modules, InHand(n), pc'[n] = pc[n], seen'[n] = seen[n],
         todo'[n] = todo[n], done'[n] = done[n], pruned'[n] = pruned[n],
         outcome'[n] = outcome[n]
  PROVE  InHand(n)'
BY DEF InHand, SourceOf, Accepts

\* A reconcile that has ended has nothing in hand.
LEMMA ReturnEmptiesHands ==
  ASSUME TypeOK, NEW m \in Modules, NEW r \in BOOLEAN, Return(m, r)
  PROVE  InHand(m)'
BY DEF TypeOK, Return, GoTo, InHand, Rejections

\* A module's worker is moved by its own steps only, a crash apart.
LEMMA WorkerFrame ==
  ASSUME TypeOK, NEW n \in Modules, NEW m \in Modules \ {n},
         \/ Deliver(m) \/ Timer(m) \/ Start(m) \/ Reconcile(m)
         \/ RenderFails(m) \/ ApplyFails(m) \/ PruneFails(m) \/ CleanupFails(m)
         \/ PatchFails(m)
  PROVE  /\ pc'[n] = pc[n] /\ seen'[n] = seen[n] /\ todo'[n] = todo[n]
         /\ done'[n] = done[n] /\ pruned'[n] = pruned[n] /\ outcome'[n] = outcome[n]
<1> USE DEF TypeOK
<1>1. CASE Deliver(m) \/ Timer(m)
  BY <1>1 DEF Deliver, Timer, worker
<1>2. CASE Start(m)
  BY <1>2 DEF Start, GoTo
<1>3. CASE AddFinalizer(m) \/ RemoveFinalizer(m) \/ CleanupFails(m) \/ PatchFails(m)
  BY <1>3 DEF AddFinalizer, RemoveFinalizer, CleanupFails, PatchFails, Return, GoTo
<1>4. CASE Render(m) \/ RenderFails(m) \/ ApplyFails(m) \/ PruneFails(m)
  BY <1>4 DEF Render, RenderFails, ApplyFails, PruneFails, Report, GoTo
<1>5. CASE ApplyOne(m) \/ DeleteOne(m)
  BY <1>5 DEF ApplyOne, DeleteOne
<1>6. CASE StartPrune(m) \/ FinishPrune(m)
  BY <1>6 DEF StartPrune, FinishPrune, Report, GoTo
<1>7. CASE WriteStatus(m)
  BY <1>7 DEF WriteStatus, Return, GoTo
<1> QED
  BY <1>1, <1>2, <1>3, <1>4, <1>5, <1>6, <1>7 DEF Reconcile

\* A starting reconcile has at most its snapshot's inventory to delete.
LEMMA StartHandles ==
  ASSUME TypeOK, NEW m \in Modules, InHand(m), Start(m)
  PROVE  InHand(m)'
<1> DEFINE d == Dispatch(Cached(m))
<1>1. /\ pc[m] = "idle" /\ pc'[m] = d
      /\ seen'[m] = IF d = "idle" THEN Unborn ELSE Cached(m)
      /\ todo'[m] = IF d = "cleanup" THEN Cached(m).status.inventory ELSE {}
      /\ outcome'[m] = IF d = "write" THEN "Suspended" ELSE "None"
      /\ done'[m] = done[m] /\ pruned'[m] = pruned[m]
  BY DEF Start, GoTo, TypeOK
<1>2. d \in {"addFinalizer", "cleanup", "write", "idle", "render"}
  BY DEF Dispatch
<1>3. done[m] = {} /\ pruned[m] = 0
  BY <1>1 DEF InHand
<1> HIDE DEF d
<1> QED
  BY <1>1, <1>2, <1>3 DEF InHand, Rejections

\* Each step of a reconcile takes in hand what the next one counts on.
LEMMA ReconcileHandles ==
  ASSUME TypeOK, NEW m \in Modules, InHand(m), Reconcile(m)
  PROVE  InHand(m)'
<1>1. CASE AddFinalizer(m) \/ RemoveFinalizer(m)
  <2>1. PICK r \in BOOLEAN : Return(m, r)
    BY <1>1 DEF AddFinalizer, RemoveFinalizer
  <2> QED
    BY <2>1, ReturnEmptiesHands
<1>2. CASE WriteStatus(m)
  <2>1. PICK r \in BOOLEAN : Return(m, r)
    BY <1>2 DEF WriteStatus, Requeue
  <2> QED
    BY <2>1, ReturnEmptiesHands
<1>3. CASE Render(m)
  <2>1. /\ pc[m] = "render" /\ done[m] = {} /\ pruned[m] = 0 /\ outcome[m] = "None"
        /\ done'[m] = done[m] /\ pruned'[m] = pruned[m] /\ seen'[m] = seen[m]
    BY <1>3 DEF Render, InHand
  <2>2. CASE Accepts(SourceOf(m))
    <3>1. pc'[m] = "apply" /\ todo'[m] = Items[SourceOf(m)] /\ outcome'[m] = "None"
      BY <1>3, <2>1, <2>2 DEF Render, GoTo, SourceOf, TypeOK
    <3> QED
      BY <2>1, <2>2, <3>1 DEF InHand, SourceOf, Rejections, Accepts
  <2>3. CASE ~Accepts(SourceOf(m))
    <3>1. pc'[m] = "write" /\ outcome'[m] = Verdict[SourceOf(m)]
      BY <1>3, <2>3 DEF Render, Report, GoTo, SourceOf, TypeOK
    <3>2. SourceOf(m) \in Sources
      BY OperatorAssumption DEF TypeOK, Version, SpecType, SourceOf
    <3>3. Verdict[SourceOf(m)] # "Applied"
      BY <3>2, OperatorAssumption
    <3> QED
      BY <2>1, <3>1, <3>3 DEF InHand, Rejections
  <2> QED
    BY <2>2, <2>3
<1>4. CASE ApplyOne(m)
  <2>1. PICK o \in todo[m] : /\ todo' = [todo EXCEPT ![m] = @ \ {o}]
                             /\ done' = [done EXCEPT ![m] = @ \cup {o}]
    BY <1>4 DEF ApplyOne
  <2>2. todo'[m] \cup done'[m] = todo[m] \cup done[m]
    BY <2>1 DEF TypeOK
  <2>3. pc[m] = "apply" /\ outcome[m] = "None" /\ UNCHANGED <<pc, seen, pruned, outcome>>
    BY <1>4 DEF ApplyOne, InHand
  <2> QED
    BY <2>2, <2>3 DEF InHand, SourceOf, Rejections, Accepts
<1>5. CASE StartPrune(m)
  <2>1. /\ pc[m] = "apply" /\ todo[m] = {} /\ outcome[m] = "None"
        /\ Accepts(SourceOf(m)) /\ done[m] = Items[SourceOf(m)]
        /\ done'[m] = done[m] /\ pruned'[m] = pruned[m] /\ seen'[m] = seen[m]
    BY <1>5 DEF StartPrune, InHand
  <2>2. \/ /\ pc'[m] = "prune" /\ outcome'[m] = "None"
           /\ todo'[m] = seen[m].status.inventory \ done[m]
        \/ pc'[m] = "write" /\ outcome'[m] = "Applied"
    BY <1>5, <2>1 DEF StartPrune, Report, GoTo, Stale, TypeOK
  <2> QED
    BY <2>1, <2>2 DEF InHand, SourceOf, Rejections, Accepts
<1>6. CASE DeleteOne(m)
  <2>1. PICK o \in todo[m] : todo' = [todo EXCEPT ![m] = @ \ {o}]
    BY <1>6 DEF DeleteOne
  <2>2. /\ pc[m] \in {"prune", "cleanup"} /\ outcome[m] = "None"
        /\ UNCHANGED <<pc, seen, done, outcome>> /\ todo'[m] \subseteq todo[m]
    BY <1>6, <2>1 DEF DeleteOne, InHand, TypeOK
  <2> QED
    BY <2>2 DEF InHand, SourceOf, Rejections, Accepts
<1>7. CASE FinishPrune(m)
  <2>1. /\ pc[m] = "prune" /\ pc'[m] = "write" /\ outcome'[m] = "Applied"
        /\ UNCHANGED <<seen, done, pruned>>
    BY <1>7 DEF FinishPrune, Report, GoTo, TypeOK
  <2> QED
    BY <2>1 DEF InHand, SourceOf, Rejections, Accepts
<1> QED
  BY <1>1, <1>2, <1>3, <1>4, <1>5, <1>6, <1>7 DEF Reconcile

\* A failed call leaves in hand what was done, and never a rejection after it.
LEMMA FailuresHandle ==
  ASSUME TypeOK, NEW m \in Modules, InHand(m),
         \/ RenderFails(m) \/ ApplyFails(m) \/ PruneFails(m) \/ CleanupFails(m)
         \/ PatchFails(m)
  PROVE  InHand(m)'
<1>1. CASE CleanupFails(m) \/ PatchFails(m)
  <2>1. Return(m, TRUE)
    BY <1>1 DEF CleanupFails, PatchFails
  <2> QED
    BY <2>1, ReturnEmptiesHands
<1>2. CASE RenderFails(m)
  <2>1. /\ pc[m] = "render" /\ pc'[m] = "write"
        /\ outcome'[m] \in {"RenderFailed", "ApplyFailed", "InternalError"}
        /\ UNCHANGED <<seen, done, pruned>>
    BY <1>2, OperatorAssumption DEF RenderFails, Report, GoTo, TypeOK
  <2> QED
    BY <2>1 DEF InHand, Rejections
<1>3. CASE ApplyFails(m) \/ PruneFails(m)
  <2>1. pc'[m] = "write" /\ outcome'[m] = "ApplyFailed"
    BY <1>3 DEF ApplyFails, PruneFails, Report, GoTo, TypeOK
  <2> QED
    BY <2>1 DEF InHand, Rejections
<1> QED
  BY <1>1, <1>2, <1>3

\* Only an accepted render's object is given a label.
LEMMA LabelsAreAccepted ==
  ASSUME TypeOK, Handling, [Next]_vars
  PROVE  AppliedAreAccepted'
<1>1. \/ \A p \in Objects : cluster'[p] = cluster[p] \/ cluster'[p] = Nobody
      \/ \E m \in Modules, o \in Objects :
           /\ \A p \in Objects \ {o} : cluster'[p] = cluster[p]
           /\ pc[m] = "apply" /\ o \in todo[m]
  <2> DEFINE Shrinks == \A p \in Objects : cluster'[p] = cluster[p] \/ cluster'[p] = Nobody
             Grows(m) == \E o \in Objects : /\ \A p \in Objects \ {o} : cluster'[p] = cluster[p]
                                            /\ pc[m] = "apply" /\ o \in todo[m]
  <2>1. UNCHANGED cluster => Shrinks
    OBVIOUS
  <2>2. ASSUME NEW m \in Modules, ApplyOne(m) \/ ApplyFails(m) PROVE Grows(m)
    <3>1. PICK o \in todo[m] : cluster' \in {cluster, [cluster EXCEPT ![o] = m]}
      BY <2>2 DEF ApplyOne, ApplyFails
    <3>2. o \in Objects /\ pc[m] = "apply"
      BY <2>2, <3>1 DEF ApplyOne, ApplyFails, TypeOK
    <3>3. \A p \in Objects \ {o} : cluster'[p] = cluster[p]
      BY <3>1 DEF TypeOK
    <3> QED
      BY <3>1, <3>2, <3>3
  <2>3. ASSUME NEW m \in Modules, DeleteOne(m) \/ PruneFails(m) \/ CleanupFails(m)
        PROVE  Shrinks
    BY <2>3 DEF DeleteOne, PruneFails, CleanupFails
  <2>4. ASSUME NEW o \in Objects, Drift(o) \/ Vanish(o) PROVE Shrinks
    BY <2>4 DEF Drift, Vanish, TypeOK
  <2>5. CASE User
    <3>1. ASSUME NEW m \in Modules, Create(m) \/ Edit(m) \/ Delete(m) PROVE Shrinks
      BY <3>1 DEF Create, Edit, Delete
    <3> QED
      BY <2>4, <2>5, <3>1 DEF User
  <2>6. CASE Fault
    <3>1. ASSUME NEW m \in Modules, RenderFails(m) \/ PatchFails(m) PROVE Shrinks
      BY <3>1 DEF RenderFails, PatchFails
    <3>2. Crash => Shrinks
      BY DEF Crash
    <3> HIDE DEF Shrinks, Grows
    <3>3. Shrinks \/ \E m \in Modules : Grows(m)
      BY <2>2, <2>3, <2>6, <3>1, <3>2 DEF Fault
    <3> QED
      BY <3>3 DEF Shrinks, Grows
  <2>7. ASSUME NEW m \in Modules, Deliver(m) \/ Timer(m) \/ Start(m) PROVE Shrinks
    BY <2>7 DEF Deliver, Timer, Start
  <2>8. ASSUME NEW m \in Modules,
               \/ AddFinalizer(m) \/ Render(m) \/ StartPrune(m) \/ FinishPrune(m)
               \/ WriteStatus(m) \/ RemoveFinalizer(m)
        PROVE  Shrinks
    BY <2>8 DEF AddFinalizer, Render, StartPrune, FinishPrune, WriteStatus, RemoveFinalizer
  <2>9. CASE UNCHANGED vars
    BY <2>9 DEF vars
  <2> HIDE DEF Shrinks, Grows
  <2>10. Shrinks \/ \E m \in Modules : Grows(m)
    BY <2>2, <2>3, <2>4, <2>5, <2>6, <2>7, <2>8, <2>9 DEF Next, Reconcile, Shrinks, Grows
  <2> QED
    BY <2>10 DEF Shrinks, Grows
<1>2. ASSUME NEW m \in Modules, NEW o \in Objects, pc[m] = "apply", o \in todo[m]
      PROVE  \E s \in Sources : o \in Items[s] /\ Verdict[s] = "Ok"
  <2>1. SourceOf(m) \in Sources
    BY OperatorAssumption DEF TypeOK, Version, SpecType, SourceOf
  <2>2. o \in Items[SourceOf(m)] /\ Verdict[SourceOf(m)] = "Ok"
    BY <1>2 DEF Handling, InHand, Accepts
  <2> QED
    BY <2>1, <2>2
<1> QED
  BY <1>1, <1>2 DEF Handling, AppliedAreAccepted

\* Every step keeps what the reconciles have in hand, and the cluster accepted.
LEMMA StepHandles ==
  ASSUME TypeOK, Handling, [Next]_vars
  PROVE  Handling'
<1>1. ASSUME NEW n \in Modules PROVE InHand(n)'
  <2>0. InHand(n)
    BY DEF Handling
  <2>1. CASE UNCHANGED worker
    BY <2>0, <2>1, InHandFrame DEF worker
  <2>2. CASE Crash
    BY <2>2 DEF Crash, InHand, Rejections
  <2>3. ASSUME NEW m \in Modules,
               \/ Deliver(m) \/ Timer(m) \/ Start(m) \/ Reconcile(m)
               \/ RenderFails(m) \/ ApplyFails(m) \/ PruneFails(m) \/ CleanupFails(m)
               \/ PatchFails(m)
        PROVE  InHand(n)'
    <3>1. CASE m # n
      BY <2>0, <2>3, <3>1, WorkerFrame, InHandFrame
    <3>2. CASE m = n
      <4>1. CASE Deliver(n) \/ Timer(n)
        BY <2>1, <4>1 DEF Deliver, Timer
      <4> QED
        BY <2>0, <2>3, <3>2, <4>1, StartHandles, ReconcileHandles, FailuresHandle
    <3> QED
      BY <3>1, <3>2
  <2>4. User => UNCHANGED worker
    BY DEF User, Create, Edit, Delete, Drift, UserActs
  <2>5. UNCHANGED vars => UNCHANGED worker
    BY DEF vars
  <2>6. ASSUME NEW o \in Objects, Vanish(o) PROVE UNCHANGED worker
    BY <2>6 DEF Vanish
  <2> QED
    BY <2>1, <2>2, <2>3, <2>4, <2>5, <2>6 DEF Next, Fault
<1> QED
  BY <1>1, LabelsAreAccepted DEF Handling

LEMMA InitHandles == Init => Handling
BY DEF Init, Handling, InHand, AppliedAreAccepted, Rejections

\* Nothing of a rejected render reaches the cluster, and a reconcile that reports a
\* rejection has neither applied nor deleted: whatever fails, however old the cache.
THEOREM RejectionsWriteNothing == Spec => []RejectedRenderWritesNothing
<1>1. TypeOK /\ Handling /\ [Next]_vars => Handling'
  BY StepHandles
<1>2. Handling => RejectedRenderWritesNothing
  BY DEF Handling, InHand, AppliedAreAccepted, RejectedRenderWritesNothing, Rejections
<1> QED
  BY <1>1, <1>2, InitHandles, TypeCorrect, PTL DEF Spec

\* The operator asks only for the deletion of what the inventory it saw records and
\* what it has not just applied: whatever fails, however old the cache.
THEOREM DeletesAreStale == Spec => DeletesOnlyStale
<1> DEFINE Stales ==
      \A o \in terminating' \ terminating :
        edits' = edits =>
          \E m \in Modules : o \in seen[m].status.inventory \ done[m]
<1>1. TypeOK /\ Handling /\ [Next]_vars => Handling'
  BY StepHandles
<1>2. TypeOK /\ Handling /\ [Next]_vars => [Stales]_vars
  <2> SUFFICES ASSUME TypeOK, Handling, Next,
                      NEW o \in terminating' \ terminating, edits' = edits
               PROVE  \E m \in Modules : o \in seen[m].status.inventory \ done[m]
    OBVIOUS
  <2>1. ~(terminating' \subseteq terminating)
    OBVIOUS
  <2>2. ~User
    <3>1. User => UserActs
      BY Zenon DEF User, Create, Edit, Delete, Drift
    <3>2. UserActs => edits' = edits + 1 /\ edits \in Nat
      BY OperatorAssumption DEF UserActs, TypeOK
    <3> QED
      BY <3>1, <3>2
  <2>3. ~Crash
    BY <2>1 DEF Crash
  <2>4. ASSUME NEW m \in Modules, DeleteOne(m) \/ PruneFails(m) \/ CleanupFails(m)
        PROVE  o \in seen[m].status.inventory \ done[m]
    <3>1. PICK p \in todo[m] : terminating' \in {terminating, Requested(p)}
      BY <2>4 DEF DeleteOne, PruneFails, CleanupFails
    <3>2. o = p
      BY <3>1 DEF Requested
    <3>3. pc[m] \in {"prune", "cleanup"} /\ o \in todo[m]
      BY <2>4, <3>2 DEF DeleteOne, PruneFails, CleanupFails
    <3> QED
      BY <3>3 DEF Handling, InHand
  <2>5. ASSUME NEW p \in Objects, Vanish(p) PROVE FALSE
    BY <2>1, <2>5 DEF Vanish
  <2>6. ASSUME NEW m \in Modules,
               \/ Deliver(m) \/ Timer(m) \/ Start(m) \/ ApplyOne(m) \/ ApplyFails(m)
               \/ AddFinalizer(m) \/ Render(m) \/ StartPrune(m) \/ FinishPrune(m)
               \/ WriteStatus(m) \/ RemoveFinalizer(m) \/ RenderFails(m) \/ PatchFails(m)
        PROVE  UNCHANGED terminating
    BY <2>6 DEF Deliver, Timer, Start, AddFinalizer, Render, StartPrune, FinishPrune,
                ApplyOne, ApplyFails, WriteStatus, RemoveFinalizer, RenderFails, PatchFails
  <2>7. \E m \in Modules : DeleteOne(m) \/ PruneFails(m) \/ CleanupFails(m)
    BY <2>1, <2>2, <2>3, <2>5, <2>6 DEF Next, Fault, Reconcile
  <2> QED
    BY <2>4, <2>7
<1> QED
  BY <1>1, <1>2, InitHandles, TypeCorrect, PTL DEF Spec, DeletesOnlyStale

(***************************************************************************)
(* A module's history: the versions the cache still has to go through, and   *)
(* the one a running reconcile saw.                                        *)
(***************************************************************************)

Known(m) == {feed[m][i] : i \in 1..Len(feed[m])} \cup {seen[m]}

\* The ways in which the API server's version of a module moves.
Created(m) ==
  /\ Server(m).generation = 0
  /\ \E s \in Specs :
       Server(m)' = [Unborn EXCEPT !.live = TRUE, !.generation = 1, !.spec = s]
Edited(m) ==
  \E s \in Specs : Server(m)' = [Server(m) EXCEPT !.spec = s, !.generation = @ + 1]
Marked(m) ==
  /\ Server(m)'.spec = Server(m).spec /\ Server(m)'.generation = Server(m).generation
  /\ Server(m)'.status = Server(m).status
Written(m) ==
  /\ pc[m] = "write"
  /\ \E now \in Clock :
       Server(m)' = [Server(m) EXCEPT !.status = MergePatch(@, NewStatus(m, now))]
Moves(m) == Created(m) \/ Edited(m) \/ Marked(m) \/ Written(m)

\* What a step adds to a history.
Grows(m) ==
  /\ Known(m)' \subseteq Known(m) \cup {Server(m)', Unborn}
  /\ Moves(m)

\* The server's version and the cached one are known.
LEMMA EndsAreKnown ==
  ASSUME TypeOK, NEW m \in Modules
  PROVE  Server(m) \in Known(m) /\ Cached(m) \in Known(m) /\ seen[m] \in Known(m)
<1>1. feed[m] \in Seq(Version) /\ Len(feed[m]) > 0 /\ Len(feed[m]) \in Nat
  BY DEF TypeOK
<1>2. 1 \in 1..Len(feed[m]) /\ Len(feed[m]) \in 1..Len(feed[m])
  BY <1>1
<1> QED
  BY <1>2 DEF Known, Server, Cached

\* Where the feed of a module stays, its server's version does, and what is
\* known of it but for the running reconcile's.
LEMMA FeedStays ==
  ASSUME TypeOK, NEW m \in Modules, feed'[m] = feed[m],
         seen'[m] \in Known(m) \cup {Unborn}
  PROVE  Grows(m)
BY DEF Known, Server, Grows, Moves, Marked

\* Publishing adds the published version.
LEMMA PublishGrows ==
  ASSUME TypeOK, NEW m \in Modules, NEW v \in Version, Publish(m, v),
         seen'[m] \in Known(m) \cup {Unborn}
  PROVE  Known(m)' \subseteq Known(m) \cup {v, Unborn} /\ Server(m)' = v
<1>0. Server(m)' = v
  BY PublishSetsServer
<1>1. feed \in [Modules -> Seq(Version)] /\ Len(feed[m]) \in Nat
  BY DEF TypeOK
<1>2. CASE v = Server(m)
  <2>1. feed' = feed
    BY <1>2 DEF Publish
  <2> QED
    BY <1>0, <2>1 DEF Known
<1>3. CASE v # Server(m)
  <2>1. feed'[m] = Append(feed[m], v)
    BY <1>1, <1>3 DEF Publish
  <2>2. \A i \in 1..Len(feed'[m]) : feed'[m][i] = v \/ \E j \in 1..Len(feed[m]) : feed'[m][i] = feed[m][j]
    <3>1. /\ feed[m] \in Seq(Version) /\ Len(feed'[m]) = Len(feed[m]) + 1
          /\ feed'[m][Len(feed[m]) + 1] = v
          /\ \A i \in 1..Len(feed[m]) : feed'[m][i] = feed[m][i]
      BY <1>1, <2>1
    <3> QED
      BY <1>1, <3>1
  <2> QED
    BY <1>0, <2>2 DEF Known
<1> QED
  BY <1>2, <1>3

\* The user's actions on one module.
LEMMA UserGrows ==
  ASSUME TypeOK, NEW m \in Modules, Create(m) \/ Edit(m) \/ Delete(m)
  PROVE  Grows(m)
<1>0. seen'[m] \in Known(m) \cup {Unborn} /\ Server(m) \in Version
  BY EndsAreKnown, EndsAreVersions DEF Create, Edit, Delete, UserActs, worker, Known
<1>1. CASE Create(m)
  <2>1. PICK s \in Specs :
          Publish(m, [Unborn EXCEPT !.live = TRUE, !.generation = 1, !.spec = s])
    BY <1>1 DEF Create
  <2>2. [Unborn EXCEPT !.live = TRUE, !.generation = 1, !.spec = s] \in Version
    BY UnbornIsVersion DEF Version
  <2> QED
    BY <1>0, <1>1, <2>1, <2>2, PublishGrows DEF Create, Grows, Moves, Created
<1>2. CASE Edit(m)
  <2>1. PICK s \in Specs :
          Publish(m, [Server(m) EXCEPT !.spec = s, !.generation = @ + 1])
    BY <1>2 DEF Edit
  <2>2. [Server(m) EXCEPT !.spec = s, !.generation = @ + 1] \in Version
    <3>1. Server(m).generation + 1 \in Nat
      BY <1>0 DEF Version
    <3> QED
      BY <1>0, <3>1 DEF Version
  <2> QED
    BY <1>0, <2>1, <2>2, PublishGrows DEF Grows, Moves, Edited
<1>3. CASE Delete(m)
  <2> DEFINE v == IF Server(m).finalizer
                  THEN [Server(m) EXCEPT !.deleting = TRUE]
                  ELSE [Server(m) EXCEPT !.live = FALSE]
  <2>1. /\ v \in Version /\ v.spec = Server(m).spec
        /\ v.generation = Server(m).generation /\ v.status = Server(m).status
    BY <1>0 DEF Version
  <2>2. Publish(m, v)
    BY <1>3 DEF Delete
  <2> HIDE DEF v
  <2> QED
    BY <1>0, <2>1, <2>2, PublishGrows DEF Grows, Moves, Marked
<1> QED
  BY <1>1, <1>2, <1>3

\* The steps of a reconcile that patch the module.
LEMMA ReconcileGrows ==
  ASSUME TypeOK, NEW m \in Modules,
         \/ AddFinalizer(m) \/ RemoveFinalizer(m) \/ WriteStatus(m)
  PROVE  Grows(m)
<1>0. seen'[m] = Unborn /\ Server(m) \in Version
  BY EndsAreVersions DEF AddFinalizer, RemoveFinalizer, WriteStatus, Return, TypeOK
<1>1. CASE UNCHANGED feed
  BY <1>0, <1>1, FeedStays
<1>2. CASE AddFinalizer(m) /\ ~UNCHANGED feed
  <2>1. Publish(m, [Server(m) EXCEPT !.finalizer = TRUE])
    BY <1>2 DEF AddFinalizer
  <2>2. [Server(m) EXCEPT !.finalizer = TRUE] \in Version
    BY <1>0 DEF Version
  <2> QED
    BY <1>0, <2>1, <2>2, PublishGrows DEF Grows, Moves, Marked, Version
<1>3. CASE RemoveFinalizer(m) /\ ~UNCHANGED feed
  <2> DEFINE v == [Server(m) EXCEPT !.finalizer = FALSE, !.live = FALSE]
  <2>1. Publish(m, v)
    BY <1>3 DEF RemoveFinalizer
  <2>2. /\ v \in Version /\ v.spec = Server(m).spec
        /\ v.generation = Server(m).generation /\ v.status = Server(m).status
    BY <1>0 DEF Version
  <2> HIDE DEF v
  <2> QED
    BY <1>0, <2>1, <2>2, PublishGrows DEF Grows, Moves, Marked, v
<1>4. CASE WriteStatus(m) /\ ~UNCHANGED feed
  <2>1. PICK now \in Clock :
          Publish(m, [Server(m) EXCEPT !.status = MergePatch(@, NewStatus(m, now))])
    BY <1>4 DEF WriteStatus, PatchStatus
  <2>2. [Server(m) EXCEPT !.status = MergePatch(@, NewStatus(m, now))] \in Version
    BY <1>0, <1>4, NewStatusIsStatus, MergePatchIsStatus DEF Version
  <2>3. pc[m] = "write"
    BY <1>4 DEF WriteStatus
  <2> QED
    BY <1>0, <2>1, <2>2, <2>3, PublishGrows DEF Grows, Moves, Written
<1> QED
  BY <1>1, <1>2, <1>3, <1>4

\* Every step extends every module's history: with what the API server has now,
\* or not at all.
LEMMA StepGrows ==
  ASSUME TypeOK, NEW n \in Modules, [Next]_vars
  PROVE  Grows(n)
<1>0. /\ feed \in [Modules -> Seq(Version)] /\ feed[n] \in Seq(Version)
      /\ Len(feed[n]) \in Nat /\ Len(feed[n]) > 0
      /\ seen[n] \in Known(n) /\ Cached(n) \in Known(n) /\ Server(n) \in Known(n)
  BY EndsAreKnown DEF TypeOK
<1>1. CASE UNCHANGED <<feed, seen>>
  BY <1>0, <1>1, FeedStays
<1>2. CASE UNCHANGED feed /\ seen'[n] \in Known(n) \cup {Unborn}
  BY <1>2, FeedStays
<1>3. ASSUME NEW m \in Modules, Create(m) \/ Edit(m) \/ Delete(m) PROVE Grows(n)
  <2>1. CASE m = n
    BY <1>3, <2>1, UserGrows
  <2>2. CASE m # n
    <3>1. PICK v : Publish(m, v)
      BY <1>3 DEF Create, Edit, Delete
    <3>2. feed'[n] = feed[n]
      BY <1>0, <2>2, <3>1 DEF Publish
    <3>3. seen'[n] = seen[n]
      BY <1>3 DEF Create, Edit, Delete, UserActs, worker
    <3> QED
      BY <1>0, <3>2, <3>3, FeedStays
  <2> QED
    BY <2>1, <2>2
<1>4. CASE User
  <2>1. ASSUME NEW o \in Objects, Drift(o) PROVE Grows(n)
    BY <1>1, <2>1 DEF Drift, UserActs, worker
  <2> QED
    BY <1>3, <1>4, <2>1 DEF User
<1>5. CASE Crash
  <2>1. feed'[n] = <<Server(n)>> /\ seen'[n] = Unborn
    BY <1>5 DEF Crash
  <2>2. Server(n)' = Server(n) /\ Known(n)' = {Server(n), Unborn}
    BY <2>1 DEF Server, Known
  <2> QED
    BY <2>2 DEF Grows, Moves, Marked
<1>6. ASSUME NEW m \in Modules, Deliver(m) PROVE Grows(n)
  <2>1. seen' = seen /\ Server(n)' = Server(n)
    BY <1>6, DeliverKeepsServer DEF Deliver, worker
  <2>2. CASE m # n
    <3>1. feed'[n] = feed[n]
      BY <1>0, <1>6, <2>2 DEF Deliver
    <3> QED
      BY <1>0, <2>1, <3>1, FeedStays
  <2>3. CASE m = n
    <3>1. feed'[n] = Tail(feed[n]) /\ Len(feed[n]) > 1
      BY <1>0, <1>6, <2>3 DEF Deliver
    <3>2. /\ Len(feed'[n]) = Len(feed[n]) - 1
          /\ \A i \in 1..Len(feed'[n]) : feed'[n][i] = feed[n][i + 1] /\ i + 1 \in 1..Len(feed[n])
      BY <1>0, <3>1
    <3>3. Known(n)' \subseteq Known(n)
      BY <2>1, <3>2 DEF Known
    <3> QED
      BY <2>1, <3>3 DEF Grows, Moves, Marked
  <2> QED
    BY <2>2, <2>3
<1>7. ASSUME NEW m \in Modules, AddFinalizer(m) \/ RemoveFinalizer(m) \/ WriteStatus(m)
      PROVE  Grows(n)
  <2>1. CASE m = n
    BY <1>7, <2>1, ReconcileGrows
  <2>2. CASE m # n
    <3>1. UNCHANGED feed \/ \E v : Publish(m, v)
      BY <1>7 DEF AddFinalizer, RemoveFinalizer, WriteStatus, PatchStatus
    <3>2. feed'[n] = feed[n]
      BY <1>0, <2>2, <3>1 DEF Publish
    <3>3. seen'[n] = seen[n]
      BY <1>7, <2>2, WorkerFrame DEF Reconcile
    <3> QED
      BY <1>0, <3>2, <3>3, FeedStays
  <2> QED
    BY <2>1, <2>2
<1>8. ASSUME NEW m \in Modules,
             \/ Timer(m) \/ Render(m) \/ ApplyOne(m) \/ StartPrune(m) \/ DeleteOne(m)
             \/ FinishPrune(m) \/ RenderFails(m) \/ ApplyFails(m) \/ PruneFails(m)
      PROVE  Grows(n)
  BY <1>1, <1>8 DEF Timer, Render, ApplyOne, StartPrune, DeleteOne, FinishPrune,
                    RenderFails, ApplyFails, PruneFails, worker
<1>9. ASSUME NEW m \in Modules, Start(m) \/ CleanupFails(m) \/ PatchFails(m)
      PROVE  Grows(n)
  <2>1. UNCHANGED feed
    BY <1>9 DEF Start, CleanupFails, PatchFails
  <2>2. CASE m = n
    <3>1. seen'[n] \in {Unborn, Cached(n)}
      BY <1>9, <2>2 DEF Start, CleanupFails, PatchFails, Return, TypeOK
    <3> QED
      BY <1>0, <1>2, <2>1, <3>1
  <2>3. CASE m # n
    BY <1>0, <1>2, <1>9, <2>1, <2>3, WorkerFrame
  <2> QED
    BY <2>2, <2>3
<1>10. CASE UNCHANGED vars
  BY <1>1, <1>10 DEF vars, worker
<1>11. ASSUME NEW o \in Objects, Vanish(o) PROVE Grows(n)
  BY <1>1, <1>11 DEF Vanish, worker
<1> QED
  BY <1>3, <1>4, <1>5, <1>6, <1>7, <1>8, <1>9, <1>10, <1>11 DEF Next, Fault, Reconcile

(***************************************************************************)
(* The recorded inventory.  A merge patch does not send an inventory that  *)
(* is empty, so after a render of nothing the old one stays next to the    *)
(* new hash.  InventoryIsLastApply is not inductive, because a write merges *)
(* a status computed from an old version into the present one: every        *)
(* version the controller may still work from has to be sound, and its hash  *)
(* that of an accepted source, whose inventory a later write may keep.      *)
(***************************************************************************)

StatusSound(status) ==
  IF status.hash = NoHash THEN status.inventory = {}
  ELSE /\ status.hash \in Sources /\ Accepts(status.hash)
       /\ \/ status.inventory = Items[status.hash]
          \/ /\ Items[status.hash] = {}
             /\ \E s \in Sources : Accepts(s) /\ status.inventory = Items[s]

HistorySound(m) == \A v \in Known(m) : StatusSound(v.status)

\* What the server holds of the three fields after a status patch.
LEMMA MergeFields ==
  ASSUME NEW old \in Status, NEW new \in Status
  PROVE  LET st == MergePatch(old, new) IN
         /\ st.ready = new.ready
         /\ st.hash = IF new.hash = NoHash THEN old.hash ELSE new.hash
         /\ st.inventory = IF new.inventory = {} THEN old.inventory ELSE new.inventory
BY DEF MergePatch, Status

\* The fields of a module before its first version, and in it.
LEMMA UnbornFields ==
  /\ Unborn.generation = 0 /\ Unborn.status = NoStatus
  /\ NoStatus.hash = NoHash /\ NoStatus.inventory = {} /\ NoStatus.ready.reason = "None"
BY DEF Unborn, NoStatus, NoCondition

LEMMA CreatedFields ==
  ASSUME NEW m \in Modules, Created(m)
  PROVE  Server(m)'.generation = 1 /\ Server(m)'.status = NoStatus
BY DEF Created, Unborn

\* One status patch: a sound status merged with what a reconcile computes from
\* a sound one is sound.
LEMMA PatchIsSound ==
  ASSUME TypeOK, NEW m \in Modules, NEW now \in Clock, InHand(m),
         StatusSound(seen[m].status), NEW old \in Status, StatusSound(old)
  PROVE  StatusSound(MergePatch(old, NewStatus(m, now)))
<1> DEFINE new == NewStatus(m, now)
           st == MergePatch(old, new)
<1>1. SourceOf(m) \in Sources /\ SourceOf(m) # NoHash
  BY OperatorAssumption DEF TypeOK, Version, SpecType, SourceOf
<1>2. /\ new \in Status
      /\ st.hash = IF new.hash = NoHash THEN old.hash ELSE new.hash
      /\ st.inventory = IF new.inventory = {} THEN old.inventory ELSE new.inventory
  BY NewStatusIsStatus, MergeFields
<1>3. old.inventory = {} \/ \E s \in Sources : Accepts(s) /\ old.inventory = Items[s]
  BY DEF StatusSound
<1>4. CASE outcome[m] = "Applied"
  <2>1. /\ new.hash = SourceOf(m) /\ new.inventory = Items[SourceOf(m)]
        /\ Accepts(SourceOf(m))
    BY <1>4 DEF NewStatus, NewInventory, InHand, SourceOf
  <2> HIDE DEF new, st
  <2>2. StatusSound(st)
    BY <1>1, <1>2, <1>3, <2>1 DEF StatusSound
  <2> QED
    BY <2>2 DEF st, new
<1>5. CASE outcome[m] # "Applied"
  <2>1. new.hash = seen[m].status.hash /\ new.inventory = seen[m].status.inventory
    BY <1>5 DEF NewStatus, NewInventory
  <2> HIDE DEF new, st
  <2>2. StatusSound(st)
    BY <1>2, <1>3, <2>1, OperatorAssumption DEF StatusSound
  <2> QED
    BY <2>2 DEF st, new
<1> QED
  BY <1>4, <1>5

\* Every step keeps a module's history sound.
LEMMA StepKeepsHistorySound ==
  ASSUME TypeOK, Handling, NEW m \in Modules, HistorySound(m), [Next]_vars
  PROVE  HistorySound(m)'
<1>1. Grows(m)
  BY StepGrows
<1>2. /\ StatusSound(Server(m).status) /\ StatusSound(seen[m].status)
      /\ Server(m) \in Version /\ Server(m).status \in Status
  BY EndsAreKnown, EndsAreVersions DEF HistorySound, Version
<1>3. StatusSound(NoStatus) /\ Unborn.status = NoStatus
  BY UnbornFields DEF StatusSound
<1>4. StatusSound(Server(m)'.status)
  <2>1. CASE Created(m)
    BY <1>3, <2>1, CreatedFields
  <2>2. CASE Edited(m)
    BY <1>2, <2>2 DEF Edited, Version
  <2>3. CASE Marked(m)
    BY <1>2, <2>3 DEF Marked
  <2>4. CASE Written(m)
    <3>1. PICK now \in Clock :
            Server(m)' = [Server(m) EXCEPT !.status = MergePatch(@, NewStatus(m, now))]
      BY <2>4 DEF Written
    <3>2. Server(m)'.status = MergePatch(Server(m).status, NewStatus(m, now))
      BY <1>2, <3>1 DEF Version
    <3>3. InHand(m)
      BY DEF Handling
    <3> QED
      BY <1>2, <3>2, <3>3, PatchIsSound
  <2> QED
    BY <1>1, <2>1, <2>2, <2>3, <2>4 DEF Grows, Moves
<1>5. \A v \in Known(m)' : StatusSound(v.status)
  BY <1>1, <1>3, <1>4 DEF Grows, HistorySound
<1> QED
  BY <1>5 DEF HistorySound, StatusSound, Accepts

\* Before anything is created the only version known is the unborn one.
LEMMA InitIsUnborn ==
  ASSUME Init, NEW m \in Modules
  PROVE  Known(m) = {Unborn} /\ Server(m) = Unborn
<1>1. feed[m] = <<Unborn>> /\ seen[m] = Unborn
  BY DEF Init
<1> QED
  BY <1>1 DEF Known, Server

\* The recorded inventory is what the recorded source renders, or the whole of
\* what an accepted one did where the recorded one renders nothing: whatever
\* fails, and however old the version a write works from.
THEOREM InventoryMatchesHash == Spec => []InventoryIsLastApply
<1> DEFINE Sound == \A m \in Modules : HistorySound(m)
<1>1. Init => Sound
  BY InitIsUnborn DEF HistorySound, StatusSound, Unborn, NoStatus
<1>2. TypeOK /\ Handling /\ Sound /\ [Next]_vars => Sound'
  BY StepKeepsHistorySound
<1>3. TypeOK /\ Sound => InventoryIsLastApply
  BY EndsAreKnown DEF HistorySound, StatusSound, InventoryIsLastApply
<1>4. TypeOK /\ Handling /\ [Next]_vars => Handling'
  BY StepHandles
<1> HIDE DEF Sound
<1> QED
  BY <1>1, <1>2, <1>3, <1>4, InitHandles, TypeCorrect, PTL DEF Spec

(***************************************************************************)
(* What Ready speaks of.  A generation belongs to one spec: whatever the    *)
(* controller reports about a generation it saw in that version's spec.     *)
(***************************************************************************)

\* No version is ahead of the server's, one of its generation has its spec, and
\* an Applied condition is about a version up to the server's.
Dated(m) ==
  /\ \A v \in Known(m) :
       /\ v.generation \in Nat /\ v.generation <= Server(m).generation
       /\ v.generation = Server(m).generation => v.spec = Server(m).spec
  /\ Server(m).generation = 0 => Server(m).spec = Unborn.spec
  /\ Server(m).status.ready.reason = "Applied" =>
       /\ Server(m).status.ready.generation <= Server(m).generation
       /\ Server(m).status.ready.generation = Server(m).generation
            => Server(m).status.hash = Server(m).spec.source

\* What a status write says of the reason, the generation and the hash.
LEMMA PatchIsDated ==
  ASSUME TypeOK, NEW m \in Modules, NEW now \in Clock, NEW old \in Status
  PROVE  LET st == MergePatch(old, NewStatus(m, now)) IN
         /\ st.ready.reason = outcome[m] /\ st.ready.generation = seen[m].generation
         /\ outcome[m] = "Applied" => st.hash = SourceOf(m)
<1> DEFINE new == NewStatus(m, now)
<1>1. /\ new.ready.reason = outcome[m] /\ new.ready.generation = seen[m].generation
      /\ outcome[m] = "Applied" => new.hash = SourceOf(m)
  BY DEF NewStatus, SetCondition, ConditionOf, SourceOf
<1>2. SourceOf(m) # NoHash
  BY OperatorAssumption DEF TypeOK, Version, SpecType, SourceOf
<1>3. new \in Status
  BY NewStatusIsStatus
<1>4. LET st == MergePatch(old, new) IN
        st.ready = new.ready /\ (new.hash # NoHash => st.hash = new.hash)
  BY <1>3, MergeFields
<1> QED
  BY <1>1, <1>2, <1>4

\* Every step keeps a module's history dated.
LEMMA StepKeepsDates ==
  ASSUME TypeOK, NEW m \in Modules, Dated(m), [Next]_vars
  PROVE  Dated(m)'
<1>1. Grows(m)
  BY StepGrows
<1>2. /\ Server(m) \in Version /\ Server(m).status \in Status
      /\ Server(m).generation \in Nat /\ Server(m).status.ready.generation \in Nat
  BY EndsAreVersions DEF Version, Status, Condition
<1> DEFINE New == Server(m)'
           Later == \A v \in Known(m) :
                      /\ v.generation \in Nat /\ v.generation <= New.generation
                      /\ v.generation = New.generation => v.spec = New.spec
           First == New.generation = 0 => New.spec = Unborn.spec
           Ready == New.status.ready.reason = "Applied" =>
                      /\ New.status.ready.generation <= New.generation
                      /\ New.status.ready.generation = New.generation
                           => New.status.hash = New.spec.source
           Aim == Later /\ First /\ Ready /\ New.generation \in Nat
<1>3. ASSUME Created(m) PROVE Aim
  <2>1. New.generation = 1 /\ New.status.ready.reason # "Applied"
    BY <1>3, CreatedFields, UnbornFields
  <2>2. \A v \in Known(m) : v.generation \in Nat /\ v.generation <= 0
    BY <1>3 DEF Created, Dated
  <2>3. Later
    BY <2>1, <2>2
  <2> QED
    BY <2>1, <2>3
<1>4. ASSUME Edited(m) PROVE Aim
  <2>1. New.generation = Server(m).generation + 1 /\ New.status = Server(m).status
    BY <1>2, <1>4 DEF Edited, Version
  <2>2. \A v \in Known(m) : v.generation \in Nat /\ v.generation <= Server(m).generation
    BY DEF Dated
  <2>3. Later
    BY <1>2, <2>1, <2>2
  <2>4. Server(m).status.ready.reason = "Applied"
          => Server(m).status.ready.generation <= Server(m).generation
    BY DEF Dated
  <2>5. Ready
    BY <1>2, <2>1, <2>4
  <2>6. New.generation # 0 /\ New.generation \in Nat
    BY <1>2, <2>1
  <2> QED
    BY <2>3, <2>5, <2>6
<1>5. ASSUME Marked(m) PROVE Aim
  <2>1. /\ New.generation = Server(m).generation /\ New.spec = Server(m).spec
        /\ New.status = Server(m).status
    BY <1>5 DEF Marked
  <2> QED
    BY <1>2, <2>1 DEF Dated
<1>6. ASSUME Written(m) PROVE Aim
  <2>1. PICK now \in Clock :
          New = [Server(m) EXCEPT !.status = MergePatch(@, NewStatus(m, now))]
    BY <1>6 DEF Written
  <2>2. /\ New.generation = Server(m).generation /\ New.spec = Server(m).spec
        /\ New.status = MergePatch(Server(m).status, NewStatus(m, now))
    BY <1>2, <2>1 DEF Version
  <2>3. /\ New.status.ready.reason = outcome[m]
        /\ New.status.ready.generation = seen[m].generation
        /\ outcome[m] = "Applied" => New.status.hash = seen[m].spec.source
    BY <1>2, <2>2, PatchIsDated DEF SourceOf
  <2>4. /\ seen[m].generation <= Server(m).generation
        /\ seen[m].generation = Server(m).generation => seen[m].spec = Server(m).spec
    BY EndsAreKnown DEF Dated
  <2>5. Ready
    BY <2>2, <2>3, <2>4
  <2>6. Later /\ First /\ New.generation \in Nat
    BY <1>2, <2>2 DEF Dated
  <2> QED
    BY <2>5, <2>6
<1>7. Aim
  BY <1>1, <1>3, <1>4, <1>5, <1>6 DEF Grows, Moves
<1>8. ASSUME NEW v \in Known(m)'
      PROVE  /\ v.generation \in Nat /\ v.generation <= New.generation
             /\ v.generation = New.generation => v.spec = New.spec
  <2>1. CASE v \in Known(m)
    BY <1>7, <2>1
  <2>2. CASE v = New
    BY <1>7, <2>2
  <2>3. CASE v = Unborn
    <3>1. v.generation = 0 /\ v.spec = Unborn.spec
      BY <2>3, UnbornFields
    <3> QED
      BY <1>7, <3>1
  <2> QED
    BY <1>1, <2>1, <2>2, <2>3 DEF Grows
<1> QED
  BY <1>7, <1>8 DEF Dated, Unborn

\* Whatever fails and however old the cache: a Ready condition that says Applied
\* of the current generation names the current source.
THEOREM ReadyIsAboutSpec == Spec => []ReadyDescribesSpec
<1> DEFINE Dates == \A m \in Modules : Dated(m)
<1>1. Init => Dates
  <2> SUFFICES ASSUME Init, NEW m \in Modules PROVE Dated(m)
    OBVIOUS
  <2>1. Known(m) = {Unborn} /\ Server(m) = Unborn
    BY InitIsUnborn
  <2> QED
    BY <2>1, UnbornFields DEF Dated
<1>2. TypeOK /\ Dates /\ [Next]_vars => Dates'
  BY StepKeepsDates
<1>3. Dates => ReadyDescribesSpec
  BY DEF Dated, ReadyDescribesSpec
<1> HIDE DEF Dates
<1> QED
  BY <1>1, <1>2, <1>3, TypeCorrect, PTL DEF Spec

\* A status write that reports a failure keeps every recorded object, whatever
\* fails and however old the cache, as long as no other write has come between
\* the status it was computed from and the one it is merged into.
THEOREM FailuresKeepInventory == Spec => FailureKeepsInventory
<1> DEFINE Keeps ==
      \A m \in Modules :
        Server(m)'.status.ready.reason \in Failures =>
          \/ Server(m).status.inventory \subseteq Server(m)'.status.inventory
          \/ pc[m] = "write" /\ seen[m].status # Server(m).status
<1>1. TypeOK /\ [Next]_vars => [Keeps]_feed
  <2> SUFFICES ASSUME TypeOK, [Next]_vars, NEW m \in Modules,
                      Server(m)'.status.ready.reason \in Failures,
                      ~(pc[m] = "write" /\ seen[m].status # Server(m).status)
               PROVE  Server(m).status.inventory \subseteq Server(m)'.status.inventory
    OBVIOUS
  <2>1. Server(m) \in Version /\ Server(m).status \in Status
    BY EndsAreVersions DEF Version
  <2>2. ~Created(m)
    BY CreatedFields, UnbornFields DEF Failures
  <2>3. CASE Edited(m) \/ Marked(m)
    BY <2>1, <2>3 DEF Edited, Marked, Version
  <2>4. CASE Written(m)
    <3>1. PICK now \in Clock :
            Server(m)' = [Server(m) EXCEPT !.status = MergePatch(@, NewStatus(m, now))]
      BY <2>4 DEF Written
    <3>2. Server(m)'.status = MergePatch(Server(m).status, NewStatus(m, now))
      BY <2>1, <3>1 DEF Version
    <3>3. outcome[m] # "Applied"
      BY <2>1, <3>2, PatchIsDated DEF Failures
    <3>4. NewStatus(m, now).inventory = Server(m).status.inventory
      BY <2>4, <3>3 DEF Written, NewStatus, NewInventory
    <3>5. NewStatus(m, now) \in Status
      BY NewStatusIsStatus
    <3>6. MergePatch(Server(m).status, NewStatus(m, now)).inventory
            = Server(m).status.inventory
      BY <3>4, <3>5 DEF MergePatch, Status
    <3> QED
      BY <3>2, <3>6
  <2> QED
    BY <2>2, <2>3, <2>4, StepGrows DEF Grows, Moves
<1> QED
  BY <1>1, TypeCorrect, PTL DEF Spec, FailureKeepsInventory
=============================================================================
