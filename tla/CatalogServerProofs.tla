------------------------- MODULE CatalogServerProofs -------------------------
(***************************************************************************)
(* What TLAPS proves about releases and a session of the catalog server, for  *)
(* any tree, drafts, registries and number of requests.                     *)
(***************************************************************************)
EXTENDS CatalogServer, SequenceTheorems, FiniteSetTheorems, TLAPS

(***************************************************************************)
(* Releases.  Once a run publishes, main with the tags of all it bumped has    *)
(* been pushed, and what is left to publish is among that.                   *)
(***************************************************************************)

IsRun(r) ==
  r \in [stage: {r.stage}, env: {r.env}, todo: {r.todo}, failed: {r.failed},
         bumped: {r.bumped}, head: {r.head}, main: {r.main}]

RunOK ==
  \/ run = NoRun
  \/ /\ IsRun(run) /\ run.todo \subseteq run.bumped
     /\ run.stage \in {"push", "publish", "ended"}
     /\ run.stage # "push" => Released(run) \subseteq tags

ReleaseInv == RunOK /\ PublishedIsTagged

\* A run's record with fields changed is a run's record.
Changed(r, stage, todo, failed) ==
  [r EXCEPT !.stage = stage, !.todo = todo, !.failed = failed]

LEMMA Fields ==
  ASSUME NEW r, IsRun(r), NEW stage, NEW todo, NEW failed
  PROVE  LET new == Changed(r, stage, todo, failed) IN
         /\ IsRun(new) /\ new.stage = stage /\ new.todo = todo /\ new.failed = failed
         /\ new.bumped = r.bumped /\ new.main = r.main /\ new.env = r.env
<1> DEFINE new == Changed(r, stage, todo, failed)
<1>1. new \in [stage: {stage}, env: {r.env}, todo: {todo}, failed: {failed},
               bumped: {r.bumped}, head: {r.head}, main: {r.main}]
  BY DEF IsRun, Changed
<1> HIDE DEF new
<1>2. /\ new.stage = stage /\ new.env = r.env /\ new.todo = todo /\ new.failed = failed
      /\ new.bumped = r.bumped /\ new.head = r.head /\ new.main = r.main
  BY <1>1
<1>3. IsRun(new)
  BY <1>1, <1>2 DEF IsRun
<1> QED
  BY <1>2, <1>3 DEF new

\* A step that changes some of them changes all three.
LEMMA OneField ==
  ASSUME NEW r, IsRun(r), NEW x, NEW y
  PROVE  /\ [r EXCEPT !.stage = x] = Changed(r, x, r.todo, r.failed)
         /\ [r EXCEPT !.todo = x] = Changed(r, r.stage, x, r.failed)
         /\ [r EXCEPT !.stage = x, !.failed = y] = Changed(r, x, r.todo, y)
         /\ [r EXCEPT !.todo = x, !.failed = y] = Changed(r, r.stage, x, y)
BY DEF IsRun, Changed

\* A run that has a stage of its own is a record, and moves on as one.
LEMMA RunMoves ==
  ASSUME RunOK, run.stage # "idle"
  PROVE  /\ IsRun(run) /\ run.todo \subseteq run.bumped
         /\ run.stage # "push" => Released(run) \subseteq tags
<1>1. run # NoRun
  BY DEF NoRun
<1> QED
  BY <1>1 DEF RunOK

LEMMA RunBecomes ==
  ASSUME RunOK, run.stage # "idle", NEW stage, NEW todo, NEW failed,
         run' = Changed(run, stage, todo, failed)
  PROVE  /\ IsRun(run') /\ run'.stage = stage /\ run'.todo = todo /\ run'.failed = failed
         /\ run'.bumped = run.bumped /\ run'.main = run.main /\ run'.env = run.env
<1>1. IsRun(run)
  BY RunMoves
<1> QED
  BY <1>1, Fields

\* The invariant is about the run, the tags and the images.
LEMMA SameRelease ==
  ASSUME ReleaseInv, UNCHANGED <<run, tags, oci>>
  PROVE  ReleaseInv'
BY DEF ReleaseInv, RunOK, Released, IsRun, PublishedIsTagged

\* A run that keeps its commit keeps what it released.
LEMMA KeptCommit ==
  ASSUME ReleaseInv, run.stage \in {"publish", "ended"}, UNCHANGED tags,
         IsRun(run'), run'.stage \in {"publish", "ended"}, run'.todo \subseteq run.bumped,
         run'.bumped = run.bumped, run'.main = run.main, PublishedIsTagged'
  PROVE  ReleaseInv'
<1>1. Released(run') = Released(run)
  BY DEF Released
<1>2. Released(run) \subseteq tags
  BY RunMoves DEF ReleaseInv
<1> QED
  BY <1>1, <1>2 DEF ReleaseInv, RunOK

LEMMA SameImages ==
  ASSUME PublishedIsTagged, oci' = oci, tags \subseteq tags'
  PROVE  PublishedIsTagged'
BY DEF PublishedIsTagged

\* How each step moves the run.
LEMMA RunSteps ==
  ASSUME RunOK
  PROVE  /\ PushMain /\ main.head = run.head =>
              run' = Changed(run, "publish", run.todo, run.failed)
         /\ Finish => run' = Changed(run, "ended", run.todo, run.failed)
         /\ Cancel /\ run.stage # "push" =>
              run' = Changed(run, "ended", run.todo, run.failed \cup run.todo)
         /\ RetryPublish => run' = Changed(run, "publish", run.bumped, {})
<1>1. CASE run = NoRun
  BY <1>1 DEF NoRun, PushMain, Finish, Cancel, Running, RetryPublish
<1>2. CASE IsRun(run)
  <2>1. PICK failed : failed = run.failed \cup run.todo
    OBVIOUS
  <2>2. [run EXCEPT !.stage = "ended", !.failed = failed]
          = Changed(run, "ended", run.todo, failed)
    BY <1>2 DEF IsRun, Changed
  <2>3. Cancel /\ run.stage # "push" => run' = Changed(run, "ended", run.todo, failed)
    <3>1. Cancel /\ run.stage # "push"
            => run' = [run EXCEPT !.stage = "ended", !.failed = run.failed \cup run.todo]
      BY <1>2 DEF Cancel, IsRun
    <3> QED
      BY <2>1, <2>2, <3>1
  <2>4. /\ PushMain /\ main.head = run.head => run' = [run EXCEPT !.stage = "publish"]
        /\ Finish => run' = [run EXCEPT !.stage = "ended"]
    BY DEF PushMain, Finish
  <2>5. RetryPublish => run' = Changed(run, "publish", run.bumped, {})
    BY DEF RetryPublish, Changed
  <2> QED
    BY <1>2, <2>1, <2>3, <2>4, <2>5, OneField
<1> QED
  BY <1>1, <1>2 DEF RunOK

LEMMA TagKeeps == ASSUME ReleaseInv, VersionAndTag PROVE ReleaseInv'
<1>1. UNCHANGED <<tags, oci>>
  BY DEF VersionAndTag
<1>2. PublishedIsTagged'
  BY <1>1, SameImages DEF ReleaseInv
<1>3. \/ run' = NoRun
      \/ \E env, todo, head, m :
           run' = [stage |-> "push", env |-> env, todo |-> todo, failed |-> {},
                   bumped |-> todo, head |-> head, main |-> m]
  BY Zenon DEF VersionAndTag
<1>4. RunOK'
  BY <1>3 DEF RunOK, IsRun
<1> QED
  BY <1>2, <1>4 DEF ReleaseInv

LEMMA PushKeeps == ASSUME ReleaseInv, PushMain PROVE ReleaseInv'
<1>1. run.stage = "push" /\ UNCHANGED oci /\ tags \subseteq tags'
  BY DEF PushMain
<1>2. PublishedIsTagged'
  BY <1>1, SameImages DEF ReleaseInv
<1>3. CASE main.head # run.head
  BY <1>2, <1>3 DEF PushMain, ReleaseInv, RunOK
<1>4. CASE main.head = run.head
  <2>1. run' = [run EXCEPT !.stage = "publish"] /\ tags' = tags \cup Released(run)
    BY <1>4 DEF PushMain
  <2>2. /\ IsRun(run') /\ run'.stage = "publish" /\ run'.todo = run.todo
        /\ run'.bumped = run.bumped /\ run'.main = run.main
        /\ run.todo \subseteq run.bumped
    <3>1. RunOK /\ run.stage # "idle" /\ IsRun(run) /\ run.todo \subseteq run.bumped
      BY <1>1, RunMoves DEF ReleaseInv
    <3>2. run' = Changed(run, "publish", run.todo, run.failed)
      BY <2>1, <3>1, OneField
    <3> QED
      BY <3>1, <3>2, RunBecomes
  <2>3. Released(run') = Released(run)
    BY <2>2 DEF Released
  <2> QED
    BY <1>2, <2>1, <2>2, <2>3 DEF ReleaseInv, RunOK
<1> QED
  BY <1>3, <1>4

LEMMA PublishKeeps ==
  ASSUME ReleaseInv, NEW d \in Dirs, kclPublishExecutor(d)
  PROVE  ReleaseInv'
<1>1. /\ run.stage = "publish" /\ d \in run.todo /\ UNCHANGED tags
  BY DEF kclPublishExecutor
<1>2. /\ IsRun(run) /\ run.todo \subseteq run.bumped /\ Released(run) \subseteq tags
  BY <1>1, RunMoves DEF ReleaseInv
<1>3. PICK failed :
        run' = Changed(run, run.stage, run.todo \ {d}, failed)
  <2>1. \/ run' = [run EXCEPT !.todo = run.todo \ {d}]
        \/ run' = [run EXCEPT !.todo = run.todo \ {d}, !.failed = run.failed \cup {d}]
    BY <1>2 DEF kclPublishExecutor, IsRun
  <2>2. PICK todo, failed : todo = run.todo \ {d} /\ failed = run.failed \cup {d}
    OBVIOUS
  <2>3. /\ [run EXCEPT !.todo = todo] = Changed(run, run.stage, todo, run.failed)
        /\ [run EXCEPT !.todo = todo, !.failed = failed]
             = Changed(run, run.stage, todo, failed)
    BY <1>2 DEF IsRun, Changed
  <2> QED
    BY <2>1, <2>2, <2>3
<1>4. /\ IsRun(run') /\ run'.stage = "publish" /\ run'.todo = run.todo \ {d}
      /\ run'.bumped = run.bumped /\ run'.main = run.main
  BY <1>1, <1>3, RunBecomes DEF ReleaseInv
<1>5. PICK registry : oci' = oci \/ oci' = oci \cup
        {[image |-> Image(registry, d, Version(run.main.tree, d)),
          pack |-> Pack(run.main.tree, d)]}
  BY DEF kclPublishExecutor
<1>6. [name |-> d, version |-> Version(run.main.tree, d), pack |-> Pack(run.main.tree, d)]
        \in tags
  BY <1>1, <1>2 DEF Released
<1>7. PublishedIsTagged'
  <2> SUFFICES ASSUME NEW o \in oci'
               PROVE  [name |-> o.image.name, version |-> o.image.version,
                       pack |-> o.pack] \in tags
    BY <1>1 DEF PublishedIsTagged
  <2>1. CASE o \in oci
    BY <2>1 DEF ReleaseInv, PublishedIsTagged
  <2>2. CASE o = [image |-> Image(registry, d, Version(run.main.tree, d)),
                  pack |-> Pack(run.main.tree, d)]
    <3>1. /\ o.image.name = d /\ o.image.version = Version(run.main.tree, d)
          /\ o.pack = Pack(run.main.tree, d)
      BY <2>2 DEF Image
    <3> QED
      BY <1>6, <3>1
  <2> QED
    BY <1>5, <2>1, <2>2
<1> QED
  BY <1>1, <1>2, <1>4, <1>7, KeptCommit

LEMMA EndKeeps ==
  ASSUME ReleaseInv, Finish \/ Cancel \/ RetryPublish
  PROVE  ReleaseInv'
<1>1. UNCHANGED <<tags, oci>>
  BY DEF Finish, Cancel, RetryPublish
<1>2. PublishedIsTagged'
  BY <1>1, SameImages DEF ReleaseInv
<1>3. CASE Cancel /\ run.stage = "push"
  BY <1>2, <1>3 DEF Cancel, ReleaseInv, RunOK
<1>4. ASSUME run.stage # "idle"
      PROVE  /\ RunOK /\ IsRun(run) /\ run.todo \subseteq run.bumped
             /\ run.bumped \subseteq run.bumped
  BY <1>4, RunMoves DEF ReleaseInv
<1>5. CASE Finish
  <2>1. run.stage = "publish" /\ run' = Changed(run, "ended", run.todo, run.failed)
    BY <1>4, <1>5, RunSteps DEF Finish
  <2> QED
    BY <1>1, <1>2, <1>4, <2>1, RunBecomes, KeptCommit
<1>6. CASE Cancel /\ run.stage # "push"
  <2>1. /\ run.stage = "publish"
        /\ run' = Changed(run, "ended", run.todo, run.failed \cup run.todo)
    BY <1>6, RunSteps DEF Cancel, Running, ReleaseInv
  <2> QED
    <3>1. /\ IsRun(run') /\ run'.stage = "ended" /\ run'.todo = run.todo
          /\ run'.bumped = run.bumped /\ run'.main = run.main
      BY <1>4, <2>1, RunBecomes
    <3> QED
      BY <1>1, <1>2, <1>4, <2>1, <3>1, KeptCommit
<1>7. CASE RetryPublish
  <2>1. /\ run.stage = "ended"
        /\ run' = Changed(run, "publish", run.bumped, {})
    BY <1>7 DEF RetryPublish, Changed
  <2> QED
    BY <1>1, <1>2, <1>4, <2>1, RunBecomes, KeptCommit
<1> QED
  BY <1>3, <1>5, <1>6, <1>7

LEMMA ReleaseInitOK == Init => ReleaseInv
<1> SUFFICES ASSUME Init PROVE ReleaseInv
  OBVIOUS
<1>1. run = NoRun
  BY DEF Init, ReleaseInit
<1>2. ASSUME NEW t \in tags
      PROVE  [name |-> t.name, version |-> t.version, pack |-> t.pack] = t
  BY <1>2 DEF Init, ReleaseInit
<1>3. \A o \in oci : \E t \in tags :
        /\ o.image.name = t.name /\ o.image.version = t.version /\ o.pack = t.pack
  BY DEF Init, ReleaseInit, Image
<1> QED
  BY <1>1, <1>2, <1>3 DEF ReleaseInv, RunOK, PublishedIsTagged

LEMMA ReleaseKeeps ==
  ASSUME ReleaseInv, [Next]_<<releaseVars, serverVars>>
  PROVE  ReleaseInv'
<1>1. CASE UNCHANGED releaseVars
  BY <1>1, SameRelease DEF releaseVars
<1>2. ASSUME NEW d \in Dirs, Commit(d) PROVE ReleaseInv'
  BY <1>2, SameRelease DEF Commit
<1>3. ASSUME NEW line, Send(line) PROVE ReleaseInv'
  BY <1>3, SameRelease DEF Send
<1>4. CASE Dispatch
  BY <1>4, SameRelease DEF Dispatch
<1> QED
  BY <1>1, <1>2, <1>3, <1>4, TagKeeps, PushKeeps, PublishKeeps, EndKeeps DEF Next

\* What an image holds was packed from the commit its tag is on, through rejected
\* pushes, failed publishes, cancelled runs and retries.
THEOREM ImagesAreTagged == Spec => []PublishedIsTagged
<1>1. ReleaseInv => PublishedIsTagged
  BY DEF ReleaseInv
<1> QED
  BY <1>1, ReleaseInitOK, ReleaseKeeps, PTL DEF Spec

(***************************************************************************)
(* The session.  Requests are numbered as they come, so the queue is what      *)
(* follows the number of those taken from it, and only the last of these can     *)
(* still wait for its answer.                                               *)
(***************************************************************************)

Taken == Len(sent) - Len(queue)
Answered(k) == \E i \in DOMAIN out : out[i].request = k

\* How a session ends: with nothing left to do, or by a line that was null.
Over ==
  /\ handling = {}
  /\ (closed /\ queue = <<>>) \/ (Taken > 0 /\ sent[Taken].asks = "null")

Ordered ==
  /\ sent \in Seq(Lines) /\ queue \in Seq(Nat) /\ Len(queue) <= Len(sent)
  /\ \E S : out \in Seq(S)
  /\ \A i \in 1..Len(queue) : queue[i] = Taken + i
  /\ handling = {} \/ (handling = {Taken} /\ Taken > 0 /\ sent[Taken].asks \in Remote)
  /\ \A i, j \in 1..Len(out) : i < j => out[i].request < out[j].request
  /\ \A i \in 1..Len(out) : out[i].request \in 1..Taken
  /\ \A k \in 1..Taken : Answered(k) <=> sent[k].id /\ k \notin handling
  /\ exited => Over


Snapshot ==
  \A i \in DOMAIN out : out[i].source.read = "scan" =>
    cached # NoTree /\ out[i].source.of = cached.tree

\* Adding an answer.
LEMMA Appended ==
  ASSUME Ordered, NEW k, NEW source, Answer(k, source)
  PROVE  /\ \E S : out' \in Seq(S)
         /\ DOMAIN out = 1..Len(out) /\ Len(out') = Len(out) + 1 /\ Len(out) \in Nat
         /\ DOMAIN out' = 1..(Len(out) + 1)
         /\ \A i \in 1..Len(out) : out'[i] = out[i]
         /\ out'[Len(out) + 1].request = k /\ out'[Len(out) + 1].source = source
<1>1. PICK S : out \in Seq(S)
  BY DEF Ordered
<1>2. PICK new : new = [request |-> k, source |-> source]
  OBVIOUS
<1>3. PICK T : T = S \cup {new}
  OBVIOUS
<1>4. out \in Seq(T) /\ new \in T /\ out' = Append(out, new)
  BY <1>1, <1>2, <1>3, SeqMonotonic DEF Answer
<1>5. /\ DOMAIN out = 1..Len(out) /\ Len(out) \in Nat
      /\ out' \in Seq(T) /\ Len(out') = Len(out) + 1
      /\ DOMAIN out' = 1..(Len(out) + 1)
      /\ \A i \in 1..Len(out) : out'[i] = out[i]
      /\ out'[Len(out) + 1] = new
  BY <1>4
<1> QED
  BY <1>2, <1>5

\* An answer to the last request taken, which nobody waits for any more.
LEMMA AnswerKeeps ==
  ASSUME Ordered, UNCHANGED sent, NEW source, NEW k,
         sent' \in Seq(Lines), queue' \in Seq(Nat), Len(queue') <= Len(sent'),
         \A i \in 1..Len(queue') : queue'[i] = Taken' + i,
         k = Taken', Taken' > 0, Taken' <= Len(sent), handling' = {},
         Answer(k, source), sent[k].id,
         \A i \in 1..Len(out) : out[i].request < k,
         \A j \in 1..(k - 1) : Answered(j) <=> sent[j].id,
         exited' = FALSE
  PROVE  Ordered'
<1>1. /\ \E S : out' \in Seq(S)
      /\ DOMAIN out = 1..Len(out) /\ Len(out') = Len(out) + 1 /\ Len(out) \in Nat
      /\ DOMAIN out' = 1..(Len(out) + 1)
      /\ \A i \in 1..Len(out) : out'[i] = out[i]
      /\ out'[Len(out) + 1].request = k
  BY Appended
<1>2. Taken' \in Nat /\ k \in Nat
  BY DEF Taken
<1>3. \A i \in 1..Len(out) : out[i].request \in Nat
  BY DEF Ordered, Taken
<1>4. ASSUME NEW i \in 1..Len(out'), NEW j \in 1..Len(out'), i < j
      PROVE  out'[i].request < out'[j].request
  <2>1. i \in 1..Len(out)
    BY <1>1, <1>4
  <2>2. CASE j \in 1..Len(out)
    BY <1>1, <1>4, <2>1, <2>2 DEF Ordered
  <2>3. CASE j = Len(out) + 1
    BY <1>1, <2>1, <2>3
  <2> QED
    BY <1>1, <2>2, <2>3
<1>5. ASSUME NEW i \in 1..Len(out') PROVE out'[i].request \in 1..Taken'
  <2>1. CASE i \in 1..Len(out)
    <3>1. out[i].request \in 1..Taken /\ out[i].request < k
      BY <2>1 DEF Ordered
    <3> QED
      BY <1>1, <1>2, <2>1, <3>1
  <2>2. CASE i = Len(out) + 1
    BY <1>1, <1>2, <2>2
  <2> QED
    BY <1>1, <2>1, <2>2
<1>6. ASSUME NEW j \in 1..Taken'
      PROVE  Answered(j)' <=> sent[j].id
  <2>1. CASE j = k
    <3>1. Answered(j)'
      BY <1>1, <2>1 DEF Answered
    <3> QED
      BY <2>1, <3>1
  <2>2. CASE j # k
    <3>0. \A a, b \in Nat : a \in 1..b /\ a # b => a \in 1..(b - 1)
      OBVIOUS
    <3>1. j \in 1..(k - 1)
      <4>1. j \in 1..k /\ j \in Nat
        BY <1>2
      <4> QED
        BY <1>2, <2>2, <3>0, <4>1
    <3>2. ASSUME NEW i \in DOMAIN out, out[i].request = j PROVE Answered(j)'
      <4>1. i \in DOMAIN out' /\ out'[i] = out[i]
        BY <1>1, <3>2
      <4> QED
        BY <3>2, <4>1 DEF Answered
    <3>3. ASSUME NEW i \in DOMAIN out', out'[i].request = j PROVE Answered(j)
      <4>1. i \in 1..Len(out)
        BY <1>1, <2>2, <3>3
      <4>2. i \in DOMAIN out /\ out'[i] = out[i]
        BY <1>1, <4>1
      <4> QED
        BY <3>3, <4>2 DEF Answered
    <3>4. Answered(j)' <=> Answered(j)
      BY <3>2, <3>3 DEF Answered
    <3> QED
      BY <3>1, <3>4
  <2> QED
    BY <2>1, <2>2
<1> QED
  BY <1>1, <1>4, <1>5, <1>6 DEF Ordered

\* A request taken that is not answered, or not yet.
LEMMA SilentKeeps ==
  ASSUME Ordered, UNCHANGED <<sent, out>>, NEW k,
         queue' \in Seq(Nat), Len(queue') <= Len(sent'),
         \A i \in 1..Len(queue') : queue'[i] = Taken' + i,
         k = Taken', Taken' \in Nat, Taken' > 0, Taken' <= Len(sent),
         \/ handling' = {} /\ ~sent[k].id
         \/ handling' = {k} /\ sent[k].asks \in Remote,
         \A i \in 1..Len(out) : out[i].request \in Nat /\ out[i].request < k,
         \A j \in 1..(k - 1) : Answered(j) <=> sent[j].id,
         exited' => Over'
  PROVE  Ordered'
<1>1. sent' \in Seq(Lines) /\ (\E S : out' \in Seq(S)) /\ DOMAIN out = 1..Len(out)
  BY DEF Ordered
<1>2. \A i, j \in 1..Len(out') : i < j => out'[i].request < out'[j].request
  BY DEF Ordered
<1>3. ASSUME NEW i \in 1..Len(out') PROVE out'[i].request \in 1..Taken'
  <2>1. out[i].request \in 1..Taken /\ out[i].request < k
    BY <1>3 DEF Ordered
  <2> QED
    BY <2>1
<1>4. ASSUME NEW j \in 1..Taken' PROVE Answered(j)' <=> sent'[j].id /\ j \notin handling'
  <2>1. Answered(j)' <=> Answered(j)
    BY DEF Answered
  <2>2. ~Answered(k)
    BY <1>1 DEF Answered
  <2>3. CASE j = k
    BY <2>1, <2>2, <2>3
  <2>4. CASE j # k
    <3>0. \A a, b \in Nat : a \in 1..b /\ a # b => a \in 1..(b - 1)
      OBVIOUS
    <3>1. j \in 1..k /\ j \in Nat /\ k \in Nat /\ j \notin handling'
      BY <2>4
    <3>2. j \in 1..(k - 1)
      BY <2>4, <3>0, <3>1
    <3> QED
      BY <2>1, <3>1, <3>2
  <2> QED
    BY <2>3, <2>4
<1> QED
  BY <1>1, <1>2, <1>3, <1>4 DEF Ordered

\* Taking the next request off the queue.
LEMMA Next1 ==
  ASSUME Ordered, queue # <<>>, queue' = Tail(queue), UNCHANGED sent
  PROVE  /\ Head(queue) = Taken + 1 /\ Taken' = Taken + 1 /\ Taken \in Nat
         /\ Taken' <= Len(sent) /\ queue' \in Seq(Nat) /\ Len(queue') <= Len(sent')
         /\ \A i \in 1..Len(queue') : queue'[i] = Taken' + i
         /\ Head(queue) \in DOMAIN sent /\ sent[Head(queue)] \in Lines
<1>1. /\ sent \in Seq(Lines) /\ queue \in Seq(Nat) /\ Len(queue) <= Len(sent)
      /\ \A i \in 1..Len(queue) : queue[i] = Taken + i
      /\ Len(sent) \in Nat /\ Len(queue) \in Nat
  BY DEF Ordered
<1>2. /\ Head(queue) = queue[1] /\ Len(queue) >= 1 /\ Tail(queue) \in Seq(Nat)
      /\ Len(Tail(queue)) = Len(queue) - 1
      /\ \A i \in 1..Len(Tail(queue)) : Tail(queue)[i] = queue[i + 1]
  BY <1>1
<1>3. Taken \in Nat /\ Taken' = Taken + 1 /\ Taken + 1 <= Len(sent)
  <2>1. \A a, b \in Nat : b <= a /\ b >= 1 =>
          a - b \in Nat /\ a - (b - 1) = (a - b) + 1 /\ (a - b) + 1 <= a
    OBVIOUS
  <2>2. Taken = Len(sent) - Len(queue) /\ Taken' = Len(sent) - (Len(queue) - 1)
    BY <1>2, Zenon DEF Taken
  <2> QED
    BY <1>1, <1>2, <2>1, <2>2
<1>4. ASSUME NEW i \in 1..Len(queue') PROVE queue'[i] = Taken' + i
  <2>1. queue'[i] = queue[i + 1] /\ i + 1 \in 1..Len(queue)
    BY <1>1, <1>2
  <2> QED
    BY <1>1, <1>3, <2>1
<1>5. Head(queue) = Taken + 1
  BY <1>1, <1>2
<1>6. Head(queue) \in 1..Len(sent) /\ DOMAIN sent = 1..Len(sent)
  BY <1>1, <1>3, <1>5
<1> QED
  BY <1>1, <1>2, <1>3, <1>4, <1>5, <1>6

LEMMA ServeKeeps == ASSUME Ordered, Serve PROVE Ordered'
<1> DEFINE request == Head(queue)
           asks == sent[request].asks
<1>1. /\ queue # <<>> /\ handling = {} /\ ~exited /\ queue' = Tail(queue)
      /\ UNCHANGED <<sent, closed>> /\ exited' = (asks = "null")
      /\ IF asks \in Remote THEN handling' = {request} /\ UNCHANGED out
         ELSE handling' = {} /\ AnswerTo(request, Source(asks))
  BY DEF Serve, Chained
<1>2. /\ request = Taken + 1 /\ Taken' = Taken + 1 /\ Taken \in Nat
      /\ Taken' <= Len(sent) /\ queue' \in Seq(Nat) /\ Len(queue') <= Len(sent')
      /\ \A i \in 1..Len(queue') : queue'[i] = Taken' + i
      /\ request \in DOMAIN sent /\ sent[request] \in Lines
  BY <1>1, Next1
<1>3. sent' \in Seq(Lines) /\ sent[request].id \in BOOLEAN /\ (asks = "null" => ~sent[request].id)
  <2>1. ASSUME NEW line \in Lines PROVE line.id \in BOOLEAN /\ (line.asks = "null" => ~line.id)
    <3>1. CASE line \in [asks: {"scan", "resource", "plain"} \cup Remote, id: BOOLEAN]
      <4>1. line.asks \in {"scan", "resource", "plain"} \cup Remote /\ line.id \in BOOLEAN
        BY <3>1
      <4> QED
        BY <4>1 DEF Remote
    <3>2. CASE line = [asks |-> "null", id |-> FALSE]
      BY <3>2, Zenon
    <3> QED
      BY <3>1, <3>2 DEF Lines
  <2>2. sent' \in Seq(Lines)
    BY <1>1 DEF Ordered
  <2> QED
    BY <1>2, <2>1, <2>2
<1>4. /\ \A i \in 1..Len(out) : out[i].request \in Nat /\ out[i].request < request
      /\ \A j \in 1..(request - 1) : Answered(j) <=> sent[j].id
  BY <1>1, <1>2 DEF Ordered
<1>5. PICK k : k = request
  OBVIOUS
<1>6. /\ k = Taken' /\ Taken' > 0 /\ Taken' \in Nat
      /\ \A i \in 1..Len(out) : out[i].request \in Nat /\ out[i].request < k
      /\ \A j \in 1..(k - 1) : Answered(j) <=> sent[j].id
  BY <1>2, <1>4, <1>5
<1>7. CASE asks \in Remote
  <2>1. handling' = {k} /\ UNCHANGED <<sent, out>> /\ sent[k].asks \in Remote /\ ~exited'
    BY <1>1, <1>5, <1>7 DEF Remote
  <2> QED
    BY <1>2, <1>6, <2>1, SilentKeeps
<1>8. CASE asks \notin Remote /\ ~sent[request].id
  <2>1. handling' = {} /\ UNCHANGED <<sent, out>> /\ ~sent[k].id
    BY <1>1, <1>5, <1>8 DEF AnswerTo
  <2>2. exited' => Over'
    BY <1>1, <1>5, <1>6, <2>1 DEF Over
  <2> QED
    BY <1>2, <1>6, <2>1, <2>2, SilentKeeps
<1>9. CASE asks \notin Remote /\ sent[request].id
  <2>1. PICK source : source = Source(asks)
    OBVIOUS
  <2>2. handling' = {} /\ Answer(k, source) /\ sent[k].id /\ exited' = FALSE
    BY <1>1, <1>3, <1>5, <1>9, <2>1 DEF AnswerTo
  <2>3. \A i \in 1..Len(out) : out[i].request < k
    BY <1>6
  <2> QED
    BY <1>1, <1>2, <1>3, <1>6, <2>2, <2>3, AnswerKeeps
<1> QED
  BY <1>3, <1>7, <1>8, <1>9

LEMMA RemoteKeeps == ASSUME Ordered, RemoteAnswers PROVE Ordered'
<1>1. PICK request \in handling :
        AnswerTo(request, Nowhere) /\ handling' = handling \ {request}
  BY DEF RemoteAnswers
<1>2. /\ handling = {Taken} /\ Taken > 0 /\ sent[Taken].asks \in Remote /\ request = Taken
      /\ UNCHANGED <<sent, closed, queue, exited>> /\ ~exited
  BY <1>1 DEF Ordered, RemoteAnswers
<1>3. handling' = {} /\ Taken' = Taken /\ Taken \in Nat /\ Taken <= Len(sent)
  BY <1>1, <1>2 DEF Taken, Ordered
<1>4. ASSUME NEW i \in 1..Len(out) PROVE out[i].request < Taken
  <2>1. out[i].request \in 1..Taken
    BY DEF Ordered
  <2>2. out[i].request # Taken
    <3>1. i \in DOMAIN out
      BY DEF Ordered
    <3>2. ~Answered(Taken)
      BY <1>2, <1>3 DEF Ordered
    <3> QED
      BY <3>1, <3>2 DEF Answered
  <2> QED
    BY <1>3, <2>1, <2>2
<1>5. ASSUME NEW j \in 1..(Taken - 1) PROVE Answered(j) <=> sent[j].id
  <2>1. j \in 1..Taken /\ j # Taken
    BY <1>3
  <2> QED
    BY <1>2, <2>1 DEF Ordered
<1>6. /\ sent' \in Seq(Lines) /\ queue' \in Seq(Nat) /\ Len(queue') <= Len(sent')
      /\ \A i \in 1..Len(queue') : queue'[i] = Taken' + i
      /\ exited' = FALSE
  BY <1>2, <1>3 DEF Ordered
<1>7. \A i \in 1..Len(out) : out[i].request \in Nat
  BY <1>3 DEF Ordered
<1>8. CASE sent[request].id
  BY <1>1, <1>2, <1>3, <1>4, <1>5, <1>6, <1>8, AnswerKeeps DEF AnswerTo
<1>9. CASE ~sent[request].id
  <2>1. UNCHANGED <<sent, out>> /\ Taken' = request
    BY <1>1, <1>2, <1>3, <1>9 DEF AnswerTo
  <2>2. \A i \in 1..Len(out) : out[i].request \in Nat /\ out[i].request < request
    BY <1>2, <1>4, <1>7
  <2> QED
    BY <1>2, <1>3, <1>5, <1>6, <1>9, <2>1, <2>2, SilentKeeps
<1> QED
  BY <1>8, <1>9

LEMMA SendKeeps == ASSUME Ordered, NEW line \in Lines, Send(line) PROVE Ordered'
<1>1. /\ ~closed /\ ~exited /\ sent' = Append(sent, line) /\ queue' = Append(queue, Len(sent) + 1)
      /\ UNCHANGED <<closed, handling, out, exited>>
  BY DEF Send
<1>2. /\ sent \in Seq(Lines) /\ queue \in Seq(Nat) /\ Len(queue) <= Len(sent)
      /\ \A i \in 1..Len(queue) : queue[i] = Taken + i
      /\ Len(sent) \in Nat /\ Len(queue) \in Nat
  BY DEF Ordered
<1>3. /\ sent' \in Seq(Lines) /\ Len(sent') = Len(sent) + 1
      /\ \A i \in 1..Len(sent) : sent'[i] = sent[i]
      /\ queue' \in Seq(Nat) /\ Len(queue') = Len(queue) + 1
      /\ \A i \in 1..Len(queue) : queue'[i] = queue[i]
      /\ queue'[Len(queue) + 1] = Len(sent) + 1
  BY <1>1, <1>2
<1>4. Taken' = Taken /\ Taken \in Nat /\ Taken <= Len(sent)
  <2>1. \A a, b \in Nat : b <= a =>
          (a + 1) - (b + 1) = a - b /\ a - b \in Nat /\ a - b <= a
    OBVIOUS
  <2>2. Taken = Len(sent) - Len(queue) /\ Taken' = (Len(sent) + 1) - (Len(queue) + 1)
    BY <1>3, Zenon DEF Taken
  <2> QED
    BY <1>2, <2>1, <2>2
<1>5. ASSUME NEW i \in 1..Len(queue') PROVE queue'[i] = Taken' + i
  <2>1. CASE i \in 1..Len(queue)
    BY <1>2, <1>3, <1>4, <2>1
  <2>2. CASE i = Len(queue) + 1
    <3>1. \A a, b \in Nat : (a - b) + (b + 1) = a + 1
      OBVIOUS
    <3>2. Taken' = Len(sent) - Len(queue)
      BY <1>4 DEF Taken
    <3> QED
      BY <1>2, <1>3, <2>2, <3>1, <3>2
  <2> QED
    BY <1>2, <1>3, <2>1, <2>2
<1>6. ASSUME NEW k \in 1..Taken'
      PROVE  Answered(k)' <=> sent'[k].id /\ k \notin handling'
  <2>1. sent'[k] = sent[k] /\ (Answered(k)' <=> Answered(k))
    BY <1>1, <1>2, <1>3, <1>4 DEF Answered
  <2> QED
    BY <1>1, <1>4, <2>1 DEF Ordered
<1>7. handling' = {} \/ (handling' = {Taken'} /\ Taken' > 0 /\ sent'[Taken'].asks \in Remote)
  <2>1. Taken > 0 => sent'[Taken] = sent[Taken]
    BY <1>2, <1>3, <1>4
  <2> QED
    BY <1>1, <1>4, <2>1 DEF Ordered
<1>8. /\ \E S : out' \in Seq(S)
      /\ \A i, j \in 1..Len(out') : i < j => out'[i].request < out'[j].request
      /\ \A i \in 1..Len(out') : out'[i].request \in 1..Taken'
      /\ ~exited'
  BY <1>1, <1>4 DEF Ordered
<1> QED
  BY <1>2, <1>3, <1>5, <1>6, <1>7, <1>8 DEF Ordered

LEMMA SameSession ==
  ASSUME Ordered, UNCHANGED <<sent, queue, handling, out>>, exited' => Over'
  PROVE  Ordered'
<1>1. Taken' = Taken /\ \A k : Answered(k)' <=> Answered(k)
  BY DEF Taken, Answered
<1> QED
  BY <1>1 DEF Ordered

LEMMA OrderedInit == Init => Ordered
<1> SUFFICES ASSUME Init PROVE Ordered
  OBVIOUS
<1>1. /\ sent = <<>> /\ queue = <<>> /\ out = <<>> /\ handling = {} /\ exited = FALSE
  BY DEF Init, ServerInit
<1>2. \A S : <<>> \in Seq(S) /\ Len(<<>>) = 0
  OBVIOUS
<1>3. Taken = 0
  BY <1>1, <1>2 DEF Taken
<1> QED
  BY <1>1, <1>2, <1>3 DEF Ordered

LEMMA OrderedKeeps ==
  ASSUME Ordered, [Next]_<<releaseVars, serverVars>>
  PROVE  Ordered'
<1>1. CASE UNCHANGED serverVars
  BY <1>1, SameSession DEF serverVars, Ordered, Over, Taken
<1>2. CASE Close
  BY <1>2, SameSession DEF Close, Ordered, Over, Taken
<1>3. CASE Exit
  BY <1>3, SameSession DEF Exit, Ordered, Over, Taken
<1> QED
  BY <1>1, <1>2, <1>3, SendKeeps, ServeKeeps, RemoteKeeps DEF Next

\* Answers are in request order, one for each request and none for a notification,
\* and the server exits owing one only when a line that was null has killed it.
THEOREM AnswersAreInOrder == Spec => []AnswersInOrder
<1>1. ASSUME Ordered PROVE AnswersInOrder
  <2>1. /\ DOMAIN out = 1..Len(out) /\ DOMAIN sent = 1..Len(sent)
        /\ DOMAIN queue = 1..Len(queue)
        /\ Len(queue) \in Nat /\ Len(sent) \in Nat /\ Len(queue) <= Len(sent)
        /\ Len(out) \in Nat
    BY <1>1 DEF Ordered
  <2>2. Taken \in Nat /\ Taken <= Len(sent) /\ Taken + Len(queue) = Len(sent)
    BY <2>1 DEF Taken
  <2>3. ASSUME NEW k \in 1..Len(sent)
        PROVE  k \in ToSet(queue) <=> k > Taken
    <3>1. ASSUME NEW i \in 1..Len(queue) PROVE queue[i] > Taken
      <4>1. queue[i] = Taken + i
        BY <1>1 DEF Ordered
      <4> QED
        BY <2>2, <4>1
    <3>2. ASSUME k > Taken PROVE \E i \in 1..Len(queue) : queue[i] = k
      <4>1. k - Taken \in 1..Len(queue) /\ Taken + (k - Taken) = k
        BY <2>1, <2>2, <3>2
      <4>2. queue[k - Taken] = Taken + (k - Taken)
        BY <1>1, <4>1 DEF Ordered
      <4> QED
        BY <4>1, <4>2
    <3> QED
      BY <2>1, <3>1, <3>2 DEF ToSet
  <2>4. ASSUME NEW k
        PROVE  k \in {out[i].request : i \in DOMAIN out} <=> k \in Owed \ Pending
    <3>1. CASE k \in 1..Taken
      <4>1. Answered(k) <=> sent[k].id /\ k \notin handling
        BY <1>1, <3>1 DEF Ordered
      <4>2. k \in 1..Len(sent) /\ ~(k > Taken)
        BY <2>1, <2>2, <3>1
      <4> QED
        BY <2>1, <2>3, <4>1, <4>2 DEF Answered, Owed, Pending
    <3>2. CASE k \notin 1..Taken
      <4>1. \A i \in 1..Len(out) : out[i].request # k
        BY <1>1, <3>2 DEF Ordered
      <4>2. k \in 1..Len(sent) => k > Taken
        BY <2>1, <2>2, <3>2
      <4> QED
        BY <2>1, <2>3, <4>1, <4>2 DEF Owed, Pending
    <3> QED
      BY <3>1, <3>2
  <2>5. {out[i].request : i \in DOMAIN out} = Owed \ Pending
    BY <2>4
  <2>6. exited => Pending = {} \/ Killed
    <3>1. CASE exited /\ closed /\ queue = <<>>
      BY <1>1, <2>1, <3>1 DEF Ordered, Over, Pending, ToSet
    <3>2. CASE exited /\ Taken > 0 /\ sent[Taken].asks = "null"
      <4>1. Taken \in 1..Len(sent) /\ ~(Taken > Taken) /\ handling = {}
        BY <1>1, <2>2, <3>2 DEF Ordered, Over
      <4>2. Taken \notin Pending
        BY <2>3, <4>1 DEF Pending
      <4> QED
        BY <2>1, <3>2, <4>1, <4>2 DEF Killed
    <3> QED
      BY <1>1, <3>1, <3>2 DEF Ordered, Over
  <2>7. \A i, j \in DOMAIN out : i < j => out[i].request < out[j].request
    BY <1>1, <2>1 DEF Ordered
  <2> QED
    BY <2>5, <2>6, <2>7 DEF AnswersInOrder
<1>2. Ordered => AnswersInOrder
  BY <1>1
<1> QED
  BY <1>2, OrderedInit, OrderedKeeps, PTL DEF Spec

(***************************************************************************)
(* What a session's answers were read from.                                *)
(***************************************************************************)

LEMMA SnapshotKeeps ==
  ASSUME Ordered, Snapshot, [Next]_<<releaseVars, serverVars>>
  PROVE  Snapshot'
<1>1. CASE UNCHANGED <<out, cached>>
  BY <1>1 DEF Snapshot
<1>2. DOMAIN out = 1..Len(out)
  BY DEF Ordered
<1>3. CASE RemoteAnswers
  <2>1. PICK request : AnswerTo(request, Nowhere) /\ cached' = cached
    BY <1>3 DEF RemoteAnswers
  <2>2. CASE UNCHANGED out
    BY <1>1, <2>1, <2>2
  <2>3. CASE Answer(request, Nowhere)
    <3>1. /\ DOMAIN out' = 1..(Len(out) + 1) /\ Len(out) \in Nat
          /\ \A i \in 1..Len(out) : out'[i] = out[i]
          /\ out'[Len(out) + 1].source = Nowhere
      BY <2>3, Appended
    <3>2. ASSUME NEW i \in DOMAIN out', out'[i].source.read = "scan"
          PROVE  i \in 1..Len(out)
      BY <3>1, <3>2 DEF Nowhere
    <3> QED
      BY <1>2, <2>1, <3>1, <3>2 DEF Snapshot
  <2> QED
    BY <2>1, <2>2, <2>3 DEF AnswerTo
<1>4. CASE Serve
  <2>1. cached # NoTree => cached' = cached
    BY <1>4 DEF Serve, workspace
  <2>2. CASE UNCHANGED out
    BY <2>1, <2>2 DEF Snapshot
  <2>3. ASSUME NEW request, NEW asks, Answer(request, Source(asks)),
               asks = "scan" => cached' = workspace
        PROVE  Snapshot'
    <3>1. /\ DOMAIN out' = 1..(Len(out) + 1) /\ Len(out) \in Nat
          /\ \A i \in 1..Len(out) : out'[i] = out[i]
          /\ out'[Len(out) + 1].source = Source(asks)
      BY <2>3, Appended
    <3> SUFFICES ASSUME NEW i \in DOMAIN out', out'[i].source.read = "scan"
                 PROVE  cached' # NoTree /\ out'[i].source.of = cached'.tree
      BY DEF Snapshot
    <3>2. CASE i \in 1..Len(out)
      BY <1>2, <2>1, <3>1, <3>2 DEF Snapshot
    <3>3. CASE i = Len(out) + 1
      <4>1. Source(asks).read = "scan"
        BY <3>1, <3>3
      <4>2. ASSUME NEW tree PROVE Scanned(tree) # NoTree
        <5>1. Scanned(tree).scanned = TRUE /\ NoTree.scanned = FALSE
          BY DEF Scanned, NoTree
        <5> QED
          BY <5>1
      <4>3. workspace # NoTree
        BY <4>2 DEF workspace
      <4>4. CASE asks = "scan"
        BY <2>3, <3>1, <3>3, <4>3, <4>4 DEF Source
      <4>5. CASE asks # "scan"
        BY <4>1, <4>5 DEF Source, Nowhere
      <4> QED
        BY <4>4, <4>5
    <3> QED
      BY <3>1, <3>2, <3>3
  <2>4. PICK request, asks : request = Head(queue) /\ asks = sent[request].asks
    OBVIOUS
  <2>5. \/ UNCHANGED out
        \/ Answer(request, Source(asks)) /\ (asks = "scan" => cached' = workspace)
    BY <1>4, <2>4 DEF Serve, AnswerTo
  <2> QED
    BY <2>2, <2>3, <2>5
<1>5. ASSUME ~Serve, ~RemoteAnswers PROVE UNCHANGED <<out, cached>>
  BY <1>5 DEF Next, Send, Close, Exit, serverVars
<1> QED
  BY <1>1, <1>3, <1>4, <1>5

\* The tools of a session describe one tree, however main moves meanwhile.
THEOREM SessionsAreConsistent == Spec => []OneSnapshot
<1>1. Init => Snapshot
  BY DEF Init, ServerInit, Snapshot
<1>2. Snapshot => OneSnapshot
  BY DEF Snapshot, OneSnapshot
<1> QED
  BY <1>1, <1>2, OrderedInit, OrderedKeeps, SnapshotKeeps, PTL DEF Spec

(***************************************************************************)
(* What main holds.  Only nx release moves versions and pins, both at once,  *)
(* and a run pushes only onto the commit it was checked out from.            *)
(***************************************************************************)

Pinned(tree, d) == tree[d].comp # NoComp /\ tree[d].comp.tag # 0

PinsMatch(tree) ==
  \A d \in Dirs : Pinned(tree, d) =>
    IsPackage(tree, d) /\ tree[d].comp.image = d /\ tree[d].comp.tag = Version(tree, d)

TreeOK(tree) ==
  /\ tree \in [Dirs -> Files] /\ ModCheck(tree) /\ PinsMatch(tree)
  /\ \A d \in Dirs : IsPackage(tree, d) => NamesOnce(tree[d].mod.registry)

\* A package has a manifest, another directory none.
LEMMA ManifestOf ==
  ASSUME NEW files \in Files
  PROVE  /\ files.mod # NoMod <=> files.mod \in KclMods
         /\ files.mod # NoMod <=> files.mod.version # 0
         /\ files.comp = NoComp \/ files.comp \in Compositions
<1>1. \A mod \in KclMods : mod.version # 0 /\ mod # NoMod
  BY DEF KclMods, NoMod
<1>2. NoMod.version = 0
  BY DEF NoMod
<1> QED
  BY <1>1, <1>2 DEF Files

\* Files with another manifest and another composition.
Rewritten(files, mod, comp) == [files EXCEPT !.mod = mod, !.comp = comp]

LEMMA OtherFiles ==
  ASSUME NEW files \in Files, NEW mod \in {NoMod} \cup KclMods,
         NEW comp \in {NoComp} \cup Compositions
  PROVE  LET new == Rewritten(files, mod, comp) IN
         new \in Files /\ new.mod = mod /\ new.comp = comp /\ new.code = files.code
BY DEF Files, Rewritten

\* What a developer's commit leaves of versions and pins.
LEMMA KeptFiles ==
  ASSUME NEW old \in Files, NEW new \in Files, old.mod # NoMod => new.mod # NoMod
  PROVE  LET kept == Kept(old, new) IN
         /\ kept \in Files
         /\ kept.mod # NoMod <=> new.mod # NoMod
         /\ kept.mod # NoMod => kept.mod.registry = new.mod.registry
         /\ old.mod # NoMod => kept.mod.version = old.mod.version
         /\ kept.comp # NoComp /\ kept.comp.tag # 0 =>
              /\ old.comp # NoComp /\ kept.comp.image = old.comp.image
              /\ kept.comp.tag = old.comp.tag /\ kept.comp.registry = old.comp.registry
<1> DEFINE version == IF old.mod = NoMod THEN new.mod.version ELSE old.mod.version
           mod == [new.mod EXCEPT !.version = version]
           comp == CASE new.comp = NoComp -> NoComp
                     [] new.comp # NoComp /\ old.comp # NoComp
                          /\ new.comp.image = old.comp.image ->
                          [new.comp EXCEPT !.tag = old.comp.tag, !.registry = old.comp.registry]
                     [] OTHER -> [new.comp EXCEPT !.tag = 0]
<1>1. Kept(old, new) = Rewritten(new, mod, comp)
  BY DEF Kept, Files, Rewritten
<1>2. /\ mod \in {NoMod} \cup KclMods
      /\ mod # NoMod <=> new.mod # NoMod
      /\ mod # NoMod => mod.registry = new.mod.registry
      /\ old.mod # NoMod => mod.version = old.mod.version
  <2>1. CASE new.mod = NoMod
    BY <2>1 DEF NoMod
  <2>2. CASE new.mod # NoMod
    <3>1. new.mod \in KclMods /\ version \in Nat \ {0}
      BY <2>2, ManifestOf DEF KclMods
    <3>2. mod \in KclMods /\ mod.registry = new.mod.registry /\ mod.version = version
      BY <3>1 DEF KclMods
    <3>3. mod # NoMod
      BY <3>1, <3>2 DEF NoMod
    <3> QED
      BY <2>2, <3>2, <3>3
  <2> QED
    BY <2>1, <2>2
<1>3. /\ comp \in {NoComp} \cup Compositions
      /\ comp # NoComp /\ comp.tag # 0 =>
           /\ old.comp # NoComp /\ comp.image = old.comp.image
           /\ comp.tag = old.comp.tag /\ comp.registry = old.comp.registry
  <2>1. CASE new.comp = NoComp
    BY <2>1
  <2>2. CASE new.comp # NoComp /\ old.comp # NoComp /\ new.comp.image = old.comp.image
    <3>1. comp = [new.comp EXCEPT !.tag = old.comp.tag, !.registry = old.comp.registry]
      BY <2>2
    <3>2. new.comp \in Compositions /\ old.comp \in Compositions
      BY <2>2, ManifestOf
    <3>3. /\ comp \in Compositions /\ comp.image = new.comp.image
          /\ comp.tag = old.comp.tag /\ comp.registry = old.comp.registry
      BY <3>1, <3>2 DEF Compositions
    <3> QED
      BY <2>2, <3>3
  <2>3. CASE new.comp # NoComp /\ ~(old.comp # NoComp /\ new.comp.image = old.comp.image)
    <3>1. comp = [new.comp EXCEPT !.tag = 0]
      BY <2>3
    <3>2. new.comp \in Compositions
      BY <2>3, ManifestOf
    <3> HIDE DEF comp
    <3>3. comp \in Compositions /\ comp.tag = 0
      BY <3>1, <3>2 DEF Compositions
    <3> QED
      BY <3>3
  <2> QED
    BY <2>1, <2>2, <2>3
<1> HIDE DEF mod, comp
<1>4. PICK kept : kept = Kept(old, new)
  OBVIOUS
<1>5. kept \in Files /\ kept.mod = mod /\ kept.comp = comp
  BY <1>1, <1>2, <1>3, <1>4, OtherFiles
<1> QED
  BY <1>2, <1>3, <1>4, <1>5

\* What a release makes of a package's files.
LEMMA BumpedFiles ==
  ASSUME NEW files \in Files, files.mod # NoMod, NEW d \in Dirs, NEW env \in Envs
  PROVE  LET new == updateProjectVersion(files, d, env) IN
         /\ new \in Files /\ new.mod # NoMod
         /\ new.mod.version = files.mod.version + 1
         /\ new.mod.path = files.mod.path /\ new.mod.registry = files.mod.registry
         /\ new.code = files.code
         /\ IF files.comp # NoComp /\ files.comp.image = d
            THEN /\ new.comp.tag = files.mod.version + 1 /\ new.comp.image = d
                 /\ new.comp.registry = resolveRegistry(env)
            ELSE new.comp = files.comp
<1> DEFINE version == files.mod.version + 1
           mod == [files.mod EXCEPT !.version = version]
           comp == pinCompositionSource(files.comp, d, resolveRegistry(env), version)
<1>1. updateProjectVersion(files, d, env) = Rewritten(files, mod, comp)
  BY DEF updateProjectVersion, Files, Rewritten
<1>2. files.mod \in KclMods /\ version \in Nat \ {0}
  BY ManifestOf DEF KclMods
<1>3. /\ mod \in KclMods /\ mod # NoMod /\ mod.version = version
      /\ mod.path = files.mod.path /\ mod.registry = files.mod.registry
  BY <1>2 DEF KclMods, NoMod
<1>4. /\ comp \in {NoComp} \cup Compositions
      /\ IF files.comp # NoComp /\ files.comp.image = d
         THEN /\ comp.tag = version /\ comp.image = d
              /\ comp.registry = resolveRegistry(env)
         ELSE comp = files.comp
  <2>1. CASE files.comp # NoComp /\ files.comp.image = d
    <3>1. files.comp \in Compositions /\ resolveRegistry(env) \in STRING
      BY <2>1, ManifestOf, ReleaseAssumption DEF resolveRegistry
    <3>2. comp = [files.comp EXCEPT !.registry = resolveRegistry(env), !.tag = version]
      BY <2>1 DEF pinCompositionSource
    <3> HIDE DEF version, comp
    <3> QED
      BY <1>2, <2>1, <3>1, <3>2 DEF Compositions
  <2>2. CASE ~(files.comp # NoComp /\ files.comp.image = d)
    BY <2>2, ManifestOf DEF pinCompositionSource
  <2> QED
    BY <2>1, <2>2
<1> HIDE DEF mod, comp
<1>5. PICK new : new = updateProjectVersion(files, d, env)
  OBVIOUS
<1>6. new \in Files /\ new.mod = mod /\ new.comp = comp /\ new.code = files.code
  BY <1>1, <1>3, <1>4, <1>5, OtherFiles
<1> QED
  BY <1>3, <1>4, <1>5, <1>6
IsMain(m) == m \in [tree: [Dirs -> Files], head: Nat, touched: [Dirs -> Nat]]

MainOK ==
  /\ IsMain(main) /\ TreeOK(main.tree)
  /\ base \in Nat /\ base <= main.head
  /\ \A d \in Dirs : main.touched[d] <= main.head

\* What a package is built from, but for its version and its composition.
SameSources(t1, t2, d) ==
  /\ t1[d].code = t2[d].code /\ (IsPackage(t1, d) <=> IsPackage(t2, d))
  /\ IsPackage(t1, d) => /\ t1[d].mod.path = t2[d].mod.path
                         /\ t1[d].mod.registry = t2[d].mod.registry

\* A release commit: bumped packages with matching pins, the others as they were.
LEMMA BumpedMain ==
  ASSUME NEW m, NEW affected, NEW env
  PROVE  LET new == Bumped(m, affected, env) IN
         /\ new.head = m.head + 1 /\ new.touched = m.touched
         /\ new.tree = [d \in Dirs |-> IF d \in affected
                          THEN updateProjectVersion(m.tree[d], d, env) ELSE m.tree[d]]
         /\ new = [tree |-> new.tree, head |-> new.head, touched |-> new.touched]
BY DEF Bumped

LEMMA BumpedTree ==
  ASSUME NEW tree, TreeOK(tree), NEW new, NEW env \in Envs,
         NEW affected \in SUBSET {d \in Dirs : IsPackage(tree, d)},
         new = [d \in Dirs |-> IF d \in affected
                  THEN updateProjectVersion(tree[d], d, env) ELSE tree[d]]
  PROVE  /\ TreeOK(new)
         /\ \A d \in Dirs : SameSources(tree, new, d)
         /\ \A d \in affected : Pinned(new, d) =>
              /\ new[d].comp.tag = Version(new, d)
              /\ new[d].comp.registry = resolveRegistry(env)
<1>1. /\ \A d \in affected : new[d] = updateProjectVersion(tree[d], d, env)
      /\ \A d \in Dirs \ affected : new[d] = tree[d]
      /\ \A d \in affected : d \in Dirs /\ tree[d].mod # NoMod /\ tree[d] \in Files
      /\ tree \in [Dirs -> Files]
  BY DEF TreeOK, IsPackage
<1>2. ASSUME NEW d \in affected
      PROVE  /\ new[d] \in Files /\ new[d].mod # NoMod
             /\ new[d].mod.version = tree[d].mod.version + 1
             /\ new[d].mod.path = tree[d].mod.path
             /\ new[d].mod.registry = tree[d].mod.registry
             /\ new[d].code = tree[d].code
             /\ IF tree[d].comp # NoComp /\ tree[d].comp.image = d
                THEN /\ new[d].comp.tag = tree[d].mod.version + 1 /\ new[d].comp.image = d
                     /\ new[d].comp.registry = resolveRegistry(env)
                ELSE new[d].comp = tree[d].comp
  BY <1>1, BumpedFiles
<1>3. ASSUME NEW d \in Dirs PROVE SameSources(tree, new, d) /\ new[d] \in Files
  <2>1. CASE d \in affected
    BY <1>1, <1>2, <2>1 DEF SameSources, IsPackage
  <2>2. CASE d \notin affected
    BY <1>1, <2>2 DEF SameSources, IsPackage
  <2> QED
    BY <2>1, <2>2
<1>4. new \in [Dirs -> Files]
  BY <1>3
<1>5. ASSUME NEW d \in affected, Pinned(new, d)
      PROVE  /\ IsPackage(new, d) /\ new[d].comp.image = d
             /\ new[d].comp.tag = Version(new, d)
             /\ new[d].comp.registry = resolveRegistry(env)
  <2>1. CASE tree[d].comp # NoComp /\ tree[d].comp.image = d
    BY <1>2, <2>1 DEF IsPackage, Version
  <2>2. CASE ~(tree[d].comp # NoComp /\ tree[d].comp.image = d)
    <3>1. new[d].comp = tree[d].comp
      BY <1>2, <2>2
    <3>2. Pinned(tree, d)
      BY <1>5, <3>1 DEF Pinned
    <3> QED
      BY <1>1, <2>2, <3>2 DEF TreeOK, PinsMatch, Pinned
  <2> QED
    BY <2>1, <2>2
<1>6. PinsMatch(new)
  <2>1. ASSUME NEW d \in Dirs \ affected, Pinned(new, d)
        PROVE  /\ IsPackage(new, d) /\ new[d].comp.image = d
               /\ new[d].comp.tag = Version(new, d)
    <3>1. new[d] = tree[d]
      BY <1>1
    <3> QED
      BY <2>1, <3>1 DEF TreeOK, PinsMatch, Pinned, IsPackage, Version
  <2> QED
    BY <1>5, <2>1 DEF PinsMatch
<1>7. ModCheck(new)
  <2> SUFFICES ASSUME NEW d \in Dirs, IsPackage(new, d)
               PROVE  /\ \A p \in ToSet(new[d].mod.path) : IsPackage(new, p)
                      /\ new[d].comp # NoComp => new[d].comp.image \in {"", d}
    BY DEF ModCheck
  <2>1. IsPackage(tree, d) /\ new[d].mod.path = tree[d].mod.path
    BY <1>3 DEF SameSources
  <2>2. /\ \A p \in ToSet(tree[d].mod.path) : IsPackage(tree, p)
        /\ tree[d].comp # NoComp => tree[d].comp.image \in {"", d}
    BY <2>1 DEF TreeOK, ModCheck
  <2>3. ToSet(tree[d].mod.path) \subseteq Dirs
    <3>1. tree[d].mod \in KclMods
      BY <1>1, <2>1, ManifestOf DEF IsPackage
    <3> QED
      BY <3>1 DEF KclMods, ToSet
  <2>4. \A p \in ToSet(new[d].mod.path) : IsPackage(new, p)
    BY <1>3, <2>1, <2>2, <2>3 DEF SameSources
  <2>5. new[d].comp # NoComp => new[d].comp.image \in {"", d}
    <3>1. CASE d \in affected
      BY <1>2, <2>2, <3>1
    <3>2. CASE d \notin affected
      BY <1>1, <2>2, <3>2
    <3> QED
      BY <3>1, <3>2
  <2> QED
    BY <2>4, <2>5
<1>8. \A d \in Dirs : IsPackage(new, d) => NamesOnce(new[d].mod.registry)
  BY <1>3 DEF TreeOK, SameSources
<1> QED
  BY <1>3, <1>4, <1>5, <1>6, <1>7, <1>8 DEF TreeOK

\* A developer's commit touches one directory and moves no pin but to drop it.
LEMMA CommitKeepsMain ==
  ASSUME MainOK, NEW d \in Dirs, Commit(d)
  PROVE  /\ MainOK' /\ main'.head = main.head + 1 /\ main'.touched[d] = main.head + 1
         /\ \A c \in Dirs \ {d} : /\ main'.tree[c] = main.tree[c]
                                  /\ main'.touched[c] = main.touched[c]
         /\ Pinned(main'.tree, d) => /\ Pinned(main.tree, d)
                                     /\ main'.tree[d].comp.tag = main.tree[d].comp.tag
                                     /\ main'.tree[d].comp.registry = main.tree[d].comp.registry
                                     /\ main'.tree[d].comp.image = main.tree[d].comp.image
<1> DEFINE old == main.tree[d]
<1>1. /\ old \in Files /\ main.head \in Nat /\ main.tree \in [Dirs -> Files]
      /\ main.touched \in [Dirs -> Nat]
  BY DEF MainOK, IsMain
<1>2. PICK files \in Drafts[d] :
        /\ main' = [tree |-> [main.tree EXCEPT ![d] = Kept(old, files)],
                    head |-> main.head + 1,
                    touched |-> [main.touched EXCEPT ![d] = main.head + 1]]
        /\ ModCheck([main.tree EXCEPT ![d] = Kept(old, files)])
        /\ IsPackage(main.tree, d) => files.mod # NoMod
  BY DEF Commit
<1>3. files \in Files /\ (files.mod # NoMod => NamesOnce(files.mod.registry))
  BY ReleaseAssumption
<1> DEFINE kept == Kept(old, files)
<1>4. /\ kept \in Files
      /\ kept.mod # NoMod <=> files.mod # NoMod
      /\ kept.mod # NoMod => kept.mod.registry = files.mod.registry
      /\ old.mod # NoMod => kept.mod.version = old.mod.version
      /\ kept.comp # NoComp /\ kept.comp.tag # 0 =>
           /\ old.comp # NoComp /\ kept.comp.image = old.comp.image
           /\ kept.comp.tag = old.comp.tag /\ kept.comp.registry = old.comp.registry
  BY <1>1, <1>2, <1>3, KeptFiles DEF IsPackage
<1> HIDE DEF kept
<1>5. /\ main'.tree = [main.tree EXCEPT ![d] = kept] /\ main'.head = main.head + 1
      /\ main'.touched = [main.touched EXCEPT ![d] = main.head + 1]
      /\ ModCheck(main'.tree)
  BY <1>2 DEF kept
<1>6. /\ main'.tree[d] = kept /\ main'.touched[d] = main.head + 1
      /\ \A c \in Dirs \ {d} : /\ main'.tree[c] = main.tree[c]
                               /\ main'.touched[c] = main.touched[c]
      /\ main'.tree \in [Dirs -> Files] /\ main'.touched \in [Dirs -> Nat]
  BY <1>1, <1>4, <1>5
<1>7. IsMain(main')
  BY <1>1, <1>2, <1>5, <1>6 DEF IsMain
<1>8. Pinned(main'.tree, d) => /\ Pinned(main.tree, d)
                               /\ main'.tree[d].comp.tag = main.tree[d].comp.tag
                               /\ main'.tree[d].comp.registry = main.tree[d].comp.registry
                               /\ main'.tree[d].comp.image = main.tree[d].comp.image
  BY <1>4, <1>6 DEF Pinned
<1>9. PinsMatch(main'.tree)
  <2> SUFFICES ASSUME NEW c \in Dirs, Pinned(main'.tree, c)
               PROVE  /\ IsPackage(main'.tree, c) /\ main'.tree[c].comp.image = c
                      /\ main'.tree[c].comp.tag = Version(main'.tree, c)
    BY DEF PinsMatch
  <2>1. CASE c # d
    BY <1>6, <2>1 DEF MainOK, TreeOK, PinsMatch, Pinned, IsPackage, Version
  <2>2. CASE c = d
    <3>1. /\ IsPackage(main.tree, d) /\ old.comp.image = d
          /\ old.comp.tag = Version(main.tree, d)
      BY <1>8, <2>2 DEF MainOK, TreeOK, PinsMatch
    <3>2. kept.mod # NoMod /\ kept.mod.version = old.mod.version
      BY <1>2, <1>4, <3>1 DEF IsPackage
    <3> QED
      BY <1>6, <1>8, <2>2, <3>1, <3>2 DEF IsPackage, Version
  <2> QED
    BY <2>1, <2>2
<1>10. \A c \in Dirs : IsPackage(main'.tree, c) => NamesOnce(main'.tree[c].mod.registry)
  <2> SUFFICES ASSUME NEW c \in Dirs, IsPackage(main'.tree, c)
               PROVE  NamesOnce(main'.tree[c].mod.registry)
    OBVIOUS
  <2>1. CASE c # d
    BY <1>6, <2>1 DEF MainOK, TreeOK, IsPackage
  <2>2. CASE c = d
    BY <1>3, <1>4, <1>6, <2>2 DEF IsPackage
  <2> QED
    BY <2>1, <2>2
<1>11. base' \in Nat /\ base' <= main'.head /\ \A c \in Dirs : main'.touched[c] <= main'.head
  <2>1. base' = base
    BY DEF Commit
  <2>2. \A c \in Dirs : main.touched[c] \in Nat /\ main.touched[c] <= main.head
    BY <1>1 DEF MainOK
  <2>3. base' \in Nat /\ base' <= main'.head
    BY <1>1, <1>5, <2>1 DEF MainOK
  <2> QED
    BY <1>1, <1>5, <1>6, <2>2, <2>3
<1> QED
  BY <1>5, <1>6, <1>7, <1>8, <1>9, <1>10, <1>11 DEF MainOK, TreeOK
\* Where the paths of a package of a sound tree lead.
LEMMA PathsOfTree ==
  ASSUME NEW tree, TreeOK(tree), NEW d \in Dirs, IsPackage(tree, d)
  PROVE  /\ tree[d].mod.path \in Seq(Dirs) /\ ToSet(tree[d].mod.path) \subseteq Dirs
         /\ DOMAIN tree[d].mod.path = 1..Len(tree[d].mod.path)
         /\ Len(tree[d].mod.path) \in Nat
         /\ \A i \in DOMAIN tree[d].mod.path :
              /\ tree[d].mod.path[i] \in ToSet(tree[d].mod.path)
              /\ tree[d].mod.path[i] \in Dirs /\ IsPackage(tree, tree[d].mod.path[i])
         /\ PathDeps(tree, d) = ToSet(tree[d].mod.path)
<1>1. tree[d].mod \in KclMods
  BY ManifestOf DEF TreeOK, IsPackage
<1>2. tree[d].mod.path \in Seq(Dirs)
  BY <1>1 DEF KclMods
<1>3. \A p \in ToSet(tree[d].mod.path) : IsPackage(tree, p)
  BY DEF TreeOK, ModCheck
<1>4. ToSet(tree[d].mod.path) = {tree[d].mod.path[i] : i \in DOMAIN tree[d].mod.path}
  BY DEF ToSet
<1> QED
  BY <1>2, <1>3, <1>4 DEF PathDeps

Closed(tree, S) == \A x \in S : IsPackage(tree, x) => PathDeps(tree, x) \subseteq S

LEMMA DependsOnIsClosed ==
  ASSUME NEW tree, TreeOK(tree), NEW d \in Dirs
  PROVE  /\ DependsOn(tree, d) \subseteq Dirs /\ d \in DependsOn(tree, d)
         /\ Closed(tree, DependsOn(tree, d))
         /\ \A S \in SUBSET Dirs : d \in S /\ Closed(tree, S) => DependsOn(tree, d) \subseteq S
<1>1. \A c : c \in DependsOn(tree, d)
        <=> c \in Dirs /\ \A S \in SUBSET Dirs : d \in S /\ Closed(tree, S) => c \in S
  BY DEF DependsOn, Closed
<1>2. ASSUME NEW x \in DependsOn(tree, d), IsPackage(tree, x), NEW p \in PathDeps(tree, x)
      PROVE  p \in DependsOn(tree, d)
  <2>1. p \in Dirs
    BY <1>1, <1>2, PathsOfTree
  <2>2. ASSUME NEW S \in SUBSET Dirs, d \in S, Closed(tree, S) PROVE p \in S
    <3>1. x \in S
      BY <1>1, <2>2
    <3> QED
      BY <1>2, <2>2, <3>1 DEF Closed
  <2> QED
    BY <1>1, <2>1, <2>2
<1> QED
  BY <1>1, <1>2 DEF Closed

\* What a package depends on is read from the files of what it depends on.
LEMMA DependsOnFrame ==
  ASSUME NEW t1, NEW t2, TreeOK(t1), TreeOK(t2), NEW d \in Dirs,
         \A x \in DependsOn(t2, d) : SameSources(t1, t2, x)
  PROVE  DependsOn(t1, d) \subseteq DependsOn(t2, d)
<1>1. /\ DependsOn(t2, d) \in SUBSET Dirs /\ d \in DependsOn(t2, d)
      /\ Closed(t2, DependsOn(t2, d))
  BY DependsOnIsClosed
<1>2. Closed(t1, DependsOn(t2, d))
  <2> SUFFICES ASSUME NEW x \in DependsOn(t2, d), IsPackage(t1, x)
               PROVE  PathDeps(t1, x) \subseteq DependsOn(t2, d)
    BY DEF Closed
  <2>1. IsPackage(t2, x) /\ t1[x].mod.path = t2[x].mod.path
    BY DEF SameSources
  <2>2. PathDeps(t1, x) = ToSet(t1[x].mod.path) /\ PathDeps(t2, x) = ToSet(t2[x].mod.path)
    BY <1>1, <2>1, PathsOfTree
  <2> QED
    BY <1>1, <2>1, <2>2 DEF Closed
<1> QED
  BY <1>1, <1>2, DependsOnIsClosed

\* So is what is published of it.
LEMMA PackFrame ==
  ASSUME NEW t1, NEW t2, TreeOK(t1), TreeOK(t2), NEW d \in Dirs, IsPackage(t2, d),
         \A x \in DependsOn(t2, d) : SameSources(t1, t2, x)
  PROVE  Pack(t1, d) = Pack(t2, d)
<1>1. /\ d \in DependsOn(t2, d) /\ ToSet(t2[d].mod.path) \subseteq DependsOn(t2, d)
  BY DependsOnIsClosed, PathsOfTree DEF Closed
<1>2. /\ IsPackage(t1, d) /\ t1[d].mod.path = t2[d].mod.path
      /\ t1[d].mod.registry = t2[d].mod.registry
  BY <1>1 DEF SameSources
<1> DEFINE path == t2[d].mod.path
<1>3. ASSUME NEW m \in {d} \cup ToSet(path)
      PROVE  /\ t1[m].code = t2[m].code /\ IsPackage(t1, m) /\ IsPackage(t2, m)
             /\ t1[m].mod.path = t2[m].mod.path /\ t1[m].mod.registry = t2[m].mod.registry
  <2>1. SameSources(t1, t2, m) /\ IsPackage(t2, m)
    BY <1>1 DEF TreeOK, ModCheck
  <2> QED
    BY <2>1 DEF SameSources
<1>4. \A m \in {d} \cup ToSet(path) : Imports(t1, m) = Imports(t2, m)
  BY <1>3 DEF Imports, registryDeps
<1>5. \A i \in DOMAIN path : path[i] \in ToSet(path)
  BY PathsOfTree
<1>6. \A i \in DOMAIN path : /\ registryDeps(t1[path[i]].mod) = registryDeps(t2[path[i]].mod)
                             /\ IsPackage(t1, path[i]) /\ IsPackage(t2, path[i])
  BY <1>3, <1>5 DEF registryDeps
<1>7. registryDeps(t1[d].mod) = registryDeps(t2[d].mod)
  BY <1>2 DEF registryDeps
<1>8. rewriteDeps(t1, d) = rewriteDeps(t2, d)
  <2>1. Len(path) \in Nat /\ DOMAIN path = 1..Len(path)
    BY PathsOfTree
  <2>2. \A i \in DOMAIN path : \A j \in i + 1..Len(path) : j \in DOMAIN path
    BY <2>1
  <2> DEFINE Later1(i, name) == \E j \in i + 1..Len(path) :
                                  \E e \in registryDeps(t1[path[j]].mod) : e.name = name
             Later2(i, name) == \E j \in i + 1..Len(path) :
                                  \E e \in registryDeps(t2[path[j]].mod) : e.name = name
  <2>3. \A i \in DOMAIN path : \A name : Later1(i, name) <=> Later2(i, name)
    BY <1>6, <2>2
  <2>4. rewriteDeps(t1, d) = registryDeps(t1[d].mod)
          \cup UNION {{e \in registryDeps(t1[path[i]].mod) :
                         ~Later1(i, e.name) /\ \A o \in registryDeps(t1[d].mod) : o.name # e.name}
                        : i \in {k \in DOMAIN path : IsPackage(t1, path[k])}}
    BY <1>2 DEF rewriteDeps
  <2>5. rewriteDeps(t2, d) = registryDeps(t2[d].mod)
          \cup UNION {{e \in registryDeps(t2[path[i]].mod) :
                         ~Later2(i, e.name) /\ \A o \in registryDeps(t2[d].mod) : o.name # e.name}
                        : i \in {k \in DOMAIN path : IsPackage(t2, path[k])}}
    BY DEF rewriteDeps
  <2> HIDE DEF Later1, Later2
  <2>6. \A e : e \in rewriteDeps(t1, d) <=> e \in rewriteDeps(t2, d)
    BY <1>6, <1>7, <2>3, <2>4, <2>5
  <2> QED
    BY <2>6
<1> QED
  BY <1>2, <1>3, <1>4, <1>8 DEF Pack
(***************************************************************************)
(* The history of main.  What waits will check out main as it is, or, asked   *)
(* for by hand before a release, what that release has tagged; a run that may   *)
(* still push holds the release of main, or a run waits for what main has        *)
(* become; a run that has pushed is the one main's pins come from; and what no   *)
(* tag holds has been touched since the last one.                            *)
(***************************************************************************)

Overtaken(m) == \A d \in Dirs : m.touched[d] \in Nat /\ m.touched[d] <= base

TriggerOK ==
  trigger # NoRun =>
    \/ trigger.checkout = main
    \/ Overtaken(trigger.checkout) /\ Affected(main) = {}

PushOK ==
  run.stage = "push" =>
    /\ run.todo = run.bumped /\ run.env \in Envs
    /\ run.head \in Nat /\ run.head <= main.head
    /\ main.head # run.head => trigger # NoRun
    /\ main.head = run.head => /\ run.bumped = Affected(main)
                               /\ run.main = Bumped(main, run.bumped, run.env)

OursPinned ==
  run.stage \in {"publish", "ended"} =>
    \A d \in Dirs : d \in run.bumped /\ Pinned(main.tree, d) =>
      /\ main.tree[d].comp.tag = Version(run.main.tree, d)
      /\ main.tree[d].comp.registry = resolveRegistry(run.env)

Tagged(d) ==
  [name |-> d, version |-> Version(main.tree, d), pack |-> Pack(main.tree, d)] \in tags

Fresh ==
  \A d \in Dirs : Releasable(main.tree, d) =>
    Tagged(d) \/ \E c \in DependsOn(main.tree, d) : main.touched[c] > base

Quiet == trigger = NoRun /\ run.stage # "push" /\ ~cut => Affected(main) = {}

History == /\ MainOK /\ TriggerOK /\ PushOK /\ OursPinned
           /\ Fresh /\ Quiet /\ PinsResolve

\* A step of the run alone, or of a session, leaves main's own history.
LEMMA SameMain ==
  ASSUME History, UNCHANGED <<main, base, tags, trigger>>
  PROVE  /\ MainOK' /\ TriggerOK' /\ Fresh'
         /\ trigger = NoRun /\ run.stage # "push" /\ ~cut => Affected(main)' = {}
BY DEF History, MainOK, TriggerOK, Overtaken, Fresh, Tagged, Quiet, Affected

LEMMA SameHistory ==
  ASSUME History, UNCHANGED <<main, trigger, run, tags, base, oci, lost, cut>>
  PROVE  History'
<1>1. MainOK' /\ TriggerOK' /\ Fresh'
  BY SameMain
<1>2. PushOK' /\ OursPinned' /\ Quiet'
  BY DEF History, PushOK, OursPinned, Quiet, Affected
<1>3. PinsResolve'
  BY DEF History, PinsResolve, Published, Unpublished
<1> QED
  BY <1>1, <1>2, <1>3 DEF History

\* A run asked for by hand waits with main as its checkout.
LEMMA DispatchKeepsHistory ==
  ASSUME History, Dispatch
  PROVE  History'
<1>1. /\ UNCHANGED <<main, run, tags, base, oci, lost, cut>>
      /\ trigger' = [stage |-> "waiting", checkout |-> main]
  BY DEF Dispatch
<1>2. trigger' # NoRun /\ trigger'.checkout = main'
  <2>1. trigger'.stage = "waiting" /\ NoRun.stage = "idle"
    BY <1>1 DEF NoRun
  <2> QED
    BY <1>1, <2>1
<1>3. MainOK'
  BY <1>1 DEF History, MainOK
<1>4. TriggerOK' /\ Quiet'
  BY <1>2 DEF TriggerOK, Quiet
<1>5. Fresh' /\ OursPinned'
  BY <1>1 DEF History, Fresh, Tagged, OursPinned
<1>7. PushOK'
  BY <1>1, <1>2 DEF History, PushOK, Affected
<1>6. PinsResolve'
  BY <1>1 DEF History, PinsResolve, Published, Unpublished
<1> QED
  BY <1>3, <1>4, <1>5, <1>6, <1>7 DEF History

LEMMA CommitKeepsHistory ==
  ASSUME History, NEW d \in Dirs, Commit(d)
  PROVE  History'
<1>1. /\ MainOK /\ TreeOK(main.tree)
      /\ UNCHANGED <<run, tags, base, oci, lost, cut>>
      /\ trigger' = [stage |-> "waiting", checkout |-> main']
  BY DEF History, MainOK, Commit
<1>2. /\ MainOK' /\ main'.head = main.head + 1 /\ main'.touched[d] = main.head + 1
      /\ \A c \in Dirs \ {d} : /\ main'.tree[c] = main.tree[c]
                               /\ main'.touched[c] = main.touched[c]
      /\ Pinned(main'.tree, d) => /\ Pinned(main.tree, d)
                                  /\ main'.tree[d].comp.tag = main.tree[d].comp.tag
                                  /\ main'.tree[d].comp.registry = main.tree[d].comp.registry
                                  /\ main'.tree[d].comp.image = main.tree[d].comp.image
  BY <1>1, CommitKeepsMain
<1>3. trigger' # NoRun /\ trigger'.checkout = main'
  <2>1. trigger'.stage = "waiting" /\ NoRun.stage = "idle"
    BY <1>1 DEF NoRun
  <2> QED
    BY <1>1, <2>1
<1>4. TriggerOK' /\ Quiet'
  BY <1>3 DEF TriggerOK, Quiet
<1>5. main.head \in Nat /\ base \in Nat /\ base <= main.head
  BY <1>1 DEF MainOK, IsMain
<1>6. PushOK'
  <2> SUFFICES ASSUME run.stage = "push" PROVE PushOK'
    BY <1>1 DEF PushOK
  <2>1. run.head \in Nat /\ run.head <= main.head /\ run.todo = run.bumped /\ run.env \in Envs
    BY DEF History, PushOK
  <2>2. run.head <= main'.head /\ main'.head # run.head
    BY <1>2, <1>5, <2>1
  <2> QED
    BY <1>1, <1>3, <2>1, <2>2 DEF PushOK
<1>7. ASSUME NEW c \in Dirs, Pinned(main'.tree, c)
      PROVE  /\ Pinned(main.tree, c) /\ main'.tree[c].comp.tag = main.tree[c].comp.tag
             /\ main'.tree[c].comp.registry = main.tree[c].comp.registry
             /\ main'.tree[c].comp.image = main.tree[c].comp.image
  BY <1>2, <1>7 DEF Pinned
<1>8. OursPinned'
  BY <1>1, <1>7 DEF History, OursPinned
<1>9. PinsResolve'
  <2> SUFFICES ASSUME NEW c \in Dirs, Pinned(main'.tree, c), main'.tree[c].comp.image = c
               PROVE  \/ Published(Image(main'.tree[c].comp.registry, c, main'.tree[c].comp.tag))
                      \/ run.stage = "publish" /\ <<c, main'.tree[c].comp.tag>> \in Unpublished(run)
                      \/ <<c, main'.tree[c].comp.tag>> \in lost
    BY <1>1 DEF PinsResolve, Pinned, Published
  <2> QED
    BY <1>7 DEF History, PinsResolve, Pinned
<1>10. Fresh'
  <2> SUFFICES ASSUME NEW c \in Dirs, Releasable(main'.tree, c),
                      \A x \in DependsOn(main'.tree, c) : ~(main'.touched[x] > base)
               PROVE  [name |-> c, version |-> Version(main'.tree, c),
                       pack |-> Pack(main'.tree, c)] \in tags
    BY <1>1 DEF Fresh, Tagged
  <2>1. TreeOK(main'.tree)
    BY <1>2 DEF MainOK
  <2>2. DependsOn(main'.tree, c) \subseteq Dirs /\ c \in DependsOn(main'.tree, c)
    BY <2>1, DependsOnIsClosed
  <2>3. main'.touched[d] > base
    BY <1>2, <1>5
  <2>4. d \notin DependsOn(main'.tree, c) /\ c # d
    BY <2>2, <2>3
  <2>5. \A x \in DependsOn(main'.tree, c) : SameSources(main.tree, main'.tree, x)
    BY <1>2, <2>2, <2>4 DEF SameSources, IsPackage
  <2>6. DependsOn(main.tree, c) \subseteq DependsOn(main'.tree, c)
    BY <1>1, <2>1, <2>5, DependsOnFrame
  <2>7. main'.tree[c] = main.tree[c]
    BY <1>2, <2>4
  <2>8. Releasable(main.tree, c) /\ Version(main.tree, c) = Version(main'.tree, c)
    BY <2>7 DEF Releasable, IsPackage, Version
  <2>9. IsPackage(main'.tree, c)
    BY DEF Releasable
  <2>10. Pack(main.tree, c) = Pack(main'.tree, c)
    BY <1>1, <2>1, <2>5, <2>9, PackFrame
  <2>11. \A x \in DependsOn(main.tree, c) : ~(main.touched[x] > base)
    BY <1>2, <2>2, <2>4, <2>6
  <2>12. Tagged(c)
    BY <2>8, <2>11 DEF History, Fresh
  <2> QED
    BY <2>8, <2>10, <2>12 DEF Tagged
<1> QED
  BY <1>2, <1>4, <1>6, <1>8, <1>9, <1>10 DEF History

LEMMA TagKeepsHistory ==
  ASSUME History, VersionAndTag
  PROVE  History'
<1>1. /\ run.stage \notin {"push", "publish"} /\ trigger # NoRun
      /\ trigger' = NoRun /\ UNCHANGED <<main, tags, base, oci, lost, cut>>
  BY DEF VersionAndTag, Running
<1>2. MainOK' /\ Fresh' /\ Affected(main)' = Affected(main)
  BY <1>1 DEF History, MainOK, Fresh, Tagged, Affected
<1>3. TriggerOK'
  BY <1>1 DEF TriggerOK
<1>4. PinsResolve'
  BY <1>1 DEF History, PinsResolve, Published
<1>5. CASE run' = NoRun /\ Affected(main) = {}
  <2>1. run'.stage = "idle"
    BY <1>5 DEF NoRun
  <2> QED
    BY <1>2, <1>3, <1>4, <1>5, <2>1 DEF History, PushOK, OursPinned, Quiet
<1>6. CASE \E env \in Envs :
             run' = [stage |-> "push", env |-> env, todo |-> Affected(main), failed |-> {},
                     bumped |-> Affected(main), head |-> main.head,
                     main |-> Bumped(main, Affected(main), env)]
  <2>1. PICK env \in Envs :
          /\ run'.stage = "push" /\ run'.env = env /\ run'.todo = Affected(main)
          /\ run'.bumped = Affected(main) /\ run'.head = main.head
          /\ run'.main = Bumped(main, Affected(main), env)
    BY <1>6
  <2>2. main.head \in Nat
    BY DEF History, MainOK, IsMain
  <2>3. PushOK'
    BY <1>1, <1>2, <2>1, <2>2 DEF PushOK
  <2> QED
    BY <1>2, <1>3, <1>4, <2>1, <2>3 DEF History, OursPinned, Quiet
<1>7. CASE trigger.checkout = main
  BY <1>5, <1>6, <1>7 DEF VersionAndTag
<1>8. CASE Overtaken(trigger.checkout) /\ Affected(main) = {}
  <2>1. \A d \in Dirs : ~(trigger.checkout.touched[d] > base)
    <3>1. base \in Nat
      BY DEF History, MainOK, IsMain
    <3> QED
      BY <1>8, <3>1 DEF Overtaken
  <2>2. \A d \in Dirs : DependsOn(trigger.checkout.tree, d) \subseteq Dirs
    BY DEF DependsOn
  <2>3. Affected(trigger.checkout) = {}
    BY <2>1, <2>2 DEF Affected
  <2>4. run' = NoRun
    BY <2>3 DEF VersionAndTag
  <2> QED
    BY <1>5, <1>8, <2>4
<1> QED
  BY <1>1, <1>7, <1>8 DEF History, TriggerOK

\* A push that is accepted releases all that changed since the last tag.
LEMMA AcceptedKeepsHistory ==
  ASSUME History, RunOK, PushMain, main.head = run.head
  PROVE  History' /\ \A d \in run.bumped : d \in Dirs /\ IsPackage(run.main.tree, d)
<1>1. /\ run.stage = "push" /\ main' = run.main /\ base' = run.main.head
      /\ tags' = tags \cup Released(run) /\ UNCHANGED <<trigger, oci, lost, cut>>
  BY DEF PushMain
<1>2. /\ run'.stage = "publish" /\ run'.todo = run.todo /\ run'.bumped = run.bumped
      /\ run'.main = run.main /\ run'.env = run.env /\ run'.failed = run.failed
  BY <1>1, RunSteps, RunBecomes
<1>3. /\ run.todo = run.bumped /\ run.env \in Envs
      /\ run.bumped = Affected(main) /\ main' = Bumped(main, run.bumped, run.env)
  BY <1>1 DEF History, PushOK
<1>4. PICK affected : affected = Affected(main)
  OBVIOUS
<1>5. /\ main'.head = main.head + 1 /\ main'.touched = main.touched
      /\ main'.tree = [d \in Dirs |-> IF d \in affected
                         THEN updateProjectVersion(main.tree[d], d, run.env) ELSE main.tree[d]]
      /\ main' = [tree |-> main'.tree, head |-> main'.head, touched |-> main'.touched]
  BY <1>3, <1>4, BumpedMain
<1>6. /\ MainOK /\ TreeOK(main.tree) /\ main.head \in Nat
      /\ main.touched \in [Dirs -> Nat] /\ \A d \in Dirs : main.touched[d] <= main.head
  BY DEF History, MainOK, IsMain
<1>7. affected \in SUBSET {d \in Dirs : IsPackage(main.tree, d)}
  BY <1>4 DEF Affected, Releasable
<1>8. PICK new : new = main'.tree
  OBVIOUS
<1>9. /\ TreeOK(new) /\ \A d \in Dirs : SameSources(main.tree, new, d)
      /\ \A d \in affected : Pinned(new, d) =>
           /\ new[d].comp.tag = Version(new, d)
           /\ new[d].comp.registry = resolveRegistry(run.env)
  <2>1. PICK tree, env : tree = main.tree /\ env = run.env
    OBVIOUS
  <2>2. new = [d \in Dirs |-> IF d \in affected
                 THEN updateProjectVersion(tree[d], d, env) ELSE tree[d]]
    BY <1>5, <1>8, <2>1
  <2>3. TreeOK(tree) /\ env \in Envs /\ affected \in SUBSET {d \in Dirs : IsPackage(tree, d)}
    BY <1>3, <1>6, <1>7, <2>1
  <2>4. /\ TreeOK(new) /\ \A d \in Dirs : SameSources(tree, new, d)
        /\ \A d \in affected : Pinned(new, d) =>
             /\ new[d].comp.tag = Version(new, d)
             /\ new[d].comp.registry = resolveRegistry(env)
    BY <2>2, <2>3, BumpedTree
  <2> QED
    BY <2>1, <2>4
<1>10. \A d \in Dirs \ affected : new[d] = main.tree[d]
  BY <1>5, <1>8
<1>11. MainOK'
  <2>1. new \in [Dirs -> Files]
    BY <1>9 DEF TreeOK
  <2>2. main'.head \in Nat /\ base' = main'.head /\ main'.touched \in [Dirs -> Nat]
        /\ \A d \in Dirs : main'.touched[d] <= main'.head
    BY <1>1, <1>5, <1>6
  <2>3. IsMain(main')
    BY <1>5, <1>8, <2>1, <2>2 DEF IsMain
  <2>4. base' \in Nat /\ base' <= main'.head
    BY <2>2
  <2> QED
    BY <1>8, <1>9, <2>2, <2>3, <2>4 DEF MainOK
<1>12. PushOK'
  BY <1>2 DEF PushOK
<1>13. OursPinned'
  <2> SUFFICES ASSUME NEW d \in Dirs, d \in run'.bumped, Pinned(main'.tree, d)
               PROVE  /\ main'.tree[d].comp.tag = Version(run'.main.tree, d)
                      /\ main'.tree[d].comp.registry = resolveRegistry(run'.env)
    BY DEF OursPinned
  <2>1. d \in affected /\ run'.main.tree = new /\ run'.env = run.env
    BY <1>1, <1>2, <1>3, <1>4, <1>8
  <2> QED
    BY <1>8, <1>9, <2>1
<1>14. Quiet' /\ TriggerOK'
  <2>1. \A d \in Dirs : ~(main'.touched[d] > base')
    <3>1. base' = main.head + 1
      BY <1>1, <1>5
    <3>2. \A d \in Dirs : main.touched[d] \in Nat
      BY <1>6
    <3> QED
      BY <1>5, <1>6, <3>1, <3>2
  <2>2. Affected(main)' = {}
    <3>1. \A d \in Dirs : DependsOn(main'.tree, d) \subseteq Dirs
      BY DEF DependsOn
    <3> QED
      BY <2>1, <3>1 DEF Affected
  <2>3. ASSUME trigger # NoRun PROVE Overtaken(trigger.checkout)'
    <3>1. base \in Nat /\ base' = main.head + 1 /\ base <= main.head
      BY <1>1, <1>5, <1>6 DEF MainOK
    <3>2. \A d \in Dirs : /\ trigger.checkout.touched[d] \in Nat
                         /\ trigger.checkout.touched[d] <= main.head
      BY <1>6, <2>3, <3>1 DEF History, TriggerOK, Overtaken
    <3> QED
      BY <1>1, <1>6, <3>1, <3>2 DEF Overtaken
  <2>4. TriggerOK'
    BY <1>1, <2>2, <2>3 DEF TriggerOK
  <2> QED
    BY <2>2, <2>4 DEF Quiet
<1>15. Fresh'
  <2> SUFFICES ASSUME NEW d \in Dirs, Releasable(new, d)
               PROVE  [name |-> d, version |-> Version(new, d), pack |-> Pack(new, d)] \in tags'
    BY <1>8 DEF Fresh, Tagged
  <2>1. CASE d \in affected
    <3>1. run.main.tree = new /\ d \in run.bumped
      BY <1>1, <1>3, <1>4, <1>8, <2>1
    <3> QED
      BY <1>1, <3>1 DEF Released
  <2>2. CASE d \notin affected
    <3>1. Releasable(main.tree, d) /\ IsPackage(new, d)
      BY <1>9 DEF Releasable, SameSources
    <3>2. \A c \in DependsOn(main.tree, d) : ~(main.touched[c] > base)
      BY <1>4, <2>2, <3>1 DEF Affected
    <3>3. Tagged(d)
      BY <3>1, <3>2 DEF History, Fresh
    <3>4. DependsOn(new, d) \subseteq Dirs
      BY DEF DependsOn
    <3>5. Pack(main.tree, d) = Pack(new, d)
      BY <1>6, <1>9, <3>1, <3>4, PackFrame
    <3>6. Version(main.tree, d) = Version(new, d)
      BY <1>10, <2>2 DEF Version
    <3> QED
      BY <1>1, <3>3, <3>5, <3>6 DEF Tagged
  <2> QED
    BY <2>1, <2>2
<1>16. PinsResolve'
  <2> SUFFICES ASSUME NEW d \in Dirs, Pinned(new, d), new[d].comp.image = d
               PROVE  \/ Published(Image(new[d].comp.registry, d, new[d].comp.tag))'
                      \/ run'.stage = "publish" /\ <<d, new[d].comp.tag>> \in Unpublished(run')
                      \/ <<d, new[d].comp.tag>> \in lost'
    BY <1>8 DEF PinsResolve, Pinned
  <2>1. CASE d \in affected
    <3>1. d \in run'.todo /\ run'.main.tree = new
      BY <1>1, <1>2, <1>3, <1>4, <1>8, <2>1
    <3>2. new[d].comp.tag = Version(run'.main.tree, d)
      BY <1>9, <2>1, <3>1
    <3> QED
      BY <1>2, <3>1, <3>2 DEF Unpublished
  <2>2. CASE d \notin affected
    <3>1. new[d] = main.tree[d]
      BY <1>10, <2>2
    <3>2. \/ Published(Image(main.tree[d].comp.registry, d, main.tree[d].comp.tag))
          \/ <<d, main.tree[d].comp.tag>> \in lost
      BY <1>1, <3>1 DEF History, PinsResolve, Pinned
    <3> QED
      BY <1>1, <3>1, <3>2 DEF Published
  <2> QED
    BY <2>1, <2>2
<1>17. \A d \in run.bumped : d \in Dirs /\ IsPackage(run.main.tree, d)
  BY <1>1, <1>3, <1>4, <1>7, <1>8, <1>9 DEF SameSources
<1> QED
  BY <1>11, <1>12, <1>13, <1>14, <1>15, <1>16, <1>17 DEF History

LEMMA PushKeepsHistory ==
  ASSUME History, RunOK, PushMain
  PROVE  History'
<1>1. CASE main.head # run.head
  <2>1. /\ run.stage = "push" /\ run' = NoRun
        /\ UNCHANGED <<main, base, tags, trigger, oci, lost, cut>>
    BY <1>1 DEF PushMain
  <2>2. trigger # NoRun /\ run'.stage = "idle"
    BY <1>1, <2>1 DEF History, PushOK, NoRun
  <2>3. MainOK' /\ TriggerOK' /\ Fresh'
    BY <2>1, SameMain
  <2>4. PinsResolve'
    BY <2>1, <2>2 DEF History, PinsResolve, Published
  <2> QED
    BY <2>1, <2>2, <2>3, <2>4 DEF History, PushOK, OursPinned, Quiet
<1> QED
  BY <1>1, AcceptedKeepsHistory

\* A publish ends with the image there, wherever the pins of its run point, or
\* with the package among the failed ones.
LEMMA PublishSteps ==
  ASSUME RunOK, NEW d \in Dirs, kclPublishExecutor(d)
  PROVE  LET version == Version(run.main.tree, d) IN
         /\ run.stage = "publish" /\ d \in run.todo /\ run.todo \subseteq run.bumped
         /\ UNCHANGED <<main, trigger, tags, base>> /\ (cut' = cut \/ cut')
         /\ IsRun(run') /\ run'.stage = "publish" /\ run'.todo = run.todo \ {d}
         /\ run'.bumped = run.bumped /\ run'.main = run.main /\ run'.env = run.env
         /\ oci \subseteq oci'
         /\ \/ /\ Published(Image(resolveRegistry(run.env), d, version))'
               /\ lost' = lost \ {<<d, version>>} /\ run'.failed = run.failed
            \/ lost' = lost /\ run'.failed = run.failed \cup {d}
<1>0. PICK image : image = Image(PushRegistry(run.env), d, Version(run.main.tree, d))
  OBVIOUS
<1>1. /\ run.stage = "publish" /\ d \in run.todo /\ UNCHANGED <<main, trigger, tags, base>>
      /\ (cut' = cut \/ cut') /\ oci \subseteq oci'
  BY DEF kclPublishExecutor
<1>2. /\ IsRun(run) /\ run.todo \subseteq run.bumped
  BY <1>1, RunMoves
<1>3. PICK todo, failed : todo = run.todo \ {d} /\ failed = run.failed \cup {d}
  OBVIOUS
<1>4. /\ [run EXCEPT !.todo = todo] = Changed(run, "publish", todo, run.failed)
      /\ [run EXCEPT !.todo = todo, !.failed = failed] = Changed(run, "publish", todo, failed)
  BY <1>1, <1>2 DEF IsRun, Changed
<1>5. \/ /\ image.registry # "" /\ lost' = lost \ {<<d, image.version>>}
         /\ oci' = IF Published(image) THEN oci
                   ELSE oci \cup {[image |-> image, pack |-> Pack(run.main.tree, d)]}
         /\ run' = Changed(run, "publish", todo, run.failed)
      \/ lost' = lost /\ run' = Changed(run, "publish", todo, failed)
  <2>1. \/ /\ image.registry # "" /\ lost' = lost \ {<<d, image.version>>}
           /\ oci' = IF Published(image) THEN oci
                     ELSE oci \cup {[image |-> image, pack |-> Pack(run.main.tree, d)]}
           /\ run' = [run EXCEPT !.todo = run.todo \ {d}]
        \/ lost' = lost /\ run' = [run EXCEPT !.todo = run.todo \ {d},
                                              !.failed = run.failed \cup {d}]
    BY <1>0, <1>2 DEF kclPublishExecutor, IsRun
  <2> QED
    BY <1>3, <1>4, <2>1
<1>6. \A f : run' = Changed(run, "publish", todo, f) =>
        /\ IsRun(run') /\ run'.stage = "publish" /\ run'.todo = run.todo \ {d}
        /\ run'.failed = f
        /\ run'.bumped = run.bumped /\ run'.main = run.main /\ run'.env = run.env
  BY <1>1, <1>3, RunBecomes
<1>7. CASE lost' = lost /\ run' = Changed(run, "publish", todo, failed)
  BY <1>1, <1>2, <1>3, <1>6, <1>7
<1>8. CASE /\ image.registry # "" /\ lost' = lost \ {<<d, image.version>>}
           /\ oci' = IF Published(image) THEN oci
                     ELSE oci \cup {[image |-> image, pack |-> Pack(run.main.tree, d)]}
           /\ run' = Changed(run, "publish", todo, run.failed)
  <2>1. image.version = Version(run.main.tree, d) /\ PushRegistry(run.env) # ""
    BY <1>0, <1>8 DEF Image
  <2>2. resolveRegistry(run.env) = PushRegistry(run.env)
    BY <2>1 DEF resolveRegistry, PushRegistry
  <2>0. oci' = IF Published(image) THEN oci
               ELSE oci \cup {[image |-> image, pack |-> Pack(run.main.tree, d)]}
    BY <1>8, Zenon
  <2>3. \E o \in oci' : o.image = image
    <3>1. CASE Published(image)
      BY <1>1, <3>1 DEF Published
    <3>2. CASE ~Published(image)
      <4>1. PICK new : new = [image |-> image, pack |-> Pack(run.main.tree, d)]
        OBVIOUS
      <4> QED
        BY <2>0, <3>2, <4>1
    <3> QED
      BY <3>1, <3>2
  <2>4. Published(Image(resolveRegistry(run.env), d, Version(run.main.tree, d)))'
    <3>1. run'.main = run.main /\ run'.env = run.env
      BY <1>6, <1>8
    <3>2. \E o \in oci' : o.image = Image(resolveRegistry(run.env), d, Version(run.main.tree, d))
      BY <1>0, <2>2, <2>3
    <3>3. \E o \in oci' : o.image = Image(resolveRegistry(run'.env), d, Version(run'.main.tree, d))
      BY <3>1, <3>2
    <3> QED
      BY <3>3 DEF Published
  <2> QED
    BY <1>1, <1>2, <1>6, <1>8, <2>1, <2>4
<1> QED
  BY <1>5, <1>7, <1>8

LEMMA PublishKeepsHistory ==
  ASSUME History, RunOK, NEW d \in Dirs, kclPublishExecutor(d)
  PROVE  History'
<1> DEFINE version == Version(run.main.tree, d)
<1>1. /\ run.stage = "publish" /\ d \in run.todo /\ run.todo \subseteq run.bumped
      /\ UNCHANGED <<main, trigger, tags, base>> /\ (cut' = cut \/ cut')
      /\ run'.stage = "publish" /\ run'.todo = run.todo \ {d}
      /\ run'.bumped = run.bumped /\ run'.main = run.main /\ run'.env = run.env
      /\ oci \subseteq oci'
  BY PublishSteps
<1>2. \/ /\ Published(Image(resolveRegistry(run.env), d, version))'
         /\ lost' = lost \ {<<d, version>>} /\ run'.failed = run.failed
      \/ lost' = lost /\ run'.failed = run.failed \cup {d}
  BY PublishSteps
<1>3. /\ MainOK' /\ TriggerOK' /\ Fresh'
      /\ trigger = NoRun /\ ~cut => Affected(main)' = {}
  BY <1>1, SameMain
<1>4. PushOK' /\ OursPinned' /\ Quiet'
  BY <1>1, <1>3 DEF History, PushOK, OursPinned, Quiet
<1>5. ASSUME NEW c \in Dirs, Pinned(main.tree, c), main.tree[c].comp.image = c
      PROVE  LET comp == main.tree[c].comp IN
             \/ Published(Image(comp.registry, c, comp.tag))'
             \/ <<c, comp.tag>> \in Unpublished(run')
             \/ <<c, comp.tag>> \in lost'
  <2> DEFINE comp == main.tree[c].comp
  <2>1. \/ Published(Image(comp.registry, c, comp.tag))
        \/ <<c, comp.tag>> \in Unpublished(run) \/ <<c, comp.tag>> \in lost
    BY <1>5 DEF History, PinsResolve, Pinned
  <2>2. CASE Published(Image(comp.registry, c, comp.tag))
    <3>1. \A x : Published(x) => \E o \in oci' : o.image = x
      BY <1>1 DEF Published
    <3>2. \E o \in oci' : o.image = Image(comp.registry, c, comp.tag)
      BY <2>2, <3>1
    <3>3. Published(Image(comp.registry, c, comp.tag))'
      BY <1>1, <3>2 DEF Published
    <3> QED
      BY <3>3
  <2>3. CASE <<c, comp.tag>> = <<d, version>>
    <3>1. comp.registry = resolveRegistry(run.env)
      BY <1>1, <1>5, <2>3 DEF History, OursPinned
    <3>2. CASE Published(Image(resolveRegistry(run.env), d, version))'
      <4>1. c = d /\ comp.tag = version
        BY <2>3
      <4>2. \E o \in oci' : o.image = Image(resolveRegistry(run.env), d, version)
        BY <1>1, <3>2 DEF Published
      <4>3. \E o \in oci' : o.image = Image(comp.registry, c, comp.tag)
        BY <3>1, <4>1, <4>2
      <4>4. Published(Image(comp.registry, c, comp.tag))'
        BY <1>1, <4>3 DEF Published
      <4> QED
        BY <4>4
    <3>3. CASE run'.failed = run.failed \cup {d}
      BY <1>1, <2>3, <3>3 DEF Unpublished
    <3> QED
      BY <1>2, <3>2, <3>3
  <2>4. CASE <<c, comp.tag>> \in Unpublished(run) /\ <<c, comp.tag>> # <<d, version>>
    <3>1. comp.tag = Version(run.main.tree, c) /\ c \in run.todo \cup run.failed
      BY <2>4 DEF Unpublished
    <3>2. c # d
      BY <2>4, <3>1
    <3>3. c \in run'.todo \cup run'.failed
      BY <1>1, <1>2, <3>1, <3>2
    <3> QED
      BY <1>1, <3>1, <3>3 DEF Unpublished
  <2>5. CASE <<c, comp.tag>> \in lost /\ <<c, comp.tag>> # <<d, version>>
    BY <1>2, <2>5
  <2> QED
    BY <2>1, <2>2, <2>3, <2>4, <2>5
<1>6. PinsResolve'
  BY <1>1, <1>5 DEF PinsResolve, Pinned
<1> QED
  BY <1>3, <1>4, <1>6 DEF History

\* What the end of a run leaves to publish is on record.
LEMMA EndKeepsHistory ==
  ASSUME History, RunOK, Finish \/ Cancel \/ RetryPublish
  PROVE  History'
<1>1. /\ UNCHANGED <<main, trigger, tags, base, oci>> /\ lost \subseteq lost'
      /\ (cut' = cut \/ cut')
  BY DEF Finish, Cancel, RetryPublish
<1>2. CASE Cancel /\ run.stage = "push"
  <2>1. run'.stage = "idle" /\ lost' = lost /\ cut'
    BY <1>2 DEF Cancel, NoRun
  <2>2. MainOK' /\ TriggerOK' /\ Fresh'
    BY <1>1, SameMain
  <2>3. PinsResolve'
    BY <1>1, <1>2, <2>1 DEF History, PinsResolve, Published
  <2> QED
    BY <2>1, <2>2, <2>3 DEF History, PushOK, OursPinned, Quiet
<1>3. CASE ~(Cancel /\ run.stage = "push")
  <2>1. /\ run.stage \in {"publish", "ended"} /\ run'.stage \in {"publish", "ended"}
        /\ run'.bumped = run.bumped /\ run'.main = run.main /\ run'.env = run.env
    <3>1. CASE Finish
      <4>1. run.stage = "publish" /\ run' = Changed(run, "ended", run.todo, run.failed)
        BY <3>1, RunSteps DEF Finish
      <4> QED
        BY <4>1, RunBecomes
    <3>2. CASE Cancel
      <4>1. /\ run.stage = "publish"
            /\ run' = Changed(run, "ended", run.todo, run.failed \cup run.todo)
        BY <1>3, <3>2, RunSteps DEF Cancel, Running
      <4> QED
        BY <4>1, RunBecomes
    <3>3. CASE RetryPublish
      <4>1. run.stage = "ended" /\ run' = Changed(run, "publish", run.bumped, {})
        BY <3>3, RunSteps DEF RetryPublish
      <4> QED
        BY <4>1, RunBecomes
    <3> QED
      BY <3>1, <3>2, <3>3
  <2>2. /\ MainOK' /\ TriggerOK' /\ Fresh'
        /\ trigger = NoRun /\ ~cut => Affected(main)' = {}
    BY <1>1, <2>1, SameMain
  <2>3. PushOK' /\ OursPinned' /\ Quiet'
    BY <1>1, <2>1, <2>2 DEF History, PushOK, OursPinned, Quiet
  <2>4. run.stage = "publish" => lost' = lost \cup Unpublished(run)
    BY <1>3, <2>1 DEF Finish, Cancel, RetryPublish
  <2>5. PinsResolve'
    BY <1>1, <2>4 DEF History, PinsResolve, Published
  <2> QED
    BY <2>2, <2>3, <2>5 DEF History
<1> QED
  BY <1>2, <1>3

LEMMA InitHistory == Init => History
<1> SUFFICES ASSUME Init PROVE History
  OBVIOUS
<1>1. /\ main.tree = InitialTree /\ main.head = 0 /\ main.touched = [d \in Dirs |-> 0]
      /\ IsMain(main) /\ base = 0
  <2>1. /\ main = [tree |-> InitialTree, head |-> 0, touched |-> [d \in Dirs |-> 0]]
        /\ base = 0
    BY DEF Init, ReleaseInit
  <2>2. InitialTree \in [Dirs -> Files]
    BY ReleaseAssumption
  <2> QED
    BY <2>1, <2>2 DEF IsMain
<1>2. /\ trigger = NoRun /\ run.stage = "idle"
      /\ \A d \in Dirs : Releasable(InitialTree, d) =>
           [name |-> d, version |-> Version(InitialTree, d), pack |-> Pack(InitialTree, d)] \in tags
      /\ \A t \in tags : [image |-> Image(NxRegistry, t.name, t.version), pack |-> t.pack] \in oci
  BY DEF Init, ReleaseInit, NoRun
<1>3. \A d \in Dirs : Pinned(InitialTree, d) => Released0(d)
  BY ReleaseAssumption DEF Pinned
<1>4. TreeOK(InitialTree)
  <2>1. /\ InitialTree \in [Dirs -> Files] /\ ModCheck(InitialTree)
        /\ \A d \in Dirs : IsPackage(InitialTree, d) => NamesOnce(InitialTree[d].mod.registry)
    BY ReleaseAssumption DEF IsPackage
  <2> QED
    BY <1>3, <2>1 DEF TreeOK, PinsMatch, Released0, Releasable
<1>5. \A d \in Dirs : ~(main.touched[d] > base) /\ main.touched[d] <= main.head
  BY <1>1
<1>6. MainOK
  <2>1. base \in Nat /\ base <= main.head
    BY <1>1
  <2> QED
    BY <1>1, <1>4, <1>5, <2>1 DEF MainOK
<1>7. TriggerOK /\ PushOK /\ OursPinned
  BY <1>2 DEF TriggerOK, PushOK, OursPinned
<1>8. Fresh
  BY <1>1, <1>2 DEF Fresh, Tagged
<1>9. Quiet
  <2>1. \A d \in Dirs : DependsOn(main.tree, d) \subseteq Dirs
    BY DEF DependsOn
  <2> QED
    BY <1>5, <2>1 DEF Quiet, Affected
<1>10. PinsResolve
  <2> SUFFICES ASSUME NEW d \in Dirs, Pinned(InitialTree, d)
               PROVE  Published(Image(InitialTree[d].comp.registry, d, InitialTree[d].comp.tag))
    BY <1>1 DEF PinsResolve, Pinned
  <2>1. /\ Releasable(InitialTree, d) /\ InitialTree[d].comp.registry = NxRegistry
        /\ InitialTree[d].comp.tag = Version(InitialTree, d)
    BY <1>3 DEF Released0
  <2>2. PICK t \in tags : t = [name |-> d, version |-> Version(InitialTree, d),
                               pack |-> Pack(InitialTree, d)]
    BY <1>2, <2>1
  <2>3. t.name = d /\ t.version = Version(InitialTree, d)
    BY <2>2
  <2>4. PICK o \in oci : o = [image |-> Image(NxRegistry, t.name, t.version), pack |-> t.pack]
    BY <1>2
  <2>5. o.image = Image(InitialTree[d].comp.registry, d, InitialTree[d].comp.tag)
    BY <2>1, <2>3, <2>4
  <2> QED
    BY <2>5 DEF Published
<1> QED
  BY <1>6, <1>7, <1>8, <1>9, <1>10 DEF History

LEMMA HistoryKeeps ==
  ASSUME History, RunOK, [Next]_<<releaseVars, serverVars>>
  PROVE  History'
<1>1. CASE UNCHANGED releaseVars
  BY <1>1, SameHistory DEF releaseVars
<1>2. ASSUME NEW line, Send(line) PROVE History'
  BY <1>2, SameHistory DEF Send
<1> QED
  BY <1>1, <1>2, DispatchKeepsHistory, CommitKeepsHistory, TagKeepsHistory, PushKeepsHistory, PublishKeepsHistory,
     EndKeepsHistory DEF Next

LEMMA MainHistory == Spec => []History
<1>1. ReleaseInv => RunOK
  BY DEF ReleaseInv
<1> QED
  BY <1>1, ReleaseInitOK, ReleaseKeeps, InitHistory, HistoryKeeps, PTL DEF Spec

\* What main tells a cluster to pull is in the registry, or on its way there, or
\* reported failed, whatever is rejected, cancelled, retried or committed meanwhile.
THEOREM PinsAreServed == Spec => []PinsResolve
<1>1. History => PinsResolve
  BY DEF History
<1> QED
  BY <1>1, MainHistory, PTL

\* A change that a package's image would show gets the package a version and a tag.
THEOREM ChangesAreReleased == Spec => []NothingForgotten
<1>1. ASSUME History PROVE NothingForgotten
  <2> SUFFICES ASSUME NEW d \in Dirs, Releasable(main.tree, d),
                      trigger = NoRun, run.stage # "push", ~cut
               PROVE  Tagged(d)
    BY DEF NothingForgotten, Tagged
  <2>1. d \notin Affected(main)
    BY <1>1 DEF History, Quiet
  <2> QED
    BY <1>1, <2>1 DEF History, Fresh, Affected
<1>2. History => NothingForgotten
  BY <1>1
<1> QED
  BY <1>2, MainHistory, PTL

(***************************************************************************)
(* The findings about main.                                                *)
(***************************************************************************)

LEMMA SoundTreesDoNotDrift ==
  ASSUME NEW tree, TreeOK(tree), NEW c \in compositionFrom(tree)
  PROVE  ~Drifted(c)
<1>1. PICK d \in Dirs : /\ tree[d].comp # NoComp /\ c.pinnedTag = tree[d].comp.tag
                        /\ c.packageVersion = tree[d].mod.version
  BY DEF compositionFrom
<1>2. tree[d].comp.tag # 0 => tree[d].comp.tag = tree[d].mod.version
  BY <1>1 DEF TreeOK, PinsMatch, Pinned, Version
<1> QED
  BY <1>1, <1>2 DEF Drifted

\* No commit, release, rejected push or retry leaves main with a drifted pin.
THEOREM PinsDoNotDrift == Spec => []NoPinDrift
<1>1. History => NoPinDrift
  BY SoundTreesDoNotDrift DEF History, MainOK, NoPinDrift
<1> QED
  BY <1>1, MainHistory, PTL

(***************************************************************************)
(* What is published.  A package's registry imports, its own and those of what  *)
(* is vendored into it, are in the manifest that is pushed with it.           *)
(***************************************************************************)

\* Of indices of which something holds, there is a last one.
LEMMA LastIndex ==
  ASSUME NEW n \in Nat, NEW I \in SUBSET (1..n), I # {}
  PROVE  \E k \in I : \A j \in I : j <= k
<1> DEFINE T == {n - i : i \in I}
<1>0. \A i \in I : i \in Nat /\ n - i \in Nat
  OBVIOUS
<1>1. /\ T \subseteq Nat /\ T # {} /\ \A i \in I : n - i \in T
      /\ \A t \in T : \E i \in I : t = n - i
  BY <1>0
<1> HIDE DEF T
<1>2. PICK t \in T : \A s \in T : ~(<<s, t>> \in OpToRel(<, Nat))
  BY <1>1, WFMin, NatLessThanWellFounded
<1>3. \A s \in T : ~(s < t)
  BY <1>1, <1>2 DEF OpToRel
<1>4. PICK k \in I : t = n - k
  BY <1>1
<1>5. ASSUME NEW j \in I PROVE j <= k
  <2>1. ~(n - j < n - k) /\ j \in Nat /\ k \in Nat
    BY <1>0, <1>1, <1>3, <1>4
  <2> QED
    BY <2>1
<1> QED
  BY <1>5

\* The entries of the manifest that is pushed: the package's own, and those of what
\* is vendored into it that neither it nor a later one names.
LaterEntry(tree, path, i, name) ==
  \E j \in i + 1..Len(path) : \E e \in registryDeps(tree[path[j]].mod) : e.name = name
OwnEntry(tree, d, name) == \E o \in registryDeps(tree[d].mod) : o.name = name

LEMMA Entries ==
  ASSUME NEW tree, TreeOK(tree), NEW d \in Dirs, IsPackage(tree, d)
  PROVE  LET path == tree[d].mod.path IN
         \A x : x \in rewriteDeps(tree, d) <=>
           \/ x \in registryDeps(tree[d].mod)
           \/ \E i \in DOMAIN path : /\ x \in registryDeps(tree[path[i]].mod)
                                     /\ ~LaterEntry(tree, path, i, x.name)
                                     /\ ~OwnEntry(tree, d, x.name)
<1> DEFINE path == tree[d].mod.path
<1>1. \A i \in DOMAIN path : IsPackage(tree, path[i])
  BY PathsOfTree
<1>2. rewriteDeps(tree, d) = registryDeps(tree[d].mod)
        \cup UNION {{e \in registryDeps(tree[path[i]].mod) :
                       /\ ~LaterEntry(tree, path, i, e.name)
                       /\ \A o \in registryDeps(tree[d].mod) : o.name # e.name}
                      : i \in {k \in DOMAIN path : IsPackage(tree, path[k])}}
  BY DEF rewriteDeps, LaterEntry
<1> QED
  BY <1>1, <1>2 DEF OwnEntry

LEMMA PackSupplies ==
  ASSUME NEW tree, TreeOK(tree), NEW d \in Dirs, IsPackage(tree, d),
         NEW m \in DOMAIN Pack(tree, d).sources,
         NEW name \in Pack(tree, d).sources[m].imports \ Dirs
  PROVE  Supplied(Pack(tree, d), name)
<1> DEFINE path == tree[d].mod.path
           own == registryDeps(tree[d].mod)
           named == {e \in rewriteDeps(tree, d) : e.name = name}
<1>1. /\ m \in {d} \cup ToSet(path) /\ name \in Imports(tree, m)
      /\ Pack(tree, d).deps = rewriteDeps(tree, d)
  <2>1. PICK sources : sources = [x \in {d} \cup ToSet(path) |->
                         [code |-> tree[x].code, imports |-> Imports(tree, x)]]
    OBVIOUS
  <2>2. Pack(tree, d) = [sources |-> sources, deps |-> rewriteDeps(tree, d)]
    BY <2>1 DEF Pack
  <2>3. Pack(tree, d).sources = sources /\ Pack(tree, d).deps = rewriteDeps(tree, d)
    BY <2>2
  <2>4. m \in {d} \cup ToSet(path)
    BY <2>1, <2>3
  <2>5. sources[m].imports = Imports(tree, m)
    BY <2>1, <2>4
  <2> QED
    BY <2>3, <2>4, <2>5
<1>2. m \in Dirs /\ IsPackage(tree, m)
  BY <1>1, PathsOfTree DEF TreeOK, ModCheck
<1>3. PICK e \in registryDeps(tree[m].mod) : e.name = name
  <2>1. name \notin ToSet(tree[m].mod.path)
    BY <1>2, PathsOfTree
  <2> QED
    BY <1>1, <1>2, <2>1 DEF Imports
<1>4. \A c \in Dirs : IsPackage(tree, c) => NamesOnce(registryDeps(tree[c].mod))
  BY DEF TreeOK, registryDeps
<1>5. \A i \in DOMAIN path : NamesOnce(registryDeps(tree[path[i]].mod))
  BY <1>4, PathsOfTree
<1>6. \E x : named = {x}
  <2>1. CASE OwnEntry(tree, d, name)
    <3>1. PICK o \in own : o.name = name
      BY <2>1 DEF OwnEntry
    <3>2. \A x \in own : x.name = name => x = o
      BY <1>4, <3>1 DEF NamesOnce
    <3>3. named = {o}
      BY <2>1, <3>1, <3>2, Entries
    <3> QED
      BY <3>3
  <2>2. CASE ~OwnEntry(tree, d, name)
    <3> DEFINE I == {i \in DOMAIN path : \E x \in registryDeps(tree[path[i]].mod) : x.name = name}
    <3>1. I # {}
      <4>1. m \in ToSet(path)
        BY <1>1, <1>3, <2>2 DEF OwnEntry
      <4>2. \E i \in DOMAIN path : path[i] = m
        BY <4>1 DEF ToSet
      <4> QED
        BY <1>3, <4>2
    <3>2. DOMAIN path = 1..Len(path) /\ Len(path) \in Nat
      BY PathsOfTree
    <3>3. PICK k \in I : \A j \in I : j <= k
      BY <3>1, <3>2, LastIndex
    <3>4. PICK x \in registryDeps(tree[path[k]].mod) : x.name = name
      BY <3>3
    <3>5. ~LaterEntry(tree, path, k, name)
      <4>1. \A j \in k + 1..Len(path) : j \in DOMAIN path /\ ~(j <= k)
        BY <3>2, <3>3
      <4> QED
        BY <3>3, <4>1 DEF LaterEntry
    <3>6. ASSUME NEW i \in DOMAIN path, NEW y \in registryDeps(tree[path[i]].mod),
                 y.name = name, ~LaterEntry(tree, path, i, name)
          PROVE  y = x
      <4>1. i \in I /\ i <= k /\ i \in Nat /\ k \in Nat /\ k <= Len(path)
        BY <3>2, <3>3, <3>6
      <4>2. i = k
        <5>1. k \notin i + 1..Len(path)
          BY <3>3, <3>6 DEF LaterEntry
        <5> QED
          BY <3>2, <4>1, <5>1
      <4> QED
        BY <1>5, <3>4, <3>6, <4>2 DEF NamesOnce
    <3> HIDE DEF I
    <3>7. named = {x}
      <4>1. k \in DOMAIN path
        BY <3>3 DEF I
      <4>2. x \in rewriteDeps(tree, d)
        BY <2>2, <3>4, <3>5, <4>1, Entries
      <4>3. \A y \in named : y = x
        BY <2>2, <3>6, Entries DEF OwnEntry
      <4> QED
        BY <3>4, <4>2, <4>3
    <3> QED
      BY <3>7
  <2> QED
    BY <2>1, <2>2
<1>7. Cardinality(named) = 1
  BY <1>6, FS_Singleton
<1> QED
  BY <1>1, <1>7 DEF Supplied

\* What a tag was put on: a package of some tree main had.
Packed(t) ==
  \E tree : /\ TreeOK(tree) /\ t.name \in Dirs /\ IsPackage(tree, t.name)
            /\ t.pack = Pack(tree, t.name)
TagsArePacked == \A t \in tags : Packed(t)

LEMMA InitPacked == Init => TagsArePacked
<1> SUFFICES ASSUME Init, NEW t \in tags PROVE Packed(t)
  BY DEF TagsArePacked
<1>1. TreeOK(InitialTree)
  BY InitHistory DEF History, MainOK, Init, ReleaseInit
<1>2. PICK d \in Dirs : /\ Releasable(InitialTree, d)
        /\ t = [name |-> d, version |-> Version(InitialTree, d), pack |-> Pack(InitialTree, d)]
  BY DEF Init, ReleaseInit
<1>3. t.name = d /\ t.pack = Pack(InitialTree, d) /\ IsPackage(InitialTree, d)
  BY <1>2 DEF Releasable
<1> QED
  BY <1>1, <1>3 DEF Packed

LEMMA PackedKeeps ==
  ASSUME TagsArePacked, History, RunOK, [Next]_<<releaseVars, serverVars>>
  PROVE  TagsArePacked'
<1>1. CASE UNCHANGED tags
  BY <1>1 DEF TagsArePacked
<1>2. CASE PushMain /\ main.head = run.head
  <2>1. tags' = tags \cup Released(run) /\ main' = run.main
    BY <1>2 DEF PushMain
  <2>2. /\ TreeOK(run.main.tree)
        /\ \A d \in run.bumped : d \in Dirs /\ IsPackage(run.main.tree, d)
    BY <1>2, <2>1, AcceptedKeepsHistory DEF History, MainOK
  <2>3. ASSUME NEW t \in Released(run) PROVE Packed(t)
    <3>1. PICK d \in run.bumped :
            t = [name |-> d, version |-> Version(run.main.tree, d),
                 pack |-> Pack(run.main.tree, d)]
      BY DEF Released
    <3>2. t.name = d /\ t.pack = Pack(run.main.tree, d)
      BY <3>1
    <3> QED
      BY <2>2, <3>2 DEF Packed
  <2>4. \A t \in tags' : Packed(t)
    BY <2>1, <2>3 DEF TagsArePacked
  <2> QED
    BY <2>4 DEF TagsArePacked, Packed
<1>3. ~(PushMain /\ main.head = run.head) => UNCHANGED tags
  BY DEF Next, Commit, Dispatch, VersionAndTag, PushMain, kclPublishExecutor, Finish, Cancel, RetryPublish,
     Send, releaseVars
<1> QED
  BY <1>1, <1>2, <1>3

\* Every registry package an image imports is in its manifest, and once.
THEOREM ImagesResolve == Spec => []VendoredResolves
<1>1. ASSUME TagsArePacked, PublishedIsTagged PROVE VendoredResolves
  <2> SUFFICES ASSUME NEW o \in oci, NEW m \in DOMAIN o.pack.sources,
                      NEW name \in o.pack.sources[m].imports \ Dirs
               PROVE  Supplied(o.pack, name)
    BY DEF VendoredResolves
  <2>1. PICK t \in tags : t.pack = o.pack
    BY <1>1 DEF PublishedIsTagged
  <2>2. PICK tree, d : /\ TreeOK(tree) /\ d \in Dirs /\ IsPackage(tree, d)
                       /\ o.pack = Pack(tree, d)
    BY <1>1, <2>1 DEF TagsArePacked, Packed
  <2> QED
    BY <2>2, PackSupplies
<1>2. TagsArePacked /\ PublishedIsTagged => VendoredResolves
  BY <1>1
<1>3. ReleaseInv => RunOK
  BY DEF ReleaseInv
<1> QED
  BY <1>2, <1>3, InitPacked, PackedKeeps, MainHistory, ImagesAreTagged, ReleaseInitOK, ReleaseKeeps,
     PTL DEF Spec
=============================================================================
