--------------------------- MODULE RenderTaskProofs ---------------------------
(***************************************************************************)
(* What TLAPS proves about RenderTask, for any number of tasks, names, ports, *)
(* images and working trees.                                               *)
(***************************************************************************)
EXTENDS RenderTask, TLAPS

(***************************************************************************)
(* The inductive invariant.  A task that nobody disturbed knows, between its  *)
(* docker commands, what stands under its name; and a port answers for one     *)
(* container only, so what answers its render is that one.                   *)
(***************************************************************************)

OnePort ==
  \A n, k \in Names : n # k /\ Running(n) /\ Running(k) =>
    containers[n].port # containers[k].port

Right(s) == [image |-> s.options.image, root |-> s.options.root]

Fits(s, c) ==
  /\ c # NoContainer /\ c.state \in {"booting", "serving"}
  /\ c.image = s.options.image /\ c.root = s.options.root /\ c.port = s.options.port

TaskOK(s, c) ==
  /\ s.pc \in {"inspect", "rm", "run", "wait", "render"} => s.answer = Nothing
  /\ s.pc = "rm" => c # NoContainer
  /\ s.pc = "run" => c = NoContainer
  /\ s.pc \in {"wait", "render"} => Fits(s, c)
  /\ s.pc \in {"cleanup", "ok"} => s.answer \in {Nothing, Right(s)}
  /\ s.pc = "ok" => s.answer # Nothing

Inv ==
  /\ TypeOK /\ OnePort
  /\ \A t \in Tasks \ disturbed : TaskOK(task[t], containers[task[t].options.name])

\* Containers and the absence of one are told apart.
LEMMA Containment ==
  /\ \A c \in Containers : c # NoContainer
  /\ TypeOK => \A n \in Names : Exists(n) => containers[n] \in Containers
<1>1. ASSUME NEW c \in Containers PROVE c # NoContainer
  <2>1. DOMAIN c = {"image", "root", "port", "state"} /\ DOMAIN NoContainer = {"image"}
    BY DEF Containers, NoContainer
  <2> QED
    BY <2>1
<1> QED
  BY <1>1 DEF TypeOK, Exists

\* What a task record is, once it has been launched.
LEMMA Busy ==
  ASSUME TypeOK, NEW t \in Tasks, ~At(t, "idle")
  PROVE  /\ task[t] \in BusyTask /\ Opt(t) \in Options
         /\ Opt(t).name \in Names /\ Opt(t).port \in Ports
         /\ Opt(t).image \in Images /\ Opt(t).root \in Roots /\ Opt(t).keep \in BOOLEAN
<1>1. task[t] \in BusyTask
  BY DEF TypeOK, At, IdleTask
<1>2. Opt(t) \in [name: Names, port: Ports, image: Images, root: Roots, keep: BOOLEAN]
  BY <1>1, RenderAssumption DEF BusyTask, Opt
<1> QED
  BY <1>1, <1>2 DEF BusyTask, Opt

\* Docker commands keep the containers well typed and their ports apart.
LEMMA DockerKeeps ==
  ASSUME TypeOK, OnePort, NEW n \in Names
  PROVE  /\ Rm(n) => /\ containers' \in [Names -> Containers \cup {NoContainer}]
                     /\ OnePort'
         /\ \A image \in Images, root \in Roots, port \in Ports :
              Run(n, image, root, port) =>
                /\ containers' \in [Names -> Containers \cup {NoContainer}]
                /\ OnePort'
         /\ Boots(n) \/ Dies(n) => /\ containers' \in [Names -> Containers \cup {NoContainer}]
                                   /\ OnePort'
<1>1. containers \in [Names -> Containers \cup {NoContainer}]
  BY DEF TypeOK
<1>2. ASSUME Rm(n) PROVE containers' \in [Names -> Containers \cup {NoContainer}] /\ OnePort'
  <2>1. \A k \in Names : containers'[k] = IF k = n THEN NoContainer ELSE containers[k]
    BY <1>1, <1>2 DEF Rm, With
  <2> QED
    BY <1>1, <1>2, <2>1 DEF Rm, With, OnePort, Running, Exists
<1>3. ASSUME NEW image \in Images, NEW root \in Roots, NEW port \in Ports,
             Run(n, image, root, port)
      PROVE  containers' \in [Names -> Containers \cup {NoContainer}] /\ OnePort'
  <2>1. CASE Exists(n)
    BY <1>1, <1>3, <2>1 DEF Run, OnePort, Running, Exists
  <2>2. CASE ~Exists(n)
    <3>1. PICK new \in Containers :
            /\ containers' = [containers EXCEPT ![n] = new]
            /\ new.port = port
            /\ new.state = "booting" => ~PortOpen(port)
            /\ new.state \in {"created", "booting"}
      <4> DEFINE new == [image |-> image, root |-> root, port |-> port,
                         state |-> IF PortOpen(port) THEN "created" ELSE "booting"]
      <4>1. new \in Containers /\ containers' = [containers EXCEPT ![n] = new]
        BY <1>3, <2>2 DEF Run, With, Containers
      <4>2. /\ new.port = port /\ new.state \in {"created", "booting"}
            /\ new.state = "booting" => ~PortOpen(port)
        OBVIOUS
      <4> QED
        BY <4>1, <4>2, Zenon
    <3>2. /\ containers' \in [Names -> Containers \cup {NoContainer}]
          /\ \A k \in Names : containers'[k] = IF k = n THEN new ELSE containers[k]
      BY <1>1, <3>1
    <3>3. ASSUME NEW k \in Names, k # n, Running(k)', Running(n)'
          PROVE  containers'[k].port # containers'[n].port
      <4>1. Running(k) /\ new.state = "booting"
        BY <3>1, <3>2, <3>3 DEF Running, Exists
      <4> QED
        BY <3>1, <3>2, <3>3, <4>1 DEF PortOpen
    <3>4. \A k, j \in Names : k # n /\ j # n /\ k # j /\ Running(k)' /\ Running(j)' =>
            containers'[k].port # containers'[j].port
      BY <3>2 DEF OnePort, Running, Exists
    <3> QED
      BY <3>2, <3>3, <3>4 DEF OnePort
  <2> QED
    BY <2>1, <2>2
<1>4. ASSUME Boots(n) \/ Dies(n)
      PROVE  containers' \in [Names -> Containers \cup {NoContainer}] /\ OnePort'
  <2>1. PICK state \in {"serving", "exited"} :
          containers' = [containers EXCEPT ![n] = [containers[n] EXCEPT !.state = state]]
    BY <1>4 DEF Boots, Dies, With
  <2>2. containers[n] \in Containers /\ Running(n)
    BY <1>4, Containment DEF Boots, Dies, Running
  <2>3. PICK new \in Containers :
          /\ new = [containers[n] EXCEPT !.state = state] /\ new.port = containers[n].port
    <3>1. /\ [containers[n] EXCEPT !.state = state] \in Containers
          /\ [containers[n] EXCEPT !.state = state].port = containers[n].port
      BY <2>2 DEF Containers
    <3> QED
      BY <3>1, Zenon
  <2>4. /\ containers' \in [Names -> Containers \cup {NoContainer}]
        /\ \A k \in Names : containers'[k] = IF k = n THEN new ELSE containers[k]
    BY <1>1, <2>1, <2>3
  <2>5. \A k \in Names : Running(k)' => Running(k) /\ containers'[k].port = containers[k].port
    BY <2>2, <2>3, <2>4 DEF Running, Exists
  <2>6. ASSUME NEW k \in Names, NEW j \in Names, k # j, Running(k)', Running(j)'
        PROVE  containers'[k].port # containers'[j].port
    BY <2>5, <2>6 DEF OnePort
  <2>7. OnePort'
    BY <2>6 DEF OnePort, Running, Exists
  <2> QED
    BY <2>4, <2>7
<1> QED
  BY <1>2, <1>3, <1>4

(***************************************************************************)
(* Steps.                                                                  *)
(***************************************************************************)

LEMMA InitOK == Init => Inv
<1>1. ASSUME Init PROVE TypeOK /\ OnePort
  <2>1. [pc |-> "idle", answer |-> Nothing] \in IdleTask
    BY DEF IdleTask
  <2> QED
    BY <1>1, <2>1, RenderAssumption DEF Init, TypeOK, OnePort
<1>2. ASSUME Init, NEW t \in Tasks PROVE task[t].pc = "idle"
  BY <1>2 DEF Init
<1> QED
  BY <1>1, <1>2 DEF Inv, TaskOK

\* A change of one container leaves a task it did not disturb as it was.
LEMMA OthersStay ==
  ASSUME Inv, NEW who, NEW n, NEW port, NEW c,
         containers' = [containers EXCEPT ![n] = c], Disturbs(who, n, port),
         NEW u \in Tasks \ disturbed', u \notin who, task'[u] = task[u]
  PROVE  TaskOK(task'[u], containers'[task'[u].options.name])
<1>1. u \notin disturbed /\ ~Relies(u, n, port)
  BY DEF Disturbs
<1>2. TaskOK(task[u], containers[Opt(u).name])
  BY <1>1 DEF Inv, Opt
<1>3. CASE task[u].pc \in {"idle", "inspect"} \cup Ended
  BY <1>2, <1>3 DEF TaskOK, Ended
<1>4. CASE task[u].pc \notin {"idle", "inspect"} \cup Ended
  <2>1. Opt(u).name # n
    BY <1>1, <1>4 DEF Relies, At
  <2>2. Opt(u).name \in Names
    BY <1>4, Busy DEF At, Inv
  <2>3. containers'[Opt(u).name] = containers[Opt(u).name]
    BY <2>1, <2>2 DEF Inv, TypeOK
  <2> QED
    BY <1>2, <2>3 DEF Opt
<1> QED
  BY <1>3, <1>4

\* What a task's step must leave: a record, a world, and the task's own share of
\* the invariant; the others' share is their own.
LEMMA TaskStep ==
  ASSUME Inv, NEW t \in Tasks, NEW new \in BusyTask, task' = [task EXCEPT ![t] = new],
         containers' \in [Names -> Containers \cup {NoContainer}], OnePort',
         faults' \in 0..MaxFaults, disturbed' \subseteq Tasks,
         t \notin disturbed' => TaskOK(new, containers'[new.options.name]),
         \A u \in Tasks \ (disturbed' \cup {t}) :
           TaskOK(task'[u], containers'[task'[u].options.name])
  PROVE  Inv'
<1>1. task' \in [Tasks -> IdleTask \cup BusyTask] /\ task'[t] = new
  BY DEF Inv, TypeOK
<1>2. TypeOK'
  BY <1>1 DEF TypeOK, Containers
<1>3. \A u \in Tasks \ disturbed' : TaskOK(task'[u], containers'[task'[u].options.name])
  BY <1>1
<1> QED
  BY <1>2, <1>3 DEF Inv

\* The same, for a step that leaves docker alone.
LEMMA QuietStep ==
  ASSUME Inv, NEW t \in Tasks, NEW new \in BusyTask, task' = [task EXCEPT ![t] = new],
         UNCHANGED containers, faults' \in 0..MaxFaults, disturbed' \subseteq Tasks,
         disturbed \subseteq disturbed' \cup {t},
         t \notin disturbed' => TaskOK(new, containers[new.options.name])
  PROVE  Inv'
<1>1. containers' \in [Names -> Containers \cup {NoContainer}] /\ OnePort'
  BY DEF Inv, TypeOK, OnePort, Running, Exists
<1>2. \A u \in Tasks \ (disturbed' \cup {t}) :
        TaskOK(task'[u], containers'[task'[u].options.name])
  BY DEF Inv, TypeOK
<1> QED
  BY <1>1, <1>2, TaskStep

\* A step of the program counter.
LEMMA Moved ==
  ASSUME Inv, NEW t \in Tasks, ~At(t, "idle"), NEW pc, GoTo(t, pc),
         pc \in {"inspect", "rm", "run", "wait", "render", "cleanup"} \cup Ended
  PROVE  \E new \in BusyTask :
           /\ task' = [task EXCEPT ![t] = new] /\ new.pc = pc
           /\ new.options = Opt(t) /\ new.answer = task[t].answer
<1>1. task[t] \in BusyTask
  BY Busy DEF Inv
<1> DEFINE new == [task[t] EXCEPT !.pc = pc]
<1>2. new \in BusyTask /\ new.pc = pc /\ new.options = Opt(t) /\ new.answer = task[t].answer
  BY <1>1 DEF BusyTask, Opt
<1>3. task' = [task EXCEPT ![t] = new]
  BY DEF GoTo
<1> QED
  BY <1>2, <1>3, Zenon

LEMMA LaunchKeeps == ASSUME Inv, NEW t \in Tasks, kclRenderExecutor(t) PROVE Inv'
<1>1. PICK options \in Options, complete \in BOOLEAN :
        task' = [task EXCEPT ![t] =
                   [pc |-> IF complete THEN "inspect" ELSE "failed",
                    options |-> options, started |-> FALSE, answer |-> Nothing]]
  BY DEF kclRenderExecutor
<1>2. PICK new \in BusyTask :
        /\ task' = [task EXCEPT ![t] = new]
        /\ new.pc \in {"inspect", "failed"} /\ new.answer = Nothing
  <2> DEFINE new == [pc |-> IF complete THEN "inspect" ELSE "failed",
                     options |-> options, started |-> FALSE, answer |-> Nothing]
  <2>1. new \in BusyTask /\ new.pc \in {"inspect", "failed"} /\ new.answer = Nothing
    BY DEF BusyTask, Ended
  <2> QED
    BY <1>1, <2>1, Zenon
<1>3. TaskOK(new, containers[new.options.name])
  BY <1>2 DEF TaskOK
<1> QED
  BY <1>2, <1>3, QuietStep DEF kclRenderExecutor, Inv, TypeOK

LEMMA InspectKeeps == ASSUME Inv, NEW t \in Tasks, inspectContainer(t) PROVE Inv'
<1>1. PICK pc \in {"wait", "rm", "run"} :
        /\ GoTo(t, pc)
        /\ pc = "wait" => Usable(t)
        /\ pc = "rm" => Exists(Opt(t).name)
        /\ pc = "run" => ~Exists(Opt(t).name)
  BY DEF inspectContainer, Usable, Running
<1>2. ~At(t, "idle") /\ UNCHANGED <<containers, faults, disturbed>>
  BY DEF inspectContainer, At
<1>3. PICK new \in BusyTask :
        /\ task' = [task EXCEPT ![t] = new] /\ new.pc = pc
        /\ new.options = Opt(t) /\ new.answer = task[t].answer
  BY <1>1, <1>2, Moved
<1>4. t \notin disturbed => TaskOK(new, containers[new.options.name])
  <2>1. t \notin disturbed => new.answer = Nothing
    BY <1>3 DEF inspectContainer, At, Inv, TaskOK
  <2> QED
    BY <1>1, <1>3, <2>1 DEF TaskOK, Fits, Usable, Running, Exists
<1> QED
  BY <1>2, <1>3, <1>4, QuietStep DEF Inv, TypeOK

LEMMA RemoveKeeps == ASSUME Inv, NEW t \in Tasks, RemoveStale(t) PROVE Inv'
<1> DEFINE name == Opt(t).name
<1>1. /\ ~At(t, "idle") /\ task[t].pc = "rm" /\ faults' \in 0..MaxFaults
      /\ Disturbs({t}, name, PortOf(name)) /\ disturbed' \subseteq Tasks
  BY DEF RemoveStale, At, Inv, TypeOK, Disturbs
<1>2. PICK pc \in {"run", "failed"} :
        /\ GoTo(t, pc)
        /\ pc = "run" => Rm(name)
        /\ pc = "failed" => UNCHANGED containers
  BY DEF RemoveStale
<1>3. PICK new \in BusyTask :
        /\ task' = [task EXCEPT ![t] = new] /\ new.pc = pc
        /\ new.options = Opt(t) /\ new.answer = task[t].answer
  BY <1>1, <1>2, Moved DEF Ended
<1>4. name \in Names /\ disturbed \subseteq disturbed'
  BY <1>1, Busy DEF Inv, Disturbs
<1>5. t \notin disturbed => new.answer = Nothing
  BY <1>1, <1>3 DEF Inv, TaskOK
<1>6. CASE pc = "failed"
  <2>1. TaskOK(new, containers[new.options.name]) \/ t \in disturbed'
    BY <1>3, <1>6 DEF TaskOK
  <2> QED
    BY <1>1, <1>2, <1>3, <1>4, <1>6, <2>1, QuietStep
<1>7. CASE pc = "run"
  <2>1. /\ containers' \in [Names -> Containers \cup {NoContainer}] /\ OnePort'
        /\ containers' = [containers EXCEPT ![name] = NoContainer]
    BY <1>2, <1>4, <1>7, DockerKeeps DEF Inv, Rm, With
  <2>2. t \notin disturbed' => TaskOK(new, containers'[new.options.name])
    <3>1. containers'[name] = NoContainer
      BY <1>4, <2>1 DEF Inv, TypeOK
    <3> QED
      BY <1>3, <1>4, <1>5, <1>7, <3>1 DEF TaskOK
  <2>3. ASSUME NEW u \in Tasks \ (disturbed' \cup {t})
        PROVE  TaskOK(task'[u], containers'[task'[u].options.name])
    <3>1. task'[u] = task[u]
      BY <1>3 DEF Inv, TypeOK
    <3> QED
      BY <1>1, <2>1, <3>1, OthersStay
  <2> QED
    BY <1>1, <1>3, <2>1, <2>2, <2>3, TaskStep
<1> QED
  BY <1>6, <1>7

LEMMA StartKeeps == ASSUME Inv, NEW t \in Tasks, StartContainer(t) PROVE Inv'
<1> DEFINE name == Opt(t).name
           port == Opt(t).port
<1>1. /\ ~At(t, "idle") /\ task[t].pc = "run" /\ faults' \in 0..MaxFaults
      /\ Run(name, Opt(t).image, Opt(t).root, port)
  BY DEF StartContainer, At, Inv, TypeOK
<1>2. /\ task[t] \in BusyTask /\ name \in Names /\ port \in Ports
      /\ Opt(t).image \in Images /\ Opt(t).root \in Roots
  BY <1>1, Busy DEF Inv
<1>3. containers' \in [Names -> Containers \cup {NoContainer}] /\ OnePort'
  BY <1>1, <1>2, DockerKeeps DEF Inv
<1>4. PICK new \in BusyTask :
        /\ task' = [task EXCEPT ![t] = new]
        /\ new.pc = IF CanRun(name, port) THEN "wait" ELSE "failed"
        /\ new.options = Opt(t) /\ new.answer = task[t].answer
  <2>1. CASE CanRun(name, port)
    <3> DEFINE new == [task[t] EXCEPT !.pc = "wait", !.started = TRUE]
    <3>1. /\ new \in BusyTask /\ new.pc = "wait" /\ new.options = Opt(t)
          /\ new.answer = task[t].answer
      BY <1>2 DEF BusyTask, Opt
    <3>2. task' = [task EXCEPT ![t] = new]
      <4>1. task' = [task EXCEPT ![t].pc = "wait", ![t].started = TRUE]
        BY <2>1 DEF StartContainer
      <4>2. task \in [Tasks -> IdleTask \cup BusyTask]
        BY DEF Inv, TypeOK
      <4> QED
        BY <4>1, <4>2
    <3> QED
      BY <2>1, <3>1, <3>2, Zenon
  <2>2. CASE ~CanRun(name, port)
    BY <1>1, <2>2, Moved DEF StartContainer, Ended
  <2> QED
    BY <2>1, <2>2
<1>5. /\ t \notin disturbed => new.answer = Nothing
      /\ disturbed \subseteq disturbed' /\ disturbed' \subseteq Tasks
  BY <1>1, <1>4 DEF Inv, TypeOK, TaskOK, StartContainer, Disturbs
<1>6. t \notin disturbed' => TaskOK(new, containers'[new.options.name])
  <2>1. CASE CanRun(name, port)
    <3>1. containers' = [containers EXCEPT ![name] =
            [image |-> Opt(t).image, root |-> Opt(t).root, port |-> port,
             state |-> "booting"]]
      BY <1>1, <2>1 DEF Run, CanRun, With
    <3>2. containers'[name] = [image |-> Opt(t).image, root |-> Opt(t).root,
                               port |-> port, state |-> "booting"]
      BY <1>2, <3>1 DEF Inv, TypeOK
    <3>3. containers'[name] # NoContainer
      <4>1. containers'[name] \in Containers
        BY <1>2, <3>2 DEF Containers
      <4> QED
        BY <4>1, Containment
    <3>4. Fits(new, containers'[name])
      BY <1>4, <3>2, <3>3 DEF Fits
    <3> QED
      BY <1>4, <1>5, <2>1, <3>4 DEF TaskOK
  <2>2. CASE ~CanRun(name, port)
    BY <1>4, <2>2 DEF TaskOK
  <2> QED
    BY <2>1, <2>2
<1>7. ASSUME NEW u \in Tasks \ (disturbed' \cup {t})
      PROVE  TaskOK(task'[u], containers'[task'[u].options.name])
  <2>1. task'[u] = task[u]
    BY <1>4 DEF Inv, TypeOK
  <2>2. CASE Exists(name)
    BY <1>1, <2>1, <2>2, <1>5 DEF Run, Inv
  <2>3. CASE ~Exists(name)
    <3>1. PICK c : containers' = [containers EXCEPT ![name] = c]
      BY <1>1, <2>3 DEF Run, With
    <3>2. Disturbs({t}, name, port)
      BY <2>3 DEF StartContainer
    <3> QED
      BY <2>1, <3>1, <3>2, OthersStay
  <2> QED
    BY <2>2, <2>3
<1> QED
  BY <1>1, <1>3, <1>4, <1>5, <1>6, <1>7, TaskStep

LEMMA WaitKeeps == ASSUME Inv, NEW t \in Tasks, waitForPort(t) PROVE Inv'
<1>1. ~At(t, "idle") /\ task[t].pc = "wait" /\ UNCHANGED <<containers, faults, disturbed>>
  BY DEF waitForPort, At
<1>2. PICK pc \in {"render", "failed"} : GoTo(t, pc)
  BY DEF waitForPort
<1>3. PICK new \in BusyTask :
        /\ task' = [task EXCEPT ![t] = new] /\ new.pc = pc
        /\ new.options = Opt(t) /\ new.answer = task[t].answer
  BY <1>1, <1>2, Moved DEF Ended
<1>4. t \notin disturbed => TaskOK(new, containers[new.options.name])
  BY <1>1, <1>2, <1>3 DEF Inv, TaskOK, Fits, Opt
<1> QED
  BY <1>1, <1>3, <1>4, QuietStep DEF Inv, TypeOK

\* The only container that can answer on an undisturbed task's port is its own.
LEMMA OwnAnswer ==
  ASSUME Inv, NEW t \in Tasks \ disturbed, task[t].pc = "render",
         NEW n \in Answering(Opt(t).port)
  PROVE  containers[n].image = Opt(t).image /\ containers[n].root = Opt(t).root
<1>1. Fits(task[t], containers[Opt(t).name])
  BY DEF Inv, TaskOK, Opt
<1>2. Opt(t).name \in Names
  BY Busy DEF Inv, At
<1>3. Running(Opt(t).name) /\ containers[Opt(t).name].port = Opt(t).port
  BY <1>1 DEF Fits, Running, Exists, Opt
<1>4. n \in Names /\ Running(n) /\ containers[n].port = Opt(t).port
  BY DEF Answering, Running
<1>5. n = Opt(t).name
  BY <1>2, <1>3, <1>4 DEF Inv, OnePort
<1> QED
  BY <1>1, <1>5 DEF Fits, Opt

LEMMA RenderKeeps == ASSUME Inv, NEW t \in Tasks, Render(t) PROVE Inv'
<1>1. ~At(t, "idle") /\ task[t].pc = "render" /\ UNCHANGED <<containers, faults, disturbed>>
  BY DEF Render, At
<1>2. task[t] \in BusyTask /\ task \in [Tasks -> IdleTask \cup BusyTask]
  BY <1>1, Busy DEF Inv, TypeOK
<1>3. CASE GoTo(t, "cleanup")
  <2>1. PICK new \in BusyTask :
          /\ task' = [task EXCEPT ![t] = new] /\ new.pc = "cleanup"
          /\ new.options = Opt(t) /\ new.answer = task[t].answer
    BY <1>1, <1>3, Moved
  <2>2. t \notin disturbed => TaskOK(new, containers[new.options.name])
    BY <1>1, <2>1 DEF Inv, TaskOK
  <2> QED
    BY <1>1, <2>1, <2>2, QuietStep DEF Inv, TypeOK
<1>4. ASSUME NEW n \in Answering(Opt(t).port),
             task' = [task EXCEPT ![t].pc = "cleanup",
                        ![t].answer = [image |-> containers[n].image,
                                       root |-> containers[n].root]]
      PROVE  Inv'
  <2>1. n \in Names /\ containers[n] \in Containers
    BY Containment DEF Answering, Inv
  <2>2. PICK answer \in Answers :
          answer = [image |-> containers[n].image, root |-> containers[n].root]
    BY <2>1 DEF Answers, Containers
  <2> DEFINE new == [task[t] EXCEPT !.pc = "cleanup", !.answer = answer]
  <2>3. /\ new \in BusyTask /\ new.pc = "cleanup" /\ new.options = Opt(t)
        /\ new.answer = answer
    BY <1>2, <2>2 DEF BusyTask, Opt
  <2>4. task' = [task EXCEPT ![t] = new]
    <3>1. task' = [task EXCEPT ![t].pc = "cleanup", ![t].answer = answer]
      BY <1>4, <2>2
    <3> QED
      BY <1>2, <3>1
  <2> HIDE DEF new
  <2>5. t \notin disturbed => answer = Right(new)
    BY <1>1, <2>2, <2>3, OwnAnswer DEF Right
  <2>6. t \notin disturbed => TaskOK(new, containers[new.options.name])
    BY <2>3, <2>5 DEF TaskOK
  <2> QED
    BY <1>1, <2>3, <2>4, <2>6, QuietStep DEF Inv, TypeOK
<1> QED
  BY <1>3, <1>4 DEF Render

LEMMA CleanupKeeps == ASSUME Inv, NEW t \in Tasks, Cleanup(t) PROVE Inv'
<1> DEFINE name == Opt(t).name
<1>1. ~At(t, "idle") /\ task[t].pc = "cleanup" /\ faults' \in 0..MaxFaults
  BY DEF Cleanup, At, Inv, TypeOK
<1>2. PICK pc \in {"ok", "failed"} :
        GoTo(t, pc) /\ (pc = "ok" => task[t].answer # Nothing)
  BY DEF Cleanup, Verdict
<1>3. PICK new \in BusyTask :
        /\ task' = [task EXCEPT ![t] = new] /\ new.pc = pc
        /\ new.options = Opt(t) /\ new.answer = task[t].answer
  BY <1>1, <1>2, Moved DEF Ended
<1>4. name \in Names
  BY <1>1, Busy DEF Inv
<1>5. ASSUME NEW c, t \notin disturbed PROVE TaskOK(new, c)
  <2>1. task[t].answer \in {Nothing, Right(task[t])} /\ Right(new) = Right(task[t])
    BY <1>1, <1>3, <1>5 DEF Inv, TaskOK, Right, Opt
  <2> QED
    BY <1>2, <1>3, <2>1 DEF TaskOK
<1>6. CASE Opt(t).keep
  <2>1. UNCHANGED <<containers, disturbed, faults>>
    BY <1>6 DEF Cleanup
  <2> QED
    BY <1>1, <1>3, <1>5, <2>1, QuietStep DEF Inv, TypeOK
<1>7. CASE ~Opt(t).keep
  <2>1. Rm(name) /\ Disturbs({t}, name, PortOf(name))
    BY <1>7 DEF Cleanup
  <2>2. /\ containers' \in [Names -> Containers \cup {NoContainer}] /\ OnePort'
        /\ containers' = [containers EXCEPT ![name] = NoContainer]
        /\ disturbed \subseteq disturbed' /\ disturbed' \subseteq Tasks
    BY <1>4, <2>1, DockerKeeps DEF Inv, TypeOK, Rm, With, Disturbs
  <2>3. ASSUME NEW u \in Tasks \ (disturbed' \cup {t})
        PROVE  TaskOK(task'[u], containers'[task'[u].options.name])
    <3>1. task'[u] = task[u]
      BY <1>3 DEF Inv, TypeOK
    <3> QED
      BY <2>1, <2>2, <3>1, OthersStay
  <2> QED
    BY <1>1, <1>3, <1>5, <2>2, <2>3, TaskStep
<1> QED
  BY <1>6, <1>7

LEMMA FaultKeeps ==
  ASSUME Inv, NEW t \in Tasks, CommandFails(t) \/ Kill(t)
  PROVE  Inv'
<1>1. /\ ~At(t, "idle") /\ UNCHANGED containers /\ disturbed' = disturbed \cup {t}
      /\ faults' \in 0..MaxFaults
  BY RenderAssumption DEF CommandFails, Kill, At, Inv, TypeOK
<1>2. PICK pc \in {"run", "cleanup", "failed"} : GoTo(t, pc)
  BY DEF CommandFails, Kill
<1>3. PICK new \in BusyTask : task' = [task EXCEPT ![t] = new]
  BY <1>1, <1>2, Moved DEF Ended
<1> QED
  BY <1>1, <1>3, QuietStep DEF Inv, TypeOK

LEMMA DieKeeps == ASSUME Inv, NEW n \in Names, ContainerDies(n) PROVE Inv'
<1>1. /\ Dies(n) /\ UNCHANGED task /\ faults' \in 0..MaxFaults
      /\ Disturbs({}, n, containers[n].port) /\ disturbed' \subseteq Tasks
  BY RenderAssumption DEF ContainerDies, Inv, TypeOK, Disturbs
<1>2. /\ containers' \in [Names -> Containers \cup {NoContainer}] /\ OnePort'
      /\ containers' = [containers EXCEPT ![n] = [containers[n] EXCEPT !.state = "exited"]]
  BY <1>1, DockerKeeps DEF Inv, Dies, With
<1>3. ASSUME NEW u \in Tasks \ disturbed'
      PROVE  TaskOK(task'[u], containers'[task'[u].options.name])
  <2>1. task'[u] = task[u] /\ u \notin {}
    BY <1>1
  <2>2. PICK c : containers' = [containers EXCEPT ![n] = c]
    BY <1>2
  <2> QED
    BY <1>1, <2>1, <2>2, OthersStay
<1>4. TypeOK'
  BY <1>1, <1>2 DEF Inv, TypeOK
<1> QED
  BY <1>2, <1>3, <1>4 DEF Inv

LEMMA BootKeeps == ASSUME Inv, NEW n \in Names, ContainerBoots(n) PROVE Inv'
<1>1. Boots(n) /\ UNCHANGED <<task, faults, disturbed>>
  BY DEF ContainerBoots
<1>2. /\ containers' \in [Names -> Containers \cup {NoContainer}] /\ OnePort'
      /\ containers' = [containers EXCEPT ![n] = [containers[n] EXCEPT !.state = "serving"]]
  BY <1>1, DockerKeeps DEF Inv, Boots, With
<1>3. /\ containers[n] \in Containers
      /\ \A k \in Names \ {n} : containers'[k] = containers[k]
      /\ containers'[n] = [containers[n] EXCEPT !.state = "serving"]
  BY <1>1, <1>2, Containment DEF Inv, TypeOK, Boots, Running
<1>4. /\ containers'[n] \in Containers /\ containers'[n].image = containers[n].image
      /\ containers'[n].root = containers[n].root /\ containers'[n].port = containers[n].port
      /\ containers'[n].state = "serving"
  BY <1>3 DEF Containers
<1>5. containers[n] # NoContainer /\ containers'[n] # NoContainer
  BY <1>3, <1>4, Containment
<1>6. ASSUME NEW u \in Tasks \ disturbed
      PROVE  TaskOK(task[u], containers'[task[u].options.name])
  <2>1. TaskOK(task[u], containers[task[u].options.name])
    BY DEF Inv
  <2>2. CASE task[u].pc \in {"idle", "inspect"} \cup Ended \cup {"cleanup"}
    BY <2>1, <2>2 DEF TaskOK, Ended
  <2>3. CASE task[u].pc \notin {"idle", "inspect"} \cup Ended \cup {"cleanup"}
    <3>1. Opt(u).name \in Names
      BY <2>3, Busy DEF Inv, At
    <3>2. CASE Opt(u).name = n
      BY <1>4, <1>5, <2>1, <3>2 DEF TaskOK, Fits, Opt
    <3>3. CASE Opt(u).name # n
      BY <1>3, <2>1, <3>1, <3>3 DEF Opt
    <3> QED
      BY <3>2, <3>3
  <2> QED
    BY <2>2, <2>3
<1>7. TypeOK'
  BY <1>1, <1>2 DEF Inv, TypeOK
<1> QED
  BY <1>1, <1>2, <1>6, <1>7 DEF Inv

LEMMA NextKeeps == ASSUME Inv, [Next]_vars PROVE Inv'
<1>1. CASE UNCHANGED vars
  BY <1>1 DEF vars, Inv, TypeOK, OnePort, Running, Exists
<1>2. CASE Next
  BY <1>2, LaunchKeeps, InspectKeeps, RemoveKeeps, StartKeeps, WaitKeeps, RenderKeeps,
     CleanupKeeps, FaultKeeps, DieKeeps, BootKeeps DEF Next, Step
<1> QED
  BY <1>1, <1>2

LEMMA InvHolds == Spec => []Inv
BY InitOK, NextKeeps, PTL DEF Spec

(***************************************************************************)
(* The theorems.                                                           *)
(***************************************************************************)

\* A render nobody got in the way of was answered by a container that serves its
\* working tree from its image, whatever stood under the name before.
THEOREM RendersAreOwn == Spec => []RendersOwnTree
<1>1. Inv => RendersOwnTree
  BY DEF Inv, TaskOK, RendersOwnTree, At, Right, Opt
<1> QED
  BY <1>1, InvHolds, PTL

\* Nothing that earlier tasks left behind stops a task before its render.
THEOREM LeftoversAreHarmless == Spec => LeftoversNeverBlock
<1> DEFINE Unblocked ==
      \A t \in Tasks :
        /\ task[t].pc \in {"inspect", "rm", "run", "wait"}
        /\ task'[t].pc = "failed"
        => \/ t \in disturbed'
           \/ \E n \in Names \ {Opt(t).name} :
                Running(n) /\ containers[n].port = Opt(t).port
<1>1. ASSUME Inv, [Next]_vars, NEW t \in Tasks,
             task[t].pc \in {"inspect", "rm", "run", "wait"}, task'[t].pc = "failed",
             t \notin disturbed'
      PROVE  \E n \in Names \ {Opt(t).name} :
               Running(n) /\ containers[n].port = Opt(t).port
  <2>1. /\ task \in [Tasks -> IdleTask \cup BusyTask] /\ task'[t] # task[t]
        /\ ~At(t, "idle") /\ Opt(t).name \in Names
    BY <1>1, Busy DEF Inv, TypeOK, At
  <2>2. ~(\E n \in Names : ContainerBoots(n) \/ ContainerDies(n)) /\ Next
    BY <1>1, <2>1 DEF ContainerBoots, ContainerDies, vars
  <2>3. PICK u \in Tasks : kclRenderExecutor(u) \/ Step(u) \/ CommandFails(u) \/ Kill(u)
    BY <2>2 DEF Next
  <2>4. \E new : task' = [task EXCEPT ![u] = new]
    BY <2>1, <2>3 DEF kclRenderExecutor, Step, CommandFails, Kill, inspectContainer,
       RemoveStale, StartContainer, waitForPort, Render, Cleanup, GoTo
  <2>5. u = t
    BY <2>1, <2>4
  <2>6. inspectContainer(t) \/ RemoveStale(t) \/ StartContainer(t) \/ waitForPort(t)
    BY <1>1, <2>3, <2>5 DEF kclRenderExecutor, Step, CommandFails, Kill, Render, Cleanup, At
  <2>7. t \notin disturbed
    BY <1>1, <2>6 DEF inspectContainer, RemoveStale, StartContainer, waitForPort, Disturbs
  <2>8. TaskOK(task[t], containers[Opt(t).name])
    BY <1>1, <2>7 DEF Inv, Opt
  <2>9. ASSUME NEW pc, GoTo(t, pc), task[t] \in BusyTask PROVE task'[t].pc = pc
    BY <2>1, <2>9 DEF GoTo, BusyTask
  <2>10. task[t] \in BusyTask
    BY <1>1, <2>1, Busy DEF Inv
  <2>11. ~inspectContainer(t)
    BY <1>1, <2>9, <2>10 DEF inspectContainer
  <2>12. ~RemoveStale(t)
    BY <1>1, <2>8, <2>9, <2>10 DEF RemoveStale, TaskOK, At, Exists
  <2>13. ~waitForPort(t)
    BY <1>1, <2>1, <2>8, <2>9, <2>10
    DEF waitForPort, TaskOK, At, Fits, PortOpen, Running, Exists, Opt
  <2>14. StartContainer(t) /\ containers[Opt(t).name] = NoContainer
    BY <2>6, <2>8, <2>11, <2>12, <2>13 DEF StartContainer, TaskOK, At
  <2>15. ~CanRun(Opt(t).name, Opt(t).port)
    <3>1. CASE CanRun(Opt(t).name, Opt(t).port)
      <4>1. task' = [task EXCEPT ![t].pc = "wait", ![t].started = TRUE]
        BY <2>14, <3>1 DEF StartContainer
      <4>2. task'[t].pc = "wait"
        BY <2>1, <2>10, <4>1 DEF BusyTask
      <4> QED
        BY <1>1, <4>2
    <3> QED
      BY <3>1
  <2> QED
    BY <2>14, <2>15 DEF CanRun, PortOpen, Running, Exists
<1>2. ASSUME Inv, [Next]_vars PROVE Unblocked
  BY <1>1, <1>2
<1>3. Inv /\ [Next]_vars => [Unblocked]_vars
  BY <1>2
<1> QED
  BY <1>3, InvHolds, PTL DEF Spec, LeftoversNeverBlock

=============================================================================
