------------------------------ MODULE RenderTask ------------------------------
(***************************************************************************)
(* tools/nx-kcl/src/render/render-executor.ts: render tasks, of one nx run   *)
(* or of several working trees, which share function containers by name.     *)
(* Each docker command, each wait and the crossplane process is a step.      *)
(*                                                                         *)
(* The files a project needs are one verdict; which example XR is rendered   *)
(* and how composition and functions manifest are rewritten are left out.    *)
(***************************************************************************)
EXTENDS DockerHost

CONSTANTS
  Tasks,
  Options,    \* what a task may be run with: name, port, image, keepContainer,
              \* and the working tree it belongs to
  MaxFaults   \* bound: failures that are nobody's doing in this module

ASSUME RenderAssumption ==
  /\ Options \subseteq [name: Names, port: Ports, image: Images, root: Roots,
                        keep: BOOLEAN]
  /\ MaxFaults \in Nat

VARIABLES
  task,       \* the executors: pc, options, whether one started the container,
              \* and what answered its render
  faults,
  disturbed   \* tasks whose container or port somebody touched since they
              \* looked at it (history)

vars == <<containers, task, faults, disturbed>>

Nothing == [image |-> "none", root |-> "none"]
Ended == {"ok", "failed"}
Opt(t) == task[t].options

At(t, pc) == task[t].pc = pc
GoTo(t, pc) == task' = [task EXCEPT ![t].pc = pc]

\* Whoever changes a container disturbs the tasks that rely on it.
Relies(u, name, port) ==
  /\ ~At(u, "idle") /\ ~At(u, "inspect") /\ task[u].pc \notin Ended
  /\ Opt(u).name = name \/ Opt(u).port = port
Disturbs(who, name, port) ==
  disturbed' = disturbed \cup {u \in Tasks \ who : Relies(u, name, port)}
PortOf(name) == IF Exists(name) THEN containers[name].port
                ELSE CHOOSE p \in Ports : TRUE

-----------------------------------------------------------------------------
(* The executor.                                                           *)

\* Everything a project can lack is found before docker is touched.
kclRenderExecutor(t) ==
  /\ At(t, "idle")
  /\ \E options \in Options, complete \in BOOLEAN :
       task' = [task EXCEPT ![t] =
                  [pc |-> IF complete THEN "inspect" ELSE "failed",
                   options |-> options, started |-> FALSE, answer |-> Nothing]]
  /\ disturbed' = disturbed \ {t}
  /\ UNCHANGED <<containers, faults>>

\* docker inspect: reuse, replace, or start.
UsableRunning(t) == Running(Opt(t).name)
Usable(t) ==
  /\ Running(Opt(t).name)
  /\ containers[Opt(t).name].image = Opt(t).image
  /\ containers[Opt(t).name].root = Opt(t).root
  /\ containers[Opt(t).name].port = Opt(t).port

inspectRunning(t) ==
  /\ At(t, "inspect")
  /\ GoTo(t, CASE Usable(t) -> "wait"
               [] Running(Opt(t).name) /\ ~Usable(t) -> "rm"
               [] OTHER -> "run")
  /\ UNCHANGED <<containers, faults, disturbed>>
inspectContainer(t) ==
  /\ At(t, "inspect")
  /\ GoTo(t, CASE Usable(t) -> "wait"
               [] Exists(Opt(t).name) /\ ~Usable(t) -> "rm"
               [] OTHER -> "run")
  /\ UNCHANGED <<containers, faults, disturbed>>

\* docker rm -f of what was found.  Another task may have removed it since:
\* whether that is an error depends on the docker release.
RemoveStale(t) ==
  /\ At(t, "rm")
  /\ \/ Rm(Opt(t).name) /\ GoTo(t, "run")
     \/ ~Exists(Opt(t).name) /\ GoTo(t, "failed") /\ UNCHANGED containers
  /\ Disturbs({t}, Opt(t).name, PortOf(Opt(t).name))
  /\ UNCHANGED faults

\* docker run
StartContainer(t) ==
  /\ At(t, "run")
  /\ Run(Opt(t).name, Opt(t).image, Opt(t).root, Opt(t).port)
  /\ IF CanRun(Opt(t).name, Opt(t).port)
     THEN task' = [task EXCEPT ![t].pc = "wait", ![t].started = TRUE]
     ELSE GoTo(t, "failed")
  /\ IF Exists(Opt(t).name) THEN UNCHANGED disturbed
     ELSE Disturbs({t}, Opt(t).name, Opt(t).port)
  /\ UNCHANGED faults

\* A connect to the port succeeds, or none has for thirty seconds.
waitForPort(t) ==
  /\ At(t, "wait")
  /\ IF PortOpen(Opt(t).port) THEN GoTo(t, "render") ELSE GoTo(t, "failed")
  /\ UNCHANGED <<containers, faults, disturbed>>

\* crossplane render calls whatever answers on the port; with nothing there yet
\* it may still get through later, or give up.
Render(t) ==
  /\ At(t, "render")
  /\ \/ \E n \in Answering(Opt(t).port) :
          task' = [task EXCEPT ![t].pc = "cleanup",
                     ![t].answer = [image |-> containers[n].image,
                                    root |-> containers[n].root]]
     \/ Answering(Opt(t).port) = {} /\ GoTo(t, "cleanup")
  /\ UNCHANGED <<containers, faults, disturbed>>

\* finally: keepContainer: false removes the container, whoever started it.
Verdict(t) == IF task[t].answer = Nothing THEN "failed" ELSE "ok"
Cleanup(t) ==
  /\ At(t, "cleanup")
  /\ IF Opt(t).keep
     THEN GoTo(t, Verdict(t)) /\ UNCHANGED <<containers, disturbed>>
     ELSE /\ Rm(Opt(t).name)
          /\ Disturbs({t}, Opt(t).name, PortOf(Opt(t).name))
          /\ \/ GoTo(t, Verdict(t))
             \/ ~Exists(Opt(t).name) /\ GoTo(t, "failed")
  /\ UNCHANGED faults

-----------------------------------------------------------------------------
(* Failures: a docker command or the render itself, a killed task, a         *)
(* container that dies.                                                    *)

\* An inspect that fails is taken for a name that is free.
CommandFails(t) ==
  /\ task[t].pc \in {"inspect", "rm", "run", "render", "cleanup"} /\ faults < MaxFaults
  /\ GoTo(t, CASE At(t, "inspect") -> "run"
               [] At(t, "render") -> "cleanup"
               [] OTHER -> "failed")
  /\ faults' = faults + 1 /\ disturbed' = disturbed \cup {t}
  /\ UNCHANGED containers

Kill(t) ==
  /\ task[t].pc \notin Ended \cup {"idle"} /\ faults < MaxFaults
  /\ GoTo(t, "failed")
  /\ faults' = faults + 1 /\ disturbed' = disturbed \cup {t}
  /\ UNCHANGED containers

ContainerDies(n) ==
  /\ Dies(n) /\ faults < MaxFaults /\ faults' = faults + 1
  /\ Disturbs({}, n, containers[n].port)
  /\ UNCHANGED task

ContainerBoots(n) == Boots(n) /\ UNCHANGED <<task, faults, disturbed>>

-----------------------------------------------------------------------------
Init ==
  /\ containers \in [Names -> Containers \cup {NoContainer}]
  /\ \A n, k \in Names : n # k /\ Running(n) /\ Running(k) =>
       containers[n].port # containers[k].port
  /\ task = [t \in Tasks |-> [pc |-> "idle", answer |-> Nothing]]
  /\ faults = 0 /\ disturbed = {}

Step(t) ==
  \/ inspectContainer(t) \/ RemoveStale(t) \/ StartContainer(t)
  \/ waitForPort(t) \/ Render(t) \/ Cleanup(t)

Next ==
  \/ \E t \in Tasks : kclRenderExecutor(t) \/ Step(t) \/ CommandFails(t) \/ Kill(t)
  \/ \E n \in Names : ContainerBoots(n) \/ ContainerDies(n)

Spec == Init /\ [][Next]_vars

Answers == [image: Images, root: Roots]
IdleTask == [pc: {"idle"}, answer: {Nothing}]
BusyTask == [pc: {"inspect", "rm", "run", "wait", "render", "cleanup"} \cup Ended,
             options: Options, started: BOOLEAN, answer: Answers \cup {Nothing}]

TypeOK ==
  /\ containers \in [Names -> Containers \cup {NoContainer}]
  /\ task \in [Tasks -> IdleTask \cup BusyTask]
  /\ faults \in 0..MaxFaults
  /\ disturbed \subseteq Tasks

\* A render nobody got in the way of was answered by a container that serves
\* its working tree from its image, whatever container was found under the name
\* (ensureFunctionContainer: "reusing an existing one when it already serves
\* this workspace from the same image and port").
RendersOwnTree ==
  \A t \in Tasks : At(t, "ok") /\ t \notin disturbed =>
    task[t].answer = [image |-> Opt(t).image, root |-> Opt(t).root]

\* Nothing left behind by earlier tasks stops one before its render: only a
\* concurrent task, a failure, or a container of another name on its port does.
LeftoversNeverBlock ==
  [][\A t \in Tasks :
       /\ task[t].pc \in {"inspect", "rm", "run", "wait"}
       /\ task'[t].pc = "failed"
       => \/ t \in disturbed'
          \/ \E n \in Names \ {Opt(t).name} :
               Running(n) /\ containers[n].port = Opt(t).port]_vars
=============================================================================
