------------------------------ MODULE DockerHost ------------------------------
(***************************************************************************)
(* The docker daemon as tools/nx-kcl and tools/bench use it: named           *)
(* containers that publish one port of the host.  It is external; what a     *)
(* command does is what the tools' calls and their error handling rely on.   *)
(***************************************************************************)
EXTENDS Naturals

CONSTANTS Names, Ports, Images, Roots

VARIABLE containers   \* name -> container, or NoContainer

\* "created": docker run could not publish its port; "booting": the port is
\* published and nothing listens behind it yet; then "serving" or "exited".
Containers == [image: Images, root: Roots, port: Ports,
               state: {"created", "booting", "serving", "exited"}]
NoContainer == [image |-> "none"]

Exists(name) == containers[name] # NoContainer
Running(name) == Exists(name) /\ containers[name].state \in {"booting", "serving"}
PortOpen(port) == \E n \in Names : Running(n) /\ containers[n].port = port
Answering(port) == {n \in Names : /\ Exists(n) /\ containers[n].port = port
                                  /\ containers[n].state = "serving"}

With(name, c) == containers' = [containers EXCEPT ![name] = c]

\* docker rm -f
Rm(name) == With(name, NoContainer)

\* docker run: refused while the name is taken; a port that is taken leaves a
\* container behind that never starts.
CanRun(name, port) == ~Exists(name) /\ ~PortOpen(port)
Run(name, image, root, port) ==
  IF Exists(name) THEN UNCHANGED containers
  ELSE With(name, [image |-> image, root |-> root, port |-> port,
                   state |-> IF PortOpen(port) THEN "created" ELSE "booting"])

\* The function inside comes up, or its container dies.
Boots(name) == /\ Running(name) /\ containers[name].state = "booting"
               /\ With(name, [containers[name] EXCEPT !.state = "serving"])
Dies(name) == /\ Running(name)
              /\ With(name, [containers[name] EXCEPT !.state = "exited"])
=============================================================================
