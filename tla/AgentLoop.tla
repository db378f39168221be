------------------------------ MODULE AgentLoop ------------------------------
(***************************************************************************)
(* One run of rust/crates/kcl-agent: the loop of Agent::run (agent.rs), the *)
(* model endpoint it asks (llm.rs) and the toolbox whose calls it runs       *)
(* (tools.rs), on a cluster that others change meanwhile.                  *)
(*                                                                         *)
(* Every await is a step: a model turn, and each tool call of a reply.  Runs *)
(* share nothing but the cluster, so a second run is one more of the others.  *)
(*                                                                         *)
(* The six reading tools and the two dry runs are one tool, "read": they    *)
(* change nothing, and answer or fail.  A model may ask for any tool at any  *)
(* time, offered or not.  An object is there or not; its content is left out. *)
(* A blank task, which is refused before the loop, is left out.              *)
(***************************************************************************)
EXTENDS Integers, Sequences, FiniteSets

CONSTANTS
  Objects,
  MaxSteps,    \* request.max_steps: model turns before the run is abandoned
  MaxCalls,    \* bound: tool calls in one reply of the model
  MaxFaults,   \* bound: failing or lost calls
  MaxMoves     \* bound: changes others make to the cluster

ASSUME AgentAssumption ==
  /\ MaxSteps \in Nat /\ MaxCalls \in Nat /\ MaxFaults \in Nat /\ MaxMoves \in Nat

WriteTools == {"apply_resource", "delete_resource"}
Calls == [tool: WriteTools \cup {"read", "unknown"}, object: Objects]

VARIABLES
  cluster,   \* the objects that exist
  approve,   \* request.approve
  pc,        \* "ask": the model is to be asked; "tools": calls are running
  turn,      \* model turns taken
  nudged,    \* an empty turn has been answered with a demand for prose
  messages,  \* the conversation: role, and the calls asked for or answered
  calls,     \* calls of the current reply still to run
  steps,     \* the calls run, each with whether it succeeded
  writes,    \* what the run reports to have written or deleted
  effects,   \* positions in steps whose call changed the cluster (history)
  reason,    \* why a failed run failed
  faults, moves

conversation == <<turn, nudged, messages, calls>>
report == <<steps, writes>>
vars == <<cluster, approve, pc, conversation, report, effects, reason, faults,
          moves>>

Message(role, answered) == [role |-> role, calls |-> answered]

-----------------------------------------------------------------------------
(* The toolbox.                                                            *)

\* Writes need an approved run, and the toolbox knows its ten tools only:
\* everything else is refused before any call to the cluster.
RefusesUnknown(call) == call.tool = "unknown"
Refuses(call) == \/ call.tool = "unknown"
                 \/ ~approve /\ call.tool \in WriteTools

\* What a call that reached the API server makes of the cluster.
Effect(call) ==
  CASE call.tool = "apply_resource"  -> cluster \cup {call.object}
    [] call.tool = "delete_resource" -> cluster \ {call.object}
    [] OTHER                         -> cluster

\* A call may be turned down: arguments that do not fit, a kind or an object
\* that is not there, a validation error.  Nothing has changed then.
TurnedDown(call) == UNCHANGED <<cluster, effects, faults>>

\* It succeeds; a delete needs something to delete.
Succeeds(call) ==
  /\ ~Refuses(call)
  /\ call.tool = "delete_resource" => call.object \in cluster
  /\ cluster' = Effect(call)
  /\ effects' = IF call.tool \in WriteTools
                THEN effects \cup {Len(steps) + 1} ELSE effects
  /\ UNCHANGED faults

\* It takes effect, but its answer is lost: an error like any other.
AnswerLost(call) ==
  /\ ~Refuses(call) /\ call.tool \in WriteTools
  /\ faults < MaxFaults /\ faults' = faults + 1
  /\ cluster' = Effect(call)
  /\ effects' = effects \cup {Len(steps) + 1}

-----------------------------------------------------------------------------
(* The loop.                                                               *)

\* The tool reply that follows a call in the conversation, failed or not.
ReplyIfOk(call, ok) == IF ok THEN Append(messages, Message("tool", <<call>>))
                       ELSE messages
Reply(call, ok) == Append(messages, Message("tool", <<call>>))

\* What the run reports as written once the call is through.
ReportedAlways(call, ok) ==
  IF call.tool \in WriteTools THEN Append(writes, call) ELSE writes
Reported(call, ok) ==
  IF ok /\ call.tool \in WriteTools THEN Append(writes, call) ELSE writes

\* for turn in 0..request.max_steps
TurnsLeftInclusive == turn <= MaxSteps
TurnsLeft == turn < MaxSteps

Fails(why) ==
  /\ pc' = "failed"
  /\ reason' = why

\* A turn that ends the run with an answer: prose and no tool call.
Answers ==
  /\ pc = "ask" /\ TurnsLeft
  /\ pc' = "answered"
  /\ turn' = turn + 1
  /\ UNCHANGED <<cluster, approve, nudged, messages, calls, report, effects,
                 reason, faults, moves>>

\* A turn with neither prose nor calls.  The first time the model is asked for
\* prose, with the tools withdrawn; the second time the run fails.
IsSilent ==
  /\ pc = "ask" /\ TurnsLeft
  /\ turn' = turn + 1
  /\ IF nudged
     THEN /\ Fails("ModelFailed")
          /\ UNCHANGED <<nudged, messages>>
     ELSE /\ nudged' = TRUE
          /\ messages' = Append(messages, Message("user", <<>>))
          /\ UNCHANGED <<pc, reason>>
  /\ UNCHANGED <<cluster, approve, calls, report, effects, faults, moves>>

\* A turn with tool calls, which the loop runs one after the other.
CallsTools ==
  /\ pc = "ask" /\ TurnsLeft
  /\ \E n \in 1..MaxCalls : \E asked \in [1..n -> Calls] :
       /\ calls' = asked
       /\ messages' = Append(messages, Message("assistant", asked))
  /\ pc' = "tools"
  /\ UNCHANGED <<cluster, approve, turn, nudged, report, effects, reason,
                 faults, moves>>

\* One tool call: run, recorded, answered.  After the last the model is asked
\* again.
RunTool ==
  /\ pc = "tools"
  /\ LET call == Head(calls) IN
       \E ok \in BOOLEAN :
         /\ IF ok THEN Succeeds(call)
            ELSE TurnedDown(call) \/ AnswerLost(call)
         /\ steps' = Append(steps, [call |-> call, ok |-> ok])
         /\ writes' = Reported(call, ok)
         /\ messages' = Reply(call, ok)
  /\ calls' = Tail(calls)
  /\ IF Len(calls) = 1
     THEN pc' = "ask" /\ turn' = turn + 1
     ELSE UNCHANGED <<pc, turn>>
  /\ UNCHANGED <<approve, nudged, reason, moves>>

\* The step budget is used up.
StepLimit ==
  /\ pc = "ask" /\ ~TurnsLeft
  /\ Fails("StepLimitReached")
  /\ UNCHANGED <<cluster, approve, conversation, report, effects, faults, moves>>

\* Transport, a status other than 2xx, a reply that does not parse (arguments
\* of a tool call that are not JSON included), or the 120 s timeout.
ModelFails ==
  /\ pc = "ask" /\ TurnsLeft
  /\ faults < MaxFaults /\ faults' = faults + 1
  /\ Fails("ModelFailed")
  /\ UNCHANGED <<cluster, approve, conversation, report, effects, moves>>

\* The HTTP client goes away and the run is dropped at an await; the call that
\* was under way may still take effect.
Disconnect ==
  /\ pc \in {"ask", "tools"}
  /\ faults < MaxFaults /\ faults' = faults + 1
  /\ pc' = "dropped"
  /\ \/ UNCHANGED cluster
     \/ pc = "tools" /\ ~Refuses(Head(calls)) /\ cluster' = Effect(Head(calls))
  /\ UNCHANGED <<approve, conversation, report, effects, reason, moves>>

\* Other clients of the cluster, other runs of the agent among them.
Others ==
  /\ moves < MaxMoves /\ moves' = moves + 1
  /\ \E o \in Objects : cluster' \in {cluster \cup {o}, cluster \ {o}}
  /\ UNCHANGED <<approve, pc, conversation, report, effects, reason, faults>>

-----------------------------------------------------------------------------
Init ==
  /\ cluster \in SUBSET Objects
  /\ approve \in BOOLEAN
  /\ pc = "ask"
  /\ turn = 0 /\ nudged = FALSE
  /\ messages = <<Message("system", <<>>), Message("user", <<>>)>>
  /\ calls = <<>>
  /\ steps = <<>> /\ writes = <<>> /\ effects = {}
  /\ reason = "none"
  /\ faults = 0 /\ moves = 0

Turn == Answers \/ IsSilent \/ CallsTools \/ StepLimit

Next == Turn \/ RunTool \/ ModelFails \/ Disconnect \/ Others

Spec == Init /\ [][Next]_vars

-----------------------------------------------------------------------------
(* Properties.                                                             *)

Ended == {"answered", "failed", "dropped"}

\* Every variable holds a value of its kind.
TypeOK ==
  /\ cluster \in SUBSET Objects
  /\ approve \in BOOLEAN
  /\ pc \in {"ask", "tools"} \cup Ended
  /\ turn \in 0..MaxSteps /\ nudged \in BOOLEAN
  /\ messages \in Seq([role: {"system", "user", "assistant", "tool"},
                       calls: Seq(Calls)])
  /\ calls \in Seq(Calls)
  /\ steps \in Seq([call: Calls, ok: BOOLEAN])
  /\ writes \in Seq(Calls)
  /\ effects \in SUBSET (Nat \ {0})
  /\ reason \in {"none", "ModelFailed", "StepLimitReached"}
  /\ faults \in 0..MaxFaults /\ moves \in 0..MaxMoves

At(role) == {i \in DOMAIN messages : messages[i].role = role}

\* The j-th call of the reply at i has its tool reply j places further on.
Answered(i, j) ==
  /\ i + j \in DOMAIN messages
  /\ messages[i + j] = Message("tool", <<messages[i].calls[j]>>)

\* What the endpoint requires of a conversation, and the loop must keep up
\* whatever a tool does: when the model is asked, every call of every earlier
\* reply has been answered once, in order, right behind the reply, and there
\* is no tool reply that answers nothing.
TranscriptAnswered ==
  pc \in {"ask", "answered"} =>
    /\ \A i \in At("assistant") : \A j \in DOMAIN messages[i].calls : Answered(i, j)
    /\ \A k \in At("tool") :
         \E i \in At("assistant") : i < k /\ k - i \in DOMAIN messages[i].calls

\* "Everything the run wrote or deleted" (agent.rs): what is reported as
\* written did happen, and a change that is not reported is among the steps
\* that failed; the steps are the conversation's, in its order.
Rank(S, i) == Cardinality({j \in S : j <= i})
Written == {k \in DOMAIN steps : steps[k].ok /\ steps[k].call.tool \in WriteTools}
ReportIsFaithful ==
  /\ Cardinality(At("tool")) = Len(steps) /\ Cardinality(Written) = Len(writes)
  /\ \A i \in At("tool") : messages[i].calls = <<steps[Rank(At("tool"), i)].call>>
  /\ \A k \in Written : writes[Rank(Written, k)] = steps[k].call
  /\ effects \subseteq DOMAIN steps /\ Written = {k \in effects : steps[k].ok}

\* "False means the agent can look and dry-run but not write" (agent.rs):
\* no step of a run that was not approved changes the cluster, whatever the
\* model asks for.
ProposeChangesNothing ==
  [][~approve /\ moves' = moves => cluster' = cluster]_vars

\* The step budget bounds the requests to the model, whatever it replies: each
\* that did not end the run has left its reply, or the demand for prose, in the
\* conversation.  An answer comes within the budget, and the run fails for its
\* limit only with the whole of it spent.
Spent == Cardinality(At("assistant")) + Cardinality(At("user")) - 1
WithinBudget ==
  /\ Spent <= MaxSteps
  /\ pc = "answered" => Spent < MaxSteps
  /\ reason = "StepLimitReached" => Spent = MaxSteps
=============================================================================
