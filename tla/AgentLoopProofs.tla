--------------------------- MODULE AgentLoopProofs ---------------------------
(***************************************************************************)
(* What TLAPS proves about AgentLoop, for every set of objects, every step  *)
(* budget and every bound.                                                 *)
(***************************************************************************)
EXTENDS AgentLoop, FiniteSetTheorems, TLAPS

Messages == [role: {"system", "user", "assistant", "tool"}, calls: Seq(Calls)]

(***************************************************************************)
(* Conversations that grow at their end.                                   *)
(***************************************************************************)

\* Appending a message keeps the ones before it at their places.
LEMMA AppendMessage ==
  ASSUME NEW ms \in Seq(Messages), NEW m \in Messages
  PROVE  /\ Append(ms, m) \in Seq(Messages)
         /\ Len(Append(ms, m)) = Len(ms) + 1
         /\ DOMAIN Append(ms, m) = 1..(Len(ms) + 1)
         /\ DOMAIN ms = 1..Len(ms)
         /\ \A i \in 1..Len(ms) : Append(ms, m)[i] = ms[i]
         /\ Append(ms, m)[Len(ms) + 1] = m
OBVIOUS

\* The messages the loop writes are messages.
LEMMA WellFormedMessages ==
  /\ Message("user", <<>>) \in Messages
  /\ \A asked \in Seq(Calls) : Message("assistant", asked) \in Messages
  /\ \A call \in Calls : Message("tool", <<call>>) \in Messages
<1>1. <<>> \in Seq(Calls) /\ \A call \in Calls : <<call>> \in Seq(Calls)
  OBVIOUS
<1> QED
  BY <1>1 DEF Message, Messages

(***************************************************************************)
(* Type correctness.                                                       *)
(***************************************************************************)

\* The initial conversation is well typed.
LEMMA InitIsTyped == Init => TypeOK
<1> SUFFICES ASSUME Init PROVE TypeOK
  OBVIOUS
<1>1. <<>> \in Seq(Calls) /\ <<>> \in Seq([call: Calls, ok: BOOLEAN])
  OBVIOUS
<1>2. Message("system", <<>>) \in Messages /\ Message("user", <<>>) \in Messages
  BY <1>1 DEF Message, Messages
<1>3. messages \in Seq(Messages)
  BY <1>2 DEF Init
<1>4. turn \in 0..MaxSteps /\ faults \in 0..MaxFaults /\ moves \in 0..MaxMoves
  BY AgentAssumption DEF Init
<1>5. calls \in Seq(Calls) /\ writes \in Seq(Calls) /\ steps \in Seq([call: Calls, ok: BOOLEAN])
  BY <1>1 DEF Init
<1>6. /\ cluster \in SUBSET Objects /\ approve \in BOOLEAN /\ pc \in {"ask", "tools"}
      /\ nudged \in BOOLEAN /\ effects \in SUBSET (Nat \ {0})
      /\ reason \in {"none", "ModelFailed", "StepLimitReached"}
  BY DEF Init
<1> QED
  BY <1>3, <1>4, <1>5, <1>6 DEF TypeOK, Messages

\* A tool call keeps the types.
LEMMA RunToolKeepsTypes ==
  ASSUME TypeOK, RunTool, Len(calls) > 0, turn < MaxSteps
  PROVE  TypeOK'
<1> DEFINE call == Head(calls)
<1>1. call \in Calls /\ Tail(calls) \in Seq(Calls)
  BY DEF TypeOK
<1>2. PICK ok \in BOOLEAN :
        /\ IF ok THEN Succeeds(call) ELSE TurnedDown(call) \/ AnswerLost(call)
        /\ steps' = Append(steps, [call |-> call, ok |-> ok])
        /\ writes' = Reported(call, ok)
        /\ messages' = Reply(call, ok)
  BY DEF RunTool
<1>3. call.object \in Objects
  BY <1>1 DEF Calls
<1>4. Effect(call) \in SUBSET Objects
  BY <1>3 DEF Effect, TypeOK
<1>5. Len(steps) + 1 \in Nat \ {0}
  BY DEF TypeOK
<1>6. /\ cluster' \in SUBSET Objects
      /\ effects' \in SUBSET (Nat \ {0})
      /\ faults' \in 0..MaxFaults
  <2>1. CASE Succeeds(call)
    BY <2>1, <1>4, <1>5 DEF Succeeds, TypeOK
  <2>2. CASE TurnedDown(call)
    BY <2>2 DEF TurnedDown, TypeOK
  <2>3. CASE AnswerLost(call)
    <3>1. faults \in 0..MaxFaults /\ faults < MaxFaults /\ faults' = faults + 1
      BY <2>3 DEF AnswerLost, TypeOK
    <3>2. faults' \in 0..MaxFaults
      BY <3>1, AgentAssumption
    <3>3. effects \in SUBSET (Nat \ {0}) /\ effects' = effects \cup {Len(steps) + 1}
      BY <2>3 DEF AnswerLost, TypeOK
    <3>4. cluster' = Effect(call)
      BY <2>3 DEF AnswerLost
    <3> QED
      BY <1>4, <1>5, <3>2, <3>3, <3>4
  <2> QED
    BY <1>2, <2>1, <2>2, <2>3
<1>7. steps' \in Seq([call: Calls, ok: BOOLEAN])
  BY <1>1, <1>2 DEF TypeOK
<1>8. writes' \in Seq(Calls)
  BY <1>1, <1>2 DEF Reported, TypeOK
<1>9. messages' \in Seq(Messages)
  BY <1>1, <1>2, WellFormedMessages, AppendMessage DEF Reply, TypeOK, Messages
<1>10. turn' \in 0..MaxSteps /\ pc' \in {"ask", "tools"}
  BY AgentAssumption DEF RunTool, TypeOK
<1> QED
  BY <1>1, <1>6, <1>7, <1>8, <1>9, <1>10 DEF RunTool, TypeOK, Messages

\* While tools run, there is a call left to run and a turn to count it on.
Working == pc = "tools" => Len(calls) > 0 /\ turn < MaxSteps

\* A turn of the model keeps the types.
LEMMA TurnKeepsTypes == TypeOK /\ Turn => TypeOK'
<1> SUFFICES ASSUME TypeOK, Turn PROVE TypeOK'
  OBVIOUS
<1>0. turn \in 0..MaxSteps /\ MaxSteps \in Nat /\ messages \in Seq(Messages)
  BY AgentAssumption DEF TypeOK, Messages
<1>1. CASE Answers
  BY <1>0, <1>1 DEF Answers, TurnsLeft, TypeOK, report, Ended
<1>2. CASE IsSilent
  <2>1. messages' \in Seq(Messages)
    BY <1>0, <1>2, WellFormedMessages, AppendMessage DEF IsSilent
  <2>2. turn' \in 0..MaxSteps
    BY <1>0, <1>2 DEF IsSilent, TurnsLeft
  <2>3. /\ pc' \in {"ask", "failed"} /\ nudged' \in BOOLEAN
        /\ reason' \in {"none", "ModelFailed", "StepLimitReached"}
    BY <1>2 DEF IsSilent, Fails, TypeOK
  <2> QED
    BY <1>2, <2>1, <2>2, <2>3 DEF IsSilent, TypeOK, report, Ended, Messages
<1>3. CASE CallsTools
  <2>1. PICK n \in 1..MaxCalls : \E asked \in [1..n -> Calls] :
          /\ calls' = asked
          /\ messages' = Append(messages, Message("assistant", asked))
    BY <1>3 DEF CallsTools
  <2>2. PICK asked \in [1..n -> Calls] :
          /\ calls' = asked
          /\ messages' = Append(messages, Message("assistant", asked))
    BY <2>1
  <2>3. n \in Nat
    BY <2>1
  <2>4. asked \in Seq(Calls)
    BY <2>2, <2>3
  <2>5. messages' \in Seq(Messages)
    BY <1>0, <2>2, <2>4, WellFormedMessages, AppendMessage
  <2> QED
    BY <1>3, <2>2, <2>4, <2>5 DEF CallsTools, TypeOK, report, Messages
<1>4. CASE StepLimit
  BY <1>4 DEF StepLimit, Fails, TypeOK, conversation, report, Ended
<1> QED
  BY <1>1, <1>2, <1>3, <1>4 DEF Turn

\* So do the failures and the others.
LEMMA SurroundingsKeepTypes ==
  ASSUME TypeOK, Working, ModelFails \/ Disconnect \/ Others
  PROVE  TypeOK'
<1>0. /\ faults \in 0..MaxFaults /\ MaxFaults \in Nat
      /\ moves \in 0..MaxMoves /\ MaxMoves \in Nat
  BY AgentAssumption DEF TypeOK
<1>1. CASE ModelFails
  BY <1>0, <1>1 DEF ModelFails, Fails, TypeOK, conversation, report, Ended
<1>2. CASE Disconnect
  <2>1. cluster' \in SUBSET Objects
    <3>1. CASE UNCHANGED cluster
      BY <3>1 DEF TypeOK
    <3>2. CASE pc = "tools" /\ cluster' = Effect(Head(calls))
      <4>1. Head(calls) \in Calls
        BY <3>2 DEF Working, TypeOK
      <4>2. Head(calls).object \in Objects
        BY <4>1 DEF Calls
      <4> QED
        BY <3>2, <4>2 DEF Effect, TypeOK
    <3> QED
      BY <1>2, <3>1, <3>2 DEF Disconnect
  <2> QED
    BY <1>0, <1>2, <2>1 DEF Disconnect, TypeOK, conversation, report, Ended
<1>3. CASE Others
  BY <1>0, <1>3 DEF Others, TypeOK, conversation, report
<1> QED
  BY <1>1, <1>2, <1>3

\* The loop never leaves a reply without running what it asked for.
LEMMA StepKeepsWorking == TypeOK /\ Working /\ [Next]_vars => Working'
<1> SUFFICES ASSUME TypeOK, Working, [Next]_vars PROVE Working'
  OBVIOUS
<1>0. calls \in Seq(Calls) /\ turn \in Nat /\ steps \in Seq([call: Calls, ok: BOOLEAN])
  BY AgentAssumption DEF TypeOK
<1>1. CASE Answers \/ IsSilent \/ StepLimit \/ ModelFails \/ Disconnect
  BY <1>1 DEF Answers, IsSilent, StepLimit, ModelFails, Disconnect, Fails, Working
<1>2. CASE CallsTools
  <2>1. PICK n \in 1..MaxCalls : calls' \in [1..n -> Calls]
    BY <1>2 DEF CallsTools
  <2>2. Len(calls') = n /\ n > 0
    <3>1. n \in Nat /\ n > 0
      BY <2>1
    <3> QED
      BY <2>1, <3>1
  <2> QED
    BY <1>2, <2>2 DEF CallsTools, TurnsLeft, Working
<1>3. CASE RunTool
  <2>1. CASE Len(calls) = 1
    BY <1>3, <2>1 DEF RunTool, Working
  <2>2. CASE Len(calls) # 1
    <3>0. Len(calls) > 0 /\ turn < MaxSteps
      BY <1>3 DEF RunTool, Working
    <3>1. Len(calls) > 1 /\ calls' = Tail(calls) /\ turn' = turn /\ turn < MaxSteps
      <4>1. calls' = Tail(calls) /\ turn' = turn
        BY <1>3, <2>2 DEF RunTool
      <4>2. Len(calls) \in Nat
        BY <1>0
      <4>3. Len(calls) > 1
        BY <2>2, <3>0, <4>2
      <4> QED
        BY <3>0, <4>1, <4>3
    <3>2. Len(calls') > 0
      BY <1>0, <3>1
    <3> QED
      BY <3>1, <3>2 DEF Working
  <2> QED
    BY <2>1, <2>2
<1>4. CASE Others \/ UNCHANGED vars
  BY <1>4 DEF Others, Working, vars, conversation
<1> QED
  BY <1>1, <1>2, <1>3, <1>4 DEF Next, Turn

\* A step of any kind keeps the types.
LEMMA StepKeepsTypes == TypeOK /\ Working /\ [Next]_vars => TypeOK'
<1> SUFFICES ASSUME TypeOK, Working, [Next]_vars PROVE TypeOK'
  OBVIOUS
<1>1. CASE RunTool
  BY <1>1, RunToolKeepsTypes DEF RunTool, Working
<1>2. CASE UNCHANGED vars
  BY <1>2 DEF vars, conversation, report, TypeOK
<1> QED
  BY <1>1, <1>2, TurnKeepsTypes, SurroundingsKeepTypes DEF Next

\* Every state of a run is well typed; with it, a call is left while tools run.
THEOREM RunIsTyped == Spec => [](TypeOK /\ Working)
<1>1. Init => TypeOK /\ Working
  BY InitIsTyped DEF Init, Working
<1>2. TypeOK /\ Working /\ [Next]_vars => (TypeOK /\ Working)'
  BY StepKeepsTypes, StepKeepsWorking
<1> QED
  BY <1>1, <1>2, PTL DEF Spec

(***************************************************************************)
(* Every call is answered.                                                 *)
(***************************************************************************)

\* All calls of the reply at i have their tool replies.
AllAnswered(i) == \A j \in DOMAIN messages[i].calls : Answered(i, j)

\* The reply at i is the one whose calls are running: those that are answered
\* stand right behind it, and those that are not are the ones left to run.
Running(i) ==
  LET ran == Len(messages) - i IN
    /\ ran + Len(calls) = Len(messages[i].calls)
    /\ \A j \in 1..ran : Answered(i, j)
    /\ \A j \in 1..Len(calls) : calls[j] = messages[i].calls[ran + j]

\* A tool reply answers a call of a reply before it.
Rooted(k) == \E i \in At("assistant") : i < k /\ k - i \in DOMAIN messages[i].calls

Transcript ==
  /\ pc \in {"ask", "answered"} => \A i \in At("assistant") : AllAnswered(i)
  /\ pc = "tools" =>
       \E i \in At("assistant") :
         /\ Running(i)
         /\ \A k \in At("assistant") \ {i} : AllAnswered(k)
  /\ \A k \in At("tool") : Rooted(k)

\* What has been answered stays answered when the conversation grows.
LEMMA GrowthKeepsAnswers ==
  ASSUME TypeOK, NEW m \in Messages, messages' = Append(messages, m)
  PROVE  /\ \A i \in DOMAIN messages : messages'[i] = messages[i]
         /\ DOMAIN messages' = 1..(Len(messages) + 1)
         /\ DOMAIN messages = 1..Len(messages)
         /\ messages'[Len(messages) + 1] = m
         /\ \A i \in DOMAIN messages : \A j \in Nat : Answered(i, j) => Answered(i, j)'
         /\ \A i \in DOMAIN messages : AllAnswered(i) => AllAnswered(i)'
         /\ \A k \in DOMAIN messages : Rooted(k) => Rooted(k)'
<1>1. messages \in Seq(Messages)
  BY DEF TypeOK, Messages
<1>2. /\ DOMAIN messages' = 1..(Len(messages) + 1)
      /\ DOMAIN messages = 1..Len(messages)
      /\ Len(messages) \in Nat
      /\ \A i \in DOMAIN messages : messages'[i] = messages[i]
      /\ messages'[Len(messages) + 1] = m
  BY <1>1, AppendMessage
<1>3. \A i \in DOMAIN messages : \A j \in Nat : Answered(i, j) => Answered(i, j)'
  BY <1>2 DEF Answered
<1>4. ASSUME NEW i \in DOMAIN messages
      PROVE  DOMAIN messages[i].calls \subseteq Nat
  <2>1. messages[i] \in Messages
    BY <1>1
  <2>2. messages[i].calls \in Seq(Calls)
    BY <2>1 DEF Messages
  <2> QED
    BY <2>2
<1>5. \A i \in DOMAIN messages : AllAnswered(i) => AllAnswered(i)'
  BY <1>2, <1>3, <1>4 DEF AllAnswered
<1>6. \A k \in DOMAIN messages : Rooted(k) => Rooted(k)'
  BY <1>2 DEF Rooted, At
<1> QED
  BY <1>2, <1>3, <1>5, <1>6

\* A step that leaves the conversation alone keeps the transcript, unless it
\* goes back to asking.
LEMMA StillnessKeepsTranscript ==
  ASSUME Transcript, UNCHANGED <<messages, calls>>,
         pc' = pc \/ pc' \in {"failed", "dropped"} \/ (pc = "ask" /\ pc' = "answered")
  PROVE  Transcript'
BY DEF Transcript, At, AllAnswered, Answered, Running, Rooted, Message

\* The demand for prose is neither a reply nor an answer.
LEMMA NudgeKeepsTranscript ==
  ASSUME TypeOK, Transcript, pc = "ask", pc' = "ask",
         messages' = Append(messages, Message("user", <<>>))
  PROVE  Transcript'
<1> DEFINE m == Message("user", <<>>)
<1>1. m \in Messages /\ m.role = "user"
  BY WellFormedMessages DEF Message
<1>2. /\ \A i \in DOMAIN messages : messages'[i] = messages[i]
      /\ DOMAIN messages' = 1..(Len(messages) + 1)
      /\ DOMAIN messages = 1..Len(messages)
      /\ messages'[Len(messages) + 1] = m
      /\ \A i \in DOMAIN messages : AllAnswered(i) => AllAnswered(i)'
      /\ \A k \in DOMAIN messages : Rooted(k) => Rooted(k)'
  BY <1>1, GrowthKeepsAnswers
<1>3. Len(messages) \in Nat
  BY DEF TypeOK
<1>4. At("assistant")' = At("assistant") /\ At("tool")' = At("tool")
  BY <1>1, <1>2, <1>3 DEF At
<1> QED
  BY <1>2, <1>4 DEF Transcript, At

\* A reply starts with none of its calls run.
LEMMA CallsToolsKeepsTranscript ==
  ASSUME TypeOK, Transcript, CallsTools PROVE Transcript'
<1>1. PICK n \in 1..MaxCalls : \E asked \in [1..n -> Calls] :
        /\ calls' = asked
        /\ messages' = Append(messages, Message("assistant", asked))
  BY DEF CallsTools
<1>2. PICK asked \in [1..n -> Calls] :
        /\ calls' = asked
        /\ messages' = Append(messages, Message("assistant", asked))
  BY <1>1
<1>3. n \in Nat
  BY <1>1
<1>4. asked \in Seq(Calls) /\ Len(asked) = n
  BY <1>2, <1>3
<1>a. PICK i \in Nat : i = Len(messages) + 1
  BY DEF TypeOK
<1>b. PICK m : m = Message("assistant", asked)
  OBVIOUS
<1>5. m \in Messages /\ m.role = "assistant" /\ m.calls = asked
  BY <1>4, <1>b, WellFormedMessages DEF Message
<1>6. /\ \A k \in DOMAIN messages : messages'[k] = messages[k]
      /\ DOMAIN messages' = 1..i
      /\ DOMAIN messages = 1..Len(messages)
      /\ messages'[i] = m
      /\ \A k \in DOMAIN messages : AllAnswered(k) => AllAnswered(k)'
      /\ \A k \in DOMAIN messages : Rooted(k) => Rooted(k)'
  BY <1>2, <1>5, <1>a, <1>b, GrowthKeepsAnswers
<1>7. Len(messages) \in Nat /\ Len(messages') = i
  BY <1>2, <1>5, <1>a, <1>b, AppendMessage DEF TypeOK, Messages
<1>8. /\ At("assistant")' = At("assistant") \cup {i}
      /\ At("tool")' = At("tool")
  BY <1>5, <1>6, <1>7, <1>a DEF At
<1>9. Running(i)'
  BY <1>2, <1>4, <1>5, <1>6, <1>7 DEF Running
<1>10. \A k \in At("assistant")' \ {i} : AllAnswered(k)'
  BY <1>6, <1>8 DEF Transcript, CallsTools, At
<1>11. \A k \in At("tool")' : Rooted(k)'
  BY <1>6, <1>8 DEF Transcript, At
<1> QED
  BY <1>8, <1>9, <1>10, <1>11 DEF Transcript, CallsTools

\* A tool call answers the next call of the running reply, and the last one
\* completes it.
LEMMA RunToolKeepsTranscript ==
  ASSUME TypeOK, Working, Transcript, RunTool PROVE Transcript'
<1>1. pc = "tools" /\ Len(calls) > 0 /\ calls \in Seq(Calls) /\ messages \in Seq(Messages)
  BY DEF RunTool, Working, TypeOK, Messages
<1>2. PICK i \in At("assistant") :
        /\ Running(i)
        /\ \A k \in At("assistant") \ {i} : AllAnswered(k)
  BY <1>1 DEF Transcript
<1>3. PICK call : call = Head(calls)
  OBVIOUS
<1>4. call \in Calls /\ call = calls[1]
  BY <1>1, <1>3
<1>5. PICK m : m = Message("tool", <<call>>)
  OBVIOUS
<1>6. m \in Messages /\ m.role = "tool"
  BY <1>4, <1>5, WellFormedMessages DEF Message
<1>7. messages' = Append(messages, m)
  BY <1>3, <1>5 DEF RunTool, Reply
<1>8. PICK last \in Nat : last = Len(messages) + 1
  BY <1>1
<1>9. /\ \A k \in DOMAIN messages : messages'[k] = messages[k]
      /\ DOMAIN messages' = 1..last
      /\ DOMAIN messages = 1..(last - 1)
      /\ messages'[last] = m
      /\ \A k \in DOMAIN messages : \A j \in Nat : Answered(k, j) => Answered(k, j)'
      /\ \A k \in DOMAIN messages : AllAnswered(k) => AllAnswered(k)'
      /\ \A k \in DOMAIN messages : Rooted(k) => Rooted(k)'
  BY <1>6, <1>7, <1>8, GrowthKeepsAnswers
<1>10. Len(messages') = last
  BY <1>1, <1>6, <1>7, <1>8, AppendMessage
<1>11. /\ At("assistant")' = At("assistant")
       /\ At("tool")' = At("tool") \cup {last}
  BY <1>6, <1>9 DEF At
<1>12. i \in DOMAIN messages /\ i \in 1..(last - 1) /\ messages[i].calls \in Seq(Calls)
  <2>1. i \in DOMAIN messages
    BY <1>2 DEF At
  <2>2. messages[i] \in Messages
    BY <1>1, <2>1
  <2> QED
    BY <1>9, <2>1, <2>2 DEF Messages
<1>13. PICK ran \in Nat : ran = Len(messages) - i
  BY <1>8, <1>12
<1>14. /\ ran + Len(calls) = Len(messages[i].calls)
       /\ \A j \in 1..ran : Answered(i, j)
       /\ \A j \in 1..Len(calls) : calls[j] = messages[i].calls[ran + j]
  BY <1>2, <1>13 DEF Running
<1>15. i + (ran + 1) = last /\ Len(calls) \in Nat
  BY <1>1, <1>8, <1>12, <1>13
<1>16. messages[i].calls[ran + 1] = call
  BY <1>1, <1>4, <1>14, <1>15
<1>17. Answered(i, ran + 1)'
  BY <1>5, <1>9, <1>12, <1>15, <1>16 DEF Answered, Message
<1>18. \A j \in 1..(ran + 1) : Answered(i, j)'
  BY <1>9, <1>12, <1>14, <1>17
<1>19. \A k \in At("assistant") \ {i} : AllAnswered(k)'
  BY <1>2, <1>9 DEF At
<1>20. \A k \in At("tool")' : Rooted(k)'
  <2>1. i < last /\ last - i \in DOMAIN messages[i].calls
    BY <1>1, <1>12, <1>14, <1>15
  <2>2. Rooted(last)'
    BY <1>2, <1>9, <1>11, <1>12, <2>1 DEF Rooted
  <2> QED
    BY <1>9, <1>11, <2>2 DEF Transcript, At
<1>21. CASE Len(calls) = 1
  <2>1. pc' = "ask"
    BY <1>21 DEF RunTool
  <2>2. DOMAIN messages[i].calls = 1..(ran + 1)
    BY <1>12, <1>14, <1>21
  <2>3. AllAnswered(i)'
    BY <1>9, <1>12, <1>18, <2>2 DEF AllAnswered
  <2> QED
    BY <1>11, <1>19, <1>20, <2>1, <2>3 DEF Transcript
<1>22. CASE Len(calls) # 1
  <2>1. pc' = "tools" /\ calls' = Tail(calls)
    BY <1>1, <1>22 DEF RunTool
  <2>2. /\ Len(calls') = Len(calls) - 1
        /\ \A j \in 1..Len(calls') : calls'[j] = calls[j + 1]
    BY <1>1, <1>15, <1>22, <2>1
  <2>3. Len(messages') - i = ran + 1
    BY <1>10, <1>15, <1>12
  <2>4. messages'[i].calls = messages[i].calls
    BY <1>9, <1>12
  <2>5. (ran + 1) + Len(calls') = Len(messages[i].calls)
    <3>1. PICK n \in Nat : n = Len(calls)
      BY <1>15
    <3>2. Len(calls') = n - 1 /\ ran + n = Len(messages[i].calls)
      BY <1>14, <2>2, <3>1
    <3>3. (ran + 1) + (n - 1) = ran + n
      OBVIOUS
    <3> QED
      BY <3>2, <3>3
  <2>6. \A j \in 1..Len(calls') : calls'[j] = messages[i].calls[(ran + 1) + j]
    <3> TAKE j \in 1..Len(calls')
    <3>1. j + 1 \in 1..Len(calls) /\ ran + (j + 1) = (ran + 1) + j
      BY <1>15, <2>2
    <3> QED
      BY <1>14, <2>2, <3>1
  <2>7. Running(i)'
    BY <1>18, <2>3, <2>4, <2>5, <2>6 DEF Running
  <2> QED
    BY <1>2, <1>11, <1>19, <1>20, <2>1, <2>7 DEF Transcript
<1> QED
  BY <1>21, <1>22

\* The conversation starts with no replies.
LEMMA InitHasTranscript == Init => Transcript
<1> SUFFICES ASSUME Init PROVE Transcript
  OBVIOUS
<1>1. /\ DOMAIN messages = 1..2
      /\ messages[1].role = "system" /\ messages[2].role = "user"
  BY DEF Init, Message
<1>2. At("assistant") = {} /\ At("tool") = {}
  BY <1>1 DEF At
<1> QED
  BY <1>2 DEF Transcript, Init

\* Every step of the run keeps the transcript.
LEMMA StepKeepsTranscript ==
  TypeOK /\ Working /\ Transcript /\ [Next]_vars => Transcript'
<1> SUFFICES ASSUME TypeOK, Working, Transcript, [Next]_vars PROVE Transcript'
  OBVIOUS
<1>1. CASE Answers
  BY <1>1, StillnessKeepsTranscript DEF Answers
<1>2. CASE IsSilent
  <2>1. CASE nudged
    BY <1>2, <2>1, StillnessKeepsTranscript DEF IsSilent, Fails
  <2>2. CASE ~nudged
    BY <1>2, <2>2, NudgeKeepsTranscript DEF IsSilent
  <2> QED
    BY <2>1, <2>2
<1>3. CASE CallsTools
  BY <1>3, CallsToolsKeepsTranscript
<1>4. CASE RunTool
  BY <1>4, RunToolKeepsTranscript
<1>5. CASE StepLimit \/ ModelFails
  BY <1>5, StillnessKeepsTranscript DEF StepLimit, ModelFails, Fails, conversation
<1>6. CASE Disconnect
  BY <1>6, StillnessKeepsTranscript DEF Disconnect, conversation
<1>7. CASE Others
  BY <1>7, StillnessKeepsTranscript DEF Others, conversation
<1>8. CASE UNCHANGED vars
  BY <1>8, StillnessKeepsTranscript DEF vars, conversation
<1> QED
  BY <1>1, <1>2, <1>3, <1>4, <1>5, <1>6, <1>7, <1>8 DEF Next, Turn

\* Whatever its tools do, a run asks the model only with every earlier call
\* answered, once and in order.
THEOREM AlwaysAnswered == Spec => []TranscriptAnswered
<1>1. Transcript => TranscriptAnswered
  BY DEF Transcript, TranscriptAnswered, AllAnswered, Rooted
<1>2. Init => Transcript
  BY InitHasTranscript
<1>3. TypeOK /\ Working /\ Transcript /\ [Next]_vars => Transcript'
  BY StepKeepsTranscript
<1> QED
  BY <1>1, <1>2, <1>3, RunIsTyped, PTL DEF Spec

(***************************************************************************)
(* The approval gate.                                                      *)
(***************************************************************************)

\* A call that a run without approval makes has no effect.
LEMMA RefusedCallChangesNothing ==
  ASSUME NEW call \in Calls, ~approve, ~Refuses(call)
  PROVE  Effect(call) = cluster
BY DEF Refuses, Effect, Calls, WriteTools

\* A run that was not approved never changes the cluster.
THEOREM ProposeWritesNothing == Spec => ProposeChangesNothing
<1>1. ASSUME TypeOK, Working, [Next]_vars, ~approve, moves' = moves
      PROVE  cluster' = cluster
  <2>1. CASE Turn \/ ModelFails \/ UNCHANGED vars
    BY <1>1, <2>1 DEF Turn, Answers, IsSilent, CallsTools, StepLimit, ModelFails, vars
  <2>2. CASE RunTool
    <3>1. Head(calls) \in Calls
      BY <1>1, <2>2 DEF RunTool, Working, TypeOK
    <3>2. Succeeds(Head(calls)) \/ TurnedDown(Head(calls)) \/ AnswerLost(Head(calls))
      BY <2>2 DEF RunTool
    <3> QED
      BY <1>1, <3>1, <3>2, RefusedCallChangesNothing
        DEF Succeeds, TurnedDown, AnswerLost
  <2>3. CASE Disconnect
    <3>1. pc = "tools" => Head(calls) \in Calls
      BY <1>1 DEF Working, TypeOK
    <3> QED
      BY <1>1, <2>3, <3>1, RefusedCallChangesNothing DEF Disconnect
  <2>4. CASE Others
    BY <1>1, <2>4 DEF Others, TypeOK
  <2> QED
    BY <1>1, <2>1, <2>2, <2>3, <2>4 DEF Next
<1>2. TypeOK /\ Working /\ [Next]_vars
        => [~approve /\ moves' = moves => cluster' = cluster]_vars
  BY <1>1
<1> QED
  BY <1>2, RunIsTyped, PTL DEF Spec, ProposeChangesNothing

(***************************************************************************)
(* The report.  Tool replies, steps and effects are numbered as the calls run, *)
(* and what succeeded among the writes is numbered as it is reported.         *)
(***************************************************************************)

\* A number above those of a set ranks last in it, and the others as before.
Ranked(S, T, n) ==
  /\ IsFiniteSet(T) /\ Cardinality(T) = Cardinality(S) + 1
  /\ Rank(T, n) = Cardinality(S) + 1
  /\ \A i \in S : Rank(T, i) = Rank(S, i) /\ Rank(S, i) \in 1..Cardinality(S)

LEMMA RankGrows ==
  ASSUME NEW S \in SUBSET Nat, IsFiniteSet(S), NEW n \in Nat, \A j \in S : j < n,
         NEW T, T = S \cup {n}
  PROVE  Ranked(S, T, n)
<1>1. n \notin S /\ \A j \in T : j \in Nat /\ j <= n
  OBVIOUS
<1>2. IsFiniteSet(T) /\ Cardinality(T) = Cardinality(S) + 1
  BY <1>1, FS_AddElement
<1>3. Rank(T, n) = Cardinality(S) + 1
  <2>1. {j \in T : j <= n} = T
    BY <1>1
  <2> QED
    BY <1>2, <2>1 DEF Rank
<1>4. ASSUME NEW i \in S
      PROVE  Rank(T, i) = Rank(S, i) /\ Rank(S, i) \in 1..Cardinality(S)
  <2> DEFINE below == {j \in S : j <= i}
  <2>1. {j \in T : j <= i} = below
    BY <1>4
  <2>2. below \subseteq S /\ i \in below
    OBVIOUS
  <2>3. IsFiniteSet(below) /\ Cardinality(below) <= Cardinality(S)
    BY <2>2, FS_Subset
  <2>4. Cardinality(below) \in Nat /\ Cardinality(S) \in Nat
    BY <2>3, FS_CardinalityType
  <2>5. Cardinality(below) # 0
    BY <2>2, <2>3, FS_EmptySet
  <2> HIDE DEF below
  <2>6. Cardinality(below) \in 1..Cardinality(S)
    BY <2>3, <2>4, <2>5
  <2> QED
    BY <2>1, <2>6 DEF Rank, below
<1> QED
  BY <1>2, <1>3, <1>4 DEF Ranked

RepliesMatch ==
  /\ IsFiniteSet(At("tool")) /\ Cardinality(At("tool")) = Len(steps)
  /\ \A i \in At("tool") : messages[i].calls = <<steps[Rank(At("tool"), i)].call>>

WritesMatch ==
  /\ IsFiniteSet(Written) /\ Cardinality(Written) = Len(writes)
  /\ \A k \in Written : writes[Rank(Written, k)] = steps[k].call

EffectsMatch ==
  effects \subseteq DOMAIN steps /\ Written = {k \in effects : steps[k].ok}

Faithful == RepliesMatch /\ WritesMatch /\ EffectsMatch

\* A step that runs no tool adds no tool reply.
LEMMA OtherStepsKeepFaith ==
  ASSUME TypeOK, Faithful, UNCHANGED <<steps, writes, effects>>,
         messages' = messages \/ \E m \in Messages : /\ m.role # "tool"
                                                     /\ messages' = Append(messages, m)
  PROVE  Faithful'
<1>1. WritesMatch' /\ EffectsMatch'
  BY DEF Faithful, WritesMatch, EffectsMatch, Written, Rank
<1>2. CASE messages' = messages
  BY <1>1, <1>2 DEF Faithful, RepliesMatch, At, Rank
<1>3. ASSUME NEW m \in Messages, m.role # "tool", messages' = Append(messages, m)
      PROVE  Faithful'
  <2>1. /\ \A i \in DOMAIN messages : messages'[i] = messages[i]
        /\ DOMAIN messages' = 1..(Len(messages) + 1)
        /\ DOMAIN messages = 1..Len(messages)
        /\ messages'[Len(messages) + 1] = m /\ Len(messages) \in Nat
    BY <1>3, GrowthKeepsAnswers DEF TypeOK
  <2>2. At("tool")' = At("tool")
    <3>1. PICK last \in Nat : last = Len(messages) + 1
      BY <2>1
    <3>2. DOMAIN messages' = DOMAIN messages \cup {last} /\ messages'[last] = m
      BY <2>1, <3>1
    <3> QED
      BY <1>3, <2>1, <3>2 DEF At
  <2>3. RepliesMatch'
    BY <2>1, <2>2 DEF Faithful, RepliesMatch, At, Rank
  <2> QED
    BY <1>1, <2>3 DEF Faithful
<1> QED
  BY <1>2, <1>3

\* A tool call is one reply and one step, and one write if it was one that succeeded.
LEMMA RunToolKeepsFaith ==
  ASSUME TypeOK, Working, Faithful, RunTool
  PROVE  Faithful'
<1>1. PICK call : call = Head(calls)
  OBVIOUS
<1>2. call \in Calls
  BY <1>1 DEF RunTool, Working, TypeOK
<1>3. PICK ok \in BOOLEAN :
        /\ IF ok THEN Succeeds(call) ELSE TurnedDown(call) \/ AnswerLost(call)
        /\ steps' = Append(steps, [call |-> call, ok |-> ok])
        /\ writes' = Reported(call, ok)
        /\ messages' = Reply(call, ok)
  BY <1>1 DEF RunTool
<1>4. PICK m, step : m = Message("tool", <<call>>) /\ step = [call |-> call, ok |-> ok]
  OBVIOUS
<1>5. /\ m \in Messages /\ m.role = "tool" /\ m.calls = <<call>>
      /\ step \in [call: Calls, ok: BOOLEAN] /\ step.call = call /\ step.ok = ok
  BY <1>2, <1>4, WellFormedMessages DEF Message
<1>6. PICK n \in Nat \ {0} : n = Len(steps) + 1
  BY DEF TypeOK
<1>7. /\ steps' = Append(steps, step) /\ steps \in Seq([call: Calls, ok: BOOLEAN])
      /\ DOMAIN steps = 1..(n - 1) /\ Len(steps) = n - 1
  BY <1>3, <1>4, <1>6 DEF TypeOK
<1>8. /\ DOMAIN steps' = 1..n /\ Len(steps') = n /\ steps'[n] = step
      /\ \A k \in 1..(n - 1) : steps'[k] = steps[k]
  BY <1>5, <1>6, <1>7
<1>9. RepliesMatch'
  <2>1. PICK last \in Nat \ {0} : last = Len(messages) + 1
    BY DEF TypeOK
  <2>2. /\ \A i \in DOMAIN messages : messages'[i] = messages[i]
        /\ DOMAIN messages' = 1..last /\ DOMAIN messages = 1..(last - 1)
        /\ messages'[last] = m
    BY <1>3, <1>4, <1>5, <2>1, GrowthKeepsAnswers DEF Reply
  <2>3. PICK S, T : S = At("tool") /\ T = At("tool")'
    OBVIOUS
  <2>4. /\ T = S \cup {last} /\ S \subseteq DOMAIN messages
        /\ \A i \in S : messages'[i] = messages[i]
    <3>1. DOMAIN messages' = DOMAIN messages \cup {last}
      BY <2>2
    <3>2. S = {i \in DOMAIN messages : messages[i].role = "tool"}
      BY <2>3 DEF At
    <3>3. T = {i \in DOMAIN messages' : messages'[i].role = "tool"}
      BY <2>3 DEF At
    <3>4. \A i : i \in T <=> i \in S \/ i = last
      BY <1>5, <2>2, <3>1, <3>2, <3>3
    <3> QED
      BY <2>2, <3>2, <3>4
  <2>5. /\ S \in SUBSET Nat /\ \A j \in S : j < last
        /\ IsFiniteSet(S) /\ Cardinality(S) = n - 1
        /\ \A i \in S : messages[i].calls = <<steps[Rank(S, i)].call>>
    BY <1>7, <2>2, <2>3, <2>4 DEF Faithful, RepliesMatch
  <2>6. /\ IsFiniteSet(T) /\ Cardinality(T) = n /\ Rank(T, last) = n
        /\ \A i \in S : Rank(T, i) = Rank(S, i) /\ Rank(S, i) \in 1..(n - 1)
    <3>1. T = S \cup {last}
      BY <2>4
    <3>2. Ranked(S, T, last)
      BY <2>5, <3>1, RankGrows
    <3>3. Cardinality(S) = n - 1 /\ (n - 1) + 1 = n
      BY <2>5
    <3> QED
      BY <3>2, <3>3 DEF Ranked
  <2>7. ASSUME NEW i \in T PROVE messages'[i].calls = <<steps'[Rank(T, i)].call>>
    <3>1. CASE i \in S
      BY <1>8, <2>4, <2>5, <2>6, <3>1
    <3>2. CASE i = last
      BY <1>5, <1>8, <2>2, <2>6, <3>2
    <3> QED
      BY <2>4, <3>1, <3>2
  <2> QED
    BY <1>8, <2>3, <2>6, <2>7 DEF RepliesMatch, Rank
<1> DEFINE wrote == ok /\ call.tool \in WriteTools
<1>10. Written' = IF wrote THEN Written \cup {n} ELSE Written
  BY <1>5, <1>6, <1>7, <1>8 DEF Written
<1>11. WritesMatch'
  <2>1. PICK S, T : S = Written /\ T = Written'
    OBVIOUS
  <2>2. /\ S \in SUBSET Nat /\ S \subseteq 1..(n - 1) /\ \A j \in S : j < n
        /\ IsFiniteSet(S) /\ Cardinality(S) = Len(writes)
        /\ \A k \in S : writes[Rank(S, k)] = steps[k].call
        /\ writes \in Seq(Calls)
    <3>1. S \subseteq 1..(n - 1)
      BY <1>7, <2>1 DEF Written
    <3>2. 1..(n - 1) \in SUBSET Nat /\ \A j \in 1..(n - 1) : j < n
      OBVIOUS
    <3>3. writes \in Seq(Calls)
      BY DEF TypeOK
    <3> QED
      BY <2>1, <3>1, <3>2, <3>3 DEF Faithful, WritesMatch
  <2>3. CASE ~wrote
    <3>1. writes' = writes /\ T = S
      BY <1>3, <1>10, <2>1, <2>3 DEF Reported
    <3> QED
      BY <1>8, <2>1, <2>2, <3>1 DEF WritesMatch, Rank
  <2>4. CASE wrote
    <3>1. writes' = Append(writes, call) /\ T = S \cup {n}
      BY <1>3, <1>10, <2>1, <2>4 DEF Reported
    <3>2. PICK w \in Nat : w = Len(writes)
      BY <2>2
    <3>3. /\ Len(writes') = w + 1 /\ writes'[w + 1] = call
          /\ \A j \in 1..w : writes'[j] = writes[j]
      BY <1>2, <2>2, <3>1, <3>2
    <3>4. /\ IsFiniteSet(T) /\ Cardinality(T) = w + 1 /\ Rank(T, n) = w + 1
          /\ \A k \in S : Rank(T, k) = Rank(S, k) /\ Rank(S, k) \in 1..w
      <4>1. T = S \cup {n}
        BY <3>1
      <4>2. Ranked(S, T, n)
        BY <2>2, <4>1, RankGrows
      <4> QED
        BY <2>2, <3>2, <4>2 DEF Ranked
    <3>5. ASSUME NEW k \in T PROVE writes'[Rank(T, k)] = steps'[k].call
      <4>1. CASE k \in S
        BY <1>8, <2>2, <3>3, <3>4, <4>1
      <4>2. CASE k = n
        BY <1>5, <1>8, <3>3, <3>4, <4>2
      <4> QED
        BY <3>1, <4>1, <4>2
    <3> QED
      BY <2>1, <3>3, <3>4, <3>5 DEF WritesMatch, Rank
  <2> QED
    BY <2>3, <2>4
<1>12. EffectsMatch'
  <2>1. /\ effects \subseteq 1..(n - 1) /\ Written = {k \in effects : steps[k].ok}
    BY <1>7 DEF Faithful, EffectsMatch
  <2>2. \/ effects' = effects /\ ~wrote
        \/ effects' = effects \cup {n} /\ call.tool \in WriteTools
    BY <1>3, <1>6 DEF Succeeds, TurnedDown, AnswerLost
  <2>3. effects' \subseteq 1..n
    <3>1. 1..(n - 1) \subseteq 1..n /\ n \in 1..n
      BY <1>6
    <3> QED
      BY <2>1, <2>2, <3>1
  <2>4. Written' = {k \in effects' : steps'[k].ok}
    <3>1. \A k \in effects : k # n /\ steps'[k] = steps[k]
      BY <1>8, <2>1
    <3> QED
      BY <1>5, <1>8, <1>10, <2>1, <2>2, <3>1
  <2> QED
    BY <1>8, <2>3, <2>4 DEF EffectsMatch
<1> QED
  BY <1>9, <1>11, <1>12 DEF Faithful

LEMMA InitIsFaithful == Init => Faithful
<1> SUFFICES ASSUME Init PROVE Faithful
  OBVIOUS
<1>1. /\ DOMAIN messages = 1..2
      /\ messages[1].role = "system" /\ messages[2].role = "user"
  BY DEF Init, Message
<1>2. /\ At("tool") = {} /\ steps = <<>> /\ writes = <<>> /\ effects = {}
  BY <1>1 DEF Init, At
<1>3. Written = {}
  BY <1>2 DEF Written
<1> QED
  BY <1>2, <1>3, FS_EmptySet DEF Faithful, RepliesMatch, WritesMatch, EffectsMatch

\* What a run reports as written is what it wrote, call for call, and a change of
\* its own that it does not report is a step it reports as failed.
THEOREM ReportsAreFaithful == Spec => []ReportIsFaithful
<1>1. Faithful => ReportIsFaithful
  BY DEF Faithful, RepliesMatch, WritesMatch, EffectsMatch, ReportIsFaithful
<1>2. ASSUME TypeOK, Working, Faithful, [Next]_vars PROVE Faithful'
  <2>1. CASE UNCHANGED <<messages, steps, writes, effects>>
    BY <1>2, <2>1, OtherStepsKeepFaith
  <2>2. CASE IsSilent
    <3>1. Message("user", <<>>) \in Messages /\ Message("user", <<>>).role # "tool"
      BY WellFormedMessages DEF Message
    <3> QED
      BY <1>2, <2>2, <3>1, OtherStepsKeepFaith DEF IsSilent, report
  <2>3. CASE CallsTools
    <3>1. PICK n \in 1..MaxCalls : \E asked \in [1..n -> Calls] :
            messages' = Append(messages, Message("assistant", asked))
      BY <2>3 DEF CallsTools
    <3>2. PICK asked \in [1..n -> Calls] :
            messages' = Append(messages, Message("assistant", asked))
      BY <3>1
    <3>3. n \in Nat
      BY <3>1
    <3>4. asked \in Seq(Calls)
      BY <3>3
    <3>5. PICK m : m = Message("assistant", asked)
      OBVIOUS
    <3>6. m \in Messages /\ m.role # "tool"
      BY <3>4, <3>5, WellFormedMessages DEF Message
    <3> QED
      BY <1>2, <2>3, <3>2, <3>5, <3>6, OtherStepsKeepFaith DEF CallsTools, report
  <2>4. CASE RunTool
    BY <1>2, <2>4, RunToolKeepsFaith
  <2> QED
    BY <1>2, <2>1, <2>2, <2>3, <2>4
      DEF Next, Turn, Answers, StepLimit, ModelFails, Disconnect, Others, conversation, report, vars
<1>3. TypeOK /\ Working /\ Faithful /\ [Next]_vars => Faithful'
  BY <1>2
<1> QED
  BY <1>1, <1>3, InitIsFaithful, RunIsTyped, PTL DEF Spec

(***************************************************************************)
(* The step budget.  The turn counter says how many replies the conversation *)
(* holds, one behind while the calls of the last one run.                   *)
(***************************************************************************)

Counted ==
  /\ pc = "ask" => Spent = turn
  /\ pc = "tools" => Spent = turn + 1
  /\ reason = "StepLimitReached" => pc = "failed"
  /\ WithinBudget

\* A message of a role is one more of it, and none of any other.
LEMMA RoleCounts ==
  ASSUME TypeOK, NEW m \in Messages, messages' = Append(messages, m), NEW r
  PROVE  /\ Cardinality(At(r)) \in Nat
         /\ Cardinality(At(r))' = IF m.role = r THEN Cardinality(At(r)) + 1
                                  ELSE Cardinality(At(r))
<1>1. PICK last \in Nat : last = Len(messages) + 1
  BY DEF TypeOK
<1>2. /\ \A i \in DOMAIN messages : messages'[i] = messages[i]
      /\ DOMAIN messages = 1..(last - 1) /\ DOMAIN messages' = 1..last
      /\ messages'[last] = m
  BY <1>1, GrowthKeepsAnswers DEF TypeOK
<1>3. DOMAIN messages' = DOMAIN messages \cup {last} /\ last \notin DOMAIN messages
  BY <1>1, <1>2
<1>4. PICK S, T : S = At(r) /\ T = At(r)'
  OBVIOUS
<1>5. IsFiniteSet(S) /\ last \notin S
  <2>1. IsFiniteSet(DOMAIN messages)
    BY <1>1, <1>2, FS_Interval
  <2> QED
    BY <1>3, <1>4, <2>1, FS_Subset DEF At
<1>6. T = IF m.role = r THEN S \cup {last} ELSE S
  BY <1>2, <1>3, <1>4 DEF At
<1>7. Cardinality(S) \in Nat
  BY <1>5, FS_CardinalityType
<1>8. Cardinality(S \cup {last}) = Cardinality(S) + 1
  BY <1>5, FS_AddElement
<1> QED
  BY <1>4, <1>6, <1>7, <1>8

\* A step that adds no reply and no demand spends nothing.
LEMMA OtherStepsSpendNothing ==
  ASSUME TypeOK,
         messages' = messages \/ \E m \in Messages :
           m.role \notin {"assistant", "user"} /\ messages' = Append(messages, m)
  PROVE  Spent' = Spent
<1>1. CASE messages' = messages
  BY <1>1 DEF Spent, At
<1>2. ASSUME NEW m \in Messages, m.role \notin {"assistant", "user"},
             messages' = Append(messages, m)
      PROVE  Spent' = Spent
  BY <1>2, RoleCounts DEF Spent
<1> QED
  BY <1>1, <1>2

LEMMA RepliesAreSpent ==
  ASSUME TypeOK, NEW m \in Messages, m.role \in {"assistant", "user"},
         messages' = Append(messages, m)
  PROVE  Spent' = Spent + 1
<1>1. /\ Cardinality(At("assistant")) \in Nat /\ Cardinality(At("user")) \in Nat
      /\ Cardinality(At("assistant"))' = IF m.role = "assistant"
           THEN Cardinality(At("assistant")) + 1 ELSE Cardinality(At("assistant"))
      /\ Cardinality(At("user"))' = IF m.role = "user"
           THEN Cardinality(At("user")) + 1 ELSE Cardinality(At("user"))
  BY RoleCounts
<1> QED
  BY <1>1 DEF Spent

\* Every step counts what it spends.
LEMMA StepCounts == TypeOK /\ Working /\ Counted /\ [Next]_vars => Counted'
<1> SUFFICES ASSUME TypeOK, Working, Counted, [Next]_vars PROVE Counted'
  OBVIOUS
<1>0. turn \in 0..MaxSteps /\ turn \in Nat /\ MaxSteps \in Nat
  BY AgentAssumption DEF TypeOK
<1>1. CASE Answers
  <2>1. Spent' = Spent /\ pc = "ask" /\ turn < MaxSteps /\ pc' = "answered"
    BY <1>1, OtherStepsSpendNothing DEF Answers, TurnsLeft
  <2> QED
    BY <1>0, <1>1, <2>1 DEF Answers, Counted, WithinBudget
<1>2. CASE IsSilent
  <2>1. pc = "ask" /\ turn < MaxSteps /\ turn' = turn + 1 /\ Spent = turn
    BY <1>2 DEF IsSilent, TurnsLeft, Counted
  <2>2. CASE nudged
    <3>1. Spent' = Spent /\ pc' = "failed" /\ reason' = "ModelFailed"
      BY <1>2, <2>2, OtherStepsSpendNothing DEF IsSilent, Fails
    <3> QED
      BY <1>0, <2>1, <3>1 DEF Counted, WithinBudget
  <2>3. CASE ~nudged
    <3>1. Message("user", <<>>) \in Messages /\ Message("user", <<>>).role = "user"
      BY WellFormedMessages DEF Message
    <3>2. messages' = Append(messages, Message("user", <<>>))
          /\ pc' = pc /\ reason' = reason
      BY <1>2, <2>3 DEF IsSilent
    <3>3. Spent' = Spent + 1
      BY <3>1, <3>2, RepliesAreSpent
    <3> QED
      BY <1>0, <2>1, <3>2, <3>3 DEF Counted, WithinBudget
  <2> QED
    BY <2>2, <2>3
<1>3. CASE CallsTools
  <2>1. PICK n \in 1..MaxCalls : \E asked \in [1..n -> Calls] :
          messages' = Append(messages, Message("assistant", asked))
    BY <1>3 DEF CallsTools
  <2>2. PICK asked \in [1..n -> Calls] : messages' = Append(messages, Message("assistant", asked))
    BY <2>1
  <2>3. asked \in Seq(Calls)
    <3>1. n \in Nat
      BY <2>1
    <3> QED
      BY <2>2, <3>1
  <2>4. PICK m : m = Message("assistant", asked)
    OBVIOUS
  <2>5. m \in Messages /\ m.role = "assistant"
    BY <2>3, <2>4, WellFormedMessages DEF Message
  <2>6. Spent' = Spent + 1
    BY <2>2, <2>4, <2>5, RepliesAreSpent
  <2>7. /\ pc = "ask" /\ pc' = "tools" /\ turn' = turn /\ turn < MaxSteps
        /\ reason' = reason /\ Spent = turn
    BY <1>3 DEF CallsTools, TurnsLeft, Counted
  <2> QED
    BY <1>0, <2>6, <2>7 DEF Counted, WithinBudget
<1>4. CASE RunTool
  <2>1. PICK call : call = Head(calls) /\ call \in Calls
    BY <1>4 DEF RunTool, Working, TypeOK
  <2>2. PICK m : m = Message("tool", <<call>>)
    OBVIOUS
  <2>3. m \in Messages /\ m.role = "tool" /\ messages' = Append(messages, m)
    BY <1>4, <2>1, <2>2, WellFormedMessages DEF RunTool, Reply, Message
  <2>4. Spent' = Spent
    BY <2>3, OtherStepsSpendNothing
  <2>5. /\ pc = "tools" /\ reason' = reason /\ Spent = turn + 1 /\ turn < MaxSteps
        /\ \/ pc' = "ask" /\ turn' = turn + 1
           \/ pc' = "tools" /\ turn' = turn
    BY <1>4 DEF RunTool, Working, Counted
  <2> QED
    BY <1>0, <2>4, <2>5 DEF Counted, WithinBudget
<1>5. CASE StepLimit
  <2>1. Spent' = Spent /\ pc = "ask" /\ ~(turn < MaxSteps) /\ pc' = "failed"
    BY <1>5, OtherStepsSpendNothing DEF StepLimit, TurnsLeft, conversation, Fails
  <2>2. Spent = MaxSteps
    BY <1>0, <2>1 DEF Counted
  <2> QED
    BY <2>1, <2>2 DEF Counted, WithinBudget
<1>6. CASE ModelFails \/ Disconnect
  <2>1. /\ Spent' = Spent /\ pc' \in {"failed", "dropped"} /\ pc \in {"ask", "tools"}
        /\ reason' = "ModelFailed" \/ reason' = reason
    BY <1>6, OtherStepsSpendNothing DEF ModelFails, Disconnect, conversation, Fails
  <2> QED
    BY <2>1 DEF Counted, WithinBudget
<1>7. CASE Others \/ UNCHANGED vars
  <2>1. Spent' = Spent /\ UNCHANGED <<pc, turn, reason>>
    BY <1>7, OtherStepsSpendNothing DEF Others, vars, conversation
  <2> QED
    BY <2>1 DEF Counted, WithinBudget
<1> QED
  BY <1>1, <1>2, <1>3, <1>4, <1>5, <1>6, <1>7 DEF Next, Turn

LEMMA InitIsCounted == Init => Counted
<1> SUFFICES ASSUME Init PROVE Counted
  OBVIOUS
<1>1. /\ DOMAIN messages = 1..2
      /\ messages[1].role = "system" /\ messages[2].role = "user"
  BY DEF Init, Message
<1>2. At("assistant") = {} /\ At("user") = {2}
  BY <1>1 DEF At
<1>3. Cardinality({}) = 0 /\ Cardinality({2}) = 1
  BY FS_EmptySet, FS_Singleton
<1>4. Spent = 0
  BY <1>2, <1>3 DEF Spent
<1> QED
  BY <1>4, AgentAssumption DEF Init, Counted, WithinBudget

\* Whatever the model replies, it is asked no more often than the step budget says,
\* and the run fails for its limit only with the whole budget spent.
THEOREM BudgetBindsTheModel == Spec => []WithinBudget
<1>1. TypeOK /\ Working /\ Counted /\ [Next]_vars => Counted'
  BY StepCounts
<1>2. Counted => WithinBudget
  BY DEF Counted
<1> QED
  BY <1>1, <1>2, InitIsCounted, RunIsTyped, PTL DEF Spec
=============================================================================
