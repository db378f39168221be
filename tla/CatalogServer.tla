---------------------------- MODULE CatalogServer ----------------------------
(***************************************************************************)
(* tools/catalog/src/mcp.ts: one session of the MCP server, over the checkout *)
(* of main that developers and releases move (Release).  A client sends       *)
(* lines and closes its end; an answer is the request's number and what it    *)
(* was read from.  Names of tools, their filters and texts are left out.      *)
(***************************************************************************)
EXTENDS Release

CONSTANT MaxRequests   \* bound: lines a client sends

(* What a line asks for: a tool that reads the scan ("scan"), GitHub once the   *)
(* scan has named the repository ("github") or Jira ("jira"), a committed      *)
(* artefact ("resource"), a list, a greeting or something refused ("plain"), as *)
(* what is no JSON is too.  A line without an id is a notification, which is    *)
(* dispatched all the same.  It may also be JSON that is null ("null").        *)
Remote == {"github", "jira"}
Lines ==
  [asks: {"scan", "resource", "plain"} \cup Remote, id: BOOLEAN]
    \cup {[asks |-> "null", id |-> FALSE]}

VARIABLES
  sent,       \* the lines sent; a request is its number
  closed,     \* the client closed its end
  queue,      \* requests chained behind the one being handled
  handling,   \* requests whose handler has not finished
  cached,     \* the tree the server scanned, or NoTree
  out,        \* answers, in order: request and what it was read from
  exited

serverVars == <<sent, closed, queue, handling, cached, out, exited>>

NoTree == [scanned |-> FALSE]
Nowhere == [read |-> "nothing"]
Scanned(tree) == [scanned |-> TRUE, tree |-> tree]

\* on("data")
Send(line) ==
  /\ ~closed /\ ~exited /\ Len(sent) < MaxRequests /\ Spend
  /\ sent' = Append(sent, line)
  /\ queue' = Append(queue, Len(sent) + 1)
  /\ UNCHANGED <<closed, handling, cached, out, exited>>
  /\ UNCHANGED <<main, docs, trigger, run, tags, base, oci, lost, cut>>

\* on("end")
Close ==
  /\ ~closed /\ closed' = TRUE
  /\ UNCHANGED <<sent, queue, handling, cached, out, exited>>

\* Scanned on first use and kept.
scanEachTime == Scanned(main.tree)
workspace == IF cached = NoTree THEN Scanned(main.tree) ELSE cached

Source(asks) ==
  CASE asks = "scan" -> [read |-> "scan", of |-> workspace.tree]
    [] asks = "resource" -> [read |-> "artefacts", of |-> docs]
    [] OTHER -> Nowhere

\* A line that is not JSON is answered too; a notification never is.
Answer(request, source) == out' = Append(out, [request |-> request, source |-> source])
AnswerTo(request, source) ==
  IF sent[request].id THEN Answer(request, source) ELSE UNCHANGED out

\* The next link of the chain; only the remote tools leave it waiting.  The id of
\* a line that is null cannot be read: nothing catches that, and the process dies
\* with the rest of the chain.
Unchained(request) == TRUE
Chained(request) == handling = {}
Serve ==
  /\ queue # <<>> /\ Chained(Head(queue)) /\ ~exited
  /\ LET request == Head(queue)
         asks == sent[request].asks IN
     /\ IF asks \in Remote THEN handling' = handling \cup {request} /\ UNCHANGED out
        ELSE UNCHANGED handling /\ AnswerTo(request, Source(asks))
     /\ cached' = IF asks \in {"scan", "github"} THEN workspace ELSE cached
     /\ exited' = (asks = "null")
  /\ queue' = Tail(queue)
  /\ UNCHANGED <<sent, closed>>

\* gh or Jira answered, or failed, which is an answer too.
RemoteAnswers ==
  /\ ~exited
  /\ \E request \in handling :
       AnswerTo(request, Nowhere) /\ handling' = handling \ {request}
  /\ UNCHANGED <<sent, closed, queue, cached, exited>>

\* The last link of the chain.
Exit ==
  /\ closed /\ queue = <<>> /\ handling = {} /\ ~exited
  /\ exited' = TRUE
  /\ UNCHANGED <<sent, closed, queue, handling, cached, out>>

-----------------------------------------------------------------------------
ServerInit ==
  /\ sent = <<>> /\ closed = FALSE /\ queue = <<>> /\ handling = {}
  /\ cached = NoTree /\ out = <<>> /\ exited = FALSE

Init == ReleaseInit /\ ServerInit
Next ==
  \/ \E d \in Dirs : Commit(d) /\ UNCHANGED serverVars
  \/ \E d \in Dirs : kclPublishExecutor(d) /\ UNCHANGED serverVars
  \/ Dispatch /\ UNCHANGED serverVars
  \/ VersionAndTag /\ UNCHANGED serverVars
  \/ PushMain /\ UNCHANGED serverVars
  \/ Finish /\ UNCHANGED serverVars
  \/ Cancel /\ UNCHANGED serverVars
  \/ RetryPublish /\ UNCHANGED serverVars
  \/ \E line \in Lines : Send(line)
  \/ Close /\ UNCHANGED releaseVars
  \/ Serve /\ UNCHANGED releaseVars
  \/ RemoteAnswers /\ UNCHANGED releaseVars
  \/ Exit /\ UNCHANGED releaseVars

Spec == Init /\ [][Next]_<<releaseVars, serverVars>>

-----------------------------------------------------------------------------
\* Answers are in request order ("serialising keeps responses in request order"),
\* one for each request and none for a notification; the server does not exit
\* owing one, unless it was killed by the null it had just read.
Owed == {i \in DOMAIN sent : sent[i].id}
Pending == ToSet(queue) \cup handling
Killed == \E i \in DOMAIN sent : i \notin Pending /\ sent[i].asks = "null"
AnswersInOrder ==
  /\ \A i, j \in DOMAIN out : i < j => out[i].request < out[j].request
  /\ {out[i].request : i \in DOMAIN out} = Owed \ Pending
  /\ exited => Pending = {} \/ Killed

\* The tools of a session describe one tree, however main moves meanwhile.
OneSnapshot ==
  \A i, j \in DOMAIN out :
    LET a == out[i].source  b == out[j].source IN
    a.read = "scan" /\ b.read = "scan" => a.of = b.of
=============================================================================
