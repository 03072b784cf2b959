------------------------------ MODULE PiSession ------------------------------
(***************************************************************************)
(* A chat session on Pi: PiAgentSession (packages/pi-client/src/           *)
(* session.ts), which works off its operations one after the other, over   *)
(* PiRpcClient (rpc-client.ts), which starts the agent process, matches    *)
(* responses with requests, gives each request 30 s and resolves a prompt  *)
(* at the next agent_end.                                                  *)
(*                                                                         *)
(* The two pipes are sequences.  A function is cut at its awaits.  The     *)
(* agent is external: it answers in order, works on one prompt at a time,  *)
(* refuses one that comes meanwhile, writes prompts to its session file,   *)
(* and dies at any moment (a line that does not parse is the same to the   *)
(* client, which then kills it).  setMode and inspect differ from hydrate  *)
(* in what they leave out; the questions of extensions are declined at     *)
(* once and change nothing.                                                *)
(***************************************************************************)
EXTENDS Integers, Sequences

CONSTANTS Operations,  \* the operations asked of the session, in that order (a bound)
          Overlaps,    \* what the code does not exclude
          Backlog      \* bound: events that wait to be read

NoOp == 0   \* no operation; as a turn: those of the session file from before
Turns == Operations \cup {NoOp}

\* A Stop before the prompt is sent; closing the session while its process starts or
\* an operation waits; a prompt that is refused, or answered too late; and a message
\* that is sent to an old chat before the chat is loaded.
OverlapKinds ==
  { "stop while starting", "close while starting", "prompt refused",
    "prompt times out", "send before load" }

ASSUME OperationsAssumption == Operations \subseteq Nat \ {0}
ASSUME OverlapsAssumption == Overlaps \subseteq OverlapKinds
ASSUME BacklogAssumption == Backlog \in Nat \ {0}

VARIABLES
  kind,      \* what each operation is
  op,        \* the operation at work, the others are in operationQueue
  phase,     \* where it waits
  done,      \* operations that have returned or thrown
  aborted,   \* operations whose abort signal has fired
  client,    \* piSession and its PiRpcClient
  closed,    \* close() was called
  turns,     \* turns of the engine's conversation
  history,   \* turns replayed into it
  replayed,  \* replayedSessionId
  alive,     \* the agent process runs
  toAgent,   \* its stdin
  toClient,  \* its stdout, not read yet
  agent,     \* the prompt it works on
  file,      \* turns in its session file
  shown      \* history: events as <<the turn they were shown in, their own turn>>

queueVars == <<kind, done, aborted>>
engineVars == <<turns, history, replayed>>
pipeVars == <<alive, toAgent, toClient, agent>>
vars == <<queueVars, op, phase, client, closed, engineVars, pipeVars, file, shown>>

Requests == {"get_state", "set_model", "get_messages", "prompt"}
Command == [type : Requests \cup {"abort"}, op : Operations]
Line == [type : {"response"}, to : Requests, op : Operations, ok : BOOLEAN,
         messages : SUBSET Turns]
          \cup [type : {"event", "agent_end"}, op : Operations]

Asks(type, o) == [type |-> type, op |-> o]
Agent == [turn : Turns, interrupted : BOOLEAN]
Resting == [turn |-> NoOp, interrupted |-> FALSE]

\* The request each phase waits for.  "running" waits for agent_end alone,
\* "answering" has seen it and waits for the response to the prompt.
Awaits ==
  [starting |-> "get_state", selecting |-> "set_model", replaying |-> "get_messages",
   prompting |-> "prompt", answering |-> "prompt"]
InTurn == {"prompting", "running", "answering"}   \* activeTurn is set
Waits == DOMAIN Awaits \cup {"running"}

TypeOK ==
  /\ kind \in [Operations -> {"none", "send", "hydrate"}]
  /\ op \in Turns
  /\ phase \in Waits \cup {"idle", "configuring"}
  /\ done \subseteq Operations
  /\ aborted \subseteq Operations
  /\ client \in {"none", "starting", "open", "failed"}
  /\ closed \in BOOLEAN
  /\ turns \subseteq Operations
  /\ history \subseteq Turns
  /\ replayed \in BOOLEAN
  /\ alive \in BOOLEAN
  /\ toAgent \in Seq(Command)
  /\ toClient \in Seq(Line)
  /\ agent \in Agent
  /\ file \subseteq Turns
  /\ shown \subseteq Operations \X Operations

Init ==
  /\ kind = [o \in Operations |-> "none"]
  /\ op = NoOp
  /\ phase = "idle"
  /\ done = {}
  /\ aborted = {}
  /\ client = "none"
  /\ closed = FALSE
  /\ turns = {}
  /\ history = {}
  /\ replayed = FALSE
  /\ alive = FALSE
  /\ toAgent = <<>>
  /\ toClient = <<>>
  /\ agent = Resting
  /\ file \in {{}, {NoOp}}       \* a new chat, or one whose session file is old
  /\ shown = {}

-----------------------------------------------------------------------------
(* PiRpcClient *)

\* send: what is written to a process that has died is lost, and so is the request
\* when its exit is noticed.
Writes(command) ==
  toAgent' = IF alive THEN Append(toAgent, command) ELSE toAgent

\* stop, and the kill in fail: the process is gone, and what it wrote is not read.
Killed ==
  /\ alive' = FALSE
  /\ toAgent' = <<>>
  /\ toClient' = <<>>
  /\ agent' = Resting

\* The operation returns or throws, and the next may begin.
Ends ==
  /\ op' = NoOp
  /\ phase' = "idle"
  /\ done' = done \cup {op}

\* The operation goes on to wait in p.
GoesTo(p) ==
  /\ phase' = p
  /\ UNCHANGED <<op, done>>

-----------------------------------------------------------------------------
(* Operations *)

\* A run of the chat sends, and a window loads the chat; there is one run at a time.
Ask(o, k) ==
  /\ ~ closed
  /\ kind[o] = "none" /\ \A p \in Operations : p < o => kind[p] # "none"
  /\ k = "send" =>
       /\ \A p \in Operations : kind[p] = "send" => p \in done
       /\ "send before load" \in Overlaps \/ NoOp \notin file \/ replayed
  /\ kind' = [kind EXCEPT ![o] = k]
  /\ UNCHANGED <<done, aborted, op, phase, client, closed, engineVars, pipeVars, file, shown>>

Queued(o) == kind[o] # "none" /\ o \notin done /\ o # op

\* enqueue runs the action when those before it have settled: throwIfAborted, then
\* ensurePiSession.
Begins(o) ==
  /\ op = NoOp
  /\ Queued(o) /\ \A p \in Operations : p < o => ~ Queued(p)
  /\ IF kind[o] = "send" /\ o \in aborted
     THEN /\ done' = done \cup {o}
          /\ UNCHANGED <<op, phase, client, pipeVars>>
     ELSE /\ op' = o
          /\ UNCHANGED done
          /\ IF client = "none"
             THEN /\ client' = "starting"
                  /\ phase' = "starting"
                  /\ alive' = TRUE
                  /\ toAgent' = <<Asks("get_state", o)>>
                  /\ UNCHANGED <<toClient, agent>>
             ELSE /\ phase' = "configuring"
                  /\ UNCHANGED <<client, pipeVars>>
  /\ UNCHANGED <<kind, aborted, closed, engineVars, file, shown>>

\* sendTextNow starts the turn of the engine, listens for the abort and prompts; a
\* client that is dead or stopped rejects the prompt at once.
Prompts ==
  /\ turns' = turns \cup {op}
  /\ UNCHANGED <<history, replayed>>
  /\ IF client = "open"
     THEN /\ GoesTo("prompting")
          /\ Writes(Asks("prompt", op))
     ELSE /\ Ends
          /\ UNCHANGED toAgent

\* loadRuntimeConfiguration has read the files it reads once.  A message with a model
\* or an effort asks for it first; loading the chat replays the session file, once.
Configured ==
  /\ phase = "configuring"
  /\ \/ /\ kind[op] = "send"
        /\ Prompts
     \/ /\ \/ kind[op] = "send" /\ client # "none"
           \/ kind[op] = "hydrate" /\ client # "none" /\ ~ replayed
        /\ LET next == IF kind[op] = "send" THEN "selecting" ELSE "replaying"
           IN IF client = "open"
              THEN GoesTo(next) /\ Writes(Asks(Awaits[next], op))
              ELSE Ends /\ UNCHANGED toAgent
        /\ UNCHANGED engineVars
     \/ /\ kind[op] = "hydrate" /\ (client = "none" \/ replayed)
        /\ Ends
        /\ UNCHANGED <<engineVars, toAgent>>
  /\ UNCHANGED <<kind, aborted, client, closed, alive, toClient, agent, file, shown>>

ConfigurationFails ==
  /\ phase = "configuring"
  /\ Ends
  /\ UNCHANGED <<kind, aborted, client, closed, engineVars, pipeVars, file, shown>>

\* Mutant of Returns: the turn is not taken for replayed.
ReturnsUnmarked ==
  /\ Ends
  /\ UNCHANGED engineVars

\* The prompt resolves; finishTurn takes the session file for replayed.
Returns ==
  /\ Ends
  /\ replayed' = TRUE
  /\ UNCHANGED <<turns, history>>

\* A response that somebody still waits for.  Whether the model was set, or the prompt
\* accepted, is not looked at.
ReadAwaited(line) ==
  CASE phase = "starting" /\ line.ok ->
         /\ client' = "open"
         /\ GoesTo("configuring")
         /\ toClient' = Tail(toClient)
         /\ UNCHANGED <<engineVars, alive, toAgent, agent>>
    [] phase = "starting" /\ ~ line.ok ->
         /\ client' = "none"
         /\ Ends /\ Killed
         /\ UNCHANGED engineVars
    [] phase = "selecting" ->
         /\ Prompts
         /\ toClient' = Tail(toClient)
         /\ UNCHANGED <<client, alive, agent>>
    [] phase = "replaying" ->
         /\ Ends
         /\ history' = IF line.ok THEN line.messages ELSE history
         /\ replayed' = line.ok
         /\ toClient' = Tail(toClient)
         /\ UNCHANGED <<client, turns, alive, toAgent, agent>>
    [] phase = "prompting" ->
         /\ GoesTo("running")
         /\ toClient' = Tail(toClient)
         /\ UNCHANGED <<client, engineVars, alive, toAgent, agent>>
    [] phase = "answering" ->
         /\ Returns
         /\ toClient' = Tail(toClient)
         /\ UNCHANGED <<client, alive, toAgent, agent>>

Awaited(line) == line.op = op /\ phase \in DOMAIN Awaits /\ line.to = Awaits[phase]

ReadResponse ==
  LET line == Head(toClient)
  IN /\ client \in {"starting", "open"}
     /\ toClient # <<>> /\ line.type = "response"
     /\ IF Awaited(line)
        THEN ReadAwaited(line)
        ELSE /\ toClient' = Tail(toClient)
             /\ UNCHANGED <<op, phase, done, client, engineVars, alive, toAgent, agent>>
     /\ UNCHANGED <<kind, aborted, closed, file, shown>>

\* Events go to the turn that is active, if there is one; agent_end also resolves
\* every waiter.
ReadEvent ==
  LET line == Head(toClient)
  IN /\ client \in {"starting", "open"}
     /\ toClient # <<>> /\ line.type # "response"
     /\ toClient' = Tail(toClient)
     /\ shown' = IF phase \in InTurn THEN shown \cup {<<op, line.op>>} ELSE shown
     /\ CASE line.type = "agent_end" /\ phase = "running" -> Returns
          [] line.type = "agent_end" /\ phase = "prompting" ->
               GoesTo("answering") /\ UNCHANGED engineVars
          [] OTHER -> UNCHANGED <<op, phase, done, engineVars>>
     /\ UNCHANGED <<kind, aborted, client, closed, alive, toAgent, agent, file>>

-----------------------------------------------------------------------------
(* What goes wrong, and what ends it *)

\* Mutant of StartFails: the process that did not answer in time is not stopped.
StartFailsUnstopped ==
  /\ client' = "none"
  /\ Ends
  /\ UNCHANGED pipeVars

\* start: a failure of the first request stops the process.
StartFails ==
  /\ client' = "none"
  /\ Ends
  /\ Killed

\* The 30 s of a request are over.
TimesOut ==
  /\ phase \in DOMAIN Awaits
  /\ phase \in InTurn => "prompt times out" \in Overlaps
  /\ IF phase = "starting" THEN StartFails
     ELSE Ends /\ UNCHANGED <<client, pipeVars>>
  /\ UNCHANGED <<kind, aborted, closed, engineVars, file, shown>>

\* fail: everything that waits is rejected.  The client stays in piSession.
Fails ==
  /\ client \in {"starting", "open"} /\ ~ alive
  /\ client' = IF client = "starting" THEN "none" ELSE "failed"
  /\ IF phase \in Waits THEN Ends ELSE UNCHANGED <<op, phase, done>>
  /\ Killed
  /\ UNCHANGED <<kind, aborted, closed, engineVars, file, shown>>

\* Mutant of Stops: the signal is not listened to any more when the prompt is answered.
StopsPrompting ==
  IF phase = "prompting" THEN Writes(Asks("abort", op)) ELSE UNCHANGED toAgent

\* The abort listener of sendTextNow.
Stops ==
  IF phase \in InTurn THEN Writes(Asks("abort", op)) ELSE UNCHANGED toAgent

\* The signal of the run fires; before the prompt nothing listens to it.
Stop(o) ==
  /\ kind[o] = "send" /\ o \notin done \cup aborted
  /\ aborted' = aborted \cup {o}
  /\ o = op /\ phase \notin InTurn => "stop while starting" \in Overlaps
  /\ IF o = op THEN Stops ELSE UNCHANGED toAgent
  /\ UNCHANGED <<kind, done, op, phase, client, closed, engineVars, alive, toClient,
                 agent, file, shown>>

\* close: a process that is still starting is in no field yet, and is not stopped.
Close ==
  /\ ~ closed
  /\ closed' = TRUE
  /\ client = "starting" \/ (\E o \in Operations : Queued(o)) =>
       "close while starting" \in Overlaps
  /\ IF client = "starting"
     THEN UNCHANGED <<op, phase, done, client, pipeVars>>
     ELSE /\ client' = "none"
          /\ Killed
          /\ IF phase \in Waits THEN Ends ELSE UNCHANGED <<op, phase, done>>
  /\ UNCHANGED <<kind, aborted, engineVars, file, shown>>

-----------------------------------------------------------------------------
(* The agent *)

Answer(command, ok, messages) ==
  Append(toClient, [type |-> "response", to |-> command.type, op |-> command.op,
                    ok |-> ok, messages |-> messages])

\* It takes a prompt when it is at rest and accepts it; only an interrupt has no
\* answer that matters.
AgentTakes(ok) ==
  LET command == Head(toAgent)
      refuses == agent.turn # NoOp \/ ~ ok
  IN /\ toAgent # <<>>
     /\ toAgent' = Tail(toAgent)
     /\ CASE command.type = "abort" ->
               /\ agent' = [agent EXCEPT !.interrupted = agent.turn # NoOp]
               /\ UNCHANGED <<toClient, file>>
          [] command.type = "prompt" ->
               /\ ~ ok => "prompt refused" \in Overlaps
               /\ toClient' = Answer(command, ~ refuses, {})
               /\ IF refuses THEN UNCHANGED <<agent, file>>
                  ELSE /\ agent' = [turn |-> command.op, interrupted |-> FALSE]
                       /\ file' = file \cup {command.op}
          [] OTHER ->
               /\ toClient' = Answer(command, ok,
                                     IF command.type = "get_messages" THEN file ELSE {})
               /\ UNCHANGED <<agent, file>>
     /\ UNCHANGED <<queueVars, op, phase, client, closed, engineVars, alive, shown>>

AgentWorks ==
  /\ agent.turn # NoOp /\ Len(toClient) < Backlog
  /\ toClient' = Append(toClient, Asks("event", agent.turn))
  /\ UNCHANGED <<queueVars, op, phase, client, closed, engineVars, alive, toAgent, agent,
                 file, shown>>

AgentEnds ==
  /\ agent.turn # NoOp
  /\ toClient' = Append(toClient, Asks("agent_end", agent.turn))
  /\ agent' = Resting
  /\ UNCHANGED <<queueVars, op, phase, client, closed, engineVars, alive, toAgent, file,
                 shown>>

\* What it has written can still be read.
AgentDies ==
  /\ alive
  /\ alive' = FALSE
  /\ toAgent' = <<>>
  /\ agent' = Resting
  /\ UNCHANGED <<queueVars, op, phase, client, closed, engineVars, toClient, file, shown>>

-----------------------------------------------------------------------------
Next ==
  \/ \E o \in Operations : Ask(o, "send") \/ Ask(o, "hydrate") \/ Begins(o) \/ Stop(o)
  \/ Configured \/ ConfigurationFails \/ ReadResponse \/ ReadEvent
  \/ TimesOut \/ Fails \/ Close
  \/ \E ok \in BOOLEAN : AgentTakes(ok)
  \/ AgentWorks \/ AgentEnds \/ AgentDies

\* The daemon goes on with what it can, and the agent reads what it is asked and ends
\* a turn that was interrupted.
Fairness ==
  /\ WF_vars((\E o \in Operations : Begins(o)) \/ Configured \/ ConfigurationFails)
  /\ WF_vars(ReadResponse \/ ReadEvent)
  /\ WF_vars(Fails)
  /\ WF_vars(\E ok \in BOOLEAN : AgentTakes(ok))
  /\ WF_vars(agent.interrupted /\ AgentEnds)

Spec == Init /\ [][Next]_vars /\ Fairness

-----------------------------------------------------------------------------
(* Properties *)

\* Every event is shown in the turn it belongs to: a message that is sent after one
\* that failed or was stopped gets nothing of that one, and does not end with it.
EventsAreOwn == \A e \in shown : e[1] = e[2]

\* A turn is in the conversation once, live or replayed.
ShownOnce == turns \cap history = {}

\* Once the session file counts as replayed, all of it is in the conversation.
HistoryIsWhole == replayed => file \subseteq turns \cup history

\* What a window that loads the chat is shown is what Pi has: each turn once, none is
\* missing, and nothing of another turn in it.
ConversationIsTrue == EventsAreOwn /\ ShownOnce /\ HistoryIsWhole

\* A process that runs can be stopped: a session that is not closed has it in a field,
\* whatever failed and whoever asked for it.
ProcessIsOwned == alive => client \in {"starting", "open"} /\ ~ closed

\* A message that was stopped ends.
StopEnds == \A o \in Operations : o \in aborted ~> o \in done
=============================================================================
