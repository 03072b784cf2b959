---------------------------- MODULE CodexSession ----------------------------
(***************************************************************************)
(* A chat session on the Codex app server: sendText and Stop as            *)
(* DesktopAngelSession (packages/daemon/src/features/chat/                 *)
(* desktop-angel-session.ts) drives them, over AngelSession and its one    *)
(* ActiveTurn (crates/angel-engine-client/src/session), the engine's       *)
(* reducer (module Conversation), the table of pending requests, and the   *)
(* Codex adapter that encodes commands and decodes the lines of the agent  *)
(* (crates/angel-provider/src/codex).                                      *)
(*                                                                         *)
(* The two pipes of the agent process are sequences.  A call of the native *)
(* session holds its mutex to the end, so each is one action; only         *)
(* cancelTurn, which reads lines until the turn is over, is one action per *)
(* line.  The agent is external: it works on one turn at a time, answers   *)
(* each request, reports what it does in order and withdraws what it still *)
(* asks before it ends a turn; or it dies at any moment.                   *)
(***************************************************************************)
EXTENDS Conversation, Sequences

VARIABLES
  conv,        \* the conversation of the engine
  pending,     \* the table of pending requests
  activeTurn,  \* AngelSession.active_turn
  desktop,     \* progress of sendTextNow
  aborted,     \* the abort signal of the run has fired
  toAgent,     \* stdin of the agent
  toClient,    \* stdout of the agent, not read yet
  alive,       \* the agent process runs
  agent,       \* the turn the agent works on
  asks,        \* its server requests that wait for an answer
  items,       \* its thread items
  answers,     \* how often a server request was answered
  early        \* history: a Stop could not be encoded, its turn had no id yet

vars == <<conv, pending, activeTurn, desktop, aborted, toAgent, toClient,
          alive, agent, asks, items, answers, early>>
historyVars == <<answers, early>>
agentVars == <<alive, agent, asks, items>>

Phase == {"idle", "starting", "polling", "waiting", "cancelling", "draining"}

ActiveTurn == [turn : Turns \cup {NoTurn},                \* NoTurn: None
               request : Requests \cup {NoRequest}]       \* pending_elicitation_id
NoActiveTurn == [turn |-> NoTurn, request |-> NoRequest]

PendingRequest == [type : {"StartTurn", "CancelTurn"}, turn : Turns]
StartTurn(t) == [type |-> "StartTurn", turn |-> t]
CancelTurn(t) == [type |-> "CancelTurn", turn |-> t]

\* What the client writes ...
Command ==
  [type : {"turn/start", "turn/interrupt"}, turn : Turns]
    \cup [type : {"answer"}, request : Requests]

\* ... and the agent: responses and errors of its requests, and notifications.
Line ==
  [type : {"start response", "start error", "interrupt response",
           "turn/started", "turn/completed"}, turn : Turns]
    \cup [type : {"item/started", "item/completed"}, item : Items, turn : Turns]
    \cup [type : {"requestApproval"}, request : Requests, turn : Turns,
          item : Items \cup {NoItem}]
    \cup [type : {"serverRequest/resolved"}, request : Requests]
    \cup [type : {"thread/status/changed"}, status : Lifecycle]

About(type, t) == [type |-> type, turn |-> t]
Status(s) == [type |-> "thread/status/changed", status |-> s]
Withdraws(e) == [type |-> "serverRequest/resolved", request |-> e]

\* The agent owes the response to turn/start until it has written it.
Agent == [turn : Turns \cup {NoTurn}, interrupted : BOOLEAN, owes : BOOLEAN]
Resting == [turn |-> NoTurn, interrupted |-> FALSE, owes |-> FALSE]

TypeOK ==
  /\ conv \in ConversationState
  /\ pending \subseteq PendingRequest
  /\ activeTurn \in ActiveTurn
  /\ desktop \in Phase
  /\ aborted \in BOOLEAN
  /\ toAgent \in Seq(Command)
  /\ toClient \in Seq(Line)
  /\ alive \in BOOLEAN
  /\ agent \in Agent
  /\ asks \subseteq Requests
  /\ items \in [Items -> {"new", "running", "done"}]
  /\ answers \in [Requests -> Nat]
  /\ early \in BOOLEAN

Init ==
  /\ conv = ReadyConversation
  /\ pending = {}
  /\ activeTurn = NoActiveTurn
  /\ desktop = "idle"
  /\ aborted = FALSE
  /\ toAgent = <<>>
  /\ toClient = <<>>
  /\ alive = TRUE
  /\ agent = Resting
  /\ asks = {}
  /\ items = [a \in Items |-> "new"]
  /\ answers = [e \in Requests |-> 0]
  /\ early = FALSE

-----------------------------------------------------------------------------
(* Reading a line: decode, apply the events, complete the request *)

\* local_turn_id: the turn the agent names, else the focused turn that waits for
\* its id.  The agent runs no turns of other clients, so there always is one.
LocalTurn(c, t) ==
  IF c.turns[t] # Absent /\ c.turns[t].remote = "known" THEN t ELSE c.focused

\* ensure_local_turn_event
Ensured(c, t) ==
  IF c.turns[t] # Absent /\ c.turns[t].remote = "known" THEN c
  ELSE TurnStarted(c, LocalTurn(c, t))

\* The action of an item or an approval that was not seen before.
Observed(c, a, t) ==
  IF a = NoItem \/ (a \in Items /\ c.actions[a] # Absent) THEN c
  ELSE ActionObserved(c, a, t)

\* The response to turn/start tells the id of the turn, as turn/started does.
StartSucceeded(c, t) == TurnStarted(c, t)

\* The error of turn/start ends the turn; an error of any other request changes
\* nothing but the table.
StartFailed(c, t) == TurnTerminal(c, t)

\* turn/started and turn/completed
AgentTurnStarted(c, t) == TurnStarted(c, LocalTurn(c, t))
AgentTurnCompleted(c, t) == TurnTerminal(Ensured(c, t), LocalTurn(c, t))

\* item/started and item/completed
ItemSeen(c, a, t) == Observed(Ensured(c, t), a, LocalTurn(c, t))
ItemCompleted(c, a, t) == ActionUpdated(ItemSeen(c, a, t), a, "completed")

\* The server requests that ask for an approval or an answer.
ServerRequest(c, e, a, t) == ElicitationOpened(ItemSeen(c, a, t), e, LocalTurn(c, t), a)

\* serverRequest/resolved, by the user's answer or by the agent
ServerRequestResolved(c, e) ==
  IF c.elicitations[e] = Absent THEN c ELSE ElicitationResolved(c, e)

\* decode_message
Decoded(c, line) ==
  CASE line.type = "start response"  -> StartSucceeded(c, line.turn)
    [] line.type = "start error"     -> StartFailed(c, line.turn)
    [] line.type = "turn/started"    -> AgentTurnStarted(c, line.turn)
    [] line.type = "turn/completed"  -> AgentTurnCompleted(c, line.turn)
    [] line.type = "item/started"    -> ItemSeen(c, line.item, line.turn)
    [] line.type = "item/completed"  -> ItemCompleted(c, line.item, line.turn)
    [] line.type = "requestApproval" ->
         ServerRequest(c, line.request, line.item, line.turn)
    [] line.type = "serverRequest/resolved" -> ServerRequestResolved(c, line.request)
    [] line.type = "thread/status/changed" -> StatusChanged(c, line.status)
    [] OTHER -> c

\* Mutant of Completed: an error response leaves its request pending.
CompletedBySuccess(line) ==
  CASE line.type = "start response" -> {StartTurn(line.turn)}
    [] line.type = "interrupt response" -> {CancelTurn(line.turn)}
    [] OTHER -> {}

Completed(line) ==
  CASE line.type \in {"start response", "start error"} -> {StartTurn(line.turn)}
    [] line.type = "interrupt response" -> {CancelTurn(line.turn)}
    [] OTHER -> {}

\* Mutant of NextRequest: the requests the engine has open are not looked at.
NextRequestOfUpdate(c, current, line) == current

\* ActiveTurn after the update and next_turn_event's look at the engine: a turn
\* that is over is given up; else an open request of the turn becomes the
\* pending one.
NextRequest(c, current, line) ==
  LET kept == IF line.type = "serverRequest/resolved" /\ line.request = current
              THEN NoRequest ELSE current
      open == {e \in OpenRequests(c) : c.elicitations[e].turn = activeTurn.turn}
  IN IF line.type = "requestApproval" /\ line.request \in open THEN line.request
     ELSE IF kept = NoRequest /\ open # {} THEN CHOOSE e \in open : TRUE
     ELSE kept

ReceiveLine ==
  LET line == Head(toClient)
      c == Decoded(conv, line)
      t == activeTurn.turn
  IN /\ toClient # <<>>
     /\ toClient' = Tail(toClient)
     /\ conv' = c
     /\ pending' = pending \ Completed(line)
     /\ activeTurn' =
          IF t = NoTurn \/ IsTerminal(c.turns[t]) THEN NoActiveTurn
          ELSE [activeTurn EXCEPT !.request = NextRequest(c, @, line)]

-----------------------------------------------------------------------------
(* sendTextNow *)

\* The turn is not started before startTextTurn is called: the first message
\* starts the process, initializes it and opens the thread.
SendBegins ==
  /\ desktop = "idle"
  /\ desktop' = "starting"
  /\ aborted' = FALSE
  /\ UNCHANGED <<conv, pending, activeTurn, toAgent, toClient, agentVars, historyVars>>

\* The catch block of sendTextNow.  Once the message is stopped it tries to
\* cancel, the turn of the session or else the focused one, to an agent that is
\* dead or whose turn has no id yet: the plan takes effect, nothing is written.
Throws(c, requests) ==
  LET t == IF activeTurn'.turn # NoTurn THEN activeTurn'.turn ELSE c.focused
      cancels == aborted /\ CanCancel(c, t)
  IN /\ desktop' = "idle"
     /\ conv' = IF cancels THEN CancelPlanned(c, t) ELSE c
     /\ pending' = IF cancels THEN requests \cup {CancelTurn(t)} ELSE requests

\* start_text_turn and plan_start_turn
CanStart == activeTurn = NoActiveTurn /\ CanStartTurn(conv)

NextTurn(t) == conv.turns[t] = Absent /\ \A u \in Turns : u < t => conv.turns[u] # Absent

TurnStarts(t) ==
  /\ desktop = "starting" /\ alive
  /\ CanStart
  /\ NextTurn(t)
  /\ conv' = TurnPlanned(conv, t)
  /\ pending' = pending \cup {StartTurn(t)}
  /\ toAgent' = Append(toAgent, About("turn/start", t))
  /\ activeTurn' = [turn |-> t, request |-> NoRequest]
  /\ desktop' = IF aborted THEN "cancelling" ELSE "polling"
  /\ UNCHANGED <<aborted, toClient, agentVars, historyVars>>

\* The pipe is broken: the turn is planned, and the session has none.
TurnStartFails(t) ==
  /\ desktop = "starting" /\ ~ alive
  /\ CanStart
  /\ NextTurn(t)
  /\ UNCHANGED activeTurn
  /\ Throws(TurnPlanned(conv, t), pending \cup {StartTurn(t)})
  /\ UNCHANGED <<aborted, toAgent, toClient, agentVars, historyVars>>

\* "A chat turn is already running.", the refusals of the engine, and commands
\* before turn/start (the model, the mode) that meet a broken pipe.  The bound on
\* the turns shows up as a refusal, too.
TurnRefused ==
  /\ desktop = "starting"
  /\ ~ CanStart \/ ~ alive \/ \A t \in Turns : conv.turns[t] # Absent
  /\ UNCHANGED activeTurn
  /\ Throws(conv, pending)
  /\ UNCHANGED <<aborted, toAgent, toClient, agentVars, historyVars>>

\* nextTurnEvents reads a line and dispatchEvents looks at what came of it: the
\* result of the turn, a request to wait for, or nothing that ends the loop.
Reads ==
  /\ desktop = "polling"
  /\ ReceiveLine
  /\ desktop' = IF activeTurn'.turn = NoTurn THEN "idle"
                ELSE IF aborted THEN "cancelling"
                ELSE IF activeTurn'.request # NoRequest THEN "waiting"
                ELSE "polling"
  /\ UNCHANGED <<aborted, toAgent, agentVars, historyVars>>

\* nextTurnEvents returns without a line after 50 ms.
TimesOut ==
  /\ desktop = "polling"
  /\ toClient = <<>>
  /\ aborted
  /\ desktop' = "cancelling"
  /\ UNCHANGED <<conv, pending, activeTurn, aborted, toAgent, toClient, agentVars,
                 historyVars>>

\* The pipes are at their end: what the agent wrote before it died has been read.
ReadFails ==
  /\ desktop = "polling"
  /\ ~ alive /\ toClient = <<>>
  /\ UNCHANGED activeTurn
  /\ Throws(conv, pending)
  /\ UNCHANGED <<aborted, toAgent, toClient, agentVars, historyVars>>

\* Mutant of Resolve: the answer is sent, the engine waits for the confirmation.
ResolveUnconfirmed(e) ==
  /\ CanResolve(conv, e)
  /\ toAgent' = Append(toAgent, [type |-> "answer", request |-> e])
  /\ answers' = [answers EXCEPT ![e] = @ + 1]
  /\ activeTurn' = [activeTurn EXCEPT !.request = NoRequest]
  /\ UNCHANGED conv

\* Mutant of Resolve: the request stays the one that is shown.
ResolveKeepsRequest(e) ==
  /\ CanResolve(conv, e)
  /\ conv' = ElicitationResolved(ResolutionPlanned(conv, e), e)
  /\ toAgent' = Append(toAgent, [type |-> "answer", request |-> e])
  /\ answers' = [answers EXCEPT ![e] = @ + 1]
  /\ UNCHANGED activeTurn

\* resolve_elicitation: the plan and the encoding, which answers the agent and
\* resolves the elicitation at once.
Resolve(e) ==
  /\ CanResolve(conv, e)
  /\ conv' = ElicitationResolved(ResolutionPlanned(conv, e), e)
  /\ toAgent' = Append(toAgent, [type |-> "answer", request |-> e])
  /\ answers' = [answers EXCEPT ![e] = @ + 1]
  /\ activeTurn' = [activeTurn EXCEPT !.request = NoRequest]

\* The user decides.  The request shown is open (ShownRequestIsOpen), so the engine
\* does not refuse the answer.
Answers ==
  /\ desktop = "waiting" /\ alive
  /\ Resolve(activeTurn.request)
  /\ desktop' = "polling"
  /\ UNCHANGED <<pending, aborted, toClient, agentVars, early>>

\* The session takes the answer of the user, or its own in draining, for given, and
\* the write fails.
AnswerFails(phase) ==
  /\ desktop = phase /\ ~ alive
  /\ activeTurn.request # NoRequest
  /\ CanResolve(conv, activeTurn.request)
  /\ activeTurn' = [activeTurn EXCEPT !.request = NoRequest]
  /\ LET e == activeTurn.request
     IN Throws(ElicitationResolved(ResolutionPlanned(conv, e), e), pending)
  /\ UNCHANGED <<aborted, toAgent, toClient, agentVars, historyVars>>
UserAnswers == Answers \/ AnswerFails("waiting")

-----------------------------------------------------------------------------
(* Stop *)

IdIsKnown == activeTurn.turn # NoTurn /\ conv.turns[activeTurn.turn].remote = "known"

\* The abort signal fires; a wait for an answer is given up at once.
Stops ==
  /\ desktop \in {"starting", "polling", "waiting"}
  /\ ~ aborted
  /\ aborted' = TRUE
  /\ desktop' = IF desktop = "waiting" THEN "cancelling" ELSE desktop
  /\ UNCHANGED <<conv, pending, activeTurn, toAgent, toClient, agentVars, historyVars>>

\* Mutant of CancelBegins: the client ends the turn itself.
CancelEndsTurn ==
  /\ desktop = "cancelling"
  /\ CanCancel(conv, activeTurn.turn)
  /\ IdIsKnown
  /\ conv' = TurnTerminal(conv, activeTurn.turn)
  /\ toAgent' = Append(toAgent, About("turn/interrupt", activeTurn.turn))
  /\ activeTurn' = NoActiveTurn
  /\ desktop' = "idle"
  /\ UNCHANGED <<pending, aborted, toClient, agentVars, historyVars>>

\* cancelNativeTurn, up to the first line that cancel_turn drains.  The turn of
\* the session is active, so the engine plans the cancellation.
CancelBegins ==
  /\ desktop = "cancelling" /\ alive
  /\ CanCancel(conv, activeTurn.turn)
  /\ IdIsKnown
  /\ conv' = CancelPlanned(conv, activeTurn.turn)
  /\ pending' = pending \cup {CancelTurn(activeTurn.turn)}
  /\ toAgent' = Append(toAgent, About("turn/interrupt", activeTurn.turn))
  /\ desktop' = "draining"
  /\ UNCHANGED <<activeTurn, aborted, toClient, agentVars, historyVars>>

\* The adapter encodes it after that and needs the id of the turn: without it, and
\* without an agent, cancel_turn fails, sendTextNow ignores that, tries once more
\* to the same effect and throws, and the session keeps its active turn.
CancelFails ==
  /\ desktop = "cancelling"
  /\ ~ IdIsKnown \/ ~ alive
  /\ UNCHANGED activeTurn
  /\ Throws(conv, pending)
  /\ early' = (early \/ alive)
  /\ UNCHANGED <<aborted, toAgent, toClient, agentVars, answers>>

\* Mutant of DrainCancels: a request that comes up is left to the user.
DrainAsksUser ==
  /\ desktop = "draining"
  /\ activeTurn.request # NoRequest
  /\ desktop' = "waiting"
  /\ UNCHANGED <<conv, pending, activeTurn, aborted, toAgent, toClient, agentVars,
                 historyVars>>

\* drain_cancelled_turn: a request that is pending is cancelled before the next
\* line is read; the result of the turn ends it.  The second cancelNativeTurn, of
\* the catch block, finds no active turn then and changes nothing.
DrainCancels ==
  /\ desktop = "draining" /\ alive
  /\ activeTurn.request # NoRequest
  /\ Resolve(activeTurn.request)
  /\ UNCHANGED <<pending, desktop, aborted, toClient, agentVars, early>>

\* Mutant of DrainReads: the response to the interrupt is taken for the end.
DrainReadsResponse ==
  /\ desktop = "draining"
  /\ activeTurn.request = NoRequest
  /\ ReceiveLine
  /\ desktop' = IF activeTurn'.turn = NoTurn \/ Head(toClient).type = "interrupt response"
                THEN "idle" ELSE "draining"
  /\ UNCHANGED <<aborted, toAgent, agentVars, historyVars>>

DrainReads ==
  /\ desktop = "draining"
  /\ activeTurn.request = NoRequest
  /\ ReceiveLine
  /\ desktop' = IF activeTurn'.turn = NoTurn THEN "idle" ELSE "draining"
  /\ UNCHANGED <<aborted, toAgent, agentVars, historyVars>>

DrainFails ==
  /\ desktop = "draining"
  /\ activeTurn.request = NoRequest
  /\ ~ alive /\ toClient = <<>>
  /\ UNCHANGED activeTurn
  /\ Throws(conv, pending)
  /\ UNCHANGED <<aborted, toAgent, toClient, agentVars, historyVars>>

\* hydrate between two turns drains what the agent has written since.
Hydrates ==
  /\ desktop = "idle"
  /\ activeTurn = NoActiveTurn
  /\ ReceiveLine
  /\ UNCHANGED <<desktop, aborted, toAgent, agentVars, historyVars>>

-----------------------------------------------------------------------------
(* The agent *)

Writes(lines) == toClient' = toClient \o lines

Takes(type) == toAgent # <<>> /\ Head(toAgent).type = type /\ toAgent' = Tail(toAgent)

clientVars == <<conv, pending, activeTurn, desktop, aborted, historyVars>>

AgentStarts ==
  /\ Takes("turn/start")
  /\ agent = Resting
  /\ LET t == Head(toAgent).turn
     IN /\ agent' = [turn |-> t, interrupted |-> FALSE, owes |-> TRUE]
        /\ Writes(<<Status("active"), About("turn/started", t)>>)
  /\ UNCHANGED <<alive, asks, items, clientVars>>

\* The response may come late, but before the turn is over.
AgentResponds ==
  /\ agent.owes
  /\ agent' = [agent EXCEPT !.owes = FALSE]
  /\ Writes(<<About("start response", agent.turn)>>)
  /\ UNCHANGED <<alive, asks, items, toAgent, clientVars>>

AgentRejects ==
  /\ Takes("turn/start")
  /\ Writes(<<About("start error", Head(toAgent).turn)>>)
  /\ UNCHANGED <<agentVars, clientVars>>

AgentStartsItem(a) ==
  /\ agent.turn # NoTurn
  /\ items[a] = "new"
  /\ items' = [items EXCEPT ![a] = "running"]
  /\ Writes(<<[type |-> "item/started", item |-> a, turn |-> agent.turn]>>)
  /\ UNCHANGED <<alive, agent, asks, toAgent, clientVars>>

AgentCompletesItem(a) ==
  /\ agent.turn # NoTurn
  /\ items[a] = "running"
  /\ asks = {}
  /\ items' = [items EXCEPT ![a] = "done"]
  /\ Writes(<<[type |-> "item/completed", item |-> a, turn |-> agent.turn]>>)
  /\ UNCHANGED <<alive, agent, asks, toAgent, clientVars>>

\* An approval of an item, or a question that belongs to no item.  Each request
\* has an id of its own.
Asked(e) == e \in asks \/ answers[e] > 0 \/ conv.elicitations[e] # Absent
              \/ \E i \in 1..Len(toClient) :
                   toClient[i].type = "requestApproval" /\ toClient[i].request = e

AgentAsks(e, a) ==
  /\ agent.turn # NoTurn
  /\ ~ agent.interrupted
  /\ ~ Asked(e)
  /\ a = NoItem \/ (a \in Items /\ items[a] = "running")
  /\ asks' = asks \cup {e}
  /\ Writes(<<[type |-> "requestApproval", request |-> e, turn |-> agent.turn,
               item |-> a]>>)
  /\ UNCHANGED <<alive, agent, items, toAgent, clientVars>>

\* An answer to a request the agent has withdrawn is dropped.
AgentGetsAnswer ==
  /\ Takes("answer")
  /\ LET e == Head(toAgent).request
     IN /\ asks' = asks \ {e}
        /\ Writes(IF e \in asks THEN <<Withdraws(e)>> ELSE <<>>)
  /\ UNCHANGED <<alive, agent, items, clientVars>>

AgentGetsInterrupt ==
  /\ Takes("turn/interrupt")
  /\ LET t == Head(toAgent).turn
     IN /\ agent' = IF agent.turn = t THEN [agent EXCEPT !.interrupted = TRUE] ELSE agent
        /\ Writes(<<About("interrupt response", t)>>)
  /\ UNCHANGED <<alive, asks, items, clientVars>>

\* The turn completes, fails or is interrupted; the thread is idle again, or in
\* system error, and says so before or after the turn is completed.
AgentEnds ==
  /\ agent.turn # NoTurn
  /\ ~ agent.owes
  /\ asks = {} \/ agent.interrupted
  /\ agent' = Resting
  /\ asks' = {}
  /\ items' = [a \in Items |-> IF items[a] = "running" THEN "done" ELSE items[a]]
  /\ \E order \in {p \in [1..Cardinality(asks) -> asks] :
                     \A e \in asks : \E i \in DOMAIN p : p[i] = e},
        s \in {"idle", "faulted"}, statusFirst \in BOOLEAN :
       LET withdrawn == [i \in DOMAIN order |-> Withdraws(order[i])]
           over == About("turn/completed", agent.turn)
       IN Writes(withdrawn \o IF statusFirst THEN <<Status(s), over>>
                                             ELSE <<over, Status(s)>>)
  /\ UNCHANGED <<alive, toAgent, clientVars>>

\* What was written to it is lost; what it wrote can still be read.
AgentDies ==
  /\ alive
  /\ alive' = FALSE
  /\ agent' = Resting /\ asks' = {} /\ toAgent' = <<>>
  /\ UNCHANGED <<items, toClient, clientVars>>

-----------------------------------------------------------------------------
Start == (\E t \in Turns : TurnStarts(t) \/ TurnStartFails(t)) \/ TurnRefused
Poll == Reads \/ TimesOut \/ ReadFails
Cancel == CancelBegins \/ CancelFails \/ DrainCancels \/ AnswerFails("draining")
          \/ DrainReads \/ DrainFails
AgentWorks ==
  \/ \E a \in Items : AgentStartsItem(a) \/ AgentCompletesItem(a)
  \/ \E e \in Requests, a \in Items \cup {NoItem} : AgentAsks(e, a)
AgentReads ==
  AgentStarts \/ AgentRejects \/ AgentResponds \/ AgentGetsAnswer \/ AgentGetsInterrupt

Next == SendBegins \/ Start \/ Poll \/ UserAnswers \/ Stops \/ Cancel \/ Hydrates
        \/ AgentWorks \/ AgentReads \/ AgentEnds \/ AgentDies

\* The session's own loops go on, and the agent reads its input and ends a turn
\* in which nothing is asked or that is interrupted.  It need not die.
Fairness ==
  /\ WF_vars(Start)
  /\ WF_vars(Poll)
  /\ WF_vars(Cancel)
  /\ WF_vars(AgentReads)
  /\ WF_vars(AgentEnds)

Spec == Init /\ [][Next]_vars /\ Fairness

-----------------------------------------------------------------------------
(* Properties *)

\* A session that is not sending has no turn of its own and its engine no active
\* turn: the next message is not refused, and the agent does not work on for a
\* user who has stopped it.  A session whose agent has died keeps its turn, and so
\* does one in which a Stop came before the id of the turn.
HasNoTurn == activeTurn = NoActiveTurn /\ conv.active = {}
IdleSessionHasNoTurn == alive /\ ~ early /\ desktop = "idle" => HasNoTurn

\* What is asked of every Stop: the client "keeps consuming output until the terminal
\* state" (agent-ui-state-machine.md 215), so that an idle session has no turn.
StopDrains == alive /\ desktop = "idle" => HasNoTurn

\* The engine's view of what is active is the live turns, and there is at most
\* one (angel-engine-state-machine-design.md 444): no late response or
\* notification makes a finished turn active again.
ActiveTurnsAreLive ==
  /\ conv.active = {t \in Turns : IsLive(conv, t)}
  /\ Cardinality(conv.active) <= 1

\* When a turn is over nothing of it is left running or waiting for the user (the
\* same document, 447 and 448), whatever was still on its way when it ended.
FinishedTurnIsSettled ==
  \A t \in Turns : (conv.turns[t] # Absent /\ IsTerminal(conv.turns[t])) =>
    /\ \A a \in Items : conv.actions[a] # Absent /\ conv.actions[a].turn = t =>
         conv.actions[a].phase \in {"completed", "cancelled"}
    /\ \A e \in Requests : conv.elicitations[e] # Absent /\ conv.elicitations[e].turn = t =>
         conv.elicitations[e].phase \in {"resolved", "cancelled"}

\* The client never believes a turn over that the agent still works on or has
\* still to begin: cancelling is two-phase, the agent ends the turn.
ClientIsNotAhead ==
  \A t \in Turns : (conv.turns[t] # Absent /\ IsTerminal(conv.turns[t])) =>
    /\ agent.turn # t
    /\ \A i \in 1..Len(toAgent) : toAgent[i] # About("turn/start", t)

\* The one request the session shows is the one it can answer: the elicitation is
\* open, its turn awaits the user or is being stopped, and there is no other open
\* one that would be shadowed by it.
ShownRequestIsOpen ==
  /\ desktop = "waiting" => activeTurn.request # NoRequest
  /\ activeTurn.request # NoRequest => OpenRequests(conv) = {activeTurn.request}
  /\ (desktop = "polling" /\ activeTurn.turn # NoTurn) =>
       conv.turns[activeTurn.turn].phase # "awaiting_user"

\* A server request is answered at most once, although both the user and the
\* draining of a stopped turn answer.
AnsweredOnce == \A e \in Requests : answers[e] <= 1

\* Every request of the pending table is on its way to the agent, with the agent, or
\* its response is on its way back: none is left over, unless the agent has died or a
\* Stop came too early.
PendingIsInFlight ==
  alive /\ ~ early => \A p \in pending :
    \/ \E i \in 1..Len(toAgent) :
         toAgent[i] = About(IF p.type = "StartTurn" THEN "turn/start" ELSE "turn/interrupt",
                            p.turn)
    \/ agent.owes /\ p = StartTurn(agent.turn)
    \/ \E i \in 1..Len(toClient) : p \in Completed(toClient[i])

\* Every message sent is over some day if the user decides what is asked, also when
\* the agent dies.
SendEnds == []<>(desktop # "waiting") => (desktop # "idle" ~> desktop = "idle")

\* Stop ends the message without the user.
StopEnds == (aborted /\ desktop # "idle") ~> desktop = "idle"
=============================================================================
