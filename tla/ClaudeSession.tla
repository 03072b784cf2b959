---------------------------- MODULE ClaudeSession ----------------------------
(***************************************************************************)
(* A chat on Claude: ClaudeCodeSession (packages/claude-client/src/        *)
(* session.ts), its runtime, which works off operations one after the      *)
(* other, and its tool permissions, under one run of the chat at a time    *)
(* (run-registry.ts) and the row of the chat (engine-runtime.ts).  The     *)
(* conversation of the engine is that of Conversation.                     *)
(*                                                                         *)
(* A function is cut at its awaits.  The vendor's SDK with its process is  *)
(* external: one stream of messages and permission requests in the order   *)
(* they are written, a session file named here by the turn that began it,  *)
(* and an end, a death or an abort.  A tool use has one id for the action, *)
(* the permission and the elicitation.  Completed stands for failed        *)
(* actions, too, and cancelled for declined ones.  Selections of models    *)
(* and modes, the content of messages and the text of a replay are left    *)
(* out; inspect and the mode routes are a load without a replay.           *)
(***************************************************************************)
EXTENDS Conversation, Sequences

CONSTANT Overlaps   \* what the code does not exclude

\* Claude ends a turn while a permission is open; the first turn of a session file is
\* stopped or dies; a message comes before the chat was loaded.
OverlapKinds == {"prompts outlive turn", "throws unmarked", "send before load"}

ASSUME OverlapsAssumption == Overlaps \subseteq OverlapKinds
ASSUME ToolUseAssumption == Items = Requests

NoFile == NoTurn
Files == Turns \cup {NoFile}

VARIABLES
  conv,         \* the conversation of the engine
  permissions,  \* pendingPermissions
  session,      \* the session object: its conversation, remote id, replayedSessionId
  history,      \* how often each turn was replayed into the conversation
  op,           \* the operation at work
  waiting,      \* operationQueue
  run,          \* the run of the registry, and its pending elicitation
  row,          \* remoteThreadId of the chat's row
  claude,       \* the query at work
  stream,       \* what it has written and the session has not read
  files         \* the turns in each session file

vars == <<conv, permissions, session, history, op, waiting, run, row, claude, stream, files>>

Session == [open : BOOLEAN, remote : Files, replayed : Files]
NewSession == [open |-> FALSE, remote |-> NoFile, replayed |-> NoFile]

Operation == [kind : {"send", "load"}, turn : Turns \cup {NoTurn}, remote : Files]
NoOperation == [kind |-> "none"]

Run == [turn : Turns \cup {NoTurn}, phase : {"none", "waiting", "running", "late"},
        prompt : Requests \cup {NoRequest}, aborted : BOOLEAN]
NoRun(t) == [turn |-> t, phase |-> "none", prompt |-> NoRequest, aborted |-> FALSE]

Query == [phase : {"off", "starting", "working", "interrupted", "ended", "dead"},
          file : Files, used : SUBSET Items, asked : SUBSET Items, due : SUBSET Items]
NoQuery == [phase |-> "off", file |-> NoFile, used |-> {}, asked |-> {}, due |-> {}]

Message == [type : {"init", "result", "end"}]
             \cup [type : {"tool_use", "permission", "tool_result"}, item : Items]
About(type, a) == [type |-> type, item |-> a]

TypeOK ==
  /\ conv \in ConversationState
  /\ permissions \subseteq Requests
  /\ session \in Session
  /\ history \in [Turns -> Nat]
  /\ op \in Operation \cup {NoOperation}
  /\ waiting \in Seq(Operation)
  /\ run \in Run
  /\ row \in Files
  /\ claude \in Query
  /\ stream \in Seq(Message)
  /\ files \in [Turns -> SUBSET Turns]

\* A new chat.
Init ==
  /\ conv = ReadyConversation
  /\ permissions = {}
  /\ session = NewSession
  /\ history = [t \in Turns |-> 0]
  /\ op = NoOperation
  /\ waiting = <<>>
  /\ run = NoRun(NoTurn)
  /\ row = NoFile
  /\ claude = NoQuery
  /\ stream = <<>>
  /\ files = [t \in Turns |-> {}]

-----------------------------------------------------------------------------
(* Requests of the daemon *)

Asks(kind, t) == Append(waiting, [kind |-> kind, turn |-> t, remote |-> row])

\* The session file of an old chat was loaded into this session.
Loaded == row # NoFile => session.replayed = row

\* streamChat reads the remote id from the row before it asks the session.
Send(t) ==
  /\ run.phase = "none" /\ t = run.turn + 1
  /\ "send before load" \in Overlaps \/ Loaded
  /\ run' = [NoRun(t) EXCEPT !.phase = "waiting"]
  /\ waiting' = Asks("send", t)
  /\ UNCHANGED <<conv, permissions, session, history, op, row, claude, stream, files>>

\* loadChatSession; loads that wait together do what one does.
Load ==
  /\ row # NoFile \/ session.open
  /\ \A i \in DOMAIN waiting : waiting[i].kind # "load"
  /\ waiting' = Asks("load", NoTurn)
  /\ UNCHANGED <<conv, permissions, session, history, op, run, row, claude, stream, files>>

-----------------------------------------------------------------------------
(* The queue of operations *)

\* ensureConversation: a session without a conversation takes the remote id it is given.
Ensured(remote) ==
  IF session.open THEN session ELSE [NewSession EXCEPT !.open = TRUE, !.remote = remote]

\* enqueue and sendTextNow, to the start of the query: a message that was stopped while
\* it waited, or that the engine refuses, throws before the turn begins.
StartsTurn(next) ==
  /\ next.kind = "send"
  /\ waiting' = Tail(waiting)
  /\ IF run.aborted
     THEN /\ run' = NoRun(run.turn)
          /\ UNCHANGED <<conv, session, op, claude>>
     ELSE /\ session' = Ensured(next.remote)
          /\ IF CanStartTurn(conv)
             THEN /\ conv' = TurnPlanned(conv, next.turn)
                  /\ op' = next
                  /\ run' = [run EXCEPT !.phase = "running"]
                  /\ claude' = [NoQuery EXCEPT !.phase = "starting",
                                  !.file = IF next.remote = NoFile THEN next.turn
                                           ELSE next.remote]
             ELSE /\ run' = NoRun(run.turn)
                  /\ UNCHANGED <<conv, op, claude>>
  /\ UNCHANGED <<permissions, history, row, stream, files>>

StartsLoad(next) ==
  /\ next.kind = "load"
  /\ waiting' = Tail(waiting)
  /\ session' = Ensured(next.remote)
  /\ op' = next
  /\ UNCHANGED <<conv, permissions, history, run, row, claude, stream, files>>

Begins ==
  /\ op = NoOperation
  /\ waiting # <<>>
  /\ StartsTurn(Head(waiting)) \/ StartsLoad(Head(waiting))

\* replayHistory replays a session file once; then the row takes the remote id.
Loads ==
  LET replays == op.remote \notin {NoFile, session.replayed}
  IN /\ op.kind = "load"
     /\ op' = NoOperation
     /\ row' = IF session.remote = NoFile THEN row ELSE session.remote
     /\ IF replays
        THEN /\ history' = [t \in Turns |->
                              history[t] + IF t \in files[op.remote] THEN 1 ELSE 0]
             /\ session' = [session EXCEPT !.replayed = op.remote]
        ELSE UNCHANGED <<history, session>>
     /\ UNCHANGED <<conv, permissions, waiting, run, claude, stream, files>>

\* The configuration or the session file cannot be read.
LoadFails ==
  /\ op.kind = "load"
  /\ op' = NoOperation
  /\ UNCHANGED <<conv, permissions, session, history, waiting, run, row, claude, stream,
                 files>>

-----------------------------------------------------------------------------
(* A turn: the for-await loop of sendTextNow *)

\* canUseTool, to its await: the registry shows the permission asked last.
PermissionAsked(a) ==
  /\ permissions' = permissions \cup {a}
  /\ conv' = ElicitationOpened(ActionObserved(conv, a, op.turn), a, op.turn, a)
  /\ run' = [run EXCEPT !.prompt = a]

\* Its init message makes the conversation ready, which is idle, and tells the session
\* file.  A tool result closes the prompt of its tool.
Accepts(message) ==
  CASE message.type = "init" ->
         /\ conv' = StatusChanged(conv, "idle")
         /\ session' = [session EXCEPT !.remote = claude.file]
         /\ UNCHANGED <<permissions, run>>
    [] message.type = "tool_use" ->
         /\ conv' = ActionObserved(conv, message.item, op.turn)
         /\ UNCHANGED <<permissions, session, run>>
    [] message.type = "permission" ->
         /\ PermissionAsked(message.item)
         /\ UNCHANGED session
    [] message.type = "tool_result" ->
         /\ conv' = ActionUpdated(conv, message.item, "completed")
         /\ run' = [run EXCEPT !.prompt = IF @ = message.item THEN NoRequest ELSE @]
         /\ UNCHANGED <<permissions, session>>
    [] message.type = "result" ->
         /\ conv' = TurnTerminal(conv, op.turn)
         /\ UNCHANGED <<permissions, session, run>>

\* throwIfAborted comes before each message; canUseTool does not look at the signal.
Reads ==
  /\ op.kind = "send"
  /\ stream # <<>> /\ Head(stream).type # "end"
  /\ run.aborted => Head(stream).type = "permission"
  /\ Accepts(Head(stream))
  /\ stream' = Tail(stream)
  /\ UNCHANGED <<history, op, waiting, row, claude, files>>

\* The query is over: what it has not written is never read.
QueryEnds ==
  /\ op' = NoOperation
  /\ claude' = NoQuery
  /\ stream' = <<>>

\* Mutant of Returns: the row does not get the remote id.
ReturnsUnstored ==
  /\ op.kind = "send"
  /\ stream # <<>> /\ Head(stream).type = "end"
  /\ QueryEnds
  /\ session' = [session EXCEPT !.replayed = session.remote]
  /\ run' = IF run.prompt = NoRequest THEN NoRun(run.turn) ELSE [run EXCEPT !.phase = "late"]
  /\ UNCHANGED <<conv, permissions, history, row, waiting, files>>

\* finishTurn, and what streamChat and the registry do with its result: the row takes
\* the remote id, and a run with an open prompt stays for the answer.
Returns ==
  /\ op.kind = "send"
  /\ stream # <<>> /\ Head(stream).type = "end"
  /\ QueryEnds
  /\ session' = IF session.remote = NoFile THEN session
                ELSE [session EXCEPT !.replayed = session.remote]
  /\ row' = IF session.remote = NoFile THEN row ELSE session.remote
  /\ run' = IF run.prompt = NoRequest THEN NoRun(run.turn) ELSE [run EXCEPT !.phase = "late"]
  /\ UNCHANGED <<conv, permissions, history, waiting, files>>

\* throwIfAborted before the next message, or the error of a query that was aborted or
\* has died.
Broken ==
  \/ run.aborted /\ stream # <<>> /\ Head(stream).type # "permission"
  \/ claude.phase = "dead" /\ stream = <<>>

\* Mutant of Throws: the turn of the engine is left to the next message.
ThrowsUnended ==
  /\ op.kind = "send" /\ Broken
  /\ QueryEnds
  /\ run' = NoRun(run.turn)
  /\ UNCHANGED <<conv, permissions, session, history, waiting, row, files>>

\* The catch of sendTextNow: the turn ends, nothing is taken for replayed, and the run
\* ends with its prompts.
Throws ==
  /\ op.kind = "send" /\ Broken
  /\ QueryEnds
  /\ conv' = TurnTerminal(conv, op.turn)
  /\ run' = NoRun(run.turn)
  /\ UNCHANGED <<permissions, session, history, waiting, row, files>>

-----------------------------------------------------------------------------
(* The user *)

\* The action of a permission after its decision.
Decided(c, e, decision) ==
  IF decision = "allow" THEN ElicitationResolved(c, e)
  ELSE [ElicitationResolved(c, e) EXCEPT !.actions[e].phase = "cancelled"]

\* What the query makes of it, if it still waits; a cancel interrupts it.
Answered(query, e, decision) ==
  IF e \notin query.asked THEN query
  ELSE [query EXCEPT !.asked = @ \ {e}, !.due = @ \cup {e},
                     !.phase = IF decision = "cancel" /\ @ = "working"
                               THEN "interrupted" ELSE @]

\* resolveElicitation of the registry, then of the session, and canUseTool to its end.
Answer(e, decision) ==
  /\ run.prompt = e /\ e \in permissions
  /\ run' = IF run.phase = "late" THEN NoRun(run.turn) ELSE [run EXCEPT !.prompt = NoRequest]
  /\ permissions' = permissions \ {e}
  /\ conv' = Decided(conv, e, decision)
  /\ claude' = Answered(claude, e, decision)
  /\ UNCHANGED <<session, history, op, waiting, row, stream, files>>

\* Mutant of Stop: the query does not hear the signal.
StopUnheard ==
  /\ run.phase = "late" \/ (run.phase # "none" /\ ~ run.aborted)
  /\ op.kind = "send" =>
       "throws unmarked" \in Overlaps \/ session.remote = session.replayed
  /\ run' = IF run.phase = "late" THEN NoRun(run.turn) ELSE [run EXCEPT !.aborted = TRUE]
  /\ UNCHANGED <<conv, permissions, session, history, op, waiting, row, claude, stream, files>>

\* stop of the registry: it aborts a run, and with it the query, and drops one that is
\* only waiting for an answer.
Stop ==
  /\ run.phase = "late" \/ (run.phase # "none" /\ ~ run.aborted)
  /\ op.kind = "send" =>
       "throws unmarked" \in Overlaps \/ session.remote = session.replayed
  /\ run' = IF run.phase = "late" THEN NoRun(run.turn) ELSE [run EXCEPT !.aborted = TRUE]
  /\ claude' = IF op.kind = "send" THEN [claude EXCEPT !.phase = "dead"] ELSE claude
  /\ UNCHANGED <<conv, permissions, session, history, op, waiting, row, stream, files>>

\* The daemon ends and another one starts: rows and session files stay.
Restart ==
  /\ conv' = ReadyConversation
  /\ permissions' = {}
  /\ session' = NewSession
  /\ history' = [t \in Turns |-> 0]
  /\ op' = NoOperation
  /\ waiting' = <<>>
  /\ run' = NoRun(run.turn)
  /\ claude' = NoQuery
  /\ stream' = <<>>
  /\ UNCHANGED <<row, files>>

-----------------------------------------------------------------------------
(* Claude, from how session.ts uses it *)

Writes(messages) == stream' = stream \o messages

ClaudeStarts ==
  /\ claude.phase = "starting"
  /\ claude' = [claude EXCEPT !.phase = "working"]
  /\ files' = [files EXCEPT ![claude.file] = @ \cup {op.turn}]
  /\ Writes(<<[type |-> "init"]>>)
  /\ UNCHANGED <<conv, permissions, session, history, op, waiting, run, row>>

\* A tool runs at once or asks first; canUseTool then repeats what the message says.
ClaudeUses(a, asks) ==
  /\ claude.phase = "working"
  /\ a \notin claude.used /\ conv.actions[a] = Absent
  /\ claude' = [claude EXCEPT !.used = @ \cup {a},
                              !.asked = IF asks THEN @ \cup {a} ELSE @,
                              !.due = IF asks THEN @ ELSE @ \cup {a}]
  /\ Writes(<<About(IF asks THEN "permission" ELSE "tool_use", a)>>)
  /\ UNCHANGED <<conv, permissions, session, history, op, waiting, run, row, files>>

\* An interrupted turn also gives the tools that still ask a result.
ClaudeTools(a) ==
  /\ \/ claude.phase = "working" /\ a \in claude.due
     \/ claude.phase = "interrupted" /\ a \in claude.due \cup claude.asked
  /\ claude' = [claude EXCEPT !.due = @ \ {a}, !.asked = @ \ {a}]
  /\ Writes(<<About("tool_result", a)>>)
  /\ UNCHANGED <<conv, permissions, session, history, op, waiting, run, row, files>>

ClaudeEnds ==
  /\ \/ claude.phase = "working" /\ claude.asked = {}
     \/ /\ claude.phase = "interrupted"
        /\ claude.asked = {} \/ "prompts outlive turn" \in Overlaps
  /\ claude' = [claude EXCEPT !.phase = "ended"]
  /\ Writes(<<[type |-> "result"], [type |-> "end"]>>)
  /\ UNCHANGED <<conv, permissions, session, history, op, waiting, run, row, files>>

ClaudeDies ==
  /\ claude.phase \in {"starting", "working", "interrupted"}
  /\ "throws unmarked" \in Overlaps \/ claude.file = session.replayed
  /\ claude' = [claude EXCEPT !.phase = "dead"]
  /\ UNCHANGED <<conv, permissions, session, history, op, waiting, run, row, stream, files>>

-----------------------------------------------------------------------------
Claude ==
  \/ ClaudeStarts \/ ClaudeEnds \/ ClaudeDies
  \/ \E a \in Items : ClaudeTools(a) \/ \E asks \in BOOLEAN : ClaudeUses(a, asks)

Works == Begins \/ Loads \/ LoadFails \/ Reads \/ Returns \/ Throws

Next ==
  \/ \E t \in Turns : Send(t)
  \/ Load \/ Stop \/ Restart
  \/ \E e \in Requests, decision \in {"allow", "deny", "cancel"} : Answer(e, decision)
  \/ Works \/ Claude

\* The daemon goes on with what it can do; nobody has to answer, and Claude may hang.
Spec == Init /\ [][Next]_vars /\ WF_vars(Works)

-----------------------------------------------------------------------------
(* Properties *)

\* Nothing of a turn that has ended runs, awaits a decision or is open, whatever is
\* answered afterwards.
FinishedTurnIsSettled ==
  \A t \in Turns : conv.turns[t] # Absent /\ IsTerminal(conv.turns[t]) =>
    /\ \A a \in Items : conv.actions[a] # Absent /\ conv.actions[a].turn = t =>
         conv.actions[a].phase \notin {"running", "awaiting_decision"}
    /\ \A e \in OpenRequests(conv) : conv.elicitations[e].turn # t

Shown(t) == history[t] + IF conv.turns[t] = Absent THEN 0 ELSE 1

\* A turn is in the conversation once, live or replayed, though the session file holds
\* the live ones, too.
ShownOnce == \A t \in Turns : Shown(t) <= 1

\* A session file that counts as replayed is in the conversation as a whole.
HistoryIsWhole ==
  session.replayed # NoFile => \A t \in files[session.replayed] : Shown(t) > 0

\* A message goes on in the session file that the conversation belongs to: Claude knows
\* what is shown above it.
ContextIsKept == claude.phase # "off" => session.remote \in {NoFile, claude.file}

\* What the chat shows is what Claude has, across loads, failures, Stops and restarts:
\* every turn once, none missing, and each message written below the ones it follows.
ConversationIsTrue == ShownOnce /\ HistoryIsWhole /\ ContextIsKept

\* Between operations no turn is active, so the engine refuses no message; however the
\* last one ended.
NextMessageIsTaken == op = NoOperation => conv.active = {} /\ CanStartTurn(conv)

\* A prompt that is shown has its permission, and can be answered; a run that has its
\* result waits only for such a prompt.
PromptIsAnswerable ==
  /\ run.prompt # NoRequest => run.prompt \in permissions /\ run.phase \in {"running", "late"}
  /\ run.phase = "late" => run.prompt # NoRequest

\* However a turn ends and whatever is answered when, it leaves nothing behind: no tool
\* that runs for ever, no turn that blocks the next message, no prompt without an answer.
TurnEndsClean == FinishedTurnIsSettled /\ NextMessageIsTaken /\ PromptIsAnswerable

\* A run that was stopped ends, whatever Claude and the user do.
StopEnds == run.aborted ~> ~ run.aborted
=============================================================================
