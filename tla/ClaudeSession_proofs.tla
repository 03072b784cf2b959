------------------------- MODULE ClaudeSession_proofs -------------------------
(***************************************************************************)
(* Theorems about ClaudeSession, for any turns, tools and bounds, across   *)
(* failures, Stops and restarts: every safety property of the module.      *)
(*                                                                         *)
(* Three invariants, each on top of the first.  Base holds whatever        *)
(* overlaps: when the session sends Claude is at work on that turn, the    *)
(* only active one; its stream ends with the result and the end; and what  *)
(* it has used is an action, or will be when the stream is read.  Settles  *)
(* says that whoever asks or runs is of the active turn.  Truth follows    *)
(* the session file from the query to the session and to the row.          *)
(***************************************************************************)
EXTENDS ClaudeSession, FiniteSetTheorems, TLAPS

Sending == op.kind = "send"

\* A message that begins an action of the turn.
Opening(m) == m.type \in {"tool_use", "permission"}

\* Claude is at work just while the session sends, which is what the run does; a run is
\* of a turn, and a message of the turn of the run.
WorkOK ==
  /\ claude.phase # "off" <=> Sending
  /\ stream # <<>> => Sending
  /\ Sending <=> run.phase = "running"
  /\ Sending => op.turn = run.turn /\ claude.file \in Turns
  /\ run.phase # "none" => run.turn \in Turns

\* A message that waits is that of the run, and waits once.
WaitingOK ==
  \A i \in 1 .. Len(waiting) : waiting[i].kind = "send" =>
    /\ run.phase = "waiting" /\ waiting[i].turn = run.turn
    /\ \A j \in 1 .. Len(waiting) : waiting[j].kind = "send" => j = i

\* The active turns are the live ones: that of the operation, or none.
LiveOK ==
  /\ conv.lifecycle \in {"idle", "active"}
  /\ \A t \in Turns : t \in conv.active <=> IsLive(conv, t)
  /\ conv.active # {} => Sending /\ conv.active = {op.turn}
  /\ Sending => conv.turns[op.turn] # Absent

\* The result is the last but one of what a query writes and the end the last, of a query
\* that is over; when the result is read only the end is left.
StreamOK ==
  /\ Sending /\ conv.active = {} => Len(stream) = 1 /\ stream[1].type = "end"
  /\ \A i \in 1 .. Len(stream) :
       /\ stream[i].type = "end" =>
            i = Len(stream) /\ (conv.active = {} \/ (i > 1 /\ stream[i - 1].type = "result"))
       /\ stream[i].type = "result" =>
            i = Len(stream) - 1 /\ conv.active # {} /\ stream[i + 1].type = "end"
       /\ stream[i].type \in {"end", "result"} => claude.phase \in {"ended", "dead"}
  /\ claude.phase = "starting" => stream = <<>>

\* What a query uses is an action, or will be when its message is read; the message that
\* begins an action comes once, and before the result of the tool.
ItemsOK ==
  /\ claude.asked \cup claude.due \subseteq claude.used
  /\ \A i \in 1 .. Len(stream) : Opening(stream[i]) =>
       /\ conv.actions[stream[i].item] = Absent
       /\ stream[i].item \in claude.used
       /\ \A j \in 1 .. Len(stream) :
            Opening(stream[j]) /\ stream[j].item = stream[i].item => j = i
  /\ \A i \in 1 .. Len(stream) :
       stream[i].type = "tool_result" /\ conv.actions[stream[i].item] = Absent =>
         \E j \in 1 .. Len(stream) :
           j < i /\ Opening(stream[j]) /\ stream[j].item = stream[i].item
  /\ \A a \in claude.used : conv.actions[a] = Absent =>
       \E j \in 1 .. Len(stream) : Opening(stream[j]) /\ stream[j].item = a

\* A permission has its elicitation and its action, of the same turn; the prompt that is
\* shown has its permission, and is what a run waits for that has its result.
PermissionsOK ==
  /\ \A e \in permissions :
       /\ conv.elicitations[e] # Absent /\ conv.elicitations[e].item = e
       /\ conv.actions[e] # Absent /\ conv.actions[e].turn = conv.elicitations[e].turn
       /\ conv.turns[conv.elicitations[e].turn] # Absent
  /\ PromptIsAnswerable

\* What holds whatever overlaps.
Base == TypeOK /\ WorkOK /\ WaitingOK /\ LiveOK /\ StreamOK /\ ItemsOK /\ PermissionsOK

-----------------------------------------------------------------------------
(* Operations and what they keep of a conversation.                        *)

\* d has the turns of c, and each is over in d if and only if it is in c.
SameTurns(c, d) ==
  \A t \in Turns : /\ d.turns[t] = Absent <=> c.turns[t] = Absent
                   /\ IsTerminal(d.turns[t]) <=> IsTerminal(c.turns[t])

\* d has the actions, or the elicitations, of c, and each is about the same.
KeepsActions(c, d) ==
  \A a \in Items : /\ d.actions[a] = Absent <=> c.actions[a] = Absent
                   /\ c.actions[a] # Absent => d.actions[a].turn = c.actions[a].turn
KeepsRequests(c, d) ==
  \A e \in Requests : /\ d.elicitations[e] = Absent <=> c.elicitations[e] = Absent
                      /\ c.elicitations[e] # Absent =>
                           /\ d.elicitations[e].turn = c.elicitations[e].turn
                           /\ d.elicitations[e].item = c.elicitations[e].item

\* The fields of a conversation.
LEMMA ConvFields ==
  ASSUME NEW c \in ConversationState
  PROVE  /\ c.lifecycle \in Lifecycle /\ c.active \subseteq Turns
         /\ c.focused \in Turns \cup {NoTurn}
         /\ c.turns \in [Turns -> TurnState \cup {Absent}]
         /\ c.actions \in [Items -> ActionState \cup {Absent}]
         /\ c.elicitations \in [Requests -> ElicitationState \cup {Absent}]
  BY DEF ConversationState

\* What is absent has the phase "absent".
LEMMA AbsentPhase ==
  /\ Absent.phase = "absent"
  /\ \A x \in TurnState \cup {Absent} : x # Absent <=> x.phase # "absent"
  /\ \A x \in TurnState \cup {Absent} : x # Absent <=> x \in TurnState
  /\ \A x \in ActionState \cup {Absent} : x # Absent <=> x.phase # "absent"
  /\ \A x \in ActionState \cup {Absent} : x # Absent <=> x \in ActionState
  /\ \A x \in ElicitationState \cup {Absent} : x # Absent <=> x.phase # "absent"
  /\ \A x \in ElicitationState \cup {Absent} : x # Absent <=> x \in ElicitationState
  BY DEF Absent, TurnState, TurnPhase, ActionState, ActionPhase, ElicitationState

\* A turn that moves is there, and over if it was.
LEMMA MovedTurn ==
  ASSUME NEW x \in TurnState, NEW p \in TurnPhase \ {"terminal"}
  PROVE  Moved(x, p) \in TurnState /\ (IsTerminal(Moved(x, p)) <=> IsTerminal(x))
<1>1. CASE IsTerminal(x)
  BY <1>1 DEF Moved
<1>2. CASE ~ IsTerminal(x)
  <2>1. Moved(x, p) = [phase |-> p, remote |-> x.remote]
    BY <1>2 DEF Moved, TurnState
  <2> QED
    BY <1>2, <2>1 DEF TurnState, IsTerminal
<1> QED
  BY <1>1, <1>2

\* So it is with the turns of a conversation when one of them moves.
LEMMA MovedTurns ==
  ASSUME NEW c \in ConversationState, NEW t \in Turns, c.turns[t] # Absent,
         NEW p \in TurnPhase \ {"terminal"},
         NEW d, d.turns = [c.turns EXCEPT ![t] = Moved(c.turns[t], p)]
  PROVE  /\ d.turns \in [Turns -> TurnState \cup {Absent}]
         /\ SameTurns(c, d)
<1> DEFINE y == Moved(c.turns[t], p)
<1>1. c.turns \in [Turns -> TurnState \cup {Absent}] /\ c.turns[t] \in TurnState
  BY ConvFields
<1>2. y \in TurnState /\ (IsTerminal(y) <=> IsTerminal(c.turns[t]))
  BY <1>1, MovedTurn
<1> HIDE DEF y
<1>3. d.turns = [c.turns EXCEPT ![t] = y]
  BY DEF y
<1>4. d.turns[t] = y /\ \A u \in Turns : u # t => d.turns[u] = c.turns[u]
  BY <1>1, <1>3
<1>5. y # Absent
  BY <1>2, AbsentPhase
<1>6. d.turns \in [Turns -> TurnState \cup {Absent}]
  BY <1>1, <1>2, <1>3
<1>7. SameTurns(c, d)
  BY <1>2, <1>4, <1>5 DEF SameTurns
<1> QED
  BY <1>6, <1>7

\* The turn of a message is planned.
LEMMA TurnPlannedConv ==
  ASSUME NEW c \in ConversationState, NEW t \in Turns,
         NEW d, d = TurnPlanned(c, t)
  PROVE  /\ d \in ConversationState /\ d.active = c.active \cup {t}
         /\ d.lifecycle = "active"
         /\ d.turns[t] # Absent /\ ~ IsTerminal(d.turns[t])
         /\ \A u \in Turns : u # t => d.turns[u] = c.turns[u]
         /\ d.actions = c.actions /\ d.elicitations = c.elicitations
<1>1. /\ d.turns = [c.turns EXCEPT ![t] = [phase |-> "starting", remote |-> "pending"]]
      /\ d.active = c.active \cup {t} /\ d.focused = t /\ d.lifecycle = "active"
      /\ d.actions = c.actions /\ d.elicitations = c.elicitations
  BY DEF TurnPlanned, ConversationState
<1>2. [phase |-> "starting", remote |-> "pending"] \in TurnState
  BY DEF TurnState, TurnPhase
<1>3. d.turns \in [Turns -> TurnState \cup {Absent}]
  BY <1>1, <1>2, ConvFields
<1>4. d \in ConversationState
  BY <1>1, <1>3, ConvFields DEF TurnPlanned, ConversationState, Lifecycle
<1>5. d.turns[t] = [phase |-> "starting", remote |-> "pending"] /\ d.turns[t] # Absent
  BY <1>1, <1>2, ConvFields, AbsentPhase
<1>6. \A u \in Turns : u # t => d.turns[u] = c.turns[u]
  BY <1>1, ConvFields
<1> QED
  BY <1>1, <1>4, <1>5, <1>6 DEF IsTerminal

\* A tool begins.
LEMMA ActionObservedConv ==
  ASSUME NEW c \in ConversationState, NEW t \in Turns, c.turns[t] # Absent, NEW a \in Items,
         NEW d, d = ActionObserved(c, a, t)
  PROVE  /\ d \in ConversationState /\ d.active = c.active /\ d.lifecycle = c.lifecycle
         /\ SameTurns(c, d)
         /\ d.actions[a] = [phase |-> "running", turn |-> t] /\ d.actions[a] # Absent
         /\ \A b \in Items : b # a => d.actions[b] = c.actions[b]
         /\ d.elicitations = c.elicitations
<1> DEFINE x == [phase |-> "running", turn |-> t]
<1>1. /\ d.turns = [c.turns EXCEPT ![t] = Moved(@, "acting")]
      /\ d.active = c.active /\ d.focused = c.focused /\ d.lifecycle = c.lifecycle
      /\ d.actions = [c.actions EXCEPT ![a] = x]
      /\ d.elicitations = c.elicitations
  BY DEF ActionObserved, ConversationState
<1>2. d.turns \in [Turns -> TurnState \cup {Absent}] /\ SameTurns(c, d)
  <2>1. "acting" \in TurnPhase \ {"terminal"}
    BY DEF TurnPhase
  <2>2. d.turns = [c.turns EXCEPT ![t] = Moved(c.turns[t], "acting")]
    BY <1>1
  <2> QED
    BY <2>1, <2>2, MovedTurns
<1>3. x \in ActionState
  BY DEF ActionState, ActionPhase
<1> HIDE DEF x
<1>4. /\ d.actions \in [Items -> ActionState \cup {Absent}] /\ d.actions[a] = x
      /\ \A b \in Items : b # a => d.actions[b] = c.actions[b]
  BY <1>1, <1>3, ConvFields
<1>5. d \in ConversationState
  BY <1>1, <1>2, <1>4, ConvFields DEF ActionObserved, ConversationState
<1> QED
  BY <1>1, <1>2, <1>3, <1>4, <1>5, AbsentPhase DEF x

\* A tool asks.
LEMMA PermissionConv ==
  ASSUME NEW c \in ConversationState, NEW t \in Turns, c.turns[t] # Absent, NEW a \in Items,
         NEW d, d = ElicitationOpened(ActionObserved(c, a, t), a, t, a)
  PROVE  /\ d \in ConversationState /\ d.active = c.active /\ d.lifecycle = "active"
         /\ SameTurns(c, d)
         /\ d.actions[a] = [phase |-> "awaiting_decision", turn |-> t]
         /\ d.actions[a] # Absent
         /\ \A b \in Items : b # a => d.actions[b] = c.actions[b]
         /\ d.elicitations[a] = [phase |-> "open", turn |-> t, item |-> a]
         /\ d.elicitations[a] # Absent
         /\ \A e \in Requests : e # a => d.elicitations[e] = c.elicitations[e]
<1> DEFINE x == [phase |-> "awaiting_decision", turn |-> t]
           y == [phase |-> "open", turn |-> t, item |-> a]
<1>0. PICK o : o = ActionObserved(c, a, t)
  OBVIOUS
<1>1. /\ o \in ConversationState /\ o.active = c.active /\ SameTurns(c, o)
      /\ o.actions[a] = [phase |-> "running", turn |-> t]
      /\ \A b \in Items : b # a => o.actions[b] = c.actions[b]
      /\ o.elicitations = c.elicitations /\ o.turns[t] # Absent
  BY <1>0, ActionObservedConv DEF SameTurns
<1>2. d = ElicitationOpened(o, a, t, a)
  BY <1>0
<1>3. /\ d.turns = [o.turns EXCEPT ![t] = Moved(@, "awaiting_user")]
      /\ d.active = o.active /\ d.focused = o.focused /\ d.lifecycle = "active"
      /\ d.actions = [b \in Items |-> IF b = a
                        THEN [o.actions[b] EXCEPT !.phase = "awaiting_decision"]
                        ELSE o.actions[b]]
      /\ d.elicitations = [o.elicitations EXCEPT ![a] = y]
  BY <1>1, <1>2 DEF ElicitationOpened, ConversationState
<1>4. d.turns \in [Turns -> TurnState \cup {Absent}] /\ SameTurns(o, d)
  <2>1. "awaiting_user" \in TurnPhase \ {"terminal"}
    BY DEF TurnPhase
  <2>2. d.turns = [o.turns EXCEPT ![t] = Moved(o.turns[t], "awaiting_user")]
    BY <1>3
  <2>3. o \in ConversationState /\ o.turns[t] # Absent
    BY <1>1
  <2>4. \A p \in TurnPhase \ {"terminal"} : \A v :
          v.turns = [o.turns EXCEPT ![t] = Moved(o.turns[t], p)] =>
            v.turns \in [Turns -> TurnState \cup {Absent}] /\ SameTurns(o, v)
    BY <2>3, MovedTurns
  <2> QED
    BY <2>1, <2>2, <2>4
<1>5. SameTurns(c, d)
  BY <1>1, <1>4 DEF SameTurns
<1>6. x \in ActionState /\ [o.actions[a] EXCEPT !.phase = "awaiting_decision"] = x
  BY <1>1 DEF ActionState, ActionPhase
<1>7. y \in ElicitationState
  BY DEF ElicitationState
<1> HIDE DEF x, y
<1>8. /\ d.actions[a] = x
      /\ \A b \in Items : b # a => d.actions[b] = o.actions[b]
  BY <1>3, <1>6
<1>9. d.actions \in [Items -> ActionState \cup {Absent}]
  BY <1>1, <1>3, <1>6, <1>8, ConvFields
<1>10. /\ d.elicitations \in [Requests -> ElicitationState \cup {Absent}]
       /\ d.elicitations[a] = y
       /\ \A e \in Requests : e # a => d.elicitations[e] = o.elicitations[e]
  BY <1>1, <1>3, <1>7, ConvFields, ToolUseAssumption
<1>11. d \in ConversationState
  BY <1>1, <1>2, <1>3, <1>4, <1>9, <1>10, ConvFields
     DEF ElicitationOpened, ConversationState, Lifecycle
<1>12. d.actions[a] # Absent /\ d.elicitations[a] # Absent
  BY <1>6, <1>7, <1>8, <1>10, AbsentPhase
<1> QED
  BY <1>1, <1>3, <1>5, <1>8, <1>10, <1>11, <1>12 DEF x, y

\* A tool has its result.
LEMMA ActionUpdatedConv ==
  ASSUME NEW c \in ConversationState, NEW a \in Items, c.actions[a] # Absent,
         NEW d, d = ActionUpdated(c, a, "completed")
  PROVE  /\ d \in ConversationState /\ d.active = c.active /\ d.lifecycle = c.lifecycle
         /\ SameTurns(c, d) /\ KeepsActions(c, d)
         /\ d.actions[a].phase = "completed"
         /\ \A b \in Items : b # a => d.actions[b] = c.actions[b]
         /\ d.elicitations = c.elicitations
<1>1. /\ d.turns = c.turns /\ d.active = c.active /\ d.focused = c.focused
      /\ d.lifecycle = c.lifecycle
      /\ d.actions = [c.actions EXCEPT ![a] = [c.actions[a] EXCEPT !.phase = "completed"]]
      /\ d.elicitations = c.elicitations
  BY DEF ActionUpdated, ConversationState
<1>2. c.actions[a] \in ActionState
  BY ConvFields
<1>3. /\ [c.actions[a] EXCEPT !.phase = "completed"] \in ActionState
      /\ [c.actions[a] EXCEPT !.phase = "completed"].turn = c.actions[a].turn
      /\ [c.actions[a] EXCEPT !.phase = "completed"].phase = "completed"
  BY <1>2 DEF ActionState, ActionPhase
<1>4. /\ d.actions \in [Items -> ActionState \cup {Absent}]
      /\ d.actions[a] \in ActionState /\ d.actions[a].turn = c.actions[a].turn
      /\ d.actions[a].phase = "completed"
      /\ \A b \in Items : b # a => d.actions[b] = c.actions[b]
  <2>1. PICK x \in ActionState : /\ x = [c.actions[a] EXCEPT !.phase = "completed"]
                                 /\ x.turn = c.actions[a].turn /\ x.phase = "completed"
    BY <1>3
  <2>2. d.actions = [c.actions EXCEPT ![a] = x]
    BY <1>1, <2>1
  <2>3. c.actions \in [Items -> ActionState \cup {Absent}]
    BY ConvFields
  <2>4. d.actions[a] = x /\ \A b \in Items : b # a => d.actions[b] = c.actions[b]
    BY <2>2, <2>3
  <2>5. d.actions \in [Items -> ActionState \cup {Absent}]
    BY <2>1, <2>2, <2>3
  <2> QED
    BY <2>1, <2>4, <2>5
<1>5. d \in ConversationState
  BY <1>1, <1>4, ConvFields DEF ActionUpdated, ConversationState
<1>6. KeepsActions(c, d)
  BY <1>2, <1>4, AbsentPhase DEF KeepsActions
<1> QED
  BY <1>1, <1>4, <1>5, <1>6 DEF SameTurns

\* The conversation is ready.
LEMMA StatusChangedConv ==
  ASSUME NEW c \in ConversationState, NEW d, d = StatusChanged(c, "idle")
  PROVE  /\ d \in ConversationState /\ d.active = c.active /\ d.lifecycle = "idle"
         /\ d.turns = c.turns /\ SameTurns(c, d)
         /\ d.actions = c.actions /\ d.elicitations = c.elicitations
  BY DEF StatusChanged, ConversationState, Lifecycle, SameTurns

\* A permission is decided: its action runs on, or is cancelled.
LEMMA DecidedConv ==
  ASSUME NEW c \in ConversationState, NEW e \in Requests, c.elicitations[e] # Absent,
         c.elicitations[e].item = e, c.actions[e] # Absent,
         c.turns[c.elicitations[e].turn] # Absent,
         NEW decision, NEW d, d = Decided(c, e, decision)
  PROVE  /\ d \in ConversationState /\ d.active = c.active /\ d.lifecycle = c.lifecycle
         /\ SameTurns(c, d) /\ KeepsActions(c, d) /\ KeepsRequests(c, d)
         /\ \A b \in Items : b # e => d.actions[b] = c.actions[b]
         /\ d.elicitations[e].phase = "resolved"
         /\ \A f \in Requests : f # e => d.elicitations[f] = c.elicitations[f]
<1> DEFINE p == IF decision = "allow" THEN "running" ELSE "cancelled"
<1>1. PICK t \in Turns : t = c.elicitations[e].turn
  BY ConvFields DEF ElicitationState
<1>2. PICK x : x = [c.elicitations[e] EXCEPT !.phase = "resolved"]
  OBVIOUS
<1>3. PICK y : y = [c.actions[e] EXCEPT !.phase = p]
  OBVIOUS
<1>4. PICK o : o = ElicitationResolved(c, e)
  OBVIOUS
<1>5. /\ o.turns = [c.turns EXCEPT ![t] = Moved(c.turns[t], "reasoning")]
      /\ o.active = c.active /\ o.focused = c.focused /\ o.lifecycle = c.lifecycle
      /\ o.actions = [b \in Items |-> IF b = e
                        THEN [c.actions[b] EXCEPT !.phase = "running"] ELSE c.actions[b]]
      /\ o.elicitations = [c.elicitations EXCEPT ![e] = x]
  BY <1>1, <1>2, <1>4 DEF ElicitationResolved, ConversationState
<1>6. c.actions[e] \in ActionState /\ c.elicitations[e] \in ElicitationState
  BY ConvFields, ToolUseAssumption
<1>7. /\ d.turns = o.turns /\ d.active = o.active /\ d.focused = o.focused
      /\ d.lifecycle = o.lifecycle /\ d.elicitations = o.elicitations
      /\ d = [lifecycle |-> o.lifecycle, active |-> o.active, focused |-> o.focused,
              turns |-> o.turns, actions |-> d.actions, elicitations |-> o.elicitations]
  BY <1>4 DEF Decided, ElicitationResolved, ConversationState
<1>8. d.actions[e] = y /\ \A b \in Items : b # e => d.actions[b] = c.actions[b]
  <2>1. o.actions[e] = [c.actions[e] EXCEPT !.phase = "running"]
    BY <1>5, ToolUseAssumption
  <2>2. CASE decision = "allow"
    BY <1>3, <1>4, <1>5, <2>1, <2>2 DEF Decided
  <2>3. CASE decision # "allow"
    <3>1. d.actions = [o.actions EXCEPT ![e] = [o.actions[e] EXCEPT !.phase = "cancelled"]]
      BY <1>4, <1>5, <2>3 DEF Decided, ElicitationResolved, ConversationState
    <3>2. [o.actions[e] EXCEPT !.phase = "cancelled"] = y
      BY <1>3, <1>6, <2>1, <2>3 DEF ActionState
    <3> QED
      BY <1>5, <3>1, <3>2, ToolUseAssumption
  <2> QED
    BY <2>2, <2>3
<1>9. y \in ActionState /\ y.turn = c.actions[e].turn
  BY <1>3, <1>6 DEF ActionState, ActionPhase
<1>10. x \in ElicitationState /\ x.phase = "resolved" /\ x.turn = t /\ x.item = e
  BY <1>1, <1>2, <1>6 DEF ElicitationState
<1>11. /\ d.elicitations \in [Requests -> ElicitationState \cup {Absent}]
       /\ d.elicitations[e] = x
       /\ \A f \in Requests : f # e => d.elicitations[f] = c.elicitations[f]
  BY <1>5, <1>7, <1>10, ConvFields
<1>12. DOMAIN d.actions = Items /\ d.actions = [b \in Items |-> d.actions[b]]
  <2>1. CASE decision = "allow"
    BY <1>4, <1>5, <2>1 DEF Decided
  <2>2. CASE decision # "allow"
    <3>1. d.actions = [o.actions EXCEPT ![e] = [o.actions[e] EXCEPT !.phase = "cancelled"]]
      BY <1>4, <1>5, <2>2 DEF Decided, ElicitationResolved, ConversationState
    <3> QED
      BY <1>5, <3>1
  <2> QED
    BY <2>1, <2>2
<1>13. d.actions \in [Items -> ActionState \cup {Absent}]
  BY <1>8, <1>9, <1>12, ConvFields
<1>14. d.turns \in [Turns -> TurnState \cup {Absent}] /\ SameTurns(c, d)
  <2>1. "reasoning" \in TurnPhase \ {"terminal"}
    BY DEF TurnPhase
  <2>2. d.turns = [c.turns EXCEPT ![t] = Moved(c.turns[t], "reasoning")]
    BY <1>5, <1>7
  <2>3. c.turns[t] # Absent
    BY <1>1
  <2>4. \A q \in TurnPhase \ {"terminal"} : \A v :
          v.turns = [c.turns EXCEPT ![t] = Moved(c.turns[t], q)] =>
            v.turns \in [Turns -> TurnState \cup {Absent}] /\ SameTurns(c, v)
    BY <2>3, MovedTurns
  <2> QED
    BY <2>1, <2>2, <2>4
<1>15. d \in ConversationState
  BY <1>5, <1>7, <1>11, <1>13, <1>14, ConvFields DEF ConversationState
<1>16. KeepsActions(c, d)
  BY <1>8, <1>9, AbsentPhase, ToolUseAssumption DEF KeepsActions
<1>17. KeepsRequests(c, d)
  BY <1>1, <1>10, <1>11, AbsentPhase DEF KeepsRequests
<1> QED
  BY <1>5, <1>7, <1>8, <1>10, <1>11, <1>14, <1>15, <1>16, <1>17

\* A turn ends, and with it what it left unfinished.
LEMMA TurnTerminalConv ==
  ASSUME NEW c \in ConversationState, NEW t \in Turns, c.turns[t] # Absent,
         NEW d, d = TurnTerminal(c, t), c.active \subseteq {t}
  PROVE  /\ d \in ConversationState /\ d.active = {} /\ d.lifecycle = "idle"
         /\ d.turns[t] # Absent /\ IsTerminal(d.turns[t])
         /\ \A u \in Turns : u # t => d.turns[u] = c.turns[u]
         /\ KeepsActions(c, d) /\ KeepsRequests(c, d)
         /\ \A a \in Items : c.actions[a] # Absent =>
              /\ c.actions[a].turn = t =>
                   d.actions[a].phase \notin {"running", "awaiting_decision"}
              /\ c.actions[a].turn # t => d.actions[a] = c.actions[a]
         /\ \A e \in Requests : c.elicitations[e] # Absent =>
              /\ c.elicitations[e].turn = t => d.elicitations[e].phase # "open"
              /\ c.elicitations[e].turn # t => d.elicitations[e] = c.elicitations[e]
<1>1. c.active \ {t} = {}
  OBVIOUS
<1>2. /\ d.turns = [c.turns EXCEPT ![t] = [c.turns[t] EXCEPT !.phase = "terminal"]]
      /\ d.active = {} /\ d.focused \in Turns \cup {NoTurn} /\ d.lifecycle = "idle"
      /\ d.actions = [a \in Items |-> Settled(c.actions[a], t)]
      /\ d.elicitations = [e \in Requests |-> Withdrawn(c.elicitations[e], t)]
  BY <1>1 DEF TurnTerminal, ConversationState, Last
<1>3. /\ d.turns[t] = [c.turns[t] EXCEPT !.phase = "terminal"] /\ d.turns[t] \in TurnState
      /\ d.turns[t].phase = "terminal"
  <2>1. c.turns[t] \in TurnState
    BY ConvFields
  <2> QED
    BY <1>2, <2>1, ConvFields DEF TurnState, TurnPhase
<1>4. \A u \in Turns : u # t => d.turns[u] = c.turns[u]
  BY <1>2, ConvFields
<1>5. d.turns[t] # Absent /\ IsTerminal(d.turns[t])
  BY <1>3, AbsentPhase DEF IsTerminal
<1>6. ASSUME NEW a \in Items
      PROVE  /\ d.actions[a] \in ActionState \cup {Absent}
             /\ d.actions[a] = Absent <=> c.actions[a] = Absent
             /\ c.actions[a] # Absent =>
                  /\ d.actions[a].turn = c.actions[a].turn
                  /\ c.actions[a].turn = t =>
                       d.actions[a].phase \notin {"running", "awaiting_decision"}
                  /\ c.actions[a].turn # t => d.actions[a] = c.actions[a]
  <2>1. PICK x \in ActionState \cup {Absent} : x = c.actions[a]
    BY ConvFields
  <2>2. d.actions[a] = Settled(x, t)
    BY <1>2, <2>1
  <2>3. CASE x = Absent
    BY <2>1, <2>2, <2>3 DEF Settled
  <2>4. CASE x # Absent
    <3>1. x \in ActionState
      BY <2>4
    <3>2. /\ Settled(x, t) \in ActionState /\ Settled(x, t).turn = x.turn
          /\ x.turn = t => Settled(x, t).phase \notin {"running", "awaiting_decision"}
          /\ x.turn # t => Settled(x, t) = x
      BY <2>4, <3>1 DEF Settled, ActionState, ActionPhase
    <3>3. Settled(x, t) # Absent
      BY <3>2, AbsentPhase
    <3> QED
      BY <2>1, <2>2, <2>4, <3>2, <3>3
  <2> QED
    BY <2>3, <2>4
<1>7. ASSUME NEW e \in Requests
      PROVE  /\ d.elicitations[e] \in ElicitationState \cup {Absent}
             /\ d.elicitations[e] = Absent <=> c.elicitations[e] = Absent
             /\ c.elicitations[e] # Absent =>
                  /\ d.elicitations[e].turn = c.elicitations[e].turn
                  /\ d.elicitations[e].item = c.elicitations[e].item
                  /\ c.elicitations[e].turn = t => d.elicitations[e].phase # "open"
                  /\ c.elicitations[e].turn # t => d.elicitations[e] = c.elicitations[e]
  <2>1. PICK x \in ElicitationState \cup {Absent} : x = c.elicitations[e]
    BY ConvFields
  <2>2. d.elicitations[e] = Withdrawn(x, t)
    BY <1>2, <2>1
  <2>3. CASE x = Absent
    BY <2>1, <2>2, <2>3 DEF Withdrawn
  <2>4. CASE x # Absent
    <3>1. x \in ElicitationState
      BY <2>4
    <3>2. /\ Withdrawn(x, t) \in ElicitationState
          /\ Withdrawn(x, t).turn = x.turn /\ Withdrawn(x, t).item = x.item
          /\ x.turn = t => Withdrawn(x, t).phase # "open"
          /\ x.turn # t => Withdrawn(x, t) = x
      BY <2>4, <3>1 DEF Withdrawn, ElicitationState
    <3>3. Withdrawn(x, t) # Absent
      BY <3>2, AbsentPhase
    <3> QED
      BY <2>1, <2>2, <2>4, <3>2, <3>3
  <2> QED
    BY <2>3, <2>4
<1>8. d \in ConversationState
  <2>1. d.turns \in [Turns -> TurnState \cup {Absent}]
    BY <1>2, <1>3, ConvFields
  <2>2. d.actions \in [Items -> ActionState \cup {Absent}]
    BY <1>2, <1>6
  <2>3. d.elicitations \in [Requests -> ElicitationState \cup {Absent}]
    BY <1>2, <1>7
  <2> QED
    BY <1>2, <2>1, <2>2, <2>3, ConvFields DEF TurnTerminal, ConversationState, Lifecycle
<1>9. KeepsActions(c, d) /\ KeepsRequests(c, d)
  BY <1>6, <1>7 DEF KeepsActions, KeepsRequests
<1> QED
  BY <1>2, <1>4, <1>5, <1>6, <1>7, <1>8, <1>9

-----------------------------------------------------------------------------
(* Messages and sequences.                                                 *)

\* What an operation, a run, a query and a message have.
LEMMA Fields ==
  /\ \A o \in Operation : o.kind \in {"send", "load"} /\ o.turn \in Turns \cup {NoTurn}
                          /\ o.remote \in Files
  /\ NoOperation.kind = "none"
  /\ \A m \in Message :
       /\ m.type \in {"init", "result", "end", "tool_use", "permission", "tool_result"}
       /\ m.type \in {"tool_use", "permission", "tool_result"} => m.item \in Items
  /\ \A a \in Items, type \in {"tool_use", "permission", "tool_result"} :
       About(type, a) \in Message /\ About(type, a).type = type /\ About(type, a).item = a
  /\ NoQuery \in Query /\ NoQuery.phase = "off" /\ NoQuery.asked = {} /\ NoQuery.due = {}
  /\ NoQuery.used = {} /\ NoQuery.file = NoFile
  /\ \A t \in Turns \cup {NoTurn} :
       /\ NoRun(t) \in Run /\ NoRun(t).turn = t /\ NoRun(t).phase = "none"
       /\ NoRun(t).prompt = NoRequest /\ NoRun(t).aborted = FALSE
  /\ NewSession \in Session
  BY DEF Operation, NoOperation, Message, About, NoQuery, Query, NoRun, Run, NewSession,
     Session, Files

\* What is left of a sequence after its first item.
LEMMA TailItems ==
  ASSUME NEW S, NEW s \in Seq(S), s # <<>>
  PROVE  /\ Tail(s) \in Seq(S) /\ Head(s) \in S /\ Head(s) = s[1] /\ 1 \in 1 .. Len(s)
         /\ Len(s) \in Nat /\ Len(Tail(s)) = Len(s) - 1
         /\ \A i \in 1 .. Len(Tail(s)) : Tail(s)[i] = s[i + 1] /\ i + 1 \in 1 .. Len(s)
         /\ \A i \in 1 .. Len(s) :
              i # 1 => i - 1 \in 1 .. Len(Tail(s)) /\ Tail(s)[i - 1] = s[i]
  OBVIOUS

\* What a sequence holds is typed.
LEMMA ItemTyped ==
  ASSUME NEW S, NEW s \in Seq(S), NEW i \in 1 .. Len(s)
  PROVE  s[i] \in S
  OBVIOUS

\* A sequence after one more item.
LEMMA AppendItems ==
  ASSUME NEW S, NEW s \in Seq(S), NEW x \in S
  PROVE  /\ Append(s, x) \in Seq(S) /\ Len(Append(s, x)) = Len(s) + 1 /\ Len(s) \in Nat
         /\ Append(s, x)[Len(s) + 1] = x
         /\ \A i \in 1 .. Len(s) : i \in 1 .. Len(Append(s, x)) /\ Append(s, x)[i] = s[i]
         /\ \A i \in 1 .. Len(Append(s, x)) :
              \/ i \in 1 .. Len(s) /\ Append(s, x)[i] = s[i]
              \/ i = Len(s) + 1 /\ Append(s, x)[i] = x
         /\ s \o <<x>> = Append(s, x)
  OBVIOUS

-----------------------------------------------------------------------------
(* Steps that leave the conversation and the query alone.                  *)

\* Such a step keeps what is said of them.
LEMMA QuietStep ==
  ASSUME Base, UNCHANGED <<conv, permissions, stream>>,
         Sending' <=> Sending, Sending => op' = op,
         claude'.asked = claude.asked, claude'.due = claude.due, claude'.used = claude.used,
         claude'.phase \in {claude.phase, "dead"}
  PROVE  LiveOK' /\ StreamOK' /\ ItemsOK' /\ (PromptIsAnswerable' => PermissionsOK')
<1>1. LiveOK'
  BY DEF Base, LiveOK, IsLive
<1>2. StreamOK'
  BY DEF Base, StreamOK
<1>3. ItemsOK'
  BY DEF Base, ItemsOK
<1>4. PromptIsAnswerable' => PermissionsOK'
  BY DEF Base, PermissionsOK
<1> QED
  BY <1>1, <1>2, <1>3, <1>4

\* One more operation waits: a message of a run that begins to wait, or a load.
LEMMA WaitingAppended ==
  ASSUME TypeOK, WaitingOK, NEW o \in Operation, waiting' = Append(waiting, o),
         \/ o.kind # "send" /\ run'.phase = run.phase /\ run'.turn = run.turn
         \/ run.phase = "none" /\ run'.phase = "waiting" /\ o.turn = run'.turn
  PROVE  WaitingOK'
<1>1. waiting \in Seq(Operation)
  BY DEF TypeOK
<1>2. /\ Len(waiting') = Len(waiting) + 1 /\ Len(waiting) \in Nat
      /\ waiting'[Len(waiting) + 1] = o
      /\ \A i \in 1 .. Len(waiting') :
           \/ i \in 1 .. Len(waiting) /\ waiting'[i] = waiting[i]
           \/ i = Len(waiting) + 1 /\ waiting'[i] = o
  BY <1>1, AppendItems
<1>3. CASE o.kind # "send" /\ run'.phase = run.phase /\ run'.turn = run.turn
  BY <1>2, <1>3 DEF WaitingOK
<1>4. CASE run.phase = "none" /\ run'.phase = "waiting" /\ o.turn = run'.turn
  <2>1. \A i \in 1 .. Len(waiting) : waiting[i].kind # "send"
    BY <1>4 DEF WaitingOK
  <2> QED
    BY <1>2, <1>4, <2>1 DEF WaitingOK
<1> QED
  BY <1>3, <1>4

\* The first operation begins: only a message changes the run.
LEMMA WaitingTaken ==
  ASSUME TypeOK, WaitingOK, waiting # <<>>, waiting' = Tail(waiting),
         Head(waiting).kind = "send" \/ (run'.phase = run.phase /\ run'.turn = run.turn)
  PROVE  WaitingOK'
<1>1. waiting \in Seq(Operation)
  BY DEF TypeOK
<1>2. /\ Head(waiting) = waiting[1] /\ 1 \in 1 .. Len(waiting) /\ Len(waiting) \in Nat
      /\ Len(waiting') = Len(waiting) - 1
      /\ \A i \in 1 .. Len(waiting') :
           waiting'[i] = waiting[i + 1] /\ i + 1 \in 1 .. Len(waiting)
  BY <1>1, TailItems
<1>3. CASE Head(waiting).kind = "send"
  <2>1. \A i \in 1 .. Len(waiting') : waiting'[i].kind # "send"
    BY <1>2, <1>3 DEF WaitingOK
  <2> QED
    BY <2>1 DEF WaitingOK
<1>4. CASE run'.phase = run.phase /\ run'.turn = run.turn
  BY <1>2, <1>4 DEF WaitingOK
<1> QED
  BY <1>3, <1>4

\* A message or a load is asked for.
LEMMA AskStep == Base /\ ((\E t \in Turns : Send(t)) \/ Load) => Base'
<1> SUFFICES ASSUME Base, (\E t \in Turns : Send(t)) \/ Load
             PROVE  Base'
  OBVIOUS
<1>1. TypeOK /\ WorkOK /\ WaitingOK /\ row \in Files /\ run \in Run
  BY DEF Base, TypeOK
<1>2. PICK t \in Turns \cup {NoTurn}, kind \in {"send", "load"} :
        /\ waiting' = Append(waiting, [kind |-> kind, turn |-> t, remote |-> row])
        /\ \/ kind = "load" /\ run' = run
           \/ t \in Turns /\ run.phase = "none" /\ run' = [NoRun(t) EXCEPT !.phase = "waiting"]
        /\ UNCHANGED <<conv, permissions, session, history, op, row, claude, stream, files>>
  BY DEF Send, Load, Asks
<1>3. [kind |-> kind, turn |-> t, remote |-> row] \in Operation
  BY <1>1 DEF Operation
<1>4. PICK o \in Operation : o = [kind |-> kind, turn |-> t, remote |-> row]
  BY <1>3
<1>5. o.kind = kind /\ o.turn = t /\ waiting' = Append(waiting, o)
  BY <1>2, <1>4
<1>6. CASE kind = "load" /\ run' = run
  <2>1. WaitingOK'
    BY <1>1, <1>5, <1>6, WaitingAppended
  <2>2. TypeOK'
    BY <1>2, <1>5, <1>6, AppendItems DEF Base, TypeOK
  <2>3. WorkOK'
    BY <1>2, <1>6 DEF Base, WorkOK, Sending
  <2>4. LiveOK' /\ StreamOK' /\ ItemsOK' /\ (PromptIsAnswerable' => PermissionsOK')
    BY <1>2, QuietStep DEF Sending
  <2>5. PromptIsAnswerable'
    BY <1>2, <1>6 DEF Base, PermissionsOK, PromptIsAnswerable
  <2> QED
    BY <2>1, <2>2, <2>3, <2>4, <2>5 DEF Base
<1>7. CASE t \in Turns /\ run.phase = "none" /\ run' = [NoRun(t) EXCEPT !.phase = "waiting"]
  <2>1. /\ run' \in Run /\ run'.phase = "waiting" /\ run'.turn = t /\ run'.prompt = NoRequest
        /\ run'.aborted = FALSE
    BY <1>7 DEF NoRun, Run
  <2>2. WaitingOK'
    BY <1>1, <1>5, <1>7, <2>1, WaitingAppended
  <2>3. TypeOK'
    BY <1>2, <1>5, <2>1, AppendItems DEF Base, TypeOK
  <2>4. WorkOK'
    BY <1>2, <1>7, <2>1 DEF Base, WorkOK, Sending
  <2>5. LiveOK' /\ StreamOK' /\ ItemsOK' /\ (PromptIsAnswerable' => PermissionsOK')
    BY <1>2, QuietStep DEF Sending
  <2>6. PromptIsAnswerable'
    BY <2>1 DEF PromptIsAnswerable
  <2> QED
    BY <2>2, <2>3, <2>4, <2>5, <2>6 DEF Base
<1> QED
  BY <1>2, <1>6, <1>7

\* A load begins, and ends one way or the other.
LEMMA LoadStep ==
  ASSUME Base,
         \/ op = NoOperation /\ waiting # <<>> /\ StartsLoad(Head(waiting))
         \/ Loads
         \/ LoadFails
  PROVE  Base'
<1>1. TypeOK /\ WorkOK /\ WaitingOK /\ waiting \in Seq(Operation)
  BY DEF Base, TypeOK
<1>2. UNCHANGED <<conv, permissions, run, claude, stream, files>>
  BY DEF StartsLoad, Loads, LoadFails
<1>3. ~ Sending /\ ~ Sending'
  BY Fields DEF StartsLoad, Loads, LoadFails, Sending
<1>4. LiveOK' /\ StreamOK' /\ ItemsOK' /\ (PromptIsAnswerable' => PermissionsOK')
  BY <1>2, <1>3, QuietStep
<1>5. PromptIsAnswerable'
  BY <1>2 DEF Base, PermissionsOK, PromptIsAnswerable
<1>6. WorkOK'
  BY <1>1, <1>2, <1>3 DEF WorkOK
<1>7. CASE op = NoOperation /\ waiting # <<>> /\ StartsLoad(Head(waiting))
  <2>1. PICK next \in Operation : next = Head(waiting)
    BY <1>1, <1>7, TailItems
  <2>2. next.remote \in Files /\ op' = next /\ UNCHANGED <<history, row>>
    BY <1>7, <2>1, Fields DEF StartsLoad
  <2>3. session' \in Session
    BY <1>1, <1>7, <2>1, <2>2, Fields DEF StartsLoad, Ensured, TypeOK, Session, NewSession
  <2>4. waiting' \in Seq(Operation)
    BY <1>1, <1>7, TailItems DEF StartsLoad
  <2>5. TypeOK'
    BY <1>1, <1>2, <2>1, <2>2, <2>3, <2>4 DEF TypeOK
  <2>6. WaitingOK'
    BY <1>1, <1>2, <1>7, WaitingTaken DEF StartsLoad
  <2> QED
    BY <1>4, <1>5, <1>6, <2>5, <2>6 DEF Base
<1>8. CASE Loads
  <2>1. op \in Operation /\ op.remote \in Files
    BY <1>1, <1>8, Fields DEF Loads, TypeOK
  <2>2. row' \in Files
    BY <1>1, <1>8 DEF Loads, TypeOK, Session, Files
  <2>3. history' \in [Turns -> Nat]
    <3>1. \/ history' = history
          \/ \E f : history' = [t \in Turns |->
                               history[t] + IF t \in files[f] THEN 1 ELSE 0]
      BY <1>8 DEF Loads
    <3>2. \A f : \A t \in Turns : history[t] + (IF t \in files[f] THEN 1 ELSE 0) \in Nat
      BY <1>1 DEF TypeOK
    <3> QED
      BY <1>1, <3>1, <3>2 DEF TypeOK
  <2>4. session' \in Session
    BY <1>1, <1>8, <2>1 DEF Loads, TypeOK, Session
  <2>5. op' = NoOperation /\ waiting' = waiting
    BY <1>8 DEF Loads
  <2>6. TypeOK'
    BY <1>1, <1>2, <2>2, <2>3, <2>4, <2>5 DEF TypeOK
  <2>7. WaitingOK'
    BY <1>1, <1>2, <2>5 DEF WaitingOK
  <2> QED
    BY <1>4, <1>5, <1>6, <2>6, <2>7 DEF Base
<1>9. CASE LoadFails
  <2>1. TypeOK'
    BY <1>1, <1>9 DEF LoadFails, TypeOK
  <2>2. WaitingOK'
    BY <1>1, <1>9 DEF LoadFails, WaitingOK
  <2> QED
    BY <1>4, <1>5, <1>6, <2>1, <2>2 DEF Base
<1> QED
  BY <1>7, <1>8, <1>9

\* While nothing is at work no turn is active, and the engine takes a message.
LEMMA NoneActive ==
  ASSUME Base, ~ Sending
  PROVE  conv.active = {} /\ CanStartTurn(conv) /\ stream = <<>> /\ claude.phase = "off"
<1>1. conv.active = {} /\ conv.lifecycle \in {"idle", "active"}
  BY DEF Base, LiveOK
<1>2. Cardinality({}) = 0
  BY FS_EmptySet
<1> QED
  BY <1>1, <1>2 DEF CanStartTurn, Base, WorkOK

\* A message begins: it is the one of the run, and is stopped, or its turn begins.
LEMMA StartsTurnStep ==
  ASSUME Base, op = NoOperation, waiting # <<>>, StartsTurn(Head(waiting))
  PROVE  Base'
<1>1. TypeOK /\ WorkOK /\ WaitingOK /\ waiting \in Seq(Operation) /\ run \in Run
  BY DEF Base, TypeOK
<1>2. PICK next \in Operation : next = Head(waiting)
  BY <1>1, TailItems
<1>3. /\ next.kind = "send" /\ waiting' = Tail(waiting)
      /\ UNCHANGED <<permissions, history, row, stream, files>>
  BY <1>2 DEF StartsTurn
<1>4. run.phase = "waiting" /\ next.turn = run.turn /\ run.turn \in Turns
  <2>1. 1 \in 1 .. Len(waiting) /\ waiting[1] = next
    BY <1>1, <1>2, TailItems
  <2> QED
    BY <1>1, <1>3, <2>1 DEF WaitingOK, WorkOK
<1>5. WaitingOK' /\ waiting' \in Seq(Operation)
  BY <1>1, <1>2, <1>3, TailItems, WaitingTaken
<1>6. ~ Sending
  BY Fields DEF Sending
<1>7. conv.active = {} /\ CanStartTurn(conv) /\ stream = <<>> /\ claude.phase = "off"
  BY <1>6, NoneActive
<1>8. PromptIsAnswerable /\ run.prompt = NoRequest
  BY <1>4 DEF Base, PermissionsOK, PromptIsAnswerable
<1>9. CASE run.aborted
  <2>1. run' = NoRun(run.turn) /\ UNCHANGED <<conv, session, op, claude>>
    BY <1>2, <1>9 DEF StartsTurn
  <2>2. /\ run' \in Run /\ run'.turn = run.turn /\ run'.phase = "none"
        /\ run'.prompt = NoRequest
    BY <1>4, <2>1, Fields
  <2>3. LiveOK' /\ StreamOK' /\ ItemsOK' /\ (PromptIsAnswerable' => PermissionsOK')
    BY <1>3, <2>1, QuietStep DEF Sending
  <2>4. PromptIsAnswerable'
    BY <2>2 DEF PromptIsAnswerable
  <2>5. WorkOK'
    BY <1>1, <1>3, <1>6, <2>1, <2>2 DEF WorkOK, Sending
  <2>6. TypeOK'
    BY <1>1, <1>3, <1>5, <2>1, <2>2 DEF TypeOK
  <2> QED
    BY <1>5, <2>3, <2>4, <2>5, <2>6 DEF Base
<1>10. CASE ~ run.aborted
  <2>1. /\ session' = Ensured(next.remote)
        /\ conv' = TurnPlanned(conv, next.turn) /\ op' = next
        /\ run' = [run EXCEPT !.phase = "running"]
        /\ claude' = [NoQuery EXCEPT !.phase = "starting",
                        !.file = IF next.remote = NoFile THEN next.turn ELSE next.remote]
    BY <1>2, <1>7, <1>10 DEF StartsTurn
  <2>2. /\ conv' \in ConversationState /\ conv'.active = {next.turn}
        /\ conv'.lifecycle = "active"
        /\ conv'.turns[next.turn] # Absent /\ ~ IsTerminal(conv'.turns[next.turn])
        /\ \A u \in Turns : u # next.turn => conv'.turns[u] = conv.turns[u]
        /\ conv'.actions = conv.actions /\ conv'.elicitations = conv.elicitations
    <3>1. /\ conv \in ConversationState /\ next.turn \in Turns
          /\ conv.active \cup {next.turn} = {next.turn}
      BY <1>1, <1>4, <1>7 DEF TypeOK
    <3> QED
      BY <2>1, <3>1, TurnPlannedConv
  <2>3. /\ run' \in Run /\ run'.turn = run.turn /\ run'.phase = "running"
        /\ run'.prompt = NoRequest
    BY <1>1, <1>8, <2>1 DEF Run
  <2>4. /\ claude' \in Query /\ claude'.phase = "starting" /\ claude'.asked = {}
        /\ claude'.due = {} /\ claude'.used = {} /\ claude'.file \in Turns
    BY <1>2, <1>4, <2>1 DEF NoQuery, Query, Files, Operation
  <2>5. session' \in Session
    BY <1>1, <2>1, Fields DEF Ensured, TypeOK, Session, NewSession
  <2>6. Sending' /\ op'.turn = next.turn
    BY <1>3, <2>1 DEF Sending
  <2>7. TypeOK'
    BY <1>1, <1>3, <1>5, <2>1, <2>2, <2>3, <2>4, <2>5 DEF TypeOK
  <2>8. WorkOK'
    BY <1>3, <1>4, <1>7, <2>3, <2>4, <2>6 DEF WorkOK
  <2>9. LiveOK'
    BY <1>4, <1>7, <2>2, <2>6 DEF Base, LiveOK, IsLive
  <2>10. StreamOK'
    <3>1. stream' = <<>> /\ 1 .. Len(stream') = {}
      BY <1>3, <1>7
    <3>2. conv'.active # {}
      BY <2>2
    <3> QED
      BY <3>1, <3>2 DEF StreamOK
  <2>11. ItemsOK'
    BY <1>3, <1>7, <2>4 DEF ItemsOK
  <2>12. PermissionsOK'
    <3>1. \A e \in permissions : conv.elicitations[e].turn \in Turns
      BY <1>1, ConvFields, AbsentPhase DEF Base, PermissionsOK, TypeOK, ElicitationState
    <3>2. PromptIsAnswerable'
      BY <2>3 DEF PromptIsAnswerable
    <3> QED
      BY <1>3, <2>2, <3>1, <3>2 DEF Base, PermissionsOK
  <2> QED
    BY <1>5, <2>7, <2>8, <2>9, <2>10, <2>11, <2>12 DEF Base
<1> QED
  BY <1>9, <1>10

\* The user stops the run.
LEMMA StopStep == Base /\ Stop => Base'
<1> SUFFICES ASSUME Base, Stop
             PROVE  Base'
  OBVIOUS
<1>1. TypeOK /\ WorkOK /\ WaitingOK /\ run \in Run /\ claude \in Query
  BY DEF Base, TypeOK
<1>2. /\ run' = IF run.phase = "late" THEN NoRun(run.turn) ELSE [run EXCEPT !.aborted = TRUE]
      /\ claude' = IF Sending THEN [claude EXCEPT !.phase = "dead"] ELSE claude
      /\ UNCHANGED <<conv, permissions, session, history, op, waiting, row, stream, files>>
  BY DEF Stop, Sending
<1>3. /\ claude' \in Query /\ claude'.asked = claude.asked /\ claude'.due = claude.due
      /\ claude'.used = claude.used /\ claude'.file = claude.file
      /\ claude'.phase = IF Sending THEN "dead" ELSE claude.phase
  BY <1>1, <1>2 DEF Query
<1>4. run' \in Run /\ run'.turn = run.turn
  BY <1>1, <1>2, Fields DEF Run
<1>5. \/ run.phase = "late" /\ run'.phase = "none" /\ run'.prompt = NoRequest
      \/ run.phase # "late" /\ run'.phase = run.phase /\ run'.prompt = run.prompt
  BY <1>1, <1>2, Fields DEF Run
<1>6. LiveOK' /\ StreamOK' /\ ItemsOK' /\ (PromptIsAnswerable' => PermissionsOK')
  BY <1>2, <1>3, QuietStep DEF Sending
<1>7. PromptIsAnswerable'
  BY <1>2, <1>5 DEF Base, PermissionsOK, PromptIsAnswerable
<1>8. WorkOK'
  BY <1>1, <1>2, <1>3, <1>4, <1>5 DEF WorkOK, Sending
<1>9. WaitingOK'
  BY <1>1, <1>2, <1>4, <1>5 DEF WaitingOK
<1>10. TypeOK'
  BY <1>1, <1>2, <1>3, <1>4 DEF TypeOK
<1> QED
  BY <1>6, <1>7, <1>8, <1>9, <1>10 DEF Base

\* The daemon ends: the conversation is a new one, with no run at work.
LEMMA FreshConv ==
  /\ ReadyConversation \in ConversationState /\ ReadyConversation.active = {}
  /\ ReadyConversation.lifecycle = "idle"
  /\ \A t \in Turns : ReadyConversation.turns[t] = Absent
  /\ \A a \in Items : ReadyConversation.actions[a] = Absent
  /\ \A e \in Requests : ReadyConversation.elicitations[e] = Absent
  BY DEF ReadyConversation, ConversationState, Lifecycle

\* A new chat.
LEMMA InitBase == Init => Base
<1> SUFFICES ASSUME Init
             PROVE  Base
  OBVIOUS
<1>1. /\ conv = ReadyConversation /\ permissions = {} /\ session = NewSession
      /\ history = [t \in Turns |-> 0] /\ op = NoOperation /\ waiting = <<>>
      /\ run = NoRun(NoTurn) /\ claude = NoQuery /\ stream = <<>>
      /\ row \in Files /\ files \in [Turns -> SUBSET Turns]
  BY DEF Init, Files
<1>2. ~ Sending
  BY <1>1, Fields DEF Sending
<1>3. TypeOK
  BY <1>1, FreshConv, Fields DEF TypeOK
<1>4. WorkOK /\ WaitingOK
  BY <1>1, <1>2, Fields DEF WorkOK, WaitingOK
<1>5. LiveOK
  BY <1>1, <1>2, FreshConv DEF LiveOK, IsLive
<1>6. StreamOK /\ ItemsOK
  BY <1>1, <1>2, Fields DEF StreamOK, ItemsOK
<1>7. PermissionsOK
  BY <1>1, Fields DEF PermissionsOK, PromptIsAnswerable
<1> QED
  BY <1>3, <1>4, <1>5, <1>6, <1>7 DEF Base

\* Another daemon starts.
LEMMA RestartStep == Base /\ Restart => Base'
<1> SUFFICES ASSUME Base, Restart
             PROVE  Base'
  OBVIOUS
<1>1. /\ conv' = ReadyConversation /\ permissions' = {} /\ session' = NewSession
      /\ history' = [t \in Turns |-> 0] /\ op' = NoOperation /\ waiting' = <<>>
      /\ run' = NoRun(run.turn) /\ claude' = NoQuery /\ stream' = <<>>
      /\ row' \in Files /\ files' \in [Turns -> SUBSET Turns]
  BY DEF Restart, Base, TypeOK
<1>2. run.turn \in Turns \cup {NoTurn}
  BY DEF Base, TypeOK, Run
<1>3. ~ Sending'
  BY <1>1, Fields DEF Sending
<1>4. TypeOK'
  BY <1>1, <1>2, FreshConv, Fields DEF TypeOK
<1>5. WorkOK' /\ WaitingOK'
  BY <1>1, <1>2, <1>3, Fields DEF WorkOK, WaitingOK
<1>6. LiveOK'
  BY <1>1, <1>3, FreshConv DEF LiveOK, IsLive
<1>7. StreamOK' /\ ItemsOK'
  BY <1>1, <1>3, Fields DEF StreamOK, ItemsOK
<1>8. PermissionsOK'
  BY <1>1, <1>2, Fields DEF PermissionsOK, PromptIsAnswerable
<1> QED
  BY <1>4, <1>5, <1>6, <1>7, <1>8 DEF Base

-----------------------------------------------------------------------------
(* An answer, and what Claude writes.                                      *)

\* What a query makes of an answer.
LEMMA AnsweredQuery ==
  ASSUME NEW q \in Query, NEW e \in Items, NEW decision, NEW r, r = Answered(q, e, decision)
  PROVE  /\ r \in Query /\ r.file = q.file /\ r.used = q.used
         /\ r.asked = q.asked \ {e} /\ r.due \subseteq q.due \cup (q.asked \cap {e})
         /\ r.phase = q.phase \/ (q.phase = "working" /\ r.phase = "interrupted")
<1>1. CASE e \notin q.asked
  BY <1>1 DEF Answered
<1>2. CASE e \in q.asked
  BY <1>2 DEF Answered, Query
<1> QED
  BY <1>1, <1>2

\* The user answers the prompt, which has its permission.
LEMMA AnswerStep ==
  ASSUME Base, NEW e \in Requests, NEW decision, Answer(e, decision)
  PROVE  Base'
<1>1. /\ TypeOK /\ WorkOK /\ run \in Run /\ claude \in Query /\ e \in Items
      /\ conv \in ConversationState
  BY ToolUseAssumption DEF Base, TypeOK
<1>2. /\ run.prompt = e /\ e \in permissions
      /\ run' = IF run.phase = "late" THEN NoRun(run.turn)
                ELSE [run EXCEPT !.prompt = NoRequest]
      /\ permissions' = permissions \ {e} /\ conv' = Decided(conv, e, decision)
      /\ claude' = Answered(claude, e, decision)
      /\ UNCHANGED <<session, history, op, waiting, row, stream, files>>
  BY DEF Answer
<1>3. run.phase \in {"running", "late"} /\ run.prompt # NoRequest
  BY <1>2, RequestsAssumption DEF Base, PermissionsOK, PromptIsAnswerable
<1>4. /\ run' \in Run /\ run'.turn = run.turn /\ run'.prompt = NoRequest
      /\ \/ run.phase = "late" /\ run'.phase = "none"
         \/ run.phase = "running" /\ run'.phase = "running"
  BY <1>1, <1>2, <1>3, Fields DEF Run
<1>5. /\ conv.elicitations[e] # Absent /\ conv.elicitations[e].item = e
      /\ conv.actions[e] # Absent /\ conv.turns[conv.elicitations[e].turn] # Absent
  BY <1>2 DEF Base, PermissionsOK
<1>6. /\ conv' \in ConversationState /\ conv'.active = conv.active
      /\ conv'.lifecycle = conv.lifecycle
      /\ SameTurns(conv, conv') /\ KeepsActions(conv, conv') /\ KeepsRequests(conv, conv')
  BY <1>1, <1>2, <1>5, DecidedConv
<1>7. /\ claude' \in Query /\ claude'.file = claude.file /\ claude'.used = claude.used
      /\ claude'.asked = claude.asked \ {e}
      /\ claude'.due \subseteq claude.due \cup (claude.asked \cap {e})
      /\ claude'.phase = claude.phase
           \/ (claude.phase = "working" /\ claude'.phase = "interrupted")
  BY <1>1, <1>2, AnsweredQuery
<1>8. TypeOK'
  BY <1>1, <1>2, <1>4, <1>6, <1>7 DEF TypeOK
<1>9. WorkOK'
  BY <1>1, <1>2, <1>4, <1>7 DEF WorkOK, Sending
<1>10. WaitingOK'
  BY <1>2, <1>3 DEF Base, WaitingOK
<1>11. LiveOK'
  <2>1. \A t \in Turns : IsLive(conv, t) <=> IsLive(conv', t)
    BY <1>6 DEF SameTurns, IsLive
  <2>2. Sending => op.turn \in Turns
    BY DEF Base, WorkOK
  <2> QED
    BY <1>2, <1>6, <2>1, <2>2 DEF Base, LiveOK, Sending, SameTurns
<1>12. StreamOK'
  BY <1>2, <1>6, <1>7 DEF Base, StreamOK, Sending
<1>13. ItemsOK'
  <2>1. \A i \in 1 .. Len(stream) : stream[i] \in Message
    BY <1>1, ItemTyped DEF TypeOK
  <2>2. \A i \in 1 .. Len(stream) :
          Opening(stream[i]) \/ stream[i].type = "tool_result" => stream[i].item \in Items
    BY <2>1, Fields DEF Opening
  <2>3. claude.used \subseteq Items /\ claude.asked \cup claude.due \subseteq claude.used
    BY <1>1 DEF Base, ItemsOK, Query
  <2>4. \A a \in Items : conv'.actions[a] = Absent <=> conv.actions[a] = Absent
    BY <1>6 DEF KeepsActions
  <2> QED
    BY <1>2, <1>7, <2>2, <2>3, <2>4 DEF Base, ItemsOK
<1>14. PermissionsOK'
  <2>1. PromptIsAnswerable'
    BY <1>4 DEF PromptIsAnswerable
  <2>2. ASSUME NEW f \in permissions
        PROVE  /\ conv'.elicitations[f] # Absent /\ conv'.elicitations[f].item = f
               /\ conv'.actions[f] # Absent
               /\ conv'.actions[f].turn = conv'.elicitations[f].turn
               /\ conv'.turns[conv'.elicitations[f].turn] # Absent
    <3>1. f \in Requests /\ f \in Items
      BY <1>1, ToolUseAssumption DEF TypeOK
    <3>2. /\ conv.elicitations[f] # Absent /\ conv.elicitations[f].item = f
          /\ conv.actions[f] # Absent /\ conv.actions[f].turn = conv.elicitations[f].turn
          /\ conv.turns[conv.elicitations[f].turn] # Absent
      BY DEF Base, PermissionsOK
    <3>3. conv.elicitations[f].turn \in Turns
      BY <1>1, <3>1, <3>2, ConvFields DEF ElicitationState
    <3> QED
      BY <1>6, <3>1, <3>2, <3>3 DEF SameTurns, KeepsActions, KeepsRequests
  <2> QED
    BY <1>2, <2>1, <2>2 DEF PermissionsOK
<1> QED
  BY <1>8, <1>9, <1>10, <1>11, <1>12, <1>13, <1>14 DEF Base

\* A step of Claude: only the query, what it writes and the files change.
ClaudeStep ==
  /\ UNCHANGED <<conv, permissions, session, history, op, waiting, run, row>>
  /\ claude.phase # "off" /\ claude' \in Query /\ claude'.phase # "off"
  /\ claude'.file = claude.file
  /\ stream' \in Seq(Message) /\ files' \in [Turns -> SUBSET Turns]

\* It leaves these alone, and the active turn is that of the operation.
LEMMA ClaudeStepKeeps ==
  ASSUME Base, ClaudeStep
  PROVE  TypeOK' /\ WorkOK' /\ WaitingOK' /\ LiveOK' /\ PermissionsOK'
<1>1. TypeOK'
  BY DEF ClaudeStep, Base, TypeOK
<1>2. WorkOK'
  BY DEF ClaudeStep, Base, WorkOK, Sending
<1>3. WaitingOK'
  BY DEF ClaudeStep, Base, WaitingOK
<1>4. LiveOK'
  BY DEF ClaudeStep, Base, LiveOK, IsLive, Sending
<1>5. PermissionsOK'
  BY DEF ClaudeStep, Base, PermissionsOK, PromptIsAnswerable
<1> QED
  BY <1>1, <1>2, <1>3, <1>4, <1>5

\* A query that is not over has an active turn and has written no end.
LEMMA QueryWorks ==
  ASSUME Base, claude.phase \notin {"off", "ended", "dead"}
  PROVE  /\ Sending /\ conv.active # {} /\ op.turn \in Turns
         /\ \A i \in 1 .. Len(stream) : stream[i].type \notin {"end", "result"}
<1>1. Sending /\ op.turn \in Turns
  BY DEF Base, WorkOK
<1>2. \A i \in 1 .. Len(stream) : stream[i].type \notin {"end", "result"}
  BY DEF Base, StreamOK
<1>3. conv.active # {}
  BY <1>1, <1>2 DEF Base, StreamOK
<1> QED
  BY <1>1, <1>2, <1>3

\* It starts, and its init message is the first.
LEMMA ClaudeStartsStep == Base /\ ClaudeStarts => Base'
<1> SUFFICES ASSUME Base, ClaudeStarts
             PROVE  Base'
  OBVIOUS
<1>1. claude \in Query /\ stream \in Seq(Message) /\ files \in [Turns -> SUBSET Turns]
  BY DEF Base, TypeOK
<1>2. PICK m \in Message : m = [type |-> "init"]
  BY DEF Message
<1>3. m.type = "init"
  BY <1>2
<1>4. /\ claude.phase = "starting" /\ claude' = [claude EXCEPT !.phase = "working"]
      /\ files' = [files EXCEPT ![claude.file] = @ \cup {op.turn}]
      /\ stream' = stream \o <<m>>
      /\ UNCHANGED <<conv, permissions, session, history, op, waiting, run, row>>
  BY <1>2 DEF ClaudeStarts, Writes
<1>5. stream = <<>> /\ conv.active # {} /\ op.turn \in Turns
  BY <1>4, QueryWorks DEF Base, StreamOK
<1>6. stream' = <<m>> /\ stream' \in Seq(Message) /\ Len(stream') = 1 /\ stream'[1] = m
  BY <1>4, <1>5
<1>7. /\ claude' \in Query /\ claude'.phase = "working" /\ claude'.file = claude.file
      /\ claude'.used = claude.used /\ claude'.asked = claude.asked
      /\ claude'.due = claude.due
  BY <1>1, <1>4 DEF Query
<1>8. TypeOK' /\ WorkOK' /\ WaitingOK' /\ LiveOK' /\ PermissionsOK'
  BY <1>1, <1>4, <1>5, <1>6, <1>7, ClaudeStepKeeps DEF ClaudeStep
<1>9. StreamOK'
  BY <1>3, <1>4, <1>5, <1>6, <1>7 DEF StreamOK
<1>10. ItemsOK'
  <2>1. \A i \in 1 .. Len(stream') : stream'[i].type = "init"
    BY <1>3, <1>6
  <2>2. \A a \in claude.used : conv.actions[a] # Absent
    BY <1>5 DEF Base, ItemsOK
  <2> QED
    BY <1>4, <1>7, <2>1, <2>2 DEF Base, ItemsOK, Opening
<1> QED
  BY <1>8, <1>9, <1>10 DEF Base

\* A query that is not over writes a message about a tool.
LEMMA WritesItem ==
  ASSUME Base, claude.phase \in {"working", "interrupted"},
         NEW m \in Message, stream' = stream \o <<m>>, m.type \notin {"end", "result"},
         UNCHANGED <<conv, op>>, claude'.phase = claude.phase
  PROVE  /\ StreamOK' /\ stream' \in Seq(Message)
         /\ Len(stream') = Len(stream) + 1 /\ Len(stream) \in Nat
         /\ stream'[Len(stream) + 1] = m
         /\ \A i \in 1 .. Len(stream) : i \in 1 .. Len(stream') /\ stream'[i] = stream[i]
         /\ \A i \in 1 .. Len(stream') :
              \/ i \in 1 .. Len(stream) /\ stream'[i] = stream[i]
              \/ i = Len(stream) + 1 /\ stream'[i] = m
<1>1. stream \in Seq(Message)
  BY DEF Base, TypeOK
<1>2. /\ stream' \in Seq(Message)
      /\ Len(stream') = Len(stream) + 1 /\ Len(stream) \in Nat
      /\ stream'[Len(stream) + 1] = m
      /\ \A i \in 1 .. Len(stream) : i \in 1 .. Len(stream') /\ stream'[i] = stream[i]
      /\ \A i \in 1 .. Len(stream') :
           \/ i \in 1 .. Len(stream) /\ stream'[i] = stream[i]
           \/ i = Len(stream) + 1 /\ stream'[i] = m
  BY <1>1, AppendItems
<1>3. /\ conv.active # {}
      /\ \A i \in 1 .. Len(stream) : stream[i].type \notin {"end", "result"}
  BY QueryWorks
<1>4. \A i \in 1 .. Len(stream') : stream'[i].type \notin {"end", "result"}
  BY <1>2, <1>3
<1>5. StreamOK'
  BY <1>3, <1>4 DEF StreamOK
<1> QED
  BY <1>2, <1>5

\* A tool runs at once or asks.
LEMMA ClaudeUsesStep ==
  ASSUME Base, NEW a \in Items, NEW asks \in BOOLEAN, ClaudeUses(a, asks)
  PROVE  Base'
<1>1. claude \in Query /\ files \in [Turns -> SUBSET Turns]
  BY DEF Base, TypeOK
<1>2. PICK m \in Message : m = About(IF asks THEN "permission" ELSE "tool_use", a)
  BY Fields
<1>3. m.type \in {"permission", "tool_use"} /\ m.item = a
  BY <1>2 DEF About
<1>4. /\ claude.phase = "working" /\ a \notin claude.used /\ conv.actions[a] = Absent
      /\ claude' = [claude EXCEPT !.used = @ \cup {a},
                                  !.asked = IF asks THEN @ \cup {a} ELSE @,
                                  !.due = IF asks THEN @ ELSE @ \cup {a}]
      /\ stream' = stream \o <<m>>
      /\ UNCHANGED <<conv, permissions, session, history, op, waiting, run, row, files>>
  BY <1>2 DEF ClaudeUses, Writes
<1>5. /\ claude' \in Query /\ claude'.phase = "working" /\ claude'.file = claude.file
      /\ claude'.used = claude.used \cup {a}
      /\ claude'.asked \subseteq claude.asked \cup {a}
      /\ claude'.due \subseteq claude.due \cup {a}
  BY <1>1, <1>4 DEF Query
<1>6. /\ StreamOK' /\ stream' \in Seq(Message)
      /\ Len(stream') = Len(stream) + 1 /\ Len(stream) \in Nat
      /\ stream'[Len(stream) + 1] = m
      /\ \A i \in 1 .. Len(stream) : i \in 1 .. Len(stream') /\ stream'[i] = stream[i]
      /\ \A i \in 1 .. Len(stream') :
           \/ i \in 1 .. Len(stream) /\ stream'[i] = stream[i]
           \/ i = Len(stream) + 1 /\ stream'[i] = m
  BY <1>3, <1>4, <1>5, WritesItem
<1>7. TypeOK' /\ WorkOK' /\ WaitingOK' /\ LiveOK' /\ PermissionsOK'
  BY <1>1, <1>4, <1>5, <1>6, ClaudeStepKeeps DEF ClaudeStep
<1>8. ItemsOK'
  <2>1. claude'.asked \cup claude'.due \subseteq claude'.used
    BY <1>5 DEF Base, ItemsOK
  <2>2. \A i \in 1 .. Len(stream) : Opening(stream[i]) => stream[i].item # a
    BY <1>4 DEF Base, ItemsOK
  <2>3. Opening(m)
    BY <1>3 DEF Opening
  <2>4. \A i \in 1 .. Len(stream') : Opening(stream'[i]) =>
          /\ conv'.actions[stream'[i].item] = Absent
          /\ stream'[i].item \in claude'.used
          /\ \A j \in 1 .. Len(stream') :
               Opening(stream'[j]) /\ stream'[j].item = stream'[i].item => j = i
    BY <1>3, <1>4, <1>5, <1>6, <2>2 DEF Base, ItemsOK
  <2>5. \A i \in 1 .. Len(stream') :
          stream'[i].type = "tool_result" /\ conv'.actions[stream'[i].item] = Absent =>
            \E j \in 1 .. Len(stream') :
              j < i /\ Opening(stream'[j]) /\ stream'[j].item = stream'[i].item
    <3> SUFFICES ASSUME NEW i \in 1 .. Len(stream'), stream'[i].type = "tool_result",
                        conv'.actions[stream'[i].item] = Absent
                 PROVE  \E j \in 1 .. Len(stream') :
                          j < i /\ Opening(stream'[j]) /\ stream'[j].item = stream'[i].item
      OBVIOUS
    <3>1. i \in 1 .. Len(stream) /\ stream'[i] = stream[i]
      BY <1>3, <1>6
    <3>2. PICK j \in 1 .. Len(stream) :
            j < i /\ Opening(stream[j]) /\ stream[j].item = stream[i].item
      BY <1>4, <3>1 DEF Base, ItemsOK
    <3> QED
      BY <1>6, <3>1, <3>2
  <2>6. \A b \in claude'.used : conv'.actions[b] = Absent =>
          \E j \in 1 .. Len(stream') : Opening(stream'[j]) /\ stream'[j].item = b
    <3> SUFFICES ASSUME NEW b \in claude'.used, conv'.actions[b] = Absent
                 PROVE  \E j \in 1 .. Len(stream') : Opening(stream'[j]) /\ stream'[j].item = b
      OBVIOUS
    <3>1. CASE b = a
      BY <1>3, <1>6, <2>3, <3>1
    <3>2. CASE b # a
      <4>1. PICK j \in 1 .. Len(stream) : Opening(stream[j]) /\ stream[j].item = b
        BY <1>4, <1>5, <3>2 DEF Base, ItemsOK
      <4> QED
        BY <1>6, <4>1
    <3> QED
      BY <3>1, <3>2
  <2> QED
    BY <2>1, <2>4, <2>5, <2>6 DEF ItemsOK
<1> QED
  BY <1>6, <1>7, <1>8 DEF Base

\* A tool has its result.
LEMMA ClaudeToolsStep ==
  ASSUME Base, NEW a \in Items, ClaudeTools(a)
  PROVE  Base'
<1>1. claude \in Query /\ files \in [Turns -> SUBSET Turns]
  BY DEF Base, TypeOK
<1>2. PICK m \in Message : m = About("tool_result", a)
  BY Fields
<1>3. m.type = "tool_result" /\ m.item = a
  BY <1>2 DEF About
<1>4. /\ claude.phase \in {"working", "interrupted"} /\ a \in claude.due \cup claude.asked
      /\ claude' = [claude EXCEPT !.due = @ \ {a}, !.asked = @ \ {a}]
      /\ stream' = stream \o <<m>>
      /\ UNCHANGED <<conv, permissions, session, history, op, waiting, run, row, files>>
  BY <1>2 DEF ClaudeTools, Writes
<1>5. /\ claude' \in Query /\ claude'.phase = claude.phase /\ claude'.file = claude.file
      /\ claude'.used = claude.used
      /\ claude'.asked = claude.asked \ {a} /\ claude'.due = claude.due \ {a}
  BY <1>1, <1>4 DEF Query
<1>6. /\ StreamOK' /\ stream' \in Seq(Message)
      /\ Len(stream') = Len(stream) + 1 /\ Len(stream) \in Nat
      /\ stream'[Len(stream) + 1] = m
      /\ \A i \in 1 .. Len(stream) : i \in 1 .. Len(stream') /\ stream'[i] = stream[i]
      /\ \A i \in 1 .. Len(stream') :
           \/ i \in 1 .. Len(stream) /\ stream'[i] = stream[i]
           \/ i = Len(stream) + 1 /\ stream'[i] = m
  BY <1>3, <1>4, <1>5, WritesItem
<1>7. TypeOK' /\ WorkOK' /\ WaitingOK' /\ LiveOK' /\ PermissionsOK'
  BY <1>1, <1>4, <1>5, <1>6, ClaudeStepKeeps DEF ClaudeStep
<1>8. ItemsOK'
  <2>1. claude'.asked \cup claude'.due \subseteq claude'.used
    BY <1>5 DEF Base, ItemsOK
  <2>2. ~ Opening(m)
    BY <1>3 DEF Opening
  <2>3. \A i \in 1 .. Len(stream') : Opening(stream'[i]) =>
          /\ conv'.actions[stream'[i].item] = Absent
          /\ stream'[i].item \in claude'.used
          /\ \A j \in 1 .. Len(stream') :
               Opening(stream'[j]) /\ stream'[j].item = stream'[i].item => j = i
    BY <1>4, <1>5, <1>6, <2>2 DEF Base, ItemsOK
  <2>4. \A b \in claude.used : conv.actions[b] = Absent =>
          \E j \in 1 .. Len(stream) : Opening(stream[j]) /\ stream[j].item = b
    BY DEF Base, ItemsOK
  <2>5. a \in claude.used
    BY <1>4 DEF Base, ItemsOK
  <2>6. \A i \in 1 .. Len(stream') :
          stream'[i].type = "tool_result" /\ conv'.actions[stream'[i].item] = Absent =>
            \E j \in 1 .. Len(stream') :
              j < i /\ Opening(stream'[j]) /\ stream'[j].item = stream'[i].item
    <3> SUFFICES ASSUME NEW i \in 1 .. Len(stream'), stream'[i].type = "tool_result",
                        conv'.actions[stream'[i].item] = Absent
                 PROVE  \E j \in 1 .. Len(stream') :
                          j < i /\ Opening(stream'[j]) /\ stream'[j].item = stream'[i].item
      OBVIOUS
    <3>1. CASE i \in 1 .. Len(stream) /\ stream'[i] = stream[i]
      <4>1. PICK j \in 1 .. Len(stream) :
              j < i /\ Opening(stream[j]) /\ stream[j].item = stream[i].item
        BY <1>4, <3>1 DEF Base, ItemsOK
      <4> QED
        BY <1>6, <3>1, <4>1
    <3>2. CASE i = Len(stream) + 1 /\ stream'[i] = m
      <4>1. PICK j \in 1 .. Len(stream) : Opening(stream[j]) /\ stream[j].item = a
        BY <1>3, <1>4, <2>4, <2>5, <3>2
      <4> QED
        BY <1>3, <1>6, <3>2, <4>1
    <3> QED
      BY <1>6, <3>1, <3>2
  <2>7. \A b \in claude'.used : conv'.actions[b] = Absent =>
          \E j \in 1 .. Len(stream') : Opening(stream'[j]) /\ stream'[j].item = b
    <3> SUFFICES ASSUME NEW b \in claude'.used, conv'.actions[b] = Absent
                 PROVE  \E j \in 1 .. Len(stream') : Opening(stream'[j]) /\ stream'[j].item = b
      OBVIOUS
    <3>1. PICK j \in 1 .. Len(stream) : Opening(stream[j]) /\ stream[j].item = b
      BY <1>4, <1>5, <2>4
    <3> QED
      BY <1>6, <3>1
  <2> QED
    BY <2>1, <2>3, <2>6, <2>7 DEF ItemsOK
<1> QED
  BY <1>6, <1>7, <1>8 DEF Base

\* Claude ends the turn.
LEMMA ClaudeEndsStep == Base /\ ClaudeEnds => Base'
<1> SUFFICES ASSUME Base, ClaudeEnds
             PROVE  Base'
  OBVIOUS
<1>1. claude \in Query /\ stream \in Seq(Message) /\ files \in [Turns -> SUBSET Turns]
  BY DEF Base, TypeOK
<1>2. PICK m \in Message, n \in Message : m = [type |-> "result"] /\ n = [type |-> "end"]
  BY DEF Message
<1>3. m.type = "result" /\ n.type = "end"
  BY <1>2
<1>4. /\ claude.phase \in {"working", "interrupted"}
      /\ claude' = [claude EXCEPT !.phase = "ended"]
      /\ stream' = stream \o <<m, n>>
      /\ UNCHANGED <<conv, permissions, session, history, op, waiting, run, row, files>>
  BY <1>2 DEF ClaudeEnds, Writes
<1>5. /\ claude' \in Query /\ claude'.phase = "ended" /\ claude'.file = claude.file
      /\ claude'.used = claude.used /\ claude'.asked = claude.asked
      /\ claude'.due = claude.due
  BY <1>1, <1>4 DEF Query
<1>6. /\ stream' \in Seq(Message) /\ Len(stream) \in Nat /\ Len(stream') = Len(stream) + 2
      /\ stream'[Len(stream) + 1] = m /\ stream'[Len(stream) + 2] = n
      /\ \A i \in 1 .. Len(stream) : i \in 1 .. Len(stream') /\ stream'[i] = stream[i]
      /\ \A i \in 1 .. Len(stream') :
           \/ i \in 1 .. Len(stream) /\ stream'[i] = stream[i]
           \/ i = Len(stream) + 1 /\ stream'[i] = m
           \/ i = Len(stream) + 2 /\ stream'[i] = n
  BY <1>1, <1>4
<1>7. TypeOK' /\ WorkOK' /\ WaitingOK' /\ LiveOK' /\ PermissionsOK'
  BY <1>1, <1>4, <1>5, <1>6, ClaudeStepKeeps DEF ClaudeStep
<1>8. /\ conv.active # {}
      /\ \A i \in 1 .. Len(stream) : stream[i].type \notin {"end", "result"}
  BY <1>4, QueryWorks
<1>9. StreamOK'
  <2>1. \A i \in 1 .. Len(stream') :
          /\ stream'[i].type = "end" => i = Len(stream) + 2
          /\ stream'[i].type = "result" => i = Len(stream) + 1
    BY <1>3, <1>6, <1>8
  <2>2. \A i \in 1 .. Len(stream') :
          /\ stream'[i].type = "end" =>
               /\ i = Len(stream')
               /\ conv'.active = {} \/ (i > 1 /\ stream'[i - 1].type = "result")
          /\ stream'[i].type = "result" =>
               i = Len(stream') - 1 /\ conv'.active # {} /\ stream'[i + 1].type = "end"
    <3>1. \A i \in 1 .. Len(stream') :
            /\ i = Len(stream) + 2 => i = Len(stream') /\ i > 1 /\ i - 1 = Len(stream) + 1
            /\ i = Len(stream) + 1 => i = Len(stream') - 1 /\ i + 1 = Len(stream) + 2
      BY <1>6
    <3>2. stream'[Len(stream) + 1].type = "result" /\ stream'[Len(stream) + 2].type = "end"
      BY <1>3, <1>6
    <3> QED
      BY <1>4, <1>8, <2>1, <3>1, <3>2
  <2> QED
    BY <1>4, <1>5, <1>8, <2>2 DEF StreamOK
<1>10. ItemsOK'
  <2>1. ~ Opening(m) /\ ~ Opening(n) /\ m.type # "tool_result" /\ n.type # "tool_result"
    BY <1>3 DEF Opening
  <2>2. \A i \in 1 .. Len(stream') : Opening(stream'[i]) \/ stream'[i].type = "tool_result" =>
          i \in 1 .. Len(stream) /\ stream'[i] = stream[i]
    BY <1>6, <2>1
  <2>3. claude'.asked \cup claude'.due \subseteq claude'.used
    BY <1>5 DEF Base, ItemsOK
  <2>4. \A i \in 1 .. Len(stream') : Opening(stream'[i]) =>
          /\ conv'.actions[stream'[i].item] = Absent
          /\ stream'[i].item \in claude'.used
          /\ \A j \in 1 .. Len(stream') :
               Opening(stream'[j]) /\ stream'[j].item = stream'[i].item => j = i
    BY <1>4, <1>5, <2>2 DEF Base, ItemsOK
  <2>5. \A i \in 1 .. Len(stream') :
          stream'[i].type = "tool_result" /\ conv'.actions[stream'[i].item] = Absent =>
            \E j \in 1 .. Len(stream') :
              j < i /\ Opening(stream'[j]) /\ stream'[j].item = stream'[i].item
    <3> SUFFICES ASSUME NEW i \in 1 .. Len(stream'), stream'[i].type = "tool_result",
                        conv'.actions[stream'[i].item] = Absent
                 PROVE  \E j \in 1 .. Len(stream') :
                          j < i /\ Opening(stream'[j]) /\ stream'[j].item = stream'[i].item
      OBVIOUS
    <3>1. i \in 1 .. Len(stream) /\ stream'[i] = stream[i]
      BY <2>2
    <3>2. PICK j \in 1 .. Len(stream) :
            j < i /\ Opening(stream[j]) /\ stream[j].item = stream[i].item
      BY <1>4, <3>1 DEF Base, ItemsOK
    <3> QED
      BY <1>6, <3>1, <3>2
  <2>6. \A b \in claude'.used : conv'.actions[b] = Absent =>
          \E j \in 1 .. Len(stream') : Opening(stream'[j]) /\ stream'[j].item = b
    <3> SUFFICES ASSUME NEW b \in claude'.used, conv'.actions[b] = Absent
                 PROVE  \E j \in 1 .. Len(stream') : Opening(stream'[j]) /\ stream'[j].item = b
      OBVIOUS
    <3>1. PICK j \in 1 .. Len(stream) : Opening(stream[j]) /\ stream[j].item = b
      BY <1>4, <1>5 DEF Base, ItemsOK
    <3> QED
      BY <1>6, <3>1
  <2> QED
    BY <2>3, <2>4, <2>5, <2>6 DEF ItemsOK
<1> QED
  BY <1>7, <1>9, <1>10 DEF Base

\* Claude dies.
LEMMA ClaudeDiesStep == Base /\ ClaudeDies => Base'
<1> SUFFICES ASSUME Base, ClaudeDies
             PROVE  Base'
  OBVIOUS
<1>1. claude \in Query /\ stream \in Seq(Message) /\ files \in [Turns -> SUBSET Turns]
  BY DEF Base, TypeOK
<1>2. /\ claude.phase # "off" /\ claude' = [claude EXCEPT !.phase = "dead"]
      /\ UNCHANGED <<conv, permissions, session, history, op, waiting, run, row, stream,
                     files>>
  BY DEF ClaudeDies
<1>3. /\ claude' \in Query /\ claude'.phase = "dead" /\ claude'.file = claude.file
      /\ claude'.used = claude.used /\ claude'.asked = claude.asked
      /\ claude'.due = claude.due
  BY <1>1, <1>2 DEF Query
<1>4. TypeOK' /\ WorkOK' /\ WaitingOK' /\ LiveOK' /\ PermissionsOK'
  BY <1>1, <1>2, <1>3, ClaudeStepKeeps DEF ClaudeStep
<1>5. StreamOK' /\ ItemsOK'
  BY <1>2, <1>3, QuietStep DEF Sending
<1> QED
  BY <1>4, <1>5 DEF Base

-----------------------------------------------------------------------------
(* The session reads.                                                      *)

\* It sends, for the run, and no other message waits.
LEMMA SessionSends ==
  ASSUME Base, Sending
  PROVE  /\ op \in Operation /\ op.turn = run.turn /\ op.turn \in Turns
         /\ run.phase = "running" /\ conv.turns[op.turn] # Absent
         /\ \A i \in 1 .. Len(waiting) : waiting[i].kind # "send"
         /\ claude.phase # "off" /\ conv.active \subseteq {op.turn}
<1>1. op \in Operation
  BY Fields DEF Base, TypeOK, Sending
<1>2. /\ op.turn = run.turn /\ run.phase = "running" /\ run.turn \in Turns
      /\ claude.phase # "off"
  BY DEF Base, WorkOK
<1>3. \A i \in 1 .. Len(waiting) : waiting[i].kind # "send"
  BY <1>2 DEF Base, WaitingOK
<1>4. conv.turns[op.turn] # Absent /\ conv.active \subseteq {op.turn}
  BY DEF Base, LiveOK
<1> QED
  BY <1>1, <1>2, <1>3, <1>4

\* What a message but the end finds.
LEMMA Read ==
  ASSUME Base, Reads
  PROVE  /\ Sending /\ stream # <<>> /\ Head(stream) \in Message
         /\ Head(stream) = stream[1] /\ 1 \in 1 .. Len(stream)
         /\ conv.active = {op.turn}
         /\ stream' = Tail(stream) /\ stream' \in Seq(Message)
         /\ Len(stream) \in Nat /\ Len(stream') = Len(stream) - 1
         /\ \A i \in 1 .. Len(stream') :
              stream'[i] = stream[i + 1] /\ i + 1 \in 1 .. Len(stream)
         /\ \A i \in 1 .. Len(stream) :
              i # 1 => i - 1 \in 1 .. Len(stream') /\ stream'[i - 1] = stream[i]
<1>1. Sending /\ stream # <<>> /\ Head(stream).type # "end" /\ stream' = Tail(stream)
  BY DEF Reads, Sending
<1>2. stream \in Seq(Message)
  BY DEF Base, TypeOK
<1>3. /\ Head(stream) \in Message /\ Head(stream) = stream[1] /\ 1 \in 1 .. Len(stream)
      /\ stream' \in Seq(Message) /\ Len(stream) \in Nat /\ Len(stream') = Len(stream) - 1
      /\ \A i \in 1 .. Len(stream') :
           stream'[i] = stream[i + 1] /\ i + 1 \in 1 .. Len(stream)
      /\ \A i \in 1 .. Len(stream) :
           i # 1 => i - 1 \in 1 .. Len(stream') /\ stream'[i - 1] = stream[i]
  BY <1>1, <1>2, TailItems
<1>4. conv.active # {}
  BY <1>1, <1>3 DEF Base, StreamOK
<1>5. conv.active = {op.turn}
  BY <1>4 DEF Base, LiveOK
<1> QED
  BY <1>1, <1>3, <1>5

\* The items after a message that begins an action or not.
LEMMA ReadItems ==
  ASSUME Base, Reads,
         \A a \in Items : conv'.actions[a] = Absent <=>
           (conv.actions[a] = Absent /\ ~ (Opening(stream[1]) /\ stream[1].item = a))
  PROVE  ItemsOK'
<1>1. /\ 1 \in 1 .. Len(stream) /\ Len(stream) \in Nat
      /\ \A i \in 1 .. Len(stream') :
           stream'[i] = stream[i + 1] /\ i + 1 \in 1 .. Len(stream)
      /\ \A i \in 1 .. Len(stream) :
           i # 1 => i - 1 \in 1 .. Len(stream') /\ stream'[i - 1] = stream[i]
      /\ claude' = claude
  BY Read DEF Reads
<1>2. stream \in Seq(Message) /\ claude.used \subseteq Items
  BY DEF Base, TypeOK, Query
<1>3. \A i \in 1 .. Len(stream) :
        Opening(stream[i]) \/ stream[i].type = "tool_result" => stream[i].item \in Items
  BY <1>2, ItemTyped, Fields DEF Opening
<1>4. claude'.asked \cup claude'.due \subseteq claude'.used
  BY <1>1 DEF Base, ItemsOK
<1>5. ASSUME NEW i \in 1 .. Len(stream'), Opening(stream'[i])
      PROVE  /\ conv'.actions[stream'[i].item] = Absent
             /\ stream'[i].item \in claude'.used
             /\ \A j \in 1 .. Len(stream') :
                  Opening(stream'[j]) /\ stream'[j].item = stream'[i].item => j = i
  <2>1. i + 1 \in 1 .. Len(stream) /\ stream'[i] = stream[i + 1] /\ i + 1 # 1
    BY <1>1
  <2>2. /\ conv.actions[stream[i + 1].item] = Absent /\ stream[i + 1].item \in claude.used
        /\ \A j \in 1 .. Len(stream) :
             Opening(stream[j]) /\ stream[j].item = stream[i + 1].item => j = i + 1
    BY <1>5, <2>1 DEF Base, ItemsOK
  <2>3. ~ (Opening(stream[1]) /\ stream[1].item = stream[i + 1].item)
    BY <1>1, <2>1, <2>2
  <2>4. ASSUME NEW j \in 1 .. Len(stream'), Opening(stream'[j]),
               stream'[j].item = stream'[i].item
        PROVE  j = i
    <3>1. stream'[j] = stream[j + 1] /\ j + 1 \in 1 .. Len(stream)
      BY <1>1
    <3>2. j + 1 = i + 1
      BY <2>1, <2>2, <2>4, <3>1
    <3>3. i \in Nat /\ j \in Nat
      BY <1>1
    <3> QED
      BY <3>2, <3>3
  <2>5. stream'[i].item \in Items
    BY <1>2, <2>1, <2>2
  <2>6. conv'.actions[stream'[i].item] = Absent
    BY <2>1, <2>2, <2>3, <2>5
  <2>7. stream'[i].item \in claude'.used
    BY <1>1, <2>1, <2>2
  <2> QED
    BY <2>4, <2>6, <2>7
<1>6. ASSUME NEW i \in 1 .. Len(stream'), stream'[i].type = "tool_result",
             conv'.actions[stream'[i].item] = Absent
      PROVE  \E j \in 1 .. Len(stream') :
               j < i /\ Opening(stream'[j]) /\ stream'[j].item = stream'[i].item
  <2>1. i + 1 \in 1 .. Len(stream) /\ stream'[i] = stream[i + 1] /\ stream'[i].item \in Items
    BY <1>1, <1>3, <1>6
  <2>2. /\ conv.actions[stream[i + 1].item] = Absent
        /\ ~ (Opening(stream[1]) /\ stream[1].item = stream[i + 1].item)
    BY <1>6, <2>1
  <2>3. PICK j \in 1 .. Len(stream) :
          j < i + 1 /\ Opening(stream[j]) /\ stream[j].item = stream[i + 1].item
    BY <1>6, <2>1, <2>2 DEF Base, ItemsOK
  <2>4. j # 1
    BY <2>2, <2>3
  <2>5. j - 1 \in 1 .. Len(stream') /\ stream'[j - 1] = stream[j] /\ j - 1 < i
    BY <1>1, <2>3, <2>4
  <2> QED
    BY <2>1, <2>3, <2>5
<1>7. ASSUME NEW a \in claude'.used, conv'.actions[a] = Absent
      PROVE  \E j \in 1 .. Len(stream') : Opening(stream'[j]) /\ stream'[j].item = a
  <2>1. conv.actions[a] = Absent /\ ~ (Opening(stream[1]) /\ stream[1].item = a)
    BY <1>1, <1>2, <1>7
  <2>2. PICK j \in 1 .. Len(stream) : Opening(stream[j]) /\ stream[j].item = a
    BY <1>1, <2>1 DEF Base, ItemsOK
  <2>3. j - 1 \in 1 .. Len(stream') /\ stream'[j - 1] = stream[j]
    BY <1>1, <2>1, <2>2
  <2> QED
    BY <2>2, <2>3
<1> QED
  BY <1>4, <1>5, <1>6, <1>7 DEF ItemsOK

\* A message that is not the result leaves the turn active.
LEMMA ReadGoesOn ==
  ASSUME Base, Reads, stream[1].type # "result",
         conv' \in ConversationState, conv'.active = conv.active,
         conv'.lifecycle \in {"idle", "active"}, SameTurns(conv, conv'),
         session' \in Session, permissions' \subseteq Requests,
         run' \in Run, run'.phase = run.phase, run'.turn = run.turn
  PROVE  TypeOK' /\ WorkOK' /\ WaitingOK' /\ LiveOK' /\ StreamOK'
<1>1. UNCHANGED <<history, op, waiting, row, claude, files>>
  BY DEF Reads
<1>2. /\ Sending /\ 1 \in 1 .. Len(stream) /\ Len(stream) \in Nat /\ stream' \in Seq(Message)
      /\ Len(stream') = Len(stream) - 1 /\ conv.active = {op.turn}
      /\ \A i \in 1 .. Len(stream') :
           stream'[i] = stream[i + 1] /\ i + 1 \in 1 .. Len(stream)
  BY Read
<1>3. TypeOK'
  BY <1>1, <1>2 DEF Base, TypeOK
<1>4. WorkOK'
  BY <1>1, <1>2 DEF Base, WorkOK, Sending
<1>5. WaitingOK'
  BY <1>1 DEF Base, WaitingOK
<1>6. LiveOK'
  <2>1. \A t \in Turns : IsLive(conv, t) <=> IsLive(conv', t)
    BY DEF SameTurns, IsLive
  <2>2. op.turn \in Turns
    BY <1>2, SessionSends
  <2> QED
    BY <1>1, <2>1, <2>2 DEF Base, LiveOK, Sending, SameTurns
<1>7. StreamOK'
  <2>1. conv'.active # {}
    BY <1>2
  <2>2. ASSUME NEW i \in 1 .. Len(stream'), stream'[i].type = "end"
        PROVE  i = Len(stream') /\ i > 1 /\ stream'[i - 1].type = "result"
    <3>1. i + 1 \in 1 .. Len(stream) /\ stream[i + 1].type = "end"
      BY <1>2, <2>2
    <3>2. i + 1 = Len(stream) /\ stream[(i + 1) - 1].type = "result"
      BY <1>2, <3>1 DEF Base, StreamOK
    <3>3. i \in 1 .. Len(stream) /\ stream[i].type = "result" /\ i # 1
      BY <1>2, <3>1, <3>2
    <3> QED
      BY <1>2, <3>2, <3>3
  <2>3. ASSUME NEW i \in 1 .. Len(stream'), stream'[i].type = "result"
        PROVE  i = Len(stream') - 1 /\ stream'[i + 1].type = "end"
    <3>1. i + 1 \in 1 .. Len(stream) /\ stream[i + 1].type = "result"
      BY <1>2, <2>3
    <3>2. i + 1 = Len(stream) - 1 /\ stream[(i + 1) + 1].type = "end"
      BY <3>1 DEF Base, StreamOK
    <3> QED
      BY <1>2, <3>2
  <2>4. \A i \in 1 .. Len(stream') :
          stream'[i].type \in {"end", "result"} => claude'.phase \in {"ended", "dead"}
    BY <1>1, <1>2 DEF Base, StreamOK
  <2>5. claude'.phase # "starting"
    BY <1>1, <1>2 DEF Base, StreamOK
  <2> QED
    BY <2>1, <2>2, <2>3, <2>4, <2>5 DEF StreamOK
<1> QED
  BY <1>3, <1>4, <1>5, <1>6, <1>7

\* The permissions when no action is another one's.
LEMMA KeptPermissions ==
  ASSUME Base, permissions' = permissions, PromptIsAnswerable', conv \in ConversationState,
         \A t \in Turns : conv.turns[t] # Absent => conv'.turns[t] # Absent,
         \A e \in permissions : conv'.actions[e] # Absent
                                  /\ conv'.actions[e].turn = conv.actions[e].turn,
         KeepsRequests(conv, conv')
  PROVE  PermissionsOK'
<1> SUFFICES ASSUME NEW f \in permissions
             PROVE  /\ conv'.elicitations[f] # Absent /\ conv'.elicitations[f].item = f
                    /\ conv'.actions[f] # Absent
                    /\ conv'.actions[f].turn = conv'.elicitations[f].turn
                    /\ conv'.turns[conv'.elicitations[f].turn] # Absent
  BY DEF PermissionsOK
<1>1. f \in Requests
  BY DEF Base, TypeOK
<1>2. /\ conv.elicitations[f] # Absent /\ conv.elicitations[f].item = f
      /\ conv.actions[f] # Absent /\ conv.actions[f].turn = conv.elicitations[f].turn
      /\ conv.turns[conv.elicitations[f].turn] # Absent
  BY DEF Base, PermissionsOK
<1>3. conv.elicitations[f].turn \in Turns
  BY <1>1, <1>2, ConvFields DEF ElicitationState
<1> QED
  BY <1>1, <1>2, <1>3 DEF KeepsRequests

\* The init message.
LEMMA ReadsInit == Base /\ Reads /\ stream[1].type = "init" => Base'
<1> SUFFICES ASSUME Base, Reads, stream[1].type = "init"
             PROVE  Base'
  OBVIOUS
<1>1. /\ conv' = StatusChanged(conv, "idle")
      /\ session' = [session EXCEPT !.remote = claude.file]
      /\ UNCHANGED <<permissions, run>>
  BY Read DEF Reads, Accepts
<1>2. /\ conv \in ConversationState /\ session \in Session /\ claude \in Query /\ run \in Run
      /\ permissions \subseteq Requests
  BY DEF Base, TypeOK
<1>3. /\ conv' \in ConversationState /\ conv'.active = conv.active /\ conv'.lifecycle = "idle"
      /\ conv'.turns = conv.turns /\ SameTurns(conv, conv')
      /\ conv'.actions = conv.actions /\ conv'.elicitations = conv.elicitations
  BY <1>1, <1>2, StatusChangedConv
<1>4. session' \in Session
  BY <1>1, <1>2 DEF Session, Query
<1>5. TypeOK' /\ WorkOK' /\ WaitingOK' /\ LiveOK' /\ StreamOK'
  BY <1>1, <1>2, <1>3, <1>4, ReadGoesOn
<1>6. ItemsOK'
  BY <1>3, ReadItems DEF Opening
<1>7. PermissionsOK'
  BY <1>1, <1>3 DEF Base, PermissionsOK, PromptIsAnswerable
<1> QED
  BY <1>5, <1>6, <1>7 DEF Base

\* The first message about a tool finds no action and no permission of it.
LEMMA OpeningIsNew ==
  ASSUME Base, Reads, Opening(stream[1])
  PROVE  /\ stream[1].item \in Items /\ stream[1].item \notin permissions
         /\ conv.actions[stream[1].item] = Absent
<1>1. stream[1] \in Message /\ 1 \in 1 .. Len(stream)
  BY Read
<1>2. conv.actions[stream[1].item] = Absent
  BY <1>1 DEF Base, ItemsOK
<1>3. stream[1].item \in Items
  BY <1>1, Fields DEF Opening
<1> QED
  BY <1>2, <1>3 DEF Base, PermissionsOK

\* A tool that runs at once.
LEMMA ReadsToolUse == Base /\ Reads /\ stream[1].type = "tool_use" => Base'
<1> SUFFICES ASSUME Base, Reads, stream[1].type = "tool_use"
             PROVE  Base'
  OBVIOUS
<1>1. PICK a : a = stream[1].item
  OBVIOUS
<1>2. /\ conv' = ActionObserved(conv, a, op.turn)
      /\ UNCHANGED <<permissions, session, run>>
  BY <1>1, Read DEF Reads, Accepts
<1>3. a \in Items /\ a \notin permissions /\ conv.actions[a] = Absent /\ Opening(stream[1])
  BY <1>1, OpeningIsNew DEF Opening
<1>4. /\ conv \in ConversationState /\ session \in Session /\ run \in Run
      /\ permissions \subseteq Requests
  BY DEF Base, TypeOK
<1>5. op.turn \in Turns /\ conv.turns[op.turn] # Absent
  BY Read, SessionSends
<1>6. /\ conv' \in ConversationState /\ conv'.active = conv.active
      /\ conv'.lifecycle = conv.lifecycle
      /\ SameTurns(conv, conv') /\ conv'.actions[a] # Absent
      /\ \A b \in Items : b # a => conv'.actions[b] = conv.actions[b]
      /\ conv'.elicitations = conv.elicitations
  <2>1. PICK c, t, d :
          /\ c \in ConversationState /\ t \in Turns
          /\ c = conv /\ t = op.turn /\ d = conv' /\ c.turns[t] # Absent
    BY <1>4, <1>5
  <2>2. d = ActionObserved(c, a, t) /\ a \in Items
    BY <1>2, <1>3, <2>1
  <2>3. /\ d \in ConversationState /\ d.active = c.active /\ d.lifecycle = c.lifecycle
        /\ SameTurns(c, d)
        /\ d.actions[a] = [phase |-> "running", turn |-> t] /\ d.actions[a] # Absent
        /\ \A b \in Items : b # a => d.actions[b] = c.actions[b]
        /\ d.elicitations = c.elicitations
    BY <2>1, <2>2, ActionObservedConv
  <2> QED
    BY <2>1, <2>3
<1>7. conv'.lifecycle \in {"idle", "active"}
  BY <1>6 DEF Base, LiveOK
<1>8. TypeOK' /\ WorkOK' /\ WaitingOK' /\ LiveOK' /\ StreamOK'
  BY <1>2, <1>4, <1>6, <1>7, ReadGoesOn
<1>9. ItemsOK'
  BY <1>1, <1>3, <1>6, ReadItems
<1>10. PermissionsOK'
  <2>1. PromptIsAnswerable'
    BY <1>2 DEF Base, PermissionsOK, PromptIsAnswerable
  <2>2. \A e \in permissions : conv'.actions[e] = conv.actions[e] /\ conv.actions[e] # Absent
    BY <1>3, <1>4, <1>6, ToolUseAssumption DEF Base, PermissionsOK
  <2>3. \A t \in Turns : conv.turns[t] # Absent => conv'.turns[t] # Absent
    BY <1>6 DEF SameTurns
  <2>4. KeepsRequests(conv, conv')
    BY <1>6 DEF KeepsRequests
  <2> QED
    BY <1>2, <1>4, <2>1, <2>2, <2>3, <2>4, KeptPermissions
<1> QED
  BY <1>8, <1>9, <1>10 DEF Base

\* A tool that asks.
LEMMA ReadsPermission == Base /\ Reads /\ stream[1].type = "permission" => Base'
<1> SUFFICES ASSUME Base, Reads, stream[1].type = "permission"
             PROVE  Base'
  OBVIOUS
<1>1. PICK a : a = stream[1].item
  OBVIOUS
<1>2. /\ permissions' = permissions \cup {a}
      /\ conv' = ElicitationOpened(ActionObserved(conv, a, op.turn), a, op.turn, a)
      /\ run' = [run EXCEPT !.prompt = a] /\ session' = session
  BY <1>1, Read DEF Reads, Accepts, PermissionAsked
<1>3. a \in Items /\ a \notin permissions /\ conv.actions[a] = Absent /\ Opening(stream[1])
  BY <1>1, OpeningIsNew DEF Opening
<1>4. /\ conv \in ConversationState /\ session \in Session /\ run \in Run
      /\ permissions \subseteq Requests /\ a \in Requests
  BY <1>3, ToolUseAssumption DEF Base, TypeOK
<1>5. /\ op.turn \in Turns /\ conv.turns[op.turn] # Absent /\ op.turn = run.turn
      /\ run.phase = "running"
  BY Read, SessionSends
<1>6. /\ conv' \in ConversationState /\ conv'.active = conv.active
      /\ conv'.lifecycle = "active" /\ SameTurns(conv, conv')
      /\ conv'.actions[a] = [phase |-> "awaiting_decision", turn |-> op.turn]
      /\ conv'.actions[a] # Absent
      /\ \A b \in Items : b # a => conv'.actions[b] = conv.actions[b]
      /\ conv'.elicitations[a] = [phase |-> "open", turn |-> op.turn, item |-> a]
      /\ conv'.elicitations[a] # Absent
      /\ \A e \in Requests : e # a => conv'.elicitations[e] = conv.elicitations[e]
  BY <1>2, <1>3, <1>4, <1>5, PermissionConv
<1>7. run' \in Run /\ run'.phase = run.phase /\ run'.turn = run.turn /\ run'.prompt = a
  BY <1>2, <1>4 DEF Run
<1>8. permissions' \subseteq Requests
  BY <1>2, <1>4
<1>9. TypeOK' /\ WorkOK' /\ WaitingOK' /\ LiveOK' /\ StreamOK'
  BY <1>2, <1>4, <1>6, <1>7, <1>8, ReadGoesOn
<1>10. ItemsOK'
  BY <1>1, <1>3, <1>6, ReadItems
<1>11. PermissionsOK'
  <2>1. PromptIsAnswerable'
    BY <1>2, <1>5, <1>7 DEF PromptIsAnswerable
  <2>2. ASSUME NEW e \in permissions'
        PROVE  /\ conv'.elicitations[e] # Absent /\ conv'.elicitations[e].item = e
               /\ conv'.actions[e] # Absent
               /\ conv'.actions[e].turn = conv'.elicitations[e].turn
               /\ conv'.turns[conv'.elicitations[e].turn] # Absent
    <3>1. CASE e = a
      BY <1>5, <1>6, <3>1 DEF SameTurns
    <3>2. CASE e # a
      <4>1. e \in permissions /\ e \in Requests /\ e \in Items
        BY <1>2, <1>4, <3>2, ToolUseAssumption
      <4>2. /\ conv.elicitations[e] # Absent /\ conv.elicitations[e].item = e
            /\ conv.actions[e] # Absent
            /\ conv.actions[e].turn = conv.elicitations[e].turn
            /\ conv.turns[conv.elicitations[e].turn] # Absent
        BY <4>1 DEF Base, PermissionsOK
      <4>3. conv.elicitations[e].turn \in Turns
        BY <1>4, <4>1, <4>2, ConvFields DEF ElicitationState
      <4> QED
        BY <1>6, <3>2, <4>1, <4>2, <4>3 DEF SameTurns
    <3> QED
      BY <3>1, <3>2
  <2> QED
    BY <2>1, <2>2 DEF PermissionsOK
<1> QED
  BY <1>9, <1>10, <1>11 DEF Base

\* The result of a tool, which has its action by now.
LEMMA ReadsToolResult == Base /\ Reads /\ stream[1].type = "tool_result" => Base'
<1> SUFFICES ASSUME Base, Reads, stream[1].type = "tool_result"
             PROVE  Base'
  OBVIOUS
<1>1. PICK a : a = stream[1].item
  OBVIOUS
<1>2. /\ conv' = ActionUpdated(conv, a, "completed")
      /\ run' = [run EXCEPT !.prompt = IF @ = a THEN NoRequest ELSE @]
      /\ UNCHANGED <<permissions, session>>
  BY <1>1, Read DEF Reads, Accepts
<1>3. a \in Items /\ conv.actions[a] # Absent
  <2>1. stream[1] \in Message /\ 1 \in 1 .. Len(stream) /\ Len(stream) \in Nat
    BY Read
  <2>2. \A j \in 1 .. Len(stream) : ~ (j < 1)
    BY <2>1
  <2> QED
    BY <1>1, <2>1, <2>2, Fields DEF Base, ItemsOK
<1>4. /\ conv \in ConversationState /\ session \in Session /\ run \in Run
      /\ permissions \subseteq Requests
  BY DEF Base, TypeOK
<1>5. /\ conv' \in ConversationState /\ conv'.active = conv.active
      /\ conv'.lifecycle = conv.lifecycle
      /\ SameTurns(conv, conv') /\ KeepsActions(conv, conv')
      /\ conv'.elicitations = conv.elicitations
  BY <1>2, <1>3, <1>4, ActionUpdatedConv
<1>6. /\ run' \in Run /\ run'.phase = run.phase /\ run'.turn = run.turn
      /\ run'.prompt \in {run.prompt, NoRequest}
  BY <1>2, <1>4 DEF Run
<1>7. conv'.lifecycle \in {"idle", "active"}
  BY <1>5 DEF Base, LiveOK
<1>8. TypeOK' /\ WorkOK' /\ WaitingOK' /\ LiveOK' /\ StreamOK'
  BY <1>2, <1>4, <1>5, <1>6, <1>7, ReadGoesOn
<1>9. ItemsOK'
  BY <1>5, ReadItems DEF KeepsActions, Opening
<1>10. PermissionsOK'
  <2>1. run.phase = "running"
    BY Read, SessionSends
  <2>2. PromptIsAnswerable'
    BY <1>2, <1>6, <2>1 DEF Base, PermissionsOK, PromptIsAnswerable
  <2>3. \A e \in permissions : conv'.actions[e] # Absent
                                 /\ conv'.actions[e].turn = conv.actions[e].turn
    BY <1>4, <1>5, ToolUseAssumption DEF Base, PermissionsOK, KeepsActions
  <2>4. \A t \in Turns : conv.turns[t] # Absent => conv'.turns[t] # Absent
    BY <1>5 DEF SameTurns
  <2>5. KeepsRequests(conv, conv')
    BY <1>5 DEF KeepsRequests
  <2> QED
    BY <1>2, <1>4, <2>2, <2>3, <2>4, <2>5, KeptPermissions
<1> QED
  BY <1>8, <1>9, <1>10 DEF Base

\* The turn of the operation ends in the engine.
LEMMA TurnEnds ==
  ASSUME Base, Sending, conv' = TurnTerminal(conv, op.turn)
  PROVE  /\ conv' \in ConversationState /\ conv'.active = {} /\ conv'.lifecycle = "idle"
         /\ conv'.turns[op.turn] # Absent
         /\ \A t \in Turns : ~ IsLive(conv', t)
         /\ \A t \in Turns : conv'.turns[t] = Absent <=> conv.turns[t] = Absent
         /\ KeepsActions(conv, conv') /\ KeepsRequests(conv, conv')
         /\ PromptIsAnswerable' /\ permissions' = permissions => PermissionsOK'
<1>1. conv \in ConversationState /\ permissions \subseteq Items
  BY ToolUseAssumption DEF Base, TypeOK
<1>2. op.turn \in Turns /\ conv.turns[op.turn] # Absent /\ conv.active \subseteq {op.turn}
  BY SessionSends
<1>3. /\ conv' \in ConversationState /\ conv'.active = {} /\ conv'.lifecycle = "idle"
      /\ conv'.turns[op.turn] # Absent /\ IsTerminal(conv'.turns[op.turn])
      /\ \A u \in Turns : u # op.turn => conv'.turns[u] = conv.turns[u]
      /\ KeepsActions(conv, conv') /\ KeepsRequests(conv, conv')
  BY <1>1, <1>2, TurnTerminalConv
<1>4. \A t \in Turns : ~ IsLive(conv', t)
  BY <1>2, <1>3 DEF Base, LiveOK, IsLive
<1>5. \A t \in Turns : conv'.turns[t] = Absent <=> conv.turns[t] = Absent
  BY <1>2, <1>3
<1>6. \A e \in permissions : conv'.actions[e] # Absent
                               /\ conv'.actions[e].turn = conv.actions[e].turn
  BY <1>1, <1>3 DEF Base, PermissionsOK, KeepsActions
<1>7. PromptIsAnswerable' /\ permissions' = permissions => PermissionsOK'
  BY <1>1, <1>3, <1>5, <1>6, KeptPermissions
<1> QED
  BY <1>3, <1>4, <1>5, <1>7

\* The result of the turn: only the end is left.
LEMMA ReadsResult == Base /\ Reads /\ stream[1].type = "result" => Base'
<1> SUFFICES ASSUME Base, Reads, stream[1].type = "result"
             PROVE  Base'
  OBVIOUS
<1>1. /\ conv' = TurnTerminal(conv, op.turn)
      /\ UNCHANGED <<permissions, session, run, history, op, waiting, row, claude, files>>
  BY Read DEF Reads, Accepts
<1>2. /\ Sending /\ 1 \in 1 .. Len(stream) /\ Len(stream) \in Nat /\ stream' \in Seq(Message)
      /\ Len(stream') = Len(stream) - 1
      /\ \A i \in 1 .. Len(stream') :
           stream'[i] = stream[i + 1] /\ i + 1 \in 1 .. Len(stream)
  BY Read
<1>3. /\ conv' \in ConversationState /\ conv'.active = {} /\ conv'.lifecycle = "idle"
      /\ conv'.turns[op.turn] # Absent /\ \A t \in Turns : ~ IsLive(conv', t)
      /\ KeepsActions(conv, conv')
      /\ PromptIsAnswerable' /\ permissions' = permissions => PermissionsOK'
  BY <1>1, <1>2, TurnEnds
<1>4. TypeOK'
  BY <1>1, <1>2, <1>3 DEF Base, TypeOK
<1>5. WorkOK'
  BY <1>1, <1>2 DEF Base, WorkOK, Sending
<1>6. WaitingOK'
  BY <1>1 DEF Base, WaitingOK
<1>7. LiveOK'
  BY <1>1, <1>3 DEF LiveOK, Sending
<1>8. StreamOK'
  <2>1. 1 = Len(stream) - 1 /\ stream[2].type = "end" /\ claude.phase \in {"ended", "dead"}
    BY <1>2 DEF Base, StreamOK
  <2>2. Len(stream') = 1 /\ stream'[1] = stream[2]
    <3>a. Len(stream') = Len(stream) - 1 /\ Len(stream) \in Nat /\ 1 = Len(stream) - 1
      BY <1>2, <2>1
    <3>b. Len(stream') = 1
      BY <3>a
    <3>1. Len(stream') = 1 /\ 1 \in 1 .. Len(stream')
      BY <3>b
    <3>2. stream'[1] = stream[1 + 1]
      BY <1>2, <3>1
    <3> QED
      BY <3>1, <3>2
  <2>3. stream'[1].type = "end" /\ \A i \in 1 .. Len(stream') : i = 1
    BY <2>1, <2>2
  <2> QED
    BY <1>1, <1>3, <2>1, <2>2, <2>3 DEF StreamOK
<1>9. ItemsOK'
  BY <1>3, ReadItems DEF KeepsActions, Opening
<1>10. PromptIsAnswerable'
  BY <1>1 DEF Base, PermissionsOK, PromptIsAnswerable
<1> QED
  BY <1>1, <1>3, <1>4, <1>5, <1>6, <1>7, <1>8, <1>9, <1>10 DEF Base

\* The session reads a message, of whatever kind.
LEMMA ReadsStep == Base /\ Reads => Base'
<1> SUFFICES ASSUME Base, Reads
             PROVE  Base'
  OBVIOUS
<1>1. stream[1] \in Message /\ stream[1].type # "end"
  BY Read DEF Reads
<1>2. stream[1].type \in {"init", "tool_use", "permission", "tool_result", "result"}
  BY <1>1, Fields
<1> QED
  BY <1>2, ReadsInit, ReadsToolUse, ReadsPermission, ReadsToolResult, ReadsResult

\* The operation is over, with no active turn.
LEMMA OperationEnds ==
  ASSUME Base, Sending, QueryEnds, conv' \in ConversationState, conv'.active = {},
         conv'.lifecycle \in {"idle", "active"}, \A t \in Turns : ~ IsLive(conv', t),
         session' \in Session, row' \in Files, run' \in Run, run'.turn = run.turn,
         run'.phase # "running", UNCHANGED <<permissions, history, waiting, files>>
  PROVE  TypeOK' /\ WorkOK' /\ WaitingOK' /\ LiveOK' /\ StreamOK' /\ ItemsOK'
<1>1. op' = NoOperation /\ claude' = NoQuery /\ stream' = <<>>
  BY DEF QueryEnds
<1>2. ~ Sending'
  BY <1>1, Fields DEF Sending
<1>3. TypeOK'
  BY <1>1, Fields DEF Base, TypeOK
<1>4. WorkOK'
  BY <1>1, <1>2, Fields, SessionSends DEF WorkOK
<1>5. WaitingOK'
  BY SessionSends DEF WaitingOK
<1>6. LiveOK'
  BY <1>2 DEF LiveOK
<1>7. StreamOK' /\ ItemsOK'
  BY <1>1, <1>2, Fields DEF StreamOK, ItemsOK
<1> QED
  BY <1>3, <1>4, <1>5, <1>6, <1>7

\* The result of the message is there.
LEMMA ReturnsStep == Base /\ Returns => Base'
<1> SUFFICES ASSUME Base, Returns
             PROVE  Base'
  OBVIOUS
<1>1. /\ Sending /\ stream # <<>> /\ Head(stream).type = "end" /\ QueryEnds
      /\ session' = IF session.remote = NoFile THEN session
                    ELSE [session EXCEPT !.replayed = session.remote]
      /\ row' = IF session.remote = NoFile THEN row ELSE session.remote
      /\ run' = IF run.prompt = NoRequest THEN NoRun(run.turn)
                ELSE [run EXCEPT !.phase = "late"]
      /\ UNCHANGED <<conv, permissions, history, waiting, files>>
  BY DEF Returns, Sending
<1>2. /\ conv \in ConversationState /\ session \in Session /\ row \in Files /\ run \in Run
      /\ stream \in Seq(Message)
  BY DEF Base, TypeOK
<1>3. conv.active = {}
  <2>1. stream[1].type = "end" /\ 1 \in 1 .. Len(stream)
    BY <1>1, <1>2, TailItems
  <2> QED
    BY <2>1 DEF Base, StreamOK
<1>4. session' \in Session /\ row' \in Files
  BY <1>1, <1>2 DEF Session
<1>5. /\ run' \in Run /\ run'.turn = run.turn /\ run'.prompt = run.prompt
      /\ run.prompt = NoRequest => run'.phase = "none"
      /\ run.prompt # NoRequest => run'.phase = "late"
  BY <1>1, <1>2, Fields DEF Run
<1>6. /\ conv'.lifecycle \in {"idle", "active"} /\ \A t \in Turns : ~ IsLive(conv', t)
      /\ conv'.active = {} /\ conv' \in ConversationState
  BY <1>1, <1>2, <1>3 DEF Base, LiveOK, IsLive
<1>7. TypeOK' /\ WorkOK' /\ WaitingOK' /\ LiveOK' /\ StreamOK' /\ ItemsOK'
  BY <1>1, <1>4, <1>5, <1>6, OperationEnds
<1>8. PermissionsOK'
  BY <1>1, <1>5 DEF Base, PermissionsOK, PromptIsAnswerable
<1> QED
  BY <1>7, <1>8 DEF Base

\* The message fails.
LEMMA ThrowsStep == Base /\ Throws => Base'
<1> SUFFICES ASSUME Base, Throws
             PROVE  Base'
  OBVIOUS
<1>1. /\ Sending /\ QueryEnds /\ conv' = TurnTerminal(conv, op.turn)
      /\ run' = NoRun(run.turn)
      /\ UNCHANGED <<permissions, session, history, waiting, row, files>>
  BY DEF Throws, Sending
<1>2. /\ conv' \in ConversationState /\ conv'.active = {} /\ conv'.lifecycle = "idle"
      /\ \A t \in Turns : ~ IsLive(conv', t)
      /\ PromptIsAnswerable' /\ permissions' = permissions => PermissionsOK'
  BY <1>1, TurnEnds
<1>3. /\ run' \in Run /\ run'.turn = run.turn /\ run'.phase = "none"
      /\ run'.prompt = NoRequest
  BY <1>1, Fields DEF Base, TypeOK, Run
<1>4. session' \in Session /\ row' \in Files
  BY <1>1 DEF Base, TypeOK
<1>5. TypeOK' /\ WorkOK' /\ WaitingOK' /\ LiveOK' /\ StreamOK' /\ ItemsOK'
  BY <1>1, <1>2, <1>3, <1>4, OperationEnds
<1>6. PermissionsOK'
  BY <1>1, <1>2, <1>3 DEF PromptIsAnswerable
<1> QED
  BY <1>5, <1>6 DEF Base

\* Every step keeps what holds whatever overlaps.
LEMMA NextBase == Base /\ [Next]_vars => Base'
<1> SUFFICES ASSUME Base, [Next]_vars
             PROVE  Base'
  OBVIOUS
<1>1. CASE (\E t \in Turns : Send(t)) \/ Load
  BY <1>1, AskStep
<1>2. CASE Stop \/ Restart
  BY <1>2, StopStep, RestartStep
<1>3. CASE \E e \in Requests, decision \in {"allow", "deny", "cancel"} : Answer(e, decision)
  BY <1>3, AnswerStep
<1>4. CASE Begins \/ Loads \/ LoadFails
  BY <1>4, StartsTurnStep, LoadStep DEF Begins
<1>5. CASE Reads \/ Returns \/ Throws
  BY <1>5, ReadsStep, ReturnsStep, ThrowsStep
<1>6. CASE ClaudeStarts \/ ClaudeEnds \/ ClaudeDies
  BY <1>6, ClaudeStartsStep, ClaudeEndsStep, ClaudeDiesStep
<1>7. CASE \E a \in Items : ClaudeTools(a) \/ \E asks \in BOOLEAN : ClaudeUses(a, asks)
  BY <1>7, ClaudeToolsStep, ClaudeUsesStep
<1>8. CASE UNCHANGED vars
  <2>1. UNCHANGED <<conv, permissions, session, history, op, waiting, run, row, claude, stream,
                    files>>
    BY <1>8 DEF vars
  <2>2. TypeOK' /\ WorkOK' /\ WaitingOK'
    BY <2>1 DEF Base, TypeOK, WorkOK, WaitingOK, Sending
  <2>3. LiveOK' /\ StreamOK' /\ ItemsOK' /\ (PromptIsAnswerable' => PermissionsOK')
    BY <2>1, QuietStep DEF Sending
  <2>4. PromptIsAnswerable'
    BY <2>1 DEF Base, PermissionsOK, PromptIsAnswerable
  <2> QED
    BY <2>2, <2>3, <2>4 DEF Base
<1> QED
  BY <1>1, <1>2, <1>3, <1>4, <1>5, <1>6, <1>7, <1>8 DEF Next, Works, Claude

\* What holds whatever overlaps.
LEMMA BaseHolds == Spec => []Base
<1> QED
  BY InitBase, NextBase, PTL DEF Spec

-----------------------------------------------------------------------------
(* How a turn ends when no prompt outlives it.                             *)

\* What runs, awaits a decision or is open is of the active turn.
SettledOK ==
  /\ \A a \in Items :
       conv.actions[a] # Absent /\ conv.actions[a].phase \in {"running", "awaiting_decision"}
         => conv.actions[a].turn \in conv.active
  /\ \A e \in Requests :
       conv.elicitations[e].phase = "open" => conv.elicitations[e].turn \in conv.active

\* A tool that asks, or whose result is written and not read.
Due(query, s, a) ==
  \/ a \in query.asked
  \/ \E i \in 1 .. Len(s) : s[i].type = "tool_result" /\ s[i].item = a

\* The prompt that is shown is of the active turn and of a tool that is due, as is one that
\* is to be shown; and no tool asks when the turn is over for Claude.
PromptOK ==
  /\ run.prompt # NoRequest =>
       conv.elicitations[run.prompt].turn \in conv.active /\ Due(claude, stream, run.prompt)
  /\ \A i \in 1 .. Len(stream) :
       stream[i].type = "permission" => Due(claude, stream, stream[i].item)
  /\ \A i \in 1 .. Len(stream) : stream[i].type \in {"end", "result"} => claude.asked = {}

Settles == SettledOK /\ PromptOK

\* A step that changes neither the conversation nor what is due.
LEMMA QuietSettled ==
  ASSUME Settles, UNCHANGED <<conv, stream>>, claude'.asked = claude.asked,
         run'.prompt \in {run.prompt, NoRequest}
  PROVE  Settles'
<1>1. SettledOK'
  BY DEF Settles, SettledOK
<1>2. PromptOK'
  <2>1. run'.prompt # NoRequest =>
          /\ conv'.elicitations[run'.prompt].turn \in conv'.active
          /\ Due(claude, stream, run.prompt)
    BY DEF Settles, PromptOK
  <2>2. run'.prompt # NoRequest => run'.prompt = run.prompt
    OBVIOUS
  <2>3. \A a : Due(claude, stream, a) => \/ a \in claude'.asked
                         \/ \E i \in 1 .. Len(stream') :
                              stream'[i].type = "tool_result" /\ stream'[i].item = a
    BY DEF Due
  <2> QED
    BY <2>1, <2>2, <2>3 DEF Settles, PromptOK, Due
<1> QED
  BY <1>1, <1>2 DEF Settles

\* Claude writes a message that is not the end: what was due still is.
LEMMA WrittenSettled ==
  ASSUME Base, Settles, UNCHANGED <<conv, run>>,
         claude.phase \notin {"off", "ended", "dead"},
         NEW m, m.type \notin {"end", "result"},
         \A i \in 1 .. Len(stream) : i \in 1 .. Len(stream') /\ stream'[i] = stream[i],
         \A i \in 1 .. Len(stream') :
           \/ i \in 1 .. Len(stream) /\ stream'[i] = stream[i]
           \/ i = Len(stream) + 1 /\ stream'[i] = m,
         Len(stream) + 1 \in 1 .. Len(stream') /\ stream'[Len(stream) + 1] = m,
         \A a \in claude.asked :
           a \in claude'.asked \/ (m.type = "tool_result" /\ m.item = a),
         m.type = "permission" => m.item \in claude'.asked
  PROVE  Settles'
<1>1. SettledOK'
  BY DEF Settles, SettledOK
<1>2. ASSUME NEW a, Due(claude, stream, a)
      PROVE  \/ a \in claude'.asked
             \/ \E i \in 1 .. Len(stream') :
                  stream'[i].type = "tool_result" /\ stream'[i].item = a
  <2>1. CASE a \in claude.asked
    BY <2>1
  <2>2. CASE \E i \in 1 .. Len(stream) : stream[i].type = "tool_result" /\ stream[i].item = a
    BY <2>2
  <2> QED
    BY <1>2, <2>1, <2>2 DEF Due
<1>3. run'.prompt # NoRequest =>
        /\ conv'.elicitations[run'.prompt].turn \in conv'.active
        /\ \/ run'.prompt \in claude'.asked
           \/ \E i \in 1 .. Len(stream') :
                stream'[i].type = "tool_result" /\ stream'[i].item = run'.prompt
  <2>1. run'.prompt # NoRequest =>
          conv.elicitations[run.prompt].turn \in conv.active /\ Due(claude, stream, run.prompt)
    BY DEF Settles, PromptOK
  <2> QED
    BY <1>2, <2>1
<1>4. \A i \in 1 .. Len(stream') : stream'[i].type = "permission" =>
        \/ stream'[i].item \in claude'.asked
        \/ \E j \in 1 .. Len(stream') :
             stream'[j].type = "tool_result" /\ stream'[j].item = stream'[i].item
  <2> SUFFICES ASSUME NEW i \in 1 .. Len(stream'), stream'[i].type = "permission"
               PROVE  \/ stream'[i].item \in claude'.asked
                      \/ \E j \in 1 .. Len(stream') :
                           stream'[j].type = "tool_result" /\ stream'[j].item = stream'[i].item
    OBVIOUS
  <2>1. CASE i \in 1 .. Len(stream) /\ stream'[i] = stream[i]
    <3>1. Due(claude, stream, stream[i].item)
      BY <2>1 DEF Settles, PromptOK
    <3> QED
      BY <1>2, <2>1, <3>1
  <2>2. CASE i = Len(stream) + 1 /\ stream'[i] = m
    BY <2>2
  <2> QED
    BY <2>1, <2>2
<1>5. \A i \in 1 .. Len(stream') : stream'[i].type \notin {"end", "result"}
  BY QueryWorks
<1>6. PromptOK'
  BY <1>3, <1>4, <1>5 DEF PromptOK, Due
<1> QED
  BY <1>1, <1>6 DEF Settles

\* What is in the stream after one more message.
LEMMA Written ==
  ASSUME Base, NEW m \in Message, stream' = stream \o <<m>>
  PROVE  /\ Len(stream) + 1 \in 1 .. Len(stream') /\ stream'[Len(stream) + 1] = m
         /\ \A i \in 1 .. Len(stream) : i \in 1 .. Len(stream') /\ stream'[i] = stream[i]
         /\ \A i \in 1 .. Len(stream') :
              \/ i \in 1 .. Len(stream) /\ stream'[i] = stream[i]
              \/ i = Len(stream) + 1 /\ stream'[i] = m
<1>1. stream \in Seq(Message)
  BY DEF Base, TypeOK
<1>2. stream' = Append(stream, m)
  BY <1>1, AppendItems
<1>3. /\ Len(stream') = Len(stream) + 1 /\ Len(stream) \in Nat
      /\ stream'[Len(stream) + 1] = m
      /\ \A i \in 1 .. Len(stream) : i \in 1 .. Len(stream') /\ stream'[i] = stream[i]
      /\ \A i \in 1 .. Len(stream') :
           \/ i \in 1 .. Len(stream) /\ stream'[i] = stream[i]
           \/ i = Len(stream) + 1 /\ stream'[i] = m
  BY <1>1, <1>2, AppendItems
<1>4. Len(stream) + 1 \in 1 .. Len(stream')
  BY <1>3
<1> QED
  BY <1>3, <1>4

\* And after the two last ones.
LEMMA WrittenEnd ==
  ASSUME Base, NEW m \in Message, NEW n \in Message, stream' = stream \o <<m, n>>
  PROVE  /\ stream' \in Seq(Message) /\ Len(stream) \in Nat /\ Len(stream') = Len(stream) + 2
         /\ stream'[Len(stream) + 1] = m /\ stream'[Len(stream) + 2] = n
         /\ \A i \in 1 .. Len(stream) : i \in 1 .. Len(stream') /\ stream'[i] = stream[i]
         /\ \A i \in 1 .. Len(stream') :
              \/ i \in 1 .. Len(stream) /\ stream'[i] = stream[i]
              \/ i = Len(stream) + 1 /\ stream'[i] = m
              \/ i = Len(stream) + 2 /\ stream'[i] = n
<1>1. stream \in Seq(Message)
  BY DEF Base, TypeOK
<1> QED
  BY <1>1

\* What the query still writes.
LEMMA ClaudeSettles ==
  ASSUME Base, Settles, "prompts outlive turn" \notin Overlaps, Claude
  PROVE  Settles'
<1>1. claude \in Query /\ stream \in Seq(Message)
  BY DEF Base, TypeOK
<1>2. CASE ClaudeStarts
  <2>1. PICK m \in Message : m = [type |-> "init"]
    BY DEF Message
  <2>2. /\ m.type = "init" /\ stream' = stream \o <<m>> /\ claude.phase = "starting"
        /\ claude' = [claude EXCEPT !.phase = "working"] /\ UNCHANGED <<conv, run>>
    BY <1>2, <2>1 DEF ClaudeStarts, Writes
  <2>3. claude'.asked = claude.asked
    BY <1>1, <2>2 DEF Query
  <2>4. /\ Len(stream) + 1 \in 1 .. Len(stream') /\ stream'[Len(stream) + 1] = m
        /\ \A i \in 1 .. Len(stream) : i \in 1 .. Len(stream') /\ stream'[i] = stream[i]
        /\ \A i \in 1 .. Len(stream') :
             \/ i \in 1 .. Len(stream) /\ stream'[i] = stream[i]
             \/ i = Len(stream) + 1 /\ stream'[i] = m
    BY <2>2, Written
  <2> QED
    BY <2>2, <2>3, <2>4, WrittenSettled
<1>3. ASSUME NEW a \in Items, NEW asks \in BOOLEAN, ClaudeUses(a, asks)
      PROVE  Settles'
  <2>1. PICK m \in Message : m = About(IF asks THEN "permission" ELSE "tool_use", a)
    BY Fields
  <2>2. /\ m.type = (IF asks THEN "permission" ELSE "tool_use") /\ m.item = a
        /\ stream' = stream \o <<m>> /\ claude.phase = "working"
        /\ claude' = [claude EXCEPT !.used = @ \cup {a},
                                    !.asked = IF asks THEN @ \cup {a} ELSE @,
                                    !.due = IF asks THEN @ ELSE @ \cup {a}]
        /\ UNCHANGED <<conv, run>>
    BY <1>3, <2>1 DEF ClaudeUses, Writes, About
  <2>3. claude'.asked = IF asks THEN claude.asked \cup {a} ELSE claude.asked
    BY <1>1, <2>2 DEF Query
  <2>4. /\ Len(stream) + 1 \in 1 .. Len(stream') /\ stream'[Len(stream) + 1] = m
        /\ \A i \in 1 .. Len(stream) : i \in 1 .. Len(stream') /\ stream'[i] = stream[i]
        /\ \A i \in 1 .. Len(stream') :
             \/ i \in 1 .. Len(stream) /\ stream'[i] = stream[i]
             \/ i = Len(stream) + 1 /\ stream'[i] = m
    BY <2>2, Written
  <2>5. /\ \A b \in claude.asked : b \in claude'.asked
        /\ m.type = "permission" => m.item \in claude'.asked
        /\ m.type \notin {"end", "result"}
    <3>1. CASE asks
      <4>1. m.type = "permission" /\ claude'.asked = claude.asked \cup {a}
        BY <2>2, <2>3, <3>1
      <4> QED
        BY <2>2, <4>1
    <3>2. CASE ~ asks
      <4>1. m.type = "tool_use" /\ claude'.asked = claude.asked
        BY <2>2, <2>3, <3>2
      <4> QED
        BY <4>1
    <3> QED
      BY <3>1, <3>2
  <2> QED
    BY <2>2, <2>4, <2>5, WrittenSettled
<1>4. ASSUME NEW a \in Items, ClaudeTools(a)
      PROVE  Settles'
  <2>1. PICK m \in Message : m = About("tool_result", a)
    BY Fields
  <2>2. /\ m.type = "tool_result" /\ m.item = a /\ stream' = stream \o <<m>>
        /\ claude.phase \in {"working", "interrupted"}
        /\ claude' = [claude EXCEPT !.due = @ \ {a}, !.asked = @ \ {a}]
        /\ UNCHANGED <<conv, run>>
    BY <1>4, <2>1 DEF ClaudeTools, Writes, About
  <2>3. claude'.asked = claude.asked \ {a}
    BY <1>1, <2>2 DEF Query
  <2>4. /\ Len(stream) + 1 \in 1 .. Len(stream') /\ stream'[Len(stream) + 1] = m
        /\ \A i \in 1 .. Len(stream) : i \in 1 .. Len(stream') /\ stream'[i] = stream[i]
        /\ \A i \in 1 .. Len(stream') :
             \/ i \in 1 .. Len(stream) /\ stream'[i] = stream[i]
             \/ i = Len(stream) + 1 /\ stream'[i] = m
    BY <2>2, Written
  <2>5. \A b \in claude.asked : b \in claude'.asked \/ (m.type = "tool_result" /\ m.item = b)
    BY <2>2, <2>3
  <2> QED
    BY <2>2, <2>4, <2>5, WrittenSettled
<1>5. CASE ClaudeEnds
  <2>1. PICK m \in Message, n \in Message : m = [type |-> "result"] /\ n = [type |-> "end"]
    BY DEF Message
  <2>2. /\ m.type = "result" /\ n.type = "end" /\ stream' = stream \o <<m, n>>
        /\ claude.asked = {} /\ claude' = [claude EXCEPT !.phase = "ended"]
        /\ UNCHANGED <<conv, run>>
    BY <1>5, <2>1 DEF ClaudeEnds, Writes
  <2>3. claude'.asked = {}
    BY <1>1, <2>2 DEF Query
  <2>4. /\ \A i \in 1 .. Len(stream) : i \in 1 .. Len(stream') /\ stream'[i] = stream[i]
        /\ \A i \in 1 .. Len(stream') :
             \/ i \in 1 .. Len(stream) /\ stream'[i] = stream[i]
             \/ stream'[i] = m
             \/ stream'[i] = n
    BY <2>2, WrittenEnd
  <2>5. SettledOK'
    BY <2>2 DEF Settles, SettledOK
  <2>6. ASSUME NEW a, Due(claude, stream, a)
        PROVE  \E i \in 1 .. Len(stream') :
                 stream'[i].type = "tool_result" /\ stream'[i].item = a
    BY <2>2, <2>4, <2>6 DEF Due
  <2>7. run'.prompt # NoRequest =>
          /\ conv'.elicitations[run'.prompt].turn \in conv'.active
          /\ \E i \in 1 .. Len(stream') :
               stream'[i].type = "tool_result" /\ stream'[i].item = run'.prompt
    <3>1. run'.prompt # NoRequest =>
            /\ conv.elicitations[run.prompt].turn \in conv.active
            /\ Due(claude, stream, run.prompt)
      BY <2>2 DEF Settles, PromptOK
    <3> QED
      BY <2>2, <2>6, <3>1
  <2>8. \A i \in 1 .. Len(stream') : stream'[i].type = "permission" =>
          \E j \in 1 .. Len(stream') :
            stream'[j].type = "tool_result" /\ stream'[j].item = stream'[i].item
    <3> SUFFICES ASSUME NEW i \in 1 .. Len(stream'), stream'[i].type = "permission"
                 PROVE  \E j \in 1 .. Len(stream') :
                          stream'[j].type = "tool_result" /\ stream'[j].item = stream'[i].item
      OBVIOUS
    <3>1. i \in 1 .. Len(stream) /\ stream'[i] = stream[i]
      BY <2>2, <2>4
    <3>2. Due(claude, stream, stream[i].item)
      BY <3>1 DEF Settles, PromptOK
    <3> QED
      BY <2>6, <3>1, <3>2
  <2>9. PromptOK'
    BY <2>3, <2>7, <2>8 DEF PromptOK, Due
  <2> QED
    BY <2>5, <2>9 DEF Settles
<1>6. CASE ClaudeDies
  <2>1. claude'.asked = claude.asked /\ UNCHANGED <<conv, stream, run>>
    BY <1>1, <1>6 DEF ClaudeDies, Query
  <2> QED
    BY <2>1, QuietSettled
<1> QED
  BY <1>2, <1>3, <1>4, <1>5, <1>6 DEF Claude

\* What is due after a message is read, but for the tool whose result it is.
LEMMA ReadDue ==
  ASSUME Base, Settles, Reads
  PROVE  /\ \A a : Due(claude, stream, a) =>
              \/ Due(claude', stream', a)
              \/ stream[1].type = "tool_result" /\ stream[1].item = a
         /\ \A i \in 1 .. Len(stream') :
              stream'[i].type = "permission" => Due(claude', stream', stream'[i].item)
         /\ \A i \in 1 .. Len(stream') :
              stream'[i].type \in {"end", "result"} => claude'.asked = {}
<1>1. /\ 1 \in 1 .. Len(stream) /\ Len(stream) \in Nat
      /\ \A i \in 1 .. Len(stream') :
           stream'[i] = stream[i + 1] /\ i + 1 \in 1 .. Len(stream)
      /\ \A i \in 1 .. Len(stream) :
           i # 1 => i - 1 \in 1 .. Len(stream') /\ stream'[i - 1] = stream[i]
      /\ claude' = claude
  BY Read DEF Reads
<1>2. ASSUME NEW a, Due(claude, stream, a),
             ~ (stream[1].type = "tool_result" /\ stream[1].item = a)
      PROVE  \/ a \in claude'.asked
             \/ \E i \in 1 .. Len(stream') :
                  stream'[i].type = "tool_result" /\ stream'[i].item = a
  <2>1. CASE a \in claude.asked
    BY <1>1, <2>1
  <2>2. ASSUME NEW i \in 1 .. Len(stream), stream[i].type = "tool_result", stream[i].item = a
        PROVE  \E j \in 1 .. Len(stream') :
                 stream'[j].type = "tool_result" /\ stream'[j].item = a
    <3>1. i # 1
      BY <1>2, <2>2
    <3>2. i - 1 \in 1 .. Len(stream') /\ stream'[i - 1] = stream[i]
      BY <1>1, <3>1
    <3> QED
      BY <2>2, <3>2
  <2> QED
    BY <1>2, <2>1, <2>2 DEF Due
<1>3. ASSUME NEW i \in 1 .. Len(stream'), stream'[i].type = "permission"
      PROVE  \/ stream'[i].item \in claude'.asked
             \/ \E j \in 1 .. Len(stream') :
                  stream'[j].type = "tool_result" /\ stream'[j].item = stream'[i].item
  <2>1. i + 1 \in 1 .. Len(stream) /\ stream'[i] = stream[i + 1]
    BY <1>1
  <2>2. Due(claude, stream, stream[i + 1].item)
    BY <1>3, <2>1 DEF Settles, PromptOK
  <2>3. conv.actions[stream[i + 1].item] = Absent
    BY <1>3, <2>1 DEF Base, ItemsOK, Opening
  <2>4. ~ (stream[1].type = "tool_result" /\ stream[1].item = stream[i + 1].item)
    <3>1. \A j \in 1 .. Len(stream) : ~ (j < 1)
      BY <1>1
    <3> QED
      BY <1>1, <2>3, <3>1 DEF Base, ItemsOK
  <2> QED
    BY <1>2, <2>1, <2>2, <2>4
<1>4. \A i \in 1 .. Len(stream') :
        stream'[i].type \in {"end", "result"} => claude'.asked = {}
  BY <1>1 DEF Settles, PromptOK
<1> QED
  BY <1>2, <1>3, <1>4 DEF Due

\* The session reads a message.
LEMMA ReadSettles == Base /\ Settles /\ Reads => Settles'
<1> SUFFICES ASSUME Base, Settles, Reads
             PROVE  Settles'
  OBVIOUS
<1>1. /\ Sending /\ stream[1] \in Message /\ stream[1].type # "end" /\ 1 \in 1 .. Len(stream)
      /\ conv.active = {op.turn}
  BY Read DEF Reads
<1>2. /\ conv \in ConversationState /\ op.turn \in Turns /\ conv.turns[op.turn] # Absent
      /\ run \in Run
  BY <1>1, SessionSends DEF Base, TypeOK
<1>3. PICK c, t, d :
        /\ c \in ConversationState /\ t \in Turns
        /\ c = conv /\ t = op.turn /\ d = conv' /\ c.turns[t] # Absent /\ c.active = {t}
  BY <1>1, <1>2
<1>4. PICK a : a = stream[1].item
  OBVIOUS
<1>5. /\ \A b : Due(claude, stream, b) =>
           \/ Due(claude', stream', b)
           \/ stream[1].type = "tool_result" /\ stream[1].item = b
      /\ \A i \in 1 .. Len(stream') :
           stream'[i].type = "permission" => Due(claude', stream', stream'[i].item)
      /\ \A i \in 1 .. Len(stream') :
           stream'[i].type \in {"end", "result"} => claude'.asked = {}
  BY ReadDue
<1>6. /\ \A b \in Items :
           c.actions[b] # Absent /\ c.actions[b].phase \in {"running", "awaiting_decision"}
             => c.actions[b].turn \in c.active
      /\ \A e \in Requests :
           c.elicitations[e].phase = "open" => c.elicitations[e].turn \in c.active
      /\ run.prompt # NoRequest =>
           c.elicitations[run.prompt].turn \in c.active /\ Due(claude, stream, run.prompt)
  BY <1>3 DEF Settles, SettledOK, PromptOK
<1>7. ASSUME ASSUME NEW r, r = run'.prompt, r # NoRequest
             PROVE  d.elicitations[r].turn \in d.active /\ Due(claude', stream', r)
      PROVE  PromptOK'
  <2>1. PICK r : r = run'.prompt
    OBVIOUS
  <2>2. r # NoRequest => d.elicitations[r].turn \in d.active /\ Due(claude', stream', r)
    BY <1>7, <2>1
  <2> QED
    BY <1>3, <1>5, <2>1, <2>2 DEF PromptOK
<1>8. CASE stream[1].type = "init"
  <2>1. d = StatusChanged(c, "idle") /\ run' = run
    BY <1>3, <1>8, Read DEF Reads, Accepts
  <2>2. d.active = c.active /\ d.actions = c.actions /\ d.elicitations = c.elicitations
    BY <1>3, <2>1, StatusChangedConv
  <2>3. SettledOK'
    BY <1>3, <1>6, <2>2 DEF SettledOK
  <2>4. PromptOK'
    BY <1>5, <1>6, <1>7, <1>8, <2>1, <2>2
  <2> QED
    BY <2>3, <2>4 DEF Settles
<1>9. CASE stream[1].type = "tool_use"
  <2>1. d = ActionObserved(c, a, t) /\ run' = run /\ a \in Items
    <3>1. Accepts(stream[1])
      BY Read DEF Reads
    <3>2. a \in Items
      BY <1>1, <1>4, <1>9, Fields
    <3> QED
      BY <1>3, <1>4, <1>9, <3>1, <3>2 DEF Accepts
  <2>2. /\ d \in ConversationState /\ d.active = c.active /\ d.lifecycle = c.lifecycle
        /\ SameTurns(c, d)
        /\ d.actions[a] = [phase |-> "running", turn |-> t] /\ d.actions[a] # Absent
        /\ \A b \in Items : b # a => d.actions[b] = c.actions[b]
        /\ d.elicitations = c.elicitations
    BY <1>3, <2>1, ActionObservedConv
  <2>3. \A b \in Items :
          d.actions[b] # Absent /\ d.actions[b].phase \in {"running", "awaiting_decision"}
            => d.actions[b].turn \in d.active
    BY <1>3, <1>6, <2>2
  <2>4. SettledOK'
    BY <1>3, <1>6, <2>2, <2>3 DEF SettledOK
  <2>5. PromptOK'
    BY <1>5, <1>6, <1>7, <1>9, <2>1, <2>2
  <2> QED
    BY <2>4, <2>5 DEF Settles
<1>10. CASE stream[1].type = "permission"
  <2>1. /\ d = ElicitationOpened(ActionObserved(c, a, t), a, t, a) /\ a \in Items
        /\ run' = [run EXCEPT !.prompt = a]
    <3>1. Accepts(stream[1])
      BY Read DEF Reads
    <3>2. a \in Items
      BY <1>1, <1>4, <1>10, Fields
    <3> QED
      BY <1>3, <1>4, <1>10, <3>1, <3>2 DEF Accepts, PermissionAsked
  <2>2. /\ d \in ConversationState /\ d.active = c.active /\ d.lifecycle = "active"
        /\ SameTurns(c, d)
        /\ d.actions[a] = [phase |-> "awaiting_decision", turn |-> t]
        /\ d.actions[a] # Absent
        /\ \A b \in Items : b # a => d.actions[b] = c.actions[b]
        /\ d.elicitations[a] = [phase |-> "open", turn |-> t, item |-> a]
        /\ d.elicitations[a] # Absent
        /\ \A e \in Requests : e # a => d.elicitations[e] = c.elicitations[e]
    BY <1>3, <2>1, PermissionConv
  <2>3. \A b \in Items :
          d.actions[b] # Absent /\ d.actions[b].phase \in {"running", "awaiting_decision"}
            => d.actions[b].turn \in d.active
    BY <1>3, <1>6, <2>2
  <2>4. \A e \in Requests :
          d.elicitations[e].phase = "open" => d.elicitations[e].turn \in d.active
    BY <1>3, <1>6, <2>2
  <2>5. SettledOK'
    BY <1>3, <2>3, <2>4 DEF SettledOK
  <2>6. run'.prompt = a
    BY <1>2, <2>1 DEF Run
  <2>7. Due(claude', stream', a)
    <3>1. Due(claude, stream, a)
      BY <1>1, <1>4, <1>10 DEF Settles, PromptOK
    <3> QED
      BY <1>5, <1>10, <3>1
  <2>8. d.elicitations[a].turn \in d.active
    BY <1>3, <2>2
  <2>9. PromptOK'
    BY <1>7, <2>6, <2>7, <2>8
  <2> QED
    BY <2>5, <2>9 DEF Settles
<1>11. CASE stream[1].type = "tool_result"
  <2>1. /\ d = ActionUpdated(c, a, "completed") /\ a \in Items
        /\ run' = [run EXCEPT !.prompt = IF @ = a THEN NoRequest ELSE @]
    <3>1. Accepts(stream[1])
      BY Read DEF Reads
    <3>2. a \in Items
      BY <1>1, <1>4, <1>11, Fields
    <3> QED
      BY <1>3, <1>4, <1>11, <3>1, <3>2 DEF Accepts
  <2>2. c.actions[a] # Absent
    <3>1. \A j \in 1 .. Len(stream) : ~ (j < 1)
      BY Read
    <3> QED
      BY <1>1, <1>3, <1>4, <1>11, <3>1 DEF Base, ItemsOK
  <2>3. /\ d \in ConversationState /\ d.active = c.active /\ d.lifecycle = c.lifecycle
        /\ SameTurns(c, d) /\ KeepsActions(c, d)
        /\ d.actions[a].phase = "completed"
        /\ \A b \in Items : b # a => d.actions[b] = c.actions[b]
        /\ d.elicitations = c.elicitations
    BY <1>3, <2>1, <2>2, ActionUpdatedConv
  <2>4. \A b \in Items :
          d.actions[b] # Absent /\ d.actions[b].phase \in {"running", "awaiting_decision"}
            => d.actions[b].turn \in d.active
    BY <1>6, <2>3
  <2>5. SettledOK'
    BY <1>3, <1>6, <2>3, <2>4 DEF SettledOK
  <2>6. run'.prompt # NoRequest => run'.prompt = run.prompt /\ run.prompt # a
    BY <1>2, <2>1 DEF Run
  <2>7. PromptOK'
    BY <1>4, <1>5, <1>6, <1>7, <2>3, <2>6
  <2> QED
    BY <2>5, <2>7 DEF Settles
<1>12. CASE stream[1].type = "result"
  <2>1. d = TurnTerminal(c, t) /\ run' = run
    BY <1>3, <1>12, Read DEF Reads, Accepts
  <2>2. /\ d.active = {} /\ KeepsActions(c, d) /\ KeepsRequests(c, d)
        /\ \A b \in Items : c.actions[b] # Absent =>
             /\ c.actions[b].turn = t =>
                  d.actions[b].phase \notin {"running", "awaiting_decision"}
             /\ c.actions[b].turn # t => d.actions[b] = c.actions[b]
        /\ \A e \in Requests : c.elicitations[e] # Absent =>
             /\ c.elicitations[e].turn = t => d.elicitations[e].phase # "open"
             /\ c.elicitations[e].turn # t => d.elicitations[e] = c.elicitations[e]
    BY <1>3, <2>1, TurnTerminalConv
  <2>3. \A b \in Items :
          ~ (d.actions[b] # Absent /\ d.actions[b].phase \in {"running", "awaiting_decision"})
    BY <1>3, <1>6, <2>2 DEF KeepsActions
  <2>4. \A e \in Requests : d.elicitations[e].phase # "open"
    BY <1>3, <1>6, <2>2, AbsentPhase DEF KeepsRequests
  <2>5. SettledOK'
    BY <1>3, <2>3, <2>4 DEF SettledOK
  <2>6. run.prompt = NoRequest
    <3>1. /\ 1 = Len(stream) - 1 /\ stream[1 + 1].type = "end" /\ claude.asked = {}
          /\ Len(stream) \in Nat
      BY <1>1, <1>12, Read DEF Base, StreamOK, Settles, PromptOK
    <3>a. Len(stream) = 2
      BY <3>1
    <3>2. \A i \in 1 .. Len(stream) : i = 1 \/ i = 1 + 1
      BY <3>a
    <3>3. \A i \in 1 .. Len(stream) : stream[i].type # "tool_result"
      BY <1>12, <3>1, <3>2
    <3>4. ~ Due(claude, stream, run.prompt)
      BY <3>1, <3>3 DEF Due
    <3> QED
      BY <1>6, <3>4
  <2>7. PromptOK'
    BY <1>7, <2>1, <2>6
  <2> QED
    BY <2>5, <2>7 DEF Settles
<1> QED
  BY <1>1, <1>8, <1>9, <1>10, <1>11, <1>12, Fields

\* A message that begins: a turn is active now, of which nothing runs yet.
LEMMA StartsTurnSettles ==
  ASSUME Base, Settles, op = NoOperation, waiting # <<>>, StartsTurn(Head(waiting))
  PROVE  Settles'
<1>1. conv \in ConversationState /\ run \in Run /\ WaitingOK
  BY DEF Base, TypeOK
<1>2. PICK next \in Operation :
        next = Head(waiting) /\ next = waiting[1] /\ 1 \in 1 .. Len(waiting)
  BY TailItems DEF Base, TypeOK
<1>3. ~ Sending
  BY Fields DEF Sending
<1>4. conv.active = {} /\ CanStartTurn(conv) /\ stream = <<>> /\ claude.phase = "off"
  BY <1>3, NoneActive
<1>5. next.kind = "send" /\ stream' = stream
  BY <1>2 DEF StartsTurn
<1>6. next.turn = run.turn /\ run.phase = "waiting" /\ run.turn \in Turns
  BY <1>2, <1>5 DEF Base, WaitingOK, WorkOK
<1>7. CASE run.aborted
  <2>1. run' = NoRun(run.turn) /\ UNCHANGED <<conv, stream, claude>>
    BY <1>2, <1>5, <1>7 DEF StartsTurn
  <2>2. run'.prompt = NoRequest
    BY <1>6, <2>1, Fields
  <2> QED
    BY <2>1, <2>2, QuietSettled
<1>8. CASE ~ run.aborted
  <2>1. conv' = TurnPlanned(conv, next.turn) /\ run' = [run EXCEPT !.phase = "running"]
    BY <1>2, <1>4, <1>8 DEF StartsTurn
  <2>2. conv'.actions = conv.actions /\ conv'.elicitations = conv.elicitations
    BY <1>1, <1>6, <2>1, TurnPlannedConv
  <2>3. SettledOK'
    BY <1>4, <2>2 DEF Settles, SettledOK
  <2>4. run'.prompt = run.prompt /\ run.prompt = NoRequest
    BY <1>1, <1>6, <2>1 DEF Run, Base, PermissionsOK, PromptIsAnswerable
  <2>5. 1 .. Len(stream') = {}
    BY <1>4, <1>5
  <2>6. PromptOK'
    BY <2>4, <2>5 DEF PromptOK
  <2> QED
    BY <2>3, <2>6 DEF Settles
<1> QED
  BY <1>7, <1>8

\* A conversation and a query from the start.
LEMMA FreshSettles ==
  ASSUME conv' = ReadyConversation, stream' = <<>>, run'.prompt = NoRequest
  PROVE  Settles'
<1>1. SettledOK'
  BY FreshConv, AbsentPhase DEF SettledOK
<1>2. 1 .. Len(stream') = {}
  OBVIOUS
<1>3. PromptOK'
  BY <1>2 DEF PromptOK
<1> QED
  BY <1>1, <1>3 DEF Settles

\* A new chat.
LEMMA InitSettles == Init => Settles
<1> SUFFICES ASSUME Init
             PROVE  Settles
  OBVIOUS
<1>1. conv = ReadyConversation /\ stream = <<>> /\ run = NoRun(NoTurn)
  BY DEF Init
<1>2. run.prompt = NoRequest
  BY <1>1, Fields
<1>3. SettledOK
  BY <1>1, FreshConv, AbsentPhase DEF SettledOK
<1>4. 1 .. Len(stream) = {}
  BY <1>1
<1>5. PromptOK
  BY <1>2, <1>4 DEF PromptOK
<1> QED
  BY <1>3, <1>5 DEF Settles

\* The user answers the prompt: it is of the active turn, and its tool goes on.
LEMMA AnswerSettles ==
  ASSUME Base, Settles, NEW e \in Requests, NEW decision, Answer(e, decision)
  PROVE  Settles'
<1>1. /\ run \in Run /\ claude \in Query /\ e \in Items /\ conv \in ConversationState
      /\ e # NoRequest /\ permissions \subseteq Requests
  BY ToolUseAssumption, RequestsAssumption DEF Base, TypeOK
<1>2. /\ run.prompt = e /\ e \in permissions
      /\ run' = IF run.phase = "late" THEN NoRun(run.turn)
                ELSE [run EXCEPT !.prompt = NoRequest]
      /\ conv' = Decided(conv, e, decision)
      /\ claude' = Answered(claude, e, decision)
      /\ UNCHANGED <<op, stream>>
  BY DEF Answer
<1>3. run'.prompt = NoRequest
  BY <1>1, <1>2, Fields DEF Run
<1>4. /\ conv.elicitations[e] # Absent /\ conv.elicitations[e].item = e
      /\ conv.actions[e] # Absent /\ conv.turns[conv.elicitations[e].turn] # Absent
      /\ conv.actions[e].turn = conv.elicitations[e].turn
      /\ conv.elicitations[e].turn \in conv.active
  BY <1>1, <1>2 DEF Base, PermissionsOK, Settles, PromptOK
<1>5. /\ conv'.active = conv.active /\ KeepsActions(conv, conv')
      /\ conv'.elicitations[e].phase = "resolved"
      /\ \A b \in Items : b # e => conv'.actions[b] = conv.actions[b]
      /\ \A f \in Requests : f # e => conv'.elicitations[f] = conv.elicitations[f]
  BY <1>1, <1>2, <1>4, DecidedConv
<1>6. claude'.asked = claude.asked \ {e}
  BY <1>1, <1>2, AnsweredQuery
<1>7. SettledOK'
  <2>1. ASSUME NEW a \in Items, conv'.actions[a] # Absent,
               conv'.actions[a].phase \in {"running", "awaiting_decision"}
        PROVE  conv'.actions[a].turn \in conv'.active
    <3>1. CASE a = e
      BY <1>1, <1>4, <1>5, <3>1 DEF KeepsActions
    <3>2. CASE a # e
      BY <1>5, <2>1, <3>2 DEF Settles, SettledOK
    <3> QED
      BY <3>1, <3>2
  <2>2. ASSUME NEW f \in Requests, conv'.elicitations[f].phase = "open"
        PROVE  conv'.elicitations[f].turn \in conv'.active
    BY <1>5, <2>2 DEF Settles, SettledOK
  <2> QED
    BY <2>1, <2>2 DEF SettledOK
<1>8. ASSUME NEW i \in 1 .. Len(stream), stream[i].type = "permission"
      PROVE  Due(claude', stream', stream[i].item)
  <2>1. conv.actions[stream[i].item] = Absent
    BY <1>8 DEF Base, ItemsOK, Opening
  <2>2. stream[i].item # e
    BY <1>4, <2>1
  <2>3. Due(claude, stream, stream[i].item)
    BY <1>8 DEF Settles, PromptOK
  <2>4. \/ stream[i].item \in claude'.asked
        \/ \E j \in 1 .. Len(stream) :
             stream[j].type = "tool_result" /\ stream[j].item = stream[i].item
    BY <1>6, <2>2, <2>3 DEF Due
  <2> QED
    BY <1>2, <2>4 DEF Due
<1>9. PromptOK'
  <2>1. \A i \in 1 .. Len(stream') :
          stream'[i].type \in {"end", "result"} => claude'.asked = {}
    BY <1>2, <1>6 DEF Settles, PromptOK
  <2> QED
    BY <1>2, <1>3, <1>8, <2>1 DEF PromptOK
<1> QED
  BY <1>7, <1>9 DEF Settles

\* The message has its result: then no prompt is open.
LEMMA ReturnsSettles == Base /\ Settles /\ Returns => Settles'
<1> SUFFICES ASSUME Base, Settles, Returns
             PROVE  Settles'
  OBVIOUS
<1>1. /\ stream # <<>> /\ Head(stream).type = "end" /\ QueryEnds
      /\ run' = IF run.prompt = NoRequest THEN NoRun(run.turn)
                ELSE [run EXCEPT !.phase = "late"]
      /\ conv' = conv
  BY DEF Returns
<1>2. stream \in Seq(Message) /\ run \in Run
  BY DEF Base, TypeOK
<1>3. conv.active = {}
  <2>1. stream[1].type = "end" /\ 1 \in 1 .. Len(stream)
    BY <1>1, <1>2, TailItems
  <2> QED
    BY <2>1 DEF Base, StreamOK
<1>4. run.prompt = NoRequest
  BY <1>3 DEF Settles, PromptOK
<1>5. run'.prompt = NoRequest
  BY <1>1, <1>2, <1>4, Fields DEF Run
<1>6. stream' = <<>> /\ 1 .. Len(stream') = {}
  BY <1>1 DEF QueryEnds
<1>7. SettledOK' /\ PromptOK'
  BY <1>1, <1>5, <1>6 DEF Settles, SettledOK, PromptOK
<1> QED
  BY <1>7 DEF Settles

\* The message fails, which ends its turn.
LEMMA ThrowsSettles == Base /\ Settles /\ Throws => Settles'
<1> SUFFICES ASSUME Base, Settles, Throws
             PROVE  Settles'
  OBVIOUS
<1>1. Sending /\ QueryEnds /\ conv' = TurnTerminal(conv, op.turn) /\ run' = NoRun(run.turn)
  BY DEF Throws, Sending
<1>2. /\ conv \in ConversationState /\ op.turn \in Turns /\ conv.turns[op.turn] # Absent
      /\ conv.active \subseteq {op.turn} /\ run \in Run
  BY <1>1, SessionSends DEF Base, TypeOK
<1>3. PICK c, t, d :
        /\ c \in ConversationState /\ t \in Turns
        /\ c = conv /\ t = op.turn /\ d = conv' /\ c.turns[t] # Absent /\ c.active \subseteq {t}
  BY <1>2
<1>4. d = TurnTerminal(c, t)
  BY <1>1, <1>3
<1>5. /\ d.active = {} /\ KeepsActions(c, d) /\ KeepsRequests(c, d)
      /\ \A b \in Items : c.actions[b] # Absent =>
           /\ c.actions[b].turn = t =>
                d.actions[b].phase \notin {"running", "awaiting_decision"}
           /\ c.actions[b].turn # t => d.actions[b] = c.actions[b]
      /\ \A e \in Requests : c.elicitations[e] # Absent =>
           /\ c.elicitations[e].turn = t => d.elicitations[e].phase # "open"
           /\ c.elicitations[e].turn # t => d.elicitations[e] = c.elicitations[e]
  BY <1>3, <1>4, TurnTerminalConv
<1>6. /\ \A b \in Items :
           c.actions[b] # Absent /\ c.actions[b].phase \in {"running", "awaiting_decision"}
             => c.actions[b].turn \in c.active
      /\ \A e \in Requests :
           c.elicitations[e].phase = "open" => c.elicitations[e].turn \in c.active
  BY <1>3 DEF Settles, SettledOK
<1>7. \A b \in Items :
        ~ (d.actions[b] # Absent /\ d.actions[b].phase \in {"running", "awaiting_decision"})
  BY <1>3, <1>5, <1>6 DEF KeepsActions
<1>8. \A e \in Requests : d.elicitations[e].phase # "open"
  BY <1>3, <1>5, <1>6, AbsentPhase DEF KeepsRequests
<1>9. SettledOK'
  BY <1>3, <1>7, <1>8 DEF SettledOK
<1>10. run'.prompt = NoRequest
  BY <1>1, <1>2, Fields DEF Run
<1>11. stream' = <<>> /\ 1 .. Len(stream') = {}
  BY <1>1 DEF QueryEnds
<1>12. PromptOK'
  BY <1>10, <1>11 DEF PromptOK
<1> QED
  BY <1>9, <1>12 DEF Settles

\* A step of the daemon that is not of a turn, or of the user but for an answer.
LEMMA AsideSettles ==
  ASSUME Base, Settles,
         \/ \E t \in Turns : Send(t)
         \/ Load \/ Stop \/ Loads \/ LoadFails
         \/ op = NoOperation /\ waiting # <<>> /\ StartsLoad(Head(waiting))
  PROVE  Settles'
<1>1. run \in Run /\ claude \in Query
  BY DEF Base, TypeOK
<1>2. UNCHANGED <<conv, stream>> /\ (Stop \/ claude' = claude)
  BY DEF Send, Load, Stop, Loads, LoadFails, StartsLoad
<1>3. claude'.asked = claude.asked
  BY <1>1, <1>2 DEF Stop, Query
<1>4. CASE \E t \in Turns : Send(t)
  <2>1. PICK t \in Turns : run' = [NoRun(t) EXCEPT !.phase = "waiting"]
    BY <1>4 DEF Send
  <2>2. run'.prompt = NoRequest
    BY <2>1 DEF NoRun
  <2> QED
    BY <1>2, <1>3, <2>2, QuietSettled
<1>5. CASE Stop
  <2>1. run' = IF run.phase = "late" THEN NoRun(run.turn) ELSE [run EXCEPT !.aborted = TRUE]
    BY <1>5 DEF Stop
  <2>2. run'.prompt \in {run.prompt, NoRequest}
    BY <1>1, <2>1 DEF NoRun, Run
  <2> QED
    BY <1>2, <1>3, <2>2, QuietSettled
<1>6. CASE run' = run
  BY <1>2, <1>3, <1>6, QuietSettled
<1> QED
  BY <1>4, <1>5, <1>6 DEF Load, Loads, LoadFails, StartsLoad

\* Every step settles, if Claude ends no turn while a permission is open.
LEMMA NextSettles ==
  ASSUME "prompts outlive turn" \notin Overlaps
  PROVE  Base /\ Settles /\ [Next]_vars => Settles'
<1> SUFFICES ASSUME Base, Settles, [Next]_vars
             PROVE  Settles'
  OBVIOUS
<1>1. CASE (\E t \in Turns : Send(t)) \/ Load \/ Stop \/ Loads \/ LoadFails
  BY <1>1, AsideSettles
<1>2. CASE Restart
  <2>1. conv' = ReadyConversation /\ stream' = <<>> /\ run' = NoRun(run.turn)
    BY <1>2 DEF Restart
  <2> QED
    BY <2>1, FreshSettles DEF NoRun
<1>3. CASE \E e \in Requests, decision \in {"allow", "deny", "cancel"} : Answer(e, decision)
  BY <1>3, AnswerSettles
<1>4. CASE Begins
  BY <1>4, StartsTurnSettles, AsideSettles DEF Begins
<1>5. CASE Reads \/ Returns \/ Throws
  BY <1>5, ReadSettles, ReturnsSettles, ThrowsSettles
<1>6. CASE Claude
  BY <1>6, ClaudeSettles
<1>7. CASE UNCHANGED vars
  BY <1>7, QuietSettled DEF vars
<1> QED
  BY <1>1, <1>2, <1>3, <1>4, <1>5, <1>6, <1>7 DEF Next, Works

\* What settles leaves nothing behind.
LEMMA SettledIsClean == Base /\ Settles => TurnEndsClean
<1> SUFFICES ASSUME Base, Settles
             PROVE  TurnEndsClean
  OBVIOUS
<1>1. \A t \in conv.active : t \in Turns /\ ~ IsTerminal(conv.turns[t])
  BY DEF Base, TypeOK, ConversationState, LiveOK, IsLive
<1>2. FinishedTurnIsSettled
  BY <1>1 DEF Settles, SettledOK, FinishedTurnIsSettled, OpenRequests
<1>3. op = NoOperation => ~ Sending
  BY Fields DEF Sending
<1>4. NextMessageIsTaken
  BY <1>3, NoneActive DEF NextMessageIsTaken
<1>5. PromptIsAnswerable
  BY DEF Base, PermissionsOK
<1> QED
  BY <1>2, <1>4, <1>5 DEF TurnEndsClean

-----------------------------------------------------------------------------
(* Theorems of the first two invariants.                                   *)

\* The session, its queue, the query with its stream, the row and the session files keep
\* their types, for any number of messages, tools and restarts.
THEOREM TypeCorrect == Spec => []TypeOK
<1>1. Base => TypeOK
  BY DEF Base
<1> QED
  BY <1>1, BaseHolds, PTL

\* Whatever overlaps: between the operations of the session (session-runtime.ts) no turn is
\* active, however the last one ended, so that the engine refuses no message; and the prompt
\* that the registry shows has its entry in pendingPermissions.
THEOREM SessionGoesOn == Spec => [](NextMessageIsTaken /\ PromptIsAnswerable)
<1>1. Base => NextMessageIsTaken /\ PromptIsAnswerable
  <2>1. op = NoOperation => ~ Sending
    BY Fields DEF Sending
  <2> QED
    BY <2>1, NoneActive DEF NextMessageIsTaken, Base, PermissionsOK
<1> QED
  BY <1>1, BaseHolds, PTL

\* A turn leaves no tool that runs, no open elicitation, no active turn and no prompt that
\* cannot be answered, whether it ends, fails or is stopped and whenever the user answers; if
\* Claude ends no turn while a permission is open.
THEOREM TurnsEndClean ==
  ASSUME "prompts outlive turn" \notin Overlaps
  PROVE  Spec => []TurnEndsClean
<1>1. Init => Base /\ Settles
  BY InitBase, InitSettles
<1>2. Base /\ Settles /\ [Next]_vars => Base' /\ Settles'
  BY NextBase, NextSettles
<1>3. Base /\ Settles => TurnEndsClean
  BY SettledIsClean
<1> QED
  BY <1>1, <1>2, <1>3, PTL DEF Spec

-----------------------------------------------------------------------------
(* The session file and the conversation.                                  *)

\* The first turn of a session file neither dies nor is stopped once the session knows the
\* file, and a session gets no message of an old chat before it has loaded it.
Careful == "throws unmarked" \notin Overlaps /\ "send before load" \notin Overlaps

\* A turn that has not begun.
IsNew(t) == t > run.turn \/ (t = run.turn /\ run.phase = "waiting")

NewOK ==
  \A t \in Turns : IsNew(t) =>
    conv.turns[t] = Absent /\ history[t] = 0 /\ \A f \in Turns : t \notin files[f]

\* The session does not know the file of the query until it reads the init message, the
\* first one; a session without a conversation knows nothing.
StartOK ==
  /\ Sending /\ session.remote # claude.file =>
       \/ stream = <<>> /\ claude.phase \in {"starting", "dead"}
       \/ stream # <<>> /\ stream[1].type = "init"
  /\ ~ session.open => session = NewSession

\* The session and what waits for it know the file of the row, or none; a message waits
\* only in a chat that is loaded.
RowOK ==
  /\ session.replayed \in {NoFile, row}
  /\ ~ Sending => session.remote \in {NoFile, row}
  /\ \A i \in 1 .. Len(waiting) :
       /\ waiting[i].remote \in {NoFile, row}
       /\ waiting[i].kind = "send" => waiting[i].remote = row /\ Loaded
  /\ op.kind = "load" => session.open /\ op.remote \in {NoFile, row}

\* Claude works on the file of the row or begins one, which is not known when its first
\* turn fails.
QueryOK ==
  Sending =>
    /\ session.open /\ Loaded
    /\ claude.file = IF row = NoFile THEN op.turn ELSE row
    /\ session.remote \in {NoFile, claude.file}
    /\ row = NoFile /\ (run.aborted \/ claude.phase = "dead") =>
         run.aborted /\ session.remote = NoFile

\* A file that is not the row's has the turn that began it; the conversation is empty or has
\* what the file of the row has.
FilesOK ==
  /\ \A f \in Turns : f # row => files[f] \subseteq {f}
  /\ Loaded \/ \A t \in Turns : Shown(t) = 0
  /\ ShownOnce /\ HistoryIsWhole

Truth == NewOK /\ StartOK /\ RowOK /\ QueryOK /\ FilesOK

\* NoFile is no file.
LEMMA NoFileIsNone == NoFile \notin Turns /\ Turns \subseteq Nat /\ NoTurn \in Nat
  BY TurnsAssumption DEF NoFile, NoTurn

\* The session and the row while a turn is at work.
LEMMA QueryFile ==
  ASSUME Base, Truth, Sending
  PROVE  /\ session.open /\ Loaded
         /\ claude.file \in Turns /\ claude.file # NoFile
         /\ claude.file = IF row = NoFile THEN op.turn ELSE row
         /\ session.remote \in {NoFile, claude.file}
         /\ row = NoFile /\ (run.aborted \/ claude.phase = "dead") =>
              run.aborted /\ session.remote = NoFile
         /\ op.turn = run.turn /\ run.phase = "running" /\ conv.turns[op.turn] # Absent
<1>1. claude.file \in Turns /\ op.turn = run.turn /\ run.phase = "running"
  BY DEF Base, WorkOK
<1>2. conv.turns[op.turn] # Absent
  BY DEF Base, LiveOK
<1> QED
  BY <1>1, <1>2, NoFileIsNone DEF Truth, QueryOK

\* How often a turn is shown.
LEMMA ShownNat ==
  ASSUME TypeOK, NEW t \in Turns
  PROVE  /\ history[t] \in Nat
         /\ Shown(t) = 0 <=> history[t] = 0 /\ conv.turns[t] = Absent
         /\ Shown(t) <= 1 <=> (history[t] = 0 \/ (history[t] = 1 /\ conv.turns[t] = Absent))
         /\ Shown(t) > 0 <=> ~ (history[t] = 0 /\ conv.turns[t] = Absent)
<1>1. history[t] \in Nat
  BY DEF TypeOK
<1> QED
  BY <1>1 DEF Shown

\* A step that shows no turn and loads no file.
LEMMA SameFiles ==
  ASSUME Base, Truth, UNCHANGED <<history, row, files>>,
         session'.replayed = session.replayed,
         \A t \in Turns : conv'.turns[t] = Absent <=> conv.turns[t] = Absent,
         run'.turn = run.turn, run'.phase = run.phase \/ run'.phase # "waiting"
  PROVE  NewOK' /\ FilesOK' /\ (Loaded' <=> Loaded)
<1>1. NewOK'
  BY DEF Truth, NewOK, IsNew
<1>2. Loaded' <=> Loaded
  BY DEF Loaded
<1>3. \A t \in Turns : Shown(t)' = Shown(t)
  BY DEF Shown
<1>4. (\A f \in Turns : f # row => files[f] \subseteq {f})'
  BY DEF Truth, FilesOK
<1>5. (Loaded \/ \A t \in Turns : Shown(t) = 0)'
  BY <1>2, <1>3 DEF Truth, FilesOK
<1>6. ShownOnce'
  BY <1>3 DEF Truth, FilesOK, ShownOnce
<1>7. HistoryIsWhole'
  <2>1. session.replayed # NoFile => \A t \in files[session.replayed] : Shown(t) > 0
    BY DEF Truth, FilesOK, HistoryIsWhole
  <2>2. session.replayed # NoFile => files[session.replayed] \subseteq Turns
    BY DEF Base, TypeOK, Session, Files
  <2> QED
    BY <1>3, <2>1, <2>2 DEF HistoryIsWhole
<1> QED
  BY <1>1, <1>2, <1>4, <1>5, <1>6, <1>7 DEF FilesOK

\* A new chat.
LEMMA InitTruth == Init => Truth
<1> SUFFICES ASSUME Init
             PROVE  Truth
  OBVIOUS
<1>1. /\ conv = ReadyConversation /\ session = NewSession /\ op = NoOperation
      /\ history = [t \in Turns |-> 0] /\ waiting = <<>> /\ row = NoFile
      /\ files = [t \in Turns |-> {}]
  BY DEF Init
<1>2. session.replayed = NoFile /\ session.remote = NoFile
  BY <1>1 DEF NewSession
<1>3. ~ Sending /\ op.kind # "load"
  BY <1>1, Fields DEF Sending
<1>4. \A t \in Turns : conv.turns[t] = Absent /\ history[t] = 0 /\ files[t] = {}
  BY <1>1, FreshConv
<1>5. NewOK /\ StartOK /\ QueryOK
  BY <1>1, <1>3, <1>4 DEF NewOK, StartOK, QueryOK
<1>6. RowOK
  <2>1. 1 .. Len(waiting) = {}
    BY <1>1
  <2> QED
    BY <1>2, <1>3, <2>1 DEF RowOK
<1>7. FilesOK
  BY <1>1, <1>2, <1>4 DEF FilesOK, Loaded, Shown, ShownOnce, HistoryIsWhole
<1> QED
  BY <1>5, <1>6, <1>7 DEF Truth

\* The daemon is asked for a message, or to load the chat.
LEMMA AskTruth ==
  ASSUME Careful, Base, Truth, (\E t \in Turns : Send(t)) \/ Load
  PROVE  Truth'
<1>1. waiting \in Seq(Operation) /\ run \in Run /\ row \in Files
  BY DEF Base, TypeOK
<1>2. PICK kind \in {"send", "load"}, t \in Turns \cup {NoTurn} :
        /\ waiting' = Append(waiting, [kind |-> kind, turn |-> t, remote |-> row])
        /\ \/ kind = "load" /\ run' = run
           \/ /\ kind = "send" /\ t \in Turns /\ run.phase = "none" /\ t = run.turn + 1
              /\ run' = [NoRun(t) EXCEPT !.phase = "waiting"] /\ Loaded
        /\ UNCHANGED <<conv, permissions, session, history, op, row, claude, stream, files>>
  BY DEF Send, Load, Asks, Careful
<1>3. PICK o \in Operation : o = [kind |-> kind, turn |-> t, remote |-> row]
  BY <1>1, <1>2 DEF Operation
<1>4. o.kind = kind /\ o.remote = row
  BY <1>3
<1>5. \A i \in 1 .. Len(waiting') :
        \/ i \in 1 .. Len(waiting) /\ waiting'[i] = waiting[i]
        \/ waiting'[i] = o
  BY <1>1, <1>2, <1>3, AppendItems
<1>6. Loaded' <=> Loaded
  BY <1>2 DEF Loaded
<1>7. RowOK'
  <2>1. ASSUME NEW i \in 1 .. Len(waiting')
        PROVE  /\ waiting'[i].remote \in {NoFile, row}
               /\ waiting'[i].kind = "send" => waiting'[i].remote = row /\ Loaded
    BY <1>2, <1>4, <1>5 DEF Truth, RowOK
  <2>2. /\ session'.replayed \in {NoFile, row'}
        /\ ~ Sending' => session'.remote \in {NoFile, row'}
        /\ op'.kind = "load" => session'.open /\ op'.remote \in {NoFile, row'}
    BY <1>2 DEF Truth, RowOK, Sending
  <2> QED
    BY <1>2, <1>6, <2>1, <2>2 DEF RowOK
<1>8. QueryOK'
  <2>1. Sending => run' = run
    BY <1>2 DEF Base, WorkOK
  <2> QED
    BY <1>2, <1>6, <2>1 DEF Truth, QueryOK, Sending
<1>9. StartOK'
  BY <1>2 DEF Truth, StartOK, Sending
<1>10. FilesOK'
  BY <1>2 DEF Truth, FilesOK, Loaded, Shown, ShownOnce, HistoryIsWhole
<1>11. NewOK'
  <2>1. CASE run' = run
    BY <1>2, <2>1 DEF Truth, NewOK, IsNew
  <2>2. CASE /\ t \in Turns /\ t = run.turn + 1
             /\ run' = [NoRun(t) EXCEPT !.phase = "waiting"]
    <3>1. run'.turn = run.turn + 1 /\ run.turn \in Nat
      BY <1>1, <2>2, NoFileIsNone DEF NoRun, Run
    <3>2. \A u \in Turns : IsNew(u)' => u > run.turn
      BY <3>1, NoFileIsNone DEF IsNew
    <3> QED
      BY <1>2, <3>2 DEF Truth, NewOK, IsNew
  <2> QED
    BY <1>2, <2>1, <2>2
<1> QED
  BY <1>7, <1>8, <1>9, <1>10, <1>11 DEF Truth

\* The user stops the run: the first turn of a file while the file is not known.
LEMMA StopTruth ==
  ASSUME Careful, Base, Truth, Stop
  PROVE  Truth'
<1>1. run \in Run /\ claude \in Query
  BY DEF Base, TypeOK
<1>2. /\ run' = IF run.phase = "late" THEN NoRun(run.turn) ELSE [run EXCEPT !.aborted = TRUE]
      /\ claude' = IF Sending THEN [claude EXCEPT !.phase = "dead"] ELSE claude
      /\ Sending => session.remote = session.replayed
      /\ UNCHANGED <<conv, permissions, session, history, op, waiting, row, stream, files>>
  BY DEF Stop, Sending, Careful
<1>3. run'.turn = run.turn /\ (run'.phase = run.phase \/ run'.phase # "waiting")
  BY <1>1, <1>2 DEF Run, NoRun
<1>4. NewOK' /\ FilesOK' /\ (Loaded' <=> Loaded)
  BY <1>2, <1>3, SameFiles
<1>5. Sending => /\ run'.aborted = TRUE /\ claude'.file = claude.file
                 /\ claude'.phase = "dead"
  BY <1>1, <1>2 DEF Run, Query, Base, WorkOK
<1>6. StartOK'
  BY <1>2, <1>5 DEF Truth, StartOK, Sending
<1>7. RowOK'
  BY <1>2, <1>4 DEF Truth, RowOK, Sending
<1>8. QueryOK'
  <2>1. row = NoFile => session.replayed = NoFile
    BY DEF Truth, RowOK
  <2> QED
    BY <1>2, <1>4, <1>5, <2>1 DEF Truth, QueryOK, Sending
<1> QED
  BY <1>4, <1>6, <1>7, <1>8 DEF Truth

\* What waits after the first of it was taken.
LEMMA RowTaken ==
  ASSUME Base, RowOK, waiting # <<>>
  PROVE  /\ Head(waiting) = waiting[1] /\ 1 \in 1 .. Len(waiting)
         /\ Head(waiting) \in Operation /\ Head(waiting).remote \in {NoFile, row}
         /\ Head(waiting).kind = "send" => Head(waiting).remote = row /\ Loaded
         /\ waiting' = Tail(waiting) =>
              \A i \in 1 .. Len(waiting') :
                /\ waiting'[i].remote \in {NoFile, row}
                /\ waiting'[i].kind = "send" => waiting'[i].remote = row /\ Loaded
<1>1. waiting \in Seq(Operation)
  BY DEF Base, TypeOK
<1>2. /\ Head(waiting) = waiting[1] /\ 1 \in 1 .. Len(waiting)
      /\ Head(waiting) \in Operation
      /\ waiting' = Tail(waiting) =>
           \A i \in 1 .. Len(waiting') :
             waiting'[i] = waiting[i + 1] /\ i + 1 \in 1 .. Len(waiting)
  BY <1>1, TailItems
<1> QED
  BY <1>2 DEF RowOK

\* The conversation of a session that had none.
LEMMA EnsuredSession ==
  ASSUME Base, Truth, ~ Sending, NEW remote \in {NoFile, row}, session' = Ensured(remote)
  PROVE  /\ session'.open /\ session'.replayed = session.replayed
         /\ session'.remote \in {NoFile, row}
<1>1. CASE session.open
  BY <1>1 DEF Ensured, Truth, RowOK
<1>2. CASE ~ session.open
  <2>1. session = NewSession
    BY <1>2 DEF Truth, StartOK
  <2> QED
    BY <1>2, <2>1 DEF Ensured, NewSession
<1> QED
  BY <1>1, <1>2

\* A message goes on in the file of the row, or begins one.
LEMMA StartsTurnTruth ==
  ASSUME Base, Truth, op = NoOperation, waiting # <<>>, StartsTurn(Head(waiting))
  PROVE  Truth'
<1>1. PICK next \in Operation : next = Head(waiting)
  BY RowTaken DEF Truth
<1>2. /\ next.kind = "send" /\ next.remote = row /\ Loaded
      /\ waiting' = Tail(waiting)
      /\ UNCHANGED <<permissions, history, row, stream, files>>
  BY <1>1, RowTaken DEF StartsTurn, Truth
<1>3. run.phase = "waiting" /\ next.turn = run.turn /\ run.turn \in Turns
  <2>1. Head(waiting) = waiting[1] /\ 1 \in 1 .. Len(waiting)
    BY RowTaken DEF Truth
  <2> QED
    BY <1>1, <1>2, <2>1 DEF Base, WaitingOK, WorkOK
<1>4. ~ Sending /\ op.kind # "load"
  BY Fields DEF Sending
<1>5. conv.active = {} /\ CanStartTurn(conv) /\ stream = <<>> /\ claude.phase = "off"
  BY <1>4, NoneActive
<1>6. \A i \in 1 .. Len(waiting') :
        /\ waiting'[i].remote \in {NoFile, row}
        /\ waiting'[i].kind = "send" => waiting'[i].remote = row /\ Loaded
  BY <1>2, RowTaken DEF Truth
<1>7. run \in Run /\ conv \in ConversationState
  BY DEF Base, TypeOK
<1>8. CASE run.aborted
  <2>1. run' = NoRun(run.turn) /\ UNCHANGED <<conv, session, op, claude>>
    BY <1>1, <1>8 DEF StartsTurn
  <2>2. run'.turn = run.turn /\ run'.phase = "none"
    BY <2>1 DEF NoRun
  <2>3. NewOK' /\ FilesOK' /\ (Loaded' <=> Loaded)
    BY <1>2, <2>1, <2>2, SameFiles
  <2>4. StartOK' /\ QueryOK'
    BY <1>4, <2>1 DEF Truth, StartOK, QueryOK, Sending
  <2>5. RowOK'
    BY <1>2, <1>6, <2>1, <2>3 DEF Truth, RowOK, Sending
  <2> QED
    BY <2>3, <2>4, <2>5 DEF Truth
<1>9. CASE ~ run.aborted
  <2>1. /\ session' = Ensured(next.remote)
        /\ conv' = TurnPlanned(conv, next.turn) /\ op' = next
        /\ run' = [run EXCEPT !.phase = "running"]
        /\ claude' = [NoQuery EXCEPT !.phase = "starting",
                        !.file = IF next.remote = NoFile THEN next.turn ELSE next.remote]
    BY <1>1, <1>5, <1>9 DEF StartsTurn
  <2>2. /\ conv'.turns[next.turn] # Absent
        /\ \A u \in Turns : u # next.turn => conv'.turns[u] = conv.turns[u]
    BY <1>3, <1>7, <2>1, TurnPlannedConv
  <2>3. /\ session'.open /\ session'.replayed = session.replayed
        /\ session'.remote \in {NoFile, row}
    BY <1>2, <1>4, <2>1, EnsuredSession
  <2>4. run'.turn = run.turn /\ run'.phase = "running" /\ ~ run'.aborted
    BY <1>7, <1>9, <2>1 DEF Run
  <2>5. /\ claude'.phase = "starting"
        /\ claude'.file = IF row = NoFile THEN next.turn ELSE row
    BY <1>2, <2>1 DEF NoQuery
  <2>6. Sending' /\ op'.kind # "load" /\ op'.turn = next.turn
    BY <1>2, <2>1 DEF Sending
  <2>7. Loaded' <=> Loaded
    BY <1>2, <2>3 DEF Loaded
  <2>8. StartOK'
    BY <1>2, <1>5, <2>3, <2>5 DEF StartOK
  <2>9. RowOK'
    BY <1>2, <1>6, <2>3, <2>6, <2>7 DEF Truth, RowOK
  <2>10. QueryOK'
    BY <1>2, <2>3, <2>4, <2>5, <2>6, <2>7 DEF QueryOK
  <2>11. /\ conv.turns[next.turn] = Absent /\ history[next.turn] = 0
         /\ \A f \in Turns : next.turn \notin files[f]
    BY <1>3 DEF Truth, NewOK, IsNew
  <2>12. NewOK'
    <3>1. ASSUME NEW t \in Turns, IsNew(t)'
          PROVE  t > run.turn
      BY <2>4, <3>1 DEF IsNew
    <3>2. \A t \in Turns : t > run.turn => t # run.turn
      BY <1>3, NoFileIsNone
    <3> QED
      BY <1>2, <1>3, <2>2, <3>1, <3>2 DEF Truth, NewOK, IsNew
  <2>13. \A t \in Turns : t # next.turn => Shown(t)' = Shown(t)
    BY <1>2, <2>2 DEF Shown
  <2>14. Shown(next.turn)' = 1
    BY <1>2, <2>2, <2>11 DEF Shown
  <2>15. ShownOnce'
    BY <2>13, <2>14 DEF Truth, FilesOK, ShownOnce
  <2>16. HistoryIsWhole'
    <3>1. session.replayed # NoFile => \A t \in files[session.replayed] : Shown(t) > 0
      BY DEF Truth, FilesOK, HistoryIsWhole
    <3>2. session.replayed # NoFile => files[session.replayed] \subseteq Turns
      BY DEF Base, TypeOK, Session, Files
    <3>3. \A t \in Turns : Shown(t) > 0 => Shown(t)' > 0
      BY <2>13, <2>14
    <3> QED
      BY <1>2, <2>3, <3>1, <3>2, <3>3 DEF HistoryIsWhole
  <2>17. FilesOK'
    BY <1>2, <2>7, <2>15, <2>16 DEF Truth, FilesOK
  <2> QED
    BY <2>8, <2>9, <2>10, <2>12, <2>17 DEF Truth
<1> QED
  BY <1>8, <1>9

\* A load begins.
LEMMA StartsLoadTruth ==
  ASSUME Base, Truth, op = NoOperation, waiting # <<>>, StartsLoad(Head(waiting))
  PROVE  Truth'
<1>1. PICK next \in Operation : next = Head(waiting) /\ next.remote \in {NoFile, row}
  BY RowTaken DEF Truth
<1>2. /\ next.kind = "load" /\ waiting' = Tail(waiting)
      /\ session' = Ensured(next.remote) /\ op' = next
      /\ UNCHANGED <<conv, permissions, history, run, row, claude, stream, files>>
  BY <1>1 DEF StartsLoad
<1>3. ~ Sending /\ ~ Sending'
  BY <1>2, Fields DEF Sending
<1>4. /\ session'.open /\ session'.replayed = session.replayed
      /\ session'.remote \in {NoFile, row}
  BY <1>1, <1>2, <1>3, EnsuredSession
<1>5. NewOK' /\ FilesOK' /\ (Loaded' <=> Loaded)
  BY <1>2, <1>4, SameFiles
<1>6. \A i \in 1 .. Len(waiting') :
        /\ waiting'[i].remote \in {NoFile, row}
        /\ waiting'[i].kind = "send" => waiting'[i].remote = row /\ Loaded
  BY <1>2, RowTaken DEF Truth
<1>7. RowOK'
  BY <1>1, <1>2, <1>4, <1>5, <1>6 DEF Truth, RowOK
<1>8. StartOK' /\ QueryOK'
  BY <1>3, <1>4 DEF StartOK, QueryOK
<1> QED
  BY <1>5, <1>7, <1>8 DEF Truth

\* The file of the row is replayed into a conversation that is empty.
LEMMA LoadsTruth ==
  ASSUME Base, Truth, Loads
  PROVE  Truth'
<1>1. /\ op.kind = "load" /\ op' = NoOperation
      /\ row' = IF session.remote = NoFile THEN row ELSE session.remote
      /\ UNCHANGED <<conv, permissions, waiting, run, claude, stream, files>>
  BY DEF Loads
<1>2. ~ Sending /\ ~ Sending' /\ op'.kind # "load"
  BY <1>1, Fields DEF Sending
<1>3. row' = row
  BY <1>1, <1>2 DEF Truth, RowOK
<1>4. session \in Session /\ history \in [Turns -> Nat] /\ TypeOK
  BY DEF Base, TypeOK
<1>5. CASE op.remote \in {NoFile, session.replayed}
  <2>1. UNCHANGED <<history, session>>
    BY <1>5 DEF Loads
  <2>2. NewOK' /\ FilesOK' /\ (Loaded' <=> Loaded)
    BY <1>1, <1>3, <2>1, SameFiles
  <2>3. RowOK' /\ StartOK' /\ QueryOK'
    BY <1>1, <1>2, <1>3, <2>1, <2>2 DEF Truth, RowOK, StartOK, QueryOK
  <2> QED
    BY <2>2, <2>3 DEF Truth
<1>6. CASE op.remote \notin {NoFile, session.replayed}
  <2>1. /\ history' = [t \in Turns |-> history[t] + IF t \in files[op.remote] THEN 1 ELSE 0]
        /\ session' = [session EXCEPT !.replayed = op.remote]
    BY <1>6 DEF Loads
  <2>2. op.remote = row /\ row # NoFile /\ ~ Loaded
    BY <1>1, <1>6 DEF Truth, RowOK, Loaded
  <2>3. \A t \in Turns : history[t] = 0 /\ conv.turns[t] = Absent
    <3>1. \A t \in Turns : Shown(t) = 0
      BY <2>2 DEF Truth, FilesOK
    <3> QED
      BY <1>4, <3>1, ShownNat
  <2>4. /\ session'.replayed = row /\ session'.remote = session.remote
        /\ session'.open = session.open
    BY <1>4, <2>1, <2>2 DEF Session
  <2>5. Loaded'
    BY <1>3, <2>4 DEF Loaded
  <2>6. \A t \in Turns : history'[t] = IF t \in files[row] THEN 1 ELSE 0
    BY <2>1, <2>2, <2>3
  <2>7. row \in Turns
    BY <2>2 DEF Base, TypeOK, Files
  <2>8. NewOK'
    BY <1>1, <2>6, <2>7 DEF Truth, NewOK, IsNew
  <2>9. \A t \in Turns : Shown(t)' = IF t \in files[row] THEN 1 ELSE 0
    BY <1>1, <2>3, <2>6 DEF Shown
  <2>10. ShownOnce'
    BY <2>9 DEF ShownOnce
  <2>11. HistoryIsWhole'
    <3>1. files[row] \subseteq Turns
      BY <2>7 DEF Base, TypeOK
    <3> QED
      BY <1>1, <2>4, <2>9, <3>1 DEF HistoryIsWhole
  <2>12. FilesOK'
    BY <1>1, <1>3, <2>5, <2>10, <2>11 DEF Truth, FilesOK
  <2>13. RowOK'
    BY <1>1, <1>2, <1>3, <2>4, <2>5 DEF Truth, RowOK
  <2>14. StartOK' /\ QueryOK'
    <3>1. session.open
      BY <1>1 DEF Truth, RowOK
    <3> QED
      BY <1>2, <2>4, <3>1 DEF StartOK, QueryOK
  <2> QED
    BY <2>8, <2>12, <2>13, <2>14 DEF Truth
<1> QED
  BY <1>5, <1>6

\* A load that fails leaves the chat as it was.
LEMMA LoadFailsTruth ==
  ASSUME Base, Truth, LoadFails
  PROVE  Truth'
<1>1. /\ op.kind = "load" /\ op' = NoOperation
      /\ UNCHANGED <<conv, permissions, session, history, waiting, run, row, claude, stream,
                     files>>
  BY DEF LoadFails
<1>2. ~ Sending /\ ~ Sending' /\ op'.kind # "load"
  BY <1>1, Fields DEF Sending
<1>3. NewOK' /\ FilesOK' /\ (Loaded' <=> Loaded)
  BY <1>1, SameFiles
<1>4. RowOK' /\ StartOK' /\ QueryOK'
  BY <1>1, <1>2, <1>3 DEF Truth, RowOK, StartOK, QueryOK
<1> QED
  BY <1>3, <1>4 DEF Truth

\* After a restart the conversation is empty.
LEMMA RestartTruth ==
  ASSUME Base, Truth, Restart
  PROVE  Truth'
<1>1. /\ conv' = ReadyConversation /\ session' = NewSession /\ op' = NoOperation
      /\ history' = [t \in Turns |-> 0] /\ waiting' = <<>> /\ run' = NoRun(run.turn)
      /\ UNCHANGED <<row, files>>
  BY DEF Restart
<1>2. session'.replayed = NoFile /\ session'.remote = NoFile
  BY <1>1 DEF NewSession
<1>3. ~ Sending' /\ op'.kind # "load"
  BY <1>1, Fields DEF Sending
<1>4. \A t \in Turns : conv'.turns[t] = Absent /\ history'[t] = 0
  BY <1>1, FreshConv
<1>5. NewOK'
  <2>1. \A t \in Turns : IsNew(t)' => t > run.turn
    BY <1>1 DEF IsNew, NoRun
  <2> QED
    BY <1>1, <1>4, <2>1 DEF Truth, NewOK, IsNew
<1>6. StartOK' /\ QueryOK'
  BY <1>1, <1>3 DEF StartOK, QueryOK
<1>7. RowOK'
  <2>1. 1 .. Len(waiting') = {}
    BY <1>1
  <2> QED
    BY <1>2, <1>3, <2>1 DEF RowOK
<1>8. FilesOK'
  <2>1. \A t \in Turns : Shown(t)' = 0
    BY <1>4 DEF Shown
  <2> QED
    BY <1>1, <1>2, <2>1 DEF Truth, FilesOK, ShownOnce, HistoryIsWhole
<1> QED
  BY <1>5, <1>6, <1>7, <1>8 DEF Truth

\* The session knows its file when the result of the message is there.
LEMMA ReturnsTruth ==
  ASSUME Base, Truth, Returns
  PROVE  Truth'
<1>1. /\ Sending /\ stream # <<>> /\ Head(stream).type = "end" /\ QueryEnds
      /\ session' = IF session.remote = NoFile THEN session
                    ELSE [session EXCEPT !.replayed = session.remote]
      /\ row' = IF session.remote = NoFile THEN row ELSE session.remote
      /\ run' = IF run.prompt = NoRequest THEN NoRun(run.turn)
                ELSE [run EXCEPT !.phase = "late"]
      /\ UNCHANGED <<conv, permissions, history, waiting, files>>
  BY DEF Returns, Sending
<1>2. session \in Session /\ run \in Run /\ stream \in Seq(Message) /\ TypeOK
  BY DEF Base, TypeOK
<1>3. session.remote = claude.file
  <2>1. stream[1].type = "end"
    BY <1>1, <1>2, TailItems
  <2> QED
    BY <1>1, <2>1 DEF Truth, StartOK
<1>4. /\ session.open /\ Loaded /\ claude.file \in Turns /\ claude.file # NoFile
      /\ claude.file = IF row = NoFile THEN op.turn ELSE row
      /\ run.phase = "running" /\ conv.turns[op.turn] # Absent
  BY <1>1, QueryFile
<1>5. /\ row' = claude.file /\ session'.replayed = claude.file
      /\ session'.remote = claude.file /\ session'.open
  BY <1>1, <1>2, <1>3, <1>4 DEF Session
<1>6. Loaded'
  BY <1>5 DEF Loaded
<1>7. ~ Sending' /\ op'.kind # "load"
  BY <1>1, Fields DEF QueryEnds, Sending
<1>8. run'.turn = run.turn /\ run'.phase # "waiting"
  BY <1>1, <1>2 DEF Run, NoRun
<1>9. NewOK'
  BY <1>1, <1>8 DEF Truth, NewOK, IsNew
<1>10. StartOK' /\ QueryOK'
  BY <1>5, <1>7 DEF StartOK, QueryOK
<1>11. RowOK'
  <2>1. \A i \in 1 .. Len(waiting) : waiting[i].kind # "send"
    BY <1>1, SessionSends
  <2>2. \A i \in 1 .. Len(waiting) : waiting[i].remote \in {NoFile, row'}
    BY <1>4, <1>5 DEF Truth, RowOK
  <2> QED
    BY <1>1, <1>5, <1>7, <2>1, <2>2 DEF RowOK
<1>12. \A t \in Turns : Shown(t)' = Shown(t)
  BY <1>1 DEF Shown
<1>13. ShownOnce'
  BY <1>12 DEF Truth, FilesOK, ShownOnce
<1>14. \A f \in Turns : f # row' => files'[f] \subseteq {f}
  <2>1. \A f \in Turns : f # row => files[f] \subseteq {f}
    BY DEF Truth, FilesOK
  <2>2. row' = row \/ row = NoFile
    BY <1>4, <1>5
  <2>3. \A f \in Turns : f # NoFile
    BY NoFileIsNone
  <2> QED
    BY <1>1, <2>1, <2>2, <2>3
<1>15. HistoryIsWhole'
  <2>1. files[claude.file] \subseteq Turns
    BY <1>2, <1>4 DEF TypeOK
  <2>2. \A t \in files[claude.file] : Shown(t) > 0
    <3>1. CASE row = NoFile
      <4>1. claude.file = op.turn /\ op.turn \in Turns
        BY <1>4, <3>1
      <4>2. files[claude.file] \subseteq {op.turn}
        BY <1>4, <3>1, <4>1 DEF Truth, FilesOK
      <4>3. Shown(op.turn) > 0
        BY <1>2, <1>4, <4>1, ShownNat
      <4> QED
        BY <4>2, <4>3
    <3>2. CASE row # NoFile
      <4>1. session.replayed = claude.file
        BY <1>4, <3>2 DEF Loaded
      <4> QED
        BY <1>4, <4>1 DEF Truth, FilesOK, HistoryIsWhole
    <3> QED
      BY <3>1, <3>2
  <2> QED
    BY <1>1, <1>5, <1>12, <2>1, <2>2 DEF HistoryIsWhole
<1>16. FilesOK'
  BY <1>6, <1>13, <1>14, <1>15 DEF FilesOK
<1> QED
  BY <1>9, <1>10, <1>11, <1>16 DEF Truth

\* When it fails the row has its file, or no file is known.
LEMMA ThrowsTruth ==
  ASSUME Base, Truth, Throws
  PROVE  Truth'
<1>1. /\ Sending /\ Broken /\ QueryEnds /\ conv' = TurnTerminal(conv, op.turn)
      /\ run' = NoRun(run.turn)
      /\ UNCHANGED <<permissions, session, history, waiting, row, files>>
  BY DEF Throws, Sending
<1>2. \A t \in Turns : conv'.turns[t] = Absent <=> conv.turns[t] = Absent
  BY <1>1, TurnEnds
<1>3. /\ session.open /\ session.remote \in {NoFile, claude.file}
      /\ claude.file = IF row = NoFile THEN op.turn ELSE row
      /\ row = NoFile /\ (run.aborted \/ claude.phase = "dead") => session.remote = NoFile
  BY <1>1, QueryFile
<1>4. session.remote \in {NoFile, row}
  BY <1>1, <1>3 DEF Broken
<1>5. ~ Sending' /\ op'.kind # "load"
  BY <1>1, Fields DEF QueryEnds, Sending
<1>6. run'.turn = run.turn /\ run'.phase = "none"
  BY <1>1 DEF NoRun
<1>7. NewOK' /\ FilesOK' /\ (Loaded' <=> Loaded)
  BY <1>1, <1>2, <1>6, SameFiles
<1>8. StartOK' /\ QueryOK'
  BY <1>1, <1>3, <1>5 DEF StartOK, QueryOK
<1>9. RowOK'
  BY <1>1, <1>4, <1>5, <1>7 DEF Truth, RowOK
<1> QED
  BY <1>7, <1>8, <1>9 DEF Truth

\* A message neither shows a turn nor hides one, nor stops the run.
LEMMA ReadTurns ==
  ASSUME Base, Reads
  PROVE  /\ \A t \in Turns : conv'.turns[t] = Absent <=> conv.turns[t] = Absent
         /\ run'.turn = run.turn /\ run'.phase = run.phase /\ run'.aborted = run.aborted
         /\ stream[1].type = "init" =>
              session' = [session EXCEPT !.remote = claude.file] /\ ~ run.aborted
         /\ stream[1].type # "init" => session' = session
<1>1. /\ Sending /\ stream[1] \in Message /\ stream[1].type # "end"
      /\ Head(stream) = stream[1] /\ Accepts(stream[1])
      /\ run.aborted => stream[1].type = "permission"
  BY Read DEF Reads
<1>2. /\ conv \in ConversationState /\ op.turn \in Turns /\ conv.turns[op.turn] # Absent
      /\ run \in Run
  BY <1>1, SessionSends DEF Base, TypeOK
<1>3. PICK a : a = stream[1].item
  OBVIOUS
<1>4. CASE stream[1].type = "init"
  <2>1. /\ conv' = StatusChanged(conv, "idle") /\ run' = run
        /\ session' = [session EXCEPT !.remote = claude.file] /\ ~ run.aborted
    BY <1>1, <1>4 DEF Accepts
  <2>2. conv'.turns = conv.turns
    BY <1>2, <2>1, StatusChangedConv
  <2> QED
    BY <1>4, <2>1, <2>2
<1>5. CASE stream[1].type = "tool_use"
  <2>1. /\ conv' = ActionObserved(conv, a, op.turn) /\ a \in Items
        /\ run' = run /\ session' = session
    BY <1>1, <1>3, <1>5, Fields DEF Accepts
  <2>2. SameTurns(conv, conv')
    BY <1>2, <2>1, ActionObservedConv
  <2> QED
    BY <1>5, <2>1, <2>2 DEF SameTurns
<1>6. CASE stream[1].type = "permission"
  <2>1. /\ conv' = ElicitationOpened(ActionObserved(conv, a, op.turn), a, op.turn, a)
        /\ a \in Items /\ session' = session /\ run' = [run EXCEPT !.prompt = a]
    BY <1>1, <1>3, <1>6, Fields DEF Accepts, PermissionAsked
  <2>2. SameTurns(conv, conv')
    BY <1>2, <2>1, PermissionConv
  <2>3. run'.turn = run.turn /\ run'.phase = run.phase /\ run'.aborted = run.aborted
    BY <1>2, <2>1 DEF Run
  <2> QED
    BY <1>6, <2>1, <2>2, <2>3 DEF SameTurns
<1>7. CASE stream[1].type = "tool_result"
  <2>1. /\ conv' = ActionUpdated(conv, a, "completed") /\ a \in Items
        /\ session' = session
        /\ run' = [run EXCEPT !.prompt = IF @ = a THEN NoRequest ELSE @]
    BY <1>1, <1>3, <1>7, Fields DEF Accepts
  <2>2. conv.actions[a] # Absent
    <3>1. 1 \in 1 .. Len(stream) /\ \A j \in 1 .. Len(stream) : ~ (j < 1)
      BY Read
    <3> QED
      BY <1>3, <1>7, <3>1 DEF Base, ItemsOK
  <2>3. SameTurns(conv, conv')
    BY <1>2, <2>1, <2>2, ActionUpdatedConv
  <2>4. run'.turn = run.turn /\ run'.phase = run.phase /\ run'.aborted = run.aborted
    BY <1>2, <2>1 DEF Run
  <2> QED
    BY <1>7, <2>1, <2>3, <2>4 DEF SameTurns
<1>8. CASE stream[1].type = "result"
  <2>1. /\ conv' = TurnTerminal(conv, op.turn) /\ run' = run /\ session' = session
    BY <1>1, <1>8 DEF Accepts
  <2>2. \A t \in Turns : conv'.turns[t] = Absent <=> conv.turns[t] = Absent
    BY <1>1, <2>1, TurnEnds
  <2> QED
    BY <1>8, <2>1, <2>2
<1> QED
  BY <1>1, <1>4, <1>5, <1>6, <1>7, <1>8, Fields

\* The init message tells the file; no other does.
LEMMA ReadsTruth ==
  ASSUME Base, Truth, Reads
  PROVE  Truth'
<1>1. Sending /\ UNCHANGED <<history, op, waiting, row, claude, files>>
  BY DEF Reads, Sending
<1>2. /\ \A t \in Turns : conv'.turns[t] = Absent <=> conv.turns[t] = Absent
      /\ run'.turn = run.turn /\ run'.phase = run.phase /\ run'.aborted = run.aborted
      /\ stream[1].type = "init" =>
           session' = [session EXCEPT !.remote = claude.file] /\ ~ run.aborted
      /\ stream[1].type # "init" => session' = session
  BY ReadTurns
<1>3. /\ session.open /\ Loaded
      /\ claude.file \in Turns /\ claude.file # NoFile
      /\ claude.file = IF row = NoFile THEN op.turn ELSE row
      /\ session.remote \in {NoFile, claude.file}
      /\ row = NoFile /\ (run.aborted \/ claude.phase = "dead") =>
           run.aborted /\ session.remote = NoFile
  BY <1>1, QueryFile
<1>4. session'.replayed = session.replayed /\ session'.open = session.open
  BY <1>2 DEF Base, TypeOK, Session
<1>5. /\ session'.remote = claude.file
      /\ stream[1].type = "init" \/ session'.remote = session.remote
  <2>1. CASE stream[1].type = "init"
    BY <1>2, <2>1 DEF Base, TypeOK, Session
  <2>2. CASE stream[1].type # "init"
    <3>1. stream # <<>>
      BY DEF Reads
    <3>2. session.remote = claude.file
      BY <1>1, <2>2, <3>1 DEF Truth, StartOK
    <3> QED
      BY <1>2, <2>2, <3>2
  <2> QED
    BY <2>1, <2>2
<1>6. NewOK' /\ FilesOK' /\ (Loaded' <=> Loaded)
  BY <1>1, <1>2, <1>4, SameFiles
<1>7. StartOK'
  BY <1>1, <1>3, <1>4, <1>5 DEF StartOK
<1>8. RowOK'
  BY <1>1, <1>4, <1>6 DEF Truth, RowOK, Sending
<1>9. QueryOK'
  <2>1. row = NoFile /\ (run'.aborted \/ claude.phase = "dead") =>
          run'.aborted /\ session'.remote = NoFile
    BY <1>2, <1>3, <1>5
  <2> QED
    BY <1>1, <1>3, <1>4, <1>5, <1>6, <2>1 DEF QueryOK
<1> QED
  BY <1>6, <1>7, <1>8, <1>9 DEF Truth

\* An answer is no matter of the file.
LEMMA AnswerTruth ==
  ASSUME Base, Truth, NEW e \in Requests, NEW decision, Answer(e, decision)
  PROVE  Truth'
<1>1. /\ run \in Run /\ claude \in Query /\ e \in Items /\ conv \in ConversationState
  BY ToolUseAssumption DEF Base, TypeOK
<1>2. /\ e \in permissions
      /\ run' = IF run.phase = "late" THEN NoRun(run.turn)
                ELSE [run EXCEPT !.prompt = NoRequest]
      /\ conv' = Decided(conv, e, decision) /\ claude' = Answered(claude, e, decision)
      /\ UNCHANGED <<session, history, op, waiting, row, stream, files>>
  BY DEF Answer
<1>3. /\ conv.elicitations[e] # Absent /\ conv.elicitations[e].item = e
      /\ conv.actions[e] # Absent /\ conv.turns[conv.elicitations[e].turn] # Absent
  BY <1>2 DEF Base, PermissionsOK
<1>4. \A t \in Turns : conv'.turns[t] = Absent <=> conv.turns[t] = Absent
  <2>1. SameTurns(conv, conv')
    BY <1>1, <1>2, <1>3, DecidedConv
  <2> QED
    BY <2>1 DEF SameTurns
<1>5. /\ claude'.file = claude.file
      /\ claude'.phase = claude.phase
           \/ (claude.phase = "working" /\ claude'.phase = "interrupted")
  BY <1>1, <1>2, AnsweredQuery
<1>6. /\ run'.turn = run.turn /\ (run'.phase = run.phase \/ run'.phase = "none")
      /\ run.phase = "running" => run'.aborted = run.aborted
  BY <1>1, <1>2 DEF Run, NoRun
<1>7. NewOK' /\ FilesOK' /\ (Loaded' <=> Loaded)
  BY <1>2, <1>4, <1>6, SameFiles
<1>8. StartOK'
  BY <1>2, <1>5 DEF Truth, StartOK, Sending
<1>9. RowOK'
  BY <1>2, <1>7 DEF Truth, RowOK, Sending
<1>10. QueryOK'
  <2>1. Sending => run.phase = "running"
    BY DEF Base, WorkOK
  <2> QED
    BY <1>2, <1>5, <1>6, <1>7, <2>1 DEF Truth, QueryOK, Sending
<1> QED
  BY <1>7, <1>8, <1>9, <1>10 DEF Truth

\* Claude begins the session file or goes on in it.
LEMMA ClaudeStartsTruth ==
  ASSUME Base, Truth, ClaudeStarts
  PROVE  Truth'
<1>1. claude \in Query /\ files \in [Turns -> SUBSET Turns] /\ TypeOK
  BY DEF Base, TypeOK
<1>2. /\ claude.phase = "starting" /\ claude' = [claude EXCEPT !.phase = "working"]
      /\ files' = [files EXCEPT ![claude.file] = @ \cup {op.turn}]
      /\ stream' = stream \o <<[type |-> "init"]>>
      /\ UNCHANGED <<conv, permissions, session, history, op, waiting, run, row>>
  BY DEF ClaudeStarts, Writes
<1>3. Sending /\ stream = <<>>
  BY <1>2 DEF Base, WorkOK, StreamOK
<1>4. /\ session.open /\ Loaded /\ claude.file \in Turns /\ claude.file # NoFile
      /\ claude.file = IF row = NoFile THEN op.turn ELSE row
      /\ session.remote \in {NoFile, claude.file}
      /\ row = NoFile /\ (run.aborted \/ claude.phase = "dead") =>
           run.aborted /\ session.remote = NoFile
      /\ op.turn = run.turn /\ run.phase = "running" /\ conv.turns[op.turn] # Absent
  BY <1>3, QueryFile
<1>5. op.turn \in Turns
  BY <1>3, SessionSends
<1>6. claude'.phase = "working" /\ claude'.file = claude.file
  BY <1>1, <1>2 DEF Query
<1>7. stream' # <<>> /\ stream'[1].type = "init"
  <2>1. stream' = <<[type |-> "init"]>>
    BY <1>2, <1>3
  <2> QED
    BY <2>1
<1>8. /\ files'[claude.file] = files[claude.file] \cup {op.turn}
      /\ \A f \in Turns : f # claude.file => files'[f] = files[f]
  BY <1>1, <1>2, <1>4
<1>9. StartOK'
  BY <1>2, <1>4, <1>7 DEF StartOK
<1>10. Loaded' <=> Loaded
  BY <1>2 DEF Loaded
<1>11. RowOK'
  BY <1>2, <1>10 DEF Truth, RowOK, Sending
<1>12. QueryOK'
  BY <1>2, <1>4, <1>6, <1>10 DEF QueryOK
<1>13. NewOK'
  <2>1. ~ IsNew(op.turn)
    <3>1. op.turn \in Nat
      BY <1>5, NoFileIsNone
    <3>2. \A n \in Nat : ~ (n > n)
      OBVIOUS
    <3> QED
      BY <1>4, <3>1, <3>2 DEF IsNew
  <2>2. \A t \in Turns : IsNew(t)' <=> IsNew(t)
    BY <1>2 DEF IsNew
  <2> QED
    BY <1>2, <1>8, <2>1, <2>2 DEF Truth, NewOK
<1>14. \A t \in Turns : Shown(t)' = Shown(t)
  BY <1>2 DEF Shown
<1>15. \A f \in Turns : f # row' => files'[f] \subseteq {f}
  BY <1>2, <1>4, <1>8 DEF Truth, FilesOK
<1>16. HistoryIsWhole'
  <2>1. Shown(op.turn) > 0
    BY <1>1, <1>4, <1>5, ShownNat
  <2>2. session.replayed # NoFile => \A t \in files[session.replayed] : Shown(t) > 0
    BY DEF Truth, FilesOK, HistoryIsWhole
  <2>3. session.replayed # NoFile =>
          session.replayed \in Turns /\ files[session.replayed] \subseteq Turns
    BY <1>1 DEF TypeOK, Session, Files
  <2>4. ASSUME session.replayed # NoFile, NEW t \in files'[session.replayed]
        PROVE  Shown(t)' > 0
    <3>1. t = op.turn \/ t \in files[session.replayed]
      BY <1>4, <1>8, <2>3, <2>4
    <3> QED
      BY <1>5, <1>14, <2>1, <2>2, <2>3, <2>4, <3>1
  <2> QED
    BY <1>2, <2>4 DEF HistoryIsWhole
<1>17. FilesOK'
  BY <1>4, <1>10, <1>14, <1>15, <1>16 DEF Truth, FilesOK, ShownOnce
<1> QED
  BY <1>9, <1>11, <1>12, <1>13, <1>17 DEF Truth

\* What it writes afterwards, and how it ends.
LEMMA ClaudeWritesTruth ==
  ASSUME Base, Truth, claude.phase \in {"working", "interrupted"},
         claude'.file = claude.file, claude'.phase # "dead", stream' # <<>>,
         stream # <<>> => stream'[1] = stream[1],
         UNCHANGED <<conv, permissions, session, history, op, waiting, run, row, files>>
  PROVE  Truth'
<1>1. NewOK' /\ FilesOK' /\ (Loaded' <=> Loaded)
  BY SameFiles
<1>2. StartOK'
  BY DEF Truth, StartOK, Sending
<1>3. RowOK'
  BY <1>1 DEF Truth, RowOK, Sending
<1>4. QueryOK'
  BY <1>1 DEF Truth, QueryOK, Sending
<1> QED
  BY <1>1, <1>2, <1>3, <1>4 DEF Truth

\* What Claude does.
LEMMA ClaudeTruth ==
  ASSUME Careful, Base, Truth, Claude
  PROVE  Truth'
<1>1. claude \in Query /\ stream \in Seq(Message)
  BY DEF Base, TypeOK
<1>2. CASE ClaudeStarts
  BY <1>2, ClaudeStartsTruth
<1>3. ASSUME NEW a \in Items, NEW asks \in BOOLEAN, ClaudeUses(a, asks)
      PROVE  Truth'
  <2>1. PICK m \in Message : m = About(IF asks THEN "permission" ELSE "tool_use", a)
    BY Fields
  <2>2. /\ stream' = stream \o <<m>> /\ claude.phase = "working"
        /\ claude' = [claude EXCEPT !.used = @ \cup {a},
                                    !.asked = IF asks THEN @ \cup {a} ELSE @,
                                    !.due = IF asks THEN @ ELSE @ \cup {a}]
        /\ UNCHANGED <<conv, permissions, session, history, op, waiting, run, row, files>>
    BY <1>3, <2>1 DEF ClaudeUses, Writes
  <2>3. claude'.file = claude.file /\ claude'.phase = claude.phase
    BY <1>1, <2>2 DEF Query
  <2>4. stream' # <<>> /\ (stream # <<>> => stream'[1] = stream[1])
    BY <1>1, <2>2
  <2> QED
    BY <2>2, <2>3, <2>4, ClaudeWritesTruth
<1>4. ASSUME NEW a \in Items, ClaudeTools(a)
      PROVE  Truth'
  <2>1. PICK m \in Message : m = About("tool_result", a)
    BY Fields
  <2>2. /\ stream' = stream \o <<m>> /\ claude.phase \in {"working", "interrupted"}
        /\ claude' = [claude EXCEPT !.due = @ \ {a}, !.asked = @ \ {a}]
        /\ UNCHANGED <<conv, permissions, session, history, op, waiting, run, row, files>>
    BY <1>4, <2>1 DEF ClaudeTools, Writes
  <2>3. claude'.file = claude.file /\ claude'.phase = claude.phase
    BY <1>1, <2>2 DEF Query
  <2>4. stream' # <<>> /\ (stream # <<>> => stream'[1] = stream[1])
    BY <1>1, <2>2
  <2> QED
    BY <2>2, <2>3, <2>4, ClaudeWritesTruth
<1>5. CASE ClaudeEnds
  <2>1. PICK m \in Message, n \in Message : m = [type |-> "result"] /\ n = [type |-> "end"]
    BY DEF Message
  <2>2. /\ stream' = stream \o <<m, n>> /\ claude.phase \in {"working", "interrupted"}
        /\ claude' = [claude EXCEPT !.phase = "ended"]
        /\ UNCHANGED <<conv, permissions, session, history, op, waiting, run, row, files>>
    BY <1>5, <2>1 DEF ClaudeEnds, Writes
  <2>3. claude'.file = claude.file /\ claude'.phase = "ended"
    BY <1>1, <2>2 DEF Query
  <2>4. stream' # <<>> /\ (stream # <<>> => stream'[1] = stream[1])
    BY <1>1, <2>2
  <2> QED
    BY <2>2, <2>3, <2>4, ClaudeWritesTruth
<1>6. CASE ClaudeDies
  <2>1. /\ claude.phase \in {"starting", "working", "interrupted"}
        /\ claude.file = session.replayed /\ claude' = [claude EXCEPT !.phase = "dead"]
        /\ UNCHANGED <<conv, permissions, session, history, op, waiting, run, row, stream,
                       files>>
    BY <1>6 DEF ClaudeDies, Careful
  <2>2. claude'.file = claude.file /\ claude'.phase = "dead"
    BY <1>1, <2>1 DEF Query
  <2>3. Sending
    BY <2>1 DEF Base, WorkOK
  <2>4. row # NoFile
    <3>1. claude.file # NoFile
      BY <2>3, QueryFile
    <3> QED
      BY <2>1, <3>1 DEF Truth, RowOK
  <2>5. NewOK' /\ FilesOK' /\ (Loaded' <=> Loaded)
    BY <2>1, SameFiles
  <2>6. StartOK'
    BY <2>1, <2>2 DEF Truth, StartOK, Sending
  <2>7. RowOK'
    BY <2>1, <2>5 DEF Truth, RowOK, Sending
  <2>8. QueryOK'
    BY <2>1, <2>2, <2>4, <2>5 DEF Truth, QueryOK, Sending
  <2> QED
    BY <2>5, <2>6, <2>7, <2>8 DEF Truth
<1> QED
  BY <1>2, <1>3, <1>4, <1>5, <1>6 DEF Claude

\* Every step keeps the conversation true.
LEMMA NextTruth ==
  ASSUME Careful
  PROVE  Base /\ Truth /\ [Next]_vars => Truth'
<1> SUFFICES ASSUME Base, Truth, [Next]_vars
             PROVE  Truth'
  OBVIOUS
<1>1. CASE (\E t \in Turns : Send(t)) \/ Load \/ Stop \/ Restart
  BY <1>1, AskTruth, StopTruth, RestartTruth
<1>2. CASE \E e \in Requests, decision \in {"allow", "deny", "cancel"} : Answer(e, decision)
  BY <1>2, AnswerTruth
<1>3. CASE Begins \/ Loads \/ LoadFails
  BY <1>3, StartsTurnTruth, StartsLoadTruth, LoadsTruth, LoadFailsTruth DEF Begins
<1>4. CASE Reads \/ Returns \/ Throws
  BY <1>4, ReadsTruth, ReturnsTruth, ThrowsTruth
<1>5. CASE Claude
  BY <1>5, ClaudeTruth
<1>6. CASE UNCHANGED vars
  <2>1. UNCHANGED <<conv, permissions, session, history, op, waiting, run, row, claude, stream,
                    files>>
    BY <1>6 DEF vars
  <2>2. NewOK' /\ FilesOK' /\ (Loaded' <=> Loaded)
    BY <2>1, SameFiles
  <2>3. StartOK' /\ RowOK' /\ QueryOK'
    BY <2>1, <2>2 DEF Truth, StartOK, RowOK, QueryOK, Sending
  <2> QED
    BY <2>2, <2>3 DEF Truth
<1> QED
  BY <1>1, <1>2, <1>3, <1>4, <1>5, <1>6 DEF Next, Works

\* Across loads, failures, Stops and restarts, each turn of the session file that counts as
\* replayed (replayedSessionId) is shown, and once, and a message goes on in the file of the
\* conversation; if the user and Claude are careful with the first turn of a file.
THEOREM ConversationTrue ==
  ASSUME Careful
  PROVE  Spec => []ConversationIsTrue
<1>1. Init => Base /\ Truth
  BY InitBase, InitTruth
<1>2. Base /\ Truth /\ [Next]_vars => Base' /\ Truth'
  BY NextBase, NextTruth
<1>3. Base /\ Truth => ConversationIsTrue
  <2>1. Base /\ claude.phase # "off" => Sending
    BY DEF Base, WorkOK
  <2> QED
    BY <2>1 DEF Truth, FilesOK, QueryOK, ContextIsKept, ConversationIsTrue
<1> QED
  BY <1>1, <1>2, <1>3, PTL DEF Spec
===============================================================================
