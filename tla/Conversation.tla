---------------------------- MODULE Conversation ----------------------------
(***************************************************************************)
(* One conversation of the engine (crates/angel-engine/src): the           *)
(* ConversationState and the reducer of AngelEngine, what apply_event does *)
(* to a conversation for each engine event the Codex adapter emits during  *)
(* a turn, and what plan_command does to it for each command of a session. *)
(*                                                                         *)
(* The content of a turn (input, output, plan) and the context, history    *)
(* and settings of the conversation are left out, and with them the turn   *)
(* phases that only say which content came last: Reasoning stands for      *)
(* StreamingOutput and Planning, too.  Commands that no session issues     *)
(* during a turn (steer, history, shell, goals) are left out.              *)
(***************************************************************************)
EXTENDS Integers, FiniteSets

CONSTANTS Turns,      \* turn ids, in the order they are given out
          Items,      \* action ids: Codex thread items
          Requests    \* elicitation ids: Codex server requests

NoTurn == 0
NoItem == "no item"
NoRequest == "no request"

ASSUME TurnsAssumption == Turns \subseteq Nat \ {NoTurn}
ASSUME ItemsAssumption == NoItem \notin Items
ASSUME RequestsAssumption == NoRequest \notin Requests

Absent == [phase |-> "absent"]

Lifecycle == {"idle", "active", "cancelling", "faulted"}

TurnPhase ==
  {"starting", "reasoning", "acting", "awaiting_user", "cancelling", "terminal"}

TurnState == [phase : TurnPhase, remote : {"pending", "known"}]

ActionPhase == {"running", "awaiting_decision", "completed", "cancelled"}
ActionState == [phase : ActionPhase, turn : Turns]

ElicitationState ==
  [ phase : {"open", "resolving", "resolved", "cancelled"},
    turn : Turns, item : Items \cup {NoItem} ]

ConversationState ==
  [ lifecycle : Lifecycle,
    active : SUBSET Turns,                 \* active_turns
    focused : Turns \cup {NoTurn},         \* focused_turn
    turns : [Turns -> TurnState \cup {Absent}],
    actions : [Items -> ActionState \cup {Absent}],
    elicitations : [Requests -> ElicitationState \cup {Absent}] ]

\* A conversation after thread/start.
ReadyConversation ==
  [ lifecycle |-> "idle", active |-> {}, focused |-> NoTurn,
    turns |-> [t \in Turns |-> Absent],
    actions |-> [a \in Items |-> Absent],
    elicitations |-> [e \in Requests |-> Absent] ]

IsTerminal(turn) == turn.phase = "terminal"
IsLive(c, t) == c.turns[t] # Absent /\ ~ IsTerminal(c.turns[t])
OpenRequests(c) == {e \in Requests : c.elicitations[e].phase = "open"}

\* The phase a live turn moves to; a terminal turn stays terminal.
Moved(turn, phase) == IF IsTerminal(turn) THEN turn ELSE [turn EXCEPT !.phase = phase]

-----------------------------------------------------------------------------
(* Commands *)

\* ensure_can_start_turn, with the one active turn Codex allows.
CanStartTurn(c) ==
  /\ c.lifecycle \notin {"cancelling", "faulted"}
  /\ Cardinality(c.active) < 1

\* plan_start_turn
TurnPlanned(c, t) ==
  [c EXCEPT !.turns[t] = [phase |-> "starting", remote |-> "pending"],
            !.active = @ \cup {t}, !.focused = t, !.lifecycle = "active"]

\* plan_cancel_turn
CanCancel(c, t) == t \in c.active
CancelPlanned(c, t) ==
  [c EXCEPT !.lifecycle = "cancelling", !.turns[t].phase = "cancelling"]

\* plan_resolve_elicitation
CanResolve(c, e) == c.elicitations[e].phase = "open"
ResolutionPlanned(c, e) == [c EXCEPT !.elicitations[e].phase = "resolving"]

-----------------------------------------------------------------------------
(* Events *)

\* apply_turn_started
TurnStarted(c, t) ==
  [c EXCEPT !.turns[t] =
              IF @ = Absent THEN [phase |-> "starting", remote |-> "known"]
              ELSE [Moved(@, "starting") EXCEPT !.remote = "known"],
            !.active = @ \cup {t}, !.focused = t, !.lifecycle = "active"]

\* Mutant of Settled: only what awaits a decision ends with the turn.
SettledIfAwaiting(action, t) ==
  IF action = Absent \/ action.turn # t THEN action
  ELSE IF action.phase = "awaiting_decision" THEN [action EXCEPT !.phase = "cancelled"]
  ELSE action

\* apply_turn_terminal: what the turn left unfinished ends with it.  The next
\* focus is the active turn with the largest id.
Settled(action, t) ==
  IF action = Absent \/ action.turn # t THEN action
  ELSE CASE action.phase = "awaiting_decision" -> [action EXCEPT !.phase = "cancelled"]
         [] action.phase = "running" -> [action EXCEPT !.phase = "completed"]
         [] OTHER -> action

Withdrawn(elicitation, t) ==
  IF elicitation = Absent \/ elicitation.turn # t THEN elicitation
  ELSE IF elicitation.phase \in {"open", "resolving"}
       THEN [elicitation EXCEPT !.phase = "cancelled"] ELSE elicitation

Last(active) ==
  IF active = {} THEN NoTurn
  ELSE CHOOSE t \in active : \A u \in active : u <= t

\* Mutant of TurnTerminal: the turn stays among the active ones.
TurnTerminalKeepsActive(c, t) ==
  [c EXCEPT !.turns[t].phase = "terminal",
            !.actions = [a \in Items |-> Settled(@[a], t)],
            !.elicitations = [e \in Requests |-> Withdrawn(@[e], t)],
            !.lifecycle = "idle"]

TurnTerminal(c, t) ==
  LET active == c.active \ {t}
  IN [c EXCEPT !.turns[t].phase = "terminal",
               !.active = active,
               !.focused = IF @ = t THEN Last(active) ELSE @,
               !.actions = [a \in Items |-> Settled(@[a], t)],
               !.elicitations = [e \in Requests |-> Withdrawn(@[e], t)],
               !.lifecycle = IF active = {} THEN "idle" ELSE "active"]

\* apply_action_observed and the phase patch of apply_action_updated
ActionObserved(c, a, t) ==
  [c EXCEPT !.actions[a] = [phase |-> "running", turn |-> t],
            !.turns[t] = Moved(@, "acting")]

ActionUpdated(c, a, phase) == [c EXCEPT !.actions[a].phase = phase]

\* apply_elicitation_opened
ElicitationOpened(c, e, t, a) ==
  [c EXCEPT !.actions = [b \in Items |-> IF b = a
                           THEN [@[b] EXCEPT !.phase = "awaiting_decision"] ELSE @[b]],
            !.turns[t] = Moved(@, "awaiting_user"),
            !.elicitations[e] = [phase |-> "open", turn |-> t, item |-> a],
            !.lifecycle = "active"]

\* apply_elicitation_resolved: the Codex adapter passes the decision on as Raw,
\* for which the action runs on, whatever was decided.
ElicitationResolved(c, e) ==
  LET elicitation == c.elicitations[e]
  IN [c EXCEPT !.elicitations[e].phase = "resolved",
               !.actions = [a \in Items |->
                  IF a = elicitation.item /\ @[a] # Absent
                  THEN [@[a] EXCEPT !.phase = "running"] ELSE @[a]],
               !.turns[elicitation.turn] = Moved(@, "reasoning")]

\* ConversationStatusChanged
StatusChanged(c, lifecycle) == [c EXCEPT !.lifecycle = lifecycle]
=============================================================================
