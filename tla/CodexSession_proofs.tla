-------------------------- MODULE CodexSession_proofs --------------------------
(***************************************************************************)
(* Theorems about CodexSession, for any turns, items and server requests:  *)
(* every safety property of the module.                                    *)
(***************************************************************************)
EXTENDS CodexSession, FiniteSetTheorems, TLAPS

\* Nothing of a turn that is over runs or is open in the conversation c.
SettledIn(c) ==
  \A t \in Turns : (c.turns[t] # Absent /\ IsTerminal(c.turns[t])) =>
    /\ \A a \in Items : c.actions[a] # Absent /\ c.actions[a].turn = t =>
         c.actions[a].phase \in {"completed", "cancelled"}
    /\ \A e \in Requests : c.elicitations[e] # Absent /\ c.elicitations[e].turn = t =>
         c.elicitations[e].phase \in {"resolved", "cancelled"}

\* The engine's end: what is active is the live turns, one at most and in focus; what is
\* over is settled; and an open request is of a turn, and of an item of that turn.
ConvOK(c) ==
  /\ c \in ConversationState
  /\ c.active = {t \in Turns : IsLive(c, t)}
  /\ \A t, u \in c.active : t = u
  /\ c.active # {} => c.focused \in c.active
  /\ SettledIn(c)
  /\ \A e \in Requests : c.elicitations[e] # Absent =>
       /\ c.turns[c.elicitations[e].turn] # Absent
       /\ c.elicitations[e].item # NoItem =>
            /\ c.actions[c.elicitations[e].item] # Absent
            /\ c.actions[c.elicitations[e].item].turn = c.elicitations[e].turn

\* The lines that are about a turn, an item of one, or the end of one.
TurnLine(line) ==
  line.type \in {"start response", "start error", "turn/started", "turn/completed",
                 "item/started", "item/completed", "requestApproval",
                 "serverRequest/resolved"}
ItemLine(line) == line.type \in {"item/started", "item/completed", "requestApproval"}
EndLine(line) == line.type \in {"start error", "turn/completed"}

\* While a message is under way the session has a turn, and its turn is active.
SessionOK ==
  /\ desktop \in {"polling", "waiting", "cancelling", "draining"} => activeTurn.turn # NoTurn
  /\ activeTurn.turn # NoTurn => activeTurn.turn \in conv.active
  /\ alive /\ ~ early /\ desktop \in {"idle", "starting"} => HasNoTurn

\* A turn/start on its way is of the turn of the session, the only one, and the agent
\* rests and has written nothing about a turn that is not read yet.
StartOK(i) ==
  /\ toAgent[i].turn = activeTurn.turn
  /\ agent.turn = NoTurn
  /\ \A j \in 1 .. Len(toClient) : ~ TurnLine(toClient[j])
  /\ \A j \in 1 .. Len(toAgent) : toAgent[j].type = "turn/start" => j = i

\* A line about a turn that is not read yet is about the turn of the session, and the
\* end of the turn is the last such line, with the agent at rest.
LineOK(i) ==
  /\ activeTurn.turn # NoTurn
  /\ toClient[i].type # "serverRequest/resolved" => toClient[i].turn = activeTurn.turn
  /\ EndLine(toClient[i]) =>
       agent.turn = NoTurn /\ \A j \in 1 .. Len(toClient) : TurnLine(toClient[j]) => j <= i

\* So the agent works on the turn of the session or rests.
TurnOK ==
  /\ agent.turn # NoTurn => agent.turn = activeTurn.turn
  /\ agent.turn = NoTurn => agent = Resting /\ asks = {}
  /\ ~ alive => agent = Resting /\ toAgent = <<>>
  /\ \A i \in 1 .. Len(toAgent) : toAgent[i].type = "turn/start" => StartOK(i)
  /\ \A i \in 1 .. Len(toClient) : TurnLine(toClient[i]) => LineOK(i)

\* An item the agent has not begun is not an action yet; one that runs, or that a line
\* is about, is of the turn.
ItemsOK ==
  /\ \A a \in Items :
       /\ items[a] = "new" => conv.actions[a] = Absent
       /\ alive /\ items[a] = "running" =>
            /\ agent.turn # NoTurn
            /\ conv.actions[a] # Absent => conv.actions[a].turn = agent.turn
  /\ \A i \in 1 .. Len(toClient) : ItemLine(toClient[i]) /\ toClient[i].item # NoItem =>
       /\ items[toClient[i].item] # "new"
       /\ conv.actions[toClient[i].item] # Absent =>
            conv.actions[toClient[i].item].turn = toClient[i].turn

\* A request that is new or open has had no answer; one the agent still asks is of its
\* turn; and the line that asks it comes once.
RequestsOK ==
  /\ \A e \in Requests :
       /\ answers[e] <= 1
       /\ conv.elicitations[e].phase \in {"absent", "open"} => answers[e] = 0
       /\ e \in asks /\ conv.elicitations[e] # Absent =>
            conv.elicitations[e].turn = agent.turn
  /\ \A i \in 1 .. Len(toClient) : toClient[i].type = "requestApproval" =>
       /\ conv.elicitations[toClient[i].request] = Absent
       /\ \A j \in 1 .. Len(toClient) :
            toClient[j].type = "requestApproval" /\ toClient[j].request = toClient[i].request
              => j = i
  /\ \A i \in 1 .. Len(toClient) :
       /\ toClient[i].type = "serverRequest/resolved"
       /\ conv.elicitations[toClient[i].request] # Absent
       => conv.elicitations[toClient[i].request].turn = activeTurn.turn

\* What the session shows is what is open.
ShownOK ==
  /\ OpenRequests(conv) = {activeTurn.request} \ {NoRequest}
  /\ activeTurn.turn = NoTurn => activeTurn.request = NoRequest
  /\ desktop = "waiting" => activeTurn.request # NoRequest
  /\ desktop = "polling" => activeTurn.request = NoRequest
  /\ activeTurn.turn # NoTurn /\ conv.turns[activeTurn.turn].phase = "awaiting_user" =>
       activeTurn.request # NoRequest

\* The inductive invariant.
IInv ==
  /\ TypeOK /\ IsFiniteSet(asks)
  /\ ConvOK(conv)
  /\ SessionOK /\ TurnOK /\ ItemsOK /\ RequestsOK /\ ShownOK /\ PendingIsInFlight
-----------------------------------------------------------------------------
(* The conversation: what each function of the reducer keeps.              *)

\* Frames: d has the actions and elicitations of c, of the same turns, and opens none.
KeepsActions(c, d) ==
  \A a \in Items : /\ d.actions[a] = Absent <=> c.actions[a] = Absent
                   /\ c.actions[a] # Absent => d.actions[a].turn = c.actions[a].turn
KeepsRequests(c, d) ==
  \A e \in Requests : /\ d.elicitations[e] = Absent <=> c.elicitations[e] = Absent
                      /\ c.elicitations[e] # Absent =>
                           d.elicitations[e].turn = c.elicitations[e].turn
                      /\ d.elicitations[e].phase \in {"open", "absent"} =>
                           d.elicitations[e] = c.elicitations[e]

\* The fields of a conversation.
LEMMA ConvFields ==
  ASSUME NEW c \in ConversationState
  PROVE  /\ c.lifecycle \in Lifecycle /\ c.active \subseteq Turns
         /\ c.focused \in Turns \cup {NoTurn}
         /\ c.turns \in [Turns -> TurnState \cup {Absent}]
         /\ c.actions \in [Items -> ActionState \cup {Absent}]
         /\ c.elicitations \in [Requests -> ElicitationState \cup {Absent}]
  BY DEF ConversationState

\* What is absent has the phase "absent".
LEMMA AbsentPhase ==
  /\ Absent.phase = "absent"
  /\ \A x \in TurnState \cup {Absent} : x # Absent <=> x.phase # "absent"
  /\ \A x \in TurnState \cup {Absent} : x # Absent <=> x \in TurnState
  /\ \A x \in ActionState \cup {Absent} : x # Absent <=> x.phase # "absent"
  /\ \A x \in ActionState \cup {Absent} : x # Absent <=> x \in ActionState
  /\ \A x \in ElicitationState \cup {Absent} : x # Absent <=> x.phase # "absent"
  /\ \A x \in ElicitationState \cup {Absent} : x # Absent <=> x \in ElicitationState
  BY DEF Absent, TurnState, TurnPhase, ActionState, ActionPhase, ElicitationState

\* A live turn is one of the active ones, and the only one.
LEMMA ActiveTurn1 ==
  ASSUME NEW c, ConvOK(c), NEW t \in c.active
  PROVE  /\ t \in Turns /\ c.active = {t} /\ c.focused = t
         /\ c.turns[t] \in TurnState /\ c.turns[t].phase # "terminal"
         /\ \A u \in Turns : u # t => c.turns[u] = Absent \/ c.turns[u].phase = "terminal"
<1>1. c \in ConversationState
  BY DEF ConvOK
<1> QED
  BY <1>1, ConvFields, AbsentPhase DEF ConvOK, IsLive, IsTerminal

\* A turn is planned when no turn is active.
LEMMA TurnPlannedOK ==
  ASSUME NEW c, ConvOK(c), c.active = {}, NEW t \in Turns, c.turns[t] = Absent
  PROVE  /\ ConvOK(TurnPlanned(c, t)) /\ TurnPlanned(c, t).active = {t}
         /\ TurnPlanned(c, t).turns[t].phase = "starting"
         /\ KeepsActions(c, TurnPlanned(c, t)) /\ KeepsRequests(c, TurnPlanned(c, t))
<1> DEFINE d == TurnPlanned(c, t)
<1>1. c \in ConversationState
  BY DEF ConvOK
<1>2. /\ d.turns = [c.turns EXCEPT ![t] = [phase |-> "starting", remote |-> "pending"]]
      /\ d.active = {t} /\ d.focused = t /\ d.lifecycle = "active"
      /\ d.actions = c.actions /\ d.elicitations = c.elicitations
  BY <1>1 DEF TurnPlanned, ConversationState
<1>3. [phase |-> "starting", remote |-> "pending"] \in TurnState
  BY DEF TurnState, TurnPhase
<1>4. d \in ConversationState
  <2>1. d.turns \in [Turns -> TurnState \cup {Absent}]
    BY <1>1, <1>2, <1>3, ConvFields
  <2> QED
    BY <1>1, <1>2, <2>1, ConvFields DEF TurnPlanned, ConversationState, Lifecycle
<1>5. \A u \in Turns : u # t => d.turns[u] = c.turns[u]
  BY <1>1, <1>2, ConvFields
<1>6. d.turns[t] = [phase |-> "starting", remote |-> "pending"] /\ d.turns[t] # Absent
  BY <1>1, <1>2, <1>3, ConvFields, AbsentPhase
<1>7. \A u \in Turns : IsLive(c, u) => FALSE
  BY DEF ConvOK
<1>8. d.active = {u \in Turns : IsLive(d, u)}
  BY <1>2, <1>5, <1>6, <1>7 DEF IsLive, IsTerminal
<1>9. SettledIn(d)
  BY <1>2, <1>5, <1>6 DEF ConvOK, SettledIn, IsTerminal
<1>10. \A e \in Requests : c.elicitations[e] # Absent => c.elicitations[e].turn \in Turns
  BY <1>1, ConvFields, AbsentPhase DEF ElicitationState
<1>11. ConvOK(d)
  BY <1>2, <1>4, <1>5, <1>6, <1>8, <1>9, <1>10 DEF ConvOK
<1> QED
  BY <1>2, <1>6, <1>11 DEF KeepsActions, KeepsRequests
\* A live turn that moves to another phase.
LEMMA MovedTurn ==
  ASSUME NEW x \in TurnState, x.phase # "terminal", NEW p \in TurnPhase
  PROVE  Moved(x, p) = [phase |-> p, remote |-> x.remote] /\ Moved(x, p) \in TurnState
<1>1. Moved(x, p) = [x EXCEPT !.phase = p]
  BY DEF Moved, IsTerminal
<1> QED
  BY <1>1 DEF TurnState

\* The cancellation of an active turn.
LEMMA CancelPlannedOK ==
  ASSUME NEW c, ConvOK(c), NEW t \in c.active
  PROVE  /\ ConvOK(CancelPlanned(c, t)) /\ CancelPlanned(c, t).active = c.active
         /\ CancelPlanned(c, t).turns[t].phase = "cancelling"
         /\ CancelPlanned(c, t).actions = c.actions
         /\ CancelPlanned(c, t).elicitations = c.elicitations
<1> DEFINE d == CancelPlanned(c, t)
<1>1. c \in ConversationState /\ t \in Turns /\ c.turns[t] \in TurnState
  BY ActiveTurn1 DEF ConvOK
<1>2. /\ d.turns = [c.turns EXCEPT ![t] = [@ EXCEPT !.phase = "cancelling"]]
      /\ d.active = c.active /\ d.focused = c.focused /\ d.lifecycle = "cancelling"
      /\ d.actions = c.actions /\ d.elicitations = c.elicitations
  BY <1>1 DEF CancelPlanned, ConversationState
<1>3. d.turns[t] = [c.turns[t] EXCEPT !.phase = "cancelling"] /\ d.turns[t] \in TurnState
  BY <1>1, <1>2, ConvFields DEF TurnState, TurnPhase
<1>4. \A u \in Turns : u # t => d.turns[u] = c.turns[u]
  BY <1>1, <1>2, ConvFields
<1>5. d.turns[t] # Absent /\ d.turns[t].phase = "cancelling"
  BY <1>1, <1>3, AbsentPhase DEF TurnState
<1>6. d \in ConversationState
  <2>1. d.turns \in [Turns -> TurnState \cup {Absent}]
    BY <1>1, <1>2, <1>3, ConvFields
  <2> QED
    BY <1>1, <1>2, <2>1, ConvFields DEF CancelPlanned, ConversationState, Lifecycle
<1>7. d.active = {u \in Turns : IsLive(d, u)}
  <2>1. IsLive(c, t) /\ IsLive(d, t)
    BY <1>5 DEF ConvOK, IsLive, IsTerminal
  <2> QED
    BY <1>1, <1>2, <1>4, <2>1 DEF ConvOK, IsLive
<1>8. SettledIn(d)
  BY <1>2, <1>4, <1>5 DEF ConvOK, SettledIn, IsTerminal
<1>9. \A e \in Requests : c.elicitations[e] # Absent => c.elicitations[e].turn \in Turns
  BY <1>1, ConvFields, AbsentPhase DEF ElicitationState
<1>10. ConvOK(d)
  BY <1>2, <1>4, <1>5, <1>6, <1>7, <1>8, <1>9 DEF ConvOK
<1> QED
  BY <1>2, <1>5, <1>10

\* A turn that is active is reported to have started.
LEMMA TurnStartedOK ==
  ASSUME NEW c, ConvOK(c), NEW t \in c.active
  PROVE  /\ ConvOK(TurnStarted(c, t)) /\ TurnStarted(c, t).active = c.active
         /\ TurnStarted(c, t).turns[t].phase = "starting"
         /\ TurnStarted(c, t).actions = c.actions
         /\ TurnStarted(c, t).elicitations = c.elicitations
<1> DEFINE d == TurnStarted(c, t)
<1>1. /\ c \in ConversationState /\ t \in Turns /\ c.turns[t] \in TurnState
      /\ c.turns[t].phase # "terminal" /\ c.active = {t}
  BY ActiveTurn1 DEF ConvOK
<1>2. c.turns[t] # Absent /\ ~ IsTerminal(c.turns[t])
  BY <1>1, AbsentPhase DEF IsTerminal
<1>3. /\ d.turns = [c.turns EXCEPT ![t] = [phase |-> "starting", remote |-> "known"]]
      /\ d.active = c.active /\ d.focused = t /\ d.lifecycle = "active"
      /\ d.actions = c.actions /\ d.elicitations = c.elicitations
  <2>1. [Moved(c.turns[t], "starting") EXCEPT !.remote = "known"]
          = [phase |-> "starting", remote |-> "known"]
    BY <1>1, MovedTurn DEF TurnPhase, TurnState
  <2> QED
    BY <1>1, <1>2, <2>1 DEF TurnStarted, ConversationState
<1>4. [phase |-> "starting", remote |-> "known"] \in TurnState
  BY DEF TurnState, TurnPhase
<1>5. d.turns[t] = [phase |-> "starting", remote |-> "known"] /\ d.turns[t] # Absent
  BY <1>1, <1>3, <1>4, ConvFields, AbsentPhase
<1>6. \A u \in Turns : u # t => d.turns[u] = c.turns[u]
  BY <1>1, <1>3, ConvFields
<1>7. d \in ConversationState
  <2>1. d.turns \in [Turns -> TurnState \cup {Absent}]
    BY <1>1, <1>3, <1>4, ConvFields
  <2> QED
    BY <1>1, <1>3, <2>1, ConvFields DEF TurnStarted, ConversationState, Lifecycle
<1>8. d.active = {u \in Turns : IsLive(d, u)}
  <2>1. IsLive(c, t) /\ IsLive(d, t)
    BY <1>2, <1>5 DEF IsLive, IsTerminal
  <2> QED
    BY <1>1, <1>3, <1>6, <2>1 DEF ConvOK, IsLive
<1>9. SettledIn(d)
  BY <1>3, <1>5, <1>6 DEF ConvOK, SettledIn, IsTerminal
<1>10. \A e \in Requests : c.elicitations[e] # Absent => c.elicitations[e].turn \in Turns
  BY <1>1, ConvFields, AbsentPhase DEF ElicitationState
<1>11. ConvOK(d)
  BY <1>1, <1>3, <1>5, <1>6, <1>7, <1>8, <1>9, <1>10 DEF ConvOK
<1> QED
  BY <1>3, <1>5, <1>11

\* The end of the active turn settles what belongs to it, and no other is active.
LEMMA TurnTerminalOK ==
  ASSUME NEW c, ConvOK(c), NEW t \in c.active
  PROVE  /\ ConvOK(TurnTerminal(c, t)) /\ TurnTerminal(c, t).active = {}
         /\ IsTerminal(TurnTerminal(c, t).turns[t])
         /\ KeepsActions(c, TurnTerminal(c, t)) /\ KeepsRequests(c, TurnTerminal(c, t))
         /\ OpenRequests(TurnTerminal(c, t)) = {}
<1> DEFINE d == TurnTerminal(c, t)
<1>1. /\ c \in ConversationState /\ t \in Turns /\ c.turns[t] \in TurnState
      /\ c.turns[t].phase # "terminal" /\ c.active = {t} /\ c.focused = t
      /\ \A u \in Turns : u # t => c.turns[u] = Absent \/ c.turns[u].phase = "terminal"
  BY ActiveTurn1 DEF ConvOK
<1>2. /\ d.turns = [c.turns EXCEPT ![t] = [@ EXCEPT !.phase = "terminal"]]
      /\ d.active = {} /\ d.focused = NoTurn /\ d.lifecycle = "idle"
      /\ d.actions = [a \in Items |-> Settled(c.actions[a], t)]
      /\ d.elicitations = [e \in Requests |-> Withdrawn(c.elicitations[e], t)]
  BY <1>1 DEF TurnTerminal, ConversationState, Last
<1>3. d.turns[t] = [c.turns[t] EXCEPT !.phase = "terminal"] /\ d.turns[t] \in TurnState
  BY <1>1, <1>2, ConvFields DEF TurnState, TurnPhase
<1>4. \A u \in Turns : u # t => d.turns[u] = c.turns[u]
  BY <1>1, <1>2, ConvFields
<1>5. d.turns[t] # Absent /\ IsTerminal(d.turns[t])
  BY <1>1, <1>3, AbsentPhase DEF TurnState, IsTerminal
<1>6. ASSUME NEW a \in Items
      PROVE  /\ d.actions[a] \in ActionState \cup {Absent}
             /\ d.actions[a] = Absent <=> c.actions[a] = Absent
             /\ c.actions[a] # Absent => d.actions[a].turn = c.actions[a].turn
             /\ c.actions[a] # Absent /\ c.actions[a].turn = t =>
                  d.actions[a].phase \in {"completed", "cancelled"}
             /\ c.actions[a] # Absent /\ c.actions[a].turn # t => d.actions[a] = c.actions[a]
  <2>1. c.actions[a] \in ActionState \cup {Absent} /\ d.actions[a] = Settled(c.actions[a], t)
    BY <1>1, <1>2, ConvFields
  <2>2. CASE c.actions[a] = Absent
    BY <2>1, <2>2 DEF Settled
  <2>3. CASE c.actions[a] # Absent
    <3>1. c.actions[a] \in ActionState
      BY <2>1, <2>3
    <3>2. /\ Settled(c.actions[a], t) \in ActionState
          /\ Settled(c.actions[a], t).turn = c.actions[a].turn
          /\ c.actions[a].turn = t =>
               Settled(c.actions[a], t).phase \in {"completed", "cancelled"}
          /\ c.actions[a].turn # t => Settled(c.actions[a], t) = c.actions[a]
      BY <2>3, <3>1 DEF Settled, ActionState, ActionPhase
    <3>3. Settled(c.actions[a], t) # Absent
      BY <3>2, AbsentPhase
    <3> QED
      BY <2>1, <2>3, <3>2, <3>3
  <2> QED
    BY <2>2, <2>3
<1>7. ASSUME NEW e \in Requests
      PROVE  /\ d.elicitations[e] \in ElicitationState \cup {Absent}
             /\ d.elicitations[e] = Absent <=> c.elicitations[e] = Absent
             /\ c.elicitations[e] # Absent =>
                  /\ d.elicitations[e].turn = c.elicitations[e].turn
                  /\ d.elicitations[e].item = c.elicitations[e].item
             /\ c.elicitations[e] # Absent /\ c.elicitations[e].turn = t =>
                  d.elicitations[e].phase \in {"resolved", "cancelled"}
             /\ c.elicitations[e] # Absent /\ c.elicitations[e].turn # t =>
                  d.elicitations[e] = c.elicitations[e]
  <2>1. /\ c.elicitations[e] \in ElicitationState \cup {Absent}
        /\ d.elicitations[e] = Withdrawn(c.elicitations[e], t)
    BY <1>1, <1>2, ConvFields
  <2>2. CASE c.elicitations[e] = Absent
    BY <2>1, <2>2 DEF Withdrawn
  <2>3. CASE c.elicitations[e] # Absent
    <3> DEFINE x == c.elicitations[e]
    <3>1. x \in ElicitationState
      BY <2>1, <2>3
    <3> HIDE DEF x
    <3>2. x # Absent
      BY <2>3 DEF x
    <3>3. /\ Withdrawn(x, t) \in ElicitationState
          /\ Withdrawn(x, t).turn = x.turn /\ Withdrawn(x, t).item = x.item
          /\ x.turn = t => Withdrawn(x, t).phase \in {"resolved", "cancelled"}
          /\ x.turn # t => Withdrawn(x, t) = x
      BY <3>1, <3>2 DEF Withdrawn, ElicitationState
    <3>4. Withdrawn(x, t) # Absent
      BY <3>3, AbsentPhase
    <3> QED
      BY <2>1, <2>3, <3>3, <3>4 DEF x
  <2> QED
    BY <2>2, <2>3
<1>8. d \in ConversationState
  <2>1. d.turns \in [Turns -> TurnState \cup {Absent}]
    BY <1>1, <1>2, <1>3, ConvFields
  <2>2. d.actions \in [Items -> ActionState \cup {Absent}]
    BY <1>2, <1>6
  <2>3. d.elicitations \in [Requests -> ElicitationState \cup {Absent}]
    BY <1>2, <1>7
  <2> QED
    BY <1>1, <1>2, <2>1, <2>2, <2>3, ConvFields DEF TurnTerminal, ConversationState, Lifecycle
<1> HIDE DEF d
<1>9. d.active = {u \in Turns : IsLive(d, u)}
  BY <1>1, <1>2, <1>4, <1>5 DEF IsLive, IsTerminal
<1>10. SettledIn(d)
  <2>1. ASSUME NEW u \in Turns, d.turns[u] # Absent, IsTerminal(d.turns[u]), u # t
        PROVE  /\ \A a \in Items : c.actions[a] # Absent /\ c.actions[a].turn = u =>
                    c.actions[a].phase \in {"completed", "cancelled"}
               /\ \A e \in Requests : c.elicitations[e] # Absent /\ c.elicitations[e].turn = u =>
                    c.elicitations[e].phase \in {"resolved", "cancelled"}
    BY <1>4, <2>1 DEF ConvOK, SettledIn
  <2> QED
    BY <1>6, <1>7, <2>1 DEF SettledIn
<1>11. \A e \in Requests : c.elicitations[e] # Absent =>
          c.elicitations[e].turn \in Turns /\ c.elicitations[e].item \in Items \cup {NoItem}
  BY <1>1, ConvFields, AbsentPhase DEF ElicitationState
<1>12. ASSUME NEW e \in Requests, d.elicitations[e] # Absent
       PROVE  /\ d.turns[d.elicitations[e].turn] # Absent
              /\ d.elicitations[e].item # NoItem =>
                   /\ d.actions[d.elicitations[e].item] # Absent
                   /\ d.actions[d.elicitations[e].item].turn = d.elicitations[e].turn
  <2> DEFINE u == c.elicitations[e].turn
             a == c.elicitations[e].item
  <2>1. c.elicitations[e] # Absent /\ d.elicitations[e].turn = u /\ d.elicitations[e].item = a
    BY <1>7, <1>12
  <2>2. u \in Turns /\ a \in Items \cup {NoItem}
    BY <1>11, <2>1
  <2>3. c.turns[u] # Absent /\ (a # NoItem => c.actions[a] # Absent /\ c.actions[a].turn = u)
    BY <2>1 DEF ConvOK
  <2> HIDE DEF u, a
  <2>4. d.turns[u] # Absent
    BY <1>4, <1>5, <2>2, <2>3
  <2>5. a # NoItem => d.actions[a] # Absent /\ d.actions[a].turn = u
    BY <1>6, <2>2, <2>3
  <2> QED
    BY <2>1, <2>4, <2>5
<1>13. ConvOK(d)
  BY <1>2, <1>8, <1>9, <1>10, <1>12 DEF ConvOK
<1>14. KeepsActions(c, d)
  BY <1>6 DEF KeepsActions
<1>15. \A e \in Requests : c.elicitations[e].phase = "open" => c.elicitations[e].turn = t
  <2> SUFFICES ASSUME NEW e \in Requests, c.elicitations[e].phase = "open",
                      c.elicitations[e].turn # t
               PROVE  FALSE
    OBVIOUS
  <2> DEFINE u == c.elicitations[e].turn
  <2>1. c.elicitations[e] # Absent
    BY AbsentPhase
  <2>2. u \in Turns /\ c.turns[u] # Absent
    BY <1>11, <2>1 DEF ConvOK
  <2>3. IsTerminal(c.turns[u])
    BY <1>1, <2>2 DEF IsTerminal
  <2> QED
    BY <2>1, <2>2, <2>3 DEF ConvOK, SettledIn
<1>16. \A e \in Requests : d.elicitations[e].phase # "open"
  BY <1>7, <1>15, AbsentPhase
<1>17. KeepsRequests(c, d)
  BY <1>1, <1>7, <1>16, ConvFields, AbsentPhase DEF KeepsRequests
<1>18. OpenRequests(d) = {}
  BY <1>16 DEF OpenRequests
<1> QED
  BY <1>2, <1>5, <1>13, <1>14, <1>17, <1>18 DEF d
\* What an active turn does, whatever it does to what belongs to it, keeps the
\* conversation in order.
LEMMA TurnWorks ==
  ASSUME NEW c, ConvOK(c), NEW t \in c.active, NEW d \in ConversationState,
         d.active = c.active, d.focused = c.focused,
         \A u \in Turns : \/ d.turns[u] = c.turns[u]
                          \/ u = t /\ d.turns[u] \in TurnState /\ ~ IsTerminal(d.turns[u]),
         \A a \in Items : \/ d.actions[a] = c.actions[a]
                          \/ /\ d.actions[a] \in ActionState /\ d.actions[a].turn = t
                             /\ c.actions[a] # Absent => c.actions[a].turn = t,
         \A e \in Requests : \/ d.elicitations[e] = c.elicitations[e]
                             \/ /\ d.elicitations[e] \in ElicitationState
                                /\ d.elicitations[e].turn = t
                                /\ d.elicitations[e].item # NoItem =>
                                     /\ d.actions[d.elicitations[e].item] # Absent
                                     /\ d.actions[d.elicitations[e].item].turn = t
  PROVE  ConvOK(d)
<1>1. /\ c \in ConversationState /\ t \in Turns /\ c.turns[t] \in TurnState
      /\ c.turns[t].phase # "terminal" /\ c.active = {t} /\ c.focused = t
  BY ActiveTurn1 DEF ConvOK
<1>2. /\ \A u \in Turns : d.turns[u] = Absent <=> c.turns[u] = Absent
      /\ \A u \in Turns : u # t => d.turns[u] = c.turns[u]
      /\ d.turns[t] # Absent /\ ~ IsTerminal(d.turns[t])
  BY <1>1, AbsentPhase DEF IsTerminal
<1>3. d.active = {u \in Turns : IsLive(d, u)}
  <2>1. IsLive(c, t) /\ IsLive(d, t)
    BY <1>1, <1>2, AbsentPhase DEF IsLive, IsTerminal
  <2> QED
    BY <1>1, <1>2, <2>1 DEF ConvOK, IsLive
<1>4. SettledIn(d)
  <2> SUFFICES ASSUME NEW u \in Turns, d.turns[u] # Absent, IsTerminal(d.turns[u])
               PROVE  /\ \A a \in Items : d.actions[a] # Absent /\ d.actions[a].turn = u =>
                           d.actions[a].phase \in {"completed", "cancelled"}
                      /\ \A e \in Requests :
                           d.elicitations[e] # Absent /\ d.elicitations[e].turn = u =>
                             d.elicitations[e].phase \in {"resolved", "cancelled"}
    BY DEF SettledIn
  <2>1. u # t /\ c.turns[u] # Absent /\ IsTerminal(c.turns[u])
    BY <1>2
  <2> QED
    BY <2>1 DEF ConvOK, SettledIn
<1>5. ASSUME NEW e \in Requests, d.elicitations[e] # Absent
      PROVE  /\ d.turns[d.elicitations[e].turn] # Absent
             /\ d.elicitations[e].item # NoItem =>
                  /\ d.actions[d.elicitations[e].item] # Absent
                  /\ d.actions[d.elicitations[e].item].turn = d.elicitations[e].turn
  <2>1. CASE d.elicitations[e] # c.elicitations[e]
    BY <1>2, <2>1
  <2>2. CASE d.elicitations[e] = c.elicitations[e]
    <3> DEFINE u == c.elicitations[e].turn
               a == c.elicitations[e].item
    <3>1. c.elicitations[e] # Absent
      BY <1>5, <2>2
    <3>2. u \in Turns /\ a \in Items \cup {NoItem}
      BY <1>1, <3>1, ConvFields, AbsentPhase DEF ElicitationState
    <3>3. c.turns[u] # Absent /\ (a # NoItem => c.actions[a] # Absent /\ c.actions[a].turn = u)
      BY <3>1 DEF ConvOK
    <3> HIDE DEF u, a
    <3>4. a # NoItem => d.actions[a] # Absent /\ d.actions[a].turn = u
      BY <3>2, <3>3, AbsentPhase
    <3> QED
      BY <1>2, <2>2, <3>2, <3>3, <3>4 DEF u, a
  <2> QED
    BY <2>1, <2>2
<1> QED
  BY <1>1, <1>3, <1>4, <1>5 DEF ConvOK

\* The active turn when it moves to another phase.
LEMMA TurnMoves ==
  ASSUME NEW c, ConvOK(c), NEW t \in c.active, NEW p \in TurnPhase, p # "terminal"
  PROVE  /\ Moved(c.turns[t], p) \in TurnState /\ Moved(c.turns[t], p).phase = p
         /\ ~ IsTerminal(Moved(c.turns[t], p))
<1>1. c.turns[t] \in TurnState /\ c.turns[t].phase # "terminal"
  BY ActiveTurn1
<1>2. Moved(c.turns[t], p) = [phase |-> p, remote |-> c.turns[t].remote]
  BY <1>1, MovedTurn
<1> QED
  BY <1>1, <1>2, MovedTurn DEF IsTerminal

\* A new action of the active turn.
LEMMA ActionObservedOK ==
  ASSUME NEW c, ConvOK(c), NEW t \in c.active, NEW a \in Items, c.actions[a] = Absent
  PROVE  /\ ConvOK(ActionObserved(c, a, t)) /\ ActionObserved(c, a, t).active = c.active
         /\ ActionObserved(c, a, t).elicitations = c.elicitations
         /\ ActionObserved(c, a, t).actions[a] = [phase |-> "running", turn |-> t]
         /\ ActionObserved(c, a, t).actions[a] # Absent
         /\ \A b \in Items : b # a => ActionObserved(c, a, t).actions[b] = c.actions[b]
         /\ ActionObserved(c, a, t).turns[t].phase = "acting"
<1> DEFINE d == ActionObserved(c, a, t)
           x == [phase |-> "running", turn |-> t]
<1>1. c \in ConversationState /\ t \in Turns
  BY ActiveTurn1 DEF ConvOK
<1>2. /\ d.turns = [c.turns EXCEPT ![t] = Moved(@, "acting")]
      /\ d.active = c.active /\ d.focused = c.focused /\ d.lifecycle = c.lifecycle
      /\ d.actions = [c.actions EXCEPT ![a] = x]
      /\ d.elicitations = c.elicitations
  BY <1>1 DEF ActionObserved, ConversationState
<1>3. /\ d.turns \in [Turns -> TurnState \cup {Absent}]
      /\ d.turns[t] \in TurnState /\ d.turns[t].phase = "acting" /\ ~ IsTerminal(d.turns[t])
      /\ \A u \in Turns : u # t => d.turns[u] = c.turns[u]
  <2> DEFINE y == Moved(c.turns[t], "acting")
  <2>1. y \in TurnState /\ y.phase = "acting" /\ ~ IsTerminal(y)
    BY TurnMoves DEF TurnPhase
  <2> HIDE DEF y
  <2>2. d.turns = [c.turns EXCEPT ![t] = y]
    BY <1>2 DEF y
  <2> HIDE DEF d
  <2> QED
    BY <1>1, <2>1, <2>2, ConvFields
<1>4. x \in ActionState
  BY <1>1 DEF ActionState, ActionPhase
<1>5. /\ d.actions \in [Items -> ActionState \cup {Absent}]
      /\ d.actions[a] = x
      /\ \A b \in Items : b # a => d.actions[b] = c.actions[b]
  BY <1>1, <1>2, <1>4, ConvFields
<1>6. d \in ConversationState
  BY <1>1, <1>2, <1>3, <1>5, ConvFields DEF ActionObserved, ConversationState
<1> HIDE DEF d
<1>7. \A b \in Items : \/ d.actions[b] = c.actions[b]
                       \/ /\ d.actions[b] \in ActionState /\ d.actions[b].turn = t
                          /\ c.actions[b] # Absent => c.actions[b].turn = t
  BY <1>4, <1>5
<1>8. \A u \in Turns : \/ d.turns[u] = c.turns[u]
                       \/ u = t /\ d.turns[u] \in TurnState /\ ~ IsTerminal(d.turns[u])
  BY <1>3
<1>9. \A e \in Requests : d.elicitations[e] = c.elicitations[e]
  BY <1>2
<1>10. ConvOK(d)
  BY <1>2, <1>6, <1>7, <1>8, <1>9, TurnWorks
<1> QED
  BY <1>2, <1>3, <1>4, <1>5, <1>10, AbsentPhase DEF d

\* An action of the active turn ends.
LEMMA ActionUpdatedOK ==
  ASSUME NEW c, ConvOK(c), NEW t \in c.active, NEW a \in Items, c.actions[a] # Absent,
         c.actions[a].turn = t
  PROVE  /\ ConvOK(ActionUpdated(c, a, "completed"))
         /\ ActionUpdated(c, a, "completed").active = c.active
         /\ ActionUpdated(c, a, "completed").elicitations = c.elicitations
         /\ ActionUpdated(c, a, "completed").turns = c.turns
         /\ KeepsActions(c, ActionUpdated(c, a, "completed"))
<1> DEFINE d == ActionUpdated(c, a, "completed")
<1>1. c \in ConversationState /\ t \in Turns /\ c.actions[a] \in ActionState
  BY ActiveTurn1, ConvFields DEF ConvOK
<1>2. /\ d.turns = c.turns /\ d.active = c.active /\ d.focused = c.focused
      /\ d.lifecycle = c.lifecycle
      /\ d.actions = [c.actions EXCEPT ![a] = [@ EXCEPT !.phase = "completed"]]
      /\ d.elicitations = c.elicitations
  BY <1>1 DEF ActionUpdated, ConversationState
<1>3. /\ [c.actions[a] EXCEPT !.phase = "completed"] \in ActionState
      /\ [c.actions[a] EXCEPT !.phase = "completed"].turn = t
  BY <1>1 DEF ActionState, ActionPhase
<1>4. /\ d.actions \in [Items -> ActionState \cup {Absent}]
      /\ d.actions[a] \in ActionState /\ d.actions[a].turn = t
      /\ \A b \in Items : b # a => d.actions[b] = c.actions[b]
  BY <1>1, <1>2, <1>3, ConvFields
<1>5. d \in ConversationState
  BY <1>1, <1>2, <1>4, ConvFields DEF ActionUpdated, ConversationState
<1> HIDE DEF d
<1>6. \A b \in Items : \/ d.actions[b] = c.actions[b]
                       \/ /\ d.actions[b] \in ActionState /\ d.actions[b].turn = t
                          /\ c.actions[b] # Absent => c.actions[b].turn = t
  BY <1>4
<1>7. \A e \in Requests : d.elicitations[e] = c.elicitations[e]
  BY <1>2
<1>8. \A u \in Turns : d.turns[u] = c.turns[u]
  BY <1>2
<1>9. ConvOK(d)
  BY <1>2, <1>5, <1>6, <1>7, <1>8, TurnWorks
<1>10. KeepsActions(c, d)
  BY <1>4, AbsentPhase DEF KeepsActions
<1> QED
  BY <1>2, <1>9, <1>10 DEF d

\* A new request of the active turn.
LEMMA ElicitationOpenedOK ==
  ASSUME NEW c, ConvOK(c), NEW t \in c.active, NEW e \in Requests,
         c.elicitations[e] = Absent, NEW a \in Items \cup {NoItem},
         a # NoItem => c.actions[a] # Absent /\ c.actions[a].turn = t
  PROVE  /\ ConvOK(ElicitationOpened(c, e, t, a))
         /\ ElicitationOpened(c, e, t, a).active = c.active
         /\ KeepsActions(c, ElicitationOpened(c, e, t, a))
         /\ ElicitationOpened(c, e, t, a).elicitations[e] # Absent
         /\ ElicitationOpened(c, e, t, a).elicitations[e].phase = "open"
         /\ ElicitationOpened(c, e, t, a).elicitations[e].turn = t
         /\ \A f \in Requests : f # e =>
              ElicitationOpened(c, e, t, a).elicitations[f] = c.elicitations[f]
<1> DEFINE d == ElicitationOpened(c, e, t, a)
           x == [phase |-> "open", turn |-> t, item |-> a]
<1>1. c \in ConversationState /\ t \in Turns
  BY ActiveTurn1 DEF ConvOK
<1>2. /\ d.turns = [c.turns EXCEPT ![t] = Moved(@, "awaiting_user")]
      /\ d.active = c.active /\ d.focused = c.focused /\ d.lifecycle = "active"
      /\ d.actions = [b \in Items |-> IF b = a
                        THEN [c.actions[b] EXCEPT !.phase = "awaiting_decision"]
                        ELSE c.actions[b]]
      /\ d.elicitations = [c.elicitations EXCEPT ![e] = x]
  BY <1>1 DEF ElicitationOpened, ConversationState
<1>3. /\ d.turns \in [Turns -> TurnState \cup {Absent}]
      /\ d.turns[t] \in TurnState /\ ~ IsTerminal(d.turns[t])
      /\ \A u \in Turns : u # t => d.turns[u] = c.turns[u]
  <2> DEFINE y == Moved(c.turns[t], "awaiting_user")
  <2>1. y \in TurnState /\ y.phase = "awaiting_user" /\ ~ IsTerminal(y)
    BY TurnMoves DEF TurnPhase
  <2> HIDE DEF y
  <2>2. d.turns = [c.turns EXCEPT ![t] = y]
    BY <1>2 DEF y
  <2> HIDE DEF d
  <2> QED
    BY <1>1, <2>1, <2>2, ConvFields
<1>4. ASSUME NEW b \in Items
      PROVE  /\ d.actions[b] \in ActionState \cup {Absent}
             /\ \/ d.actions[b] = c.actions[b]
                \/ /\ d.actions[b] \in ActionState /\ d.actions[b].turn = t
                   /\ c.actions[b] # Absent /\ c.actions[b].turn = t
  <2>1. CASE b # a
    BY <1>1, <1>2, <2>1, ConvFields
  <2>2. CASE b = a
    <3>1. a # NoItem /\ c.actions[a] \in ActionState /\ c.actions[a].turn = t
      BY <1>1, <2>2, ItemsAssumption, ConvFields
    <3>2. /\ [c.actions[a] EXCEPT !.phase = "awaiting_decision"] \in ActionState
          /\ [c.actions[a] EXCEPT !.phase = "awaiting_decision"].turn = t
      BY <3>1 DEF ActionState, ActionPhase
    <3> QED
      BY <1>2, <2>2, <3>1, <3>2
  <2> QED
    BY <2>1, <2>2
<1>5. x \in ElicitationState
  BY <1>1 DEF ElicitationState
<1>6. /\ d.elicitations \in [Requests -> ElicitationState \cup {Absent}]
      /\ d.elicitations[e] = x
      /\ \A f \in Requests : f # e => d.elicitations[f] = c.elicitations[f]
  BY <1>1, <1>2, <1>5, ConvFields
<1>7. d.actions \in [Items -> ActionState \cup {Absent}]
  BY <1>2, <1>4
<1>8. d \in ConversationState
  BY <1>1, <1>2, <1>3, <1>6, <1>7, ConvFields DEF ElicitationOpened, ConversationState,
     Lifecycle
<1> HIDE DEF d
<1>9. \A u \in Turns : \/ d.turns[u] = c.turns[u]
                       \/ u = t /\ d.turns[u] \in TurnState /\ ~ IsTerminal(d.turns[u])
  BY <1>3
<1>10. a # NoItem => d.actions[a] # Absent /\ d.actions[a].turn = t
  BY <1>4, AbsentPhase
<1>11. \A f \in Requests : \/ d.elicitations[f] = c.elicitations[f]
                           \/ /\ d.elicitations[f] \in ElicitationState
                              /\ d.elicitations[f].turn = t
                              /\ d.elicitations[f].item # NoItem =>
                                   /\ d.actions[d.elicitations[f].item] # Absent
                                   /\ d.actions[d.elicitations[f].item].turn = t
  BY <1>5, <1>6, <1>10
<1>12. ConvOK(d)
  <2>1. \A b \in Items : \/ d.actions[b] = c.actions[b]
                         \/ /\ d.actions[b] \in ActionState /\ d.actions[b].turn = t
                            /\ c.actions[b] # Absent => c.actions[b].turn = t
    BY <1>4
  <2>2. d.active = c.active /\ d.focused = c.focused
    BY <1>2
  <2> HIDE DEF x
  <2> QED
    BY <1>8, <1>9, <1>11, <2>1, <2>2, TurnWorks
<1>13. KeepsActions(c, d)
  BY <1>4, AbsentPhase DEF KeepsActions
<1> QED
  BY <1>2, <1>5, <1>6, <1>12, <1>13, AbsentPhase DEF d

\* A request of the active turn is resolved.
LEMMA ElicitationResolvedOK ==
  ASSUME NEW c, ConvOK(c), NEW e \in Requests, c.elicitations[e] # Absent,
         c.elicitations[e].turn \in c.active
  PROVE  /\ ConvOK(ElicitationResolved(c, e))
         /\ ElicitationResolved(c, e).active = c.active
         /\ KeepsActions(c, ElicitationResolved(c, e))
         /\ KeepsRequests(c, ElicitationResolved(c, e))
         /\ ElicitationResolved(c, e).elicitations[e].phase = "resolved"
         /\ \A f \in Requests : f # e =>
              ElicitationResolved(c, e).elicitations[f] = c.elicitations[f]
         /\ ElicitationResolved(c, e).turns[c.elicitations[e].turn].phase = "reasoning"
<1> DEFINE d == ElicitationResolved(c, e)
           t == c.elicitations[e].turn
           i == c.elicitations[e].item
           x == [c.elicitations[e] EXCEPT !.phase = "resolved"]
<1>1. /\ c \in ConversationState /\ t \in Turns /\ c.elicitations[e] \in ElicitationState
      /\ i \in Items \cup {NoItem}
  BY ActiveTurn1, ConvFields DEF ConvOK, ElicitationState
<1>2. /\ d.turns = [c.turns EXCEPT ![t] = Moved(@, "reasoning")]
      /\ d.active = c.active /\ d.focused = c.focused /\ d.lifecycle = c.lifecycle
      /\ d.actions = [b \in Items |-> IF b = i /\ c.actions[b] # Absent
                        THEN [c.actions[b] EXCEPT !.phase = "running"]
                        ELSE c.actions[b]]
      /\ d.elicitations = [c.elicitations EXCEPT ![e] = x]
  BY <1>1 DEF ElicitationResolved, ConversationState
<1>3. /\ d.turns \in [Turns -> TurnState \cup {Absent}]
      /\ d.turns[t] \in TurnState /\ ~ IsTerminal(d.turns[t]) /\ d.turns[t].phase = "reasoning"
      /\ \A u \in Turns : u # t => d.turns[u] = c.turns[u]
  <2> DEFINE y == Moved(c.turns[t], "reasoning")
  <2>1. y \in TurnState /\ y.phase = "reasoning" /\ ~ IsTerminal(y)
    BY TurnMoves DEF TurnPhase
  <2> HIDE DEF y
  <2>2. d.turns = [c.turns EXCEPT ![t] = y]
    BY <1>2 DEF y
  <2> HIDE DEF d, t
  <2> QED
    BY <1>1, <2>1, <2>2, ConvFields
<1>4. i # NoItem => c.actions[i] # Absent /\ c.actions[i].turn = t
  BY DEF ConvOK
<1>5. ASSUME NEW b \in Items
      PROVE  /\ d.actions[b] \in ActionState \cup {Absent}
             /\ \/ d.actions[b] = c.actions[b]
                \/ /\ d.actions[b] \in ActionState /\ d.actions[b].turn = t
                   /\ c.actions[b] # Absent /\ c.actions[b].turn = t
  <2>1. CASE b # i
    BY <1>1, <1>2, <2>1, ConvFields
  <2>2. CASE b = i
    <3>1. i # NoItem /\ c.actions[i] \in ActionState /\ c.actions[i].turn = t
      BY <1>1, <1>4, <2>2, ItemsAssumption, ConvFields
    <3>2. /\ [c.actions[i] EXCEPT !.phase = "running"] \in ActionState
          /\ [c.actions[i] EXCEPT !.phase = "running"].turn = t
      BY <3>1 DEF ActionState, ActionPhase
    <3> QED
      BY <1>2, <1>4, <2>2, <3>1, <3>2
  <2> QED
    BY <2>1, <2>2
<1>6. x \in ElicitationState /\ x.turn = t /\ x.item = i /\ x.phase = "resolved"
  BY <1>1 DEF ElicitationState
<1>7. /\ d.elicitations \in [Requests -> ElicitationState \cup {Absent}]
      /\ d.elicitations[e] = x
      /\ \A f \in Requests : f # e => d.elicitations[f] = c.elicitations[f]
  BY <1>1, <1>2, <1>6, ConvFields
<1>8. d.actions \in [Items -> ActionState \cup {Absent}]
  BY <1>2, <1>5
<1>9. d \in ConversationState
  BY <1>1, <1>2, <1>3, <1>7, <1>8, ConvFields DEF ElicitationResolved, ConversationState
<1> HIDE DEF d
<1>10. \A u \in Turns : \/ d.turns[u] = c.turns[u]
                        \/ u = t /\ d.turns[u] \in TurnState /\ ~ IsTerminal(d.turns[u])
  BY <1>3
<1>11. i # NoItem => d.actions[i] # Absent /\ d.actions[i].turn = t
  BY <1>1, <1>4, <1>5, AbsentPhase
<1>12. \A f \in Requests : \/ d.elicitations[f] = c.elicitations[f]
                           \/ /\ d.elicitations[f] \in ElicitationState
                              /\ d.elicitations[f].turn = t
                              /\ d.elicitations[f].item # NoItem =>
                                   /\ d.actions[d.elicitations[f].item] # Absent
                                   /\ d.actions[d.elicitations[f].item].turn = t
  <2> HIDE DEF x, t, i
  <2> QED
    BY <1>6, <1>7, <1>11
<1>13. ConvOK(d)
  <2>1. \A b \in Items : \/ d.actions[b] = c.actions[b]
                         \/ /\ d.actions[b] \in ActionState /\ d.actions[b].turn = t
                            /\ c.actions[b] # Absent => c.actions[b].turn = t
    BY <1>5
  <2>2. d.active = c.active /\ d.focused = c.focused /\ t \in c.active
    BY <1>2
  <2> HIDE DEF t, i, x
  <2> QED
    BY <1>9, <1>10, <1>12, <2>1, <2>2, TurnWorks
<1>14. KeepsActions(c, d)
  BY <1>5, AbsentPhase DEF KeepsActions
<1>15. KeepsRequests(c, d)
  <2> HIDE DEF x
  <2> QED
    BY <1>6, <1>7, AbsentPhase DEF KeepsRequests
<1> QED
  BY <1>2, <1>3, <1>6, <1>7, <1>13, <1>14, <1>15 DEF d

\* The plan to resolve an open request, whose turn is active.
LEMMA ResolutionPlannedOK ==
  ASSUME NEW c, ConvOK(c), NEW e \in Requests, CanResolve(c, e)
  PROVE  /\ ConvOK(ResolutionPlanned(c, e))
         /\ c.elicitations[e] # Absent /\ c.elicitations[e].turn \in c.active
         /\ ResolutionPlanned(c, e).active = c.active
         /\ ResolutionPlanned(c, e).actions = c.actions
         /\ ResolutionPlanned(c, e).turns = c.turns
         /\ ResolutionPlanned(c, e).elicitations[e] # Absent
         /\ ResolutionPlanned(c, e).elicitations[e].turn = c.elicitations[e].turn
         /\ \A f \in Requests : f # e =>
              ResolutionPlanned(c, e).elicitations[f] = c.elicitations[f]
<1> DEFINE d == ResolutionPlanned(c, e)
           t == c.elicitations[e].turn
           x == [c.elicitations[e] EXCEPT !.phase = "resolving"]
<1>1. /\ c \in ConversationState /\ c.elicitations[e].phase = "open"
      /\ c.elicitations[e] \in ElicitationState /\ c.elicitations[e] # Absent /\ t \in Turns
      /\ c.elicitations[e].item \in Items \cup {NoItem}
  <2>1. c \in ConversationState /\ c.elicitations[e].phase = "open"
    BY DEF ConvOK, CanResolve
  <2>2. c.elicitations[e] \in ElicitationState
    BY <2>1, ConvFields, AbsentPhase
  <2> QED
    BY <2>1, <2>2, AbsentPhase DEF ElicitationState
<1>2. t \in c.active
  <2>1. c.turns[t] # Absent
    BY <1>1 DEF ConvOK
  <2>2. ~ IsTerminal(c.turns[t])
    BY <1>1, <2>1 DEF ConvOK, SettledIn
  <2> QED
    BY <1>1, <2>1, <2>2 DEF ConvOK, IsLive
<1>3. /\ d.turns = c.turns /\ d.active = c.active /\ d.focused = c.focused
      /\ d.lifecycle = c.lifecycle /\ d.actions = c.actions
      /\ d.elicitations = [c.elicitations EXCEPT ![e] = x]
  BY <1>1 DEF ResolutionPlanned, ConversationState
<1>4. x \in ElicitationState /\ x.turn = t /\ x.item = c.elicitations[e].item
  BY <1>1 DEF ElicitationState
<1>5. /\ d.elicitations \in [Requests -> ElicitationState \cup {Absent}]
      /\ d.elicitations[e] = x
      /\ \A f \in Requests : f # e => d.elicitations[f] = c.elicitations[f]
  BY <1>1, <1>3, <1>4, ConvFields
<1>6. d \in ConversationState
  BY <1>1, <1>3, <1>5, ConvFields DEF ResolutionPlanned, ConversationState
<1> HIDE DEF d, x
<1>7. x.item # NoItem => d.actions[x.item] # Absent /\ d.actions[x.item].turn = t
  BY <1>1, <1>3, <1>4 DEF ConvOK
<1>8. \A f \in Requests : \/ d.elicitations[f] = c.elicitations[f]
                          \/ /\ d.elicitations[f] \in ElicitationState
                             /\ d.elicitations[f].turn = t
                             /\ d.elicitations[f].item # NoItem =>
                                  /\ d.actions[d.elicitations[f].item] # Absent
                                  /\ d.actions[d.elicitations[f].item].turn = t
  <2> HIDE DEF t
  <2> QED
    BY <1>4, <1>5, <1>7
<1>9. /\ \A u \in Turns : d.turns[u] = c.turns[u]
      /\ \A a \in Items : d.actions[a] = c.actions[a]
  BY <1>3
<1>10. ConvOK(d)
  BY <1>2, <1>3, <1>6, <1>8, <1>9, TurnWorks
<1> QED
  BY <1>1, <1>2, <1>3, <1>4, <1>5, <1>10, AbsentPhase DEF d

\* The status of the thread changes nothing else.
LEMMA StatusChangedOK ==
  ASSUME NEW c, ConvOK(c), NEW s \in Lifecycle
  PROVE  /\ ConvOK(StatusChanged(c, s)) /\ StatusChanged(c, s).active = c.active
         /\ StatusChanged(c, s).actions = c.actions
         /\ StatusChanged(c, s).elicitations = c.elicitations
         /\ StatusChanged(c, s).turns = c.turns
<1> DEFINE d == StatusChanged(c, s)
<1>1. c \in ConversationState
  BY DEF ConvOK
<1>2. /\ d.turns = c.turns /\ d.active = c.active /\ d.focused = c.focused
      /\ d.actions = c.actions /\ d.elicitations = c.elicitations
  BY <1>1 DEF StatusChanged, ConversationState
<1>3. d \in ConversationState
  BY <1>1 DEF StatusChanged, ConversationState
<1> HIDE DEF d
<1>4. ConvOK(d)
  BY <1>2, <1>3 DEF ConvOK, IsLive, SettledIn
<1> QED
  BY <1>2, <1>4 DEF d
-----------------------------------------------------------------------------
(* Reading a line.                                                         *)

\* What a line has.
LEMMA LineFields ==
  ASSUME NEW line \in Line
  PROVE  /\ line.type \in {"start response", "start error", "interrupt response",
                           "turn/started", "turn/completed", "item/started",
                           "item/completed", "requestApproval", "serverRequest/resolved",
                           "thread/status/changed"}
         /\ line.type \in {"start response", "start error", "interrupt response",
                           "turn/started", "turn/completed"} =>
              line = About(line.type, line.turn)
         /\ line.type \notin {"serverRequest/resolved", "thread/status/changed"} =>
              line.turn \in Turns
         /\ line.type \in {"item/started", "item/completed"} => line.item \in Items
         /\ line.type = "requestApproval" => line.item \in Items \cup {NoItem}
         /\ line.type \in {"requestApproval", "serverRequest/resolved"} =>
              line.request \in Requests
         /\ line.type = "thread/status/changed" => line.status \in Lifecycle
  BY DEF Line, About

\* A turn the agent names is the active one, and known after the line.
LEMMA EnsuredOK ==
  ASSUME NEW c, ConvOK(c), NEW t \in c.active
  PROVE  /\ LocalTurn(c, t) = t
         /\ ConvOK(Ensured(c, t)) /\ Ensured(c, t).active = c.active
         /\ Ensured(c, t).actions = c.actions /\ Ensured(c, t).elicitations = c.elicitations
         /\ Ensured(c, t).turns[t].phase = "awaiting_user" =>
              c.turns[t].phase = "awaiting_user"
<1>1. LocalTurn(c, t) = t
  BY ActiveTurn1 DEF LocalTurn
<1>2. CASE Ensured(c, t) = c
  BY <1>1, <1>2
<1>3. CASE Ensured(c, t) = TurnStarted(c, t)
  BY <1>1, <1>3, TurnStartedOK
<1> QED
  BY <1>1, <1>2, <1>3 DEF Ensured

\* The item of a line is an action of its turn.
LEMMA ItemSeenOK ==
  ASSUME NEW c, ConvOK(c), NEW t \in c.active, NEW a \in Items \cup {NoItem}
  PROVE  /\ ConvOK(ItemSeen(c, a, t)) /\ ItemSeen(c, a, t).active = c.active
         /\ ItemSeen(c, a, t).elicitations = c.elicitations
         /\ a # NoItem => ItemSeen(c, a, t).actions[a] # Absent
         /\ a # NoItem /\ c.actions[a] = Absent => ItemSeen(c, a, t).actions[a].turn = t
         /\ \A b \in Items : b # a \/ c.actions[b] # Absent =>
              ItemSeen(c, a, t).actions[b] = c.actions[b]
         /\ ItemSeen(c, a, t).turns[t].phase = "awaiting_user" =>
              c.turns[t].phase = "awaiting_user"
<1> DEFINE d == Ensured(c, t)
<1>1. /\ LocalTurn(c, t) = t /\ ConvOK(d) /\ d.active = c.active /\ t \in d.active
      /\ d.actions = c.actions /\ d.elicitations = c.elicitations
      /\ d.turns[t].phase = "awaiting_user" => c.turns[t].phase = "awaiting_user"
  BY EnsuredOK
<1>2. ItemSeen(c, a, t) = Observed(d, a, t)
  BY <1>1 DEF ItemSeen
<1> HIDE DEF d
<1>3. CASE a = NoItem \/ d.actions[a] # Absent
  <2>1. Observed(d, a, t) = d
    BY <1>3 DEF Observed
  <2> QED
    BY <1>1, <1>2, <1>3, <2>1
<1>4. CASE a # NoItem /\ d.actions[a] = Absent
  <2>1. a \in Items /\ Observed(d, a, t) = ActionObserved(d, a, t)
    BY <1>4 DEF Observed
  <2>2. /\ ConvOK(ActionObserved(d, a, t)) /\ ActionObserved(d, a, t).active = d.active
        /\ ActionObserved(d, a, t).elicitations = d.elicitations
        /\ ActionObserved(d, a, t).actions[a] = [phase |-> "running", turn |-> t]
        /\ ActionObserved(d, a, t).actions[a] # Absent
        /\ \A b \in Items : b # a => ActionObserved(d, a, t).actions[b] = d.actions[b]
        /\ ActionObserved(d, a, t).turns[t].phase = "acting"
    BY <1>1, <1>4, <2>1, ActionObservedOK
  <2>3. ActionObserved(d, a, t).actions[a].turn = t
    BY <2>2
  <2> QED
    BY <1>1, <1>2, <1>4, <2>1, <2>2, <2>3
<1> QED
  BY <1>3, <1>4

\* What the engine needs to know about a line of the active turn t.
FitsLine(c, t, line) ==
  /\ line \in Line /\ TurnLine(line)
  /\ line.type # "serverRequest/resolved" => line.turn = t
  /\ line.type = "requestApproval" => c.elicitations[line.request] = Absent
  /\ ItemLine(line) /\ line.item # NoItem /\ c.actions[line.item] # Absent =>
       c.actions[line.item].turn = t
  /\ line.type = "serverRequest/resolved" /\ c.elicitations[line.request] # Absent =>
       c.elicitations[line.request].turn = t

\* What such a line makes of it.
LineEffect(c, t, line, d) ==
  /\ ConvOK(d)
  /\ EndLine(line) => d.active = {} /\ IsTerminal(d.turns[t])
  /\ ~ EndLine(line) => d.active = c.active
  /\ \A a \in Items :
       /\ c.actions[a] # Absent => d.actions[a] # Absent /\ d.actions[a].turn = c.actions[a].turn
       /\ c.actions[a] = Absent /\ d.actions[a] # Absent =>
            ItemLine(line) /\ line.item = a /\ d.actions[a].turn = t
  /\ line.type # "requestApproval" =>
       /\ KeepsRequests(c, d)
       /\ ~ EndLine(line) /\ d.turns[t].phase = "awaiting_user" =>
            c.turns[t].phase = "awaiting_user"
  /\ line.type = "requestApproval" =>
       /\ d.elicitations[line.request] # Absent
       /\ d.elicitations[line.request].phase = "open"
       /\ d.elicitations[line.request].turn = t
       /\ \A f \in Requests : f # line.request => d.elicitations[f] = c.elicitations[f]

\* A line of the active turn.
LEMMA TurnLineOK ==
  ASSUME NEW c, ConvOK(c), NEW t \in c.active, NEW line, FitsLine(c, t, line)
  PROVE  LineEffect(c, t, line, Decoded(c, line))
<1> DEFINE d == Decoded(c, line)
<1>0. line \in Line /\ (line.type # "serverRequest/resolved" => line.turn = t)
  BY DEF FitsLine
<1>a. ASSUME NEW x, KeepsActions(c, x)
      PROVE  \A a \in Items :
               /\ c.actions[a] # Absent =>
                    x.actions[a] # Absent /\ x.actions[a].turn = c.actions[a].turn
               /\ c.actions[a] = Absent => x.actions[a] = Absent
  BY <1>a DEF KeepsActions
<1>b. KeepsActions(c, c) /\ KeepsRequests(c, c)
  BY DEF KeepsActions, KeepsRequests
<1>c. \A x : x.actions = c.actions => KeepsActions(c, x)
  BY DEF KeepsActions
<1>d. \A x : x.elicitations = c.elicitations => KeepsRequests(c, x)
  BY DEF KeepsRequests
<1>1. CASE line.type = "start response"
  <2>1. d = TurnStarted(c, t)
    BY <1>0, <1>1 DEF Decoded, StartSucceeded
  <2> HIDE DEF d
  <2>2. ~ EndLine(line) /\ ~ ItemLine(line)
    BY <1>1 DEF EndLine, ItemLine
  <2>3. ConvOK(d) /\ d.active = c.active /\ d.turns[t].phase = "starting"
        /\ KeepsActions(c, d) /\ KeepsRequests(c, d)
    BY <1>c, <1>d, <2>1, TurnStartedOK
  <2> QED
    BY <1>1, <1>a, <2>2, <2>3 DEF LineEffect, d
<1>2. CASE line.type = "turn/started"
  <2>1. d = TurnStarted(c, t)
    BY <1>0, <1>2, EnsuredOK DEF Decoded, AgentTurnStarted
  <2> HIDE DEF d
  <2>2. ~ EndLine(line) /\ ~ ItemLine(line)
    BY <1>2 DEF EndLine, ItemLine
  <2>3. ConvOK(d) /\ d.active = c.active /\ d.turns[t].phase = "starting"
        /\ KeepsActions(c, d) /\ KeepsRequests(c, d)
    BY <1>c, <1>d, <2>1, TurnStartedOK
  <2> QED
    BY <1>2, <1>a, <2>2, <2>3 DEF LineEffect, d
<1>3. CASE line.type = "start error"
  <2>1. d = TurnTerminal(c, t)
    BY <1>0, <1>3 DEF Decoded, StartFailed
  <2> HIDE DEF d
  <2>2. EndLine(line) /\ ~ ItemLine(line)
    BY <1>3 DEF EndLine, ItemLine
  <2>3. ConvOK(d) /\ d.active = {} /\ IsTerminal(d.turns[t])
        /\ KeepsActions(c, d) /\ KeepsRequests(c, d)
    BY <2>1, TurnTerminalOK
  <2> QED
    BY <1>3, <1>a, <2>2, <2>3 DEF LineEffect, d
<1>4. CASE line.type = "turn/completed"
  <2> DEFINE x == Ensured(c, t)
  <2>1. d = TurnTerminal(x, t)
    BY <1>0, <1>4, EnsuredOK DEF Decoded, AgentTurnCompleted
  <2>2. /\ ConvOK(x) /\ t \in x.active
        /\ x.actions = c.actions /\ x.elicitations = c.elicitations
    BY EnsuredOK
  <2> HIDE DEF d, x
  <2>3. EndLine(line) /\ ~ ItemLine(line)
    BY <1>4 DEF EndLine, ItemLine
  <2>4. ConvOK(d) /\ d.active = {} /\ IsTerminal(d.turns[t])
        /\ KeepsActions(x, d) /\ KeepsRequests(x, d)
    BY <2>1, <2>2, TurnTerminalOK
  <2>5. KeepsActions(c, d) /\ KeepsRequests(c, d)
    BY <2>2, <2>4 DEF KeepsActions, KeepsRequests
  <2> QED
    BY <1>4, <1>a, <2>3, <2>4, <2>5 DEF LineEffect, d
<1>5. CASE line.type = "item/started"
  <2>1. d = ItemSeen(c, line.item, t) /\ line.item \in Items
    BY <1>0, <1>5, LineFields DEF Decoded
  <2> HIDE DEF d
  <2>2. ~ EndLine(line) /\ ItemLine(line)
    BY <1>5 DEF EndLine, ItemLine
  <2>3. line.item # NoItem
    BY <2>1, ItemsAssumption
  <2>4. /\ ConvOK(d) /\ d.active = c.active /\ d.elicitations = c.elicitations
        /\ c.actions[line.item] = Absent => d.actions[line.item].turn = t
        /\ \A b \in Items : b # line.item \/ c.actions[b] # Absent =>
             d.actions[b] = c.actions[b]
        /\ d.turns[t].phase = "awaiting_user" => c.turns[t].phase = "awaiting_user"
    BY <2>1, <2>3, ItemSeenOK
  <2> QED
    BY <1>5, <1>d, <2>1, <2>2, <2>4 DEF LineEffect, d
<1>6. CASE line.type = "item/completed"
  <2> DEFINE x == ItemSeen(c, line.item, t)
  <2>1. d = ActionUpdated(x, line.item, "completed") /\ line.item \in Items
    BY <1>0, <1>6, LineFields DEF Decoded, ItemCompleted
  <2>2. ~ EndLine(line) /\ ItemLine(line)
    BY <1>6 DEF EndLine, ItemLine
  <2>3. line.item # NoItem
    BY <2>1, ItemsAssumption
  <2>4. /\ ConvOK(x) /\ x.active = c.active /\ x.elicitations = c.elicitations
        /\ x.actions[line.item] # Absent
        /\ c.actions[line.item] = Absent => x.actions[line.item].turn = t
        /\ \A b \in Items : b # line.item \/ c.actions[b] # Absent =>
             x.actions[b] = c.actions[b]
        /\ x.turns[t].phase = "awaiting_user" => c.turns[t].phase = "awaiting_user"
    BY <2>1, <2>3, ItemSeenOK
  <2>5. x.actions[line.item].turn = t
    <3>1. c.actions[line.item] # Absent => c.actions[line.item].turn = t
      BY <2>2, <2>3 DEF FitsLine
    <3> QED
      BY <2>1, <2>4, <3>1
  <2> HIDE DEF d, x
  <2>6. /\ ConvOK(d) /\ d.active = x.active /\ d.elicitations = x.elicitations
        /\ d.turns = x.turns /\ KeepsActions(x, d)
    BY <2>1, <2>4, <2>5, ActionUpdatedOK
  <2>7. \A a \in Items :
          /\ c.actions[a] # Absent =>
               d.actions[a] # Absent /\ d.actions[a].turn = c.actions[a].turn
          /\ c.actions[a] = Absent /\ d.actions[a] # Absent =>
               line.item = a /\ d.actions[a].turn = t
    BY <2>4, <2>5, <2>6 DEF KeepsActions
  <2> QED
    BY <1>6, <1>d, <2>2, <2>4, <2>6, <2>7 DEF LineEffect, d
<1>7. CASE line.type = "requestApproval"
  <2> DEFINE x == ItemSeen(c, line.item, t)
  <2>1. /\ d = ElicitationOpened(x, line.request, t, line.item)
        /\ line.item \in Items \cup {NoItem} /\ line.request \in Requests
    BY <1>0, <1>7, LineFields, EnsuredOK DEF Decoded, ServerRequest
  <2>2. ~ EndLine(line) /\ ItemLine(line)
    BY <1>7 DEF EndLine, ItemLine
  <2>3. /\ ConvOK(x) /\ x.active = c.active /\ x.elicitations = c.elicitations
        /\ line.item # NoItem => x.actions[line.item] # Absent
        /\ line.item # NoItem /\ c.actions[line.item] = Absent =>
             x.actions[line.item].turn = t
        /\ \A b \in Items : b # line.item \/ c.actions[b] # Absent =>
             x.actions[b] = c.actions[b]
    BY <2>1, ItemSeenOK
  <2>4. line.item # NoItem => x.actions[line.item].turn = t
    <3>1. line.item # NoItem /\ c.actions[line.item] # Absent => c.actions[line.item].turn = t
      BY <2>2 DEF FitsLine
    <3> QED
      BY <2>1, <2>3, <3>1
  <2>5. x.elicitations[line.request] = Absent
    BY <1>7, <2>3 DEF FitsLine
  <2> HIDE DEF d, x
  <2>6. /\ ConvOK(d) /\ d.active = x.active /\ KeepsActions(x, d)
        /\ d.elicitations[line.request] # Absent
        /\ d.elicitations[line.request].phase = "open"
        /\ d.elicitations[line.request].turn = t
        /\ \A f \in Requests : f # line.request => d.elicitations[f] = x.elicitations[f]
    BY <2>1, <2>3, <2>4, <2>5, ElicitationOpenedOK
  <2>7. \A a \in Items :
          /\ c.actions[a] # Absent =>
               d.actions[a] # Absent /\ d.actions[a].turn = c.actions[a].turn
          /\ c.actions[a] = Absent /\ d.actions[a] # Absent =>
               line.item = a /\ d.actions[a].turn = t
    <3>1. ASSUME NEW a \in Items, c.actions[a] # Absent
          PROVE  d.actions[a] # Absent /\ d.actions[a].turn = c.actions[a].turn
      BY <2>3, <2>6, <3>1 DEF KeepsActions
    <3>2. ASSUME NEW a \in Items, c.actions[a] = Absent, d.actions[a] # Absent
          PROVE  line.item = a /\ d.actions[a].turn = t
      <4>1. x.actions[a] # Absent
        BY <2>6, <3>2 DEF KeepsActions
      <4>2. line.item = a /\ a # NoItem
        BY <2>3, <3>2, <4>1, ItemsAssumption
      <4> QED
        BY <2>4, <2>6, <4>1, <4>2 DEF KeepsActions
    <3> QED
      BY <3>1, <3>2
  <2> QED
    BY <1>7, <2>2, <2>3, <2>6, <2>7 DEF LineEffect, d
<1>8. CASE line.type = "serverRequest/resolved"
  <2>1. d = ServerRequestResolved(c, line.request) /\ line.request \in Requests
    BY <1>0, <1>8, LineFields DEF Decoded
  <2>2. ~ EndLine(line) /\ ~ ItemLine(line)
    BY <1>8 DEF EndLine, ItemLine
  <2>3. CASE c.elicitations[line.request] = Absent
    <3>1. d = c
      BY <2>1, <2>3 DEF ServerRequestResolved
    <3> HIDE DEF d
    <3> QED
      BY <1>8, <1>a, <1>b, <2>2, <3>1 DEF LineEffect, d
  <2>4. CASE c.elicitations[line.request] # Absent
    <3>1. d = ElicitationResolved(c, line.request)
      BY <2>1, <2>4 DEF ServerRequestResolved
    <3>2. c.elicitations[line.request].turn = t
      BY <1>8, <2>4 DEF FitsLine
    <3> HIDE DEF d
    <3>3. /\ ConvOK(d) /\ d.active = c.active /\ KeepsActions(c, d) /\ KeepsRequests(c, d)
          /\ d.turns[t].phase = "reasoning"
      BY <2>1, <2>4, <3>1, <3>2, ElicitationResolvedOK
    <3> QED
      BY <1>8, <1>a, <2>2, <3>3 DEF LineEffect, d
  <2> QED
    BY <2>3, <2>4
<1> QED
  BY <1>1, <1>2, <1>3, <1>4, <1>5, <1>6, <1>7, <1>8 DEF FitsLine, TurnLine

\* Any other line changes the status at most.
LEMMA OtherLineOK ==
  ASSUME NEW c, ConvOK(c), NEW line \in Line, ~ TurnLine(line)
  PROVE  /\ ConvOK(Decoded(c, line)) /\ Decoded(c, line).active = c.active
         /\ Decoded(c, line).turns = c.turns /\ Decoded(c, line).actions = c.actions
         /\ Decoded(c, line).elicitations = c.elicitations
         /\ line.type \in {"interrupt response", "thread/status/changed"}
<1>1. line.type \in {"interrupt response", "thread/status/changed"}
  BY LineFields DEF TurnLine
<1>2. CASE line.type = "interrupt response"
  <2>1. Decoded(c, line) = c
    BY <1>2 DEF Decoded
  <2> QED
    BY <1>1, <2>1
<1>3. CASE line.type = "thread/status/changed"
  <2>1. Decoded(c, line) = StatusChanged(c, line.status) /\ line.status \in Lifecycle
    BY <1>3, LineFields DEF Decoded
  <2> QED
    BY <1>1, <2>1, StatusChangedOK
<1> QED
  BY <1>1, <1>2, <1>3
-----------------------------------------------------------------------------
(* A line is read.                                                         *)

\* What is left of a pipe after its first item.
LEMMA TailItems ==
  ASSUME NEW S, NEW s \in Seq(S), s # <<>>
  PROVE  /\ Tail(s) \in Seq(S) /\ Head(s) \in S /\ Head(s) = s[1] /\ 1 \in 1 .. Len(s)
         /\ \A i \in 1 .. Len(Tail(s)) : Tail(s)[i] = s[i + 1] /\ i + 1 \in 1 .. Len(s)
         /\ \A i \in 1 .. Len(s) : i # 1 => i - 1 \in 1 .. Len(Tail(s)) /\ Tail(s)[i - 1] = s[i]
  OBVIOUS

\* What a pipe holds is typed.
LEMMA ItemTyped ==
  ASSUME NEW S, NEW s \in Seq(S), NEW i \in 1 .. Len(s)
  PROVE  s[i] \in S
  OBVIOUS

\* A step that reads a line and changes nothing at the agent's end.
Receives ==
  /\ ReceiveLine
  /\ activeTurn.request = NoRequest
  /\ UNCHANGED <<toAgent, agentVars, historyVars>>

\* The line is at the head of the pipe, and fits the active turn.
LEMMA ReceivedLine ==
  ASSUME IInv, Receives
  PROVE  /\ Head(toClient) \in Line /\ Head(toClient) = toClient[1] /\ 1 \in 1 .. Len(toClient)
         /\ toClient' = Tail(toClient) /\ toClient' \in Seq(Line)
         /\ \A i \in 1 .. Len(toClient') :
              toClient'[i] = toClient[i + 1] /\ i + 1 \in 1 .. Len(toClient)
         /\ conv' = Decoded(conv, Head(toClient))
         /\ TurnLine(Head(toClient)) =>
              /\ activeTurn.turn \in conv.active
              /\ FitsLine(conv, activeTurn.turn, Head(toClient))
              /\ LineEffect(conv, activeTurn.turn, Head(toClient), conv')
<1> DEFINE line == Head(toClient)
<1>1. toClient # <<>> /\ toClient \in Seq(Line)
  BY DEF Receives, ReceiveLine, IInv, TypeOK
<1>2. /\ line \in Line /\ line = toClient[1] /\ 1 \in 1 .. Len(toClient)
      /\ Tail(toClient) \in Seq(Line)
      /\ \A i \in 1 .. Len(Tail(toClient)) :
           Tail(toClient)[i] = toClient[i + 1] /\ i + 1 \in 1 .. Len(toClient)
  BY <1>1, TailItems
<1>3. toClient' = Tail(toClient) /\ conv' = Decoded(conv, line)
  BY DEF Receives, ReceiveLine
<1>4. ASSUME TurnLine(line)
      PROVE  activeTurn.turn \in conv.active /\ FitsLine(conv, activeTurn.turn, line)
  <2> HIDE DEF line
  <2>1. activeTurn.turn # NoTurn
        /\ (line.type # "serverRequest/resolved" => line.turn = activeTurn.turn)
    BY <1>2, <1>4 DEF IInv, TurnOK, LineOK
  <2>2. activeTurn.turn \in conv.active
    BY <2>1 DEF IInv, SessionOK
  <2>3. line.type = "requestApproval" => conv.elicitations[line.request] = Absent
    BY <1>2 DEF IInv, RequestsOK
  <2>4. line.type = "serverRequest/resolved" /\ conv.elicitations[line.request] # Absent =>
          conv.elicitations[line.request].turn = activeTurn.turn
    BY <1>2 DEF IInv, RequestsOK
  <2>5. ItemLine(line) /\ line.item # NoItem /\ conv.actions[line.item] # Absent =>
          conv.actions[line.item].turn = line.turn
    BY <1>2 DEF IInv, ItemsOK
  <2>6. ItemLine(line) => line.type # "serverRequest/resolved"
    BY DEF ItemLine
  <2> QED
    BY <1>2, <1>4, <2>1, <2>2, <2>3, <2>4, <2>5, <2>6 DEF FitsLine
<1>5. TurnLine(line) => LineEffect(conv, activeTurn.turn, line, conv')
  BY <1>3, <1>4, TurnLineOK DEF IInv
<1> QED
  BY <1>2, <1>3, <1>4, <1>5

\* What becomes of the turn of the session and the request it shows.
ReceivedEnd ==
  /\ EndLine(Head(toClient)) /\ activeTurn' = NoActiveTurn
  /\ conv'.active = {} /\ OpenRequests(conv') = {}
ReceivedOther ==
  /\ ~ EndLine(Head(toClient)) /\ conv'.active = conv.active
  /\ activeTurn'.turn = activeTurn.turn
  /\ activeTurn.turn = NoTurn => activeTurn'.request = NoRequest
  /\ OpenRequests(conv') = {activeTurn'.request} \ {NoRequest}
  /\ activeTurn.turn # NoTurn /\ conv'.turns[activeTurn.turn].phase = "awaiting_user" =>
       activeTurn'.request # NoRequest

\* The turn of the session after the line: over, or the same.
LEMMA ReceivedTurn ==
  ASSUME IInv, Receives
  PROVE  /\ ConvOK(conv') /\ activeTurn' \in ActiveTurn
         /\ ReceivedEnd \/ ReceivedOther
<1> DEFINE line == Head(toClient)
           t == activeTurn.turn
           open == {e \in OpenRequests(conv') : conv'.elicitations[e].turn = t}
<1>1. /\ line \in Line /\ conv' = Decoded(conv, line)
      /\ TurnLine(line) => t \in conv.active /\ LineEffect(conv, t, line, conv')
  BY ReceivedLine
<1>2. activeTurn' = IF t = NoTurn \/ IsTerminal(conv'.turns[t]) THEN NoActiveTurn
                    ELSE [activeTurn EXCEPT !.request = NextRequest(conv', @, line)]
  BY <1>1 DEF Receives, ReceiveLine
<1>3. /\ activeTurn \in ActiveTurn /\ activeTurn.request = NoRequest
      /\ OpenRequests(conv) = {} /\ ConvOK(conv)
      /\ t # NoTurn => t \in conv.active
      /\ t # NoTurn => conv.turns[t].phase # "awaiting_user"
  BY DEF IInv, TypeOK, Receives, ShownOK, SessionOK
<1>4. NoActiveTurn \in ActiveTurn
      /\ NoActiveTurn.request = NoRequest /\ NoActiveTurn.turn = NoTurn
  BY DEF NoActiveTurn, ActiveTurn
<1>5. t \in conv'.active /\ ConvOK(conv') => ~ IsTerminal(conv'.turns[t])
  BY DEF ConvOK, IsLive
<1>6. /\ open = {} => NextRequest(conv', NoRequest, line) = NoRequest
      /\ line.type = "requestApproval" /\ open = {line.request} =>
           NextRequest(conv', NoRequest, line) = line.request
  <2> DEFINE kept == IF line.type = "serverRequest/resolved" /\ line.request = NoRequest
                     THEN NoRequest ELSE NoRequest
  <2>1. kept = NoRequest
    OBVIOUS
  <2>2. NextRequest(conv', NoRequest, line) =
          IF line.type = "requestApproval" /\ line.request \in open THEN line.request
          ELSE IF kept = NoRequest /\ open # {} THEN CHOOSE e \in open : TRUE
          ELSE kept
    BY DEF NextRequest
  <2> HIDE DEF kept, open, line
  <2>3. open = {} => NextRequest(conv', NoRequest, line) = NoRequest
    BY <2>1, <2>2
  <2>4. ASSUME line.type = "requestApproval", open = {line.request}
        PROVE  NextRequest(conv', NoRequest, line) = line.request
    <3>1. (CHOOSE e \in open : TRUE) = line.request
      BY <2>4
    <3> QED
      BY <2>1, <2>2, <2>4, <3>1
  <2> QED
    BY <2>3, <2>4 DEF open
<1> HIDE DEF line, t
<1>7. ASSUME t # NoTurn, t \in conv'.active, ConvOK(conv'), NEW r \in Requests \cup {NoRequest},
             NextRequest(conv', NoRequest, line) = r
      PROVE  activeTurn' \in ActiveTurn /\ activeTurn'.turn = t /\ activeTurn'.request = r
  <2>1. activeTurn' = [activeTurn EXCEPT !.request = r]
    BY <1>2, <1>3, <1>5, <1>7
  <2> QED
    BY <1>3, <2>1 DEF ActiveTurn, t
<1>8. CASE ~ TurnLine(line)
  <2>1. /\ ConvOK(conv') /\ conv'.active = conv.active /\ conv'.turns = conv.turns
        /\ conv'.elicitations = conv.elicitations /\ ~ EndLine(line)
    BY <1>1, <1>3, <1>8, OtherLineOK DEF EndLine
  <2>2. OpenRequests(conv') = {}
    BY <1>3, <2>1 DEF OpenRequests
  <2>3. CASE t = NoTurn
    <3>1. activeTurn' = NoActiveTurn
      BY <1>2, <2>3
    <3> QED
      BY <1>4, <2>1, <2>2, <2>3, <3>1 DEF ReceivedOther, t, line
  <2>4. CASE t # NoTurn
    <3>1. line.type # "requestApproval"
      BY <1>1, <1>3, <1>8, OtherLineOK
    <3>2. NextRequest(conv', NoRequest, line) = NoRequest
      BY <1>6, <2>2, <3>1
    <3>3. activeTurn' \in ActiveTurn /\ activeTurn'.turn = t /\ activeTurn'.request = NoRequest
      BY <1>3, <1>7, <2>1, <2>4, <3>2
    <3>4. conv'.turns[t].phase # "awaiting_user"
      BY <1>3, <2>1, <2>4
    <3> QED
      BY <2>1, <2>2, <2>4, <3>3, <3>4 DEF ReceivedOther, t, line
  <2> QED
    BY <2>3, <2>4
<1>9. ASSUME TurnLine(line), line.type # "requestApproval"
      PROVE  OpenRequests(conv') = {}
  <2>1. KeepsRequests(conv, conv')
    BY <1>1, <1>9 DEF LineEffect
  <2> QED
    BY <1>3, <2>1 DEF KeepsRequests, OpenRequests
<1>10. TurnLine(line) => ConvOK(conv') /\ t \in Turns
  BY <1>1, <1>3, ActiveTurn1 DEF LineEffect
<1>11. CASE TurnLine(line) /\ EndLine(line)
  <2>1. line.type # "requestApproval"
    BY <1>11 DEF EndLine
  <2>2. conv'.active = {} /\ IsTerminal(conv'.turns[t])
    BY <1>1, <1>11 DEF LineEffect
  <2>3. activeTurn' = NoActiveTurn
    BY <1>2, <2>2
  <2> QED
    BY <1>4, <1>9, <1>10, <1>11, <2>1, <2>2, <2>3 DEF ReceivedEnd, line
<1>12. CASE TurnLine(line) /\ ~ EndLine(line)
  <2>1. conv'.active = conv.active /\ t \in conv'.active /\ t # NoTurn /\ ConvOK(conv')
    BY <1>1, <1>10, <1>12, TurnsAssumption DEF LineEffect
  <2>2. CASE line.type # "requestApproval"
    <3>1. OpenRequests(conv') = {}
      BY <1>9, <1>12, <2>2
    <3>2. NextRequest(conv', NoRequest, line) = NoRequest
      BY <1>6, <2>2, <3>1
    <3>3. activeTurn' \in ActiveTurn /\ activeTurn'.turn = t /\ activeTurn'.request = NoRequest
      BY <1>7, <2>1, <3>2
    <3>4. conv'.turns[t].phase # "awaiting_user"
      BY <1>1, <1>3, <1>12, <2>1, <2>2 DEF LineEffect
    <3> QED
      BY <1>12, <2>1, <3>1, <3>3, <3>4 DEF ReceivedOther, t, line
  <2>3. CASE line.type = "requestApproval"
    <3> DEFINE e == line.request
    <3>1. e \in Requests /\ e # NoRequest
      BY <1>1, <2>3, LineFields, RequestsAssumption
    <3>2. /\ conv'.elicitations[e].phase = "open" /\ conv'.elicitations[e].turn = t
          /\ \A f \in Requests : f # e => conv'.elicitations[f] = conv.elicitations[f]
      BY <1>1, <1>12, <2>3 DEF LineEffect
    <3>3. OpenRequests(conv') = {e}
      BY <1>3, <3>1, <3>2 DEF OpenRequests
    <3>4. NextRequest(conv', NoRequest, line) = e
      BY <1>6, <2>3, <3>2, <3>3
    <3>5. activeTurn' \in ActiveTurn /\ activeTurn'.turn = t /\ activeTurn'.request = e
      BY <1>7, <2>1, <3>1, <3>4
    <3> QED
      BY <1>12, <2>1, <3>1, <3>3, <3>5 DEF ReceivedOther, t, line
  <2> QED
    BY <2>2, <2>3
<1> QED
  BY <1>8, <1>11, <1>12

\* The pipes still hold only lines of the turn of the session.
LEMMA ReceivedTurnOK == IInv /\ Receives => TurnOK'
<1> SUFFICES ASSUME IInv, Receives
             PROVE  TurnOK'
  OBVIOUS
<1>1. /\ Head(toClient) = toClient[1] /\ 1 \in 1 .. Len(toClient)
      /\ toClient' \in Seq(Line) /\ toClient \in Seq(Line)
      /\ \A i \in 1 .. Len(toClient') :
           toClient'[i] = toClient[i + 1] /\ i + 1 \in 1 .. Len(toClient)
  BY ReceivedLine DEF IInv, TypeOK
<1>2. UNCHANGED <<toAgent, alive, agent, asks>>
  BY DEF Receives, agentVars
<1>3. CASE ReceivedOther
  <2>1. activeTurn'.turn = activeTurn.turn
    BY <1>3 DEF ReceivedOther
  <2>2. ASSUME NEW i \in 1 .. Len(toAgent'), toAgent'[i].type = "turn/start"
        PROVE  StartOK(i)'
    <3>1. i \in 1 .. Len(toAgent) /\ StartOK(i)
      BY <1>2, <2>2 DEF IInv, TurnOK
    <3> QED
      BY <1>1, <1>2, <2>1, <3>1 DEF StartOK
  <2>3. ASSUME NEW i \in 1 .. Len(toClient'), TurnLine(toClient'[i])
        PROVE  LineOK(i)'
    <3>1. i + 1 \in 1 .. Len(toClient) /\ LineOK(i + 1) /\ toClient'[i] = toClient[i + 1]
      BY <1>1, <2>3 DEF IInv, TurnOK
    <3>2. ASSUME NEW j \in 1 .. Len(toClient'), TurnLine(toClient'[j]), EndLine(toClient'[i])
          PROVE  j <= i
      <4>1. j + 1 <= i + 1
        BY <1>1, <3>1, <3>2 DEF LineOK
      <4> QED
        BY <4>1
    <3> QED
      BY <1>2, <2>1, <3>1, <3>2 DEF LineOK
  <2> QED
    BY <1>2, <2>1, <2>2, <2>3 DEF IInv, TurnOK
<1>4. CASE ReceivedEnd
  <2>1. EndLine(toClient[1]) /\ TurnLine(toClient[1]) /\ activeTurn'.turn = NoTurn
    BY <1>1, <1>4 DEF ReceivedEnd, EndLine, TurnLine, NoActiveTurn
  <2>2. /\ agent.turn = NoTurn
        /\ \A j \in 1 .. Len(toClient) : TurnLine(toClient[j]) => j <= 1
    BY <1>1, <2>1 DEF IInv, TurnOK, LineOK
  <2>3. \A i \in 1 .. Len(toClient') : ~ TurnLine(toClient'[i])
    <3> SUFFICES ASSUME NEW i \in 1 .. Len(toClient'), TurnLine(toClient'[i])
                 PROVE  FALSE
      OBVIOUS
    <3>1. i + 1 \in 1 .. Len(toClient) /\ TurnLine(toClient[i + 1])
      BY <1>1
    <3>2. i + 1 <= 1
      BY <2>2, <3>1
    <3> QED
      BY <3>2
  <2>4. \A i \in 1 .. Len(toAgent) : toAgent[i].type # "turn/start"
    BY <1>1, <2>1 DEF IInv, TurnOK, StartOK
  <2> QED
    BY <1>2, <2>1, <2>2, <2>3, <2>4 DEF IInv, TurnOK
<1> QED
  BY <1>3, <1>4, ReceivedTurn

\* What the line changes of the actions.
LEMMA ReceivedActions ==
  ASSUME IInv, Receives, NEW a \in Items
  PROVE  /\ conv.actions[a] # Absent =>
              conv'.actions[a] # Absent /\ conv'.actions[a].turn = conv.actions[a].turn
         /\ conv.actions[a] = Absent /\ conv'.actions[a] # Absent =>
              /\ ItemLine(Head(toClient)) /\ Head(toClient).item = a
              /\ conv'.actions[a].turn = activeTurn.turn
<1>1. CASE TurnLine(Head(toClient))
  BY <1>1, ReceivedLine DEF LineEffect
<1>2. CASE ~ TurnLine(Head(toClient))
  <2>1. conv'.actions = conv.actions
    BY <1>2, ReceivedLine, OtherLineOK DEF IInv
  <2> QED
    BY <2>1
<1> QED
  BY <1>1, <1>2

\* The items of the pipe are still of their turns.
LEMMA ReceivedItems == IInv /\ Receives => ItemsOK'
<1> SUFFICES ASSUME IInv, Receives
             PROVE  ItemsOK'
  OBVIOUS
<1>1. /\ Head(toClient) = toClient[1] /\ 1 \in 1 .. Len(toClient) /\ Head(toClient) \in Line
      /\ toClient' \in Seq(Line) /\ toClient \in Seq(Line)
      /\ \A i \in 1 .. Len(toClient') :
           toClient'[i] = toClient[i + 1] /\ i + 1 \in 1 .. Len(toClient)
  BY ReceivedLine DEF IInv, TypeOK
<1>2. UNCHANGED <<alive, agent, items>>
  BY DEF Receives, agentVars
<1>3. ASSUME NEW a \in Items
      PROVE  /\ items[a] = "new" => conv'.actions[a] = Absent
             /\ alive /\ items[a] = "running" =>
                  /\ agent.turn # NoTurn
                  /\ conv'.actions[a] # Absent => conv'.actions[a].turn = agent.turn
  <2>1. CASE conv.actions[a] # Absent \/ conv'.actions[a] = Absent
    BY <2>1, ReceivedActions DEF IInv, ItemsOK
  <2>2. CASE conv.actions[a] = Absent /\ conv'.actions[a] # Absent
    <3>1. /\ ItemLine(Head(toClient)) /\ Head(toClient).item = a
          /\ conv'.actions[a].turn = activeTurn.turn
      BY <2>2, ReceivedActions
    <3>2. items[a] # "new"
      BY <1>1, <3>1, ItemsAssumption DEF IInv, ItemsOK
    <3>3. alive /\ items[a] = "running" => agent.turn # NoTurn /\ agent.turn = activeTurn.turn
      BY DEF IInv, ItemsOK, TurnOK
    <3> QED
      BY <3>1, <3>2, <3>3
  <2> QED
    BY <2>1, <2>2
<1>4. ASSUME NEW i \in 1 .. Len(toClient'), ItemLine(toClient'[i]), toClient'[i].item # NoItem
      PROVE  /\ items[toClient'[i].item] # "new"
             /\ conv'.actions[toClient'[i].item] # Absent =>
                  conv'.actions[toClient'[i].item].turn = toClient'[i].turn
  <2> DEFINE l == toClient[i + 1]
  <2>1. i + 1 \in 1 .. Len(toClient) /\ toClient'[i] = l /\ l \in Line
    BY <1>1, ItemTyped
  <2>2. ItemLine(l) /\ l.item # NoItem /\ TurnLine(l)
    BY <1>4, <2>1 DEF ItemLine, TurnLine
  <2>3. l.item \in Items
    BY <2>1, <2>2, LineFields DEF ItemLine
  <2>4. l.turn = activeTurn.turn
    BY <2>1, <2>2 DEF IInv, TurnOK, LineOK, ItemLine
  <2>5. /\ items[l.item] # "new"
        /\ conv.actions[l.item] # Absent => conv.actions[l.item].turn = l.turn
    BY <2>1, <2>2 DEF IInv, ItemsOK
  <2> HIDE DEF l
  <2> QED
    BY <2>1, <2>3, <2>4, <2>5, ReceivedActions
<1> QED
  BY <1>2, <1>3, <1>4 DEF ItemsOK

\* What the line changes of the elicitations.
LEMMA ReceivedElicitations ==
  ASSUME IInv, Receives, NEW e \in Requests
  PROVE  \/ /\ conv'.elicitations[e] = Absent <=> conv.elicitations[e] = Absent
            /\ conv.elicitations[e] # Absent =>
                 conv'.elicitations[e].turn = conv.elicitations[e].turn
            /\ conv'.elicitations[e].phase \in {"open", "absent"} =>
                 conv'.elicitations[e] = conv.elicitations[e]
         \/ /\ Head(toClient).type = "requestApproval" /\ Head(toClient).request = e
            /\ conv.elicitations[e] = Absent /\ conv'.elicitations[e] # Absent
            /\ conv'.elicitations[e].turn = activeTurn.turn
<1> DEFINE line == Head(toClient)
<1>1. CASE ~ TurnLine(line)
  <2>1. conv'.elicitations = conv.elicitations
    BY <1>1, ReceivedLine, OtherLineOK DEF IInv
  <2> QED
    BY <2>1
<1>2. CASE TurnLine(line) /\ line.type # "requestApproval"
  BY <1>2, ReceivedLine DEF LineEffect, KeepsRequests
<1>3. CASE TurnLine(line) /\ line.type = "requestApproval"
  BY <1>3, ReceivedLine DEF LineEffect, FitsLine
<1> QED
  BY <1>1, <1>2, <1>3

\* The requests of the pipe are still new or of their turn.
LEMMA ReceivedRequests == IInv /\ Receives => RequestsOK'
<1> SUFFICES ASSUME IInv, Receives
             PROVE  RequestsOK'
  OBVIOUS
<1>1. /\ Head(toClient) = toClient[1] /\ 1 \in 1 .. Len(toClient) /\ Head(toClient) \in Line
      /\ toClient' \in Seq(Line) /\ toClient \in Seq(Line)
      /\ \A i \in 1 .. Len(toClient') :
           toClient'[i] = toClient[i + 1] /\ i + 1 \in 1 .. Len(toClient)
  BY ReceivedLine DEF IInv, TypeOK
<1>2. UNCHANGED <<alive, agent, asks, answers>>
  BY DEF Receives, agentVars, historyVars
<1>3. ASSUME NEW e \in Requests
      PROVE  /\ answers[e] <= 1
             /\ conv'.elicitations[e].phase \in {"absent", "open"} => answers[e] = 0
             /\ e \in asks /\ conv'.elicitations[e] # Absent =>
                  conv'.elicitations[e].turn = agent.turn
  <2>1. /\ answers[e] <= 1
        /\ conv.elicitations[e].phase \in {"absent", "open"} => answers[e] = 0
        /\ e \in asks /\ conv.elicitations[e] # Absent => conv.elicitations[e].turn = agent.turn
    BY DEF IInv, RequestsOK
  <2>2. conv.elicitations[e] = Absent => conv.elicitations[e].phase = "absent"
    BY AbsentPhase
  <2>3. e \in asks => agent.turn = activeTurn.turn
    BY DEF IInv, TurnOK
  <2> QED
    BY <2>1, <2>2, <2>3, ReceivedElicitations
<1>4. ASSUME NEW i \in 1 .. Len(toClient'), toClient'[i].type = "requestApproval"
      PROVE  /\ conv'.elicitations[toClient'[i].request] = Absent
             /\ \A j \in 1 .. Len(toClient') :
                  toClient'[j].type = "requestApproval"
                    /\ toClient'[j].request = toClient'[i].request => j = i
  <2> DEFINE l == toClient[i + 1]
  <2>1. i + 1 \in 1 .. Len(toClient) /\ toClient'[i] = l /\ l \in Line
    BY <1>1, ItemTyped
  <2>2. /\ conv.elicitations[l.request] = Absent
        /\ \A j \in 1 .. Len(toClient) :
             toClient[j].type = "requestApproval" /\ toClient[j].request = l.request => j = i + 1
    BY <1>4, <2>1 DEF IInv, RequestsOK
  <2>3. l.request \in Requests
    BY <1>4, <2>1, LineFields
  <2>4. ~ (toClient[1].type = "requestApproval" /\ toClient[1].request = l.request)
    BY <1>1, <2>2
  <2> QED
    BY <1>1, <2>1, <2>2, <2>3, <2>4, ReceivedElicitations
<1>5. ASSUME NEW i \in 1 .. Len(toClient'), toClient'[i].type = "serverRequest/resolved",
             conv'.elicitations[toClient'[i].request] # Absent
      PROVE  conv'.elicitations[toClient'[i].request].turn = activeTurn'.turn
  <2> DEFINE l == toClient[i + 1]
  <2>1. i + 1 \in 1 .. Len(toClient) /\ toClient'[i] = l /\ l \in Line
    BY <1>1, ItemTyped
  <2>2. l.request \in Requests /\ TurnLine(l)
    BY <1>5, <2>1, LineFields DEF TurnLine
  <2>3. activeTurn'.turn = activeTurn.turn
    <3>1. LineOK(i)' /\ activeTurn'.turn # NoTurn
      BY <2>1, <2>2, ReceivedTurnOK DEF TurnOK, LineOK
    <3> QED
      BY <3>1, ReceivedTurn DEF ReceivedEnd, ReceivedOther, NoActiveTurn
  <2>4. conv.elicitations[l.request] # Absent =>
          conv.elicitations[l.request].turn = activeTurn.turn
    BY <1>5, <2>1 DEF IInv, RequestsOK
  <2> QED
    BY <1>5, <2>1, <2>2, <2>3, <2>4, ReceivedElicitations
<1> QED
  BY <1>2, <1>3, <1>4, <1>5 DEF RequestsOK

\* A request that stays in the table is not the one the line completed.
LEMMA ReceivedPending ==
  IInv /\ Receives => PendingIsInFlight' /\ pending' \subseteq PendingRequest
<1> SUFFICES ASSUME IInv, Receives
             PROVE  PendingIsInFlight' /\ pending' \subseteq PendingRequest
  OBVIOUS
<1>1. /\ Head(toClient) = toClient[1] /\ 1 \in 1 .. Len(toClient)
      /\ toClient' = Tail(toClient) /\ toClient \in Seq(Line) /\ toClient # <<>>
  BY ReceivedLine DEF IInv, TypeOK, Receives, ReceiveLine
<1>2. UNCHANGED <<alive, agent, toAgent, early>>
  BY DEF Receives, agentVars, historyVars
<1>3. pending' = pending \ Completed(Head(toClient)) /\ pending \subseteq PendingRequest
  BY DEF Receives, ReceiveLine, IInv, TypeOK
<1>4. ASSUME alive, ~ early, NEW p \in pending'
      PROVE  \/ \E i \in 1..Len(toAgent) :
                  toAgent[i] = About(IF p.type = "StartTurn" THEN "turn/start"
                                     ELSE "turn/interrupt", p.turn)
             \/ agent.owes /\ p = StartTurn(agent.turn)
             \/ \E i \in 1..Len(toClient') : p \in Completed(toClient'[i])
  <2>1. ASSUME NEW i \in 1 .. Len(toClient), p \in Completed(toClient[i])
        PROVE  \E j \in 1..Len(toClient') : p \in Completed(toClient'[j])
    <3>1. i # 1
      BY <1>1, <1>3, <2>1
    <3>2. i - 1 \in 1 .. Len(toClient') /\ toClient'[i - 1] = toClient[i]
      BY <1>1, <3>1, TailItems
    <3> QED
      BY <2>1, <3>2
  <2> QED
    BY <1>3, <1>4, <2>1 DEF IInv, PendingIsInFlight
<1>5. PendingIsInFlight'
  BY <1>2, <1>4 DEF PendingIsInFlight
<1> QED
  BY <1>3, <1>5
-----------------------------------------------------------------------------
(* The steps of the session that read nothing.                             *)

\* What a pipe holds after one more item.
LEMMA AppendItems ==
  ASSUME NEW S, NEW s \in Seq(S), NEW x \in S
  PROVE  /\ Append(s, x) \in Seq(S)
         /\ Len(s) + 1 \in 1 .. Len(Append(s, x)) /\ Append(s, x)[Len(s) + 1] = x
         /\ \A i \in 1 .. Len(s) : i \in 1 .. Len(Append(s, x)) /\ Append(s, x)[i] = s[i]
         /\ \A i \in 1 .. Len(Append(s, x)) :
              \/ i \in 1 .. Len(s) /\ Append(s, x)[i] = s[i]
              \/ i = Len(s) + 1 /\ Append(s, x)[i] = x
  OBVIOUS

\* What the client writes is typed.
LEMMA CommandTyped ==
  /\ \A t \in Turns, type \in {"turn/start", "turn/interrupt"} :
       About(type, t) \in Command /\ About(type, t).type = type /\ About(type, t).turn = t
  /\ \A e \in Requests : [type |-> "answer", request |-> e] \in Command
  BY DEF About, Command

\* Such a step keeps the turn of the session, leaves the agent's end alone, and writes
\* at most one command, which is no turn/start.
ClientStep ==
  /\ UNCHANGED <<toClient, agentVars>>
  /\ activeTurn' \in ActiveTurn /\ activeTurn'.turn = activeTurn.turn
  /\ desktop' \in Phase /\ aborted' \in BOOLEAN
  /\ \/ UNCHANGED toAgent
     \/ \E x \in Command : alive /\ x.type # "turn/start" /\ toAgent' = Append(toAgent, x)

\* What it does to the conversation, the answers and the table.
ClientKeeps ==
  /\ ConvOK(conv')
  /\ KeepsActions(conv, conv')
  /\ \A e \in Requests :
       /\ conv'.elicitations[e] = Absent <=> conv.elicitations[e] = Absent
       /\ conv.elicitations[e] # Absent =>
            conv'.elicitations[e].turn = conv.elicitations[e].turn
       /\ answers'[e] \in {0, 1}
       /\ conv'.elicitations[e].phase \in {"absent", "open"} => answers'[e] = 0
  /\ answers' \in [Requests -> Nat]
  /\ early' \in BOOLEAN /\ (early => early')
  /\ pending' \subseteq PendingRequest
  /\ \A p \in pending' : \/ p \in pending \/ ~ alive \/ early'
                         \/ /\ p.type = "CancelTurn"
                            /\ toAgent' = Append(toAgent, About("turn/interrupt", p.turn))

\* Such a step keeps the invariant if it keeps what the session shows.
LEMMA ClientStepOK ==
  ASSUME IInv, ClientStep, ClientKeeps, SessionOK', ShownOK'
  PROVE  IInv'
<1>1. UNCHANGED <<toClient, alive, agent, asks, items>> /\ activeTurn'.turn = activeTurn.turn
  BY DEF ClientStep, agentVars
<1>2. /\ toAgent \in Seq(Command) /\ toAgent' \in Seq(Command)
      /\ \A i \in 1 .. Len(toAgent) : i \in 1 .. Len(toAgent') /\ toAgent'[i] = toAgent[i]
      /\ \A i \in 1 .. Len(toAgent') : toAgent'[i].type = "turn/start" =>
           i \in 1 .. Len(toAgent) /\ toAgent'[i] = toAgent[i]
      /\ ~ alive => toAgent' = toAgent
  <2>1. toAgent \in Seq(Command)
    BY DEF IInv, TypeOK
  <2>2. CASE UNCHANGED toAgent
    BY <2>1, <2>2
  <2>3. ASSUME NEW x \in Command, alive, x.type # "turn/start", toAgent' = Append(toAgent, x)
        PROVE  /\ toAgent' \in Seq(Command)
               /\ \A i \in 1 .. Len(toAgent) : i \in 1 .. Len(toAgent') /\ toAgent'[i] = toAgent[i]
               /\ \A i \in 1 .. Len(toAgent') : toAgent'[i].type = "turn/start" =>
                    i \in 1 .. Len(toAgent) /\ toAgent'[i] = toAgent[i]
    BY <2>1, <2>3, AppendItems
  <2> QED
    BY <2>1, <2>2, <2>3 DEF ClientStep
<1>3. TypeOK' /\ IsFiniteSet(asks)'
  <2>1. conv' \in ConversationState
    BY DEF ClientKeeps, ConvOK
  <2> QED
    BY <1>1, <1>2, <2>1 DEF IInv, TypeOK, ClientStep, ClientKeeps
<1>4. TurnOK'
  <2>1. ASSUME NEW i \in 1 .. Len(toAgent'), toAgent'[i].type = "turn/start"
        PROVE  StartOK(i)'
    <3>1. i \in 1 .. Len(toAgent) /\ toAgent'[i] = toAgent[i] /\ StartOK(i)
      BY <1>2, <2>1 DEF IInv, TurnOK
    <3> QED
      BY <1>1, <1>2, <3>1 DEF StartOK
  <2>2. ASSUME NEW i \in 1 .. Len(toClient'), TurnLine(toClient'[i])
        PROVE  LineOK(i)'
    BY <1>1, <2>2 DEF IInv, TurnOK, LineOK
  <2> QED
    BY <1>1, <1>2, <2>1, <2>2 DEF IInv, TurnOK
<1>5. ItemsOK'
  <2>1. ASSUME NEW a \in Items
        PROVE  /\ items'[a] = "new" => conv'.actions[a] = Absent
               /\ alive' /\ items'[a] = "running" =>
                    /\ agent'.turn # NoTurn
                    /\ conv'.actions[a] # Absent => conv'.actions[a].turn = agent'.turn
    BY <1>1 DEF IInv, ItemsOK, ClientKeeps, KeepsActions
  <2>2. ASSUME NEW i \in 1 .. Len(toClient'), ItemLine(toClient'[i]),
               toClient'[i].item # NoItem
        PROVE  /\ items'[toClient'[i].item] # "new"
               /\ conv'.actions[toClient'[i].item] # Absent =>
                    conv'.actions[toClient'[i].item].turn = toClient'[i].turn
    <3>1. toClient[i] \in Line /\ ItemLine(toClient[i]) /\ toClient[i].item # NoItem
      BY <1>1, <2>2, ItemTyped DEF IInv, TypeOK
    <3>2. toClient[i].item \in Items
      BY <3>1, LineFields DEF ItemLine
    <3>3. /\ items[toClient[i].item] # "new"
          /\ conv.actions[toClient[i].item] # Absent =>
               conv.actions[toClient[i].item].turn = toClient[i].turn
      BY <1>1, <3>1 DEF IInv, ItemsOK
    <3> QED
      BY <1>1, <3>2, <3>3 DEF ClientKeeps, KeepsActions
  <2> QED
    BY <2>1, <2>2 DEF ItemsOK
<1>6. RequestsOK'
  <2>1. ASSUME NEW e \in Requests
        PROVE  /\ answers'[e] <= 1
               /\ conv'.elicitations[e].phase \in {"absent", "open"} => answers'[e] = 0
               /\ e \in asks' /\ conv'.elicitations[e] # Absent =>
                    conv'.elicitations[e].turn = agent'.turn
    BY <1>1 DEF IInv, RequestsOK, ClientKeeps
  <2>2. \A i \in 1 .. Len(toClient) :
          toClient[i].type \in {"requestApproval", "serverRequest/resolved"} =>
            toClient[i].request \in Requests
    BY ItemTyped, LineFields DEF IInv, TypeOK
  <2>3. \A i \in 1 .. Len(toClient') : toClient'[i].type = "requestApproval" =>
          /\ conv'.elicitations[toClient'[i].request] = Absent
          /\ \A j \in 1 .. Len(toClient') :
               toClient'[j].type = "requestApproval"
                 /\ toClient'[j].request = toClient'[i].request => j = i
    BY <1>1, <2>2 DEF IInv, RequestsOK, ClientKeeps
  <2>4. \A i \in 1 .. Len(toClient') :
          /\ toClient'[i].type = "serverRequest/resolved"
          /\ conv'.elicitations[toClient'[i].request] # Absent
          => conv'.elicitations[toClient'[i].request].turn = activeTurn'.turn
    BY <1>1, <2>2 DEF IInv, RequestsOK, ClientKeeps
  <2> QED
    BY <2>1, <2>3, <2>4 DEF RequestsOK
<1>7. PendingIsInFlight'
  <2> SUFFICES ASSUME alive', ~ early', NEW p \in pending'
               PROVE  \/ \E i \in 1..Len(toAgent') :
                           toAgent'[i] = About(IF p.type = "StartTurn" THEN "turn/start"
                                              ELSE "turn/interrupt", p.turn)
                      \/ agent'.owes /\ p = StartTurn(agent'.turn)
                      \/ \E i \in 1..Len(toClient') : p \in Completed(toClient'[i])
    BY DEF PendingIsInFlight
  <2>1. CASE p \in pending
    <3>1. alive /\ ~ early
      BY <1>1 DEF ClientKeeps
    <3> QED
      BY <1>1, <1>2, <2>1, <3>1 DEF IInv, PendingIsInFlight
  <2>2. ASSUME p.type = "CancelTurn",
               toAgent' = Append(toAgent, About("turn/interrupt", p.turn))
        PROVE  \E i \in 1..Len(toAgent') :
                 toAgent'[i] = About(IF p.type = "StartTurn" THEN "turn/start"
                                    ELSE "turn/interrupt", p.turn)
    <3>1. p.turn \in Turns
      BY DEF ClientKeeps, PendingRequest
    <3> DEFINE x == About("turn/interrupt", p.turn)
    <3>2. x \in Command
      BY <3>1, CommandTyped
    <3> HIDE DEF x
    <3>3. Len(toAgent) + 1 \in 1 .. Len(toAgent') /\ toAgent'[Len(toAgent) + 1] = x
      BY <1>2, <2>2, <3>2, AppendItems DEF x
    <3>4. x = About(IF p.type = "StartTurn" THEN "turn/start" ELSE "turn/interrupt", p.turn)
      BY <2>2 DEF x
    <3> QED
      BY <3>3, <3>4
  <2> QED
    BY <1>1, <2>1, <2>2 DEF ClientKeeps
<1> QED
  BY <1>3, <1>4, <1>5, <1>6, <1>7 DEF IInv, ClientKeeps

\* The engine's end of a request that is answered.
LEMMA ResolveKeeps ==
  ASSUME IInv, NEW e, e = activeTurn.request, e # NoRequest, CanResolve(conv, e),
         NEW c, c = ElicitationResolved(ResolutionPlanned(conv, e), e)
  PROVE  /\ e \in Requests /\ activeTurn.turn \in conv.active
         /\ [activeTurn EXCEPT !.request = NoRequest] \in ActiveTurn
         /\ [activeTurn EXCEPT !.request = NoRequest].turn = activeTurn.turn
         /\ [activeTurn EXCEPT !.request = NoRequest].request = NoRequest
         /\ ConvOK(c) /\ c.active = conv.active /\ KeepsActions(conv, c)
         /\ \A f \in Requests :
              /\ c.elicitations[f] = Absent <=> conv.elicitations[f] = Absent
              /\ conv.elicitations[f] # Absent =>
                   c.elicitations[f].turn = conv.elicitations[f].turn
              /\ f # e => c.elicitations[f] = conv.elicitations[f]
         /\ conv.elicitations[e].phase = "open" /\ c.elicitations[e].phase = "resolved"
         /\ OpenRequests(c) = {}
         /\ c.turns[activeTurn.turn].phase = "reasoning"
<1> DEFINE d == ResolutionPlanned(conv, e)
           a == [activeTurn EXCEPT !.request = NoRequest]
<1>1. e \in Requests /\ ConvOK(conv) /\ activeTurn \in ActiveTurn
  BY DEF IInv, TypeOK, ActiveTurn
<1>2. a \in ActiveTurn /\ a.turn = activeTurn.turn /\ a.request = NoRequest
  BY <1>1 DEF ActiveTurn
<1>3. activeTurn.turn \in conv.active
  BY DEF IInv, ShownOK, SessionOK
<1>4. /\ ConvOK(d) /\ conv.elicitations[e] # Absent
      /\ conv.elicitations[e].turn \in conv.active
      /\ d.active = conv.active /\ d.actions = conv.actions
      /\ d.elicitations[e] # Absent /\ d.elicitations[e].turn = conv.elicitations[e].turn
      /\ \A f \in Requests : f # e => d.elicitations[f] = conv.elicitations[f]
  BY <1>1, ResolutionPlannedOK
<1>5. conv.elicitations[e].turn = activeTurn.turn
  BY <1>1, <1>3, <1>4, ActiveTurn1
<1> HIDE DEF d, a
<1>6. c = ElicitationResolved(d, e)
  BY DEF d
<1>7. /\ ConvOK(c) /\ c.active = d.active /\ KeepsActions(d, c) /\ KeepsRequests(d, c)
      /\ c.elicitations[e].phase = "resolved"
      /\ \A f \in Requests : f # e => c.elicitations[f] = d.elicitations[f]
      /\ c.turns[d.elicitations[e].turn].phase = "reasoning"
  BY <1>1, <1>4, <1>6, ElicitationResolvedOK
<1>8. KeepsActions(conv, c)
  BY <1>4, <1>7 DEF KeepsActions
<1>9. ASSUME NEW f \in Requests
      PROVE  /\ c.elicitations[f] = Absent <=> conv.elicitations[f] = Absent
             /\ conv.elicitations[f] # Absent =>
                  c.elicitations[f].turn = conv.elicitations[f].turn
             /\ f # e => c.elicitations[f] = conv.elicitations[f]
  BY <1>4, <1>7 DEF KeepsRequests
<1>10. OpenRequests(conv) = {e}
  BY <1>1 DEF IInv, ShownOK
<1>11. OpenRequests(c) = {}
  BY <1>7, <1>9, <1>10 DEF OpenRequests
<1> QED
  BY <1>1, <1>2, <1>3, <1>4, <1>5, <1>7, <1>8, <1>9, <1>11 DEF CanResolve, a

\* What the catch block does to the conversation c.
LEMMA ThrowsKeeps ==
  ASSUME NEW c, ConvOK(c), NEW requests, Throws(c, requests)
  PROVE  /\ ConvOK(conv') /\ conv'.active = c.active /\ conv'.actions = c.actions
         /\ conv'.elicitations = c.elicitations
         /\ \A u \in c.active : conv'.turns[u].phase = "awaiting_user" =>
              c.turns[u].phase = "awaiting_user"
         /\ desktop' = "idle"
         /\ pending' = requests \/ \E t \in c.active : pending' = requests \cup {CancelTurn(t)}
<1> DEFINE t == IF activeTurn'.turn # NoTurn THEN activeTurn'.turn ELSE c.focused
           cancels == aborted /\ CanCancel(c, t)
<1>1. /\ desktop' = "idle"
      /\ conv' = IF cancels THEN CancelPlanned(c, t) ELSE c
      /\ pending' = IF cancels THEN requests \cup {CancelTurn(t)} ELSE requests
  BY DEF Throws
<1> HIDE DEF t
<1>2. CASE cancels
  <2>1. t \in c.active /\ conv' = CancelPlanned(c, t)
    BY <1>1, <1>2 DEF CanCancel
  <2>2. \A u \in c.active : u = t
    BY <2>1 DEF ConvOK
  <2>3. conv'.turns[t].phase = "cancelling"
    BY <2>1, CancelPlannedOK
  <2> QED
    BY <1>1, <1>2, <2>1, <2>2, <2>3, CancelPlannedOK
<1>3. CASE ~ cancels
  BY <1>1, <1>3
<1> QED
  BY <1>2, <1>3
\* The engine starts a turn only when none is active.
LEMMA NoneActive ==
  ASSUME NEW c, ConvOK(c), CanStartTurn(c)
  PROVE  c.active = {}
<1> SUFFICES ASSUME NEW t \in c.active
             PROVE  FALSE
  OBVIOUS
<1>1. c.active = {t}
  BY ActiveTurn1
<1>2. Cardinality({t}) = 1
  BY FS_Singleton
<1> QED
  BY <1>1, <1>2 DEF CanStartTurn

\* At the engine nothing changes: the accounts of answers stand.
LEMMA SameAnswers ==
  ASSUME IInv, conv'.elicitations = conv.elicitations, UNCHANGED answers
  PROVE  /\ answers' \in [Requests -> Nat]
         /\ \A e \in Requests :
              /\ answers'[e] \in {0, 1}
              /\ conv'.elicitations[e].phase \in {"absent", "open"} => answers'[e] = 0
<1>1. answers \in [Requests -> Nat] /\ \A e \in Requests : answers[e] <= 1
  BY DEF IInv, TypeOK, RequestsOK
<1>2. \A e \in Requests : answers[e] \in {0, 1}
  BY <1>1
<1> QED
  BY <1>1, <1>2 DEF IInv, RequestsOK

\* A message begins, a read times out, the signal of a Stop fires.
LEMMA DesktopSteps == IInv /\ (SendBegins \/ TimesOut \/ Stops) => IInv'
<1> SUFFICES ASSUME IInv, SendBegins \/ TimesOut \/ Stops
             PROVE  IInv'
  OBVIOUS
<1>1. UNCHANGED <<conv, pending, activeTurn, toAgent, toClient, alive, agent, asks, items,
                  answers, early>>
  BY DEF SendBegins, TimesOut, Stops, agentVars, historyVars
<1>2. /\ activeTurn' \in ActiveTurn /\ activeTurn'.turn = activeTurn.turn
      /\ desktop' \in Phase /\ aborted' \in BOOLEAN
  BY <1>1 DEF IInv, TypeOK, SendBegins, TimesOut, Stops, Phase
<1>3. ClientStep
  BY <1>1, <1>2 DEF ClientStep, agentVars
<1>4. ClientKeeps
  <2>1. early \in BOOLEAN /\ pending \subseteq PendingRequest /\ ConvOK(conv)
    BY DEF IInv, TypeOK
  <2> QED
    BY <1>1, <2>1, SameAnswers DEF ClientKeeps, KeepsActions
<1>5. SessionOK'
  BY <1>1 DEF IInv, SessionOK, SendBegins, TimesOut, Stops, HasNoTurn
<1>6. ShownOK'
  BY <1>1 DEF IInv, ShownOK, OpenRequests, SendBegins, TimesOut, Stops
<1> QED
  BY <1>3, <1>4, <1>5, <1>6, ClientStepOK

\* The message throws, and nothing has come of it.
LEMMA ThrowStep ==
  ASSUME IInv, Throws(conv, pending),
         UNCHANGED <<activeTurn, aborted, toAgent, toClient, agentVars, answers>>,
         early' \in BOOLEAN, early => early', alive /\ ~ early' => HasNoTurn
  PROVE  IInv'
<1>1. /\ ConvOK(conv') /\ conv'.active = conv.active /\ conv'.actions = conv.actions
      /\ conv'.elicitations = conv.elicitations
      /\ \A u \in conv.active : conv'.turns[u].phase = "awaiting_user" =>
           conv.turns[u].phase = "awaiting_user"
      /\ desktop' = "idle"
      /\ pending' = pending \/ \E t \in conv.active : pending' = pending \cup {CancelTurn(t)}
  BY ThrowsKeeps DEF IInv
<1>2. ClientStep
  BY <1>1 DEF ClientStep, IInv, TypeOK, Phase
<1>3. ClientKeeps
  <2>1. pending \subseteq PendingRequest /\ ConvOK(conv)
    BY DEF IInv, TypeOK
  <2>2. \A t \in conv.active : CancelTurn(t) \in PendingRequest
    BY <2>1, ActiveTurn1 DEF CancelTurn, PendingRequest
  <2>3. pending' \subseteq PendingRequest
    BY <1>1, <2>1, <2>2
  <2>4. \A p \in pending' : p \in pending \/ ~ alive \/ early'
    BY <1>1 DEF HasNoTurn
  <2> QED
    BY <1>1, <2>3, <2>4, SameAnswers DEF ClientKeeps, KeepsActions
<1>4. SessionOK'
  BY <1>1 DEF IInv, SessionOK, HasNoTurn, agentVars
<1>5. ShownOK'
  BY <1>1 DEF IInv, ShownOK, SessionOK, OpenRequests
<1> QED
  BY <1>2, <1>3, <1>4, <1>5, ClientStepOK

\* The turn is refused, reading or draining fails, or the cancellation.
LEMMA ThrowSteps == IInv /\ (TurnRefused \/ ReadFails \/ CancelFails \/ DrainFails) => IInv'
<1> SUFFICES ASSUME IInv, TurnRefused \/ ReadFails \/ CancelFails \/ DrainFails
             PROVE  IInv'
  OBVIOUS
<1>1. /\ Throws(conv, pending)
      /\ UNCHANGED <<activeTurn, aborted, toAgent, toClient, agentVars, answers>>
  BY DEF TurnRefused, ReadFails, CancelFails, DrainFails, historyVars
<1>2. early \in BOOLEAN /\ alive \in BOOLEAN
  BY DEF IInv, TypeOK
<1>3. CASE TurnRefused
  <2>1. UNCHANGED early /\ desktop = "starting"
    BY <1>3 DEF TurnRefused, historyVars
  <2>2. alive /\ ~ early' => HasNoTurn
    BY <2>1 DEF IInv, SessionOK
  <2> QED
    BY <1>1, <1>2, <2>1, <2>2, ThrowStep
<1>4. CASE ReadFails \/ DrainFails
  <2>1. UNCHANGED early /\ ~ alive
    BY <1>4 DEF ReadFails, DrainFails, historyVars
  <2> QED
    BY <1>1, <1>2, <2>1, ThrowStep
<1>5. CASE CancelFails
  <2>1. early' = (early \/ alive)
    BY <1>5 DEF CancelFails
  <2>2. early' \in BOOLEAN /\ (early => early') /\ (alive => early')
    BY <1>2, <2>1
  <2> QED
    BY <1>1, <2>2, ThrowStep
<1> QED
  BY <1>3, <1>4, <1>5

\* The turn is planned, and the pipe is broken.
LEMMA TurnStartFailsStep ==
  ASSUME IInv, NEW t \in Turns, TurnStartFails(t)
  PROVE  IInv'
<1> DEFINE c == TurnPlanned(conv, t)
<1>1. /\ ~ alive /\ Throws(c, pending \cup {StartTurn(t)})
      /\ activeTurn = NoActiveTurn /\ CanStartTurn(conv) /\ conv.turns[t] = Absent
      /\ UNCHANGED <<activeTurn, aborted, toAgent, toClient, agentVars, answers, early>>
  BY DEF TurnStartFails, CanStart, NextTurn, historyVars
<1>2. ConvOK(conv) /\ conv.active = {}
  BY <1>1, NoneActive DEF IInv
<1>3. /\ ConvOK(c) /\ c.active = {t} /\ c.turns[t].phase = "starting"
      /\ KeepsActions(conv, c) /\ KeepsRequests(conv, c)
      /\ c.elicitations = conv.elicitations
  <2>1. c.elicitations = conv.elicitations
    BY <1>2 DEF ConvOK, TurnPlanned, ConversationState
  <2> QED
    BY <1>1, <1>2, <2>1, TurnPlannedOK
<1> HIDE DEF c
<1>4. /\ ConvOK(conv') /\ conv'.active = c.active /\ conv'.actions = c.actions
      /\ conv'.elicitations = c.elicitations /\ desktop' = "idle"
      /\ \/ pending' = pending \cup {StartTurn(t)}
         \/ \E u \in c.active : pending' = (pending \cup {StartTurn(t)}) \cup {CancelTurn(u)}
  BY <1>1, <1>3, ThrowsKeeps
<1>5. ClientStep
  BY <1>1, <1>4 DEF ClientStep, IInv, TypeOK, Phase
<1>6. ClientKeeps
  <2>1. pending \subseteq PendingRequest /\ early \in BOOLEAN
    BY DEF IInv, TypeOK
  <2>2. StartTurn(t) \in PendingRequest /\ CancelTurn(t) \in PendingRequest
    BY DEF CancelTurn, StartTurn, PendingRequest
  <2>3. pending' \subseteq PendingRequest
    BY <1>3, <1>4, <2>1, <2>2
  <2>4. KeepsActions(conv, conv')
    BY <1>3, <1>4 DEF KeepsActions
  <2>5. conv'.elicitations = conv.elicitations
    BY <1>3, <1>4
  <2>6. UNCHANGED <<answers, early>> /\ ~ alive /\ ConvOK(conv')
    BY <1>1, <1>4
  <2>7. /\ answers' \in [Requests -> Nat]
        /\ \A e \in Requests :
             /\ answers'[e] \in {0, 1}
             /\ conv'.elicitations[e].phase \in {"absent", "open"} => answers'[e] = 0
    BY <2>5, <2>6, SameAnswers
  <2> QED
    BY <2>1, <2>3, <2>4, <2>5, <2>6, <2>7 DEF ClientKeeps
<1>7. SessionOK'
  BY <1>1, <1>4 DEF SessionOK, NoActiveTurn, agentVars
<1>8. ShownOK'
  BY <1>1, <1>3, <1>4 DEF IInv, ShownOK, OpenRequests, NoActiveTurn
<1> QED
  BY <1>5, <1>6, <1>7, <1>8, ClientStepOK

\* An answer is given.
LEMMA ResolveSteps == IInv /\ (Answers \/ DrainCancels) => IInv'
<1> SUFFICES ASSUME IInv, Answers \/ DrainCancels
             PROVE  IInv'
  OBVIOUS
<1> DEFINE e == activeTurn.request
           x == [type |-> "answer", request |-> e]
<1>1. /\ alive /\ Resolve(e) /\ e # NoRequest
      /\ UNCHANGED <<pending, aborted, toClient, alive, agent, asks, items, early>>
      /\ desktop \in {"waiting", "draining"}
      /\ desktop' = "polling" \/ desktop' = "draining"
  BY DEF IInv, ShownOK, Answers, DrainCancels, agentVars
<1>2. /\ CanResolve(conv, e) /\ conv' = ElicitationResolved(ResolutionPlanned(conv, e), e)
      /\ toAgent' = Append(toAgent, x)
      /\ answers' = [answers EXCEPT ![e] = @ + 1]
      /\ activeTurn' = [activeTurn EXCEPT !.request = NoRequest]
  BY <1>1 DEF Resolve
<1> HIDE DEF e
<1>3. /\ e \in Requests /\ activeTurn.turn \in conv.active
      /\ activeTurn' \in ActiveTurn /\ activeTurn'.turn = activeTurn.turn
      /\ activeTurn'.request = NoRequest
      /\ ConvOK(conv') /\ conv'.active = conv.active /\ KeepsActions(conv, conv')
      /\ \A f \in Requests :
           /\ conv'.elicitations[f] = Absent <=> conv.elicitations[f] = Absent
           /\ conv.elicitations[f] # Absent =>
                conv'.elicitations[f].turn = conv.elicitations[f].turn
           /\ f # e => conv'.elicitations[f] = conv.elicitations[f]
      /\ conv.elicitations[e].phase = "open" /\ conv'.elicitations[e].phase = "resolved"
      /\ OpenRequests(conv') = {}
      /\ conv'.turns[activeTurn.turn].phase = "reasoning"
  BY <1>1, <1>2, ResolveKeeps DEF e
<1>4. ClientStep
  <2>1. x \in Command /\ x.type # "turn/start"
    BY <1>3, CommandTyped
  <2> HIDE DEF x
  <2> QED
    BY <1>1, <1>2, <1>3, <2>1 DEF ClientStep, agentVars, IInv, TypeOK, Phase
<1>5. ClientKeeps
  <2>1. answers \in [Requests -> Nat] /\ early \in BOOLEAN /\ pending \subseteq PendingRequest
    BY DEF IInv, TypeOK
  <2>2. answers' \in [Requests -> Nat]
    BY <1>2, <1>3, <2>1
  <2>3. answers[e] = 0 /\ answers'[e] = 1
    BY <1>2, <1>3, <2>1 DEF IInv, RequestsOK
  <2>4. ASSUME NEW f \in Requests
        PROVE  /\ answers'[f] \in {0, 1}
               /\ conv'.elicitations[f].phase \in {"absent", "open"} => answers'[f] = 0
    <3>1. CASE f = e
      BY <1>3, <2>3, <3>1
    <3>2. CASE f # e
      <4>1. answers'[f] = answers[f] /\ answers[f] \in Nat /\ answers[f] <= 1
        BY <1>2, <2>1, <3>2 DEF IInv, RequestsOK
      <4> QED
        BY <1>3, <3>2, <4>1 DEF IInv, RequestsOK
    <3> QED
      BY <3>1, <3>2
  <2> QED
    BY <1>1, <1>3, <2>1, <2>2, <2>4 DEF ClientKeeps
<1>6. SessionOK'
  BY <1>1, <1>3 DEF IInv, SessionOK
<1>7. ShownOK'
  BY <1>1, <1>3 DEF IInv, ShownOK
<1> QED
  BY <1>4, <1>5, <1>6, <1>7, ClientStepOK

\* An answer is taken for given, and the write fails.
LEMMA AnswerFailsStep ==
  ASSUME IInv, NEW phase, AnswerFails(phase)
  PROVE  IInv'
<1> DEFINE e == activeTurn.request
           c == ElicitationResolved(ResolutionPlanned(conv, e), e)
<1>1. /\ ~ alive /\ e # NoRequest /\ CanResolve(conv, e) /\ Throws(c, pending)
      /\ activeTurn' = [activeTurn EXCEPT !.request = NoRequest]
      /\ UNCHANGED <<aborted, toAgent, toClient, alive, agent, asks, items, answers, early>>
  BY DEF AnswerFails, agentVars, historyVars
<1> HIDE DEF e
<1>2. c = ElicitationResolved(ResolutionPlanned(conv, e), e)
  OBVIOUS
<1> HIDE DEF c
<1>3. /\ e \in Requests /\ activeTurn.turn \in conv.active
      /\ activeTurn' \in ActiveTurn /\ activeTurn'.turn = activeTurn.turn
      /\ activeTurn'.request = NoRequest
      /\ ConvOK(c) /\ c.active = conv.active /\ KeepsActions(conv, c)
      /\ \A f \in Requests :
           /\ c.elicitations[f] = Absent <=> conv.elicitations[f] = Absent
           /\ conv.elicitations[f] # Absent =>
                c.elicitations[f].turn = conv.elicitations[f].turn
           /\ f # e => c.elicitations[f] = conv.elicitations[f]
      /\ c.elicitations[e].phase = "resolved"
      /\ OpenRequests(c) = {}
      /\ c.turns[activeTurn.turn].phase = "reasoning"
  BY <1>1, <1>2, ResolveKeeps DEF e
<1>4. /\ ConvOK(conv') /\ conv'.active = c.active /\ conv'.actions = c.actions
      /\ conv'.elicitations = c.elicitations
      /\ \A u \in c.active : conv'.turns[u].phase = "awaiting_user" =>
           c.turns[u].phase = "awaiting_user"
      /\ desktop' = "idle"
      /\ pending' = pending \/ \E t \in c.active : pending' = pending \cup {CancelTurn(t)}
  BY <1>1, <1>3, ThrowsKeeps
<1>5. ClientStep
  BY <1>1, <1>3, <1>4 DEF ClientStep, agentVars, IInv, TypeOK, Phase
<1>6. ClientKeeps
  <2>1. answers \in [Requests -> Nat] /\ early \in BOOLEAN /\ pending \subseteq PendingRequest
    BY DEF IInv, TypeOK
  <2>2. \A t \in c.active : CancelTurn(t) \in PendingRequest
    BY <1>3, ActiveTurn1 DEF CancelTurn, PendingRequest
  <2>3. pending' \subseteq PendingRequest
    BY <1>4, <2>1, <2>2
  <2>4. ASSUME NEW f \in Requests
        PROVE  /\ answers'[f] \in {0, 1}
               /\ conv'.elicitations[f].phase \in {"absent", "open"} => answers'[f] = 0
    <3>1. answers[f] \in Nat /\ answers[f] <= 1
      BY <2>1 DEF IInv, RequestsOK
    <3> QED
      BY <1>1, <1>3, <1>4, <3>1 DEF IInv, RequestsOK
  <2>5. KeepsActions(conv, conv')
    BY <1>3, <1>4 DEF KeepsActions
  <2> QED
    BY <1>1, <1>3, <1>4, <2>1, <2>3, <2>4, <2>5 DEF ClientKeeps
<1>7. SessionOK'
  BY <1>1, <1>3, <1>4 DEF IInv, SessionOK
<1>8. ShownOK'
  <2>1. OpenRequests(conv') = {}
    BY <1>3, <1>4 DEF OpenRequests
  <2> QED
    BY <1>3, <1>4, <2>1 DEF IInv, ShownOK
<1> QED
  BY <1>5, <1>6, <1>7, <1>8, ClientStepOK

\* The interrupt is written.
LEMMA CancelBeginsStep == IInv /\ CancelBegins => IInv'
<1> SUFFICES ASSUME IInv, CancelBegins
             PROVE  IInv'
  OBVIOUS
<1> DEFINE t == activeTurn.turn
           x == About("turn/interrupt", t)
<1>1. /\ alive /\ t \in conv.active /\ conv' = CancelPlanned(conv, t)
      /\ pending' = pending \cup {CancelTurn(t)} /\ toAgent' = Append(toAgent, x)
      /\ desktop = "cancelling" /\ desktop' = "draining"
      /\ UNCHANGED <<activeTurn, aborted, toClient, alive, agent, asks, items, answers, early>>
  BY DEF CancelBegins, CanCancel, agentVars, historyVars
<1>2. t \in Turns /\ ConvOK(conv)
  BY <1>1, ActiveTurn1 DEF IInv
<1>3. /\ ConvOK(conv') /\ conv'.active = conv.active /\ conv'.actions = conv.actions
      /\ conv'.elicitations = conv.elicitations /\ conv'.turns[t].phase = "cancelling"
  BY <1>1, <1>2, CancelPlannedOK
<1>4. ClientStep
  <2>1. x \in Command /\ x.type # "turn/start"
    BY <1>2, CommandTyped
  <2> HIDE DEF x
  <2> QED
    BY <1>1, <2>1 DEF ClientStep, agentVars, IInv, TypeOK, Phase
<1>5. ClientKeeps
  <2>1. pending \subseteq PendingRequest /\ early \in BOOLEAN
    BY DEF IInv, TypeOK
  <2>2. /\ CancelTurn(t) \in PendingRequest /\ CancelTurn(t).type = "CancelTurn"
        /\ CancelTurn(t).turn = t
    BY <1>2 DEF CancelTurn, PendingRequest
  <2> HIDE DEF t
  <2>3. /\ pending' \subseteq PendingRequest
        /\ \A p \in pending' : \/ p \in pending
                               \/ /\ p.type = "CancelTurn"
                                  /\ toAgent' = Append(toAgent, About("turn/interrupt", p.turn))
    BY <1>1, <2>1, <2>2
  <2> QED
    BY <1>1, <1>3, <2>1, <2>3, SameAnswers DEF ClientKeeps, KeepsActions
<1>6. SessionOK'
  BY <1>1, <1>3 DEF IInv, SessionOK
<1>7. ShownOK'
  BY <1>1, <1>3 DEF IInv, ShownOK, OpenRequests
<1> QED
  BY <1>4, <1>5, <1>6, <1>7, ClientStepOK

\* The turn is planned, and turn/start is written.
LEMMA TurnStartsStep ==
  ASSUME IInv, NEW t \in Turns, TurnStarts(t)
  PROVE  IInv'
<1> DEFINE x == About("turn/start", t)
<1>1. /\ alive /\ activeTurn = NoActiveTurn /\ CanStartTurn(conv) /\ conv.turns[t] = Absent
      /\ conv' = TurnPlanned(conv, t) /\ pending' = pending \cup {StartTurn(t)}
      /\ toAgent' = Append(toAgent, x) /\ activeTurn' = [turn |-> t, request |-> NoRequest]
      /\ desktop' \in {"cancelling", "polling"}
      /\ UNCHANGED <<aborted, toClient, alive, agent, asks, items, answers, early>>
  BY DEF TurnStarts, CanStart, NextTurn, agentVars, historyVars
<1>2. ConvOK(conv) /\ conv.active = {}
  BY <1>1, NoneActive DEF IInv
<1>3. /\ ConvOK(conv') /\ conv'.active = {t} /\ conv'.turns[t].phase = "starting"
      /\ KeepsActions(conv, conv') /\ conv'.elicitations = conv.elicitations
  <2>1. conv'.elicitations = conv.elicitations
    BY <1>1, <1>2 DEF ConvOK, TurnPlanned, ConversationState
  <2> QED
    BY <1>1, <1>2, <2>1, TurnPlannedOK
<1>4. activeTurn.turn = NoTurn /\ t # NoTurn /\ activeTurn' \in ActiveTurn
      /\ activeTurn'.turn = t /\ activeTurn'.request = NoRequest
      /\ activeTurn.request = NoRequest
  BY <1>1, TurnsAssumption DEF NoActiveTurn, ActiveTurn
<1>5. x \in Command /\ x.type = "turn/start" /\ x.turn = t
  BY CommandTyped
<1> HIDE DEF x
<1>6. /\ toAgent' \in Seq(Command)
      /\ Len(toAgent) + 1 \in 1 .. Len(toAgent') /\ toAgent'[Len(toAgent) + 1] = x
      /\ \A i \in 1 .. Len(toAgent) : i \in 1 .. Len(toAgent') /\ toAgent'[i] = toAgent[i]
      /\ \A i \in 1 .. Len(toAgent') :
           \/ i \in 1 .. Len(toAgent) /\ toAgent'[i] = toAgent[i]
           \/ i = Len(toAgent) + 1 /\ toAgent'[i] = x
  BY <1>1, <1>5, AppendItems DEF IInv, TypeOK
<1>7. agent.turn = NoTurn /\ agent = Resting /\ asks = {}
  BY <1>4 DEF IInv, TurnOK
<1>8. \A i \in 1 .. Len(toClient) : ~ TurnLine(toClient[i])
  BY <1>4 DEF IInv, TurnOK, LineOK
<1>9. \A i \in 1 .. Len(toAgent) : toAgent[i].type # "turn/start"
  <2> SUFFICES ASSUME NEW i \in 1 .. Len(toAgent), toAgent[i].type = "turn/start"
               PROVE  FALSE
    OBVIOUS
  <2>1. toAgent[i].turn = NoTurn
    BY <1>4 DEF IInv, TurnOK, StartOK
  <2>2. toAgent[i] \in Command
    BY ItemTyped DEF IInv, TypeOK
  <2>3. toAgent[i].turn \in Turns
    BY <2>2 DEF Command
  <2> QED
    BY <2>1, <2>3, TurnsAssumption
<1>10. TypeOK' /\ IsFiniteSet(asks)'
  <2>1. StartTurn(t) \in PendingRequest
    BY DEF StartTurn, PendingRequest
  <2>2. conv' \in ConversationState
    BY <1>3 DEF ConvOK
  <2> QED
    BY <1>1, <1>4, <1>6, <2>1, <2>2 DEF IInv, TypeOK, Phase
<1>11. SessionOK'
  BY <1>1, <1>3, <1>4 DEF SessionOK
<1>12. TurnOK'
  <2>1. ASSUME NEW i \in 1 .. Len(toAgent'), toAgent'[i].type = "turn/start"
        PROVE  StartOK(i)'
    <3>1. i = Len(toAgent) + 1 /\ toAgent'[i] = x
      BY <1>6, <1>9, <2>1
    <3>2. \A j \in 1 .. Len(toAgent') : toAgent'[j].type = "turn/start" => j = i
      BY <1>6, <1>9, <3>1
    <3> QED
      BY <1>1, <1>4, <1>5, <1>7, <1>8, <3>1, <3>2 DEF StartOK
  <2>2. \A i \in 1 .. Len(toClient') : ~ TurnLine(toClient'[i])
    BY <1>1, <1>8
  <2> QED
    BY <1>1, <1>7, <2>1, <2>2 DEF TurnOK
<1>13. ItemsOK'
  <2>1. ASSUME NEW a \in Items
        PROVE  /\ items'[a] = "new" => conv'.actions[a] = Absent
               /\ alive' /\ items'[a] = "running" =>
                    /\ agent'.turn # NoTurn
                    /\ conv'.actions[a] # Absent => conv'.actions[a].turn = agent'.turn
    BY <1>1, <1>3 DEF IInv, ItemsOK, KeepsActions
  <2>2. \A i \in 1 .. Len(toClient') : ~ ItemLine(toClient'[i])
    BY <1>1, <1>8 DEF ItemLine, TurnLine
  <2> QED
    BY <2>1, <2>2 DEF ItemsOK
<1>14. RequestsOK'
  <2>1. \A i \in 1 .. Len(toClient') :
          toClient'[i].type \notin {"requestApproval", "serverRequest/resolved"}
    BY <1>1, <1>8 DEF TurnLine
  <2>2. \A e \in Requests : answers[e] <= 1
          /\ (conv.elicitations[e].phase \in {"absent", "open"} => answers[e] = 0)
    BY DEF IInv, RequestsOK
  <2> QED
    BY <1>1, <1>3, <1>7, <2>1, <2>2 DEF RequestsOK
<1>15. ShownOK'
  <2>1. OpenRequests(conv') = OpenRequests(conv)
    BY <1>3 DEF OpenRequests
  <2> QED
    BY <1>1, <1>3, <1>4, <2>1 DEF IInv, ShownOK
<1>16. PendingIsInFlight'
  <2> SUFFICES ASSUME alive', ~ early', NEW p \in pending'
               PROVE  \/ \E i \in 1..Len(toAgent') :
                           toAgent'[i] = About(IF p.type = "StartTurn" THEN "turn/start"
                                              ELSE "turn/interrupt", p.turn)
                      \/ agent'.owes /\ p = StartTurn(agent'.turn)
                      \/ \E i \in 1..Len(toClient') : p \in Completed(toClient'[i])
    BY DEF PendingIsInFlight
  <2>1. CASE p \in pending
    BY <1>1, <1>6, <2>1 DEF IInv, PendingIsInFlight
  <2>2. CASE p = StartTurn(t)
    <3>1. x = About(IF p.type = "StartTurn" THEN "turn/start" ELSE "turn/interrupt", p.turn)
      BY <2>2 DEF x, StartTurn
    <3> QED
      BY <1>6, <3>1
  <2> QED
    BY <1>1, <2>1, <2>2
<1> QED
  BY <1>3, <1>10, <1>11, <1>12, <1>13, <1>14, <1>15, <1>16 DEF IInv

\* A line is read, while the message goes on, while a turn is being stopped, or between
\* two messages.
LEMMA ReadSteps == IInv /\ (Reads \/ DrainReads \/ Hydrates) => IInv'
<1> SUFFICES ASSUME IInv, Reads \/ DrainReads \/ Hydrates
             PROVE  IInv'
  OBVIOUS
<1>1. Receives /\ UNCHANGED <<aborted, alive, agent, asks, items, answers, early, toAgent>>
  BY DEF Reads, DrainReads, Hydrates, Receives, IInv, ShownOK, NoActiveTurn, agentVars,
         historyVars
<1>2. ConvOK(conv') /\ activeTurn' \in ActiveTurn /\ (ReceivedEnd \/ ReceivedOther)
  BY <1>1, ReceivedTurn
<1>3. TurnOK' /\ ItemsOK' /\ RequestsOK' /\ PendingIsInFlight' /\ pending' \subseteq PendingRequest
  BY <1>1, ReceivedTurnOK, ReceivedItems, ReceivedRequests, ReceivedPending
<1>4. /\ desktop' \in Phase
      /\ desktop' = "polling" => activeTurn'.turn # NoTurn /\ activeTurn'.request = NoRequest
      /\ desktop' = "waiting" => activeTurn'.turn # NoTurn /\ activeTurn'.request # NoRequest
      /\ desktop' \in {"cancelling", "draining"} => activeTurn'.turn # NoTurn
      /\ desktop' \in {"idle", "starting"} =>
           activeTurn'.turn = NoTurn \/ activeTurn = NoActiveTurn
  BY DEF IInv, TypeOK, Reads, DrainReads, Hydrates, Phase
<1>5. TypeOK' /\ IsFiniteSet(asks)'
  <2>1. conv' \in ConversationState /\ toClient' \in Seq(Line)
    BY <1>1, <1>2, ReceivedLine DEF ConvOK
  <2> QED
    BY <1>1, <1>2, <1>3, <1>4, <2>1 DEF IInv, TypeOK
<1>6. SessionOK' /\ ShownOK'
  <2>1. CASE ReceivedEnd
    <3>1. /\ activeTurn' = NoActiveTurn /\ activeTurn'.turn = NoTurn
          /\ activeTurn'.request = NoRequest
          /\ conv'.active = {} /\ OpenRequests(conv') = {}
      BY <2>1 DEF ReceivedEnd, NoActiveTurn
    <3>2. SessionOK'
      BY <1>4, <3>1 DEF SessionOK, HasNoTurn
    <3> QED
      BY <1>4, <3>1, <3>2 DEF ShownOK
  <2>2. CASE ReceivedOther
    <3>1. /\ conv'.active = conv.active /\ activeTurn'.turn = activeTurn.turn
          /\ activeTurn.turn = NoTurn => activeTurn'.request = NoRequest
          /\ OpenRequests(conv') = {activeTurn'.request} \ {NoRequest}
          /\ activeTurn.turn # NoTurn /\ conv'.turns[activeTurn.turn].phase = "awaiting_user" =>
               activeTurn'.request # NoRequest
      BY <2>2 DEF ReceivedOther
    <3>2. activeTurn'.turn # NoTurn => activeTurn'.turn \in conv'.active
      BY <3>1 DEF IInv, SessionOK
    <3>3. ASSUME alive', ~ early', desktop' \in {"idle", "starting"}
          PROVE  HasNoTurn'
      <4>1. activeTurn'.turn = NoTurn
        BY <1>4, <3>1, <3>3 DEF NoActiveTurn
      <4>2. activeTurn'.request = NoRequest
        BY <3>1, <4>1
      <4>3. activeTurn' = NoActiveTurn
        BY <1>2, <4>1, <4>2 DEF ActiveTurn, NoActiveTurn
      <4>4. desktop = "idle" \/ desktop' = "starting"
        BY <4>1, <3>1, <3>3 DEF IInv, SessionOK, Reads, DrainReads, Hydrates
      <4>5. desktop = "idle"
        BY <4>4 DEF Reads, DrainReads, Hydrates
      <4>6. conv.active = {}
        BY <1>1, <3>3, <4>5 DEF IInv, SessionOK, HasNoTurn
      <4> QED
        BY <3>1, <4>3, <4>6 DEF HasNoTurn
    <3>4. SessionOK'
      BY <1>4, <3>2, <3>3 DEF SessionOK
    <3> QED
      BY <1>4, <3>1, <3>4 DEF ShownOK
  <2> QED
    BY <1>2, <2>1, <2>2
<1> QED
  BY <1>2, <1>3, <1>5, <1>6 DEF IInv

-----------------------------------------------------------------------------
(* The steps of the agent.                                                 *)

\* What a pipe holds after some more items.
LEMMA WrittenItems ==
  ASSUME NEW S, NEW s \in Seq(S), NEW r \in Seq(S)
  PROVE  /\ s \o r \in Seq(S)
         /\ \A i \in 1 .. Len(s) : i \in 1 .. Len(s \o r) /\ (s \o r)[i] = s[i]
         /\ \A k \in 1 .. Len(r) : Len(s) + k \in 1 .. Len(s \o r) /\ (s \o r)[Len(s) + k] = r[k]
         /\ \A i \in 1 .. Len(s \o r) :
              \/ i \in 1 .. Len(s) /\ (s \o r)[i] = s[i]
              \/ \E k \in 1 .. Len(r) : i = Len(s) + k /\ (s \o r)[i] = r[k]
<1>1. s \o r \in Seq(S) /\ Len(s \o r) = Len(s) + Len(r) /\ Len(s) \in Nat /\ Len(r) \in Nat
  OBVIOUS
<1>2. \A i \in 1 .. Len(s) : i \in 1 .. Len(s \o r) /\ (s \o r)[i] = s[i]
  BY <1>1
<1>3. \A k \in 1 .. Len(r) : Len(s) + k \in 1 .. Len(s \o r) /\ (s \o r)[Len(s) + k] = r[k]
  BY <1>1
<1>4. ASSUME NEW i \in 1 .. Len(s \o r), i \notin 1 .. Len(s)
      PROVE  \E k \in 1 .. Len(r) : i = Len(s) + k
  <2>1. i - Len(s) \in 1 .. Len(r) /\ i = Len(s) + (i - Len(s))
    BY <1>1, <1>4
  <2> QED
    BY <2>1
<1> QED
  BY <1>1, <1>2, <1>3, <1>4

\* The agent, which is alive, writes some lines and takes one command at most.
AgentMoves(lines) ==
  /\ alive /\ UNCHANGED <<alive, clientVars>>
  /\ lines \in Seq(Line) /\ toClient' = toClient \o lines
  /\ UNCHANGED toAgent \/ (toAgent # <<>> /\ toAgent' = Tail(toAgent))
  /\ agent' \in Agent
  /\ asks' \subseteq Requests /\ IsFiniteSet(asks')
  /\ items' \in [Items -> {"new", "running", "done"}]

\* What it does with its items ...
ItemsMove(lines) ==
  /\ \A a \in Items :
       /\ items'[a] = "new" => items[a] = "new"
       /\ items'[a] = "running" =>
            agent.turn # NoTurn /\ agent'.turn = agent.turn /\ items[a] \in {"new", "running"}
  /\ \A k \in 1 .. Len(lines) : ItemLine(lines[k]) /\ lines[k].item # NoItem =>
       /\ items'[lines[k].item] # "new" /\ items[lines[k].item] \in {"new", "running"}
       /\ agent.turn # NoTurn /\ lines[k].turn = agent.turn

\* ... and its requests ...
RequestsMove(lines) ==
  /\ \A e \in asks' : (e \in asks /\ agent'.turn = agent.turn) \/ conv.elicitations[e] = Absent
  /\ \A k \in 1 .. Len(lines) : lines[k].type = "requestApproval" =>
       Len(lines) = 1 /\ ~ Asked(lines[k].request)
  /\ \A k \in 1 .. Len(lines) : lines[k].type = "serverRequest/resolved" =>
       lines[k].request \in asks

\* ... and what it owes: what it takes it answers at once, or owes the response.
CommandOf(p) == About(IF p.type = "StartTurn" THEN "turn/start" ELSE "turn/interrupt", p.turn)
PendingMove(lines) ==
  /\ toAgent' # toAgent => \A p \in PendingRequest : Head(toAgent) = CommandOf(p) =>
       \/ agent'.owes /\ p = StartTurn(agent'.turn)
       \/ \E k \in 1 .. Len(lines) : p \in Completed(lines[k])
  /\ agent.owes => \/ agent'.owes /\ agent'.turn = agent.turn
                   \/ \E k \in 1 .. Len(lines) : StartTurn(agent.turn) \in Completed(lines[k])

\* What the pipes hold after such a step.
LEMMA MovedPipes ==
  ASSUME IInv, NEW lines, AgentMoves(lines)
  PROVE  /\ toClient' \in Seq(Line) /\ toAgent' \in Seq(Command)
         /\ \A i \in 1 .. Len(toClient) : i \in 1 .. Len(toClient') /\ toClient'[i] = toClient[i]
         /\ \A k \in 1 .. Len(lines) :
              Len(toClient) + k \in 1 .. Len(toClient') /\ toClient'[Len(toClient) + k] = lines[k]
         /\ \A i \in 1 .. Len(toClient') :
              \/ i \in 1 .. Len(toClient) /\ toClient'[i] = toClient[i]
              \/ \E k \in 1 .. Len(lines) : i = Len(toClient) + k /\ toClient'[i] = lines[k]
         /\ \/ toAgent' = toAgent
            \/ /\ toAgent # <<>> /\ Head(toAgent) = toAgent[1] /\ 1 \in 1 .. Len(toAgent)
               /\ Head(toAgent) \in Command
               /\ \A i \in 1 .. Len(toAgent') :
                    i + 1 \in 1 .. Len(toAgent) /\ toAgent'[i] = toAgent[i + 1]
               /\ \A i \in 1 .. Len(toAgent) : i # 1 =>
                    i - 1 \in 1 .. Len(toAgent') /\ toAgent'[i - 1] = toAgent[i]
<1>1. toClient \in Seq(Line) /\ toAgent \in Seq(Command) /\ lines \in Seq(Line)
      /\ toClient' = toClient \o lines
  BY DEF IInv, TypeOK, AgentMoves
<1>2. CASE toAgent' = toAgent
  BY <1>1, <1>2, WrittenItems
<1>3. CASE toAgent # <<>> /\ toAgent' = Tail(toAgent)
  <2>1. /\ toAgent' \in Seq(Command) /\ Head(toAgent) \in Command
        /\ Head(toAgent) = toAgent[1] /\ 1 \in 1 .. Len(toAgent)
        /\ \A i \in 1 .. Len(toAgent') :
             i + 1 \in 1 .. Len(toAgent) /\ toAgent'[i] = toAgent[i + 1]
        /\ \A i \in 1 .. Len(toAgent) : i # 1 =>
             i - 1 \in 1 .. Len(toAgent') /\ toAgent'[i - 1] = toAgent[i]
    BY <1>1, <1>3, TailItems
  <2> QED
    BY <1>1, <1>3, <2>1, WrittenItems
<1> QED
  BY <1>2, <1>3 DEF AgentMoves

\* Such a step keeps the invariant if it keeps the order of the turn.
LEMMA AgentStepOK ==
  ASSUME IInv, NEW lines, AgentMoves(lines), ItemsMove(lines), RequestsMove(lines),
         PendingMove(lines), TurnOK'
  PROVE  IInv'
<1>1. /\ toClient' \in Seq(Line) /\ toAgent' \in Seq(Command)
      /\ \A i \in 1 .. Len(toClient) : i \in 1 .. Len(toClient') /\ toClient'[i] = toClient[i]
      /\ \A k \in 1 .. Len(lines) :
           Len(toClient) + k \in 1 .. Len(toClient') /\ toClient'[Len(toClient) + k] = lines[k]
      /\ \A i \in 1 .. Len(toClient') :
           \/ i \in 1 .. Len(toClient) /\ toClient'[i] = toClient[i]
           \/ \E k \in 1 .. Len(lines) : i = Len(toClient) + k /\ toClient'[i] = lines[k]
  BY MovedPipes
<1>2. /\ alive /\ lines \in Seq(Line)
      /\ UNCHANGED <<conv, pending, activeTurn, desktop, aborted, answers, early, alive>>
  BY DEF AgentMoves, clientVars, historyVars
<1>3. TypeOK' /\ IsFiniteSet(asks)'
  BY <1>1, <1>2 DEF AgentMoves, IInv, TypeOK
<1>4. ConvOK(conv)' /\ SessionOK' /\ ShownOK'
  BY <1>2 DEF IInv, SessionOK, ShownOK, HasNoTurn
<1>5. ItemsOK'
  <2>1. ASSUME NEW a \in Items
        PROVE  /\ items'[a] = "new" => conv'.actions[a] = Absent
               /\ alive' /\ items'[a] = "running" =>
                    /\ agent'.turn # NoTurn
                    /\ conv'.actions[a] # Absent => conv'.actions[a].turn = agent'.turn
    BY <1>2 DEF IInv, ItemsOK, ItemsMove
  <2>2. ASSUME NEW i \in 1 .. Len(toClient'), ItemLine(toClient'[i]),
               toClient'[i].item # NoItem
        PROVE  /\ items'[toClient'[i].item] # "new"
               /\ conv'.actions[toClient'[i].item] # Absent =>
                    conv'.actions[toClient'[i].item].turn = toClient'[i].turn
    <3> DEFINE l == toClient'[i]
    <3>1. l \in Line
      BY <1>1, ItemTyped
    <3>2. l.item \in Items
      BY <2>2, <3>1, LineFields DEF ItemLine
    <3>3. CASE i \in 1 .. Len(toClient) /\ l = toClient[i]
      <4>1. items[l.item] # "new"
            /\ (conv.actions[l.item] # Absent => conv.actions[l.item].turn = l.turn)
        BY <2>2, <3>3 DEF IInv, ItemsOK
      <4> QED
        BY <1>2, <3>2, <4>1 DEF ItemsMove
    <3>4. ASSUME NEW k \in 1 .. Len(lines), l = lines[k]
          PROVE  items'[l.item] # "new"
                 /\ (conv.actions[l.item] # Absent => conv.actions[l.item].turn = l.turn)
      <4>1. /\ items'[l.item] # "new" /\ items[l.item] \in {"new", "running"}
            /\ agent.turn # NoTurn /\ l.turn = agent.turn
        BY <2>2, <3>4 DEF ItemsMove
      <4> HIDE DEF l
      <4> QED
        BY <1>2, <3>2, <4>1 DEF IInv, ItemsOK
    <3> QED
      BY <1>1, <1>2, <3>3, <3>4
  <2> QED
    BY <2>1, <2>2 DEF ItemsOK
<1>6. RequestsOK'
  <2>1. ASSUME NEW e \in Requests
        PROVE  /\ answers'[e] <= 1
               /\ conv'.elicitations[e].phase \in {"absent", "open"} => answers'[e] = 0
               /\ e \in asks' /\ conv'.elicitations[e] # Absent =>
                    conv'.elicitations[e].turn = agent'.turn
    BY <1>2 DEF IInv, RequestsOK, RequestsMove
  <2>2. ASSUME NEW i \in 1 .. Len(toClient'), toClient'[i].type = "requestApproval"
        PROVE  /\ conv'.elicitations[toClient'[i].request] = Absent
               /\ \A j \in 1 .. Len(toClient') :
                    toClient'[j].type = "requestApproval"
                      /\ toClient'[j].request = toClient'[i].request => j = i
    <3>1. CASE i \in 1 .. Len(toClient) /\ toClient'[i] = toClient[i]
      <4>1. /\ conv.elicitations[toClient[i].request] = Absent
            /\ \A j \in 1 .. Len(toClient) :
                 toClient[j].type = "requestApproval"
                   /\ toClient[j].request = toClient[i].request => j = i
        BY <2>2, <3>1 DEF IInv, RequestsOK
      <4>2. \A k \in 1 .. Len(lines) :
              ~ (lines[k].type = "requestApproval" /\ lines[k].request = toClient[i].request)
        BY <2>2, <3>1 DEF RequestsMove, Asked
      <4> QED
        BY <1>1, <1>2, <3>1, <4>1, <4>2
    <3>2. ASSUME NEW k \in 1 .. Len(lines), i = Len(toClient) + k, toClient'[i] = lines[k]
          PROVE  /\ conv'.elicitations[toClient'[i].request] = Absent
                 /\ \A j \in 1 .. Len(toClient') :
                      toClient'[j].type = "requestApproval"
                        /\ toClient'[j].request = toClient'[i].request => j = i
      <4>1. Len(lines) = 1 /\ ~ Asked(lines[k].request)
        BY <2>2, <3>2 DEF RequestsMove
      <4>2. /\ conv.elicitations[lines[k].request] = Absent
            /\ \A j \in 1 .. Len(toClient) :
                 ~ (toClient[j].type = "requestApproval" /\ toClient[j].request = lines[k].request)
        BY <4>1 DEF Asked
      <4>3. \A m \in 1 .. Len(lines) : m = k
        BY <4>1
      <4> QED
        BY <1>1, <1>2, <3>2, <4>2, <4>3
    <3> QED
      BY <1>1, <3>1, <3>2
  <2>3. ASSUME NEW i \in 1 .. Len(toClient'), toClient'[i].type = "serverRequest/resolved",
               conv'.elicitations[toClient'[i].request] # Absent
        PROVE  conv'.elicitations[toClient'[i].request].turn = activeTurn'.turn
    <3>1. CASE i \in 1 .. Len(toClient) /\ toClient'[i] = toClient[i]
      BY <1>2, <2>3, <3>1 DEF IInv, RequestsOK
    <3>2. ASSUME NEW k \in 1 .. Len(lines), toClient'[i] = lines[k]
          PROVE  conv'.elicitations[toClient'[i].request].turn = activeTurn'.turn
      <4> DEFINE e == lines[k].request
      <4>1. e \in asks
        BY <2>3, <3>2 DEF RequestsMove
      <4>2. agent.turn # NoTurn /\ agent.turn = activeTurn.turn /\ e \in Requests
        BY <4>1 DEF IInv, TypeOK, TurnOK
      <4> HIDE DEF e
      <4>3. conv.elicitations[e] # Absent => conv.elicitations[e].turn = agent.turn
        BY <4>1, <4>2 DEF IInv, RequestsOK
      <4> QED
        BY <1>2, <2>3, <3>2, <4>2, <4>3 DEF e
    <3> QED
      BY <1>1, <3>1, <3>2
  <2> QED
    BY <2>1, <2>2, <2>3 DEF RequestsOK
<1>7. PendingIsInFlight'
  <2> SUFFICES ASSUME alive', ~ early', NEW p \in pending'
               PROVE  \/ \E i \in 1..Len(toAgent') : toAgent'[i] = CommandOf(p)
                      \/ agent'.owes /\ p = StartTurn(agent'.turn)
                      \/ \E i \in 1..Len(toClient') : p \in Completed(toClient'[i])
    BY DEF PendingIsInFlight, CommandOf
  <2>1. \/ \E i \in 1..Len(toAgent) : toAgent[i] = CommandOf(p)
        \/ agent.owes /\ p = StartTurn(agent.turn)
        \/ \E i \in 1..Len(toClient) : p \in Completed(toClient[i])
    BY <1>2 DEF IInv, PendingIsInFlight, CommandOf
  <2>2. p \in PendingRequest
    BY <1>2 DEF IInv, TypeOK
  <2>3. ASSUME NEW k \in 1 .. Len(lines), p \in Completed(lines[k])
        PROVE  \E i \in 1..Len(toClient') : p \in Completed(toClient'[i])
    BY <1>1, <2>3
  <2>4. ASSUME NEW i \in 1..Len(toAgent), toAgent[i] = CommandOf(p)
        PROVE  \/ \E j \in 1..Len(toAgent') : toAgent'[j] = CommandOf(p)
               \/ agent'.owes /\ p = StartTurn(agent'.turn)
               \/ \E k \in 1 .. Len(lines) : p \in Completed(lines[k])
    <3>1. CASE toAgent' = toAgent
      BY <2>4, <3>1
    <3>2. CASE toAgent' # toAgent
      <4>1. /\ Head(toAgent) = toAgent[1]
            /\ i # 1 => i - 1 \in 1 .. Len(toAgent') /\ toAgent'[i - 1] = toAgent[i]
        BY <3>2, MovedPipes
      <4>2. CASE i = 1
        BY <2>2, <2>4, <3>2, <4>1, <4>2 DEF PendingMove
      <4>3. CASE i # 1
        BY <2>4, <4>1, <4>3
      <4> QED
        BY <4>2, <4>3
    <3> QED
      BY <3>1, <3>2
  <2>5. CASE agent.owes /\ p = StartTurn(agent.turn)
    BY <2>3, <2>5 DEF PendingMove
  <2>6. CASE \E i \in 1..Len(toClient) : p \in Completed(toClient[i])
    BY <1>1, <2>6
  <2> QED
    BY <2>1, <2>3, <2>4, <2>5, <2>6
<1> QED
  BY <1>3, <1>4, <1>5, <1>6, <1>7 DEF IInv

\* The order of the turn is kept by a step that neither begins nor ends one.
LEMMA WorkTurn ==
  ASSUME IInv, NEW lines, AgentMoves(lines), agent'.turn = agent.turn,
         agent'.turn = NoTurn => agent' = Resting /\ asks' = {},
         toAgent' # toAgent => Head(toAgent).type # "turn/start",
         \A k \in 1 .. Len(lines) : TurnLine(lines[k]) =>
           /\ agent.turn # NoTurn /\ ~ EndLine(lines[k])
           /\ lines[k].type # "serverRequest/resolved" => lines[k].turn = agent.turn
  PROVE  TurnOK'
<1>1. /\ \A i \in 1 .. Len(toClient) : i \in 1 .. Len(toClient') /\ toClient'[i] = toClient[i]
      /\ \A i \in 1 .. Len(toClient') :
           \/ i \in 1 .. Len(toClient) /\ toClient'[i] = toClient[i]
           \/ \E k \in 1 .. Len(lines) : i = Len(toClient) + k /\ toClient'[i] = lines[k]
      /\ \/ toAgent' = toAgent
         \/ /\ Head(toAgent) = toAgent[1] /\ 1 \in 1 .. Len(toAgent)
            /\ \A i \in 1 .. Len(toAgent') :
                 i + 1 \in 1 .. Len(toAgent) /\ toAgent'[i] = toAgent[i + 1]
      /\ toAgent \in Seq(Command) /\ toAgent' \in Seq(Command)
      /\ toClient \in Seq(Line) /\ toClient' \in Seq(Line)
  BY MovedPipes DEF IInv, TypeOK
<1>2. alive /\ alive' /\ activeTurn' = activeTurn
  BY DEF AgentMoves, clientVars
<1>3. agent.turn # NoTurn => agent.turn = activeTurn.turn
  BY DEF IInv, TurnOK
<1>4. ASSUME NEW i \in 1 .. Len(toAgent'), toAgent'[i].type = "turn/start"
      PROVE  StartOK(i)'
  <2>1. PICK k \in {0, 1} : \A j \in 1 .. Len(toAgent') :
          j + k \in 1 .. Len(toAgent) /\ toAgent'[j] = toAgent[j + k]
    <3>1. CASE toAgent' = toAgent
      <4>1. \A j \in 1 .. Len(toAgent') :
              j + 0 \in 1 .. Len(toAgent) /\ toAgent'[j] = toAgent[j + 0]
        BY <1>1, <3>1
      <4> QED
        BY <4>1
    <3>2. CASE toAgent' # toAgent
      BY <1>1, <3>2
    <3> QED
      BY <3>1, <3>2
  <2>2. StartOK(i + k)
    BY <1>4, <2>1 DEF IInv, TurnOK
  <2>3. \A j \in 1 .. Len(toAgent') : toAgent'[j].type = "turn/start" => j = i
    <3> SUFFICES ASSUME NEW j \in 1 .. Len(toAgent'), toAgent'[j].type = "turn/start"
                 PROVE  j = i
      OBVIOUS
    <3>1. j + k = i + k
      BY <2>1, <2>2 DEF StartOK
    <3> QED
      BY <3>1
  <2>4. \A j \in 1 .. Len(toClient') : ~ TurnLine(toClient'[j])
    BY <1>1, <2>2 DEF StartOK
  <2> QED
    BY <1>2, <2>1, <2>2, <2>3, <2>4 DEF StartOK
<1>5. ASSUME NEW i \in 1 .. Len(toClient'), TurnLine(toClient'[i])
      PROVE  LineOK(i)'
  <2>1. CASE i \in 1 .. Len(toClient) /\ toClient'[i] = toClient[i]
    <3>1. LineOK(i)
      BY <1>5, <2>1 DEF IInv, TurnOK
    <3>2. ASSUME EndLine(toClient'[i]), NEW j \in 1 .. Len(toClient'), TurnLine(toClient'[j])
          PROVE  j <= i
      <4>1. agent.turn = NoTurn /\ \A m \in 1 .. Len(toClient) : TurnLine(toClient[m]) => m <= i
        BY <2>1, <3>1, <3>2 DEF LineOK
      <4>2. j \in 1 .. Len(toClient) /\ toClient'[j] = toClient[j]
        BY <1>1, <3>2, <4>1
      <4> QED
        BY <3>2, <4>1, <4>2
    <3> QED
      BY <1>2, <2>1, <3>1, <3>2 DEF LineOK
  <2>2. ASSUME NEW k \in 1 .. Len(lines), toClient'[i] = lines[k]
        PROVE  LineOK(i)'
    BY <1>2, <1>3, <1>5, <2>2 DEF LineOK
  <2> QED
    BY <1>1, <2>1, <2>2
<1> QED
  BY <1>2, <1>3, <1>4, <1>5 DEF TurnOK

\* One line more.
LEMMA OneLine ==
  ASSUME NEW l \in Line
  PROVE  /\ <<l>> \in Seq(Line) /\ Len(<<l>>) = 1 /\ 1 \in 1 .. Len(<<l>>)
         /\ \A k \in 1 .. Len(<<l>>) : <<l>>[k] = l
  OBVIOUS

\* An agent that works is alive, and no turn/start is on its way to it.
LEMMA Working ==
  ASSUME IInv, agent.turn # NoTurn
  PROVE  alive /\ agent.turn \in Turns /\ agent \in Agent /\ agent.turn = activeTurn.turn
<1>1. agent \in Agent /\ agent # Resting /\ agent.turn = activeTurn.turn
  BY DEF IInv, TypeOK, TurnOK, Resting
<1> QED
  BY <1>1 DEF IInv, TurnOK, TypeOK, Agent

\* A pipe with a command in it leads to an agent that is alive.
LEMMA Taking ==
  ASSUME IInv, NEW type, Takes(type)
  PROVE  /\ alive /\ toAgent # <<>> /\ toAgent' = Tail(toAgent)
         /\ Head(toAgent) \in Command /\ Head(toAgent).type = type
         /\ Head(toAgent) = toAgent[1] /\ 1 \in 1 .. Len(toAgent)
         /\ type \in {"turn/start", "turn/interrupt"} =>
              Head(toAgent).turn \in Turns /\ Head(toAgent) = About(type, Head(toAgent).turn)
         /\ type = "answer" => Head(toAgent).request \in Requests
<1>1. toAgent # <<>> /\ Head(toAgent).type = type /\ toAgent' = Tail(toAgent)
  BY DEF Takes
<1>2. Head(toAgent) \in Command /\ Head(toAgent) = toAgent[1] /\ 1 \in 1 .. Len(toAgent)
  BY <1>1, TailItems DEF IInv, TypeOK
<1>3. alive
  BY <1>1 DEF IInv, TurnOK
<1> QED
  BY <1>1, <1>2, <1>3 DEF Command, About

\* The late response to turn/start is written.
LEMMA AgentRespondsStep == IInv /\ AgentResponds => IInv'
<1> SUFFICES ASSUME IInv, AgentResponds
             PROVE  IInv'
  OBVIOUS
<1> DEFINE l == About("start response", agent.turn)
<1>1. /\ agent.owes /\ agent' = [agent EXCEPT !.owes = FALSE] /\ toClient' = toClient \o <<l>>
      /\ UNCHANGED <<alive, asks, items, toAgent, clientVars>>
  BY DEF AgentResponds, Writes
<1>2. agent.turn # NoTurn
  <2> SUFFICES ASSUME agent.turn = NoTurn
               PROVE  FALSE
    OBVIOUS
  <2>1. agent = Resting
    BY DEF IInv, TurnOK
  <2>2. ~ Resting.owes
    BY DEF Resting
  <2> QED
    BY <1>1, <2>1, <2>2
<1>3. alive /\ agent.turn \in Turns /\ agent \in Agent
  BY <1>2, Working
<1>4. agent' \in Agent /\ agent'.turn = agent.turn
  BY <1>1, <1>3 DEF Agent
<1>5. /\ l \in Line /\ l.type = "start response" /\ l.turn = agent.turn
      /\ StartTurn(agent.turn) \in Completed(l)
  BY <1>3 DEF Line, About, Completed
<1>6. ~ EndLine(l) /\ ~ ItemLine(l)
  BY <1>5 DEF EndLine, ItemLine
<1> HIDE DEF l
<1>7. AgentMoves(<<l>>)
  BY <1>1, <1>3, <1>4, <1>5, OneLine DEF AgentMoves, IInv, TypeOK
<1>8. ItemsMove(<<l>>)
  <2>1. \A a \in Items : items[a] = "running" => agent.turn # NoTurn
    BY <1>3 DEF IInv, ItemsOK
  <2> QED
    BY <1>1, <1>4, <1>5, <1>6, <2>1, OneLine DEF ItemsMove
<1>9. RequestsMove(<<l>>)
  BY <1>1, <1>4, <1>5, OneLine DEF RequestsMove
<1>10. PendingMove(<<l>>)
  BY <1>1, <1>5, OneLine DEF PendingMove
<1>11. TurnOK'
  BY <1>1, <1>2, <1>4, <1>5, <1>6, <1>7, OneLine, WorkTurn
<1> QED
  BY <1>7, <1>8, <1>9, <1>10, <1>11, AgentStepOK

\* An item begins, or is completed.
LEMMA AgentItemStep ==
  ASSUME IInv, NEW a \in Items, AgentStartsItem(a) \/ AgentCompletesItem(a)
  PROVE  IInv'
<1>1. PICK l \in {[type |-> "item/started", item |-> a, turn |-> agent.turn],
                  [type |-> "item/completed", item |-> a, turn |-> agent.turn]} :
        toClient' = toClient \o <<l>>
  BY DEF AgentStartsItem, AgentCompletesItem, Writes
<1>2. /\ agent.turn # NoTurn /\ items[a] \in {"new", "running"}
      /\ UNCHANGED <<alive, agent, asks, toAgent, clientVars>>
      /\ items' = [items EXCEPT ![a] = "running"] \/ items' = [items EXCEPT ![a] = "done"]
  BY DEF AgentStartsItem, AgentCompletesItem
<1>3. alive /\ agent.turn \in Turns /\ agent \in Agent
  BY <1>2, Working
<1>4. items \in [Items -> {"new", "running", "done"}]
      /\ asks \subseteq Requests /\ IsFiniteSet(asks)
  BY DEF IInv, TypeOK
<1>5. /\ items' \in [Items -> {"new", "running", "done"}] /\ items'[a] # "new"
      /\ \A b \in Items : b # a => items'[b] = items[b]
  BY <1>2, <1>4
<1>6. /\ l \in Line /\ l.type \in {"item/started", "item/completed"} /\ l.item = a
      /\ l.turn = agent.turn
  <2>1. CASE l = [type |-> "item/started", item |-> a, turn |-> agent.turn]
    BY <1>3, <2>1 DEF Line
  <2>2. CASE l = [type |-> "item/completed", item |-> a, turn |-> agent.turn]
    BY <1>3, <2>2 DEF Line
  <2> QED
    BY <2>1, <2>2
<1>7. ~ EndLine(l) /\ ItemLine(l)
  BY <1>6 DEF EndLine, ItemLine
<1>8. AgentMoves(<<l>>)
  BY <1>1, <1>2, <1>3, <1>4, <1>5, <1>6, OneLine DEF AgentMoves
<1>9. ItemsMove(<<l>>)
  BY <1>2, <1>4, <1>5, <1>6, OneLine DEF ItemsMove
<1>10. RequestsMove(<<l>>)
  BY <1>2, <1>6, OneLine DEF RequestsMove
<1>11. PendingMove(<<l>>)
  BY <1>2 DEF PendingMove
<1>12. TurnOK'
  BY <1>2, <1>6, <1>7, <1>8, OneLine, WorkTurn
<1> QED
  BY <1>8, <1>9, <1>10, <1>11, <1>12, AgentStepOK

\* The agent asks.
LEMMA AgentAsksStep ==
  ASSUME IInv, NEW e \in Requests, NEW a \in Items \cup {NoItem}, AgentAsks(e, a)
  PROVE  IInv'
<1> DEFINE l == [type |-> "requestApproval", request |-> e, turn |-> agent.turn, item |-> a]
<1>1. /\ agent.turn # NoTurn /\ ~ Asked(e) /\ (a = NoItem \/ items[a] = "running")
      /\ asks' = asks \cup {e} /\ toClient' = toClient \o <<l>>
      /\ UNCHANGED <<alive, agent, items, toAgent, clientVars>>
  BY DEF AgentAsks, Writes
<1>2. alive /\ agent.turn \in Turns /\ agent \in Agent
  BY <1>1, Working
<1>3. /\ l \in Line /\ l.type = "requestApproval" /\ l.turn = agent.turn /\ l.request = e
      /\ l.item = a
  BY <1>2 DEF Line
<1>4. ~ EndLine(l) /\ ItemLine(l)
  BY <1>3 DEF EndLine, ItemLine
<1> HIDE DEF l
<1>5. AgentMoves(<<l>>)
  <2>1. asks' \subseteq Requests /\ IsFiniteSet(asks')
    BY <1>1, FS_AddElement DEF IInv, TypeOK
  <2> QED
    BY <1>1, <1>2, <1>3, <2>1, OneLine DEF AgentMoves, IInv, TypeOK
<1>6. ItemsMove(<<l>>)
  BY <1>1, <1>3, OneLine DEF ItemsMove
<1>7. RequestsMove(<<l>>)
  <2>1. conv.elicitations[e] = Absent
    BY <1>1 DEF Asked
  <2> QED
    BY <1>1, <1>3, <2>1, OneLine DEF RequestsMove
<1>8. PendingMove(<<l>>)
  BY <1>1 DEF PendingMove
<1>9. TurnOK'
  BY <1>1, <1>3, <1>4, <1>5, OneLine, WorkTurn
<1> QED
  BY <1>5, <1>6, <1>7, <1>8, <1>9, AgentStepOK

\* The agent takes an answer, and withdraws what it asked.
LEMMA AgentGetsAnswerStep == IInv /\ AgentGetsAnswer => IInv'
<1> SUFFICES ASSUME IInv, AgentGetsAnswer
             PROVE  IInv'
  OBVIOUS
<1> DEFINE e == Head(toAgent).request
           lines == IF e \in asks THEN <<Withdraws(e)>> ELSE <<>>
<1>1. /\ Takes("answer") /\ asks' = asks \ {e} /\ toClient' = toClient \o lines
      /\ UNCHANGED <<alive, agent, items, clientVars>>
  BY DEF AgentGetsAnswer, Writes
<1>2. /\ alive /\ toAgent # <<>> /\ toAgent' = Tail(toAgent) /\ Head(toAgent).type = "answer"
      /\ e \in Requests
  BY <1>1, Taking
<1>3. agent \in Agent /\ items \in [Items -> {"new", "running", "done"}]
      /\ asks' \subseteq Requests /\ IsFiniteSet(asks')
  BY <1>1, FS_RemoveElement DEF IInv, TypeOK
<1> HIDE DEF e
<1>4. /\ lines \in Seq(Line)
      /\ \A k \in 1 .. Len(lines) :
           e \in asks /\ lines[k].type = "serverRequest/resolved" /\ lines[k].request = e
  <2>1. CASE e \in asks
    <3>1. /\ Withdraws(e) \in Line /\ Withdraws(e).type = "serverRequest/resolved"
          /\ Withdraws(e).request = e
      BY <1>2 DEF Withdraws, Line
    <3> QED
      BY <2>1, <3>1, OneLine
  <2>2. CASE e \notin asks
    BY <2>2
  <2> QED
    BY <2>1, <2>2
<1> HIDE DEF lines
<1>5. e \in asks => agent.turn # NoTurn
  BY DEF IInv, TurnOK
<1>6. AgentMoves(lines)
  BY <1>1, <1>2, <1>3, <1>4 DEF AgentMoves
<1>7. \A k \in 1 .. Len(lines) : ~ EndLine(lines[k]) /\ ~ ItemLine(lines[k])
  BY <1>4 DEF EndLine, ItemLine
<1>8. ItemsMove(lines)
  <2>1. \A a \in Items : items[a] = "running" => agent.turn # NoTurn
    BY <1>2 DEF IInv, ItemsOK
  <2> QED
    BY <1>1, <1>7, <2>1 DEF ItemsMove
<1>9. RequestsMove(lines)
  BY <1>1, <1>4 DEF RequestsMove
<1>10. PendingMove(lines)
  <2>1. \A p : Head(toAgent) # CommandOf(p)
    BY <1>2 DEF CommandOf, About
  <2> QED
    BY <1>1, <2>1 DEF PendingMove
<1>11. TurnOK'
  <2>1. agent'.turn = NoTurn => agent' = Resting /\ asks' = {}
    BY <1>1 DEF IInv, TurnOK
  <2> QED
    BY <1>1, <1>2, <1>4, <1>5, <1>6, <1>7, <2>1, WorkTurn
<1> QED
  BY <1>6, <1>8, <1>9, <1>10, <1>11, AgentStepOK

\* The agent takes an interrupt and answers it.
LEMMA AgentGetsInterruptStep == IInv /\ AgentGetsInterrupt => IInv'
<1> SUFFICES ASSUME IInv, AgentGetsInterrupt
             PROVE  IInv'
  OBVIOUS
<1> DEFINE t == Head(toAgent).turn
           l == About("interrupt response", t)
<1>1. /\ Takes("turn/interrupt") /\ toClient' = toClient \o <<l>>
      /\ agent' = IF agent.turn = t THEN [agent EXCEPT !.interrupted = TRUE] ELSE agent
      /\ UNCHANGED <<alive, asks, items, clientVars>>
  BY DEF AgentGetsInterrupt, Writes
<1>2. /\ alive /\ toAgent # <<>> /\ toAgent' = Tail(toAgent)
      /\ Head(toAgent) = About("turn/interrupt", t) /\ t \in Turns
      /\ Head(toAgent).type = "turn/interrupt"
  <2> DEFINE type == "turn/interrupt"
  <2>1. Takes(type) /\ type \in {"turn/start", "turn/interrupt"}
    BY <1>1
  <2> HIDE DEF type
  <2>2. /\ alive /\ toAgent # <<>> /\ toAgent' = Tail(toAgent)
        /\ Head(toAgent) = About(type, t) /\ t \in Turns /\ Head(toAgent).type = type
    BY <2>1, Taking
  <2> QED
    BY <2>2 DEF type
<1> HIDE DEF t
<1>3. agent \in Agent /\ items \in [Items -> {"new", "running", "done"}]
      /\ asks \subseteq Requests /\ IsFiniteSet(asks)
  BY DEF IInv, TypeOK
<1>4. /\ agent' \in Agent /\ agent'.turn = agent.turn /\ agent'.owes = agent.owes
      /\ agent.turn = NoTurn => agent' = agent
  BY <1>1, <1>2, <1>3, TurnsAssumption DEF Agent
<1>5. /\ l \in Line /\ l.type = "interrupt response" /\ CancelTurn(t) \in Completed(l)
  BY <1>2 DEF Line, About, Completed
<1>6. ~ EndLine(l) /\ ~ ItemLine(l) /\ ~ TurnLine(l)
  BY <1>5 DEF EndLine, ItemLine, TurnLine
<1> HIDE DEF l
<1>7. AgentMoves(<<l>>)
  BY <1>1, <1>2, <1>3, <1>4, <1>5, OneLine DEF AgentMoves
<1>8. ItemsMove(<<l>>)
  <2>1. \A a \in Items : items[a] = "running" => agent.turn # NoTurn
    BY <1>2 DEF IInv, ItemsOK
  <2> QED
    BY <1>1, <1>4, <1>6, <2>1, OneLine DEF ItemsMove
<1>9. RequestsMove(<<l>>)
  BY <1>1, <1>4, <1>5, OneLine DEF RequestsMove
<1>10. PendingMove(<<l>>)
  <2>1. ASSUME NEW p \in PendingRequest, Head(toAgent) = CommandOf(p)
        PROVE  p = CancelTurn(t)
    <3>1. p.type # "StartTurn" /\ p.turn = t
      BY <1>2, <2>1 DEF CommandOf, About
    <3> QED
      BY <3>1 DEF PendingRequest, CancelTurn
  <2>2. l \in Line /\ CancelTurn(t) \in Completed(l)
    BY <1>5
  <2> QED
    BY <1>4, <2>1, <2>2, OneLine DEF PendingMove
<1>11. TurnOK'
  <2>1. agent'.turn = NoTurn => agent' = Resting /\ asks' = {}
    BY <1>1, <1>4 DEF IInv, TurnOK
  <2> QED
    BY <1>2, <1>4, <1>6, <1>7, <2>1, OneLine, WorkTurn
<1> QED
  BY <1>7, <1>8, <1>9, <1>10, <1>11, AgentStepOK

\* While a turn/start is on its way nothing else is, and the agent rests.
LEMMA StartTaken ==
  ASSUME IInv, Takes("turn/start"), NEW lines, AgentMoves(lines)
  PROVE  /\ Head(toAgent).turn \in Turns /\ Head(toAgent).turn = activeTurn.turn
         /\ activeTurn.turn # NoTurn /\ agent.turn = NoTurn /\ agent = Resting /\ asks = {}
         /\ \A i \in 1 .. Len(toAgent') : toAgent'[i].type # "turn/start"
         /\ \A i \in 1 .. Len(toClient') : TurnLine(toClient'[i]) =>
              \E k \in 1 .. Len(lines) : i = Len(toClient) + k /\ toClient'[i] = lines[k]
         /\ \A a \in Items : items[a] # "running"
<1>1. /\ alive /\ Head(toAgent) = toAgent[1] /\ 1 \in 1 .. Len(toAgent)
      /\ Head(toAgent).type = "turn/start" /\ Head(toAgent).turn \in Turns
      /\ toAgent' = Tail(toAgent) /\ toAgent # <<>> /\ toAgent \in Seq(Command)
  BY Taking DEF IInv, TypeOK
<1>2. StartOK(1)
  BY <1>1 DEF IInv, TurnOK
<1>3. agent.turn = NoTurn /\ agent = Resting /\ asks = {} /\ Head(toAgent).turn = activeTurn.turn
  BY <1>1, <1>2 DEF StartOK, IInv, TurnOK
<1>4. ASSUME NEW i \in 1 .. Len(toAgent'), toAgent'[i].type = "turn/start"
      PROVE  FALSE
  <2>1. i + 1 \in 1 .. Len(toAgent) /\ toAgent'[i] = toAgent[i + 1]
    BY <1>1, TailItems
  <2>2. i + 1 = 1
    BY <1>2, <1>4, <2>1 DEF StartOK
  <2> QED
    BY <2>2
<1>5. \A i \in 1 .. Len(toClient') : TurnLine(toClient'[i]) =>
        \E k \in 1 .. Len(lines) : i = Len(toClient) + k /\ toClient'[i] = lines[k]
  <2>1. \A i \in 1 .. Len(toClient) : ~ TurnLine(toClient[i])
    BY <1>2 DEF StartOK
  <2> QED
    BY <2>1, MovedPipes
<1>6. \A a \in Items : items[a] # "running"
  BY <1>1, <1>3 DEF IInv, ItemsOK
<1> QED
  BY <1>1, <1>3, <1>4, <1>5, <1>6, TurnsAssumption

\* The agent begins the turn.
LEMMA AgentStartsStep == IInv /\ AgentStarts => IInv'
<1> SUFFICES ASSUME IInv, AgentStarts
             PROVE  IInv'
  OBVIOUS
<1> DEFINE t == Head(toAgent).turn
           l == About("turn/started", t)
           lines == <<Status("active"), l>>
<1>1. /\ Takes("turn/start") /\ toClient' = toClient \o lines
      /\ agent' = [turn |-> t, interrupted |-> FALSE, owes |-> TRUE]
      /\ UNCHANGED <<alive, asks, items, clientVars>>
  BY DEF AgentStarts, Writes
<1>2. /\ alive /\ toAgent # <<>> /\ toAgent' = Tail(toAgent)
      /\ Head(toAgent) = About("turn/start", t) /\ t \in Turns
  <2> DEFINE type == "turn/start"
  <2>1. Takes(type) /\ type \in {"turn/start", "turn/interrupt"}
    BY <1>1
  <2> HIDE DEF type
  <2>2. /\ alive /\ toAgent # <<>> /\ toAgent' = Tail(toAgent)
        /\ Head(toAgent) = About(type, t) /\ t \in Turns
    BY <2>1, Taking
  <2> QED
    BY <2>2 DEF type
<1> HIDE DEF t
<1>3. agent' \in Agent /\ agent'.turn = t /\ agent'.owes
  BY <1>1, <1>2 DEF Agent
<1>4. /\ l \in Line /\ l.type = "turn/started" /\ l.turn = t
      /\ Status("active") \in Line /\ Status("active").type = "thread/status/changed"
  BY <1>2 DEF Line, About, Status, Lifecycle
<1>5. /\ ~ EndLine(l) /\ ~ ItemLine(l) /\ ~ TurnLine(Status("active"))
      /\ ~ ItemLine(Status("active"))
  BY <1>4 DEF EndLine, ItemLine, TurnLine
<1> HIDE DEF l
<1>6. /\ lines \in Seq(Line) /\ Len(lines) = 2
      /\ \A k \in 1 .. Len(lines) : lines[k] = Status("active") \/ lines[k] = l
  BY <1>4
<1> HIDE DEF lines
<1>7. AgentMoves(lines)
  BY <1>1, <1>2, <1>3, <1>6 DEF AgentMoves, IInv, TypeOK
<1>8. /\ t = activeTurn.turn /\ activeTurn.turn # NoTurn /\ agent.turn = NoTurn
      /\ agent = Resting /\ asks = {}
      /\ \A i \in 1 .. Len(toAgent') : toAgent'[i].type # "turn/start"
      /\ \A i \in 1 .. Len(toClient') : TurnLine(toClient'[i]) =>
           \E k \in 1 .. Len(lines) : i = Len(toClient) + k /\ toClient'[i] = lines[k]
      /\ \A a \in Items : items[a] # "running"
  BY <1>1, <1>7, StartTaken DEF t
<1>9. ItemsMove(lines)
  BY <1>1, <1>5, <1>6, <1>8 DEF ItemsMove
<1>10. RequestsMove(lines)
  BY <1>1, <1>4, <1>6, <1>8 DEF RequestsMove
<1>11. PendingMove(lines)
  <2>1. ASSUME NEW p \in PendingRequest, Head(toAgent) = CommandOf(p)
        PROVE  p = StartTurn(t)
    <3>1. p.type = "StartTurn" /\ p.turn = t
      BY <1>2, <2>1 DEF CommandOf, About
    <3> QED
      BY <3>1 DEF PendingRequest, StartTurn
  <2>2. ~ agent.owes
    BY <1>8 DEF Resting
  <2> QED
    BY <1>3, <2>1, <2>2 DEF PendingMove
<1>12. TurnOK'
  <2>1. ASSUME NEW i \in 1 .. Len(toClient'), TurnLine(toClient'[i])
        PROVE  LineOK(i)'
    <3>1. toClient'[i] = l
      BY <1>5, <1>6, <1>8, <2>1
    <3> QED
      BY <1>1, <1>4, <1>5, <1>8, <3>1 DEF LineOK, clientVars
  <2>2. agent'.turn # NoTurn /\ agent'.turn = activeTurn'.turn /\ alive'
    BY <1>1, <1>2, <1>3, <1>8 DEF clientVars
  <2> QED
    BY <1>8, <2>1, <2>2 DEF TurnOK
<1> QED
  BY <1>7, <1>9, <1>10, <1>11, <1>12, AgentStepOK

\* The agent refuses the turn.
LEMMA AgentRejectsStep == IInv /\ AgentRejects => IInv'
<1> SUFFICES ASSUME IInv, AgentRejects
             PROVE  IInv'
  OBVIOUS
<1> DEFINE t == Head(toAgent).turn
           l == About("start error", t)
<1>1. /\ Takes("turn/start") /\ toClient' = toClient \o <<l>>
      /\ UNCHANGED <<alive, agent, asks, items, clientVars>>
  BY DEF AgentRejects, Writes, agentVars
<1>2. /\ alive /\ toAgent # <<>> /\ toAgent' = Tail(toAgent)
      /\ Head(toAgent) = About("turn/start", t) /\ t \in Turns
  <2> DEFINE type == "turn/start"
  <2>1. Takes(type) /\ type \in {"turn/start", "turn/interrupt"}
    BY <1>1
  <2> HIDE DEF type
  <2>2. /\ alive /\ toAgent # <<>> /\ toAgent' = Tail(toAgent)
        /\ Head(toAgent) = About(type, t) /\ t \in Turns
    BY <2>1, Taking
  <2> QED
    BY <2>2 DEF type
<1> HIDE DEF t
<1>3. l \in Line /\ l.type = "start error" /\ l.turn = t /\ StartTurn(t) \in Completed(l)
  BY <1>2 DEF Line, About, Completed
<1>4. ~ ItemLine(l)
  BY <1>3 DEF ItemLine
<1> HIDE DEF l
<1>5. AgentMoves(<<l>>)
  BY <1>1, <1>2, <1>3, OneLine DEF AgentMoves, IInv, TypeOK
<1>6. /\ t = activeTurn.turn /\ activeTurn.turn # NoTurn /\ agent.turn = NoTurn
      /\ agent = Resting /\ asks = {}
      /\ \A i \in 1 .. Len(toAgent') : toAgent'[i].type # "turn/start"
      /\ \A i \in 1 .. Len(toClient') : TurnLine(toClient'[i]) =>
           \E k \in 1 .. Len(<<l>>) : i = Len(toClient) + k /\ toClient'[i] = <<l>>[k]
      /\ \A a \in Items : items[a] # "running"
  BY <1>1, <1>5, StartTaken DEF t
<1>7. ItemsMove(<<l>>)
  BY <1>1, <1>4, <1>6, OneLine DEF ItemsMove
<1>8. RequestsMove(<<l>>)
  <2>1. \A k \in 1 .. Len(<<l>>) : <<l>>[k] = l
    BY <1>3, OneLine
  <2>2. l.type # "requestApproval" /\ l.type # "serverRequest/resolved"
    BY <1>3
  <2>3. asks' = {}
    BY <1>1, <1>6
  <2> QED
    BY <2>1, <2>2, <2>3 DEF RequestsMove
<1>9. PendingMove(<<l>>)
  <2>1. ASSUME NEW p \in PendingRequest, Head(toAgent) = CommandOf(p)
        PROVE  p = StartTurn(t)
    <3>1. p.type = "StartTurn" /\ p.turn = t
      BY <1>2, <2>1 DEF CommandOf, About
    <3> QED
      BY <3>1 DEF PendingRequest, StartTurn
  <2>2. ~ agent.owes
    BY <1>6 DEF Resting
  <2>3. l \in Line /\ StartTurn(t) \in Completed(l)
    BY <1>3
  <2> QED
    BY <2>1, <2>2, <2>3, OneLine DEF PendingMove
<1>10. TurnOK'
  <2>1. ASSUME NEW i \in 1 .. Len(toClient'), TurnLine(toClient'[i])
        PROVE  LineOK(i)'
    <3>1. toClient'[i] = l /\ \A j \in 1 .. Len(toClient') : TurnLine(toClient'[j]) => j = i
      <4>1. l \in Line
        BY <1>3
      <4> QED
        BY <1>6, <2>1, <4>1, OneLine
    <3>2. \A j \in 1 .. Len(toClient') : TurnLine(toClient'[j]) => j <= i
      BY <3>1
    <3> QED
      BY <1>1, <1>3, <1>6, <3>1, <3>2 DEF LineOK, clientVars
  <2>2. agent' = Resting /\ asks' = {} /\ agent'.turn = NoTurn /\ alive'
    BY <1>1, <1>2, <1>6
  <2> QED
    BY <1>6, <2>1, <2>2 DEF TurnOK
<1> QED
  BY <1>5, <1>7, <1>8, <1>9, <1>10, AgentStepOK

\* What the agent writes at the end of a turn: it withdraws what it asks, and then says
\* that the turn is over, before or after the status of the thread.
EndsTurn(lines, n, withdrawn, over, status) ==
  /\ lines \in Seq(Line)
  /\ \A k \in 1 .. Len(lines) :
       \/ k \in 1 .. n /\ lines[k] = withdrawn[k]
       \/ lines[k] = status
       \/ lines[k] = over /\ \A j \in 1 .. Len(lines) : j > k => lines[j] = status

\* It ends with one line about the turn.
LEMMA EndLines ==
  ASSUME NEW n \in Nat, NEW withdrawn \in [1 .. n -> Line], NEW over \in Line,
         NEW status \in Line, NEW last \in {<<status, over>>, <<over, status>>}
  PROVE  EndsTurn(withdrawn \o last, n, withdrawn, over, status)
<1> DEFINE lines == withdrawn \o last
<1>1. /\ last \in Seq(Line) /\ Len(last) = 2
      /\ \/ last[1] = status /\ last[2] = over
         \/ last[1] = over /\ last[2] = status
  <2>1. CASE last = <<status, over>>
    BY <2>1
  <2>2. CASE last = <<over, status>>
    BY <2>2
  <2> QED
    BY <2>1, <2>2
<1>2. withdrawn \in Seq(Line) /\ Len(withdrawn) = n
  OBVIOUS
<1>3. /\ lines \in Seq(Line) /\ Len(lines) \in Nat
      /\ \A i \in 1 .. n : lines[i] = withdrawn[i]
      /\ \A i \in 1 .. Len(lines) :
           i \in 1 .. n \/ \E k \in 1 .. 2 : i = n + k /\ lines[i] = last[k]
  <2>1. /\ withdrawn \o last \in Seq(Line)
        /\ \A i \in 1 .. n : (withdrawn \o last)[i] = withdrawn[i]
        /\ \A i \in 1 .. Len(withdrawn \o last) :
             \/ i \in 1 .. n
             \/ \E k \in 1 .. 2 : i = n + k /\ (withdrawn \o last)[i] = last[k]
    <3>1. /\ withdrawn \o last \in Seq(Line)
          /\ \A i \in 1 .. Len(withdrawn) :
               i \in 1 .. Len(withdrawn \o last) /\ (withdrawn \o last)[i] = withdrawn[i]
          /\ \A i \in 1 .. Len(withdrawn \o last) :
               \/ i \in 1 .. Len(withdrawn) /\ (withdrawn \o last)[i] = withdrawn[i]
               \/ \E k \in 1 .. Len(last) :
                    i = Len(withdrawn) + k /\ (withdrawn \o last)[i] = last[k]
      <4>1. withdrawn \in Seq(Line) /\ last \in Seq(Line)
        BY <1>1, <1>2
      <4> QED
        BY <4>1, WrittenItems
    <3> QED
      BY <1>1, <1>2, <3>1
  <2>2. Len(withdrawn \o last) \in Nat
    BY <2>1
  <2> HIDE DEF lines
  <2> QED
    BY <2>1, <2>2 DEF lines
<1> HIDE DEF lines
<1>4. \A i \in 1 .. Len(lines) :
        i \in 1 .. n \/ (i = n + 1 /\ lines[i] = last[1]) \/ (i = n + 2 /\ lines[i] = last[2])
  <2>1. \A k \in 1 .. 2 : k = 1 \/ k = 2
    OBVIOUS
  <2> QED
    BY <1>3, <2>1
<1>5. ASSUME NEW k \in 1 .. Len(lines)
      PROVE  \/ k \in 1 .. n /\ lines[k] = withdrawn[k]
             \/ lines[k] = status
             \/ lines[k] = over /\ \A j \in 1 .. Len(lines) : j > k => lines[j] = status
  <2>1. CASE k \in 1 .. n
    BY <1>3, <2>1
  <2>2. CASE k = n + 1 /\ lines[k] = last[1]
    <3>1. ASSUME NEW j \in 1 .. Len(lines), j > k
          PROVE  lines[j] = last[2]
      <4>1. j \notin 1 .. n /\ j # n + 1
        BY <1>3, <2>2, <3>1
      <4> QED
        BY <1>4, <4>1
    <3> QED
      BY <1>1, <2>2, <3>1
  <2>3. CASE k = n + 2 /\ lines[k] = last[2]
    <3>1. \A j \in 1 .. Len(lines) : ~ (j > k)
      BY <1>3, <1>4, <2>3
    <3> QED
      BY <1>1, <2>3, <3>1
  <2> QED
    BY <1>4, <2>1, <2>2, <2>3
<1>6. EndsTurn(lines, n, withdrawn, over, status)
  BY <1>3, <1>5 DEF EndsTurn
<1> QED
  BY <1>6 DEF lines

\* The agent ends the turn.
LEMMA AgentEndsStep == IInv /\ AgentEnds => IInv'
<1> SUFFICES ASSUME IInv, AgentEnds
             PROVE  IInv'
  OBVIOUS
<1> DEFINE n == Cardinality(asks)
           t == agent.turn
           over == About("turn/completed", t)
<1>1. /\ t # NoTurn /\ ~ agent.owes /\ agent' = Resting /\ asks' = {}
      /\ items' = [a \in Items |-> IF items[a] = "running" THEN "done" ELSE items[a]]
      /\ UNCHANGED <<alive, toAgent, clientVars>>
  BY DEF AgentEnds
<1>2. PICK order \in [1 .. n -> asks], s \in {"idle", "faulted"}, statusFirst \in BOOLEAN :
        toClient' = toClient \o
          ([i \in DOMAIN order |-> Withdraws(order[i])] \o
             IF statusFirst THEN <<Status(s), over>> ELSE <<over, Status(s)>>)
  BY DEF AgentEnds, Writes
<1>3. alive /\ t \in Turns /\ agent \in Agent /\ t = activeTurn.turn
  BY <1>1, Working
<1>4. asks \subseteq Requests /\ IsFiniteSet(asks)
      /\ items \in [Items -> {"new", "running", "done"}]
  BY DEF IInv, TypeOK
<1>5. n \in Nat
  BY <1>4, FS_CardinalityType
<1>6. agent' \in Agent /\ agent'.turn = NoTurn /\ ~ agent'.owes
  BY <1>1 DEF Agent, Resting
<1> DEFINE withdrawn == [i \in DOMAIN order |-> Withdraws(order[i])]
           status == Status(s)
           lines == withdrawn \o IF statusFirst THEN <<status, over>> ELSE <<over, status>>
<1>7. /\ over \in Line /\ over.type = "turn/completed" /\ over.turn = t
      /\ status \in Line /\ status.type = "thread/status/changed"
  BY <1>3 DEF Line, About, Status, Lifecycle
<1>8. ASSUME NEW e \in asks
      PROVE  /\ Withdraws(e) \in Line /\ Withdraws(e).type = "serverRequest/resolved"
             /\ Withdraws(e).request = e
  BY <1>4 DEF Withdraws, Line
<1>9. withdrawn \in [1 .. n -> Line] /\ \A i \in 1 .. n : withdrawn[i] = Withdraws(order[i])
  BY <1>8
<1>10. toClient' = toClient \o lines
  BY <1>2
<1> HIDE DEF n, over, status, withdrawn
<1> DEFINE last == IF statusFirst THEN <<status, over>> ELSE <<over, status>>
<1>c. over \in Line /\ status \in Line
  BY <1>7
<1>b. lines = withdrawn \o last /\ last \in {<<status, over>>, <<over, status>>}
  <2>1. CASE statusFirst
    BY <2>1
  <2>2. CASE ~ statusFirst
    BY <2>2
  <2> QED
    BY <2>1, <2>2
<1> HIDE DEF lines, last
<1>d. EndsTurn(withdrawn \o last, n, withdrawn, over, status)
  BY <1>5, <1>9, <1>b, <1>c, EndLines
<1>11. /\ lines \in Seq(Line)
       /\ \A k \in 1 .. Len(lines) :
            \/ k \in 1 .. n /\ lines[k] = withdrawn[k]
            \/ lines[k] = status
            \/ lines[k] = over /\ \A j \in 1 .. Len(lines) : j > k => lines[j] = status
  BY <1>b, <1>d DEF EndsTurn
<1>12. ASSUME NEW k \in 1 .. Len(lines)
       PROVE  \/ \E e \in asks : lines[k] = Withdraws(e)
              \/ lines[k] = status
              \/ lines[k] = over /\ \A j \in 1 .. Len(lines) : j > k => lines[j] = status
  BY <1>9, <1>11
<1>13. /\ ~ TurnLine(status) /\ ~ ItemLine(status) /\ ~ EndLine(status)
       /\ ~ ItemLine(over)
       /\ \A e \in asks : ~ EndLine(Withdraws(e)) /\ ~ ItemLine(Withdraws(e))
  BY <1>7, <1>8 DEF TurnLine, ItemLine, EndLine
<1>14. AgentMoves(lines)
  <2>1. items' \in [Items -> {"new", "running", "done"}]
    BY <1>1, <1>4
  <2>2. asks' \subseteq Requests /\ IsFiniteSet(asks')
    BY <1>1, FS_EmptySet
  <2> QED
    BY <1>1, <1>3, <1>6, <1>10, <1>11, <2>1, <2>2 DEF AgentMoves
<1>15. ItemsMove(lines)
  <2>1. \A a \in Items : items'[a] # "running" /\ (items'[a] = "new" => items[a] = "new")
    BY <1>1, <1>4
  <2>2. \A k \in 1 .. Len(lines) : ~ ItemLine(lines[k])
    BY <1>12, <1>13
  <2> QED
    BY <2>1, <2>2 DEF ItemsMove
<1>16. RequestsMove(lines)
  <2>1. ASSUME NEW k \in 1 .. Len(lines)
        PROVE  /\ lines[k].type # "requestApproval"
               /\ lines[k].type = "serverRequest/resolved" => lines[k].request \in asks
    BY <1>7, <1>8, <1>12
  <2> QED
    BY <1>1, <2>1 DEF RequestsMove
<1>17. PendingMove(lines)
  BY <1>1 DEF PendingMove
<1>18. TurnOK'
  <2>1. ASSUME NEW i \in 1 .. Len(toAgent'), toAgent'[i].type = "turn/start"
        PROVE  FALSE
    BY <1>1, <2>1 DEF IInv, TurnOK, StartOK
  <2>2. ASSUME NEW i \in 1 .. Len(toClient'), TurnLine(toClient'[i])
        PROVE  LineOK(i)'
    <3>1. activeTurn' = activeTurn /\ activeTurn.turn # NoTurn
      BY <1>1, <1>3 DEF clientVars
    <3>2. CASE i \in 1 .. Len(toClient) /\ toClient'[i] = toClient[i]
      <4>1. LineOK(i) /\ ~ EndLine(toClient[i])
        BY <1>1, <2>2, <3>2 DEF IInv, TurnOK, LineOK
      <4> QED
        BY <3>1, <3>2, <4>1 DEF LineOK
    <3>3. ASSUME NEW k \in 1 .. Len(lines), i = Len(toClient) + k, toClient'[i] = lines[k]
          PROVE  LineOK(i)'
      <4>1. CASE \E e \in asks : lines[k] = Withdraws(e)
        BY <1>8, <1>13, <3>1, <3>3, <4>1 DEF LineOK
      <4>2. CASE lines[k] = over /\ \A j \in 1 .. Len(lines) : j > k => lines[j] = status
        <5>1. ASSUME NEW j \in 1 .. Len(toClient'), TurnLine(toClient'[j])
              PROVE  j <= i
          <6>1. CASE j \in 1 .. Len(toClient)
            BY <3>3, <6>1
          <6>2. ASSUME NEW m \in 1 .. Len(lines), j = Len(toClient) + m, toClient'[j] = lines[m]
                PROVE  j <= i
            <7>1. ~ (m > k)
              BY <1>13, <4>2, <5>1, <6>2
            <7>2. toClient \in Seq(Line)
              BY DEF IInv, TypeOK
            <7> QED
              BY <3>3, <6>2, <7>1, <7>2
          <6>3. \/ j \in 1 .. Len(toClient)
                \/ \E m \in 1 .. Len(lines) : j = Len(toClient) + m /\ toClient'[j] = lines[m]
            BY <1>14, MovedPipes
          <6> QED
            BY <6>1, <6>2, <6>3
        <5> QED
          BY <1>3, <1>6, <1>7, <3>1, <3>3, <4>2, <5>1 DEF LineOK
      <4> QED
        BY <1>12, <1>13, <2>2, <3>3, <4>1, <4>2
    <3> QED
      BY <1>14, <3>2, <3>3, MovedPipes
  <2> QED
    BY <1>1, <1>3, <1>6, <2>1, <2>2 DEF TurnOK
<1> QED
  BY <1>14, <1>15, <1>16, <1>17, <1>18, AgentStepOK

\* The agent dies.
LEMMA AgentDiesStep == IInv /\ AgentDies => IInv'
<1> SUFFICES ASSUME IInv, AgentDies
             PROVE  IInv'
  OBVIOUS
<1>1. /\ alive' = FALSE /\ agent' = Resting /\ asks' = {} /\ toAgent' = <<>>
      /\ UNCHANGED <<items, toClient, conv, pending, activeTurn, desktop, aborted, answers,
                     early>>
  BY DEF AgentDies, clientVars, historyVars
<1>2. Resting \in Agent /\ Resting.turn = NoTurn
  BY DEF Resting, Agent
<1>3. TypeOK' /\ IsFiniteSet(asks)'
  <2>1. IsFiniteSet(asks)' /\ asks' \subseteq Requests
    BY <1>1, FS_EmptySet
  <2>2. toAgent' \in Seq(Command) /\ agent' \in Agent
    BY <1>1, <1>2
  <2>3. alive' \in BOOLEAN
    BY <1>1
  <2> QED
    BY <1>1, <2>1, <2>2, <2>3 DEF IInv, TypeOK
<1>4. ConvOK(conv)' /\ SessionOK' /\ ShownOK'
  BY <1>1 DEF IInv, SessionOK, ShownOK
<1>5. TurnOK'
  <2>1. \A i \in 1 .. Len(toClient') : TurnLine(toClient'[i]) => LineOK(i)'
    BY <1>1, <1>2 DEF IInv, TurnOK, LineOK
  <2> QED
    BY <1>1, <1>2, <2>1 DEF TurnOK
<1>6. ItemsOK'
  BY <1>1 DEF IInv, ItemsOK
<1>7. RequestsOK'
  BY <1>1 DEF IInv, RequestsOK
<1>8. PendingIsInFlight'
  BY <1>1 DEF PendingIsInFlight
<1> QED
  BY <1>3, <1>4, <1>5, <1>6, <1>7, <1>8 DEF IInv

-----------------------------------------------------------------------------
(* The invariant.                                                          *)

\* A session with an opened thread, an idle agent and empty pipes.
LEMMA InitInv == Init => IInv
<1> SUFFICES ASSUME Init
             PROVE  IInv
  OBVIOUS
<1>1. /\ conv = ReadyConversation /\ pending = {} /\ activeTurn = NoActiveTurn
      /\ desktop = "idle" /\ aborted = FALSE /\ toAgent = <<>> /\ toClient = <<>>
      /\ alive = TRUE /\ agent = Resting /\ asks = {}
      /\ items = [a \in Items |-> "new"] /\ answers = [e \in Requests |-> 0]
      /\ early = FALSE
  BY DEF Init
<1>2. /\ conv.active = {} /\ \A t \in Turns : conv.turns[t] = Absent
      /\ \A a \in Items : conv.actions[a] = Absent
      /\ \A e \in Requests : conv.elicitations[e] = Absent
      /\ conv \in ConversationState
  BY <1>1 DEF ReadyConversation, ConversationState, Lifecycle
<1>3. activeTurn \in ActiveTurn /\ activeTurn.turn = NoTurn /\ activeTurn.request = NoRequest
  BY <1>1 DEF NoActiveTurn, ActiveTurn
<1>4. agent \in Agent /\ agent.turn = NoTurn
  BY <1>1 DEF Resting, Agent
<1>5. TypeOK /\ IsFiniteSet(asks)
  <2>1. IsFiniteSet(asks) /\ asks \subseteq Requests
    BY <1>1, FS_EmptySet
  <2>2. toAgent \in Seq(Command) /\ toClient \in Seq(Line)
    BY <1>1
  <2>3. desktop \in Phase /\ aborted \in BOOLEAN /\ alive \in BOOLEAN /\ early \in BOOLEAN
    BY <1>1 DEF Phase
  <2>4. /\ items \in [Items -> {"new", "running", "done"}] /\ answers \in [Requests -> Nat]
        /\ pending \subseteq PendingRequest
    BY <1>1
  <2> QED
    BY <1>2, <1>3, <1>4, <2>1, <2>2, <2>3, <2>4 DEF TypeOK
<1>6. ConvOK(conv)
  BY <1>2 DEF ConvOK, IsLive, SettledIn
<1>7. OpenRequests(conv) = {}
  BY <1>2, AbsentPhase DEF OpenRequests
<1>8. SessionOK /\ ShownOK
  BY <1>1, <1>2, <1>3, <1>7 DEF SessionOK, ShownOK, HasNoTurn
<1>9. TurnOK
  BY <1>1, <1>4 DEF TurnOK
<1>10. ItemsOK
  BY <1>1, <1>2 DEF ItemsOK
<1>11. RequestsOK
  BY <1>1, <1>2 DEF RequestsOK
<1>12. PendingIsInFlight
  BY <1>1 DEF PendingIsInFlight
<1> QED
  BY <1>5, <1>6, <1>8, <1>9, <1>10, <1>11, <1>12 DEF IInv

\* Every step of the session and of the agent keeps the invariant.
LEMMA NextInv == IInv /\ [Next]_vars => IInv'
<1> SUFFICES ASSUME IInv, [Next]_vars
             PROVE  IInv'
  OBVIOUS
<1>1. CASE SendBegins \/ TimesOut \/ Stops
  BY <1>1, DesktopSteps
<1>2. CASE Start
  BY <1>2, TurnStartsStep, TurnStartFailsStep, ThrowSteps DEF Start
<1>3. CASE Poll
  BY <1>3, ReadSteps, DesktopSteps, ThrowSteps DEF Poll
<1>4. CASE UserAnswers
  BY <1>4, ResolveSteps, AnswerFailsStep DEF UserAnswers
<1>5. CASE Cancel
  BY <1>5, CancelBeginsStep, ThrowSteps, ResolveSteps, AnswerFailsStep, ReadSteps DEF Cancel
<1>6. CASE Hydrates
  BY <1>6, ReadSteps
<1>7. CASE AgentWorks
  BY <1>7, AgentItemStep, AgentAsksStep DEF AgentWorks
<1>8. CASE AgentReads
  BY <1>8, AgentStartsStep, AgentRejectsStep, AgentRespondsStep, AgentGetsAnswerStep,
     AgentGetsInterruptStep DEF AgentReads
<1>9. CASE AgentEnds
  BY <1>9, AgentEndsStep
<1>10. CASE AgentDies
  BY <1>10, AgentDiesStep
<1>11. CASE UNCHANGED vars
  <2>1. UNCHANGED <<conv, pending, activeTurn, desktop, aborted, toAgent, toClient, alive,
                    agent, asks, items, answers, early>>
    BY <1>11 DEF vars
  <2>2. TypeOK' /\ IsFiniteSet(asks)' /\ ConvOK(conv)'
    BY <2>1 DEF IInv, TypeOK
  <2>3. SessionOK' /\ ShownOK'
    BY <2>1 DEF IInv, SessionOK, ShownOK, HasNoTurn
  <2>4. TurnOK'
    BY <2>1 DEF IInv, TurnOK, StartOK, LineOK
  <2>5. ItemsOK' /\ RequestsOK' /\ PendingIsInFlight'
    BY <2>1 DEF IInv, ItemsOK, RequestsOK, PendingIsInFlight
  <2> QED
    BY <2>2, <2>3, <2>4, <2>5 DEF IInv
<1> QED
  BY <1>1, <1>2, <1>3, <1>4, <1>5, <1>6, <1>7, <1>8, <1>9, <1>10, <1>11 DEF Next

\* Every state of a session satisfies the invariant.
LEMMA Invariant == Spec => []IInv
<1>1. Init => IInv
  BY InitInv
<1>2. IInv /\ [Next]_vars => IInv'
  BY NextInv
<1> QED
  BY <1>1, <1>2, PTL DEF Spec

-----------------------------------------------------------------------------
(* The theorems.                                                           *)

\* The state of the session, of the engine and of the two pipes is well formed: every
\* turn, item and request that a line or a command names is one there is.
THEOREM TypeCorrect == Spec => []TypeOK
<1>1. IInv => TypeOK
  BY DEF IInv
<1> QED
  BY <1>1, Invariant, PTL

\* The turns the engine counts as active are the live ones, and there is one at most: no
\* late response or notification makes a finished turn active again.
THEOREM ActiveTurnsLive == Spec => []ActiveTurnsAreLive
<1>1. IInv => ActiveTurnsAreLive
  <2> SUFFICES ASSUME IInv
               PROVE  ActiveTurnsAreLive
    OBVIOUS
  <2>1. ConvOK(conv)
    BY DEF IInv
  <2>2. Cardinality(conv.active) <= 1
    <3>1. CASE conv.active = {}
      BY <3>1, FS_EmptySet
    <3>2. CASE conv.active # {}
      <4>1. PICK t \in conv.active : conv.active = {t}
        BY <2>1, <3>2, ActiveTurn1
      <4> QED
        BY <4>1, FS_Singleton
    <3> QED
      BY <3>1, <3>2
  <2> QED
    BY <2>1, <2>2 DEF ConvOK, ActiveTurnsAreLive
<1> QED
  BY <1>1, Invariant, PTL

\* When a turn is over, no action of it runs and no request of it is open, whatever was
\* still on its way when it ended.
THEOREM FinishedTurnsSettled == Spec => []FinishedTurnIsSettled
<1>1. IInv => FinishedTurnIsSettled
  BY DEF IInv, ConvOK, SettledIn, FinishedTurnIsSettled
<1> QED
  BY <1>1, Invariant, PTL

\* The engine never has a turn ended that the agent works on or has still to begin.
THEOREM NotAhead == Spec => []ClientIsNotAhead
<1>1. IInv => ClientIsNotAhead
  <2> SUFFICES ASSUME IInv, NEW t \in Turns, conv.turns[t] # Absent, IsTerminal(conv.turns[t])
               PROVE  /\ agent.turn # t
                      /\ \A i \in 1..Len(toAgent) : toAgent[i] # About("turn/start", t)
    BY DEF ClientIsNotAhead
  <2>1. t \notin conv.active
    BY DEF IInv, ConvOK, IsLive
  <2>2. t # activeTurn.turn
    BY <2>1, TurnsAssumption DEF IInv, SessionOK
  <2>3. agent.turn # t
    BY <2>2, TurnsAssumption DEF IInv, TurnOK
  <2>4. ASSUME NEW i \in 1..Len(toAgent), toAgent[i] = About("turn/start", t)
        PROVE  FALSE
    <3>1. toAgent[i].type = "turn/start" /\ toAgent[i].turn = t
      BY <2>4 DEF About
    <3> QED
      BY <2>2, <3>1 DEF IInv, TurnOK, StartOK
  <2> QED
    BY <2>3, <2>4
<1> QED
  BY <1>1, Invariant, PTL

\* The request the session shows is open, and the only one that is; a turn that waits
\* for the user while the session polls has none that is not shown.
THEOREM ShownOpen == Spec => []ShownRequestIsOpen
<1>1. IInv => ShownRequestIsOpen
  BY DEF IInv, ShownOK, ShownRequestIsOpen
<1> QED
  BY <1>1, Invariant, PTL

\* No request of the agent is answered twice, by the user and by the draining of a
\* stopped turn.
THEOREM AnsweredAtMostOnce == Spec => []AnsweredOnce
<1>1. IInv => AnsweredOnce
  BY DEF IInv, RequestsOK, AnsweredOnce
<1> QED
  BY <1>1, Invariant, PTL

\* A session between two messages has no turn, nor has its engine an active one, unless
\* the agent has died or a Stop came before the id of its turn.
THEOREM IdleHasNoTurn == Spec => []IdleSessionHasNoTurn
<1>1. IInv => IdleSessionHasNoTurn
  BY DEF IInv, SessionOK, IdleSessionHasNoTurn
<1> QED
  BY <1>1, Invariant, PTL

\* Nothing is left over in the table of pending requests, with the same two exceptions.
THEOREM NothingLeftPending == Spec => []PendingIsInFlight
<1>1. IInv => PendingIsInFlight
  BY DEF IInv
<1> QED
  BY <1>1, Invariant, PTL
=============================================================================
