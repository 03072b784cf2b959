--------------------------- MODULE PiSession_proofs ---------------------------
(***************************************************************************)
(* Theorems about PiSession, for any number of operations and any backlog. *)
(* TypeOK holds whatever overlaps; each part of the safety properties      *)
(* holds unless the overlap that breaks it may happen.                     *)
(*                                                                         *)
(* The argument is that the pipes hold nothing of a turn but the one at    *)
(* work (TurnOK): one prompt is written, its events come after it and its  *)
(* agent_end last, and the operation does not end before that unless the   *)
(* process does.  So what Pi has in its file beyond the old turns is the   *)
(* turn at work, until the file counts as replayed (OnceOK), and an answer *)
(* to get_messages holds old turns alone.                                  *)
(***************************************************************************)
EXTENDS PiSession, TLAPS

\* The operation at work and where it waits; whose client it waits for.
OpOK ==
  /\ phase = "idle" <=> op = NoOp
  /\ phase = "starting" <=> client = "starting"
  /\ op # NoOp => kind[op] # "none" /\ op \notin done
  /\ phase \in InTurn \cup {"selecting"} => kind[op] = "send"
  /\ phase = "replaying" => ~ replayed
  /\ phase \in InTurn \cup {"selecting", "replaying"} => client = "open"

\* A closed session has no client and nothing that would start one.
OwnedOK ==
  /\ ProcessIsOwned
  /\ closed => client = "none" /\ \A o \in Operations : ~ Queued(o)

\* What the agent writes of itself.
IsEvent(line) == line.type \in {"event", "agent_end"}

\* A prompt that the agent has not taken is the only one, of the operation at work, and
\* nothing was written of it.
PromptOK(i) ==
  /\ toAgent[i].op = op /\ phase = "prompting" /\ agent.turn = NoOp
  /\ \A j \in 1 .. Len(toClient) : ~ IsEvent(toClient[j])
  /\ \A j \in 1 .. Len(toClient) :
       toClient[j].type = "response" /\ toClient[j].op = op => toClient[j].to # "prompt"
  /\ \A j \in 1 .. Len(toAgent) : toAgent[j].type = "prompt" => i = j

\* An event is of the operation at work, and nothing comes after its agent_end.
EventOK(i) ==
  /\ toClient[i].op = op /\ phase \in {"prompting", "running"}
  /\ toClient[i].type = "agent_end" =>
       /\ agent.turn = NoOp
       /\ \A j \in 1 .. Len(toClient) : IsEvent(toClient[j]) => j <= i

\* A response to a prompt is of one that was sent.
AnswersOK ==
  \A i \in 1 .. Len(toClient) :
    toClient[i].type = "response" /\ toClient[i].to = "prompt" =>
      toClient[i].op \in done \/ (toClient[i].op = op /\ phase \in InTurn)

\* What the pipes hold of a turn.
TurnOK ==
  /\ EventsAreOwn
  /\ agent.turn # NoOp => agent.turn = op /\ phase \in {"prompting", "running"}
  /\ \A i \in 1 .. Len(toAgent) : toAgent[i].type = "prompt" => PromptOK(i)
  /\ \A i \in 1 .. Len(toClient) : IsEvent(toClient[i]) => EventOK(i)
  /\ AnswersOK

\* What Pi has in its file, and what it answers to get_messages.
LoadOK ==
  /\ file \subseteq turns \cup {NoOp}
  /\ \A i \in 1 .. Len(toAgent) : toAgent[i].type = "prompt" => toAgent[i].op \in turns
  /\ \A i \in 1 .. Len(toClient) :
       toClient[i].type = "response" /\ toClient[i].to = "get_messages" /\ NoOp \in file
         => NoOp \in toClient[i].messages
  /\ replayed /\ NoOp \in file => NoOp \in history
  /\ \A o \in Operations : kind[o] = "send" => NoOp \notin file \/ replayed

\* What of it may be replayed.
OnceOK ==
  /\ history \subseteq {NoOp}
  /\ \A i \in 1 .. Len(toClient) : toClient[i].type = "response" =>
       toClient[i].messages \subseteq file
  /\ ~ replayed /\ client # "failed" /\ ~ closed =>
       file \subseteq {NoOp} \cup (IF phase \in InTurn THEN {op} ELSE {})

\* TypeOK in three parts: the flags, the pipes, and the rest.
FlagsTyped == closed \in BOOLEAN /\ replayed \in BOOLEAN /\ alive \in BOOLEAN

PipesTyped == toAgent \in Seq(Command) /\ toClient \in Seq(Line) /\ agent \in Agent

DataTyped ==
  /\ kind \in [Operations -> {"none", "send", "hydrate"}]
  /\ op \in Turns
  /\ phase \in Waits \cup {"idle", "configuring"}
  /\ done \subseteq Operations
  /\ aborted \subseteq Operations
  /\ client \in {"none", "starting", "open", "failed"}
  /\ turns \subseteq Operations
  /\ history \subseteq Turns
  /\ file \subseteq Turns
  /\ shown \subseteq Operations \X Operations

TypeInv == FlagsTyped /\ PipesTyped /\ DataTyped /\ OpOK

-----------------------------------------------------------------------------
(* Sequences and records.                                                  *)

\* What is left of a pipe after its first item.
LEMMA TailItems ==
  ASSUME NEW S, NEW s \in Seq(S), s # <<>>
  PROVE  /\ Tail(s) \in Seq(S) /\ Head(s) \in S /\ Head(s) = s[1] /\ 1 \in 1 .. Len(s)
         /\ \A i \in 1 .. Len(Tail(s)) : Tail(s)[i] = s[i + 1] /\ i + 1 \in 1 .. Len(s)
  OBVIOUS

\* What a pipe holds after one more item.
LEMMA AppendItems ==
  ASSUME NEW S, NEW s \in Seq(S), NEW x \in S
  PROVE  /\ Append(s, x) \in Seq(S)
         /\ \A i \in 1 .. Len(Append(s, x)) :
              \/ i \in 1 .. Len(s) /\ Append(s, x)[i] = s[i]
              \/ i = Len(s) + 1 /\ Append(s, x)[i] = x
  OBVIOUS

\* What a pipe holds is typed.
LEMMA ItemTyped ==
  ASSUME NEW S, NEW s \in Seq(S), NEW i \in 1 .. Len(s)
  PROVE  s[i] \in S
  OBVIOUS

\* The phases that wait for a response, and for which.
LEMMA AwaitedPhases ==
  /\ DOMAIN Awaits = {"starting", "selecting", "replaying", "prompting", "answering"}
  /\ Awaits["replaying"] = "get_messages" /\ Awaits["selecting"] = "set_model"
  /\ Awaits["prompting"] = "prompt" /\ Awaits["answering"] = "prompt"
  /\ Awaits["starting"] = "get_state"
  BY DEF Awaits

\* A command is typed.
LEMMA AsksTyped ==
  ASSUME NEW type \in Requests \cup {"abort"}, NEW o \in Operations
  PROVE  Asks(type, o) \in Command /\ Asks(type, o).type = type /\ Asks(type, o).op = o
  BY DEF Asks, Command

\* An event is typed.
LEMMA EventTyped ==
  ASSUME NEW type \in {"event", "agent_end"}, NEW o \in Operations
  PROVE  Asks(type, o) \in Line /\ Asks(type, o).type = type /\ Asks(type, o).op = o
  BY DEF Asks, Line

\* An answer is typed.
LEMMA AnswerTyped ==
  ASSUME NEW command \in Command, command.type # "abort", NEW ok \in BOOLEAN,
         NEW messages \in SUBSET Turns
  PROVE  [type |-> "response", to |-> command.type, op |-> command.op, ok |-> ok,
          messages |-> messages] \in Line
  BY DEF Command, Line, Requests

\* A line is a response or an event.
LEMMA LineKinds ==
  ASSUME NEW line \in Line
  PROVE  /\ line.op \in Operations
         /\ line.type \in {"response", "event", "agent_end"}
         /\ line.type = "response" => line.messages \subseteq Turns /\ line.ok \in BOOLEAN
  BY DEF Line



\* What is written is typed.
LEMMA WritesTyped ==
  ASSUME toAgent \in Seq(Command), NEW type \in Requests \cup {"abort"}, op \in Operations,
         Writes(Asks(type, op))
  PROVE  toAgent' \in Seq(Command)
<1>1. Asks(type, op) \in Command
  BY AsksTyped
<1> QED
  BY <1>1, AppendItems DEF Writes

\* Empty pipes are typed.
LEMMA KilledTyped == Killed => PipesTyped'
  BY DEF Killed, PipesTyped, Agent, Resting, Turns, NoOp

\* The first line is typed, and so are those after it.
LEMMA HeadTyped ==
  ASSUME PipesTyped
  PROVE  /\ toAgent # <<>> =>
              /\ Head(toAgent) \in Command /\ Head(toAgent).op \in Operations
              /\ Tail(toAgent) \in Seq(Command)
         /\ toClient # <<>> =>
              /\ Head(toClient) \in Line /\ Head(toClient).op \in Operations
              /\ Head(toClient).type \in {"response", "event", "agent_end"}
              /\ Head(toClient).type = "response" =>
                   Head(toClient).messages \subseteq Turns /\ Head(toClient).ok \in BOOLEAN
              /\ Tail(toClient) \in Seq(Line)
<1>1. toAgent # <<>> => Head(toAgent) \in Command /\ Tail(toAgent) \in Seq(Command)
  BY TailItems DEF PipesTyped
<1>2. toClient # <<>> => Head(toClient) \in Line /\ Tail(toClient) \in Seq(Line)
  BY TailItems DEF PipesTyped
<1>3. \A c \in Command : c.op \in Operations
  BY DEF Command
<1> QED
  BY <1>1, <1>2, <1>3, LineKinds

\* The types and where the operation waits, at the start.
LEMMA InitTyped == Init => TypeInv
<1>1. Init => FlagsTyped
  BY OperationsAssumption, AwaitedPhases DEF Init, FlagsTyped, Turns, NoOp, Waits,
      InTurn, Agent, Resting
<1>2. Init => PipesTyped
  BY OperationsAssumption, AwaitedPhases DEF Init, PipesTyped, Turns, NoOp, Waits,
      InTurn, Agent, Resting
<1>3. Init => DataTyped
  BY OperationsAssumption, AwaitedPhases DEF Init, DataTyped, Turns, NoOp, Waits,
      InTurn, Agent, Resting
<1>4. Init => OpOK
  BY OperationsAssumption, AwaitedPhases DEF Init, OpOK, Turns, NoOp, Waits,
      InTurn, Agent, Resting
<1> QED
  BY <1>1, <1>2, <1>3, <1>4 DEF TypeInv

\* Every step preserves the types of the pipes.
LEMMA PipesStep == TypeInv /\ [Next]_vars => PipesTyped'
<1> SUFFICES ASSUME TypeInv, [Next]_vars
             PROVE  PipesTyped'
  OBVIOUS
<1> USE DEF TypeInv, NoOp, queueVars, engineVars, pipeVars
<1>0. phase # "idle" => op \in Operations
  BY DEF OpOK, DataTyped, Turns
<1>1. CASE UNCHANGED <<toAgent, toClient, agent>>
  BY <1>1 DEF PipesTyped
<1>2. ASSUME NEW o \in Operations, Begins(o)
      PROVE  PipesTyped'
  <2>1. Asks("get_state", o) \in Command
    BY AsksTyped DEF Requests
  <2>2. UNCHANGED <<toClient, agent>> /\ (UNCHANGED toAgent \/ toAgent' = <<Asks("get_state", o)>>)
    BY <1>2 DEF Begins
  <2>3. <<Asks("get_state", o)>> \in Seq(Command)
    BY <2>1
  <2> QED
    BY <2>2, <2>3 DEF PipesTyped
<1>3. ASSUME NEW type \in Requests \cup {"abort"}, Writes(Asks(type, op)), phase # "idle",
             UNCHANGED agent, toClient' \in Seq(Line)
      PROVE  PipesTyped'
  BY <1>0, <1>3, WritesTyped DEF PipesTyped
<1>4. ASSUME NEW o \in Operations, Stop(o)
      PROVE  PipesTyped'
  <2>1. UNCHANGED <<toClient, agent>>
    BY <1>4 DEF Stop
  <2>2. UNCHANGED toAgent \/ (Writes(Asks("abort", op)) /\ phase \in InTurn)
    BY <1>4 DEF Stop, Stops
  <2>3. phase \in InTurn => phase # "idle"
    BY DEF InTurn
  <2> QED
    BY <1>3, <2>1, <2>2, <2>3 DEF PipesTyped
<1>5. CASE Configured
  <2>1. UNCHANGED <<toClient, agent>>
    BY <1>5 DEF Configured
  <2>2. \/ UNCHANGED toAgent
        \/ Writes(Asks("prompt", op))
        \/ Writes(Asks("set_model", op))
        \/ Writes(Asks("get_messages", op))
    BY <1>5, AwaitedPhases DEF Configured, Prompts
  <2>3. phase # "idle"
    BY <1>5 DEF Configured
  <2> QED
    BY <1>3, <2>1, <2>2, <2>3 DEF PipesTyped, Requests
<1>6. CASE ReadResponse
  <2>1. Tail(toClient) \in Seq(Line)
    BY <1>6, HeadTyped DEF ReadResponse
  <2>2. CASE ~ Awaited(Head(toClient))
    BY <1>6, <2>1, <2>2 DEF ReadResponse, PipesTyped
  <2>3. CASE Awaited(Head(toClient))
    <3>1. Killed \/ (toClient' = Tail(toClient) /\ UNCHANGED agent)
      BY <1>6, <2>3, AwaitedPhases DEF ReadResponse, Awaited, ReadAwaited
    <3>2. Killed \/ UNCHANGED toAgent \/ Writes(Asks("prompt", op))
      BY <1>6, <2>3, AwaitedPhases DEF ReadResponse, Awaited, ReadAwaited, Prompts
    <3>3. phase # "idle"
      BY <2>3, AwaitedPhases DEF Awaited
    <3> QED
      BY <1>3, <2>1, <3>1, <3>2, <3>3, KilledTyped DEF PipesTyped, Requests
  <2> QED
    BY <2>2, <2>3
<1>7. CASE ReadEvent
  BY <1>7, HeadTyped DEF ReadEvent, PipesTyped
<1>8. Killed => PipesTyped'
  BY KilledTyped
<1>9. CASE TimesOut \/ Fails \/ Close
  BY <1>1, <1>8, <1>9 DEF TimesOut, StartFails, Fails, Close
<1>10. ASSUME NEW ok \in BOOLEAN, AgentTakes(ok)
       PROVE  PipesTyped'
  <2> DEFINE command == Head(toAgent)
  <2>1. command \in Command /\ toAgent' = Tail(toAgent) /\ Tail(toAgent) \in Seq(Command)
    BY <1>10, HeadTyped DEF AgentTakes
  <2>2. ASSUME NEW b \in BOOLEAN, NEW m \in SUBSET Turns, command.type # "abort"
        PROVE  Answer(command, b, m) \in Seq(Line)
    BY <2>1, <2>2, AnswerTyped, AppendItems DEF Answer, PipesTyped
  <2>3. toClient' \in Seq(Line)
    <3>1. file \subseteq Turns /\ {} \subseteq Turns
      BY DEF DataTyped
    <3>2. CASE command.type = "abort"
      BY <1>10, <3>2 DEF AgentTakes, PipesTyped
    <3>3. CASE command.type = "prompt"
      BY <1>10, <2>2, <3>1, <3>3 DEF AgentTakes
    <3>4. CASE command.type \notin {"prompt", "abort"}
      BY <1>10, <2>2, <3>1, <3>4 DEF AgentTakes
    <3> QED
      BY <3>2, <3>3, <3>4
  <2>4. agent' \in Agent
    <3>1. command.op \in Turns
      BY <2>1 DEF Command, Turns
    <3>2. [turn |-> command.op, interrupted |-> FALSE] \in Agent
      BY <3>1 DEF Agent
    <3>3. (agent.turn # NoOp) \in BOOLEAN
      OBVIOUS
    <3>4. [agent EXCEPT !.interrupted = agent.turn # NoOp] \in Agent
      BY <3>3 DEF PipesTyped, Agent
    <3> QED
      BY <1>10, <3>2, <3>4 DEF AgentTakes, PipesTyped
  <2> QED
    BY <2>1, <2>3, <2>4 DEF PipesTyped
<1>11. ASSUME agent.turn # NoOp, NEW type \in {"event", "agent_end"}
       PROVE  Append(toClient, Asks(type, agent.turn)) \in Seq(Line)
  <2>1. agent.turn \in Operations
    BY <1>11 DEF PipesTyped, Agent, Turns
  <2> QED
    BY <2>1, EventTyped, AppendItems DEF PipesTyped
<1>12. CASE AgentWorks \/ AgentEnds
  <2>1. Resting \in Agent
    BY DEF Agent, Resting, Turns
  <2> QED
    BY <1>11, <1>12, <2>1 DEF AgentWorks, AgentEnds, PipesTyped
<1>13. CASE AgentDies
  BY <1>13 DEF AgentDies, PipesTyped, Agent, Resting, Turns
<1>14. CASE ConfigurationFails \/ UNCHANGED vars \/
            \E o \in Operations : Ask(o, "send") \/ Ask(o, "hydrate")
  BY <1>1, <1>14 DEF ConfigurationFails, vars, Ask
<1> QED
  BY <1>2, <1>4, <1>5, <1>6, <1>7, <1>9, <1>10, <1>12, <1>13, <1>14 DEF Next

\* Every step preserves the types and where the operation waits.
LEMMA NextTyped == TypeInv /\ [Next]_vars => TypeInv'
<1> SUFFICES ASSUME TypeInv, [Next]_vars
             PROVE  TypeInv'
  OBVIOUS
<1>0. PipesTyped'
  BY PipesStep
<1>16. phase # "idle" => op \in Operations
  BY DEF TypeInv, OpOK, DataTyped, Turns
<1> USE OperationsAssumption, AwaitedPhases, <1>16
    DEF TypeInv, Turns, NoOp, Waits, InTurn, queueVars, engineVars, pipeVars
<1>1. ASSUME NEW o \in Operations, Ask(o, "send") \/ Ask(o, "hydrate")
      PROVE  TypeInv'
  <2>1. FlagsTyped'
    BY <1>1 DEF FlagsTyped, OpOK, DataTyped, Ask
  <2>2. DataTyped'
    BY <1>1 DEF DataTyped, OpOK, Ask
  <2>3. OpOK'
    <3>1. op = NoOp \/ op # o
      BY <1>1 DEF Ask, OpOK
    <3>2. op # NoOp => kind'[op] = kind[op]
      BY <1>1, <3>1 DEF Ask, OpOK, DataTyped
    <3>3. UNCHANGED <<op, phase, done, client, replayed>>
      BY <1>1 DEF Ask
    <3> QED
      BY <3>2, <3>3 DEF OpOK
  <2> QED
    BY <1>0, <2>1, <2>2, <2>3
<1>2. ASSUME NEW o \in Operations, Begins(o)
      PROVE  TypeInv'
  <2>1. FlagsTyped'
    BY <1>2 DEF FlagsTyped, OpOK, DataTyped, Begins, Queued
  <2>2. DataTyped'
    BY <1>2 DEF DataTyped, OpOK, Begins, Queued
  <2>3. OpOK'
    BY <1>2 DEF OpOK, DataTyped, Begins, Queued
  <2> QED
    BY <1>0, <2>1, <2>2, <2>3
<1>3. ASSUME NEW o \in Operations, Stop(o)
      PROVE  TypeInv'
  <2>1. FlagsTyped'
    BY <1>3 DEF FlagsTyped, OpOK, DataTyped, Stop, Stops, Writes
  <2>2. DataTyped'
    BY <1>3 DEF DataTyped, OpOK, Stop, Stops, Writes
  <2>3. OpOK'
    BY <1>3 DEF OpOK, DataTyped, Stop, Stops, Writes
  <2> QED
    BY <1>0, <2>1, <2>2, <2>3
<1>4. CASE Configured
  <2>1. FlagsTyped'
    BY <1>4 DEF FlagsTyped, OpOK, DataTyped, Configured, Prompts, GoesTo, Writes, Ends
  <2>2. DataTyped'
    BY <1>4 DEF DataTyped, OpOK, Configured, Prompts, GoesTo, Writes, Ends
  <2>3. OpOK'
    BY <1>4 DEF OpOK, DataTyped, Configured, Prompts, GoesTo, Writes, Ends
  <2> QED
    BY <1>0, <2>1, <2>2, <2>3
<1>5. CASE ConfigurationFails
  <2>1. FlagsTyped'
    BY <1>5 DEF FlagsTyped, OpOK, DataTyped, ConfigurationFails, Ends
  <2>2. DataTyped'
    BY <1>5 DEF DataTyped, OpOK, ConfigurationFails, Ends
  <2>3. OpOK'
    BY <1>5 DEF OpOK, DataTyped, ConfigurationFails, Ends
  <2> QED
    BY <1>0, <2>1, <2>2, <2>3
<1>6. CASE ReadResponse
  <2>1. FlagsTyped'
    BY <1>6, HeadTyped DEF FlagsTyped, OpOK, DataTyped, ReadResponse, Awaited,
       ReadAwaited, GoesTo, Ends, Killed, Prompts, Returns
  <2>2. DataTyped'
    BY <1>6, HeadTyped DEF DataTyped, OpOK, ReadResponse, Awaited, ReadAwaited, GoesTo,
       Ends, Killed, Prompts, Returns
  <2>3. OpOK'
    <3>1. CASE ~ Awaited(Head(toClient))
      BY <1>6, <3>1 DEF OpOK, ReadResponse
    <3>2. CASE Awaited(Head(toClient)) /\ phase = "starting" /\ Head(toClient).ok
      BY <1>6, <3>2 DEF OpOK, ReadResponse, ReadAwaited, GoesTo
    <3>7. CASE Awaited(Head(toClient)) /\ phase = "starting" /\ ~ Head(toClient).ok
      BY <1>6, <3>7 DEF OpOK, ReadResponse, ReadAwaited, Ends
    <3>3. CASE Awaited(Head(toClient)) /\ phase = "selecting"
      BY <1>6, <3>3 DEF OpOK, ReadResponse, ReadAwaited, Prompts, GoesTo, Ends
    <3>4. CASE Awaited(Head(toClient)) /\ phase = "replaying"
      BY <1>6, <3>4 DEF OpOK, ReadResponse, ReadAwaited, Ends
    <3>5. CASE Awaited(Head(toClient)) /\ phase = "prompting"
      BY <1>6, <3>5 DEF OpOK, ReadResponse, ReadAwaited, GoesTo
    <3>6. CASE Awaited(Head(toClient)) /\ phase = "answering"
      BY <1>6, <3>6 DEF OpOK, ReadResponse, ReadAwaited, Returns, Ends
    <3> QED
      BY <3>1, <3>2, <3>3, <3>4, <3>5, <3>6, <3>7 DEF Awaited
  <2> QED
    BY <1>0, <2>1, <2>2, <2>3
<1>7. CASE ReadEvent
  <2>1. FlagsTyped'
    BY <1>7, HeadTyped DEF FlagsTyped, OpOK, DataTyped, ReadEvent, Returns, GoesTo, Ends
  <2>2. DataTyped'
    BY <1>7, HeadTyped DEF DataTyped, OpOK, ReadEvent, Returns, GoesTo, Ends
  <2>3. OpOK'
    BY <1>7, HeadTyped DEF OpOK, DataTyped, ReadEvent, Returns, GoesTo, Ends
  <2> QED
    BY <1>0, <2>1, <2>2, <2>3
<1>8. CASE TimesOut
  <2>1. FlagsTyped'
    BY <1>8 DEF FlagsTyped, OpOK, DataTyped, TimesOut, StartFails, Ends, Killed
  <2>2. DataTyped'
    BY <1>8 DEF DataTyped, OpOK, TimesOut, StartFails, Ends, Killed
  <2>3. OpOK'
    BY <1>8 DEF OpOK, DataTyped, TimesOut, StartFails, Ends, Killed
  <2> QED
    BY <1>0, <2>1, <2>2, <2>3
<1>9. CASE Fails
  <2>1. FlagsTyped'
    BY <1>9 DEF FlagsTyped, OpOK, DataTyped, Fails, Ends, Killed
  <2>2. DataTyped'
    BY <1>9 DEF DataTyped, OpOK, Fails, Ends, Killed
  <2>3. OpOK'
    BY <1>9 DEF OpOK, DataTyped, Fails, Ends, Killed
  <2> QED
    BY <1>0, <2>1, <2>2, <2>3
<1>10. CASE Close
  <2>1. FlagsTyped'
    BY <1>10 DEF FlagsTyped, OpOK, DataTyped, Close, Ends, Killed
  <2>2. DataTyped'
    BY <1>10 DEF DataTyped, OpOK, Close, Ends, Killed
  <2>3. OpOK'
    <3>1. UNCHANGED <<kind, replayed>>
      BY <1>10 DEF Close
    <3>4. CASE client = "starting"
      <4>1. UNCHANGED <<op, phase, done, client>>
        BY <1>10, <3>4 DEF Close
      <4> QED
        BY <3>1, <4>1 DEF OpOK
    <3>2. CASE client # "starting" /\ phase \in Waits
      BY <1>10, <3>2 DEF OpOK, Close, Ends
    <3>3. CASE client # "starting" /\ phase \notin Waits
      <4>1. UNCHANGED <<op, phase, done>> /\ client' = "none"
        BY <1>10, <3>3 DEF Close
      <4> QED
        BY <3>1, <3>3, <4>1 DEF OpOK
    <3> QED
      BY <3>2, <3>3, <3>4
  <2> QED
    BY <1>0, <2>1, <2>2, <2>3
<1>11. ASSUME NEW ok \in BOOLEAN, AgentTakes(ok)
      PROVE  TypeInv'
  <2>1. FlagsTyped'
    BY <1>11, HeadTyped DEF FlagsTyped, OpOK, DataTyped, AgentTakes
  <2>2. DataTyped'
    BY <1>11, HeadTyped DEF DataTyped, OpOK, AgentTakes
  <2>3. OpOK'
    BY <1>11, HeadTyped DEF OpOK, DataTyped, AgentTakes
  <2> QED
    BY <1>0, <2>1, <2>2, <2>3
<1>12. CASE AgentWorks
  <2>1. FlagsTyped'
    BY <1>12 DEF FlagsTyped, OpOK, DataTyped, AgentWorks
  <2>2. DataTyped'
    BY <1>12 DEF DataTyped, OpOK, AgentWorks
  <2>3. OpOK'
    BY <1>12 DEF OpOK, DataTyped, AgentWorks
  <2> QED
    BY <1>0, <2>1, <2>2, <2>3
<1>13. CASE AgentEnds
  <2>1. FlagsTyped'
    BY <1>13 DEF FlagsTyped, OpOK, DataTyped, AgentEnds
  <2>2. DataTyped'
    BY <1>13 DEF DataTyped, OpOK, AgentEnds
  <2>3. OpOK'
    BY <1>13 DEF OpOK, DataTyped, AgentEnds
  <2> QED
    BY <1>0, <2>1, <2>2, <2>3
<1>14. CASE AgentDies
  <2>1. FlagsTyped'
    BY <1>14 DEF FlagsTyped, OpOK, DataTyped, AgentDies
  <2>2. DataTyped'
    BY <1>14 DEF DataTyped, OpOK, AgentDies
  <2>3. OpOK'
    BY <1>14 DEF OpOK, DataTyped, AgentDies
  <2> QED
    BY <1>0, <2>1, <2>2, <2>3
<1>15. CASE UNCHANGED vars
  <2>1. FlagsTyped'
    BY <1>15 DEF FlagsTyped, OpOK, DataTyped, vars
  <2>2. DataTyped'
    BY <1>15 DEF DataTyped, OpOK, vars
  <2>3. OpOK'
    BY <1>15 DEF OpOK, DataTyped, vars
  <2> QED
    BY <1>0, <2>1, <2>2, <2>3
<1> QED
  BY <1>1, <1>2, <1>3, <1>4, <1>5, <1>6, <1>7, <1>8, <1>9, <1>10, <1>11, <1>12, <1>13,
     <1>14, <1>15 DEF Next

-----------------------------------------------------------------------------
(* The process.                                                            *)

\* At the start there is no process.
LEMMA InitOwned == Init => OwnedOK
  BY DEF Init, OwnedOK, ProcessIsOwned

\* A process is started only by an operation of a session that is open, and one that
\* is not in a field any more has been stopped.
LEMMA NextOwned ==
  ASSUME "close while starting" \notin Overlaps, TypeInv, OwnedOK, [Next]_vars
  PROVE  OwnedOK'
<1> USE AwaitedPhases DEF OwnedOK, ProcessIsOwned, Queued, TypeInv, Waits, InTurn, queueVars,
        engineVars, pipeVars
<1>1. ASSUME NEW o \in Operations, Ask(o, "send") \/ Ask(o, "hydrate")
      PROVE  OwnedOK'
  <2>1. ~ closed /\ UNCHANGED <<closed, alive, client>>
    BY <1>1 DEF Ask
  <2> QED
    BY <2>1
<1>2. ASSUME NEW o \in Operations, Begins(o)
      PROVE  OwnedOK'
  BY <1>2 DEF Begins, OpOK
<1>3. ASSUME NEW o \in Operations, Stop(o)
      PROVE  OwnedOK'
  BY <1>3 DEF Stop
<1>4. CASE Configured
  BY <1>4 DEF Configured, Prompts, GoesTo, Ends
<1>5. CASE ConfigurationFails
  BY <1>5 DEF ConfigurationFails, Ends
<1>6. CASE ReadResponse
  <2>1. ~ closed /\ ~ closed' /\ client \in {"starting", "open"}
    BY <1>6 DEF ReadResponse
  <2>2. \/ UNCHANGED <<client, alive>>
        \/ client' = "open" /\ UNCHANGED alive
        \/ ~ alive'
    BY <1>6 DEF ReadResponse, Awaited, ReadAwaited, Killed
  <2> QED
    BY <2>1, <2>2
<1>7. CASE ReadEvent
  BY <1>7 DEF ReadEvent
<1>8. CASE TimesOut
  <2>1. CASE phase = "starting"
    BY <1>8, <2>1 DEF TimesOut, StartFails, Killed, Ends, OpOK
  <2>2. CASE phase # "starting"
    BY <1>8, <2>2 DEF TimesOut, Ends
  <2> QED
    BY <2>1, <2>2
<1>9. CASE Fails
  BY <1>9 DEF Fails, Killed
<1>10. CASE Close
  <2>1. client # "starting" /\ \A o \in Operations : ~ Queued(o)
    BY <1>10 DEF Close
  <2>2. ~ alive' /\ client' = "none" /\ UNCHANGED kind
    BY <1>10, <2>1 DEF Close, Killed
  <2>3. (UNCHANGED <<op, done>>) \/ (op' = NoOp /\ done' = done \cup {op})
    BY <1>10, <2>1 DEF Close, Ends
  <2> QED
    BY <2>1, <2>2, <2>3
<1>11. ASSUME NEW ok \in BOOLEAN, AgentTakes(ok)
       PROVE  OwnedOK'
  BY <1>11 DEF AgentTakes
<1>12. CASE AgentWorks \/ AgentEnds \/ AgentDies \/ UNCHANGED vars
  <2>1. UNCHANGED <<kind, done, op, client, closed>> /\ (UNCHANGED alive \/ ~ alive')
    BY <1>12 DEF AgentWorks, AgentEnds, AgentDies, vars
  <2>2. CASE UNCHANGED alive
    BY <2>1, <2>2
  <2>3. CASE ~ alive'
    BY <2>1, <2>3
  <2> QED
    BY <2>1, <2>2, <2>3
<1> QED
  BY <1>1, <1>2, <1>3, <1>4, <1>5, <1>6, <1>7, <1>8, <1>9, <1>10, <1>11, <1>12 DEF Next

-----------------------------------------------------------------------------
(* The pipes.                                                              *)

\* Nothing of a turn is under way.
Quiet ==
  /\ agent.turn = NoOp
  /\ \A i \in 1 .. Len(toAgent) : toAgent[i].type # "prompt"
  /\ \A i \in 1 .. Len(toClient) : ~ IsEvent(toClient[i])

\* Then TurnOK holds, in this state and in the next.
LEMMA QuietTurn == EventsAreOwn /\ Quiet /\ AnswersOK => TurnOK
<1> SUFFICES ASSUME EventsAreOwn, Quiet, AnswersOK
             PROVE  TurnOK
  OBVIOUS
<1>1. \A i \in 1 .. Len(toAgent) : toAgent[i].type = "prompt" => PromptOK(i)
  BY DEF Quiet
<1>2. \A i \in 1 .. Len(toClient) : IsEvent(toClient[i]) => EventOK(i)
  BY DEF Quiet
<1> QED
  BY <1>1, <1>2 DEF Quiet, TurnOK

LEMMA QuietNext == EventsAreOwn' /\ Quiet' /\ AnswersOK' => TurnOK'
  BY QuietTurn, PTL

\* Outside a turn nothing of one is under way.
LEMMA TurnQuiet == TurnOK /\ phase \notin {"prompting", "running"} => Quiet
  BY DEF TurnOK, Quiet, PromptOK, EventOK, NoOp

\* The items of the pipes after a step of theirs.
LEMMA PipeItems ==
  ASSUME PipesTyped
  PROVE  /\ toAgent # <<>> => /\ Head(toAgent) = toAgent[1] /\ 1 \in 1 .. Len(toAgent)
                              /\ \A i \in 1 .. Len(Tail(toAgent)) :
                                   Tail(toAgent)[i] = toAgent[i + 1] /\ i + 1 \in 1 .. Len(toAgent)
         /\ toClient # <<>> => /\ Head(toClient) = toClient[1] /\ 1 \in 1 .. Len(toClient)
                               /\ \A i \in 1 .. Len(Tail(toClient)) :
                                    Tail(toClient)[i] = toClient[i + 1] /\ i + 1 \in 1 .. Len(toClient)
         /\ \A x \in Command : \A i \in 1 .. Len(Append(toAgent, x)) :
              \/ i \in 1 .. Len(toAgent) /\ Append(toAgent, x)[i] = toAgent[i]
              \/ i = Len(toAgent) + 1 /\ Append(toAgent, x)[i] = x
         /\ \A x \in Line : \A i \in 1 .. Len(Append(toClient, x)) :
              \/ i \in 1 .. Len(toClient) /\ Append(toClient, x)[i] = toClient[i]
              \/ i = Len(toClient) + 1 /\ Append(toClient, x)[i] = x
  BY TailItems, AppendItems DEF PipesTyped

\* At the start nothing is in the pipes.
LEMMA InitTurn == Init => TurnOK
  BY DEF Init, TurnOK, AnswersOK, EventsAreOwn, Resting

\* Nothing of a turn comes to be under way but by a prompt.
LEMMA KilledQuiet ==
  ASSUME Killed
  PROVE  Quiet' /\ AnswersOK'
  BY DEF Killed, Quiet, AnswersOK, Resting

\* An operation that is not in a turn ends, or goes on outside one.
LEMMA AnswersStay ==
  ASSUME AnswersOK, UNCHANGED toClient,
         \/ op = op' /\ done \subseteq done' /\ (phase \in InTurn => phase' \in InTurn)
         \/ op \in done' /\ done \subseteq done'
         \/ op = NoOp /\ phase \notin InTurn /\ done \subseteq done'
  PROVE  AnswersOK'
  BY DEF AnswersOK

\* The same when a line is read.
LEMMA AnswersRead ==
  ASSUME PipesTyped, AnswersOK, toClient # <<>>, toClient' = Tail(toClient),
         \/ op = op' /\ done \subseteq done' /\ (phase \in InTurn => phase' \in InTurn)
         \/ op \in done' /\ done \subseteq done'
  PROVE  AnswersOK'
<1>1. \A i \in 1 .. Len(toClient') : toClient'[i] = toClient[i + 1] /\ i + 1 \in 1 .. Len(toClient)
  BY PipeItems
<1> QED
  BY <1>1 DEF AnswersOK

\* A prompt that is written while nothing of a turn is under way.
LEMMA PromptTurn ==
  ASSUME TypeInv, TurnOK, phase \in {"configuring", "selecting"}, Prompts, UNCHANGED agent,
         UNCHANGED shown, UNCHANGED toClient \/ (toClient # <<>> /\ toClient' = Tail(toClient))
  PROVE  TurnOK'
<1> USE DEF TypeInv, InTurn
<1>1. Quiet /\ EventsAreOwn' /\ op \in Operations /\ op \notin done
  BY TurnQuiet DEF TurnOK, EventsAreOwn, OpOK, DataTyped, Turns
<1>2. AnswersOK'
  BY AnswersStay, AnswersRead DEF Prompts, GoesTo, Ends, TurnOK
<1>3. \A i \in 1 .. Len(toClient') : \E j \in 1 .. Len(toClient) : toClient'[i] = toClient[j]
  <2>1. CASE toClient # <<>> /\ toClient' = Tail(toClient)
    BY <2>1, PipeItems
  <2> QED
    BY <2>1
<1>4. /\ agent'.turn = NoOp
      /\ \A i \in 1 .. Len(toClient') : ~ IsEvent(toClient'[i])
      /\ \A i \in 1 .. Len(toClient') :
           toClient'[i].type = "response" /\ toClient'[i].op = op => toClient'[i].to # "prompt"
  BY <1>1, <1>3 DEF Quiet, TurnOK, AnswersOK
<1>5. CASE UNCHANGED toAgent
  BY <1>1, <1>2, <1>4, <1>5, QuietNext DEF Quiet
<1>6. CASE toAgent' = Append(toAgent, Asks("prompt", op)) /\ GoesTo("prompting")
  <2>1. \A i \in 1 .. Len(toAgent') : toAgent'[i].type = "prompt" =>
          i = Len(toAgent) + 1 /\ toAgent'[i].op = op
    BY <1>1, <1>6, PipeItems, AsksTyped DEF Quiet, Requests
  <2>2. op' = op /\ phase' = "prompting"
    BY <1>6 DEF GoesTo
  <2>3. ASSUME NEW i \in 1 .. Len(toAgent'), toAgent'[i].type = "prompt"
        PROVE  PromptOK(i)'
    BY <1>4, <2>1, <2>2, <2>3 DEF PromptOK
  <2> QED
    BY <1>1, <1>2, <1>4, <2>2, <2>3 DEF TurnOK, NoOp
<1> QED
  BY <1>5, <1>6 DEF Prompts, Writes

\* A step that adds nothing of a turn while nothing of one is under way.
LEMMA QuietStays ==
  ASSUME PipesTyped, Quiet, agent'.turn = NoOp,
         \/ UNCHANGED toAgent
         \/ toAgent # <<>> /\ toAgent' = Tail(toAgent)
         \/ \E c \in Command : c.type # "prompt" /\ toAgent' \in {<<c>>, Append(toAgent, c)},
         \/ UNCHANGED toClient
         \/ toClient # <<>> /\ toClient' = Tail(toClient)
         \/ \E line \in Line : ~ IsEvent(line) /\ toClient' = Append(toClient, line)
  PROVE  Quiet'
<1>1. \A i \in 1 .. Len(toAgent') : toAgent'[i].type # "prompt"
  <2>1. CASE UNCHANGED toAgent
    BY <2>1 DEF Quiet
  <2>2. CASE toAgent # <<>> /\ toAgent' = Tail(toAgent)
    BY <2>2, PipeItems DEF Quiet
  <2>3. CASE \E c \in Command : c.type # "prompt" /\ toAgent' \in {<<c>>, Append(toAgent, c)}
    <3>1. PICK c \in Command : c.type # "prompt" /\ toAgent' \in {<<c>>, Append(toAgent, c)}
      BY <2>3
    <3>2. CASE toAgent' = <<c>>
      BY <3>1, <3>2
    <3>3. CASE toAgent' = Append(toAgent, c)
      BY <3>1, <3>3, PipeItems DEF Quiet
    <3> QED
      BY <3>1, <3>2, <3>3
  <2> QED
    BY <2>1, <2>2, <2>3
<1>2. \A i \in 1 .. Len(toClient') : ~ IsEvent(toClient'[i])
  <2>1. CASE UNCHANGED toClient
    BY <2>1 DEF Quiet
  <2>2. CASE toClient # <<>> /\ toClient' = Tail(toClient)
    BY <2>2, PipeItems DEF Quiet
  <2>3. ASSUME NEW line \in Line, ~ IsEvent(line), toClient' = Append(toClient, line)
        PROVE  \A i \in 1 .. Len(toClient') : ~ IsEvent(toClient'[i])
    BY <2>3, PipeItems DEF Quiet
  <2> QED
    BY <2>1, <2>2, <2>3
<1> QED
  BY <1>1, <1>2 DEF Quiet, IsEvent

\* The steps of the session outside a turn, and those that end the process.
LEMMA SessionTurn ==
  ASSUME TypeInv, TurnOK, "prompt times out" \notin Overlaps,
         \/ \E o \in Operations : Ask(o, "send") \/ Ask(o, "hydrate") \/ Begins(o) \/ Stop(o)
         \/ Configured \/ ConfigurationFails \/ TimesOut \/ Fails \/ Close
  PROVE  TurnOK'
<1> USE AwaitedPhases DEF TypeInv, NoOp, queueVars, engineVars, pipeVars
<1>0. EventsAreOwn /\ AnswersOK
  BY DEF TurnOK
<1>1. ASSUME NEW o \in Operations, Ask(o, "send") \/ Ask(o, "hydrate")
      PROVE  TurnOK'
  <2>1. UNCHANGED <<toAgent, toClient, agent, op, phase, done, shown>>
    BY <1>1 DEF Ask
  <2> QED
    BY <2>1 DEF TurnOK, EventsAreOwn, AnswersOK, PromptOK, EventOK
<1>2. ASSUME NEW o \in Operations, Begins(o)
      PROVE  TurnOK'
  <2>1. op = NoOp /\ phase = "idle" /\ done \subseteq done' /\ UNCHANGED <<toClient, agent, shown>>
    BY <1>2 DEF Begins, OpOK
  <2>2. Quiet
    BY <2>1, TurnQuiet
  <2>3. Asks("get_state", o) \in Command /\ Asks("get_state", o).type = "get_state"
    BY AsksTyped DEF Requests
  <2>4. UNCHANGED toAgent \/ toAgent' = <<Asks("get_state", o)>>
    BY <1>2 DEF Begins
  <2>5. UNCHANGED toAgent \/
          \E c \in Command : c.type # "prompt" /\ toAgent' \in {<<c>>, Append(toAgent, c)}
    BY <2>3, <2>4
  <2>6. Quiet'
    BY <2>1, <2>2, <2>5, QuietStays DEF Quiet
  <2>7. AnswersOK'
    BY <1>0, <2>1, AnswersStay DEF InTurn
  <2> QED
    BY <1>0, <2>1, <2>6, <2>7, QuietNext DEF EventsAreOwn
<1>3. ASSUME NEW o \in Operations, Stop(o)
      PROVE  TurnOK'
  <2>1. UNCHANGED <<toClient, agent, op, phase, done, shown>>
    BY <1>3 DEF Stop
  <2>2. UNCHANGED toAgent \/
          (op \in Operations /\ toAgent' = Append(toAgent, Asks("abort", op)))
    BY <1>3 DEF Stop, Stops, Writes, OpOK, InTurn, DataTyped, Turns
  <2>3. \A i \in 1 .. Len(toAgent') : toAgent'[i].type = "prompt" =>
          i \in 1 .. Len(toAgent) /\ toAgent'[i] = toAgent[i]
    <3>1. CASE UNCHANGED toAgent
      BY <3>1
    <3>2. CASE op \in Operations /\ toAgent' = Append(toAgent, Asks("abort", op))
      <4>1. Asks("abort", op) \in Command /\ Asks("abort", op).type = "abort"
        BY <3>2, AsksTyped
      <4> QED
        BY <3>2, <4>1, PipeItems
    <3> QED
      BY <2>2, <3>1, <3>2
  <2>4. ASSUME NEW i \in 1 .. Len(toAgent'), toAgent'[i].type = "prompt"
        PROVE  PromptOK(i)'
    BY <2>1, <2>3, <2>4 DEF TurnOK, PromptOK
  <2> QED
    BY <2>1, <2>4 DEF TurnOK, EventsAreOwn, AnswersOK, EventOK
<1>4. CASE Configured
  <2>1. phase = "configuring" /\ UNCHANGED <<toClient, agent, shown>>
    BY <1>4 DEF Configured
  <2>2. CASE Prompts
    BY <2>1, <2>2, PromptTurn
  <2>3. CASE ~ Prompts
    <3>1. UNCHANGED toAgent \/ Writes(Asks("set_model", op)) \/ Writes(Asks("get_messages", op))
      BY <1>4, <2>3 DEF Configured
    <3>2. UNCHANGED <<op, done>> \/ (op \in done' /\ done \subseteq done')
      BY <1>4, <2>3 DEF Configured, GoesTo, Ends
    <3>3. op \in Operations
      BY <2>1 DEF OpOK, DataTyped, Turns
    <3>4. UNCHANGED toAgent \/
            \E c \in Command : c.type # "prompt" /\ toAgent' \in {<<c>>, Append(toAgent, c)}
      <4>1. \A type \in {"set_model", "get_messages"} :
              Asks(type, op) \in Command /\ Asks(type, op).type # "prompt"
        BY <3>3, AsksTyped DEF Requests
      <4> QED
        BY <3>1, <4>1 DEF Writes
    <3>5. Quiet'
      BY <2>1, <3>4, QuietStays, TurnQuiet DEF Quiet
    <3>6. AnswersOK'
      BY <1>0, <2>1, <3>2, AnswersStay DEF InTurn
    <3> QED
      BY <1>0, <2>1, <3>5, <3>6, QuietNext DEF EventsAreOwn
  <2> QED
    BY <2>2, <2>3
<1>5. CASE ConfigurationFails
  <2>1. /\ phase = "configuring" /\ UNCHANGED <<toAgent, toClient, agent, shown>>
        /\ op \in done' /\ done \subseteq done'
    BY <1>5 DEF ConfigurationFails, Ends
  <2>2. Quiet' /\ AnswersOK'
    BY <1>0, <2>1, QuietStays, TurnQuiet, AnswersStay DEF Quiet
  <2> QED
    BY <1>0, <2>1, <2>2, QuietNext DEF EventsAreOwn
<1>6. CASE Killed /\ UNCHANGED shown
  BY <1>0, <1>6, KilledQuiet, QuietNext DEF EventsAreOwn
<1>7. CASE TimesOut
  <2>1. CASE phase = "starting"
    BY <1>6, <1>7, <2>1 DEF TimesOut, StartFails
  <2>2. CASE phase # "starting"
    <3>1. /\ phase \notin InTurn /\ UNCHANGED <<toAgent, toClient, agent, shown>>
          /\ op \in done' /\ done \subseteq done'
      BY <1>7, <2>2 DEF TimesOut, Ends
    <3>2. Quiet' /\ AnswersOK'
      BY <1>0, <3>1, QuietStays, TurnQuiet, AnswersStay DEF Quiet, InTurn
    <3> QED
      BY <1>0, <3>1, <3>2, QuietNext DEF EventsAreOwn
  <2> QED
    BY <2>1, <2>2
<1>8. CASE Fails
  BY <1>6, <1>8 DEF Fails
<1>9. CASE Close
  <2>1. CASE client = "starting"
    <3>1. UNCHANGED <<toAgent, toClient, agent, op, phase, done, shown>>
      BY <1>9, <2>1 DEF Close
    <3> QED
      BY <3>1 DEF TurnOK, EventsAreOwn, AnswersOK, PromptOK, EventOK
  <2>2. CASE client # "starting"
    BY <1>6, <1>9, <2>2 DEF Close
  <2> QED
    BY <2>1, <2>2
<1> QED
  BY <1>1, <1>2, <1>3, <1>4, <1>5, <1>7, <1>8, <1>9

\* A response is read: the prompt that it answers, if it is one, was taken.
LEMMA ResponseTurn ==
  ASSUME TypeInv, TurnOK, ReadResponse
  PROVE  TurnOK'
<1> USE AwaitedPhases DEF TypeInv, NoOp, queueVars, engineVars, pipeVars
<1> DEFINE line == Head(toClient)
<1>1. /\ toClient # <<>> /\ line.type = "response" /\ ~ IsEvent(line)
      /\ UNCHANGED shown
      /\ EventsAreOwn /\ EventsAreOwn' /\ AnswersOK
  BY DEF ReadResponse, TurnOK, EventsAreOwn, IsEvent
<1>2. CASE Killed
  BY <1>1, <1>2, KilledQuiet, QuietNext
<1>3. CASE phase = "selecting" /\ Awaited(line)
  BY <1>1, <1>3, PromptTurn DEF ReadResponse, ReadAwaited
<1>4. CASE /\ toClient' = Tail(toClient) /\ UNCHANGED <<toAgent, agent>>
           /\ phase \notin {"prompting", "running"}
           /\ \/ UNCHANGED <<op, done>> /\ (phase \in InTurn => phase' \in InTurn)
              \/ op \in done' /\ done \subseteq done'
  <2>1. Quiet'
    BY <1>1, <1>4, QuietStays, TurnQuiet DEF Quiet
  <2>2. AnswersOK'
    BY <1>1, <1>4, AnswersRead
  <2> QED
    BY <1>1, <2>1, <2>2, QuietNext
<1>5. CASE /\ toClient' = Tail(toClient) /\ UNCHANGED <<toAgent, agent, op, done>>
           /\ phase \in {"prompting", "running"}
           /\ phase' = phase \/ (phase' = "running" /\ Awaited(line))
  <2>1. \A i \in 1 .. Len(toClient') : toClient'[i] = toClient[i + 1] /\ i + 1 \in 1 .. Len(toClient)
    BY <1>1, <1>5, PipeItems
  <2>2. AnswersOK'
    BY <1>1, <1>5, AnswersRead DEF InTurn
  <2>3. ASSUME NEW i \in 1 .. Len(toAgent'), toAgent'[i].type = "prompt"
        PROVE  PromptOK(i)'
    <3>1. PromptOK(i) /\ ~ Awaited(line)
      <4>1. PromptOK(i) /\ line = toClient[1] /\ 1 \in 1 .. Len(toClient)
        BY <1>1, <1>5, <2>3, PipeItems DEF TurnOK
      <4> QED
        BY <1>1, <4>1 DEF PromptOK, Awaited
    <3> QED
      BY <1>5, <2>1, <3>1 DEF PromptOK
  <2>4. ASSUME NEW i \in 1 .. Len(toClient'), IsEvent(toClient'[i])
        PROVE  EventOK(i)'
    <3>1. EventOK(i + 1) /\ toClient'[i] = toClient[i + 1]
      BY <2>1, <2>4 DEF TurnOK
    <3>2. toClient'[i].op = op' /\ phase' \in {"prompting", "running"}
      BY <1>5, <3>1 DEF EventOK
    <3>3. ASSUME toClient'[i].type = "agent_end"
          PROVE  agent'.turn = NoOp /\ \A j \in 1 .. Len(toClient') : IsEvent(toClient'[j]) => j <= i
      <4>1. /\ agent.turn = NoOp
            /\ \A j \in 1 .. Len(toClient) : IsEvent(toClient[j]) => j <= i + 1
        BY <3>1, <3>3 DEF EventOK
      <4> QED
        BY <1>5, <2>1, <4>1
    <3> QED
      BY <3>2, <3>3 DEF EventOK
  <2>5. agent'.turn # NoOp => agent'.turn = op' /\ phase' \in {"prompting", "running"}
    BY <1>5 DEF TurnOK
  <2> QED
    BY <1>1, <2>2, <2>3, <2>4, <2>5 DEF TurnOK
<1>6. CASE ~ Awaited(line)
  <2>1. toClient' = Tail(toClient) /\ UNCHANGED <<toAgent, agent, op, done, phase>>
    BY <1>6 DEF ReadResponse
  <2> QED
    BY <1>4, <1>5, <2>1
<1>7. CASE Awaited(line) /\ phase \in {"starting", "replaying", "answering", "prompting"}
  <2>1. CASE phase = "starting"
    <3>1. CASE line.ok
      BY <1>4, <1>7, <2>1, <3>1 DEF ReadResponse, ReadAwaited, GoesTo, InTurn
    <3>2. CASE ~ line.ok
      BY <1>2, <1>7, <2>1, <3>2 DEF ReadResponse, ReadAwaited
    <3> QED
      BY <3>1, <3>2
  <2>2. CASE phase = "replaying"
    BY <1>4, <1>7, <2>2 DEF ReadResponse, ReadAwaited, Ends
  <2>3. CASE phase = "answering"
    BY <1>4, <1>7, <2>3 DEF ReadResponse, ReadAwaited, Returns, Ends
  <2>4. CASE phase = "prompting"
    BY <1>5, <1>7, <2>4 DEF ReadResponse, ReadAwaited, GoesTo
  <2> QED
    BY <1>7, <2>1, <2>2, <2>3, <2>4
<1> QED
  BY <1>3, <1>6, <1>7 DEF Awaited

\* An event is read: it is shown in its own turn, and agent_end is the last of it.
LEMMA EventTurn ==
  ASSUME TypeInv, TurnOK, ReadEvent
  PROVE  TurnOK'
<1> USE DEF TypeInv, NoOp, queueVars, engineVars, pipeVars
<1> DEFINE line == Head(toClient)
<1>1. /\ toClient # <<>> /\ IsEvent(line) /\ toClient' = Tail(toClient)
      /\ UNCHANGED <<toAgent, agent>> /\ line = toClient[1] /\ 1 \in 1 .. Len(toClient)
  BY HeadTyped, PipeItems DEF ReadEvent, IsEvent
<1>2. EventOK(1) /\ line.op = op /\ phase \in {"prompting", "running"}
  BY <1>1 DEF TurnOK, EventOK
<1>3. EventsAreOwn'
  BY <1>2 DEF ReadEvent, TurnOK, EventsAreOwn
<1>4. \A i \in 1 .. Len(toClient') : toClient'[i] = toClient[i + 1] /\ i + 1 \in 1 .. Len(toClient)
  BY <1>1, PipeItems
<1>5. \A i \in 1 .. Len(toAgent') : toAgent'[i].type # "prompt"
  BY <1>1 DEF TurnOK, PromptOK
<1>6. CASE line.type = "agent_end"
  <2>1. agent.turn = NoOp /\ \A j \in 1 .. Len(toClient) : IsEvent(toClient[j]) => j <= 1
    BY <1>1, <1>2, <1>6 DEF EventOK
  <2>2. \A i \in 1 .. Len(toClient') : ~ IsEvent(toClient'[i])
    BY <1>4, <2>1
  <2>3. Quiet'
    BY <1>1, <1>5, <2>1, <2>2 DEF Quiet, IsEvent
  <2>4. \/ UNCHANGED <<op, done>> /\ phase' \in InTurn
        \/ op \in done' /\ done \subseteq done'
    BY <1>2, <1>6 DEF ReadEvent, Returns, Ends, GoesTo, InTurn
  <2>5. AnswersOK'
    BY <1>1, <2>4, AnswersRead DEF TurnOK
  <2> QED
    BY <1>3, <2>3, <2>5, QuietNext
<1>7. CASE line.type # "agent_end"
  <2>1. UNCHANGED <<op, phase, done>>
    BY <1>7 DEF ReadEvent
  <2>2. AnswersOK'
    BY <1>1, <2>1, AnswersRead DEF TurnOK
  <2>3. ASSUME NEW i \in 1 .. Len(toClient'), IsEvent(toClient'[i])
        PROVE  EventOK(i)'
    <3>1. EventOK(i + 1) /\ toClient'[i] = toClient[i + 1]
      BY <1>4, <2>3 DEF TurnOK
    <3>2. ASSUME toClient'[i].type = "agent_end"
          PROVE  agent'.turn = NoOp /\ \A j \in 1 .. Len(toClient') : IsEvent(toClient'[j]) => j <= i
      <4>1. /\ agent.turn = NoOp
            /\ \A j \in 1 .. Len(toClient) : IsEvent(toClient[j]) => j <= i + 1
        BY <3>1, <3>2 DEF EventOK
      <4> QED
        BY <1>1, <1>4, <4>1
    <3> QED
      BY <2>1, <3>1, <3>2 DEF EventOK
  <2> QED
    BY <1>1, <1>3, <1>5, <2>1, <2>2, <2>3 DEF TurnOK
<1> QED
  BY <1>6, <1>7

\* The agent takes a prompt, the only one, and has written nothing of it yet.
LEMMA TakesTurn ==
  ASSUME TypeInv, TurnOK, NEW ok \in BOOLEAN, AgentTakes(ok)
  PROVE  TurnOK'
<1> USE DEF TypeInv, NoOp, queueVars, engineVars, pipeVars
<1> DEFINE command == Head(toAgent)
<1>1. /\ toAgent # <<>> /\ toAgent' = Tail(toAgent) /\ command \in Command
      /\ command = toAgent[1] /\ 1 \in 1 .. Len(toAgent)
      /\ UNCHANGED <<op, phase, done, shown>>
  BY HeadTyped, PipeItems DEF AgentTakes
<1>2. EventsAreOwn' /\ AnswersOK
  BY <1>1 DEF TurnOK, EventsAreOwn
<1>3. \A i \in 1 .. Len(toAgent') : toAgent'[i] = toAgent[i + 1] /\ i + 1 \in 1 .. Len(toAgent)
  BY <1>1, PipeItems
<1>4. \A b \in BOOLEAN, m \in SUBSET Turns : command.type # "abort" =>
        \A i \in 1 .. Len(Answer(command, b, m)) :
          \/ i \in 1 .. Len(toClient) /\ Answer(command, b, m)[i] = toClient[i]
          \/ LET line == Answer(command, b, m)[i]
             IN line.type = "response" /\ line.to = command.type /\ line.op = command.op
  <2>1. ASSUME NEW b \in BOOLEAN, NEW m \in SUBSET Turns, command.type # "abort",
               NEW i \in 1 .. Len(Answer(command, b, m))
        PROVE  \/ i \in 1 .. Len(toClient) /\ Answer(command, b, m)[i] = toClient[i]
               \/ LET line == Answer(command, b, m)[i]
                  IN line.type = "response" /\ line.to = command.type /\ line.op = command.op
    <3> DEFINE answer == [type |-> "response", to |-> command.type, op |-> command.op,
                          ok |-> b, messages |-> m]
    <3>1. answer \in Line /\ Answer(command, b, m) = Append(toClient, answer)
      BY <1>1, <2>1, AnswerTyped DEF Answer
    <3>2. answer.type = "response" /\ answer.to = command.type /\ answer.op = command.op
      OBVIOUS
    <3> HIDE DEF answer
    <3> QED
      BY <2>1, <3>1, <3>2, PipeItems
  <2> QED
    BY <2>1
<1>5. \/ UNCHANGED toClient /\ command.type = "abort"
      \/ /\ command.type # "abort"
         /\ \E b \in BOOLEAN, m \in SUBSET Turns : toClient' = Answer(command, b, m)
  <2>1. file \in SUBSET Turns /\ {} \in SUBSET Turns
    BY DEF DataTyped
  <2>2. CASE command.type = "abort"
    BY <2>2 DEF AgentTakes
  <2>3. CASE command.type = "prompt"
    BY <2>1, <2>3 DEF AgentTakes
  <2>4. CASE command.type \notin {"prompt", "abort"}
    BY <2>1, <2>4 DEF AgentTakes
  <2> QED
    BY <2>2, <2>3, <2>4
<1>6. \A i \in 1 .. Len(toClient') :
        \/ i \in 1 .. Len(toClient) /\ toClient'[i] = toClient[i]
        \/ /\ toClient'[i].type = "response" /\ toClient'[i].to = command.type
           /\ toClient'[i].op = command.op
  BY <1>4, <1>5
<1>7. CASE command.type = "prompt"
  <2>1. PromptOK(1)
    BY <1>1, <1>7 DEF TurnOK
  <2>2. \A i \in 1 .. Len(toAgent') : toAgent'[i].type # "prompt"
    BY <1>3, <2>1 DEF PromptOK
  <2>3. \A i \in 1 .. Len(toClient') : ~ IsEvent(toClient'[i])
    BY <1>6, <2>1 DEF PromptOK, IsEvent
  <2>4. AnswersOK'
    BY <1>1, <1>2, <1>6, <2>1 DEF AnswersOK, PromptOK, InTurn
  <2>5. agent'.turn # NoOp => agent'.turn = op' /\ phase' \in {"prompting", "running"}
    <3>1. command.op = op /\ phase = "prompting" /\ agent.turn = NoOp
      BY <1>1, <2>1 DEF PromptOK
    <3>2. UNCHANGED agent \/ agent' = [turn |-> command.op, interrupted |-> FALSE]
      BY <1>7 DEF AgentTakes
    <3> QED
      BY <1>1, <3>1, <3>2
  <2> QED
    BY <1>2, <2>2, <2>3, <2>4, <2>5 DEF TurnOK
<1>8. CASE command.type # "prompt"
  <2>1. agent'.turn = agent.turn
    BY <1>8 DEF AgentTakes, PipesTyped, Agent
  <2>2. AnswersOK'
    BY <1>1, <1>2, <1>6, <1>8 DEF AnswersOK
  <2>3. ASSUME NEW i \in 1 .. Len(toAgent'), toAgent'[i].type = "prompt"
        PROVE  PromptOK(i)'
    <3>1. PromptOK(i + 1)
      BY <1>3, <2>3 DEF TurnOK
    <3>2. \A j \in 1 .. Len(toClient') :
            toClient'[j].type = "response" /\ toClient'[j].op = op => toClient'[j].to # "prompt"
      BY <1>6, <1>8, <3>1 DEF PromptOK
    <3>3. \A j \in 1 .. Len(toClient') : ~ IsEvent(toClient'[j])
      BY <1>6, <3>1 DEF PromptOK, IsEvent
    <3> QED
      BY <1>1, <1>3, <2>1, <3>1, <3>2, <3>3 DEF PromptOK
  <2>4. ASSUME NEW i \in 1 .. Len(toClient'), IsEvent(toClient'[i])
        PROVE  EventOK(i)'
    <3>1. i \in 1 .. Len(toClient) /\ toClient'[i] = toClient[i] /\ EventOK(i)
      BY <1>6, <2>4 DEF TurnOK, IsEvent
    <3>2. ASSUME toClient'[i].type = "agent_end"
          PROVE  agent'.turn = NoOp /\ \A j \in 1 .. Len(toClient') : IsEvent(toClient'[j]) => j <= i
      BY <1>6, <2>1, <3>1, <3>2 DEF EventOK, IsEvent
    <3> QED
      BY <1>1, <3>1, <3>2 DEF EventOK
  <2> QED
    BY <1>1, <1>2, <2>1, <2>2, <2>3, <2>4 DEF TurnOK
<1> QED
  BY <1>7, <1>8

\* The agent writes an event of the prompt it works on, or the last one.
LEMMA WritesTurn ==
  ASSUME TypeInv, TurnOK, AgentWorks \/ AgentEnds
  PROVE  TurnOK'
<1> USE DEF TypeInv, NoOp, queueVars, engineVars, pipeVars
<1>1. /\ agent.turn # NoOp /\ UNCHANGED <<toAgent, op, phase, done, shown>>
      /\ agent.turn = op /\ op \in Operations /\ phase \in {"prompting", "running"}
  BY DEF AgentWorks, AgentEnds, TurnOK, PipesTyped, Agent, Turns
<1>2. PICK type \in {"event", "agent_end"} :
        /\ toClient' = Append(toClient, Asks(type, op))
        /\ type = "agent_end" => agent'.turn = NoOp
        /\ agent' = agent \/ (type = "agent_end" /\ agent'.turn = NoOp)
  BY <1>1 DEF AgentWorks, AgentEnds, Resting
<1>3. /\ \A i \in 1 .. Len(toAgent') : toAgent'[i].type # "prompt"
      /\ \A i \in 1 .. Len(toClient) : toClient[i].type # "agent_end"
  BY <1>1 DEF TurnOK, PromptOK, EventOK, IsEvent
<1>4. Asks(type, op) \in Line /\ Asks(type, op).type = type /\ Asks(type, op).op = op
  BY <1>1, EventTyped
<1>5. /\ Len(toClient') = Len(toClient) + 1 /\ Len(toClient) \in Nat
      /\ \A i \in 1 .. Len(toClient') :
           \/ i \in 1 .. Len(toClient) /\ toClient'[i] = toClient[i]
           \/ i = Len(toClient) + 1 /\ toClient'[i] = Asks(type, op)
  <2>1. Len(toClient') = Len(toClient) + 1 /\ Len(toClient) \in Nat
    BY <1>2, <1>4 DEF PipesTyped
  <2> QED
    BY <1>2, <1>4, <2>1, PipeItems
<1>6. AnswersOK'
  BY <1>1, <1>4, <1>5 DEF TurnOK, AnswersOK
<1>7. ASSUME NEW i \in 1 .. Len(toClient'), IsEvent(toClient'[i])
      PROVE  EventOK(i)'
  <2>1. toClient'[i].op = op
    BY <1>4, <1>5, <1>7 DEF TurnOK, EventOK
  <2>2. ASSUME toClient'[i].type = "agent_end"
        PROVE  agent'.turn = NoOp /\ \A j \in 1 .. Len(toClient') : IsEvent(toClient'[j]) => j <= i
    <3>1. i = Len(toClient) + 1 /\ type = "agent_end"
      BY <1>3, <1>4, <1>5, <2>2
    <3> QED
      BY <1>2, <1>5, <3>1
  <2> QED
    BY <1>1, <2>1, <2>2 DEF EventOK
<1>8. agent'.turn # NoOp => agent'.turn = op' /\ phase' \in {"prompting", "running"}
  BY <1>1, <1>2
<1> QED
  BY <1>1, <1>3, <1>6, <1>7, <1>8 DEF TurnOK, EventsAreOwn

\* An empty pipe holds nothing.
LEMMA NoItems == \A i \in 1 .. Len(<<>>) : FALSE
<1>1. Len(<<>>) = 0
  OBVIOUS
<1>2. \A i \in 1 .. 0 : FALSE
  OBVIOUS
<1> QED
  BY <1>1, <1>2

\* Every step leaves in the pipes nothing of a turn but the one at work.
LEMMA NextTurn ==
  ASSUME "prompt times out" \notin Overlaps, TypeInv, TurnOK, [Next]_vars
  PROVE  TurnOK'
<1>1. CASE AgentDies
  <2>1. /\ toAgent' = <<>> /\ agent'.turn = NoOp
        /\ UNCHANGED <<toClient, op, phase, done, shown>>
    BY <1>1 DEF AgentDies, Resting, queueVars
  <2>2. ASSUME NEW i \in 1 .. Len(toClient'), IsEvent(toClient'[i])
        PROVE  EventOK(i)'
    BY <2>1, <2>2 DEF TurnOK, EventOK
  <2>3. EventsAreOwn' /\ AnswersOK'
    BY <2>1 DEF TurnOK, EventsAreOwn, AnswersOK
  <2>4. \A i \in 1 .. Len(toAgent') : PromptOK(i)'
    BY <2>1, NoItems
  <2> QED
    BY <2>1, <2>2, <2>3, <2>4 DEF TurnOK
<1>2. CASE UNCHANGED vars
  <2>1. UNCHANGED <<toAgent, toClient, agent, op, phase, done, shown>>
    BY <1>2 DEF vars, queueVars, pipeVars
  <2> QED
    BY <2>1 DEF TurnOK, EventsAreOwn, AnswersOK, PromptOK, EventOK
<1> QED
  BY <1>1, <1>2, SessionTurn, ResponseTurn, EventTurn, TakesTurn, WritesTurn DEF Next

-----------------------------------------------------------------------------
(* The conversation.                                                       *)

\* The prompts that are on their way are those of turns of the conversation.
LEMMA ToAgentStep ==
  ASSUME TypeInv, [Next]_vars, NEW i \in 1 .. Len(toAgent'), toAgent'[i].type = "prompt"
  PROVE  \/ \E j \in 1 .. Len(toAgent) : toAgent'[i] = toAgent[j]
         \/ toAgent'[i].op = op /\ op \in turns'
<1> USE AwaitedPhases DEF TypeInv, NoOp, queueVars, engineVars, pipeVars
<1> DEFINE Old == \E j \in 1 .. Len(toAgent) : toAgent'[i] = toAgent[j]
<1>1. CASE UNCHANGED toAgent
  BY <1>1
<1>2. CASE toAgent' = <<>>
  <2>1. Len(toAgent') = 0
    BY <1>2
  <2> QED
    BY <2>1
<1>3. CASE toAgent # <<>> /\ toAgent' = Tail(toAgent)
  BY <1>3, PipeItems
<1>4. ASSUME NEW type \in Requests \cup {"abort"}, type # "prompt" \/ op \in turns',
             Writes(Asks(type, op)), op \in Operations
      PROVE  Old \/ (toAgent'[i].op = op /\ op \in turns')
  <2>1. CASE toAgent' = Append(toAgent, Asks(type, op))
    <3>1. Asks(type, op) \in Command /\ Asks(type, op).type = type /\ Asks(type, op).op = op
      BY <1>4, AsksTyped
    <3>2. \/ i \in 1 .. Len(toAgent) /\ toAgent'[i] = toAgent[i]
          \/ toAgent'[i] = Asks(type, op)
      BY <2>1, <3>1, PipeItems
    <3> QED
      BY <1>4, <3>1, <3>2
  <2> QED
    BY <1>1, <1>4, <2>1 DEF Writes
<1>5. phase # "idle" => op \in Operations
  BY DEF OpOK, DataTyped, Turns
<1>6. ASSUME NEW o \in Operations, Begins(o)
      PROVE  Old
  <2>1. Asks("get_state", o).type # "prompt"
    BY <1>6, AsksTyped DEF Requests
  <2>2. UNCHANGED toAgent \/ toAgent' = <<Asks("get_state", o)>>
    BY <1>6 DEF Begins
  <2> QED
    BY <1>1, <2>1, <2>2
<1>7. ASSUME NEW o \in Operations, Stop(o)
      PROVE  Old \/ (toAgent'[i].op = op /\ op \in turns')
  <2>1. UNCHANGED toAgent \/ (Writes(Asks("abort", op)) /\ phase \in InTurn)
    BY <1>7 DEF Stop, Stops
  <2>2. phase \in InTurn => phase # "idle"
    BY DEF InTurn
  <2> QED
    BY <1>1, <1>4, <1>5, <2>1, <2>2
<1>8. CASE Prompts /\ phase # "idle"
  <2>1. op \in turns' /\ (UNCHANGED toAgent \/ Writes(Asks("prompt", op)))
    BY <1>8 DEF Prompts
  <2> QED
    BY <1>1, <1>4, <1>5, <1>8, <2>1 DEF Requests
<1>9. CASE Configured
  <2>1. \/ Prompts \/ UNCHANGED toAgent \/ Writes(Asks("set_model", op))
        \/ Writes(Asks("get_messages", op))
    BY <1>9 DEF Configured
  <2>2. phase # "idle"
    BY <1>9 DEF Configured
  <2> QED
    BY <1>1, <1>4, <1>5, <1>8, <2>1, <2>2 DEF Requests
<1>10. CASE ReadResponse
  <2>1. UNCHANGED toAgent \/ Killed \/ (Prompts /\ phase # "idle")
    BY <1>10 DEF ReadResponse, Awaited, ReadAwaited
  <2> QED
    BY <1>1, <1>2, <1>8, <2>1 DEF Killed
<1>11. CASE ConfigurationFails \/ ReadEvent \/ TimesOut \/ Fails \/ Close \/ AgentDies
  BY <1>1, <1>2, <1>11 DEF ConfigurationFails, ReadEvent, TimesOut, StartFails, Fails, Close,
                           Killed, AgentDies
<1>12. ASSUME NEW ok \in BOOLEAN, AgentTakes(ok)
       PROVE  Old
  <2>1. toAgent # <<>> /\ toAgent' = Tail(toAgent)
    BY <1>12 DEF AgentTakes
  <2> QED
    BY <1>3, <2>1
<1>13. CASE AgentWorks \/ AgentEnds \/ UNCHANGED vars \/
            \E o \in Operations : Ask(o, "send") \/ Ask(o, "hydrate")
  BY <1>1, <1>13 DEF AgentWorks, AgentEnds, vars, Ask
<1> QED
  BY <1>6, <1>7, <1>9, <1>10, <1>11, <1>12, <1>13 DEF Next

\* An answer holds nothing but the file, and one to get_messages all of it.
LEMMA ToClientStep ==
  ASSUME TypeInv, [Next]_vars, NEW i \in 1 .. Len(toClient'), toClient'[i].type = "response"
  PROVE  \/ \E j \in 1 .. Len(toClient) : toClient'[i] = toClient[j]
         \/ /\ toClient'[i].messages \subseteq file
            /\ toClient'[i].to = "get_messages" => toClient'[i].messages = file
<1> USE AwaitedPhases DEF TypeInv, NoOp, queueVars, engineVars, pipeVars
<1> DEFINE Old == \E j \in 1 .. Len(toClient) : toClient'[i] = toClient[j]
<1>1. CASE UNCHANGED toClient
  BY <1>1
<1>2. CASE toClient' = <<>>
  <2>1. Len(toClient') = 0
    BY <1>2
  <2> QED
    BY <2>1
<1>3. CASE toClient # <<>> /\ toClient' = Tail(toClient)
  BY <1>3, PipeItems
<1>4. CASE AgentWorks \/ AgentEnds
  <2>1. agent.turn \in Operations
    BY <1>4 DEF AgentWorks, AgentEnds, PipesTyped, Agent, Turns
  <2>2. PICK type \in {"event", "agent_end"} : toClient' = Append(toClient, Asks(type, agent.turn))
    BY <1>4 DEF AgentWorks, AgentEnds
  <2>3. Asks(type, agent.turn) \in Line /\ Asks(type, agent.turn).type # "response"
    BY <2>1, EventTyped
  <2>4. \/ i \in 1 .. Len(toClient) /\ toClient'[i] = toClient[i]
        \/ toClient'[i] = Asks(type, agent.turn)
    BY <2>2, <2>3, PipeItems
  <2> QED
    BY <2>3, <2>4
<1>5. ASSUME NEW ok \in BOOLEAN, AgentTakes(ok)
      PROVE  Old \/ /\ toClient'[i].messages \subseteq file
                    /\ toClient'[i].to = "get_messages" => toClient'[i].messages = file
  <2> DEFINE command == Head(toAgent)
  <2>1. command \in Command
    BY <1>5, HeadTyped DEF AgentTakes
  <2>2. ASSUME NEW b \in BOOLEAN, NEW m \in SUBSET Turns, toClient' = Answer(command, b, m),
               command.type # "abort"
        PROVE  Old \/ (toClient'[i].to = command.type /\ toClient'[i].messages = m)
    <3> DEFINE answer == [type |-> "response", to |-> command.type, op |-> command.op,
                          ok |-> b, messages |-> m]
    <3>1. answer \in Line /\ toClient' = Append(toClient, answer)
      BY <2>1, <2>2, AnswerTyped DEF Answer
    <3>2. answer.to = command.type /\ answer.messages = m
      OBVIOUS
    <3> HIDE DEF answer
    <3>3. \/ i \in 1 .. Len(toClient) /\ toClient'[i] = toClient[i]
          \/ toClient'[i] = answer
      BY <3>1, PipeItems
    <3> QED
      BY <3>2, <3>3
  <2>3. file \in SUBSET Turns /\ {} \in SUBSET Turns
    BY DEF DataTyped
  <2>4. CASE command.type = "abort"
    BY <1>1, <1>5, <2>4 DEF AgentTakes
  <2>5. CASE command.type = "prompt"
    <3>1. \E b \in BOOLEAN : toClient' = Answer(command, b, {})
      BY <1>5, <2>5 DEF AgentTakes
    <3> QED
      BY <2>2, <2>3, <2>5, <3>1
  <2>6. CASE command.type \notin {"prompt", "abort"}
    <3>1. toClient' = Answer(command, ok, IF command.type = "get_messages" THEN file ELSE {})
      BY <1>5, <2>6 DEF AgentTakes
    <3>2. CASE command.type = "get_messages"
      BY <1>5, <2>2, <2>3, <2>6, <3>1, <3>2
    <3>3. CASE command.type # "get_messages"
      BY <1>5, <2>2, <2>3, <2>6, <3>1, <3>3
    <3> QED
      BY <3>2, <3>3
  <2> QED
    BY <2>4, <2>5, <2>6
<1>6. CASE ReadResponse
  <2>1. toClient # <<>> /\ (toClient' = Tail(toClient) \/ Killed)
    BY <1>6 DEF ReadResponse, Awaited, ReadAwaited
  <2> QED
    BY <1>2, <1>3, <2>1 DEF Killed
<1>7. CASE ReadEvent
  BY <1>3, <1>7 DEF ReadEvent
<1>8. CASE TimesOut \/ Fails \/ Close
  BY <1>1, <1>2, <1>8 DEF TimesOut, StartFails, Fails, Close, Killed
<1>9. CASE \/ Configured \/ ConfigurationFails \/ AgentDies \/ UNCHANGED vars
           \/ \E o \in Operations :
                Ask(o, "send") \/ Ask(o, "hydrate") \/ Begins(o) \/ Stop(o)
  <2>1. UNCHANGED toClient
    BY <1>9 DEF Configured, ConfigurationFails, AgentDies, vars, Ask, Begins, Stop
  <2> QED
    BY <1>1, <2>1
<1> QED
  BY <1>4, <1>5, <1>6, <1>7, <1>8, <1>9 DEF Next

\* The file grows by prompts that the agent takes.
LEMMA FileStep ==
  ASSUME TypeInv, [Next]_vars
  PROVE  \/ UNCHANGED file
         \/ \E j \in 1 .. Len(toAgent) :
              /\ toAgent[j].type = "prompt" /\ file' = file \cup {toAgent[j].op}
              /\ UNCHANGED <<op, phase, client, closed, replayed, history>>
<1> USE DEF queueVars, engineVars, pipeVars
<1>1. ASSUME NEW ok \in BOOLEAN, AgentTakes(ok)
      PROVE  \/ UNCHANGED file
             \/ \E j \in 1 .. Len(toAgent) :
                  /\ toAgent[j].type = "prompt" /\ file' = file \cup {toAgent[j].op}
                  /\ UNCHANGED <<op, phase, client, closed, replayed, history>>
  <2>1. Head(toAgent) = toAgent[1] /\ 1 \in 1 .. Len(toAgent)
    BY <1>1, PipeItems DEF AgentTakes, TypeInv
  <2>2. CASE Head(toAgent).type # "prompt"
    BY <1>1, <2>2 DEF AgentTakes
  <2>3. CASE Head(toAgent).type = "prompt"
    BY <1>1, <2>1, <2>3 DEF AgentTakes
  <2> QED
    BY <2>2, <2>3
<1> QED
  BY <1>1 DEF Next, Ask, Begins, Stop, Configured, ConfigurationFails, ReadResponse, ReadEvent,
              TimesOut, Fails, Close, AgentWorks, AgentEnds, AgentDies, vars

\* What was replayed changes when a message returns, and when the file is replayed,
\* which is not closed at the time.
LEMMA HistoryStep ==
  ASSUME TypeInv, [Next]_vars
  PROVE  \/ UNCHANGED <<history, replayed>>
         \/ replayed' /\ UNCHANGED <<history, file, kind>> /\ op \in Operations /\ kind[op] = "send"
         \/ \E j \in 1 .. Len(toClient) :
              /\ toClient[j].type = "response" /\ toClient[j].to = "get_messages"
              /\ ~ replayed /\ client = "open" /\ phase = "replaying" /\ UNCHANGED <<file, kind>>
              /\ \/ replayed' /\ history' = toClient[j].messages
                 \/ ~ replayed' /\ UNCHANGED history
<1> USE AwaitedPhases DEF TypeInv, NoOp, queueVars, engineVars, pipeVars
<1> DEFINE Kept == UNCHANGED <<history, replayed>>
           Marked == replayed' /\ UNCHANGED <<history, file, kind>> /\ op \in Operations
                       /\ kind[op] = "send"
           Loaded == \E j \in 1 .. Len(toClient) :
                       /\ toClient[j].type = "response" /\ toClient[j].to = "get_messages"
                       /\ ~ replayed /\ client = "open" /\ phase = "replaying"
                       /\ UNCHANGED <<file, kind>>
                       /\ \/ replayed' /\ history' = toClient[j].messages
                          \/ ~ replayed' /\ UNCHANGED history
<1>0. phase # "idle" => op \in Operations
  BY DEF OpOK, DataTyped, Turns
<1>1. CASE ReadEvent
  <2>1. Kept \/ (Returns /\ phase = "running" /\ UNCHANGED <<file, kind>>)
    BY <1>1 DEF ReadEvent
  <2> QED
    BY <1>0, <2>1 DEF Returns, OpOK, InTurn
<1>2. CASE ReadResponse
  <2> DEFINE line == Head(toClient)
  <2>1. /\ toClient # <<>> /\ line = toClient[1] /\ 1 \in 1 .. Len(toClient)
        /\ line.type = "response" /\ UNCHANGED <<file, kind>>
    BY <1>2, PipeItems DEF ReadResponse
  <2>2. CASE Awaited(line) /\ phase = "replaying"
    <3>1. line.to = "get_messages" /\ client = "open" /\ ~ replayed
      BY <2>2 DEF Awaited, OpOK
    <3>2. replayed' = line.ok /\ history' = (IF line.ok THEN line.messages ELSE history)
      BY <1>2, <2>2 DEF ReadResponse, ReadAwaited
    <3>3. CASE line.ok
      <4>1. replayed' /\ history' = toClient[1].messages
        BY <2>1, <3>2, <3>3
      <4> QED
        BY <2>1, <2>2, <3>1, <4>1
    <3>4. CASE ~ line.ok
      <4>1. ~ replayed' /\ UNCHANGED history
        BY <3>2, <3>4
      <4> QED
        BY <2>1, <2>2, <3>1, <4>1
    <3> QED
      BY <3>3, <3>4
  <2>3. CASE Awaited(line) /\ phase = "answering"
    <3>1. Returns
      BY <1>2, <2>3 DEF ReadResponse, ReadAwaited
    <3> QED
      BY <1>0, <2>1, <2>3, <3>1 DEF Returns, OpOK, InTurn
  <2>4. CASE ~ (Awaited(line) /\ phase \in {"replaying", "answering"})
    BY <1>2, <2>4 DEF ReadResponse, Awaited, ReadAwaited, Prompts
  <2> QED
    BY <2>2, <2>3, <2>4
<1>3. CASE Configured
  BY <1>3 DEF Configured, Prompts
<1>4. ASSUME NEW ok \in BOOLEAN, AgentTakes(ok)
      PROVE  Kept
  BY <1>4 DEF AgentTakes
<1>5. CASE \/ ConfigurationFails \/ TimesOut \/ Fails \/ Close \/ AgentWorks \/ AgentEnds
           \/ AgentDies \/ UNCHANGED vars
           \/ \E o \in Operations :
                Ask(o, "send") \/ Ask(o, "hydrate") \/ Begins(o) \/ Stop(o)
  BY <1>5 DEF ConfigurationFails, TimesOut, Fails, Close, AgentWorks, AgentEnds, AgentDies,
              vars, Ask, Begins, Stop
<1> QED
  BY <1>1, <1>2, <1>3, <1>4, <1>5 DEF Next

\* At the start nothing was replayed and nothing is on its way.
LEMMA InitLoad == Init => LoadOK
  BY DEF Init, LoadOK

\* A message is sent to an old chat that is loaded alone, and what is loaded stays so.
LEMMA NextLoad ==
  ASSUME "send before load" \notin Overlaps, TypeInv, LoadOK, [Next]_vars
  PROVE  LoadOK'
<1> USE DEF TypeInv
<1>1. turns \subseteq turns'
  <2>1. ASSUME ReadResponse
        PROVE  UNCHANGED turns \/ Prompts
    BY <2>1, AwaitedPhases DEF ReadResponse, Awaited, ReadAwaited, Returns, engineVars
  <2>2. Prompts => turns \subseteq turns'
    BY DEF Prompts
  <2>3. UNCHANGED turns \/ Prompts
    BY <2>1 DEF Next, Ask, Begins, Stop, Configured, ConfigurationFails, ReadEvent, Returns,
                TimesOut, Fails, Close, AgentTakes, AgentWorks, AgentEnds, AgentDies, vars,
                engineVars
  <2> QED
    BY <2>2, <2>3
<1>2. NoOp \notin Operations
  BY OperationsAssumption DEF NoOp
<1>3. \A j \in 1 .. Len(toAgent) : toAgent[j].op \in Operations
  <2>1. ASSUME NEW j \in 1 .. Len(toAgent)
        PROVE  toAgent[j].op \in Operations
    <3>1. toAgent[j] \in Command
      BY ItemTyped DEF PipesTyped
    <3> QED
      BY <3>1 DEF Command
  <2> QED
    BY <2>1
<1>4. NoOp \in file' <=> NoOp \in file
  BY <1>2, <1>3, FileStep
<1>5. file' \subseteq turns' \cup {NoOp}
  <2>1. CASE UNCHANGED file
    BY <1>1, <2>1 DEF LoadOK
  <2>2. ASSUME NEW j \in 1 .. Len(toAgent), toAgent[j].type = "prompt",
               file' = file \cup {toAgent[j].op}
        PROVE  file' \subseteq turns' \cup {NoOp}
    BY <1>1, <2>2 DEF LoadOK
  <2> QED
    BY <2>1, <2>2, FileStep
<1>6. \A i \in 1 .. Len(toAgent') : toAgent'[i].type = "prompt" => toAgent'[i].op \in turns'
  BY <1>1, ToAgentStep DEF LoadOK
<1>7. \A i \in 1 .. Len(toClient') :
        toClient'[i].type = "response" /\ toClient'[i].to = "get_messages" /\ NoOp \in file'
          => NoOp \in toClient'[i].messages
  BY <1>4, ToClientStep DEF LoadOK
<1>8. replayed' /\ NoOp \in file' => NoOp \in history'
  BY <1>4, HistoryStep DEF LoadOK
<1>9. ASSUME NEW o \in Operations, kind'[o] = "send"
      PROVE  NoOp \notin file' \/ replayed'
  <2>1. kind[o] = "send" \/ (UNCHANGED replayed /\ (NoOp \notin file \/ replayed))
    BY <1>9 DEF Next, Ask, Begins, Stop, Configured, ConfigurationFails, ReadResponse,
         ReadEvent, TimesOut, Fails, Close, AgentTakes, AgentWorks, AgentEnds, AgentDies,
         vars, queueVars, engineVars, DataTyped
  <2>2. CASE kind[o] = "send"
    <3>1. NoOp \notin file \/ replayed
      BY <2>2 DEF LoadOK
    <3>2. replayed => replayed'
      BY HistoryStep
    <3> QED
      BY <1>4, <3>1, <3>2
  <2>3. CASE UNCHANGED replayed /\ (NoOp \notin file \/ replayed)
    BY <1>4, <2>3
  <2> QED
    BY <2>1, <2>2, <2>3
<1> QED
  BY <1>5, <1>6, <1>7, <1>8, <1>9 DEF LoadOK

\* At the start the file holds at most the old turns.
LEMMA InitOnce == Init => OnceOK
  BY DEF Init, OnceOK

\* Who is in a turn stays in it, unless the turn is marked, the client fails or the
\* session is closed.
LEMMA PhaseStep ==
  ASSUME "prompt times out" \notin Overlaps, TypeInv, [Next]_vars,
         ~ replayed', client' # "failed", ~ closed'
  PROVE  /\ ~ replayed /\ client # "failed" /\ ~ closed
         /\ phase \in InTurn => op' = op /\ phase' \in InTurn
<1> USE AwaitedPhases DEF TypeInv, InTurn, NoOp, queueVars, engineVars, pipeVars
<1> DEFINE Stays == /\ ~ replayed /\ client # "failed" /\ ~ closed
                    /\ phase \in InTurn => op' = op /\ phase' \in InTurn
<1>0. phase \in InTurn => client = "open"
  BY DEF OpOK
<1>1. CASE UNCHANGED <<op, phase, client, closed, replayed>>
  BY <1>1
<1>2. ASSUME NEW o \in Operations, Begins(o)
      PROVE  Stays
  BY <1>2 DEF Begins, OpOK
<1>3. CASE Configured
  <2>1. phase \notin InTurn /\ UNCHANGED <<client, closed, replayed>>
    BY <1>3 DEF Configured, Prompts
  <2> QED
    BY <2>1
<1>4. CASE ConfigurationFails
  <2>1. phase \notin InTurn /\ UNCHANGED <<client, closed, replayed>>
    BY <1>4 DEF ConfigurationFails
  <2> QED
    BY <2>1
<1>5. CASE ReadResponse
  <2>1. client # "failed" /\ UNCHANGED closed
    BY <1>5 DEF ReadResponse
  <2>2. CASE ~ Awaited(Head(toClient))
    BY <1>1, <1>5, <2>2 DEF ReadResponse
  <2>3. CASE Awaited(Head(toClient)) /\ phase \in {"starting", "selecting"}
    <3>1. UNCHANGED replayed
      BY <1>5, <2>3 DEF ReadResponse, ReadAwaited, Prompts
    <3> QED
      BY <2>1, <2>3, <3>1
  <2>4. CASE Awaited(Head(toClient)) /\ phase = "replaying"
    BY <2>1, <2>4 DEF OpOK
  <2>5. CASE Awaited(Head(toClient)) /\ phase = "prompting"
    <3>1. UNCHANGED <<op, replayed>> /\ phase' = "running"
      BY <1>5, <2>5 DEF ReadResponse, ReadAwaited, GoesTo
    <3> QED
      BY <2>1, <3>1
  <2>6. CASE Awaited(Head(toClient)) /\ phase = "answering"
    <3>1. replayed'
      BY <1>5, <2>6 DEF ReadResponse, ReadAwaited, Returns
    <3> QED
      BY <3>1
  <2> QED
    BY <2>2, <2>3, <2>4, <2>5, <2>6 DEF Awaited
<1>6. CASE ReadEvent
  <2>1. client # "failed" /\ UNCHANGED closed
    BY <1>6 DEF ReadEvent
  <2>2. ~ Returns
    BY DEF Returns
  <2>3. UNCHANGED <<op, replayed>> /\ (UNCHANGED phase \/ phase' = "answering")
    BY <1>6, <2>2 DEF ReadEvent, GoesTo
  <2> QED
    BY <2>1, <2>3
<1>7. CASE TimesOut
  <2>1. phase \notin InTurn /\ UNCHANGED <<closed, replayed>>
    BY <1>7 DEF TimesOut
  <2>2. client # "failed"
    <3>1. CASE phase = "starting"
      BY <3>1 DEF OpOK
    <3>2. CASE phase # "starting"
      BY <1>7, <3>2 DEF TimesOut
    <3> QED
      BY <3>1, <3>2
  <2> QED
    BY <2>1, <2>2
<1>8. CASE Fails
  <2>1. client = "starting" /\ UNCHANGED <<closed, replayed>>
    BY <1>8 DEF Fails
  <2> QED
    BY <1>0, <2>1
<1>9. CASE Close
  BY <1>9 DEF Close
<1>10. ASSUME NEW ok \in BOOLEAN, AgentTakes(ok)
       PROVE  Stays
  BY <1>1, <1>10 DEF AgentTakes
<1>11. CASE \/ AgentWorks \/ AgentEnds \/ AgentDies \/ UNCHANGED vars
            \/ \E o \in Operations : Ask(o, "send") \/ Ask(o, "hydrate") \/ Stop(o)
  BY <1>1, <1>11 DEF AgentWorks, AgentEnds, AgentDies, vars, Ask, Stop
<1> QED
  BY <1>2, <1>3, <1>4, <1>5, <1>6, <1>7, <1>8, <1>9, <1>10, <1>11 DEF Next

\* Until the file counts as replayed, it holds the old turns and the one at work.
LEMMA NextOnce ==
  ASSUME Overlaps \cap {"prompt times out", "close while starting"} = {},
         TypeInv, TurnOK, OwnedOK, OnceOK, [Next]_vars
  PROVE  OnceOK'
<1>0. "prompt times out" \notin Overlaps
  OBVIOUS
<1>1. file \subseteq file'
  BY FileStep
<1>2. \A i \in 1 .. Len(toClient') : toClient'[i].type = "response" =>
        toClient'[i].messages \subseteq file'
  BY <1>1, ToClientStep DEF OnceOK
<1>3. history' \subseteq {NoOp}
  <2>1. ASSUME NEW j \in 1 .. Len(toClient), toClient[j].type = "response", ~ replayed,
               client = "open", phase = "replaying", history' = toClient[j].messages
        PROVE  history' \subseteq {NoOp}
    <3>1. ~ closed /\ client # "failed" /\ phase \notin InTurn
      BY <2>1 DEF OwnedOK, InTurn
    <3>2. file \subseteq {NoOp}
      BY <2>1, <3>1 DEF OnceOK
    <3> QED
      BY <2>1, <3>2 DEF OnceOK
  <2>2. UNCHANGED history => history' \subseteq {NoOp}
    BY DEF OnceOK
  <2> QED
    BY <2>1, <2>2, HistoryStep
<1>4. ASSUME ~ replayed', client' # "failed", ~ closed'
      PROVE  file' \subseteq {NoOp} \cup (IF phase' \in InTurn THEN {op'} ELSE {})
  <2>1. file \subseteq {NoOp} \cup (IF phase' \in InTurn THEN {op'} ELSE {})
    BY <1>0, <1>4, PhaseStep DEF OnceOK
  <2>2. ASSUME NEW j \in 1 .. Len(toAgent), toAgent[j].type = "prompt",
               file' = file \cup {toAgent[j].op}, UNCHANGED <<op, phase>>
        PROVE  file' \subseteq {NoOp} \cup (IF phase' \in InTurn THEN {op'} ELSE {})
    <3>1. toAgent[j].op = op' /\ phase' \in InTurn
      BY <2>2 DEF TurnOK, PromptOK, InTurn
    <3> QED
      BY <2>1, <2>2, <3>1
  <2> QED
    BY <2>1, <2>2, FileStep
<1> QED
  BY <1>2, <1>3, <1>4 DEF OnceOK

-----------------------------------------------------------------------------
(* Theorems.                                                               *)

\* Every variable has its type, whatever overlaps.
THEOREM TypeCorrect == Spec => []TypeOK
<1>1. TypeInv => TypeOK
  BY DEF TypeInv, TypeOK, FlagsTyped, PipesTyped, DataTyped
<1> QED
  BY <1>1, InitTyped, NextTyped, PTL DEF Spec

\* A session that is not closed while it starts a process has every process that runs
\* in a field, and none when it is closed: the failure of a start, a dead client and
\* close leave none behind.
THEOREM NoProcessIsLost ==
  ASSUME "close while starting" \notin Overlaps
  PROVE  Spec => []ProcessIsOwned
<1>1. TypeInv /\ OwnedOK /\ [Next]_vars => OwnedOK'
  BY NextOwned
<1>2. OwnedOK => ProcessIsOwned
  BY DEF OwnedOK
<1> QED
  BY <1>1, <1>2, InitTyped, NextTyped, InitOwned, PTL DEF Spec

\* A message gets no event of another one, and does not end with it: nothing of a
\* message is in the pipes when the next one is sent.
THEOREM NoForeignEvents ==
  ASSUME "prompt times out" \notin Overlaps
  PROVE  Spec => []EventsAreOwn
<1>1. TypeInv /\ TurnOK /\ [Next]_vars => TurnOK'
  BY NextTurn
<1>2. TurnOK => EventsAreOwn
  BY DEF TurnOK
<1> QED
  BY <1>1, <1>2, InitTyped, NextTyped, InitTurn, PTL DEF Spec

\* When the file counts as replayed, nothing of it is missing: the old turns were
\* replayed before a message was sent, and the others are in the conversation.
THEOREM NoHistoryIsLost ==
  ASSUME "send before load" \notin Overlaps
  PROVE  Spec => []HistoryIsWhole
<1>1. TypeInv /\ LoadOK /\ [Next]_vars => LoadOK'
  BY NextLoad
<1>2. LoadOK => HistoryIsWhole
  BY DEF LoadOK, HistoryIsWhole
<1> QED
  BY <1>1, <1>2, InitTyped, NextTyped, InitLoad, PTL DEF Spec

\* Without those overlaps, what a window is shown is what Pi has.
THEOREM ConversationCorrect ==
  ASSUME Overlaps \cap {"prompt times out", "close while starting", "send before load"} = {}
  PROVE  Spec => []ConversationIsTrue
<1>1. TypeInv /\ TurnOK /\ OwnedOK /\ OnceOK /\ [Next]_vars => OnceOK'
  BY NextOnce
<1>2. TypeInv /\ OnceOK => ShownOnce
  BY OperationsAssumption DEF TypeInv, DataTyped, OnceOK, ShownOnce, NoOp
<1>3. Spec => []EventsAreOwn
  BY NoForeignEvents
<1>4. Spec => []HistoryIsWhole
  BY NoHistoryIsLost
<1>5. TypeInv /\ OwnedOK /\ [Next]_vars => OwnedOK'
  BY NextOwned
<1>6. TypeInv /\ TurnOK /\ [Next]_vars => TurnOK'
  BY NextTurn
<1>7. EventsAreOwn /\ ShownOnce /\ HistoryIsWhole => ConversationIsTrue
  BY DEF ConversationIsTrue
<1> QED
  BY <1>1, <1>2, <1>3, <1>4, <1>5, <1>6, <1>7, InitTyped, NextTyped, InitOwned, InitTurn,
     InitOnce, PTL DEF Spec
=============================================================================
