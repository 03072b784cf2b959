------------------------------- MODULE RunViews -------------------------------
(***************************************************************************)
(* What a window of the desktop shows of the runs of one chat: the         *)
(* observers of the daemon's run registry (run-registry.ts), the event     *)
(* stream (api.ts, daemon-client), the slot of the chat in the window, the *)
(* loop that consumes a stream, the attachment to a run that was started   *)
(* elsewhere, and the hints that a conversation has changed                *)
(* (renderer/features/chat/state, renderer/platform/daemon-events.tsx).    *)
(*                                                                         *)
(* The content of an answer is the sequence of the numbers of its events:  *)
(* a snapshot after event k stands for 1..k, an event appends its number.  *)
(* The last event of a run is its result or its error.  Other windows and  *)
(* phones start and stop runs of the chat, too; what they show is the same *)
(* question again.                                                         *)
(*                                                                         *)
(* A slot that follows a run it shows already shows it once more: question *)
(* and answer stay above the new ones, and do not change any more.  Of     *)
(* these earlier answers of a run only this is kept: that there are some,  *)
(* and whether one of them is shown as complete.                           *)
(***************************************************************************)
EXTENDS Naturals, Sequences

CONSTANTS Overlaps,     \* which of OverlapKinds may happen
          MaxRuns,      \* bound: messages that are sent
          MaxEvents,    \* bound: events of a run before its last one
          MaxFaults     \* bound: lost streams, lost sockets, reloads

(* What the window does not stand, each allowed only when listed.  A hint waits *)
(* for 150 ms in the window, but nothing orders it against the stream:          *)
(*  "hint before done"   it is handled while the window has still messages of   *)
(*                       a run to read that has ended                           *)
(*  "hint while sending" it, or the history it asked for, is handled while the  *)
(*                       window shows a message the daemon has not accepted     *)
(*  "end before attach"  a run ends after the window was told that it is active *)
(*                       and before its slot follows it                         *)
OverlapKinds == { "hint before done", "hint while sending", "end before attach" }

Runs == 1 .. MaxRuns
NoRun == 0

ASSUME OverlapsAssumption == Overlaps \subseteq OverlapKinds
ASSUME BoundsAssumption == MaxRuns \in Nat /\ MaxEvents \in Nat /\ MaxFaults \in Nat

VARIABLES
  \* the daemon
  active,       \* the run registered for the chat
  emitted,      \* lastEventSequence of each run
  state,        \* what became of the message of each run
  stops,        \* runs whose Stop request from this window is under way
  \* the window
  slot,         \* the run the slot is streaming
  view,         \* the answer of each run as it is shown, the last one if several
  earlier,      \* the other answers that are shown of each run
  loop,         \* consumeRunStream for each run, with its stream
  sending,      \* the run whose start waits, for the Stop of which other one
  attach,       \* attachToActiveRun
  socket, hint, \* the event socket; a conversation change that is to be handled
  load,         \* the refetch of the history
  faults

daemonVars == <<active, emitted, state, stops>>
slotVars   == <<slot, view, earlier, loop, sending, attach>>
hintVars   == <<socket, hint, load>>
vars == <<daemonVars, slotVars, hintVars, faults>>

Upto(k) == [i \in 1 .. k |-> i]

RunState == { "unused",
              "waiting",   \* for the answer to the Stop of the run before it
              "posted", "active", "over",
              "refused",   \* the chat had another run
              "dropped" }  \* the request never arrived

Snapshot(k) == [type |-> "snapshot", number |-> k]
Event(k)    == [type |-> "event", number |-> k]
Done        == [type |-> "done", number |-> 0]

Absent   == [status |-> "absent", parts |-> <<>>]
NoLoop   == [phase |-> "none", queue |-> <<>>]
NoAttach == [phase |-> "no", run |-> NoRun, number |-> 0]
NotSending == [run |-> NoRun, after |-> NoRun]
NoLoad   == [phase |-> "no", over |-> {}]

Message == [type : {"snapshot", "event", "done"}, number : Nat]

TypeOK ==
  /\ active \in Runs \cup {NoRun} /\ slot \in Runs \cup {NoRun}
  /\ emitted \in [Runs -> 0 .. MaxEvents + 1]
  /\ state \in [Runs -> RunState]
  /\ stops \subseteq Runs
  /\ view \in [Runs -> [status : {"absent", "streaming", "complete", "cancelled", "error"},
                        parts : Seq(Nat)]]
  /\ earlier \in [Runs -> SUBSET {"complete", "cut off"}]
  /\ loop \in [Runs -> [phase : {"none", "posting", "asking", "open", "failed"},
                        queue : Seq(Message)]]
  /\ sending \in [run : Runs \cup {NoRun}, after : Runs \cup {NoRun}]
  /\ attach \in [phase : {"no", "asking", "read", "looping"},
                  run : Runs \cup {NoRun}, number : 0 .. MaxEvents + 1]
  /\ load \in [phase : {"no", "asked", "read"}, over : SUBSET Runs]
  /\ socket \in BOOLEAN /\ hint \in BOOLEAN
  /\ faults \in 0 .. MaxFaults

Init ==
  /\ active = NoRun
  /\ emitted = [r \in Runs |-> 0]
  /\ state = [r \in Runs |-> "unused"]
  /\ stops = {}
  /\ slot = NoRun
  /\ view = [r \in Runs |-> Absent]
  /\ earlier = [r \in Runs |-> {}]
  /\ loop = [r \in Runs |-> NoLoop]
  /\ sending = NotSending
  /\ attach = NoAttach
  /\ socket = TRUE /\ hint = FALSE /\ load = NoLoad
  /\ faults = 0

Over == { r \in Runs : state[r] = "over" }
IsNext(r) == state[r] = "unused" /\ \A s \in 1 .. r - 1 : state[s] # "unused"
Sending == slot \notin {NoRun, active} \cup Over
Fault == faults < MaxFaults /\ faults' = faults + 1

-----------------------------------------------------------------------------
(* The registry and its observers.                                         *)

\* A hint that is published while the socket is down is gone.
conversationChanged == hint' = (hint \/ socket)

\* observe: the snapshot is the first message of the queue.
Observed(r) == [loop EXCEPT ![r].phase = "open", ![r].queue = <<Snapshot(emitted[r])>>]

\* #emit: the observers the run has get the messages.
Enqueued(r, messages) ==
  IF loop[r].phase = "open" THEN [loop EXCEPT ![r].queue = @ \o messages] ELSE loop

\* POST /api/chat-runs/:runId.  The window may have given up its stream.
PostArrives(r) ==
  /\ state[r] = "posted"
  /\ IF active = NoRun
     THEN /\ active' = r
          /\ state' = [state EXCEPT ![r] = "active"]
          /\ loop' = IF loop[r].phase = "posting" THEN Observed(r) ELSE loop
          /\ conversationChanged
     ELSE /\ state' = [state EXCEPT ![r] = "refused"]
          /\ loop' = IF loop[r].phase = "posting"
                     THEN [loop EXCEPT ![r].phase = "failed"] ELSE loop
          /\ UNCHANGED <<active, hint>>
  /\ UNCHANGED <<emitted, stops, slot, view, earlier, sending, attach, socket, load, faults>>

\* The request was aborted, or lost, before the daemon took it.
PostDropped(r) ==
  /\ state[r] = "posted"
  /\ loop[r].phase # "posting"
  /\ state' = [state EXCEPT ![r] = "dropped"]
  /\ UNCHANGED <<active, emitted, stops, slotVars, hintVars, faults>>

\* Another client starts a run.
StartedElsewhere(r) ==
  /\ IsNext(r) /\ active = NoRun
  /\ active' = r
  /\ state' = [state EXCEPT ![r] = "active"]
  /\ conversationChanged
  /\ UNCHANGED <<emitted, stops, slotVars, socket, load, faults>>

Emit(r) ==
  /\ active = r
  /\ emitted[r] < MaxEvents
  /\ emitted' = [emitted EXCEPT ![r] = @ + 1]
  /\ loop' = Enqueued(r, <<Event(emitted[r] + 1)>>)
  /\ UNCHANGED <<active, state, stops, slot, view, earlier, sending, attach, hintVars, faults>>

\* The result or the error, then done, and the run is removed; its observers are
\* detached when their queues are written.
Finish(r) ==
  /\ active = r
  /\ attach.phase = "read" /\ attach.run = r => "end before attach" \in Overlaps
  /\ active' = NoRun
  /\ state' = [state EXCEPT ![r] = "over"]
  /\ emitted' = [emitted EXCEPT ![r] = @ + 1]
  /\ loop' = Enqueued(r, <<Event(emitted[r] + 1), Done>>)
  /\ conversationChanged
  /\ UNCHANGED <<stops, slot, view, earlier, sending, attach, socket, load, faults>>

\* DELETE /api/chat-runs/:runId; a run that is not registered is not found.  The
\* run is only told to end.
StopArrives(r) ==
  /\ r \in stops
  /\ stops' = stops \ {r}
  /\ IF active = r THEN conversationChanged ELSE UNCHANGED hint
  /\ UNCHANGED <<active, emitted, state, slotVars, socket, load, faults>>

-----------------------------------------------------------------------------
(* The slot of the chat.                                                   *)

\* Leaving streaming detaches the observer of the run: its request is aborted, and
\* the loop and an attachment that waits for it end before anything else happens.
Detached == IF slot = NoRun THEN loop ELSE [loop EXCEPT ![slot] = NoLoop]
Released(r) == attach' = IF attach.phase = "looping" /\ attach.run = r THEN NoAttach ELSE attach

\* The answer in progress stays, marked as cancelled.
MarkedCancelled == IF slot = NoRun THEN view ELSE [view EXCEPT ![slot].status = "cancelled"]

\* run.started; it replaces the run that streams, if any.  The message and a new
\* answer are added to what is shown, also for a run that is shown already.
RunStarted(r, parts, phase) ==
  LET shown == MarkedCancelled[r] IN
  /\ slot' = r
  /\ earlier' = IF shown.status = "absent" THEN earlier
                ELSE [earlier EXCEPT ![r] = @ \cup
                  {IF shown.status = "complete" THEN "complete" ELSE "cut off"}]
  /\ view' = [MarkedCancelled EXCEPT ![r] = [status |-> "streaming", parts |-> parts]]
  /\ loop' = [Detached EXCEPT ![r].phase = phase]

\* startRun.  Over a run that streams it first waits for the answer to its Stop.
StartRun(r) ==
  /\ IsNext(r)
  /\ sending = NotSending
  /\ IF slot = NoRun
     THEN /\ state' = [state EXCEPT ![r] = "posted"]
          /\ RunStarted(r, <<>>, "posting")
          /\ UNCHANGED <<sending, stops>>
     ELSE /\ state' = [state EXCEPT ![r] = "waiting"]
          /\ sending' = [run |-> r, after |-> slot]
          /\ stops' = stops \cup {slot}
          /\ UNCHANGED <<slot, view, earlier, loop>>
  /\ UNCHANGED <<active, emitted, attach, hintVars, faults>>

\* The run it waited for was told to stop, which is not its end.
StartRunResumes(r) ==
  /\ sending.run = r /\ sending.after \notin stops
  /\ sending' = NotSending
  /\ state' = [state EXCEPT ![r] = "posted"]
  /\ RunStarted(r, <<>>, "posting")
  /\ Released(slot)
  /\ UNCHANGED <<active, emitted, stops, hintVars, faults>>

\* cancelRun
Stop ==
  /\ slot # NoRun
  /\ stops' = stops \cup {slot}
  /\ slot' = NoRun
  /\ view' = MarkedCancelled
  /\ loop' = Detached
  /\ Released(slot)
  /\ UNCHANGED <<active, emitted, state, earlier, sending, hintVars, faults>>

-----------------------------------------------------------------------------
(* consumeRunStream and settleRun.                                         *)

\* settleRun: run.finished counts only for the run of the slot.
Settled(r, status) ==
  /\ IF slot = r
     THEN slot' = NoRun /\ view' = [view EXCEPT ![r].status = status]
     ELSE UNCHANGED <<slot, view>>
  /\ loop' = [loop EXCEPT ![r] = NoLoop]
  /\ Released(r)

LoopStep == UNCHANGED <<daemonVars, earlier, sending, hintVars, faults>>

\* Mutant of Accumulated: a second snapshot is added to what is there.
AccumulatedTwice(parts, message) ==
  IF message.type = "snapshot" THEN parts \o Upto(message.number)
  ELSE Append(parts, message.number)

\* A snapshot replaces the answer, an event adds to it.
Accumulated(parts, message) ==
  IF message.type = "snapshot" THEN Upto(message.number)
  ELSE Append(parts, message.number)

Reads(r) ==
  LET message == Head(loop[r].queue) IN
  /\ loop[r].queue # <<>>
  /\ IF message = Done THEN Settled(r, "complete")
     ELSE /\ view' = [view EXCEPT ![r].parts = Accumulated(@, message)]
          /\ loop' = [loop EXCEPT ![r].queue = Tail(@)]
          /\ UNCHANGED <<slot, attach>>
  /\ LoopStep

\* The request is refused or not found, or the stream is lost: an error is shown.
Fails(r) ==
  /\ loop[r].phase = "failed"
  /\ Settled(r, "error")
  /\ LoopStep

-----------------------------------------------------------------------------
(* attachToActiveRun, after a hint or when the chat is mounted.            *)

\* GET /api/chats/:chatId/active-run
ActiveRead ==
  /\ attach.phase = "asking"
  /\ attach' = IF active = NoRun THEN NoAttach
               ELSE [phase |-> "read", run |-> active, number |-> emitted[active]]
  /\ UNCHANGED <<daemonVars, slot, view, earlier, loop, sending, hintVars, faults>>

\* The slot starts from the snapshot that was read, and the stream is asked for.
AttachResumes ==
  /\ attach.phase = "read"
  /\ IF slot # NoRun
     THEN attach' = NoAttach /\ UNCHANGED <<slot, view, earlier, loop>>
     ELSE /\ RunStarted(attach.run, Upto(attach.number), "asking")
          /\ attach' = [attach EXCEPT !.phase = "looping"]
  /\ UNCHANGED <<daemonVars, sending, hintVars, faults>>

\* GET /api/chat-runs/:runId/events
ObserveArrives(r) ==
  /\ loop[r].phase = "asking"
  /\ loop' = IF active = r THEN Observed(r) ELSE [loop EXCEPT ![r].phase = "failed"]
  /\ UNCHANGED <<daemonVars, slot, view, earlier, sending, attach, hintVars, faults>>

-----------------------------------------------------------------------------
(* Hints and the history.                                                  *)

\* reconcileChatConversation: a slot that streams ignores the hint.
HintFires ==
  /\ hint
  /\ slot \in Over => "hint before done" \in Overlaps
  /\ Sending => "hint while sending" \in Overlaps
  /\ hint' = FALSE
  /\ IF slot # NoRun THEN UNCHANGED <<load, attach>>
     ELSE /\ load' = [phase |-> "asked", over |-> {}]
          /\ attach' = IF attach.phase = "no"
                       THEN [attach EXCEPT !.phase = "asking"] ELSE attach
  /\ UNCHANGED <<daemonVars, slot, view, earlier, loop, sending, socket, faults>>

\* POST /api/chats/:id/load
LoadArrives ==
  /\ load.phase = "asked"
  /\ load' = [phase |-> "read", over |-> Over]
  /\ UNCHANGED <<daemonVars, slotVars, socket, hint, faults>>

Whole(r) == [status |-> "complete", parts |-> Upto(emitted[r])]

\* slot.refresh: the history replaces what an idle slot shows.
LoadEnds ==
  /\ load.phase = "read"
  /\ Sending => "hint while sending" \in Overlaps
  /\ load' = NoLoad
  /\ view' = IF slot # NoRun THEN view
             ELSE [r \in Runs |-> IF r \in load.over THEN Whole(r) ELSE Absent]
  /\ earlier' = IF slot # NoRun THEN earlier ELSE [r \in Runs |-> {}]
  /\ UNCHANGED <<daemonVars, slot, loop, sending, attach, socket, hint, faults>>

-----------------------------------------------------------------------------
(* Faults.                                                                 *)

LoseStream(r) ==
  /\ loop[r].phase \in {"posting", "asking", "open"}
  /\ Fault
  /\ loop' = [loop EXCEPT ![r].phase = "failed", ![r].queue = <<>>]
  /\ UNCHANGED <<daemonVars, slot, view, earlier, sending, attach, hintVars>>

LoseSocket ==
  /\ socket
  /\ Fault
  /\ socket' = FALSE
  /\ UNCHANGED <<daemonVars, slotVars, hint, load>>

\* Mutant of SocketOpens: what happened while it was down is not looked for.
SocketOpensOnly ==
  /\ ~ socket
  /\ socket' = TRUE
  /\ UNCHANGED <<daemonVars, slotVars, hint, load, faults>>

\* Every chat that is mounted is reconciled.
SocketOpens ==
  /\ ~ socket
  /\ socket' = TRUE /\ hint' = TRUE
  /\ UNCHANGED <<daemonVars, slotVars, load, faults>>

\* The renderer is reloaded: the chat is mounted, and a socket opens.
Reload ==
  /\ Fault
  /\ slot' = NoRun
  /\ view' = [r \in Runs |-> Absent]
  /\ earlier' = [r \in Runs |-> {}]
  /\ loop' = [r \in Runs |-> NoLoop]
  /\ sending' = NotSending
  /\ state' = [r \in Runs |-> IF r = sending.run THEN "dropped" ELSE state[r]]
  /\ attach' = [NoAttach EXCEPT !.phase = "asking"]
  /\ load' = [phase |-> "asked", over |-> {}]
  /\ socket' = FALSE /\ hint' = FALSE
  /\ UNCHANGED <<active, emitted, stops>>

-----------------------------------------------------------------------------
PostEnds(r) == PostArrives(r) \/ PostDropped(r)
LoopSteps(r) == Reads(r) \/ Fails(r) \/ ObserveArrives(r) \/ StartRunResumes(r)
AttachStep == ActiveRead \/ AttachResumes
LoadStep == LoadArrives \/ LoadEnds

Next ==
  \/ \E r \in Runs : \/ PostEnds(r) \/ StartedElsewhere(r) \/ Emit(r) \/ Finish(r)
                     \/ StopArrives(r) \/ StartRun(r) \/ LoopSteps(r) \/ LoseStream(r)
  \/ Stop \/ AttachStep \/ HintFires \/ LoadStep
  \/ LoseSocket \/ SocketOpens \/ Reload

SafetySpec == Init /\ [][Next]_vars

\* Requests arrive or fail and are answered, loops go on, timers fire, sockets
\* open again; a run ends, by itself, by an answer of the user or by Stop.
Fairness ==
  /\ \A r \in Runs : /\ WF_vars(PostEnds(r)) /\ SF_vars(Finish(r))
                     /\ WF_vars(StopArrives(r)) /\ WF_vars(LoopSteps(r))
  /\ WF_vars(AttachStep) /\ WF_vars(HintFires) /\ WF_vars(LoadStep)
  /\ WF_vars(SocketOpens)
Spec == SafetySpec /\ Fairness

-----------------------------------------------------------------------------
(* Properties.                                                             *)

\* The last answer of each run is without a gap and without a repetition in itself,
\* never further than the daemon is, shown as complete only when it is, and as in
\* progress only in the slot that follows it (consumeRunStream, settleRun).
LastIsTrue ==
  \A r \in Runs :
    /\ view[r].parts = Upto(Len(view[r].parts))
    /\ Len(view[r].parts) <= emitted[r]
    /\ view[r].status = "complete" => r \in Over /\ Len(view[r].parts) = emitted[r]
    /\ view[r].status = "streaming" <=> slot = r

\* A finished answer is not shown a second time: the slot follows no run that the
\* window shows as complete, unless the run ends after the window was told that it is
\* active (attachToActiveRun, chat-run-store.ts 278-310).
RepeatsAreCutOff ==
  \A r \in Runs : "complete" \in earlier[r] => "end before attach" \in Overlaps

\* Whatever is lost, stopped, replaced or fetched again, each answer in the window is a
\* true part of its run, and where a run has more than one, those above the last were
\* cut off by a Stop or a lost stream: of a finished answer there is one.  That a run
\* may have more than one at all is RunShownOnce.
ShownIsTrue == LastIsTrue /\ RepeatsAreCutOff

\* A hint may be handled any number of times: "Two reactions, both idempotent: ...
\* attach to whatever run the daemon is executing" (chat-conversation-sync.ts 17-20),
\* so a run has one answer in the window.  TLC finds it violated by a Stop whose hint
\* attaches the slot again before the run has ended (README).
RunShownOnce == \A r \in Runs : earlier[r] = {}

\* The window comes to show all that was answered, whole and once, and nothing as
\* running (the hints at the end of a run, and the history they make it fetch).
EventuallyCurrent ==
  <>[](slot = NoRun /\ \A r \in Over : view[r] = Whole(r) /\ earlier[r] = {})
=============================================================================
