--------------------------- MODULE RunViews_proofs ---------------------------
(***************************************************************************)
(* Theorems about RunViews, for any numbers of runs, events and faults and *)
(* whatever overlaps: no answer in a window has a gap or a repetition in   *)
(* itself, nor is it shown as complete or in progress when it is not; and  *)
(* what is shown of a run besides its last answer is no finished one.      *)
(*                                                                         *)
(* LastIsTrue is not inductive: the next message to be read must continue *)
(* what is shown.  So the messages that wait for an open loop are          *)
(* consecutive up to the last event that was emitted (Continues), they     *)
(* begin with a snapshot or where the view ends, and done is the last one, *)
(* of a run that is over.  That the window shows no finished answer twice  *)
(* rests on ReadOK, that a run it was told of goes on until the slot       *)
(* follows it.                                                             *)
(***************************************************************************)
EXTENDS RunViews, SequenceTheorems, TLAPS

RunsOK ==
  \A r \in Runs :
    /\ active = r <=> state[r] = "active"
    /\ state[r] \notin {"active", "over"} => emitted[r] = 0
    /\ state[r] # "over" => emitted[r] <= MaxEvents

SendingOK == sending.run # NoRun => state[sending.run] = "waiting"

LoopOK ==
  \A r \in Runs :
    /\ loop[r].phase # "none" => slot = r
    /\ loop[r].phase # "open" => loop[r].queue = <<>>
    /\ loop[r].phase = "open" => state[r] \in {"active", "over"}

\* The events in a queue end at event e, the last one emitted, and the first
\* message continues a view of n events.
Events(q, over) == IF over THEN Len(q) - 1 ELSE Len(q)

Continues(q, n, e, over) ==
  /\ over => Len(q) > 0 /\ q[Len(q)] = Done
  /\ \A i \in 1 .. Events(q, over) :
       /\ q[i].number = e - (Events(q, over) - i)
       /\ q[i].type = "event" \/ (i = 1 /\ q[i].type = "snapshot")
  /\ Events(q, over) = 0 \/ q[1].type = "event" => n = e - Events(q, over)

QueuesOK ==
  \A r \in Runs : loop[r].phase = "open" =>
    Continues(loop[r].queue, Len(view[r].parts), emitted[r], state[r] = "over")

AttachOK ==
  attach.phase = "read" => attach.run \in Runs /\ attach.number <= emitted[attach.run]

ReadOK ==
  attach.phase = "read" => active = attach.run \/ "end before attach" \in Overlaps

LoadOK == load.over \subseteq Over

IInv == TypeOK /\ RunsOK /\ SendingOK /\ LoopOK /\ QueuesOK /\ AttachOK /\ ReadOK
        /\ LoadOK /\ LastIsTrue /\ RepeatsAreCutOff

-----------------------------------------------------------------------------
(* Sequences of events.                                                    *)

LEMMA UptoIsSeq ==
  ASSUME NEW k \in Nat
  PROVE  Upto(k) \in Seq(Nat) /\ Len(Upto(k)) = k
<1>1. Upto(k) \in [1 .. k -> Nat]
  BY DEF Upto
<1> QED
  BY <1>1, SeqDef, LenProperties

LEMMA UptoNext ==
  ASSUME NEW n \in Nat
  PROVE  Append(Upto(n), n + 1) = Upto(n + 1)
<1>1. /\ Append(Upto(n), n + 1) \in Seq(Nat)
      /\ Len(Append(Upto(n), n + 1)) = n + 1
  BY UptoIsSeq, AppendProperties
<1>2. Upto(n + 1) \in Seq(Nat) /\ Len(Upto(n + 1)) = n + 1
  BY UptoIsSeq
<1>3. ASSUME NEW i \in 1 .. n + 1
      PROVE  Append(Upto(n), n + 1)[i] = Upto(n + 1)[i]
  BY UptoIsSeq, AppendProperties DEF Upto
<1> QED
  BY <1>1, <1>2, <1>3, SeqEqual

-----------------------------------------------------------------------------
(* The queue of an observer.                                               *)

LEMMA EventsOf ==
  ASSUME NEW q, NEW over \in BOOLEAN
  PROVE  /\ over => Events(q, over) = Len(q) - 1
         /\ ~ over => Events(q, over) = Len(q)
  BY DEF Events

LEMMA SnapshotContinues ==
  ASSUME NEW n \in Nat, NEW e \in Nat
  PROVE  Continues(<<Snapshot(e)>>, n, e, FALSE)
  BY DEF Continues, Events, Snapshot

LEMMA EventContinues ==
  ASSUME NEW q \in Seq(Message), NEW n \in Nat, NEW e \in Nat,
         Continues(q, n, e, FALSE)
  PROVE  Continues(q \o <<Event(e + 1)>>, n, e + 1, FALSE)
<1> DEFINE p == q \o <<Event(e + 1)>>
<1>1. /\ Len(q) \in Nat
      /\ Len(p) = Len(q) + 1
      /\ \A i \in 1 .. Len(q) : p[i] = q[i]
      /\ p[Len(q) + 1] = Event(e + 1)
  OBVIOUS
<1> HIDE DEF p
<1>2. ASSUME NEW i \in 1 .. Len(p)
      PROVE  /\ p[i].number = e + 1 - (Len(p) - i)
             /\ p[i].type = "event" \/ (i = 1 /\ p[i].type = "snapshot")
  <2>1. CASE i \in 1 .. Len(q)
    BY <1>1, <2>1 DEF Continues, Events
  <2>2. CASE i = Len(q) + 1
    BY <1>1, <2>2 DEF Event
  <2> QED
    BY <1>1, <2>1, <2>2
<1>3. Len(p) = 0 \/ p[1].type = "event" => n = e + 1 - Len(p)
  <2>1. CASE Len(q) = 0
    BY <1>1, <2>1 DEF Continues, Events
  <2>2. CASE Len(q) > 0
    BY <1>1, <2>2 DEF Continues, Events
  <2> QED
    BY <1>1, <2>1, <2>2
<1>4. Continues(p, n, e + 1, FALSE)
  BY <1>1, <1>2, <1>3 DEF Continues, Events
<1> QED
  BY <1>4 DEF p

LEMMA DoneContinues ==
  ASSUME NEW q \in Seq(Message), NEW n \in Nat, NEW e \in Nat,
         Continues(q, n, e, FALSE)
  PROVE  Continues(q \o <<Event(e + 1), Done>>, n, e + 1, TRUE)
<1> DEFINE p == q \o <<Event(e + 1), Done>>
<1>1. /\ Len(q) \in Nat
      /\ Len(p) = Len(q) + 2
      /\ \A i \in 1 .. Len(q) : p[i] = q[i]
      /\ p[Len(q) + 1] = Event(e + 1)
      /\ p[Len(q) + 2] = Done
  OBVIOUS
<1> HIDE DEF p
<1>2. ASSUME NEW i \in 1 .. Len(p) - 1
      PROVE  /\ p[i].number = e + 1 - (Len(p) - 1 - i)
             /\ p[i].type = "event" \/ (i = 1 /\ p[i].type = "snapshot")
  <2>1. CASE i \in 1 .. Len(q)
    BY <1>1, <2>1 DEF Continues, Events
  <2>2. CASE i = Len(q) + 1
    BY <1>1, <2>2 DEF Event
  <2> QED
    BY <1>1, <2>1, <2>2
<1>3. p[1].type = "event" => n = e + 1 - (Len(p) - 1)
  <2>1. CASE Len(q) = 0
    BY <1>1, <2>1 DEF Continues, Events
  <2>2. CASE Len(q) > 0
    BY <1>1, <2>2 DEF Continues, Events
  <2> QED
    BY <1>1, <2>1, <2>2
<1>4. Len(p) \in Nat /\ Len(p) > 1 /\ p[Len(p)] = Done
  BY <1>1
<1>5. Continues(p, n, e + 1, TRUE)
  BY <1>2, <1>3, <1>4 DEF Continues, Events
<1> QED
  BY <1>5 DEF p

\* What a loop reads continues what is shown, and so does what is left.
LEMMA ReadContinues ==
  ASSUME NEW q \in Seq(Message), NEW n \in Nat, NEW e \in Nat, NEW over \in BOOLEAN,
         q # <<>>, n <= e, Continues(q, n, e, over), Head(q) # Done
  PROVE  \E m \in Nat : /\ m <= e
                        /\ Accumulated(Upto(n), Head(q)) = Upto(m)
                        /\ Continues(Tail(q), m, e, over)
<1> DEFINE t == Tail(q)
           last == Events(q, over)
           rest == Events(t, over)
           m == e - (last - 1)
<1>1. /\ Len(q) \in Nat \ {0}
      /\ Head(q) = q[1] /\ q[1] \in Message
      /\ t \in Seq(Message)
      /\ Len(t) = Len(q) - 1
      /\ \A i \in 1 .. Len(q) - 1 : t[i] = q[i + 1]
  BY HeadTailProperties, LenProperties, ElementOfSeq
<1>2. over => Len(q) > 1 /\ q[Len(q)] = Done
  BY <1>1 DEF Continues
<1>3. /\ last \in Nat \ {0}
      /\ over => last = Len(q) - 1
      /\ ~ over => last = Len(q)
      /\ rest = last - 1
  <2>1. CASE over
    <3>1. last = Len(q) - 1 /\ rest = Len(t) - 1
      BY <2>1, EventsOf
    <3>2. Len(q) > 1
      BY <1>2, <2>1
    <3> HIDE DEF last, rest
    <3> QED
      BY <1>1, <2>1, <3>1, <3>2
  <2>2. CASE ~ over
    <3>1. last = Len(q) /\ rest = Len(t)
      BY <2>2, EventsOf
    <3> HIDE DEF last, rest
    <3> QED
      BY <1>1, <2>2, <3>1
  <2> QED
    BY <2>1, <2>2
<1>4. \A i \in 1 .. last :
        /\ q[i].number = e - (last - i)
        /\ q[i].type = "event" \/ (i = 1 /\ q[i].type = "snapshot")
  BY DEF Continues
<1>5. q[1].type = "event" => n = e - last
  BY DEF Continues
<1> HIDE DEF last, rest, t
<1>6. /\ q[1].number = m
      /\ q[1].type = "event" \/ q[1].type = "snapshot"
  BY <1>3, <1>4
<1>7. m \in Nat /\ m <= e
  BY <1>1, <1>3, <1>6 DEF Message
<1>8. Accumulated(Upto(n), Head(q)) = Upto(m)
  <2>1. CASE q[1].type = "snapshot"
    BY <1>1, <1>6, <2>1 DEF Accumulated
  <2>2. CASE q[1].type = "event"
    <3>1. m = n + 1
      BY <1>3, <1>5, <2>2
    <3> QED
      BY <1>1, <1>6, <2>2, <3>1, UptoNext DEF Accumulated
  <2> QED
    BY <1>6, <2>1, <2>2
<1>9. Continues(t, m, e, over)
  <2>1. over => Len(t) > 0 /\ t[Len(t)] = Done
    BY <1>1, <1>2
  <2>2. ASSUME NEW i \in 1 .. last - 1
        PROVE  t[i].number = e - (last - 1 - i) /\ t[i].type = "event"
    <3>1. i + 1 \in 1 .. last /\ i + 1 # 1 /\ t[i] = q[i + 1]
      BY <1>1, <1>3
    <3> QED
      BY <1>3, <1>4, <3>1
  <2> QED
    BY <1>3, <2>1, <2>2 DEF Continues, rest
<1> QED
  BY <1>7, <1>8, <1>9 DEF t

LEMMA DoneIsLast ==
  ASSUME NEW q \in Seq(Message), NEW n \in Nat, NEW e \in Nat, NEW over \in BOOLEAN,
         q # <<>>, Continues(q, n, e, over), Head(q) = Done
  PROVE  over /\ n = e
<1>1. Len(q) \in Nat \ {0} /\ q[1] = Done
  BY HeadTailProperties, LenProperties
<1> DEFINE last == Events(q, over)
<1>2. 1 \notin 1 .. last
  BY <1>1 DEF Continues, Done
<1>3. ASSUME ~ over
      PROVE  FALSE
  <2>1. last = Len(q)
    BY <1>3, EventsOf
  <2> HIDE DEF last
  <2> QED
    BY <1>1, <1>2, <2>1
<1>4. ASSUME over
      PROVE  n = e
  <2>1. last = Len(q) - 1
    BY <1>4, EventsOf
  <2>2. last = 0
    <3> HIDE DEF last
    <3> QED
      BY <1>1, <1>2, <2>1
  <2> QED
    BY <2>2 DEF Continues
<1> QED
  BY <1>3, <1>4

-----------------------------------------------------------------------------
(* Every step keeps the invariant.                                         *)

\* Runs end for good, and emit nothing more.
Grows ==
  /\ \A r \in Runs : emitted[r] <= emitted'[r]
  /\ \A r \in Over : r \in Over' /\ emitted'[r] = emitted[r]

LEMMA RunsStep ==
  ASSUME TypeOK, RunsOK, SendingOK, [Next]_vars
  PROVE  RunsOK' /\ SendingOK' /\ Grows
<1>0. /\ active \in Runs \cup {NoRun}
      /\ emitted \in [Runs -> 0 .. MaxEvents + 1]
      /\ state \in [Runs -> RunState]
      /\ sending \in [run : Runs \cup {NoRun}, after : Runs \cup {NoRun}]
      /\ NoRun \notin Runs
  <2>1. NoRun \notin Runs
    BY DEF Runs, NoRun
  <2> QED
    BY <2>1 DEF TypeOK
<1> USE BoundsAssumption, <1>0 DEF RunsOK, SendingOK, Grows, Over
<1>1. CASE UNCHANGED <<active, emitted, state, sending>>
  BY <1>1
<1>2. ASSUME NEW r \in Runs, PostArrives(r)
      PROVE  RunsOK' /\ SendingOK' /\ Grows
  BY <1>2 DEF PostArrives
<1>3. ASSUME NEW r \in Runs, PostDropped(r)
      PROVE  RunsOK' /\ SendingOK' /\ Grows
  BY <1>3 DEF PostDropped, slotVars, hintVars
<1>4. ASSUME NEW r \in Runs, StartedElsewhere(r)
      PROVE  RunsOK' /\ SendingOK' /\ Grows
  BY <1>4 DEF StartedElsewhere, slotVars, IsNext
<1>5. ASSUME NEW r \in Runs, Emit(r)
      PROVE  RunsOK' /\ SendingOK' /\ Grows
  BY <1>5 DEF Emit
<1>6. ASSUME NEW r \in Runs, Finish(r)
      PROVE  RunsOK' /\ SendingOK' /\ Grows
  <2>1. /\ active = r /\ active' = NoRun /\ sending' = sending
        /\ state' = [state EXCEPT ![r] = "over"]
        /\ emitted' = [emitted EXCEPT ![r] = @ + 1]
    BY <1>6 DEF Finish
  <2>2. RunsOK'
    BY <2>1
  <2>3. SendingOK'
    BY <2>1
  <2>4. Grows
    BY <2>1
  <2> QED
    BY <2>2, <2>3, <2>4
<1>7. ASSUME NEW r \in Runs, StartRun(r)
      PROVE  RunsOK' /\ SendingOK' /\ Grows
  BY <1>7 DEF StartRun, IsNext, NotSending
<1>8. ASSUME NEW r \in Runs, StartRunResumes(r)
      PROVE  RunsOK' /\ SendingOK' /\ Grows
  BY <1>8 DEF StartRunResumes, NotSending
<1>9. CASE Reload
  BY <1>9 DEF Reload, NotSending
<1> QED
  <2>1. CASE UNCHANGED vars
    BY <1>1, <2>1 DEF vars, daemonVars, slotVars
  <2>2. ASSUME NEW r \in Runs,
               StopArrives(r) \/ Reads(r) \/ Fails(r) \/ ObserveArrives(r) \/ LoseStream(r)
        PROVE  UNCHANGED <<active, emitted, state, sending>>
    BY <2>2 DEF StopArrives, Reads, Fails, ObserveArrives, LoseStream, LoopStep,
                daemonVars, slotVars
  <2>3. ASSUME Stop \/ AttachStep \/ HintFires \/ LoadStep \/ LoseSocket \/ SocketOpens
        PROVE  UNCHANGED <<active, emitted, state, sending>>
    BY <2>3 DEF Stop, AttachStep, ActiveRead, AttachResumes, HintFires, LoadStep,
                LoadArrives, LoadEnds, LoseSocket, SocketOpens, daemonVars, slotVars
  <2> QED
    BY <1>1, <1>2, <1>3, <1>4, <1>5, <1>6, <1>7, <1>8, <1>9, <2>1, <2>2, <2>3
    DEF Next, PostEnds, LoopSteps


\* TypeOK in parts: the daemon, what is shown with its loops, what is shown besides,
\* and the rest.
View == [status : {"absent", "streaming", "complete", "cancelled", "error"},
         parts : Seq(Nat)]
Loop == [phase : {"none", "posting", "asking", "open", "failed"}, queue : Seq(Message)]

DaemonTypeOK ==
  /\ active \in Runs \cup {NoRun}
  /\ emitted \in [Runs -> 0 .. MaxEvents + 1]
  /\ state \in [Runs -> RunState]
  /\ stops \subseteq Runs

SlotTypeOK ==
  /\ slot \in Runs \cup {NoRun}
  /\ view \in [Runs -> View]
  /\ loop \in [Runs -> Loop]

EarlierTypeOK == earlier \in [Runs -> SUBSET {"complete", "cut off"}]

WindowTypeOK ==
  /\ sending \in [run : Runs \cup {NoRun}, after : Runs \cup {NoRun}]
  /\ attach \in [phase : {"no", "asking", "read", "looping"},
                  run : Runs \cup {NoRun}, number : 0 .. MaxEvents + 1]
  /\ load \in [phase : {"no", "asked", "read"}, over : SUBSET Runs]
  /\ socket \in BOOLEAN /\ hint \in BOOLEAN
  /\ faults \in 0 .. MaxFaults

LEMMA TypeParts ==
  TypeOK <=> DaemonTypeOK /\ SlotTypeOK /\ EarlierTypeOK /\ WindowTypeOK
  BY DEF TypeOK, DaemonTypeOK, SlotTypeOK, EarlierTypeOK, WindowTypeOK, View, Loop

LEMMA SomeTypes ==
  /\ NoRun \notin Runs
  /\ NoLoop \in Loop /\ Absent \in View
  /\ \A e \in Nat : /\ <<Snapshot(e)>> \in Seq(Message)
                    /\ \A q \in Seq(Message) : /\ q \o <<Event(e)>> \in Seq(Message)
                                               /\ q \o <<Event(e), Done>> \in Seq(Message)
<1>1. ASSUME NEW e \in Nat
      PROVE  Snapshot(e) \in Message /\ Event(e) \in Message /\ Done \in Message
  BY DEF Snapshot, Event, Done, Message
<1>2. <<>> \in Seq(Message) /\ <<>> \in Seq(Nat)
  OBVIOUS
<1>3. NoLoop \in Loop /\ Absent \in View
  BY <1>2 DEF NoLoop, Loop, Absent, View
<1>4. ASSUME NEW e \in Nat
      PROVE  /\ <<Snapshot(e)>> \in Seq(Message)
             /\ \A q \in Seq(Message) : /\ q \o <<Event(e)>> \in Seq(Message)
                                        /\ q \o <<Event(e), Done>> \in Seq(Message)
  <2>1. /\ <<Snapshot(e)>> \in Seq(Message) /\ <<Event(e)>> \in Seq(Message)
        /\ <<Event(e), Done>> \in Seq(Message)
    BY <1>1
  <2> QED
    BY <2>1, ConcatProperties
<1> QED
  BY <1>3, <1>4 DEF Runs, NoRun

LEMMA StartedTypes ==
  ASSUME SlotTypeOK, NEW r \in Runs, NEW parts \in Seq(Nat),
         NEW phase \in {"posting", "asking"}, RunStarted(r, parts, phase)
  PROVE  SlotTypeOK'
<1> USE SomeTypes DEF SlotTypeOK
<1>1. MarkedCancelled \in [Runs -> View]
  BY DEF MarkedCancelled, View
<1>2. Detached \in [Runs -> Loop]
  BY DEF Detached
<1>3. [status |-> "streaming", parts |-> parts] \in View
  BY DEF View
<1>4. [Detached EXCEPT ![r].phase = phase] \in [Runs -> Loop]
  BY <1>2 DEF Loop
<1> QED
  BY <1>1, <1>3, <1>4 DEF RunStarted

LEMMA SettledTypes ==
  ASSUME SlotTypeOK, WindowTypeOK, NEW r \in Runs, NEW status \in {"complete", "error"},
         Settled(r, status)
  PROVE  /\ SlotTypeOK'
         /\ attach' \in [phase : {"no", "asking", "read", "looping"},
                         run : Runs \cup {NoRun}, number : 0 .. MaxEvents + 1]
<1>1. [view EXCEPT ![r].status = status] \in [Runs -> View]
  BY DEF SlotTypeOK, View
<1> QED
  BY <1>1, SomeTypes, BoundsAssumption DEF SlotTypeOK, WindowTypeOK, Settled, Released, NoAttach

LEMMA SlotTypeStep ==
  ASSUME TypeOK, AttachOK, [Next]_vars
  PROVE  SlotTypeOK'
<1>0. DaemonTypeOK /\ SlotTypeOK /\ WindowTypeOK
  BY TypeParts
<1> USE BoundsAssumption, SomeTypes
<1>1. CASE UNCHANGED <<slot, view, loop>>
  BY <1>0, <1>1 DEF SlotTypeOK
<1>2. ASSUME NEW r \in Runs, PostArrives(r) \/ ObserveArrives(r)
      PROVE  SlotTypeOK'
  <2>1. <<Snapshot(emitted[r])>> \in Seq(Message)
    BY <1>0 DEF DaemonTypeOK
  <2>2. Observed(r) \in [Runs -> Loop] /\ [loop EXCEPT ![r].phase = "failed"] \in [Runs -> Loop]
    BY <1>0, <2>1 DEF SlotTypeOK, Observed, Loop
  <2> QED
    BY <1>0, <1>2, <2>2 DEF SlotTypeOK, PostArrives, ObserveArrives
<1>3. ASSUME NEW r \in Runs, Emit(r) \/ Finish(r)
      PROVE  SlotTypeOK'
  <2>1. emitted[r] + 1 \in Nat /\ loop[r].queue \in Seq(Message)
    BY <1>0 DEF DaemonTypeOK, SlotTypeOK, Loop
  <2>2. /\ Enqueued(r, <<Event(emitted[r] + 1)>>) \in [Runs -> Loop]
        /\ Enqueued(r, <<Event(emitted[r] + 1), Done>>) \in [Runs -> Loop]
    BY <1>0, <2>1 DEF SlotTypeOK, Enqueued, Loop
  <2> QED
    BY <1>0, <1>3, <2>2 DEF SlotTypeOK, Emit, Finish
<1>4. ASSUME NEW r \in Runs, StartRun(r) \/ StartRunResumes(r)
      PROVE  SlotTypeOK'
  <2>1. <<>> \in Seq(Nat)
    OBVIOUS
  <2>2. RunStarted(r, <<>>, "posting") \/ UNCHANGED <<slot, view, loop>>
    BY <1>4 DEF StartRun, StartRunResumes
  <2> QED
    BY <1>0, <1>1, <2>1, <2>2, StartedTypes
<1>5. CASE Stop
  <2>1. slot \in Runs
    BY <1>0, <1>5 DEF SlotTypeOK, Stop
  <2>2. MarkedCancelled \in [Runs -> View] /\ Detached \in [Runs -> Loop]
    BY <1>0, <2>1 DEF SlotTypeOK, MarkedCancelled, Detached, View
  <2> QED
    BY <1>5, <2>2 DEF SlotTypeOK, Stop
<1>6. ASSUME NEW r \in Runs, Reads(r)
      PROVE  SlotTypeOK'
  <2> DEFINE message == Head(loop[r].queue)
  <2>1. /\ loop[r] \in Loop /\ loop[r].queue \in Seq(Message) /\ loop[r].queue # <<>>
        /\ view[r] \in View /\ view[r].parts \in Seq(Nat)
    BY <1>0, <1>6 DEF SlotTypeOK, Reads, Loop, View
  <2>2. message \in Message /\ Tail(loop[r].queue) \in Seq(Message)
    BY <2>1, HeadTailProperties
  <2>3. message.number \in Nat
    BY <2>2 DEF Message
  <2>4. Accumulated(view[r].parts, message) \in Seq(Nat)
    BY <2>1, <2>3, UptoIsSeq, AppendProperties DEF Accumulated
  <2> HIDE DEF message
  <2>5. CASE message = Done
    BY <1>0, <1>6, <2>5, SettledTypes DEF Reads, message
  <2>6. CASE message # Done
    <3>1. /\ [view EXCEPT ![r].parts = Accumulated(@, message)] \in [Runs -> View]
          /\ [loop EXCEPT ![r].queue = Tail(@)] \in [Runs -> Loop]
      BY <1>0, <2>2, <2>4 DEF SlotTypeOK, View, Loop
    <3> QED
      BY <1>0, <1>6, <2>6, <3>1 DEF SlotTypeOK, Reads, message
  <2> QED
    BY <2>5, <2>6
<1>7. ASSUME NEW r \in Runs, Fails(r)
      PROVE  SlotTypeOK'
  BY <1>0, <1>7, SettledTypes DEF Fails
<1>8. ASSUME NEW r \in Runs, LoseStream(r)
      PROVE  SlotTypeOK'
  <2>1. <<>> \in Seq(Message)
    OBVIOUS
  <2>2. [loop[r] EXCEPT !.phase = "failed", !.queue = <<>>] \in Loop
    BY <1>0, <2>1 DEF SlotTypeOK, Loop
  <2>3. loop' \in [Runs -> Loop]
    BY <1>0, <1>8, <2>2 DEF SlotTypeOK, LoseStream
  <2> QED
    BY <1>0, <1>8, <2>3 DEF SlotTypeOK, LoseStream
<1>9. CASE AttachResumes
  <2>1. attach.run \in Runs /\ Upto(attach.number) \in Seq(Nat)
    BY <1>0, <1>9, UptoIsSeq DEF WindowTypeOK, AttachOK, AttachResumes
  <2> QED
    BY <1>0, <1>1, <1>9, <2>1, StartedTypes DEF AttachResumes
<1>10. CASE LoadEnds
  <2>1. ASSUME NEW r \in Runs
        PROVE  Whole(r) \in View
    BY <1>0, UptoIsSeq DEF DaemonTypeOK, Whole, View
  <2> QED
    BY <1>0, <1>10, <2>1 DEF SlotTypeOK, LoadEnds
<1>11. CASE Reload
  BY <1>11 DEF SlotTypeOK, Reload
<1>12. ASSUME \/ UNCHANGED vars \/ ActiveRead \/ HintFires \/ LoadArrives
              \/ LoseSocket \/ SocketOpens
              \/ \E r \in Runs : PostDropped(r) \/ StartedElsewhere(r) \/ StopArrives(r)
       PROVE  UNCHANGED <<slot, view, loop>>
  BY <1>12 DEF vars, ActiveRead, HintFires, LoadArrives, LoseSocket, SocketOpens,
               PostDropped, StartedElsewhere, StopArrives, slotVars
<1> QED
  BY <1>1, <1>2, <1>3, <1>4, <1>5, <1>6, <1>7, <1>8, <1>9, <1>10, <1>11, <1>12
  DEF Next, PostEnds, LoopSteps, AttachStep, LoadStep

LEMMA DaemonTypeStep ==
  ASSUME TypeOK, RunsOK, [Next]_vars
  PROVE  DaemonTypeOK'
<1>0. DaemonTypeOK /\ SlotTypeOK /\ WindowTypeOK
  BY TypeParts
<1> USE BoundsAssumption, SomeTypes DEF DaemonTypeOK, SlotTypeOK
<1>1. CASE UNCHANGED <<active, emitted, state, stops>>
  BY <1>0, <1>1
<1>2. ASSUME NEW r \in Runs, PostArrives(r) \/ PostDropped(r) \/ StartedElsewhere(r)
      PROVE  DaemonTypeOK'
  BY <1>0, <1>2 DEF PostArrives, PostDropped, StartedElsewhere, RunState
<1>3. ASSUME NEW r \in Runs, Emit(r)
      PROVE  DaemonTypeOK'
  BY <1>0, <1>3 DEF Emit
<1>4. ASSUME NEW r \in Runs, Finish(r)
      PROVE  DaemonTypeOK'
  <2>1. emitted[r] <= MaxEvents
    BY <1>0, <1>4 DEF Finish, RunsOK
  <2>2. /\ active' = NoRun /\ state' = [state EXCEPT ![r] = "over"] /\ UNCHANGED stops
        /\ emitted' = [emitted EXCEPT ![r] = @ + 1]
    BY <1>4 DEF Finish
  <2> QED
    BY <1>0, <2>1, <2>2 DEF RunState
<1>5. ASSUME NEW r \in Runs, StopArrives(r)
      PROVE  DaemonTypeOK'
  BY <1>0, <1>5 DEF StopArrives
<1>6. ASSUME NEW r \in Runs, StartRun(r) \/ StartRunResumes(r)
      PROVE  DaemonTypeOK'
  BY <1>0, <1>6 DEF StartRun, StartRunResumes, RunState
<1>7. CASE Stop
  BY <1>0, <1>7 DEF Stop
<1>8. CASE Reload
  BY <1>0, <1>8 DEF Reload, RunState
<1>9. ASSUME \/ UNCHANGED vars \/ AttachStep \/ HintFires \/ LoadStep
             \/ LoseSocket \/ SocketOpens
             \/ \E r \in Runs : Reads(r) \/ Fails(r) \/ ObserveArrives(r) \/ LoseStream(r)
      PROVE  UNCHANGED <<active, emitted, state, stops>>
  BY <1>9 DEF vars, AttachStep, ActiveRead, AttachResumes, HintFires, LoadStep, LoadArrives,
              LoadEnds, LoseSocket, SocketOpens, Reads, Fails, ObserveArrives, LoseStream,
              LoopStep, daemonVars
<1> QED
  BY <1>1, <1>2, <1>3, <1>4, <1>5, <1>6, <1>7, <1>8, <1>9 DEF Next, PostEnds, LoopSteps

LEMMA WindowTypeStep ==
  ASSUME TypeOK, [Next]_vars
  PROVE  WindowTypeOK'
<1>0. DaemonTypeOK /\ SlotTypeOK /\ WindowTypeOK
  BY TypeParts
<1> USE BoundsAssumption DEF WindowTypeOK
<1> DEFINE Same == UNCHANGED <<sending, attach, load, socket, hint, faults>>
<1>1. CASE Same
  BY <1>0, <1>1
<1>2. ASSUME NEW r \in Runs, PostArrives(r) \/ StartedElsewhere(r) \/ Finish(r) \/ StopArrives(r)
      PROVE  WindowTypeOK'
  <2>1. UNCHANGED <<sending, attach, load, socket, faults>>
    BY <1>2 DEF PostArrives, StartedElsewhere, Finish, StopArrives, slotVars
  <2>2. hint' \in BOOLEAN
    BY <1>0, <1>2 DEF PostArrives, StartedElsewhere, Finish, StopArrives, conversationChanged
  <2> QED
    BY <1>0, <2>1, <2>2
<1>3. ASSUME NEW r \in Runs, StartRun(r) \/ StartRunResumes(r)
      PROVE  WindowTypeOK'
  BY <1>0, <1>3, SomeTypes DEF StartRun, StartRunResumes, Released, NotSending, NoAttach,
                               SlotTypeOK, hintVars
<1>4. CASE Stop
  BY <1>0, <1>4 DEF Stop, Released, NoAttach, hintVars
<1>5. ASSUME NEW r \in Runs, Reads(r) \/ Fails(r)
      PROVE  WindowTypeOK'
  <2>1. UNCHANGED <<sending, load, socket, hint, faults>>
    BY <1>5 DEF Reads, Fails, LoopStep, hintVars
  <2>2. UNCHANGED attach \/ Settled(r, "complete") \/ Settled(r, "error")
    BY <1>5 DEF Reads, Fails
  <2> QED
    BY <1>0, <2>1, <2>2, SettledTypes
<1>6. CASE ActiveRead
  BY <1>0, <1>6 DEF ActiveRead, DaemonTypeOK, NoAttach, hintVars
<1>7. CASE AttachResumes
  BY <1>0, <1>7 DEF AttachResumes, NoAttach, hintVars
<1>8. CASE HintFires
  <2>1. /\ UNCHANGED <<sending, socket, faults>> /\ hint' = FALSE
        /\ load' = load \/ load' = [phase |-> "asked", over |-> {}]
        /\ attach' = attach \/ attach' = [attach EXCEPT !.phase = "asking"]
    BY <1>8 DEF HintFires
  <2>2. hint' \in BOOLEAN /\ socket' \in BOOLEAN
    BY <1>0, <2>1
  <2> QED
    BY <1>0, <2>1, <2>2
<1>9. CASE LoadStep
  <2>1. /\ UNCHANGED <<sending, attach, socket, hint, faults>>
        /\ load' = [phase |-> "read", over |-> Over] \/ load' = NoLoad
    BY <1>9 DEF LoadStep, LoadArrives, LoadEnds, slotVars
  <2> QED
    BY <1>0, <2>1 DEF NoLoad, Over
<1>10. ASSUME NEW r \in Runs, LoseStream(r)
       PROVE  WindowTypeOK'
  BY <1>0, <1>10 DEF LoseStream, Fault, hintVars
<1>11. CASE LoseSocket \/ SocketOpens
  <2>1. UNCHANGED <<sending, attach, load>> /\ faults' \in 0 .. MaxFaults
    BY <1>0, <1>11 DEF LoseSocket, SocketOpens, Fault, slotVars
  <2>2. hint' \in BOOLEAN /\ socket' \in BOOLEAN
    BY <1>0, <1>11 DEF LoseSocket, SocketOpens
  <2> QED
    BY <1>0, <2>1, <2>2
<1>12. CASE Reload
  <2>1. /\ sending' = NotSending /\ attach' = [NoAttach EXCEPT !.phase = "asking"]
        /\ load' = [phase |-> "asked", over |-> {}] /\ faults' \in 0 .. MaxFaults
    BY <1>0, <1>12 DEF Reload, Fault
  <2>2. hint' \in BOOLEAN /\ socket' \in BOOLEAN
    BY <1>12 DEF Reload
  <2> QED
    BY <2>1, <2>2 DEF NotSending, NoAttach
<1>13. ASSUME \/ UNCHANGED vars
              \/ \E r \in Runs : PostDropped(r) \/ Emit(r) \/ ObserveArrives(r)
       PROVE  Same
  BY <1>13 DEF vars, PostDropped, Emit, ObserveArrives, slotVars, hintVars
<1> QED
  BY <1>1, <1>2, <1>3, <1>4, <1>5, <1>6, <1>7, <1>8, <1>9, <1>10, <1>11, <1>12, <1>13
  DEF Next, PostEnds, LoopSteps, AttachStep

\* What the window was told stays true of the daemon.
LEMMA ToldStep ==
  ASSUME TypeOK, RunsOK, SendingOK, AttachOK, LoadOK, [Next]_vars
  PROVE  AttachOK' /\ LoadOK'
<1>0. DaemonTypeOK /\ SlotTypeOK /\ WindowTypeOK /\ DaemonTypeOK' /\ Grows
  BY TypeParts, DaemonTypeStep, RunsStep
<1>1. ASSUME attach' = attach \/ attach'.phase # "read"
      PROVE  AttachOK'
  BY <1>0, <1>1, BoundsAssumption DEF AttachOK, Grows, DaemonTypeOK, WindowTypeOK
<1>2. ASSUME load' = load \/ load'.over \subseteq Over'
      PROVE  LoadOK'
  BY <1>0, <1>2 DEF LoadOK, Grows
<1>3. CASE ActiveRead
  <2>1. load' = load
    BY <1>3 DEF ActiveRead, hintVars
  <2>2. AttachOK'
    BY <1>0, <1>3, BoundsAssumption
    DEF AttachOK, ActiveRead, NoAttach, DaemonTypeOK, daemonVars
  <2> QED
    BY <1>2, <2>1, <2>2
<1>4. CASE LoadArrives
  <2>1. load'.over = Over /\ attach' = attach
    BY <1>4 DEF LoadArrives, slotVars
  <2>2. Over \subseteq Over'
    BY <1>0 DEF Grows
  <2> QED
    BY <1>1, <1>2, <2>1, <2>2
<1>5. ASSUME NEW r \in Runs, Released(r) \/ UNCHANGED attach, UNCHANGED load
      PROVE  AttachOK' /\ LoadOK'
  BY <1>1, <1>2, <1>5 DEF Released, NoAttach
<1>6. ASSUME NEW r \in Runs, Reads(r) \/ Fails(r)
      PROVE  AttachOK' /\ LoadOK'
  BY <1>5, <1>6 DEF Reads, Fails, Settled, LoopStep, hintVars
<1>7. CASE Stop
  BY <1>0, <1>5, <1>7 DEF Stop, SlotTypeOK, hintVars
<1>8. ASSUME NEW r \in Runs, StartRunResumes(r)
      PROVE  AttachOK' /\ LoadOK'
  BY <1>1, <1>2, <1>8 DEF StartRunResumes, Released, NoAttach, hintVars
<1>9. CASE AttachResumes
  BY <1>0, <1>1, <1>2, <1>9 DEF AttachResumes, WindowTypeOK, NoAttach, hintVars
<1>10. CASE HintFires
  <2>1. attach' = attach \/ attach' = [attach EXCEPT !.phase = "asking"]
    BY <1>10 DEF HintFires
  <2>2. load' = load \/ load' = [phase |-> "asked", over |-> {}]
    BY <1>10 DEF HintFires
  <2>3. load' = load \/ load'.over \subseteq Over'
    BY <2>2
  <2> QED
    BY <1>0, <1>1, <1>2, <2>1, <2>3 DEF WindowTypeOK
<1>11. CASE LoadEnds
  BY <1>1, <1>2, <1>11 DEF LoadEnds, NoLoad
<1>12. CASE Reload
  BY <1>1, <1>2, <1>12 DEF Reload, NoAttach
<1>13. ASSUME \/ UNCHANGED vars \/ LoseSocket \/ SocketOpens
              \/ \E r \in Runs : \/ PostEnds(r) \/ StartedElsewhere(r) \/ Emit(r) \/ Finish(r)
                                 \/ StopArrives(r) \/ StartRun(r) \/ ObserveArrives(r)
                                 \/ LoseStream(r)
       PROVE  UNCHANGED <<attach, load>>
  BY <1>13 DEF vars, LoseSocket, SocketOpens, PostEnds, PostArrives, PostDropped,
               StartedElsewhere, Emit, Finish, StopArrives, StartRun, ObserveArrives,
               LoseStream, slotVars, hintVars
<1> QED
  BY <1>1, <1>2, <1>3, <1>4, <1>6, <1>7, <1>8, <1>9, <1>10, <1>11, <1>12, <1>13
  DEF Next, LoopSteps, AttachStep, LoadStep

\* A run that the window was told of ends, or is followed by another, only as the
\* overlap allows.
LEMMA ReadRunStep ==
  ASSUME TypeOK, AttachOK, ReadOK, [Next]_vars
  PROVE  ReadOK'
<1>0. attach.phase = "read" => attach.run \in Runs /\ attach.run # NoRun
  BY SomeTypes DEF AttachOK
<1>1. ASSUME attach'.phase # "read" \/ UNCHANGED <<attach, active>>
      PROVE  ReadOK'
  BY <1>1 DEF ReadOK
<1>2. ASSUME NEW r \in Runs, UNCHANGED attach, active = NoRun
      PROVE  ReadOK'
  BY <1>0, <1>2 DEF ReadOK
<1>3. ASSUME NEW r \in Runs, PostArrives(r) \/ StartedElsewhere(r)
      PROVE  ReadOK'
  <2>1. UNCHANGED attach /\ (active = NoRun \/ UNCHANGED active)
    BY <1>3 DEF PostArrives, StartedElsewhere, slotVars
  <2> QED
    BY <1>1, <1>2, <1>3, <2>1
<1>4. ASSUME NEW r \in Runs, Finish(r)
      PROVE  ReadOK'
  <2>1. /\ UNCHANGED attach /\ active = r
        /\ attach.phase = "read" /\ attach.run = r => "end before attach" \in Overlaps
    BY <1>4 DEF Finish
  <2> QED
    BY <2>1 DEF ReadOK
<1>5. CASE ActiveRead
  BY <1>5 DEF ActiveRead, ReadOK, NoAttach, daemonVars
<1>6. ASSUME NEW r \in Runs \cup {NoRun}, Released(r) \/ UNCHANGED attach, UNCHANGED active
      PROVE  ReadOK'
  BY <1>1, <1>6 DEF Released, NoAttach
<1>7. ASSUME NEW r \in Runs, Reads(r) \/ Fails(r)
      PROVE  ReadOK'
  BY <1>6, <1>7 DEF Reads, Fails, Settled, LoopStep, daemonVars
<1>8. ASSUME Stop \/ \E r \in Runs : StartRunResumes(r)
      PROVE  ReadOK'
  BY <1>6, <1>8 DEF Stop, StartRunResumes, TypeOK
<1>9. CASE AttachResumes
  <2>1. attach' = NoAttach \/ attach' = [attach EXCEPT !.phase = "looping"]
    BY <1>9 DEF AttachResumes
  <2>2. attach \in [phase : {"no", "asking", "read", "looping"},
                    run : Runs \cup {NoRun}, number : 0 .. MaxEvents + 1]
    BY DEF TypeOK
  <2>3. attach'.phase # "read"
    BY <2>1, <2>2 DEF NoAttach
  <2> QED
    BY <1>1, <2>3
<1>10. CASE HintFires
  <2>1. /\ UNCHANGED active
        /\ attach' = attach \/ attach' = [attach EXCEPT !.phase = "asking"]
    BY <1>10 DEF HintFires, daemonVars
  <2>2. attach'.phase # "read" \/ UNCHANGED <<attach, active>>
    BY <2>1 DEF TypeOK
  <2> QED
    BY <1>1, <2>2
<1>11. CASE Reload
  <2>1. attach'.phase = "asking"
    BY <1>11 DEF Reload, NoAttach
  <2> QED
    BY <1>1, <2>1
<1>12. ASSUME \/ UNCHANGED vars \/ LoseSocket \/ SocketOpens \/ LoadStep
              \/ \E r \in Runs : \/ PostDropped(r) \/ Emit(r) \/ StopArrives(r) \/ StartRun(r)
                                 \/ ObserveArrives(r) \/ LoseStream(r)
       PROVE  UNCHANGED <<attach, active>>
  BY <1>12 DEF vars, LoseSocket, SocketOpens, LoadStep, LoadArrives, LoadEnds, PostDropped,
               Emit, StopArrives, StartRun, ObserveArrives, LoseStream, slotVars, daemonVars
<1> QED
  BY <1>1, <1>3, <1>4, <1>5, <1>7, <1>8, <1>9, <1>10, <1>11, <1>12
  DEF Next, PostEnds, LoopSteps, AttachStep

\* What RunStarted makes of the loops and of what is shown.
LEMMA StartedLoops ==
  ASSUME SlotTypeOK, LoopOK, LastIsTrue, NEW r \in Runs, NEW parts \in Seq(Nat),
         NEW phase \in {"posting", "asking"}, RunStarted(r, parts, phase)
  PROVE  /\ slot' = r
         /\ loop' = [s \in Runs |-> IF s = r THEN [phase |-> phase, queue |-> <<>>] ELSE NoLoop]
         /\ view'[r] = [status |-> "streaming", parts |-> parts]
         /\ \A s \in Runs \ {r} : /\ view'[s].parts = view[s].parts
                                  /\ view'[s].status # "streaming"
                                  /\ view'[s].status \in {view[s].status, "cancelled"}
<1> USE SomeTypes DEF SlotTypeOK
<1>1. Detached = [s \in Runs |-> NoLoop]
  <2>1. ASSUME NEW s \in Runs, loop[s].phase = "none"
        PROVE  loop[s] = NoLoop
    BY <2>1 DEF LoopOK, NoLoop, Loop
  <2>2. ASSUME NEW s \in Runs
        PROVE  Detached[s] = NoLoop
    BY <2>1 DEF Detached, LoopOK
  <2>3. Detached \in [Runs -> Loop]
    BY DEF Detached
  <2> QED
    BY <2>2, <2>3
<1>2. loop' = [s \in Runs |-> IF s = r THEN [phase |-> phase, queue |-> <<>>] ELSE NoLoop]
  <2>1. loop' = [Detached EXCEPT ![r].phase = phase]
    BY DEF RunStarted
  <2> QED
    BY <1>1, <2>1 DEF NoLoop
<1>3. MarkedCancelled \in [Runs -> View]
  BY DEF MarkedCancelled, View
<1>4. ASSUME NEW s \in Runs
      PROVE  /\ MarkedCancelled[s].parts = view[s].parts
             /\ MarkedCancelled[s].status # "streaming"
             /\ MarkedCancelled[s].status \in {view[s].status, "cancelled"}
  BY DEF MarkedCancelled, LastIsTrue, View
<1> QED
  BY <1>2, <1>3, <1>4 DEF RunStarted

-----------------------------------------------------------------------------
(* Loops and what is shown.                                                *)

\* All but Emit and Finish leave the runs that were started as they are.
Quiet == emitted' = emitted /\ \A r \in Runs : /\ state'[r] = "over" <=> state[r] = "over"
                                               /\ state[r] = "active" => state'[r] = "active"

\* A loop goes on as it was, or is at its beginning or its end.
LoopKept(r)  == /\ loop'[r] = loop[r]
                /\ loop[r].phase # "none" => slot' = r /\ view'[r].parts = view[r].parts
LoopFresh(r) == /\ loop'[r].phase # "open" /\ loop'[r].queue = <<>>
                /\ loop'[r].phase # "none" => slot' = r

LEMMA LoopsKept ==
  ASSUME LoopOK, QueuesOK, Quiet, \A r \in Runs : LoopKept(r) \/ LoopFresh(r)
  PROVE  LoopOK' /\ QueuesOK'
<1>1. ASSUME NEW r \in Runs
      PROVE  /\ loop'[r].phase # "none" => slot' = r
             /\ loop'[r].phase # "open" => loop'[r].queue = <<>>
             /\ loop'[r].phase = "open" => state'[r] \in {"active", "over"}
  BY <1>1 DEF LoopOK, Quiet, LoopKept, LoopFresh
<1>2. ASSUME NEW r \in Runs, loop'[r].phase = "open"
      PROVE  Continues(loop'[r].queue, Len(view'[r].parts), emitted'[r], state'[r] = "over")
  <2>1. loop'[r] = loop[r] /\ view'[r].parts = view[r].parts
    BY <1>2 DEF LoopKept, LoopFresh
  <2>2. Continues(loop[r].queue, Len(view[r].parts), emitted[r], state[r] = "over")
    BY <1>2, <2>1 DEF QueuesOK
  <2>3. emitted'[r] = emitted[r] /\ (state'[r] = "over" <=> state[r] = "over")
    BY DEF Quiet
  <2>4. CASE state[r] = "over"
    <3>1. (state'[r] = "over") = TRUE /\ (state[r] = "over") = TRUE
      BY <2>3, <2>4
    <3> QED
      BY <2>1, <2>2, <2>3, <3>1
  <2>5. CASE state[r] # "over"
    <3>1. (state'[r] = "over") = FALSE /\ (state[r] = "over") = FALSE
      BY <2>3, <2>5
    <3> QED
      BY <2>1, <2>2, <2>3, <3>1
  <2> QED
    BY <2>4, <2>5
<1> QED
  BY <1>1, <1>2 DEF LoopOK, QueuesOK

LEMMA ViewsKept ==
  ASSUME TypeOK, LastIsTrue, Grows, UNCHANGED <<slot, view>>, DaemonTypeOK'
  PROVE  LastIsTrue'
<1>0. DaemonTypeOK /\ SlotTypeOK
  BY TypeParts
<1>1. ASSUME NEW r \in Runs
      PROVE  /\ emitted[r] \in Nat /\ emitted'[r] \in Nat /\ Len(view[r].parts) \in Nat
             /\ emitted[r] <= emitted'[r]
             /\ r \in Over => r \in Over' /\ emitted'[r] = emitted[r]
  BY <1>0, BoundsAssumption DEF DaemonTypeOK, SlotTypeOK, View, Grows
<1> QED
  BY <1>1 DEF LastIsTrue

LEMMA QuietStep ==
  ASSUME TypeOK, RunsOK, SendingOK, Next, \A r \in Runs : ~ Emit(r) /\ ~ Finish(r)
  PROVE  Quiet
<1>0. DaemonTypeOK /\ SlotTypeOK /\ WindowTypeOK
  BY TypeParts
<1> USE <1>0 DEF DaemonTypeOK, Quiet, RunsOK
<1>1. ASSUME NEW r \in Runs,
             PostEnds(r) \/ StartedElsewhere(r) \/ StartRun(r)
      PROVE  Quiet
  BY <1>1 DEF PostEnds, PostArrives, PostDropped, StartedElsewhere, StartRun, IsNext
<1>2. ASSUME NEW r \in Runs, StartRunResumes(r)
      PROVE  Quiet
  BY <1>2, SomeTypes DEF StartRunResumes, SendingOK
<1>3. CASE Reload
  BY <1>3, SomeTypes DEF Reload, SendingOK
<1>4. ASSUME \/ Stop \/ AttachStep \/ HintFires \/ LoadStep \/ LoseSocket \/ SocketOpens
             \/ \E r \in Runs : \/ StopArrives(r) \/ Reads(r) \/ Fails(r)
                                \/ ObserveArrives(r) \/ LoseStream(r)
      PROVE  Quiet
  <2>1. UNCHANGED <<emitted, state>>
    BY <1>4 DEF Stop, AttachStep, ActiveRead, AttachResumes, HintFires, LoadStep, LoadArrives,
                LoadEnds, LoseSocket, SocketOpens, StopArrives, Reads, Fails, ObserveArrives,
                LoseStream, LoopStep, daemonVars
  <2> QED
    BY <2>1
<1> QED
  BY <1>1, <1>2, <1>3, <1>4 DEF Next, LoopSteps

\* An observer joins, or the stream of a loop is refused or lost.
LEMMA ObserverStep ==
  ASSUME IInv, Quiet, UNCHANGED <<slot, view, emitted>>, NEW r \in Runs, loop[r].phase # "none",
         \/ loop' = Observed(r) /\ state'[r] = "active"
         \/ loop' = [loop EXCEPT ![r].phase = "failed"] /\ loop[r].phase # "open"
         \/ loop' = [loop EXCEPT ![r].phase = "failed", ![r].queue = <<>>]
  PROVE  LoopOK' /\ QueuesOK'
<1>0. DaemonTypeOK /\ SlotTypeOK /\ LoopOK /\ QueuesOK /\ slot = r
  BY TypeParts DEF IInv, LoopOK
<1>1. ASSUME NEW s \in Runs, s # r
      PROVE  LoopKept(s)
  BY <1>0, <1>1 DEF LoopKept, LoopOK, Observed, SlotTypeOK
<1>2. CASE loop' = Observed(r) /\ state'[r] = "active"
  <2>1. loop'[r].phase = "open" /\ loop'[r].queue = <<Snapshot(emitted[r])>>
    BY <1>0, <1>2 DEF Observed, SlotTypeOK, Loop
  <2>2. Continues(<<Snapshot(emitted[r])>>, Len(view[r].parts), emitted[r], FALSE)
    <3>1. emitted[r] \in Nat /\ Len(view[r].parts) \in Nat
      BY <1>0, BoundsAssumption DEF DaemonTypeOK, SlotTypeOK, View
    <3> QED
      BY <3>1, SnapshotContinues
  <2>3. (state'[r] = "over") = FALSE
    BY <1>2
  <2>4. Continues(loop'[r].queue, Len(view'[r].parts), emitted'[r], state'[r] = "over")
    BY <2>1, <2>2, <2>3
  <2>5. ASSUME NEW s \in Runs, s # r, loop'[s].phase = "open"
        PROVE  FALSE
    BY <1>0, <1>1, <2>5 DEF LoopKept, LoopOK
  <2>6. QueuesOK'
    BY <2>4, <2>5 DEF QueuesOK
  <2>7. LoopOK'
    BY <1>0, <1>1, <1>2, <2>1 DEF LoopKept, LoopOK
  <2> QED
    BY <2>6, <2>7
<1>3. CASE \/ loop' = [loop EXCEPT ![r].phase = "failed"] /\ loop[r].phase # "open"
           \/ loop' = [loop EXCEPT ![r].phase = "failed", ![r].queue = <<>>]
  <2>1. LoopFresh(r)
    BY <1>0, <1>3 DEF LoopFresh, LoopOK, SlotTypeOK, Loop
  <2> QED
    BY <1>0, <1>1, <2>1, LoopsKept
<1> QED
  BY <1>2, <1>3

\* The last message of a queue whose run has not ended, and of one that ends.
LEMMA EmitStep ==
  ASSUME IInv, NEW r \in Runs, Emit(r) \/ Finish(r), DaemonTypeOK'
  PROVE  LoopOK' /\ QueuesOK'
<1>0. DaemonTypeOK /\ SlotTypeOK /\ LoopOK /\ QueuesOK /\ RunsOK
  BY TypeParts DEF IInv
<1> DEFINE q == loop[r].queue
           n == Len(view[r].parts)
           e == emitted[r]
<1>1. q \in Seq(Message) /\ n \in Nat /\ e \in Nat
  <2>1. loop[r] \in Loop /\ view[r] \in View /\ emitted[r] \in 0..MaxEvents + 1
    BY <1>0 DEF DaemonTypeOK, SlotTypeOK
  <2>2. q \in Seq(Message)
    BY <2>1 DEF Loop
  <2>3. n \in Nat
    BY <2>1 DEF View
  <2>4. e \in Nat
    BY <2>1, BoundsAssumption
  <2> QED
    BY <2>2, <2>3, <2>4
<1>2. /\ UNCHANGED <<slot, view>> /\ emitted' = [emitted EXCEPT ![r] = @ + 1]
      /\ state[r] = "active"
      /\ \/ state' = state /\ loop' = Enqueued(r, <<Event(e + 1)>>)
         \/ state' = [state EXCEPT ![r] = "over"] /\ loop' = Enqueued(r, <<Event(e + 1), Done>>)
  <2>1. CASE Emit(r)
    BY <1>0, <2>1 DEF Emit, RunsOK
  <2>2. CASE Finish(r)
    BY <1>0, <2>2 DEF Finish, RunsOK
  <2> QED
    BY <2>1, <2>2
<1>3. ASSUME NEW s \in Runs, s # r
      PROVE  /\ loop'[s] = loop[s] /\ view'[s] = view[s] /\ emitted'[s] = emitted[s]
             /\ state'[s] = state[s]
  BY <1>0, <1>2, <1>3 DEF Enqueued, SlotTypeOK, DaemonTypeOK
<1>4. loop'[r].phase = loop[r].phase /\ (loop[r].phase # "open" => loop'[r] = loop[r])
  BY <1>0, <1>2 DEF Enqueued, SlotTypeOK, Loop
<1>5. LoopOK'
  <2>1. state'[r] \in {"active", "over"}
    BY <1>0, <1>2 DEF DaemonTypeOK
  <2> QED
    BY <1>0, <1>2, <1>3, <1>4, <2>1 DEF LoopOK
<1>6. ASSUME loop[r].phase = "open"
      PROVE  Continues(loop'[r].queue, n, e + 1, state'[r] = "over")
  <2>1. Continues(q, n, e, FALSE)
    <3>1. (state[r] = "over") = FALSE
      BY <1>2
    <3>2. Continues(q, n, e, state[r] = "over")
      BY <1>0, <1>6 DEF QueuesOK
    <3> QED
      BY <3>1, <3>2
  <2>2. CASE state' = state /\ loop' = Enqueued(r, <<Event(e + 1)>>)
    <3>1. loop'[r].queue = q \o <<Event(e + 1)>>
      BY <1>0, <1>6, <2>2 DEF Enqueued, SlotTypeOK, Loop
    <3>2. (state'[r] = "over") = FALSE
      BY <1>2, <2>2
    <3>3. Continues(q \o <<Event(e + 1)>>, n, e + 1, FALSE)
      BY <1>1, <2>1, EventContinues
    <3> QED
      BY <3>1, <3>2, <3>3
  <2>3. CASE state' = [state EXCEPT ![r] = "over"] /\ loop' = Enqueued(r, <<Event(e + 1), Done>>)
    <3>1. loop'[r].queue = q \o <<Event(e + 1), Done>>
      BY <1>0, <1>6, <2>3 DEF Enqueued, SlotTypeOK, Loop
    <3>2. (state'[r] = "over") = TRUE
      BY <1>0, <2>3 DEF DaemonTypeOK
    <3>3. Continues(q \o <<Event(e + 1), Done>>, n, e + 1, TRUE)
      BY <1>1, <2>1, DoneContinues
    <3> QED
      BY <3>1, <3>2, <3>3
  <2> QED
    BY <1>2, <2>2, <2>3
<1>7. QueuesOK'
  <2>1. emitted'[r] = e + 1 /\ view'[r] = view[r]
    BY <1>0, <1>2 DEF DaemonTypeOK
  <2>2. ASSUME NEW s \in Runs, loop'[s].phase = "open"
        PROVE  Continues(loop'[s].queue, Len(view'[s].parts), emitted'[s], state'[s] = "over")
    <3>1. CASE s = r
      BY <1>4, <1>6, <2>1, <2>2, <3>1
    <3>2. CASE s # r
      BY <1>0, <1>3, <2>2, <3>2 DEF QueuesOK
    <3> QED
      BY <3>1, <3>2
  <2> QED
    BY <2>2 DEF QueuesOK
<1> QED
  BY <1>5, <1>7

\* A loop reads a snapshot or an event.
LEMMA ReadStep ==
  ASSUME IInv, NEW r \in Runs, Reads(r), Head(loop[r].queue) # Done
  PROVE  LoopOK' /\ QueuesOK' /\ LastIsTrue'
<1>0. DaemonTypeOK /\ SlotTypeOK /\ LoopOK /\ QueuesOK /\ LastIsTrue
  BY TypeParts DEF IInv
<1> DEFINE q == loop[r].queue
           e == emitted[r]
           n == Len(view[r].parts)
           over == state[r] = "over"
<1>1. q \in Seq(Message) /\ n \in Nat /\ e \in Nat /\ q # <<>>
  BY <1>0, BoundsAssumption DEF DaemonTypeOK, SlotTypeOK, Loop, View, Reads
<1>2. loop[r].phase = "open" /\ slot = r
  BY <1>0, <1>1 DEF LoopOK
<1>3. view[r].parts = Upto(n) /\ n <= e
  BY <1>0 DEF LastIsTrue
<1>4. PICK m \in Nat : /\ m <= e
                       /\ Accumulated(Upto(n), Head(q)) = Upto(m)
                       /\ Continues(Tail(q), m, e, over)
  <2>1. Continues(q, n, e, over)
    BY <1>0, <1>2 DEF QueuesOK
  <2>2. over \in BOOLEAN
    OBVIOUS
  <2> HIDE DEF over
  <2> QED
    BY <1>1, <1>3, <2>1, <2>2, ReadContinues
<1>5. /\ UNCHANGED <<slot, emitted, state>>
      /\ view' = [view EXCEPT ![r].parts = Upto(m)]
      /\ loop' = [loop EXCEPT ![r].queue = Tail(@)]
  BY <1>0, <1>3, <1>4 DEF Reads, LoopStep, daemonVars, SlotTypeOK, View
<1>6. /\ view'[r].parts = Upto(m) /\ view'[r].status = view[r].status
      /\ Len(view'[r].parts) = m
      /\ \A s \in Runs \ {r} : view'[s] = view[s] /\ loop'[s] = loop[s]
      /\ loop'[r].phase = "open" /\ loop'[r].queue = Tail(q)
  BY <1>0, <1>2, <1>5, UptoIsSeq DEF SlotTypeOK, View, Loop
<1>7. LoopOK'
  BY <1>0, <1>2, <1>5, <1>6 DEF LoopOK
<1>8. QueuesOK'
  <2>1. ASSUME NEW s \in Runs, loop'[s].phase = "open"
        PROVE  s = r
    BY <1>0, <1>2, <1>6, <2>1 DEF LoopOK
  <2>2. Continues(loop'[r].queue, Len(view'[r].parts), emitted'[r], state'[r] = "over")
    BY <1>4, <1>5, <1>6
  <2> QED
    BY <2>1, <2>2 DEF QueuesOK
<1>9. LastIsTrue'
  <2>1. view[r].status = "streaming"
    BY <1>0, <1>2 DEF LastIsTrue
  <2> QED
    BY <1>0, <1>4, <1>5, <1>6, <2>1 DEF LastIsTrue, Over
<1> QED
  BY <1>7, <1>8, <1>9

\* The slot starts to follow a run, at parts that are not ahead of the daemon.
LEMMA StartedStep ==
  ASSUME IInv, Quiet, NEW r \in Runs, NEW k \in Nat, k <= emitted[r],
         NEW phase \in {"posting", "asking"}, RunStarted(r, Upto(k), phase)
  PROVE  LoopOK' /\ QueuesOK' /\ LastIsTrue'
<1>0. DaemonTypeOK /\ SlotTypeOK /\ LoopOK /\ QueuesOK /\ LastIsTrue
  BY TypeParts DEF IInv
<1>1. Upto(k) \in Seq(Nat) /\ Len(Upto(k)) = k
  BY UptoIsSeq
<1>2. /\ slot' = r
      /\ loop' = [s \in Runs |-> IF s = r THEN [phase |-> phase, queue |-> <<>>] ELSE NoLoop]
      /\ view'[r] = [status |-> "streaming", parts |-> Upto(k)]
      /\ \A s \in Runs \ {r} : /\ view'[s].parts = view[s].parts
                               /\ view'[s].status # "streaming"
                               /\ view'[s].status \in {view[s].status, "cancelled"}
  BY <1>0, <1>1, StartedLoops
<1>3. \A s \in Runs : LoopFresh(s)
  BY <1>2 DEF LoopFresh, NoLoop
<1>4. LoopOK' /\ QueuesOK'
  BY <1>0, <1>3, LoopsKept
<1>5. LastIsTrue'
  BY <1>0, <1>1, <1>2 DEF LastIsTrue, Quiet, Over
<1> QED
  BY <1>4, <1>5

\* The slot stops to follow a run: it is stopped, or its loop has ended.
LEMMA LeftStep ==
  ASSUME IInv, Quiet, NEW r \in Runs, NEW status \in {"cancelled", "complete", "error"},
         IF slot = r THEN slot' = NoRun /\ view' = [view EXCEPT ![r].status = status]
                     ELSE UNCHANGED <<slot, view>>,
         loop' = [loop EXCEPT ![r] = NoLoop],
         status = "complete" /\ slot = r => r \in Over /\ Len(view[r].parts) = emitted[r]
  PROVE  LoopOK' /\ QueuesOK' /\ LastIsTrue'
<1>0. DaemonTypeOK /\ SlotTypeOK /\ LoopOK /\ QueuesOK /\ LastIsTrue
  BY TypeParts DEF IInv
<1>1. LoopFresh(r)
  BY <1>0 DEF LoopFresh, NoLoop, SlotTypeOK
<1>2. \A s \in Runs \ {r} : LoopKept(s)
  BY <1>0 DEF LoopKept, LoopOK, SlotTypeOK
<1>3. LoopOK' /\ QueuesOK'
  BY <1>0, <1>1, <1>2, LoopsKept
<1>4. /\ \A s \in Runs \ {r} : view'[s] = view[s]
      /\ view'[r].parts = view[r].parts
      /\ IF slot = r THEN view'[r].status = status ELSE view'[r].status = view[r].status
  BY <1>0 DEF SlotTypeOK, View
<1>5. LastIsTrue'
  BY <1>0, <1>4, SomeTypes DEF LastIsTrue, Quiet, Over
<1> QED
  BY <1>3, <1>5

LEMMA ViewStep ==
  ASSUME IInv, [Next]_vars, DaemonTypeOK', Grows
  PROVE  LoopOK' /\ QueuesOK' /\ LastIsTrue'
<1>0. /\ DaemonTypeOK /\ SlotTypeOK /\ WindowTypeOK
      /\ TypeOK /\ RunsOK /\ SendingOK /\ LoopOK /\ QueuesOK /\ LastIsTrue
  BY TypeParts DEF IInv
<1> DEFINE Kept == LoopOK' /\ QueuesOK' /\ LastIsTrue'
<1>1. ASSUME Quiet, UNCHANGED <<slot, view, loop>>
      PROVE  Kept
  BY <1>0, <1>1, LoopsKept, ViewsKept DEF LoopKept, LoopOK
<1>2. CASE UNCHANGED vars
  BY <1>1, <1>2 DEF vars, daemonVars, slotVars, Quiet
<1>3. ASSUME NEW r \in Runs, Emit(r) \/ Finish(r)
      PROVE  Kept
  <2>1. UNCHANGED <<slot, view>>
    BY <1>3 DEF Emit, Finish
  <2> QED
    BY <1>0, <1>3, <2>1, EmitStep, ViewsKept
<1>4. ASSUME Next, \A r \in Runs : ~ Emit(r) /\ ~ Finish(r)
      PROVE  Quiet
  BY <1>0, <1>4, QuietStep
<1>5. ASSUME Quiet, NEW r \in Runs,
             PostArrives(r) \/ ObserveArrives(r) \/ LoseStream(r)
      PROVE  Kept
  <2>1. UNCHANGED <<slot, view, emitted>>
    BY <1>5 DEF PostArrives, ObserveArrives, LoseStream, daemonVars
  <2>2. \/ UNCHANGED loop
        \/ /\ loop[r].phase # "none"
           /\ \/ loop' = Observed(r) /\ state'[r] = "active"
              \/ loop' = [loop EXCEPT ![r].phase = "failed"] /\ loop[r].phase # "open"
              \/ loop' = [loop EXCEPT ![r].phase = "failed", ![r].queue = <<>>]
    BY <1>0, <1>5 DEF PostArrives, ObserveArrives, LoseStream, daemonVars, DaemonTypeOK, RunsOK
  <2> QED
    BY <1>0, <1>1, <1>5, <2>1, <2>2, ObserverStep, ViewsKept
<1>6. ASSUME Quiet, NEW r \in Runs, StartRun(r) \/ StartRunResumes(r)
      PROVE  Kept
  <2>1. Upto(0) = <<>>
    BY DEF Upto
  <2>2. RunStarted(r, Upto(0), "posting") \/ UNCHANGED <<slot, view, loop>>
    BY <1>6, <2>1 DEF StartRun, StartRunResumes
  <2>3. 0 <= emitted[r]
    BY <1>0, BoundsAssumption DEF DaemonTypeOK
  <2> QED
    BY <1>1, <1>6, <2>2, <2>3, StartedStep
<1>7. ASSUME Quiet, AttachResumes
      PROVE  Kept
  <2>1. attach.run \in Runs /\ attach.number \in Nat /\ attach.number <= emitted[attach.run]
    BY <1>0, <1>7 DEF IInv, AttachOK, AttachResumes, WindowTypeOK
  <2>2. \/ RunStarted(attach.run, Upto(attach.number), "asking")
        \/ UNCHANGED <<slot, view, loop>>
    BY <1>7 DEF AttachResumes
  <2> QED
    BY <1>1, <1>7, <2>1, <2>2, StartedStep
<1>8. ASSUME Quiet, Stop
      PROVE  Kept
  <2>1. /\ slot \in Runs /\ slot' = NoRun
        /\ view' = [view EXCEPT ![slot].status = "cancelled"]
        /\ loop' = [loop EXCEPT ![slot] = NoLoop]
    BY <1>0, <1>8 DEF Stop, MarkedCancelled, Detached, SlotTypeOK
  <2> QED
    BY <1>8, <2>1, LeftStep
<1>9. ASSUME Quiet, NEW r \in Runs, Fails(r)
      PROVE  Kept
  BY <1>9, LeftStep DEF Fails, Settled
<1>10. ASSUME Quiet, NEW r \in Runs, Reads(r)
       PROVE  Kept
  <2>1. CASE Head(loop[r].queue) # Done
    BY <1>10, <2>1, ReadStep
  <2>2. CASE Head(loop[r].queue) = Done
    <3> DEFINE over == state[r] = "over"
    <3>1. /\ loop[r].queue # <<>> /\ loop[r].queue \in Seq(Message) /\ loop[r].phase = "open"
          /\ emitted[r] \in Nat /\ Len(view[r].parts) \in Nat
      BY <1>0, <1>10, BoundsAssumption
      DEF Reads, LoopOK, DaemonTypeOK, SlotTypeOK, Loop, View
    <3>2. Continues(loop[r].queue, Len(view[r].parts), emitted[r], over) /\ over \in BOOLEAN
      BY <1>0, <3>1 DEF QueuesOK
    <3>3. over /\ Len(view[r].parts) = emitted[r]
      <4> HIDE DEF over
      <4> QED
        BY <2>2, <3>1, <3>2, DoneIsLast
    <3>4. Settled(r, "complete")
      BY <1>10, <2>2 DEF Reads
    <3> QED
      BY <1>10, <3>3, <3>4, LeftStep DEF Settled, Over
  <2> QED
    BY <2>1, <2>2
<1>11. ASSUME Quiet, LoadEnds
       PROVE  Kept
  <2>1. CASE slot # NoRun
    BY <1>1, <1>11, <2>1 DEF LoadEnds
  <2>2. CASE slot = NoRun
    <3>1. \A r \in Runs : loop[r].phase = "none"
      BY <1>0, <2>2, SomeTypes DEF LoopOK
    <3>2. UNCHANGED <<slot, loop>>
      BY <1>11 DEF LoadEnds
    <3>3. \A r \in Runs : LoopKept(r)
      BY <3>1, <3>2 DEF LoopKept
    <3>4. \A r \in Runs : emitted[r] \in Nat
      BY <1>0, BoundsAssumption DEF DaemonTypeOK
    <3>5. ASSUME NEW r \in Runs
          PROVE  /\ (view'[r] = Whole(r) /\ r \in Over) \/ view'[r] = Absent
                 /\ emitted'[r] = emitted[r] /\ (r \in Over => r \in Over')
      BY <1>0, <1>11, <2>2 DEF LoadEnds, IInv, LoadOK, Quiet, Over
    <3>6. ASSUME NEW r \in Runs
          PROVE  /\ view'[r].parts = Upto(Len(view'[r].parts))
                 /\ Len(view'[r].parts) <= emitted'[r]
                 /\ view'[r].status = "complete" => r \in Over' /\ Len(view'[r].parts) = emitted'[r]
                 /\ view'[r].status # "streaming"
      <4>1. CASE view'[r] = Whole(r) /\ r \in Over
        BY <3>4, <3>5, <4>1, UptoIsSeq DEF Whole
      <4>2. CASE view'[r] = Absent
        <5>1. Upto(0) = <<>> /\ Len(<<>>) = 0
          BY DEF Upto
        <5> QED
          BY <3>4, <3>5, <4>2, <5>1 DEF Absent
      <4> QED
        BY <3>5, <4>1, <4>2
    <3>7. LastIsTrue'
      BY <2>2, <3>2, <3>6, SomeTypes DEF LastIsTrue
    <3> QED
      BY <1>0, <1>11, <3>3, <3>7, LoopsKept
  <2> QED
    BY <2>1, <2>2
<1>12. ASSUME Quiet, Reload
       PROVE  Kept
  <2>1. \A r \in Runs : LoopFresh(r)
    BY <1>12 DEF Reload, LoopFresh, NoLoop
  <2>2. ASSUME NEW r \in Runs
        PROVE  /\ view'[r].parts = Upto(Len(view'[r].parts))
               /\ Len(view'[r].parts) <= emitted'[r]
               /\ view'[r].status = "absent" /\ slot' # r
    <3>1. Upto(0) = <<>> /\ Len(<<>>) = 0
      BY DEF Upto
    <3>2. 0 <= emitted'[r]
      BY <1>0, <1>12, BoundsAssumption DEF Quiet, DaemonTypeOK
    <3> QED
      BY <1>12, <3>1, <3>2, SomeTypes DEF Reload, Absent
  <2>3. LastIsTrue'
    BY <2>2 DEF LastIsTrue
  <2> QED
    BY <1>0, <1>12, <2>1, <2>3, LoopsKept
<1>13. ASSUME \/ ActiveRead \/ HintFires \/ LoadArrives \/ LoseSocket \/ SocketOpens
              \/ \E r \in Runs : PostDropped(r) \/ StartedElsewhere(r) \/ StopArrives(r)
       PROVE  UNCHANGED <<slot, view, loop>>
  BY <1>13 DEF ActiveRead, HintFires, LoadArrives, LoseSocket, SocketOpens, PostDropped,
               StartedElsewhere, StopArrives, slotVars
<1> QED
  <2>1. CASE Next /\ \A r \in Runs : ~ Emit(r) /\ ~ Finish(r)
    <3>1. Quiet
      BY <1>4, <2>1
    <3> QED
      BY <1>1, <1>5, <1>6, <1>7, <1>8, <1>9, <1>10, <1>11, <1>12, <1>13, <2>1, <3>1
      DEF Next, PostEnds, LoopSteps, AttachStep, LoadStep
  <2> QED
    BY <1>2, <1>3, <2>1

-----------------------------------------------------------------------------
(* What is shown of a run besides its last answer.                         *)

LEMMA EarlierKept ==
  ASSUME EarlierTypeOK, RepeatsAreCutOff, UNCHANGED earlier \/ earlier' = [r \in Runs |-> {}]
  PROVE  EarlierTypeOK' /\ RepeatsAreCutOff'
BY DEF EarlierTypeOK, RepeatsAreCutOff

\* A run that is not over leaves no finished answer when the slot follows it again.
LEMMA EarlierStarted ==
  ASSUME SlotTypeOK, EarlierTypeOK, LastIsTrue, RepeatsAreCutOff,
         NEW r \in Runs, NEW parts, NEW phase, RunStarted(r, parts, phase),
         r \notin Over \/ "end before attach" \in Overlaps
  PROVE  EarlierTypeOK' /\ RepeatsAreCutOff'
<1> DEFINE shown == MarkedCancelled[r]
           mark == IF shown.status = "complete" THEN "complete" ELSE "cut off"
<1>1. shown.status = "complete" => view[r].status = "complete"
  BY DEF MarkedCancelled, SlotTypeOK, View
<1>2. mark = "complete" => "end before attach" \in Overlaps
  BY <1>1 DEF LastIsTrue
<1>3. UNCHANGED earlier \/ earlier' = [earlier EXCEPT ![r] = @ \cup {mark}]
  BY DEF RunStarted
<1>4. mark \in {"complete", "cut off"}
  OBVIOUS
<1> HIDE DEF mark
<1> QED
  BY <1>2, <1>3, <1>4 DEF EarlierTypeOK, RepeatsAreCutOff

LEMMA EarlierStep ==
  ASSUME IInv, [Next]_vars
  PROVE  EarlierTypeOK' /\ RepeatsAreCutOff'
<1>0. /\ SlotTypeOK /\ EarlierTypeOK
      /\ RunsOK /\ SendingOK /\ LastIsTrue /\ RepeatsAreCutOff
  BY TypeParts DEF IInv
<1> DEFINE Kept == EarlierTypeOK' /\ RepeatsAreCutOff'
<1>1. ASSUME UNCHANGED earlier
      PROVE  Kept
  BY <1>0, <1>1, EarlierKept
<1>2. ASSUME NEW r \in Runs, StartRun(r) \/ StartRunResumes(r)
      PROVE  Kept
  <2>1. RunStarted(r, <<>>, "posting") \/ UNCHANGED earlier
    BY <1>2 DEF StartRun, StartRunResumes
  <2>2. r \notin Over
    BY <1>0, <1>2, SomeTypes DEF StartRun, StartRunResumes, IsNext, SendingOK, Over
  <2> QED
    BY <1>0, <1>1, <2>1, <2>2, EarlierStarted
<1>3. CASE AttachResumes
  <2>1. /\ attach.phase = "read" /\ attach.run \in Runs
        /\ \/ RunStarted(attach.run, Upto(attach.number), "asking")
           \/ UNCHANGED earlier
    BY <1>3 DEF AttachResumes, IInv, AttachOK
  <2>2. attach.run \notin Over \/ "end before attach" \in Overlaps
    BY <1>0, <2>1 DEF IInv, ReadOK, RunsOK, Over
  <2> QED
    BY <1>0, <1>1, <2>1, <2>2, EarlierStarted
<1>4. CASE LoadEnds
  BY <1>0, <1>4, EarlierKept DEF LoadEnds
<1>5. CASE Reload
  BY <1>0, <1>5, EarlierKept DEF Reload
<1>6. ASSUME \/ UNCHANGED vars \/ Stop \/ ActiveRead \/ HintFires \/ LoadArrives
             \/ LoseSocket \/ SocketOpens
             \/ \E r \in Runs : \/ PostEnds(r) \/ StartedElsewhere(r) \/ Emit(r) \/ Finish(r)
                                \/ StopArrives(r) \/ Reads(r) \/ Fails(r)
                                \/ ObserveArrives(r) \/ LoseStream(r)
      PROVE  UNCHANGED earlier
  BY <1>6 DEF vars, Stop, ActiveRead, HintFires, LoadArrives, LoseSocket, SocketOpens,
              PostEnds, PostArrives, PostDropped, StartedElsewhere, Emit, Finish, StopArrives,
              Reads, Fails, ObserveArrives, LoseStream, LoopStep, slotVars
<1> QED
  BY <1>1, <1>2, <1>3, <1>4, <1>5, <1>6 DEF Next, LoopSteps, AttachStep, LoadStep

-----------------------------------------------------------------------------
LEMMA Initially == ASSUME Init PROVE IInv
<1>1. Upto(0) = <<>> /\ Len(<<>>) = 0 /\ <<>> \in Seq(Nat) /\ <<>> \in Seq(Message)
  BY DEF Upto
<1>2. TypeOK
  <2>1. DaemonTypeOK /\ SlotTypeOK
    BY SomeTypes, BoundsAssumption DEF Init, DaemonTypeOK, SlotTypeOK, RunState
  <2>2. /\ NotSending \in [run : Runs \cup {NoRun}, after : Runs \cup {NoRun}]
        /\ NoAttach \in [phase : {"no", "asking", "read", "looping"},
                         run : Runs \cup {NoRun}, number : 0 .. MaxEvents + 1]
        /\ NoLoad \in [phase : {"no", "asked", "read"}, over : SUBSET Runs]
        /\ faults = 0 => faults \in 0 .. MaxFaults
    BY BoundsAssumption DEF NotSending, NoAttach, NoLoad
  <2>3. WindowTypeOK
    BY <2>2 DEF Init, WindowTypeOK
  <2>4. EarlierTypeOK
    BY DEF Init, EarlierTypeOK
  <2> QED
    BY <2>1, <2>3, <2>4, TypeParts
<1>3. RunsOK /\ SendingOK /\ LoopOK /\ QueuesOK
  BY SomeTypes, BoundsAssumption
  DEF Init, RunsOK, SendingOK, LoopOK, QueuesOK, NoLoop, NotSending
<1>4. AttachOK /\ ReadOK /\ LoadOK
  BY DEF Init, AttachOK, ReadOK, LoadOK, NoAttach, NoLoad
<1>5. LastIsTrue /\ RepeatsAreCutOff
  BY <1>1, SomeTypes DEF Init, LastIsTrue, RepeatsAreCutOff, Absent
<1> QED
  BY <1>2, <1>3, <1>4, <1>5 DEF IInv

LEMMA Inductive == ASSUME IInv, [Next]_vars PROVE IInv'
<1>1. TypeOK /\ RunsOK /\ SendingOK /\ AttachOK /\ ReadOK /\ LoadOK
  BY DEF IInv
<1>2. /\ RunsOK' /\ SendingOK' /\ Grows /\ AttachOK' /\ ReadOK' /\ LoadOK'
      /\ DaemonTypeOK' /\ SlotTypeOK' /\ WindowTypeOK'
  BY <1>1, RunsStep, ToldStep, ReadRunStep, DaemonTypeStep, SlotTypeStep, WindowTypeStep
<1>3. LoopOK' /\ QueuesOK' /\ LastIsTrue'
  BY <1>2, ViewStep
<1>4. EarlierTypeOK' /\ RepeatsAreCutOff'
  BY <1>2, EarlierStep
<1>5. TypeOK'
  BY <1>2, <1>4 DEF TypeOK, DaemonTypeOK, SlotTypeOK, EarlierTypeOK, WindowTypeOK, View, Loop
<1> QED
  BY <1>2, <1>3, <1>4, <1>5 DEF IInv

LEMMA Invariance == Spec => []IInv
<1>1. Init => IInv
  BY Initially
<1>2. IInv /\ [Next]_vars => IInv'
  BY Inductive
<1> QED
  BY <1>1, <1>2, PTL DEF Spec, SafetySpec

\* The values of the variables: a queue holds snapshots, events and done, an answer
\* the numbers of its events, and no run emits more than its last event allows.
THEOREM TypeCorrect == Spec => []TypeOK
<1>1. IInv => TypeOK
  BY DEF IInv
<1> QED
  BY <1>1, Invariance, PTL

\* Whatever a hint, a reload, a lost stream or the end of a run overlaps with, the last
\* answer of a run is without a gap or a repetition in itself (snapshots and events of a
\* stream that is joined in the middle, consumeRunStream), not further than the daemon
\* is, and shown as complete or in progress only when it is.  When attachToActiveRun
\* follows a run the window shows already, what stays above was cut off: a finished answer
\* is doubled only if its run ends between the answer that it is active and run.started.
THEOREM ShownTrue == Spec => []ShownIsTrue
<1>1. IInv => ShownIsTrue
  BY DEF IInv, ShownIsTrue
<1> QED
  BY <1>1, Invariance, PTL
=============================================================================
