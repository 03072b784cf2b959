----------------------- MODULE DaemonSupervisor_proofs -----------------------
(***************************************************************************)
(* Theorems about DaemonSupervisor, for any settings and any numbers of    *)
(* daemons, faults and changes.  TypeOK holds whatever overlaps.  When the *)
(* calls that make up a restart, a change of the settings and a health     *)
(* check do not overlap (Ordered), one daemon serves at a time, and with   *)
(* the current settings.                                                   *)
(*                                                                         *)
(* The argument is that a daemon nobody told to stop (Live) is always in   *)
(* the hands of exactly one: it is the child, or the one that a restart    *)
(* still has to stop, or the one that was found as long as no other was    *)
(* forked (HeldOK).  Who forks has stopped what was in hand before.        *)
(***************************************************************************)
EXTENDS DaemonSupervisor, TLAPS

Ordered ==
  Overlaps \cap {"restart in restart", "check in restart", "slow found"} = {}

\* A daemon that nobody told to stop and that may accept requests, now or later.
Live(d) == d \in Daemons \ told /\ proc[d] \in {"starting", "serving", "hung"}

ProcsOK ==
  /\ \A d \in Daemons : proc[d] = "unused" <=> d > spawned
  /\ \A d \in told : proc[d] \notin {"unused", "starting", "serving"}
  /\ proc[Found] \notin {"starting", "hung"}

HandlesOK ==
  /\ child # NoDaemon => child \in 1 .. spawned
  /\ \A d \in checking : d <= spawned
  /\ quit = "no" /\ restarting = {} =>
       connection \in {NoDaemon, child} \/ (connection = Found /\ child = NoDaemon)

StartOK ==
  starting \in {"probing", "discarding", "refusing"} =>
    /\ spawned = 0 /\ child = NoDaemon /\ connection = NoDaemon
    /\ ~ respawnTimer /\ restarting = {} /\ checking = {}
    /\ Live(Found) \/ starting # "probing" => infoFile = Found
    /\ infoFile \in {Found, NoDaemon}

RestartOK ==
  /\ \A call, other \in restarting : call = other
  /\ \A call \in restarting :
       /\ child = NoDaemon /\ ~ respawnTimer /\ checking = {}
       /\ call.previous # NoDaemon => call.previous \in 1 .. spawned
       /\ \/ call.active \in {NoDaemon, call.previous}
          \/ call.active = Found /\ call.previous = NoDaemon

HeldOK ==
  /\ respawnTimer => child = NoDaemon /\ ~ Live(Found)
  /\ \A d \in Daemons \ {Found} : Live(d) =>
       d = child \/ \E call \in restarting : call.active = d
  /\ Live(Found) =>
       /\ spawned = 0
       /\ \A call \in restarting : call.active = Found
       /\ \/ quit # "no" \/ connection = Found
          \/ starting \in {"probing", "discarding", "refusing"}

SettingsOK ==
  /\ restarting = {} /\ child # NoDaemon => launched[child] = mobileConfig
  /\ restarting = {} /\ connection # NoDaemon =>
       launched[connection] = mobileConfig \/ Mismarked(connection)

IInv == TypeOK /\ ProcsOK /\ HandlesOK /\ StartOK /\ RestartOK /\ HeldOK /\ SettingsOK

-----------------------------------------------------------------------------
(* Types.                                                                  *)

\* TypeOK in three parts: the daemons, the timers, and the rest.
ProcTypeOK ==
  /\ proc \in [Daemons -> ProcState]
  /\ launched \in [Daemons -> Config \cup {NoConfig}]
  /\ told \subseteq Daemons
  /\ streams \subseteq Daemons
  /\ spawned \in 0 .. MaxSpawns
  /\ calls \in [Daemons -> CallState]

TimerTypeOK == respawnTimer \in BOOLEAN /\ healthTimer \in BOOLEAN

CallTypeOK ==
  /\ child \in Daemons \cup {NoDaemon} /\ connection \in Daemons \cup {NoDaemon}
  /\ asked \in Daemons \cup {NoDaemon} /\ infoFile \in Daemons \cup {NoDaemon}
  /\ mobileConfig \in Config
  /\ marker \in Config \cup {NoConfig}
  /\ starting \in {"probing", "discarding", "refusing", "pushing", "spawning", "done"}
  /\ checking \subseteq Daemons
  /\ restarting \subseteq [active : Daemons \cup {NoDaemon}, previous : Daemons \cup {NoDaemon}]
  /\ quit \in {"no", "asking", "gone"}
  /\ upsets \in 0 .. MaxUpsets

LEMMA TypeParts == TypeOK <=> ProcTypeOK /\ TimerTypeOK /\ CallTypeOK
  BY DEF TypeOK, ProcTypeOK, TimerTypeOK, CallTypeOK

LEMMA Numbers ==
  /\ MaxSpawns \in Nat /\ Daemons = 0 .. MaxSpawns /\ Found \in Daemons /\ Found = 0
  /\ NoDaemon \notin Daemons /\ NoDaemon \notin Nat
  BY BoundsAssumption, NoDaemonAssumption DEF Daemons, Found

LEMMA KillTypes ==
  ASSUME proc \in [Daemons -> ProcState], NEW p
  PROVE  AfterKill(p) \in [Daemons -> ProcState]
<1>1. ASSUME NEW state \in ProcState
      PROVE  Signalled(state) \in ProcState
  BY DEF Signalled, ProcState
<1> QED
  BY <1>1 DEF AfterKill

LEMMA StopTypes ==
  ASSUME proc \in [Daemons -> ProcState], NEW a, NEW p
  PROVE  AfterStop(a, p) \in [Daemons -> ProcState]
  BY KillTypes DEF AfterStop, AfterShutdown, ProcState

LEMMA ForkTypes ==
  ASSUME ProcTypeOK, CallTypeOK, NEW p \in [Daemons -> ProcState], Fork(p)
  PROVE  /\ spawned + 1 \in Daemons /\ spawned' \in 0 .. MaxSpawns
         /\ proc' \in [Daemons -> ProcState]
         /\ launched' \in [Daemons -> Config \cup {NoConfig}]
         /\ calls' \in [Daemons -> CallState]
         /\ child' \in Daemons /\ connection' = NoDaemon
<1>1. spawned + 1 \in Daemons /\ spawned' \in 0 .. MaxSpawns
  BY Numbers DEF Fork, ProcTypeOK
<1> QED
  BY <1>1 DEF Fork, ProcTypeOK, CallTypeOK, ProcState, CallState

LEMMA ProcTypeStep ==
  ASSUME ProcTypeOK, CallTypeOK, [Next]_vars
  PROVE  ProcTypeOK'
<1> USE Numbers
<1>1. CASE UNCHANGED <<proc, launched, told, streams, spawned, calls>>
  BY <1>1 DEF ProcTypeOK
<1>2. ASSUME NEW p, SpawnsFirst(p), p \in [Daemons -> ProcState],
             UNCHANGED told \/ Tell(infoFile)
      PROVE  ProcTypeOK'
  BY <1>2, ForkTypes DEF SpawnsFirst, Tell, ProcTypeOK, CallTypeOK
<1>3. CASE ProbeFindsNone
  BY <1>2, <1>3 DEF ProbeFindsNone, ProcTypeOK
<1>4. CASE DiscardEnds
  BY <1>2, <1>4, StopTypes DEF DiscardEnds, ProcTypeOK
<1>5. CASE RespawnTimerFires
  BY <1>5, ForkTypes DEF RespawnTimerFires, ProcTypeOK
<1>6. ASSUME NEW call \in restarting, RestartEnds(call)
      PROVE  ProcTypeOK'
  <2>1. call.active \in Daemons \cup {NoDaemon} /\ call.previous \in Daemons \cup {NoDaemon}
    BY DEF CallTypeOK
  <2>2. told' \subseteq Daemons /\ UNCHANGED streams
    BY <1>6, <2>1 DEF RestartEnds, Tell, ProcTypeOK
  <2>3. PICK p \in [Daemons -> ProcState] : Fork(p)
    BY <1>6, StopTypes DEF RestartEnds, ProcTypeOK
  <2> QED
    BY <2>2, <2>3, ForkTypes DEF ProcTypeOK
<1>7. ASSUME NEW d \in Daemons, SpawnStep(d)
      PROVE  ProcTypeOK'
  <2>1. UNCHANGED <<launched, streams, spawned>>
    BY <1>7 DEF SpawnStep, Handshake, HandshakeFails, ExitMissed, PushEnds, ExitEvent,
                processVars
  <2>2. calls' \in [Daemons -> CallState]
    BY <1>7 DEF SpawnStep, Handshake, HandshakeFails, ExitMissed, PushEnds, ExitEvent,
                CallEnds, ProcTypeOK, CallState
  <2>3. told' \subseteq Daemons
    BY <1>7 DEF SpawnStep, Handshake, HandshakeFails, ExitMissed, PushEnds, ExitEvent,
                processVars, Tell, ProcTypeOK
  <2>4. proc' = proc \/ proc' = AfterKill(d)
    BY <1>7 DEF SpawnStep, Handshake, HandshakeFails, ExitMissed, PushEnds, ExitEvent,
                processVars
  <2> QED
    BY <2>1, <2>2, <2>3, <2>4, KillTypes DEF ProcTypeOK
<1>8. ASSUME NEW d \in Daemons, CheckFails(d)
      PROVE  ProcTypeOK'
  <2>1. proc' = AfterKill(child) /\ UNCHANGED <<launched, streams, spawned, calls>>
    BY <1>8 DEF CheckFails
  <2>2. told' \subseteq Daemons
    BY <1>8 DEF CheckFails, Tell, ProcTypeOK, CallTypeOK
  <2> QED
    BY <2>1, <2>2, KillTypes DEF ProcTypeOK
<1>9. ASSUME NEW c \in Config, SetConfig(c)
      PROVE  ProcTypeOK'
  <2>1. /\ proc' = proc \/ proc' = AfterKill(child)
        /\ UNCHANGED <<launched, streams, spawned, calls>>
    BY <1>9 DEF SetConfig
  <2>2. told' \subseteq Daemons
    BY <1>9 DEF SetConfig, Tell, ProcTypeOK, CallTypeOK
  <2> QED
    BY <2>1, <2>2, KillTypes DEF ProcTypeOK
<1>10. CASE StopBegins \/ StopEnds
  <2>1. proc' \in [Daemons -> ProcState]
    <3>1. ASSUME NEW p \in [Daemons -> ProcState], AppEnds(p)
          PROVE  proc' \in [Daemons -> ProcState]
      BY <3>1 DEF AppEnds, ProcState
    <3> QED
      BY <1>10, <3>1, StopTypes DEF StopBegins, StopEnds, ProcTypeOK
  <2>2. told' \subseteq Daemons
    BY <1>10 DEF StopBegins, StopEnds, Tell, ProcTypeOK, CallTypeOK
  <2> QED
    BY <1>10, <2>1, <2>2 DEF StopBegins, StopEnds, ProcTypeOK
<1>11. ASSUME NEW d \in Daemons, DaemonStep(d) \/ StreamOpens(d) \/ Fault(d)
       PROVE  ProcTypeOK'
  <2>1. UNCHANGED <<launched, told, spawned, calls>>
    BY <1>11 DEF DaemonStep, Listens, StreamEnds, Exits, ComesBack, StreamOpens, Fault, Dies,
                 Hangs, ProcessStep, callVars
  <2>2. proc' \in [Daemons -> ProcState]
    BY <1>11 DEF DaemonStep, Listens, StreamEnds, Exits, ComesBack, StreamOpens, Fault, Dies,
                 Hangs, ProcTypeOK, ProcState
  <2>3. streams' \subseteq Daemons
    BY <1>11 DEF DaemonStep, Listens, StreamEnds, Exits, ComesBack, StreamOpens, Fault, Dies,
                 Hangs, ProcTypeOK
  <2> QED
    BY <2>1, <2>2, <2>3 DEF ProcTypeOK
<1>12. ASSUME \/ UNCHANGED vars \/ ProbeAnswered \/ DiscardThrows \/ ReattachEnds
              \/ HealthTimerFires \/ \E d \in Daemons : CheckSucceeds(d)
       PROVE  UNCHANGED <<proc, launched, told, streams, spawned, calls>>
  BY <1>12 DEF vars, callVars, processVars, ProbeAnswered, DiscardThrows, ReattachEnds,
               HealthTimerFires, CheckSucceeds
<1> QED
  BY <1>1, <1>3, <1>4, <1>5, <1>6, <1>7, <1>8, <1>9, <1>10, <1>11, <1>12
  DEF Next, StartStep, CheckStep

LEMMA TimerTypeStep ==
  ASSUME TimerTypeOK, [Next]_vars
  PROVE  TimerTypeOK'
<1> USE DEF TimerTypeOK
<1>1. CASE UNCHANGED vars
  BY <1>1 DEF vars, handleVars
<1>2. CASE StartStep
  BY <1>2 DEF StartStep, ProbeFindsNone, ProbeAnswered, DiscardEnds, DiscardThrows,
              ReattachEnds, SpawnsFirst, scheduleHealthCheck, handleVars
<1>3. CASE RespawnTimerFires \/ HealthTimerFires \/ StopBegins \/ StopEnds
  BY <1>3 DEF RespawnTimerFires, HealthTimerFires, StopBegins, StopEnds
<1>4. ASSUME NEW c \in Config, SetConfig(c)
      PROVE  TimerTypeOK'
  BY <1>4 DEF SetConfig
<1>5. ASSUME NEW call \in restarting, RestartEnds(call)
      PROVE  TimerTypeOK'
  BY <1>5 DEF RestartEnds
<1>6. ASSUME NEW d \in Daemons, SpawnStep(d)
      PROVE  TimerTypeOK'
  BY <1>6 DEF SpawnStep, Handshake, HandshakeFails, ExitMissed, PushEnds, ExitEvent,
              scheduleHealthCheck, scheduleRespawn, handleVars
<1>7. ASSUME NEW d \in Daemons, CheckStep(d)
      PROVE  TimerTypeOK'
  BY <1>7 DEF CheckStep, CheckSucceeds, CheckFails, scheduleHealthCheck, scheduleRespawn
<1>8. ASSUME NEW d \in Daemons, DaemonStep(d) \/ StreamOpens(d) \/ Fault(d)
      PROVE  TimerTypeOK'
  BY <1>8 DEF DaemonStep, Listens, StreamEnds, Exits, ComesBack, StreamOpens, Fault, Dies,
              Hangs, ProcessStep, handleVars
<1> QED
  BY <1>1, <1>2, <1>3, <1>4, <1>5, <1>6, <1>7, <1>8 DEF Next

LEMMA CallTypeStep ==
  ASSUME ProcTypeOK, CallTypeOK, [Next]_vars
  PROVE  CallTypeOK'
<1> USE Numbers, BoundsAssumption
<1> DEFINE Names == Daemons \cup {NoDaemon}
<1>1. CASE UNCHANGED vars
  BY <1>1 DEF CallTypeOK, vars, handleVars, callVars, fileVars
<1>2. CASE StartStep
  <2>1. ASSUME NEW p \in [Daemons -> ProcState], SpawnsFirst(p)
        PROVE  CallTypeOK'
    BY <2>1, ForkTypes DEF SpawnsFirst, CallTypeOK
  <2>2. CASE ProbeFindsNone
    BY <2>1, <2>2 DEF ProbeFindsNone, ProcTypeOK
  <2>3. CASE DiscardEnds
    BY <2>1, <2>3, StopTypes DEF DiscardEnds, ProcTypeOK
  <2>4. CASE ProbeAnswered
    BY <2>4 DEF ProbeAnswered, CallTypeOK, Answers, fileVars, processVars
  <2>5. CASE DiscardThrows
    BY <2>5 DEF DiscardThrows, CallTypeOK, handleVars, fileVars
  <2>6. CASE ReattachEnds
    BY <2>6 DEF ReattachEnds, CallTypeOK, fileVars
  <2> QED
    BY <1>2, <2>2, <2>3, <2>4, <2>5, <2>6 DEF StartStep
<1>3. CASE RespawnTimerFires
  BY <1>3, ForkTypes DEF RespawnTimerFires, ProcTypeOK, CallTypeOK, fileVars
<1>4. CASE HealthTimerFires
  <2>1. checking' \subseteq Daemons
    BY <1>4 DEF HealthTimerFires, CallTypeOK
  <2> QED
    BY <1>4, <2>1 DEF HealthTimerFires, CallTypeOK, fileVars
<1>5. CASE StopBegins \/ StopEnds
  BY <1>5 DEF StopBegins, StopEnds, AppEnds, CallTypeOK, fileVars
<1>6. ASSUME NEW c \in Config, SetConfig(c)
      PROVE  CallTypeOK'
  <2>1. restarting' = restarting \cup {[active |-> connection, previous |-> child]}
    BY <1>6 DEF SetConfig
  <2>2. [active |-> connection, previous |-> child] \in [active : Names, previous : Names]
    BY DEF CallTypeOK
  <2>3. restarting' \subseteq [active : Names, previous : Names]
    BY <2>1, <2>2 DEF CallTypeOK
  <2>4. Upset
    BY <1>6 DEF SetConfig
  <2>5. /\ child' = NoDaemon /\ mobileConfig' = c
        /\ UNCHANGED <<connection, starting, checking, quit, asked, infoFile, marker>>
    BY <1>6 DEF SetConfig, fileVars
  <2> QED
    BY <2>3, <2>4, <2>5 DEF Upset, CallTypeOK
<1>7. ASSUME NEW call \in restarting, RestartEnds(call)
      PROVE  CallTypeOK'
  <2>1. PICK p \in [Daemons -> ProcState] : Fork(p)
    BY <1>7, StopTypes DEF RestartEnds, ProcTypeOK
  <2> QED
    BY <1>7, <2>1, ForkTypes DEF RestartEnds, CallTypeOK
<1>8. ASSUME NEW d \in Daemons, SpawnStep(d)
      PROVE  CallTypeOK'
  <2>1. starting' = starting \/ StartEnds
    BY <1>8 DEF SpawnStep, Handshake, HandshakeFails, ExitMissed, PushEnds, ExitEvent, CallEnds
  <2>2. upsets' = upsets \/ Upset
    BY <1>8 DEF SpawnStep, Handshake, HandshakeFails, ExitMissed, PushEnds, ExitEvent
  <2>3. child' \in Names /\ connection' \in Names
    BY <1>8 DEF SpawnStep, Handshake, HandshakeFails, ExitMissed, PushEnds, ExitEvent,
                handleVars, CallTypeOK
  <2>4. marker' \in Config \cup {NoConfig}
    BY <1>8 DEF SpawnStep, Handshake, HandshakeFails, ExitMissed, PushEnds, ExitEvent,
                fileVars, CallTypeOK, ProcTypeOK
  <2>5. UNCHANGED <<mobileConfig, checking, restarting, quit, asked, infoFile>>
    BY <1>8 DEF SpawnStep, Handshake, HandshakeFails, ExitMissed, PushEnds, ExitEvent, fileVars
  <2> QED
    BY <2>1, <2>2, <2>3, <2>4, <2>5 DEF StartEnds, Upset, CallTypeOK
<1>9. ASSUME NEW d \in Daemons, CheckStep(d)
      PROVE  CallTypeOK'
  BY <1>9 DEF CheckStep, CheckSucceeds, CheckFails, CallTypeOK, fileVars
<1>10. ASSUME NEW d \in Daemons, DaemonStep(d) \/ StreamOpens(d) \/ Fault(d)
       PROVE  CallTypeOK'
  <2>1. /\ upsets' = upsets \/ Upset
        /\ infoFile' = infoFile \/ infoFile' = d
    BY <1>10 DEF DaemonStep, Listens, StreamEnds, Exits, ComesBack, StreamOpens, Fault, Dies,
                 Hangs
  <2>2. UNCHANGED <<handleVars, mobileConfig, callVars, marker>>
    BY <1>10 DEF DaemonStep, Listens, StreamEnds, Exits, ComesBack, StreamOpens, Fault, Dies,
                 Hangs, ProcessStep
  <2> QED
    BY <2>1, <2>2 DEF Upset, CallTypeOK, handleVars, callVars
<1> QED
  BY <1>1, <1>2, <1>3, <1>4, <1>5, <1>6, <1>7, <1>8, <1>9, <1>10 DEF Next

LEMMA InitialTypes == ASSUME Init PROVE TypeOK
<1> USE Numbers, BoundsAssumption
<1>1. ProcTypeOK
  BY DEF Init, ProcTypeOK, ProcState, CallState
<1>2. TimerTypeOK
  BY DEF Init, TimerTypeOK
<1>3. CallTypeOK
  BY DEF Init, CallTypeOK
<1> QED
  BY <1>1, <1>2, <1>3, TypeParts

\* The values of the variables, whatever overlaps: among them, that no more daemons
\* are forked, and no more timers and calls are kept, than there are places for.
THEOREM TypeCorrect == Spec => []TypeOK
<1>1. Init => TypeOK
  BY InitialTypes
<1>2. TypeOK /\ [Next]_vars => TypeOK'
  <2>1. ASSUME TypeOK, [Next]_vars
        PROVE  TypeOK'
    <3>1. ProcTypeOK /\ TimerTypeOK /\ CallTypeOK
      BY <2>1, TypeParts
    <3>2. ProcTypeOK' /\ TimerTypeOK' /\ CallTypeOK'
      BY <2>1, <3>1, ProcTypeStep, TimerTypeStep, CallTypeStep
    <3> QED
      BY <3>2 DEF TypeOK, ProcTypeOK, TimerTypeOK, CallTypeOK
  <2> QED
    BY <2>1
<1> QED
  BY <1>1, <1>2, PTL DEF Spec, SafetySpec

-----------------------------------------------------------------------------
(* Daemons that are stopped, and forked.                                   *)

LEMMA SignalledStates ==
  ASSUME NEW state \in ProcState
  PROVE  /\ Signalled(state) \notin {"starting", "serving"}
         /\ Signalled(state) \in {"unused", "hung"} <=> state \in {"unused", "hung"}
         /\ state \in {"unused", "hung"} => Signalled(state) = state
  BY DEF Signalled, ProcState

\* A stop that was asked for, with whom it was asked noted, leaves all but that one
\* daemon as they are, and that one not alive.
LEMMA StopStep ==
  ASSUME ProcTypeOK, CallTypeOK, ProcsOK, NEW p \in [Daemons -> ProcState],
         NEW d \in Daemons \cup {NoDaemon},
         d # NoDaemon => d <= spawned,
         \/ d \in Daemons /\ proc[d] = "serving" /\ p = AfterShutdown(d)
         \/ p = AfterKill(d)
  PROVE  /\ \A x \in Daemons : p[x] = "unused" <=> x > spawned
         /\ \A x \in told \cup ({d} \ {NoDaemon}) : p[x] \notin {"unused", "starting", "serving"}
         /\ p[Found] \notin {"starting", "hung"}
         /\ \A x \in Daemons : x # d => p[x] = proc[x]
<1>1. \A x \in Daemons : x # d => p[x] = proc[x]
  BY DEF AfterShutdown, AfterKill, ProcTypeOK
<1>2. ASSUME d \in Daemons
      PROVE  /\ p[d] \notin {"unused", "starting", "serving"}
             /\ d = Found => p[d] # "hung"
  <2>1. proc[d] \in ProcState /\ proc[d] # "unused"
    BY <1>2, Numbers DEF ProcTypeOK, ProcsOK, Daemons
  <2>2. p[d] = "draining" \/ p[d] = Signalled(proc[d])
    BY <1>2 DEF AfterShutdown, AfterKill, ProcTypeOK
  <2> QED
    BY <2>1, <2>2, SignalledStates DEF ProcsOK
<1> QED
  BY <1>1, <1>2, Numbers DEF ProcsOK, ProcTypeOK

\* What a fork comes to: no other daemon is alive.
Forked ==
  /\ spawned' = spawned + 1 /\ spawned' \in 1 .. MaxSpawns
  /\ child' = spawned' /\ connection' = NoDaemon
  /\ launched'[spawned'] = mobileConfig
  /\ \A d \in Daemons : Live(d)' => d = spawned'

LEMMA ForkStep ==
  ASSUME ProcTypeOK, CallTypeOK, NEW p \in [Daemons -> ProcState], Fork(p),
         told' \subseteq Daemons,
         \A d \in Daemons : p[d] = "unused" <=> d > spawned,
         \A d \in told' : p[d] \notin {"unused", "starting", "serving"},
         p[Found] \notin {"starting", "hung"},
         \A d \in Daemons \ told' : p[d] \notin {"starting", "serving", "hung"}
  PROVE  ProcsOK' /\ Forked
<1>1. /\ spawned' = spawned + 1 /\ spawned' \in Daemons /\ spawned \in Nat
      /\ spawned' \in 1 .. MaxSpawns
      /\ proc' = [p EXCEPT ![spawned + 1] = "starting"]
      /\ launched' = [launched EXCEPT ![spawned + 1] = mobileConfig]
      /\ child' = spawned' /\ connection' = NoDaemon
  BY Numbers DEF Fork, ProcTypeOK
<1>2. p[spawned'] = "unused" /\ spawned' # Found
  BY <1>1, Numbers
<1>3. \A d \in Daemons : proc'[d] = IF d = spawned' THEN "starting" ELSE p[d]
  BY <1>1
<1>4. ProcsOK'
  <2>1. ASSUME NEW d \in Daemons
        PROVE  proc'[d] = "unused" <=> d > spawned'
    BY <1>1, <1>2, <1>3, Numbers
  <2>2. ASSUME NEW d \in told'
        PROVE  proc'[d] \notin {"unused", "starting", "serving"}
    BY <1>2, <1>3
  <2> QED
    BY <1>2, <1>3, <2>1, <2>2, Numbers DEF ProcsOK
<1>5. Forked
  BY <1>1, <1>3 DEF Forked, Live, ProcTypeOK
<1> QED
  BY <1>4, <1>5

\* Nothing is forked, and nothing comes to life.
Stays ==
  /\ UNCHANGED <<spawned, launched>>
  /\ \A d \in Daemons : Live(d)' => Live(d)

Forks ==
  \/ ProbeFindsNone \/ DiscardEnds \/ RespawnTimerFires
  \/ \E call \in restarting : RestartEnds(call)

LEMMA ForksStep ==
  ASSUME IInv, Ordered, Forks
  PROVE  ProcsOK' /\ Forked
<1> USE Numbers
<1>0. ProcTypeOK /\ CallTypeOK /\ ProcsOK /\ StartOK /\ RestartOK /\ HeldOK
  BY TypeParts DEF IInv
<1>1. CASE ProbeFindsNone
  <2>1. /\ Fork(proc) /\ told' = told /\ ~ Answers(infoFile) /\ spawned = 0
        /\ Live(Found) => infoFile = Found
    BY <1>0, <1>1 DEF ProbeFindsNone, SpawnsFirst, StartOK
  <2>2. ASSUME NEW d \in Daemons \ told
        PROVE  proc[d] \notin {"starting", "serving", "hung"}
    <3>1. CASE d = Found
      BY <1>0, <2>1, <2>2, <3>1 DEF ProcsOK, Live, Answers
    <3>2. CASE d # Found
      BY <1>0, <2>1, <2>2, <3>2 DEF ProcsOK
    <3> QED
      BY <3>1, <3>2
  <2> QED
    BY <1>0, <2>1, <2>2, ForkStep DEF ProcsOK, ProcTypeOK
<1>2. CASE DiscardEnds
  <2> DEFINE p == AfterStop(infoFile, NoDaemon)
  <2>1. Fork(p) /\ told' = told \cup {Found} /\ spawned = 0 /\ infoFile = Found
    BY <1>0, <1>2 DEF DiscardEnds, SpawnsFirst, StartOK, Tell
  <2>2. p \in [Daemons -> ProcState]
    BY <1>0, StopTypes DEF ProcTypeOK
  <2>3. /\ \A x \in Daemons : p[x] = "unused" <=> x > spawned
        /\ \A x \in told \cup {Found} : p[x] \notin {"unused", "starting", "serving"}
        /\ p[Found] \notin {"starting", "hung"}
        /\ \A x \in Daemons : x # Found => p[x] = proc[x]
    <3>1. CASE Answers(Found)
      <4>1. p = AfterShutdown(Found) /\ proc[Found] = "serving"
        BY <2>1, <3>1 DEF AfterStop, Answers
      <4> QED
        BY <1>0, <2>1, <2>2, <4>1, StopStep
    <3>2. CASE ~ Answers(Found)
      <4>1. p = AfterKill(NoDaemon)
        BY <2>1, <3>2 DEF AfterStop
      <4>2. \A x \in Daemons : p[x] = proc[x]
        BY <4>1 DEF AfterKill
      <4> QED
        BY <1>0, <3>2, <4>2, <2>1 DEF ProcsOK, Answers, ProcTypeOK
    <3> QED
      BY <3>1, <3>2
  <2>4. ASSUME NEW d \in Daemons \ told'
        PROVE  p[d] \notin {"starting", "serving", "hung"}
    BY <1>0, <2>1, <2>3, <2>4 DEF ProcsOK
  <2> HIDE DEF p
  <2> QED
    BY <1>0, <2>1, <2>2, <2>3, <2>4, ForkStep DEF ProcTypeOK
<1>3. CASE RespawnTimerFires
  <2>1. Fork(proc) /\ told' = told /\ respawnTimer
    BY <1>3 DEF RespawnTimerFires
  <2>2. child = NoDaemon /\ ~ Live(Found) /\ restarting = {}
    BY <1>0, <2>1 DEF HeldOK, RestartOK
  <2>3. ASSUME NEW d \in Daemons \ told
        PROVE  proc[d] \notin {"starting", "serving", "hung"}
    BY <1>0, <2>2, <2>3 DEF HeldOK, Live
  <2> QED
    BY <1>0, <2>1, <2>3, ForkStep DEF ProcsOK, ProcTypeOK
<1>4. ASSUME NEW call \in restarting, RestartEnds(call)
      PROVE  ProcsOK' /\ Forked
  <2>1. \A d \in Daemons : Live(d) => d = call.active
    BY <1>0 DEF HeldOK, RestartOK
  <2>2. CASE call.active = NoDaemon
    <3>1. Fork(proc) /\ told' = told
      BY <1>4, <2>2 DEF RestartEnds
    <3>2. ASSUME NEW d \in Daemons \ told
          PROVE  proc[d] \notin {"starting", "serving", "hung"}
      BY <2>1, <2>2 DEF Live
    <3> QED
      BY <1>0, <3>1, <3>2, ForkStep DEF ProcsOK, ProcTypeOK
  <2>3. CASE call.active # NoDaemon
    <3> DEFINE a == call.active
               k == IF Answers(a) THEN a ELSE call.previous
               p == AfterStop(a, call.previous)
    <3>1. Fork(p) /\ told' = told \cup ({k} \ {NoDaemon})
      BY <1>4, <2>3 DEF RestartEnds, Tell
    <3>2. /\ a \in Daemons /\ a <= spawned
          /\ k \in Daemons \cup {NoDaemon} /\ (k # NoDaemon => k = a)
          /\ k = NoDaemon => a = Found /\ ~ Answers(a)
      BY <1>0, <2>3 DEF CallTypeOK, RestartOK, ProcTypeOK
    <3>3. p \in [Daemons -> ProcState]
      BY <1>0, StopTypes DEF ProcTypeOK
    <3>4. /\ \A x \in Daemons : p[x] = "unused" <=> x > spawned
          /\ \A x \in told \cup ({k} \ {NoDaemon}) : p[x] \notin {"unused", "starting", "serving"}
          /\ p[Found] \notin {"starting", "hung"}
          /\ \A x \in Daemons : x # k => p[x] = proc[x]
      <4>1. \/ k \in Daemons /\ proc[k] = "serving" /\ p = AfterShutdown(k)
            \/ p = AfterKill(k)
        BY DEF AfterStop, Answers
      <4> HIDE DEF k, p
      <4> QED
        BY <1>0, <3>2, <3>3, <4>1, StopStep
    <3> HIDE DEF p
    <3>5. ASSUME NEW d \in Daemons \ told'
          PROVE  p[d] \notin {"starting", "serving", "hung"}
      <4>1. d # k /\ p[d] = proc[d]
        BY <3>1, <3>4, <3>5
      <4>2. CASE d = a
        BY <1>0, <3>2, <4>1, <4>2 DEF Answers, ProcsOK
      <4>3. CASE d # a
        BY <2>1, <3>1, <3>5, <4>1, <4>3 DEF Live
      <4> QED
        BY <4>2, <4>3
    <3>6. told' \subseteq Daemons
      BY <1>0, <3>1, <3>2 DEF ProcTypeOK
    <3> HIDE DEF k
    <3> QED
      BY <1>0, <3>1, <3>3, <3>4, <3>5, <3>6, ForkStep
  <2> QED
    BY <2>2, <2>3
<1> QED
  BY <1>1, <1>2, <1>3, <1>4 DEF Forks

\* Whoever forks has what it forked in hand, and nothing else is to be stopped.
LEMMA ForkedKeeps ==
  ASSUME IInv, Forks, Forked, CallTypeOK', ProcTypeOK'
  PROVE  HandlesOK' /\ StartOK' /\ RestartOK' /\ HeldOK' /\ SettingsOK'
<1>0. /\ ProcTypeOK /\ CallTypeOK
      /\ HandlesOK /\ StartOK /\ RestartOK /\ HeldOK /\ SettingsOK
  BY TypeParts DEF IInv
<1>1. /\ restarting' = {} /\ ~ respawnTimer' /\ checking' = checking
      /\ starting' \notin {"probing", "discarding", "refusing"}
      /\ mobileConfig' = mobileConfig
  <2>1. CASE ProbeFindsNone \/ DiscardEnds
    BY <1>0, <2>1 DEF ProbeFindsNone, DiscardEnds, SpawnsFirst, StartOK
  <2>2. CASE RespawnTimerFires
    BY <1>0, <2>2 DEF RespawnTimerFires, StartOK, RestartOK
  <2>3. CASE \E call \in restarting : RestartEnds(call)
    <3>1. PICK call \in restarting : RestartEnds(call)
      BY <2>3
    <3> QED
      BY <1>0, <3>1 DEF RestartEnds, StartOK, RestartOK
  <2> QED
    BY <2>1, <2>2, <2>3 DEF Forks
<1>2. /\ spawned \in Nat /\ spawned' = spawned + 1 /\ spawned' \in 1 .. MaxSpawns
      /\ child' = spawned' /\ connection' = NoDaemon
      /\ launched'[spawned'] = mobileConfig
      /\ \A d \in Daemons : Live(d)' => d = spawned'
  BY <1>0, Numbers DEF Forked, ProcTypeOK
<1> USE Numbers
<1>3. HandlesOK'
  BY <1>0, <1>1, <1>2 DEF HandlesOK, CallTypeOK
<1>4. StartOK' /\ RestartOK'
  BY <1>1 DEF StartOK, RestartOK
<1>5. HeldOK'
  BY <1>1, <1>2 DEF HeldOK
<1>6. SettingsOK'
  BY <1>1, <1>2 DEF SettingsOK, Mismarked
<1> QED
  BY <1>3, <1>4, <1>5, <1>6

-----------------------------------------------------------------------------
(* Steps that fork nothing.                                                *)

\* One daemon, or none, was told to stop.
Stopping(d) ==
  /\ told' = told \cup ({d} \ {NoDaemon})
  /\ \/ d \in Daemons /\ proc[d] = "serving" /\ proc' = AfterShutdown(d)
     \/ proc' = AfterKill(d)
  /\ UNCHANGED <<spawned, launched>>

LEMMA StoppingStep ==
  ASSUME IInv, NEW d \in Daemons \cup {NoDaemon}, d # NoDaemon => d <= spawned, Stopping(d),
         ProcTypeOK'
  PROVE  ProcsOK' /\ Stays /\ \A x \in Daemons : Live(x)' => x # d
<1>0. ProcTypeOK /\ CallTypeOK /\ ProcsOK
  BY TypeParts DEF IInv
<1>1. /\ \A x \in Daemons : proc'[x] = "unused" <=> x > spawned
      /\ \A x \in told \cup ({d} \ {NoDaemon}) : proc'[x] \notin {"unused", "starting", "serving"}
      /\ proc'[Found] \notin {"starting", "hung"}
      /\ \A x \in Daemons : x # d => proc'[x] = proc[x]
  BY <1>0, StopStep DEF ProcTypeOK, Stopping
<1>2. ProcsOK'
  BY <1>1 DEF ProcsOK, Stopping
<1>3. Stays /\ \A x \in Daemons : Live(x)' => x # d
  BY <1>1, Numbers DEF Stays, Live, Stopping
<1> QED
  BY <1>2, <1>3

LEMMA NoneStops ==
  ASSUME proc \in [Daemons -> ProcState], UNCHANGED <<proc, told, spawned, launched>>
  PROVE  Stopping(NoDaemon)
<1>1. AfterKill(NoDaemon) = proc
  BY Numbers DEF AfterKill
<1> QED
  BY <1>1 DEF Stopping

\* What a daemon does by itself.
LEMMA ProcessesStep ==
  ASSUME IInv, Ordered, ProcTypeOK', NEW d \in Daemons,
         DaemonStep(d) \/ StreamOpens(d) \/ Fault(d)
  PROVE  ProcsOK' /\ Stays
<1>0. ProcTypeOK /\ ProcsOK
  BY TypeParts DEF IInv
<1>1. UNCHANGED <<spawned, launched, told>>
  BY DEF DaemonStep, Listens, StreamEnds, Exits, ComesBack, StreamOpens, Fault, Dies, Hangs,
         ProcessStep
<1>2. /\ \A x \in Daemons : x # d => proc'[x] = proc[x]
      /\ \/ proc'[d] = proc[d]
         \/ /\ proc[d] \in {"starting", "serving", "hung", "draining"}
            /\ proc'[d] \in {"exited", "failed"}
         \/ proc[d] = "starting" /\ proc'[d] = "serving"
         \/ proc[d] = "serving" /\ proc'[d] = "hung" /\ d # Found
         \/ proc[d] = "hung" /\ proc'[d] = "draining"
         \/ proc[d] = "hung" /\ proc'[d] = "serving" /\ d \notin told
  BY <1>0 DEF DaemonStep, Listens, StreamEnds, Exits, ComesBack, StreamOpens, Fault, Dies,
              Hangs, ProcTypeOK, Ordered
<1>3. ProcsOK'
  BY <1>0, <1>1, <1>2, Numbers DEF ProcsOK, ProcTypeOK
<1>4. Stays
  BY <1>1, <1>2 DEF Stays, Live
<1> QED
  BY <1>3, <1>4

Others == HandlesOK /\ StartOK /\ RestartOK /\ HeldOK /\ SettingsOK

LEMMA StartSteps ==
  ASSUME IInv, Ordered, ProbeAnswered \/ DiscardThrows \/ ReattachEnds
  PROVE  ProcsOK' /\ Others'
<1>0. /\ ProcTypeOK /\ CallTypeOK /\ ProcsOK /\ HandlesOK /\ StartOK /\ RestartOK /\ HeldOK
      /\ SettingsOK
  BY TypeParts DEF IInv
<1>1. /\ UNCHANGED <<proc, told, spawned, launched, child, respawnTimer, checking, restarting>>
      /\ UNCHANGED <<mobileConfig, marker, infoFile>>
  BY DEF ProbeAnswered, DiscardThrows, ReattachEnds, handleVars, fileVars, processVars
<1>2. ProcsOK' /\ (Live(Found)' <=> Live(Found)) /\ \A d \in Daemons : Live(d)' <=> Live(d)
  BY <1>0, <1>1, Numbers DEF ProcsOK, Live
<1> USE Numbers
<1>3. CASE ProbeAnswered
  <2>1. /\ starting = "probing" /\ quit = "no" /\ quit' = quit
        /\ infoFile = Found /\ spawned = 0 /\ child = NoDaemon /\ connection = NoDaemon
        /\ ~ respawnTimer /\ restarting = {}
    BY <1>0, <1>3 DEF ProbeAnswered, StartOK, Answers
  <2>2. \/ starting' \in {"discarding", "refusing"} /\ connection' = NoDaemon
        \/ starting' = "pushing" /\ connection' = Found /\ marker = mobileConfig
    BY <1>3, <2>1 DEF ProbeAnswered, Reusable
  <2>3. HandlesOK'
    BY <1>0, <1>1, <2>1, <2>2 DEF HandlesOK
  <2>4. StartOK'
    BY <1>0, <1>1, <1>2, <2>1, <2>2 DEF StartOK
  <2>5. RestartOK'
    BY <1>0, <1>1, <2>1 DEF RestartOK
  <2>6. HeldOK'
    BY <1>0, <1>1, <1>2, <2>1, <2>2 DEF HeldOK
  <2>7. SettingsOK'
    BY <1>0, <1>1, <2>1, <2>2, ConfigAssumption DEF SettingsOK, Mismarked, CallTypeOK
  <2> QED
    BY <1>2, <2>3, <2>4, <2>5, <2>6, <2>7 DEF Others
<1>4. CASE DiscardThrows
  <2>1. quit' = "gone" /\ UNCHANGED <<connection, starting>>
    BY <1>4 DEF DiscardThrows, handleVars
  <2> QED
    BY <1>0, <1>1, <1>2, <2>1
    DEF Others, HandlesOK, StartOK, RestartOK, HeldOK, SettingsOK, Mismarked
<1>5. CASE ReattachEnds
  <2>1. starting = "pushing" /\ starting' = "done" /\ UNCHANGED <<connection, quit>>
    BY <1>5 DEF ReattachEnds
  <2> QED
    BY <1>0, <1>1, <1>2, <2>1
    DEF Others, HandlesOK, StartOK, RestartOK, HeldOK, SettingsOK, Mismarked
<1> QED
  BY <1>3, <1>4, <1>5

LEMMA SpawnSteps ==
  ASSUME IInv, Ordered, NEW d \in Daemons, SpawnStep(d), ProcTypeOK'
  PROVE  ProcsOK' /\ Others'
<1>0. /\ ProcTypeOK /\ CallTypeOK /\ ProcsOK /\ HandlesOK /\ StartOK /\ RestartOK /\ HeldOK
      /\ SettingsOK
  BY TypeParts DEF IInv
<1> USE Numbers
<1>1. /\ UNCHANGED <<mobileConfig, checking, restarting, quit, infoFile>>
      /\ starting' = starting \/ (starting = "spawning" /\ starting' = "done")
  BY DEF SpawnStep, Handshake, HandshakeFails, ExitMissed, PushEnds, ExitEvent, CallEnds,
         StartEnds, fileVars
<1>2. ASSUME UNCHANGED <<child, connection, respawnTimer, marker>>, ProcsOK', Stays
      PROVE  Others'
  BY <1>0, <1>1, <1>2
  DEF Others, HandlesOK, StartOK, RestartOK, HeldOK, SettingsOK, Mismarked, Stays
<1>3. ASSUME UNCHANGED <<proc, told, spawned, launched>>
      PROVE  ProcsOK' /\ Stays
  BY <1>0, <1>3 DEF ProcsOK, Stays, Live
<1>4. ASSUME child = d
      PROVE  d \in 1 .. spawned /\ restarting = {} /\ ~ Live(Found)
             /\ starting \notin {"probing", "discarding", "refusing"}
  BY <1>0, <1>4 DEF HandlesOK, RestartOK, HeldOK, StartOK, ProcTypeOK
<1>5. CASE Handshake(d)
  <2>1. ProcsOK' /\ Stays
    BY <1>3, <1>5 DEF Handshake, processVars
  <2>2. CASE child # d
    BY <1>2, <1>5, <2>1, <2>2 DEF Handshake
  <2>3. CASE child = d
    <3>1. UNCHANGED <<child, respawnTimer>> /\ connection' = d /\ marker' = launched[d]
      BY <1>5, <2>3 DEF Handshake
    <3>2. spawned' # 0
      BY <1>4, <2>1, <2>3 DEF Stays
    <3> QED
      BY <1>0, <1>1, <1>4, <2>1, <2>3, <3>1, <3>2
      DEF Others, HandlesOK, StartOK, RestartOK, HeldOK, SettingsOK, Mismarked, Stays
  <2> QED
    BY <2>2, <2>3
<1>6. CASE HandshakeFails(d)
  <2>1. CASE child # d
    BY <1>2, <1>3, <1>6, <2>1 DEF HandshakeFails, fileVars
  <2>2. CASE child = d
    <3>1. /\ Stopping(d) /\ child' = NoDaemon /\ connection' = NoDaemon /\ marker' = marker
      BY <1>6, <2>2 DEF HandshakeFails, Stopping, Tell, fileVars
    <3>2. d <= spawned
      BY <1>0, <1>4, <2>2 DEF ProcTypeOK
    <3>3. ProcsOK' /\ Stays /\ \A x \in Daemons : Live(x)' => x # d
      BY <3>1, <3>2, StoppingStep
    <3> QED
      BY <1>0, <1>1, <1>4, <2>2, <3>1, <3>3
      DEF Others, HandlesOK, StartOK, RestartOK, HeldOK, SettingsOK, Mismarked, Stays
  <2> QED
    BY <2>1, <2>2
<1>7. CASE ExitMissed(d) \/ PushEnds(d)
  BY <1>2, <1>3, <1>7 DEF ExitMissed, PushEnds, handleVars, fileVars, processVars
<1>8. CASE ExitEvent(d)
  <2>1. ProcsOK' /\ Stays
    BY <1>3, <1>8 DEF ExitEvent, processVars
  <2>2. CASE child # d
    BY <1>2, <1>8, <2>1, <2>2 DEF ExitEvent, handleVars, fileVars
  <2>3. CASE child = d
    <3>1. /\ child' = NoDaemon /\ marker' = marker /\ proc[d] = "exited"
          /\ connection' = IF quit # "no" THEN connection ELSE NoDaemon
      BY <1>8, <2>3 DEF ExitEvent, intentionalShutdown, fileVars
    <3>2. ~ Live(d)'
      BY <2>1, <3>1 DEF Live, Stays
    <3> QED
      BY <1>0, <1>1, <1>4, <2>1, <2>3, <3>1, <3>2
      DEF Others, HandlesOK, StartOK, RestartOK, HeldOK, SettingsOK, Mismarked, Stays
  <2> QED
    BY <2>2, <2>3
<1> QED
  BY <1>5, <1>6, <1>7, <1>8 DEF SpawnStep

LEMMA CheckSteps ==
  ASSUME IInv, Ordered, ProcTypeOK',
         HealthTimerFires \/ \E d \in Daemons : CheckStep(d)
  PROVE  ProcsOK' /\ Others'
<1>0. /\ ProcTypeOK /\ CallTypeOK /\ ProcsOK /\ HandlesOK /\ StartOK /\ RestartOK /\ HeldOK
      /\ SettingsOK
  BY TypeParts DEF IInv
<1> USE Numbers
<1>1. /\ UNCHANGED <<mobileConfig, restarting, quit, starting, child, marker>>
      /\ infoFile' = infoFile \/ \E d \in Daemons : CheckFails(d)
  BY DEF HealthTimerFires, CheckStep, CheckSucceeds, CheckFails, fileVars
<1>2. ASSUME UNCHANGED <<proc, told, spawned, launched>>
      PROVE  ProcsOK' /\ Stays
  BY <1>0, <1>2 DEF ProcsOK, Stays, Live
<1>3. CASE HealthTimerFires
  <2>1. UNCHANGED <<proc, told, spawned, launched, connection, respawnTimer, infoFile>>
    BY <1>3 DEF HealthTimerFires, processVars, fileVars
  <2>2. restarting = {}
    BY <1>3 DEF HealthTimerFires, Ordered
  <2>3. \A d \in checking' : d <= spawned
    <3>1. checking' \subseteq checking \cup ({connection} \ {NoDaemon})
      BY <1>3 DEF HealthTimerFires
    <3>2. checking' # checking => quit = "no"
      BY <1>3 DEF HealthTimerFires, intentionalShutdown
    <3>3. quit = "no" /\ connection # NoDaemon => connection <= spawned
      BY <1>0, <2>2 DEF HandlesOK, ProcTypeOK
    <3> QED
      BY <1>0, <3>1, <3>2, <3>3 DEF HandlesOK
  <2>4. ProcsOK' /\ Stays
    BY <1>2, <2>1
  <2>5. starting \in {"probing", "discarding", "refusing"} => checking' = {}
    BY <1>0, <1>3 DEF HealthTimerFires, StartOK
  <2> QED
    BY <1>0, <1>1, <2>1, <2>2, <2>3, <2>4, <2>5
    DEF Others, HandlesOK, StartOK, RestartOK, HeldOK, SettingsOK, Mismarked, Stays
<1>4. ASSUME NEW d \in Daemons, CheckSucceeds(d)
      PROVE  ProcsOK' /\ Others'
  <2>1. /\ UNCHANGED <<proc, told, spawned, launched, connection, respawnTimer, infoFile>>
        /\ checking' \subseteq checking
    BY <1>4 DEF CheckSucceeds, processVars, fileVars
  <2>2. ProcsOK' /\ Stays
    BY <1>2, <2>1
  <2> QED
    BY <1>0, <1>1, <2>1, <2>2
    DEF Others, HandlesOK, StartOK, RestartOK, HeldOK, SettingsOK, Mismarked, Stays
<1>5. ASSUME NEW d \in Daemons, CheckFails(d)
      PROVE  ProcsOK' /\ Others'
  <2>1. restarting = {} /\ checking' \subseteq checking /\ d <= spawned /\ ~ Answers(d)
    BY <1>0, <1>5 DEF CheckFails, RestartOK, HandlesOK
  <2>2. Stopping(child)
    BY <1>5 DEF CheckFails, Stopping, Tell
  <2>3. ProcsOK' /\ Stays
    BY <1>0, <2>2, StoppingStep DEF HandlesOK, CallTypeOK, ProcTypeOK
  <2>4. starting \notin {"probing", "discarding", "refusing"}
    BY <1>0, <1>5 DEF CheckFails, StartOK
  <2>5. StartOK'
    BY <1>1, <2>4 DEF StartOK
  <2>6. ~ Live(Found)
    <3>1. CASE spawned = 0
      <4>1. d = Found
        BY <2>1, <3>1
      <4> QED
        BY <1>0, <2>1, <4>1 DEF Live, Answers, ProcsOK
    <3>2. CASE spawned # 0
      BY <1>0, <3>2 DEF HeldOK
    <3> QED
      BY <3>1, <3>2
  <2>7. CASE child # NoDaemon
    <3>1. UNCHANGED <<connection, respawnTimer>> /\ infoFile' = NoDaemon
      BY <1>5, <2>7 DEF CheckFails
    <3> QED
      BY <1>0, <1>1, <2>1, <2>3, <2>5, <2>6, <3>1
      DEF Others, HandlesOK, RestartOK, HeldOK, SettingsOK, Mismarked, Stays
  <2>8. CASE child = NoDaemon
    <3>1. connection' = NoDaemon
      BY <1>5, <2>8 DEF CheckFails
    <3>2. HandlesOK' /\ RestartOK' /\ HeldOK' /\ SettingsOK'
      BY <1>0, <1>1, <2>1, <2>3, <2>6, <2>8, <3>1
      DEF HandlesOK, RestartOK, HeldOK, SettingsOK, Mismarked, Stays
    <3> QED
      BY <2>3, <2>5, <3>2 DEF Others
  <2> QED
    BY <2>7, <2>8
<1> QED
  BY <1>3, <1>4, <1>5 DEF CheckStep

LEMMA SettingsSteps ==
  ASSUME IInv, Ordered, ProcTypeOK', NEW c \in Config, SetConfig(c)
  PROVE  ProcsOK' /\ Others'
<1>0. /\ ProcTypeOK /\ CallTypeOK /\ ProcsOK /\ HandlesOK /\ StartOK /\ RestartOK /\ HeldOK
      /\ SettingsOK
  BY TypeParts DEF IInv
<1> USE Numbers
<1> DEFINE call == [active |-> connection, previous |-> child]
<1>1. /\ starting = "done" /\ quit = "no" /\ restarting = {} /\ checking = {}
      /\ restarting' = {call} /\ child' = NoDaemon /\ ~ respawnTimer'
      /\ UNCHANGED <<connection, starting, checking, quit, infoFile, marker, spawned>>
  BY DEF SetConfig, Ordered, fileVars
<1>2. IF connection = NoDaemon THEN Stopping(child) ELSE UNCHANGED <<proc, told, spawned, launched>>
  BY DEF SetConfig, Stopping, Tell
<1>3. connection \in {NoDaemon, child} \/ (connection = Found /\ child = NoDaemon)
  BY <1>0, <1>1 DEF HandlesOK
<1>4. child # NoDaemon => child \in 1 .. spawned
  BY <1>0 DEF HandlesOK
<1>5. /\ ProcsOK' /\ Stays
      /\ \A d \in Daemons : Live(d)' => d # child \/ connection = child
  <2>1. CASE connection = NoDaemon
    BY <1>0, <1>2, <1>4, <2>1, StoppingStep DEF CallTypeOK, ProcTypeOK
  <2>2. CASE connection # NoDaemon
    <3>1. ProcsOK' /\ Stays
      BY <1>0, <1>2, <2>2 DEF ProcsOK, Stays, Live
    <3>2. \A d \in Daemons : d = child => connection = child
      BY <1>3, <2>2
    <3> QED
      BY <3>1, <3>2
  <2> QED
    BY <2>1, <2>2
<1>6. RestartOK'
  BY <1>1, <1>3, <1>4 DEF RestartOK
<1>7. HandlesOK' /\ StartOK'
  BY <1>0, <1>1 DEF HandlesOK, StartOK
<1>8. HeldOK'
  <2>1. ASSUME NEW d \in Daemons \ {Found}, Live(d)'
        PROVE  \E other \in restarting' : other.active = d
    <3>1. d = child
      BY <1>0, <1>1, <1>5, <2>1 DEF HeldOK, Stays
    <3>2. call.active = d
      BY <1>5, <2>1, <3>1
    <3> QED
      BY <1>1, <3>2
  <2>2. ASSUME Live(Found)'
        PROVE  /\ spawned' = 0 /\ connection' = Found
               /\ \A other \in restarting' : other.active = Found
    <3>1. Live(Found) /\ spawned = 0 /\ connection = Found
      BY <1>0, <1>1, <1>5, <2>2 DEF HeldOK, Stays
    <3> QED
      BY <1>1, <3>1
  <2> QED
    BY <1>1, <2>1, <2>2 DEF HeldOK
<1>9. SettingsOK'
  BY <1>0, <1>1, <1>5 DEF SettingsOK, Mismarked, Stays
<1> QED
  BY <1>5, <1>6, <1>7, <1>8, <1>9 DEF Others

LEMMA QuitSteps ==
  ASSUME IInv, ProcTypeOK', StopBegins \/ StopEnds
  PROVE  ProcsOK' /\ Others'
<1>0. /\ ProcTypeOK /\ CallTypeOK /\ ProcsOK /\ HandlesOK /\ StartOK /\ RestartOK /\ HeldOK
      /\ SettingsOK
  BY TypeParts DEF IInv
<1> USE Numbers
<1>1. /\ UNCHANGED <<mobileConfig, starting, checking, restarting, infoFile, marker, launched,
                     spawned>>
      /\ quit' # "no" /\ connection' \in {connection, NoDaemon} /\ child' \in {child, NoDaemon}
      /\ respawnTimer' => respawnTimer
  BY DEF StopBegins, StopEnds, AppEnds, fileVars
<1>2. ASSUME ProcsOK', Stays, child' = child \/ \A d \in Daemons \ {Found} : ~ Live(d)'
      PROVE  Others'
  <2>1. HandlesOK' /\ StartOK' /\ RestartOK' /\ SettingsOK'
    BY <1>0, <1>1, <1>2 DEF HandlesOK, StartOK, RestartOK, SettingsOK, Mismarked, Stays
  <2>2. HeldOK'
    BY <1>0, <1>1, <1>2 DEF HeldOK, Stays
  <2> QED
    BY <2>1, <2>2 DEF Others
<1>3. CASE UNCHANGED <<child, proc, told>>
  <2>1. ProcsOK' /\ Stays
    BY <1>0, <1>1, <1>3 DEF ProcsOK, Stays, Live
  <2> QED
    BY <1>2, <1>3, <2>1
<1>4. ASSUME NEW p \in [Daemons -> ProcState], AppEnds(p), told' \subseteq Daemons,
             told \subseteq told',
             \A x \in Daemons : p[x] = "unused" <=> x > spawned,
             \A x \in told' : p[x] \notin {"unused", "starting", "serving"},
             p[Found] \in {proc[Found], "draining"}
      PROVE  ProcsOK' /\ Others'
  <2>1. \A d \in Daemons : /\ d = Found \/ p[d] = "unused" => proc'[d] = p[d]
                           /\ d # Found /\ p[d] # "unused" => proc'[d] = "exited"
    BY <1>4 DEF AppEnds
  <2>2. ProcsOK'
    BY <1>0, <1>1, <1>4, <2>1 DEF ProcsOK
  <2>3. Stays /\ \A d \in Daemons \ {Found} : ~ Live(d)'
    BY <1>1, <1>4, <2>1 DEF Stays, Live
  <2> QED
    BY <1>2, <2>2, <2>3
<1>5. CASE StopBegins
  <2>1. told' = told /\ (UNCHANGED <<child, proc>> \/ AppEnds(proc))
    BY <1>5 DEF StopBegins
  <2> QED
    BY <1>0, <1>3, <1>4, <2>1 DEF ProcsOK, ProcTypeOK
<1>6. CASE StopEnds
  <2> DEFINE k == IF Answers(asked) THEN asked ELSE child
             p == AfterStop(asked, child)
  <2>1. AppEnds(p) /\ told' = told \cup ({k} \ {NoDaemon})
    BY <1>6 DEF StopEnds, Tell
  <2>2. p \in [Daemons -> ProcState]
    BY <1>0, StopTypes DEF ProcTypeOK
  <2>3. k \in Daemons \cup {NoDaemon} /\ (k # NoDaemon => k <= spawned)
    <3>1. Answers(asked) => asked \in Daemons /\ asked <= spawned
      BY <1>0 DEF Answers, ProcsOK, ProcTypeOK
    <3>2. child \in Daemons \cup {NoDaemon} /\ (child # NoDaemon => child <= spawned)
      BY <1>0 DEF CallTypeOK, HandlesOK, ProcTypeOK
    <3> QED
      BY <3>1, <3>2
  <2>4. \/ k \in Daemons /\ proc[k] = "serving" /\ p = AfterShutdown(k)
        \/ k = child /\ p = AfterKill(k)
    BY DEF AfterStop, Answers
  <2>5. p[Found] \in {proc[Found], "draining"}
    <3>1. k = child => k # Found
      BY <1>0 DEF HandlesOK, ProcTypeOK
    <3> QED
      BY <1>0, <2>4, <3>1 DEF AfterShutdown, AfterKill, ProcTypeOK
  <2>6. k # NoDaemon => k \in Daemons
    BY <2>3
  <2> HIDE DEF k, p
  <2>7. /\ \A x \in Daemons : p[x] = "unused" <=> x > spawned
        /\ \A x \in told \cup ({k} \ {NoDaemon}) : p[x] \notin {"unused", "starting", "serving"}
    BY <1>0, <2>2, <2>3, <2>4, StopStep
  <2>8. told' \subseteq Daemons /\ told \subseteq told'
    BY <1>0, <2>1, <2>6 DEF ProcTypeOK
  <2> QED
    BY <1>4, <2>1, <2>2, <2>5, <2>7, <2>8
<1> QED
  BY <1>5, <1>6

LEMMA DaemonSteps ==
  ASSUME IInv, Ordered, ProcTypeOK', NEW d \in Daemons,
         DaemonStep(d) \/ StreamOpens(d) \/ Fault(d)
  PROVE  ProcsOK' /\ Others'
<1>0. /\ ProcTypeOK /\ CallTypeOK /\ ProcsOK /\ HandlesOK /\ StartOK /\ RestartOK /\ HeldOK
      /\ SettingsOK
  BY TypeParts DEF IInv
<1>1. ProcsOK' /\ Stays
  BY ProcessesStep
<1>2. /\ UNCHANGED <<child, connection, respawnTimer, mobileConfig, starting, checking, restarting,
                     quit, marker>>
      /\ infoFile' = infoFile \/ proc[d] = "starting"
  BY DEF DaemonStep, Listens, StreamEnds, Exits, ComesBack, StreamOpens, Fault, Dies, Hangs,
         ProcessStep, handleVars, callVars
<1>3. proc[d] = "starting" => spawned # 0
  BY <1>0, Numbers DEF ProcsOK, ProcTypeOK
<1>4. HandlesOK' /\ RestartOK' /\ HeldOK' /\ SettingsOK'
  BY <1>0, <1>1, <1>2, Numbers DEF HandlesOK, RestartOK, HeldOK, SettingsOK, Mismarked, Stays
<1>5. StartOK'
  BY <1>0, <1>1, <1>2, <1>3, Numbers DEF StartOK, Stays
<1> QED
  BY <1>1, <1>4, <1>5 DEF Others

-----------------------------------------------------------------------------
(* The invariant.                                                          *)

LEMMA Initially == ASSUME Init PROVE IInv
<1> USE Numbers
<1>1. TypeOK
  BY InitialTypes
<1>2. ProcsOK /\ HandlesOK /\ RestartOK /\ SettingsOK
  BY DEF Init, ProcsOK, HandlesOK, RestartOK, SettingsOK, Mismarked
<1>3. StartOK
  BY DEF Init, StartOK, Live
<1>4. HeldOK
  BY DEF Init, HeldOK, Live
<1> QED
  BY <1>1, <1>2, <1>3, <1>4 DEF IInv

LEMMA Inductive == ASSUME IInv, Ordered, [Next]_vars PROVE IInv'
<1>0. ProcTypeOK /\ TimerTypeOK /\ CallTypeOK
  BY TypeParts DEF IInv
<1>1. ProcTypeOK' /\ TimerTypeOK' /\ CallTypeOK'
  BY <1>0, ProcTypeStep, TimerTypeStep, CallTypeStep
<1>2. TypeOK'
  BY <1>1 DEF TypeOK, ProcTypeOK, TimerTypeOK, CallTypeOK
<1>3. ASSUME ProcsOK', Others'
      PROVE  IInv'
  BY <1>2, <1>3 DEF IInv, Others
<1>4. CASE UNCHANGED vars
  BY <1>3, <1>4 DEF IInv, Others, ProcsOK, HandlesOK, StartOK, RestartOK, HeldOK, SettingsOK,
                    Mismarked, Live, vars, handleVars, callVars, fileVars, processVars
<1>5. CASE Forks
  BY <1>1, <1>3, <1>5, ForksStep, ForkedKeeps DEF Others
<1>6. CASE ProbeAnswered \/ DiscardThrows \/ ReattachEnds
  BY <1>3, <1>6, StartSteps
<1>7. CASE HealthTimerFires \/ \E d \in Daemons : CheckStep(d)
  BY <1>1, <1>3, <1>7, CheckSteps
<1>8. CASE StopBegins \/ StopEnds
  BY <1>1, <1>3, <1>8, QuitSteps
<1>9. ASSUME NEW c \in Config, SetConfig(c)
      PROVE  IInv'
  BY <1>1, <1>3, <1>9, SettingsSteps
<1>10. ASSUME NEW d \in Daemons, SpawnStep(d)
       PROVE  IInv'
  BY <1>1, <1>3, <1>10, SpawnSteps
<1>11. ASSUME NEW d \in Daemons, DaemonStep(d) \/ StreamOpens(d) \/ Fault(d)
       PROVE  IInv'
  BY <1>1, <1>3, <1>11, DaemonSteps
<1> QED
  BY <1>4, <1>5, <1>6, <1>7, <1>8, <1>9, <1>10, <1>11 DEF Next, StartStep, Forks

LEMMA Invariance == Ordered => (Spec => []IInv)
<1> SUFFICES ASSUME Ordered PROVE Spec => []IInv
  OBVIOUS
<1>1. Init => IInv
  BY Initially
<1>2. IInv /\ [Next]_vars => IInv'
  BY Inductive
<1> QED
  BY <1>1, <1>2, PTL DEF Spec, SafetySpec

\* If settings change only when no restart and no health check is under way, and the
\* daemon of an earlier launch does not hang, at most one daemon accepts requests,
\* whatever dies, hangs, comes late or is stopped otherwise.
THEOREM OneServes == Ordered => (Spec => []OneDaemonServes)
<1>1. IInv => OneDaemonServes
  <2>1. ASSUME IInv, NEW d \in Daemons, NEW e \in Daemons, Answers(d), Answers(e)
        PROVE  d = e
    <3>1. ProcsOK /\ RestartOK /\ HeldOK
      BY <2>1 DEF IInv
    <3>2. Live(d) /\ Live(e)
      BY <2>1, <3>1 DEF Answers, Live, ProcsOK
    <3>3. d = Found \/ e = Found => spawned = 0
      BY <3>1, <3>2 DEF HeldOK
    <3>4. d <= spawned /\ e <= spawned
      BY <2>1, <3>1, <3>2, TypeParts, Numbers DEF IInv, ProcTypeOK, ProcsOK, Live
    <3>5. CASE d = Found \/ e = Found
      BY <3>3, <3>4, <3>5, Numbers
    <3>6. CASE d # Found /\ e # Found
      BY <3>1, <3>2, <3>6, Numbers DEF HeldOK, RestartOK
    <3> QED
      BY <3>5, <3>6
  <2> QED
    BY <2>1 DEF OneDaemonServes
<1> QED
  BY <1>1, Invariance, PTL

\* Under the same condition, when no restart is under way, the daemon the windows
\* are connected to, and the one the next launch would reuse, were launched with the
\* current settings; the only exception is a daemon that was found beside the marker of
\* an earlier one (tryReattach, supervisor.ts 317-329), as ReusedHasSettings shows.
THEOREM SettingsServed == Ordered => (Spec => []CurrentSettingsServed)
<1>1. IInv => CurrentSettingsServed
  <2>1. ASSUME IInv, restarting = {}, Answers(infoFile), marker = mobileConfig
        PROVE  launched[infoFile] = mobileConfig \/ Mismarked(infoFile)
    <3>1. ProcsOK /\ HeldOK /\ SettingsOK
      BY <2>1 DEF IInv
    <3>2. Live(infoFile)
      BY <2>1, <3>1 DEF Answers, Live, ProcsOK
    <3>3. CASE infoFile = Found
      <4>1. marker # NoConfig
        BY <2>1, ConfigAssumption DEF IInv, TypeOK
      <4> QED
        BY <2>1, <3>3, <4>1 DEF Mismarked
    <3>4. CASE infoFile # Found
      BY <2>1, <3>1, <3>2, <3>4, Numbers DEF HeldOK, SettingsOK, Mismarked, Live
    <3> QED
      BY <3>3, <3>4
  <2> QED
    BY <2>1 DEF CurrentSettingsServed, IInv, SettingsOK, Mismarked
<1> QED
  BY <1>1, Invariance, PTL
=============================================================================
