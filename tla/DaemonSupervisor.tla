-------------------------- MODULE DaemonSupervisor --------------------------
(***************************************************************************)
(* The supervisor of the desktop's main process (src/main/daemon/          *)
(* supervisor.ts) and the daemon processes it starts, finds, checks,       *)
(* restarts and stops.                                                     *)
(*                                                                         *)
(* Each async function is cut at its awaits; what it keeps in a local      *)
(* across an await is kept here, and anything else may run in between.  A  *)
(* daemon dies, hangs and comes back on its own; when it is told to stop   *)
(* it closes its listener at once and exits when its open streams are over *)
(* (packages/daemon/src/server.ts).                                        *)
(*                                                                         *)
(* Delays are not modelled: a timer that is set may fire.  Daemon 0 is one *)
(* that an earlier launch of the app left running.                         *)
(***************************************************************************)
EXTENDS Naturals, FiniteSets

CONSTANTS Config,     \* mobile hosting settings
          NoConfig, NoDaemon,
          Overlaps,   \* which of OverlapKinds may happen
          MaxSpawns,  \* bound: daemons this launch of the app forks
          MaxUpsets   \* bound: faults of daemons and changes of the settings

(* What the supervisor does not stand, each allowed only when listed:         *)
(*  "fault in push"       the daemon dies or hangs between its handshake and  *)
(*                        the end of the await of the Linear token            *)
(*  "restart in restart"  settings change while a restart for an earlier      *)
(*                        change waits for the daemon to stop                 *)
(*  "check in restart"    a health check is in flight when settings change,   *)
(*                        or starts while a restart waits                     *)
(*  "check in respawn"    a health check outlives the respawn of the daemon   *)
(*  "slow found"          the daemon of an earlier launch hangs for a while   *)
(*  "stuck stream"        a stream of a daemon that was told to stop stays    *)
(*                        open: its run waits for an answer that cannot come  *)
OverlapKinds ==
  { "fault in push", "restart in restart", "check in restart",
    "check in respawn", "slow found", "stuck stream" }

Found == 0
Daemons == 0 .. MaxSpawns

ASSUME ConfigAssumption == NoConfig \notin Config
ASSUME NoDaemonAssumption == NoDaemon \notin Nat
ASSUME OverlapsAssumption == Overlaps \subseteq OverlapKinds
ASSUME BoundsAssumption == MaxSpawns \in Nat /\ MaxUpsets \in Nat

VARIABLES
  \* the supervisor
  child, connection,       \* the handles; connection is the daemon it names
  respawnTimer, healthTimer,
  mobileConfig,
  \* its calls that wait
  starting,                \* startDaemonSupervisor
  calls,                   \* spawnDaemon, for each daemon it forked
  checking,                \* runHealthCheck: daemons being asked
  restarting,              \* restartDaemon: its locals active and previousChild
  quit, asked,             \* stopDaemonSupervisor and its local active
  \* files in the user data directory
  infoFile,                \* daemon.json: the daemon it names
  marker,                  \* mobile-hosting.runtime.json
  \* daemon processes
  proc,
  launched,                \* the settings in the arguments of a daemon
  told,                    \* daemons that were told to stop
  streams,                 \* daemons with an open event stream
  \* bounds
  spawned, upsets

handleVars  == <<child, connection, respawnTimer, healthTimer>>
callVars    == <<starting, calls, checking, restarting, quit, asked>>
fileVars    == <<infoFile, marker>>
processVars == <<proc, launched, told, streams, spawned>>
vars == <<handleVars, mobileConfig, callVars, fileVars, processVars, upsets>>

ProcState == { "unused", "starting", "serving", "hung", "draining",
               "failed",      \* exited before it listened
               "exited" }
CallState == { "none", "handshake", "push",
               "missed",      \* in push, and the exit event came and went
               "watched",     \* the exit listener is registered
               "over" }

TypeOK ==
  /\ {child, connection, asked, infoFile} \subseteq Daemons \cup {NoDaemon}
  /\ respawnTimer \in BOOLEAN /\ healthTimer \in BOOLEAN
  /\ mobileConfig \in Config
  /\ marker \in Config \cup {NoConfig}
  /\ starting \in {"probing", "discarding", "refusing", "pushing", "spawning", "done"}
  /\ calls \in [Daemons -> CallState]
  /\ checking \subseteq Daemons
  /\ restarting \subseteq [active : Daemons \cup {NoDaemon},
                           previous : Daemons \cup {NoDaemon}]
  /\ quit \in {"no", "asking", "gone"}
  /\ proc \in [Daemons -> ProcState]
  /\ launched \in [Daemons -> Config \cup {NoConfig}]
  /\ told \subseteq Daemons
  /\ streams \subseteq Daemons
  /\ spawned \in 0 .. MaxSpawns
  /\ upsets \in 0 .. MaxUpsets

\* A daemon that is left over wrote daemon.json.  The marker holds any settings: it is
\* written after a handshake and never removed, so when the launcher of the daemon died
\* before the handshake it is that of an earlier one.
Init ==
  /\ child = NoDaemon /\ connection = NoDaemon
  /\ respawnTimer = FALSE /\ healthTimer = FALSE
  /\ mobileConfig \in Config
  /\ starting = "probing"
  /\ calls = [d \in Daemons |-> "none"]
  /\ checking = {} /\ restarting = {}
  /\ quit = "no" /\ asked = NoDaemon
  /\ \E state \in {"exited", "serving"}, c \in Config :
       /\ proc = [d \in Daemons |-> IF d = Found THEN state ELSE "unused"]
       /\ launched = [d \in Daemons |-> IF d = Found THEN c ELSE NoConfig]
       /\ infoFile \in IF state = "serving" THEN {Found} ELSE {Found, NoDaemon}
  /\ marker \in Config \cup {NoConfig}
  /\ told = {} /\ streams = {}
  /\ spawned = 0 /\ upsets = 0

-----------------------------------------------------------------------------
(* Helpers.                                                                *)

intentionalShutdown == quit # "no"
AppRuns == quit # "gone"

\* The daemon accepts a connection and answers in time.
Answers(d) == d \in Daemons /\ proc[d] = "serving"

\* SIGTERM: before the daemon has its handler it dies at once; a hung daemon
\* handles it when it comes back; one that is closing already exits, since close
\* returns at once the second time.
Signalled(state) ==
  CASE state = "starting" -> "failed"
    [] state = "serving"  -> "draining"
    [] state = "draining" -> "exited"
    [] OTHER -> state

AfterKill(d) == [x \in Daemons |-> IF x = d THEN Signalled(proc[x]) ELSE proc[x]]

\* POST /api/shutdown is answered before the daemon closes its listener.
AfterShutdown(d) == [proc EXCEPT ![d] = "draining"]

Tell(d) == told' = told \cup ({d} \ {NoDaemon})

\* Asks daemon a to stop, and kills the process p if a does not answer; the
\* processes that result.
AfterStop(a, p) == IF Answers(a) THEN AfterShutdown(a) ELSE AfterKill(p)

scheduleHealthCheck == healthTimer' = (healthTimer \/ ~intentionalShutdown)

\* Mutant of scheduleRespawn: after the first daemons it gives up.
scheduleFirstRespawn == respawnTimer' = (respawnTimer \/ (~intentionalShutdown /\ spawned < 2))

scheduleRespawn == respawnTimer' = (respawnTimer \/ ~intentionalShutdown)

Upset == upsets < MaxUpsets /\ upsets' = upsets + 1

\* The synchronous part of spawnDaemon; the processes are p so far.
Fork(p) ==
  LET d == spawned + 1 IN
  /\ spawned < MaxSpawns
  /\ spawned' = d
  /\ proc' = [p EXCEPT ![d] = "starting"]
  /\ launched' = [launched EXCEPT ![d] = mobileConfig]
  /\ calls' = [calls EXCEPT ![d] = "handshake"]
  /\ child' = d
  /\ connection' = NoDaemon

\* A call of spawnDaemon by startDaemonSupervisor ends the start.
StartEnds == starting' = IF starting = "spawning" THEN "done" ELSE starting
CallEnds(d, state) == calls' = [calls EXCEPT ![d] = state] /\ StartEnds

-----------------------------------------------------------------------------
(* startDaemonSupervisor.                                                  *)

SpawnsFirst(p) ==
  /\ infoFile' = NoDaemon
  /\ Fork(p)
  /\ starting' = "spawning"
  /\ UNCHANGED <<respawnTimer, healthTimer, mobileConfig, checking, restarting,
                 quit, asked, marker, streams, upsets>>

\* tryReattach: daemon.json is missing or its daemon does not answer.
ProbeFindsNone ==
  /\ starting = "probing" /\ quit = "no"
  /\ ~Answers(infoFile)
  /\ SpawnsFirst(proc)
  /\ UNCHANGED told

\* Mutant of Reusable: a launch that left no marker counts as one with these settings.
ReusableUnmarked == marker \in {mobileConfig, NoConfig}

\* The marker says that the daemon was launched with the current settings.
Reusable == marker = mobileConfig

\* It answers.  It is reused if it has the version of the app and these settings;
\* a daemon of another version is
\* told to stop whether that works or not, one with other settings must stop.
ProbeAnswered ==
  /\ starting = "probing" /\ quit = "no"
  /\ Answers(infoFile)
  /\ \/ /\ starting' = "discarding"
        /\ UNCHANGED connection
     \/ /\ ~Reusable
        /\ starting' = "refusing"
        /\ UNCHANGED connection
     \/ /\ Reusable
        /\ starting' = "pushing"
        /\ connection' = infoFile
  /\ UNCHANGED <<child, respawnTimer, healthTimer, mobileConfig, calls, checking,
                 restarting, quit, asked, fileVars, processVars, upsets>>

DiscardEnds ==
  /\ starting \in {"discarding", "refusing"} /\ quit = "no"
  /\ Answers(infoFile) \/ starting = "discarding"
  /\ SpawnsFirst(AfterStop(infoFile, NoDaemon))
  /\ Tell(infoFile)

\* bootstrap fails, and the app quits.
DiscardThrows ==
  /\ starting = "refusing" /\ quit = "no"
  /\ ~Answers(infoFile)
  /\ quit' = "gone"
  /\ UNCHANGED <<handleVars, mobileConfig, starting, calls, checking, restarting,
                 asked, fileVars, processVars, upsets>>

\* The Linear token is pushed, or that failed.
ReattachEnds ==
  /\ starting = "pushing" /\ AppRuns
  /\ starting' = "done"
  /\ scheduleHealthCheck
  /\ UNCHANGED <<child, connection, respawnTimer, mobileConfig, calls, checking,
                 restarting, quit, asked, fileVars, processVars, upsets>>

-----------------------------------------------------------------------------
(* spawnDaemon, after the fork.                                            *)

\* The handshake message is there, also if its sender has died since.
Handshake(d) ==
  /\ calls[d] = "handshake" /\ AppRuns
  /\ proc[d] \in {"serving", "hung", "draining", "exited"}
  /\ IF child # d
     THEN /\ CallEnds(d, "over")
          /\ UNCHANGED <<connection, marker>>
     ELSE /\ marker' = launched[d]
          /\ connection' = d
          /\ calls' = [calls EXCEPT ![d] = "push"]
          /\ UNCHANGED starting
  /\ UNCHANGED <<child, respawnTimer, healthTimer, mobileConfig, checking,
                 restarting, quit, asked, infoFile, processVars, upsets>>

\* Mutant of HandshakeFails: a daemon that is slow to start is not killed.
HandshakeFailsUnkilled(d) ==
  /\ calls[d] = "handshake" /\ AppRuns
  /\ \/ proc[d] = "failed" /\ UNCHANGED upsets
     \/ proc[d] = "starting" /\ Upset
  /\ CallEnds(d, "over")
  /\ IF child = d
     THEN child' = NoDaemon /\ connection' = NoDaemon /\ scheduleRespawn
     ELSE UNCHANGED <<child, connection, respawnTimer>>
  /\ UNCHANGED <<healthTimer, mobileConfig, checking, restarting, quit, asked,
                 fileVars, proc, told, launched, streams, spawned>>

\* The process exited first, or ten seconds are over.
HandshakeFails(d) ==
  /\ calls[d] = "handshake" /\ AppRuns
  /\ \/ proc[d] = "failed" /\ UNCHANGED upsets
     \/ proc[d] = "starting" /\ Upset
  /\ CallEnds(d, "over")
  /\ IF child = d
     THEN /\ child' = NoDaemon
          /\ connection' = NoDaemon
          /\ proc' = AfterKill(d)
          /\ Tell(d)
          /\ scheduleRespawn
     ELSE UNCHANGED <<child, connection, proc, told, respawnTimer>>
  /\ UNCHANGED <<healthTimer, mobileConfig, checking, restarting, quit, asked,
                 fileVars, launched, streams, spawned>>

\* The process exits while nothing listens for it.
ExitMissed(d) ==
  /\ calls[d] = "push" /\ proc[d] = "exited" /\ AppRuns
  /\ calls' = [calls EXCEPT ![d] = "missed"]
  /\ UNCHANGED <<handleVars, mobileConfig, starting, checking, restarting, quit,
                 asked, fileVars, processVars, upsets>>

\* The push of the Linear token ends, whatever its outcome.
PushEnds(d) ==
  /\ calls[d] \in {"push", "missed"} /\ AppRuns
  /\ scheduleHealthCheck
  /\ CallEnds(d, IF calls[d] = "push" THEN "watched" ELSE "over")
  /\ UNCHANGED <<child, connection, respawnTimer, mobileConfig, checking,
                 restarting, quit, asked, fileVars, processVars, upsets>>

ExitEvent(d) ==
  /\ calls[d] = "watched" /\ proc[d] = "exited" /\ AppRuns
  /\ calls' = [calls EXCEPT ![d] = "over"]
  /\ IF child = d
     THEN /\ child' = NoDaemon
          /\ healthTimer' = FALSE
          /\ connection' = IF intentionalShutdown THEN connection ELSE NoDaemon
          /\ scheduleRespawn
     ELSE UNCHANGED handleVars
  /\ UNCHANGED <<mobileConfig, starting, checking, restarting, quit, asked,
                 fileVars, processVars, upsets>>

RespawnTimerFires ==
  /\ respawnTimer /\ AppRuns
  /\ checking = {} \/ "check in respawn" \in Overlaps
  /\ respawnTimer' = FALSE
  /\ Fork(proc)
  /\ UNCHANGED <<healthTimer, mobileConfig, starting, checking, restarting, quit,
                 asked, fileVars, told, streams, upsets>>

-----------------------------------------------------------------------------
(* runHealthCheck.                                                         *)

HealthTimerFires ==
  /\ healthTimer /\ AppRuns
  /\ restarting = {} \/ "check in restart" \in Overlaps
  /\ healthTimer' = FALSE
  /\ checking' = IF intentionalShutdown THEN checking
                 ELSE checking \cup ({connection} \ {NoDaemon})
  /\ UNCHANGED <<child, connection, respawnTimer, mobileConfig, starting, calls,
                 restarting, quit, asked, fileVars, processVars, upsets>>

CheckSucceeds(d) ==
  /\ d \in checking /\ Answers(d) /\ AppRuns
  /\ checking' = checking \ {d}
  /\ scheduleHealthCheck
  /\ UNCHANGED <<child, connection, respawnTimer, mobileConfig, starting, calls,
                 restarting, quit, asked, fileVars, processVars, upsets>>

\* A child is killed, and its exit event does the rest; a daemon that was found
\* is given up.
CheckFails(d) ==
  /\ d \in checking /\ ~Answers(d) /\ AppRuns
  /\ checking' = checking \ {d}
  /\ infoFile' = NoDaemon
  /\ proc' = AfterKill(child)
  /\ Tell(child)
  /\ IF child = NoDaemon
     THEN connection' = NoDaemon /\ scheduleRespawn
     ELSE UNCHANGED <<connection, respawnTimer>>
  /\ UNCHANGED <<child, healthTimer, mobileConfig, starting, calls, restarting,
                 quit, asked, marker, launched, streams, spawned, upsets>>

-----------------------------------------------------------------------------
(* setMobileHostingConfig and restartDaemon.                               *)

\* The settings window is served once the start is over.  Without a connection
\* the process is killed at once, and only daemon.json is removed before the spawn.
SetConfig(c) ==
  LET call == [active |-> connection, previous |-> child] IN
  /\ starting = "done" /\ quit = "no"
  /\ c # mobileConfig
  /\ restarting = {} \/ ("restart in restart" \in Overlaps /\ call \notin restarting)
  /\ checking = {} \/ "check in restart" \in Overlaps
  /\ Upset
  /\ mobileConfig' = c
  /\ restarting' = restarting \cup {call}
  /\ respawnTimer' = FALSE /\ healthTimer' = FALSE
  /\ child' = NoDaemon
  /\ IF connection = NoDaemon
     THEN proc' = AfterKill(child) /\ Tell(child)
     ELSE UNCHANGED <<proc, told>>
  /\ UNCHANGED <<connection, starting, calls, checking, quit, asked, fileVars,
                 launched, streams, spawned>>

\* The shutdown request is answered or has failed; daemon.json is removed.
RestartEnds(call) ==
  /\ call \in restarting /\ AppRuns
  /\ restarting' = restarting \ {call}
  /\ infoFile' = NoDaemon
  /\ IF call.active = NoDaemon
     THEN Fork(proc) /\ UNCHANGED told
     ELSE /\ Fork(AfterStop(call.active, call.previous))
          /\ Tell(IF Answers(call.active) THEN call.active ELSE call.previous)
  /\ UNCHANGED <<respawnTimer, healthTimer, mobileConfig, starting, checking, quit,
                 asked, marker, streams, upsets>>

-----------------------------------------------------------------------------
(* stopDaemonSupervisor, and the end of the app.                           *)

\* The app is gone and takes the processes it forked with it.
AppEnds(p) ==
  /\ quit' = "gone"
  /\ child' = NoDaemon
  /\ proc' = [d \in Daemons |->
               IF d # Found /\ p[d] # "unused" THEN "exited" ELSE p[d]]

StopBegins ==
  /\ starting = "done" /\ quit = "no"
  /\ respawnTimer' = FALSE /\ healthTimer' = FALSE
  /\ asked' = connection
  /\ connection' = NoDaemon
  /\ IF connection = NoDaemon
     THEN AppEnds(proc)
     ELSE quit' = "asking" /\ UNCHANGED <<child, proc>>
  /\ UNCHANGED <<mobileConfig, starting, calls, checking, restarting, fileVars,
                 launched, told, streams, spawned, upsets>>

StopEnds ==
  /\ quit = "asking"
  /\ AppEnds(AfterStop(asked, child))
  /\ Tell(IF Answers(asked) THEN asked ELSE child)
  /\ UNCHANGED <<connection, respawnTimer, healthTimer, mobileConfig, starting,
                 calls, checking, restarting, asked, fileVars, launched, streams,
                 spawned, upsets>>

-----------------------------------------------------------------------------
(* A daemon process.                                                       *)

ProcessStep == UNCHANGED <<handleVars, mobileConfig, callVars, marker, launched,
                           told, spawned>>

\* The daemon listens, writes daemon.json and sends its handshake.
Listens(d) ==
  /\ proc[d] = "starting" /\ AppRuns
  /\ proc' = [proc EXCEPT ![d] = "serving"]
  /\ infoFile' = d
  /\ UNCHANGED <<streams, upsets>>
  /\ ProcessStep

StreamOpens(d) ==
  /\ Answers(d) /\ connection = d /\ AppRuns
  /\ streams' = streams \cup {d}
  /\ UNCHANGED <<proc, infoFile, upsets>>
  /\ ProcessStep

\* The run of the stream ends.  If it waits for the user, the answer needs a
\* connection that a closed listener no longer takes.
StreamEnds(d) ==
  /\ d \in streams /\ AppRuns
  /\ proc[d] = "draining" => "stuck stream" \notin Overlaps
  /\ streams' = streams \ {d}
  /\ UNCHANGED <<proc, infoFile, upsets>>
  /\ ProcessStep

\* close has waited for the open connections.
Exits(d) ==
  /\ proc[d] = "draining" /\ d \notin streams /\ AppRuns
  /\ proc' = [proc EXCEPT ![d] = "exited"]
  /\ UNCHANGED <<infoFile, streams, upsets>>
  /\ ProcessStep

InPush(d) == child = d /\ calls[d] \in {"handshake", "push"} /\ proc[d] # "starting"

Dies(d) ==
  /\ proc[d] \in {"starting", "serving", "hung", "draining"} /\ AppRuns
  /\ InPush(d) => "fault in push" \in Overlaps
  /\ Upset
  /\ proc' = [proc EXCEPT ![d] = IF @ = "starting" THEN "failed" ELSE "exited"]
  /\ streams' = streams \ {d}
  /\ UNCHANGED infoFile
  /\ ProcessStep

\* It does not answer for longer than the timeouts of the supervisor.
Hangs(d) ==
  /\ proc[d] = "serving" /\ AppRuns
  /\ InPush(d) => "fault in push" \in Overlaps
  /\ d = Found => "slow found" \in Overlaps
  /\ Upset
  /\ proc' = [proc EXCEPT ![d] = "hung"]
  /\ UNCHANGED <<infoFile, streams>>
  /\ ProcessStep

ComesBack(d) ==
  /\ proc[d] = "hung" /\ AppRuns
  /\ proc' = [proc EXCEPT ![d] = IF d \in told THEN "draining" ELSE "serving"]
  /\ UNCHANGED <<infoFile, streams, upsets>>
  /\ ProcessStep

-----------------------------------------------------------------------------
StartStep == ProbeFindsNone \/ ProbeAnswered \/ DiscardEnds \/ DiscardThrows
             \/ ReattachEnds
SpawnStep(d) == Handshake(d) \/ HandshakeFails(d) \/ ExitMissed(d) \/ PushEnds(d)
                \/ ExitEvent(d)
CheckStep(d) == CheckSucceeds(d) \/ CheckFails(d)
DaemonStep(d) == Listens(d) \/ StreamEnds(d) \/ Exits(d) \/ ComesBack(d)
Fault(d) == Dies(d) \/ Hangs(d)

Next ==
  \/ StartStep \/ RespawnTimerFires \/ HealthTimerFires
  \/ StopBegins \/ StopEnds
  \/ \E c \in Config : SetConfig(c)
  \/ \E call \in restarting : RestartEnds(call)
  \/ \E d \in Daemons :
       SpawnStep(d) \/ CheckStep(d) \/ DaemonStep(d) \/ StreamOpens(d) \/ Fault(d)

SafetySpec == Init /\ [][Next]_vars

\* Timers fire and calls return; a daemon comes up or is given up, a hung one
\* comes back, a stream and a stopping daemon end.  Nothing has to fail, to be
\* changed or to be stopped, and no stream has to be opened.
Fairness ==
  /\ WF_vars(StartStep) /\ WF_vars(RespawnTimerFires) /\ WF_vars(HealthTimerFires)
  /\ WF_vars(StopEnds)
  /\ WF_vars(\E call \in restarting : RestartEnds(call))
  /\ \A d \in Daemons : /\ WF_vars(SpawnStep(d)) /\ WF_vars(CheckStep(d))
                        /\ WF_vars(Listens(d)) /\ WF_vars(ComesBack(d))
                        /\ WF_vars(Exits(d)) /\ WF_vars(StreamEnds(d))
Spec == SafetySpec /\ Fairness

-----------------------------------------------------------------------------
(* Properties.                                                             *)

\* At most one daemon accepts requests: each recovers and dispatches the messages
\* of the one database when it starts.
OneDaemonServes ==
  \A d, e \in Daemons : Answers(d) /\ Answers(e) => d = e

\* The marker is that of a daemon before the one that was found.
Mismarked(d) == d = Found /\ marker \notin {NoConfig, launched[Found]}

\* When no restart is under way, the daemon the windows are connected to, and the
\* one the next launch would reuse, were launched with the current settings, except
\* one that was found with the marker of an earlier daemon (ReusedHasSettings).
CurrentSettingsServed ==
  restarting = {} =>
    /\ connection # NoDaemon =>
         launched[connection] = mobileConfig \/ Mismarked(connection)
    /\ Answers(infoFile) /\ marker = mobileConfig =>
         launched[infoFile] = mobileConfig \/ Mismarked(infoFile)

\* "Only reuse a running daemon when it was launched with the current mobile hosting
\* config" (supervisor.ts 317): the daemon of an earlier launch that the windows are
\* connected to has the settings of this one.
ReusedHasSettings ==
  connection = Found /\ restarting = {} => launched[Found] = mobileConfig

\* Once faults and changes of the settings cease, the windows are connected to a
\* daemon that answers, for good, or the app has been quit.
EventuallyServed == <>[](quit = "gone" \/ Answers(connection))
=============================================================================
