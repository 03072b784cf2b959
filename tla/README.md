# A TLA+ model of angel-engine

This directory is a verification project for angel-engine: TLA+ modules
translated from the source, TLC configurations that check them on small
instances, and theorems that the TLAPS proof system checks for every value of
the constants. Paths are relative to the root of the repository.

- [The system](#the-system)
- [Modules](#modules)
- [How the code is read](#how-the-code-is-read)
- [Runs](#runs)
- [Bounds](#bounds)
- [Fairness](#fairness)
- [Proofs](#proofs)
- [Disagreements found](#disagreements-found)
- [Not modelled](#not-modelled)
- [Plan](#plan)

## The system

A **daemon** (`packages/daemon`) keeps chats in an SQLite database and runs
coding agents for them. Desktop windows, phones and a CLI are clients of its
HTTP API. A chat message becomes a *run*; the daemon hands it to a *session* of
an agent. Sessions of Codex and of the ACP agents go through a native engine in
Rust (`crates/`); those of Claude and Pi are written in TypeScript
(`packages/claude-client`, `packages/pi-client`).

```
 desktop renderer   mobile   host-cli
        \             |        /
         HTTP + server-sent events
                      |
   daemon   routes (api.ts) --- run registry --- activity store
                 |                  |                 ^
         queued_chat_runs       streamChat        process entries
             (SQLite)               |
                      +-------------+-------------+
             DesktopAngelSession              Claude / Pi session
                      |
          AngelSession (native, one mutex per session)
                      |
     engine reducer + pending requests + Codex / ACP adapter
                      |
              stdin / stdout of the agent process
```

| Component | State it keeps | Operations | What makes it hard | What makes it correct |
| --- | --- | --- | --- | --- |
| Activity store, `features/chat/activity.ts` | one entry per chat: run, status, prompt, lost process, grace timer | start, apply, resolveInput, cancel, clearChat, acknowledge, replaceProcessEntries, timer | events of a run arrive in any order around Stop, a lost process, the timer and the next run | the first end of a run stands; an entry waits exactly for the prompt it names; a lost process shows, and hides no question |
| Run registry, `features/chat/run-registry.ts` | runs by id and by chat, retired ids, snapshot with one pending prompt, observers | reserve, begin, the run's own task, resolveElicitation, stop, discardChat, observe | every await lets other handlers in; a result may come while an answer is pending | one run per chat; a run that goes on can be answered, and ends |
| Queued runs, `features/chat/repository.ts`, `db/schema.ts` | one row per run and chat: queued or dispatching | insert, claim, complete, cancel, clear, recover | a crash between any two steps | a message is never sent twice without the user, never lost silently |
| Routes, `api.ts` | handlers between two awaits; the recovery promise | start, Stop, answer, clear, delete, acknowledge | the handlers of different clients interleave | registry, table and activity agree |
| Engine runtime, `features/chat/engine-runtime.ts`, `chat-session-factory.ts`, `process-registry.ts` | sessions by chat, creations under way, prewarmed sessions, the entries mirrored in the process registry | streamChat, create, import, load, modes, agent change, prewarm, claim, close | creations shared by requests; a prewarmed session is trimmed, claimed and refused across awaits; one failed lookup stops the mirror | a session has one owner, or is closed; a chat talks to its own agent; the mirror follows the sessions |
| `DesktopAngelSession`, `features/chat/desktop-angel-session.ts` | the running send, the wait for an answer | sendText, cancelNativeTurn, abort | Stop in every phase | Stop ends the message without the user |
| `AngelSession`, `crates/angel-engine-client/src/session` | the active turn, the prompt shown | start_text_turn, next_turn_event, resolve_elicitation, cancel_turn, hydrate | lines of the agent come between the calls | the prompt shown is open; each is answered once |
| Engine reducer, `crates/angel-engine/src/reducer` | conversations: turns, actions, elicitations, lifecycle; pending requests | plan commands, apply events | late and duplicate notifications | at most one live turn; a finished turn leaves nothing running |
| Adapters, `crates/angel-provider/src` | none: they translate ids and messages | encode, decode | ids known only after a response | every line changes the right turn |
| Process client, `crates/angel-engine-client/src/process*.rs` | the child process, its pipes | spawn, read with timeout, share, stop | death in mid turn | a dead process is noticed |
| Claude session, `packages/claude-client` | the operation queue, the query with its turn, tool permissions waiting, `replayedSessionId` | send, load, canUseTool, resolve, abort | several permissions at once, answered late; turns that end by throwing; the session file holds the live turns, too | a turn ends settled, is shown once and goes on in its session file; Stop ends it |
| Pi session, `packages/pi-client` | the operation queue, the agent process, requests by id with a timer each, the active turn, `replayedSessionId` | send, load, abort, close; start, prompt, replay, time out, fail | awaits between the start, the prompt and its `agent_end`; timers; death in any phase | what is shown is what Pi has; no process is left behind; Stop ends the message |
| Desktop supervisor, `desktop/src/main/daemon`, and the listening of the daemon, `server.ts` | child and connection handles, two timers, the calls that wait; `daemon.json` and the marker of settings; daemon processes | probe, reattach, fork, handshake, health check, respawn, restart, quit; listen, shut down | daemons die, hang, come back and outlive their supervisor; restarts and checks overlap | one daemon answers, with the current settings, and the windows get it back |
| Updater, notifications, `desktop/src/main` | update state | check, download, install | progress events | one update at a time |
| Renderer and mobile, `desktop/src/renderer/features/chat/state`, `mobile/src/features/chat` | a slot per chat with its view and stream, the event socket, refetched history | send, Stop, attach, follow, hint, refetch, reload | snapshot and events, hints and history come over three connections, each of which may break | what is shown is a true part of the answer, and in the end all of it |

## Modules

| Module | Models | Composition |
| --- | --- | --- |
| `ActivityRecord` | one entry of the activity store, as functions from an entry to an entry: start, stream events, answers, cancel, acknowledge, process seen or lost, grace timer over | used by the next two |
| `ChatActivity` | the whole activity store: every method is an action, callers are constrained to what the registry and the handlers do | `EXTENDS ActivityRecord` |
| `ChatRuns` | routes, run registry, `queued_chat_runs`, execution of a run, activity entries, crash and recovery of the daemon | `EXTENDS ActivityRecord` |
| `MessageDelivery` | an abstract specification: what the daemon promises about one message (stored, held, given, revoked, closing, unsure) | |
| `ChatRunsDelivery` | the refinement mapping: where a message is, read off its row and its execution | `EXTENDS ChatRuns`, instance of `MessageDelivery` |
| `Conversation` | the engine's reducer for one conversation, as functions from a conversation to a conversation | used by `CodexSession` and `ClaudeSession` |
| `CodexSession` | `DesktopAngelSession` over `AngelSession`, the reducer, the pending-request table and the Codex adapter, against an agent at the other end of two pipes | `EXTENDS Conversation` |
| `ChatSessions` | the sessions of the daemon: session map with shared creation, prewarm pool, the requests that create, use, re-agent and delete chats, the mirror in the process registry | stands alone; shares with `ChatRuns` the code of the routes, not the state |
| `RunViews` | what a window shows of the runs of one chat: observers of the registry with their queues, the event stream, the slot and its loop, attaching, hints, refetched history, reload | stands alone; the run is the active slot of `ChatRuns` seen from outside |
| `DaemonSupervisor` | the supervisor of the desktop app over the daemon processes it finds, forks, checks, restarts and stops, with `daemon.json` and the settings marker | stands alone; a daemon that answers is what the other modules call the daemon |
| `PiSession` | `PiAgentSession` over `PiRpcClient`, against a Pi process at the other end of two pipes | stands alone; to `ChatRuns` it is a session like the others |
| `ClaudeSession` | `ClaudeCodeSession` with its runtime and permissions over the reducer, one run of the registry, the row of the chat, against the vendor's SDK and its session files | `EXTENDS Conversation`; the run is one of `ChatRuns` with concurrent prompts |
| `MCChatActivity`, `MCChatRuns`, `MCCodexSession`, `MCChatSessions`, `MCRunViews`, `MCDaemonSupervisor`, `MCPiSession`, `MCClaudeSession` | the instances for TLC | |
| `ChatActivity_proofs`, `ChatRuns_proofs`, `ChatSessions_proofs`, `RunViews_proofs`, `DaemonSupervisor_proofs`, `PiSession_proofs`, `CodexSession_proofs`, `ClaudeSession_proofs` | lemmas and theorems | extend the module they are about |

`PROJECT.json` maps every definition to the lines it translates. The
correspondence in short:

- **ChatActivity.** `activity[c]` is the value of `#activities` for a chat
  (status, run, prompt, `pendingSuccess`, `hadRootPid`, `lossMatured`, and
  whether a grace timer is armed). `rootPids` is `#rootPids` without the
  numbers. `registered`, `reported` and `unused` stand for the callers: a run id
  is started once, events come only for the run the registry has, and a run
  reports at most one result. An answer may be reported for any run at any
  time, because its handler resumes after an await.
- **ChatRuns.** `rows`, `chats`, `archived` and `runtime` are the database; `run`, `byChat` and
  `retired` the registry; `exec` the progress of `execute` (claim, prepare,
  stream, complete), which goes on when the registry has forgotten the run;
  `prompts`, `opened` and `answering` the prompts of the session; `start`,
  `stop`, `clear` and `remove` the handlers that wait for an await. `accepted`,
  `sent`, `stopped` and `crashes` are history.
- **CodexSession.** `conv` is the `ConversationState`, `pending` the
  pending-request table, `activeTurn` the session's `ActiveTurn`, `desktop` the
  place in `sendTextNow`, `toAgent` and `toClient` the pipes. `alive`, `agent`, `asks`
  and `items` are the agent, which is external. `answers` and `early` (a Stop came
  before the turn had its id) are history.
- **ChatSessions.** `row` is the chats table (agent and remote thread); `sessionOf`,
  `creations` and `prewarms` are the three maps of `ChatEngine`; `inspecting` the
  prewarmed sessions that are not ready; `agentOf` says which sessions are open,
  and for whom; `processes` and `talking` are what `processId` and
  `hasConversation` answer; `request` holds the requests that wait for an await;
  `refreshing` and `entries` are the refresh queue and the entries of
  `ChatProcessRegistry`.
- **RunViews.** `active`, `emitted` and `state` are the registry's run and its
  `lastEventSequence`; `loop[r].queue` is the delivery queue of the observer
  together with the stream behind it; `slot` and `view` are the slot of
  `ChatRunStore` and the messages in it, `earlier` what is shown of a run above its last
  answer; `sending` is `startRun` while it waits for
  the Stop of the run before; `attach` is `attachToActiveRun`; `socket` and `hint`
  the event socket and the timer of `daemon-events.tsx`; `load` the refetch of
  `chat-conversation-sync.ts`.
- **DaemonSupervisor.** `child`, `connection`, `respawnTimer`, `healthTimer` and
  `mobileConfig` are the variables of `supervisor.ts`; `starting`, `calls`,
  `checking`, `restarting`, `quit` and `asked` its functions that wait, with their
  locals; `infoFile` and `marker` the two files; `proc`, `launched`, `told` and
  `streams` the daemons as `server.ts` has them behave. Daemon 0 is one an earlier
  launch left running, or none.
- **PiSession.** `kind`, `op`, `phase` and `done` are the operation queue of
  `PiAgentSession` and the await its operation is in; `aborted` the abort signals of
  the runs; `client` is `piSession` with the state of its `PiRpcClient`; `turns`,
  `history` and `replayed` the conversation of the engine and `replayedSessionId`;
  `alive`, `toAgent` and `toClient` the process and its pipes. `agent` and `file`,
  the prompt Pi works on and its session file, are external; `shown` is history.
- **ClaudeSession.** `conv` is the conversation of the engine, `history` how often
  `history.replay` holds a turn; `session` the fields of the session object and its
  runtime, `permissions` its `pendingPermissions`; `op` and `waiting` the operation
  queue; `run` the registry's run with its pending elicitation and abort signal; `row`
  the remote thread id of the chat. `claude`, `stream` and `files`, the query, what it
  has written and the session files, are external.

## How the code is read

**Segments.** JavaScript runs from one `await` to the next without
interruption, so each action of `ChatRuns` is such a segment, and other handlers
run in between. A database call takes effect at the start of the segment that
follows its await. How long a call takes is not assumed: the client is used
through promises. Where the code continues through promises alone (the session
takes an answer, the registry continues, the route tells the activity store),
the burst is one action (`AnswerTaken`).

**The native session** holds a mutex for the whole of a call, so a call is one
action. Only `cancel_turn`, which reads lines until the turn is over, is one
action per line, since the agent writes meanwhile.

**Merged.** The update and the select of `beginQueuedChatRunDispatch` are one
step, as are the queries of a recovery and the synchronous loop that starts what
it found; and the check that a chat is archived and its deletion. The deletion of all
chats is a deletion of each. The two cancel requests that a failed cancellation may leave are one
element of `pending`, which is a set.

**The agent of CodexSession.** It works on one turn at a time, answers
`turn/start` before it ends the turn, may say that the turn started before or
after that answer, withdraws what it asks before it ends a turn, says that the
thread is idle or in system error before or after the turn is completed, and has
no other client. It may die at any moment: what it wrote can still be read, what was
written to it is lost, and every call that would write, or read past the end, fails.
The catch block of `sendTextNow` then tries to cancel a message that was stopped,
which marks the turn and writes nothing. The dead session stays in the daemon's map
and refuses messages until its chat is closed or given another agent, since only
those routes close a session (`api.ts` 221, 309, 378); the model ends with that
session.

**Sessions.** In `ChatSessions` a session is an identity: what it says to its
agent is left out, but for the two answers the engine asks for. A prewarmed
session is made for an agent in the directory of a project; projects are left
out, so that the key of the pool is the agent (a project that is deleted between
`engine-runtime.ts` 595 and 219 leaves the new session open, which is a hazard no
module covers). `closeChatPrewarm` closes an entry and deletes its *key*: a claim that
is refused, and an inspection that fails, take whatever the pool has for that agent
by then. A refresh of the process registry
is one action: its lookups see the table at one moment, and a change while it
waits queues another one, as a change of a subscribed session does. The
archived flag is left out: a chat is archived and restored at any time, nothing
else here depends on it, so `DeleteArchived` may take any chat. Ids of chats and
sessions are taken again only when nothing refers to them any more.

**Views.** The content of an answer is the sequence of its event numbers: a
snapshot after event *k* is 1..*k*, an event appends its number, so a gap or a
repetition shows. `run.started` adds the question and a new answer to what is shown,
also when the slot already shows the run. Of the answers above the last one of a run,
which do not change any more, `earlier` keeps that there are some and whether one of
them is marked as complete, not their content and number.
That text arrives in batches is left out, as are the history of
a run that is still active (its messages are stored when it ends), the query cache
in front of the history, and prompts (`ChatRuns` has them). The loop of a slot that
is given up settles before the network brings it anything, as its abort is local.
Other clients start and stop runs, but what they show is the same question again.

**The supervisor.** A function is cut at its awaits. Delays are not modelled: a
timer that is set may fire. A daemon that is told to stop closes its listener at
once and exits when its streams are over. A quit while the start is under way is
left out. The marker of the settings is written after a handshake and never removed, so
at launch it may hold any settings, whatever daemon is found beside it.

**The Pi session** works off one operation at a time. What waits for a response is
known by its phase, as there is one such request at a time; a response nobody waits
for any more is read and dropped. A line that does not parse kills the process, which
is the same as a death. A process that dies between a prompt and its response rejects
two promises, of which only one is awaited at that moment; that the other rejection
goes unhandled is left out. A client that has failed stays in `piSession` and refuses
messages until the session of the chat is closed.

**The Claude session** works off one operation at a time, too, but answers to
permissions come in between. The SDK is read as one stream: a permission request
comes after the messages written before it. That `streamChat` and `loadChatSession`
store the remote id after the operation has ended, not with its end, is left out, and
so is the row of a queued run, which a restart would send again (`ChatRuns`). A session
file is named by the turn that began it.

**Overlaps of requests on runs.** The constant `Overlaps` of `ChatRuns` names five overlaps of
client requests that the code does not exclude: a Stop or an ambiguous-run clear
while a start request of the same run or chat is handled (for the clear, until the
run has claimed its row), the deletion of a chat then, a Stop while the daemon
still recovers, and an archived chat restored while its run goes on. A client that
waits for the answer of its own request does not cause the first four; another client, or a window closed
and opened again, can. What holds under all of them is checked and proved for
all of them. For the rest, one overlap at a time on the instance of
`chat_runs_native` (each run accepted once):

| | stop during start | clear during start | delete during start | stop during recovery | restore during run |
| --- | --- | --- | --- | --- | --- |
| `RegistryAgrees`, `NeverResent` | holds | holds | holds | holds | holds |
| `OpenPromptIsAnswerable` | holds | holds | holds | holds | holds |
| `NoPhantomActivity` (part of `ActivityIsTrue`) | **fails** | holds | holds | holds | holds |
| `InFlightIsDurable`, `DeliversMessages` | holds | fails | holds | fails | holds |
| `ActivityFollowsRun` (part of `ActivityIsTrue`) | holds | fails | holds | fails | fails |
| `StopIsFinal` | fails | holds | holds | fails | holds |

So `chat_runs_native` and `chat_runs_live` allow "delete during start" and no
other. How wide these windows are depends on the
database client: they are the time between two awaits, and a driver that settles
within one turn of the event loop closes most of them. The bold entry
is the one a user can see: the start handler has reserved the run and awaits the
insert of its row (`api.ts` 485-495); a Stop drops the reservation and finds no row
to cancel; then the row is inserted and `activity.start` marks a chat that has no
run. The row stays queued, blocks the chat, and is dispatched when the daemon
restarts (`QueuedIsDispatched` fails with it). "Restore during run" needs no race:
archiving clears the activity of a chat whose run goes on (`api.ts` 231), and when
the chat is restored it shows nothing of the run, although no other can be started
while it goes on. The table is of native sessions; with Claude sessions "delete during
start" breaks `ActivityIsTrue` too: the deletion drops a reservation, a second run takes
the chat and is kept for its prompt by a late success, and then the first start request
stores its row and marks the chat as its own.

**Overlaps of requests on sessions.** `ChatSessions` has a constant of the same
kind. One overlap at a time, with two sessions:

| | use during delete | use during agent change | prewarm twice | prewarm in claim | claim fails | archived in use |
| --- | --- | --- | --- | --- | --- | --- |
| `OneOwner` | holds | holds | holds | holds | holds | holds |
| `SessionsAreOwned` | fails | holds | fails | fails | fails | fails |
| `AgentMatches` | holds | fails | holds | holds | holds | holds |
| `MirrorIsCurrent` | fails | holds | holds | holds | holds | **fails** |

"Use during delete" is the deletion of a chat between the read of its row and the
moment its session is in the map: the session is then stored for a chat that is
gone. "Prewarm twice": the second entry of a key overwrites the first, whose
session nothing closes. "Prewarm in claim": a claim has taken the entry of a key and
compares it across an await (272); another request stores a new entry under that key;
the claim is refused, and `closeChatPrewarm` deletes the key (189) and with it the new
entry, whose session nothing closes. "Claim fails": the request that has taken a prewarmed
session out of the pool fails before there is a chat (the project is gone, the
insert is refused), and the session is in no map. These are windows between
awaits and failures of single calls, and what leaks is a session and its agent
process. "Archived in use" needs no race at all (see
[Disagreements found](#disagreements-found)); `chat_sessions` allows no overlap.

**Overlaps in the window.** `ShownIsTrue` holds under all of the following, and is proved
so; under "end before attach" it does not say that a finished answer is shown once.
`EventuallyCurrent` fails under each of them alone:

| Overlap of `RunViews` | What happens |
| --- | --- |
| hint before done | The hint that a run has ended is handled while the window still reads the stream of that run; it is dropped as its own. If the stream then breaks off, an error stays in place of the answer. |
| hint while sending | The hint, or the history it asked for, is handled while the slot shows a message the daemon has not accepted; it is dropped, and nothing asks again. |
| end before attach | The run ends between the answer that it is active and the slot's request for its stream, which is refused. The slot shows the error of a chat with no run, and the answer is missing. When the history was refetched meanwhile, the finished answer stays above it: the only way in which a finished answer is shown with another of its run. |

The hint waits 150 ms before it is handled, which usually orders it after the
stream, but nothing ensures it; reloading the window or the next hint cures all
three.

**Overlaps in the supervisor.** One overlap at a time:

| Overlap of `DaemonSupervisor` | `OneDaemonServes` | `CurrentSettingsServed` | `EventuallyServed` |
| --- | --- | --- | --- |
| fault in push | proved | proved | fails: the exit listener is registered after the await of the push, and an exit before it is seen by nobody |
| check in respawn | proved | proved | fails: a check that outlives the respawn kills the new child, so that spawns within any bound do not suffice |
| stuck stream | proved | proved | fails: a daemon that was told to stop waits for a stream whose run waits for the user |
| restart in restart | fails: two restarts fork a daemon each | fails (4 spawns) | holds |
| check in restart | fails: the check fails against the daemon that is being stopped and schedules a respawn of its own | fails (4 spawns) | fails |
| slow found | fails: the probe of a daemon that hangs for a while finds none, and it comes back | holds | holds |

"Check in restart" is what the comment at `supervisor.ts` 495-496 means to exclude
(the child is detached so that its exit handler "does not trigger an extra
respawn"): the exit handler does not, but a health check in flight does.

**Overlaps in the Pi session.** One at a time, with three operations. The second
column holds for the whole of `ConversationIsTrue` unless a part is named; what it
says is proved for any number of operations.

| Overlap of `PiSession` | `ConversationIsTrue` | `ProcessIsOwned` | `StopEnds` |
| --- | --- | --- | --- |
| stop while starting | holds | holds | fails: the listener is added just before the prompt (`session.ts` 252), and a signal that has fired before is not seen |
| close while starting | `ShownOnce` fails | fails: `close` finds no process yet and does nothing; a queued operation even starts one after it | holds |
| prompt refused | holds | holds | fails: the refusal is not looked at (`rpc-client.ts` 134-146), and no `agent_end` comes |
| prompt times out | `EventsAreOwn` and `ShownOnce` fail: the turn that was given up goes on, and its events and its end go to the next message | holds | holds |
| send before load | `HistoryIsWhole` fails (run `lost_history`) | holds | holds |

The first four are races or faults, and `pi_session` allows none of the five. The last
is neither.

**Overlaps in the Claude session.** One at a time, on the instance of
`claude_session`, which allows none. The columns are parts of `TurnEndsClean` (the
first; its other parts hold under each) and of `ConversationIsTrue`, and `StopEnds`.

| Overlap of `ClaudeSession` | `FinishedTurnIsSettled` | `ShownOnce` | `HistoryIsWhole` | `ContextIsKept` | `StopEnds` |
| --- | --- | --- | --- | --- | --- |
| prompts outlive turn | fails: the late permission below | holds | holds | holds | fails: the signal comes with the end of the stream, and the run stays for its prompt until a second Stop |
| throws unmarked | holds | fails: the stopped first message below | holds | fails: a message that follows a stopped first one before the chat is loaded finds no remote id in the row (`session.ts` 277), and begins a new session file in which Claude knows nothing of the first | holds |
| send before load | holds | holds | fails, as in `lost_history` | holds | holds |

"Throws unmarked" is a Stop or a death in the first turn of a session file, after its
init message; before that message, and in later turns, `claude_session` has both.

## Runs

| Run | Question | What it shows |
| --- | --- | --- |
| `chat_activity` | Does the entry of a chat tell the truth about its run in any order of events? | It waits exactly for the prompt it names, also when a success comes first. It is stuck only when its process is lost. The first end stands. Process changes hide no question. A lost process is noticed (liveness). |
| `chat_runs_native` | Do table, registry, activity and turn agree for the native sessions? | A message the agent works on is marked in the table; what the user sees follows the registry; no phantom runs; an open prompt can be answered; a stopped message is not sent later; the maps of the registry agree; no message is handed over more often than it was accepted. All of it implements `MessageDelivery`: a message goes to the agent once, is dropped only when the user asks, and after a crash that cut off its claim only the user decides. With two accepts per run id, one crash, and chats deleted or archived at any moment. |
| `chat_runs_live` | Does everything end? | A queued row is dispatched or deleted, also with the concurrent prompts of Claude, where a run kept after a success has a prompt that can be answered. With native sessions Stop ends a run, and a user who answers sees every run end. With a crash and a second accept. |
| `codex_session` | Is the engine's state right at every line, with Stop, or the death of the agent, at any time? | At most one live turn; a finished turn leaves nothing running or open; the client is never ahead of the agent; the prompt shown is the open one; each request is answered once. While the agent lives, and unless a Stop came before the turn had its id, an idle session has no turn and no request stays pending. Every send and every Stop ends, also when the agent dies. |
| `chat_sessions` | Does every agent session have one owner, the right agent, and an entry in the process registry? | No session is left open for nothing; chats, pool and claiming requests share none and keep none that is closed; a chat's session and thread belong to the agent of its row; the mirror follows the sessions once no refresh is queued. |
| `run_views` | Does a window show what the daemon has? | No answer with a gap, a repetition or a wrong end, with runs of its own and of others and a lost stream, socket or renderer at any moment; when a run is shown more than once, no finished answer is; and in the end every answer whole and once. |
| `daemon_supervisor` | Does the app have one daemon, the right one? | At most one daemon accepts requests, the windows' one has the current settings (unless it was found beside the marker of another daemon), and after the last fault they are connected again for good. |
| `pi_session` | Is a chat on Pi what Pi has, over failed starts, timeouts, Stop and death? | Each event is shown in its own turn, each turn once, and none is missing after a load; a process that runs is in a field that can stop it; a message that is stopped ends. |
| `claude_session` | Is a chat on Claude true, over tools that ask together, Stops, deaths and restarts? | A finished turn leaves nothing running or open; each turn is shown once and none is missing after a load; the next message is taken and goes on in the session file of the chat; a prompt that is shown can be answered; a run that is stopped ends. |
| `lost_prompt`, `stop_before_turn_id`, `lost_history` | Disagreements | See below. |

Safety runs of `ChatRuns` use `SafetySpec`, since fairness does not matter for
them. The deadlock check is on in all of them. It is off in the runs of
`RunViews`, `DaemonSupervisor` and `PiSession`, which really stop: when the
bound of messages is used and all is shown, when the app has quit, and when the
session is closed or its operations are used up. The type invariants of
all modules but `ClaudeSession` are proved, and no run repeats them; that of
`ClaudeSession` holds on the instance of `claude_session` and is not proved.

## Bounds

- `Runs` has two elements, so that two runs of one chat compete for the slot of
  the registry, the row and the activity entry; `MCChatOf` puts both in one chat,
  as runs of different chats share nothing but the database. Three runs would
  only add more of the same competition: each structure has one place per chat.
- `MaxAccepts` bounds how often one run id is stored (twice: once and again after
  a crash has emptied the retired ids). `MaxCrashes` is 1: a crash resets all that
  is in memory, and what a second one finds is what the first one found, with a
  larger `accepted`.
- `Inputs` has one or two prompts; two where they matter together. A prompt is
  opened once in the life of a process.
- `chat_runs_live` has one run, as symmetry and two runs would cost liveness
  checking too much; competition is a question of the safety runs.
- `CodexSession`: two turns (a message after one that failed, completed or was
  stopped), one item (approvals refer to it), two server requests,
  so that two are open together. The bound on turns shows as a refusal of the third
  message.
- `ChatSessions`: two chats and two agents, so that a session can be at the wrong
  one; two requests at the same time, since an interleaving that matters here is
  between two (a use and a delete, two claims, a claim and a trim) or between a
  request and a creation, an inspection or a refresh, which are actions of their
  own; three sessions, so that the pool, a chat and a claiming request have one
  each; a pool of one (`MAX_PREWARM_SESSIONS` is 4), so that every second prewarm
  trims.
- `RunViews`: two runs, so that one ends while the next is sent, and one started
  elsewhere replaces one of the window; two events each (one and the end), so that a
  stream can break before, between and after; one fault (`ShownIsTrue` was tried with
  two and passes, also under all overlaps).
- `DaemonSupervisor`: three daemons forked besides the one found (the first, a
  respawn or restart, and one that competes with it), and two upsets, so that a
  fault meets a change of the settings or another fault. The invariant of the
  proofs was checked with four and three.
- `PiSession`: four operations, so that a message follows one that failed or was
  stopped, with the chat loaded before it or between; two events that wait, so that
  events of a turn are unread while the next operation begins. `lost_history` needs
  three operations only.
- `ClaudeSession`: three messages, so that one follows a turn that was stopped or died
  and one follows that; two tools, so that both ask at once; any number of loads (two
  that wait together do what one does) and restarts.
- Symmetry (of runs, prompts, chats, agents, sessions and requests) is used in the
  safety runs of `ChatRuns` and in those of `ChatSessions` only; no liveness
  property is checked with it.
- The registry forgets the oldest of more than 4096 retired ids; `retired` never
  forgets.

## Fairness

- `ChatActivity`: an armed timer that is not cleared fires.
- `ChatRuns`: `DaemonFairness` says that database calls return and their handlers
  continue, which is what the event loop does. `AgentFairness` says that a turn
  starts or fails to, ends when nothing is asked of the user, and ends when it is
  aborted; sessions pass the abort on and drain. Client requests have no
  fairness. `UserFairness`, that a shown prompt is answered, is not part of
  `Spec`: it is the premise of `RunEnds`.
- `CodexSession`: the session's loops go on (they poll with a timeout of 50 ms),
  and the agent, until it dies, reads its input and ends a turn in which it asks
  nothing, or that is interrupted. That the user answers is the premise of `SendEnds`, and
  `StopEnds` does without it.
- `ChatSessions` states no fairness, as its properties are invariants.
- `RunViews`: requests arrive or fail and are answered, loops go on, timers fire,
  sockets open again. That a run ends (by itself, by an answer of the user or by a
  Stop) is strong fairness, since it is disabled while its observers are served;
  `chat_runs_live` shows that runs end.
- `DaemonSupervisor`: timers fire, calls return, a daemon comes up or its handshake
  is given up, one that hangs comes back, streams and stopping daemons end. Faults,
  changes of settings and quitting have none, and are bounded: the claim is about the
  time after the last of them.
- `PiSession`: the session goes on with what it has, reads what is there and notices
  an exit; the agent reads its input and ends a turn that was interrupted. Users,
  timers and a turn that nobody interrupts have none.
- `ClaudeSession`: the session goes on with what it has read and what has failed.
  Claude, users and loads have none: `StopEnds` does not depend on them.

## Proofs

All theorems hold for every value of the constants that satisfies the named
assumptions (the null value is no run, each run has a chat, the bounds are
numbers, overlaps are among the kinds the module lists). A theorem that holds without
some overlaps excludes exactly those for which the tables above say that the property
fails, and allows every other combination.

| Theorem | States |
| --- | --- |
| `ChatActivity_proofs!TypeCorrect` | `Spec => []TypeOK` |
| `ChatActivity_proofs!WaitingIsNamed` | `Spec => []WaitingNamesItsInput` |
| `ChatActivity_proofs!StuckIsLost` | `Spec => []StuckMeansProcessLost` |
| `ChatActivity_proofs!TerminalStays` | `Spec => TerminalIsFinal` |
| `ChatActivity_proofs!InputSurvivesProcessLoss` | `Spec => ProcessLossKeepsInput` |
| `ChatRuns_proofs!TypeCorrect` | `SafetySpec => []TypeOK` |
| `ChatRuns_proofs!RegistryMapsAgree` | `SafetySpec => []RegistryAgrees` |
| `ChatRuns_proofs!MessageNeverResent` | `SafetySpec => []NeverResent` |
| `ChatRuns_proofs!LateSuccessCanBeAnswered` | `SafetySpec => []LateSuccessIsAnswerable` |
| `ChatRuns_proofs!OpenPromptCanBeAnswered` | `SafetySpec => []OpenPromptIsAnswerable`, with native sessions |
| `ChatRuns_proofs!InFlightHasRow` | `SafetySpec => []InFlightIsDurable`, without "clear during start", "stop during recovery" |
| `ChatRuns_proofs!MessagesAreDelivered` | `SafetySpec => DeliversMessages`, without these two |
| `ChatRuns_proofs!StopHolds` | `SafetySpec => StopIsFinal`, without "stop during start", "stop during recovery" |
| `ChatRuns_proofs!ActivityTellsTheTruth` | `SafetySpec => []ActivityIsTrue`, without these three and "restore during run", and with Claude sessions without "delete during start" |
| `ChatSessions_proofs!TypeCorrect` | `Spec => []TypeOK` |
| `ChatSessions_proofs!SessionHasOneOwner` | `Spec => []OneOwner` |
| `ChatSessions_proofs!SessionsOwned` | `Spec => []SessionsAreOwned`, without "use during delete", "archived in use", "prewarm twice", "prewarm in claim", "claim fails" |
| `ChatSessions_proofs!AgentsMatch` | `Spec => []AgentMatches`, without "use during agent change" |
| `ChatSessions_proofs!MirrorCurrent` | `Spec => []MirrorIsCurrent`, without "use during delete", "archived in use" |
| `RunViews_proofs!TypeCorrect` | `Spec => []TypeOK` |
| `RunViews_proofs!ShownTrue` | `Spec => []ShownIsTrue` |
| `DaemonSupervisor_proofs!TypeCorrect` | `Spec => []TypeOK` |
| `DaemonSupervisor_proofs!OneServes` | `Ordered => (Spec => []OneDaemonServes)` |
| `DaemonSupervisor_proofs!SettingsServed` | `Ordered => (Spec => []CurrentSettingsServed)` |
| `PiSession_proofs!TypeCorrect` | `Spec => []TypeOK` |
| `PiSession_proofs!NoProcessIsLost` | `Spec => []ProcessIsOwned`, without "close while starting" |
| `PiSession_proofs!NoForeignEvents` | `Spec => []EventsAreOwn`, without "prompt times out" |
| `PiSession_proofs!NoHistoryIsLost` | `Spec => []HistoryIsWhole`, without "send before load" |
| `PiSession_proofs!ConversationCorrect` | `Spec => []ConversationIsTrue`, without these three |
| `CodexSession_proofs!TypeCorrect` | `Spec => []TypeOK` |
| `CodexSession_proofs!ActiveTurnsLive` | `Spec => []ActiveTurnsAreLive` |
| `CodexSession_proofs!FinishedTurnsSettled` | `Spec => []FinishedTurnIsSettled` |
| `CodexSession_proofs!NotAhead` | `Spec => []ClientIsNotAhead` |
| `CodexSession_proofs!ShownOpen` | `Spec => []ShownRequestIsOpen` |
| `CodexSession_proofs!AnsweredAtMostOnce` | `Spec => []AnsweredOnce` |
| `CodexSession_proofs!IdleHasNoTurn` | `Spec => []IdleSessionHasNoTurn` |
| `CodexSession_proofs!NothingLeftPending` | `Spec => []PendingIsInFlight` |
| `ClaudeSession_proofs!TypeCorrect` | `Spec => []TypeOK` |
| `ClaudeSession_proofs!SessionGoesOn` | `Spec => [](NextMessageIsTaken /\ PromptIsAnswerable)` |
| `ClaudeSession_proofs!TurnsEndClean` | `Spec => []TurnEndsClean`, without "prompts outlive turn" |
| `ClaudeSession_proofs!ConversationTrue` | `Spec => []ConversationIsTrue`, without "throws unmarked", "send before load" |

*ChatActivity.* An entry is `Coherent` with the presence of its process or is not, and
each function of `ActivityRecord` keeps coherence (`ChatRuns_proofs` has the same
lemmas for the functions it uses). The inductive invariant is that every entry is coherent
with `rootPids`; the two state properties are parts of it. The action properties
follow from what one step can make of one entry (`EntryStep`): nothing, removal,
or one function of `ActivityRecord`.

*ChatRuns.* `NeverResent` says `sent <= accepted` and is not inductive: nothing
in it stops a second send. The invariant `IInv` adds

- `Budget`: a message that is queued, or whose execution has not reached the
  agent yet, was accepted once more than it was sent; and an execution beyond
  its claim has no queued row. So there is one token per accept, held by the row
  or by the execution, and the claim (a single conditional update) hands it on.
- `Occupied`: an execution that goes on belongs to a run whose id is registered
  or retired, and a start request under way belongs to a run that does not
  execute. So no second accept meets an execution of the same run.
- `OneRowPerChat`: what recovery starts is at most one run per chat, so the
  registry's maps agree afterwards.
- `ActivityOK` and `TypeOK`, which the types of the steps need.

The steps are grouped: most only move the registry (`MovesKeepRegistry`) and
leave the accounts alone (`CalmKeepsAccounts`); reserving, accepting, claiming,
sending, the crash and the recovery have a lemma each.

The other properties tie a run to what somebody else does with it at the same time,
and need more to be known. Each layer is inductive on top of the ones before:

- `RunsOK`, for every run, what its turn, a Stop and a clear in progress leave of its
  row and its place in the registry. `InFlightIsDurable` and
  `StopIsFinal` follow. With the same two overlaps excluded, `Place` maps every step
  to a step of `MessageDelivery` or a stutter (`MessagesAreDelivered`, one case per
  action): the turn of a claimed message is the only thing that may hand it to the
  agent, and what the crash and the recovery make of a row is what the abstract
  message allows.
- `PromptsOK`, which prompts of a session are open, shown, being answered or queued
  behind an answer. It holds for both runtimes; that a native session asks for one
  thing at a time then gives `OpenPromptIsAnswerable`. (For Claude sessions
  `lost_prompt` shows it false.)
- `KeptAreOK`, why a run that has started is in the registry: it executes, or a late
  success, which needs no row any more, keeps it for its prompt.
- `Agreement`, the entry of a chat against the run of the registry: whose it is, that
  it is live exactly while that run is, and that no entry is live before the
  recovery. A chat that is being deleted, an archived chat and a run that is aborted
  are the exceptions it has to name. `ActivityIsTrue` is its consequence.

*ChatSessions.* `OneOwner` holds under every overlap, but not by itself: a step
that takes a session out of the pool must know that it is in the pool once. The
invariant adds `PoolKeysDiffer` (the sessions of the pool are of different agents,
as the map has one entry per key), `InspectedIsFree` (a session under inspection is
neither a chat's nor claimed) and `RequestsNamed` (what each waiting request
carries). Most steps only release sessions (`ReleaseKeeps`) or move none
(`QuietKeeps`); claim, insert, creation, the store of a prewarmed session and a
failed inspection have a lemma each.

The other three properties each need what the requests that overlap know of each
other; TLC checked every part with the largest set of overlaps that it allows, before
it was proved.

- `Known`, under every overlap: a request carries a chat and an agent, a row names its
  agent, and a session is made only for a chat that has none, while a request waits
  for it. So a creation never replaces a session.
- `Apart`: a session is of a chat that exists, and a deletion that goes on meets no
  session and no request that is about to open one. With it `MirrorIsCurrent` is
  inductive: each step that changes which session of which chat has a process queues a
  refresh, or changes sessions of no chat (a claimed session that is refused, trimming,
  a failed inspection), which `OneOwner` tells apart.
- `AgentsOK`: the session, the thread, the session being made and the request that uses
  it are of the agent of the row; a claimed session is of the agent of its request once
  it has been compared; a change of the agent meets no other request of the chat, and
  once it has passed its checks no session and no thread. It rests on
  `StepSameAgents`: a session keeps its agent as long as it is open.
- `AllOwned` and `KeysAlone`: an open session is in the pool, claimed or of a chat, and
  the pool has no session of an agent for which one is being made (`WarmingAlone`) or a
  claimed one is to be refused (`RefusedAlone`). Otherwise storing a prewarmed session
  would overwrite an entry, and a refusal delete one, and leak its session.
  Whether the chat exists is left to `Apart`.

*RunViews.* What a window shows is true because of what is still on its way. The
invariant says of the queue of every open stream (`QueuesOK`) that its messages are
consecutive, begin with a snapshot or where the view ends, and go on to the last
event the daemon has emitted, with `done` last; of an attachment (`AttachOK`) and a
refetched history (`LoadOK`) that what they read was true when they read it and only
grows; and of the states of runs, sends and loops what the steps rely on. A run's
events are never emitted again, which is why a stale snapshot is a prefix. For the
answers above the last one of a run, `ReadOK` says that a run the slot is about to
follow is not over, unless that overlap is allowed; so its answer is not complete when
it is moved up (`EarlierStarted`).

*DaemonSupervisor.* The invariant accounts for every daemon that may answer
(`HeldOK`): it is the supervisor's child, or the one a restart waits for, or the one
found at launch while nothing has been forked; `HandlesOK`, `StartOK` and
`RestartOK` say which of the three can be at a time, and `SettingsOK` follows the
settings from the arguments of a fork to the connection. What the marker says at launch
is not assumed to be true: `Mismarked` is the case in which it names other settings than
the found daemon has, and it lasts as long as the windows are connected to that daemon,
since only the handshake of a child writes the marker. `Ordered` excludes the three
overlaps under which the table above shows a second daemon; type correctness needs
no such assumption.

*PiSession.* An event or an `agent_end` does not say on the wire whose it is, so that
each is shown in its own turn must come from the pipes: they hold nothing of a turn but
the one at work (`TurnOK`). One prompt is written, its events come after it and its end
last, and the operation does not end before that unless the process does. So what Pi
has beyond the old turns is what the engine has or the turn at work (`LoadOK`); until
the file counts as replayed, an answer to `get_messages` holds old turns alone
(`OnceOK`); and a process is in a field of the session from its start on (`OwnedOK`).
Each part is an invariant of its own, under the overlaps it needs to exclude.

*CodexSession.* What the engine may believe of a turn depends on what is unread in two
pipes, so the invariant ties them to both ends. `TurnOK`: a `turn/start` on its way is
the only one, of the session's turn, while the agent is at rest and nothing about a
turn is unread; every unread line about a turn is about the session's turn, and its end
comes last. `ConvOK`: the engine's active turns are the live ones, one at most, and
what has finished is settled. `ItemsOK` and `RequestsOK`: an item or a request of a line
is new or of that turn, each is asked once, and one that is open has had no answer.
`ShownOK`: what is shown is the open one. `SessionOK`: while a message is under way the
session has its turn. A lemma for each function of `Conversation` says what it keeps
(`TurnStartedOK` and the like), `TurnLineOK` what a line does to the engine, and
`ClientStepOK` and `AgentStepOK` what a step of either end has to show. TLC checked the
invariant on the instance of `codex_session` before it was proved. The eight
theorems, all invariants of the run among them, are its consequences.

*ClaudeSession.* Three invariants, the last two each on top of the first.

- `Base`, under every overlap: Claude is at work exactly while the session sends, on the
  turn of the run, which is the only active one (`WorkOK`, `LiveOK`). What Claude writes
  last is the result and the end (`StreamOK`). What it has used is an action of the
  conversation, or will be when the message that begins it is read, which comes once
  and before the result of the tool (`ItemsOK`); without that a result could be of an
  action nobody has heard of. A pending permission has its elicitation and its action, of
  one turn (`PermissionsOK`). `SessionGoesOn` follows.
- `Settles`, without "prompts outlive turn": what runs, awaits a decision or is open is
  of the active turn, and a prompt that is shown, or is about to be, is of a tool that
  still asks or whose result is not read yet (`Due`). Claude does not end a turn while a
  tool asks, so at the end of the stream no prompt is left.
- `Truth`, without "throws unmarked" and "send before load", follows the session file:
  from the query, which begins one exactly when the row has none (`QueryOK`), by the
  init message, the first one (`StartOK`), to the session, and by the end of the operation
  to the row (`RowOK`). A turn that has not begun is in no file (`NewOK`). A file that is
  not the row's holds at most the turn that began it, and a conversation into which
  nothing was loaded shows nothing (`FilesOK`), so that a replay repeats nothing.

TLC checked the parts on the instance of `claude_session` before they were proved.

*Model-checked only*: the liveness properties (the prover has no rules for fairness).
Every invariant and action property of the runs is a theorem. Two definitions of
the models were rewritten for the proofs, to the same values: a `CASE` whose guards
overlap has no determined value, so that `Place` of `ChatRunsDelivery` and
`NextRequest` of `CodexSession` use `IF` for them.

## Disagreements found

- **`lost_prompt`** (`run-registry.ts` 394-416). Claude asks for the permissions of
  parallel tools at once, and a snapshot has one pending prompt. The second
  replaces the first; when it is answered the run is shown as running, while the
  first tool waits and no answer to it is accepted (the comment there says what
  must not happen: "the run would look like it is still working").
- **`stop_before_turn_id`** (`desktop-angel-session.ts` 179-200,
  `crates/angel-provider/src/codex/ids.rs` 55). A Stop before Codex has told the
  id of the turn marks the turn as cancelling, then fails to encode the
  interrupt. The failure is ignored and the send throws. Nothing was sent to the
  agent and nothing is drained, though `agent-ui-state-machine.md` 215 asks for
  both; the session keeps its active turn and refuses the next message.
- **`lost_history`** (`packages/pi-client/src/session.ts` 281, 397). A message that
  ends makes its session file count as replayed. When the first thing a session does
  for an old chat is to send a message (after a restart of the daemon, by a recovered
  run, from another client, or because the first load failed), the conversation holds
  that message alone, and every later load (`engine-runtime.ts` 565-592) shows it
  without the ones before, until the session is closed.
  `desktop/docs/agent-runtime-qa-checklist.md` 29-30 asks that a restart or a hydrate
  lose no messages. The Claude session does the same
  (`claude-client/src/session.ts` 478, `session-runtime.ts` 278-285).

Two more need no overlap: TLC finds them in a second when the named property is added as
an `INVARIANT` to the named configuration.

- **The run shown twice** (`RunShownOnce` in `MCRunViews.cfg`; `chat-run-store.ts`
  274-310, `chat-run-slot-machine.ts` 124-136). A Stop only tells the run to end, and the
  slot that was stopped is idle. The next hint, that of the start of the run or that of
  the Stop itself, finds the run still active and attaches the slot to it: its question
  and a new answer are added below the question and the cancelled part that are shown
  already. The comment at `chat-conversation-sync.ts` 17-20 calls this reaction
  idempotent. A stream that breaks off while its run goes on ends the same way at the
  next hint. The history that is fetched after the end of the run makes up for it
  (`EventuallyCurrent`).
- **The old marker** (`ReusedHasSettings` in `MCDaemonSupervisor.cfg`; `supervisor.ts`
  317-329, `mobile-hosting.ts` 50-58). The marker is what the settings of a found daemon
  are known by. It is written after the handshake and never removed, so that a launcher
  that dies before the handshake leaves the marker of the daemon before. If the settings
  are changed back to those while the app is closed, the daemon is reused with the
  others, which the comment at 317 excludes. A marker that cannot be written (line 56
  speaks of a missing one) does the same.

Three need a value of `Overlaps` that the passing runs exclude; TLC finds them in a
few seconds when it is added to the named configuration.

- **Deleted from the archive** ("archived in use" in `MCChatSessions.cfg`: `SessionsAreOwned`
  and `MirrorIsCurrent`;
  `packages/daemon/src/api.ts` 324-327). Deleting
  archived chats deletes their rows and closes no session, and archiving closes
  none. The session stays in the map with its process, and every later refresh of
  the process registry looks its chat up, fails, and replaces nothing
  (`process-registry.ts` 43), though it "mirrors live chat sessions into the process
  registry" (line 6). From then on no chat opened later has an entry and no lost
  process is noticed, until that agent's process ends, all chats are deleted or the
  daemon restarts; nothing in the daemon ends the agent of the deleted chat alone.
- **The late permission** ("prompts outlive turn" in `MCClaudeSession.cfg`:
  `FinishedTurnIsSettled`; `elicitation_events.rs` 74). Two tools of Claude ask. The user
  cancels the first, which interrupts the turn while the request of the second is
  already there; the turn ends, and the run stays for the answer (`run-registry.ts`
  284). If the second is then allowed, the reducer sets its action running in a turn
  that has ended, against `angel-engine-state-machine-design.md` 448 ("turn terminal
  后，所有非终态 action 必须变成 …"), and nothing ends it. It takes that Claude gives no
  result for the second tool when it is interrupted, which is external.
- **The stopped first message** ("throws unmarked" in `MCClaudeSession.cfg`: `ShownOnce`;
  `packages/claude-client/src/session.ts` 244, 478). When
  the first message of a chat is stopped or fails, its turn is in the conversation and
  in the session file, and the file is not marked as replayed. The next load stores
  the remote id, and the one after replays the file: the chat shows the turn twice.
  `agent-runtime-qa-checklist.md` 379 asks that what is restored is what was shown.

## Not modelled

- The content of messages: `ChatRuns` keeps of an event what changes status, prompts
  and the end of a run, `RunViews` its number.
- The deletion of a custom agent, which closes its chats' sessions.
- Sessions opened for one call (importable sessions, runtime config); the project
  and directory of a prewarmed session.
- Rows whose JSON does not parse, which recovery deletes. (A recovery that fails is
  one that never ends, which only the liveness runs exclude.)
- Process ids (only their presence), timestamps, titles, attachments, settings.
- In the Pi session: `setMode` and `inspect`, which do what a load does and less; the
  questions of extensions, which are declined at once; which model and effort are set.
- In the Claude session: models, modes and efforts, `inspect` and the mode operations,
  leaving plan mode, the content and the deltas of messages, closing the session alone.
- In the engine: steering, history, goals, context, plans, hydration of a
  conversation, capabilities of other agents; the ordered event queue of the turn
  collector; a `start_text_turn` on a thread that is not open yet.
- The other components of the table above that no module names, as the plan says;
  files, terminals, git, projects, links, settings and authentication are I/O
  around single calls; `apps/website` and `vendor` are no part of the program.

## Plan

Done: `ChatActivity`, `ChatRuns` and its refinement of `MessageDelivery`,
`CodexSession`, `ChatSessions`, `RunViews`, `DaemonSupervisor`, `PiSession`,
`ClaudeSession`, the runs and the theorems above. What is left, in this order:

1. The phone (`mobile/src/features/chat/use-conversation.ts`), which follows the
   same stream and rereads after a gap, as a second window of `RunViews`.
2. `AgentProcess`: spawning a process client and sharing it between sessions
   (`process_manager.rs`, `runtime.rs`); its death is in `CodexSession`.
3. `AcpSession`: the second protocol over `Conversation`, where the response to
   the prompt ends the turn.
4. The updater.
5. Theorems about what these modules add, and about the properties alone that the
   tables combine (`ShownOnce` with a message before the load, for one).
