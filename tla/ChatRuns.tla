------------------------------ MODULE ChatRuns ------------------------------
(***************************************************************************)
(* Chat runs of the daemon: the route handlers of packages/daemon/src/     *)
(* api.ts over the process-local ChatRunRegistry (features/chat/           *)
(* run-registry.ts), the durable queued_chat_runs table (repository.ts),   *)
(* the activity projection (activity.ts) and the provider turn that        *)
(* streamChat runs (engine-runtime.ts and the chat session).               *)
(*                                                                         *)
(* A handler is a sequence of segments, one action each: it runs without   *)
(* interruption from one await to the next, and other handlers run in      *)
(* between.  A database call takes effect at the start of the segment that *)
(* follows it.  The daemon may crash between any two segments; what is in  *)
(* memory is lost, the table stays, and the restarted daemon first         *)
(* recovers the rows that were never dispatched.                           *)
(*                                                                         *)
(* The observers of a run and its message content are left out, and so are *)
(* the process entries (module ChatActivity).                              *)
(***************************************************************************)
EXTENDS ActivityRecord, Naturals, FiniteSets

CONSTANTS Chats, NoRun,
          ChatOf,         \* the chat a client starts a run in
          Runtimes,       \* the runtimes whose agents chats may have
          Overlaps,       \* client requests that may overlap a handler
          MaxAccepts,     \* bound: how often one run id is accepted
          MaxCrashes      \* bound: crashes of the daemon

\* Requests that clients may send while a start request for the same run or chat
\* is being handled, for "clear during start" up to the claim of the run; and, for
\* the last two, while the daemon still recovers or a run of the chat goes on.
OverlapKinds ==
  { "stop during start", "clear during start", "delete during start",
    "stop during recovery", "restore during run" }

ASSUME RunsAssumption == NoRun \notin Runs
ASSUME ChatOfAssumption == ChatOf \in [Runs -> Chats]
ASSUME RuntimesAssumption == Runtimes \subseteq {"native", "claude"}
ASSUME OverlapsAssumption == Overlaps \subseteq OverlapKinds
ASSUME BoundsAssumption == MaxAccepts \in Nat \ {0} /\ MaxCrashes \in Nat

VARIABLES
  \* durable
  rows,        \* queued_chat_runs: the state of the row of each run
  chats,       \* chats that exist
  archived,    \* those among them that are archived
  runtime,     \* the runtime of the agent of each chat
  \* the registry
  run,         \* #activeById
  byChat,      \* #activeByChat
  retired,     \* #retiredRunIds
  activity,    \* ChatActivityStore
  \* the execution of a run, which outlives the registry entry
  exec,        \* progress of execute
  aborted,     \* runs whose AbortController has fired
  prompts,     \* prompts the session is waiting for
  opened,      \* prompts the session has ever opened
  answering,   \* prompts whose answer is on its way to the session
  \* handlers between two awaits
  start,       \* POST /api/chat-runs/:runId
  stop,        \* DELETE /api/chat-runs/:runId
  clear,       \* DELETE /api/chats/:chatId/ambiguous-run
  remove,      \* DELETE /api/chats/:id
  recovered,   \* queuedRunRecovery has settled
  \* history
  stopped,     \* runs whose Stop was answered after their last start request
  accepted,    \* how often the run was stored for dispatch
  sent,        \* how often its message was handed to the agent
  crashes

durableVars  == <<rows, chats, archived, runtime>>
registryVars == <<run, byChat, retired>>
execVars     == <<exec, aborted, prompts, opened, answering>>
handlerVars  == <<start, stop, clear, remove, recovered>>
historyVars  == <<stopped, accepted, sent, crashes>>
vars == <<durableVars, registryVars, activity, execVars, handlerVars, historyVars>>

RowState == {"none", "queued", "dispatching"}
Phase == {"idle", "claiming", "preparing", "streaming", "completing"}

NoRecord == [status |-> "absent"]
ActiveRun ==
  [ status : {"running", "needsInput"},
    pending : Inputs \cup {NoInput},     \* snapshot.pendingElicitation
    started : BOOLEAN,
    completed : BOOLEAN,                 \* providerCompleted
    handler : BOOLEAN ]                  \* resolveElicitation is set

Execution == [phase : Phase, claimed : BOOLEAN, ok : BOOLEAN]
NotExecuting == [phase |-> "idle", claimed |-> FALSE, ok |-> FALSE]

TypeOK ==
  /\ rows \in [Runs -> RowState]
  /\ chats \subseteq Chats
  /\ archived \subseteq chats
  /\ runtime \in [Chats -> Runtimes]
  /\ run \in [Runs -> ActiveRun \cup {NoRecord}]
  /\ byChat \in [Chats -> Runs \cup {NoRun}]
  /\ retired \subseteq Runs
  /\ activity \in [Chats -> StoredActivity \cup {NoActivity}]
  /\ exec \in [Runs -> Execution]
  /\ aborted \subseteq Runs
  /\ prompts \in [Runs -> SUBSET Inputs]
  /\ opened \in [Runs -> SUBSET Inputs]
  /\ answering \in [Runs -> SUBSET Inputs]
  /\ start \in [Runs -> {"idle", "checking", "inserting"}]
  /\ stop \in [Runs -> {"idle", "cancelling", "unknown"}]
  /\ clear \in [Chats -> {"idle", "reading", "deleting"}]
  /\ remove \in [Chats -> {"idle", "deleting"}]
  /\ recovered \in BOOLEAN
  /\ stopped \subseteq Runs
  /\ accepted \in [Runs -> Nat]
  /\ sent \in [Runs -> Nat]
  /\ crashes \in Nat

Init ==
  /\ rows = [r \in Runs |-> "none"]
  /\ chats = Chats
  /\ archived = {}
  /\ runtime \in [Chats -> Runtimes]
  /\ run = [r \in Runs |-> NoRecord]
  /\ byChat = [c \in Chats |-> NoRun]
  /\ retired = {}
  /\ activity = [c \in Chats |-> NoActivity]
  /\ exec = [r \in Runs |-> NotExecuting]
  /\ aborted = {}
  /\ prompts = [r \in Runs |-> {}]
  /\ opened = [r \in Runs |-> {}]
  /\ answering = [r \in Runs |-> {}]
  /\ start = [r \in Runs |-> "idle"]
  /\ stop = [r \in Runs |-> "idle"]
  /\ clear = [c \in Chats |-> "idle"]
  /\ remove = [c \in Chats |-> "idle"]
  /\ recovered = FALSE
  /\ stopped = {}
  /\ accepted = [r \in Runs |-> 0]
  /\ sent = [r \in Runs |-> 0]
  /\ crashes = 0

-----------------------------------------------------------------------------
(* The registry *)

Registered(r) == run[r] # NoRecord

\* The run record that reserve creates.
Reservation ==
  [ status |-> "running", pending |-> NoInput, started |-> FALSE,
    completed |-> FALSE, handler |-> FALSE ]

\* materialize: what an event does to the snapshot.
Materialized(a, event) ==
  CASE event.type = "opens" ->
         [a EXCEPT !.pending = event.input, !.status = "needsInput"]
    [] event.type = "closes" /\ a.pending = event.input ->
         [a EXCEPT !.pending = NoInput, !.status = "running"]
    [] OTHER -> a

\* #emit: a run that has left the registry emits nothing.  onEvent hands the
\* event to the activity store.
Emit(r, event) ==
  IF Registered(r)
  THEN /\ run' = [run EXCEPT ![r] = Materialized(@, event)]
       /\ activity' = [activity EXCEPT ![ChatOf[r]] = Applied(@, r, event)]
  ELSE UNCHANGED <<run, activity>>

\* Mutant of Remove: the chat stays taken.
RemoveKeepsChat(r) ==
  IF Registered(r)
  THEN /\ run' = [run EXCEPT ![r] = NoRecord]
       /\ retired' = retired \cup {r}
       /\ UNCHANGED byChat
  ELSE UNCHANGED registryVars

\* #remove
Remove(r) ==
  IF Registered(r)
  THEN /\ run' = [run EXCEPT ![r] = NoRecord]
       /\ byChat' = [byChat EXCEPT ![ChatOf[r]] = IF @ = r THEN NoRun ELSE @]
       /\ retired' = retired \cup {r}
  ELSE UNCHANGED registryVars

\* DesktopAngelSession waits for one prompt at a time; Claude asks for several tool
\* permissions at once.
OnePromptAtATime(r) == runtime[ChatOf[r]] = "native"

\* Mutant of Abort: a session that waits for an answer does not notice.
AbortKeepsPrompt(r) ==
  /\ aborted' = aborted \cup {r}
  /\ UNCHANGED <<prompts, exec>>

\* abortController.abort(): DesktopAngelSession, when it waits for an answer,
\* gives the prompt and the turn up at once.
Abort(r) ==
  /\ aborted' = aborted \cup {r}
  /\ IF OnePromptAtATime(r) /\ exec[r].phase = "streaming" /\ prompts[r] # {}
     THEN /\ prompts' = [prompts EXCEPT ![r] = {}]
          /\ exec' = [exec EXCEPT ![r].phase = "completing"]
     ELSE UNCHANGED <<prompts, exec>>

\* #finish after the events of `last` were emitted: done, then #remove.
Finish(r, last) ==
  IF Registered(r)
  THEN /\ activity' = [activity EXCEPT ![ChatOf[r]] =
                         Applied(Applied(@, r, last), r, Done)]
       /\ Remove(r)
  ELSE UNCHANGED <<activity, registryVars>>

-----------------------------------------------------------------------------
(* POST /api/chat-runs/:runId *)

\* The handler waits for the recovery, then reserves the run.
StartReserves(r) ==
  /\ recovered
  /\ start[r] = "idle"
  /\ accepted[r] < MaxAccepts
  /\ stop[r] = "idle"
  /\ "clear during start" \in Overlaps \/ clear[ChatOf[r]] = "idle"
  /\ "delete during start" \in Overlaps \/ remove[ChatOf[r]] = "idle"
  /\ ~ Registered(r)
  /\ r \notin retired
  /\ ~ IsCurrent(activity[ChatOf[r]], r)
  /\ byChat[ChatOf[r]] = NoRun
  /\ run' = [run EXCEPT ![r] = Reservation]
  /\ byChat' = [byChat EXCEPT ![ChatOf[r]] = r]
  /\ start' = [start EXCEPT ![r] = "checking"]
  /\ aborted' = aborted \ {r}
  /\ stopped' = stopped \ {r}
  /\ UNCHANGED <<durableVars, retired, activity, exec, prompts, opened,
                 answering, stop, clear, remove, recovered, accepted, sent,
                 crashes>>

AmbiguousRuns(c) == {r \in Runs : ChatOf[r] = c /\ rows[r] = "dispatching"}
RowsOf(c) == {r \in Runs : ChatOf[r] = c /\ rows[r] # "none"}

\* queueChatRun refuses a chat with an ambiguous run; the handler then stops
\* its own reservation, if a Stop has not done so yet.
StartChecks(r) ==
  /\ start[r] = "checking"
  /\ IF AmbiguousRuns(ChatOf[r]) = {}
     THEN /\ start' = [start EXCEPT ![r] = "inserting"]
          /\ UNCHANGED registryVars
     ELSE /\ start' = [start EXCEPT ![r] = "idle"]
          /\ Remove(r)
  /\ UNCHANGED <<durableVars, activity, execVars, stop, clear, remove,
                 recovered, historyVars>>

\* The insert fails on a second row of the run or the chat and on a deleted
\* chat.
InsertRefused(r) == RowsOf(ChatOf[r]) # {} \/ ChatOf[r] \notin chats

StartFails(r) ==
  /\ start[r] = "inserting"
  /\ InsertRefused(r)
  /\ start' = [start EXCEPT ![r] = "idle"]
  /\ Remove(r)
  /\ UNCHANGED <<durableVars, activity, execVars, stop, clear, remove,
                 recovered, historyVars>>

\* The row is stored; the handler marks the chat active, observes the run and
\* begins it.  Observing a run that is no longer registered fails.
StartAccepts(r) ==
  /\ start[r] = "inserting"
  /\ ~ InsertRefused(r)
  /\ rows' = [rows EXCEPT ![r] = "queued"]
  /\ accepted' = [accepted EXCEPT ![r] = @ + 1]
  /\ activity' = [activity EXCEPT ![ChatOf[r]] = Started(@, r, FALSE)]
  /\ start' = [start EXCEPT ![r] = "idle"]
  /\ IF Registered(r)
     THEN /\ run' = [run EXCEPT ![r].started = TRUE]
          /\ exec' = [exec EXCEPT ![r].phase = "claiming"]
     ELSE UNCHANGED <<run, exec>>
  /\ UNCHANGED <<chats, archived, runtime, byChat, retired, aborted, prompts, opened,
                 answering, stop, clear, remove, recovered, stopped, sent, crashes>>

-----------------------------------------------------------------------------
(* execute, and the continuation of #run *)

\* Mutant of Claim: the claim is not stored.
ClaimInMemory(r) ==
  /\ exec[r].phase = "claiming"
  /\ exec' = [exec EXCEPT ![r] =
                [phase |-> "preparing", claimed |-> rows[r] = "queued", ok |-> FALSE]]
  /\ UNCHANGED <<durableVars, registryVars, activity, aborted, prompts, opened,
                 answering, handlerVars, historyVars>>

\* Mutant of Claim: the row is deleted when the run takes it.
ClaimDeletesRow(r) ==
  /\ exec[r].phase = "claiming"
  /\ exec' = [exec EXCEPT ![r] =
                [phase |-> "preparing", claimed |-> FALSE, ok |-> FALSE]]
  /\ rows' = [rows EXCEPT ![r] = "none"]
  /\ UNCHANGED <<chats, archived, runtime, registryVars, activity, aborted, prompts,
                 opened, answering, handlerVars, historyVars>>

\* beginQueuedChatRunDispatch
Claim(r) ==
  /\ exec[r].phase = "claiming"
  /\ exec' = [exec EXCEPT ![r] =
                [ phase |-> IF rows[r] = "dispatching" THEN "completing"
                            ELSE "preparing",
                  claimed |-> rows[r] = "queued",
                  ok |-> FALSE ]]
  /\ rows' = [rows EXCEPT ![r] = IF @ = "queued" THEN "dispatching" ELSE @]
  /\ UNCHANGED <<chats, archived, runtime, registryVars, activity, aborted, prompts,
                 opened, answering, handlerVars, historyVars>>

\* streamChat fails before the session takes the message: the chat is gone,
\* the session cannot be created, or the run was aborted meanwhile.
PrepareFails(r) ==
  /\ exec[r].phase = "preparing"
  /\ exec' = [exec EXCEPT ![r].phase = "completing"]
  /\ UNCHANGED <<durableVars, registryVars, activity, aborted, prompts, opened,
                 answering, handlerVars, historyVars>>

\* Mutant of SendText: the message goes out although the run was aborted.
SendTextWhenAborted(r) ==
  /\ exec[r].phase = "preparing"
  /\ ChatOf[r] \in chats
  /\ exec' = [exec EXCEPT ![r].phase = "streaming"]
  /\ run' = IF Registered(r) THEN [run EXCEPT ![r].handler = TRUE] ELSE run
  /\ sent' = [sent EXCEPT ![r] = @ + 1]
  /\ UNCHANGED <<durableVars, byChat, retired, activity, aborted, prompts,
                 opened, answering, handlerVars, stopped, accepted, crashes>>

\* Mutant of SendText: the answer handler is not handed over.
SendTextWithoutHandler(r) ==
  /\ exec[r].phase = "preparing"
  /\ ChatOf[r] \in chats
  /\ r \notin aborted
  /\ exec' = [exec EXCEPT ![r].phase = "streaming"]
  /\ sent' = [sent EXCEPT ![r] = @ + 1]
  /\ UNCHANGED <<durableVars, registryVars, activity, aborted, prompts,
                 opened, answering, handlerVars, stopped, accepted, crashes>>

\* sendText hands over the answer handler and then the message.
SendText(r) ==
  /\ exec[r].phase = "preparing"
  /\ ChatOf[r] \in chats
  /\ r \notin aborted
  /\ exec' = [exec EXCEPT ![r].phase = "streaming"]
  /\ run' = IF Registered(r) THEN [run EXCEPT ![r].handler = TRUE] ELSE run
  /\ sent' = [sent EXCEPT ![r] = @ + 1]
  /\ UNCHANGED <<durableVars, byChat, retired, activity, aborted, prompts,
                 opened, answering, handlerVars, stopped, accepted, crashes>>

\* The session forwards a prompt of the agent.
PromptOpens(r, i) ==
  /\ exec[r].phase = "streaming"
  /\ answering[r] = {}
  /\ OnePromptAtATime(r) => prompts[r] = {}
  /\ r \notin aborted
  /\ i \notin opened[r]
  /\ opened' = [opened EXCEPT ![r] = @ \cup {i}]
  /\ prompts' = [prompts EXCEPT ![r] = @ \cup {i}]
  /\ Emit(r, Opens(i))
  /\ UNCHANGED <<durableVars, byChat, retired, exec, aborted, answering,
                 handlerVars, historyVars>>

\* The tool of a prompt ends without an answer.  DesktopAngelSession reads no
\* event while it waits for the answer.
PromptCloses(r, i) ==
  /\ ~ OnePromptAtATime(r)
  /\ exec[r].phase = "streaming"
  /\ i \in prompts[r]
  /\ prompts' = [prompts EXCEPT ![r] = @ \ {i}]
  /\ Emit(r, Closes(i))
  /\ UNCHANGED <<durableVars, byChat, retired, exec, aborted, opened, answering,
                 handlerVars, historyVars>>

\* sendText returns the result of the turn; storing the result fails for a
\* deleted chat.
TurnReturns(r) ==
  /\ exec[r].phase = "streaming"
  /\ answering[r] = {}
  /\ OnePromptAtATime(r) => prompts[r] = {}
  /\ exec' = [exec EXCEPT ![r].phase = "completing",
                          ![r].ok = ChatOf[r] \in chats]
  /\ UNCHANGED <<durableVars, registryVars, activity, aborted, prompts, opened,
                 answering, handlerVars, historyVars>>

\* sendText throws: the agent failed, or the abort took effect.
TurnFails(r) ==
  /\ exec[r].phase = "streaming"
  /\ OnePromptAtATime(r) => prompts[r] = {}
  /\ exec' = [exec EXCEPT ![r].phase = "completing"]
  /\ prompts' = [prompts EXCEPT ![r] = {}]
  /\ UNCHANGED <<durableVars, registryVars, activity, aborted, opened,
                 answering, handlerVars, historyVars>>

\* Mutant of Settle: every run that succeeds is kept for an answer.
SettleKeepsRun(r) ==
  /\ exec[r].phase = "completing"
  /\ rows' = [rows EXCEPT ![r] =
                IF exec[r].claimed /\ @ = "dispatching" THEN "none" ELSE @]
  /\ exec' = [exec EXCEPT ![r] = NotExecuting]
  /\ IF Registered(r) /\ exec[r].ok
     THEN /\ run' = [run EXCEPT ![r].completed = TRUE]
          /\ activity' = [activity EXCEPT ![ChatOf[r]] = Applied(@, r, Result)]
          /\ UNCHANGED <<byChat, retired>>
     ELSE Finish(r, Error)
  /\ UNCHANGED <<chats, archived, runtime, aborted, prompts, opened, answering,
                 handlerVars, historyVars>>

\* completeQueuedChatRun, and #run continues: result or error, then done.  A
\* result that arrives while input is pending keeps the run for the answer.
Settle(r) ==
  /\ exec[r].phase = "completing"
  /\ rows' = [rows EXCEPT ![r] =
                IF exec[r].claimed /\ @ = "dispatching" THEN "none" ELSE @]
  /\ exec' = [exec EXCEPT ![r] = NotExecuting]
  /\ LET waits == run[r].status = "needsInput"
         kept == exec[r].ok /\ waits /\ run[r].handler
     IN IF Registered(r) /\ kept
        THEN /\ run' = [run EXCEPT ![r].completed = TRUE]
             /\ activity' = [activity EXCEPT ![ChatOf[r]] = Applied(@, r, Result)]
             /\ UNCHANGED <<byChat, retired>>
        ELSE Finish(r, IF exec[r].ok /\ ~ waits THEN Result ELSE Error)
  /\ UNCHANGED <<chats, archived, runtime, aborted, prompts, opened, answering,
                 handlerVars, historyVars>>

-----------------------------------------------------------------------------
(* POST /api/chat-runs/:runId/elicitation *)

Answerable(r, i) ==
  /\ Registered(r)
  /\ run[r].status = "needsInput"
  /\ run[r].pending = i
  /\ run[r].handler

\* resolveElicitation commits the answer before it awaits the session.
AnswerBegins(r, i) ==
  /\ OnePromptAtATime(r)
  /\ Answerable(r, i)
  /\ i \in prompts[r]
  /\ run' = [run EXCEPT ![r].pending = NoInput, ![r].status = "running"]
  /\ answering' = [answering EXCEPT ![r] = @ \cup {i}]
  /\ UNCHANGED <<durableVars, byChat, retired, activity, exec, aborted, prompts,
                 opened, handlerVars, historyVars>>

\* Mutant of AnswerTaken: the route does not tell the activity store.
AnswerTakenSilently(r, i) ==
  /\ IF Registered(r) /\ run[r].completed
     THEN Remove(r)
     ELSE /\ run' = IF Registered(r)
                    THEN [run EXCEPT ![r] = Materialized(@, Closes(i))] ELSE run
          /\ UNCHANGED <<byChat, retired>>
  /\ UNCHANGED activity

\* Mutant of AnswerTaken: the last answer does not finish a run whose turn is over.
AnswerTakenKeepsRun(r, i) ==
  /\ activity' = [activity EXCEPT ![ChatOf[r]] = InputResolved(@, r, i)]
  /\ run' = IF Registered(r)
            THEN [run EXCEPT ![r] = Materialized(@, Closes(i))] ELSE run
  /\ UNCHANGED <<byChat, retired>>

\* The registry and the route once the session has taken the answer to i: the
\* session's own event closes the prompt, a run whose turn is over finishes,
\* and the activity entry stops waiting for i.  All of it follows without another
\* await on I/O, so no other handler runs in between.
AnswerTaken(r, i) ==
  /\ activity' = [activity EXCEPT ![ChatOf[r]] = InputResolved(@, r, i)]
  /\ IF Registered(r) /\ run[r].completed
     THEN Remove(r)
     ELSE /\ run' = IF Registered(r)
                    THEN [run EXCEPT ![r] = Materialized(@, Closes(i))] ELSE run
          /\ UNCHANGED <<byChat, retired>>

AnswerSucceeds(r, i) ==
  /\ i \in answering[r]
  /\ answering' = [answering EXCEPT ![r] = @ \ {i}]
  /\ prompts' = [prompts EXCEPT ![r] = @ \ {i}]
  /\ AnswerTaken(r, i)
  /\ UNCHANGED <<durableVars, exec, aborted, opened, handlerVars, historyVars>>

\* The session rejects the answer it was given: sendText, which waits for it,
\* throws as well, so the turn is not over yet, and the registry shows the prompt
\* again.
AnswerFails(r, i) ==
  /\ i \in answering[r]
  /\ answering' = [answering EXCEPT ![r] = @ \ {i}]
  /\ prompts' = [prompts EXCEPT ![r] = @ \ {i}]
  /\ exec' = IF exec[r].phase = "streaming"
             THEN [exec EXCEPT ![r].phase = "completing"] ELSE exec
  /\ run' = IF Registered(r)
            THEN [run EXCEPT ![r].pending = i, ![r].status = "needsInput"] ELSE run
  /\ UNCHANGED <<durableVars, byChat, retired, activity, aborted, opened,
                 handlerVars, historyVars>>

\* ClaudeSessionPermissions takes an answer without an await in between.
AnswerAtOnce(r, i) ==
  /\ ~ OnePromptAtATime(r)
  /\ Answerable(r, i)
  /\ i \in prompts[r]
  /\ prompts' = [prompts EXCEPT ![r] = @ \ {i}]
  /\ AnswerTaken(r, i)
  /\ UNCHANGED <<durableVars, exec, aborted, opened, answering, handlerVars,
                 historyVars>>

-----------------------------------------------------------------------------
(* DELETE /api/chat-runs/:runId *)

MayStop(r) ==
  /\ stop[r] = "idle"
  /\ start[r] = "idle" \/ "stop during start" \in Overlaps
  /\ recovered \/ "stop during recovery" \in Overlaps

\* The run is registered: its activity goes first, so no later event of the run
\* marks the chat; then the reservation is dropped, a late success is finished,
\* or the turn is aborted.
StopRegistered(r) ==
  /\ MayStop(r)
  /\ Registered(r)
  /\ stop' = [stop EXCEPT ![r] = "cancelling"]
  /\ activity' = [activity EXCEPT ![ChatOf[r]] = Cancelled(@, r)]
  /\ IF ~ run[r].started \/ run[r].completed
     THEN /\ Remove(r)
          /\ UNCHANGED <<aborted, prompts, exec>>
     ELSE /\ Abort(r)
          /\ UNCHANGED registryVars
  /\ UNCHANGED <<durableVars, opened, answering, start, clear, remove,
                 recovered, historyVars>>

StopUnknown(r) ==
  /\ MayStop(r)
  /\ ~ Registered(r)
  /\ stop' = [stop EXCEPT ![r] = "unknown"]
  /\ UNCHANGED <<durableVars, registryVars, activity, execVars, start, clear,
                 remove, recovered, historyVars>>

\* cancelQueuedChatRun; for an unknown run that had a row the chat is cleared.
StopCancelsRow(r) ==
  /\ stop[r] # "idle"
  /\ stop' = [stop EXCEPT ![r] = "idle"]
  /\ rows' = [rows EXCEPT ![r] = "none"]
  /\ activity' = IF stop[r] = "unknown" /\ rows[r] # "none"
                 THEN [activity EXCEPT ![ChatOf[r]] = NoActivity] ELSE activity
  /\ stopped' = IF stop[r] = "cancelling" \/ rows[r] # "none"
                THEN stopped \cup {r} ELSE stopped
  /\ UNCHANGED <<chats, archived, runtime, registryVars, execVars, start, clear, remove,
                 recovered, accepted, sent, crashes>>

-----------------------------------------------------------------------------
(* DELETE /api/chats/:chatId/ambiguous-run *)

ClearBegins(c) ==
  /\ clear[c] = "idle"
  /\ \/ "clear during start" \in Overlaps
     \/ /\ recovered
        /\ \A r \in Runs : ChatOf[r] = c =>
             start[r] = "idle" /\ exec[r].phase # "claiming"
  /\ clear' = [clear EXCEPT ![c] = "reading"]
  /\ UNCHANGED <<durableVars, registryVars, activity, execVars, start, stop,
                 remove, recovered, historyVars>>

\* The ambiguous run is compared with the active run; nothing active and
\* nothing ambiguous compare equal, too, and are refused.
AmbiguousRun(c) ==
  IF AmbiguousRuns(c) = {} THEN NoRun ELSE CHOOSE r \in AmbiguousRuns(c) : TRUE

ClearChecks(c) ==
  /\ clear[c] = "reading"
  /\ clear' = [clear EXCEPT ![c] = IF byChat[c] = AmbiguousRun(c)
                                   THEN "idle" ELSE "deleting"]
  /\ UNCHANGED <<durableVars, registryVars, activity, execVars, start, stop,
                 remove, recovered, historyVars>>

ClearDeletes(c) ==
  /\ clear[c] = "deleting"
  /\ clear' = [clear EXCEPT ![c] = "idle"]
  /\ rows' = [r \in Runs |-> IF r \in AmbiguousRuns(c) THEN "none" ELSE rows[r]]
  /\ activity' = IF AmbiguousRuns(c) # {}
                 THEN [activity EXCEPT ![c] = NoActivity] ELSE activity
  /\ UNCHANGED <<chats, archived, runtime, registryVars, execVars, start, stop, remove,
                 recovered, historyVars>>

-----------------------------------------------------------------------------
(* Deleting and archiving a chat, and POST /api/chats/:id/attention/read *)

\* DELETE /api/chats/:id: discardChat aborts and forgets the run of the chat, and the
\* session closes.
DeleteChatBegins(c) ==
  /\ c \in chats
  /\ remove[c] = "idle"
  /\ \/ "delete during start" \in Overlaps
     \/ \A r \in Runs : ChatOf[r] = c => start[r] = "idle"
  /\ remove' = [remove EXCEPT ![c] = "deleting"]
  /\ IF byChat[c] # NoRun
     THEN Abort(byChat[c]) /\ Remove(byChat[c])
     ELSE UNCHANGED <<aborted, prompts, exec, registryVars>>
  /\ UNCHANGED <<durableVars, activity, opened, answering, start, stop, clear,
                 recovered, historyVars>>

\* The row of the chat goes with the chat (on delete cascade).
DeleteChatEnds(c) ==
  /\ remove[c] = "deleting"
  /\ remove' = [remove EXCEPT ![c] = "idle"]
  /\ chats' = chats \ {c}
  /\ archived' = archived \ {c}
  /\ rows' = [r \in Runs |-> IF ChatOf[r] = c THEN "none" ELSE rows[r]]
  /\ activity' = [activity EXCEPT ![c] = NoActivity]
  /\ UNCHANGED <<runtime, registryVars, execVars, start, stop, clear, recovered,
                 historyVars>>

\* POST /api/chats/:id/archive: the run goes on, the chat shows nothing of it.
Archive(c) ==
  /\ c \in chats
  /\ archived' = archived \cup {c}
  /\ activity' = [activity EXCEPT ![c] = NoActivity]
  /\ UNCHANGED <<rows, chats, runtime, registryVars, execVars, handlerVars,
                 historyVars>>

\* POST /api/chats/archived/restore
Restore(c) ==
  /\ c \in archived
  /\ "restore during run" \in Overlaps \/ byChat[c] = NoRun
  /\ archived' = archived \ {c}
  /\ UNCHANGED <<rows, chats, runtime, registryVars, activity, execVars, handlerVars,
                 historyVars>>

\* POST /api/chats/archived/delete: the run of the chat is not discarded.
DeleteArchived(c) ==
  /\ c \in archived
  /\ chats' = chats \ {c}
  /\ archived' = archived \ {c}
  /\ rows' = [r \in Runs |-> IF ChatOf[r] = c THEN "none" ELSE rows[r]]
  /\ activity' = [activity EXCEPT ![c] = NoActivity]
  /\ UNCHANGED <<runtime, registryVars, execVars, handlerVars, historyVars>>

Acknowledge(c, r, s) ==
  /\ IsCurrent(activity[c], r)
  /\ activity[c].status = s
  /\ activity' = [activity EXCEPT ![c] = Acknowledged(@, r, s)]
  /\ UNCHANGED <<durableVars, registryVars, execVars, handlerVars, historyVars>>

-----------------------------------------------------------------------------
(* The daemon process *)

Crash ==
  /\ crashes < MaxCrashes
  /\ crashes' = crashes + 1
  /\ run' = [r \in Runs |-> NoRecord]
  /\ byChat' = [c \in Chats |-> NoRun]
  /\ retired' = {}
  /\ activity' = [c \in Chats |-> NoActivity]
  /\ exec' = [r \in Runs |-> NotExecuting]
  /\ aborted' = {}
  /\ prompts' = [r \in Runs |-> {}]
  /\ opened' = [r \in Runs |-> {}]
  /\ answering' = [r \in Runs |-> {}]
  /\ start' = [r \in Runs |-> "idle"]
  /\ stop' = [r \in Runs |-> "idle"]
  /\ clear' = [c \in Chats |-> "idle"]
  /\ remove' = [c \in Chats |-> "idle"]
  /\ recovered' = FALSE
  /\ UNCHANGED <<durableVars, stopped, accepted, sent>>

\* Mutant of Recoverable: the dispatched rows are recovered, the queued ones not.
RecoverableDispatched ==
  {r \in Runs : rows[r] = "dispatching" /\ byChat[ChatOf[r]] = NoRun}

\* queuedRunRecovery: every queued row starts again, in a chat that is free.
Recoverable == {r \in Runs : rows[r] = "queued" /\ byChat[ChatOf[r]] = NoRun}

Recover ==
  /\ ~ recovered
  /\ recovered' = TRUE
  /\ run' = [r \in Runs |-> IF r \in Recoverable
                            THEN [Reservation EXCEPT !.started = TRUE] ELSE run[r]]
  /\ byChat' = [c \in Chats |->
                  IF \E r \in Recoverable : ChatOf[r] = c
                  THEN CHOOSE r \in Recoverable : ChatOf[r] = c ELSE byChat[c]]
  /\ exec' = [r \in Runs |-> IF r \in Recoverable
                             THEN [NotExecuting EXCEPT !.phase = "claiming"]
                             ELSE exec[r]]
  /\ activity' = [c \in Chats |->
                    IF \E r \in Recoverable : ChatOf[r] = c
                    THEN Started(activity[c],
                                 CHOOSE r \in Recoverable : ChatOf[r] = c, FALSE)
                    ELSE activity[c]]
  /\ UNCHANGED <<durableVars, retired, aborted, prompts, opened, answering,
                 start, stop, clear, remove, historyVars>>

-----------------------------------------------------------------------------
Start(r) == StartReserves(r) \/ StartChecks(r) \/ StartFails(r) \/ StartAccepts(r)
Turn(r) == \/ SendText(r) \/ TurnReturns(r)
           \/ \E i \in Inputs : PromptOpens(r, i) \/ PromptCloses(r, i)
Fail(r) == PrepareFails(r) \/ TurnFails(r)
Answer(r, i) == \/ AnswerBegins(r, i) \/ AnswerAtOnce(r, i)
                \/ AnswerSucceeds(r, i) \/ AnswerFails(r, i)
Stop(r) == StopRegistered(r) \/ StopUnknown(r) \/ StopCancelsRow(r)
Clear(c) == ClearBegins(c) \/ ClearChecks(c) \/ ClearDeletes(c)
DeleteChat(c) == DeleteChatBegins(c) \/ DeleteChatEnds(c)
ArchiveChat(c) == Archive(c) \/ Restore(c) \/ DeleteArchived(c)

Next ==
  \/ \E r \in Runs : Start(r) \/ Claim(r) \/ Turn(r) \/ Fail(r) \/ Settle(r) \/ Stop(r)
  \/ \E r \in Runs, i \in Inputs : Answer(r, i)
  \/ \E c \in Chats : Clear(c) \/ DeleteChat(c) \/ ArchiveChat(c)
  \/ \E c \in Chats, r \in Runs, s \in Ended : Acknowledge(c, r, s)
  \/ Crash
  \/ Recover

SafetySpec == Init /\ [][Next]_vars

\* What the daemon itself schedules: database calls return and their handlers
\* continue.
DaemonFairness ==
  /\ WF_vars(Recover)
  /\ \A r \in Runs :
       /\ WF_vars(StartChecks(r) \/ StartFails(r) \/ StartAccepts(r))
       /\ WF_vars(Claim(r) \/ Settle(r))
       /\ WF_vars(StopCancelsRow(r))
       /\ \A i \in Inputs : WF_vars(AnswerSucceeds(r, i) \/ AnswerFails(r, i))
  /\ \A c \in Chats : WF_vars(ClearChecks(c) \/ ClearDeletes(c)) /\ WF_vars(DeleteChatEnds(c))

\* What the agent owes: a turn starts or fails to, ends when nothing is asked of
\* the user, and ends when it is aborted.
AgentFairness ==
  \A r \in Runs :
    /\ WF_vars(SendText(r) \/ PrepareFails(r))
    /\ WF_vars((prompts[r] = {} \/ r \in aborted) /\ (TurnReturns(r) \/ TurnFails(r)))

\* What a user does who decides what is asked: answer the prompt the client shows.
UserFairness ==
  \A r \in Runs, i \in Inputs : WF_vars(AnswerBegins(r, i) \/ AnswerAtOnce(r, i))

Spec == SafetySpec /\ DaemonFairness /\ AgentFairness

-----------------------------------------------------------------------------
(* Properties *)

\* The two maps of the registry name the same runs, at most one per chat
\* (run-registry.test "enforces one active run per chat and per run id").
RegistryAgrees ==
  /\ \A r \in Runs : Registered(r) => byChat[ChatOf[r]] = r
  /\ \A c \in Chats : byChat[c] # NoRun =>
       Registered(byChat[c]) /\ ChatOf[byChat[c]] = c

\* A message is handed to the agent at most once each time it is accepted: no
\* recovery, retry or late handler sends it again (repository.ts "never auto-send
\* again"), whatever crashes come in between.
NeverResent == \A r \in Runs : sent[r] <= accepted[r]

\* While the agent works on a message nobody has stopped, its row says so: a
\* crash at any moment of the turn leaves the ambiguous row that the user is
\* asked about, never a lost message (repository.test "keeps a claimed input
\* durable across the provider-start crash window").
InFlightIsDurable ==
  \A r \in Runs :
    (/\ exec[r].phase = "streaming"
     /\ r \notin aborted
     /\ ChatOf[r] \in chats) => rows[r] = "dispatching"

\* What the user sees of a run that goes on, in a chat that is not archived, is what
\* the registry knows: the chat shows this run, and it waits for the user exactly
\* while the run needs input or an answer is on its way.
ActivityFollowsRun ==
  \A r \in Runs :
    (/\ Registered(r) /\ run[r].started /\ r \notin aborted
     /\ ChatOf[r] \in chats \ archived) =>
      /\ IsCurrent(activity[ChatOf[r]], r)
      /\ (activity[ChatOf[r]].status = "waiting_for_you") <=>
           (run[r].status = "needsInput" \/ answering[r] # {})

\* A chat is shown as running, waiting or stuck only for a run that is there
\* (activity.ts 64 "null when the chat has no live run").
NoPhantomActivity ==
  \A c \in Chats :
    (activity[c].status \in Live /\ remove[c] = "idle") =>
      Registered(activity[c].run)

\* The activity of a chat, which every window shows, and the registry tell the same,
\* though handlers change them in steps of their own: no run is missing, none is made up.
ActivityIsTrue == ActivityFollowsRun /\ NoPhantomActivity

\* A run kept for its last answer can be answered (run-registry.test "keeps a
\* late-success input resolvable before removing the run"): otherwise it would
\* block its chat for ever.
LateSuccessIsAnswerable ==
  \A r \in Runs :
    (Registered(r) /\ run[r].completed) =>
      \E i \in prompts[r] : Answerable(r, i)

\* Every prompt a live turn waits for is the one the client can answer, or its
\* answer is on its way; otherwise the turn hangs while the run "would look like
\* it is still working" (run-registry.ts 400).
OpenPromptIsAnswerable ==
  \A r \in Runs, i \in Inputs :
    (Registered(r) /\ r \notin aborted /\ i \in prompts[r]) =>
      Answerable(r, i) \/ i \in answering[r]

\* Once a Stop was answered the message is not handed to the agent any more.
StopIsFinal ==
  [][\A r \in Runs : sent'[r] # sent[r] => r \notin stopped]_vars

\* An accepted message does not stay queued: it is dispatched, or cancelled with
\* its row, so it cannot block its chat (the chat column is unique).
QueuedIsDispatched ==
  \A r \in Runs : (rows[r] = "queued") ~> (rows[r] # "queued")

\* Stop ends the run, whatever it was doing (run-registry.test "only stop aborts"),
\* so that the chat accepts the next message.  (A Claude turn that succeeds in the
\* moment of the Stop with a permission still open is kept for the answer, and takes
\* a second Stop.)
StopEndsRun ==
  \A r \in Runs :
    (Registered(r) /\ r \in aborted /\ OnePromptAtATime(r)) ~> ~ Registered(r)

\* A user who answers what is asked sees every run end that asks for one thing at a
\* time.
RunEnds ==
  UserFairness =>
    \A r \in Runs : (Registered(r) /\ OnePromptAtATime(r)) ~> ~ Registered(r)
=============================================================================
