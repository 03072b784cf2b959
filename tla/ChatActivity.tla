---------------------------- MODULE ChatActivity ----------------------------
(***************************************************************************)
(* The chat activity projection of the daemon: ChatActivityStore of        *)
(* packages/daemon/src/features/chat/activity.ts with the process entries  *)
(* that api.ts feeds it and the grace timers it arms.                      *)
(*                                                                         *)
(* The callers are the API handlers and the run registry.  What the module *)
(* assumes of them is what they do: a run id is started once, events are   *)
(* applied only for the run that is registered for the chat, a registered  *)
(* run reports at most one result, and an answer to a prompt may be        *)
(* reported for any run at any time, because the handler of the answer     *)
(* resumes after an await during which the run may have ended.             *)
(***************************************************************************)
EXTENDS ActivityRecord

CONSTANTS Chats, NoRun

ASSUME NoRunAssumption == NoRun \notin Runs

VARIABLES activity,     \* #activities
          rootPids,     \* chats with a root process (#rootPids)
          registered,   \* the run the registry has for the chat
          reported,     \* registered runs that have reported their result
          unused        \* run ids no client has used yet

vars == <<activity, rootPids, registered, reported, unused>>

TypeOK ==
  /\ activity \in [Chats -> StoredActivity \cup {NoActivity}]
  /\ rootPids \subseteq Chats
  /\ registered \in [Chats -> Runs \cup {NoRun}]
  /\ reported \subseteq Runs
  /\ unused \subseteq Runs

Init ==
  /\ activity = [c \in Chats |-> NoActivity]
  /\ rootPids = {}
  /\ registered = [c \in Chats |-> NoRun]
  /\ reported = {}
  /\ unused = Runs

-----------------------------------------------------------------------------
(* Calls of the run registry and the API handlers *)

Start(c, r) ==
  /\ r \in unused
  /\ registered[c] = NoRun
  /\ unused' = unused \ {r}
  /\ registered' = [registered EXCEPT ![c] = r]
  /\ activity' = [activity EXCEPT ![c] = Started(@, r, c \in rootPids)]
  /\ UNCHANGED <<rootPids, reported>>

Apply(c, event) ==
  /\ registered[c] # NoRun
  /\ event.type = "opens" => registered[c] \notin reported
  /\ event.type = "result" => registered[c] \notin reported
  /\ activity' = [activity EXCEPT ![c] = Applied(@, registered[c], event)]
  /\ reported' = IF event.type = "result"
                 THEN reported \cup {registered[c]} ELSE reported
  /\ registered' = IF event.type = "done"
                   THEN [registered EXCEPT ![c] = NoRun] ELSE registered
  /\ UNCHANGED <<rootPids, unused>>

ResolveInput(c, r, i) ==
  /\ r \notin unused
  /\ activity' = [activity EXCEPT ![c] = InputResolved(@, r, i)]
  /\ UNCHANGED <<rootPids, registered, reported, unused>>

Cancel(c, r) ==
  /\ registered[c] = r
  /\ activity' = [activity EXCEPT ![c] = Cancelled(@, r)]
  /\ UNCHANGED <<rootPids, registered, reported, unused>>

ClearChat(c) ==
  /\ activity' = [activity EXCEPT ![c] = NoActivity]
  /\ UNCHANGED <<rootPids, registered, reported, unused>>

Acknowledge(c, r, s) ==
  /\ r \notin unused
  /\ activity' = [activity EXCEPT ![c] = Acknowledged(@, r, s)]
  /\ UNCHANGED <<rootPids, registered, reported, unused>>

-----------------------------------------------------------------------------
(* Process entries and grace timers *)

ReplaceProcessEntries(next) ==
  /\ rootPids' = next
  /\ activity' = [c \in Chats |->
                    IF c \in next THEN ProcessSeen(activity[c])
                    ELSE IF c \in rootPids THEN ProcessLost(activity[c])
                    ELSE activity[c]]
  /\ UNCHANGED <<registered, reported, unused>>

GraceTimerFires(c) ==
  /\ activity[c] # NoActivity
  /\ activity[c].timer
  /\ activity' = [activity EXCEPT ![c] = GraceOver(@, c \in rootPids)]
  /\ UNCHANGED <<rootPids, registered, reported, unused>>

-----------------------------------------------------------------------------
Next ==
  \/ \E c \in Chats, r \in Runs : Start(c, r)
  \/ \E c \in Chats, event \in StreamEvent : Apply(c, event)
  \/ \E c \in Chats, r \in Runs, i \in Inputs : ResolveInput(c, r, i)
  \/ \E c \in Chats, r \in Runs : Cancel(c, r)
  \/ \E c \in Chats : ClearChat(c)
  \/ \E c \in Chats, r \in Runs, s \in Ended : Acknowledge(c, r, s)
  \/ \E next \in SUBSET Chats : ReplaceProcessEntries(next)
  \/ \E c \in Chats : GraceTimerFires(c)

\* A timer that is armed and not cleared fires.
Spec == Init /\ [][Next]_vars /\ \A c \in Chats : WF_vars(GraceTimerFires(c))

-----------------------------------------------------------------------------
(* Properties *)

\* An entry waits exactly for one named input, and only a waiting entry holds
\* back a success (resolveInput and #terminal must clear both, activity.ts
\* 165-195 and 287-298).
WaitingNamesItsInput ==
  \A c \in Chats : activity[c] # NoActivity =>
    /\ (activity[c].status = "waiting_for_you") <=> (activity[c].input # NoInput)
    /\ activity[c].pendingSuccess => activity[c].status = "waiting_for_you"

\* A chat is reported stuck only while it has no root process, after having had
\* one for this very run; an armed timer and a matured loss belong to such a run
\* too, so none of them survives the return of the process or the replacement of
\* the run; and a loss that matured behind a prompt is not forgotten, the entry
\* never looks running again before the process is back.
StuckMeansProcessLost ==
  \A c \in Chats : activity[c] # NoActivity =>
    /\ (activity[c].status = "stuck" \/ activity[c].timer) =>
         (c \notin rootPids /\ activity[c].hadRootPid)
    /\ activity[c].status = "stuck" => activity[c].lossMatured
    /\ activity[c].lossMatured =>
         (c \notin rootPids /\ activity[c].status # "running")
    /\ activity[c].timer => activity[c].status \notin Ended

\* What the client may acknowledge is final: once done or failed is shown for a
\* run, it stays until it is removed or replaced by another run (activity.test
\* "requires the exact terminal marker"), whatever late events, answers, process
\* entries and timers arrive.
KeepsTerminal(a, b) ==
  a.status \in Ended => b = NoActivity \/ b.run # a.run \/ b.status = a.status

TerminalIsFinal == [][\A c \in Chats : KeepsTerminal(activity[c], activity'[c])]_vars

\* Losing the process never hides a pending input (activity.test "does not hide
\* pending input when PID loss matures"): an entry stops waiting for a run that
\* goes on only in a step that closes its input, never in one that changes the
\* process entries or in which the grace timer fires.
StopsWaiting(a, b) ==
  a.status = "waiting_for_you" /\ b.status \in {"running", "stuck"} /\ b.run = a.run

ProcessLossKeepsInput ==
  [][\A c \in Chats :
       StopsWaiting(activity[c], activity'[c]) =>
         rootPids' = rootPids /\ activity'[c].timer = activity[c].timer]_vars

\* A run that was seen with a process and has lost it does not look running for
\* ever: the grace timer turns it into stuck unless the process comes back, the
\* run ends or is replaced, or it waits for the user.
LooksRunningWithoutProcess(c, r) ==
  /\ activity[c].status = "running"
  /\ activity[c].run = r
  /\ activity[c].hadRootPid
  /\ c \notin rootPids

LostProcessIsNoticed ==
  \A c \in Chats, r \in Runs :
    LooksRunningWithoutProcess(c, r) ~> ~ LooksRunningWithoutProcess(c, r)
=============================================================================
