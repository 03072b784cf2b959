--------------------------- MODULE ActivityRecord ---------------------------
(***************************************************************************)
(* What the daemon remembers about the current run of one chat: the        *)
(* StoredActivity of packages/daemon/src/features/chat/activity.ts, and    *)
(* the transitions of ChatActivityStore as operators on one stored value.  *)
(* The store keeps at most one StoredActivity per chat; NoActivity stands  *)
(* for a chat without an entry.  ChatActivity and ChatRuns keep the        *)
(* entries in a variable and apply these operators to it.                  *)
(*                                                                         *)
(* Time stamps, the failure text and the question/approval reason are      *)
(* left out.  The attention id of an entry is determined by its run, its   *)
(* status and its input, so it is not stored.                              *)
(***************************************************************************)
CONSTANTS Runs,     \* run ids, generated by clients
          Inputs    \* ids of the prompts (elicitations, tool decisions) of a run

NoInput == "no input"
NoActivity == [status |-> "absent"]

Live == {"running", "waiting_for_you", "stuck"}
Ended == {"done", "failed"}

ASSUME InputsAssumption == NoInput \notin Inputs

StoredActivity ==
  [ run : Runs,
    status : Live \cup Ended,
    input : Inputs \cup {NoInput},     \* inputId
    pendingSuccess : BOOLEAN,
    hadRootPid : BOOLEAN,
    lossMatured : BOOLEAN,             \* processLossMatured
    timer : BOOLEAN ]                  \* stuckTimer is armed

\* An entry of run r; the guard of every handler that names a run (#current).
IsCurrent(a, r) == a # NoActivity /\ a.run = r

\* start: a second start of the same run changes nothing; a new run replaces
\* the entry and drops the old timer.
Started(a, r, hasRootPid) ==
  IF IsCurrent(a, r) THEN a
  ELSE [ run |-> r, status |-> "running", input |-> NoInput,
         pendingSuccess |-> FALSE, hadRootPid |-> hasRootPid,
         lossMatured |-> FALSE, timer |-> FALSE ]

\* #waiting: a prompt never reopens an entry that has ended.
Waiting(a, i) ==
  IF a.status \in Ended THEN a
  ELSE [a EXCEPT !.input = i, !.status = "waiting_for_you"]

\* Mutant of Terminated: the last terminal status wins.
TerminatedByTheLast(a, s) ==
  [a EXCEPT !.status = s, !.input = NoInput, !.pendingSuccess = FALSE,
            !.timer = FALSE]

\* #terminal: the first terminal status is final.
Terminated(a, s) ==
  IF a.status \in Ended THEN a
  ELSE [a EXCEPT !.status = s, !.input = NoInput,
                 !.pendingSuccess = FALSE, !.timer = FALSE]

\* Mutant of InputResolved: the entry keeps the id of the answered input.
InputResolvedKeepsInput(a, r, i) ==
  IF ~ IsCurrent(a, r) \/ a.status # "waiting_for_you" \/ a.input # i THEN a
  ELSE IF a.pendingSuccess THEN Terminated(a, "done")
  ELSE [a EXCEPT !.status = IF a.lossMatured THEN "stuck" ELSE "running"]

\* resolveInput: only the input the entry waits for; a success that arrived
\* meanwhile, or a process loss that matured meanwhile, shows up now.
InputResolved(a, r, i) ==
  IF ~ IsCurrent(a, r) \/ a.status # "waiting_for_you" \/ a.input # i THEN a
  ELSE IF a.pendingSuccess THEN Terminated(a, "done")
  ELSE [a EXCEPT !.input = NoInput,
                 !.status = IF a.lossMatured THEN "stuck" ELSE "running"]

\* The stream events the store tells apart.  A tool action that awaits a
\* decision opens its input, in any other phase it closes it.
Opens(i) == [type |-> "opens", input |-> i]
Closes(i) == [type |-> "closes", input |-> i]
Result == [type |-> "result"]
Error == [type |-> "error"]
Done == [type |-> "done"]

StreamEvent ==
  {Opens(i) : i \in Inputs} \cup {Closes(i) : i \in Inputs}
    \cup {Result, Error, Done}

\* apply
Applied(a, r, event) ==
  IF ~ IsCurrent(a, r) THEN a
  ELSE CASE event.type = "result" ->
              IF a.status = "waiting_for_you"
              THEN [a EXCEPT !.pendingSuccess = TRUE]
              ELSE Terminated(a, "done")
         [] event.type = "error"  -> Terminated(a, "failed")
         [] event.type = "opens"  -> Waiting(a, event.input)
         [] event.type = "closes" -> InputResolved(a, r, event.input)
         [] OTHER                 -> a

\* cancel: an explicit Stop of the run the entry is about.
Cancelled(a, r) == IF IsCurrent(a, r) THEN NoActivity ELSE a

\* acknowledge: the client names the attention id it has read, which is the
\* run and the terminal status.
Acknowledged(a, r, s) ==
  IF IsCurrent(a, r) /\ a.status \in Ended /\ a.status = s
  THEN NoActivity ELSE a

\* Mutant of ProcessSeen: the timer of the earlier loss stays armed.
ProcessSeenKeepsTimer(a) ==
  IF a = NoActivity THEN a
  ELSE [a EXCEPT !.hadRootPid = TRUE, !.lossMatured = FALSE,
                 !.status = IF @ = "stuck" THEN "running" ELSE @]

\* replaceProcessEntries, for a chat that has a root process now ...
ProcessSeen(a) ==
  IF a = NoActivity THEN a
  ELSE [a EXCEPT !.hadRootPid = TRUE, !.lossMatured = FALSE, !.timer = FALSE,
                 !.status = IF @ = "stuck" THEN "running" ELSE @]

\* Mutant of ProcessLost: a loss is not timed while the entry waits.
ProcessLostWhileRunning(a) ==
  IF a = NoActivity \/ ~ a.hadRootPid \/ a.status # "running" THEN a
  ELSE [a EXCEPT !.timer = TRUE]

\* ... and for one that has none any more (#scheduleStuck).
ProcessLost(a) ==
  IF a = NoActivity \/ ~ a.hadRootPid \/ a.status \in Ended THEN a
  ELSE [a EXCEPT !.timer = TRUE]

\* Mutant of GraceOver: a matured loss hides a pending input.
GraceOverHidesInput(a, hasRootPid) ==
  IF hasRootPid THEN [a EXCEPT !.timer = FALSE]
  ELSE [a EXCEPT !.timer = FALSE, !.lossMatured = TRUE, !.input = NoInput,
                 !.status = IF @ \in Ended THEN @ ELSE "stuck"]

\* The callback of the grace timer.  It was armed for this very entry: a
\* replaced or deleted entry has had its timer cleared.
GraceOver(a, hasRootPid) ==
  IF hasRootPid THEN [a EXCEPT !.timer = FALSE]
  ELSE [a EXCEPT !.timer = FALSE, !.lossMatured = TRUE,
                 !.status = IF @ = "running" THEN "stuck" ELSE @]
=============================================================================
