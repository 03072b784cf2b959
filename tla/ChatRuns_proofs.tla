--------------------------- MODULE ChatRuns_proofs ---------------------------
(***************************************************************************)
(* Theorems about ChatRuns, for any sets of runs, chats and prompts, for   *)
(* native and Claude sessions, for any bounds, across crashes and          *)
(* recovery.  Those that hold whatever requests overlap say nothing of     *)
(* Overlaps; the others assume that the requests they name are kept apart. *)
(*                                                                         *)
(* NeverResent is not inductive: it needs a budget.  A message that is     *)
(* queued, or whose execution has not reached the agent yet, was accepted  *)
(* once more than it was sent (Budget), and only one of the two can spend  *)
(* the difference: no execution beyond the claim finds its row queued, no  *)
(* start request runs for a run that executes, and the executions belong   *)
(* to runs whose ids a start request refuses (Occupied).  The registry's   *)
(* maps agree after a recovery because a chat has at most one row.         *)
(*                                                                         *)
(* On top of IInv stand, layer by layer: RunsOK, what a Stop and a clear   *)
(* in progress leave of a turn and its row; PromptsOK, which ties the      *)
(* prompts of a session to what the registry shows of them; KeptAreOK, why *)
(* a started run is in the registry; and Agreement, the registry against   *)
(* the activity of the chats.                                              *)
(***************************************************************************)
EXTENDS ChatRunsDelivery, TLAPS

Entry == StoredActivity \cup {NoActivity}

\* What holds of entry a of a chat that has (p) or has not (~p) a root process, as in
\* ChatActivity_proofs; here no process is seen.
Coherent(a, p) ==
  a # NoActivity =>
    /\ a.status = "waiting_for_you" <=> a.input # NoInput
    /\ a.pendingSuccess => a.status = "waiting_for_you"
    /\ (a.status = "stuck" \/ a.timer) => (~p /\ a.hadRootPid)
    /\ a.status = "stuck" => a.lossMatured
    /\ a.lossMatured => (~p /\ a.hadRootPid /\ a.status # "running")
    /\ a.timer => a.status \notin Ended

ActivityOK ==
  \A c \in Chats : activity[c] \in Entry /\ Coherent(activity[c], FALSE)

OneRowPerChat ==
  \A r, s \in Runs :
    (rows[r] # "none" /\ rows[s] # "none" /\ ChatOf[r] = ChatOf[s]) => r = s

Budget ==
  \A r \in Runs :
    /\ sent[r] <= accepted[r]
    /\ rows[r] = "queued" => sent[r] < accepted[r]
    /\ exec[r].phase \in {"claiming", "preparing"} => sent[r] < accepted[r]
    /\ exec[r].phase \notin {"idle", "claiming"} => rows[r] # "queued"

Occupied ==
  \A r \in Runs :
    /\ exec[r].phase # "idle" => recovered /\ (Registered(r) \/ r \in retired)
    /\ start[r] # "idle" => recovered /\ exec[r].phase = "idle"

IInv == TypeOK /\ ActivityOK /\ RegistryAgrees /\ OneRowPerChat /\ Budget /\ Occupied

-----------------------------------------------------------------------------
(* The operators of ActivityRecord keep an entry well-formed and coherent. *)

\* A stored activity is an entry, and is there.
LEMMA StoredIsEntry ==
  ASSUME NEW a \in StoredActivity
  PROVE  a \in Entry /\ a # NoActivity
  BY DEF Entry, StoredActivity, NoActivity, Live, Ended

\* A run starts.
LEMMA StartedKeeps ==
  ASSUME NEW a \in Entry, NEW r \in Runs, NEW p \in BOOLEAN, Coherent(a, p)
  PROVE  Started(a, r, p) \in Entry /\ Coherent(Started(a, r, p), p)
  BY DEF Started, IsCurrent, Entry, StoredActivity, NoActivity, Coherent, Live, Ended

\* A run waits for an answer.
LEMMA WaitingKeeps ==
  ASSUME NEW a \in StoredActivity, NEW i \in Inputs, NEW p \in BOOLEAN, Coherent(a, p)
  PROVE  Waiting(a, i) \in StoredActivity /\ Coherent(Waiting(a, i), p)
<1>1. CASE a.status \in Ended
  BY <1>1 DEF Waiting
<1>2. CASE a.status \notin Ended
  <2> DEFINE b == Waiting(a, i)
  <2>1. b \in StoredActivity
    BY <1>2 DEF Waiting, StoredActivity, Live
  <2>2. /\ b.status = "waiting_for_you" /\ b.input = i
        /\ b.timer = a.timer /\ b.hadRootPid = a.hadRootPid
        /\ b.lossMatured = a.lossMatured
    BY <1>2 DEF Waiting, StoredActivity
  <2>3. Coherent(b, p)
    BY <1>2, <2>2, InputsAssumption, StoredIsEntry DEF Coherent, Ended
  <2> QED
    BY <2>1, <2>3
<1> QED
  BY <1>1, <1>2

\* A terminal status.
LEMMA TerminatedKeeps ==
  ASSUME NEW a \in StoredActivity, NEW s \in Ended, NEW p \in BOOLEAN, Coherent(a, p)
  PROVE  Terminated(a, s) \in StoredActivity /\ Coherent(Terminated(a, s), p)
<1>1. CASE a.status \in Ended
  BY <1>1 DEF Terminated
<1>2. CASE a.status \notin Ended
  <2> DEFINE b == Terminated(a, s)
  <2>1. b \in StoredActivity
    BY <1>2 DEF Terminated, StoredActivity
  <2>2. /\ b.status = s /\ b.input = NoInput /\ b.pendingSuccess = FALSE
        /\ b.timer = FALSE /\ b.hadRootPid = a.hadRootPid
        /\ b.lossMatured = a.lossMatured
    BY <1>2 DEF Terminated, StoredActivity
  <2>3. Coherent(b, p)
    BY <2>2, StoredIsEntry DEF Coherent, Ended
  <2> QED
    BY <2>1, <2>3
<1> QED
  BY <1>1, <1>2

\* The answer to a prompt, also after a success that came before it.
LEMMA InputResolvedKeeps ==
  ASSUME NEW a \in Entry, NEW r, NEW i, NEW p \in BOOLEAN, Coherent(a, p)
  PROVE  InputResolved(a, r, i) \in Entry /\ Coherent(InputResolved(a, r, i), p)
<1>1. CASE ~ IsCurrent(a, r) \/ a.status # "waiting_for_you" \/ a.input # i
  BY <1>1 DEF InputResolved
<1>2. CASE IsCurrent(a, r) /\ a.status = "waiting_for_you" /\ a.input = i
  <2>1. a \in StoredActivity
    BY <1>2 DEF IsCurrent, Entry
  <2>2. CASE a.pendingSuccess
    <3>1. InputResolved(a, r, i) = Terminated(a, "done")
      BY <1>2, <2>2 DEF InputResolved
    <3> QED
      BY <2>1, <3>1, TerminatedKeeps, StoredIsEntry DEF Ended
  <2>3. CASE ~ a.pendingSuccess
    <3> DEFINE b == InputResolved(a, r, i)
    <3>1. b = [a EXCEPT !.input = NoInput,
                        !.status = IF a.lossMatured THEN "stuck" ELSE "running"]
      BY <1>2, <2>3 DEF InputResolved
    <3>2. b \in StoredActivity
      BY <2>1, <3>1 DEF StoredActivity, Live
    <3>3. /\ b.status = (IF a.lossMatured THEN "stuck" ELSE "running")
          /\ b.input = NoInput /\ b.pendingSuccess = a.pendingSuccess
          /\ b.timer = a.timer /\ b.hadRootPid = a.hadRootPid
          /\ b.lossMatured = a.lossMatured
      BY <2>1, <3>1 DEF StoredActivity
    <3>4. Coherent(b, p)
      BY <1>2, <2>1, <2>3, <3>3, StoredIsEntry DEF Coherent, Ended
    <3> QED
      BY <3>2, <3>4, StoredIsEntry
  <2> QED
    BY <2>2, <2>3
<1> QED
  BY <1>1, <1>2

\* An event of the stream of a run.
LEMMA AppliedKeeps ==
  ASSUME NEW a \in Entry, NEW r, NEW event \in StreamEvent, NEW p \in BOOLEAN,
         Coherent(a, p)
  PROVE  Applied(a, r, event) \in Entry /\ Coherent(Applied(a, r, event), p)
<1>1. CASE ~ IsCurrent(a, r)
  BY <1>1 DEF Applied
<1>2. CASE IsCurrent(a, r)
  <2>1. a \in StoredActivity
    BY <1>2 DEF IsCurrent, Entry
  <2>2. CASE event = Result
    <3>1. CASE a.status = "waiting_for_you"
      BY <1>2, <2>1, <2>2, <3>1
         DEF Applied, Result, Entry, StoredActivity, NoActivity, Coherent, Live, Ended
    <3>2. CASE a.status # "waiting_for_you"
      <4>1. Applied(a, r, event) = Terminated(a, "done")
        BY <1>2, <2>2, <3>2 DEF Applied, Result
      <4> QED
        BY <2>1, <4>1, TerminatedKeeps, StoredIsEntry DEF Ended
    <3> QED
      BY <3>1, <3>2
  <2>3. CASE event = Error
    <3>1. Applied(a, r, event) = Terminated(a, "failed")
      BY <1>2, <2>3 DEF Applied, Error
    <3> QED
      BY <2>1, <3>1, TerminatedKeeps, StoredIsEntry DEF Ended
  <2>4. CASE event = Done
    BY <1>2, <2>4 DEF Applied, Done
  <2>5. ASSUME NEW i \in Inputs, event = Opens(i)
        PROVE  Applied(a, r, event) \in Entry /\ Coherent(Applied(a, r, event), p)
    <3>1. Applied(a, r, event) = Waiting(a, i)
      BY <1>2, <2>5 DEF Applied, Opens
    <3> QED
      BY <2>1, <3>1, WaitingKeeps, StoredIsEntry
  <2>6. ASSUME NEW i \in Inputs, event = Closes(i)
        PROVE  Applied(a, r, event) \in Entry /\ Coherent(Applied(a, r, event), p)
    <3>1. Applied(a, r, event) = InputResolved(a, r, i)
      BY <1>2, <2>6 DEF Applied, Closes
    <3> QED
      BY <3>1, InputResolvedKeeps
  <2> QED
    BY <2>2, <2>3, <2>4, <2>5, <2>6 DEF StreamEvent
<1> QED
  BY <1>1, <1>2

-----------------------------------------------------------------------------
(* The registry's helpers *)

ActivityType == activity \in [Chats -> Entry]
RegistryType ==
  /\ run \in [Runs -> ActiveRun \cup {NoRecord}]
  /\ byChat \in [Chats -> Runs \cup {NoRun}]
  /\ retired \subseteq Runs

LEMMA OneActivity ==
  ASSUME ActivityType, ActivityOK, NEW c \in Chats, NEW a \in Entry, Coherent(a, FALSE),
         activity' = [activity EXCEPT ![c] = a]
  PROVE  ActivityType' /\ ActivityOK'
<1>1. activity' \in [Chats -> Entry]
  BY DEF ActivityType
<1>2. ASSUME NEW d \in Chats
      PROVE  activity'[d] = a \/ activity'[d] = activity[d]
  BY DEF ActivityType
<1>3. ASSUME NEW d \in Chats
      PROVE  activity'[d] \in Entry /\ Coherent(activity'[d], FALSE)
  BY <1>2 DEF ActivityOK
<1> QED
  BY <1>1, <1>3 DEF ActivityType, ActivityOK, Coherent

LEMMA SameActivity ==
  ASSUME ActivityType, ActivityOK, UNCHANGED activity
  PROVE  ActivityType' /\ ActivityOK'
  BY DEF ActivityType, ActivityOK, Coherent

LEMMA NoActivityIsFine == NoActivity \in Entry /\ Coherent(NoActivity, FALSE)
  BY DEF Entry, Coherent

LEMMA ActiveRunIsRegistered ==
  ASSUME NEW a \in ActiveRun PROVE a # NoRecord
  BY DEF ActiveRun, NoRecord

LEMMA MaterializedIsActive ==
  ASSUME NEW a \in ActiveRun, NEW event \in StreamEvent
  PROVE  Materialized(a, event) \in ActiveRun
<1>1. ASSUME NEW i \in Inputs, event = Opens(i)
      PROVE  Materialized(a, event) \in ActiveRun
  BY <1>1 DEF Materialized, Opens, ActiveRun
<1>2. ASSUME NEW i \in Inputs, event = Closes(i)
      PROVE  Materialized(a, event) \in ActiveRun
  BY <1>2 DEF Materialized, Closes, ActiveRun
<1>3. CASE event \in {Result, Error, Done}
  BY <1>3 DEF Materialized, Result, Error, Done
<1> QED
  BY <1>1, <1>2, <1>3 DEF StreamEvent

LEMMA EventsAreEvents ==
  /\ \A i \in Inputs : Opens(i) \in StreamEvent /\ Closes(i) \in StreamEvent
  /\ Result \in StreamEvent /\ Error \in StreamEvent /\ Done \in StreamEvent
  BY DEF StreamEvent

LEMMA RemoveKeepsType ==
  ASSUME RegistryType, NEW r \in Runs, Remove(r)
  PROVE  RegistryType'
  BY ChatOfAssumption DEF RegistryType, Remove, registryVars

LEMMA EmitKeepsType ==
  ASSUME RegistryType, ActivityType, ActivityOK, NEW r \in Runs,
         NEW event \in StreamEvent, Emit(r, event), UNCHANGED <<byChat, retired>>
  PROVE  RegistryType' /\ ActivityType' /\ ActivityOK'
<1>1. CASE Registered(r)
  <2>1. Materialized(run[r], event) \in ActiveRun
    BY <1>1, MaterializedIsActive DEF RegistryType, Registered
  <2>2. RegistryType'
    BY <1>1, <2>1 DEF Emit, RegistryType
  <2>3. /\ Applied(activity[ChatOf[r]], r, event) \in Entry
        /\ Coherent(Applied(activity[ChatOf[r]], r, event), FALSE)
    BY ChatOfAssumption, AppliedKeeps DEF ActivityOK
  <2>4. activity' = [activity EXCEPT ![ChatOf[r]] = Applied(activity[ChatOf[r]], r, event)]
    BY <1>1 DEF Emit
  <2> QED
    BY <2>2, <2>3, <2>4, OneActivity, ChatOfAssumption
<1>2. CASE ~ Registered(r)
  BY <1>2, SameActivity DEF Emit, RegistryType
<1> QED
  BY <1>1, <1>2

LEMMA FinishKeepsType ==
  ASSUME RegistryType, ActivityType, ActivityOK, NEW r \in Runs,
         NEW last \in StreamEvent, Finish(r, last)
  PROVE  RegistryType' /\ ActivityType' /\ ActivityOK'
<1>1. CASE Registered(r)
  <2> DEFINE a == Applied(activity[ChatOf[r]], r, last)
  <2>1. RegistryType'
    BY <1>1, RemoveKeepsType DEF Finish
  <2>2. a \in Entry /\ Coherent(a, FALSE)
    BY ChatOfAssumption, AppliedKeeps DEF ActivityOK
  <2>3. Applied(a, r, Done) \in Entry /\ Coherent(Applied(a, r, Done), FALSE)
    BY <2>2, AppliedKeeps, EventsAreEvents
  <2>4. activity' = [activity EXCEPT ![ChatOf[r]] = Applied(a, r, Done)]
    BY <1>1 DEF Finish
  <2> QED
    BY <2>1, <2>3, <2>4, OneActivity, ChatOfAssumption
<1>2. CASE ~ Registered(r)
  BY <1>2, SameActivity DEF Finish, RegistryType, registryVars
<1> QED
  BY <1>1, <1>2

LEMMA AnswerTakenKeepsType ==
  ASSUME RegistryType, ActivityType, ActivityOK, NEW r \in Runs, NEW i \in Inputs,
         AnswerTaken(r, i)
  PROVE  RegistryType' /\ ActivityType' /\ ActivityOK'
<1>1. ActivityType' /\ ActivityOK'
  <2>1. /\ InputResolved(activity[ChatOf[r]], r, i) \in Entry
        /\ Coherent(InputResolved(activity[ChatOf[r]], r, i), FALSE)
    BY ChatOfAssumption, InputResolvedKeeps DEF ActivityOK
  <2>2. activity' = [activity EXCEPT ![ChatOf[r]] =
                       InputResolved(activity[ChatOf[r]], r, i)]
    BY DEF AnswerTaken
  <2> QED
    BY <2>1, <2>2, OneActivity, ChatOfAssumption
<1>2. RegistryType'
  <2>1. CASE Registered(r) /\ run[r].completed
    BY <2>1, RemoveKeepsType DEF AnswerTaken
  <2>2. CASE Registered(r) /\ ~ run[r].completed
    <3>1. Materialized(run[r], Closes(i)) \in ActiveRun
      BY <2>2, MaterializedIsActive, EventsAreEvents DEF RegistryType, Registered
    <3> QED
      BY <2>2, <3>1 DEF AnswerTaken, RegistryType
  <2>3. CASE ~ Registered(r)
    BY <2>3 DEF AnswerTaken, RegistryType
  <2> QED
    BY <2>1, <2>2, <2>3
<1> QED
  BY <1>1, <1>2

LEMMA PhaseKeepsType ==
  ASSUME exec \in [Runs -> Execution], NEW r \in Runs, NEW p \in Phase,
         exec' = [exec EXCEPT ![r].phase = p]
  PROVE  exec' \in [Runs -> Execution]
<1>1. [exec[r] EXCEPT !.phase = p] \in Execution
  BY DEF Execution
<1>2. exec' = [exec EXCEPT ![r] = [exec[r] EXCEPT !.phase = p]]
  OBVIOUS
<1> QED
  BY <1>1, <1>2

LEMMA AbortKeepsType ==
  ASSUME TypeOK, NEW r \in Runs, Abort(r)
  PROVE  /\ aborted' \subseteq Runs
         /\ prompts' \in [Runs -> SUBSET Inputs]
         /\ exec' \in [Runs -> Execution]
<1>1. aborted' \subseteq Runs
  BY DEF Abort, TypeOK
<1>2. CASE OnePromptAtATime(r) /\ exec[r].phase = "streaming" /\ prompts[r] # {}
  <2>1. exec' = [exec EXCEPT ![r].phase = "completing"]
    BY <1>2 DEF Abort
  <2>2. exec' \in [Runs -> Execution]
    BY <2>1, PhaseKeepsType DEF TypeOK, Phase
  <2>3. prompts' \in [Runs -> SUBSET Inputs]
    BY <1>2 DEF Abort, TypeOK
  <2> QED
    BY <1>1, <2>2, <2>3
<1>3. CASE ~ (OnePromptAtATime(r) /\ exec[r].phase = "streaming" /\ prompts[r] # {})
  BY <1>1, <1>3 DEF Abort, TypeOK
<1> QED
  BY <1>2, <1>3

LEMMA RegisteredIsActive ==
  ASSUME TypeOK, NEW r \in Runs, Registered(r)
  PROVE  run[r] \in ActiveRun
  BY DEF TypeOK, Registered

LEMMA ActiveRunChanges ==
  ASSUME NEW a \in ActiveRun
  PROVE  /\ [a EXCEPT !.started = TRUE] \in ActiveRun
         /\ [a EXCEPT !.handler = TRUE] \in ActiveRun
         /\ [a EXCEPT !.completed = TRUE] \in ActiveRun
         /\ [a EXCEPT !.pending = NoInput, !.status = "running"] \in ActiveRun
         /\ \A i \in Inputs :
              [a EXCEPT !.pending = i, !.status = "needsInput"] \in ActiveRun
  BY DEF ActiveRun

-----------------------------------------------------------------------------
(* Type correctness *)

TypeAndActivity == TypeOK /\ ActivityOK

LEMMA TypeInit == Init => TypeAndActivity
<1> SUFFICES ASSUME Init PROVE TypeAndActivity
  OBVIOUS
<1>1. ActivityOK
  BY NoActivityIsFine DEF Init, ActivityOK
<1>2. NotExecuting \in Execution
  BY DEF NotExecuting, Execution, Phase
<1>3. TypeOK
  BY <1>2 DEF Init, TypeOK, RowState
<1> QED
  BY <1>1, <1>3 DEF TypeAndActivity

LEMMA TypeStart ==
  ASSUME TypeAndActivity, NEW r \in Runs, Start(r)
  PROVE  TypeAndActivity'
<1> USE DEF TypeAndActivity
<1>a. RegistryType /\ ActivityType /\ ChatOf[r] \in Chats
  BY ChatOfAssumption DEF TypeOK, RegistryType, ActivityType, Entry
<1>1. CASE StartReserves(r)
  <2>1. Reservation \in ActiveRun
    BY DEF Reservation, ActiveRun
  <2>2. TypeOK'
    BY <1>a, <1>1, <2>1 DEF StartReserves, TypeOK, durableVars
  <2> QED
    BY <1>a, <1>1, <2>2, SameActivity DEF StartReserves
<1>2. CASE StartChecks(r)
  <2>1. RegistryType'
    BY <1>a, <1>2, RemoveKeepsType DEF StartChecks, registryVars, RegistryType
  <2>2. TypeOK'
    BY <1>2, <2>1 DEF StartChecks, TypeOK, RegistryType, durableVars, execVars, historyVars
  <2> QED
    BY <1>a, <1>2, <2>2, SameActivity DEF StartChecks
<1>3. CASE StartFails(r)
  <2>1. RegistryType'
    BY <1>a, <1>3, RemoveKeepsType DEF StartFails
  <2>2. TypeOK'
    BY <1>3, <2>1 DEF StartFails, TypeOK, RegistryType, durableVars, execVars, historyVars
  <2> QED
    BY <1>a, <1>3, <2>2, SameActivity DEF StartFails
<1>4. CASE StartAccepts(r)
  <2>1. ActivityType' /\ ActivityOK'
    <3>1. /\ Started(activity[ChatOf[r]], r, FALSE) \in Entry
          /\ Coherent(Started(activity[ChatOf[r]], r, FALSE), FALSE)
      BY <1>a, StartedKeeps DEF ActivityOK
    <3>2. activity' = [activity EXCEPT ![ChatOf[r]] =
                         Started(activity[ChatOf[r]], r, FALSE)]
      BY <1>4 DEF StartAccepts
    <3> QED
      BY <1>a, <3>1, <3>2, OneActivity
  <2>2. run' \in [Runs -> ActiveRun \cup {NoRecord}] /\ exec' \in [Runs -> Execution]
    <3>1. CASE Registered(r)
      <4>1. [run[r] EXCEPT !.started = TRUE] \in ActiveRun
        BY <3>1, RegisteredIsActive, ActiveRunChanges
      <4>2. run' = [run EXCEPT ![r] = [run[r] EXCEPT !.started = TRUE]]
        BY <1>4, <3>1 DEF StartAccepts
      <4>3. run' \in [Runs -> ActiveRun \cup {NoRecord}]
        BY <4>1, <4>2 DEF TypeOK
      <4>4. exec' = [exec EXCEPT ![r].phase = "claiming"]
        BY <1>4, <3>1 DEF StartAccepts
      <4> QED
        BY <4>3, <4>4, PhaseKeepsType DEF TypeOK, Phase
    <3>2. CASE ~ Registered(r)
      BY <1>4, <3>2 DEF StartAccepts, TypeOK
    <3> QED
      BY <3>1, <3>2
  <2>3. /\ rows' \in [Runs -> RowState]
        /\ accepted' \in [Runs -> Nat]
        /\ start' \in [Runs -> {"idle", "checking", "inserting"}]
    BY <1>4 DEF StartAccepts, TypeOK, RowState
  <2>4. TypeOK'
    BY <1>4, <2>1, <2>2, <2>3 DEF StartAccepts, TypeOK, ActivityType, Entry
  <2> QED
    BY <2>1, <2>4
<1> QED
  BY <1>1, <1>2, <1>3, <1>4 DEF Start

LEMMA TypeTurn ==
  ASSUME TypeAndActivity, NEW r \in Runs, Claim(r) \/ Turn(r) \/ Fail(r)
  PROVE  TypeAndActivity'
<1> USE DEF TypeAndActivity
<1>a. RegistryType /\ ActivityType /\ ChatOf[r] \in Chats
  BY ChatOfAssumption DEF TypeOK, RegistryType, ActivityType, Entry
<1>1. CASE Claim(r)
  <2> DEFINE e == [ phase |-> IF rows[r] = "dispatching" THEN "completing" ELSE "preparing",
                    claimed |-> rows[r] = "queued", ok |-> FALSE ]
  <2>1. e \in Execution
    BY DEF Execution, Phase
  <2>2. exec' \in [Runs -> Execution]
    BY <1>1, <2>1 DEF Claim, TypeOK
  <2>3. rows' \in [Runs -> RowState]
    BY <1>1 DEF Claim, TypeOK, RowState
  <2>4. TypeOK'
    BY <1>1, <2>2, <2>3 DEF Claim, TypeOK, registryVars, handlerVars, historyVars
  <2> QED
    BY <1>a, <1>1, <2>4, SameActivity DEF Claim
<1>2. CASE PrepareFails(r)
  <2>1. exec' \in [Runs -> Execution]
    BY <1>2, PhaseKeepsType DEF PrepareFails, TypeOK, Phase
  <2>2. TypeOK'
    BY <1>2, <2>1
       DEF PrepareFails, TypeOK, durableVars, registryVars, handlerVars, historyVars
  <2> QED
    BY <1>a, <1>2, <2>2, SameActivity DEF PrepareFails
<1>3. CASE SendText(r)
  <2>1. exec' \in [Runs -> Execution]
    BY <1>3, PhaseKeepsType DEF SendText, TypeOK, Phase
  <2>2. run' \in [Runs -> ActiveRun \cup {NoRecord}]
    <3>1. CASE Registered(r)
      <4>1. [run[r] EXCEPT !.handler = TRUE] \in ActiveRun
        BY <3>1, RegisteredIsActive, ActiveRunChanges
      <4>2. run' = [run EXCEPT ![r] = [run[r] EXCEPT !.handler = TRUE]]
        BY <1>3, <3>1 DEF SendText
      <4> QED
        BY <4>1, <4>2 DEF TypeOK
    <3>2. CASE ~ Registered(r)
      BY <1>3, <3>2 DEF SendText, TypeOK
    <3> QED
      BY <3>1, <3>2
  <2>3. sent' \in [Runs -> Nat]
    BY <1>3 DEF SendText, TypeOK
  <2>4. TypeOK'
    BY <1>3, <2>1, <2>2, <2>3 DEF SendText, TypeOK, durableVars, handlerVars
  <2> QED
    BY <1>a, <1>3, <2>4, SameActivity DEF SendText
<1>4. ASSUME NEW i \in Inputs, PromptOpens(r, i)
      PROVE  TypeAndActivity'
  <2>1. RegistryType' /\ ActivityType' /\ ActivityOK'
    BY <1>a, <1>4, EmitKeepsType, EventsAreEvents DEF PromptOpens
  <2>2. prompts' \in [Runs -> SUBSET Inputs] /\ opened' \in [Runs -> SUBSET Inputs]
    BY <1>4 DEF PromptOpens, TypeOK
  <2>3. TypeOK'
    BY <1>4, <2>1, <2>2
       DEF PromptOpens, TypeOK, RegistryType, ActivityType, Entry, durableVars,
           handlerVars, historyVars
  <2> QED
    BY <2>1, <2>3
<1>5. ASSUME NEW i \in Inputs, PromptCloses(r, i)
      PROVE  TypeAndActivity'
  <2>1. RegistryType' /\ ActivityType' /\ ActivityOK'
    BY <1>a, <1>5, EmitKeepsType, EventsAreEvents DEF PromptCloses
  <2>2. prompts' \in [Runs -> SUBSET Inputs]
    BY <1>5 DEF PromptCloses, TypeOK
  <2>3. TypeOK'
    BY <1>5, <2>1, <2>2
       DEF PromptCloses, TypeOK, RegistryType, ActivityType, Entry, durableVars,
           handlerVars, historyVars
  <2> QED
    BY <2>1, <2>3
<1>6. CASE TurnReturns(r)
  <2>1. [exec[r] EXCEPT !.phase = "completing", !.ok = ChatOf[r] \in chats] \in Execution
    <3>1. ASSUME NEW e \in Execution, NEW b \in BOOLEAN
          PROVE  [e EXCEPT !.phase = "completing", !.ok = b] \in Execution
      BY DEF Execution, Phase
    <3>2. exec[r] \in Execution /\ (ChatOf[r] \in chats) \in BOOLEAN
      BY DEF TypeOK
    <3> QED
      BY <3>1, <3>2
  <2>2. exec' = [exec EXCEPT ![r] = [exec[r] EXCEPT !.phase = "completing",
                                                    !.ok = ChatOf[r] \in chats]]
    BY <1>6 DEF TurnReturns
  <2>3. exec' \in [Runs -> Execution]
    BY <2>1, <2>2 DEF TypeOK
  <2>4. TypeOK'
    BY <1>6, <2>3
       DEF TurnReturns, TypeOK, durableVars, registryVars, handlerVars, historyVars
  <2> QED
    BY <1>a, <1>6, <2>4, SameActivity DEF TurnReturns
<1>7. CASE TurnFails(r)
  <2>1. exec' \in [Runs -> Execution]
    BY <1>7, PhaseKeepsType DEF TurnFails, TypeOK, Phase
  <2>2. prompts' \in [Runs -> SUBSET Inputs]
    BY <1>7 DEF TurnFails, TypeOK
  <2>3. TypeOK'
    BY <1>7, <2>1, <2>2
       DEF TurnFails, TypeOK, durableVars, registryVars, handlerVars, historyVars
  <2> QED
    BY <1>a, <1>7, <2>3, SameActivity DEF TurnFails
<1> QED
  BY <1>1, <1>2, <1>3, <1>4, <1>5, <1>6, <1>7 DEF Turn, Fail

LEMMA TypeSettle ==
  ASSUME TypeAndActivity, NEW r \in Runs, Settle(r)
  PROVE  TypeAndActivity'
<1> USE DEF TypeAndActivity
<1>a. RegistryType /\ ActivityType /\ ChatOf[r] \in Chats
  BY ChatOfAssumption DEF TypeOK, RegistryType, ActivityType, Entry
<1> DEFINE waits == run[r].status = "needsInput"
           kept == exec[r].ok /\ waits /\ run[r].handler
<1>1. RegistryType' /\ ActivityType' /\ ActivityOK'
  <2>1. CASE Registered(r) /\ kept
    <3>1. [run[r] EXCEPT !.completed = TRUE] \in ActiveRun
      BY <2>1, RegisteredIsActive, ActiveRunChanges
    <3>2. /\ run' = [run EXCEPT ![r] = [run[r] EXCEPT !.completed = TRUE]]
          /\ activity' = [activity EXCEPT ![ChatOf[r]] =
                            Applied(activity[ChatOf[r]], r, Result)]
          /\ UNCHANGED <<byChat, retired>>
      BY <2>1 DEF Settle
    <3>3. /\ Applied(activity[ChatOf[r]], r, Result) \in Entry
          /\ Coherent(Applied(activity[ChatOf[r]], r, Result), FALSE)
      BY <1>a, AppliedKeeps, EventsAreEvents DEF ActivityOK
    <3>4. RegistryType'
      BY <1>a, <3>1, <3>2 DEF RegistryType
    <3> QED
      BY <1>a, <3>2, <3>3, <3>4, OneActivity
  <2>2. CASE ~ (Registered(r) /\ kept)
    <3>1. Finish(r, IF exec[r].ok /\ ~ waits THEN Result ELSE Error)
      BY <2>2 DEF Settle
    <3>2. (IF exec[r].ok /\ ~ waits THEN Result ELSE Error) \in StreamEvent
      BY EventsAreEvents
    <3> QED
      BY <1>a, <3>1, <3>2, FinishKeepsType
  <2> QED
    BY <2>1, <2>2
<1>2. exec' \in [Runs -> Execution]
  <2>1. NotExecuting \in Execution
    BY DEF NotExecuting, Execution, Phase
  <2> QED
    BY <2>1 DEF Settle, TypeOK
<1>3. rows' \in [Runs -> RowState]
  BY DEF Settle, TypeOK, RowState
<1>4. TypeOK'
  BY <1>1, <1>2, <1>3
     DEF Settle, TypeOK, RegistryType, ActivityType, Entry, handlerVars, historyVars
<1> QED
  BY <1>1, <1>4

LEMMA TypeAnswer ==
  ASSUME TypeAndActivity, NEW r \in Runs, NEW i \in Inputs, Answer(r, i)
  PROVE  TypeAndActivity'
<1> USE DEF TypeAndActivity
<1>a. RegistryType /\ ActivityType /\ ChatOf[r] \in Chats
  BY ChatOfAssumption DEF TypeOK, RegistryType, ActivityType, Entry
<1>1. CASE AnswerBegins(r, i)
  <2>1. [run[r] EXCEPT !.pending = NoInput, !.status = "running"] \in ActiveRun
    BY <1>1, RegisteredIsActive, ActiveRunChanges DEF AnswerBegins, Answerable
  <2>2. run' = [run EXCEPT ![r] = [run[r] EXCEPT !.pending = NoInput,
                                                 !.status = "running"]]
    BY <1>1 DEF AnswerBegins
  <2>3. run' \in [Runs -> ActiveRun \cup {NoRecord}]
    BY <2>1, <2>2 DEF TypeOK
  <2>4. answering' \in [Runs -> SUBSET Inputs]
    BY <1>1 DEF AnswerBegins, TypeOK
  <2>5. TypeOK'
    BY <1>1, <2>3, <2>4 DEF AnswerBegins, TypeOK, durableVars, handlerVars, historyVars
  <2> QED
    BY <1>a, <1>1, <2>5, SameActivity DEF AnswerBegins
<1>2. CASE AnswerAtOnce(r, i)
  <2>1. RegistryType' /\ ActivityType' /\ ActivityOK'
    BY <1>a, <1>2, AnswerTakenKeepsType DEF AnswerAtOnce
  <2>2. prompts' \in [Runs -> SUBSET Inputs]
    BY <1>2 DEF AnswerAtOnce, TypeOK
  <2>3. TypeOK'
    BY <1>2, <2>1, <2>2
       DEF AnswerAtOnce, TypeOK, RegistryType, ActivityType, Entry, durableVars,
           handlerVars, historyVars
  <2> QED
    BY <2>1, <2>3
<1>3. CASE AnswerSucceeds(r, i)
  <2>1. RegistryType' /\ ActivityType' /\ ActivityOK'
    BY <1>a, <1>3, AnswerTakenKeepsType DEF AnswerSucceeds
  <2>2. prompts' \in [Runs -> SUBSET Inputs] /\ answering' \in [Runs -> SUBSET Inputs]
    BY <1>3 DEF AnswerSucceeds, TypeOK
  <2>3. TypeOK'
    BY <1>3, <2>1, <2>2
       DEF AnswerSucceeds, TypeOK, RegistryType, ActivityType, Entry, durableVars,
           handlerVars, historyVars
  <2> QED
    BY <2>1, <2>3
<1>4. CASE AnswerFails(r, i)
  <2>1. run' \in [Runs -> ActiveRun \cup {NoRecord}]
    <3>1. CASE Registered(r)
      <4>1. [run[r] EXCEPT !.pending = i, !.status = "needsInput"] \in ActiveRun
        BY <3>1, RegisteredIsActive, ActiveRunChanges
      <4>2. run' = [run EXCEPT ![r] = [run[r] EXCEPT !.pending = i,
                                                     !.status = "needsInput"]]
        BY <1>4, <3>1 DEF AnswerFails
      <4> QED
        BY <4>1, <4>2 DEF TypeOK
    <3>2. CASE ~ Registered(r)
      BY <1>4, <3>2 DEF AnswerFails, TypeOK
    <3> QED
      BY <3>1, <3>2
  <2>2. exec' \in [Runs -> Execution]
    <3>1. CASE exec[r].phase = "streaming"
      <4>1. exec' = [exec EXCEPT ![r].phase = "completing"]
        BY <1>4, <3>1 DEF AnswerFails
      <4> QED
        BY <4>1, PhaseKeepsType DEF TypeOK, Phase
    <3>2. CASE exec[r].phase # "streaming"
      BY <1>4, <3>2 DEF AnswerFails, TypeOK
    <3> QED
      BY <3>1, <3>2
  <2>3. prompts' \in [Runs -> SUBSET Inputs] /\ answering' \in [Runs -> SUBSET Inputs]
    BY <1>4 DEF AnswerFails, TypeOK
  <2>4. TypeOK'
    BY <1>4, <2>1, <2>2, <2>3 DEF AnswerFails, TypeOK, durableVars, handlerVars, historyVars
  <2> QED
    BY <1>a, <1>4, <2>4, SameActivity DEF AnswerFails
<1> QED
  BY <1>1, <1>2, <1>3, <1>4 DEF Answer

LEMMA TypeStop ==
  ASSUME TypeAndActivity, NEW r \in Runs, Stop(r)
  PROVE  TypeAndActivity'
<1> USE DEF TypeAndActivity
<1>a. RegistryType /\ ActivityType /\ ChatOf[r] \in Chats
  BY ChatOfAssumption DEF TypeOK, RegistryType, ActivityType, Entry
<1>1. CASE StopRegistered(r)
  <2>1. ActivityType' /\ ActivityOK'
    <3>1. /\ Cancelled(activity[ChatOf[r]], r) \in Entry
          /\ Coherent(Cancelled(activity[ChatOf[r]], r), FALSE)
      BY <1>a, NoActivityIsFine DEF Cancelled, ActivityOK
    <3>2. activity' = [activity EXCEPT ![ChatOf[r]] = Cancelled(activity[ChatOf[r]], r)]
      BY <1>1 DEF StopRegistered
    <3> QED
      BY <1>a, <3>1, <3>2, OneActivity
  <2>2. /\ RegistryType'
        /\ aborted' \subseteq Runs
        /\ prompts' \in [Runs -> SUBSET Inputs]
        /\ exec' \in [Runs -> Execution]
    <3>1. CASE ~ run[r].started \/ run[r].completed
      BY <1>a, <1>1, <3>1, RemoveKeepsType DEF StopRegistered, TypeOK
    <3>2. CASE ~ (~ run[r].started \/ run[r].completed)
      BY <1>a, <1>1, <3>2, AbortKeepsType DEF StopRegistered, RegistryType, registryVars
    <3> QED
      BY <3>1, <3>2
  <2>3. TypeOK'
    BY <1>1, <2>1, <2>2
       DEF StopRegistered, TypeOK, RegistryType, ActivityType, Entry, durableVars,
           historyVars
  <2> QED
    BY <2>1, <2>3
<1>2. CASE StopUnknown(r)
  <2>1. TypeOK'
    BY <1>2 DEF StopUnknown, TypeOK, durableVars, registryVars, execVars, historyVars
  <2> QED
    BY <1>a, <1>2, <2>1, SameActivity DEF StopUnknown
<1>3. CASE StopCancelsRow(r)
  <2>1. ActivityType' /\ ActivityOK'
    <3>1. CASE stop[r] = "unknown" /\ rows[r] # "none"
      <4>1. activity' = [activity EXCEPT ![ChatOf[r]] = NoActivity]
        BY <1>3, <3>1 DEF StopCancelsRow
      <4> QED
        BY <1>a, <4>1, OneActivity, NoActivityIsFine
    <3>2. CASE ~ (stop[r] = "unknown" /\ rows[r] # "none")
      BY <1>a, <1>3, <3>2, SameActivity DEF StopCancelsRow
    <3> QED
      BY <3>1, <3>2
  <2>2. rows' \in [Runs -> RowState] /\ stopped' \subseteq Runs
    BY <1>3 DEF StopCancelsRow, TypeOK, RowState
  <2>3. TypeOK'
    BY <1>3, <2>1, <2>2
       DEF StopCancelsRow, TypeOK, ActivityType, Entry, registryVars, execVars
  <2> QED
    BY <2>1, <2>3
<1> QED
  BY <1>1, <1>2, <1>3 DEF Stop

LEMMA TypeChat ==
  ASSUME TypeAndActivity, NEW c \in Chats, Clear(c) \/ DeleteChat(c) \/ ArchiveChat(c)
  PROVE  TypeAndActivity'
<1> USE DEF TypeAndActivity
<1>a. RegistryType /\ ActivityType
  BY DEF TypeOK, RegistryType, ActivityType, Entry
<1>1. CASE ClearBegins(c)
  <2>1. TypeOK'
    BY <1>1 DEF ClearBegins, TypeOK, durableVars, registryVars, execVars, historyVars
  <2> QED
    BY <1>a, <1>1, <2>1, SameActivity DEF ClearBegins
<1>2. CASE ClearChecks(c)
  <2>1. TypeOK'
    BY <1>2 DEF ClearChecks, TypeOK, durableVars, registryVars, execVars, historyVars
  <2> QED
    BY <1>a, <1>2, <2>1, SameActivity DEF ClearChecks
<1>3. CASE ClearDeletes(c)
  <2>1. ActivityType' /\ ActivityOK'
    <3>1. CASE AmbiguousRuns(c) # {}
      <4>1. activity' = [activity EXCEPT ![c] = NoActivity]
        BY <1>3, <3>1 DEF ClearDeletes
      <4> QED
        BY <1>a, <4>1, OneActivity, NoActivityIsFine
    <3>2. CASE AmbiguousRuns(c) = {}
      BY <1>a, <1>3, <3>2, SameActivity DEF ClearDeletes
    <3> QED
      BY <3>1, <3>2
  <2>2. rows' \in [Runs -> RowState]
    BY <1>3 DEF ClearDeletes, TypeOK, RowState
  <2>3. TypeOK'
    BY <1>3, <2>1, <2>2
       DEF ClearDeletes, TypeOK, ActivityType, Entry, registryVars, execVars, historyVars
  <2> QED
    BY <2>1, <2>3
<1>4. CASE DeleteChatBegins(c)
  <2>1. /\ RegistryType'
        /\ aborted' \subseteq Runs
        /\ prompts' \in [Runs -> SUBSET Inputs]
        /\ exec' \in [Runs -> Execution]
    <3>1. CASE byChat[c] # NoRun
      <4>1. byChat[c] \in Runs /\ Abort(byChat[c]) /\ Remove(byChat[c])
        BY <1>4, <3>1 DEF DeleteChatBegins, TypeOK
      <4> QED
        BY <1>a, <4>1, AbortKeepsType, RemoveKeepsType
    <3>2. CASE byChat[c] = NoRun
      BY <1>a, <1>4, <3>2 DEF DeleteChatBegins, TypeOK, RegistryType, registryVars
    <3> QED
      BY <3>1, <3>2
  <2>2. TypeOK'
    BY <1>4, <2>1 DEF DeleteChatBegins, TypeOK, RegistryType, durableVars, historyVars
  <2> QED
    BY <1>a, <1>4, <2>2, SameActivity DEF DeleteChatBegins
<1>5. CASE DeleteChatEnds(c)
  <2>1. ActivityType' /\ ActivityOK'
    BY <1>a, <1>5, OneActivity, NoActivityIsFine DEF DeleteChatEnds
  <2>2. rows' \in [Runs -> RowState] /\ chats' \subseteq Chats /\ archived' \subseteq chats'
    BY <1>5 DEF DeleteChatEnds, TypeOK, RowState
  <2>3. TypeOK'
    BY <1>5, <2>1, <2>2
       DEF DeleteChatEnds, TypeOK, ActivityType, Entry, registryVars, execVars, historyVars
  <2> QED
    BY <2>1, <2>3
<1>6. CASE Archive(c)
  <2>1. ActivityType' /\ ActivityOK'
    BY <1>a, <1>6, OneActivity, NoActivityIsFine DEF Archive
  <2>2. TypeOK'
    BY <1>6, <2>1
       DEF Archive, TypeOK, ActivityType, Entry, registryVars, execVars, handlerVars,
           historyVars
  <2> QED
    BY <2>1, <2>2
<1>7. CASE Restore(c)
  <2>1. TypeOK'
    BY <1>7 DEF Restore, TypeOK, registryVars, execVars, handlerVars, historyVars
  <2> QED
    BY <1>a, <1>7, <2>1, SameActivity DEF Restore
<1>8. CASE DeleteArchived(c)
  <2>1. ActivityType' /\ ActivityOK'
    BY <1>a, <1>8, OneActivity, NoActivityIsFine DEF DeleteArchived
  <2>2. rows' \in [Runs -> RowState] /\ chats' \subseteq Chats /\ archived' \subseteq chats'
    BY <1>8 DEF DeleteArchived, TypeOK, RowState
  <2>3. TypeOK'
    BY <1>8, <2>1, <2>2
       DEF DeleteArchived, TypeOK, ActivityType, Entry, registryVars, execVars,
           handlerVars, historyVars
  <2> QED
    BY <2>1, <2>3
<1> QED
  BY <1>1, <1>2, <1>3, <1>4, <1>5, <1>6, <1>7, <1>8 DEF Clear, DeleteChat, ArchiveChat

LEMMA TypeRest ==
  ASSUME TypeAndActivity,
         \/ \E c \in Chats, r \in Runs, s \in Ended : Acknowledge(c, r, s)
         \/ Crash
         \/ UNCHANGED vars
  PROVE  TypeAndActivity'
<1> USE DEF TypeAndActivity
<1>a. RegistryType /\ ActivityType
  BY DEF TypeOK, RegistryType, ActivityType, Entry
<1>1. ASSUME NEW c \in Chats, NEW r \in Runs, NEW s \in Ended, Acknowledge(c, r, s)
      PROVE  TypeAndActivity'
  <2>1. ActivityType' /\ ActivityOK'
    <3>1. /\ Acknowledged(activity[c], r, s) \in Entry
          /\ Coherent(Acknowledged(activity[c], r, s), FALSE)
      BY <1>a, NoActivityIsFine DEF Acknowledged, ActivityOK
    <3>2. activity' = [activity EXCEPT ![c] = Acknowledged(activity[c], r, s)]
      BY <1>1 DEF Acknowledge
    <3> QED
      BY <1>a, <3>1, <3>2, OneActivity
  <2>2. TypeOK'
    BY <1>1, <2>1
       DEF Acknowledge, TypeOK, ActivityType, Entry, durableVars, registryVars,
           execVars, handlerVars, historyVars
  <2> QED
    BY <2>1, <2>2
<1>2. CASE Crash
  <2>1. NotExecuting \in Execution
    BY DEF NotExecuting, Execution, Phase
  <2>2. ActivityType' /\ ActivityOK'
    BY <1>2, NoActivityIsFine DEF Crash, ActivityType, ActivityOK
  <2>3. crashes' \in Nat /\ exec' \in [Runs -> Execution]
    BY <1>2, <2>1 DEF Crash, TypeOK
  <2>4. TypeOK'
    BY <1>2, <2>2, <2>3 DEF Crash, TypeOK, ActivityType, Entry, durableVars
  <2> QED
    BY <2>2, <2>4
<1>3. CASE UNCHANGED vars
  <2>1. TypeOK'
    BY <1>3
       DEF vars, TypeOK, durableVars, registryVars, execVars, handlerVars, historyVars
  <2> QED
    BY <1>a, <1>3, <2>1, SameActivity DEF vars
<1> QED
  BY <1>1, <1>2, <1>3

LEMMA TypeRecover ==
  ASSUME TypeAndActivity, Recover
  PROVE  TypeAndActivity'
<1> USE DEF TypeAndActivity
<1>a. RegistryType /\ ActivityType
  BY DEF TypeOK, RegistryType, ActivityType, Entry
<1> DEFINE again(c) == CHOOSE r \in Recoverable : ChatOf[r] = c
<1>1. ASSUME NEW c \in Chats, \E r \in Recoverable : ChatOf[r] = c
      PROVE  again(c) \in Runs
  BY <1>1 DEF Recoverable
<1>2. ActivityType' /\ ActivityOK'
  <2>1. ASSUME NEW c \in Chats
        PROVE  activity'[c] \in Entry /\ Coherent(activity'[c], FALSE)
    <3>1. CASE \E r \in Recoverable : ChatOf[r] = c
      <4>1. activity'[c] = Started(activity[c], again(c), FALSE)
        BY <3>1 DEF Recover
      <4> QED
        <5>1. /\ again(c) \in Runs
              /\ activity[c] \in Entry
              /\ Coherent(activity[c], FALSE)
          BY <1>1, <3>1 DEF ActivityOK
        <5> HIDE DEF again
        <5>2. /\ Started(activity[c], again(c), FALSE) \in Entry
              /\ Coherent(Started(activity[c], again(c), FALSE), FALSE)
          BY <5>1, StartedKeeps
        <5> QED
          BY <4>1, <5>2
    <3>2. CASE ~ \E r \in Recoverable : ChatOf[r] = c
      <4>1. activity'[c] = activity[c]
        BY <3>2 DEF Recover
      <4> QED
        BY <4>1 DEF ActivityOK
    <3> QED
      BY <3>1, <3>2
  <2>2. activity' \in [Chats -> Entry]
    BY <2>1 DEF Recover
  <2> QED
    BY <2>1, <2>2 DEF ActivityType, ActivityOK, Coherent
<1>3. run' \in [Runs -> ActiveRun \cup {NoRecord}]
  <2>1. [Reservation EXCEPT !.started = TRUE] \in ActiveRun
    BY DEF Reservation, ActiveRun
  <2> QED
    BY <2>1 DEF Recover, TypeOK
<1>4. byChat' \in [Chats -> Runs \cup {NoRun}]
  <2>1. ASSUME NEW c \in Chats
        PROVE  byChat'[c] \in Runs \cup {NoRun}
    BY <1>1 DEF Recover, TypeOK
  <2> QED
    BY <2>1 DEF Recover
<1>5. exec' \in [Runs -> Execution]
  <2>1. [NotExecuting EXCEPT !.phase = "claiming"] \in Execution
    BY DEF NotExecuting, Execution, Phase
  <2> QED
    BY <2>1 DEF Recover, TypeOK
<1>6. TypeOK'
  BY <1>2, <1>3, <1>4, <1>5
     DEF Recover, TypeOK, ActivityType, Entry, durableVars, historyVars
<1> QED
  BY <1>2, <1>6

LEMMA TypeStep == TypeAndActivity /\ [Next]_vars => TypeAndActivity'
<1> SUFFICES ASSUME TypeAndActivity, [Next]_vars PROVE TypeAndActivity'
  OBVIOUS
<1>1. ASSUME NEW r \in Runs,
             Start(r) \/ Claim(r) \/ Turn(r) \/ Fail(r) \/ Settle(r) \/ Stop(r)
      PROVE  TypeAndActivity'
  BY <1>1, TypeStart, TypeTurn, TypeSettle, TypeStop
<1>2. ASSUME NEW r \in Runs, NEW i \in Inputs, Answer(r, i)
      PROVE  TypeAndActivity'
  BY <1>2, TypeAnswer
<1>3. ASSUME NEW c \in Chats, Clear(c) \/ DeleteChat(c) \/ ArchiveChat(c)
      PROVE  TypeAndActivity'
  BY <1>3, TypeChat
<1>4. CASE \/ \E c \in Chats, r \in Runs, s \in Ended : Acknowledge(c, r, s)
           \/ Crash
           \/ UNCHANGED vars
  BY <1>4, TypeRest
<1>5. CASE Recover
  BY <1>5, TypeRecover
<1> QED
  BY <1>1, <1>2, <1>3, <1>4, <1>5 DEF Next

\* Every variable keeps its type: each handler leaves the registry, the rows and
\* the execution in a state the code has, in whatever order they interleave.
THEOREM TypeCorrect == SafetySpec => []TypeOK
<1>1. TypeAndActivity => TypeOK
  BY DEF TypeAndActivity
<1> QED
  BY <1>1, TypeInit, TypeStep, PTL DEF SafetySpec

-----------------------------------------------------------------------------
(* What most handlers do to the registry, the rows and the executions *)

\* The registry keeps its runs, or one run leaves it.
Moves ==
  \/ /\ UNCHANGED <<byChat, retired>>
     /\ \A s \in Runs : run'[s] = NoRecord <=> run[s] = NoRecord
  \/ \E r \in Runs : Remove(r)

\* Nothing is accepted or sent, no row and no start request appears, and an
\* execution at most goes on to completeQueuedChatRun or ends.
Calm ==
  /\ UNCHANGED <<sent, accepted, recovered>>
  /\ \A s \in Runs :
       /\ rows'[s] # "none" => rows[s] # "none"
       /\ rows'[s] = "queued" => rows[s] = "queued"
       /\ start'[s] # "idle" => start[s] # "idle"
       /\ \/ exec'[s].phase \in {exec[s].phase, "idle"}
          \/ exec'[s].phase = "completing" /\ exec[s].phase \notin {"idle", "claiming"}

Known(s) == Registered(s) \/ s \in retired

LEMMA MovesKeepRegistry ==
  ASSUME TypeOK, RegistryAgrees, Moves
  PROVE  RegistryAgrees' /\ \A s \in Runs : Known(s) => Known(s)'
<1>1. CASE /\ UNCHANGED <<byChat, retired>>
           /\ \A s \in Runs : run'[s] = NoRecord <=> run[s] = NoRecord
  BY <1>1 DEF RegistryAgrees, Registered, Known, TypeOK
<1>2. ASSUME NEW r \in Runs, Remove(r)
      PROVE  RegistryAgrees' /\ \A s \in Runs : Known(s) => Known(s)'
  <2>1. CASE Registered(r)
    <3>1. /\ run' = [run EXCEPT ![r] = NoRecord]
          /\ byChat' = [byChat EXCEPT ![ChatOf[r]] = NoRun]
          /\ retired' = retired \cup {r}
      BY <1>2, <2>1 DEF Remove, RegistryAgrees
    <3>2. ASSUME NEW s \in Runs, Registered(s)'
          PROVE  byChat'[ChatOf[s]] = s
      <4>1. s # r /\ Registered(s)
        BY <3>1, <3>2 DEF Registered, TypeOK
      <4>2. ChatOf[s] # ChatOf[r]
        BY <2>1, <4>1 DEF RegistryAgrees
      <4> QED
        BY <3>1, <4>1, <4>2, ChatOfAssumption DEF RegistryAgrees, TypeOK
    <3>3. ASSUME NEW c \in Chats, byChat'[c] # NoRun
          PROVE  run'[byChat'[c]] # NoRecord /\ ChatOf[byChat'[c]] = c
      <4>1. c # ChatOf[r] /\ byChat'[c] = byChat[c] /\ byChat[c] \in Runs
        BY <3>1, <3>3 DEF TypeOK
      <4>2. Registered(byChat[c]) /\ ChatOf[byChat[c]] = c
        BY <3>3, <4>1 DEF RegistryAgrees
      <4> QED
        BY <3>1, <4>1, <4>2 DEF Registered, TypeOK
    <3>4. \A s \in Runs : Known(s) => Known(s)'
      BY <3>1 DEF Known, Registered, TypeOK
    <3>5. RegistryAgrees'
      BY <3>2, <3>3 DEF RegistryAgrees, Registered
    <3> QED
      BY <3>4, <3>5
  <2>2. CASE ~ Registered(r)
    BY <1>2, <2>2 DEF Remove, registryVars, RegistryAgrees, Registered, Known
  <2> QED
    BY <2>1, <2>2
<1> QED
  BY <1>1, <1>2 DEF Moves

\* The parts of IInv that say more than a type.
Accounts == RegistryAgrees /\ OneRowPerChat /\ Budget /\ Occupied

LEMMA CalmKeepsAccounts ==
  ASSUME TypeOK, Accounts, Moves, Calm
  PROVE  Accounts'
<1> USE DEF Accounts
<1>1. RegistryAgrees' /\ \A s \in Runs : Known(s) => Known(s)'
  BY MovesKeepRegistry
<1>2. OneRowPerChat'
  BY DEF Calm, OneRowPerChat
<1>3. Budget'
  <2>1. ASSUME NEW r \in Runs
        PROVE  /\ sent'[r] <= accepted'[r]
               /\ rows'[r] = "queued" => sent'[r] < accepted'[r]
               /\ exec'[r].phase \in {"claiming", "preparing"} => sent'[r] < accepted'[r]
               /\ exec'[r].phase \notin {"idle", "claiming"} => rows'[r] # "queued"
    BY DEF Calm, Budget
  <2> QED
    BY <2>1 DEF Budget
<1>4. Occupied'
  <2>1. ASSUME NEW r \in Runs
        PROVE  /\ exec'[r].phase # "idle" => recovered' /\ Known(r)'
               /\ start'[r] # "idle" => recovered' /\ exec'[r].phase = "idle"
    BY <1>1 DEF Calm, Occupied, Known
  <2> QED
    BY <2>1 DEF Occupied, Known
<1> QED
  BY <1>1, <1>2, <1>3, <1>4

LEMMA RemoveMoves ==
  ASSUME NEW r \in Runs, Remove(r) PROVE Moves
  BY DEF Moves

LEMMA SameRegistryMoves ==
  ASSUME UNCHANGED registryVars PROVE Moves
  BY DEF Moves, registryVars

\* A record of the registry is replaced by another one.
LEMMA ReplacedMoves ==
  ASSUME TypeOK, NEW r \in Runs, Registered(r), NEW a \in ActiveRun,
         run' = [run EXCEPT ![r] = a], UNCHANGED <<byChat, retired>>
  PROVE  Moves
  BY ActiveRunIsRegistered DEF Moves, Registered, TypeOK

LEMMA EmitMoves ==
  ASSUME TypeOK, NEW r \in Runs, NEW event \in StreamEvent, Emit(r, event),
         UNCHANGED <<byChat, retired>>
  PROVE  Moves
<1>1. CASE Registered(r)
  <2>1. Materialized(run[r], event) \in ActiveRun
    BY <1>1, RegisteredIsActive, MaterializedIsActive
  <2> QED
    BY <1>1, <2>1, ReplacedMoves DEF Emit
<1>2. CASE ~ Registered(r)
  BY <1>2, SameRegistryMoves DEF Emit, registryVars
<1> QED
  BY <1>1, <1>2

LEMMA FinishMoves ==
  ASSUME NEW r \in Runs, NEW last, Finish(r, last) PROVE Moves
  BY RemoveMoves, SameRegistryMoves DEF Finish

LEMMA AnswerTakenMoves ==
  ASSUME TypeOK, NEW r \in Runs, NEW i \in Inputs, AnswerTaken(r, i) PROVE Moves
<1>1. CASE Registered(r) /\ run[r].completed
  BY <1>1, RemoveMoves DEF AnswerTaken
<1>2. CASE Registered(r) /\ ~ run[r].completed
  <2>1. Materialized(run[r], Closes(i)) \in ActiveRun
    BY <1>2, RegisteredIsActive, MaterializedIsActive, EventsAreEvents
  <2> QED
    BY <1>2, <2>1, ReplacedMoves DEF AnswerTaken
<1>3. CASE ~ Registered(r)
  BY <1>3, SameRegistryMoves DEF AnswerTaken, registryVars
<1> QED
  BY <1>1, <1>2, <1>3

-----------------------------------------------------------------------------
(* The handlers that are calm *)

LEMMA AbortIsCalm ==
  ASSUME TypeOK, NEW r \in Runs, Abort(r)
  PROVE  \A s \in Runs :
           \/ exec'[s].phase \in {exec[s].phase, "idle"}
           \/ exec'[s].phase = "completing" /\ exec[s].phase \notin {"idle", "claiming"}
  BY DEF Abort, TypeOK, Execution

LEMMA StartIsCalm ==
  ASSUME TypeOK, NEW r \in Runs, StartChecks(r) \/ StartFails(r)
  PROVE  Moves /\ Calm
<1>1. Moves
  BY RemoveMoves, SameRegistryMoves DEF StartChecks, StartFails
<1>2. Calm
  BY DEF StartChecks, StartFails, Calm, TypeOK, durableVars, execVars, historyVars
<1> QED
  BY <1>1, <1>2

LEMMA TurnIsCalm ==
  ASSUME TypeOK, NEW r \in Runs,
         \/ Fail(r) \/ TurnReturns(r)
         \/ \E i \in Inputs : PromptOpens(r, i) \/ PromptCloses(r, i)
  PROVE  Moves /\ Calm
<1>1. CASE Fail(r) \/ TurnReturns(r)
  <2>1. Moves
    BY <1>1, SameRegistryMoves DEF Fail, PrepareFails, TurnFails, TurnReturns
  <2>2. /\ exec' = [exec EXCEPT ![r] = exec'[r]]
        /\ exec'[r].phase = "completing"
        /\ exec[r].phase \notin {"idle", "claiming"}
    BY <1>1 DEF Fail, PrepareFails, TurnFails, TurnReturns, TypeOK, Execution
  <2>3. Calm
    BY <1>1, <2>2
       DEF Fail, PrepareFails, TurnFails, TurnReturns, Calm, TypeOK, durableVars,
           handlerVars, historyVars
  <2> QED
    BY <2>1, <2>3
<1>2. ASSUME NEW i \in Inputs, PromptOpens(r, i) \/ PromptCloses(r, i)
      PROVE  Moves /\ Calm
  <2>1. Moves
    BY <1>2, EmitMoves, EventsAreEvents DEF PromptOpens, PromptCloses
  <2>2. Calm
    BY <1>2 DEF PromptOpens, PromptCloses, Calm, durableVars, handlerVars, historyVars
  <2> QED
    BY <2>1, <2>2
<1> QED
  BY <1>1, <1>2

LEMMA SettleIsCalm ==
  ASSUME TypeOK, NEW r \in Runs, Settle(r)
  PROVE  Moves /\ Calm
<1> DEFINE waits == run[r].status = "needsInput"
           kept == exec[r].ok /\ waits /\ run[r].handler
<1>1. Moves
  <2>1. CASE Registered(r) /\ kept
    <3>1. [run[r] EXCEPT !.completed = TRUE] \in ActiveRun
      BY <2>1, RegisteredIsActive, ActiveRunChanges
    <3>2. run' = [run EXCEPT ![r] = [run[r] EXCEPT !.completed = TRUE]]
          /\ UNCHANGED <<byChat, retired>>
      BY <2>1 DEF Settle
    <3> QED
      BY <2>1, <3>1, <3>2, ReplacedMoves
  <2>2. CASE ~ (Registered(r) /\ kept)
    BY <2>2, FinishMoves DEF Settle
  <2> QED
    BY <2>1, <2>2
<1>2. \A s \in Runs : exec'[s].phase \in {exec[s].phase, "idle"}
  BY DEF Settle, TypeOK, NotExecuting
<1>3. /\ UNCHANGED <<sent, accepted, recovered, start>>
      /\ rows' = [rows EXCEPT ![r] =
                    IF exec[r].claimed /\ @ = "dispatching" THEN "none" ELSE @]
  BY DEF Settle, handlerVars, historyVars
<1>4. Calm
  BY <1>2, <1>3 DEF Calm, TypeOK
<1> QED
  BY <1>1, <1>4

LEMMA AnswerIsCalm ==
  ASSUME TypeOK, NEW r \in Runs, NEW i \in Inputs, Answer(r, i)
  PROVE  Moves /\ Calm
<1>1. CASE AnswerBegins(r, i)
  <2>1. Registered(r) /\ [run[r] EXCEPT !.pending = NoInput, !.status = "running"] \in ActiveRun
    BY <1>1, RegisteredIsActive, ActiveRunChanges DEF AnswerBegins, Answerable
  <2>2. run' = [run EXCEPT ![r] = [run[r] EXCEPT !.pending = NoInput, !.status = "running"]]
        /\ UNCHANGED <<byChat, retired>>
    BY <1>1 DEF AnswerBegins
  <2>3. Moves
    BY <2>1, <2>2, ReplacedMoves
  <2>4. Calm
    BY <1>1 DEF AnswerBegins, Calm, durableVars, handlerVars, historyVars
  <2> QED
    BY <2>3, <2>4
<1>2. CASE AnswerAtOnce(r, i)
  <2>1. Calm
    BY <1>2 DEF AnswerAtOnce, Calm, durableVars, handlerVars, historyVars
  <2> QED
    BY <1>2, <2>1, AnswerTakenMoves DEF AnswerAtOnce
<1>3. CASE AnswerSucceeds(r, i)
  <2>1. Calm
    BY <1>3 DEF AnswerSucceeds, Calm, durableVars, handlerVars, historyVars
  <2> QED
    BY <1>3, <2>1, AnswerTakenMoves DEF AnswerSucceeds
<1>4. CASE AnswerFails(r, i)
  <2>1. Moves
    <3>1. CASE Registered(r)
      <4>1. [run[r] EXCEPT !.pending = i, !.status = "needsInput"] \in ActiveRun
        BY <3>1, RegisteredIsActive, ActiveRunChanges
      <4>2. run' = [run EXCEPT ![r] = [run[r] EXCEPT !.pending = i,
                                                     !.status = "needsInput"]]
            /\ UNCHANGED <<byChat, retired>>
        BY <1>4, <3>1 DEF AnswerFails
      <4> QED
        BY <3>1, <4>1, <4>2, ReplacedMoves
    <3>2. CASE ~ Registered(r)
      BY <1>4, <3>2, SameRegistryMoves DEF AnswerFails, registryVars
    <3> QED
      BY <3>1, <3>2
  <2>2. \A s \in Runs :
          \/ exec'[s].phase \in {exec[s].phase, "idle"}
          \/ exec'[s].phase = "completing" /\ exec[s].phase \notin {"idle", "claiming"}
    BY <1>4 DEF AnswerFails, TypeOK, Execution
  <2>3. Calm
    BY <1>4, <2>2 DEF AnswerFails, Calm, durableVars, handlerVars, historyVars
  <2> QED
    BY <2>1, <2>3
<1> QED
  BY <1>1, <1>2, <1>3, <1>4 DEF Answer

LEMMA StopIsCalm ==
  ASSUME TypeOK, NEW r \in Runs, Stop(r)
  PROVE  Moves /\ Calm
<1>1. CASE StopRegistered(r)
  <2>1. Moves
    BY <1>1, RemoveMoves, SameRegistryMoves DEF StopRegistered
  <2>2. \A s \in Runs :
          \/ exec'[s].phase \in {exec[s].phase, "idle"}
          \/ exec'[s].phase = "completing" /\ exec[s].phase \notin {"idle", "claiming"}
    BY <1>1, AbortIsCalm DEF StopRegistered
  <2>3. Calm
    BY <1>1, <2>2 DEF StopRegistered, Calm, durableVars, historyVars
  <2> QED
    BY <2>1, <2>3
<1>2. CASE StopUnknown(r)
  BY <1>2, SameRegistryMoves DEF StopUnknown, Calm, durableVars, execVars, historyVars
<1>3. CASE StopCancelsRow(r)
  BY <1>3, SameRegistryMoves DEF StopCancelsRow, Calm, TypeOK, execVars
<1> QED
  BY <1>1, <1>2, <1>3 DEF Stop

LEMMA ChatIsCalm ==
  ASSUME TypeOK, NEW c \in Chats, Clear(c) \/ DeleteChat(c) \/ ArchiveChat(c)
  PROVE  Moves /\ Calm
<1>1. CASE ClearBegins(c) \/ ClearChecks(c)
  BY <1>1, SameRegistryMoves
     DEF ClearBegins, ClearChecks, Calm, durableVars, execVars, historyVars
<1>2. CASE ClearDeletes(c)
  BY <1>2, SameRegistryMoves DEF ClearDeletes, Calm, execVars, historyVars
<1>3. CASE DeleteChatBegins(c)
  <2>1. byChat[c] # NoRun => byChat[c] \in Runs
    BY DEF TypeOK
  <2>2. Moves
    BY <1>3, <2>1, RemoveMoves, SameRegistryMoves DEF DeleteChatBegins
  <2>3. \A s \in Runs :
          \/ exec'[s].phase \in {exec[s].phase, "idle"}
          \/ exec'[s].phase = "completing" /\ exec[s].phase \notin {"idle", "claiming"}
    BY <1>3, <2>1, AbortIsCalm DEF DeleteChatBegins
  <2>4. Calm
    BY <1>3, <2>3 DEF DeleteChatBegins, Calm, durableVars, historyVars
  <2> QED
    BY <2>2, <2>4
<1>4. CASE DeleteChatEnds(c)
  BY <1>4, SameRegistryMoves DEF DeleteChatEnds, Calm, execVars, historyVars
<1>5. CASE ArchiveChat(c)
  BY <1>5, SameRegistryMoves
     DEF ArchiveChat, Archive, Restore, DeleteArchived, Calm, execVars, handlerVars,
         historyVars
<1> QED
  BY <1>1, <1>2, <1>3, <1>4, <1>5 DEF Clear, DeleteChat

LEMMA RestIsCalm ==
  ASSUME \/ \E c \in Chats, r \in Runs, s \in Ended : Acknowledge(c, r, s)
         \/ UNCHANGED vars
  PROVE  Moves /\ Calm
  BY SameRegistryMoves
     DEF Acknowledge, Calm, vars, durableVars, execVars, handlerVars, historyVars

-----------------------------------------------------------------------------
(* The handlers that accept, claim, send and recover *)

LEMMA ReserveKeepsAccounts ==
  ASSUME TypeOK, Accounts, NEW r \in Runs, StartReserves(r)
  PROVE  Accounts'
<1> USE DEF Accounts
<1>1. /\ run' = [run EXCEPT ![r] = Reservation]
      /\ byChat' = [byChat EXCEPT ![ChatOf[r]] = r]
      /\ byChat[ChatOf[r]] = NoRun
      /\ ~ Registered(r) /\ r \notin retired /\ recovered
      /\ start' = [start EXCEPT ![r] = "checking"]
      /\ UNCHANGED <<rows, retired, exec, recovered, accepted, sent>>
  BY DEF StartReserves, durableVars
<1>2. Reservation # NoRecord
  BY DEF Reservation, NoRecord
<1>3. RegistryAgrees'
  <2>1. ASSUME NEW s \in Runs, run'[s] # NoRecord
        PROVE  byChat'[ChatOf[s]] = s
    BY <1>1, <2>1, ChatOfAssumption, RunsAssumption DEF RegistryAgrees, Registered, TypeOK
  <2>2. ASSUME NEW c \in Chats, byChat'[c] # NoRun
        PROVE  run'[byChat'[c]] # NoRecord /\ ChatOf[byChat'[c]] = c
    BY <1>1, <1>2, <2>2, ChatOfAssumption DEF RegistryAgrees, Registered, TypeOK
  <2> QED
    BY <2>1, <2>2 DEF RegistryAgrees, Registered
<1>4. Occupied'
  <2>1. exec[r].phase = "idle"
    BY <1>1 DEF Occupied
  <2> QED
    BY <1>1, <1>2, <2>1 DEF Occupied, Registered, TypeOK
<1> QED
  BY <1>1, <1>3, <1>4 DEF OneRowPerChat, Budget

LEMMA AcceptKeepsAccounts ==
  ASSUME TypeOK, Accounts, NEW r \in Runs, StartAccepts(r)
  PROVE  Accounts'
<1> USE DEF Accounts
<1>1. /\ start[r] = "inserting" /\ ~ InsertRefused(r)
      /\ rows' = [rows EXCEPT ![r] = "queued"]
      /\ accepted' = [accepted EXCEPT ![r] = accepted[r] + 1]
      /\ start' = [start EXCEPT ![r] = "idle"]
      /\ UNCHANGED <<byChat, retired, recovered, sent>>
  BY DEF StartAccepts
<1>2. recovered /\ exec[r].phase = "idle"
  BY <1>1 DEF Occupied
<1>3. Moves /\ (exec' = exec \/ (Registered(r) /\ exec' = [exec EXCEPT ![r].phase = "claiming"]))
  <2>1. CASE Registered(r)
    <3>1. [run[r] EXCEPT !.started = TRUE] \in ActiveRun
      BY <2>1, RegisteredIsActive, ActiveRunChanges
    <3>2. run' = [run EXCEPT ![r] = [run[r] EXCEPT !.started = TRUE]]
      BY <2>1 DEF StartAccepts
    <3>3. Moves
      BY <1>1, <2>1, <3>1, <3>2, ReplacedMoves
    <3> QED
      BY <2>1, <3>3 DEF StartAccepts
  <2>2. CASE ~ Registered(r)
    BY <1>1, <2>2, SameRegistryMoves DEF StartAccepts, registryVars
  <2> QED
    BY <2>1, <2>2
<1>4. RegistryAgrees' /\ \A s \in Runs : Known(s) => Known(s)'
  BY <1>3, MovesKeepRegistry
<1>5. OneRowPerChat'
  <2>1. \A s \in Runs : ChatOf[s] = ChatOf[r] => rows[s] = "none"
    BY <1>1 DEF InsertRefused, RowsOf
  <2> QED
    BY <1>1, <2>1 DEF OneRowPerChat, TypeOK
<1>6. Budget'
  <2>1. ASSUME NEW s \in Runs
        PROVE  /\ sent'[s] <= accepted'[s]
               /\ rows'[s] = "queued" => sent'[s] < accepted'[s]
               /\ exec'[s].phase \in {"claiming", "preparing"} => sent'[s] < accepted'[s]
               /\ exec'[s].phase \notin {"idle", "claiming"} => rows'[s] # "queued"
    <3>1. CASE s = r
      <4>1. sent[r] \in Nat /\ accepted[r] \in Nat /\ sent[r] <= accepted[r]
        BY DEF TypeOK, Budget
      <4>2. sent'[r] < accepted'[r] /\ sent'[r] <= accepted'[r]
        BY <1>1, <4>1 DEF TypeOK
      <4>3. exec'[r].phase \in {"idle", "claiming"}
        BY <1>2, <1>3 DEF TypeOK, Execution
      <4> QED
        BY <3>1, <4>2, <4>3
    <3>2. CASE s # r
      <4>1. /\ sent'[s] = sent[s] /\ accepted'[s] = accepted[s]
            /\ rows'[s] = rows[s] /\ exec'[s] = exec[s]
        BY <1>1, <1>3, <3>2 DEF TypeOK
      <4> QED
        BY <4>1 DEF Budget
    <3> QED
      BY <3>1, <3>2
  <2> QED
    BY <2>1 DEF Budget
<1>7. Occupied'
  <2>1. ASSUME NEW s \in Runs
        PROVE  /\ exec'[s].phase # "idle" => recovered' /\ Known(s)'
               /\ start'[s] # "idle" => recovered' /\ exec'[s].phase = "idle"
    BY <1>1, <1>2, <1>3, <1>4 DEF Occupied, Known, TypeOK
  <2> QED
    BY <2>1 DEF Occupied, Known
<1> QED
  BY <1>4, <1>5, <1>6, <1>7

LEMMA ClaimKeepsAccounts ==
  ASSUME TypeOK, Accounts, NEW r \in Runs, Claim(r)
  PROVE  Accounts'
<1> USE DEF Accounts
<1> DEFINE e == [ phase |-> IF rows[r] = "dispatching" THEN "completing" ELSE "preparing",
                  claimed |-> rows[r] = "queued", ok |-> FALSE ]
<1>1. /\ exec[r].phase = "claiming"
      /\ exec' = [exec EXCEPT ![r] = e]
      /\ rows' = [rows EXCEPT ![r] = IF rows[r] = "queued" THEN "dispatching" ELSE rows[r]]
      /\ UNCHANGED <<run, byChat, retired, start, recovered, accepted, sent>>
  BY DEF Claim, registryVars, handlerVars, historyVars
<1>2. e.phase \in {"completing", "preparing"}
  OBVIOUS
<1> HIDE DEF e
<1>3. RegistryAgrees'
  BY <1>1 DEF RegistryAgrees, Registered
<1>4. OneRowPerChat'
  BY <1>1 DEF OneRowPerChat, TypeOK
<1>5. Budget'
  <2>1. sent[r] < accepted[r]
    BY <1>1 DEF Budget
  <2>2. rows'[r] # "queued"
    BY <1>1 DEF TypeOK
  <2>3. ASSUME NEW s \in Runs, s # r
        PROVE  rows'[s] = rows[s] /\ exec'[s] = exec[s]
    BY <1>1, <2>3 DEF TypeOK
  <2> QED
    BY <1>1, <2>1, <2>2, <2>3 DEF Budget
<1>6. Occupied'
  BY <1>1, <1>2 DEF Occupied, Registered, TypeOK
<1> QED
  BY <1>3, <1>4, <1>5, <1>6

LEMMA SendKeepsAccounts ==
  ASSUME TypeOK, Accounts, NEW r \in Runs, SendText(r)
  PROVE  Accounts'
<1> USE DEF Accounts
<1>1. /\ exec[r].phase = "preparing"
      /\ exec' = [exec EXCEPT ![r].phase = "streaming"]
      /\ sent' = [sent EXCEPT ![r] = sent[r] + 1]
      /\ UNCHANGED <<rows, byChat, retired, start, recovered, accepted>>
  BY DEF SendText, durableVars, handlerVars
<1>2. Moves
  <2>1. CASE Registered(r)
    <3>1. [run[r] EXCEPT !.handler = TRUE] \in ActiveRun
      BY <2>1, RegisteredIsActive, ActiveRunChanges
    <3>2. run' = [run EXCEPT ![r] = [run[r] EXCEPT !.handler = TRUE]]
      BY <2>1 DEF SendText
    <3> QED
      BY <1>1, <2>1, <3>1, <3>2, ReplacedMoves
  <2>2. CASE ~ Registered(r)
    BY <1>1, <2>2, SameRegistryMoves DEF SendText, registryVars
  <2> QED
    BY <2>1, <2>2
<1>3. RegistryAgrees' /\ \A s \in Runs : Known(s) => Known(s)'
  BY <1>2, MovesKeepRegistry
<1>4. OneRowPerChat'
  BY <1>1 DEF OneRowPerChat
<1>5. exec'[r].phase = "streaming"
  BY <1>1 DEF TypeOK, Execution
<1>6. Budget'
  <2>1. /\ sent[r] \in Nat /\ accepted[r] \in Nat
        /\ sent[r] < accepted[r] /\ rows[r] # "queued"
    BY <1>1 DEF TypeOK, Budget
  <2>2. sent'[r] <= accepted'[r]
    BY <1>1, <2>1 DEF TypeOK
  <2>3. ASSUME NEW s \in Runs, s # r
        PROVE  sent'[s] = sent[s] /\ exec'[s] = exec[s]
    BY <1>1, <2>3 DEF TypeOK
  <2> QED
    BY <1>1, <1>5, <2>1, <2>2, <2>3 DEF Budget
<1>7. Occupied'
  <2>1. ASSUME NEW s \in Runs
        PROVE  /\ exec'[s].phase # "idle" => recovered' /\ Known(s)'
               /\ start'[s] # "idle" => recovered' /\ exec'[s].phase = "idle"
    BY <1>1, <1>3 DEF Occupied, Known, TypeOK
  <2> QED
    BY <2>1 DEF Occupied, Known
<1> QED
  BY <1>3, <1>4, <1>6, <1>7

LEMMA CrashKeepsAccounts ==
  ASSUME TypeOK, Accounts, Crash
  PROVE  Accounts'
<1> USE DEF Accounts
<1>1. /\ run' = [r \in Runs |-> NoRecord]
      /\ byChat' = [c \in Chats |-> NoRun]
      /\ exec' = [r \in Runs |-> NotExecuting]
      /\ start' = [r \in Runs |-> "idle"]
      /\ UNCHANGED <<rows, accepted, sent>>
  BY DEF Crash, durableVars
<1>2. NotExecuting.phase = "idle"
  BY DEF NotExecuting
<1>3. RegistryAgrees'
  BY <1>1 DEF RegistryAgrees, Registered
<1>4. OneRowPerChat' /\ Budget' /\ Occupied'
  BY <1>1, <1>2 DEF OneRowPerChat, Budget, Occupied
<1> QED
  BY <1>3, <1>4

LEMMA RecoverKeepsAccounts ==
  ASSUME TypeOK, Accounts, Recover
  PROVE  Accounts'
<1> USE DEF Accounts
<1> DEFINE again(c) == CHOOSE r \in Recoverable : ChatOf[r] = c
           record == [Reservation EXCEPT !.started = TRUE]
           claiming == [NotExecuting EXCEPT !.phase = "claiming"]
<1>1. /\ ~ recovered /\ recovered'
      /\ run' = [r \in Runs |-> IF r \in Recoverable THEN record ELSE run[r]]
      /\ byChat' = [c \in Chats |-> IF \E r \in Recoverable : ChatOf[r] = c
                                    THEN again(c) ELSE byChat[c]]
      /\ exec' = [r \in Runs |-> IF r \in Recoverable THEN claiming ELSE exec[r]]
      /\ UNCHANGED <<rows, retired, start, accepted, sent>>
  BY DEF Recover, durableVars, historyVars
<1>2. record # NoRecord /\ claiming.phase = "claiming"
  BY DEF Reservation, NoRecord, NotExecuting
<1>3. ASSUME NEW r \in Recoverable
      PROVE  /\ r \in Runs /\ rows[r] = "queued" /\ byChat[ChatOf[r]] = NoRun
             /\ ChatOf[r] \in Chats /\ r # NoRun
  BY ChatOfAssumption, RunsAssumption DEF Recoverable
<1>4. ASSUME NEW r \in Recoverable
      PROVE  again(ChatOf[r]) = r
  <2>1. again(ChatOf[r]) \in Recoverable /\ ChatOf[again(ChatOf[r])] = ChatOf[r]
    OBVIOUS
  <2> HIDE DEF again
  <2>2. rows[r] # "none" /\ rows[again(ChatOf[r])] # "none"
    BY <1>3, <2>1
  <2> QED
    BY <1>3, <2>1, <2>2 DEF OneRowPerChat
<1> HIDE DEF again, record, claiming
<1>5. RegistryAgrees'
  <2>1. ASSUME NEW s \in Runs, run'[s] # NoRecord
        PROVE  byChat'[ChatOf[s]] = s
    <3>1. CASE s \in Recoverable
      BY <1>1, <1>3, <1>4, <3>1
    <3>2. CASE s \notin Recoverable
      <4>1. Registered(s) /\ byChat[ChatOf[s]] = s
        BY <1>1, <2>1, <3>2 DEF Registered, RegistryAgrees
      <4>2. ~ \E r \in Recoverable : ChatOf[r] = ChatOf[s]
        BY <1>3, <4>1, RunsAssumption
      <4> QED
        BY <1>1, <4>1, <4>2, ChatOfAssumption
    <3> QED
      BY <3>1, <3>2
  <2>2. ASSUME NEW c \in Chats, byChat'[c] # NoRun
        PROVE  run'[byChat'[c]] # NoRecord /\ ChatOf[byChat'[c]] = c
    <3>1. ASSUME NEW r \in Recoverable, ChatOf[r] = c
          PROVE  run'[byChat'[c]] # NoRecord /\ ChatOf[byChat'[c]] = c
      BY <1>1, <1>2, <1>3, <1>4, <3>1
    <3>2. CASE ~ \E r \in Recoverable : ChatOf[r] = c
      <4>1. byChat'[c] = byChat[c] /\ byChat[c] \in Runs
        BY <1>1, <2>2, <3>2 DEF TypeOK
      <4>2. Registered(byChat[c]) /\ ChatOf[byChat[c]] = c
        BY <2>2, <4>1 DEF RegistryAgrees
      <4> QED
        BY <1>1, <1>2, <4>1, <4>2 DEF Registered
    <3> QED
      BY <3>1, <3>2
  <2> QED
    BY <2>1, <2>2 DEF RegistryAgrees, Registered
<1>6. OneRowPerChat'
  BY <1>1 DEF OneRowPerChat
<1>7. \A s \in Runs : exec[s].phase = "idle" /\ start[s] = "idle"
  BY <1>1 DEF Occupied
<1>8. Budget'
  <2>1. ASSUME NEW s \in Runs
        PROVE  /\ exec'[s].phase \in {"idle", "claiming"}
               /\ exec'[s].phase = "claiming" => rows[s] = "queued"
    BY <1>1, <1>2, <1>3, <1>7
  <2> QED
    BY <1>1, <2>1 DEF Budget
<1>9. Occupied'
  <2>1. ASSUME NEW s \in Runs, exec'[s].phase # "idle"
        PROVE  run'[s] # NoRecord
    BY <1>1, <1>2, <1>7, <2>1
  <2> QED
    BY <1>1, <1>7, <2>1 DEF Occupied, Registered
<1> QED
  BY <1>5, <1>6, <1>8, <1>9

-----------------------------------------------------------------------------
(* The inductive invariant and the theorems *)

LEMMA IInvInit == Init => IInv
<1> SUFFICES ASSUME Init PROVE IInv
  OBVIOUS
<1>1. TypeOK /\ ActivityOK
  BY TypeInit DEF TypeAndActivity
<1>2. RegistryAgrees /\ OneRowPerChat
  BY DEF Init, RegistryAgrees, Registered, OneRowPerChat
<1>3. Budget /\ Occupied
  BY DEF Init, Budget, Occupied, NotExecuting
<1> QED
  BY <1>1, <1>2, <1>3 DEF IInv

LEMMA IInvStep == IInv /\ [Next]_vars => IInv'
<1> SUFFICES ASSUME IInv, [Next]_vars PROVE IInv'
  OBVIOUS
<1>1. TypeOK /\ Accounts
  BY DEF IInv, Accounts
<1>2. TypeAndActivity'
  BY TypeStep DEF IInv, TypeAndActivity
<1>3. Accounts'
  <2>1. ASSUME NEW r \in Runs,
               Start(r) \/ Claim(r) \/ Turn(r) \/ Fail(r) \/ Settle(r) \/ Stop(r)
        PROVE  Accounts'
    <3>1. CASE Start(r)
      BY <1>1, <3>1, ReserveKeepsAccounts, StartIsCalm, CalmKeepsAccounts,
         AcceptKeepsAccounts DEF Start
    <3>2. CASE Claim(r)
      BY <1>1, <3>2, ClaimKeepsAccounts
    <3>3. CASE Turn(r) \/ Fail(r)
      BY <1>1, <3>3, SendKeepsAccounts, TurnIsCalm, CalmKeepsAccounts DEF Turn
    <3>4. CASE Settle(r) \/ Stop(r)
      BY <1>1, <3>4, SettleIsCalm, StopIsCalm, CalmKeepsAccounts
    <3> QED
      BY <2>1, <3>1, <3>2, <3>3, <3>4
  <2>2. ASSUME NEW r \in Runs, NEW i \in Inputs, Answer(r, i)
        PROVE  Accounts'
    BY <1>1, <2>2, AnswerIsCalm, CalmKeepsAccounts
  <2>3. ASSUME NEW c \in Chats, Clear(c) \/ DeleteChat(c) \/ ArchiveChat(c)
        PROVE  Accounts'
    BY <1>1, <2>3, ChatIsCalm, CalmKeepsAccounts
  <2>4. CASE \/ \E c \in Chats, r \in Runs, s \in Ended : Acknowledge(c, r, s)
             \/ UNCHANGED vars
    BY <1>1, <2>4, RestIsCalm, CalmKeepsAccounts
  <2>5. CASE Crash
    BY <1>1, <2>5, CrashKeepsAccounts
  <2>6. CASE Recover
    BY <1>1, <2>6, RecoverKeepsAccounts
  <2> QED
    BY <2>1, <2>2, <2>3, <2>4, <2>5, <2>6 DEF Next
<1> QED
  BY <1>2, <1>3 DEF IInv, Accounts, TypeAndActivity

\* The strengthening that both safety theorems rest on holds of every state the
\* handlers, the crashes and the recovery can reach.
THEOREM Inductive == SafetySpec => []IInv
  BY IInvInit, IInvStep, PTL DEF SafetySpec

\* The run a chat is taken by is a registered run of that chat, and a registered
\* run has its chat: also when requests overlap, and after a recovery.
THEOREM RegistryMapsAgree == SafetySpec => []RegistryAgrees
<1>1. IInv => RegistryAgrees
  BY DEF IInv
<1> QED
  BY <1>1, Inductive, PTL

\* However often the daemon crashes and recovers, and however the handlers
\* interleave, a message reaches the agent at most once each time it is accepted.
THEOREM MessageNeverResent == SafetySpec => []NeverResent
<1>1. IInv => NeverResent
  BY DEF IInv, Budget, NeverResent
<1> QED
  BY <1>1, Inductive, PTL

-----------------------------------------------------------------------------
(* Turns, stops and clears of a run, and its row *)

ChatThere(r) == ChatOf[r] \in chats
Executing(r) == exec[r].phase # "idle"

\* A run id is used once: a registered run is not retired, and before the recovery
\* there is neither.
Once(r) ==
  /\ Registered(r) => r \notin retired
  /\ ~ recovered => ~ Registered(r) /\ r \notin retired

\* A turn whose run has left the registry was aborted; the row it works on is the one
\* it has claimed; a run is a reservation while a start
\* request goes on, and is kept for an answer only after its turn.
TurnOK(r) ==
  /\ Executing(r) /\ ~ Registered(r) => r \in aborted
  /\ Registered(r) => /\ run[r].started <=> start[r] = "idle"
                      /\ run[r].completed => run[r].started /\ ~ Executing(r)
  /\ exec[r].phase = "claiming" => rows[r] # "dispatching"
  /\ exec[r].phase \notin {"idle", "claiming"} /\ rows[r] = "dispatching" => exec[r].claimed

\* Before a Stop cancels the row, the turn is aborted, or there is none.
StopOK(r) ==
  "stop during recovery" \notin Overlaps =>
    (stop[r] # "idle" =>
       recovered /\ (r \in aborted \/ (~ Executing(r) /\ ~ Registered(r))))

\* A stopped run has no row left, and no start request that could store one.
StoppedOK(r) ==
  {"stop during start", "stop during recovery"} \cap Overlaps = {} =>
    /\ stop[r] # "idle" => start[r] = "idle"
    /\ r \in stopped => /\ rows[r] = "none" /\ start[r] = "idle"
                        /\ exec[r].phase \in {"claiming", "preparing"} => r \in aborted

\* A clear deletes the row of no turn that goes on.
ClearOK(r) ==
  {"clear during start", "stop during recovery"} \cap Overlaps = {} =>
    /\ clear[ChatOf[r]] # "idle" =>
         recovered /\ start[r] = "idle" /\ exec[r].phase # "claiming"
    /\ clear[ChatOf[r]] = "deleting" /\ Executing(r) /\ ChatThere(r) => r \in aborted

\* A turn that goes on has its row.
RowOK(r) ==
  {"clear during start", "stop during recovery"} \cap Overlaps = {} =>
    (Executing(r) /\ r \notin aborted /\ ChatThere(r) =>
       rows[r] = IF exec[r].phase = "claiming" THEN "queued" ELSE "dispatching")

RunOK(r) == Once(r) /\ TurnOK(r) /\ StopOK(r) /\ StoppedOK(r) /\ ClearOK(r) /\ RowOK(r)
RunsOK == \A r \in Runs : RunOK(r)

\* Nothing that the invariants say of a run changes.
Same(s) ==
  /\ run'[s] = run[s] /\ exec'[s] = exec[s] /\ rows'[s] = rows[s]
  /\ prompts'[s] = prompts[s] /\ answering'[s] = answering[s]
  /\ start'[s] = start[s] /\ stop'[s] = stop[s] /\ clear'[ChatOf[s]] = clear[ChatOf[s]]
  /\ s \in retired' <=> s \in retired
  /\ s \in aborted' <=> s \in aborted
  /\ s \in stopped' <=> s \in stopped
  /\ recovered' = recovered /\ chats' \subseteq chats /\ runtime' = runtime

\* The turn goes on, or nothing happens to it; it may be aborted.
Onward(s) ==
  /\ Registered(s)' <=> Registered(s)
  /\ Registered(s) => /\ run'[s].started <=> run[s].started
                      /\ run'[s].completed <=> run[s].completed
  /\ exec'[s].claimed <=> exec[s].claimed
  /\ \/ exec'[s].phase = exec[s].phase
     \/ exec[s].phase \in {"preparing", "streaming"} /\ exec'[s].phase \in {"streaming", "completing"}
  /\ rows'[s] = rows[s] /\ start'[s] = start[s] /\ stop'[s] = stop[s]
  /\ clear'[ChatOf[s]] = clear[ChatOf[s]]
  /\ s \in retired' <=> s \in retired
  /\ s \in aborted => s \in aborted'
  /\ s \in stopped' <=> s \in stopped
  /\ recovered' = recovered /\ chats' \subseteq chats

LEMMA OnwardKeepsRun ==
  ASSUME NEW s \in Runs, Onward(s), RunOK(s)
  PROVE  RunOK(s)'
<1>1. ChatThere(s)' => ChatThere(s)
  BY DEF Onward, ChatThere
<1>2. Once(s)' /\ TurnOK(s)'
  BY DEF Onward, RunOK, Once, TurnOK, Executing
<1>3. StopOK(s)' /\ StoppedOK(s)'
  BY DEF Onward, RunOK, StopOK, StoppedOK, Executing
<1>4. ClearOK(s)' /\ RowOK(s)'
  BY <1>1 DEF Onward, RunOK, ClearOK, RowOK, Executing
<1> QED
  BY <1>2, <1>3, <1>4 DEF RunOK

LEMMA SameKeepsRun ==
  ASSUME NEW s \in Runs, Same(s), RunOK(s)
  PROVE  RunOK(s)'
<1>1. Onward(s)
  BY DEF Same, Onward, Registered
<1> QED
  BY <1>1, OnwardKeepsRun

LEMMA RemoveRun ==
  ASSUME TypeOK, NEW r \in Runs, Remove(r)
  PROVE  /\ run'[r] = NoRecord
         /\ r \in retired' <=> (Registered(r) \/ r \in retired)
         /\ \A s \in Runs : s # r => run'[s] = run[s] /\ (s \in retired' <=> s \in retired)
<1>1. CASE Registered(r)
  BY <1>1 DEF Remove, TypeOK
<1>2. CASE ~ Registered(r)
  BY <1>2 DEF Remove, registryVars, Registered
<1> QED
  BY <1>1, <1>2

LEMMA ReservationIsNew ==
  /\ Reservation \in ActiveRun
  /\ Reservation.started = FALSE /\ Reservation.completed = FALSE
  /\ Reservation.status = "running" /\ Reservation.pending = NoInput
  BY DEF Reservation, ActiveRun

LEMMA ReserveKeepsRuns ==
  ASSUME IInv, RunsOK, NEW r \in Runs, StartReserves(r)
  PROVE  RunsOK'
<1>1. /\ ~ Registered(r) /\ r \notin retired /\ recovered /\ stop[r] = "idle"
      /\ "clear during start" \in Overlaps \/ clear[ChatOf[r]] = "idle"
      /\ run'[r] = Reservation /\ start'[r] = "checking" /\ r \notin stopped'
      /\ UNCHANGED <<rows, chats, exec, stop, clear, recovered, retired>>
  BY DEF StartReserves, durableVars, IInv, TypeOK
<1>2. ~ Executing(r)
  BY <1>1 DEF IInv, Occupied, Executing
<1>3. run'[r].started = FALSE /\ run'[r].completed = FALSE
  BY <1>1, ReservationIsNew
<1>5. RunOK(r)'
  <2>1. Once(r)'
    BY <1>1 DEF Once
  <2>2. TurnOK(r)'
    BY <1>1, <1>2, <1>3 DEF TurnOK, Executing
  <2>3. StopOK(r)' /\ RowOK(r)'
    BY <1>1, <1>2 DEF StopOK, RowOK, Executing
  <2>4. StoppedOK(r)' /\ ClearOK(r)'
    BY <1>1, <1>2 DEF StoppedOK, ClearOK, Executing
  <2> QED
    BY <2>1, <2>2, <2>3, <2>4 DEF RunOK
<1>4. \A s \in Runs : s # r => Same(s)
  BY DEF StartReserves, durableVars, Same, IInv, TypeOK
<1> QED
  BY <1>4, <1>5, SameKeepsRun DEF RunsOK

LEMMA StartEndsKeepsRuns ==
  ASSUME IInv, RunsOK, NEW r \in Runs, StartChecks(r) \/ StartFails(r)
  PROVE  RunsOK'
<1>1. /\ start[r] # "idle" /\ ~ Executing(r) /\ recovered
      /\ \/ UNCHANGED <<run, retired>> /\ start'[r] # "idle"
         \/ start'[r] = "idle" /\ run'[r] = NoRecord
      /\ UNCHANGED <<rows, chats, exec, aborted, stop, stopped, clear, recovered>>
  BY RemoveRun DEF StartChecks, StartFails, durableVars, execVars, historyVars, registryVars,
     IInv, TypeOK, Occupied, Executing
<1>2. RunOK(r)
  BY DEF RunsOK
<1>3. RunOK(r)'
  BY <1>1, <1>2 DEF RunOK, Once, TurnOK, StopOK, StoppedOK, ClearOK, RowOK, Executing, Registered
<1>4. \A s \in Runs : s # r => run'[s] = run[s] /\ (s \in retired' <=> s \in retired)
  BY RemoveRun DEF StartChecks, StartFails, registryVars, IInv
<1>5. \A s \in Runs : s # r => Same(s)
  BY <1>4 DEF StartChecks, StartFails, durableVars, execVars, historyVars, Same, IInv, TypeOK
<1> QED
  BY <1>3, <1>5, SameKeepsRun DEF RunsOK

LEMMA AcceptKeepsRuns ==
  ASSUME IInv, RunsOK, NEW r \in Runs, StartAccepts(r)
  PROVE  RunsOK'
<1>1. /\ start[r] = "inserting" /\ ~ Executing(r) /\ recovered
      /\ rows'[r] = "queued" /\ start'[r] = "idle"
      /\ UNCHANGED <<chats, retired, aborted, stop, stopped, clear, recovered>>
  BY DEF StartAccepts, IInv, TypeOK, Occupied, Executing
<1>2. RunOK(r)
  BY DEF RunsOK
<1>3. RunOK(r)'
  <2>1. CASE Registered(r)
    <3>1. run[r] \in ActiveRun
      BY <2>1, RegisteredIsActive DEF IInv
    <3>2. /\ run'[r] = [run[r] EXCEPT !.started = TRUE]
          /\ exec'[r] = [exec[r] EXCEPT !.phase = "claiming"]
      BY <2>1 DEF StartAccepts, IInv, TypeOK
    <3>3. run'[r].started /\ run'[r].completed = run[r].completed /\ exec'[r].phase = "claiming"
      BY <3>1, <3>2 DEF ActiveRun, IInv, TypeOK, Execution
    <3>4. Registered(r)'
      BY <3>1, <3>2, ActiveRunChanges, ActiveRunIsRegistered DEF Registered
    <3> QED
      BY <1>1, <1>2, <2>1, <3>3, <3>4
         DEF RunOK, Once, TurnOK, StopOK, StoppedOK, ClearOK, RowOK, Executing, Registered
  <2>2. CASE ~ Registered(r)
    <3>1. UNCHANGED <<run, exec>>
      BY <2>2 DEF StartAccepts
    <3> QED
      BY <1>1, <1>2, <2>2, <3>1
         DEF RunOK, Once, TurnOK, StopOK, StoppedOK, ClearOK, RowOK, Executing, Registered
  <2> QED
    BY <2>1, <2>2
<1>4. \A s \in Runs : s # r => Same(s)
  BY DEF StartAccepts, Same, IInv, TypeOK
<1> QED
  BY <1>3, <1>4, SameKeepsRun DEF RunsOK

LEMMA ClaimKeepsRuns ==
  ASSUME IInv, RunsOK, NEW r \in Runs, Claim(r)
  PROVE  RunsOK'
<1>1. /\ exec[r].phase = "claiming"
      /\ rows'[r] = IF rows[r] = "queued" THEN "dispatching" ELSE rows[r]
      /\ exec'[r].phase = IF rows[r] = "dispatching" THEN "completing" ELSE "preparing"
      /\ exec'[r].claimed = (rows[r] = "queued")
      /\ UNCHANGED <<run, chats, retired, aborted, start, stop, stopped, clear, recovered>>
  BY DEF Claim, registryVars, handlerVars, historyVars, IInv, TypeOK
<1>2. RunOK(r)
  BY DEF RunsOK
<1>3. RunOK(r)'
  BY <1>1, <1>2
     DEF RunOK, Once, TurnOK, StopOK, StoppedOK, ClearOK, RowOK, Executing, Registered, ChatThere
<1>4. \A s \in Runs : s # r => Same(s)
  BY DEF Claim, registryVars, handlerVars, historyVars, Same, IInv, TypeOK
<1> QED
  BY <1>3, <1>4, SameKeepsRun DEF RunsOK

\* A record of the registry that is replaced by one that is as far.
LEMMA ReplacedGoesOn ==
  ASSUME TypeOK, NEW r \in Runs, Registered(r), NEW a \in ActiveRun,
         a.started = run[r].started, a.completed = run[r].completed,
         run' = [run EXCEPT ![r] = a]
  PROVE  /\ Registered(r)' /\ Registered(r)
         /\ run'[r].started <=> run[r].started
         /\ run'[r].completed <=> run[r].completed
  BY ActiveRunIsRegistered DEF Registered, TypeOK

LEMMA MaterializedIsAsFar ==
  ASSUME NEW a \in ActiveRun, NEW event
  PROVE  /\ Materialized(a, event).started = a.started
         /\ Materialized(a, event).completed = a.completed
         /\ Materialized(a, event).handler = a.handler
  BY DEF Materialized, ActiveRun

\* What a step makes of the record of run r when it leaves the run in the registry.
AsFar(r) ==
  /\ Registered(r)' <=> Registered(r)
  /\ Registered(r) => /\ run'[r].started <=> run[r].started
                      /\ run'[r].completed <=> run[r].completed
  /\ \A s \in Runs : s # r => run'[s] = run[s]

LEMMA EmitIsAsFar ==
  ASSUME TypeOK, NEW r \in Runs, NEW event \in StreamEvent, Emit(r, event)
  PROVE  AsFar(r)
<1>1. CASE Registered(r)
  <2>1. run[r] \in ActiveRun
    BY <1>1, RegisteredIsActive
  <2>2. run' = [run EXCEPT ![r] = Materialized(run[r], event)]
    BY <1>1 DEF Emit
  <2>3. Materialized(run[r], event) \in ActiveRun
    BY <2>1, MaterializedIsActive
  <2> QED
    BY <1>1, <2>1, <2>2, <2>3, ReplacedGoesOn, MaterializedIsAsFar DEF AsFar, TypeOK
<1>2. CASE ~ Registered(r)
  BY <1>2 DEF Emit, AsFar, Registered
<1> QED
  BY <1>1, <1>2

LEMMA TurnKeepsRuns ==
  ASSUME IInv, RunsOK, NEW r \in Runs, Turn(r) \/ Fail(r)
  PROVE  RunsOK'
<1> USE DEF IInv
<1>a. RunOK(r)
  BY DEF RunsOK
<1>1. CASE SendText(r)
  <2>1. AsFar(r)
    <3>1. CASE Registered(r)
      <4>1. run[r] \in ActiveRun
        BY <3>1, RegisteredIsActive
      <4> DEFINE a == [run[r] EXCEPT !.handler = TRUE]
      <4>2. a \in ActiveRun /\ a.started = run[r].started /\ a.completed = run[r].completed
        BY <4>1, ActiveRunChanges DEF ActiveRun
      <4>3. run' = [run EXCEPT ![r] = a]
        BY <1>1, <3>1 DEF SendText
      <4> HIDE DEF a
      <4> QED
        BY <3>1, <4>2, <4>3, ReplacedGoesOn DEF AsFar, TypeOK
    <3>2. CASE ~ Registered(r)
      BY <1>1, <3>2 DEF SendText, AsFar, Registered
    <3> QED
      BY <3>1, <3>2
  <2>2. exec'[r].phase = "streaming" /\ exec'[r].claimed = exec[r].claimed
    BY <1>1 DEF SendText, TypeOK, Execution
  <2>3. Onward(r)
    BY <1>1, <2>1, <2>2 DEF SendText, AsFar, Onward, durableVars, handlerVars
  <2>4. \A s \in Runs : s # r => Same(s)
    BY <1>1, <2>1 DEF SendText, AsFar, Same, durableVars, handlerVars, TypeOK
  <2> QED
    BY <1>a, <2>3, <2>4, OnwardKeepsRun, SameKeepsRun DEF RunsOK
<1>2. CASE TurnReturns(r) \/ Fail(r)
  <2>1. /\ exec'[r].phase = "completing" /\ exec'[r].claimed = exec[r].claimed
        /\ exec[r].phase \in {"preparing", "streaming"}
    BY <1>2 DEF TurnReturns, Fail, PrepareFails, TurnFails, TypeOK, Execution
  <2>2. Onward(r)
    BY <1>2, <2>1
       DEF TurnReturns, Fail, PrepareFails, TurnFails, Onward, durableVars, registryVars,
           handlerVars, historyVars, Registered
  <2>3. \A s \in Runs : s # r => Same(s)
    BY <1>2
       DEF TurnReturns, Fail, PrepareFails, TurnFails, Same, durableVars, registryVars,
           handlerVars, historyVars, TypeOK
  <2> QED
    BY <1>a, <2>2, <2>3, OnwardKeepsRun, SameKeepsRun DEF RunsOK
<1>3. ASSUME NEW i \in Inputs, PromptOpens(r, i) \/ PromptCloses(r, i)
      PROVE  RunsOK'
  <2>1. AsFar(r)
    BY <1>3, EmitIsAsFar, EventsAreEvents DEF PromptOpens, PromptCloses
  <2>2. Onward(r)
    BY <1>3, <2>1
       DEF PromptOpens, PromptCloses, AsFar, Onward, durableVars, handlerVars, historyVars
  <2>3. \A s \in Runs : s # r => Same(s)
    BY <1>3, <2>1
       DEF PromptOpens, PromptCloses, AsFar, Same, durableVars, handlerVars, historyVars, TypeOK
  <2> QED
    BY <1>a, <2>2, <2>3, OnwardKeepsRun, SameKeepsRun DEF RunsOK
<1> QED
  BY <1>1, <1>2, <1>3 DEF Turn, Fail

LEMMA FinishRun ==
  ASSUME TypeOK, NEW r \in Runs, NEW last, Finish(r, last)
  PROVE  /\ run'[r] = NoRecord
         /\ r \in retired' <=> (Registered(r) \/ r \in retired)
         /\ \A s \in Runs : s # r => run'[s] = run[s] /\ (s \in retired' <=> s \in retired)
<1>1. CASE Registered(r)
  BY <1>1, RemoveRun DEF Finish
<1>2. CASE ~ Registered(r)
  BY <1>2 DEF Finish, registryVars, Registered
<1> QED
  BY <1>1, <1>2

LEMMA SettleKeepsRuns ==
  ASSUME IInv, RunsOK, NEW r \in Runs, Settle(r)
  PROVE  RunsOK'
<1> USE DEF IInv
<1> DEFINE waits == run[r].status = "needsInput"
           kept == exec[r].ok /\ waits /\ run[r].handler
<1>1. /\ Executing(r) /\ ~ Executing(r)' /\ start[r] = "idle" /\ recovered
      /\ rows'[r] \in {rows[r], "none"}
      /\ UNCHANGED <<chats, aborted, start, stop, stopped, clear, recovered>>
  BY DEF Settle, NotExecuting, Executing, handlerVars, historyVars, TypeOK, Occupied
<1>2. RunOK(r)
  BY DEF RunsOK
<1>3. CASE Registered(r) /\ kept
  <2>1. run[r] \in ActiveRun
    BY <1>3, RegisteredIsActive
  <2> DEFINE a == [run[r] EXCEPT !.completed = TRUE]
  <2>6. a \in ActiveRun /\ a.started = run[r].started
    BY <2>1, ActiveRunChanges DEF ActiveRun
  <2>2. run' = [run EXCEPT ![r] = a] /\ UNCHANGED <<byChat, retired>>
    BY <1>3 DEF Settle
  <2> HIDE DEF a
  <2>3. Registered(r)' /\ run'[r].started = run[r].started
    BY <2>2, <2>6, ActiveRunIsRegistered DEF Registered, TypeOK
  <2>4. RunOK(r)'
    BY <1>1, <1>2, <1>3, <2>2, <2>3
       DEF RunOK, Once, TurnOK, StopOK, StoppedOK, ClearOK, RowOK, Executing
  <2>5. \A s \in Runs : s # r => Same(s)
    BY <2>2 DEF Settle, Same, handlerVars, historyVars, TypeOK
  <2> QED
    BY <2>4, <2>5, SameKeepsRun DEF RunsOK
<1>4. CASE ~ (Registered(r) /\ kept)
  <2>1. /\ run'[r] = NoRecord
        /\ \A s \in Runs : s # r => run'[s] = run[s] /\ (s \in retired' <=> s \in retired)
    BY <1>4, FinishRun DEF Settle
  <2>2. RunOK(r)'
    BY <1>1, <1>2, <2>1
       DEF RunOK, Once, TurnOK, StopOK, StoppedOK, ClearOK, RowOK, Executing, Registered
  <2>3. \A s \in Runs : s # r => Same(s)
    BY <2>1 DEF Settle, Same, handlerVars, historyVars, TypeOK
  <2> QED
    BY <2>2, <2>3, SameKeepsRun DEF RunsOK
<1> QED
  BY <1>3, <1>4

\* An answer that is taken ends a run whose turn is over, and changes no other.
LEMMA AnswerTakenRun ==
  ASSUME TypeOK, NEW r \in Runs, NEW i \in Inputs, AnswerTaken(r, i)
  PROVE  /\ \/ AsFar(r) /\ UNCHANGED retired
            \/ Registered(r) /\ run[r].completed /\ run'[r] = NoRecord
         /\ \A s \in Runs : s # r => run'[s] = run[s] /\ (s \in retired' <=> s \in retired)
<1>1. CASE Registered(r) /\ run[r].completed
  BY <1>1, RemoveRun DEF AnswerTaken
<1>2. CASE Registered(r) /\ ~ run[r].completed
  <2>1. run[r] \in ActiveRun
    BY <1>2, RegisteredIsActive
  <2>2. run' = [run EXCEPT ![r] = Materialized(run[r], Closes(i))] /\ UNCHANGED retired
    BY <1>2 DEF AnswerTaken
  <2>3. Materialized(run[r], Closes(i)) \in ActiveRun
    BY <2>1, MaterializedIsActive, EventsAreEvents
  <2>4. AsFar(r)
    BY <1>2, <2>1, <2>2, <2>3, ReplacedGoesOn, MaterializedIsAsFar DEF AsFar, TypeOK
  <2> QED
    BY <2>2, <2>4 DEF AsFar
<1>3. CASE ~ Registered(r)
  BY <1>3 DEF AnswerTaken, AsFar, Registered
<1> QED
  BY <1>1, <1>2, <1>3

LEMMA AnswerKeepsRuns ==
  ASSUME IInv, RunsOK, NEW r \in Runs, NEW i \in Inputs, Answer(r, i)
  PROVE  RunsOK'
<1> USE DEF IInv
<1>a. RunOK(r)
  BY DEF RunsOK
<1>1. CASE AnswerBegins(r, i)
  <2>1. AsFar(r)
    <3>1. Registered(r) /\ run[r] \in ActiveRun
      BY <1>1, RegisteredIsActive DEF AnswerBegins, Answerable
    <3> DEFINE a == [run[r] EXCEPT !.pending = NoInput, !.status = "running"]
    <3>2. a \in ActiveRun /\ a.started = run[r].started /\ a.completed = run[r].completed
      BY <3>1, ActiveRunChanges DEF ActiveRun
    <3>3. run' = [run EXCEPT ![r] = a]
      BY <1>1 DEF AnswerBegins
    <3> HIDE DEF a
    <3> QED
      BY <3>1, <3>2, <3>3, ReplacedGoesOn DEF AsFar, TypeOK
  <2>2. Onward(r) /\ \A s \in Runs : s # r => Same(s)
    BY <1>1, <2>1
       DEF AnswerBegins, AsFar, Onward, Same, durableVars, handlerVars, historyVars, TypeOK
  <2> QED
    BY <1>a, <2>2, OnwardKeepsRun, SameKeepsRun DEF RunsOK
<1>2. CASE AnswerAtOnce(r, i) \/ AnswerSucceeds(r, i)
  <2>1. AnswerTaken(r, i)
    BY <1>2 DEF AnswerAtOnce, AnswerSucceeds
  <2>2. UNCHANGED <<rows, chats, runtime, exec, aborted, start, stop, clear, recovered, stopped>>
    BY <1>2 DEF AnswerAtOnce, AnswerSucceeds, durableVars, handlerVars, historyVars
  <2>3. \A s \in Runs : s # r => Same(s)
    BY <1>2, <2>1, <2>2, AnswerTakenRun DEF AnswerAtOnce, AnswerSucceeds, Same, TypeOK
  <2>4. CASE AsFar(r) /\ UNCHANGED retired
    <3>1. Onward(r)
      BY <2>2, <2>4 DEF AsFar, Onward
    <3> QED
      BY <1>a, <2>3, <3>1, OnwardKeepsRun, SameKeepsRun DEF RunsOK
  <2>5. CASE Registered(r) /\ run[r].completed /\ run'[r] = NoRecord
    <3>1. recovered /\ ~ Executing(r)
      BY <1>a, <2>5 DEF RunOK, Once, TurnOK
    <3>2. RunOK(r)'
      BY <1>a, <2>2, <2>5, <3>1
         DEF RunOK, Once, TurnOK, StopOK, StoppedOK, ClearOK, RowOK, Executing, Registered
    <3> QED
      BY <2>3, <3>2, SameKeepsRun DEF RunsOK
  <2> QED
    BY <2>1, <2>4, <2>5, AnswerTakenRun
<1>3. CASE AnswerFails(r, i)
  <2>1. AsFar(r)
    <3>1. CASE Registered(r)
      <4>1. run[r] \in ActiveRun
        BY <3>1, RegisteredIsActive
      <4> DEFINE a == [run[r] EXCEPT !.pending = i, !.status = "needsInput"]
      <4>2. a \in ActiveRun /\ a.started = run[r].started /\ a.completed = run[r].completed
        BY <4>1, ActiveRunChanges DEF ActiveRun
      <4>3. run' = [run EXCEPT ![r] = a]
        BY <1>3, <3>1 DEF AnswerFails
      <4> HIDE DEF a
      <4> QED
        BY <3>1, <4>2, <4>3, ReplacedGoesOn DEF AsFar, TypeOK
    <3>2. CASE ~ Registered(r)
      BY <1>3, <3>2 DEF AnswerFails, AsFar, Registered
    <3> QED
      BY <3>1, <3>2
  <2>2. /\ exec'[r].claimed = exec[r].claimed
        /\ \/ exec'[r].phase = exec[r].phase
           \/ exec[r].phase = "streaming" /\ exec'[r].phase = "completing"
    BY <1>3 DEF AnswerFails, TypeOK, Execution
  <2>3. Onward(r) /\ \A s \in Runs : s # r => Same(s)
    BY <1>3, <2>1, <2>2
       DEF AnswerFails, AsFar, Onward, Same, durableVars, handlerVars, historyVars, TypeOK
  <2> QED
    BY <1>a, <2>3, OnwardKeepsRun, SameKeepsRun DEF RunsOK
<1> QED
  BY <1>1, <1>2, <1>3 DEF Answer

LEMMA AbortRun ==
  ASSUME TypeOK, NEW r \in Runs, Abort(r)
  PROVE  /\ r \in aborted'
         /\ exec'[r].claimed = exec[r].claimed
         /\ \/ exec'[r].phase = exec[r].phase
            \/ exec[r].phase = "streaming" /\ exec'[r].phase = "completing"
  BY DEF Abort, TypeOK, Execution

LEMMA AbortSparesOthers ==
  ASSUME TypeOK, NEW r \in Runs, Abort(r), NEW s \in Runs, s # r
  PROVE  /\ exec'[s] = exec[s] /\ prompts'[s] = prompts[s]
         /\ s \in aborted' <=> s \in aborted
  BY DEF Abort, TypeOK

LEMMA StopKeepsRuns ==
  ASSUME IInv, RunsOK, NEW r \in Runs, Stop(r)
  PROVE  RunsOK'
<1> USE DEF IInv
<1>a. RunOK(r)
  BY DEF RunsOK
<1>1. CASE StopRegistered(r)
  <2>1. /\ Registered(r) /\ recovered /\ stop[r] = "idle" /\ stop'[r] = "cancelling"
        /\ start[r] = "idle" \/ "stop during start" \in Overlaps
        /\ UNCHANGED <<rows, chats, start, clear, recovered, stopped>>
    BY <1>1, <1>a DEF StopRegistered, MayStop, RunOK, Once, durableVars, historyVars, TypeOK
  <2>2. CASE ~ run[r].started \/ run[r].completed
    <3>1. ~ Executing(r)
      BY <1>a, <2>1, <2>2 DEF RunOK, TurnOK, Occupied, Executing
    <3>2. Remove(r) /\ UNCHANGED <<aborted, prompts, exec>>
      BY <1>1, <2>2 DEF StopRegistered
    <3>3. RunOK(r)'
      BY <1>a, <2>1, <3>1, <3>2, RemoveRun
         DEF RunOK, Once, TurnOK, StopOK, StoppedOK, ClearOK, RowOK, Executing, Registered
    <3>4. \A s \in Runs : s # r => Same(s)
      BY <1>1, <3>2, RemoveRun DEF StopRegistered, Same, durableVars, historyVars, TypeOK
    <3> QED
      BY <3>3, <3>4, SameKeepsRun DEF RunsOK
  <2>3. CASE ~ (~ run[r].started \/ run[r].completed)
    <3>1. Abort(r) /\ UNCHANGED registryVars
      BY <1>1, <2>3 DEF StopRegistered
    <3>2. RunOK(r)'
      BY <1>a, <2>1, <3>1, AbortRun
         DEF RunOK, Once, TurnOK, StopOK, StoppedOK, ClearOK, RowOK, Executing, Registered,
             registryVars
    <3>4. UNCHANGED <<rows, chats, runtime, run, retired, answering, start, clear, recovered,
                      stopped>>
          /\ \A s \in Runs : s # r => stop'[s] = stop[s]
      BY <1>1, <3>1 DEF StopRegistered, durableVars, historyVars, registryVars, TypeOK
    <3>3. \A s \in Runs : s # r => Same(s)
      BY <3>1, <3>4, AbortSparesOthers DEF Same
    <3> QED
      BY <3>2, <3>3, SameKeepsRun DEF RunsOK
  <2> QED
    BY <2>2, <2>3
<1>2. CASE StopUnknown(r)
  <2>1. /\ ~ Registered(r) /\ stop'[r] = "unknown"
        /\ start[r] = "idle" \/ "stop during start" \in Overlaps
        /\ recovered \/ "stop during recovery" \in Overlaps
        /\ UNCHANGED <<run, retired, exec, aborted, rows, chats, start, clear, recovered, stopped>>
    BY <1>2 DEF StopUnknown, MayStop, durableVars, registryVars, execVars, historyVars, TypeOK
  <2>2. RunOK(r)'
    BY <1>a, <2>1
       DEF RunOK, Once, TurnOK, StopOK, StoppedOK, ClearOK, RowOK, Executing, Registered, ChatThere
  <2>3. \A s \in Runs : s # r => Same(s)
    BY <1>2 DEF StopUnknown, Same, durableVars, registryVars, execVars, historyVars, TypeOK
  <2> QED
    BY <2>2, <2>3, SameKeepsRun DEF RunsOK
<1>3. CASE StopCancelsRow(r)
  <2>1. /\ stop[r] # "idle" /\ stop'[r] = "idle" /\ rows'[r] = "none"
        /\ UNCHANGED <<run, retired, exec, aborted, chats, start, clear, recovered>>
    BY <1>3 DEF StopCancelsRow, registryVars, execVars, TypeOK
  <2>2. RunOK(r)'
    BY <1>a, <2>1
       DEF RunOK, Once, TurnOK, StopOK, StoppedOK, ClearOK, RowOK, Executing, Registered, ChatThere
  <2>3. \A s \in Runs : s # r => Same(s)
    BY <1>3 DEF StopCancelsRow, Same, registryVars, execVars, TypeOK
  <2> QED
    BY <2>2, <2>3, SameKeepsRun DEF RunsOK
<1> QED
  BY <1>1, <1>2, <1>3 DEF Stop

\* The run that a clear finds ambiguous is not one whose turn goes on.
LEMMA ClearSparesTurns ==
  ASSUME IInv, RunsOK, NEW r \in Runs, byChat[ChatOf[r]] # AmbiguousRun(ChatOf[r]),
         {"clear during start", "stop during recovery"} \cap Overlaps = {},
         Executing(r), exec[r].phase # "claiming", ChatThere(r)
  PROVE  r \in aborted
<1> SUFFICES ASSUME r \notin aborted PROVE FALSE
  OBVIOUS
<1>1. rows[r] = "dispatching" /\ Registered(r)
  BY DEF RunsOK, RunOK, RowOK, TurnOK
<1>2. byChat[ChatOf[r]] = r
  BY <1>1 DEF IInv, RegistryAgrees
<1>3. AmbiguousRuns(ChatOf[r]) = {r}
  BY <1>1 DEF AmbiguousRuns, IInv, OneRowPerChat
<1>4. AmbiguousRun(ChatOf[r]) = r
  BY <1>3 DEF AmbiguousRun
<1> QED
  BY <1>2, <1>4

LEMMA ChatKeepsRuns ==
  ASSUME IInv, RunsOK, NEW c \in Chats, Clear(c) \/ DeleteChat(c) \/ ArchiveChat(c)
  PROVE  RunsOK'
<1> USE DEF IInv
<1>a. \A s \in Runs : RunOK(s) /\ ChatOf[s] \in Chats
  BY ChatOfAssumption DEF RunsOK
<1>1. CASE ClearBegins(c)
  <2>1. ASSUME NEW s \in Runs, ChatOf[s] = c
        PROVE  RunOK(s)'
    <3>1. /\ clear'[c] = "reading"
          /\ "clear during start" \in Overlaps
             \/ (recovered /\ start[s] = "idle" /\ exec[s].phase # "claiming")
          /\ UNCHANGED <<run, retired, exec, aborted, rows, chats, start, stop, stopped, recovered>>
      BY <1>1, <2>1
         DEF ClearBegins, durableVars, registryVars, execVars, historyVars, TypeOK
    <3> QED
      BY <1>a, <2>1, <3>1
         DEF RunOK, Once, TurnOK, StopOK, StoppedOK, ClearOK, RowOK, Executing, Registered, ChatThere
  <2>2. \A s \in Runs : ChatOf[s] # c => Same(s)
    BY <1>1, <1>a DEF ClearBegins, Same, durableVars, registryVars, execVars, historyVars, TypeOK
  <2> QED
    BY <2>1, <2>2, SameKeepsRun DEF RunsOK
<1>2. CASE ClearChecks(c)
  <2>1. ASSUME NEW s \in Runs, ChatOf[s] = c
        PROVE  RunOK(s)'
    <3>1. /\ clear[c] # "idle"
          /\ clear'[c] # "deleting" \/ byChat[c] # AmbiguousRun(c)
          /\ UNCHANGED <<run, retired, exec, aborted, rows, chats, start, stop, stopped, recovered>>
      BY <1>2 DEF ClearChecks, durableVars, registryVars, execVars, historyVars, TypeOK
    <3>2. ClearOK(s)'
      BY <1>a, <2>1, <3>1, ClearSparesTurns DEF RunOK, ClearOK, Executing, ChatThere
    <3> QED
      BY <1>a, <3>1, <3>2
         DEF RunOK, Once, TurnOK, StopOK, StoppedOK, RowOK, Executing, Registered, ChatThere
  <2>2. \A s \in Runs : ChatOf[s] # c => Same(s)
    BY <1>2, <1>a DEF ClearChecks, Same, durableVars, registryVars, execVars, historyVars, TypeOK
  <2> QED
    BY <2>1, <2>2, SameKeepsRun DEF RunsOK
<1>3. CASE ClearDeletes(c)
  <2>1. ASSUME NEW s \in Runs, ChatOf[s] = c
        PROVE  RunOK(s)'
    <3>1. /\ clear[c] = "deleting" /\ clear'[c] = "idle"
          /\ rows'[s] = IF rows[s] = "dispatching" THEN "none" ELSE rows[s]
          /\ UNCHANGED <<run, retired, exec, aborted, chats, start, stop, stopped, recovered>>
      BY <1>3, <2>1
         DEF ClearDeletes, AmbiguousRuns, registryVars, execVars, historyVars, TypeOK
    <3> QED
      BY <1>a, <2>1, <3>1
         DEF RunOK, Once, TurnOK, StopOK, StoppedOK, ClearOK, RowOK, Executing, Registered, ChatThere
  <2>2. \A s \in Runs : ChatOf[s] # c => Same(s)
    BY <1>3, <1>a
       DEF ClearDeletes, AmbiguousRuns, Same, registryVars, execVars, historyVars, TypeOK
  <2> QED
    BY <2>1, <2>2, SameKeepsRun DEF RunsOK
<1>4. CASE DeleteChatBegins(c)
  <2>1. CASE byChat[c] # NoRun
    <3>5. PICK r \in Runs : r = byChat[c]
      BY <2>1 DEF TypeOK
    <3>1. Abort(r) /\ Remove(r)
      BY <1>4, <2>1, <3>5 DEF DeleteChatBegins
    <3>2. UNCHANGED <<rows, chats, runtime, answering, start, stop, stopped, clear, recovered>>
      BY <1>4 DEF DeleteChatBegins, durableVars, historyVars
    <3>3. RunOK(r)'
      BY <1>a, <3>1, <3>2, AbortRun, RemoveRun
         DEF RunOK, Once, TurnOK, StopOK, StoppedOK, ClearOK, RowOK, Executing, Registered, ChatThere
    <3>4. \A s \in Runs : s # r => Same(s)
      BY <3>1, <3>2, AbortSparesOthers, RemoveRun DEF Same
    <3> QED
      BY <3>3, <3>4, SameKeepsRun DEF RunsOK
  <2>2. CASE byChat[c] = NoRun
    <3>1. \A s \in Runs : Same(s)
      BY <1>4, <2>2 DEF DeleteChatBegins, Same, durableVars, registryVars, historyVars
    <3> QED
      BY <3>1, SameKeepsRun DEF RunsOK
  <2> QED
    BY <2>1, <2>2
<1>5. CASE DeleteChatEnds(c) \/ DeleteArchived(c)
  <2>1. ASSUME NEW s \in Runs, ChatOf[s] = c
        PROVE  RunOK(s)'
    <3>1. /\ rows'[s] = "none" /\ ~ ChatThere(s)'
          /\ UNCHANGED <<run, retired, exec, aborted, clear, start, stop, stopped, recovered>>
      BY <1>5, <2>1
         DEF DeleteChatEnds, DeleteArchived, ChatThere, registryVars, execVars, handlerVars,
             historyVars
    <3> QED
      BY <1>a, <2>1, <3>1
         DEF RunOK, Once, TurnOK, StopOK, StoppedOK, ClearOK, RowOK, Executing, Registered
  <2>2. \A s \in Runs : ChatOf[s] # c => Same(s)
    BY <1>5
       DEF DeleteChatEnds, DeleteArchived, Same, registryVars, execVars, handlerVars, historyVars
  <2> QED
    BY <2>1, <2>2, SameKeepsRun DEF RunsOK
<1>6. CASE Archive(c) \/ Restore(c)
  <2>1. \A s \in Runs : Same(s)
    BY <1>6 DEF Archive, Restore, Same, registryVars, execVars, handlerVars, historyVars
  <2> QED
    BY <2>1, SameKeepsRun DEF RunsOK
<1> QED
  BY <1>1, <1>2, <1>3, <1>4, <1>5, <1>6 DEF Clear, DeleteChat, ArchiveChat

LEMMA RestKeepsRuns ==
  ASSUME RunsOK,
         \/ \E c \in Chats, r \in Runs, s \in Ended : Acknowledge(c, r, s)
         \/ UNCHANGED vars
  PROVE  RunsOK'
<1>1. \A s \in Runs : Same(s)
  BY DEF Acknowledge, Same, vars, durableVars, registryVars, execVars, handlerVars, historyVars
<1> QED
  BY <1>1, SameKeepsRun DEF RunsOK

LEMMA CrashKeepsRuns ==
  ASSUME IInv, RunsOK, Crash
  PROVE  RunsOK'
<1>1. ASSUME NEW s \in Runs
      PROVE  RunOK(s)'
  <2>1. RunOK(s)
    BY DEF RunsOK
  <2>2. /\ run'[s] = NoRecord /\ retired' = {} /\ exec'[s].phase = "idle"
        /\ start'[s] = "idle" /\ stop'[s] = "idle" /\ clear'[ChatOf[s]] = "idle"
        /\ UNCHANGED <<rows, stopped>>
    BY ChatOfAssumption DEF Crash, NotExecuting, durableVars
  <2> QED
    BY <2>1, <2>2
       DEF RunOK, Once, TurnOK, StopOK, StoppedOK, ClearOK, RowOK, Executing, Registered
<1> QED
  BY <1>1 DEF RunsOK

\* What the recovery makes of a run.
LEMMA RecoverRun ==
  ASSUME Recover, NEW s \in Runs
  PROVE  /\ s \in Recoverable =>
              /\ rows[s] = "queued" /\ byChat[ChatOf[s]] = NoRun
              /\ run'[s] \in ActiveRun /\ run'[s].started = TRUE
              /\ run'[s].completed = FALSE /\ run'[s].status = "running"
              /\ run'[s].pending = NoInput
              /\ exec'[s].phase = "claiming" /\ exec'[s].ok = FALSE
         /\ s \notin Recoverable => run'[s] = run[s] /\ exec'[s] = exec[s]
<1>1. CASE s \in Recoverable
  <2> DEFINE a == [Reservation EXCEPT !.started = TRUE]
  <2>1. /\ a \in ActiveRun /\ a.started = TRUE /\ a.completed = FALSE
        /\ a.status = "running" /\ a.pending = NoInput
    BY DEF Reservation, ActiveRun
  <2>2. run'[s] = a
    BY <1>1 DEF Recover
  <2> HIDE DEF a
  <2>3. exec'[s].phase = "claiming" /\ exec'[s].ok = FALSE
    BY <1>1 DEF Recover, NotExecuting
  <2>4. rows[s] = "queued" /\ byChat[ChatOf[s]] = NoRun
    BY <1>1 DEF Recoverable
  <2> QED
    BY <1>1, <2>1, <2>2, <2>3, <2>4
<1>2. CASE s \notin Recoverable
  BY <1>2 DEF Recover
<1> QED
  BY <1>1, <1>2

LEMMA RecoverKeepsRuns ==
  ASSUME IInv, RunsOK, Recover
  PROVE  RunsOK'
<1>1. ASSUME NEW s \in Runs
      PROVE  RunOK(s)'
  <2>1. RunOK(s) /\ ~ recovered /\ ~ Registered(s) /\ s \notin retired
    BY DEF RunsOK, Recover, RunOK, Once
  <2>2. ~ Executing(s) /\ start[s] = "idle"
    BY <2>1 DEF IInv, Occupied, Executing
  <2>3. /\ recovered'
        /\ UNCHANGED <<rows, chats, retired, aborted, start, stop, clear, stopped>>
    BY DEF Recover, durableVars, historyVars
  <2>4. CASE s \in Recoverable
    <3>1. Registered(s)'
      BY <2>4, RecoverRun, ActiveRunIsRegistered DEF Registered
    <3> QED
      BY <2>1, <2>2, <2>3, <2>4, <3>1, RecoverRun
         DEF RunOK, Once, TurnOK, StopOK, StoppedOK, ClearOK, RowOK, Executing
  <2>5. CASE s \notin Recoverable
    <3>1. run'[s] = run[s] /\ exec'[s] = exec[s]
      BY <2>5, RecoverRun
    <3> QED
      BY <2>1, <2>2, <2>3, <3>1
         DEF RunOK, Once, TurnOK, StopOK, StoppedOK, ClearOK, RowOK, Executing, Registered
  <2> QED
    BY <2>4, <2>5
<1> QED
  BY <1>1 DEF RunsOK

LEMMA RunsInit == Init => RunsOK
<1> SUFFICES ASSUME Init, NEW r \in Runs PROVE RunOK(r)
  BY DEF RunsOK
<1>1. /\ run[r] = NoRecord /\ retired = {} /\ exec[r].phase = "idle"
      /\ start[r] = "idle" /\ stop[r] = "idle" /\ clear[ChatOf[r]] = "idle" /\ stopped = {}
  BY ChatOfAssumption DEF Init, NotExecuting
<1> QED
  BY <1>1 DEF RunOK, Once, TurnOK, StopOK, StoppedOK, ClearOK, RowOK, Executing, Registered

LEMMA RunsStep == IInv /\ RunsOK /\ [Next]_vars => RunsOK'
<1> SUFFICES ASSUME IInv, RunsOK, [Next]_vars PROVE RunsOK'
  OBVIOUS
<1>1. ASSUME NEW r \in Runs,
             Start(r) \/ Claim(r) \/ Turn(r) \/ Fail(r) \/ Settle(r) \/ Stop(r)
      PROVE  RunsOK'
  BY <1>1, ReserveKeepsRuns, StartEndsKeepsRuns, AcceptKeepsRuns, ClaimKeepsRuns,
     TurnKeepsRuns, SettleKeepsRuns, StopKeepsRuns DEF Start
<1>2. ASSUME NEW r \in Runs, NEW i \in Inputs, Answer(r, i)
      PROVE  RunsOK'
  BY <1>2, AnswerKeepsRuns
<1>3. ASSUME NEW c \in Chats, Clear(c) \/ DeleteChat(c) \/ ArchiveChat(c)
      PROVE  RunsOK'
  BY <1>3, ChatKeepsRuns
<1>4. CASE \/ \E c \in Chats, r \in Runs, s \in Ended : Acknowledge(c, r, s)
           \/ UNCHANGED vars
  BY <1>4, RestKeepsRuns
<1>5. CASE Crash
  BY <1>5, CrashKeepsRuns
<1>6. CASE Recover
  BY <1>6, RecoverKeepsRuns
<1> QED
  BY <1>1, <1>2, <1>3, <1>4, <1>5, <1>6 DEF Next

LEMMA RunsAreOK == SafetySpec => [](IInv /\ RunsOK)
  BY IInvInit, IInvStep, RunsInit, RunsStep, PTL DEF SafetySpec

\* Whatever crashes come in between, and whichever requests overlap but the two
\* named: while the agent works on a message nobody has stopped, its row says so.
THEOREM InFlightHasRow ==
  ASSUME "clear during start" \notin Overlaps, "stop during recovery" \notin Overlaps
  PROVE  SafetySpec => []InFlightIsDurable
<1>1. {"clear during start", "stop during recovery"} \cap Overlaps = {}
  OBVIOUS
<1>2. ASSUME RunsOK
      PROVE  InFlightIsDurable
  <2>1. ASSUME NEW r \in Runs, exec[r].phase = "streaming", r \notin aborted, ChatOf[r] \in chats
        PROVE  rows[r] = "dispatching"
    BY <1>1, <1>2, <2>1 DEF RunsOK, RunOK, RowOK, Executing, ChatThere
  <2> QED
    BY <2>1 DEF InFlightIsDurable
<1> QED
  BY <1>2, RunsAreOK, PTL

\* Only SendText hands a message over.
LEMMA OnlySendTextSends ==
  ASSUME IInv, [Next]_vars, NEW r \in Runs, sent'[r] # sent[r]
  PROVE  SendText(r)
<1>1. ASSUME NEW s \in Runs,
             Start(s) \/ Claim(s) \/ Fail(s) \/ Settle(s) \/ Stop(s) \/ TurnReturns(s)
      PROVE  sent' = sent
  BY <1>1
     DEF Start, StartReserves, StartChecks, StartFails, StartAccepts, Claim, Fail, PrepareFails,
         TurnFails, Settle, Stop, StopRegistered, StopUnknown, StopCancelsRow, TurnReturns,
         historyVars
<1>2. ASSUME NEW s \in Runs, NEW i \in Inputs,
             PromptOpens(s, i) \/ PromptCloses(s, i) \/ Answer(s, i)
      PROVE  sent' = sent
  BY <1>2
     DEF PromptOpens, PromptCloses, Answer, AnswerBegins, AnswerAtOnce, AnswerSucceeds,
         AnswerFails, historyVars
<1>3. ASSUME NEW c \in Chats, Clear(c) \/ DeleteChat(c) \/ ArchiveChat(c)
      PROVE  sent' = sent
  BY <1>3
     DEF Clear, ClearBegins, ClearChecks, ClearDeletes, DeleteChat, DeleteChatBegins,
         DeleteChatEnds, ArchiveChat, Archive, Restore, DeleteArchived, historyVars
<1>4. CASE \/ \E c \in Chats, s \in Runs, e \in Ended : Acknowledge(c, s, e)
           \/ Crash \/ Recover \/ UNCHANGED vars
  BY <1>4 DEF Acknowledge, Crash, Recover, vars, historyVars
<1>5. ASSUME NEW s \in Runs, SendText(s)
      PROVE  SendText(r)
  BY <1>5 DEF SendText, IInv, TypeOK
<1> QED
  BY <1>1, <1>2, <1>3, <1>4, <1>5 DEF Next, Turn

\* A message whose Stop was answered stays away from the agent for good: also when
\* the Stop came while its run was claimed, and after a restart.
THEOREM StopHolds ==
  ASSUME "stop during start" \notin Overlaps, "stop during recovery" \notin Overlaps
  PROVE  SafetySpec => StopIsFinal
<1>1. {"stop during start", "stop during recovery"} \cap Overlaps = {}
  OBVIOUS
<1>2. ASSUME IInv, RunsOK, [Next]_vars
      PROVE  \A r \in Runs : sent'[r] # sent[r] => r \notin stopped
  <2> SUFFICES ASSUME NEW r \in Runs, sent'[r] # sent[r] PROVE r \notin stopped
    OBVIOUS
  <2>1. exec[r].phase = "preparing" /\ r \notin aborted
    BY <1>2, OnlySendTextSends DEF SendText
  <2> QED
    BY <1>1, <1>2, <2>1 DEF RunsOK, RunOK, StoppedOK
<1> QED
  BY <1>2, RunsAreOK, PTL DEF SafetySpec, StopIsFinal

-----------------------------------------------------------------------------
(* The implementation of MessageDelivery *)

Message == [r \in Runs |-> Place(r)]
Refines == [Delivery!Next]_Message

LEMMA PlaceNow ==
  ASSUME NEW s
  PROVE  /\ exec[s].phase = "streaming" =>
              Place(s) = IF rows[s] = "none" THEN "revoked" ELSE "given"
         /\ exec[s].phase # "streaming" =>
              /\ rows[s] = "none" => Place(s) = "none"
              /\ rows[s] = "queued" => Place(s) = "waiting"
              /\ rows[s] = "dispatching" =>
                   /\ exec[s].phase = "preparing" => Place(s) = "held"
                   /\ exec[s].phase = "completing" => Place(s) = "closing"
                   /\ exec[s].phase \in {"idle", "claiming"} => Place(s) = "unsure"
  BY DEF Place, ClaimedPlace

LEMMA PlaceNext ==
  ASSUME NEW s
  PROVE  /\ exec'[s].phase = "streaming" =>
              Place(s)' = IF rows'[s] = "none" THEN "revoked" ELSE "given"
         /\ exec'[s].phase # "streaming" =>
              /\ rows'[s] = "none" => Place(s)' = "none"
              /\ rows'[s] = "queued" => Place(s)' = "waiting"
              /\ rows'[s] = "dispatching" =>
                   /\ exec'[s].phase = "preparing" => Place(s)' = "held"
                   /\ exec'[s].phase = "completing" => Place(s)' = "closing"
                   /\ exec'[s].phase \in {"idle", "claiming"} => Place(s)' = "unsure"
  BY DEF Place, ClaimedPlace

LEMMA RowsAndPhases ==
  ASSUME TypeOK, NEW r \in Runs
  PROVE  /\ rows[r] \in {"none", "queued", "dispatching"}
         /\ exec[r].phase \in {"idle", "claiming", "preparing", "streaming", "completing"}
  BY DEF TypeOK, RowState, Execution, Phase

\* What a step does not touch of a run leaves its message where it is.
LEMMA StaysPut ==
  ASSUME NEW s, exec'[s] = exec[s], rows'[s] = rows[s]
  PROVE  Place(s)' = Place(s)
  BY DEF Place, ClaimedPlace

LEMMA NothingMoves ==
  ASSUME \A s \in Runs : Place(s)' = Place(s)
  PROVE  Refines
  BY DEF Refines, Message

LEMMA OneMoves ==
  ASSUME NEW r \in Runs, \A s \in Runs : s # r => Place(s)' = Place(s),
         \/ Place(r) = "none" /\ Place(r)' = "waiting"
         \/ Place(r) = "waiting" /\ Place(r)' = "held"
         \/ Place(r) = "held" /\ Place(r)' = "given"
         \/ Place(r) \in {"held", "given"} /\ Place(r)' = "closing"
         \/ Place(r) \in {"closing", "revoked"} /\ Place(r)' = "none"
         \/ Place(r)' = Place(r)
  PROVE  Refines
<1>1. Message' = [Message EXCEPT ![r] = Place(r)'] /\ Message[r] = Place(r)
  BY DEF Message
<1>2. CASE Place(r) = "none" /\ Place(r)' = "waiting"
  <2>1. Delivery!Accept(r)
    BY <1>1, <1>2 DEF Delivery!Accept, Delivery!Goes, Message
  <2> QED
    BY <2>1 DEF Delivery!Next, Refines
<1>3. CASE Place(r) = "waiting" /\ Place(r)' = "held"
  <2>1. Delivery!Take(r)
    BY <1>1, <1>3 DEF Delivery!Take, Delivery!Goes, Message
  <2> QED
    BY <2>1 DEF Delivery!Next, Refines
<1>4. CASE Place(r) = "held" /\ Place(r)' = "given"
  <2>1. Delivery!Give(r)
    BY <1>1, <1>4 DEF Delivery!Give, Delivery!Goes, Message
  <2> QED
    BY <2>1 DEF Delivery!Next, Refines
<1>5. CASE Place(r) \in {"held", "given"} /\ Place(r)' = "closing"
  <2>1. Delivery!Close(r)
    BY <1>1, <1>5 DEF Delivery!Close, Delivery!Goes, Message
  <2> QED
    BY <2>1 DEF Delivery!Next, Refines
<1>6. CASE Place(r) \in {"closing", "revoked"} /\ Place(r)' = "none"
  <2>1. Delivery!Forget(r)
    BY <1>1, <1>6 DEF Delivery!Forget, Delivery!Goes, Message
  <2> QED
    BY <2>1 DEF Delivery!Next, Refines
<1>7. CASE Place(r)' = Place(r)
  BY <1>7, NothingMoves
<1> QED
  BY <1>2, <1>3, <1>4, <1>5, <1>6, <1>7

\* The rows of messages that are being withdrawn are deleted, the turns go on.
LEMMA RowsRevoked ==
  ASSUME TypeOK, NEW M \in SUBSET Runs, M \subseteq Withdrawn, exec' = exec,
         rows' = [r \in Runs |-> IF r \in M THEN "none" ELSE rows[r]]
  PROVE  Refines
<1>1. ASSUME NEW r \in Runs
      PROVE  Place(r)' = IF r \in M THEN Delivery!Revoked(Place(r)) ELSE Place(r)
  <2>1. /\ exec'[r].phase = exec[r].phase
        /\ rows'[r] = IF r \in M THEN "none" ELSE rows[r]
    OBVIOUS
  <2>2. CASE exec[r].phase = "streaming"
    BY <2>1, <2>2, PlaceNow, PlaceNext DEF Delivery!Revoked
  <2>3. CASE exec[r].phase # "streaming" /\ r \in M
    BY <2>1, <2>3, PlaceNow, PlaceNext, RowsAndPhases DEF Delivery!Revoked
  <2>4. CASE r \notin M
    BY <2>1, <2>4, StaysPut
  <2> QED
    BY <2>2, <2>3, <2>4
<1>2. Delivery!Revoke(M)
  BY <1>1 DEF Delivery!Revoke, Message
<1> QED
  BY <1>2 DEF Delivery!Next, Refines

\* A turn ends: its row, if it still has one, is about to be forgotten.
LEMMA TurnEnds ==
  ASSUME IInv, NEW r \in Runs, exec[r].phase \in {"preparing", "streaming"},
         exec'[r].phase = "completing", rows' = rows,
         \A s \in Runs : s # r => exec'[s] = exec[s]
  PROVE  Refines
<1>1. rows[r] \in {"none", "dispatching"}
  BY RowsAndPhases DEF IInv, Budget
<1>2. \A s \in Runs : s # r => Place(s)' = Place(s)
  BY StaysPut
<1>3. \/ Place(r) \in {"held", "given"} /\ Place(r)' = "closing"
      \/ Place(r) \in {"closing", "revoked"} /\ Place(r)' = "none"
      \/ Place(r)' = Place(r)
  BY <1>1, PlaceNow, PlaceNext
<1> QED
  BY <1>2, <1>3, OneMoves

LEMMA AbortRefines ==
  ASSUME IInv, NEW r \in Runs, Abort(r), rows' = rows
  PROVE  Refines
<1>1. CASE exec' = exec
  BY <1>1, StaysPut, NothingMoves
<1>2. CASE exec[r].phase = "streaming" /\ exec' = [exec EXCEPT ![r].phase = "completing"]
  BY <1>2, TurnEnds DEF IInv, TypeOK, Execution
<1> QED
  BY <1>1, <1>2 DEF Abort

LEMMA StartRefines ==
  ASSUME IInv, NEW r \in Runs, Start(r)
  PROVE  Refines
<1>1. CASE StartAccepts(r)
  <2>1. rows[r] = "none" /\ rows'[r] = "queued" /\ exec[r].phase = "idle"
    BY <1>1 DEF StartAccepts, InsertRefused, RowsOf, IInv, Occupied, TypeOK
  <2>2. exec'[r].phase \in {"idle", "claiming"}
    BY <1>1, <2>1 DEF StartAccepts, IInv, TypeOK, Execution
  <2>3. Place(r) = "none" /\ Place(r)' = "waiting"
    BY <2>1, <2>2, PlaceNow, PlaceNext
  <2>4. \A s \in Runs : s # r => rows'[s] = rows[s] /\ exec'[s] = exec[s]
    BY <1>1 DEF StartAccepts, IInv, TypeOK
  <2> QED
    BY <2>3, <2>4, StaysPut, OneMoves
<1>2. CASE StartReserves(r) \/ StartChecks(r) \/ StartFails(r)
  BY <1>2, StaysPut, NothingMoves
     DEF StartReserves, StartChecks, StartFails, durableVars, execVars
<1> QED
  BY <1>1, <1>2 DEF Start

LEMMA ClaimRefines ==
  ASSUME IInv, RunsOK, NEW r \in Runs, Claim(r)
  PROVE  Refines
<1>1. rows[r] \in {"none", "queued"}
  BY RowsAndPhases DEF Claim, RunsOK, RunOK, TurnOK, IInv
<1>2. /\ exec[r].phase = "claiming" /\ exec'[r].phase = "preparing"
      /\ rows'[r] = IF rows[r] = "queued" THEN "dispatching" ELSE rows[r]
  BY <1>1 DEF Claim, IInv, TypeOK
<1>3. \/ Place(r) = "waiting" /\ Place(r)' = "held"
      \/ Place(r)' = Place(r)
  BY <1>1, <1>2, PlaceNow, PlaceNext
<1>4. \A s \in Runs : s # r => rows'[s] = rows[s] /\ exec'[s] = exec[s]
  BY DEF Claim, IInv, TypeOK
<1> QED
  BY <1>3, <1>4, StaysPut, OneMoves

\* The one step that needs the row to be there: the message goes out.
LEMMA TurnRefines ==
  ASSUME {"clear during start", "stop during recovery"} \cap Overlaps = {},
         IInv, RunsOK, NEW r \in Runs, Turn(r) \/ Fail(r)
  PROVE  Refines
<1>1. CASE SendText(r)
  <2>1. rows[r] = "dispatching"
    BY <1>1 DEF SendText, RunsOK, RunOK, RowOK, Executing, ChatThere
  <2>2. exec[r].phase = "preparing" /\ exec'[r].phase = "streaming" /\ rows' = rows
    BY <1>1 DEF SendText, durableVars, IInv, TypeOK, Execution
  <2>3. Place(r) = "held" /\ Place(r)' = "given"
    BY <2>1, <2>2, PlaceNow, PlaceNext
  <2>4. \A s \in Runs : s # r => rows'[s] = rows[s] /\ exec'[s] = exec[s]
    BY <1>1 DEF SendText, durableVars, IInv, TypeOK
  <2> QED
    BY <2>3, <2>4, StaysPut, OneMoves
<1>2. CASE TurnReturns(r) \/ Fail(r)
  <2>1. exec'[r].phase = "completing" /\ exec[r].phase \in {"preparing", "streaming"}
    <3>1. exec \in [Runs -> Execution]
      BY DEF IInv, TypeOK
    <3>2. CASE TurnReturns(r)
      BY <3>1, <3>2 DEF TurnReturns, Execution
    <3>3. CASE PrepareFails(r)
      BY <3>1, <3>3 DEF PrepareFails, Execution
    <3>4. CASE TurnFails(r)
      BY <3>1, <3>4 DEF TurnFails, Execution
    <3> QED
      BY <1>2, <3>2, <3>3, <3>4 DEF Fail
  <2>2. rows' = rows /\ (\A s \in Runs : s # r => exec'[s] = exec[s])
    BY <1>2 DEF TurnReturns, Fail, PrepareFails, TurnFails, durableVars, IInv, TypeOK
  <2> QED
    BY <2>1, <2>2, TurnEnds
<1>3. ASSUME NEW i \in Inputs, PromptOpens(r, i) \/ PromptCloses(r, i)
      PROVE  Refines
  BY <1>3, StaysPut, NothingMoves DEF PromptOpens, PromptCloses, durableVars
<1> QED
  BY <1>1, <1>2, <1>3 DEF Turn, Fail

LEMMA SettleRefines ==
  ASSUME IInv, RunsOK, NEW r \in Runs, Settle(r)
  PROVE  Refines
<1>1. /\ exec[r].phase = "completing" /\ exec'[r] = NotExecuting
      /\ rows'[r] = IF exec[r].claimed /\ rows[r] = "dispatching" THEN "none" ELSE rows[r]
  BY DEF Settle, IInv, TypeOK
<1>2. rows[r] = "none" \/ (rows[r] = "dispatching" /\ exec[r].claimed)
  BY <1>1, RowsAndPhases DEF RunsOK, RunOK, TurnOK, IInv, Budget
<1>3. \/ Place(r) = "closing" /\ Place(r)' = "none"
      \/ Place(r)' = Place(r)
  BY <1>1, <1>2, PlaceNow, PlaceNext DEF NotExecuting
<1>4. \A s \in Runs : s # r => rows'[s] = rows[s] /\ exec'[s] = exec[s]
  BY DEF Settle, IInv, TypeOK
<1> QED
  BY <1>3, <1>4, StaysPut, OneMoves

LEMMA AnswerRefines ==
  ASSUME IInv, NEW r \in Runs, NEW i \in Inputs, Answer(r, i)
  PROVE  Refines
<1>1. rows' = rows
  BY DEF Answer, AnswerBegins, AnswerAtOnce, AnswerSucceeds, AnswerFails, durableVars
<1>2. CASE exec' = exec
  BY <1>1, <1>2, StaysPut, NothingMoves
<1>3. CASE exec[r].phase = "streaming" /\ exec' = [exec EXCEPT ![r].phase = "completing"]
  BY <1>1, <1>3, TurnEnds DEF IInv, TypeOK, Execution
<1> QED
  BY <1>2, <1>3 DEF Answer, AnswerBegins, AnswerAtOnce, AnswerSucceeds, AnswerFails

LEMMA StopRefines ==
  ASSUME IInv, NEW r \in Runs, Stop(r)
  PROVE  Refines
<1>1. CASE StopRegistered(r)
  <2>1. rows' = rows
    BY <1>1 DEF StopRegistered, durableVars
  <2>2. Abort(r) \/ exec' = exec
    BY <1>1 DEF StopRegistered
  <2> QED
    BY <2>1, <2>2, AbortRefines, StaysPut, NothingMoves
<1>2. CASE StopUnknown(r)
  BY <1>2, StaysPut, NothingMoves DEF StopUnknown, durableVars, execVars
<1>3. CASE StopCancelsRow(r)
  <2> DEFINE M == {r}
  <2>1. M \subseteq Withdrawn /\ M \in SUBSET Runs
    BY <1>3 DEF StopCancelsRow, Withdrawn
  <2>2. exec' = exec /\ rows' = [s \in Runs |-> IF s \in M THEN "none" ELSE rows[s]]
    BY <1>3 DEF StopCancelsRow, execVars, IInv, TypeOK
  <2> HIDE DEF M
  <2> QED
    BY <2>1, <2>2, RowsRevoked DEF IInv
<1> QED
  BY <1>1, <1>2, <1>3 DEF Stop

LEMMA ChatRefines ==
  ASSUME IInv, NEW c \in Chats, Clear(c) \/ DeleteChat(c) \/ ArchiveChat(c)
  PROVE  Refines
<1>1. CASE ClearBegins(c) \/ ClearChecks(c) \/ Archive(c) \/ Restore(c)
  BY <1>1, StaysPut, NothingMoves
     DEF ClearBegins, ClearChecks, Archive, Restore, durableVars, execVars
<1>2. CASE ClearDeletes(c)
  <2>1. AmbiguousRuns(c) \subseteq Runs /\ AmbiguousRuns(c) \subseteq Withdrawn
    BY <1>2 DEF ClearDeletes, AmbiguousRuns, Withdrawn
  <2> QED
    BY <1>2, <2>1, RowsRevoked DEF ClearDeletes, execVars, IInv
<1>3. CASE DeleteChatEnds(c) \/ DeleteArchived(c)
  <2> DEFINE M == {r \in Runs : ChatOf[r] = c}
  <2>1. M \subseteq Withdrawn
    BY <1>3 DEF DeleteChatEnds, DeleteArchived, Withdrawn
  <2>2. exec' = exec /\ rows' = [r \in Runs |-> IF r \in M THEN "none" ELSE rows[r]]
    BY <1>3 DEF DeleteChatEnds, DeleteArchived, execVars
  <2> QED
    BY <2>1, <2>2, RowsRevoked DEF IInv
<1>4. CASE DeleteChatBegins(c)
  <2>1. rows' = rows
    BY <1>4 DEF DeleteChatBegins, durableVars
  <2>2. CASE byChat[c] = NoRun
    BY <1>4, <2>1, <2>2, StaysPut, NothingMoves DEF DeleteChatBegins
  <2>3. CASE byChat[c] # NoRun
    <3>1. PICK r \in Runs : r = byChat[c]
      BY <2>3 DEF IInv, TypeOK
    <3>2. Abort(r)
      BY <1>4, <2>3, <3>1 DEF DeleteChatBegins
    <3> QED
      BY <2>1, <3>2, AbortRefines
  <2> QED
    BY <2>2, <2>3
<1> QED
  BY <1>1, <1>2, <1>3, <1>4 DEF Clear, DeleteChat, ArchiveChat

LEMMA CrashRefines ==
  ASSUME IInv, Crash
  PROVE  Refines
<1>1. ASSUME NEW r \in Runs
      PROVE  Place(r)' = Delivery!AfterDeath(Place(r))
  <2>1. rows' = rows /\ exec'[r].phase = "idle"
    BY DEF Crash, durableVars, NotExecuting
  <2>2. /\ rows[r] \in {"none", "queued", "dispatching"}
        /\ exec[r].phase = "streaming" => rows[r] # "queued"
    BY RowsAndPhases DEF IInv, Budget
  <2> QED
    BY <2>1, <2>2, PlaceNow, PlaceNext, RowsAndPhases DEF Delivery!AfterDeath, IInv
<1>2. Delivery!Die
  BY <1>1 DEF Delivery!Die, Message
<1> QED
  BY <1>2 DEF Delivery!Next, Refines

LEMMA RecoverRefines ==
  ASSUME IInv, Recover
  PROVE  Refines
<1>1. ASSUME NEW s \in Runs
      PROVE  Place(s)' = Place(s)
  <2>1. rows' = rows /\ exec[s].phase = "idle"
    BY DEF Recover, durableVars, IInv, Occupied
  <2>2. CASE s \in Recoverable
    <3>1. rows[s] = "queued" /\ rows'[s] = "queued" /\ exec'[s].phase = "claiming"
      BY <2>1, <2>2, RecoverRun
    <3> QED
      BY <2>1, <3>1, PlaceNow, PlaceNext
  <2>3. CASE s \notin Recoverable
    BY <2>1, <2>3, RecoverRun, StaysPut
  <2> QED
    BY <2>2, <2>3
<1> QED
  BY <1>1, NothingMoves

LEMMA DeliveryInit == Init => Delivery!Init
<1> SUFFICES ASSUME Init PROVE Delivery!Init
  OBVIOUS
<1>1. \A r \in Runs : Place(r) = "none"
  BY DEF Init, Place, NotExecuting
<1> QED
  BY <1>1 DEF Delivery!Init

LEMMA DeliveryStep ==
  ASSUME {"clear during start", "stop during recovery"} \cap Overlaps = {},
         IInv, RunsOK, [Next]_vars
  PROVE  Refines
<1>1. ASSUME NEW r \in Runs,
             Start(r) \/ Claim(r) \/ Turn(r) \/ Fail(r) \/ Settle(r) \/ Stop(r)
      PROVE  Refines
  BY <1>1, StartRefines, ClaimRefines, TurnRefines, SettleRefines, StopRefines
<1>2. ASSUME NEW r \in Runs, NEW i \in Inputs, Answer(r, i)
      PROVE  Refines
  BY <1>2, AnswerRefines
<1>3. ASSUME NEW c \in Chats, Clear(c) \/ DeleteChat(c) \/ ArchiveChat(c)
      PROVE  Refines
  BY <1>3, ChatRefines
<1>4. CASE \/ \E c \in Chats, r \in Runs, s \in Ended : Acknowledge(c, r, s)
           \/ UNCHANGED vars
  <2>1. rows' = rows /\ exec' = exec
    BY <1>4 DEF Acknowledge, vars, durableVars, execVars
  <2> QED
    BY <2>1, StaysPut, NothingMoves
<1> QED
  BY <1>1, <1>2, <1>3, <1>4, CrashRefines, RecoverRefines DEF Next

\* Whichever requests overlap but the two named: whatever the daemon does with a
\* message is a step of MessageDelivery, so no message is lost silently, given twice,
\* or given again after a crash cut its turn off.
THEOREM MessagesAreDelivered ==
  ASSUME "clear during start" \notin Overlaps, "stop during recovery" \notin Overlaps
  PROVE  SafetySpec => DeliversMessages
<1>1. {"clear during start", "stop during recovery"} \cap Overlaps = {}
  OBVIOUS
<1>2. ASSUME IInv, RunsOK, [Next]_vars
      PROVE  [Delivery!Next]_[r \in Runs |-> Place(r)]
  BY <1>1, <1>2, DeliveryStep DEF Refines, Message
<1> QED
  BY <1>2, DeliveryInit, RunsAreOK, PTL DEF SafetySpec, DeliversMessages, Delivery!Spec

-----------------------------------------------------------------------------
(* Prompts and answers *)

\* Answers are on their way only to a session that waits for one prompt at a time, and
\* to a run that has not ended unless it was removed.
AnswersOK(r) ==
  answering[r] # {} =>
    OnePromptAtATime(r) /\ (r \in retired \/ exec[r].phase \in {"streaming", "completing"})

\* A turn that has succeeded waits for no answer.
SuccessOK(r) == exec[r].ok => exec[r].phase = "completing" /\ answering[r] = {}

\* A session that waits for one prompt at a time has one, while its turn goes on.
OnePromptOK(r) ==
  OnePromptAtATime(r) =>
    /\ prompts[r] # {} => exec[r].phase = "streaming"
    /\ \A i, j \in prompts[r] \cup answering[r] : i = j

\* The prompt the registry shows is one the session waits for, unless the turn failed.
ShownOK(r) ==
  Registered(r) =>
    /\ run[r].status = "running" => run[r].pending = NoInput
    /\ run[r].status = "needsInput" =>
         /\ run[r].pending \in Inputs
         /\ exec[r].phase \in {"streaming", "completing"} \/ run[r].completed
         /\ exec[r].phase = "streaming" \/ exec[r].ok \/ run[r].completed =>
              run[r].pending \in prompts[r]
    /\ run[r].completed => run[r].status = "needsInput"
    /\ exec[r].phase = "streaming" \/ run[r].completed => run[r].handler

\* The prompt of a session that waits for one is shown, until it is answered.
WaitingOK(r) ==
  OnePromptAtATime(r) /\ Registered(r) =>
    \A i \in prompts[r] :
      IF i \in answering[r] THEN run[r].status = "running"
      ELSE run[r].status = "needsInput" /\ run[r].pending = i

PromptOK(r) ==
  AnswersOK(r) /\ SuccessOK(r) /\ OnePromptOK(r) /\ ShownOK(r) /\ WaitingOK(r)
PromptsOK == \A r \in Runs : PromptOK(r)

PromptSame(s) ==
  /\ run'[s] = run[s] /\ exec'[s] = exec[s]
  /\ prompts'[s] = prompts[s] /\ answering'[s] = answering[s]
  /\ s \in retired => s \in retired'
  /\ runtime' = runtime

LEMMA SamePromptOK ==
  ASSUME NEW s \in Runs, PromptSame(s), PromptOK(s)
  PROVE  PromptOK(s)'
<1>1. (OnePromptAtATime(s)' <=> OnePromptAtATime(s)) /\ (Registered(s)' <=> Registered(s))
  BY DEF PromptSame, OnePromptAtATime, Registered
<1>2. AnswersOK(s)' /\ SuccessOK(s)' /\ OnePromptOK(s)'
  BY <1>1 DEF PromptSame, PromptOK, AnswersOK, SuccessOK, OnePromptOK
<1>3. ShownOK(s)' /\ WaitingOK(s)'
  BY <1>1 DEF PromptSame, PromptOK, ShownOK, WaitingOK
<1> QED
  BY <1>2, <1>3 DEF PromptOK

\* A run that leaves the registry takes what was shown with it.
LEMMA RemovedPromptOK ==
  ASSUME NEW s \in Runs, PromptOK(s), run'[s] = NoRecord, s \in retired' \/ answering'[s] = {},
         answering'[s] \subseteq answering[s], prompts'[s] \subseteq prompts[s],
         runtime' = runtime,
         \/ exec'[s] = exec[s]
         \/ ~ exec'[s].ok /\ (OnePromptAtATime(s) => prompts'[s] = {})
  PROVE  PromptOK(s)'
<1>1. (OnePromptAtATime(s)' <=> OnePromptAtATime(s)) /\ ~ Registered(s)'
  BY DEF OnePromptAtATime, Registered
<1>2. AnswersOK(s)' /\ SuccessOK(s)' /\ OnePromptOK(s)'
  BY <1>1 DEF PromptOK, AnswersOK, SuccessOK, OnePromptOK
<1> QED
  BY <1>1, <1>2 DEF PromptOK, ShownOK, WaitingOK

\* What the changes of a record that a handler makes leave of its fields.
LEMMA ChangedFields ==
  ASSUME NEW a \in ActiveRun, NEW b
  PROVE  /\ b = [a EXCEPT !.started = TRUE] =>
              /\ b.status = a.status /\ b.pending = a.pending
              /\ b.completed = a.completed /\ b.handler = a.handler
         /\ b = [a EXCEPT !.handler = TRUE] =>
              /\ b.status = a.status /\ b.pending = a.pending
              /\ b.completed = a.completed /\ b.handler = TRUE
         /\ b = [a EXCEPT !.completed = TRUE] =>
              /\ b.status = a.status /\ b.pending = a.pending
              /\ b.completed = TRUE /\ b.handler = a.handler
         /\ b = [a EXCEPT !.pending = NoInput, !.status = "running"] =>
              /\ b.status = "running" /\ b.pending = NoInput
              /\ b.completed = a.completed /\ b.handler = a.handler
  BY DEF ActiveRun

LEMMA AskingFields ==
  ASSUME NEW a \in ActiveRun, NEW i \in Inputs, NEW b,
         b = [a EXCEPT !.pending = i, !.status = "needsInput"]
  PROVE  /\ b.status = "needsInput" /\ b.pending = i
         /\ b.completed = a.completed /\ b.handler = a.handler
  BY DEF ActiveRun

LEMMA MaterializedFields ==
  ASSUME NEW a \in ActiveRun, NEW i \in Inputs
  PROVE  /\ Materialized(a, Opens(i)).status = "needsInput"
         /\ Materialized(a, Opens(i)).pending = i
         /\ a.pending = i => /\ Materialized(a, Closes(i)).status = "running"
                             /\ Materialized(a, Closes(i)).pending = NoInput
         /\ a.pending # i => Materialized(a, Closes(i)) = a
<1> DEFINE asks == [a EXCEPT !.pending = i, !.status = "needsInput"]
           asked == [a EXCEPT !.pending = NoInput, !.status = "running"]
<1>1. Materialized(a, Opens(i)) = asks
  BY DEF Materialized, Opens
<1>2. a.pending = i => Materialized(a, Closes(i)) = asked
  BY DEF Materialized, Closes
<1>3. a.pending # i => Materialized(a, Closes(i)) = a
  BY DEF Materialized, Closes
<1>4. /\ asks.status = "needsInput" /\ asks.pending = i
      /\ asked.status = "running" /\ asked.pending = NoInput
  BY DEF ActiveRun
<1> HIDE DEF asks, asked
<1> QED
  BY <1>1, <1>2, <1>3, <1>4

\* While a turn goes on, its run is not kept for an answer; before it streams, nothing
\* is asked.
LEMMA TurnIsOpen ==
  ASSUME IInv, RunsOK, PromptsOK, NEW r \in Runs, Registered(r)
  PROVE  /\ run[r] \in ActiveRun
         /\ run[r].status \in {"running", "needsInput"}
         /\ Executing(r) => ~ run[r].completed
         /\ start[r] # "idle" => ~ run[r].completed
         /\ exec[r].phase \in {"idle", "claiming", "preparing"} /\ ~ run[r].completed =>
              run[r].status = "running"
         /\ answering[r] # {} => exec[r].phase \in {"streaming", "completing"} /\ ~ run[r].completed
<1>1. run[r] \in ActiveRun
  BY RegisteredIsActive DEF IInv
<1>2. /\ run[r].status \in {"running", "needsInput"}
      /\ Executing(r) => ~ run[r].completed
      /\ start[r] # "idle" => ~ run[r].completed
  BY <1>1 DEF RunsOK, RunOK, TurnOK, ActiveRun
<1>3. exec[r].phase \in {"idle", "claiming", "preparing"} /\ ~ run[r].completed =>
        run[r].status = "running"
  BY <1>2 DEF PromptsOK, PromptOK, ShownOK
<1>4. answering[r] # {} => exec[r].phase \in {"streaming", "completing"} /\ ~ run[r].completed
  BY <1>2 DEF PromptsOK, PromptOK, AnswersOK, RunsOK, RunOK, Once, Executing
<1> QED
  BY <1>1, <1>2, <1>3, <1>4

LEMMA StartKeepsPrompts ==
  ASSUME IInv, RunsOK, PromptsOK, NEW r \in Runs, Start(r)
  PROVE  PromptsOK'
<1> USE DEF IInv
<1>a. PromptOK(r)
  BY DEF PromptsOK
<1>1. CASE StartReserves(r)
  <2>1. /\ r \notin retired /\ ~ Registered(r) /\ recovered /\ run'[r] = Reservation
        /\ UNCHANGED <<exec, prompts, answering, runtime, retired>>
    BY <1>1 DEF StartReserves, durableVars, TypeOK
  <2>2. exec[r].phase = "idle"
    BY <2>1 DEF Occupied
  <2>3. PromptOK(r)'
    BY <1>a, <2>1, <2>2, ReservationIsNew
       DEF PromptOK, AnswersOK, SuccessOK, OnePromptOK, ShownOK, WaitingOK, OnePromptAtATime
  <2>4. \A s \in Runs : s # r => PromptSame(s)
    BY <1>1 DEF StartReserves, PromptSame, durableVars, TypeOK
  <2> QED
    BY <2>3, <2>4, SamePromptOK DEF PromptsOK
<1>2. CASE StartChecks(r) \/ StartFails(r)
  <2>1. Remove(r) \/ UNCHANGED registryVars
    BY <1>2 DEF StartChecks, StartFails
  <2>2. UNCHANGED <<exec, prompts, answering, runtime>>
    BY <1>2 DEF StartChecks, StartFails, durableVars, execVars
  <2>3. CASE Remove(r) /\ Registered(r)
    <3>1. PromptOK(r)'
      BY <1>a, <2>2, <2>3, RemoveRun, RemovedPromptOK
    <3>2. \A s \in Runs : s # r => PromptSame(s)
      BY <2>2, <2>3, RemoveRun DEF PromptSame
    <3> QED
      BY <3>1, <3>2, SamePromptOK DEF PromptsOK
  <2>4. CASE UNCHANGED registryVars
    BY <2>2, <2>4, SamePromptOK DEF PromptSame, PromptsOK, registryVars
  <2> QED
    BY <2>1, <2>3, <2>4 DEF Remove
<1>3. CASE StartAccepts(r)
  <2>1. /\ UNCHANGED <<prompts, answering, runtime, retired>>
        /\ start[r] # "idle" /\ exec[r].phase = "idle"
        /\ \A s \in Runs : s # r => run'[s] = run[s] /\ exec'[s] = exec[s]
    BY <1>3 DEF StartAccepts, TypeOK, Occupied
  <2>2. CASE Registered(r)
    <3>1. /\ run'[r] = [run[r] EXCEPT !.started = TRUE]
          /\ exec'[r].phase = "claiming" /\ exec'[r].ok = exec[r].ok
      BY <1>3, <2>2 DEF StartAccepts, TypeOK, Execution
    <3>4. /\ run'[r].status = run[r].status /\ run'[r].pending = run[r].pending
          /\ run'[r].completed = run[r].completed
      BY <2>2, <3>1, RegisteredIsActive DEF ActiveRun
    <3>2. run'[r].status = "running" /\ run'[r].pending = run[r].pending /\ ~ run'[r].completed
      BY <2>1, <2>2, <3>4, TurnIsOpen
    <3>3. PromptOK(r)'
      BY <1>a, <2>1, <2>2, <3>1, <3>2, TurnIsOpen
         DEF PromptOK, AnswersOK, SuccessOK, OnePromptOK, ShownOK, WaitingOK, OnePromptAtATime
    <3> QED
      BY <2>1, <3>3, SamePromptOK DEF PromptSame, PromptsOK
  <2>3. CASE ~ Registered(r)
    <3>1. UNCHANGED <<run, exec>>
      BY <1>3, <2>3 DEF StartAccepts
    <3> QED
      BY <2>1, <3>1, SamePromptOK DEF PromptSame, PromptsOK
  <2> QED
    BY <2>2, <2>3
<1> QED
  BY <1>1, <1>2, <1>3 DEF Start

LEMMA ClaimKeepsPrompts ==
  ASSUME IInv, RunsOK, PromptsOK, NEW r \in Runs, Claim(r)
  PROVE  PromptsOK'
<1> USE DEF IInv
<1>1. /\ exec[r].phase = "claiming" /\ exec'[r].phase \in {"preparing", "completing"}
      /\ exec'[r].ok = FALSE /\ UNCHANGED <<run, prompts, answering, retired, runtime>>
  BY DEF Claim, registryVars, TypeOK
<1>2. Registered(r) => run[r].status = "running" /\ ~ run[r].completed
  BY <1>1, TurnIsOpen DEF Executing
<1>3. PromptOK(r)'
  BY <1>1, <1>2
     DEF PromptsOK, PromptOK, AnswersOK, SuccessOK, OnePromptOK, ShownOK, WaitingOK,
         OnePromptAtATime, Registered
<1>4. \A s \in Runs : s # r => PromptSame(s)
  BY <1>1 DEF Claim, PromptSame, TypeOK
<1> QED
  BY <1>3, <1>4, SamePromptOK DEF PromptsOK

\* What the registry shows after a prompt opens or closes.
LEMMA EmitShows ==
  ASSUME TypeOK, NEW r \in Runs, NEW i \in Inputs, NEW event \in {Opens(i), Closes(i)},
         Emit(r, event)
  PROVE  /\ \A s \in Runs : s # r => run'[s] = run[s]
         /\ Registered(r)' <=> Registered(r)
         /\ Registered(r) =>
              /\ run'[r].completed = run[r].completed /\ run'[r].handler = run[r].handler
              /\ event = Opens(i) => run'[r].status = "needsInput" /\ run'[r].pending = i
              /\ event = Closes(i) /\ run[r].pending = i =>
                   run'[r].status = "running" /\ run'[r].pending = NoInput
              /\ event = Closes(i) /\ run[r].pending # i => run'[r] = run[r]
<1>1. event \in StreamEvent
  BY EventsAreEvents
<1>2. AsFar(r)
  BY <1>1, EmitIsAsFar
<1>3. CASE Registered(r)
  <2>1. run[r] \in ActiveRun
    BY <1>3, RegisteredIsActive
  <2>2. run'[r] = Materialized(run[r], event)
    BY <1>3 DEF Emit, TypeOK
  <2> QED
    BY <1>2, <1>3, <2>1, <2>2, MaterializedFields, MaterializedIsAsFar DEF AsFar
<1>4. CASE ~ Registered(r)
  BY <1>2, <1>4 DEF AsFar
<1> QED
  BY <1>3, <1>4

LEMMA TurnKeepsPrompts ==
  ASSUME IInv, RunsOK, PromptsOK, NEW r \in Runs, Turn(r) \/ Fail(r)
  PROVE  PromptsOK'
<1> USE DEF IInv
<1>a. PromptOK(r)
  BY DEF PromptsOK
<1>1. CASE SendText(r)
  <2>1. /\ exec[r].phase = "preparing" /\ exec'[r].phase = "streaming"
        /\ exec'[r].ok = exec[r].ok
    BY <1>1 DEF SendText, TypeOK, Execution
  <2>2. /\ UNCHANGED <<prompts, answering, retired, runtime>>
        /\ \A s \in Runs : s # r => run'[s] = run[s] /\ exec'[s] = exec[s]
    BY <1>1 DEF SendText, durableVars, TypeOK
  <2>3. CASE Registered(r)
    <3>1. /\ run'[r].status = run[r].status /\ run'[r].pending = run[r].pending
          /\ run'[r].completed = run[r].completed /\ run'[r].handler
      BY <1>1, <2>3, RegisteredIsActive DEF SendText, ActiveRun, TypeOK
    <3>2. run[r].status = "running" /\ ~ run[r].completed
      BY <2>1, <2>3, TurnIsOpen DEF Executing
    <3> QED
      BY <1>a, <2>1, <2>2, <2>3, <3>1, <3>2, SamePromptOK
         DEF PromptsOK, PromptSame, PromptOK, AnswersOK, SuccessOK, OnePromptOK, ShownOK,
             WaitingOK, OnePromptAtATime
  <2>4. CASE ~ Registered(r)
    <3>1. run' = run
      BY <1>1, <2>4 DEF SendText
    <3> QED
      BY <1>a, <2>1, <2>2, <2>4, <3>1, SamePromptOK
         DEF PromptsOK, PromptSame, PromptOK, AnswersOK, SuccessOK, OnePromptOK, ShownOK,
             WaitingOK, OnePromptAtATime, Registered
  <2> QED
    BY <2>3, <2>4
<1>2. CASE PrepareFails(r)
  <2>1. /\ exec[r].phase = "preparing" /\ exec'[r].phase = "completing"
        /\ exec'[r].ok = exec[r].ok
    BY <1>2 DEF PrepareFails, TypeOK, Execution
  <2>2. /\ UNCHANGED <<run, prompts, answering, retired, runtime>>
        /\ \A s \in Runs : s # r => exec'[s] = exec[s]
    BY <1>2 DEF PrepareFails, durableVars, registryVars, TypeOK
  <2>3. Registered(r) => run[r].status = "running" /\ ~ run[r].completed
    BY <2>1, TurnIsOpen DEF Executing
  <2>4. PromptOK(r)'
    BY <1>a, <2>1, <2>2, <2>3
       DEF PromptOK, AnswersOK, SuccessOK, OnePromptOK, ShownOK, WaitingOK, OnePromptAtATime,
           Registered
  <2> QED
    BY <2>2, <2>4, SamePromptOK DEF PromptsOK, PromptSame
<1>3. CASE TurnReturns(r)
  <2>1. /\ exec[r].phase = "streaming" /\ exec'[r].phase = "completing"
        /\ answering[r] = {} /\ (OnePromptAtATime(r) => prompts[r] = {})
    BY <1>3 DEF TurnReturns, TypeOK, Execution
  <2>2. /\ UNCHANGED <<run, prompts, answering, retired, runtime>>
        /\ \A s \in Runs : s # r => exec'[s] = exec[s]
    BY <1>3 DEF TurnReturns, durableVars, registryVars, TypeOK
  <2>3. PromptOK(r)'
    BY <1>a, <2>1, <2>2
       DEF PromptOK, AnswersOK, SuccessOK, OnePromptOK, ShownOK, WaitingOK, OnePromptAtATime,
           Registered
  <2> QED
    BY <2>2, <2>3, SamePromptOK DEF PromptsOK, PromptSame
<1>4. CASE TurnFails(r)
  <2>1. /\ exec[r].phase = "streaming" /\ exec'[r].phase = "completing"
        /\ exec'[r].ok = exec[r].ok /\ prompts'[r] = {}
    BY <1>4 DEF TurnFails, TypeOK, Execution
  <2>2. /\ UNCHANGED <<run, answering, retired, runtime>>
        /\ \A s \in Runs : s # r => exec'[s] = exec[s] /\ prompts'[s] = prompts[s]
    BY <1>4 DEF TurnFails, durableVars, registryVars, TypeOK
  <2>4. Registered(r) => ~ run[r].completed
    BY <2>1, TurnIsOpen DEF Executing
  <2>3. PromptOK(r)'
    BY <1>a, <2>1, <2>2, <2>4
       DEF PromptOK, AnswersOK, SuccessOK, OnePromptOK, ShownOK, WaitingOK, OnePromptAtATime,
           Registered
  <2> QED
    BY <2>2, <2>3, SamePromptOK DEF PromptsOK, PromptSame
<1>5. ASSUME NEW i \in Inputs, PromptOpens(r, i)
      PROVE  PromptsOK'
  <2>1. /\ exec[r].phase = "streaming" /\ answering[r] = {}
        /\ OnePromptAtATime(r) => prompts[r] = {}
        /\ prompts'[r] = prompts[r] \cup {i} /\ Emit(r, Opens(i))
        /\ UNCHANGED <<exec, answering, retired, runtime>>
        /\ \A s \in Runs : s # r => prompts'[s] = prompts[s]
    BY <1>5 DEF PromptOpens, durableVars, TypeOK
  <2>2. /\ \A s \in Runs : s # r => run'[s] = run[s]
        /\ Registered(r)' <=> Registered(r)
        /\ Registered(r) =>
             /\ run'[r].completed = run[r].completed /\ run'[r].handler = run[r].handler
             /\ run'[r].status = "needsInput" /\ run'[r].pending = i
    BY <2>1, EmitShows
  <2>3. PromptOK(r)'
    BY <1>a, <2>1, <2>2
       DEF PromptOK, AnswersOK, SuccessOK, OnePromptOK, ShownOK, WaitingOK, OnePromptAtATime
  <2> QED
    BY <2>1, <2>2, <2>3, SamePromptOK DEF PromptsOK, PromptSame
<1>6. ASSUME NEW i \in Inputs, PromptCloses(r, i)
      PROVE  PromptsOK'
  <2>1. /\ exec[r].phase = "streaming" /\ ~ OnePromptAtATime(r)
        /\ prompts'[r] = prompts[r] \ {i} /\ Emit(r, Closes(i))
        /\ UNCHANGED <<exec, answering, retired, runtime>>
        /\ \A s \in Runs : s # r => prompts'[s] = prompts[s]
    BY <1>6 DEF PromptCloses, durableVars, TypeOK
  <2>2. /\ \A s \in Runs : s # r => run'[s] = run[s]
        /\ Registered(r)' <=> Registered(r)
        /\ Registered(r) =>
             /\ run'[r].completed = run[r].completed /\ run'[r].handler = run[r].handler
             /\ run[r].pending = i => run'[r].status = "running" /\ run'[r].pending = NoInput
             /\ run[r].pending # i => run'[r] = run[r]
    BY <2>1, EmitShows
  <2>4. Registered(r) => ~ run[r].completed
    BY <2>1, TurnIsOpen DEF Executing
  <2>3. PromptOK(r)'
    BY <1>a, <2>1, <2>2, <2>4
       DEF PromptOK, AnswersOK, SuccessOK, OnePromptOK, ShownOK, WaitingOK, OnePromptAtATime
  <2> QED
    BY <2>1, <2>2, <2>3, SamePromptOK DEF PromptsOK, PromptSame
<1> QED
  BY <1>1, <1>2, <1>3, <1>4, <1>5, <1>6 DEF Turn, Fail

LEMMA SettleKeepsPrompts ==
  ASSUME IInv, RunsOK, PromptsOK, NEW r \in Runs, Settle(r)
  PROVE  PromptsOK'
<1> USE DEF IInv
<1> DEFINE waits == run[r].status = "needsInput"
           kept == exec[r].ok /\ waits /\ run[r].handler
<1>a. PromptOK(r)
  BY DEF PromptsOK
<1>1. /\ exec[r].phase = "completing" /\ exec'[r].phase = "idle" /\ exec'[r].ok = FALSE
      /\ UNCHANGED <<prompts, answering, runtime>>
      /\ \A s \in Runs : s # r => exec'[s] = exec[s]
  BY DEF Settle, NotExecuting, TypeOK
<1>2. CASE Registered(r) /\ kept
  <2>1. run[r] \in ActiveRun
    BY <1>2, RegisteredIsActive
  <2> DEFINE a == [run[r] EXCEPT !.completed = TRUE]
  <2>2. run' = [run EXCEPT ![r] = a] /\ UNCHANGED retired
    BY <1>2 DEF Settle
  <2>3. /\ a \in ActiveRun /\ a.status = run[r].status /\ a.pending = run[r].pending
        /\ a.completed = TRUE /\ a.handler = run[r].handler
    BY <2>1 DEF ActiveRun
  <2> HIDE DEF a
  <2>4. run'[r] = a /\ \A s \in Runs : s # r => run'[s] = run[s]
    BY <2>2 DEF TypeOK
  <2>6. exec[r].ok /\ run[r].status = "needsInput" /\ run[r].handler
    BY <1>2
  <2>5. PromptOK(r)'
    BY <1>a, <1>1, <1>2, <2>2, <2>3, <2>4, <2>6, ActiveRunIsRegistered
       DEF PromptOK, AnswersOK, SuccessOK, OnePromptOK, ShownOK, WaitingOK, OnePromptAtATime,
           Registered
  <2> QED
    BY <1>1, <2>2, <2>4, <2>5, SamePromptOK DEF PromptsOK, PromptSame
<1>3. CASE ~ (Registered(r) /\ kept)
  <2>1. /\ run'[r] = NoRecord
        /\ r \in retired' <=> (Registered(r) \/ r \in retired)
        /\ \A s \in Runs : s # r => run'[s] = run[s] /\ (s \in retired' <=> s \in retired)
    BY <1>3, FinishRun DEF Settle
  <2>2. r \in retired' /\ (OnePromptAtATime(r) => prompts[r] = {})
    BY <1>a, <1>1, <2>1 DEF Occupied, PromptOK, OnePromptOK
  <2>3. PromptOK(r)'
    BY <1>a, <1>1, <2>1, <2>2, RemovedPromptOK
  <2> QED
    BY <1>1, <2>1, <2>3, SamePromptOK DEF PromptsOK, PromptSame
<1> QED
  BY <1>2, <1>3

\* What the registry shows of a run whose answer is taken.
LEMMA TakenShows ==
  ASSUME TypeOK, NEW r \in Runs, NEW i \in Inputs, AnswerTaken(r, i)
  PROVE  /\ \A s \in Runs : s # r => run'[s] = run[s] /\ (s \in retired => s \in retired')
         /\ \/ run'[r] = NoRecord /\ (Registered(r) => r \in retired') /\ (r \in retired => r \in retired')
            \/ /\ Registered(r)' /\ Registered(r) /\ ~ run[r].completed /\ retired' = retired
               /\ run'[r].completed = run[r].completed /\ run'[r].handler = run[r].handler
               /\ run[r].pending = i => run'[r].status = "running" /\ run'[r].pending = NoInput
               /\ run[r].pending # i => run'[r] = run[r]
<1>1. CASE Registered(r) /\ run[r].completed
  BY <1>1, RemoveRun DEF AnswerTaken
<1>2. CASE Registered(r) /\ ~ run[r].completed
  <2>1. run[r] \in ActiveRun
    BY <1>2, RegisteredIsActive
  <2>2. run' = [run EXCEPT ![r] = Materialized(run[r], Closes(i))] /\ UNCHANGED retired
    BY <1>2 DEF AnswerTaken
  <2>3. Materialized(run[r], Closes(i)) \in ActiveRun
    BY <2>1, MaterializedIsActive, EventsAreEvents
  <2>4. run'[r] = Materialized(run[r], Closes(i)) /\ \A s \in Runs : s # r => run'[s] = run[s]
    BY <2>2 DEF TypeOK
  <2> QED
    BY <1>2, <2>1, <2>2, <2>3, <2>4, MaterializedFields, MaterializedIsAsFar,
       ActiveRunIsRegistered DEF Registered
<1>3. CASE ~ Registered(r)
  BY <1>3 DEF AnswerTaken, Registered
<1> QED
  BY <1>1, <1>2, <1>3

LEMMA AnswerKeepsPrompts ==
  ASSUME IInv, RunsOK, PromptsOK, NEW r \in Runs, NEW i \in Inputs, Answer(r, i)
  PROVE  PromptsOK'
<1> USE DEF IInv
<1>a. PromptOK(r)
  BY DEF PromptsOK
<1>1. CASE AnswerBegins(r, i)
  <2>1. /\ OnePromptAtATime(r) /\ Registered(r) /\ run[r].handler /\ i \in prompts[r]
        /\ answering'[r] = answering[r] \cup {i}
        /\ UNCHANGED <<exec, prompts, retired, runtime>>
        /\ \A s \in Runs : s # r => answering'[s] = answering[s]
    BY <1>1 DEF AnswerBegins, Answerable, durableVars, TypeOK
  <2>2. run[r] \in ActiveRun
    BY <2>1, RegisteredIsActive
  <2> DEFINE a == [run[r] EXCEPT !.pending = NoInput, !.status = "running"]
  <2>3. run' = [run EXCEPT ![r] = a]
    BY <1>1 DEF AnswerBegins
  <2>4. /\ a \in ActiveRun /\ a.status = "running" /\ a.pending = NoInput
        /\ a.completed = run[r].completed /\ a.handler = run[r].handler
    BY <2>2, ActiveRunChanges DEF ActiveRun
  <2> HIDE DEF a
  <2>5. run'[r] = a /\ \A s \in Runs : s # r => run'[s] = run[s]
    BY <2>3 DEF TypeOK
  <2>6. exec[r].phase = "streaming" /\ ~ run[r].completed
    BY <1>a, <2>1, TurnIsOpen DEF PromptOK, OnePromptOK, Executing
  <2>7. PromptOK(r)'
    BY <1>a, <2>1, <2>4, <2>5, <2>6, ActiveRunIsRegistered
       DEF PromptOK, AnswersOK, SuccessOK, OnePromptOK, ShownOK, WaitingOK, OnePromptAtATime,
           Registered
  <2> QED
    BY <2>1, <2>5, <2>7, SamePromptOK DEF PromptsOK, PromptSame
<1>2. CASE AnswerAtOnce(r, i) \/ AnswerSucceeds(r, i)
  <2>1. /\ AnswerTaken(r, i) /\ prompts'[r] = prompts[r] \ {i}
        /\ UNCHANGED <<exec, runtime>>
        /\ \A s \in Runs : s # r => answering'[s] = answering[s] /\ prompts'[s] = prompts[s]
    BY <1>2 DEF AnswerAtOnce, AnswerSucceeds, durableVars, TypeOK
  <2>2. \/ ~ OnePromptAtATime(r) /\ answering'[r] = answering[r]
        \/ i \in answering[r] /\ answering'[r] = answering[r] \ {i}
    BY <1>2 DEF AnswerAtOnce, AnswerSucceeds, TypeOK
  <2>3. PromptOK(r)'
    <3>1. CASE /\ run'[r] = NoRecord /\ (Registered(r) => r \in retired')
               /\ (r \in retired => r \in retired')
      <4>1. r \in retired' \/ answering'[r] = {}
        BY <1>a, <2>2, <3>1 DEF PromptOK, AnswersOK, Occupied
      <4> QED
        BY <1>a, <2>1, <2>2, <3>1, <4>1, RemovedPromptOK
    <3>2. CASE /\ Registered(r)' /\ Registered(r) /\ ~ run[r].completed /\ retired' = retired
               /\ run'[r].completed = run[r].completed /\ run'[r].handler = run[r].handler
               /\ run[r].pending = i => run'[r].status = "running" /\ run'[r].pending = NoInput
               /\ run[r].pending # i => run'[r] = run[r]
      <4>1. (OnePromptAtATime(r)' <=> OnePromptAtATime(r))
        BY <2>1 DEF OnePromptAtATime
      <4>2. AnswersOK(r)' /\ SuccessOK(r)' /\ OnePromptOK(r)'
        BY <1>a, <2>1, <2>2, <3>2, <4>1 DEF PromptOK, AnswersOK, SuccessOK, OnePromptOK
      <4>3. CASE ~ OnePromptAtATime(r)
        BY <1>a, <2>1, <2>2, <3>2, <4>1, <4>2, <4>3, TurnIsOpen
           DEF PromptOK, AnswersOK, SuccessOK, ShownOK, WaitingOK
      <4>4. CASE OnePromptAtATime(r)
        <5>1. i \in answering[r] /\ answering'[r] = {} /\ prompts'[r] = {}
          BY <1>a, <2>1, <2>2, <4>4 DEF PromptOK, OnePromptOK
        <5>2. ~ exec[r].ok
          BY <1>a, <5>1 DEF PromptOK, SuccessOK
        <5>3. exec[r].phase = "streaming" /\ run[r].status = "needsInput" => run[r].pending = i
          BY <1>a, <3>2, <4>4, <5>1 DEF PromptOK, OnePromptOK, ShownOK
        <5> QED
          BY <1>a, <2>1, <3>2, <4>1, <4>2, <5>1, <5>2, <5>3 DEF PromptOK, ShownOK, WaitingOK
      <4> QED
        BY <4>3, <4>4
    <3> QED
      BY <2>1, <3>1, <3>2, TakenShows
  <2> QED
    BY <2>1, <2>3, TakenShows, SamePromptOK DEF PromptsOK, PromptSame
<1>3. CASE AnswerFails(r, i)
  <2>1. /\ i \in answering[r] /\ answering'[r] = answering[r] \ {i}
        /\ prompts'[r] = prompts[r] \ {i}
        /\ UNCHANGED <<retired, runtime>>
    BY <1>3 DEF AnswerFails, durableVars, TypeOK
  <2>8. \A s \in Runs : s # r => /\ answering'[s] = answering[s] /\ prompts'[s] = prompts[s]
                                 /\ run'[s] = run[s] /\ exec'[s] = exec[s]
    BY <1>3 DEF AnswerFails, TypeOK
  <2>2. /\ exec'[r].ok = exec[r].ok
        /\ exec'[r].phase = IF exec[r].phase = "streaming" THEN "completing" ELSE exec[r].phase
    BY <1>3 DEF AnswerFails, TypeOK, Execution
  <2>3. /\ OnePromptAtATime(r) /\ OnePromptAtATime(r)' /\ ~ exec[r].ok
        /\ answering'[r] = {} /\ prompts'[r] = {}
    BY <1>a, <2>1 DEF PromptOK, AnswersOK, SuccessOK, OnePromptOK, OnePromptAtATime
  <2>4. CASE Registered(r)
    <3>1. run[r] \in ActiveRun
      BY <2>4, RegisteredIsActive
    <3> DEFINE a == [run[r] EXCEPT !.pending = i, !.status = "needsInput"]
    <3>2. /\ a \in ActiveRun /\ a.status = "needsInput" /\ a.pending = i
          /\ a.completed = run[r].completed /\ a.handler = run[r].handler
      BY <3>1, ActiveRunChanges DEF ActiveRun
    <3>3. run' = [run EXCEPT ![r] = a]
      BY <1>3, <2>4 DEF AnswerFails
    <3> HIDE DEF a
    <3>4. run'[r] = a
      BY <3>3 DEF TypeOK
    <3>5. exec'[r].phase = "completing" /\ ~ run[r].completed
      BY <2>1, <2>2, <2>4, TurnIsOpen
    <3>6. PromptOK(r)'
      BY <2>2, <2>3, <3>2, <3>4, <3>5
         DEF PromptOK, AnswersOK, SuccessOK, OnePromptOK, ShownOK, WaitingOK
    <3> QED
      BY <2>1, <2>8, <3>6, SamePromptOK DEF PromptsOK, PromptSame
  <2>5. CASE ~ Registered(r)
    <3>1. run' = run
      BY <1>3, <2>5 DEF AnswerFails
    <3>2. PromptOK(r)'
      BY <2>2, <2>3, <2>5, <3>1
         DEF PromptOK, AnswersOK, SuccessOK, OnePromptOK, ShownOK, WaitingOK, Registered
    <3> QED
      BY <2>1, <2>8, <3>2, SamePromptOK DEF PromptsOK, PromptSame
  <2> QED
    BY <2>4, <2>5
<1> QED
  BY <1>1, <1>2, <1>3 DEF Answer

\* An abort takes the prompt away together with the turn.
LEMMA AbortShows ==
  ASSUME TypeOK, NEW r \in Runs, Abort(r)
  PROVE  \/ exec' = exec /\ prompts' = prompts
         \/ /\ OnePromptAtATime(r) /\ exec[r].phase = "streaming" /\ prompts'[r] = {}
            /\ exec'[r].phase = "completing" /\ exec'[r].ok = exec[r].ok
  BY DEF Abort, TypeOK, Execution

LEMMA AbortKeepsPrompts ==
  ASSUME IInv, RunsOK, PromptsOK, NEW r \in Runs, Abort(r),
         UNCHANGED <<answering, runtime>>,
         UNCHANGED <<run, retired>> \/ (Remove(r) /\ Registered(r))
  PROVE  PromptsOK'
<1> USE DEF IInv
<1>a. PromptOK(r)
  BY DEF PromptsOK
<1>1. \A s \in Runs : s # r => PromptSame(s)
  BY AbortSparesOthers, RemoveRun DEF PromptSame
<1>2. PromptOK(r)'
  <2>1. CASE exec' = exec /\ prompts' = prompts
    <3>1. CASE UNCHANGED <<run, retired>>
      BY <1>a, <2>1, <3>1, SamePromptOK DEF PromptSame
    <3>2. CASE Remove(r) /\ Registered(r)
      BY <1>a, <2>1, <3>2, RemoveRun, RemovedPromptOK
    <3> QED
      BY <3>1, <3>2
  <2>2. CASE /\ OnePromptAtATime(r) /\ exec[r].phase = "streaming" /\ prompts'[r] = {}
             /\ exec'[r].phase = "completing" /\ exec'[r].ok = exec[r].ok
    <3>1. ~ exec[r].ok
      BY <1>a, <2>2 DEF PromptOK, SuccessOK
    <3>2. CASE UNCHANGED <<run, retired>>
      <4>1. Registered(r) => ~ run[r].completed
        BY <2>2, TurnIsOpen DEF Executing
      <4> QED
        BY <1>a, <2>2, <3>1, <3>2, <4>1
           DEF PromptOK, AnswersOK, SuccessOK, OnePromptOK, ShownOK, WaitingOK, OnePromptAtATime,
               Registered
    <3>3. CASE Remove(r) /\ Registered(r)
      BY <1>a, <2>2, <3>1, <3>3, RemoveRun, RemovedPromptOK
    <3> QED
      BY <3>2, <3>3
  <2> QED
    BY <2>1, <2>2, AbortShows
<1> QED
  BY <1>1, <1>2, SamePromptOK DEF PromptsOK

LEMMA RemoveKeepsPrompts ==
  ASSUME IInv, PromptsOK, NEW r \in Runs, Registered(r), Remove(r),
         UNCHANGED <<exec, prompts, answering, runtime>>
  PROVE  PromptsOK'
<1>1. PromptOK(r)'
  BY RemoveRun, RemovedPromptOK DEF PromptsOK, IInv
<1>2. \A s \in Runs : s # r => PromptSame(s)
  BY RemoveRun DEF PromptSame, IInv
<1> QED
  BY <1>1, <1>2, SamePromptOK DEF PromptsOK

LEMMA NothingAsked ==
  ASSUME PromptsOK, UNCHANGED <<run, retired, exec, prompts, answering, runtime>>
  PROVE  PromptsOK'
  BY SamePromptOK DEF PromptsOK, PromptSame

LEMMA RestKeepsPrompts ==
  ASSUME IInv, RunsOK, PromptsOK,
         \/ \E r \in Runs : Stop(r)
         \/ \E c \in Chats : Clear(c) \/ DeleteChat(c) \/ ArchiveChat(c)
         \/ \E c \in Chats, r \in Runs, s \in Ended : Acknowledge(c, r, s)
         \/ UNCHANGED vars
  PROVE  PromptsOK'
<1>1. ASSUME NEW r \in Runs, StopRegistered(r)
      PROVE  PromptsOK'
  <2>1. Registered(r) /\ UNCHANGED <<answering, runtime>>
    BY <1>1 DEF StopRegistered, durableVars
  <2>2. CASE Remove(r) /\ UNCHANGED <<aborted, prompts, exec>>
    BY <2>1, <2>2, RemoveKeepsPrompts
  <2>3. CASE Abort(r) /\ UNCHANGED registryVars
    BY <2>1, <2>3, AbortKeepsPrompts DEF registryVars
  <2> QED
    BY <1>1, <2>2, <2>3 DEF StopRegistered
<1>2. ASSUME NEW r \in Runs, StopUnknown(r) \/ StopCancelsRow(r)
      PROVE  PromptsOK'
  BY <1>2, NothingAsked DEF StopUnknown, StopCancelsRow, durableVars, registryVars, execVars
<1>3. ASSUME NEW c \in Chats, DeleteChatBegins(c)
      PROVE  PromptsOK'
  <2>1. UNCHANGED <<answering, runtime>>
    BY <1>3 DEF DeleteChatBegins, durableVars
  <2>2. CASE byChat[c] = NoRun
    BY <1>3, <2>1, <2>2, NothingAsked DEF DeleteChatBegins, registryVars
  <2>3. CASE byChat[c] # NoRun
    <3>1. PICK r \in Runs : r = byChat[c]
      BY <2>3 DEF IInv, TypeOK
    <3>2. Registered(r)
      BY <2>3, <3>1 DEF IInv, RegistryAgrees
    <3>3. Abort(r) /\ Remove(r)
      BY <1>3, <2>3, <3>1 DEF DeleteChatBegins
    <3> QED
      BY <2>1, <3>2, <3>3, AbortKeepsPrompts
  <2> QED
    BY <2>2, <2>3
<1>4. ASSUME NEW c \in Chats, Clear(c) \/ DeleteChatEnds(c) \/ ArchiveChat(c)
      PROVE  PromptsOK'
  BY <1>4, NothingAsked
     DEF Clear, ClearBegins, ClearChecks, ClearDeletes, DeleteChatEnds, ArchiveChat, Archive,
         Restore, DeleteArchived, durableVars, registryVars, execVars
<1>5. CASE \/ \E c \in Chats, r \in Runs, s \in Ended : Acknowledge(c, r, s)
           \/ UNCHANGED vars
  BY <1>5, NothingAsked DEF Acknowledge, vars, durableVars, registryVars, execVars
<1> QED
  BY <1>1, <1>2, <1>3, <1>4, <1>5 DEF Stop, DeleteChat

LEMMA RestartKeepsPrompts ==
  ASSUME IInv, RunsOK, PromptsOK, Crash \/ Recover
  PROVE  PromptsOK'
<1>1. CASE Crash
  <2>1. ASSUME NEW s \in Runs
        PROVE  PromptOK(s)'
    <3>1. /\ run'[s] = NoRecord /\ exec'[s].phase = "idle" /\ exec'[s].ok = FALSE
          /\ prompts'[s] = {} /\ answering'[s] = {}
      BY <1>1 DEF Crash, NotExecuting
    <3> QED
      BY <3>1
         DEF PromptOK, AnswersOK, SuccessOK, OnePromptOK, ShownOK, WaitingOK, Registered
  <2> QED
    BY <2>1 DEF PromptsOK
<1>2. CASE Recover
  <2>1. ASSUME NEW s \in Runs
        PROVE  PromptOK(s)'
    <3>1. PromptOK(s) /\ s \notin retired /\ ~ Registered(s) /\ exec[s].phase = "idle"
      BY <1>2 DEF Recover, PromptsOK, RunsOK, RunOK, Once, IInv, Occupied
    <3>2. UNCHANGED <<prompts, answering, retired, runtime>>
      BY <1>2 DEF Recover, durableVars
    <3>3. answering[s] = {} /\ (OnePromptAtATime(s) => prompts[s] = {})
      BY <3>1 DEF PromptOK, AnswersOK, OnePromptOK
    <3>4. CASE s \in Recoverable
      <4>1. /\ run'[s].status = "running" /\ run'[s].pending = NoInput
            /\ ~ run'[s].completed /\ exec'[s].phase = "claiming" /\ exec'[s].ok = FALSE
        BY <1>2, <3>4, RecoverRun
      <4> QED
        BY <3>2, <3>3, <4>1
           DEF PromptOK, AnswersOK, SuccessOK, OnePromptOK, ShownOK, WaitingOK, OnePromptAtATime
    <3>5. CASE s \notin Recoverable
      <4>1. run'[s] = run[s] /\ exec'[s] = exec[s]
        BY <1>2, <3>5, RecoverRun
      <4> QED
        BY <3>1, <3>2, <4>1, SamePromptOK DEF PromptSame
    <3> QED
      BY <3>4, <3>5
  <2> QED
    BY <2>1 DEF PromptsOK
<1> QED
  BY <1>1, <1>2

LEMMA PromptsInit == Init => PromptsOK
<1> SUFFICES ASSUME Init, NEW r \in Runs PROVE PromptOK(r)
  BY DEF PromptsOK
<1>1. /\ run[r] = NoRecord /\ exec[r].phase = "idle" /\ exec[r].ok = FALSE
      /\ prompts[r] = {} /\ answering[r] = {}
  BY DEF Init, NotExecuting
<1> QED
  BY <1>1 DEF PromptOK, AnswersOK, SuccessOK, OnePromptOK, ShownOK, WaitingOK, Registered

LEMMA PromptsStep == IInv /\ RunsOK /\ PromptsOK /\ [Next]_vars => PromptsOK'
<1> SUFFICES ASSUME IInv, RunsOK, PromptsOK, [Next]_vars PROVE PromptsOK'
  OBVIOUS
<1>1. ASSUME NEW r \in Runs, Start(r) \/ Claim(r) \/ Turn(r) \/ Fail(r) \/ Settle(r)
      PROVE  PromptsOK'
  BY <1>1, StartKeepsPrompts, ClaimKeepsPrompts, TurnKeepsPrompts, SettleKeepsPrompts
<1>2. ASSUME NEW r \in Runs, NEW i \in Inputs, Answer(r, i)
      PROVE  PromptsOK'
  BY <1>2, AnswerKeepsPrompts
<1>3. CASE Crash \/ Recover
  BY <1>3, RestartKeepsPrompts
<1> QED
  BY <1>1, <1>2, <1>3, RestKeepsPrompts DEF Next

LEMMA PromptsAreOK == SafetySpec => [](IInv /\ RunsOK /\ PromptsOK)
  BY IInvInit, IInvStep, RunsInit, RunsStep, PromptsInit, PromptsStep, PTL DEF SafetySpec

\* Whatever requests overlap: a run that its late success has left in the registry
\* shows a prompt that can be answered.
THEOREM LateSuccessCanBeAnswered == SafetySpec => []LateSuccessIsAnswerable
<1>1. ASSUME PromptsOK
      PROVE  LateSuccessIsAnswerable
  BY <1>1 DEF PromptsOK, PromptOK, ShownOK, LateSuccessIsAnswerable, Answerable
<1> QED
  BY <1>1, PromptsAreOK, PTL

\* With sessions that ask for one thing at a time, whatever requests overlap: the
\* prompt that a turn waits for is the one the client can answer, unless its answer is
\* on its way.
THEOREM OpenPromptCanBeAnswered ==
  ASSUME Runtimes \subseteq {"native"}
  PROVE  SafetySpec => []OpenPromptIsAnswerable
<1>1. ASSUME IInv, PromptsOK
      PROVE  OpenPromptIsAnswerable
  <2> SUFFICES ASSUME NEW r \in Runs, NEW i \in Inputs, Registered(r), i \in prompts[r],
                      i \notin answering[r]
               PROVE  Answerable(r, i)
    BY DEF OpenPromptIsAnswerable
  <2>1. OnePromptAtATime(r)
    BY <1>1, ChatOfAssumption DEF IInv, TypeOK, OnePromptAtATime
  <2> QED
    BY <1>1, <2>1 DEF PromptsOK, PromptOK, OnePromptOK, ShownOK, WaitingOK, Answerable
<1> QED
  BY <1>1, PromptsAreOK, PTL

-----------------------------------------------------------------------------
(* What a run is kept for *)

\* A started run is in the registry for its turn or for a last answer, which needs no
\* row; only started runs are aborted, none of them before the recovery; and a prompt
\* is not shown while an answer is on its way.
KeptOK(r) ==
  /\ ~ recovered => r \notin aborted
  /\ Registered(r) =>
       /\ run[r].started => Executing(r) \/ run[r].completed
       /\ run[r].completed => rows[r] = "none"
       /\ r \in aborted => run[r].started
       /\ run[r].status = "needsInput" => answering[r] = {}
KeptAreOK == \A r \in Runs : KeptOK(r)

KeptSame(s) ==
  /\ run'[s] = run[s] /\ exec'[s] = exec[s]
  /\ rows[s] = "none" => rows'[s] = "none"
  /\ answering'[s] = answering[s] /\ (s \in aborted' <=> s \in aborted)
  /\ recovered' = recovered

LEMMA SameKeptOK ==
  ASSUME NEW s \in Runs, KeptSame(s), KeptOK(s)
  PROVE  KeptOK(s)'
  BY DEF KeptSame, KeptOK, Registered, Executing

LEMMA KeptAreSame ==
  ASSUME KeptAreOK, NEW r \in Runs, KeptOK(r)', \A s \in Runs : s # r => KeptSame(s)
  PROVE  KeptAreOK'
  BY SameKeptOK DEF KeptAreOK

LEMMA RunsKept ==
  ASSUME IInv, RunsOK, PromptsOK, KeptAreOK, NEW r \in Runs,
         Start(r) \/ Claim(r) \/ Turn(r) \/ Fail(r) \/ Settle(r)
  PROVE  KeptAreOK'
<1> USE DEF IInv
<1>a. KeptOK(r) /\ RunOK(r) /\ PromptOK(r)
  BY DEF KeptAreOK, RunsOK, PromptsOK
<1>1. CASE StartReserves(r)
  <2>1. /\ run'[r] = Reservation /\ r \notin aborted' /\ exec' = exec
    BY <1>1 DEF StartReserves, TypeOK
  <2>2. KeptOK(r)'
    BY <2>1, ReservationIsNew DEF KeptOK
  <2>3. \A s \in Runs : s # r => KeptSame(s)
    BY <1>1 DEF StartReserves, KeptSame, durableVars, TypeOK
  <2> QED
    BY <2>2, <2>3, KeptAreSame
<1>2. CASE StartChecks(r) \/ StartFails(r)
  <2>1. Remove(r) \/ UNCHANGED registryVars
    BY <1>2 DEF StartChecks, StartFails
  <2>2. UNCHANGED <<exec, rows, answering, aborted, recovered>>
    BY <1>2 DEF StartChecks, StartFails, durableVars, execVars
  <2>3. KeptOK(r)'
    BY <1>a, <2>1, <2>2, RemoveRun DEF KeptOK, registryVars, Registered, Executing
  <2>4. \A s \in Runs : s # r => KeptSame(s)
    BY <2>1, <2>2, RemoveRun DEF KeptSame, registryVars
  <2> QED
    BY <2>3, <2>4, KeptAreSame
<1>3. CASE StartAccepts(r)
  <2>1. start[r] # "idle" /\ UNCHANGED <<answering, aborted, recovered>>
    BY <1>3 DEF StartAccepts
  <2>2. \A s \in Runs : s # r => KeptSame(s)
    BY <1>3 DEF StartAccepts, KeptSame, TypeOK
  <2>3. CASE Registered(r)
    <3>1. /\ run'[r].status = run[r].status /\ run'[r].completed = run[r].completed
          /\ run'[r].started = TRUE
      BY <1>3, <2>3, RegisteredIsActive DEF StartAccepts, ActiveRun, TypeOK
    <3>2. exec'[r].phase = "claiming"
      BY <1>3, <2>3 DEF StartAccepts, TypeOK, Execution
    <3>3. KeptOK(r)'
      BY <1>a, <2>1, <2>3, <3>1, <3>2, TurnIsOpen DEF KeptOK, Executing
    <3> QED
      BY <2>2, <3>3, KeptAreSame
  <2>4. CASE ~ Registered(r)
    <3>1. run' = run
      BY <1>3, <2>4 DEF StartAccepts
    <3>2. KeptOK(r)'
      BY <1>a, <2>1, <2>4, <3>1 DEF KeptOK, Registered
    <3> QED
      BY <2>2, <3>2, KeptAreSame
  <2> QED
    BY <2>3, <2>4
<1>4. CASE Claim(r)
  <2>1. /\ exec[r].phase = "claiming" /\ exec'[r].phase # "idle"
        /\ UNCHANGED <<run, answering, aborted, recovered>>
    BY <1>4 DEF Claim, registryVars, handlerVars, TypeOK
  <2>2. Registered(r) => ~ run[r].completed
    BY <2>1, TurnIsOpen DEF Executing
  <2>3. KeptOK(r)'
    BY <1>a, <2>1, <2>2 DEF KeptOK, Registered, Executing
  <2>4. \A s \in Runs : s # r => KeptSame(s)
    BY <1>4, <2>1 DEF Claim, KeptSame, TypeOK
  <2> QED
    BY <2>3, <2>4, KeptAreSame
<1>5. CASE SendText(r)
  <2>1. /\ exec[r].phase = "preparing" /\ exec'[r].phase = "streaming"
        /\ UNCHANGED <<rows, answering, aborted, recovered>>
        /\ \A s \in Runs : s # r => run'[s] = run[s] /\ exec'[s] = exec[s]
    BY <1>5 DEF SendText, durableVars, handlerVars, TypeOK, Execution
  <2>2. CASE Registered(r)
    <3>1. /\ run'[r].status = run[r].status /\ run'[r].completed = run[r].completed
          /\ run'[r].started = run[r].started
      BY <1>5, <2>2, RegisteredIsActive DEF SendText, ActiveRun, TypeOK
    <3>2. KeptOK(r)'
      BY <1>a, <2>1, <2>2, <3>1 DEF KeptOK, Executing
    <3> QED
      BY <2>1, <3>2, KeptAreSame DEF KeptSame
  <2>3. CASE ~ Registered(r)
    <3>1. run' = run
      BY <1>5, <2>3 DEF SendText
    <3>2. KeptOK(r)'
      BY <1>a, <2>1, <2>3, <3>1 DEF KeptOK, Registered
    <3> QED
      BY <2>1, <3>2, KeptAreSame DEF KeptSame
  <2> QED
    BY <2>2, <2>3
<1>6. CASE PrepareFails(r) \/ TurnReturns(r) \/ TurnFails(r)
  <2>1. UNCHANGED <<run, rows, answering, aborted, recovered>>
    BY <1>6
       DEF PrepareFails, TurnReturns, TurnFails, durableVars, registryVars, handlerVars
  <2>2. \A s \in Runs : s # r => exec'[s] = exec[s]
    BY <1>6 DEF PrepareFails, TurnReturns, TurnFails, TypeOK
  <2>3. exec'[r].phase = "completing"
    <3>1. CASE PrepareFails(r)
      BY <3>1 DEF PrepareFails, TypeOK, Execution
    <3>2. CASE TurnReturns(r)
      BY <3>2 DEF TurnReturns, TypeOK, Execution
    <3>3. CASE TurnFails(r)
      BY <3>3 DEF TurnFails, TypeOK, Execution
    <3> QED
      BY <1>6, <3>1, <3>2, <3>3
  <2>4. KeptOK(r)'
    BY <1>a, <2>1, <2>3 DEF KeptOK, Registered, Executing
  <2> QED
    BY <2>1, <2>2, <2>4, KeptAreSame DEF KeptSame
<1>7. ASSUME NEW i \in Inputs, PromptOpens(r, i) \/ PromptCloses(r, i)
      PROVE  KeptAreOK'
  <2>1. UNCHANGED <<exec, rows, answering, aborted, recovered>>
    BY <1>7 DEF PromptOpens, PromptCloses, durableVars, handlerVars
  <2>2. answering[r] = {}
    BY <1>7, <1>a DEF PromptOpens, PromptCloses, PromptOK, AnswersOK
  <2>3. AsFar(r)
    BY <1>7, EmitIsAsFar, EventsAreEvents DEF PromptOpens, PromptCloses
  <2>4. KeptOK(r)'
    BY <1>a, <2>1, <2>2, <2>3 DEF KeptOK, AsFar, Executing
  <2> QED
    BY <2>1, <2>3, <2>4, KeptAreSame DEF KeptSame, AsFar
<1>8. CASE Settle(r)
  <2> DEFINE waits == run[r].status = "needsInput"
             kept == exec[r].ok /\ waits /\ run[r].handler
  <2>1. /\ exec[r].phase = "completing"
        /\ rows'[r] = IF exec[r].claimed /\ rows[r] = "dispatching" THEN "none" ELSE rows[r]
        /\ UNCHANGED <<answering, aborted, recovered>>
    BY <1>8 DEF Settle, handlerVars, TypeOK
  <2>5. \A s \in Runs : s # r => rows'[s] = rows[s] /\ exec'[s] = exec[s]
    BY <1>8 DEF Settle, TypeOK
  <2>2. rows'[r] = "none"
    BY <1>a, <2>1 DEF RunOK, TurnOK, Budget, TypeOK, RowState
  <2>3. CASE Registered(r) /\ kept
    <3>1. run[r] \in ActiveRun
      BY <2>3, RegisteredIsActive
    <3> DEFINE a == [run[r] EXCEPT !.completed = TRUE]
    <3>2. run' = [run EXCEPT ![r] = a]
      BY <1>8, <2>3 DEF Settle
    <3>3. a.status = run[r].status /\ a.completed = TRUE /\ a.started = run[r].started
      BY <3>1 DEF ActiveRun
    <3> HIDE DEF a
    <3>4. run'[r] = a /\ \A s \in Runs : s # r => run'[s] = run[s]
      BY <3>2 DEF TypeOK
    <3>5. KeptOK(r)'
      BY <1>a, <2>1, <2>2, <2>3, <3>3, <3>4 DEF KeptOK
    <3> QED
      BY <2>1, <2>5, <3>4, <3>5, KeptAreSame DEF KeptSame
  <2>4. CASE ~ (Registered(r) /\ kept)
    <3>1. run'[r] = NoRecord /\ \A s \in Runs : s # r => run'[s] = run[s]
      BY <1>8, <2>4, FinishRun DEF Settle
    <3>2. KeptOK(r)'
      BY <1>a, <2>1, <3>1 DEF KeptOK, Registered
    <3> QED
      BY <2>1, <2>5, <3>1, <3>2, KeptAreSame DEF KeptSame
  <2> QED
    BY <2>3, <2>4
<1> QED
  BY <1>1, <1>2, <1>3, <1>4, <1>5, <1>6, <1>7, <1>8 DEF Start, Turn, Fail

LEMMA AnswersKept ==
  ASSUME IInv, RunsOK, PromptsOK, KeptAreOK, NEW r \in Runs, NEW i \in Inputs, Answer(r, i)
  PROVE  KeptAreOK'
<1> USE DEF IInv
<1>a. KeptOK(r) /\ RunOK(r) /\ PromptOK(r)
  BY DEF KeptAreOK, RunsOK, PromptsOK
<1>1. UNCHANGED <<rows, aborted, recovered>>
  BY DEF Answer, AnswerBegins, AnswerAtOnce, AnswerSucceeds, AnswerFails, durableVars, handlerVars
<1>2. CASE AnswerBegins(r, i)
  <2>1. Registered(r) /\ run[r] \in ActiveRun /\ exec' = exec
    BY <1>2, RegisteredIsActive DEF AnswerBegins, Answerable
  <2> DEFINE a == [run[r] EXCEPT !.pending = NoInput, !.status = "running"]
  <2>2. run' = [run EXCEPT ![r] = a]
    BY <1>2 DEF AnswerBegins
  <2>3. a.status = "running" /\ a.completed = run[r].completed /\ a.started = run[r].started
    BY <2>1 DEF ActiveRun
  <2> HIDE DEF a
  <2>4. run'[r] = a /\ \A s \in Runs : s # r => run'[s] = run[s]
    BY <2>2 DEF TypeOK
  <2>5. KeptOK(r)'
    BY <1>a, <1>1, <2>1, <2>3, <2>4 DEF KeptOK, Executing
  <2>6. \A s \in Runs : s # r => answering'[s] = answering[s]
    BY <1>2 DEF AnswerBegins, TypeOK
  <2> QED
    BY <1>1, <2>1, <2>4, <2>5, <2>6, KeptAreSame DEF KeptSame
<1>3. CASE AnswerAtOnce(r, i) \/ AnswerSucceeds(r, i)
  <2>1. /\ AnswerTaken(r, i) /\ exec' = exec /\ answering'[r] \subseteq answering[r]
        /\ \A s \in Runs : s # r => answering'[s] = answering[s]
    BY <1>3 DEF AnswerAtOnce, AnswerSucceeds, TypeOK
  <2>2. /\ AsFar(r) \/ run'[r] = NoRecord
        /\ \A s \in Runs : s # r => run'[s] = run[s]
    BY <2>1, AnswerTakenRun
  <2>3. \/ run'[r] = NoRecord
        \/ Registered(r)' /\ (run'[r].status = "running" \/ run'[r] = run[r])
    BY <2>1, TakenShows
  <2>4. KeptOK(r)'
    BY <1>a, <1>1, <2>1, <2>2, <2>3 DEF KeptOK, AsFar, Executing, Registered
  <2> QED
    BY <1>1, <2>1, <2>2, <2>4, KeptAreSame DEF KeptSame
<1>4. CASE AnswerFails(r, i)
  <2>1. i \in answering[r] /\ answering'[r] = answering[r] \ {i}
    BY <1>4 DEF AnswerFails, TypeOK
  <2>2. answering'[r] = {}
    BY <1>a, <2>1 DEF PromptOK, AnswersOK, OnePromptOK
  <2>3. \A s \in Runs : s # r => /\ answering'[s] = answering[s]
                                 /\ run'[s] = run[s] /\ exec'[s] = exec[s]
    BY <1>4 DEF AnswerFails, TypeOK
  <2>4. exec'[r].phase = IF exec[r].phase = "streaming" THEN "completing" ELSE exec[r].phase
    BY <1>4 DEF AnswerFails, TypeOK, Execution
  <2>5. CASE Registered(r)
    <3>1. run'[r].started = run[r].started /\ run'[r].completed = run[r].completed
      BY <1>4, <2>5, RegisteredIsActive DEF AnswerFails, ActiveRun, TypeOK
    <3>2. KeptOK(r)'
      BY <1>a, <1>1, <2>2, <2>4, <2>5, <3>1 DEF KeptOK, Executing
    <3> QED
      BY <1>1, <2>3, <3>2, KeptAreSame DEF KeptSame
  <2>6. CASE ~ Registered(r)
    <3>1. run' = run
      BY <1>4, <2>6 DEF AnswerFails
    <3>2. KeptOK(r)'
      BY <1>a, <1>1, <2>6, <3>1 DEF KeptOK, Registered
    <3> QED
      BY <1>1, <2>3, <3>2, KeptAreSame DEF KeptSame
  <2> QED
    BY <2>5, <2>6
<1> QED
  BY <1>2, <1>3, <1>4 DEF Answer

LEMMA RestKept ==
  ASSUME IInv, RunsOK, PromptsOK, KeptAreOK,
         \/ \E r \in Runs : Stop(r)
         \/ \E c \in Chats : Clear(c) \/ DeleteChat(c) \/ ArchiveChat(c)
         \/ \E c \in Chats, r \in Runs, s \in Ended : Acknowledge(c, r, s)
         \/ UNCHANGED vars
  PROVE  KeptAreOK'
<1> USE DEF IInv
<1>1. ASSUME NEW r \in Runs, StopRegistered(r)
      PROVE  KeptAreOK'
  <2>1. /\ Registered(r) /\ UNCHANGED <<rows, answering, recovered>>
        /\ KeptOK(r) /\ RunOK(r)
    BY <1>1 DEF StopRegistered, durableVars, KeptAreOK, RunsOK
  <2>2. CASE Remove(r) /\ UNCHANGED <<aborted, prompts, exec>>
    <3>1. KeptOK(r)'
      BY <2>1, <2>2, RemoveRun DEF KeptOK, Registered
    <3> QED
      BY <2>1, <2>2, <3>1, RemoveRun, KeptAreSame DEF KeptSame
  <2>3. CASE Abort(r) /\ UNCHANGED registryVars /\ run[r].started
    <3>1. exec'[r].phase = exec[r].phase \/ exec'[r].phase = "completing"
      BY <2>3, AbortRun
    <3>2. KeptOK(r)'
      BY <2>1, <2>3, <3>1 DEF KeptOK, registryVars, Registered, Executing, RunOK, Once
    <3>3. \A s \in Runs : s # r => KeptSame(s)
      BY <2>1, <2>3, AbortSparesOthers DEF KeptSame, registryVars
    <3> QED
      BY <3>2, <3>3, KeptAreSame
  <2> QED
    BY <1>1, <2>2, <2>3 DEF StopRegistered
<1>2. ASSUME NEW r \in Runs, StopUnknown(r) \/ StopCancelsRow(r)
      PROVE  KeptAreOK'
  <2>1. \A s \in Runs : KeptSame(s)
    BY <1>2
       DEF StopUnknown, StopCancelsRow, KeptSame, durableVars, registryVars, execVars, TypeOK
  <2> QED
    BY <2>1, SameKeptOK DEF KeptAreOK
<1>3. ASSUME NEW c \in Chats, DeleteChatBegins(c)
      PROVE  KeptAreOK'
  <2>1. UNCHANGED <<rows, answering, recovered>>
    BY <1>3 DEF DeleteChatBegins, durableVars
  <2>2. CASE byChat[c] = NoRun
    <3>1. \A s \in Runs : KeptSame(s)
      BY <1>3, <2>1, <2>2 DEF DeleteChatBegins, registryVars, KeptSame
    <3> QED
      BY <3>1, SameKeptOK DEF KeptAreOK
  <2>3. CASE byChat[c] # NoRun
    <3>1. PICK r \in Runs : r = byChat[c]
      BY <2>3 DEF TypeOK
    <3>2. Registered(r) /\ RunOK(r)
      BY <2>3, <3>1 DEF RegistryAgrees, RunsOK
    <3>3. Abort(r) /\ Remove(r)
      BY <1>3, <2>3, <3>1 DEF DeleteChatBegins
    <3>4. KeptOK(r)'
      BY <2>1, <3>2, <3>3, RemoveRun DEF KeptOK, Registered, RunOK, Once
    <3>5. \A s \in Runs : s # r => KeptSame(s)
      BY <2>1, <3>3, RemoveRun, AbortSparesOthers DEF KeptSame
    <3> QED
      BY <3>4, <3>5, KeptAreSame
  <2> QED
    BY <2>2, <2>3
<1>4. ASSUME NEW c \in Chats, Clear(c) \/ DeleteChatEnds(c) \/ ArchiveChat(c)
      PROVE  KeptAreOK'
  <2>1. UNCHANGED <<run, exec, answering, aborted, recovered>>
    BY <1>4
       DEF Clear, ClearBegins, ClearChecks, ClearDeletes, DeleteChatEnds, ArchiveChat, Archive,
           Restore, DeleteArchived, registryVars, execVars, handlerVars
  <2>2. \A s \in Runs : rows[s] = "none" => rows'[s] = "none"
    BY <1>4
       DEF Clear, ClearBegins, ClearChecks, ClearDeletes, DeleteChatEnds, ArchiveChat, Archive,
           Restore, DeleteArchived, durableVars
  <2> QED
    BY <2>1, <2>2, SameKeptOK DEF KeptAreOK, KeptSame
<1>5. CASE \/ \E c \in Chats, r \in Runs, s \in Ended : Acknowledge(c, r, s)
           \/ UNCHANGED vars
  <2>1. \A s \in Runs : KeptSame(s)
    BY <1>5 DEF Acknowledge, vars, durableVars, registryVars, execVars, handlerVars, KeptSame
  <2> QED
    BY <2>1, SameKeptOK DEF KeptAreOK
<1> QED
  BY <1>1, <1>2, <1>3, <1>4, <1>5 DEF Stop, DeleteChat

LEMMA RestartKept ==
  ASSUME IInv, RunsOK, PromptsOK, KeptAreOK, Crash \/ Recover
  PROVE  KeptAreOK'
<1>1. CASE Crash
  <2>1. ASSUME NEW s \in Runs
        PROVE  KeptOK(s)'
    <3>1. run'[s] = NoRecord /\ s \notin aborted'
      BY <1>1 DEF Crash
    <3> QED
      BY <3>1 DEF KeptOK, Registered
  <2> QED
    BY <2>1 DEF KeptAreOK
<1>2. CASE Recover
  <2>1. ASSUME NEW s \in Runs
        PROVE  KeptOK(s)'
    <3>1. KeptOK(s) /\ ~ Registered(s) /\ s \notin aborted
      BY <1>2 DEF Recover, KeptAreOK, KeptOK, RunsOK, RunOK, Once
    <3>2. UNCHANGED <<rows, answering, aborted>>
      BY <1>2 DEF Recover, durableVars
    <3>3. CASE s \in Recoverable
      <4>1. /\ run'[s].status = "running" /\ ~ run'[s].completed
            /\ exec'[s].phase = "claiming"
        BY <1>2, <3>3, RecoverRun
      <4> QED
        BY <3>1, <3>2, <4>1 DEF KeptOK, Executing
    <3>4. CASE s \notin Recoverable
      BY <1>2, <3>1, <3>2, <3>4, RecoverRun DEF KeptOK, Registered
    <3> QED
      BY <3>3, <3>4
  <2> QED
    BY <2>1 DEF KeptAreOK
<1> QED
  BY <1>1, <1>2

LEMMA KeptInit == Init => KeptAreOK
  BY DEF Init, KeptAreOK, KeptOK, Registered

LEMMA KeptStep == IInv /\ RunsOK /\ PromptsOK /\ KeptAreOK /\ [Next]_vars => KeptAreOK'
<1> SUFFICES ASSUME IInv, RunsOK, PromptsOK, KeptAreOK, [Next]_vars PROVE KeptAreOK'
  OBVIOUS
<1>1. ASSUME NEW r \in Runs, Start(r) \/ Claim(r) \/ Turn(r) \/ Fail(r) \/ Settle(r)
      PROVE  KeptAreOK'
  BY <1>1, RunsKept
<1>2. ASSUME NEW r \in Runs, NEW i \in Inputs, Answer(r, i)
      PROVE  KeptAreOK'
  BY <1>2, AnswersKept
<1> QED
  BY <1>1, <1>2, RestKept, RestartKept DEF Next

-----------------------------------------------------------------------------
(* What the transitions of an entry leave of it *)

\* The entry goes on: it is about the same run, with the same processes, and it does not
\* come back to life.
Follows(a, b) ==
  /\ a \in StoredActivity /\ b \in StoredActivity
  /\ b.run = a.run /\ b.hadRootPid = a.hadRootPid /\ b.lossMatured = a.lossMatured
  /\ b.status \in Live => a.status \in Live

LEMMA ItselfFollows ==
  ASSUME NEW a \in StoredActivity PROVE Follows(a, a)
  BY DEF Follows

LEMMA TerminatedFollows ==
  ASSUME NEW a \in StoredActivity, NEW s \in Ended
  PROVE  /\ Follows(a, Terminated(a, s))
         /\ a.status \notin Ended => Terminated(a, s).status = s
<1>1. CASE a.status \in Ended
  BY <1>1, ItselfFollows DEF Terminated
<1>2. CASE a.status \notin Ended
  <2> DEFINE b == [a EXCEPT !.status = s, !.input = NoInput,
                            !.pendingSuccess = FALSE, !.timer = FALSE]
  <2>1. Terminated(a, s) = b
    BY <1>2 DEF Terminated
  <2>2. b \in StoredActivity /\ b.status = s
    BY DEF StoredActivity
  <2>3. b.run = a.run /\ b.hadRootPid = a.hadRootPid /\ b.lossMatured = a.lossMatured
    BY DEF StoredActivity
  <2> HIDE DEF b
  <2> QED
    BY <1>2, <2>1, <2>2, <2>3 DEF Follows, StoredActivity
<1> QED
  BY <1>1, <1>2

LEMMA WaitingFollows ==
  ASSUME NEW a \in StoredActivity, NEW i \in Inputs, a.status \notin Ended
  PROVE  /\ Follows(a, Waiting(a, i))
         /\ Waiting(a, i).status = "waiting_for_you" /\ Waiting(a, i).input = i
         /\ Waiting(a, i).pendingSuccess = a.pendingSuccess
<1> DEFINE b == [a EXCEPT !.input = i, !.status = "waiting_for_you"]
<1>1. Waiting(a, i) = b
  BY DEF Waiting
<1>2. b \in StoredActivity /\ b.status = "waiting_for_you" /\ b.input = i
  BY DEF StoredActivity, Live
<1>3. /\ b.run = a.run /\ b.hadRootPid = a.hadRootPid /\ b.lossMatured = a.lossMatured
      /\ b.pendingSuccess = a.pendingSuccess
  BY DEF StoredActivity
<1> HIDE DEF b
<1> QED
  BY <1>1, <1>2, <1>3 DEF Follows, StoredActivity

\* The answer to the input that the entry waits for, and to another.
LEMMA ResolvedFollows ==
  ASSUME NEW a \in StoredActivity, NEW r \in Runs, NEW i \in Inputs
  PROVE  /\ Follows(a, InputResolved(a, r, i))
         /\ a.run = r /\ a.status = "waiting_for_you" /\ a.input = i /\ ~ a.lossMatured =>
              /\ a.pendingSuccess => InputResolved(a, r, i).status = "done"
              /\ ~ a.pendingSuccess =>
                   /\ InputResolved(a, r, i).status = "running"
                   /\ InputResolved(a, r, i).pendingSuccess = FALSE
         /\ a.run # r \/ a.status # "waiting_for_you" \/ a.input # i =>
              InputResolved(a, r, i) = a
<1>1. a # NoActivity
  BY StoredIsEntry
<1>2. CASE a.run # r \/ a.status # "waiting_for_you" \/ a.input # i
  BY <1>2, ItselfFollows DEF InputResolved, IsCurrent
<1>3. CASE a.run = r /\ a.status = "waiting_for_you" /\ a.input = i
  <2>1. CASE a.pendingSuccess
    <3>1. InputResolved(a, r, i) = Terminated(a, "done")
      BY <1>1, <1>3, <2>1 DEF InputResolved, IsCurrent
    <3> QED
      BY <1>3, <2>1, <3>1, TerminatedFollows DEF Ended
  <2>2. CASE ~ a.pendingSuccess
    <3> DEFINE b == [a EXCEPT !.input = NoInput,
                              !.status = IF a.lossMatured THEN "stuck" ELSE "running"]
    <3>1. InputResolved(a, r, i) = b
      BY <1>1, <1>3, <2>2 DEF InputResolved, IsCurrent
    <3>2. b \in StoredActivity /\ (~ a.lossMatured => b.status = "running")
      BY DEF StoredActivity, Live
    <3>3. /\ b.run = a.run /\ b.hadRootPid = a.hadRootPid /\ b.lossMatured = a.lossMatured
          /\ b.pendingSuccess = a.pendingSuccess
      BY DEF StoredActivity
    <3>4. a.status \in Live /\ a.pendingSuccess = FALSE
      BY <1>3, <2>2 DEF Live, StoredActivity
    <3> HIDE DEF b
    <3> QED
      BY <1>3, <2>2, <3>1, <3>2, <3>3, <3>4 DEF Follows
  <2> QED
    BY <2>1, <2>2
<1> QED
  BY <1>2, <1>3

LEMMA AnsweredRuns ==
  ASSUME NEW a \in StoredActivity, NEW r \in Runs, NEW i \in Inputs,
         a.run = r, a.status = "waiting_for_you", a.input = i,
         a.lossMatured = FALSE, a.pendingSuccess = FALSE
  PROVE  /\ InputResolved(a, r, i).status = "running"
         /\ InputResolved(a, r, i).pendingSuccess = FALSE
  BY ResolvedFollows

LEMMA AnsweredEnds ==
  ASSUME NEW a \in StoredActivity, NEW r \in Runs, NEW i \in Inputs,
         a.run = r, a.status = "waiting_for_you", a.input = i,
         a.lossMatured = FALSE, a.pendingSuccess = TRUE
  PROVE  InputResolved(a, r, i).status = "done"
<1>1. InputResolved(a, r, i) = Terminated(a, "done")
  BY StoredIsEntry DEF InputResolved, IsCurrent
<1> QED
  BY <1>1, TerminatedFollows DEF Ended

LEMMA AppliedFollows ==
  ASSUME NEW a \in StoredActivity, NEW r \in Runs, NEW event \in StreamEvent
  PROVE  /\ Follows(a, Applied(a, r, event))
         /\ a.run # r => Applied(a, r, event) = a
         /\ a.run = r =>
              /\ \A i \in Inputs : event = Closes(i) => Applied(a, r, event) = InputResolved(a, r, i)
              /\ \A i \in Inputs : event = Opens(i) => Applied(a, r, event) = Waiting(a, i)
              /\ event = Error => Applied(a, r, event) = Terminated(a, "failed")
              /\ event = Done => Applied(a, r, event) = a
              /\ event = Result /\ a.status = "waiting_for_you" =>
                   /\ Applied(a, r, event).status = "waiting_for_you"
                   /\ Applied(a, r, event).input = a.input
                   /\ Applied(a, r, event).pendingSuccess = TRUE
              /\ event = Result /\ a.status # "waiting_for_you" =>
                   Applied(a, r, event) = Terminated(a, "done")
<1>1. a # NoActivity
  BY StoredIsEntry
<1>2. CASE a.run # r
  BY <1>2, ItselfFollows DEF Applied, IsCurrent
<1>3. CASE a.run = r
  <2>0. IsCurrent(a, r)
    BY <1>1, <1>3 DEF IsCurrent
  <2>1. ASSUME NEW i \in Inputs, event = Closes(i)
        PROVE  Applied(a, r, event) = InputResolved(a, r, i) /\ event \notin {Error, Done, Result}
               /\ \A j \in Inputs : event # Opens(j) /\ (event = Closes(j) => i = j)
    BY <2>0, <2>1 DEF Applied, Closes, Opens, Error, Done, Result
  <2>2. ASSUME NEW i \in Inputs, event = Opens(i)
        PROVE  Applied(a, r, event) = Waiting(a, i) /\ event \notin {Error, Done, Result}
               /\ \A j \in Inputs : event # Closes(j) /\ (event = Opens(j) => i = j)
    BY <2>0, <2>2 DEF Applied, Closes, Opens, Error, Done, Result
  <2>3. event = Error => Applied(a, r, event) = Terminated(a, "failed")
    BY <2>0 DEF Applied, Error
  <2>4. event = Done => Applied(a, r, event) = a
    BY <2>0 DEF Applied, Done
  <2>5. event = Result /\ a.status # "waiting_for_you" =>
          Applied(a, r, event) = Terminated(a, "done")
    BY <2>0 DEF Applied, Result
  <2> DEFINE b == [a EXCEPT !.pendingSuccess = TRUE]
  <2>6. event = Result /\ a.status = "waiting_for_you" => Applied(a, r, event) = b
    BY <2>0 DEF Applied, Result
  <2>7. b \in StoredActivity /\ b.status = a.status /\ b.input = a.input /\ b.pendingSuccess = TRUE
        /\ b.run = a.run /\ b.hadRootPid = a.hadRootPid /\ b.lossMatured = a.lossMatured
    BY DEF StoredActivity
  <2> HIDE DEF b
  <2>8. Follows(a, b)
    BY <2>7 DEF Follows
  <2>9. ASSUME NEW i \in Inputs
        PROVE  Follows(a, Waiting(a, i))
    BY WaitingFollows, ItselfFollows DEF Waiting
  <2>10. Follows(a, Applied(a, r, event))
    <3>1. Follows(a, Terminated(a, "done")) /\ Follows(a, Terminated(a, "failed"))
      BY TerminatedFollows DEF Ended
    <3>2. CASE event \in {Error, Done, Result}
      BY <2>3, <2>4, <2>5, <2>6, <2>8, <3>1, <3>2, ItselfFollows
    <3>3. ASSUME NEW i \in Inputs, event = Opens(i)
          PROVE  Follows(a, Applied(a, r, event))
      BY <2>2, <2>9, <3>3
    <3>4. ASSUME NEW i \in Inputs, event = Closes(i)
          PROVE  Follows(a, Applied(a, r, event))
      <4>1. Applied(a, r, event) = InputResolved(a, r, i)
        BY <2>1, <3>4
      <4>2. Follows(a, InputResolved(a, r, i))
        BY ResolvedFollows
      <4> QED
        BY <4>1, <4>2
    <3> QED
      BY <3>2, <3>3, <3>4 DEF StreamEvent
  <2> QED
    BY <1>3, <2>1, <2>2, <2>3, <2>4, <2>5, <2>6, <2>7, <2>10
<1> QED
  BY <1>2, <1>3

-----------------------------------------------------------------------------
(* The activity of a chat and its run *)

\* The requests that must not overlap: without them a chat shows another run than the
\* one that goes on, or none.  A deletion may overlap a start where runs are not kept
\* for a late answer.
ActivityIsExclusive ==
  /\ {"stop during start", "clear during start", "stop during recovery",
      "restore during run"} \cap Overlaps = {}
  /\ Runtimes \subseteq {"native"} \/ "delete during start" \notin Overlaps

\* The entry is one of the chat, of a run without a process of its own; before the
\* recovery there is none; and one that is live is of a registered run, unless the
\* chat is being deleted.
EntryOK(c) ==
  activity[c] # NoActivity =>
    /\ ChatOf[activity[c].run] = c
    /\ ~ activity[c].hadRootPid /\ ~ activity[c].lossMatured
    /\ recovered
    /\ activity[c].status \in Live /\ remove[c] = "idle" => Registered(activity[c].run)

\* An entry of a registered run shows what the registry knows of it.
ShowsRun(a, r) ==
  /\ run[r].started /\ r \notin aborted
  /\ a.status = IF run[r].status = "needsInput" \/ answering[r] # {}
                THEN "waiting_for_you" ELSE "running"
  /\ run[r].status = "needsInput" => a.input = run[r].pending
  /\ \A i \in answering[r] : a.input = i
  /\ a.pendingSuccess <=> run[r].completed

CurrentOK(r) ==
  Registered(r) /\ IsCurrent(activity[ChatOf[r]], r) => ShowsRun(activity[ChatOf[r]], r)

\* The entry of a run that goes on stays, and no other run of the chat has a row.
LastsOK(r) ==
  Registered(r) /\ run[r].started /\ r \notin aborted =>
    /\ ChatOf[r] \in chats \ archived => IsCurrent(activity[ChatOf[r]], r)
    /\ ChatThere(r) => \A q \in Runs : ChatOf[q] = ChatOf[r] /\ rows[q] # "none" => q = r

\* A run that is about to start has no entry yet, and is registered unless its chat is
\* deleted meanwhile.
StartingOK(r) ==
  start[r] # "idle" =>
    /\ ~ IsCurrent(activity[ChatOf[r]], r)
    /\ Registered(r) \/ remove[ChatOf[r]] = "deleting" \/ ~ ChatThere(r)
    /\ "delete during start" \notin Overlaps => Registered(r)

RunAgrees(r) == CurrentOK(r) /\ LastsOK(r) /\ StartingOK(r)
Agreement == (\A r \in Runs : RunAgrees(r)) /\ (\A c \in Chats : EntryOK(c))

All == IInv /\ RunsOK /\ PromptsOK /\ KeptAreOK /\ Agreement

\* What a step leaves of a run that it is not about: its record, and its entry.
RunFrame(s) ==
  /\ run'[s] = run[s] /\ answering'[s] = answering[s] /\ start'[s] = start[s]
  /\ s \in aborted' <=> s \in aborted
  /\ chats' \subseteq chats
  /\ Registered(s) /\ ChatOf[s] \in chats' \ archived' => ChatOf[s] \in chats \ archived
  /\ \A q \in Runs : rows[q] = "none" => ChatOf[q] # ChatOf[s] \/ rows'[q] = "none"
  /\ ChatOf[s] \in chats' /\ remove[ChatOf[s]] = "deleting" => remove'[ChatOf[s]] = "deleting"
  /\ IsCurrent(activity'[ChatOf[s]], s) => activity'[ChatOf[s]] = activity[ChatOf[s]]
  /\ /\ IsCurrent(activity[ChatOf[s]], s) /\ ChatOf[s] \in chats' \ archived'
     /\ Registered(s) /\ run[s].started /\ s \notin aborted
     => IsCurrent(activity'[ChatOf[s]], s)

LEMMA FramedRunAgrees ==
  ASSUME NEW s \in Runs, RunFrame(s), RunAgrees(s)
  PROVE  RunAgrees(s)'
<1>1. Registered(s)' <=> Registered(s)
  BY DEF RunFrame, Registered
<1>2. CurrentOK(s)'
  BY <1>1 DEF RunFrame, RunAgrees, CurrentOK, ShowsRun
<1>3. LastsOK(s)'
  BY <1>1 DEF RunFrame, RunAgrees, LastsOK, ChatThere
<1>4. StartingOK(s)'
  BY <1>1 DEF RunFrame, RunAgrees, StartingOK, ChatThere
<1> QED
  BY <1>2, <1>3, <1>4 DEF RunAgrees

\* A step about run r changes no entry but one of r.
OwnEntry(r) ==
  /\ \A c \in Chats : c # ChatOf[r] => activity'[c] = activity[c]
  /\ \/ activity'[ChatOf[r]] = activity[ChatOf[r]]
     \/ /\ IsCurrent(activity[ChatOf[r]], r)
        /\ \/ activity'[ChatOf[r]] = NoActivity
           \/ Follows(activity[ChatOf[r]], activity'[ChatOf[r]])

\* The steps of a run: no other run is touched, and what of the entry of r is live when
\* r has left the registry is left to a deletion.
LEMMA RunStepAgrees ==
  ASSUME All, NEW r \in Runs, OwnEntry(r), RunAgrees(r)',
         UNCHANGED <<chats, archived, remove, recovered>>,
         \A s \in Runs : s # r => /\ run'[s] = run[s] /\ answering'[s] = answering[s]
                                  /\ start'[s] = start[s] /\ (s \in aborted' <=> s \in aborted),
         \A s \in Runs : rows[s] = "none" => rows'[s] = "none",
         \/ Registered(r)'
         \/ ~ Registered(r)
         \/ ~ IsCurrent(activity'[ChatOf[r]], r)
         \/ activity'[ChatOf[r]].status \notin Live
  PROVE  Agreement'
<1>1. ASSUME NEW s \in Runs, s # r
      PROVE  RunAgrees(s)'
  <2>1. ChatOf[s] \in Chats /\ ChatOf[r] \in Chats
    BY ChatOfAssumption
  <2>2. IsCurrent(activity'[ChatOf[s]], s) => activity'[ChatOf[s]] = activity[ChatOf[s]]
    BY <1>1, <2>1 DEF OwnEntry, IsCurrent, Follows
  <2>3. IsCurrent(activity[ChatOf[s]], s) => activity'[ChatOf[s]] = activity[ChatOf[s]]
    BY <1>1, <2>1 DEF OwnEntry, IsCurrent
  <2>4. RunFrame(s)
    BY <1>1, <2>2, <2>3 DEF RunFrame
  <2> QED
    BY <2>4, FramedRunAgrees DEF All, Agreement
<1>2. ASSUME NEW c \in Chats
      PROVE  EntryOK(c)'
  <2>1. EntryOK(c) /\ activity[c] \in StoredActivity \cup {NoActivity}
    BY DEF All, Agreement, IInv, TypeOK
  <2>2. CASE activity'[c] = NoActivity
    BY <2>2 DEF EntryOK
  <2>3. CASE activity'[c] # NoActivity
    <3>1. /\ activity[c] # NoActivity
          /\ activity'[c].run = activity[c].run
          /\ activity'[c].hadRootPid = activity[c].hadRootPid
          /\ activity'[c].lossMatured = activity[c].lossMatured
          /\ activity'[c].status \in Live => activity[c].status \in Live
          /\ c # ChatOf[r] => activity'[c] = activity[c]
      BY <2>1, <2>3, StoredIsEntry DEF OwnEntry, Follows, IsCurrent
    <3>2. activity[c].run \in Runs
      BY <2>1, <3>1 DEF StoredActivity
    <3>3. Registered(activity[c].run) /\ activity'[c].status \in Live => Registered(activity[c].run)'
      BY <2>1, <2>3, <3>1, <3>2 DEF Registered, EntryOK, IsCurrent
    <3> QED
      BY <2>1, <3>1, <3>3 DEF EntryOK
  <2> QED
    BY <2>2, <2>3
<1> QED
  BY <1>1, <1>2 DEF Agreement

\* An entry that nothing happens to is its own.
LEMMA SameIsOwn ==
  ASSUME NEW r, activity' = activity
  PROVE  OwnEntry(r)
  BY DEF OwnEntry

LEMMA ChangedIsOwn ==
  ASSUME TypeOK, NEW r \in Runs, NEW b,
         activity' = [activity EXCEPT ![ChatOf[r]] = b],
         \/ b = activity[ChatOf[r]]
         \/ /\ IsCurrent(activity[ChatOf[r]], r)
            /\ b = NoActivity \/ Follows(activity[ChatOf[r]], b)
  PROVE  OwnEntry(r) /\ activity'[ChatOf[r]] = b
  BY ChatOfAssumption DEF OwnEntry, TypeOK

LEMMA CurrentIsStored ==
  ASSUME TypeOK, NEW r \in Runs, IsCurrent(activity[ChatOf[r]], r)
  PROVE  activity[ChatOf[r]] \in StoredActivity /\ activity[ChatOf[r]].run = r
  BY ChatOfAssumption DEF TypeOK, IsCurrent

\* What a step changes of the registered run itself when it leaves the entry alone.
RunStays(r) ==
  /\ activity' = activity
  /\ UNCHANGED <<chats, archived, remove, recovered, answering, aborted>>
  /\ \A s \in Runs : s # r => run'[s] = run[s] /\ start'[s] = start[s]
  /\ \A s \in Runs : rows[s] = "none" => rows'[s] = "none"

\* Steps that touch neither the entry nor what it shows.
LEMMA QuietStepAgrees ==
  ASSUME All, NEW r \in Runs, RunStays(r), start' = start,
         Registered(r)' <=> Registered(r),
         Registered(r) => /\ run'[r].started = run[r].started
                          /\ run'[r].completed = run[r].completed
                          /\ run'[r].status = run[r].status
                          /\ run'[r].pending = run[r].pending
  PROVE  Agreement'
<1>1. RunAgrees(r)
  BY DEF All, Agreement
<1>2. CurrentOK(r)' /\ LastsOK(r)' /\ StartingOK(r)'
  BY <1>1 DEF RunAgrees, CurrentOK, LastsOK, StartingOK, ShowsRun, RunStays, ChatThere
<1> QED
  BY <1>2, RunStepAgrees, SameIsOwn DEF RunAgrees, RunStays

LEMMA QuietStepsAgree ==
  ASSUME All, NEW r \in Runs,
         \/ Claim(r) \/ SendText(r) \/ PrepareFails(r) \/ TurnReturns(r) \/ TurnFails(r)
         \/ StopUnknown(r)
  PROVE  Agreement'
<1> USE DEF All, IInv
<1>1. /\ activity' = activity /\ start' = start
      /\ UNCHANGED <<chats, archived, remove, recovered, answering, aborted>>
      /\ \A s \in Runs : s # r => run'[s] = run[s]
  BY DEF Claim, SendText, PrepareFails, TurnReturns, TurnFails, StopUnknown, durableVars,
         registryVars, execVars, handlerVars, TypeOK
<1>2. \A s \in Runs : rows[s] = "none" => rows'[s] = "none"
  BY DEF Claim, SendText, PrepareFails, TurnReturns, TurnFails, StopUnknown, durableVars, TypeOK
<1>3. RunStays(r)
  BY <1>1, <1>2 DEF RunStays
<1>4. CASE SendText(r) /\ Registered(r)
  <2>1. run[r] \in ActiveRun
    BY <1>4, RegisteredIsActive
  <2> DEFINE a == [run[r] EXCEPT !.handler = TRUE]
  <2>2. run' = [run EXCEPT ![r] = a]
    BY <1>4 DEF SendText
  <2>3. /\ a \in ActiveRun /\ a.started = run[r].started /\ a.completed = run[r].completed
        /\ a.status = run[r].status /\ a.pending = run[r].pending
    BY <2>1 DEF ActiveRun
  <2> HIDE DEF a
  <2>4. run'[r] = a
    BY <2>2 DEF TypeOK
  <2>5. Registered(r)'
    BY <2>3, <2>4, ActiveRunIsRegistered DEF Registered
  <2> QED
    BY <1>1, <1>3, <1>4, <2>3, <2>4, <2>5, QuietStepAgrees
<1>5. CASE ~ (SendText(r) /\ Registered(r))
  <2>1. run' = run
    BY <1>5
       DEF Claim, SendText, PrepareFails, TurnReturns, TurnFails, StopUnknown, registryVars
  <2> QED
    BY <1>1, <1>3, <2>1, QuietStepAgrees DEF Registered
<1> QED
  BY <1>4, <1>5

\* The record and the entry of a registered run change alike.
LEMMA OwnStepAgrees ==
  ASSUME All, NEW r \in Runs, NEW b \in StoredActivity,
         Registered(r), Registered(r)', IsCurrent(activity[ChatOf[r]], r),
         UNCHANGED <<chats, archived, remove, recovered, start>>,
         \A s \in Runs : rows[s] = "none" => rows'[s] = "none",
         \A s \in Runs : s # r => run'[s] = run[s] /\ answering'[s] = answering[s],
         \A s \in Runs : s \in aborted' <=> s \in aborted,
         run'[r].started = run[r].started,
         activity' = [activity EXCEPT ![ChatOf[r]] = b],
         Follows(activity[ChatOf[r]], b),
         ShowsRun(b, r)'
  PROVE  Agreement'
<1> USE DEF All, IInv
<1>1. OwnEntry(r) /\ activity'[ChatOf[r]] = b
  BY ChangedIsOwn
<1>2. b # NoActivity /\ b.run = r
  BY CurrentIsStored, StoredIsEntry DEF Follows
<1>3. IsCurrent(activity'[ChatOf[r]], r)
  BY <1>1, <1>2 DEF IsCurrent
<1>4. RunAgrees(r)
  BY DEF Agreement
<1>5. start[r] = "idle"
  BY <1>4 DEF RunAgrees, StartingOK
<1>6. CurrentOK(r)'
  BY <1>1 DEF CurrentOK
<1>7. LastsOK(r)'
  BY <1>3, <1>4 DEF RunAgrees, LastsOK, ChatThere
<1>8. StartingOK(r)'
  BY <1>5 DEF StartingOK
<1> QED
  BY <1>1, <1>6, <1>7, <1>8, RunStepAgrees DEF RunAgrees

\* The record of a registered run changes in what an entry of another run, or none,
\* does not show.
LEMMA UnshownStepAgrees ==
  ASSUME All, NEW r \in Runs, Registered(r)' => Registered(r), ~ IsCurrent(activity[ChatOf[r]], r),
         UNCHANGED <<chats, archived, remove, recovered, activity>>,
         \A s \in Runs : rows[s] = "none" => rows'[s] = "none",
         \A s \in Runs : s # r => /\ run'[s] = run[s] /\ answering'[s] = answering[s]
                                  /\ start'[s] = start[s] /\ (s \in aborted' <=> s \in aborted),
         start'[r] = start[r] \/ start'[r] = "idle",
         r \in aborted => r \in aborted',
         Registered(r)' => run'[r].started = run[r].started,
         Registered(r) /\ ~ Registered(r)' => start'[r] = "idle"
  PROVE  Agreement'
<1>1. RunAgrees(r)
  BY DEF All, Agreement
<1>2. CurrentOK(r)' /\ LastsOK(r)' /\ StartingOK(r)'
  BY <1>1 DEF RunAgrees, CurrentOK, LastsOK, StartingOK, ChatThere
<1> QED
  BY <1>2, RunStepAgrees, SameIsOwn DEF RunAgrees

\* The run is not in the registry after the step: it leaves no live entry behind.
LEMMA GoneStepAgrees ==
  ASSUME All, NEW r \in Runs, OwnEntry(r), ~ Registered(r)',
         UNCHANGED <<chats, archived, remove, recovered>>,
         \A s \in Runs : rows[s] = "none" => rows'[s] = "none",
         \A s \in Runs : s # r => /\ run'[s] = run[s] /\ answering'[s] = answering[s]
                                  /\ start'[s] = start[s] /\ (s \in aborted' <=> s \in aborted),
         \/ ~ Registered(r) /\ start'[r] = start[r]
         \/ start'[r] = "idle" /\ ~ IsCurrent(activity'[ChatOf[r]], r)
         \/ start'[r] = "idle" /\ activity'[ChatOf[r]].status \notin Live
  PROVE  Agreement'
<1>1. RunAgrees(r)
  BY DEF All, Agreement
<1>2. CurrentOK(r)' /\ LastsOK(r)'
  BY DEF CurrentOK, LastsOK
<1>3. StartingOK(r)'
  <2>1. CASE start'[r] = "idle"
    BY <2>1 DEF StartingOK
  <2>2. CASE ~ Registered(r) /\ start'[r] = start[r] /\ start[r] # "idle"
    <3>1. activity'[ChatOf[r]] = activity[ChatOf[r]]
      BY <1>1, <2>2 DEF RunAgrees, StartingOK, OwnEntry
    <3> QED
      BY <1>1, <2>2, <3>1 DEF RunAgrees, StartingOK, ChatThere
  <2> QED
    BY <2>1, <2>2
<1>4. RunAgrees(r)'
  BY <1>2, <1>3 DEF RunAgrees
<1> QED
  BY <1>4, RunStepAgrees

\* An event of the agent that opens or closes a prompt.
LEMMA EventAgrees ==
  ASSUME All, NEW r \in Runs, NEW i \in Inputs, NEW event \in {Opens(i), Closes(i)},
         Emit(r, event), Executing(r), answering[r] = {},
         UNCHANGED <<rows, chats, archived, remove, recovered, answering, aborted, start>>
  PROVE  Agreement'
<1> USE DEF All, IInv
<1>a. RunAgrees(r) /\ PromptOK(r) /\ RunOK(r) /\ KeptOK(r) /\ event \in StreamEvent
  BY EventsAreEvents DEF Agreement, PromptsOK, RunsOK, KeptAreOK
<1>1. AsFar(r)
  BY <1>a, EmitIsAsFar
<1>2. CASE ~ Registered(r)
  <2>1. UNCHANGED <<run, activity>>
    BY <1>2 DEF Emit
  <2> QED
    BY <1>2, <2>1, QuietStepAgrees DEF RunStays, Registered
<1>3. CASE Registered(r)
  <2>1. /\ run[r] \in ActiveRun /\ run[r].status \in {"running", "needsInput"}
        /\ run[r].completed = FALSE
    BY <1>3, TurnIsOpen DEF ActiveRun
  <2>2. run'[r] = Materialized(run[r], event)
    BY <1>3 DEF Emit, TypeOK
  <2>3. /\ run'[r].started = run[r].started
        /\ run'[r].completed = FALSE
    BY <2>1, <2>2, MaterializedIsAsFar
  <2>4. PICK a : a = activity[ChatOf[r]]
    OBVIOUS
  <2>5. PICK b : b = Applied(a, r, event)
    OBVIOUS
  <2>6. activity' = [activity EXCEPT ![ChatOf[r]] = b]
    BY <1>3, <2>4, <2>5 DEF Emit
  <2>7. CASE ~ IsCurrent(a, r)
    <3>1. b = a
      BY <2>5, <2>7 DEF Applied
    <3>2. activity' = activity
      BY <2>4, <2>6, <3>1, ChatOfAssumption DEF TypeOK
    <3> QED
      BY <1>1, <1>3, <2>3, <2>4, <2>7, <3>2, UnshownStepAgrees DEF AsFar
  <2>8. CASE IsCurrent(a, r)
    <3>1. a \in StoredActivity /\ a.run = r
      BY <2>4, <2>8, CurrentIsStored
    <3>2. ShowsRun(a, r)
      BY <1>a, <1>3, <2>4, <2>8 DEF RunAgrees, CurrentOK
    <3>3. ~ a.lossMatured
      BY <2>4, <2>8, ChatOfAssumption DEF Agreement, EntryOK, IsCurrent
    <3>0. Follows(a, Applied(a, r, event))
      BY <1>a, <3>1, AppliedFollows
    <3>4. Follows(a, b) /\ b \in StoredActivity
      BY <2>5, <3>0 DEF Follows
    <3>5. /\ a.status = IF run[r].status = "needsInput" THEN "waiting_for_you" ELSE "running"
          /\ run[r].status = "needsInput" => a.input = run[r].pending
          /\ a.pendingSuccess = FALSE
      BY <2>1, <3>1, <3>2 DEF ShowsRun, StoredActivity
    <3>6. /\ b.status = IF run'[r].status = "needsInput" THEN "waiting_for_you" ELSE "running"
          /\ run'[r].status = "needsInput" => b.input = run'[r].pending
          /\ b.pendingSuccess = FALSE
      <4>1. CASE event = Opens(i)
        <5>0. Applied(a, r, event) = Waiting(a, i)
          BY <1>a, <3>1, <4>1, AppliedFollows
        <5>1. b = Waiting(a, i) /\ a.status \notin Ended
          BY <2>5, <3>5, <5>0 DEF Ended
        <5>2. /\ b.status = "waiting_for_you" /\ b.input = i
              /\ b.pendingSuccess = a.pendingSuccess
          BY <3>1, <5>1, WaitingFollows
        <5>3. run'[r].status = "needsInput" /\ run'[r].pending = i
          BY <2>1, <2>2, <4>1, MaterializedFields
        <5> QED
          BY <3>5, <5>2, <5>3
      <4>2. CASE event = Closes(i)
        <5>0. Applied(a, r, event) = InputResolved(a, r, i)
          BY <1>a, <3>1, <4>2, AppliedFollows
        <5>1. b = InputResolved(a, r, i)
          BY <2>5, <5>0
        <5>2. CASE run[r].status = "needsInput" /\ run[r].pending = i
          <6>1. b.status = "running" /\ b.pendingSuccess = FALSE
            <7>1. /\ a.run = r /\ a.status = "waiting_for_you" /\ a.input = i
                  /\ a.pendingSuccess = FALSE
              BY <3>1, <3>5, <5>2
            <7>3. a.lossMatured = FALSE
              BY <3>1, <3>3 DEF StoredActivity
            <7>2. /\ InputResolved(a, r, i).status = "running"
                  /\ InputResolved(a, r, i).pendingSuccess = FALSE
              BY <3>1, <7>1, <7>3, AnsweredRuns
            <7> QED
              BY <5>1, <7>2
          <6>2. run'[r].status = "running"
            BY <2>1, <2>2, <4>2, <5>2, MaterializedFields
          <6> QED
            BY <6>1, <6>2
        <5>3. CASE ~ (run[r].status = "needsInput" /\ run[r].pending = i)
          <6>0. a.run # r \/ a.status # "waiting_for_you" \/ a.input # i
            BY <3>5, <5>3
          <6>4. InputResolved(a, r, i) = a
            BY <6>0 DEF InputResolved, IsCurrent
          <6>1. b = a
            BY <5>1, <6>4
          <6>2. run[r].status # "needsInput" => run[r].pending = NoInput
            BY <1>a, <1>3, <2>1 DEF PromptOK, ShownOK
          <6>3. run'[r] = run[r]
            BY <2>1, <2>2, <4>2, <5>3, <6>2, MaterializedFields, InputsAssumption
          <6> QED
            BY <3>5, <6>1, <6>3
        <5> QED
          BY <5>2, <5>3
      <4> QED
        BY <4>1, <4>2
    <3>7. ShowsRun(b, r)'
      BY <2>3, <3>2, <3>6 DEF ShowsRun
    <3> QED
      BY <1>1, <1>3, <2>3, <2>4, <2>6, <2>8, <3>4, <3>7, OwnStepAgrees DEF AsFar
  <2> QED
    BY <2>7, <2>8
<1> QED
  BY <1>2, <1>3

LEMMA PromptStepsAgree ==
  ASSUME All, NEW r \in Runs, NEW i \in Inputs, PromptOpens(r, i) \/ PromptCloses(r, i)
  PROVE  Agreement'
<1>1. /\ UNCHANGED <<rows, chats, archived, remove, recovered, answering, aborted, start>>
      /\ Executing(r) /\ answering[r] = {}
  BY DEF PromptOpens, PromptCloses, durableVars, handlerVars, Executing, All, PromptsOK, PromptOK,
         AnswersOK
<1>2. CASE PromptOpens(r, i)
  <2>1. Emit(r, Opens(i))
    BY <1>2 DEF PromptOpens
  <2> QED
    BY <1>1, <2>1, EventAgrees
<1>3. CASE PromptCloses(r, i)
  <2>1. Emit(r, Closes(i))
    BY <1>3 DEF PromptCloses
  <2> QED
    BY <1>1, <2>1, EventAgrees
<1> QED
  BY <1>2, <1>3

LEMMA StartStepsAgree ==
  ASSUME All, NEW r \in Runs, StartReserves(r) \/ StartChecks(r) \/ StartFails(r)
  PROVE  Agreement'
<1> USE DEF All, IInv
<1>a. RunAgrees(r)
  BY DEF Agreement
<1>1. /\ UNCHANGED <<rows, chats, archived, remove, recovered, answering, activity>>
      /\ \A s \in Runs : s # r => start'[s] = start[s] /\ (s \in aborted' <=> s \in aborted)
  BY DEF StartReserves, StartChecks, StartFails, durableVars, execVars, TypeOK
<1>2. CASE StartReserves(r)
  <2>1. /\ run'[r] = Reservation /\ ~ IsCurrent(activity[ChatOf[r]], r)
        /\ \A s \in Runs : s # r => run'[s] = run[s]
    BY <1>2 DEF StartReserves, TypeOK
  <2>2. Registered(r)' /\ run'[r].started = FALSE
    BY <2>1, ReservationIsNew, ActiveRunIsRegistered DEF Registered
  <2>3. RunAgrees(r)'
    BY <1>1, <2>1, <2>2 DEF RunAgrees, CurrentOK, LastsOK, StartingOK
  <2> QED
    BY <1>1, <2>1, <2>2, <2>3, SameIsOwn, RunStepAgrees
<1>3. CASE StartChecks(r) \/ StartFails(r)
  <2>1. start[r] # "idle" /\ ~ IsCurrent(activity[ChatOf[r]], r)
    BY <1>a, <1>3 DEF StartChecks, StartFails, RunAgrees, StartingOK
  <2>2. CASE Remove(r) /\ start'[r] = "idle"
    <3>1. ~ Registered(r)'
      BY <2>2, RemoveRun DEF Registered
    <3> QED
      BY <1>1, <2>1, <2>2, <3>1, RemoveRun, SameIsOwn, GoneStepAgrees
  <2>3. CASE UNCHANGED registryVars /\ start'[r] # "idle"
    <3>1. run' = run /\ UNCHANGED aborted
      BY <1>3, <2>3 DEF registryVars, StartChecks, StartFails, execVars
    <3>2. RunAgrees(r)'
      BY <1>a, <1>1, <2>1, <2>3, <3>1
         DEF RunAgrees, CurrentOK, LastsOK, StartingOK, ChatThere, Registered
    <3> QED
      BY <1>1, <2>1, <3>1, <3>2, SameIsOwn, RunStepAgrees
  <2>4. \/ Remove(r) /\ start'[r] = "idle"
        \/ UNCHANGED registryVars /\ start'[r] # "idle"
    BY <1>3 DEF StartChecks, StartFails, TypeOK
  <2> QED
    BY <2>2, <2>3, <2>4
<1> QED
  BY <1>2, <1>3

\* A chat that takes the row of a run has no other run that goes on.
LEMMA AcceptedIsAlone ==
  ASSUME All, NEW r \in Runs, start[r] = "inserting", ~ InsertRefused(r), ActivityIsExclusive,
         NEW s \in Runs, s # r, ChatOf[s] = ChatOf[r],
         Registered(s), run[s].started, s \notin aborted
  PROVE  FALSE
<1> USE DEF All, IInv
<1>a. RunOK(s) /\ PromptOK(s) /\ KeptOK(s) /\ RunAgrees(r)
  BY DEF RunsOK, PromptsOK, KeptAreOK, Agreement
<1>1. ChatThere(s) /\ rows[s] = "none"
  BY DEF InsertRefused, RowsOf, ChatThere
<1>2. ~ Executing(s)
  BY <1>a, <1>1 DEF RunOK, RowOK, ActivityIsExclusive
<1>3. run[s].completed
  BY <1>a, <1>2 DEF KeptOK
<1>4. prompts[s] # {} /\ exec[s].phase # "streaming"
  BY <1>a, <1>2, <1>3 DEF PromptOK, ShownOK, Executing
<1>5. ~ OnePromptAtATime(s)
  BY <1>a, <1>4 DEF PromptOK, OnePromptOK
<1>6. "delete during start" \notin Overlaps
  BY <1>5, ChatOfAssumption DEF OnePromptAtATime, TypeOK, ActivityIsExclusive
<1>7. Registered(r)
  BY <1>a, <1>6 DEF RunAgrees, StartingOK
<1> QED
  BY <1>7 DEF RegistryAgrees

LEMMA AcceptAgrees ==
  ASSUME All, ActivityIsExclusive, NEW r \in Runs, StartAccepts(r)
  PROVE  Agreement'
<1> USE DEF All, IInv
<1>a. RunOK(r) /\ KeptOK(r) /\ RunAgrees(r) /\ ChatOf[r] \in Chats
  BY ChatOfAssumption DEF RunsOK, KeptAreOK, Agreement
<1>1. /\ start[r] = "inserting" /\ ~ InsertRefused(r) /\ start'[r] = "idle"
      /\ UNCHANGED <<chats, archived, remove, recovered, answering, aborted>>
      /\ \A s \in Runs : s # r => rows'[s] = rows[s] /\ start'[s] = start[s]
  BY DEF StartAccepts, TypeOK
<1>2. /\ ChatOf[r] \in chats /\ recovered /\ ~ Executing(r)
      /\ \A s \in Runs : ChatOf[s] = ChatOf[r] => rows[s] = "none"
  BY <1>1 DEF InsertRefused, RowsOf, Occupied, Executing
<1>3. PICK b : b = Started(activity[ChatOf[r]], r, FALSE)
  OBVIOUS
<1>4. /\ b # NoActivity /\ b.run = r /\ b.status = "running" /\ b.pendingSuccess = FALSE
      /\ ~ b.hadRootPid /\ ~ b.lossMatured
  <2>1. ~ IsCurrent(activity[ChatOf[r]], r)
    BY <1>a, <1>1 DEF RunAgrees, StartingOK
  <2>2. b = [ run |-> r, status |-> "running", input |-> NoInput,
              pendingSuccess |-> FALSE, hadRootPid |-> FALSE,
              lossMatured |-> FALSE, timer |-> FALSE ]
    BY <1>3, <2>1 DEF Started
  <2>3. b \in StoredActivity
    BY <2>2 DEF StoredActivity, Live
  <2> QED
    BY <2>2, <2>3, StoredIsEntry
<1>5. /\ activity'[ChatOf[r]] = b
      /\ \A c \in Chats : c # ChatOf[r] => activity'[c] = activity[c]
  BY <1>a, <1>3 DEF StartAccepts, TypeOK
<1>6. /\ \A s \in Runs : s # r => run'[s] = run[s]
      /\ Registered(r)' <=> Registered(r)
      /\ Registered(r) => /\ run'[r].started = TRUE
                          /\ run'[r].status = run[r].status
                          /\ run'[r].completed = run[r].completed
  <2>1. CASE Registered(r)
    <3>1. run[r] \in ActiveRun
      BY <2>1, RegisteredIsActive
    <3>2. PICK n : n = [run[r] EXCEPT !.started = TRUE]
      OBVIOUS
    <3>3. run' = [run EXCEPT ![r] = n]
      BY <2>1, <3>2 DEF StartAccepts
    <3>4. n \in ActiveRun /\ n.started = TRUE /\ n.status = run[r].status
          /\ n.completed = run[r].completed
      BY <3>1, <3>2 DEF ActiveRun
    <3> QED
      BY <2>1, <3>3, <3>4, ActiveRunIsRegistered DEF Registered, TypeOK
  <2>2. CASE ~ Registered(r)
    BY <2>2 DEF StartAccepts, Registered
  <2> QED
    BY <2>1, <2>2
<1>7. ASSUME NEW s \in Runs, s # r
      PROVE  RunAgrees(s)'
  <2>1. RunAgrees(s) /\ ChatOf[s] \in Chats
    BY ChatOfAssumption DEF Agreement
  <2>2. CASE ChatOf[s] # ChatOf[r]
    <3>1. RunFrame(s)
      BY <1>1, <1>5, <1>6, <1>7, <2>1, <2>2 DEF RunFrame
    <3> QED
      BY <2>1, <3>1, FramedRunAgrees
  <2>3. CASE ChatOf[s] = ChatOf[r]
    <3>1. ~ (Registered(s) /\ run[s].started /\ s \notin aborted)
      BY <1>1, <1>7, <2>3, AcceptedIsAlone
    <3>2. ~ IsCurrent(activity'[ChatOf[s]], s)
      BY <1>4, <1>5, <1>7, <2>3 DEF IsCurrent
    <3>3. Registered(s)' <=> Registered(s)
      BY <1>6, <1>7 DEF Registered
    <3>4. CurrentOK(s)' /\ LastsOK(s)'
      BY <1>1, <1>6, <1>7, <3>1, <3>2, <3>3 DEF CurrentOK, LastsOK
    <3>5. StartingOK(s)'
      BY <1>1, <1>7, <2>1, <3>2, <3>3 DEF RunAgrees, StartingOK, ChatThere
    <3> QED
      BY <3>4, <3>5 DEF RunAgrees
  <2> QED
    BY <2>2, <2>3
<1>8. RunAgrees(r)'
  <2>1. StartingOK(r)'
    BY <1>1 DEF StartingOK
  <2>2. LastsOK(r)'
    BY <1>1, <1>2, <1>4, <1>5 DEF LastsOK, IsCurrent
  <2>3. CASE Registered(r)
    <3>1. run[r].status = "running" /\ run[r].completed = FALSE /\ answering[r] = {}
      BY <1>1, <1>2, <2>3, TurnIsOpen DEF Executing, ActiveRun
    <3>2. r \notin aborted
      BY <1>a, <1>1, <2>3 DEF RunOK, TurnOK, KeptOK
    <3>3. ShowsRun(b, r)'
      BY <1>1, <1>4, <1>6, <2>3, <3>1, <3>2 DEF ShowsRun
    <3>4. CurrentOK(r)'
      BY <1>5, <3>3 DEF CurrentOK
    <3> QED
      BY <2>1, <2>2, <3>4 DEF RunAgrees
  <2>4. CASE ~ Registered(r)
    BY <1>6, <2>1, <2>2, <2>4 DEF RunAgrees, CurrentOK
  <2> QED
    BY <2>3, <2>4
<1>9. ASSUME NEW c \in Chats
      PROVE  EntryOK(c)'
  <2>1. CASE c = ChatOf[r]
    <3>1. remove[c] = "idle" => Registered(r)
      BY <1>a, <1>1, <1>2, <2>1 DEF RunAgrees, StartingOK, ChatThere
    <3> QED
      BY <1>1, <1>2, <1>4, <1>5, <1>6, <2>1, <3>1 DEF EntryOK
  <2>2. CASE c # ChatOf[r]
    <3>1. EntryOK(c) /\ activity'[c] = activity[c]
          /\ activity[c] \in StoredActivity \cup {NoActivity}
      BY <1>5, <2>2 DEF Agreement, TypeOK
    <3>2. activity[c] # NoActivity =>
            (Registered(activity[c].run) => Registered(activity[c].run)')
      BY <1>6, <3>1 DEF StoredActivity, Registered
    <3> QED
      BY <1>1, <3>1, <3>2 DEF EntryOK, Registered
  <2> QED
    BY <2>1, <2>2
<1> QED
  BY <1>7, <1>8, <1>9 DEF Agreement

\* The result or the error of a turn.
LEMMA SettleAgrees ==
  ASSUME All, NEW r \in Runs, Settle(r)
  PROVE  Agreement'
<1> USE DEF All, IInv
<1> DEFINE waits == run[r].status = "needsInput"
           kept == exec[r].ok /\ waits /\ run[r].handler
           last == IF exec[r].ok /\ ~ waits THEN Result ELSE Error
<1>a. RunAgrees(r) /\ PromptOK(r) /\ KeptOK(r)
  BY DEF Agreement, PromptsOK, KeptAreOK
<1>1. /\ UNCHANGED <<chats, archived, remove, recovered, answering, aborted, start>>
      /\ \A s \in Runs : rows[s] = "none" => rows'[s] = "none"
  BY DEF Settle, handlerVars, TypeOK
<1>2. Executing(r) /\ start[r] = "idle"
  BY DEF Settle, Executing, Occupied
<1>3. CASE Registered(r) /\ kept
  <2>1. PICK n : n = [run[r] EXCEPT !.completed = TRUE]
    OBVIOUS
  <2>2. run' = [run EXCEPT ![r] = n]
    BY <1>3, <2>1 DEF Settle
  <2>3. /\ n \in ActiveRun /\ n.started = run[r].started /\ n.completed = TRUE
        /\ n.status = run[r].status /\ n.pending = run[r].pending
    BY <1>3, <2>1, RegisteredIsActive DEF ActiveRun
  <2>4. /\ run'[r] = n /\ Registered(r)'
        /\ \A s \in Runs : s # r => run'[s] = run[s]
    BY <2>2, <2>3, ActiveRunIsRegistered DEF Registered, TypeOK
  <2>5. PICK a : a = activity[ChatOf[r]]
    OBVIOUS
  <2>6. PICK b : b = Applied(a, r, Result)
    OBVIOUS
  <2>7. activity' = [activity EXCEPT ![ChatOf[r]] = b]
    BY <1>3, <2>5, <2>6 DEF Settle
  <2>8. CASE ~ IsCurrent(a, r)
    <3>1. b = a
      BY <2>6, <2>8 DEF Applied
    <3>2. activity' = activity
      BY <2>5, <2>7, <3>1, ChatOfAssumption DEF TypeOK
    <3> QED
      BY <1>1, <1>3, <2>3, <2>4, <2>5, <2>8, <3>2, UnshownStepAgrees
  <2>9. CASE IsCurrent(a, r)
    <3>1. a \in StoredActivity /\ a.run = r
      BY <2>5, <2>9, CurrentIsStored
    <3>2. ShowsRun(a, r)
      BY <1>a, <1>3, <2>5, <2>9 DEF RunAgrees, CurrentOK
    <3>3. a.status = "waiting_for_you"
      BY <1>3, <3>2 DEF ShowsRun
    <3>4. Result \in StreamEvent
      BY EventsAreEvents
    <3>5. Follows(a, Applied(a, r, Result))
      BY <3>1, <3>4, AppliedFollows
    <3>6. /\ Applied(a, r, Result).status = "waiting_for_you"
          /\ Applied(a, r, Result).input = a.input
          /\ Applied(a, r, Result).pendingSuccess = TRUE
      BY <3>1, <3>3, <3>4, AppliedFollows
    <3>7. /\ Follows(a, b) /\ b \in StoredActivity /\ b.status = "waiting_for_you"
          /\ b.input = a.input /\ b.pendingSuccess = TRUE
      BY <2>6, <3>5, <3>6 DEF Follows
    <3>8. ShowsRun(b, r)'
      BY <1>1, <1>3, <2>3, <2>4, <3>2, <3>7 DEF ShowsRun
    <3> QED
      BY <1>1, <1>3, <2>3, <2>4, <2>5, <2>7, <2>9, <3>7, <3>8, OwnStepAgrees
  <2> QED
    BY <2>8, <2>9
<1>4. CASE ~ (Registered(r) /\ kept)
  <2>1. Finish(r, last)
    BY <1>4 DEF Settle
  <2>2. CASE ~ Registered(r)
    <3>1. UNCHANGED <<run, activity>>
      BY <2>1, <2>2 DEF Finish, registryVars
    <3> QED
      BY <1>1, <2>2, <3>1, QuietStepAgrees DEF RunStays, Registered
  <2>3. CASE Registered(r)
    <3>1. /\ ~ Registered(r)'
          /\ \A s \in Runs : s # r => run'[s] = run[s]
      BY <2>1, FinishRun DEF Registered
    <3>2. PICK a : a = activity[ChatOf[r]]
      OBVIOUS
    <3>3. PICK b : b = Applied(a, r, last)
      OBVIOUS
    <3>4. activity' = [activity EXCEPT ![ChatOf[r]] = Applied(b, r, Done)]
      BY <2>1, <2>3, <3>2, <3>3 DEF Finish
    <3>5. CASE ~ IsCurrent(a, r)
      <4>1. b = a /\ Applied(b, r, Done) = a
        BY <3>3, <3>5 DEF Applied
      <4>2. OwnEntry(r) /\ activity'[ChatOf[r]] = a
        BY <3>2, <3>4, <4>1, ChangedIsOwn
      <4> QED
        BY <1>1, <1>2, <3>1, <3>5, <4>2, GoneStepAgrees
    <3>6. CASE IsCurrent(a, r)
      <4>1. a \in StoredActivity /\ a.run = r
        BY <3>2, <3>6, CurrentIsStored
      <4>2. ShowsRun(a, r)
        BY <1>a, <2>3, <3>2, <3>6 DEF RunAgrees, CurrentOK
      <4>3. last = Result => a.status = "running"
        BY <1>a, <4>2 DEF ShowsRun, PromptOK, SuccessOK, Result, Error
      <4>4. a.status \notin Ended
        BY <4>2 DEF ShowsRun, Ended
      <4>5. b = Terminated(a, "done") \/ b = Terminated(a, "failed")
        <5>1. CASE last = Result
          <6>1. Applied(a, r, Result) = Terminated(a, "done")
            BY <3>6, <4>3, <5>1 DEF Applied, Result
          <6> QED
            BY <3>3, <5>1, <6>1
        <5>2. CASE last = Error
          <6>1. Applied(a, r, Error) = Terminated(a, "failed")
            BY <3>6 DEF Applied, Error
          <6> QED
            BY <3>3, <5>2, <6>1
        <5> QED
          BY <5>1, <5>2
      <4>6. Follows(a, b) /\ b.status \notin Live
        BY <4>1, <4>4, <4>5, TerminatedFollows DEF Ended, Live
      <4>7. Applied(b, r, Done) = b
        BY DEF Applied, Done
      <4>8. OwnEntry(r) /\ activity'[ChatOf[r]] = b
        BY <3>2, <3>4, <3>6, <4>6, <4>7, ChangedIsOwn
      <4> QED
        BY <1>1, <1>2, <3>1, <4>6, <4>8, GoneStepAgrees
    <3> QED
      BY <3>5, <3>6
  <2> QED
    BY <2>2, <2>3
<1> QED
  BY <1>3, <1>4

\* An answer is on its way: the entry goes on to wait.
LEMMA AnswerBeginsAgrees ==
  ASSUME All, NEW r \in Runs, NEW i \in Inputs, AnswerBegins(r, i)
  PROVE  Agreement'
<1> USE DEF All, IInv
<1>a. RunAgrees(r) /\ KeptOK(r) /\ Registered(r) /\ run[r].status = "needsInput" /\ run[r].pending = i
  BY DEF Agreement, KeptAreOK, AnswerBegins, Answerable
<1>1. /\ UNCHANGED <<chats, archived, remove, recovered, aborted, start, rows, activity>>
      /\ answering[r] = {} /\ answering'[r] = {i}
      /\ \A s \in Runs : s # r => answering'[s] = answering[s]
  BY <1>a DEF AnswerBegins, durableVars, handlerVars, KeptOK, TypeOK
<1>2. PICK n : n = [run[r] EXCEPT !.pending = NoInput, !.status = "running"]
  OBVIOUS
<1>3. run' = [run EXCEPT ![r] = n]
  BY <1>2 DEF AnswerBegins
<1>4. /\ n \in ActiveRun /\ n.started = run[r].started /\ n.completed = run[r].completed
      /\ n.status = "running"
  BY <1>a, <1>2, RegisteredIsActive DEF ActiveRun
<1>5. /\ run'[r] = n /\ Registered(r)'
      /\ \A s \in Runs : s # r => run'[s] = run[s]
  BY <1>3, <1>4, ActiveRunIsRegistered DEF Registered, TypeOK
<1>6. CASE ~ IsCurrent(activity[ChatOf[r]], r)
  BY <1>a, <1>1, <1>4, <1>5, <1>6, UnshownStepAgrees
<1>7. CASE IsCurrent(activity[ChatOf[r]], r)
  <2>1. PICK b : b = activity[ChatOf[r]]
    OBVIOUS
  <2>2. b \in StoredActivity /\ activity' = [activity EXCEPT ![ChatOf[r]] = b] /\ Follows(b, b)
    BY <1>1, <1>7, <2>1, CurrentIsStored, ItselfFollows, ChatOfAssumption DEF TypeOK
  <2>3. ShowsRun(b, r)
    BY <1>a, <1>7, <2>1 DEF RunAgrees, CurrentOK
  <2>4. ShowsRun(b, r)'
    BY <1>a, <1>1, <1>4, <1>5, <2>3 DEF ShowsRun
  <2> QED
    BY <1>a, <1>1, <1>4, <1>5, <1>7, <2>1, <2>2, <2>4, OwnStepAgrees
<1> QED
  BY <1>6, <1>7

\* The session rejects the answer: the entry waits for the same input as before.
LEMMA AnswerFailsAgrees ==
  ASSUME All, NEW r \in Runs, NEW i \in Inputs, AnswerFails(r, i)
  PROVE  Agreement'
<1> USE DEF All, IInv
<1>a. RunAgrees(r)
  BY DEF Agreement
<1>1. /\ UNCHANGED <<chats, archived, remove, recovered, aborted, start, rows, activity>>
      /\ i \in answering[r] /\ answering'[r] = answering[r] \ {i}
      /\ \A s \in Runs : s # r => answering'[s] = answering[s]
  BY DEF AnswerFails, durableVars, handlerVars, TypeOK
<1>2. CASE ~ Registered(r)
  <2>1. run' = run
    BY <1>2 DEF AnswerFails
  <2> QED
    BY <1>1, <1>2, <2>1, SameIsOwn, GoneStepAgrees DEF Registered
<1>3. CASE Registered(r)
  <2>1. PICK n : n = [run[r] EXCEPT !.pending = i, !.status = "needsInput"]
    OBVIOUS
  <2>2. run' = [run EXCEPT ![r] = n]
    BY <1>3, <2>1 DEF AnswerFails
  <2>3. /\ n \in ActiveRun /\ n.started = run[r].started /\ n.completed = run[r].completed
        /\ n.status = "needsInput" /\ n.pending = i
    BY <1>3, <2>1, RegisteredIsActive DEF ActiveRun
  <2>4. /\ run'[r] = n /\ Registered(r)'
        /\ \A s \in Runs : s # r => run'[s] = run[s]
    BY <2>2, <2>3, ActiveRunIsRegistered DEF Registered, TypeOK
  <2>5. CASE ~ IsCurrent(activity[ChatOf[r]], r)
    BY <1>1, <1>3, <2>3, <2>4, <2>5, UnshownStepAgrees
  <2>6. CASE IsCurrent(activity[ChatOf[r]], r)
    <3>1. PICK b : b = activity[ChatOf[r]]
      OBVIOUS
    <3>2. b \in StoredActivity /\ activity' = [activity EXCEPT ![ChatOf[r]] = b] /\ Follows(b, b)
      BY <1>1, <2>6, <3>1, CurrentIsStored, ItselfFollows, ChatOfAssumption DEF TypeOK
    <3>3. ShowsRun(b, r)
      BY <1>a, <1>3, <2>6, <3>1 DEF RunAgrees, CurrentOK
    <3>4. ShowsRun(b, r)'
      BY <1>1, <2>3, <2>4, <3>3 DEF ShowsRun
    <3> QED
      BY <1>1, <1>3, <2>3, <2>4, <2>6, <3>1, <3>2, <3>4, OwnStepAgrees
  <2> QED
    BY <2>5, <2>6
<1> QED
  BY <1>2, <1>3

\* The session takes the answer: the entry stops waiting, or ends with the run that was
\* kept for it.
LEMMA TakenAgrees ==
  ASSUME All, NEW r \in Runs, NEW i \in Inputs, AnswerTaken(r, i),
         UNCHANGED <<chats, archived, remove, recovered, aborted, start, rows>>,
         \A s \in Runs : s # r => answering'[s] = answering[s],
         answering'[r] = answering[r] \ {i},
         i \in answering[r] \/ Answerable(r, i)
  PROVE  Agreement'
<1> USE DEF All, IInv
<1>a. RunAgrees(r) /\ PromptOK(r) /\ KeptOK(r) /\ RunOK(r)
  BY DEF Agreement, PromptsOK, KeptAreOK, RunsOK
<1>1. PICK a : a = activity[ChatOf[r]]
  OBVIOUS
<1>2. PICK b : b = InputResolved(a, r, i)
  OBVIOUS
<1>3. activity' = [activity EXCEPT ![ChatOf[r]] = b]
  BY <1>1, <1>2 DEF AnswerTaken
<1>4. IsCurrent(a, r) => a \in StoredActivity /\ a.run = r /\ Follows(a, b)
  BY <1>1, <1>2, CurrentIsStored, ResolvedFollows
<1>5. ~ IsCurrent(a, r) => b = a
  BY <1>2 DEF InputResolved
<1>6. OwnEntry(r) /\ activity'[ChatOf[r]] = b
  BY <1>1, <1>3, <1>4, <1>5, ChangedIsOwn
<1>7. \A s \in Runs : s # r => run'[s] = run[s]
  BY TakenShows
<1>8. Registered(r) /\ IsCurrent(a, r) =>
        a.status = "waiting_for_you" /\ a.input = i /\ a.lossMatured = FALSE
  <2>1. Registered(r) /\ IsCurrent(a, r) => ShowsRun(a, r)
    BY <1>a, <1>1 DEF RunAgrees, CurrentOK
  <2>2. IsCurrent(a, r) => a.lossMatured = FALSE
    BY <1>1, <1>4, ChatOfAssumption DEF Agreement, EntryOK, IsCurrent, StoredActivity
  <2> QED
    BY <2>1, <2>2 DEF ShowsRun, Answerable
<1>9. CASE ~ Registered(r)
  <2>1. run' = run
    BY <1>9 DEF AnswerTaken
  <2> QED
    BY <1>6, <1>9, <2>1, GoneStepAgrees DEF Registered
<1>10. CASE Registered(r) /\ run[r].completed
  <2>1. ~ Registered(r)'
    BY <1>10, RemoveRun DEF AnswerTaken, Registered
  <2>2. IsCurrent(a, r) => b.status = "done"
    <3>1. SUFFICES ASSUME IsCurrent(a, r) PROVE b.status = "done"
      OBVIOUS
    <3>2. a.pendingSuccess = TRUE
      BY <1>a, <1>1, <1>4, <1>10, <3>1 DEF RunAgrees, CurrentOK, ShowsRun, StoredActivity
    <3> QED
      BY <1>2, <1>4, <1>8, <1>10, <3>1, <3>2, AnsweredEnds
  <2>3. start[r] = "idle"
    BY <1>a, <1>10 DEF RunOK, TurnOK
  <2> QED
    BY <1>5, <1>6, <1>7, <2>1, <2>2, <2>3, GoneStepAgrees DEF Live
<1>11. CASE Registered(r) /\ ~ run[r].completed
  <2>1. run[r] \in ActiveRun /\ run[r].completed = FALSE /\ run[r].status \in {"running", "needsInput"}
    BY <1>11, RegisteredIsActive DEF ActiveRun
  <2>2. run'[r] = Materialized(run[r], Closes(i))
    BY <1>11 DEF AnswerTaken, TypeOK
  <2>3. run'[r].started = run[r].started /\ run'[r].completed = FALSE
    BY <2>1, <2>2, MaterializedIsAsFar
  <2>4. Registered(r)'
    BY <2>1, <2>2, MaterializedIsActive, EventsAreEvents, ActiveRunIsRegistered DEF Registered
  <2>5. CASE ~ IsCurrent(a, r)
    <3>1. activity' = activity
      BY <1>1, <1>3, <1>5, <2>5, ChatOfAssumption DEF TypeOK
    <3> QED
      BY <1>1, <1>7, <1>11, <2>3, <2>4, <2>5, <3>1, UnshownStepAgrees
  <2>6. CASE IsCurrent(a, r)
    <3>1. ShowsRun(a, r) /\ a.pendingSuccess = FALSE
      BY <1>a, <1>1, <1>4, <1>11, <2>6 DEF RunAgrees, CurrentOK, ShowsRun, StoredActivity
    <3>2. b.status = "running" /\ b.pendingSuccess = FALSE
      BY <1>2, <1>4, <1>8, <1>11, <2>6, <3>1, AnsweredRuns
    <3>3. answering'[r] = {}
      BY <1>a, <1>8, <1>11, <2>6, <3>1 DEF ShowsRun, KeptOK, Answerable
    <3>4. run'[r].status = "running"
      <4>1. CASE Answerable(r, i)
        BY <2>1, <2>2, <4>1, MaterializedFields DEF Answerable
      <4>2. CASE i \in answering[r]
        <5>1. run[r].status = "running" /\ run[r].pending = NoInput
          BY <1>a, <1>11, <2>1, <4>2 DEF KeptOK, PromptOK, ShownOK
        <5>2. run'[r] = run[r]
          BY <2>1, <2>2, <5>1, MaterializedFields, InputsAssumption
        <5> QED
          BY <5>1, <5>2
      <4> QED
        BY <4>1, <4>2
    <3>5. ShowsRun(b, r)'
      BY <2>3, <3>1, <3>2, <3>3, <3>4 DEF ShowsRun
    <3>6. b \in StoredActivity
      BY <1>4, <2>6 DEF Follows
    <3> QED
      BY <1>1, <1>3, <1>4, <1>7, <1>11, <2>3, <2>4, <2>6, <3>5, <3>6, OwnStepAgrees
  <2> QED
    BY <2>5, <2>6
<1> QED
  BY <1>9, <1>10, <1>11

LEMMA AnswersAgree ==
  ASSUME All, NEW r \in Runs, NEW i \in Inputs, Answer(r, i)
  PROVE  Agreement'
<1>1. CASE AnswerSucceeds(r, i)
  <2>1. /\ AnswerTaken(r, i) /\ i \in answering[r] /\ answering'[r] = answering[r] \ {i}
        /\ \A s \in Runs : s # r => answering'[s] = answering[s]
        /\ UNCHANGED <<chats, archived, remove, recovered, aborted, start, rows>>
    BY <1>1 DEF AnswerSucceeds, durableVars, handlerVars, All, IInv, TypeOK
  <2> QED
    BY <2>1, TakenAgrees
<1>2. CASE AnswerAtOnce(r, i)
  <2>1. /\ AnswerTaken(r, i) /\ Answerable(r, i) /\ ~ OnePromptAtATime(r)
        /\ UNCHANGED <<chats, archived, remove, recovered, aborted, start, rows, answering>>
    BY <1>2 DEF AnswerAtOnce, durableVars, handlerVars
  <2>2. answering[r] = {}
    BY <2>1 DEF All, PromptsOK, PromptOK, AnswersOK
  <2> QED
    BY <2>1, <2>2, TakenAgrees
<1> QED
  BY <1>1, <1>2, AnswerBeginsAgrees, AnswerFailsAgrees DEF Answer

\* Steps that leave the runs as they are, and at most take entries away.
LEMMA FramedStepAgrees ==
  ASSUME All, \A s \in Runs : RunFrame(s), recovered' = recovered, remove' \in [Chats -> {"idle", "deleting"}],
         \A c \in Chats : \/ activity'[c] = NoActivity
                          \/ /\ activity'[c] = activity[c]
                             /\ remove'[c] = "idle" => remove[c] = "idle"
  PROVE  Agreement'
<1>1. \A s \in Runs : RunAgrees(s)'
  BY FramedRunAgrees DEF All, Agreement
<1>2. ASSUME NEW c \in Chats
      PROVE  EntryOK(c)'
  <2>1. EntryOK(c) /\ activity[c] \in StoredActivity \cup {NoActivity}
    BY DEF All, Agreement, IInv, TypeOK
  <2>2. CASE activity'[c] = NoActivity
    BY <2>2 DEF EntryOK
  <2>3. CASE activity'[c] = activity[c] /\ activity[c] # NoActivity
    <3>1. activity[c].run \in Runs
      BY <2>1, <2>3 DEF StoredActivity
    <3>2. Registered(activity[c].run)' <=> Registered(activity[c].run)
      BY <2>3, <3>1 DEF RunFrame, Registered
    <3> QED
      BY <2>1, <2>3, <3>2 DEF EntryOK
  <2> QED
    BY <2>2, <2>3
<1> QED
  BY <1>1, <1>2 DEF Agreement

LEMMA StopAgrees ==
  ASSUME All, ActivityIsExclusive, NEW r \in Runs, StopRegistered(r)
  PROVE  Agreement'
<1> USE DEF All, IInv
<1>a. RunAgrees(r) /\ RunOK(r)
  BY DEF Agreement, RunsOK
<1>1. /\ UNCHANGED <<chats, archived, remove, recovered, start, rows, answering>>
      /\ start[r] = "idle"
  BY DEF StopRegistered, MayStop, ActivityIsExclusive, durableVars
<1>2. PICK b : b = Cancelled(activity[ChatOf[r]], r)
  OBVIOUS
<1>3. activity' = [activity EXCEPT ![ChatOf[r]] = b]
  BY <1>2 DEF StopRegistered
<1>4. /\ OwnEntry(r) /\ activity'[ChatOf[r]] = b
      /\ ~ IsCurrent(b, r)
  BY <1>2, <1>3, ChangedIsOwn DEF Cancelled, IsCurrent
<1>5. CASE ~ run[r].started \/ run[r].completed
  <2>1. Remove(r) /\ UNCHANGED aborted
    BY <1>5 DEF StopRegistered
  <2>2. ~ Registered(r)' /\ \A s \in Runs : s # r => run'[s] = run[s]
    BY <2>1, RemoveRun DEF Registered
  <2> QED
    BY <1>1, <1>4, <2>1, <2>2, GoneStepAgrees
<1>6. CASE ~ (~ run[r].started \/ run[r].completed)
  <2>1. Abort(r) /\ run' = run
    BY <1>6 DEF StopRegistered, registryVars
  <2>2. r \in aborted' /\ \A s \in Runs : s # r => (s \in aborted' <=> s \in aborted)
    BY <2>1, AbortRun, AbortSparesOthers
  <2>3. RunAgrees(r)'
    BY <1>1, <1>4, <2>2 DEF RunAgrees, CurrentOK, LastsOK, StartingOK
  <2> QED
    BY <1>1, <1>4, <2>1, <2>2, <2>3, RunStepAgrees
<1> QED
  BY <1>5, <1>6

\* The row that an unknown Stop cancels is not that of the run that the chat shows.
LEMMA StopCancelsAgrees ==
  ASSUME All, ActivityIsExclusive, NEW r \in Runs, StopCancelsRow(r)
  PROVE  Agreement'
<1> USE DEF All, IInv
<1>1. /\ UNCHANGED <<run, answering, start, aborted, chats, archived, remove, recovered>>
      /\ \A s \in Runs : rows[s] = "none" => rows'[s] = "none"
  BY DEF StopCancelsRow, registryVars, execVars, TypeOK
<1>2. CASE stop[r] = "unknown" /\ rows[r] # "none"
  <2>1. activity' = [activity EXCEPT ![ChatOf[r]] = NoActivity]
    BY <1>2 DEF StopCancelsRow
  <2>2. /\ activity'[ChatOf[r]] = NoActivity
        /\ \A c \in Chats : c # ChatOf[r] => activity'[c] = activity[c]
    BY <2>1, ChatOfAssumption DEF TypeOK
  <2>3. ASSUME NEW s \in Runs
        PROVE  RunFrame(s)
    <3>1. RunAgrees(s) /\ RunOK(s) /\ ChatOf[s] \in Chats
      BY ChatOfAssumption DEF Agreement, RunsOK
    <3>2. ~ (ChatOf[s] = ChatOf[r] /\ ChatOf[s] \in chats /\ Registered(s) /\ run[s].started
               /\ s \notin aborted)
      <4> SUFFICES ASSUME ChatOf[s] = ChatOf[r], ChatOf[s] \in chats, Registered(s),
                          run[s].started, s \notin aborted
                   PROVE  FALSE
        OBVIOUS
      <4>1. s = r
        BY <1>2, <3>1 DEF RunAgrees, LastsOK, ChatThere
      <4> QED
        BY <1>2, <3>1, <4>1 DEF RunOK, StopOK, ActivityIsExclusive
    <3> QED
      BY <1>1, <2>2, <3>1, <3>2 DEF RunFrame, IsCurrent, TypeOK
  <2> QED
    BY <1>1, <2>2, <2>3, FramedStepAgrees DEF TypeOK
<1>3. CASE ~ (stop[r] = "unknown" /\ rows[r] # "none")
  <2>1. activity' = activity
    BY <1>3 DEF StopCancelsRow
  <2>2. \A s \in Runs : RunFrame(s)
    BY <1>1, <2>1 DEF RunFrame
  <2> QED
    BY <1>1, <2>1, <2>2, FramedStepAgrees DEF TypeOK
<1> QED
  BY <1>2, <1>3

\* The same for the row that a clear deletes.
LEMMA ClearAgrees ==
  ASSUME All, ActivityIsExclusive, NEW c \in Chats, Clear(c)
  PROVE  Agreement'
<1> USE DEF All, IInv
<1>1. UNCHANGED <<run, answering, start, aborted, chats, archived, remove, recovered>>
  BY DEF Clear, ClearBegins, ClearChecks, ClearDeletes, durableVars, registryVars, execVars
<1>2. CASE ClearDeletes(c) /\ AmbiguousRuns(c) # {}
  <2>1. /\ activity' = [activity EXCEPT ![c] = NoActivity]
        /\ \A s \in Runs : rows[s] = "none" => rows'[s] = "none"
        /\ clear[c] = "deleting"
    BY <1>2 DEF ClearDeletes
  <2>2. PICK q \in Runs : ChatOf[q] = c /\ rows[q] = "dispatching"
    BY <1>2 DEF AmbiguousRuns
  <2>3. ASSUME NEW s \in Runs
        PROVE  RunFrame(s)
    <3>1. RunAgrees(s) /\ RunOK(s) /\ KeptOK(s) /\ ChatOf[s] \in Chats
      BY ChatOfAssumption DEF Agreement, RunsOK, KeptAreOK
    <3>2. ~ (ChatOf[s] = c /\ ChatOf[s] \in chats /\ Registered(s) /\ run[s].started
               /\ s \notin aborted)
      <4> SUFFICES ASSUME ChatOf[s] = c, ChatOf[s] \in chats, Registered(s),
                          run[s].started, s \notin aborted
                   PROVE  FALSE
        OBVIOUS
      <4>1. s = q
        BY <2>2, <3>1 DEF RunAgrees, LastsOK, ChatThere
      <4>2. ~ Executing(s)
        BY <2>1, <3>1 DEF RunOK, ClearOK, ActivityIsExclusive, ChatThere
      <4> QED
        BY <2>2, <3>1, <4>1, <4>2 DEF KeptOK
    <3>3. /\ ChatOf[s] # c => activity'[ChatOf[s]] = activity[ChatOf[s]]
          /\ ChatOf[s] = c => activity'[ChatOf[s]] = NoActivity
      BY <2>1, <3>1 DEF TypeOK
    <3> QED
      BY <1>1, <2>1, <3>1, <3>2, <3>3 DEF RunFrame, IsCurrent, TypeOK
  <2> QED
    BY <1>1, <2>1, <2>3, FramedStepAgrees DEF TypeOK
<1>3. CASE ~ (ClearDeletes(c) /\ AmbiguousRuns(c) # {})
  <2>1. activity' = activity
    BY <1>3 DEF Clear, ClearBegins, ClearChecks, ClearDeletes
  <2>2. \A s \in Runs : rows[s] = "none" => rows'[s] = "none"
    BY DEF Clear, ClearBegins, ClearChecks, ClearDeletes, durableVars
  <2>3. \A s \in Runs : RunFrame(s)
    BY <1>1, <2>1, <2>2 DEF RunFrame
  <2> QED
    BY <1>1, <2>1, <2>3, FramedStepAgrees DEF TypeOK
<1> QED
  BY <1>2, <1>3

LEMMA DeleteBeginsAgrees ==
  ASSUME All, NEW c \in Chats, DeleteChatBegins(c)
  PROVE  Agreement'
<1> USE DEF All, IInv
<1>1. /\ UNCHANGED <<rows, chats, archived, activity, answering, start, recovered>>
      /\ remove'[c] = "deleting" /\ remove' \in [Chats -> {"idle", "deleting"}]
      /\ \A d \in Chats : d # c => remove'[d] = remove[d]
  BY DEF DeleteChatBegins, durableVars, TypeOK
<1>2. CASE byChat[c] = NoRun
  <2>1. UNCHANGED <<run, aborted>>
    BY <1>2 DEF DeleteChatBegins, registryVars
  <2>2. \A s \in Runs : RunFrame(s)
    BY <1>1, <2>1, ChatOfAssumption DEF RunFrame
  <2> QED
    BY <1>1, <2>2, FramedStepAgrees
<1>3. CASE byChat[c] # NoRun
  <2>1. PICK r \in Runs : r = byChat[c]
    BY <1>3 DEF TypeOK
  <2>2. Abort(r) /\ Remove(r) /\ ChatOf[r] = c
    BY <1>3, <2>1 DEF DeleteChatBegins, RegistryAgrees
  <2>3. /\ ~ Registered(r)'
        /\ \A s \in Runs : s # r => run'[s] = run[s] /\ (s \in aborted' <=> s \in aborted)
    BY <2>2, RemoveRun, AbortSparesOthers DEF Registered
  <2>4. ASSUME NEW s \in Runs
        PROVE  RunAgrees(s)'
    <3>1. RunAgrees(s) /\ ChatOf[s] \in Chats
      BY ChatOfAssumption DEF Agreement
    <3>2. CASE s # r
      <4>1. RunFrame(s)
        BY <1>1, <2>3, <3>1, <3>2 DEF RunFrame
      <4> QED
        BY <3>1, <4>1, FramedRunAgrees
    <3>3. CASE s = r
      <4>1. CurrentOK(s)' /\ LastsOK(s)'
        BY <2>3, <3>3 DEF CurrentOK, LastsOK
      <4>2. "delete during start" \in Overlaps \/ start[s] = "idle"
        BY <2>2, <3>3 DEF DeleteChatBegins
      <4>3. StartingOK(s)'
        BY <1>1, <2>2, <3>1, <3>3, <4>2 DEF RunAgrees, StartingOK
      <4> QED
        BY <4>1, <4>3 DEF RunAgrees
    <3> QED
      BY <3>2, <3>3
  <2>5. ASSUME NEW d \in Chats
        PROVE  EntryOK(d)'
    <3>1. EntryOK(d) /\ activity[d] \in StoredActivity \cup {NoActivity}
      BY DEF Agreement, TypeOK
    <3>2. CASE d = c
      BY <1>1, <3>1, <3>2 DEF EntryOK
    <3>3. CASE d # c /\ activity[d] # NoActivity
      <4>1. activity[d].run \in Runs /\ activity[d].run # r
        BY <2>2, <3>1, <3>3 DEF EntryOK, StoredActivity
      <4>2. Registered(activity[d].run)' <=> Registered(activity[d].run)
        BY <1>1, <2>3, <4>1 DEF Registered
      <4> QED
        BY <1>1, <3>1, <3>3, <4>2 DEF EntryOK
    <3>4. CASE activity[d] = NoActivity
      BY <1>1, <3>4 DEF EntryOK
    <3> QED
      BY <3>2, <3>3, <3>4
  <2> QED
    BY <2>4, <2>5 DEF Agreement
<1> QED
  BY <1>2, <1>3

LEMMA ChatStepsAgree ==
  ASSUME All, ActivityIsExclusive, NEW c \in Chats,
         DeleteChatEnds(c) \/ Archive(c) \/ Restore(c) \/ DeleteArchived(c)
  PROVE  Agreement'
<1> USE DEF All, IInv
<1>1. /\ UNCHANGED <<run, answering, start, aborted, recovered>>
      /\ chats' \subseteq chats
      /\ \A s \in Runs : rows[s] = "none" => rows'[s] = "none"
  BY DEF DeleteChatEnds, Archive, Restore, DeleteArchived, registryVars, execVars, handlerVars
<1>2. /\ remove' \in [Chats -> {"idle", "deleting"}]
      /\ \A d \in Chats : d # c \/ c \in chats' => remove'[d] = remove[d]
  BY DEF DeleteChatEnds, Archive, Restore, DeleteArchived, handlerVars, TypeOK
<1>3. CASE ~ Restore(c)
  <2>1. activity' = [activity EXCEPT ![c] = NoActivity]
    BY <1>3 DEF DeleteChatEnds, Archive, DeleteArchived
  <2>2. /\ activity'[c] = NoActivity
        /\ \A d \in Chats : d # c => activity'[d] = activity[d]
    BY <2>1 DEF TypeOK
  <2>3. /\ c \notin chats' \ archived'
        /\ \A d \in Chats : d # c => (d \in chats' \ archived' => d \in chats \ archived)
    BY <1>3 DEF DeleteChatEnds, Archive, DeleteArchived
  <2>4. ASSUME NEW s \in Runs
        PROVE  RunFrame(s)
    <3>1. ChatOf[s] \in Chats
      BY ChatOfAssumption
    <3> QED
      BY <1>1, <1>2, <2>2, <2>3, <3>1 DEF RunFrame, IsCurrent
  <2> QED
    BY <1>1, <1>2, <2>2, <2>4, FramedStepAgrees
<1>4. CASE Restore(c)
  <2>1. /\ byChat[c] = NoRun /\ UNCHANGED <<activity, remove, chats>>
        /\ archived' = archived \ {c}
    BY <1>4 DEF Restore, ActivityIsExclusive, handlerVars
  <2>2. ASSUME NEW s \in Runs
        PROVE  RunFrame(s)
    <3>1. Registered(s) => ChatOf[s] # c
      BY <2>1, RunsAssumption DEF RegistryAgrees
    <3> QED
      BY <1>1, <2>1, <3>1 DEF RunFrame
  <2> QED
    BY <1>1, <1>2, <2>1, <2>2, FramedStepAgrees DEF TypeOK
<1> QED
  BY <1>3, <1>4

\* What a client acknowledges has ended, so that the run is not in the registry.
LEMMA AcknowledgeAgrees ==
  ASSUME All, NEW c \in Chats, NEW q \in Runs, NEW e \in Ended, Acknowledge(c, q, e)
  PROVE  Agreement'
<1> USE DEF All, IInv
<1>1. UNCHANGED <<run, answering, start, aborted, recovered, chats, archived, rows, remove>>
  BY DEF Acknowledge, durableVars, registryVars, execVars, handlerVars
<1>2. activity[c].status \in Ended /\ activity' = [activity EXCEPT ![c] = NoActivity]
  BY DEF Acknowledge, Acknowledged
<1>3. /\ activity'[c] = NoActivity
      /\ \A d \in Chats : d # c => activity'[d] = activity[d]
  BY <1>2 DEF TypeOK
<1>4. ASSUME NEW s \in Runs
      PROVE  RunFrame(s)
  <2>1. RunAgrees(s) /\ ChatOf[s] \in Chats
    BY ChatOfAssumption DEF Agreement
  <2>2. ~ (Registered(s) /\ IsCurrent(activity[ChatOf[s]], s) /\ ChatOf[s] = c)
    BY <1>2, <2>1 DEF RunAgrees, CurrentOK, ShowsRun, Ended
  <2> QED
    BY <1>1, <1>3, <2>1, <2>2 DEF RunFrame, IsCurrent
<1> QED
  BY <1>1, <1>3, <1>4, FramedStepAgrees DEF TypeOK

LEMMA CrashAgrees ==
  ASSUME Crash
  PROVE  Agreement'
<1>1. /\ \A s \in Runs : ~ Registered(s)' /\ start'[s] = "idle"
      /\ \A c \in Chats : activity'[c] = NoActivity
  BY DEF Crash, Registered
<1> QED
  BY <1>1 DEF Agreement, RunAgrees, CurrentOK, LastsOK, StartingOK, EntryOK

\* The recovery starts the one run of each chat that has a row, and shows it.
LEMMA RecoverAgrees ==
  ASSUME All, Recover
  PROVE  Agreement'
<1> USE DEF All, IInv
<1>1. /\ ~ recovered /\ recovered'
      /\ UNCHANGED <<rows, chats, archived, answering, start, aborted, remove>>
  BY DEF Recover, durableVars
<1>2. \A s \in Runs : /\ ~ Registered(s) /\ s \notin retired /\ start[s] = "idle"
                      /\ ~ Executing(s) /\ s \notin aborted
  BY <1>1 DEF RunsOK, RunOK, Once, Occupied, KeptAreOK, KeptOK, Executing
<1>3. \A c \in Chats : activity[c] = NoActivity
  BY <1>1 DEF Agreement, EntryOK
<1>4. ASSUME NEW s \in Recoverable
      PROVE  /\ s \in Runs /\ ChatOf[s] \in Chats
             /\ activity'[ChatOf[s]].run = s /\ activity'[ChatOf[s]] # NoActivity
             /\ activity'[ChatOf[s]].status = "running"
             /\ activity'[ChatOf[s]].pendingSuccess = FALSE
             /\ ~ activity'[ChatOf[s]].hadRootPid /\ ~ activity'[ChatOf[s]].lossMatured
  <2>1. s \in Runs /\ ChatOf[s] \in Chats
    BY ChatOfAssumption DEF Recoverable
  <2>2. (CHOOSE r \in Recoverable : ChatOf[r] = ChatOf[s]) = s
    BY <2>1 DEF Recoverable, OneRowPerChat
  <2>3. activity'[ChatOf[s]] = Started(NoActivity, s, FALSE)
    BY <1>3, <2>1, <2>2 DEF Recover
  <2>4. PICK b : b = [ run |-> s, status |-> "running", input |-> NoInput,
                       pendingSuccess |-> FALSE, hadRootPid |-> FALSE,
                       lossMatured |-> FALSE, timer |-> FALSE ]
    OBVIOUS
  <2>5. activity'[ChatOf[s]] = b
    BY <2>3, <2>4 DEF Started, IsCurrent
  <2>6. b \in StoredActivity
    BY <2>1, <2>4 DEF StoredActivity, Live
  <2>7. /\ b.run = s /\ b.status = "running" /\ b.pendingSuccess = FALSE
        /\ ~ b.hadRootPid /\ ~ b.lossMatured
    BY <2>4
  <2>8. b # NoActivity
    BY <2>6, StoredIsEntry
  <2> QED
    BY <2>1, <2>5, <2>7, <2>8
<1>5. ASSUME NEW s \in Runs
      PROVE  RunAgrees(s)'
  <2>1. CASE s \notin Recoverable
    <3>1. run'[s] = run[s]
      BY <2>1, RecoverRun
    <3>2. ~ Registered(s)' /\ start'[s] = "idle"
      BY <1>1, <1>2, <3>1 DEF Registered
    <3> QED
      BY <3>2 DEF RunAgrees, CurrentOK, LastsOK, StartingOK
  <2>2. CASE s \in Recoverable
    <3>1. /\ run'[s].started = TRUE /\ run'[s].completed = FALSE /\ run'[s].status = "running"
          /\ rows[s] # "none"
      BY <2>2, RecoverRun
    <3>2. answering[s] = {}
      BY <1>2 DEF PromptsOK, PromptOK, AnswersOK, Executing
    <3>3. IsCurrent(activity'[ChatOf[s]], s) /\ ShowsRun(activity[ChatOf[s]], s)'
      BY <1>1, <1>2, <1>4, <2>2, <3>1, <3>2 DEF ShowsRun, IsCurrent
    <3>4. LastsOK(s)'
      BY <1>1, <3>1, <3>3 DEF LastsOK, OneRowPerChat
    <3>5. CurrentOK(s)' /\ StartingOK(s)'
      BY <1>1, <1>2, <3>3 DEF CurrentOK, StartingOK
    <3> QED
      BY <3>4, <3>5 DEF RunAgrees
  <2> QED
    BY <2>1, <2>2
<1>6. ASSUME NEW c \in Chats
      PROVE  EntryOK(c)'
  <2>1. CASE \E s \in Recoverable : ChatOf[s] = c
    <3>1. PICK s \in Recoverable : ChatOf[s] = c
      BY <2>1
    <3>2. Registered(s)'
      BY <1>4, <3>1, RecoverRun, ActiveRunIsRegistered DEF Registered
    <3> QED
      BY <1>1, <1>4, <3>1, <3>2 DEF EntryOK
  <2>2. CASE ~ \E s \in Recoverable : ChatOf[s] = c
    <3>1. activity'[c] = NoActivity
      BY <1>3, <2>2 DEF Recover
    <3> QED
      BY <3>1 DEF EntryOK
  <2> QED
    BY <2>1, <2>2
<1> QED
  BY <1>5, <1>6 DEF Agreement

LEMMA AgreementInit == Init => Agreement
<1> SUFFICES ASSUME Init PROVE Agreement
  OBVIOUS
<1>1. /\ \A s \in Runs : ~ Registered(s) /\ start[s] = "idle"
      /\ \A c \in Chats : activity[c] = NoActivity
  BY DEF Init, Registered
<1> QED
  BY <1>1 DEF Agreement, RunAgrees, CurrentOK, LastsOK, StartingOK, EntryOK

LEMMA AgreementStep ==
  ASSUME ActivityIsExclusive
  PROVE  All /\ [Next]_vars => Agreement'
<1> SUFFICES ASSUME All, [Next]_vars PROVE Agreement'
  OBVIOUS
<1>1. ASSUME NEW r \in Runs,
             Start(r) \/ Claim(r) \/ Turn(r) \/ Fail(r) \/ Settle(r) \/ Stop(r)
      PROVE  Agreement'
  BY <1>1, StartStepsAgree, AcceptAgrees, QuietStepsAgree, PromptStepsAgree, SettleAgrees,
     StopAgrees, StopCancelsAgrees DEF Start, Turn, Fail, Stop
<1>2. ASSUME NEW r \in Runs, NEW i \in Inputs, Answer(r, i)
      PROVE  Agreement'
  BY <1>2, AnswersAgree
<1>3. ASSUME NEW c \in Chats, Clear(c) \/ DeleteChat(c) \/ ArchiveChat(c)
      PROVE  Agreement'
  BY <1>3, ClearAgrees, DeleteBeginsAgrees, ChatStepsAgree DEF DeleteChat, ArchiveChat
<1>4. ASSUME NEW c \in Chats, NEW r \in Runs, NEW s \in Ended, Acknowledge(c, r, s)
      PROVE  Agreement'
  BY <1>4, AcknowledgeAgrees
<1>5. CASE UNCHANGED vars
  <2>1. /\ UNCHANGED <<run, answering, start, aborted, recovered, chats, archived, rows, remove,
                       activity>>
    BY <1>5 DEF vars, durableVars, registryVars, execVars, handlerVars
  <2>2. \A s \in Runs : RunFrame(s)
    BY <2>1 DEF RunFrame
  <2> QED
    BY <2>1, <2>2, FramedStepAgrees DEF All, IInv, TypeOK
<1> QED
  BY <1>1, <1>2, <1>3, <1>4, <1>5, CrashAgrees, RecoverAgrees DEF Next

LEMMA AllInit == Init => All
  BY IInvInit, RunsInit, PromptsInit, KeptInit, AgreementInit DEF All

LEMMA AllStep ==
  ASSUME ActivityIsExclusive
  PROVE  All /\ [Next]_vars => All'
  BY IInvStep, RunsStep, PromptsStep, KeptStep, AgreementStep DEF All

\* With the named requests kept apart, whatever crashes come in between: the chat shows
\* the run that goes on, as it goes on, and no run that does not.
THEOREM ActivityTellsTheTruth ==
  ASSUME ActivityIsExclusive
  PROVE  SafetySpec => []ActivityIsTrue
<1>1. SafetySpec => []All
  BY AllInit, AllStep, PTL DEF SafetySpec
<1>2. ASSUME All
      PROVE  ActivityIsTrue
  <2>1. ASSUME NEW r \in Runs, Registered(r), run[r].started, r \notin aborted,
               ChatOf[r] \in chats \ archived
        PROVE  /\ IsCurrent(activity[ChatOf[r]], r)
               /\ (activity[ChatOf[r]].status = "waiting_for_you") <=>
                    (run[r].status = "needsInput" \/ answering[r] # {})
    <3>1. RunAgrees(r)
      BY <1>2 DEF All, Agreement
    <3>2. IsCurrent(activity[ChatOf[r]], r)
      BY <2>1, <3>1 DEF RunAgrees, LastsOK
    <3>3. ShowsRun(activity[ChatOf[r]], r)
      BY <2>1, <3>1, <3>2 DEF RunAgrees, CurrentOK
    <3> QED
      BY <3>2, <3>3 DEF ShowsRun
  <2>2. ASSUME NEW c \in Chats, activity[c].status \in Live, remove[c] = "idle"
        PROVE  Registered(activity[c].run)
    <3>1. activity[c] # NoActivity
      BY <2>2 DEF NoActivity, Live
    <3> QED
      BY <1>2, <2>2, <3>1 DEF All, Agreement, EntryOK
  <2>3. ActivityFollowsRun
    BY <2>1 DEF ActivityFollowsRun
  <2>4. NoPhantomActivity
    BY <2>2 DEF NoPhantomActivity
  <2> QED
    BY <2>3, <2>4 DEF ActivityIsTrue
<1> QED
  BY <1>1, <1>2, PTL
=============================================================================
