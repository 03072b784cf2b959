------------------------- MODULE ChatActivity_proofs -------------------------
(***************************************************************************)
(* Theorems about ChatActivity, for any sets of chats, runs and prompts.   *)
(*                                                                         *)
(* The inductive invariant says of every entry that it is coherent.  The   *)
(* entries do not depend on each other, so that is a predicate on one      *)
(* entry and on whether its chat has a root process.  It strengthens the   *)
(* checked invariants by the fact that a matured loss belongs to a run     *)
(* that had a process: without it, an entry that stops waiting could       *)
(* become stuck without ever having had one.                               *)
(***************************************************************************)
EXTENDS ChatActivity, TLAPS

Entry == StoredActivity \cup {NoActivity}

\* What holds of entry a of a chat that has (p) or has not (~p) a root process.
Coherent(a, p) ==
  a # NoActivity =>
    /\ a.status = "waiting_for_you" <=> a.input # NoInput
    /\ a.pendingSuccess => a.status = "waiting_for_you"
    /\ (a.status = "stuck" \/ a.timer) => (~p /\ a.hadRootPid)
    /\ a.status = "stuck" => a.lossMatured
    /\ a.lossMatured => (~p /\ a.hadRootPid /\ a.status # "running")
    /\ a.timer => a.status \notin Ended

-----------------------------------------------------------------------------
(* The operators of ActivityRecord keep an entry well-formed and coherent. *)

\* A stored activity is an entry, and is there.
LEMMA StoredIsEntry ==
  ASSUME NEW a \in StoredActivity
  PROVE  a \in Entry /\ a # NoActivity
  BY DEF Entry, StoredActivity, NoActivity, Live, Ended

\* A run starts.
LEMMA StartedKeeps ==
  ASSUME NEW a \in Entry, NEW r \in Runs, NEW p \in BOOLEAN, Coherent(a, p)
  PROVE  Started(a, r, p) \in Entry /\ Coherent(Started(a, r, p), p)
  BY DEF Started, IsCurrent, Entry, StoredActivity, NoActivity, Coherent, Live, Ended

\* A run waits for an answer.
LEMMA WaitingKeeps ==
  ASSUME NEW a \in StoredActivity, NEW i \in Inputs, NEW p \in BOOLEAN, Coherent(a, p)
  PROVE  Waiting(a, i) \in StoredActivity /\ Coherent(Waiting(a, i), p)
<1>1. CASE a.status \in Ended
  BY <1>1 DEF Waiting
<1>2. CASE a.status \notin Ended
  <2> DEFINE b == Waiting(a, i)
  <2>1. b \in StoredActivity
    BY <1>2 DEF Waiting, StoredActivity, Live
  <2>2. /\ b.status = "waiting_for_you" /\ b.input = i
        /\ b.timer = a.timer /\ b.hadRootPid = a.hadRootPid
        /\ b.lossMatured = a.lossMatured
    BY <1>2 DEF Waiting, StoredActivity
  <2>3. Coherent(b, p)
    BY <1>2, <2>2, InputsAssumption, StoredIsEntry DEF Coherent, Ended
  <2> QED
    BY <2>1, <2>3
<1> QED
  BY <1>1, <1>2

\* A terminal status.
LEMMA TerminatedKeeps ==
  ASSUME NEW a \in StoredActivity, NEW s \in Ended, NEW p \in BOOLEAN, Coherent(a, p)
  PROVE  Terminated(a, s) \in StoredActivity /\ Coherent(Terminated(a, s), p)
<1>1. CASE a.status \in Ended
  BY <1>1 DEF Terminated
<1>2. CASE a.status \notin Ended
  <2> DEFINE b == Terminated(a, s)
  <2>1. b \in StoredActivity
    BY <1>2 DEF Terminated, StoredActivity
  <2>2. /\ b.status = s /\ b.input = NoInput /\ b.pendingSuccess = FALSE
        /\ b.timer = FALSE /\ b.hadRootPid = a.hadRootPid
        /\ b.lossMatured = a.lossMatured
    BY <1>2 DEF Terminated, StoredActivity
  <2>3. Coherent(b, p)
    BY <2>2, StoredIsEntry DEF Coherent, Ended
  <2> QED
    BY <2>1, <2>3
<1> QED
  BY <1>1, <1>2

\* The answer to a prompt, also after a success that came before it.
LEMMA InputResolvedKeeps ==
  ASSUME NEW a \in Entry, NEW r, NEW i, NEW p \in BOOLEAN, Coherent(a, p)
  PROVE  InputResolved(a, r, i) \in Entry /\ Coherent(InputResolved(a, r, i), p)
<1>1. CASE ~ IsCurrent(a, r) \/ a.status # "waiting_for_you" \/ a.input # i
  BY <1>1 DEF InputResolved
<1>2. CASE IsCurrent(a, r) /\ a.status = "waiting_for_you" /\ a.input = i
  <2>1. a \in StoredActivity
    BY <1>2 DEF IsCurrent, Entry
  <2>2. CASE a.pendingSuccess
    <3>1. InputResolved(a, r, i) = Terminated(a, "done")
      BY <1>2, <2>2 DEF InputResolved
    <3> QED
      BY <2>1, <3>1, TerminatedKeeps, StoredIsEntry DEF Ended
  <2>3. CASE ~ a.pendingSuccess
    <3> DEFINE b == InputResolved(a, r, i)
    <3>1. b = [a EXCEPT !.input = NoInput,
                        !.status = IF a.lossMatured THEN "stuck" ELSE "running"]
      BY <1>2, <2>3 DEF InputResolved
    <3>2. b \in StoredActivity
      BY <2>1, <3>1 DEF StoredActivity, Live
    <3>3. /\ b.status = (IF a.lossMatured THEN "stuck" ELSE "running")
          /\ b.input = NoInput /\ b.pendingSuccess = a.pendingSuccess
          /\ b.timer = a.timer /\ b.hadRootPid = a.hadRootPid
          /\ b.lossMatured = a.lossMatured
      BY <2>1, <3>1 DEF StoredActivity
    <3>4. Coherent(b, p)
      BY <1>2, <2>1, <2>3, <3>3, StoredIsEntry DEF Coherent, Ended
    <3> QED
      BY <3>2, <3>4, StoredIsEntry
  <2> QED
    BY <2>2, <2>3
<1> QED
  BY <1>1, <1>2

\* An event of the stream of a run.
LEMMA AppliedKeeps ==
  ASSUME NEW a \in Entry, NEW r, NEW event \in StreamEvent, NEW p \in BOOLEAN,
         Coherent(a, p)
  PROVE  Applied(a, r, event) \in Entry /\ Coherent(Applied(a, r, event), p)
<1>1. CASE ~ IsCurrent(a, r)
  BY <1>1 DEF Applied
<1>2. CASE IsCurrent(a, r)
  <2>1. a \in StoredActivity
    BY <1>2 DEF IsCurrent, Entry
  <2>2. CASE event = Result
    <3>1. CASE a.status = "waiting_for_you"
      BY <1>2, <2>1, <2>2, <3>1
         DEF Applied, Result, Entry, StoredActivity, NoActivity, Coherent, Live, Ended
    <3>2. CASE a.status # "waiting_for_you"
      <4>1. Applied(a, r, event) = Terminated(a, "done")
        BY <1>2, <2>2, <3>2 DEF Applied, Result
      <4> QED
        BY <2>1, <4>1, TerminatedKeeps, StoredIsEntry DEF Ended
    <3> QED
      BY <3>1, <3>2
  <2>3. CASE event = Error
    <3>1. Applied(a, r, event) = Terminated(a, "failed")
      BY <1>2, <2>3 DEF Applied, Error
    <3> QED
      BY <2>1, <3>1, TerminatedKeeps, StoredIsEntry DEF Ended
  <2>4. CASE event = Done
    BY <1>2, <2>4 DEF Applied, Done
  <2>5. ASSUME NEW i \in Inputs, event = Opens(i)
        PROVE  Applied(a, r, event) \in Entry /\ Coherent(Applied(a, r, event), p)
    <3>1. Applied(a, r, event) = Waiting(a, i)
      BY <1>2, <2>5 DEF Applied, Opens
    <3> QED
      BY <2>1, <3>1, WaitingKeeps, StoredIsEntry
  <2>6. ASSUME NEW i \in Inputs, event = Closes(i)
        PROVE  Applied(a, r, event) \in Entry /\ Coherent(Applied(a, r, event), p)
    <3>1. Applied(a, r, event) = InputResolved(a, r, i)
      BY <1>2, <2>6 DEF Applied, Closes
    <3> QED
      BY <3>1, InputResolvedKeeps
  <2> QED
    BY <2>2, <2>3, <2>4, <2>5, <2>6 DEF StreamEvent
<1> QED
  BY <1>1, <1>2

\* The root process is there.
LEMMA ProcessSeenKeeps ==
  ASSUME NEW a \in Entry, NEW p \in BOOLEAN, Coherent(a, p)
  PROVE  ProcessSeen(a) \in Entry /\ Coherent(ProcessSeen(a), TRUE)
  BY DEF ProcessSeen, Entry, StoredActivity, NoActivity, Coherent, Live, Ended

\* The root process is gone.
LEMMA ProcessLostKeeps ==
  ASSUME NEW a \in Entry, Coherent(a, TRUE)
  PROVE  ProcessLost(a) \in Entry /\ Coherent(ProcessLost(a), FALSE)
  BY DEF ProcessLost, Entry, StoredActivity, NoActivity, Coherent, Live, Ended

\* The grace timer fires.
LEMMA GraceOverKeeps ==
  ASSUME NEW a \in StoredActivity, NEW p \in BOOLEAN, Coherent(a, p), a.timer
  PROVE  GraceOver(a, p) \in StoredActivity /\ Coherent(GraceOver(a, p), p)
<1> DEFINE b == GraceOver(a, p)
<1>1. CASE p
  <2>1. b \in StoredActivity
    BY <1>1 DEF GraceOver, StoredActivity
  <2> QED
    BY <1>1, <2>1, StoredIsEntry DEF Coherent
<1>2. CASE ~p
  <2>1. b = [a EXCEPT !.timer = FALSE, !.lossMatured = TRUE,
                      !.status = IF @ = "running" THEN "stuck" ELSE @]
    BY <1>2 DEF GraceOver
  <2>2. b \in StoredActivity
    BY <2>1 DEF StoredActivity, Live
  <2>3. /\ b.status = (IF a.status = "running" THEN "stuck" ELSE a.status)
        /\ b.input = a.input /\ b.pendingSuccess = a.pendingSuccess
        /\ b.timer = FALSE /\ b.hadRootPid = a.hadRootPid /\ b.lossMatured = TRUE
    BY <2>1 DEF StoredActivity
  <2>4. Coherent(b, p)
    BY <1>2, <2>3, StoredIsEntry DEF Coherent, Ended
  <2> QED
    BY <2>2, <2>4
<1> QED
  BY <1>1, <1>2

-----------------------------------------------------------------------------
(* The invariant                                                           *)

IInv == TypeOK /\ \A c \in Chats : Coherent(activity[c], c \in rootPids)

-----------------------------------------------------------------------------
(* The store *)

LEMMA InitIInv == Init => IInv
  BY DEF Init, IInv, TypeOK, Coherent

\* A step that replaces the entry of one chat and touches no process.
LEMMA OneEntryKeeps ==
  ASSUME IInv, NEW c \in Chats, NEW a \in Entry, Coherent(a, c \in rootPids),
         activity' = [activity EXCEPT ![c] = a], rootPids' = rootPids,
         registered' \in [Chats -> Runs \cup {NoRun}],
         reported' \subseteq Runs, unused' \subseteq Runs
  PROVE  IInv'
<1>1. TypeOK'
  BY DEF IInv, TypeOK, Entry
<1>2. ASSUME NEW d \in Chats
      PROVE  Coherent(activity[d], d \in rootPids)'
  <2>1. CASE d = c
    BY <2>1 DEF IInv, TypeOK, Coherent
  <2>2. CASE d # c
    BY <2>2 DEF IInv, TypeOK, Coherent
  <2> QED
    BY <2>1, <2>2
<1> QED
  BY <1>1, <1>2 DEF IInv

LEMMA StepIInv == IInv /\ [Next]_vars => IInv'
<1> SUFFICES ASSUME IInv, [Next]_vars PROVE IInv'
  OBVIOUS
<1>a. \A c \in Chats : /\ activity[c] \in Entry /\ (c \in rootPids) \in BOOLEAN
                       /\ Coherent(activity[c], c \in rootPids)
  BY DEF IInv, TypeOK, Entry
<1>b. Coherent(NoActivity, TRUE) /\ Coherent(NoActivity, FALSE) /\ NoActivity \in Entry
  BY DEF Coherent, Entry
<1>1. ASSUME NEW c \in Chats, NEW r \in Runs, Start(c, r)
      PROVE  IInv'
  <2>1. /\ Started(activity[c], r, c \in rootPids) \in Entry
        /\ Coherent(Started(activity[c], r, c \in rootPids), c \in rootPids)
    BY <1>a, StartedKeeps
  <2>2. activity' = [activity EXCEPT ![c] = Started(activity[c], r, c \in rootPids)]
    BY <1>1 DEF Start
  <2>3. registered' \in [Chats -> Runs \cup {NoRun}]
    BY <1>1 DEF Start, IInv, TypeOK
  <2> QED
    BY <1>1, <2>1, <2>2, <2>3, OneEntryKeeps DEF Start, IInv, TypeOK
<1>2. ASSUME NEW c \in Chats, NEW event \in StreamEvent, Apply(c, event)
      PROVE  IInv'
  <2>1. /\ Applied(activity[c], registered[c], event) \in Entry
        /\ Coherent(Applied(activity[c], registered[c], event), c \in rootPids)
    BY <1>a, AppliedKeeps
  <2>2. activity' = [activity EXCEPT ![c] = Applied(activity[c], registered[c], event)]
    BY <1>2 DEF Apply
  <2>3. registered' \in [Chats -> Runs \cup {NoRun}]
    BY <1>2 DEF Apply, IInv, TypeOK
  <2>4. reported' \subseteq Runs
    BY <1>2 DEF Apply, IInv, TypeOK
  <2> QED
    BY <1>2, <2>1, <2>2, <2>3, <2>4, OneEntryKeeps DEF Apply, IInv, TypeOK
<1>3. ASSUME NEW c \in Chats, NEW r \in Runs, NEW i \in Inputs, ResolveInput(c, r, i)
      PROVE  IInv'
  <2>1. /\ InputResolved(activity[c], r, i) \in Entry
        /\ Coherent(InputResolved(activity[c], r, i), c \in rootPids)
    BY <1>a, InputResolvedKeeps
  <2>2. activity' = [activity EXCEPT ![c] = InputResolved(activity[c], r, i)]
    BY <1>3 DEF ResolveInput
  <2> QED
    BY <1>3, <2>1, <2>2, OneEntryKeeps DEF ResolveInput, IInv, TypeOK
<1>4. ASSUME NEW c \in Chats, NEW r \in Runs, Cancel(c, r)
      PROVE  IInv'
  <2>1. /\ Cancelled(activity[c], r) \in Entry
        /\ Coherent(Cancelled(activity[c], r), c \in rootPids)
    BY <1>a, <1>b DEF Cancelled
  <2>2. activity' = [activity EXCEPT ![c] = Cancelled(activity[c], r)]
    BY <1>4 DEF Cancel
  <2> QED
    BY <1>4, <2>1, <2>2, OneEntryKeeps DEF Cancel, IInv, TypeOK
<1>5. ASSUME NEW c \in Chats, ClearChat(c)
      PROVE  IInv'
  <2>1. Coherent(NoActivity, c \in rootPids)
    BY DEF Coherent
  <2> QED
    BY <1>b, <1>5, <2>1, OneEntryKeeps DEF ClearChat, IInv, TypeOK
<1>6. ASSUME NEW c \in Chats, NEW r \in Runs, NEW s \in Ended, Acknowledge(c, r, s)
      PROVE  IInv'
  <2>1. /\ Acknowledged(activity[c], r, s) \in Entry
        /\ Coherent(Acknowledged(activity[c], r, s), c \in rootPids)
    BY <1>a, <1>b DEF Acknowledged
  <2>2. activity' = [activity EXCEPT ![c] = Acknowledged(activity[c], r, s)]
    BY <1>6 DEF Acknowledge
  <2> QED
    BY <1>6, <2>1, <2>2, OneEntryKeeps DEF Acknowledge, IInv, TypeOK
<1>7. ASSUME NEW next \in SUBSET Chats, ReplaceProcessEntries(next)
      PROVE  IInv'
  <2>1. ASSUME NEW c \in Chats
        PROVE  activity'[c] \in Entry /\ Coherent(activity'[c], c \in rootPids')
    <3>1. CASE c \in next
      <4>1. activity'[c] = ProcessSeen(activity[c])
        BY <1>7, <3>1 DEF ReplaceProcessEntries
      <4>2. (c \in rootPids') = TRUE
        BY <1>7, <3>1 DEF ReplaceProcessEntries
      <4> QED
        BY <1>a, <4>1, <4>2, ProcessSeenKeeps
    <3>2. CASE c \notin next /\ c \in rootPids
      <4>1. activity'[c] = ProcessLost(activity[c])
        BY <1>7, <3>2 DEF ReplaceProcessEntries
      <4>2. (c \in rootPids') = FALSE /\ (c \in rootPids) = TRUE
        BY <1>7, <3>2 DEF ReplaceProcessEntries
      <4> QED
        BY <1>a, <4>1, <4>2, ProcessLostKeeps
    <3>3. CASE c \notin next /\ c \notin rootPids
      <4>1. activity'[c] = activity[c]
        BY <1>7, <3>3 DEF ReplaceProcessEntries
      <4>2. (c \in rootPids') = (c \in rootPids)
        BY <1>7, <3>3 DEF ReplaceProcessEntries
      <4> QED
        BY <1>a, <4>1, <4>2
    <3> QED
      BY <3>1, <3>2, <3>3
  <2>2. activity' \in [Chats -> Entry]
    <3>1. DOMAIN activity' = Chats /\ activity' = [c \in Chats |-> activity'[c]]
      BY <1>7 DEF ReplaceProcessEntries
    <3> QED
      BY <2>1, <3>1
  <2>3. TypeOK'
    BY <1>7, <2>2 DEF ReplaceProcessEntries, IInv, TypeOK, Entry
  <2> QED
    BY <2>1, <2>3 DEF IInv, Coherent
<1>8. ASSUME NEW c \in Chats, GraceTimerFires(c)
      PROVE  IInv'
  <2>1. activity[c] \in StoredActivity /\ activity[c].timer
    BY <1>a, <1>8 DEF GraceTimerFires, Entry
  <2>2. /\ GraceOver(activity[c], c \in rootPids) \in Entry
        /\ Coherent(GraceOver(activity[c], c \in rootPids), c \in rootPids)
    BY <1>a, <2>1, GraceOverKeeps, StoredIsEntry
  <2>3. activity' = [activity EXCEPT ![c] = GraceOver(activity[c], c \in rootPids)]
    BY <1>8 DEF GraceTimerFires
  <2> QED
    BY <1>8, <2>2, <2>3, OneEntryKeeps DEF GraceTimerFires, IInv, TypeOK
<1>9. CASE UNCHANGED vars
  BY <1>9 DEF vars, IInv, TypeOK, Coherent
<1> QED
  BY <1>1, <1>2, <1>3, <1>4, <1>5, <1>6, <1>7, <1>8, <1>9 DEF Next

LEMMA SpecIInv == Spec => []IInv
  BY InitIInv, StepIInv, PTL DEF Spec

\* The store keeps well-formed entries, whatever the registry and the handlers
\* call in whatever order.
THEOREM TypeCorrect == Spec => []TypeOK
<1>1. IInv => TypeOK
  BY DEF IInv
<1> QED
  BY <1>1, SpecIInv, PTL

\* An entry waits exactly for one named input, and only a waiting entry holds a
\* success back.
THEOREM WaitingIsNamed == Spec => []WaitingNamesItsInput
<1>1. IInv => WaitingNamesItsInput
  BY DEF IInv, Coherent, WaitingNamesItsInput
<1> QED
  BY <1>1, SpecIInv, PTL

\* Stuck, an armed timer and a matured loss all mean that the run had a process
\* and its chat has none.
THEOREM StuckIsLost == Spec => []StuckMeansProcessLost
<1>1. IInv => StuckMeansProcessLost
  BY DEF IInv, Coherent, StuckMeansProcessLost
<1> QED
  BY <1>1, SpecIInv, PTL

-----------------------------------------------------------------------------
(* What a step never does *)

\* The entry of each chat after a step.
LEMMA EntryStep ==
  ASSUME IInv, [Next]_vars, NEW c \in Chats
  PROVE  LET a == activity[c]
             b == activity'[c]
         IN \/ b = a
            \/ b = NoActivity
            \/ \E r \in Runs, p \in BOOLEAN : b = Started(a, r, p) /\ rootPids' = rootPids
            \/ \E event \in StreamEvent : \E r : b = Applied(a, r, event) /\ rootPids' = rootPids
            \/ \E r, i : b = InputResolved(a, r, i) /\ rootPids' = rootPids
            \/ b = ProcessSeen(a)
            \/ b = ProcessLost(a)
            \/ \E p \in BOOLEAN : a # NoActivity /\ b = GraceOver(a, p)
<1>a. activity \in [Chats -> Entry]
  BY DEF IInv, TypeOK, Entry
<1>1. ASSUME NEW d \in Chats, NEW r \in Runs, Start(d, r)
      PROVE  \/ activity'[c] = activity[c]
             \/ \E s \in Runs, p \in BOOLEAN :
                  activity'[c] = Started(activity[c], s, p) /\ rootPids' = rootPids
  <2>1. (d \in rootPids) \in BOOLEAN
    OBVIOUS
  <2> QED
    BY <1>a, <1>1, <2>1 DEF Start
<1>2. ASSUME NEW d \in Chats, NEW event \in StreamEvent, Apply(d, event)
      PROVE  \/ activity'[c] = activity[c]
             \/ \E e \in StreamEvent : \E r :
                  activity'[c] = Applied(activity[c], r, e) /\ rootPids' = rootPids
  <2>1. /\ activity' = [activity EXCEPT ![d] = Applied(activity[d], registered[d], event)]
        /\ rootPids' = rootPids
    BY <1>2 DEF Apply
  <2>2. CASE d = c
    <3>1. activity'[c] = Applied(activity[c], registered[d], event)
      BY <1>a, <2>1, <2>2
    <3> QED
      BY <2>1, <3>1
  <2>3. CASE d # c
    BY <1>a, <2>1, <2>3
  <2> QED
    BY <2>2, <2>3
<1>3. ASSUME NEW d \in Chats, NEW r \in Runs, NEW i \in Inputs, ResolveInput(d, r, i)
      PROVE  \/ activity'[c] = activity[c]
             \/ \E s, j : activity'[c] = InputResolved(activity[c], s, j)
                            /\ rootPids' = rootPids
  BY <1>a, <1>3 DEF ResolveInput
<1>4. ASSUME NEW d \in Chats, NEW r \in Runs, Cancel(d, r)
      PROVE  activity'[c] = activity[c] \/ activity'[c] = NoActivity
  BY <1>a, <1>4 DEF Cancel, Cancelled
<1>5. ASSUME NEW d \in Chats, ClearChat(d)
      PROVE  activity'[c] = activity[c] \/ activity'[c] = NoActivity
  BY <1>a, <1>5 DEF ClearChat
<1>6. ASSUME NEW d \in Chats, NEW r \in Runs, NEW s \in Ended, Acknowledge(d, r, s)
      PROVE  activity'[c] = activity[c] \/ activity'[c] = NoActivity
  BY <1>a, <1>6 DEF Acknowledge, Acknowledged
<1>7. ASSUME NEW next \in SUBSET Chats, ReplaceProcessEntries(next)
      PROVE  \/ activity'[c] = activity[c]
             \/ activity'[c] = ProcessSeen(activity[c])
             \/ activity'[c] = ProcessLost(activity[c])
  BY <1>7 DEF ReplaceProcessEntries
<1>8. ASSUME NEW d \in Chats, GraceTimerFires(d)
      PROVE  \/ activity'[c] = activity[c]
             \/ \E p \in BOOLEAN : activity[c] # NoActivity
                                     /\ activity'[c] = GraceOver(activity[c], p)
  <2>1. (d \in rootPids) \in BOOLEAN
    OBVIOUS
  <2> QED
    BY <1>a, <1>8, <2>1 DEF GraceTimerFires
<1>9. CASE UNCHANGED vars
  BY <1>9 DEF vars
<1> QED
  BY <1>1, <1>2, <1>3, <1>4, <1>5, <1>6, <1>7, <1>8, <1>9 DEF Next

LEMMA AppliedToEnded ==
  ASSUME NEW a \in Entry, a.status \in Ended, NEW r, NEW event \in StreamEvent
  PROVE  Applied(a, r, event) = a
  BY DEF Applied, Terminated, Waiting, InputResolved, Ended

LEMMA AppliedKeepsTimer ==
  ASSUME NEW a \in StoredActivity, NEW r, NEW event \in StreamEvent,
         StopsWaiting(a, Applied(a, r, event))
  PROVE  Applied(a, r, event).timer = a.timer
  BY DEF StopsWaiting, Applied, Terminated, Waiting, InputResolved, StoredActivity, Ended

\* Once done or failed is shown for a run, only its removal or another run changes
\* that: no late event, answer, process entry or timer does.
THEOREM TerminalStays == Spec => TerminalIsFinal
<1>1. ASSUME IInv, [Next]_vars
      PROVE  \A c \in Chats : KeepsTerminal(activity[c], activity'[c])
  <2> SUFFICES ASSUME NEW c \in Chats, activity[c].status \in Ended
               PROVE  \/ activity'[c] = NoActivity
                      \/ activity'[c].run # activity[c].run
                      \/ activity'[c].status = activity[c].status
    BY DEF KeepsTerminal
  <2> DEFINE a == activity[c]
  <2>1. a \in StoredActivity
    BY <1>1 DEF IInv, TypeOK, NoActivity, Ended
  <2>2. ASSUME NEW r \in Runs, NEW p \in BOOLEAN
        PROVE  Started(a, r, p) = a \/ Started(a, r, p).run # a.run
    BY <2>1, StoredIsEntry DEF Started, IsCurrent
  <2>3. ASSUME NEW r, NEW event \in StreamEvent
        PROVE  Applied(a, r, event) = a
    BY <2>1, AppliedToEnded, StoredIsEntry
  <2>4. ASSUME NEW r, NEW i
        PROVE  InputResolved(a, r, i) = a
    BY DEF InputResolved, Ended
  <2>5. ProcessSeen(a).status = a.status /\ ProcessLost(a).status = a.status
    BY <2>1 DEF ProcessSeen, ProcessLost, StoredActivity, Ended
  <2>6. ASSUME NEW p \in BOOLEAN
        PROVE  GraceOver(a, p).status = a.status
    BY <2>1 DEF GraceOver, StoredActivity, Ended
  <2> HIDE DEF a
  <2> QED
    BY <1>1, <2>2, <2>3, <2>4, <2>5, <2>6, EntryStep DEF a
<1> QED
  BY <1>1, SpecIInv, PTL DEF Spec, TerminalIsFinal

\* No change of the process entries and no grace timer makes an entry stop waiting.
THEOREM InputSurvivesProcessLoss == Spec => ProcessLossKeepsInput
<1>1. ASSUME IInv, [Next]_vars
      PROVE  \A c \in Chats : StopsWaiting(activity[c], activity'[c]) =>
               rootPids' = rootPids /\ activity'[c].timer = activity[c].timer
  <2> SUFFICES ASSUME NEW c \in Chats, StopsWaiting(activity[c], activity'[c])
               PROVE  rootPids' = rootPids /\ activity'[c].timer = activity[c].timer
    OBVIOUS
  <2> DEFINE a == activity[c]
             b == activity'[c]
  <2>1. a \in StoredActivity
    BY <1>1 DEF IInv, TypeOK, NoActivity, StopsWaiting
  <2>2. b # a /\ b # NoActivity
    BY DEF StopsWaiting, NoActivity
  <2>3. ASSUME NEW r \in Runs, NEW p \in BOOLEAN, b = Started(a, r, p)
        PROVE  FALSE
    BY <2>1, <2>2, <2>3, StoredIsEntry DEF Started, IsCurrent, StopsWaiting
  <2>4. ASSUME NEW r, NEW event \in StreamEvent, b = Applied(a, r, event)
        PROVE  b.timer = a.timer
    BY <2>1, <2>4, AppliedKeepsTimer
  <2>5. ASSUME NEW r, NEW i, b = InputResolved(a, r, i)
        PROVE  b.timer = a.timer
    BY <2>1, <2>5 DEF InputResolved, Terminated, StopsWaiting, StoredActivity, Ended
  <2>6. b # ProcessSeen(a) /\ b # ProcessLost(a)
    BY <2>1 DEF ProcessSeen, ProcessLost, StopsWaiting, StoredActivity
  <2>7. ASSUME NEW p \in BOOLEAN
        PROVE  b # GraceOver(a, p)
    BY <2>1 DEF GraceOver, StopsWaiting, StoredActivity
  <2> HIDE DEF a, b
  <2> QED
    BY <1>1, <2>2, <2>3, <2>4, <2>5, <2>6, <2>7, EntryStep DEF a, b
<1> QED
  BY <1>1, SpecIInv, PTL DEF Spec, ProcessLossKeepsInput
=============================================================================
