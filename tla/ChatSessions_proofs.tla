------------------------- MODULE ChatSessions_proofs -------------------------
(***************************************************************************)
(* Theorems about ChatSessions, for any sets of chats, agents, sessions    *)
(* and requests, and any size of the pool.  Those that hold whatever       *)
(* overlaps say nothing of Overlaps; the others assume that the requests   *)
(* they name wait for each other.                                          *)
(*                                                                         *)
(* That every session has one owner is inductive together with two facts:  *)
(* the sessions of the pool are for different agents, so that an entry     *)
(* that goes by its key is the one that is meant, and a session whose      *)
(* inspection goes on is owned by the pool or by nobody, so that a failed  *)
(* inspection closes no session of a chat.                                 *)
(*                                                                         *)
(* On top of that stand: Known, what requests carry and that a creation    *)
(* has somebody who waits for it; Apart, that a deletion meets no session  *)
(* and no request that opens one; AgentsOK, that whatever belongs to a     *)
(* chat is of the agent of its row; and KeysAlone, that the pool has no    *)
(* session of an agent for which one is being made, and none of the agent  *)
(* whose session a claim has taken and will refuse.                        *)
(***************************************************************************)
EXTENDS ChatSessions, SequenceTheorems, TLAPS

PoolKeysDiffer ==
  \A i, j \in DOMAIN prewarms :
    agentOf[prewarms[i]] = agentOf[prewarms[j]] => i = j

InspectedIsFree == inspecting \cap (Mapped \cup Claimed) = {}

\* A request that is about to use a chat, or to make a session for an agent, names it.
RequestsNamed ==
  \A q \in Requests :
    /\ request[q].at \in {"reading", "checking"} => request[q].chat \in Chats
    /\ request[q].at = "warming" => request[q].agent \in Agents

IInv == TypeOK /\ OneOwner /\ PoolKeysDiffer /\ InspectedIsFree /\ RequestsNamed

-----------------------------------------------------------------------------
(* The pool *)

LEMMA RemovedProperties ==
  ASSUME NEW pool \in Seq(Sessions), NEW i \in DOMAIN pool
  PROVE  /\ Removed(pool, i) \in Seq(Sessions)
         /\ Len(Removed(pool, i)) = Len(pool) - 1
         /\ \A j \in DOMAIN Removed(pool, i) :
              /\ j \in Nat
              /\ j < i => j \in DOMAIN pool /\ Removed(pool, i)[j] = pool[j]
              /\ j >= i => j + 1 \in DOMAIN pool /\ Removed(pool, i)[j] = pool[j + 1]
<1>1. /\ Len(pool) \in Nat /\ DOMAIN pool = 1 .. Len(pool)
      /\ \A j \in 1 .. Len(pool) : pool[j] \in Sessions
  BY LenProperties, ElementOfSeq
<1>2. Len(pool) - 1 \in Nat /\ i \in 1 .. Len(pool)
  BY <1>1
<1>3. \A j \in 1 .. Len(pool) - 1 : Removed(pool, i)[j] \in Sessions
  BY <1>1, <1>2 DEF Removed
<1>4. Removed(pool, i) \in [1 .. Len(pool) - 1 -> Sessions]
  BY <1>1, <1>2 DEF Removed
<1>5. Removed(pool, i) \in Seq(Sessions) /\ Len(Removed(pool, i)) = Len(pool) - 1
  BY <1>2, <1>4, IsASeq, LenProperties
<1>6. DOMAIN Removed(pool, i) = 1 .. Len(pool) - 1
  BY DEF Removed
<1> QED
  BY <1>1, <1>2, <1>5, <1>6 DEF Removed

\* Dropping a key keeps the other entries, each at one place, and drops the key.
LEMMA WithoutKeyProperties ==
  ASSUME TypeOK, PoolKeysDiffer, NEW a
  PROVE  /\ WithoutKey(a) \in Seq(Sessions)
         /\ Len(WithoutKey(a)) <= Len(prewarms)
         /\ \A j \in DOMAIN WithoutKey(a) :
              \E k \in DOMAIN prewarms :
                /\ WithoutKey(a)[j] = prewarms[k]
                /\ agentOf[prewarms[k]] # a
         /\ \A j, k \in DOMAIN WithoutKey(a) :
              agentOf[WithoutKey(a)[j]] = agentOf[WithoutKey(a)[k]] => j = k
<1> DEFINE places == { i \in DOMAIN prewarms : agentOf[prewarms[i]] = a }
           place == CHOOSE i \in places : TRUE
<1>1. /\ prewarms \in Seq(Sessions) /\ Len(prewarms) \in Nat
      /\ DOMAIN prewarms = 1 .. Len(prewarms)
  BY LenProperties DEF TypeOK
<1>2. CASE places = {}
  <2>1. WithoutKey(a) = prewarms
    BY <1>2 DEF WithoutKey
  <2> QED
    BY <1>1, <1>2, <2>1 DEF PoolKeysDiffer
<1>3. CASE places # {}
  <2> DEFINE pool == Removed(prewarms, place)
  <2>1. WithoutKey(a) = pool
    BY <1>3 DEF WithoutKey
  <2>2. place \in DOMAIN prewarms /\ agentOf[prewarms[place]] = a
    BY <1>3
  <2> HIDE DEF place
  <2>3. /\ pool \in Seq(Sessions)
        /\ Len(pool) = Len(prewarms) - 1
        /\ \A j \in DOMAIN pool :
             /\ j \in Nat
             /\ j < place => j \in DOMAIN prewarms /\ pool[j] = prewarms[j]
             /\ j >= place => j + 1 \in DOMAIN prewarms /\ pool[j] = prewarms[j + 1]
    BY <1>1, <2>2, RemovedProperties
  <2> HIDE DEF pool
  <2>a. place \in Nat
    BY <1>1, <2>2
  <2>4. ASSUME NEW j \in DOMAIN pool
        PROVE  \E k \in DOMAIN prewarms : /\ pool[j] = prewarms[k]
                                          /\ k = IF j < place THEN j ELSE j + 1
    BY <2>3, <2>a
  <2>5. \A j \in DOMAIN pool : \E k \in DOMAIN prewarms :
          pool[j] = prewarms[k] /\ agentOf[prewarms[k]] # a
    BY <2>2, <2>3, <2>4, <2>a DEF PoolKeysDiffer
  <2>6. \A j, k \in DOMAIN pool : agentOf[pool[j]] = agentOf[pool[k]] => j = k
    <3> SUFFICES ASSUME NEW j \in DOMAIN pool, NEW k \in DOMAIN pool,
                        agentOf[pool[j]] = agentOf[pool[k]]
                 PROVE  j = k
      OBVIOUS
    <3>1. PICK m \in DOMAIN prewarms : pool[j] = prewarms[m]
                                       /\ m = IF j < place THEN j ELSE j + 1
      BY <2>4
    <3>2. PICK n \in DOMAIN prewarms : pool[k] = prewarms[n]
                                       /\ n = IF k < place THEN k ELSE k + 1
      BY <2>4
    <3>3. m = n
      BY <3>1, <3>2 DEF PoolKeysDiffer
    <3> QED
      BY <2>3, <2>a, <3>1, <3>2, <3>3
  <2> QED
    BY <1>1, <2>1, <2>3, <2>5, <2>6
<1> QED
  BY <1>2, <1>3

\* The pool after an entry is stored and the oldest are trimmed.
LEMMA TrimmedProperties ==
  ASSUME TypeOK, NEW pool \in Seq(Sessions), Len(pool) \in Nat \ {0}
  PROVE  /\ Excess(pool) \in Nat /\ Excess(pool) < Len(pool)
         /\ SubSeq(pool, Excess(pool) + 1, Len(pool)) \in Seq(Sessions)
         /\ Len(SubSeq(pool, Excess(pool) + 1, Len(pool))) <= MaxPrewarmSessions
         /\ \A j \in DOMAIN SubSeq(pool, Excess(pool) + 1, Len(pool)) :
              /\ j \in Nat \ {0}
              /\ j + Excess(pool) \in DOMAIN pool
              /\ SubSeq(pool, Excess(pool) + 1, Len(pool))[j] = pool[j + Excess(pool)]
<1>1. /\ Excess(pool) \in Nat /\ Excess(pool) < Len(pool)
      /\ Len(pool) - Excess(pool) <= MaxPrewarmSessions
  BY PrewarmAssumption DEF Excess
<1> DEFINE m == Excess(pool) + 1
           rest == SubSeq(pool, m, Len(pool))
<1>2. /\ m \in Int /\ Len(pool) \in Int /\ m <= Len(pool)
      /\ DOMAIN pool = 1 .. Len(pool)
      /\ \A i \in m .. Len(pool) : pool[i] \in Sessions
  BY <1>1, LenProperties, ElementOfSeq
<1>3. /\ rest \in Seq(Sessions)
      /\ Len(rest) = Len(pool) - m + 1
      /\ \A i \in 1 .. Len(pool) - m + 1 : rest[i] = pool[m + i - 1]
  <2> HIDE DEF m
  <2> QED
    BY <1>2, SubSeqProperties
<1>4. DOMAIN rest = 1 .. Len(pool) - m + 1
  BY <1>3, LenProperties
<1>5. ASSUME NEW j \in DOMAIN rest
      PROVE  /\ j \in Nat \ {0} /\ j + Excess(pool) \in DOMAIN pool
             /\ rest[j] = pool[j + Excess(pool)]
  <2>1. j \in 1 .. Len(pool) - m + 1 /\ m + j - 1 = j + Excess(pool)
    BY <1>1, <1>4
  <2> QED
    BY <1>1, <1>2, <1>3, <2>1
<1> HIDE DEF rest
<1>6. Len(rest) <= MaxPrewarmSessions
  BY <1>1, <1>3, PrewarmAssumption
<1> QED
  BY <1>1, <1>3, <1>5, <1>6 DEF rest

-----------------------------------------------------------------------------
(* Types *)

LEMMA ClosedType ==
  ASSUME TypeOK, NEW S, Closed(S)
  PROVE  /\ agentOf' \in [Sessions -> Agents \cup {NoAgent}]
         /\ processes' \subseteq Sessions /\ talking' \subseteq Sessions
  BY DEF TypeOK, Closed

LEMMA ConstructedType ==
  ASSUME TypeOK, NEW s \in Sessions, NEW a \in Agents \cup {NoAgent}, NEW S,
         ConstructedAndClosed(s, a, S)
  PROVE  /\ agentOf' \in [Sessions -> Agents \cup {NoAgent}]
         /\ processes' \subseteq Sessions /\ talking' \subseteq Sessions
  BY DEF TypeOK, ConstructedAndClosed

LEMMA EndsType ==
  ASSUME TypeOK, NEW q \in Requests, Ends(q)
  PROVE  request' \in [Requests -> Request]
  BY DEF TypeOK, Ends, Request, Idle

LEMMA GoesType ==
  ASSUME TypeOK, NEW q \in Requests,
         NEW phase \in {"saving", "inserting", "requiring", "recording"},
         \/ Goes(q, phase)
         \/ request' = [request EXCEPT ![q].at = phase, ![q].session = NoSession]
  PROVE  request' \in [Requests -> Request]
<1>1. request \in [Requests -> Request]
  BY DEF TypeOK
<1>a. /\ [request[q] EXCEPT !.at = phase] \in Request
      /\ [request[q] EXCEPT !.at = phase, !.session = NoSession] \in Request
  <2>1. request[q] \in Request
    BY <1>1
  <2> QED
    BY <2>1 DEF Request
<1>2. CASE Goes(q, phase)
  <2>1. request' = [request EXCEPT ![q] = [request[q] EXCEPT !.at = phase]]
    BY <1>1, <1>2 DEF Goes
  <2> QED
    BY <1>1, <1>a, <2>1
<1>3. CASE request' = [request EXCEPT ![q].at = phase, ![q].session = NoSession]
  <2>1. request' = [request EXCEPT ![q] =
          [request[q] EXCEPT !.at = phase, !.session = NoSession]]
    BY <1>1, <1>3 DEF Request
  <2> QED
    BY <1>1, <1>a, <2>1
<1> QED
  BY <1>2, <1>3

\* One field of a row is replaced.
LEMMA RowType ==
  ASSUME TypeOK, NEW c, NEW a \in Agents \cup {NoAgent},
         \/ row' = [row EXCEPT ![c].agent = a]
         \/ row' = [row EXCEPT ![c].thread = a]
         \/ row' = [row EXCEPT ![c] = NoRow]
         \/ row' = [d \in Chats |-> NoRow]
         \/ row' = row
  PROVE  row' \in [Chats -> Row]
<1>1. row \in [Chats -> Row] /\ NoRow \in Row
  BY DEF TypeOK, Row, NoRow
<1>2. CASE row' = [row EXCEPT ![c].agent = a]
  BY <1>1, <1>2 DEF Row
<1>3. CASE row' = [row EXCEPT ![c].thread = a]
  BY <1>1, <1>3 DEF Row
<1> QED
  BY <1>1, <1>2, <1>3

LEMMA InsertedType ==
  ASSUME TypeOK, NEW q \in Requests, NEW c \in Chats,
         NEW thread \in {NoAgent, request[q].agent},
         Inserted(c, request[q].agent, thread)
  PROVE  row' \in [Chats -> Row]
<1>1. request[q].agent \in Agents \cup {NoAgent}
  BY DEF TypeOK, Request
<1>2. [agent |-> request[q].agent, thread |-> thread] \in Row
  BY <1>1 DEF Row
<1> QED
  BY <1>2 DEF TypeOK, Inserted

LEMMA OpensSessionType ==
  ASSUME TypeOK, NEW q \in Requests, NEW c \in Chats, NEW a \in Agents \cup {NoAgent},
         OpensSession(q, c, a)
  PROVE  /\ request' \in [Requests -> Request]
         /\ creations' \in [Chats -> Agents \cup {NoAgent}]
         /\ refreshing' \in BOOLEAN
<1>1. CASE sessionOf[c] # NoSession
  <2>1. sessionOf[c] \in Sessions /\ agentOf[sessionOf[c]] \in Agents \cup {NoAgent}
    BY <1>1 DEF TypeOK
  <2>2. [at |-> "using", chat |-> c, agent |-> agentOf[sessionOf[c]],
         session |-> sessionOf[c]] \in Request
    BY <2>1 DEF Request
  <2> QED
    BY <1>1, <2>1, <2>2 DEF TypeOK, OpensSession
<1>2. CASE sessionOf[c] = NoSession
  <2>1. [Idle EXCEPT !.at = "opening", !.chat = c] \in Request
    BY DEF Request, Idle
  <2> QED
    BY <1>2, <2>1 DEF TypeOK, OpensSession
<1> QED
  BY <1>1, <1>2

LEMMA PoolTypeKept ==
  ASSUME TypeOK, PoolKeysDiffer, NEW a
  PROVE  WithoutKey(a) \in Seq(Sessions) /\ Len(WithoutKey(a)) <= MaxPrewarmSessions
<1>1. WithoutKey(a) \in Seq(Sessions) /\ Len(WithoutKey(a)) <= Len(prewarms)
  BY WithoutKeyProperties
<1>2. Len(WithoutKey(a)) \in Nat /\ Len(prewarms) \in Nat
  BY <1>1, LenProperties DEF TypeOK
<1> QED
  BY <1>1, <1>2, PrewarmAssumption DEF TypeOK

LEMMA StepTypeOK == TypeOK /\ PoolKeysDiffer /\ RequestsNamed /\ [Next]_vars => TypeOK'
<1> SUFFICES ASSUME TypeOK, PoolKeysDiffer, RequestsNamed, [Next]_vars PROVE TypeOK'
  OBVIOUS
<1>1. CASE UNCHANGED vars
  BY <1>1 DEF vars, poolVars, sessionVars, mirrorVars, TypeOK
<1>2. ASSUME NEW q \in Requests, NEW c \in Chats,
             \/ UseBegins(q, c) \/ DeleteBegins(q, c)
             \/ InsertsClaimed(q, c) \/ InsertsCold(q, c)
             \/ \E a \in Agents : AgentChangeBegins(q, c, a)
      PROVE  TypeOK'
  <2>1. CASE UseBegins(q, c)
    <3>1. request' \in [Requests -> Request]
      BY <2>1 DEF UseBegins, TypeOK, Request, Idle
    <3> QED
      BY <2>1, <3>1 DEF UseBegins, TypeOK, poolVars, sessionVars, mirrorVars
  <2>2. CASE DeleteBegins(q, c)
    <3>1. /\ agentOf' \in [Sessions -> Agents \cup {NoAgent}]
          /\ processes' \subseteq Sessions /\ talking' \subseteq Sessions
      BY <2>2, ClosedType DEF DeleteBegins
    <3>2. request' \in [Requests -> Request]
      BY <2>2 DEF DeleteBegins, TypeOK, Request, Idle
    <3> QED
      BY <2>2, <3>1, <3>2 DEF DeleteBegins, TypeOK, poolVars
  <2>3. CASE InsertsClaimed(q, c)
    <3>1. row' \in [Chats -> Row]
      BY <2>3, InsertedType DEF InsertsClaimed
    <3>2. sessionOf' \in [Chats -> Sessions \cup {NoSession}]
      BY <2>3 DEF InsertsClaimed, TypeOK, Request
    <3>3. request' \in [Requests -> Request]
      <4>1. CASE Ends(q)
        BY <4>1, EndsType
      <4>2. ASSUME NEW phase \in {"saving", "using"},
                   request' = [request EXCEPT ![q].at = phase, ![q].chat = c,
                     ![q].session = IF phase = "using" THEN @ ELSE NoSession]
            PROVE  request' \in [Requests -> Request]
        <5>1. request[q] \in Request
          BY DEF TypeOK
        <5>2. /\ [request[q] EXCEPT !.at = phase, !.chat = c, !.session = NoSession] \in Request
              /\ [request[q] EXCEPT !.at = phase, !.chat = c] \in Request
          BY <5>1 DEF Request
        <5>3. CASE phase = "using"
          <6>1. request' = [request EXCEPT ![q] = [request[q] EXCEPT !.at = phase, !.chat = c]]
            BY <4>2, <5>1, <5>3 DEF TypeOK, Request
          <6> QED
            BY <5>2, <6>1 DEF TypeOK
        <5>4. CASE phase = "saving"
          <6>1. request' = [request EXCEPT ![q] =
                  [request[q] EXCEPT !.at = phase, !.chat = c, !.session = NoSession]]
            BY <4>2, <5>1, <5>4 DEF TypeOK, Request
          <6> QED
            BY <5>2, <6>1 DEF TypeOK
        <5> QED
          BY <5>3, <5>4
      <4> QED
        BY <2>3, <4>1, <4>2 DEF InsertsClaimed
    <3> QED
      BY <2>3, <3>1, <3>2, <3>3 DEF InsertsClaimed, TypeOK, poolVars, sessionVars
  <2>4. CASE InsertsCold(q, c)
    <3>1. row' \in [Chats -> Row]
      <4>1. request[q].agent \in Agents \cup {NoAgent}
        BY DEF TypeOK, Request
      <4> QED
        BY <2>4, <4>1, InsertedType DEF InsertsCold
    <3>2. /\ request' \in [Requests -> Request]
          /\ creations' \in [Chats -> Agents \cup {NoAgent}]
          /\ refreshing' \in BOOLEAN
      <4>1. CASE Ends(q) /\ UNCHANGED <<creations, refreshing>>
        BY <4>1, EndsType DEF TypeOK
      <4>2. CASE OpensSession(q, c, request[q].agent)
        <5>1. request[q].agent \in Agents \cup {NoAgent}
          BY DEF TypeOK, Request
        <5> QED
          BY <4>2, <5>1, OpensSessionType
      <4> QED
        BY <2>4, <4>1, <4>2 DEF InsertsCold
    <3> QED
      BY <2>4, <3>1, <3>2 DEF InsertsCold, TypeOK, poolVars, sessionVars
  <2>5. ASSUME NEW a \in Agents, AgentChangeBegins(q, c, a)
        PROVE  TypeOK'
    <3>1. request' \in [Requests -> Request]
      BY <2>5 DEF AgentChangeBegins, TypeOK, Request
    <3> QED
      BY <2>5, <3>1 DEF AgentChangeBegins, TypeOK, poolVars, sessionVars, mirrorVars
  <2> QED
    BY <1>2, <2>1, <2>2, <2>3, <2>4, <2>5
<1>3. ASSUME NEW q \in Requests, NEW a \in Agents,
             NewBegins(q, a) \/ PrewarmBegins(q, a)
      PROVE  TypeOK'
  <2>1. request' \in [Requests -> Request]
    <3>1. /\ [Idle EXCEPT !.at = "inserting", !.agent = a] \in Request
          /\ [Idle EXCEPT !.at = "warming", !.agent = a] \in Request
      BY DEF Idle, Request
    <3> QED
      BY <1>3, <3>1 DEF NewBegins, PrewarmBegins, TypeOK
  <2> QED
    BY <1>3, <2>1 DEF NewBegins, PrewarmBegins, TypeOK, poolVars, sessionVars, mirrorVars
<1>4. ASSUME NEW q \in Requests, NEW s \in Sessions, NEW a \in Agents,
             ClaimBegins(q, s, a)
      PROVE  TypeOK'
  <2>1. prewarms' \in Seq(Sessions) /\ Len(prewarms') <= MaxPrewarmSessions
    BY <1>4, PoolTypeKept DEF ClaimBegins
  <2>2. request' \in [Requests -> Request]
    BY <1>4 DEF ClaimBegins, TypeOK, Request
  <2> QED
    BY <1>4, <2>1, <2>2 DEF ClaimBegins, TypeOK, sessionVars, mirrorVars
<1>5. ASSUME NEW q \in Requests, UseOpens(q)
      PROVE  TypeOK'
  <2> DEFINE c == request[q].chat
  <2>1. OpensSession(q, c, row[c].agent)
    BY <1>5 DEF UseOpens
  <2>2. c \in Chats /\ row[c].agent \in Agents \cup {NoAgent}
    BY <1>5 DEF UseOpens, RequestsNamed, TypeOK, Row
  <2>3. /\ request' \in [Requests -> Request]
        /\ creations' \in [Chats -> Agents \cup {NoAgent}]
        /\ refreshing' \in BOOLEAN
    <3> HIDE DEF c
    <3> QED
      BY <2>1, <2>2, OpensSessionType
  <2> QED
    BY <1>5, <2>3 DEF UseOpens, TypeOK, poolVars, sessionVars
<1>6. ASSUME NEW q \in Requests,
             \/ UseEndsEarly(q) \/ UseEnds(q) \/ CreateFails(q)
             \/ AgentChangeRefused(q) \/ PrewarmFails(q)
      PROVE  TypeOK'
  <2>1. /\ Ends(q)
        /\ UNCHANGED <<row, sessionOf, creations, poolVars, sessionVars, mirrorVars>>
    BY <1>6 DEF UseEndsEarly, UseEnds, CreateFails, AgentChangeRefused, PrewarmFails
  <2>2. request' \in [Requests -> Request]
    BY <2>1, EndsType
  <2> QED
    BY <2>1, <2>2 DEF TypeOK, poolVars, sessionVars, mirrorVars
<1>7. ASSUME NEW q \in Requests, ConversationStarts(q)
      PROVE  TypeOK'
  BY <1>7 DEF ConversationStarts, TypeOK, Open, poolVars, mirrorVars
<1>8. ASSUME NEW q \in Requests, UseReturnsThread(q)
      PROVE  TypeOK'
  <2>1. request' \in [Requests -> Request]
    BY <1>8, GoesType DEF UseReturnsThread
  <2> QED
    BY <1>8, <2>1 DEF UseReturnsThread, TypeOK, poolVars, sessionVars, mirrorVars
<1>9. ASSUME NEW q \in Requests, SavesThread(q)
      PROVE  TypeOK'
  <2>1. request' \in [Requests -> Request]
    BY <1>9, EndsType DEF SavesThread
  <2>2. row' \in [Chats -> Row]
    <3>1. request[q].agent \in Agents \cup {NoAgent}
      BY DEF TypeOK, Request
    <3> QED
      BY <1>9, <3>1, RowType DEF SavesThread
  <2> QED
    BY <1>9, <2>1, <2>2 DEF SavesThread, TypeOK, poolVars, sessionVars, mirrorVars
<1>10. ASSUME NEW q \in Requests,
              ClaimMatches(q) \/ AgentChangeRequires(q)
       PROVE  TypeOK'
  <2>1. request' \in [Requests -> Request]
    BY <1>10, GoesType DEF ClaimMatches, AgentChangeRequires
  <2> QED
    BY <1>10, <2>1 DEF ClaimMatches, AgentChangeRequires, TypeOK, poolVars, sessionVars,
       mirrorVars
<1>11. ASSUME NEW q \in Requests, ClaimRefused(q)
       PROVE  TypeOK'
  <2>1. /\ agentOf' \in [Sessions -> Agents \cup {NoAgent}]
        /\ processes' \subseteq Sessions /\ talking' \subseteq Sessions
    BY <1>11, ClosedType DEF ClaimRefused
  <2>2. request' \in [Requests -> Request]
    BY <1>11, GoesType DEF ClaimRefused
  <2>3. prewarms' \in Seq(Sessions) /\ Len(prewarms') <= MaxPrewarmSessions
    BY <1>11, PoolTypeKept DEF ClaimRefused
  <2> QED
    BY <1>11, <2>1, <2>2, <2>3 DEF ClaimRefused, TypeOK, mirrorVars
<1>12. ASSUME NEW q \in Requests, AgentChangeCloses(q)
       PROVE  TypeOK'
  <2>1. /\ agentOf' \in [Sessions -> Agents \cup {NoAgent}]
        /\ processes' \subseteq Sessions /\ talking' \subseteq Sessions
    BY <1>12, ClosedType DEF AgentChangeCloses
  <2>2. request' \in [Requests -> Request]
    BY <1>12, GoesType DEF AgentChangeCloses
  <2> QED
    BY <1>12, <2>1, <2>2 DEF AgentChangeCloses, TypeOK, poolVars
<1>13. ASSUME NEW q \in Requests, AgentChangeRecords(q)
       PROVE  TypeOK'
  <2>1. request' \in [Requests -> Request]
    BY <1>13, EndsType DEF AgentChangeRecords
  <2>2. row' \in [Chats -> Row]
    <3>1. request[q].agent \in Agents \cup {NoAgent}
      BY DEF TypeOK, Request
    <3> QED
      BY <1>13, <3>1, RowType DEF AgentChangeRecords
  <2> QED
    BY <1>13, <2>1, <2>2 DEF AgentChangeRecords, TypeOK, poolVars, sessionVars, mirrorVars
<1>14. ASSUME NEW q \in Requests, DeleteEnds(q) \/ DeleteAllEnds(q)
       PROVE  TypeOK'
  <2>1. request' \in [Requests -> Request]
    BY <1>14, EndsType DEF DeleteEnds, DeleteAllEnds
  <2>2. row' \in [Chats -> Row]
    BY <1>14, RowType DEF DeleteEnds, DeleteAllEnds
  <2> QED
    BY <1>14, <2>1, <2>2 DEF DeleteEnds, DeleteAllEnds, TypeOK, poolVars, sessionVars,
       mirrorVars
<1>15. ASSUME NEW q \in Requests, DeleteAllBegins(q)
       PROVE  TypeOK'
  <2>1. /\ agentOf' \in [Sessions -> Agents \cup {NoAgent}]
        /\ processes' \subseteq Sessions /\ talking' \subseteq Sessions
    BY <1>15, ClosedType DEF DeleteAllBegins
  <2>2. prewarms' \in Seq(Sessions) /\ Len(prewarms') <= MaxPrewarmSessions
    <3>1. prewarms' = <<>> /\ Len(<<>>) = 0 /\ <<>> \in Seq(Sessions)
      BY <1>15, EmptySeq DEF DeleteAllBegins
    <3> QED
      BY <3>1, PrewarmAssumption
  <2>3. request' \in [Requests -> Request]
    BY <1>15 DEF DeleteAllBegins, TypeOK, Request, Idle
  <2> QED
    BY <1>15, <2>1, <2>2, <2>3 DEF DeleteAllBegins, TypeOK
<1>16. ASSUME NEW q \in Requests, PrewarmStores(q)
       PROVE  TypeOK'
  <2>1. PICK s \in Sessions :
          LET pool == Append(WithoutKey(request[q].agent), s)
              trimmed == { pool[i] : i \in 1 .. Excess(pool) }
          IN /\ ConstructedAndClosed(s, request[q].agent, trimmed)
             /\ prewarms' = SubSeq(pool, Excess(pool) + 1, Len(pool))
             /\ inspecting' = inspecting \cup {s}
    BY <1>16 DEF PrewarmStores
  <2>2. request[q].agent \in Agents \cup {NoAgent}
    BY DEF TypeOK, Request
  <2>3. /\ agentOf' \in [Sessions -> Agents \cup {NoAgent}]
        /\ processes' \subseteq Sessions /\ talking' \subseteq Sessions
    BY <2>1, <2>2, ConstructedType
  <2> DEFINE pool == Append(WithoutKey(request[q].agent), s)
  <2>4. pool \in Seq(Sessions) /\ Len(pool) \in Nat \ {0}
    BY WithoutKeyProperties, AppendProperties, LenProperties
  <2>5. prewarms' = SubSeq(pool, Excess(pool) + 1, Len(pool))
    BY <2>1
  <2>6. prewarms' \in Seq(Sessions) /\ Len(prewarms') <= MaxPrewarmSessions
    <3> HIDE DEF pool
    <3> QED
      BY <2>4, <2>5, TrimmedProperties
  <2> QED
    BY <1>16, <2>1, <2>3, <2>6, EndsType DEF PrewarmStores, TypeOK, mirrorVars
<1>17. ASSUME NEW c \in Chats, CreationSucceeds(c)
       PROVE  TypeOK'
  <2>1. PICK s \in Sessions :
          /\ Constructed(s, creations[c])
          /\ sessionOf' = [sessionOf EXCEPT ![c] = s]
          /\ request' = [q \in Requests |->
               IF request[q].at = "opening" /\ request[q].chat = c
               THEN [request[q] EXCEPT !.at = "using", !.agent = creations[c],
                                       !.session = s]
               ELSE request[q]]
    BY <1>17 DEF CreationSucceeds
  <2>2. /\ agentOf' \in [Sessions -> Agents \cup {NoAgent}]
        /\ processes' \subseteq Sessions /\ talking' \subseteq Sessions
    BY <2>1, ConstructedType DEF Constructed, TypeOK
  <2>3. request' \in [Requests -> Request]
    <3> SUFFICES ASSUME NEW q \in Requests PROVE request'[q] \in Request
      BY <2>1
    <3>1. request[q] \in Request /\ creations[c] \in Agents \cup {NoAgent}
      BY DEF TypeOK
    <3>2. [request[q] EXCEPT !.at = "using", !.agent = creations[c], !.session = s]
            \in Request
      BY <3>1 DEF Request
    <3> QED
      BY <2>1, <3>1, <3>2
  <2> QED
    BY <1>17, <2>1, <2>2, <2>3 DEF CreationSucceeds, TypeOK, poolVars
<1>18. ASSUME NEW c \in Chats, CreationFails(c)
       PROVE  TypeOK'
  <2>1. request' \in [Requests -> Request]
    BY <1>18 DEF CreationFails, TypeOK, Request, Idle
  <2>2. creations' \in [Chats -> Agents \cup {NoAgent}]
    BY <1>18 DEF CreationFails, TypeOK
  <2> QED
    BY <1>18, <2>1, <2>2 DEF CreationFails, TypeOK, poolVars, sessionVars, mirrorVars
<1>19. ASSUME NEW c \in Chats, DeleteArchived(c)
       PROVE  TypeOK'
  BY <1>19 DEF DeleteArchived, TypeOK, Row, NoRow, poolVars, sessionVars, mirrorVars
<1>20. ASSUME NEW s \in Sessions, InspectionSucceeds(s)
       PROVE  TypeOK'
  BY <1>20 DEF InspectionSucceeds, TypeOK, mirrorVars
<1>21. ASSUME NEW s \in Sessions, InspectionFails(s)
       PROVE  TypeOK'
  <2>1. /\ agentOf' \in [Sessions -> Agents \cup {NoAgent}]
        /\ processes' \subseteq Sessions /\ talking' \subseteq Sessions
    BY <1>21, ClosedType DEF InspectionFails
  <2>2. prewarms' \in Seq(Sessions) /\ Len(prewarms') <= MaxPrewarmSessions
    BY <1>21, PoolTypeKept DEF InspectionFails, TypeOK
  <2> QED
    BY <1>21, <2>1, <2>2 DEF InspectionFails, TypeOK, mirrorVars
<1>22. ASSUME NEW s \in Sessions, ProcessChanges(s)
       PROVE  TypeOK'
  BY <1>22 DEF ProcessChanges, TypeOK, poolVars
<1>23. CASE Refreshes
  BY <1>23 DEF Refreshes, LiveEntries, TypeOK, poolVars, sessionVars
<1> QED
  BY <1>1, <1>2, <1>3, <1>4, <1>5, <1>6, <1>7, <1>8, <1>9, <1>10, <1>11, <1>12, <1>13,
     <1>14, <1>15, <1>16, <1>17, <1>18, <1>19, <1>20, <1>21, <1>22, <1>23 DEF Next

-----------------------------------------------------------------------------
(* Ownership *)

\* The owners as sets, and one by one.
LEMMA Owners ==
  ASSUME TypeOK
  PROVE  /\ \A c \in Chats : sessionOf[c] = NoSession \/ sessionOf[c] \in Mapped
         /\ \A i \in DOMAIN prewarms : prewarms[i] \in InPool
         /\ \A q \in Creating : request[q].session = NoSession \/ request[q].session \in Claimed
         /\ NoSession \notin Mapped \cup InPool \cup Claimed
         /\ Mapped \cup InPool \cup Claimed \subseteq Sessions
<1>1. \A i \in DOMAIN prewarms : prewarms[i] \in Sessions /\ prewarms[i] # NoSession
  BY NullsAssumption, ElementOfSeq, LenProperties DEF TypeOK
<1>2. \A q \in Requests : request[q].session \in Sessions \cup {NoSession}
  BY DEF TypeOK, Request
<1>3. Mapped \subseteq Sessions /\ NoSession \notin Mapped
  BY DEF Mapped, TypeOK
<1>4. Claimed \subseteq Sessions /\ NoSession \notin Claimed
  BY <1>2 DEF Claimed, Creating
<1>5. InPool \subseteq Sessions /\ NoSession \notin InPool
  BY <1>1 DEF InPool
<1>6. \A c \in Chats : sessionOf[c] = NoSession \/ sessionOf[c] \in Mapped
  BY DEF Mapped
<1>7. \A q \in Creating : request[q].session = NoSession \/ request[q].session \in Claimed
  BY DEF Claimed
<1>8. \A i \in DOMAIN prewarms : prewarms[i] \in InPool
  BY DEF InPool
<1> QED
  BY <1>3, <1>4, <1>5, <1>6, <1>7, <1>8

\* A step in which owners only let go of sessions, and what is closed is what no owner
\* keeps.
LEMMA ReleaseKeeps ==
  ASSUME IInv, TypeOK', PoolKeysDiffer', RequestsNamed',
         \A c \in Chats : sessionOf'[c] \in {sessionOf[c], NoSession},
         \A q \in Requests :
           \/ request'[q].at \notin CreatePhases
           \/ request'[q].session = NoSession
           \/ q \in Creating /\ request'[q].session = request[q].session,
         \A i \in DOMAIN prewarms' : \E j \in DOMAIN prewarms : prewarms'[i] = prewarms[j],
         inspecting' \subseteq inspecting,
         \A s \in (Mapped \cup InPool \cup Claimed)' : agentOf'[s] = agentOf[s]
  PROVE  IInv'
<1>1. Mapped' \subseteq Mapped
  BY DEF Mapped
<1>2. InPool' \subseteq InPool
  BY DEF InPool
<1>3. \A q \in Creating' :
        request'[q].session # NoSession =>
          q \in Creating /\ request'[q].session = request[q].session
  BY DEF Creating
<1>4. Claimed' \subseteq Claimed
  BY <1>3 DEF Claimed
<1>5. (Mapped \cup InPool \cup Claimed)' \subseteq Open'
  <2>1. Mapped \cup InPool \cup Claimed \subseteq Open
    BY DEF IInv, OneOwner
  <2>2. (Mapped \cup InPool \cup Claimed)' \subseteq Open
    BY <1>1, <1>2, <1>4, <2>1
  <2> QED
    BY <2>2 DEF Open
<1>6. OneOwner'
  <2>1. (Mapped \cap InPool = {})' /\ (Claimed \cap (Mapped \cup InPool) = {})'
    BY <1>1, <1>2, <1>4 DEF IInv, OneOwner
  <2>2. \A c, d \in Chats :
          sessionOf'[c] = sessionOf'[d] => c = d \/ sessionOf'[c] = NoSession
    BY DEF IInv, OneOwner
  <2>3. \A p, q \in Creating' :
          request'[p].session = request'[q].session => p = q \/ request'[p].session = NoSession
    BY <1>3 DEF IInv, OneOwner
  <2> QED
    BY <1>5, <2>1, <2>2, <2>3 DEF OneOwner
<1>7. InspectedIsFree'
  BY <1>1, <1>4 DEF IInv, InspectedIsFree
<1> QED
  BY <1>6, <1>7 DEF IInv

\* A step that leaves the owners alone, or ends the claim of a request.
LEMMA QuietKeeps ==
  ASSUME IInv, TypeOK', RequestsNamed', UNCHANGED <<sessionOf, prewarms, agentOf>>,
         inspecting' \subseteq inspecting,
         \A q \in Requests :
           \/ request'[q].at \notin CreatePhases
           \/ request'[q].session = NoSession
           \/ q \in Creating /\ request'[q].session = request[q].session
  PROVE  IInv'
<1>1. PoolKeysDiffer'
  BY DEF IInv, PoolKeysDiffer
<1> QED
  BY <1>1, ReleaseKeeps DEF IInv, TypeOK

\* What is closed does not touch the sessions that are not closed.
LEMMA ClosedKeepsOthers ==
  ASSUME TypeOK, NEW S, Closed(S), NEW T, T \subseteq Sessions, T \cap S = {}
  PROVE  \A s \in T : agentOf'[s] = agentOf[s]
  BY DEF Closed, TypeOK

\* Entries that are left of the pool keep their keys apart.
LEMMA KeysStayApart ==
  ASSUME IInv, TypeOK',
         \A i \in DOMAIN prewarms' : agentOf'[prewarms'[i]] = agentOf[prewarms'[i]],
         \A i, j \in DOMAIN prewarms' :
           agentOf[prewarms'[i]] = agentOf[prewarms'[j]] => i = j
  PROVE  PoolKeysDiffer'
  BY DEF PoolKeysDiffer

\* Closing the session of a chat.
LEMMA CloseChatKeeps ==
  ASSUME IInv, TypeOK', RequestsNamed', NEW c \in Chats, Closed({sessionOf[c]}),
         sessionOf' = [sessionOf EXCEPT ![c] = NoSession], UNCHANGED poolVars,
         \A q \in Requests :
           \/ request'[q].at \notin CreatePhases
           \/ request'[q].session = NoSession
           \/ q \in Creating /\ request'[q].session = request[q].session
  PROVE  IInv'
<1>1. /\ Mapped' \subseteq Mapped /\ InPool' = InPool /\ Claimed' \subseteq Claimed
      /\ sessionOf[c] \notin Mapped'
  <2>1. \A d \in Chats : sessionOf'[d] = IF d = c THEN NoSession ELSE sessionOf[d]
    BY DEF IInv, TypeOK
  <2>2. Mapped' \subseteq Mapped /\ sessionOf[c] \notin Mapped'
    BY <2>1 DEF Mapped, IInv, OneOwner
  <2> QED
    BY <2>2 DEF InPool, poolVars, Claimed, Creating
<1>2. sessionOf[c] \notin Mapped' \cup InPool' \cup Claimed'
  BY <1>1, Owners DEF IInv, OneOwner
<1>3. Mapped' \cup InPool' \cup Claimed' \subseteq Sessions
  BY <1>1, Owners DEF IInv
<1>4. \A s \in (Mapped \cup InPool \cup Claimed)' : agentOf'[s] = agentOf[s]
  BY <1>2, <1>3, ClosedKeepsOthers DEF IInv
<1>5. PoolKeysDiffer'
  <2>1. \A i \in DOMAIN prewarms : agentOf'[prewarms[i]] = agentOf[prewarms[i]]
    BY <1>1, <1>4 DEF InPool
  <2> QED
    BY <2>1 DEF IInv, PoolKeysDiffer, poolVars
<1>6. \A d \in Chats : sessionOf'[d] \in {sessionOf[d], NoSession}
  BY DEF IInv, TypeOK
<1> QED
  BY <1>4, <1>5, <1>6, ReleaseKeeps DEF poolVars

-----------------------------------------------------------------------------
(* Steps *)

LEMMA InitIInv == Init => IInv
<1> SUFFICES ASSUME Init PROVE IInv
  OBVIOUS
<1>1. prewarms \in Seq(Sessions) /\ Len(prewarms) = 0 /\ DOMAIN prewarms = {}
  BY EmptySeq, LenProperties DEF Init
<1>2. TypeOK
  <2>1. NoRow \in Row /\ Idle \in Request
    BY DEF NoRow, Row, Idle, Request
  <2>2. Len(prewarms) <= MaxPrewarmSessions
    BY <1>1, PrewarmAssumption
  <2>3. /\ row \in [Chats -> Row] /\ request \in [Requests -> Request]
        /\ refreshing \in BOOLEAN
    BY <2>1 DEF Init
  <2> QED
    BY <1>1, <2>2, <2>3 DEF Init, TypeOK
<1>3. Creating = {}
  BY DEF Init, Creating, CreatePhases, Idle
<1>4. Mapped = {} /\ InPool = {} /\ Claimed = {}
  BY <1>1, <1>3 DEF Init, Mapped, InPool, Claimed
<1>5. OneOwner
  BY <1>3, <1>4 DEF OneOwner, Init
<1>6. PoolKeysDiffer /\ InspectedIsFree
  BY <1>1, <1>4 DEF PoolKeysDiffer, InspectedIsFree
<1>7. RequestsNamed
  BY DEF RequestsNamed, Init, Idle
<1> QED
  BY <1>2, <1>5, <1>6, <1>7 DEF IInv

\* The request of an operation goes on with r, and the others stay.
LEMMA OneRequest ==
  ASSUME TypeOK, NEW q \in Requests, NEW r, request' = [request EXCEPT ![q] = r]
  PROVE  \A p \in Requests : request'[p] = IF p = q THEN r ELSE request[p]
  BY DEF TypeOK

LEMMA OneRequestMoves ==
  ASSUME TypeOK, NEW q \in Requests, NEW phase, Goes(q, phase)
  PROVE  \A p \in Requests :
           /\ request'[p].at = IF p = q THEN phase ELSE request[p].at
           /\ request'[p].session = request[p].session
           /\ request'[p].chat = request[p].chat
           /\ request'[p].agent = request[p].agent
<1>1. request \in [Requests -> Request]
  BY DEF TypeOK
<1> QED
  BY <1>1 DEF Goes, Request

LEMMA OneRequestReleases ==
  ASSUME TypeOK, NEW q \in Requests, NEW phase,
         request' = [request EXCEPT ![q].at = phase, ![q].session = NoSession]
  PROVE  \A p \in Requests :
           /\ request'[p].at = IF p = q THEN phase ELSE request[p].at
           /\ request'[p].session = IF p = q THEN NoSession ELSE request[p].session
           /\ request'[p].chat = request[p].chat
           /\ request'[p].agent = request[p].agent
<1>1. request \in [Requests -> Request]
  BY DEF TypeOK
<1> QED
  BY <1>1 DEF Request

\* What a step may do to the requests so that no claim comes up.
NoNewClaim ==
  \A q \in Requests :
    \/ request'[q].at \notin CreatePhases
    \/ request'[q].session = NoSession
    \/ q \in Creating /\ request'[q].session = request[q].session

LEMMA OpeningRequests ==
  ASSUME TypeOK, NEW q \in Requests, NEW r, r.at = "using" \/ r.at = "opening",
         request' = [request EXCEPT ![q] = r], RequestsNamed
  PROVE  NoNewClaim /\ RequestsNamed'
<1>1. \A p \in Requests : request'[p] = IF p = q THEN r ELSE request[p]
  BY OneRequest
<1> QED
  BY <1>1 DEF NoNewClaim, RequestsNamed, Creating, CreatePhases

LEMMA OpensSessionRequests ==
  ASSUME TypeOK, NEW q \in Requests, NEW c \in Chats, NEW a, OpensSession(q, c, a), RequestsNamed
  PROVE  NoNewClaim /\ RequestsNamed'
<1>1. CASE sessionOf[c] # NoSession
  <2> DEFINE r == [at |-> "using", chat |-> c, agent |-> agentOf[sessionOf[c]],
                   session |-> sessionOf[c]]
  <2>1. r.at = "using" /\ request' = [request EXCEPT ![q] = r]
    BY <1>1 DEF OpensSession
  <2> HIDE DEF r
  <2> QED
    BY <2>1, OpeningRequests
<1>2. CASE sessionOf[c] = NoSession
  <2> DEFINE r == [Idle EXCEPT !.at = "opening", !.chat = c]
  <2>1. request' = [request EXCEPT ![q] = r]
    BY <1>2 DEF OpensSession
  <2>2. r.at = "opening"
    BY DEF Idle
  <2> HIDE DEF r
  <2> QED
    BY <2>1, <2>2, OpeningRequests
<1> QED
  BY <1>1, <1>2

LEMMA EndsRequests ==
  ASSUME TypeOK, NEW q \in Requests, Ends(q), RequestsNamed
  PROVE  NoNewClaim /\ RequestsNamed'
<1>1. \A p \in Requests : request'[p] = IF p = q THEN Idle ELSE request[p]
  BY OneRequest DEF Ends
<1> QED
  BY <1>1 DEF NoNewClaim, RequestsNamed, Creating, CreatePhases, Idle

\* A request starts with nothing claimed.
LEMMA BeginRequests ==
  ASSUME TypeOK, NEW q \in Requests, NEW r \in Request, request' = [request EXCEPT ![q] = r],
         RequestsNamed, r.session = NoSession,
         r.at = "reading" \/ r.at = "checking" => r.chat \in Chats,
         r.at = "warming" => r.agent \in Agents
  PROVE  NoNewClaim /\ RequestsNamed'
<1>1. \A p \in Requests : request'[p] = IF p = q THEN r ELSE request[p]
  BY OneRequest
<1> QED
  BY <1>1 DEF NoNewClaim, RequestsNamed, Creating, CreatePhases

\* Steps that leave the owners alone.
LEMMA QuietSteps ==
  ASSUME IInv, TypeOK', NoNewClaim, RequestsNamed',
         UNCHANGED <<sessionOf, prewarms, agentOf>>, inspecting' \subseteq inspecting
  PROVE  IInv'
  BY QuietKeeps DEF NoNewClaim

LEMMA ChatSteps ==
  ASSUME IInv, TypeOK', NEW q \in Requests, NEW c \in Chats,
         \/ UseBegins(q, c) \/ InsertsCold(q, c)
         \/ \E a \in Agents : AgentChangeBegins(q, c, a)
  PROVE  IInv'
<1>t. TypeOK /\ RequestsNamed
  BY DEF IInv
<1>1. CASE UseBegins(q, c)
  <2> DEFINE r == [Idle EXCEPT !.at = "reading", !.chat = c]
  <2>1. r \in Request /\ r.session = NoSession /\ r.chat \in Chats /\ r.at = "reading"
    BY DEF Idle, Request
  <2>2. request' = [request EXCEPT ![q] = r]
    BY <1>1 DEF UseBegins
  <2> HIDE DEF r
  <2>3. NoNewClaim /\ RequestsNamed'
    BY <1>t, <2>1, <2>2, BeginRequests
  <2> QED
    BY <1>1, <2>3, QuietSteps DEF UseBegins, poolVars, sessionVars
<1>2. CASE InsertsCold(q, c)
  <2>1. Ends(q) \/ OpensSession(q, c, request[q].agent)
    BY <1>2 DEF InsertsCold
  <2>2. NoNewClaim /\ RequestsNamed'
    BY <1>t, <2>1, EndsRequests, OpensSessionRequests
  <2> QED
    BY <1>2, <2>2, QuietSteps DEF InsertsCold, poolVars, sessionVars
<1>3. ASSUME NEW a \in Agents, AgentChangeBegins(q, c, a)
      PROVE  IInv'
  <2> DEFINE r == [at |-> "checking", chat |-> c, agent |-> a, session |-> NoSession]
  <2>1. r \in Request /\ r.session = NoSession /\ r.chat \in Chats /\ r.at = "checking"
    BY DEF Request
  <2>2. request' = [request EXCEPT ![q] = r]
    BY <1>3 DEF AgentChangeBegins
  <2> HIDE DEF r
  <2>3. NoNewClaim /\ RequestsNamed'
    BY <1>t, <2>1, <2>2, BeginRequests
  <2> QED
    BY <1>3, <2>3, QuietSteps DEF AgentChangeBegins, poolVars, sessionVars
<1> QED
  BY <1>1, <1>2, <1>3

LEMMA AgentSteps ==
  ASSUME IInv, TypeOK', NEW q \in Requests, NEW a \in Agents,
         NewBegins(q, a) \/ PrewarmBegins(q, a)
  PROVE  IInv'
<1>t. TypeOK /\ RequestsNamed
  BY DEF IInv
<1>1. CASE NewBegins(q, a)
  <2> DEFINE r == [Idle EXCEPT !.at = "inserting", !.agent = a]
  <2>1. r \in Request /\ r.session = NoSession /\ r.at = "inserting"
    BY DEF Idle, Request
  <2>2. request' = [request EXCEPT ![q] = r]
    BY <1>1 DEF NewBegins
  <2> HIDE DEF r
  <2>3. NoNewClaim /\ RequestsNamed'
    BY <1>t, <2>1, <2>2, BeginRequests
  <2> QED
    BY <1>1, <2>3, QuietSteps DEF NewBegins, poolVars, sessionVars
<1>2. CASE PrewarmBegins(q, a)
  <2> DEFINE r == [Idle EXCEPT !.at = "warming", !.agent = a]
  <2>1. r \in Request /\ r.session = NoSession /\ r.at = "warming" /\ r.agent = a
    BY DEF Idle, Request
  <2>2. request' = [request EXCEPT ![q] = r]
    BY <1>2 DEF PrewarmBegins
  <2> HIDE DEF r
  <2>3. NoNewClaim /\ RequestsNamed'
    BY <1>t, <2>1, <2>2, BeginRequests
  <2> QED
    BY <1>2, <2>3, QuietSteps DEF PrewarmBegins, poolVars, sessionVars
<1> QED
  BY <1>1, <1>2

LEMMA RequestSteps ==
  ASSUME IInv, TypeOK', NEW q \in Requests,
         \/ UseOpens(q) \/ UseEndsEarly(q) \/ UseEnds(q) \/ SavesThread(q)
         \/ CreateFails(q) \/ AgentChangeRefused(q) \/ AgentChangeRecords(q)
         \/ DeleteEnds(q) \/ DeleteAllEnds(q) \/ PrewarmFails(q)
         \/ UseReturnsThread(q) \/ ClaimMatches(q) \/ AgentChangeRequires(q)
         \/ ConversationStarts(q)
  PROVE  IInv'
<1>t. TypeOK /\ RequestsNamed
  BY DEF IInv
<1>1. CASE UseOpens(q)
  <2>1. OpensSession(q, request[q].chat, row[request[q].chat].agent)
    BY <1>1 DEF UseOpens
  <2>2. request[q].chat \in Chats
    BY <1>1, <1>t DEF UseOpens, RequestsNamed
  <2>3. NoNewClaim /\ RequestsNamed'
    BY <1>t, <2>1, <2>2, OpensSessionRequests
  <2> QED
    BY <1>1, <2>3, QuietSteps DEF UseOpens, poolVars, sessionVars
<1>2. CASE \/ UseEndsEarly(q) \/ UseEnds(q) \/ SavesThread(q) \/ CreateFails(q)
           \/ AgentChangeRefused(q) \/ AgentChangeRecords(q) \/ DeleteEnds(q)
           \/ DeleteAllEnds(q) \/ PrewarmFails(q)
  <2>1. Ends(q) /\ UNCHANGED <<sessionOf, prewarms, agentOf, inspecting>>
    BY <1>2 DEF UseEndsEarly, UseEnds, SavesThread, CreateFails, AgentChangeRefused,
       AgentChangeRecords, DeleteEnds, DeleteAllEnds, PrewarmFails, poolVars, sessionVars
  <2>2. NoNewClaim /\ RequestsNamed'
    BY <1>t, <2>1, EndsRequests
  <2> QED
    BY <2>1, <2>2, QuietSteps
<1>3. CASE UseReturnsThread(q)
  <2>1. request' = [request EXCEPT ![q].at = "saving", ![q].session = NoSession]
    BY <1>3 DEF UseReturnsThread
  <2>2. \A p \in Requests :
          /\ request'[p].at = IF p = q THEN "saving" ELSE request[p].at
          /\ request'[p].session = IF p = q THEN NoSession ELSE request[p].session
          /\ request'[p].chat = request[p].chat /\ request'[p].agent = request[p].agent
    BY <1>t, <2>1, OneRequestReleases
  <2>3. NoNewClaim /\ RequestsNamed'
    BY <1>t, <2>2 DEF NoNewClaim, RequestsNamed, Creating, CreatePhases
  <2> QED
    BY <1>3, <2>3, QuietSteps DEF UseReturnsThread, poolVars, sessionVars
<1>4. CASE ClaimMatches(q)
  <2>1. request[q].at = "matching" /\ Goes(q, "inserting")
    BY <1>4 DEF ClaimMatches
  <2>2. NoNewClaim /\ RequestsNamed'
    BY <2>1, <1>t, OneRequestMoves DEF NoNewClaim, RequestsNamed, Creating, CreatePhases
  <2> QED
    BY <1>4, <2>2, QuietSteps DEF ClaimMatches, poolVars, sessionVars
<1>5. CASE AgentChangeRequires(q)
  <2>1. Goes(q, "recording")
    BY <1>5 DEF AgentChangeRequires
  <2>2. NoNewClaim /\ RequestsNamed'
    BY <2>1, <1>t, OneRequestMoves DEF NoNewClaim, RequestsNamed, Creating, CreatePhases
  <2> QED
    BY <1>5, <2>2, QuietSteps DEF AgentChangeRequires, poolVars, sessionVars
<1>6. CASE ConversationStarts(q)
  <2>1. NoNewClaim /\ RequestsNamed'
    BY <1>6, <1>t DEF ConversationStarts, NoNewClaim, RequestsNamed, Creating
  <2> QED
    BY <1>6, <2>1, QuietSteps DEF ConversationStarts, poolVars
<1> QED
  BY <1>1, <1>2, <1>3, <1>4, <1>5, <1>6

\* A prewarmed session is taken out of the pool.
LEMMA ClaimBeginsKeeps ==
  ASSUME IInv, TypeOK', NEW q \in Requests, NEW s \in Sessions, NEW a \in Agents,
         ClaimBegins(q, s, a)
  PROVE  IInv'
<1>t. TypeOK /\ PoolKeysDiffer /\ OneOwner /\ InspectedIsFree /\ RequestsNamed
  BY DEF IInv
<1> DEFINE r == [at |-> "matching", chat |-> NoChat, agent |-> a, session |-> s]
<1>1. r.at = "matching" /\ r.session = s /\ request' = [request EXCEPT ![q] = r]
  BY DEF ClaimBegins
<1> HIDE DEF r
<1>2. \A p \in Requests : request'[p] = IF p = q THEN r ELSE request[p]
  BY <1>t, <1>1, OneRequest
<1>3. q \notin Creating /\ s \in InPool /\ s \notin inspecting
  <2>1. request[q].at = "idle"
    <3>1. request[q] = Idle /\ Idle.at = "idle"
      BY DEF ClaimBegins, Idle
    <3> QED
      BY <3>1
  <2> QED
    BY <2>1 DEF ClaimBegins, Creating, CreatePhases
<1>4. Creating' = Creating \cup {q} /\ Claimed' \subseteq Claimed \cup {s}
  <2>1. Creating' = Creating \cup {q}
    BY <1>1, <1>2 DEF Creating, CreatePhases
  <2> QED
    BY <1>1, <1>2, <1>3, <2>1 DEF Claimed
<1>5. Mapped' = Mapped /\ Open' = Open /\ agentOf' = agentOf
  BY DEF ClaimBegins, sessionVars, Mapped, Open
<1>6. InPool' \subseteq InPool \ {s}
  <2>1. \A j \in DOMAIN prewarms' : \E k \in DOMAIN prewarms :
          prewarms'[j] = prewarms[k] /\ agentOf[prewarms[k]] # agentOf[s]
    <3>1. prewarms' = WithoutKey(agentOf[s])
      BY DEF ClaimBegins
    <3> QED
      BY <1>t, <3>1, WithoutKeyProperties
  <2> QED
    BY <2>1 DEF InPool
<1>7. OneOwner'
  <2>1. (Mapped \cup InPool \cup Claimed \subseteq Open)'
    BY <1>t, <1>3, <1>4, <1>5, <1>6 DEF OneOwner
  <2>2. (Mapped \cap InPool = {})' /\ (Claimed \cap (Mapped \cup InPool) = {})'
    BY <1>t, <1>3, <1>4, <1>5, <1>6 DEF OneOwner
  <2>3. (\A c, d \in Chats :
           sessionOf[c] = sessionOf[d] => c = d \/ sessionOf[c] = NoSession)'
    BY <1>t DEF OneOwner, ClaimBegins
  <2>4. \A p \in Creating : request[p].session # s
    BY <1>t, <1>3, Owners DEF OneOwner
  <2>5. (\A p, o \in Creating :
           request[p].session = request[o].session => p = o \/ request[p].session = NoSession)'
    <3>1. \A p \in Creating : request'[p] = request[p]
      BY <1>2, <1>3 DEF Creating
    <3>2. request'[q].session = s
      BY <1>1, <1>2
    <3> QED
      BY <1>t, <1>4, <2>4, <3>1, <3>2 DEF OneOwner
  <2> QED
    BY <2>1, <2>2, <2>3, <2>5 DEF OneOwner
<1>8. PoolKeysDiffer'
  BY <1>t, <1>5, WithoutKeyProperties DEF ClaimBegins, PoolKeysDiffer
<1>9. InspectedIsFree'
  BY <1>t, <1>3, <1>4, <1>5 DEF InspectedIsFree, ClaimBegins
<1>10. RequestsNamed'
  BY <1>t, <1>1, <1>2 DEF RequestsNamed
<1> QED
  BY <1>7, <1>8, <1>9, <1>10 DEF IInv

\* A prewarmed session that does not fit is closed.
LEMMA ClaimRefusedKeeps ==
  ASSUME IInv, TypeOK', NEW q \in Requests, ClaimRefused(q)
  PROVE  IInv'
<1>t. TypeOK /\ PoolKeysDiffer /\ OneOwner /\ RequestsNamed
  BY DEF IInv
<1> DEFINE s == request[q].session
<1>1. /\ q \in Creating /\ Closed({s}) /\ UNCHANGED <<sessionOf, inspecting>>
      /\ prewarms' = WithoutKey(agentOf[s])
      /\ request' = [request EXCEPT ![q].at = "inserting", ![q].session = NoSession]
  BY DEF ClaimRefused, Creating, CreatePhases
<1>2. \A p \in Requests :
        /\ request'[p].at = IF p = q THEN "inserting" ELSE request[p].at
        /\ request'[p].session = IF p = q THEN NoSession ELSE request[p].session
        /\ request'[p].chat = request[p].chat /\ request'[p].agent = request[p].agent
  BY <1>t, <1>1, OneRequestReleases
<1>3. NoNewClaim /\ RequestsNamed'
  BY <1>t, <1>2 DEF NoNewClaim, RequestsNamed, Creating
<1>a. /\ \A i \in DOMAIN prewarms' : \E k \in DOMAIN prewarms : prewarms'[i] = prewarms[k]
      /\ \A i, j \in DOMAIN prewarms' :
           agentOf[prewarms'[i]] = agentOf[prewarms'[j]] => i = j
  <2>1. PICK a : a = agentOf[s]
    OBVIOUS
  <2> QED
    BY <1>t, <1>1, <2>1, WithoutKeyProperties
<1>4. Mapped' = Mapped /\ InPool' \subseteq InPool
  BY <1>1, <1>a DEF Mapped, InPool
<1>5. Creating' = Creating
  BY <1>1, <1>2 DEF Creating, CreatePhases
<1>6. Claimed' \subseteq Claimed /\ s \notin Claimed'
  <2>1. Claimed' = { request'[p].session : p \in Creating } \ {NoSession}
    BY <1>5 DEF Claimed
  <2>2. \A p \in Creating : request'[p].session = IF p = q THEN NoSession
                                                  ELSE request[p].session
    BY <1>2 DEF Creating
  <2>3. Claimed' \subseteq Claimed
    BY <2>1, <2>2 DEF Claimed
  <2>4. \A p \in Creating : request'[p].session # NoSession => request'[p].session # s
    BY <1>1, <1>t, <2>2 DEF OneOwner
  <2> HIDE DEF s
  <2> QED
    BY <2>1, <2>3, <2>4
<1>7. s \notin (Mapped \cup InPool \cup Claimed)'
  BY <1>1, <1>4, <1>6, <1>t, Owners DEF OneOwner
<1>8. \A t \in (Mapped \cup InPool \cup Claimed)' : agentOf'[t] = agentOf[t]
  <2>1. (Mapped \cup InPool \cup Claimed)' \subseteq Sessions
    BY <1>4, <1>6, <1>t, Owners
  <2> HIDE DEF s
  <2> QED
    BY <1>t, <1>1, <1>7, <2>1, ClosedKeepsOthers
<1>9. PoolKeysDiffer'
  <2>1. \A i \in DOMAIN prewarms' : agentOf'[prewarms'[i]] = agentOf[prewarms'[i]]
    BY <1>8 DEF InPool
  <2> QED
    BY <1>a, <2>1, KeysStayApart
<1> QED
  BY <1>1, <1>3, <1>a, <1>8, <1>9, ReleaseKeeps DEF NoNewClaim

\* The chat gets the session that was claimed for it.
LEMMA InsertsClaimedKeeps ==
  ASSUME IInv, TypeOK', NEW q \in Requests, NEW c \in Chats, InsertsClaimed(q, c)
  PROVE  IInv'
<1>t. TypeOK /\ PoolKeysDiffer /\ OneOwner /\ InspectedIsFree /\ RequestsNamed
  BY DEF IInv
<1> DEFINE s == request[q].session
<1>1. /\ q \in Creating /\ s # NoSession
      /\ sessionOf' = [sessionOf EXCEPT ![c] = s]
      /\ UNCHANGED <<prewarms, inspecting, agentOf>>
  BY DEF InsertsClaimed, Creating, CreatePhases, poolVars, sessionVars
<1>2. \A p \in Requests :
        /\ p # q => request'[p] = request[p]
        /\ request'[q].at \in {"idle", "saving", "using"}
  <2>1. CASE Ends(q)
    <3>1. \A p \in Requests : request'[p] = IF p = q THEN Idle ELSE request[p]
      BY <1>t, <2>1, OneRequest DEF Ends
    <3>2. Idle.at = "idle"
      BY DEF Idle
    <3> QED
      BY <3>1, <3>2
  <2>2. ASSUME NEW phase \in {"saving", "using"},
               request' = [request EXCEPT ![q].at = phase, ![q].chat = c,
                 ![q].session = IF phase = "using" THEN @ ELSE NoSession]
        PROVE  \A p \in Requests : /\ p # q => request'[p] = request[p]
                                   /\ request'[q].at = phase
    <3>1. request \in [Requests -> Request]
      BY <1>t DEF TypeOK
    <3> QED
      BY <2>2, <3>1 DEF Request
  <2> QED
    BY <2>1, <2>2 DEF InsertsClaimed
<1>3. /\ Creating' = Creating \ {q}
      /\ \A p \in Creating' : request'[p] = request[p] /\ p \in Creating /\ p # q
  BY <1>2 DEF Creating, CreatePhases
<1>4. s \in Claimed /\ Claimed' \subseteq Claimed \ {s}
  <2>1. s \in Claimed
    BY <1>1 DEF Claimed
  <2>2. Claimed' \subseteq Claimed
    BY <1>3 DEF Claimed
  <2>3. \A p \in Creating' : request'[p].session # s
    BY <1>1, <1>3, <1>t DEF OneOwner
  <2>4. s \notin Claimed'
    BY <2>3 DEF Claimed
  <2> QED
    BY <2>1, <2>2, <2>4
<1>5. \A d \in Chats : sessionOf'[d] = IF d = c THEN s ELSE sessionOf[d]
  BY <1>1, <1>t DEF TypeOK
<1>6. Mapped' \subseteq Mapped \cup {s}
  BY <1>5 DEF Mapped
<1>7. InPool' = InPool /\ Open' = Open
  BY <1>1 DEF InPool, Open
<1> HIDE DEF s
<1>8. OneOwner'
  <2>1. (Mapped \cup InPool \cup Claimed \subseteq Open)'
    BY <1>t, <1>4, <1>6, <1>7 DEF OneOwner
  <2>2. (Mapped \cap InPool = {})' /\ (Claimed \cap (Mapped \cup InPool) = {})'
    BY <1>t, <1>4, <1>6, <1>7 DEF OneOwner
  <2>3. (\A d, e \in Chats :
           sessionOf[d] = sessionOf[e] => d = e \/ sessionOf[d] = NoSession)'
    <3>1. \A d \in Chats : sessionOf[d] # s
      <4>1. s \notin Mapped /\ s # NoSession
        BY <1>t, <1>4, Owners DEF OneOwner
      <4> QED
        BY <4>1, <1>t, Owners
    <3> QED
      BY <1>t, <1>5, <3>1 DEF OneOwner
  <2>4. (\A p, o \in Creating :
           request[p].session = request[o].session => p = o \/ request[p].session = NoSession)'
    BY <1>t, <1>3 DEF OneOwner
  <2> QED
    BY <2>1, <2>2, <2>3, <2>4 DEF OneOwner
<1>9. PoolKeysDiffer'
  BY <1>t, <1>1 DEF PoolKeysDiffer
<1>10. InspectedIsFree'
  BY <1>t, <1>1, <1>4, <1>6 DEF InspectedIsFree
<1>11. RequestsNamed'
  BY <1>t, <1>2 DEF RequestsNamed
<1> QED
  BY <1>8, <1>9, <1>10, <1>11 DEF IInv

\* All sessions of chats and of the pool are closed.
LEMMA DeleteAllBeginsKeeps ==
  ASSUME IInv, TypeOK', NEW q \in Requests, DeleteAllBegins(q)
  PROVE  IInv'
<1>t. TypeOK /\ OneOwner /\ RequestsNamed
  BY DEF IInv
<1> DEFINE r == [Idle EXCEPT !.at = "deleting all"]
<1>1. r \in Request /\ r.session = NoSession /\ r.at = "deleting all"
  BY DEF Idle, Request
<1>2. request' = [request EXCEPT ![q] = r]
  BY DEF DeleteAllBegins
<1> HIDE DEF r
<1>3. NoNewClaim /\ RequestsNamed'
  BY <1>t, <1>1, <1>2, BeginRequests
<1>4. /\ Closed(Mapped \cup InPool) /\ prewarms' = <<>> /\ UNCHANGED inspecting
      /\ \A c \in Chats : sessionOf'[c] = NoSession
  BY DEF DeleteAllBegins
<1>5. DOMAIN prewarms' = {}
  BY <1>4, EmptySeq, LenProperties
<1>6. Mapped' = {} /\ InPool' = {}
  BY <1>4, <1>5 DEF Mapped, InPool
<1>7. Claimed' \subseteq Claimed
  <2>1. \A p \in Creating' : request'[p].session # NoSession =>
          p \in Creating /\ request'[p].session = request[p].session
    BY <1>3 DEF NoNewClaim, Creating
  <2> QED
    BY <2>1 DEF Claimed
<1>8. \A t \in (Mapped \cup InPool \cup Claimed)' : agentOf'[t] = agentOf[t]
  <2>1. Claimed' \subseteq Sessions /\ Claimed' \cap (Mapped \cup InPool) = {}
    BY <1>7, <1>t, Owners DEF OneOwner
  <2>2. \A t \in Claimed' : agentOf'[t] = agentOf[t]
    BY <1>t, <1>4, <2>1, ClosedKeepsOthers
  <2> QED
    BY <1>6, <2>2
<1>9. PoolKeysDiffer'
  BY <1>5 DEF PoolKeysDiffer
<1> QED
  BY <1>3, <1>4, <1>5, <1>8, <1>9, ReleaseKeeps DEF NoNewClaim

\* A session that is made for a chat whose creation settles.
LEMMA CreationSucceedsKeeps ==
  ASSUME IInv, TypeOK', NEW c \in Chats, CreationSucceeds(c)
  PROVE  IInv'
<1>t. TypeOK /\ PoolKeysDiffer /\ OneOwner /\ InspectedIsFree /\ RequestsNamed
  BY DEF IInv
<1>1. PICK s \in Sessions :
        /\ Fresh(s)
        /\ Constructed(s, creations[c])
        /\ sessionOf' = [sessionOf EXCEPT ![c] = s]
        /\ request' = [q \in Requests |->
             IF request[q].at = "opening" /\ request[q].chat = c
             THEN [request[q] EXCEPT !.at = "using", !.agent = creations[c], !.session = s]
             ELSE request[q]]
  BY DEF CreationSucceeds
<1>2. UNCHANGED <<prewarms, inspecting>> /\ creations[c] # NoAgent
  BY DEF CreationSucceeds, poolVars
<1>3. \A q \in Requests :
        \/ request'[q] = request[q]
        \/ request'[q].at = "using" /\ request[q].at = "opening"
  <2> TAKE q \in Requests
  <2>1. request[q] \in Request
    BY <1>t DEF TypeOK
  <2> QED
    BY <1>1, <2>1 DEF Request
<1>4. /\ Creating' = Creating /\ \A q \in Creating : request'[q] = request[q]
      /\ RequestsNamed'
  BY <1>3, <1>t DEF Creating, CreatePhases, RequestsNamed
<1>5. Claimed' = Claimed /\ InPool' = InPool
  BY <1>2, <1>4 DEF Claimed, InPool
<1>6. \A t \in Sessions : agentOf'[t] = IF t = s THEN creations[c] ELSE agentOf[t]
  BY <1>1 DEF Constructed, ConstructedAndClosed
<1>7. /\ s \notin Open \cup Mapped \cup InPool \cup inspecting \cup Claimed
      /\ Open' = Open \cup {s}
  <2>1. s \notin Claimed
    BY <1>1 DEF Fresh, Claimed, Creating
  <2> QED
    BY <1>1, <1>2, <1>6, <2>1 DEF Fresh, Open
<1>8. \A d \in Chats : sessionOf'[d] = IF d = c THEN s ELSE sessionOf[d]
  BY <1>1, <1>t DEF TypeOK
<1>9. Mapped' \subseteq Mapped \cup {s}
  BY <1>8 DEF Mapped
<1>10. OneOwner'
  <2>1. (Mapped \cup InPool \cup Claimed \subseteq Open)'
    BY <1>t, <1>5, <1>7, <1>9 DEF OneOwner
  <2>2. (Mapped \cap InPool = {})' /\ (Claimed \cap (Mapped \cup InPool) = {})'
    BY <1>t, <1>5, <1>7, <1>9 DEF OneOwner
  <2>3. (\A d, e \in Chats :
           sessionOf[d] = sessionOf[e] => d = e \/ sessionOf[d] = NoSession)'
    <3>1. \A d \in Chats : sessionOf[d] # s
      BY <1>1, <1>7, <1>t, Owners, NullsAssumption
    <3> QED
      BY <1>t, <1>8, <3>1 DEF OneOwner
  <2>4. (\A p, o \in Creating :
           request[p].session = request[o].session => p = o \/ request[p].session = NoSession)'
    BY <1>t, <1>4 DEF OneOwner
  <2> QED
    BY <2>1, <2>2, <2>3, <2>4 DEF OneOwner
<1>11. PoolKeysDiffer'
  <2>1. \A i \in DOMAIN prewarms : agentOf'[prewarms[i]] = agentOf[prewarms[i]]
    BY <1>t, <1>6, <1>7, Owners
  <2> QED
    BY <1>t, <1>2, <2>1 DEF PoolKeysDiffer
<1>12. InspectedIsFree'
  BY <1>t, <1>2, <1>5, <1>7, <1>9 DEF InspectedIsFree
<1> QED
  BY <1>4, <1>10, <1>11, <1>12 DEF IInv

\* A prewarmed session is stored, in place of one of the same agent, and the oldest
\* are closed.
LEMMA PrewarmStoresKeeps ==
  ASSUME IInv, TypeOK', NEW q \in Requests, PrewarmStores(q)
  PROVE  IInv'
<1>t. TypeOK /\ PoolKeysDiffer /\ OneOwner /\ InspectedIsFree /\ RequestsNamed
  BY DEF IInv
<1> DEFINE a == request[q].agent
<1>1. PICK s \in Sessions :
        LET pool == Append(WithoutKey(a), s)
            trimmed == { pool[i] : i \in 1 .. Excess(pool) }
        IN /\ Fresh(s)
           /\ ConstructedAndClosed(s, a, trimmed)
           /\ prewarms' = SubSeq(pool, Excess(pool) + 1, Len(pool))
           /\ inspecting' = inspecting \cup {s}
  BY DEF PrewarmStores
<1> DEFINE rest == WithoutKey(a)
           pool == Append(rest, s)
           excess == Excess(pool)
           trimmed == { pool[i] : i \in 1 .. excess }
<1>2. UNCHANGED sessionOf /\ Ends(q)
  BY DEF PrewarmStores
<1>3. NoNewClaim /\ RequestsNamed'
  BY <1>t, <1>2, EndsRequests
<1>4. Claimed' \subseteq Claimed /\ \A p \in Creating' : request'[p].session # NoSession =>
          p \in Creating /\ request'[p].session = request[p].session
  <2>1. \A p \in Creating' : request'[p].session # NoSession =>
          p \in Creating /\ request'[p].session = request[p].session
    BY <1>3 DEF NoNewClaim, Creating
  <2> QED
    BY <2>1 DEF Claimed
<1>5. Mapped' = Mapped
  BY <1>2 DEF Mapped
<1>6. s \notin Open \cup Mapped \cup InPool \cup inspecting \cup Claimed
  <2>1. s \notin Claimed
    BY <1>1 DEF Fresh, Claimed, Creating
  <2> QED
    BY <1>1, <2>1 DEF Fresh
<1>7. /\ rest \in Seq(Sessions)
      /\ \A i \in DOMAIN rest : rest[i] \in InPool /\ agentOf[rest[i]] # a
      /\ \A i, j \in DOMAIN rest : agentOf[rest[i]] = agentOf[rest[j]] => i = j
  <2>1. \A i \in DOMAIN rest : \E k \in DOMAIN prewarms :
          rest[i] = prewarms[k] /\ agentOf[prewarms[k]] # a
    BY <1>t, WithoutKeyProperties
  <2>2. /\ rest \in Seq(Sessions)
        /\ \A i, j \in DOMAIN rest : agentOf[rest[i]] = agentOf[rest[j]] => i = j
    BY <1>t, WithoutKeyProperties
  <2> HIDE DEF rest
  <2> QED
    BY <1>t, <2>1, <2>2, Owners
<1> HIDE DEF rest
<1>8. /\ pool \in Seq(Sessions) /\ Len(pool) = Len(rest) + 1 /\ Len(rest) \in Nat
      /\ DOMAIN pool = 1 .. Len(rest) + 1 /\ DOMAIN rest = 1 .. Len(rest)
      /\ \A i \in 1 .. Len(rest) : pool[i] = rest[i]
      /\ pool[Len(rest) + 1] = s
  BY <1>7, AppendProperties, LenProperties
<1> HIDE DEF pool
<1>9. /\ excess \in Nat /\ excess < Len(pool)
      /\ \A j \in DOMAIN prewarms' : /\ j \in Nat \ {0}
                                     /\ j + excess \in DOMAIN pool
                                     /\ prewarms'[j] = pool[j + excess]
  <2>1. prewarms' = SubSeq(pool, Excess(pool) + 1, Len(pool))
    BY <1>1 DEF rest, pool
  <2> QED
    BY <1>8, <1>t, <2>1, TrimmedProperties
<1> HIDE DEF excess
<1>10. trimmed \subseteq InPool
  BY <1>7, <1>8, <1>9
<1>11. \A t \in Sessions : agentOf'[t] = IF t \in trimmed THEN NoAgent
                                         ELSE IF t = s THEN a ELSE agentOf[t]
  <2>1. ConstructedAndClosed(s, a, trimmed)
    BY <1>1 DEF rest, pool, excess
  <2> HIDE DEF trimmed
  <2> QED
    BY <2>1 DEF ConstructedAndClosed
\* The keys of the entries with the new one.
<1>12. \A i \in DOMAIN pool : i <= Len(rest) => pool[i] \in InPool /\ pool[i] = rest[i]
  BY <1>7, <1>8
<1>13. \A i, j \in DOMAIN pool : pool[i] = pool[j] => i = j
  BY <1>6, <1>7, <1>8, <1>12
<1>14. \A j \in DOMAIN prewarms' : prewarms'[j] \notin trimmed
  BY <1>8, <1>9, <1>13
<1>15. \A j \in DOMAIN prewarms' :
         /\ prewarms'[j] \in Sessions
         /\ prewarms'[j] = s \/ prewarms'[j] \in InPool
         /\ agentOf'[prewarms'[j]] =
              IF prewarms'[j] = s THEN a ELSE agentOf[prewarms'[j]]
  <2> TAKE j \in DOMAIN prewarms'
  <2>1. prewarms'[j] \in Sessions /\ (prewarms'[j] = s \/ prewarms'[j] \in InPool)
    BY <1>8, <1>9, <1>12, <1>t, Owners
  <2> HIDE DEF trimmed, a
  <2> QED
    BY <1>11, <1>14, <2>1
<1>16. PoolKeysDiffer'
  <2> SUFFICES ASSUME NEW i \in DOMAIN prewarms', NEW j \in DOMAIN prewarms',
                      agentOf'[prewarms'[i]] = agentOf'[prewarms'[j]]
               PROVE  i = j
    BY DEF PoolKeysDiffer
  <2> DEFINE m == i + excess
             n == j + excess
  <2>1. m \in DOMAIN pool /\ n \in DOMAIN pool /\ prewarms'[i] = pool[m] /\ prewarms'[j] = pool[n]
    BY <1>9
  <2>2. m = n
    <3>1. CASE pool[m] = s /\ pool[n] = s
      BY <1>13, <2>1, <3>1
    <3>2. CASE pool[m] = s /\ pool[n] # s
      <4>1. agentOf[pool[n]] = a
        BY <1>15, <2>1, <3>2
      <4>2. n \in DOMAIN rest /\ pool[n] = rest[n]
        BY <1>8, <2>1, <3>2
      <4> QED
        BY <1>7, <4>1, <4>2
    <3>3. CASE pool[m] # s /\ pool[n] = s
      <4>1. agentOf[pool[m]] = a
        BY <1>15, <2>1, <3>3
      <4>2. m \in DOMAIN rest /\ pool[m] = rest[m]
        BY <1>8, <2>1, <3>3
      <4> QED
        BY <1>7, <4>1, <4>2
    <3>4. CASE pool[m] # s /\ pool[n] # s
      <4>1. agentOf[pool[m]] = agentOf[pool[n]]
        BY <1>15, <2>1, <3>4
      <4>2. m \in DOMAIN rest /\ pool[m] = rest[m] /\ n \in DOMAIN rest /\ pool[n] = rest[n]
        BY <1>8, <2>1, <3>4
      <4> QED
        BY <1>7, <4>1, <4>2
    <3> QED
      BY <3>1, <3>2, <3>3, <3>4
  <2> QED
    BY <1>9, <2>2
<1>17. InPool' \subseteq (InPool \cup {s}) \ trimmed
  BY <1>14, <1>15 DEF InPool
<1> HIDE DEF trimmed
<1>18. Open' = (Open \cup {s}) \ trimmed
  <2>1. a # NoAgent
    BY <1>t, NullsAssumption DEF PrewarmStores, RequestsNamed
  <2>2. s \notin trimmed
    BY <1>6, <1>10
  <2> QED
    BY <1>11, <2>1, <2>2 DEF Open
<1>19. OneOwner'
  <2>1. (Mapped \cup InPool \cup Claimed \subseteq Open)'
    BY <1>t, <1>4, <1>5, <1>10, <1>17, <1>18 DEF OneOwner
  <2>2. (Mapped \cap InPool = {})' /\ (Claimed \cap (Mapped \cup InPool) = {})'
    BY <1>t, <1>4, <1>5, <1>6, <1>17 DEF OneOwner
  <2>3. (\A c, d \in Chats :
           sessionOf[c] = sessionOf[d] => c = d \/ sessionOf[c] = NoSession)'
    BY <1>t, <1>2 DEF OneOwner
  <2>4. (\A p, o \in Creating :
           request[p].session = request[o].session => p = o \/ request[p].session = NoSession)'
    BY <1>t, <1>4 DEF OneOwner
  <2> QED
    BY <2>1, <2>2, <2>3, <2>4 DEF OneOwner
<1>20. InspectedIsFree'
  BY <1>t, <1>1, <1>4, <1>5, <1>6 DEF InspectedIsFree
<1> QED
  BY <1>3, <1>16, <1>19, <1>20 DEF IInv

\* A prewarmed session whose inspection fails is closed, unless it was closed before.
LEMMA InspectionFailsKeeps ==
  ASSUME IInv, TypeOK', NEW s \in Sessions, InspectionFails(s)
  PROVE  IInv'
<1>t. TypeOK /\ PoolKeysDiffer /\ OneOwner /\ InspectedIsFree /\ RequestsNamed
  BY DEF IInv
<1>1. /\ s \in inspecting /\ inspecting' = inspecting \ {s} /\ Closed({s})
      /\ UNCHANGED <<sessionOf, request>>
      /\ prewarms' = IF s \in Open THEN WithoutKey(agentOf[s]) ELSE prewarms
  BY DEF InspectionFails
<1>2. Mapped' = Mapped /\ Claimed' = Claimed /\ RequestsNamed'
  BY <1>1, <1>t DEF Mapped, Claimed, Creating, RequestsNamed
<1>3. /\ \A i \in DOMAIN prewarms' : \E k \in DOMAIN prewarms : prewarms'[i] = prewarms[k]
      /\ \A i \in DOMAIN prewarms' : prewarms'[i] # s
      /\ \A i, j \in DOMAIN prewarms' :
           agentOf[prewarms'[i]] = agentOf[prewarms'[j]] => i = j
  <2>1. CASE s \in Open
    <3> DEFINE a == agentOf[s]
    <3>1. prewarms' = WithoutKey(a)
      BY <1>1, <2>1
    <3>2. /\ \A i \in DOMAIN prewarms' : \E k \in DOMAIN prewarms :
               prewarms'[i] = prewarms[k] /\ agentOf[prewarms[k]] # a
          /\ \A i, j \in DOMAIN prewarms' :
               agentOf[prewarms'[i]] = agentOf[prewarms'[j]] => i = j
      <4> HIDE DEF a
      <4> QED
        BY <1>t, <3>1, WithoutKeyProperties
    <3> QED
      BY <3>2
  <2>2. CASE s \notin Open
    <3>1. \A i \in DOMAIN prewarms : prewarms[i] # s
      BY <1>t, <2>2, Owners DEF OneOwner
    <3> QED
      BY <1>1, <1>t, <2>2, <3>1 DEF PoolKeysDiffer
  <2> QED
    BY <2>1, <2>2
<1>4. InPool' \subseteq InPool /\ s \notin InPool'
  BY <1>3 DEF InPool
<1>5. \A t \in (Mapped \cup InPool \cup Claimed)' : agentOf'[t] = agentOf[t]
  <2>1. s \notin (Mapped \cup InPool \cup Claimed)'
    BY <1>t, <1>1, <1>2, <1>4 DEF InspectedIsFree
  <2>2. (Mapped \cup InPool \cup Claimed)' \subseteq Sessions
    BY <1>t, <1>2, <1>4, Owners
  <2> QED
    BY <1>t, <1>1, <2>1, <2>2, ClosedKeepsOthers
<1>6. PoolKeysDiffer'
  <2>1. \A i \in DOMAIN prewarms' : agentOf'[prewarms'[i]] = agentOf[prewarms'[i]]
    BY <1>5 DEF InPool
  <2> QED
    BY <1>3, <2>1, KeysStayApart
<1>7. \A q \in Requests :
        \/ request'[q].at \notin CreatePhases
        \/ request'[q].session = NoSession
        \/ q \in Creating /\ request'[q].session = request[q].session
  BY <1>1 DEF Creating
<1>8. \A c \in Chats : sessionOf'[c] \in {sessionOf[c], NoSession}
  BY <1>1
<1> QED
  BY <1>1, <1>2, <1>3, <1>5, <1>6, <1>7, <1>8, ReleaseKeeps

LEMMA StepIInv == IInv /\ [Next]_vars => IInv'
<1> SUFFICES ASSUME IInv, [Next]_vars PROVE IInv'
  OBVIOUS
<1>t. TypeOK /\ RequestsNamed /\ TypeOK'
  BY StepTypeOK DEF IInv
<1>1. CASE UNCHANGED vars
  <2>1. NoNewClaim /\ RequestsNamed'
    BY <1>1, <1>t DEF vars, NoNewClaim, RequestsNamed, Creating
  <2> QED
    BY <1>1, <1>t, <2>1, QuietSteps DEF vars, poolVars, sessionVars
<1>2. ASSUME NEW q \in Requests, NEW c \in Chats,
             \/ UseBegins(q, c) \/ DeleteBegins(q, c)
             \/ InsertsClaimed(q, c) \/ InsertsCold(q, c)
             \/ \E a \in Agents : AgentChangeBegins(q, c, a)
      PROVE  IInv'
  <2>1. CASE DeleteBegins(q, c)
    <3> DEFINE r == [Idle EXCEPT !.at = "deleting", !.chat = c]
    <3>1. r \in Request /\ r.session = NoSession /\ r.at = "deleting"
      BY DEF Idle, Request
    <3>2. request' = [request EXCEPT ![q] = r]
      BY <2>1 DEF DeleteBegins
    <3> HIDE DEF r
    <3>3. NoNewClaim /\ RequestsNamed'
      BY <1>t, <3>1, <3>2, BeginRequests
    <3> QED
      BY <1>t, <2>1, <3>3, CloseChatKeeps DEF DeleteBegins, NoNewClaim
  <2> QED
    BY <1>2, <1>t, <2>1, InsertsClaimedKeeps, ChatSteps
<1>3. ASSUME NEW q \in Requests, AgentChangeCloses(q)
      PROVE  IInv'
  <2> DEFINE c == request[q].chat
  <2>1. /\ c \in Chats /\ Closed({sessionOf[c]})
        /\ sessionOf' = [sessionOf EXCEPT ![c] = NoSession]
        /\ Goes(q, "requiring") /\ UNCHANGED poolVars
    BY <1>3, <1>t DEF AgentChangeCloses, RequestsNamed
  <2>2. NoNewClaim /\ RequestsNamed'
    BY <1>t, <2>1, OneRequestMoves DEF NoNewClaim, RequestsNamed, Creating, CreatePhases
  <2> HIDE DEF c
  <2> QED
    BY <1>t, <2>1, <2>2, CloseChatKeeps DEF NoNewClaim
<1>4. ASSUME NEW q \in Requests, ClaimRefused(q) \/ DeleteAllBegins(q) \/ PrewarmStores(q)
      PROVE  IInv'
  BY <1>4, <1>t, ClaimRefusedKeeps, DeleteAllBeginsKeeps, PrewarmStoresKeeps
<1>5. ASSUME NEW q \in Requests,
         \/ UseOpens(q) \/ UseEndsEarly(q) \/ UseEnds(q) \/ SavesThread(q)
         \/ CreateFails(q) \/ AgentChangeRefused(q) \/ AgentChangeRecords(q)
         \/ DeleteEnds(q) \/ DeleteAllEnds(q) \/ PrewarmFails(q)
         \/ UseReturnsThread(q) \/ ClaimMatches(q) \/ AgentChangeRequires(q)
         \/ ConversationStarts(q)
      PROVE  IInv'
  BY <1>5, <1>t, RequestSteps
<1>6. ASSUME NEW q \in Requests, NEW a \in Agents,
             \/ NewBegins(q, a) \/ PrewarmBegins(q, a)
             \/ \E s \in Sessions : ClaimBegins(q, s, a)
      PROVE  IInv'
  BY <1>6, <1>t, AgentSteps, ClaimBeginsKeeps
<1>7. ASSUME NEW c \in Chats, CreationSucceeds(c)
      PROVE  IInv'
  BY <1>7, <1>t, CreationSucceedsKeeps
<1>8. ASSUME NEW c \in Chats, CreationFails(c)
      PROVE  IInv'
  <2>1. \A q \in Requests : request'[q] = request[q] \/ request'[q] = Idle
    BY <1>8 DEF CreationFails
  <2>2. Idle.at = "idle"
    BY DEF Idle
  <2>3. NoNewClaim /\ RequestsNamed'
    BY <1>t, <2>1, <2>2 DEF NoNewClaim, RequestsNamed, Creating, CreatePhases
  <2> QED
    BY <1>8, <1>t, <2>3, QuietSteps DEF CreationFails, poolVars, sessionVars
<1>9. ASSUME \/ \E c \in Chats : DeleteArchived(c)
             \/ \E s \in Sessions : InspectionSucceeds(s) \/ ProcessChanges(s)
             \/ Refreshes
      PROVE  IInv'
  <2>1. /\ UNCHANGED <<sessionOf, prewarms, agentOf, request>>
        /\ inspecting' \subseteq inspecting
    BY <1>9 DEF DeleteArchived, InspectionSucceeds, ProcessChanges, Refreshes, poolVars,
       sessionVars
  <2>2. NoNewClaim /\ RequestsNamed'
    BY <1>t, <2>1 DEF NoNewClaim, RequestsNamed, Creating
  <2> QED
    BY <1>t, <2>1, <2>2, QuietSteps
<1>10. ASSUME NEW s \in Sessions, InspectionFails(s)
       PROVE  IInv'
  BY <1>10, <1>t, InspectionFailsKeeps
<1> QED
  BY <1>1, <1>2, <1>3, <1>4, <1>5, <1>6, <1>7, <1>8, <1>9, <1>10 DEF Next

LEMMA Invariance == Spec => []IInv
<1>1. Init => IInv
  BY InitIInv
<1>2. IInv /\ [Next]_vars => IInv'
  BY StepIInv
<1> QED
  BY <1>1, <1>2, PTL DEF Spec

-----------------------------------------------------------------------------
(* What is known of the requests *)

ChatPhases == UsePhases \cup AgentChangePhases \cup {"deleting"}

\* What a request carries.
RequestKnows(q) ==
  /\ request[q].at \in ChatPhases => request[q].chat \in Chats
  /\ request[q].at \in CreatePhases \cup AgentChangePhases => request[q].agent \in Agents

\* A row that is there names its agent.
RowsNamed == \A c \in Chats : Exists(c) => row[c].agent # NoAgent

\* A session is being made for a chat while a request waits for it, and for a chat
\* that has none.
CreationAwaited ==
  \A c \in Chats : creations[c] # NoAgent =>
    sessionOf[c] = NoSession /\ At({"opening"}, c)

Known == (\A q \in Requests : RequestKnows(q)) /\ RowsNamed /\ CreationAwaited

\* What the requests keep apart when no chat is deleted while its session is opened:
\* sessions are of chats that exist, and a deletion that goes on meets none.
MappedExist == \A c \in Chats : sessionOf[c] # NoSession => Exists(c)

RequestApart(q) ==
  /\ request[q].at \in OpeningPhases => Exists(request[q].chat)
  /\ request[q].at = "deleting" =>
       sessionOf[request[q].chat] = NoSession /\ ~At(OpeningPhases, request[q].chat)
  /\ request[q].at = "deleting all" =>
       /\ \A c \in Chats : sessionOf[c] = NoSession
       /\ NoneAt(OpeningPhases \cup CreatePhases)

Apart == MappedExist /\ \A q \in Requests : RequestApart(q)

-----------------------------------------------------------------------------
(* What the steps of a request make of it *)

Others(q) == \A p \in Requests : p # q => request'[p] = request[p]

LEMMA BecomesRequest ==
  ASSUME TypeOK, NEW q \in Requests, NEW r, request' = [request EXCEPT ![q] = r]
  PROVE  Others(q) /\ request'[q] = r
<1>1. \A p \in Requests : request'[p] = IF p = q THEN r ELSE request[p]
  BY OneRequest
<1> QED
  BY <1>1 DEF Others

LEMMA IdleFields ==
  Idle.at = "idle" /\ Idle.chat = NoChat /\ Idle.agent = NoAgent /\ Idle.session = NoSession
  BY DEF Idle

LEMMA EndsRequest ==
  ASSUME TypeOK, NEW q \in Requests, Ends(q)
  PROVE  Others(q) /\ request'[q] = Idle /\ request'[q].at = "idle"
         /\ request'[q].session = NoSession
  BY BecomesRequest, IdleFields DEF Ends

LEMMA GoesRequest ==
  ASSUME TypeOK, NEW q \in Requests, NEW phase, Goes(q, phase)
  PROVE  /\ Others(q)
         /\ request'[q].at = phase /\ request'[q].session = request[q].session
         /\ request'[q].chat = request[q].chat /\ request'[q].agent = request[q].agent
<1>1. request \in [Requests -> Request]
  BY DEF TypeOK
<1> QED
  BY <1>1 DEF Goes, Request, Others

LEMMA ReleasesRequest ==
  ASSUME TypeOK, NEW q \in Requests, NEW phase,
         request' = [request EXCEPT ![q].at = phase, ![q].session = NoSession]
  PROVE  /\ Others(q)
         /\ request'[q].at = phase /\ request'[q].session = NoSession
         /\ request'[q].chat = request[q].chat /\ request'[q].agent = request[q].agent
<1>1. request \in [Requests -> Request]
  BY DEF TypeOK
<1> QED
  BY <1>1 DEF Request, Others

\* A request is accepted.
LEMMA ReadingBegins ==
  ASSUME TypeOK, NEW q \in Requests, NEW c, UseBegins(q, c)
  PROVE  /\ Others(q) /\ request[q].at = "idle"
         /\ request'[q].at = "reading" /\ request'[q].chat = c
<1>1. PICK r : r = [Idle EXCEPT !.at = "reading", !.chat = c]
  OBVIOUS
<1>2. request[q] = Idle /\ request' = [request EXCEPT ![q] = r]
  BY <1>1 DEF UseBegins
<1>3. r.at = "reading" /\ r.chat = c
  BY <1>1 DEF Idle
<1>4. Others(q) /\ request'[q] = r
  BY <1>2, BecomesRequest
<1> QED
  BY <1>2, <1>3, <1>4, IdleFields

LEMMA InsertingBegins ==
  ASSUME TypeOK, NEW q \in Requests, NEW a, NewBegins(q, a)
  PROVE  /\ Others(q) /\ request[q].at = "idle" /\ request'[q].at = "inserting"
         /\ request'[q].agent = a /\ request'[q].session = NoSession
<1>1. PICK r : r = [Idle EXCEPT !.at = "inserting", !.agent = a]
  OBVIOUS
<1>2. request[q] = Idle /\ request' = [request EXCEPT ![q] = r]
  BY <1>1 DEF NewBegins
<1>3. r.at = "inserting" /\ r.agent = a /\ r.session = NoSession
  BY <1>1 DEF Idle
<1>4. Others(q) /\ request'[q] = r
  BY <1>2, BecomesRequest
<1> QED
  BY <1>2, <1>3, <1>4, IdleFields

LEMMA MatchingBegins ==
  ASSUME TypeOK, NEW q \in Requests, NEW s, NEW a, ClaimBegins(q, s, a)
  PROVE  /\ Others(q) /\ request[q].at = "idle" /\ request'[q].at = "matching"
         /\ request'[q].agent = a /\ request'[q].session = s
<1>1. PICK r : r = [at |-> "matching", chat |-> NoChat, agent |-> a, session |-> s]
  OBVIOUS
<1>2. request[q] = Idle /\ request' = [request EXCEPT ![q] = r]
  BY <1>1 DEF ClaimBegins
<1>3. r.at = "matching" /\ r.agent = a /\ r.session = s
  BY <1>1
<1>4. Others(q) /\ request'[q] = r
  BY <1>2, BecomesRequest
<1> QED
  BY <1>2, <1>3, <1>4, IdleFields

LEMMA CheckingBegins ==
  ASSUME TypeOK, NEW q \in Requests, NEW c, NEW a, AgentChangeBegins(q, c, a)
  PROVE  /\ Others(q) /\ request[q].at = "idle" /\ request'[q].at = "checking"
         /\ request'[q].chat = c /\ request'[q].agent = a
<1>1. PICK r : r = [at |-> "checking", chat |-> c, agent |-> a, session |-> NoSession]
  OBVIOUS
<1>2. request[q] = Idle /\ request' = [request EXCEPT ![q] = r]
  BY <1>1 DEF AgentChangeBegins
<1>3. r.at = "checking" /\ r.chat = c /\ r.agent = a
  BY <1>1
<1>4. Others(q) /\ request'[q] = r
  BY <1>2, BecomesRequest
<1> QED
  BY <1>2, <1>3, <1>4, IdleFields

LEMMA DeletingBegins ==
  ASSUME TypeOK, NEW q \in Requests, NEW c, DeleteBegins(q, c)
  PROVE  /\ Others(q) /\ request[q].at = "idle"
         /\ request'[q].at = "deleting" /\ request'[q].chat = c
<1>1. PICK r : r = [Idle EXCEPT !.at = "deleting", !.chat = c]
  OBVIOUS
<1>2. request[q] = Idle /\ request' = [request EXCEPT ![q] = r]
  BY <1>1 DEF DeleteBegins
<1>3. r.at = "deleting" /\ r.chat = c
  BY <1>1 DEF Idle
<1>4. Others(q) /\ request'[q] = r
  BY <1>2, BecomesRequest
<1> QED
  BY <1>2, <1>3, <1>4, IdleFields

LEMMA DeletingAllBegins ==
  ASSUME TypeOK, NEW q \in Requests, DeleteAllBegins(q)
  PROVE  Others(q) /\ request[q].at = "idle" /\ request'[q].at = "deleting all"
<1>1. PICK r : r = [Idle EXCEPT !.at = "deleting all"]
  OBVIOUS
<1>2. request[q] = Idle /\ request' = [request EXCEPT ![q] = r]
  BY <1>1 DEF DeleteAllBegins
<1>3. r.at = "deleting all"
  BY <1>1 DEF Idle
<1>4. Others(q) /\ request'[q] = r
  BY <1>2, BecomesRequest
<1> QED
  BY <1>2, <1>3, <1>4, IdleFields

LEMMA WarmingBegins ==
  ASSUME TypeOK, NEW q \in Requests, NEW a, PrewarmBegins(q, a)
  PROVE  /\ Others(q) /\ request[q].at = "idle"
         /\ request'[q].at = "warming" /\ request'[q].agent = a
<1>1. PICK r : r = [Idle EXCEPT !.at = "warming", !.agent = a]
  OBVIOUS
<1>2. request[q] = Idle /\ request' = [request EXCEPT ![q] = r]
  BY <1>1 DEF PrewarmBegins
<1>3. r.at = "warming" /\ r.agent = a
  BY <1>1 DEF Idle
<1>4. Others(q) /\ request'[q] = r
  BY <1>2, BecomesRequest
<1> QED
  BY <1>2, <1>3, <1>4, IdleFields

\* A request gets the session of its chat, or waits until there is one.
LEMMA OpensRequest ==
  ASSUME TypeOK, NEW q \in Requests, NEW c \in Chats, NEW a, OpensSession(q, c, a)
  PROVE  /\ Others(q) /\ request'[q].chat = c
         /\ \/ /\ sessionOf[c] # NoSession /\ request'[q].at = "using"
               /\ request'[q].agent = agentOf[sessionOf[c]]
               /\ refreshing' = TRUE /\ creations' = creations
            \/ /\ sessionOf[c] = NoSession /\ request'[q].at = "opening"
               /\ refreshing' = refreshing
               /\ creations' = [creations EXCEPT ![c] = IF @ = NoAgent THEN a ELSE @]
<1>1. /\ [Idle EXCEPT !.at = "opening", !.chat = c].at = "opening"
      /\ [Idle EXCEPT !.at = "opening", !.chat = c].chat = c
  BY DEF Idle
<1>2. CASE sessionOf[c] # NoSession
  <2>1. PICK r : r = [at |-> "using", chat |-> c, agent |-> agentOf[sessionOf[c]],
                      session |-> sessionOf[c]]
    OBVIOUS
  <2>2. request' = [request EXCEPT ![q] = r] /\ refreshing' = TRUE /\ creations' = creations
    BY <1>2, <2>1 DEF OpensSession
  <2>3. r.at = "using" /\ r.chat = c /\ r.agent = agentOf[sessionOf[c]]
    BY <2>1
  <2>4. Others(q) /\ request'[q] = r
    BY <2>2, BecomesRequest
  <2> QED
    BY <1>2, <2>2, <2>3, <2>4
<1>3. CASE sessionOf[c] = NoSession
  <2>1. PICK r : r = [Idle EXCEPT !.at = "opening", !.chat = c]
    OBVIOUS
  <2>2. /\ request' = [request EXCEPT ![q] = r] /\ refreshing' = refreshing
        /\ creations' = [creations EXCEPT ![c] = IF @ = NoAgent THEN a ELSE @]
    BY <1>3, <2>1 DEF OpensSession
  <2>3. Others(q) /\ request'[q] = r
    BY <2>2, BecomesRequest
  <2> QED
    BY <1>1, <1>3, <2>1, <2>2, <2>3
<1> QED
  BY <1>2, <1>3

\* The chat of a create is made.
LEMMA InsertsRequest ==
  ASSUME TypeOK, NEW q \in Requests, NEW c \in Chats, InsertsClaimed(q, c)
  PROVE  /\ Others(q) /\ request'[q].at \in {"idle", "saving", "using"}
         /\ request'[q].at # "idle" =>
              request'[q].chat = c /\ request'[q].agent = request[q].agent
<1>1. CASE Ends(q)
  BY <1>1, EndsRequest
<1>2. ASSUME NEW phase \in {"saving", "using"},
             request' = [request EXCEPT ![q].at = phase, ![q].chat = c,
               ![q].session = IF phase = "using" THEN @ ELSE NoSession]
      PROVE  /\ Others(q) /\ request'[q].at = phase
             /\ request'[q].chat = c /\ request'[q].agent = request[q].agent
  <2>1. request \in [Requests -> Request]
    BY DEF TypeOK
  <2> QED
    BY <1>2, <2>1 DEF Request, Others
<1> QED
  BY <1>1, <1>2 DEF InsertsClaimed

\* The requests that wait for a creation that settles.
LEMMA CreationRequests ==
  ASSUME TypeOK, NEW c \in Chats
  PROVE  /\ CreationSucceeds(c) => \A p \in Requests :
              IF request[p].at = "opening" /\ request[p].chat = c
              THEN /\ request'[p].at = "using" /\ request'[p].chat = c
                   /\ request'[p].agent = creations[c]
              ELSE request'[p] = request[p]
         /\ CreationFails(c) => \A p \in Requests :
              IF request[p].at = "opening" /\ request[p].chat = c
              THEN request'[p].at = "idle"
              ELSE request'[p] = request[p]
<1>1. request \in [Requests -> Request]
  BY DEF TypeOK
<1>2. ASSUME CreationSucceeds(c), NEW p \in Requests
      PROVE  IF request[p].at = "opening" /\ request[p].chat = c
             THEN /\ request'[p].at = "using" /\ request'[p].chat = c
                  /\ request'[p].agent = creations[c]
             ELSE request'[p] = request[p]
  <2>1. request[p] \in Request
    BY <1>1
  <2>2. PICK s \in Sessions :
          request' = [q \in Requests |->
            IF request[q].at = "opening" /\ request[q].chat = c
            THEN [request[q] EXCEPT !.at = "using", !.agent = creations[c], !.session = s]
            ELSE request[q]]
    BY <1>2 DEF CreationSucceeds
  <2> QED
    BY <2>1, <2>2 DEF Request
<1>3. ASSUME CreationFails(c), NEW p \in Requests
      PROVE  IF request[p].at = "opening" /\ request[p].chat = c
             THEN request'[p].at = "idle"
             ELSE request'[p] = request[p]
  BY <1>3, IdleFields DEF CreationFails
<1> QED
  BY <1>2, <1>3

-----------------------------------------------------------------------------
(* Steps that open no session, and delete and insert no chat *)

HarmlessPhases ==
  {"idle", "using", "saving", "checking", "requiring", "recording", "warming"}

\* A request goes on with its chat, or ends, and waited for no session.
CalmRequest(q) ==
  \/ request'[q] = request[q]
  \/ /\ request[q].at # "opening"
     /\ \/ request'[q].at \in HarmlessPhases
        \/ request[q].at \in CreatePhases /\ request'[q].at \in CreatePhases
     /\ RequestKnows(q)'

Calm ==
  /\ \A q \in Requests : CalmRequest(q)
  /\ UNCHANGED <<sessionOf, creations>>
  /\ RowsNamed' /\ \A c \in Chats : Exists(c)' = Exists(c)

LEMMA CalmKeepsKnown ==
  ASSUME Known, Calm
  PROVE  Known'
<1>1. ASSUME NEW q \in Requests PROVE RequestKnows(q)'
  BY <1>1 DEF Known, Calm, CalmRequest, RequestKnows
<1>2. RowsNamed'
  BY DEF Calm
<1>3. ASSUME NEW c \in Chats, creations'[c] # NoAgent
      PROVE  (sessionOf[c] = NoSession /\ At({"opening"}, c))'
  <2>1. sessionOf[c] = NoSession /\ At({"opening"}, c)
    BY <1>3 DEF Known, Calm, CreationAwaited
  <2>2. PICK q \in Requests : request[q].at = "opening" /\ request[q].chat = c
    BY <2>1 DEF At
  <2>3. request'[q] = request[q]
    BY <2>2 DEF Calm, CalmRequest
  <2> QED
    BY <2>1, <2>2, <2>3 DEF Calm, At
<1> QED
  BY <1>1, <1>2, <1>3 DEF Known, CreationAwaited

LEMMA CalmKeepsApart ==
  ASSUME Known, Apart, Calm
  PROVE  Apart'
<1>1. MappedExist'
  BY DEF Apart, Calm, MappedExist
<1>2. ASSUME NEW q \in Requests
      PROVE  /\ request'[q].at \in OpeningPhases =>
                  request[q].at \in OpeningPhases /\ request'[q].chat = request[q].chat
             /\ request'[q].at \in CreatePhases => request[q].at \in CreatePhases
             /\ request'[q].at \in {"deleting", "deleting all"} => request'[q] = request[q]
  BY <1>2 DEF Calm, CalmRequest, HarmlessPhases, OpeningPhases, CreatePhases
<1>3. \A c \in Chats : At(OpeningPhases, c)' => At(OpeningPhases, c)
  BY <1>2 DEF At
<1>4. NoneAt(OpeningPhases \cup CreatePhases) => NoneAt(OpeningPhases \cup CreatePhases)'
  BY <1>2 DEF NoneAt
<1>5. ASSUME NEW q \in Requests PROVE RequestApart(q)'
  <2>1. RequestApart(q)
    BY DEF Apart
  <2>2. CASE request'[q].at \in OpeningPhases
    <3>1. request[q].at \in OpeningPhases /\ request'[q].chat = request[q].chat
      BY <1>2, <2>2
    <3>2. request[q].chat \in Chats /\ Exists(request[q].chat)
      BY <2>1, <3>1 DEF RequestApart, Known, RequestKnows, ChatPhases, UsePhases, OpeningPhases
    <3>3. Exists(request[q].chat)'
      BY <3>1, <3>2 DEF Calm, Exists
    <3> QED
      BY <2>2, <3>3 DEF RequestApart, OpeningPhases
  <2>3. CASE request'[q].at = "deleting"
    BY <1>2, <1>3, <2>1, <2>3 DEF RequestApart, Calm, OpeningPhases, At
  <2>4. CASE request'[q].at = "deleting all"
    BY <1>2, <1>4, <2>1, <2>4 DEF RequestApart, Calm, OpeningPhases
  <2> QED
    BY <2>2, <2>3, <2>4 DEF RequestApart
<1> QED
  BY <1>1, <1>5 DEF Apart

LEMMA SameRows ==
  ASSUME Known, UNCHANGED row
  PROVE  RowsNamed' /\ \A c \in Chats : Exists(c)' = Exists(c)
  BY DEF Known, RowsNamed, Exists

\* A step of one request.
LEMMA CalmStep ==
  ASSUME Known, NEW q \in Requests, Others(q), CalmRequest(q),
         UNCHANGED <<sessionOf, creations>>, RowsNamed', \A c \in Chats : Exists(c)' = Exists(c)
  PROVE  Calm
  BY DEF Calm, CalmRequest, Others

LEMMA CalmEnds ==
  ASSUME TypeOK, Known, NEW q \in Requests, Ends(q), request[q].at # "opening",
         UNCHANGED <<sessionOf, creations>>, RowsNamed', \A c \in Chats : Exists(c)' = Exists(c)
  PROVE  Calm
<1>1. Others(q) /\ request'[q].at = "idle"
  BY EndsRequest
<1>2. CalmRequest(q)
  BY <1>1 DEF CalmRequest, HarmlessPhases, RequestKnows, ChatPhases, UsePhases, AgentChangePhases,
     CreatePhases
<1> QED
  BY <1>1, <1>2, CalmStep

LEMMA CalmEndings ==
  ASSUME TypeOK, Known, NEW q \in Requests,
         \/ UseEndsEarly(q) \/ UseEnds(q) \/ CreateFails(q) \/ AgentChangeRefused(q)
         \/ PrewarmFails(q) \/ PrewarmStores(q)
  PROVE  Calm
<1>1. /\ Ends(q) /\ request[q].at # "opening"
      /\ UNCHANGED <<row, sessionOf, creations>>
  BY DEF UseEndsEarly, UseEnds, CreateFails, AgentChangeRefused, PrewarmFails, PrewarmStores,
     CreatePhases
<1> QED
  BY <1>1, SameRows, CalmEnds

\* The thread of a chat is stored, or its agent is changed.
LEMMA CalmRecords ==
  ASSUME TypeOK, Known, NEW q \in Requests, SavesThread(q) \/ AgentChangeRecords(q)
  PROVE  Calm
<1>1. /\ Ends(q) /\ request[q].at # "opening" /\ UNCHANGED <<sessionOf, creations>>
  BY DEF SavesThread, AgentChangeRecords
<1>2. request[q].chat \in Chats
  BY DEF SavesThread, AgentChangeRecords, Known, RequestKnows, ChatPhases, UsePhases,
     AgentChangePhases
<1>3. ASSUME NEW c \in Chats
      PROVE  Exists(c)' = Exists(c) /\ (Exists(c)' => row'[c].agent # NoAgent)
  <2>1. row[c] \in Row /\ row \in [Chats -> Row]
    BY DEF TypeOK
  <2>2. Exists(c) => row[c].agent # NoAgent
    BY DEF Known, RowsNamed
  <2>3. CASE SavesThread(q)
    <3>1. row'[c].agent = row[c].agent /\ (~ Exists(c) => row'[c] = row[c])
      BY <1>2, <2>1, <2>3 DEF SavesThread, Row
    <3> QED
      BY <2>2, <3>1 DEF Exists, NoRow
  <2>4. CASE AgentChangeRecords(q)
    <3>1. request[q].agent # NoAgent
      BY <2>4, NullsAssumption DEF AgentChangeRecords, Known, RequestKnows, AgentChangePhases
    <3>2. IF c = request[q].chat
          THEN Exists(c) /\ row'[c].agent = request[q].agent
          ELSE row'[c] = row[c]
      BY <1>2, <2>1, <2>4 DEF AgentChangeRecords, Row
    <3> QED
      BY <2>2, <3>1, <3>2 DEF Exists, NoRow
  <2> QED
    BY <2>3, <2>4
<1> QED
  BY <1>1, <1>3, CalmEnds DEF RowsNamed

LEMMA CalmBegins ==
  ASSUME TypeOK, Known, NEW q \in Requests,
         \/ \E c \in Chats, a \in Agents : AgentChangeBegins(q, c, a)
         \/ \E a \in Agents : PrewarmBegins(q, a)
  PROVE  Calm
<1>1. CASE \E c \in Chats, a \in Agents : AgentChangeBegins(q, c, a)
  <2>1. PICK c \in Chats, a \in Agents : AgentChangeBegins(q, c, a)
    BY <1>1
  <2>2. /\ Others(q) /\ request[q].at = "idle" /\ request'[q].at = "checking"
        /\ request'[q].chat = c /\ request'[q].agent = a
    BY <2>1, CheckingBegins
  <2>3. CalmRequest(q)
    BY <2>2 DEF CalmRequest, HarmlessPhases, RequestKnows, CreatePhases
  <2>4. UNCHANGED <<row, sessionOf, creations>>
    BY <2>1 DEF AgentChangeBegins
  <2> QED
    BY <2>2, <2>3, <2>4, SameRows, CalmStep
<1>2. CASE \E a \in Agents : PrewarmBegins(q, a)
  <2>1. PICK a \in Agents : PrewarmBegins(q, a)
    BY <1>2
  <2>2. Others(q) /\ request[q].at = "idle" /\ request'[q].at = "warming"
    BY <2>1, WarmingBegins
  <2>3. CalmRequest(q)
    BY <2>2 DEF CalmRequest, HarmlessPhases, RequestKnows, CreatePhases, ChatPhases, UsePhases,
       AgentChangePhases
  <2>4. UNCHANGED <<row, sessionOf, creations>>
    BY <2>1 DEF PrewarmBegins
  <2> QED
    BY <2>2, <2>3, <2>4, SameRows, CalmStep
<1> QED
  BY <1>1, <1>2

\* A request goes on to its next await.
LEMMA CalmMoves ==
  ASSUME TypeOK, Known, NEW q \in Requests,
         \/ UseReturnsThread(q) \/ ClaimMatches(q) \/ ClaimRefused(q)
         \/ AgentChangeRequires(q)
  PROVE  Calm
<1>1. UNCHANGED <<row, sessionOf, creations>>
  BY DEF UseReturnsThread, ClaimMatches, ClaimRefused, AgentChangeRequires
<1>2. /\ Others(q)
      /\ request'[q].chat = request[q].chat /\ request'[q].agent = request[q].agent
      /\ \/ request[q].at = "using" /\ request'[q].at = "saving"
         \/ request[q].at = "matching" /\ request'[q].at = "inserting"
         \/ request[q].at = "requiring" /\ request'[q].at = "recording"
  <2>1. CASE UseReturnsThread(q)
    BY <2>1, ReleasesRequest DEF UseReturnsThread
  <2>2. CASE ClaimRefused(q)
    BY <2>2, ReleasesRequest DEF ClaimRefused
  <2>3. CASE ClaimMatches(q)
    BY <2>3, GoesRequest DEF ClaimMatches
  <2>4. CASE AgentChangeRequires(q)
    BY <2>4, GoesRequest DEF AgentChangeRequires
  <2> QED
    BY <2>1, <2>2, <2>3, <2>4
<1>3. RequestKnows(q)
  BY DEF Known
<1>4. CalmRequest(q)
  BY <1>2, <1>3 DEF CalmRequest, HarmlessPhases, RequestKnows, CreatePhases, ChatPhases,
     UsePhases, AgentChangePhases
<1> QED
  BY <1>1, <1>2, <1>4, SameRows, CalmStep

\* Steps that no request takes, and of a conversation.
LEMMA CalmElse ==
  ASSUME Known,
         \/ \E q \in Requests : ConversationStarts(q)
         \/ \E s \in Sessions : InspectionSucceeds(s) \/ InspectionFails(s) \/ ProcessChanges(s)
         \/ Refreshes
         \/ UNCHANGED vars
  PROVE  Calm
<1>1. UNCHANGED <<row, sessionOf, creations, request>>
  BY DEF ConversationStarts, InspectionSucceeds, InspectionFails, ProcessChanges, Refreshes,
     vars
<1> QED
  BY <1>1, SameRows DEF Calm, CalmRequest

-----------------------------------------------------------------------------
(* What every request knows, for any overlaps *)

LEMMA RowsStayNamed ==
  ASSUME Known,
         \A c \in Chats : \/ row'[c] = row[c] \/ row'[c] = NoRow
                          \/ row'[c].agent \in Agents
  PROVE  RowsNamed'
  BY NullsAssumption DEF Known, RowsNamed, Exists

LEMMA KnownByOne ==
  ASSUME Known, NEW q \in Requests, Others(q), request[q].at # "opening",
         RequestKnows(q)', RowsNamed',
         \A c \in Chats :
           \/ creations'[c] = NoAgent
           \/ creations'[c] = creations[c] /\ sessionOf'[c] \in {sessionOf[c], NoSession}
           \/ /\ sessionOf'[c] = NoSession
              /\ request'[q].at = "opening" /\ request'[q].chat = c
  PROVE  Known'
<1>1. ASSUME NEW p \in Requests PROVE RequestKnows(p)'
  BY <1>1 DEF Known, Others, RequestKnows
<1>2. ASSUME NEW c \in Chats, creations'[c] # NoAgent
      PROVE  (sessionOf[c] = NoSession /\ At({"opening"}, c))'
  <2>1. CASE /\ sessionOf'[c] = NoSession
             /\ request'[q].at = "opening" /\ request'[q].chat = c
    BY <2>1 DEF At
  <2>2. CASE creations'[c] = creations[c] /\ sessionOf'[c] \in {sessionOf[c], NoSession}
    <3>1. sessionOf[c] = NoSession /\ At({"opening"}, c)
      BY <1>2, <2>2 DEF Known, CreationAwaited
    <3>2. PICK p \in Requests : request[p].at = "opening" /\ request[p].chat = c
      BY <3>1 DEF At
    <3>3. request'[p] = request[p]
      BY <3>2 DEF Others
    <3> QED
      BY <2>2, <3>1, <3>2, <3>3 DEF At
  <2> QED
    BY <1>2, <2>1, <2>2
<1> QED
  BY <1>1, <1>2 DEF Known, CreationAwaited

\* Requests that are accepted.
LEMMA BeginsKnown ==
  ASSUME TypeOK, Known, NEW q \in Requests,
         \/ \E c \in Chats : UseBegins(q, c) \/ DeleteBegins(q, c)
         \/ \E a \in Agents : NewBegins(q, a) \/ \E s \in Sessions : ClaimBegins(q, s, a)
         \/ DeleteAllBegins(q)
  PROVE  Known'
<1>1. RowsNamed' /\ UNCHANGED creations
  BY SameRows DEF UseBegins, DeleteBegins, NewBegins, ClaimBegins, DeleteAllBegins
<1>2. \A c \in Chats : sessionOf'[c] \in {sessionOf[c], NoSession}
  BY DEF UseBegins, DeleteBegins, NewBegins, ClaimBegins, DeleteAllBegins, TypeOK
<1>3. Others(q) /\ request[q].at = "idle" /\ RequestKnows(q)'
  <2>1. ASSUME NEW c \in Chats, UseBegins(q, c) \/ DeleteBegins(q, c)
        PROVE  /\ Others(q) /\ request[q].at = "idle" /\ request'[q].chat = c
               /\ request'[q].at \in {"reading", "deleting"}
    BY <2>1, ReadingBegins, DeletingBegins
  <2>2. ASSUME NEW a \in Agents, NewBegins(q, a) \/ \E s \in Sessions : ClaimBegins(q, s, a)
        PROVE  /\ Others(q) /\ request[q].at = "idle" /\ request'[q].agent = a
               /\ request'[q].at \in {"inserting", "matching"}
    BY <2>2, InsertingBegins, MatchingBegins
  <2>3. CASE DeleteAllBegins(q)
    BY <2>3, DeletingAllBegins DEF RequestKnows, ChatPhases, UsePhases, AgentChangePhases,
       CreatePhases
  <2>4. ASSUME NEW c \in Chats, UseBegins(q, c) \/ DeleteBegins(q, c)
        PROVE  RequestKnows(q)'
    BY <2>1, <2>4 DEF RequestKnows, ChatPhases, UsePhases, AgentChangePhases, CreatePhases
  <2>5. ASSUME NEW a \in Agents, NewBegins(q, a) \/ \E s \in Sessions : ClaimBegins(q, s, a)
        PROVE  RequestKnows(q)'
    BY <2>2, <2>5 DEF RequestKnows, ChatPhases, UsePhases, AgentChangePhases, CreatePhases
  <2> QED
    BY <2>1, <2>2, <2>3, <2>4, <2>5
<1> QED
  BY <1>1, <1>2, <1>3, KnownByOne

\* A request gets the session of its chat, or waits for it.
LEMMA OpensKnown ==
  ASSUME TypeOK, Known, NEW q \in Requests, NEW c \in Chats, NEW a \in Agents,
         OpensSession(q, c, a), request[q].at # "opening", RowsNamed', UNCHANGED sessionOf
  PROVE  Known'
<1>1. /\ Others(q) /\ request'[q].chat = c
      /\ \/ sessionOf[c] # NoSession /\ request'[q].at = "using" /\ creations' = creations
         \/ /\ sessionOf[c] = NoSession /\ request'[q].at = "opening"
            /\ creations' = [creations EXCEPT ![c] = IF @ = NoAgent THEN a ELSE @]
  BY OpensRequest
<1>2. RequestKnows(q)'
  BY <1>1 DEF RequestKnows, ChatPhases, UsePhases, AgentChangePhases, CreatePhases
<1>3. \A d \in Chats :
        \/ creations'[d] = creations[d] /\ sessionOf'[d] \in {sessionOf[d], NoSession}
        \/ /\ sessionOf'[d] = NoSession
           /\ request'[q].at = "opening" /\ request'[q].chat = d
  BY <1>1 DEF TypeOK
<1> QED
  BY <1>1, <1>2, <1>3, KnownByOne

\* A chat is inserted.
LEMMA InsertedRow ==
  ASSUME TypeOK, Known, NEW q \in Requests, NEW c \in Chats, NEW thread,
         request[q].at = "inserting", Inserted(c, request[q].agent, thread)
  PROVE  /\ request[q].agent \in Agents /\ RowsNamed'
         /\ row'[c] = [agent |-> request[q].agent, thread |-> thread]
         /\ Exists(c)'
         /\ \A d \in Chats : d # c => row'[d] = row[d]
<1>1. request[q].agent \in Agents
  BY DEF Known, RequestKnows, CreatePhases
<1>2. /\ row'[c] = [agent |-> request[q].agent, thread |-> thread]
      /\ \A d \in Chats : d # c => row'[d] = row[d]
  BY DEF Inserted, TypeOK
<1>3. row'[c].agent = request[q].agent /\ NoRow.agent = NoAgent
  BY <1>2 DEF NoRow
<1>4. \A d \in Chats : row'[d] = row[d] \/ row'[d].agent \in Agents
  BY <1>1, <1>2, <1>3
<1>5. Exists(c)'
  BY <1>1, <1>3, NullsAssumption DEF Exists
<1> QED
  BY <1>1, <1>2, <1>4, <1>5, RowsStayNamed

LEMMA InsertsKnown ==
  ASSUME TypeOK, Known, NEW q \in Requests, NEW c \in Chats,
         InsertsClaimed(q, c) \/ InsertsCold(q, c)
  PROVE  Known'
<1>1. PICK thread : Inserted(c, request[q].agent, thread)
  BY DEF InsertsClaimed, InsertsCold
<1>2. request[q].at = "inserting"
  BY DEF InsertsClaimed, InsertsCold
<1>3. RowsNamed' /\ request[q].agent \in Agents
  BY <1>1, <1>2, InsertedRow
<1>4. CASE InsertsClaimed(q, c)
  <2>1. /\ Others(q) /\ request'[q].at \in {"idle", "saving", "using"}
        /\ request'[q].at # "idle" => request'[q].chat = c
    BY <1>4, InsertsRequest
  <2>2. RequestKnows(q)'
    BY <2>1 DEF RequestKnows, ChatPhases, UsePhases, AgentChangePhases, CreatePhases
  <2>3. creations' = creations /\ creations[c] = NoAgent
        /\ \A d \in Chats : d # c => sessionOf'[d] = sessionOf[d]
    BY <1>4 DEF InsertsClaimed, FreshChat, TypeOK
  <2> QED
    BY <1>2, <1>3, <2>1, <2>2, <2>3, KnownByOne
<1>5. CASE InsertsCold(q, c) /\ OpensSession(q, c, request[q].agent)
  BY <1>2, <1>3, <1>5, OpensKnown DEF InsertsCold
<1>6. CASE InsertsCold(q, c) /\ Ends(q) /\ UNCHANGED creations
  <2>1. Others(q) /\ request'[q].at = "idle"
    BY <1>6, EndsRequest
  <2>2. RequestKnows(q)'
    BY <2>1 DEF RequestKnows, ChatPhases, UsePhases, AgentChangePhases, CreatePhases
  <2> QED
    BY <1>2, <1>3, <1>6, <2>1, <2>2, KnownByOne DEF InsertsCold
<1> QED
  BY <1>4, <1>5, <1>6 DEF InsertsCold

LEMMA UseOpensKnown ==
  ASSUME TypeOK, Known, NEW q \in Requests, UseOpens(q)
  PROVE  Known'
<1>1. /\ request[q].at = "reading" /\ UNCHANGED <<row, sessionOf>>
      /\ Exists(request[q].chat)
      /\ OpensSession(q, request[q].chat, row[request[q].chat].agent)
  BY DEF UseOpens
<1>2. request[q].chat \in Chats
  BY <1>1 DEF Known, RequestKnows, ChatPhases, UsePhases
<1>3. row[request[q].chat].agent \in Agents
  <2>1. row[request[q].chat].agent \in Agents \cup {NoAgent}
    BY <1>2 DEF TypeOK, Row
  <2> QED
    BY <1>1, <1>2, <2>1 DEF Known, RowsNamed
<1> QED
  BY <1>1, <1>2, <1>3, SameRows, OpensKnown

\* Deletions, and a change of the agent that closes the session.
LEMMA DeletionsKnown ==
  ASSUME TypeOK, Known, NEW q \in Requests, DeleteEnds(q) \/ DeleteAllEnds(q)
  PROVE  Known'
<1>1. /\ Ends(q) /\ request[q].at # "opening" /\ UNCHANGED <<sessionOf, creations>>
  BY DEF DeleteEnds, DeleteAllEnds
<1>2. Others(q) /\ request'[q].at = "idle"
  BY <1>1, EndsRequest
<1>3. RequestKnows(q)'
  BY <1>2 DEF RequestKnows, ChatPhases, UsePhases, AgentChangePhases, CreatePhases
<1>4. RowsNamed'
  <2>1. \A c \in Chats : row'[c] = row[c] \/ row'[c] = NoRow
    BY DEF DeleteEnds, DeleteAllEnds, TypeOK
  <2> QED
    BY <2>1, RowsStayNamed
<1> QED
  BY <1>1, <1>2, <1>3, <1>4, KnownByOne

LEMMA ClosesKnown ==
  ASSUME TypeOK, Known, NEW q \in Requests, AgentChangeCloses(q)
  PROVE  Known'
<1>1. /\ request[q].at = "checking" /\ UNCHANGED <<row, creations>> /\ Goes(q, "requiring")
      /\ \A d \in Chats : sessionOf'[d] \in {sessionOf[d], NoSession}
  BY DEF AgentChangeCloses, TypeOK
<1>2. /\ Others(q) /\ request'[q].at = "requiring"
      /\ request'[q].chat = request[q].chat /\ request'[q].agent = request[q].agent
  BY <1>1, GoesRequest
<1>3. RequestKnows(q)'
  BY <1>1, <1>2 DEF Known, RequestKnows, ChatPhases, UsePhases, AgentChangePhases, CreatePhases
<1> QED
  BY <1>1, <1>2, <1>3, SameRows, KnownByOne

LEMMA ArchivedKnown ==
  ASSUME TypeOK, Known, NEW c \in Chats, DeleteArchived(c)
  PROVE  Known'
<1>1. UNCHANGED <<sessionOf, creations, request>>
  BY DEF DeleteArchived
<1>2. RowsNamed'
  <2>1. \A d \in Chats : row'[d] = row[d] \/ row'[d] = NoRow
    BY DEF DeleteArchived, TypeOK
  <2> QED
    BY <2>1, RowsStayNamed
<1> QED
  BY <1>1, <1>2 DEF Known, RequestKnows, CreationAwaited, At

\* A creation settles.
LEMMA CreationsKnown ==
  ASSUME TypeOK, Known, NEW c \in Chats, CreationSucceeds(c) \/ CreationFails(c)
  PROVE  Known'
<1>1. \A p \in Requests :
        IF request[p].at = "opening" /\ request[p].chat = c
        THEN request'[p].at \in {"using", "idle"} /\ (request'[p].at = "using" => request'[p].chat = c)
        ELSE request'[p] = request[p]
  BY CreationRequests
<1>2. /\ UNCHANGED row /\ creations' = [creations EXCEPT ![c] = NoAgent]
      /\ \A d \in Chats : d # c => sessionOf'[d] = sessionOf[d]
  BY DEF CreationSucceeds, CreationFails, TypeOK
<1>3. ASSUME NEW p \in Requests PROVE RequestKnows(p)'
  BY <1>1 DEF Known, RequestKnows, ChatPhases, UsePhases, AgentChangePhases, CreatePhases
<1>4. ASSUME NEW d \in Chats, creations'[d] # NoAgent
      PROVE  (sessionOf[d] = NoSession /\ At({"opening"}, d))'
  <2>1. d # c /\ creations'[d] = creations[d]
    BY <1>2, <1>4 DEF TypeOK
  <2>2. sessionOf[d] = NoSession /\ At({"opening"}, d)
    BY <1>4, <2>1 DEF Known, CreationAwaited
  <2>3. PICK p \in Requests : request[p].at = "opening" /\ request[p].chat = d
    BY <2>2 DEF At
  <2>4. request'[p] = request[p]
    BY <1>1, <2>1, <2>3
  <2> QED
    BY <1>2, <2>1, <2>2, <2>3, <2>4 DEF At
<1> QED
  BY <1>2, <1>3, <1>4, SameRows DEF Known, CreationAwaited

\* The steps that are calm, and the others.
CalmStepOf(q) ==
  \/ UseEndsEarly(q) \/ UseEnds(q) \/ CreateFails(q) \/ AgentChangeRefused(q)
  \/ PrewarmFails(q) \/ PrewarmStores(q) \/ SavesThread(q) \/ AgentChangeRecords(q)
  \/ UseReturnsThread(q) \/ ClaimMatches(q) \/ ClaimRefused(q) \/ AgentChangeRequires(q)
  \/ ConversationStarts(q)
  \/ \E c \in Chats, a \in Agents : AgentChangeBegins(q, c, a)
  \/ \E a \in Agents : PrewarmBegins(q, a)

CalmStepOfNone ==
  \/ \E s \in Sessions : InspectionSucceeds(s) \/ InspectionFails(s) \/ ProcessChanges(s)
  \/ Refreshes
  \/ UNCHANGED vars

BoldStepOf(q) ==
  \/ \E c \in Chats : \/ UseBegins(q, c) \/ DeleteBegins(q, c)
                      \/ InsertsClaimed(q, c) \/ InsertsCold(q, c)
  \/ \E a \in Agents : NewBegins(q, a) \/ \E s \in Sessions : ClaimBegins(q, s, a)
  \/ UseOpens(q) \/ AgentChangeCloses(q)
  \/ DeleteEnds(q) \/ DeleteAllBegins(q) \/ DeleteAllEnds(q)

BoldStepOfNone ==
  \E c \in Chats : CreationSucceeds(c) \/ CreationFails(c) \/ DeleteArchived(c)

LEMMA Steps ==
  ASSUME [Next]_vars
  PROVE  \/ \E q \in Requests : CalmStepOf(q) \/ BoldStepOf(q)
         \/ CalmStepOfNone \/ BoldStepOfNone
<1>1. CASE UNCHANGED vars
  BY <1>1 DEF CalmStepOfNone
<1>2. CASE Next
  BY <1>2 DEF Next, CalmStepOf, CalmStepOfNone, BoldStepOf, BoldStepOfNone
<1> QED
  BY <1>1, <1>2

LEMMA CalmSteps ==
  ASSUME TypeOK, Known, CalmStepOfNone \/ \E q \in Requests : CalmStepOf(q)
  PROVE  Calm
<1>1. ASSUME NEW q \in Requests, CalmStepOf(q)
      PROVE  Calm
  BY <1>1, CalmEndings, CalmRecords, CalmBegins, CalmMoves, CalmElse DEF CalmStepOf
<1>2. CASE CalmStepOfNone
  BY <1>2, CalmElse DEF CalmStepOfNone
<1> QED
  BY <1>1, <1>2

LEMMA InitKnown == Init => Known
  BY IdleFields DEF Init, Known, RequestKnows, ChatPhases, UsePhases, AgentChangePhases,
     CreatePhases, RowsNamed, Exists, CreationAwaited

LEMMA StepKnown == TypeOK /\ Known /\ [Next]_vars => Known'
<1> SUFFICES ASSUME TypeOK, Known, [Next]_vars PROVE Known'
  OBVIOUS
<1>1. CASE CalmStepOfNone \/ \E q \in Requests : CalmStepOf(q)
  BY <1>1, CalmSteps, CalmKeepsKnown
<1>2. ASSUME NEW q \in Requests, BoldStepOf(q)
      PROVE  Known'
  BY <1>2, BeginsKnown, InsertsKnown, UseOpensKnown, ClosesKnown, DeletionsKnown DEF BoldStepOf
<1>3. CASE BoldStepOfNone
  BY <1>3, CreationsKnown, ArchivedKnown DEF BoldStepOfNone
<1> QED
  BY <1>1, <1>2, <1>3, Steps

-----------------------------------------------------------------------------
(* Deletions that meet no session *)

\* A deletion waits for the requests that read the chat and open its session, and
\* they for it; an archived chat that is deleted has no session.
DeletionsWait == {"use during delete", "archived in use"} \cap Overlaps = {}

LEMMA ApartByOne ==
  ASSUME Known, Apart, NEW q \in Requests, Others(q), MappedExist', RequestApart(q)',
         \A p \in Requests : p # q /\ request[p].at \in OpeningPhases =>
           row'[request[p].chat] # NoRow,
         \A c \in Chats : \/ sessionOf'[c] \in {sessionOf[c], NoSession}
                          \/ ~At({"deleting"}, c) /\ NoneAt({"deleting all"}),
         request'[q].at \in OpeningPhases => ~At({"deleting"}, request'[q].chat),
         request'[q].at \in OpeningPhases \cup CreatePhases => NoneAt({"deleting all"})
  PROVE  Apart'
<1>1. ASSUME NEW p \in Requests, p # q PROVE RequestApart(p)'
  <2>1. request'[p] = request[p] /\ RequestApart(p) /\ RequestKnows(p)
    BY <1>1 DEF Others, Apart, Known
  <2>2. CASE request[p].at \in OpeningPhases
    BY <1>1, <2>1, <2>2 DEF RequestApart, OpeningPhases, Exists
  <2>3. CASE request[p].at = "deleting"
    <3>1. request[p].chat \in Chats /\ sessionOf[request[p].chat] = NoSession
      BY <2>1, <2>3 DEF RequestKnows, ChatPhases, RequestApart
    <3>2. At({"deleting"}, request[p].chat) /\ ~At(OpeningPhases, request[p].chat)
      BY <2>1, <2>3 DEF At, RequestApart
    <3>3. sessionOf'[request[p].chat] = NoSession
      BY <3>1, <3>2
    <3>4. ASSUME NEW o \in Requests, request'[o].at \in OpeningPhases,
                 request'[o].chat = request[p].chat
          PROVE  FALSE
      <4>1. CASE o = q
        BY <3>2, <3>4, <4>1
      <4>2. CASE o # q
        BY <3>2, <3>4, <4>2 DEF At, Others
      <4> QED
        BY <4>1, <4>2
    <3> QED
      BY <2>1, <2>3, <3>3, <3>4 DEF RequestApart, OpeningPhases, At
  <2>4. CASE request[p].at = "deleting all"
    <3>1. /\ \A c \in Chats : sessionOf[c] = NoSession
          /\ NoneAt(OpeningPhases \cup CreatePhases) /\ ~NoneAt({"deleting all"})
      BY <2>1, <2>4 DEF RequestApart, NoneAt
    <3>2. \A c \in Chats : sessionOf'[c] = NoSession
      BY <3>1
    <3>3. NoneAt(OpeningPhases \cup CreatePhases)'
      BY <3>1 DEF NoneAt, Others
    <3> QED
      BY <2>1, <2>4, <3>2, <3>3 DEF RequestApart, OpeningPhases
  <2> QED
    BY <2>1, <2>2, <2>3, <2>4 DEF RequestApart
<1> QED
  BY <1>1 DEF Apart

\* What is known of the requests that open a session.
LEMMA OpeningKnown ==
  ASSUME Known, Apart, NEW p \in Requests
  PROVE  /\ request[p].at \in OpeningPhases =>
              /\ request[p].chat \in Chats /\ Exists(request[p].chat)
              /\ ~At({"deleting"}, request[p].chat)
         /\ request[p].at \in OpeningPhases \cup CreatePhases => NoneAt({"deleting all"})
<1>1. ASSUME request[p].at \in OpeningPhases
      PROVE  request[p].chat \in Chats /\ Exists(request[p].chat)
  BY <1>1 DEF Known, RequestKnows, ChatPhases, UsePhases, OpeningPhases, Apart, RequestApart
<1>2. ASSUME request[p].at \in OpeningPhases, NEW o \in Requests, request[o].at = "deleting",
             request[o].chat = request[p].chat
      PROVE  FALSE
  BY <1>2 DEF Apart, RequestApart, At
<1>3. ASSUME request[p].at \in OpeningPhases \cup CreatePhases, NEW o \in Requests,
             request[o].at = "deleting all"
      PROVE  FALSE
  BY <1>3 DEF Apart, RequestApart, NoneAt
<1> QED
  BY <1>1, <1>2, <1>3 DEF At, NoneAt

\* With no row gone, the chats that requests open are still there.
LEMMA OpeningStays ==
  ASSUME Known, Apart, \A c \in Chats : Exists(c) => Exists(c)'
  PROVE  \A p \in Requests :
           request[p].at \in OpeningPhases => row'[request[p].chat] # NoRow
  BY OpeningKnown DEF Exists

LEMMA BeginsApart ==
  ASSUME TypeOK, Known, Apart, DeletionsWait, NEW q \in Requests,
         \/ \E c \in Chats : UseBegins(q, c) \/ DeleteBegins(q, c)
         \/ \E a \in Agents : NewBegins(q, a) \/ \E s \in Sessions : ClaimBegins(q, s, a)
         \/ DeleteAllBegins(q)
  PROVE  Apart'
<1>1. "use during delete" \notin Overlaps
  BY DEF DeletionsWait
<1>2. \A c \in Chats : Exists(c)' = Exists(c)
  BY DEF UseBegins, DeleteBegins, NewBegins, ClaimBegins, DeleteAllBegins, Exists
<1>3. \A c \in Chats : sessionOf'[c] \in {sessionOf[c], NoSession}
  BY DEF UseBegins, DeleteBegins, NewBegins, ClaimBegins, DeleteAllBegins, TypeOK
<1>4. MappedExist'
  BY <1>2, <1>3 DEF Apart, MappedExist
<1>5. \A p \in Requests :
        request[p].at \in OpeningPhases => row'[request[p].chat] # NoRow
  BY <1>2, OpeningStays
<1>6. ASSUME NEW c \in Chats, UseBegins(q, c)
      PROVE  Apart'
  <2>1. Exists(c) /\ ~At({"deleting"}, c) /\ NoneAt({"deleting all"})
    BY <1>1, <1>6 DEF UseBegins
  <2>2. Others(q) /\ request'[q].at = "reading" /\ request'[q].chat = c
    BY <1>6, ReadingBegins
  <2>3. RequestApart(q)'
    BY <1>2, <2>1, <2>2 DEF RequestApart
  <2> QED
    BY <1>3, <1>4, <1>5, <2>1, <2>2, <2>3, ApartByOne
<1>7. ASSUME NEW c \in Chats, DeleteBegins(q, c)
      PROVE  Apart'
  <2>1. ~At(OpeningPhases, c) /\ sessionOf'[c] = NoSession
    BY <1>1, <1>7 DEF DeleteBegins, TypeOK
  <2>2. Others(q) /\ request'[q].at = "deleting" /\ request'[q].chat = c
    BY <1>7, DeletingBegins
  <2>3. ~At(OpeningPhases, c)'
    BY <2>1, <2>2 DEF At, Others, OpeningPhases
  <2>4. RequestApart(q)'
    BY <2>1, <2>2, <2>3 DEF RequestApart, OpeningPhases, At
  <2> QED
    BY <1>3, <1>4, <1>5, <2>2, <2>4, ApartByOne DEF OpeningPhases, CreatePhases
<1>8. ASSUME NEW a \in Agents, NewBegins(q, a) \/ \E s \in Sessions : ClaimBegins(q, s, a)
      PROVE  Apart'
  <2>1. NoneAt({"deleting all"})
    BY <1>1, <1>8 DEF NewBegins, ClaimBegins
  <2>2. Others(q) /\ request'[q].at \in {"inserting", "matching"}
    BY <1>8, InsertingBegins, MatchingBegins
  <2>3. RequestApart(q)'
    BY <2>2 DEF RequestApart, OpeningPhases
  <2> QED
    BY <1>3, <1>4, <1>5, <2>1, <2>2, <2>3, ApartByOne DEF OpeningPhases
<1>9. CASE DeleteAllBegins(q)
  <2>1. /\ NoneAt(OpeningPhases \cup CreatePhases)
        /\ \A c \in Chats : sessionOf'[c] = NoSession
    BY <1>1, <1>9 DEF DeleteAllBegins
  <2>2. Others(q) /\ request'[q].at = "deleting all"
    BY <1>9, DeletingAllBegins
  <2>3. NoneAt(OpeningPhases \cup CreatePhases)'
    BY <2>1, <2>2 DEF NoneAt, Others, OpeningPhases, CreatePhases
  <2>4. RequestApart(q)'
    BY <2>1, <2>2, <2>3 DEF RequestApart, OpeningPhases
  <2> QED
    BY <1>3, <1>4, <1>5, <2>2, <2>4, ApartByOne DEF OpeningPhases, CreatePhases
<1> QED
  BY <1>6, <1>7, <1>8, <1>9

LEMMA UseOpensApart ==
  ASSUME TypeOK, Known, Apart, NEW q \in Requests, UseOpens(q)
  PROVE  Apart'
<1>1. /\ request[q].at = "reading" /\ UNCHANGED <<row, sessionOf>>
      /\ OpensSession(q, request[q].chat, row[request[q].chat].agent)
  BY DEF UseOpens
<1>2. /\ request[q].chat \in Chats /\ Exists(request[q].chat)
      /\ ~At({"deleting"}, request[q].chat) /\ NoneAt({"deleting all"})
  BY <1>1, OpeningKnown DEF OpeningPhases
<1>3. /\ Others(q) /\ request'[q].chat = request[q].chat
      /\ request'[q].at \in {"using", "opening"}
  BY <1>1, <1>2, OpensRequest
<1>4. MappedExist' /\ \A c \in Chats : Exists(c) => Exists(c)'
  BY <1>1 DEF Apart, MappedExist, Exists
<1>5. RequestApart(q)'
  BY <1>2, <1>3, <1>4 DEF RequestApart
<1> QED
  BY <1>1, <1>2, <1>3, <1>4, <1>5, OpeningStays, ApartByOne

LEMMA InsertsApart ==
  ASSUME TypeOK, Known, Apart, NEW q \in Requests, NEW c \in Chats,
         InsertsClaimed(q, c) \/ InsertsCold(q, c)
  PROVE  Apart'
<1>1. PICK thread : Inserted(c, request[q].agent, thread)
  BY DEF InsertsClaimed, InsertsCold
<1>2. request[q].at = "inserting" /\ FreshChat(c)
  BY DEF InsertsClaimed, InsertsCold
<1>3. Exists(c)' /\ \A d \in Chats : d # c => row'[d] = row[d]
  BY <1>1, <1>2, InsertedRow
<1>4. \A d \in Chats : Exists(d) => Exists(d)'
  BY <1>3 DEF Exists
<1>5. ~At({"deleting"}, c) /\ NoneAt({"deleting all"})
  <2>1. NoneAt({"deleting all"})
    BY <1>2, OpeningKnown DEF CreatePhases
  <2> QED
    BY <1>2, <2>1 DEF FreshChat, At
<1>6. \A d \in Chats : d # c => sessionOf'[d] = sessionOf[d]
  BY DEF InsertsClaimed, InsertsCold, TypeOK
<1>7. MappedExist'
  BY <1>3, <1>4, <1>6 DEF Apart, MappedExist
<1>8. /\ Others(q) /\ request'[q].at \in {"idle", "saving", "using", "opening"}
      /\ request'[q].at # "idle" => request'[q].chat = c
  <2>1. CASE InsertsClaimed(q, c)
    BY <2>1, InsertsRequest
  <2>2. CASE InsertsCold(q, c)
    BY <2>2, EndsRequest, OpensRequest DEF InsertsCold
  <2> QED
    BY <2>1, <2>2
<1>9. RequestApart(q)'
  <2>1. Exists(request[q].chat)' \/ request'[q].at = "idle"
    BY <1>3, <1>8 DEF Exists
  <2> QED
    BY <1>8, <2>1 DEF RequestApart, OpeningPhases
<1>10. /\ request'[q].at \in OpeningPhases => ~At({"deleting"}, request'[q].chat)
       /\ request'[q].at \in OpeningPhases \cup CreatePhases => NoneAt({"deleting all"})
  BY <1>5, <1>8 DEF OpeningPhases
<1>11. \A d \in Chats : \/ sessionOf'[d] \in {sessionOf[d], NoSession}
                        \/ ~At({"deleting"}, d) /\ NoneAt({"deleting all"})
  BY <1>5, <1>6
<1>12. Others(q)
  BY <1>8
<1> QED
  BY <1>4, <1>7, <1>9, <1>10, <1>11, <1>12, OpeningStays, ApartByOne

LEMMA ClosesApart ==
  ASSUME TypeOK, Known, Apart, NEW q \in Requests, AgentChangeCloses(q)
  PROVE  Apart'
<1>1. /\ UNCHANGED row /\ Goes(q, "requiring")
      /\ \A d \in Chats : sessionOf'[d] \in {sessionOf[d], NoSession}
  BY DEF AgentChangeCloses, TypeOK
<1>2. Others(q) /\ request'[q].at = "requiring"
  BY <1>1, GoesRequest
<1>3. MappedExist' /\ \A c \in Chats : Exists(c) => Exists(c)'
  BY <1>1 DEF Apart, MappedExist, Exists
<1>4. RequestApart(q)'
  BY <1>2 DEF RequestApart, OpeningPhases
<1> QED
  BY <1>1, <1>2, <1>3, <1>4, OpeningStays, ApartByOne DEF OpeningPhases, CreatePhases

LEMMA DeletionsApart ==
  ASSUME TypeOK, Known, Apart, NEW q \in Requests, DeleteEnds(q) \/ DeleteAllEnds(q)
  PROVE  Apart'
<1>1. Ends(q) /\ UNCHANGED sessionOf
  BY DEF DeleteEnds, DeleteAllEnds
<1>2. Others(q) /\ request'[q].at = "idle"
  BY <1>1, EndsRequest
<1>3. RequestApart(q)'
  BY <1>2 DEF RequestApart, OpeningPhases
<1>4. RequestApart(q)
  BY DEF Apart
<1>5. CASE DeleteEnds(q)
  <2>1. /\ request[q].at = "deleting"
        /\ \A d \in Chats : d # request[q].chat => row'[d] = row[d]
    BY <1>5 DEF DeleteEnds, TypeOK
  <2>2. sessionOf[request[q].chat] = NoSession /\ ~At(OpeningPhases, request[q].chat)
    BY <1>4, <2>1 DEF RequestApart
  <2>3. MappedExist'
    BY <1>1, <2>1, <2>2 DEF Apart, MappedExist, Exists
  <2>4. ASSUME NEW p \in Requests, request[p].at \in OpeningPhases
        PROVE  row'[request[p].chat] # NoRow
    <3>1. request[p].chat \in Chats /\ Exists(request[p].chat)
      BY <2>4, OpeningKnown
    <3>2. request[p].chat # request[q].chat
      BY <2>2, <2>4 DEF At
    <3> QED
      BY <2>1, <3>1, <3>2 DEF Exists
  <2> QED
    BY <1>1, <1>2, <1>3, <2>3, <2>4, ApartByOne DEF OpeningPhases, CreatePhases
<1>6. CASE DeleteAllEnds(q)
  <2>1. /\ NoneAt(OpeningPhases \cup CreatePhases)
        /\ \A d \in Chats : sessionOf[d] = NoSession
    BY <1>4, <1>6 DEF DeleteAllEnds, RequestApart
  <2>2. MappedExist'
    BY <1>1, <2>1 DEF MappedExist
  <2>3. \A p \in Requests : request[p].at \notin OpeningPhases
    BY <2>1 DEF NoneAt
  <2> QED
    BY <1>1, <1>2, <1>3, <2>2, <2>3, ApartByOne DEF OpeningPhases, CreatePhases
<1> QED
  BY <1>5, <1>6

LEMMA ArchivedApart ==
  ASSUME TypeOK, Known, Apart, DeletionsWait, NEW c \in Chats, DeleteArchived(c)
  PROVE  Apart'
<1>1. /\ ~At(OpeningPhases, c) /\ sessionOf[c] = NoSession
      /\ UNCHANGED <<sessionOf, request>>
      /\ \A d \in Chats : d # c => row'[d] = row[d]
  BY DEF DeletionsWait, DeleteArchived, TypeOK
<1>2. MappedExist'
  BY <1>1 DEF Apart, MappedExist, Exists
<1>3. ASSUME NEW p \in Requests PROVE RequestApart(p)'
  <2>1. RequestApart(p)
    BY DEF Apart
  <2>2. ASSUME request[p].at \in OpeningPhases PROVE row'[request[p].chat] # NoRow
    <3>1. request[p].chat \in Chats /\ Exists(request[p].chat)
      BY <2>2, OpeningKnown
    <3>2. request[p].chat # c
      BY <1>1, <2>2 DEF At
    <3> QED
      BY <1>1, <3>1, <3>2 DEF Exists
  <2> QED
    BY <1>1, <2>1, <2>2 DEF RequestApart, At, NoneAt, Exists
<1> QED
  BY <1>2, <1>3 DEF Apart

LEMMA CreationsApart ==
  ASSUME TypeOK, Known, Apart, NEW c \in Chats, CreationSucceeds(c) \/ CreationFails(c)
  PROVE  Apart'
<1>1. \A p \in Requests :
        IF request[p].at = "opening" /\ request[p].chat = c
        THEN request'[p].at \in {"using", "idle"}
        ELSE request'[p] = request[p]
  BY CreationRequests
<1>2. /\ UNCHANGED row /\ creations[c] # NoAgent
      /\ \A d \in Chats : d # c => sessionOf'[d] = sessionOf[d]
  BY DEF CreationSucceeds, CreationFails, TypeOK
<1>3. PICK o \in Requests : request[o].at = "opening" /\ request[o].chat = c
  BY <1>2 DEF Known, CreationAwaited, At
<1>4. Exists(c) /\ ~At({"deleting"}, c) /\ NoneAt({"deleting all"})
  BY <1>3, OpeningKnown DEF OpeningPhases
<1>5. MappedExist'
  BY <1>2, <1>4 DEF Apart, MappedExist, Exists
<1>6. ASSUME NEW p \in Requests PROVE RequestApart(p)'
  <2>1. RequestApart(p) /\ RequestKnows(p)
    BY DEF Apart, Known
  <2>2. CASE request'[p] # request[p]
    BY <1>1, <2>2 DEF RequestApart, OpeningPhases
  <2>3. CASE request'[p] = request[p] /\ request[p].at \in OpeningPhases
    BY <1>2, <2>1, <2>3 DEF RequestApart, Exists, OpeningPhases
  <2>4. CASE request'[p] = request[p] /\ request[p].at = "deleting"
    <3>1. /\ request[p].chat \in Chats /\ request[p].chat # c
          /\ sessionOf[request[p].chat] = NoSession /\ ~At(OpeningPhases, request[p].chat)
      BY <1>4, <2>1, <2>4 DEF RequestKnows, ChatPhases, RequestApart, At
    <3>2. ~At(OpeningPhases, request[p].chat)'
      BY <1>1, <3>1 DEF At, OpeningPhases
    <3> QED
      BY <1>2, <2>4, <3>1, <3>2 DEF RequestApart, OpeningPhases, At
  <2>5. CASE request'[p] = request[p] /\ request[p].at \notin OpeningPhases \cup {"deleting"}
    BY <1>4, <2>5 DEF RequestApart, NoneAt, OpeningPhases
  <2> QED
    BY <2>2, <2>3, <2>4, <2>5
<1> QED
  BY <1>5, <1>6 DEF Apart

LEMMA InitApart == Init => Apart
  BY IdleFields DEF Init, Apart, MappedExist, RequestApart, OpeningPhases

LEMMA StepApart == TypeOK /\ Known /\ Apart /\ DeletionsWait /\ [Next]_vars => Apart'
<1> SUFFICES ASSUME TypeOK, Known, Apart, DeletionsWait, [Next]_vars PROVE Apart'
  OBVIOUS
<1>1. CASE CalmStepOfNone \/ \E q \in Requests : CalmStepOf(q)
  BY <1>1, CalmSteps, CalmKeepsApart
<1>2. ASSUME NEW q \in Requests, BoldStepOf(q)
      PROVE  Apart'
  BY <1>2, BeginsApart, InsertsApart, UseOpensApart, ClosesApart, DeletionsApart DEF BoldStepOf
<1>3. CASE BoldStepOfNone
  BY <1>3, CreationsApart, ArchivedApart DEF BoldStepOfNone
<1> QED
  BY <1>1, <1>2, <1>3, Steps

LEMMA KnownInvariance == Spec => []Known
<1>1. Init => Known
  BY InitKnown
<1>2. IInv /\ Known /\ [Next]_vars => Known'
  BY StepKnown DEF IInv
<1> QED
  BY <1>1, <1>2, Invariance, PTL DEF Spec

LEMMA ApartInvariance ==
  ASSUME DeletionsWait
  PROVE  Spec => []Apart
<1>1. Init => Apart
  BY InitApart
<1>2. IInv /\ Known /\ Apart /\ [Next]_vars => Apart'
  BY StepApart DEF IInv
<1> QED
  BY <1>1, <1>2, Invariance, KnownInvariance, PTL DEF Spec

-----------------------------------------------------------------------------
(* What closing leaves of the sessions with an owner *)

\* A session that is open afterwards is not among the ones that are closed.
LEMMA ClosedSpares ==
  ASSUME NEW S, Closed(S), NEW t \in Sessions, t \in Open'
  PROVE  t \notin S /\ t \in Open /\ agentOf'[t] = agentOf[t]
         /\ (t \in processes' <=> t \in processes)
  BY DEF Closed, Open

\* ... nor is it the one that is made, if it was open before.
LEMMA StoringSpares ==
  ASSUME NEW q \in Requests, PrewarmStores(q), NEW t \in Open, t \in Open'
  PROVE  agentOf'[t] = agentOf[t] /\ (t \in processes' <=> t \in processes)
<1>1. PICK s \in Sessions :
        Fresh(s) /\ \E S : ConstructedAndClosed(s, request[q].agent, S)
  BY DEF PrewarmStores
<1>2. t # s /\ t \in Sessions
  BY <1>1 DEF Fresh, Open
<1> QED
  BY <1>1, <1>2 DEF ConstructedAndClosed, Open

LEMMA MappedOpen ==
  ASSUME IInv, NEW c \in Chats, sessionOf[c] # NoSession
  PROVE  sessionOf[c] \in Open /\ sessionOf[c] \in Sessions
  BY Owners DEF IInv, OneOwner, Open

-----------------------------------------------------------------------------
(* The mirror of the sessions *)

LEMMA MirrorStays ==
  ASSUME MirrorIsCurrent, UNCHANGED <<sessionOf, entries, refreshing>>,
         \A c \in Chats :
           /\ Exists(c)' => \/ Exists(c)
                            \/ sessionOf[c] \notin processes' /\ entries[c] = NoSession
           /\ sessionOf[c] \in processes' <=> sessionOf[c] \in processes
  PROVE  MirrorIsCurrent'
<1> SUFFICES ASSUME ~ refreshing, NEW c \in Chats, Exists(c)'
             PROVE  (entries[c] = LiveEntries[c])'
  BY DEF MirrorIsCurrent
<1>1. LiveEntries[c]' = IF sessionOf[c] \in processes THEN sessionOf[c] ELSE NoSession
  BY DEF LiveEntries
<1>2. Exists(c) => entries[c] = IF sessionOf[c] \in processes THEN sessionOf[c] ELSE NoSession
  BY DEF MirrorIsCurrent, LiveEntries
<1> QED
  BY <1>1, <1>2

\* Steps that close no session of a chat, and tell the process registry nothing.
LEMMA MirrorQuiet ==
  ASSUME MirrorIsCurrent, UNCHANGED <<sessionOf, entries, refreshing, processes>>,
         \A c \in Chats : Exists(c)' => Exists(c)
  PROVE  MirrorIsCurrent'
  BY MirrorStays

LEMMA MirrorCloses ==
  ASSUME IInv, IInv', MirrorIsCurrent, UNCHANGED <<sessionOf, entries, refreshing, row>>,
         \/ \E S : Closed(S)
         \/ \E q \in Requests : PrewarmStores(q)
  PROVE  MirrorIsCurrent'
<1>1. ASSUME NEW c \in Chats
      PROVE  sessionOf[c] \in processes' <=> sessionOf[c] \in processes
  <2>1. CASE sessionOf[c] = NoSession
    BY <2>1, NullsAssumption DEF IInv, TypeOK
  <2>2. CASE sessionOf[c] # NoSession
    <3>1. sessionOf[c] \in Open /\ sessionOf[c] \in Sessions
      BY <2>2, MappedOpen
    <3>2. sessionOf[c] \in Open'
      <4>1. sessionOf[c] \in Mapped'
        BY <2>2 DEF Mapped
      <4> QED
        BY <4>1 DEF IInv, OneOwner
    <3> QED
      BY <3>1, <3>2, ClosedSpares, StoringSpares
  <2> QED
    BY <2>1, <2>2
<1> QED
  BY <1>1, MirrorStays DEF Exists

LEMMA StepMirror ==
  IInv /\ IInv' /\ Known /\ Apart /\ MirrorIsCurrent /\ [Next]_vars => MirrorIsCurrent'
<1> SUFFICES ASSUME IInv, IInv', Known, Apart, MirrorIsCurrent, [Next]_vars
             PROVE  MirrorIsCurrent'
  OBVIOUS
<1>t. TypeOK
  BY DEF IInv
<1>1. CASE UNCHANGED vars
  BY <1>1, MirrorQuiet DEF vars, sessionVars, mirrorVars, Exists
<1>2. ASSUME NEW q \in Requests, NEW c \in Chats,
             \/ UseBegins(q, c) \/ DeleteBegins(q, c)
             \/ InsertsClaimed(q, c) \/ InsertsCold(q, c)
             \/ \E a \in Agents : AgentChangeBegins(q, c, a)
      PROVE  MirrorIsCurrent'
  <2>1. CASE UseBegins(q, c)
    BY <2>1, MirrorQuiet DEF UseBegins, sessionVars, mirrorVars, Exists
  <2>2. CASE DeleteBegins(q, c) \/ InsertsClaimed(q, c)
    BY <2>2 DEF DeleteBegins, InsertsClaimed, MirrorIsCurrent
  <2>3. CASE InsertsCold(q, c)
    <3>1. PICK thread : Inserted(c, request[q].agent, thread)
      BY <2>3 DEF InsertsCold
    <3>2. \A d \in Chats : d # c => row'[d] = row[d]
      BY <3>1, <1>t DEF Inserted, TypeOK
    <3>3. /\ sessionOf[c] = NoSession /\ entries[c] = NoSession
          /\ UNCHANGED <<sessionOf, entries, processes>>
      BY <2>3 DEF InsertsCold, FreshChat, sessionVars
    <3>4. refreshing' = refreshing \/ refreshing' = TRUE
      BY <2>3 DEF InsertsCold, OpensSession
    <3>5. NoSession \notin processes
      BY <1>t, NullsAssumption DEF TypeOK
    <3>6. CASE refreshing' = refreshing
      BY <3>2, <3>3, <3>5, <3>6, MirrorStays DEF Exists
    <3>7. CASE refreshing' = TRUE
      BY <3>7 DEF MirrorIsCurrent
    <3> QED
      BY <3>4, <3>6, <3>7
  <2>4. ASSUME NEW a \in Agents, AgentChangeBegins(q, c, a)
        PROVE  MirrorIsCurrent'
    BY <2>4, MirrorQuiet DEF AgentChangeBegins, sessionVars, mirrorVars, Exists
  <2> QED
    BY <1>2, <2>1, <2>2, <2>3, <2>4
<1>3. ASSUME NEW q \in Requests,
             \/ \E a \in Agents : NewBegins(q, a) \/ PrewarmBegins(q, a)
             \/ \E s \in Sessions, a \in Agents : ClaimBegins(q, s, a)
             \/ UseEndsEarly(q) \/ ConversationStarts(q) \/ UseReturnsThread(q) \/ UseEnds(q)
             \/ ClaimMatches(q) \/ CreateFails(q) \/ AgentChangeRefused(q)
             \/ AgentChangeRequires(q) \/ PrewarmFails(q)
      PROVE  MirrorIsCurrent'
  <2>1. UNCHANGED <<row, sessionOf, entries, refreshing, processes>>
    BY <1>3 DEF NewBegins, PrewarmBegins, ClaimBegins, UseEndsEarly, ConversationStarts,
       UseReturnsThread, UseEnds, ClaimMatches, CreateFails, AgentChangeRefused,
       AgentChangeRequires, PrewarmFails, sessionVars, mirrorVars
  <2> QED
    BY <2>1, MirrorQuiet DEF Exists
<1>4. ASSUME NEW q \in Requests, UseOpens(q)
      PROVE  MirrorIsCurrent'
  <2>1. UNCHANGED <<row, sessionOf, entries, processes>>
        /\ (refreshing' = refreshing \/ refreshing' = TRUE)
    BY <1>4 DEF UseOpens, OpensSession, sessionVars
  <2>2. CASE refreshing' = refreshing
    BY <2>1, <2>2, MirrorQuiet DEF Exists
  <2>3. CASE refreshing' = TRUE
    BY <2>3 DEF MirrorIsCurrent
  <2> QED
    BY <2>1, <2>2, <2>3
<1>5. ASSUME NEW q \in Requests, SavesThread(q) \/ AgentChangeRecords(q)
      PROVE  MirrorIsCurrent'
  <2>1. Calm
    BY <1>5, <1>t, CalmRecords
  <2>2. UNCHANGED <<sessionOf, entries, refreshing, processes>>
    BY <1>5 DEF SavesThread, AgentChangeRecords, sessionVars, mirrorVars
  <2> QED
    BY <2>1, <2>2, MirrorQuiet DEF Calm
<1>6. ASSUME NEW q \in Requests, ClaimRefused(q) \/ PrewarmStores(q)
      PROVE  MirrorIsCurrent'
  <2>1. UNCHANGED <<sessionOf, entries, refreshing, row>>
    BY <1>6 DEF ClaimRefused, PrewarmStores, mirrorVars
  <2>2. (\E S : Closed(S)) \/ PrewarmStores(q)
    BY <1>6 DEF ClaimRefused
  <2> QED
    BY <2>1, <2>2, MirrorCloses
<1>7. ASSUME NEW q \in Requests, AgentChangeCloses(q) \/ DeleteAllBegins(q)
      PROVE  MirrorIsCurrent'
  BY <1>7 DEF AgentChangeCloses, DeleteAllBegins, MirrorIsCurrent
<1>8. ASSUME \/ \E q \in Requests : DeleteEnds(q) \/ DeleteAllEnds(q)
             \/ \E c \in Chats : DeleteArchived(c)
      PROVE  MirrorIsCurrent'
  <2>1. /\ \A d \in Chats : row'[d] = row[d] \/ row'[d] = NoRow
        /\ UNCHANGED <<sessionOf, entries, refreshing, processes>>
    BY <1>8, <1>t DEF DeleteEnds, DeleteAllEnds, DeleteArchived, sessionVars, mirrorVars, TypeOK
  <2> QED
    BY <2>1, MirrorQuiet DEF Exists
<1>9. ASSUME NEW c \in Chats, CreationSucceeds(c) \/ CreationFails(c)
      PROVE  MirrorIsCurrent'
  <2>1. CASE CreationSucceeds(c)
    BY <2>1 DEF CreationSucceeds, MirrorIsCurrent
  <2>2. CASE CreationFails(c)
    BY <2>2, MirrorQuiet DEF CreationFails, sessionVars, mirrorVars, Exists
  <2> QED
    BY <1>9, <2>1, <2>2
<1>10. ASSUME NEW s \in Sessions,
              InspectionSucceeds(s) \/ InspectionFails(s) \/ ProcessChanges(s)
       PROVE  MirrorIsCurrent'
  <2>1. CASE InspectionSucceeds(s)
    BY <2>1, MirrorQuiet DEF InspectionSucceeds, mirrorVars, Exists
  <2>2. CASE InspectionFails(s)
    <3>1. UNCHANGED <<sessionOf, entries, refreshing, row>> /\ Closed({s})
      BY <2>2 DEF InspectionFails, mirrorVars
    <3> QED
      BY <3>1, MirrorCloses
  <2>3. CASE ProcessChanges(s)
    BY <2>3 DEF ProcessChanges, MirrorIsCurrent
  <2> QED
    BY <1>10, <2>1, <2>2, <2>3
<1>11. CASE Refreshes
  <2>1. \A c \in Chats : sessionOf[c] \in processes => Exists(c)
    BY <1>t, NullsAssumption DEF Apart, MappedExist, TypeOK
  <2>2. entries' = LiveEntries /\ UNCHANGED <<sessionOf, processes>>
    BY <1>11, <2>1 DEF Refreshes, sessionVars
  <2> QED
    BY <2>2 DEF MirrorIsCurrent, LiveEntries
<1> QED
  BY <1>1, <1>2, <1>3, <1>4, <1>5, <1>6, <1>7, <1>8, <1>9, <1>10, <1>11 DEF Next

-----------------------------------------------------------------------------
(* A session keeps its agent as long as it is open *)

SameAgents == \A t \in Open : t \in Open' => agentOf'[t] = agentOf[t]

LEMMA StepSameAgents == TypeOK /\ [Next]_vars => SameAgents
<1> SUFFICES ASSUME TypeOK, [Next]_vars PROVE SameAgents
  OBVIOUS
<1>1. ASSUME \E S : Closed(S) PROVE SameAgents
  BY <1>1, ClosedSpares DEF SameAgents, Open
<1>2. ASSUME NEW q \in Requests, PrewarmStores(q) PROVE SameAgents
  BY <1>2, StoringSpares DEF SameAgents
<1>3. ASSUME NEW c \in Chats, CreationSucceeds(c) PROVE SameAgents
  <2>1. PICK s \in Sessions : Fresh(s) /\ Constructed(s, creations[c])
    BY <1>3 DEF CreationSucceeds
  <2>2. s \notin Open /\ \A t \in Sessions : t # s => agentOf'[t] = agentOf[t]
    BY <2>1 DEF Fresh, Constructed, ConstructedAndClosed
  <2> QED
    BY <2>2 DEF SameAgents, Open
<1>4. ASSUME UNCHANGED agentOf PROVE SameAgents
  BY <1>4 DEF SameAgents
<1>5. CASE UNCHANGED vars
  BY <1>4, <1>5 DEF vars, sessionVars
<1>6. ASSUME NEW q \in Requests, NEW c \in Chats,
             \/ UseBegins(q, c) \/ DeleteBegins(q, c)
             \/ InsertsClaimed(q, c) \/ InsertsCold(q, c)
             \/ \E a \in Agents : AgentChangeBegins(q, c, a)
      PROVE  SameAgents
  <2>1. UNCHANGED agentOf \/ \E S : Closed(S)
    BY <1>6 DEF UseBegins, DeleteBegins, InsertsClaimed, InsertsCold, AgentChangeBegins,
       sessionVars
  <2> QED
    BY <1>1, <1>4, <2>1
<1>7. ASSUME NEW q \in Requests,
             \/ \E a \in Agents : NewBegins(q, a) \/ PrewarmBegins(q, a)
             \/ \E s \in Sessions, a \in Agents : ClaimBegins(q, s, a)
             \/ UseOpens(q) \/ UseEndsEarly(q) \/ ConversationStarts(q)
             \/ UseReturnsThread(q) \/ UseEnds(q) \/ SavesThread(q)
             \/ ClaimMatches(q) \/ CreateFails(q)
             \/ AgentChangeRefused(q) \/ AgentChangeRequires(q) \/ AgentChangeRecords(q)
             \/ DeleteEnds(q) \/ DeleteAllEnds(q) \/ PrewarmFails(q)
      PROVE  SameAgents
  <2>1. UNCHANGED agentOf
    BY <1>7 DEF NewBegins, PrewarmBegins, ClaimBegins, UseOpens, UseEndsEarly,
       ConversationStarts, UseReturnsThread, UseEnds, SavesThread, ClaimMatches, CreateFails,
       AgentChangeRefused, AgentChangeRequires, AgentChangeRecords, DeleteEnds, DeleteAllEnds,
       PrewarmFails, sessionVars
  <2> QED
    BY <1>4, <2>1
<1>8. ASSUME NEW q \in Requests, ClaimRefused(q) \/ AgentChangeCloses(q) \/ DeleteAllBegins(q)
      PROVE  SameAgents
  <2>1. \E S : Closed(S)
    BY <1>8 DEF ClaimRefused, AgentChangeCloses, DeleteAllBegins
  <2> QED
    BY <1>1, <2>1
<1>9. ASSUME NEW c \in Chats, CreationFails(c) \/ DeleteArchived(c)
      PROVE  SameAgents
  BY <1>4, <1>9 DEF CreationFails, DeleteArchived, sessionVars
<1>10. ASSUME NEW s \in Sessions,
              InspectionSucceeds(s) \/ InspectionFails(s) \/ ProcessChanges(s)
       PROVE  SameAgents
  <2>1. UNCHANGED agentOf \/ \E S : Closed(S)
    BY <1>10 DEF InspectionSucceeds, InspectionFails, ProcessChanges
  <2> QED
    BY <1>1, <1>4, <2>1
<1>11. CASE Refreshes
  BY <1>4, <1>11 DEF Refreshes, sessionVars
<1> QED
  BY <1>2, <1>3, <1>5, <1>6, <1>7, <1>8, <1>9, <1>10, <1>11 DEF Next

\* The session of a chat, and one that a request has claimed.
LEMMA MappedKeepsAgent ==
  ASSUME IInv, IInv', SameAgents, NEW c \in Chats, sessionOf'[c] # NoSession,
         sessionOf'[c] = sessionOf[c]
  PROVE  agentOf'[sessionOf[c]] = agentOf[sessionOf[c]]
<1>1. sessionOf[c] \in Mapped /\ sessionOf[c] \in Mapped'
  BY DEF Mapped
<1> QED
  BY <1>1 DEF SameAgents, IInv, OneOwner

LEMMA ClaimedKeepsAgent ==
  ASSUME IInv, IInv', SameAgents, NEW p \in Requests, request[p].at \in CreatePhases,
         request'[p] = request[p], request[p].session # NoSession
  PROVE  agentOf'[request[p].session] = agentOf[request[p].session]
<1>1. request[p].session \in Claimed /\ request[p].session \in Claimed'
  BY DEF Claimed, Creating
<1> QED
  BY <1>1 DEF SameAgents, IInv, OneOwner

-----------------------------------------------------------------------------
(* The agent of a chat *)

\* What belongs to a chat is of the agent of its row.
ChatAgents(c) ==
  Exists(c) =>
    /\ sessionOf[c] # NoSession => agentOf[sessionOf[c]] = row[c].agent
    /\ row[c].thread \in {NoAgent, row[c].agent}
    /\ creations[c] # NoAgent => creations[c] = row[c].agent

\* What a request holds is of the agent it names, and a change of the agent meets no
\* other request of the chat and, once it has passed its checks, no session and no
\* thread.
RequestAgents(q) ==
  /\ request[q].at \in {"using", "saving"} /\ Exists(request[q].chat) =>
       request[q].agent = row[request[q].chat].agent
  /\ request[q].at = "inserting" /\ request[q].session # NoSession =>
       agentOf[request[q].session] = request[q].agent
  /\ request[q].at \in AgentChangePhases => ~At(UsePhases, request[q].chat)
  /\ request[q].at \in {"requiring", "recording"} =>
       sessionOf[request[q].chat] = NoSession
  /\ request[q].at = "recording" => row[request[q].chat].thread = NoAgent

AgentsOK == (\A c \in Chats : ChatAgents(c)) /\ \A q \in Requests : RequestAgents(q)

\* A step that only takes away, or makes requests that hold nothing.
AgentCalm ==
  /\ \A c \in Chats :
       /\ row'[c] \in {row[c], NoRow}
       /\ sessionOf'[c] \in {sessionOf[c], NoSession}
       /\ creations'[c] \in {creations[c], NoAgent}
  /\ \A q \in Requests :
       \/ request'[q] = request[q]
       \/ request'[q].at \in {"idle", "matching", "warming", "deleting", "deleting all"}
       \/ request'[q].at = "inserting" /\ request'[q].session = NoSession

LEMMA ChatAgentsStay ==
  ASSUME IInv, IInv', SameAgents, NEW c \in Chats, ChatAgents(c),
         row'[c] \in {row[c], NoRow}, sessionOf'[c] \in {sessionOf[c], NoSession},
         creations'[c] \in {creations[c], NoAgent}
  PROVE  ChatAgents(c)'
<1>1. CASE row'[c] = NoRow
  BY <1>1 DEF ChatAgents, Exists
<1>2. CASE row'[c] = row[c] /\ sessionOf'[c] = NoSession
  BY <1>2 DEF ChatAgents, Exists
<1>3. CASE row'[c] = row[c] /\ sessionOf'[c] = sessionOf[c] /\ sessionOf[c] # NoSession
  BY <1>3, MappedKeepsAgent DEF ChatAgents, Exists
<1> QED
  BY <1>1, <1>2, <1>3

LEMMA AgentCalmKeeps ==
  ASSUME IInv, IInv', Known, SameAgents, AgentsOK, AgentCalm
  PROVE  AgentsOK'
<1>1. ASSUME NEW c \in Chats PROVE ChatAgents(c)'
  BY ChatAgentsStay DEF AgentsOK, AgentCalm
<1>2. ASSUME NEW q \in Requests, request'[q] = request[q]
      PROVE  RequestAgents(q)'
  <2> DEFINE c == request[q].chat
  <2>1. RequestAgents(q) /\ RequestKnows(q)
    BY DEF AgentsOK, Known
  <2>2. CASE request[q].at \in {"using", "saving"}
    <3>1. c \in Chats
      BY <2>1, <2>2 DEF RequestKnows, ChatPhases, UsePhases
    <3> QED
      BY <1>2, <2>1, <2>2, <3>1 DEF RequestAgents, AgentCalm, Exists, AgentChangePhases
  <2>3. CASE request[q].at = "inserting"
    BY <1>2, <2>1, <2>3, ClaimedKeepsAgent DEF RequestAgents, CreatePhases, AgentChangePhases
  <2>4. CASE request[q].at \in AgentChangePhases
    <3>1. c \in Chats
      BY <2>1, <2>4 DEF RequestKnows, ChatPhases
    <3>2. ~At(UsePhases, c)
      BY <2>1, <2>4 DEF RequestAgents
    <3>3. \A p \in Requests : request'[p].at \in UsePhases => request'[p].chat # c
      BY <3>2 DEF At, AgentCalm, UsePhases
    <3>4. request[q].at \in {"requiring", "recording"} => sessionOf'[c] = NoSession
      BY <2>1, <3>1 DEF RequestAgents, AgentCalm
    <3>5. request[q].at = "recording" => row'[c].thread = NoAgent
      <4>1. NoRow.thread = NoAgent
        BY DEF NoRow
      <4>2. row'[c] = row[c] \/ row'[c] = NoRow
        BY <3>1 DEF AgentCalm
      <4>3. request[q].at = "recording" => row[c].thread = NoAgent
        BY <2>1 DEF RequestAgents
      <4> QED
        BY <4>1, <4>2, <4>3
    <3> QED
      BY <1>2, <2>4, <3>3, <3>4, <3>5 DEF RequestAgents, At, AgentChangePhases
  <2> QED
    BY <1>2, <2>2, <2>3, <2>4 DEF RequestAgents, AgentChangePhases
<1>3. ASSUME NEW q \in Requests, request'[q] # request[q]
      PROVE  RequestAgents(q)'
  BY <1>3 DEF AgentCalm, RequestAgents, AgentChangePhases
<1> QED
  BY <1>1, <1>2, <1>3 DEF AgentsOK

\* A step of one request, which touches no chat but c.
LEMMA AgentsByOne ==
  ASSUME IInv, IInv', Known, SameAgents, AgentsOK, NEW q \in Requests, Others(q), NEW c,
         \A d \in Chats : d # c =>
           row'[d] = row[d] /\ sessionOf'[d] = sessionOf[d] /\ creations'[d] = creations[d],
         c \in Chats => ChatAgents(c)', RequestAgents(q)',
         request'[q].at \in UsePhases => request'[q].chat = c,
         \A p \in Requests :
           /\ p # q /\ request[p].at \in {"using", "saving"} /\ request[p].chat = c =>
                row'[c] = NoRow \/ (row'[c].agent = row[c].agent /\ row[c] # NoRow)
           /\ p # q /\ request[p].at \in AgentChangePhases /\ request[p].chat = c =>
                /\ row'[c].thread = row[c].thread /\ sessionOf'[c] \in {sessionOf[c], NoSession}
                /\ request'[q].at \notin UsePhases
  PROVE  AgentsOK'
<1>1. ASSUME NEW d \in Chats PROVE ChatAgents(d)'
  BY ChatAgentsStay DEF AgentsOK
<1>2. ASSUME NEW p \in Requests, p # q PROVE RequestAgents(p)'
  <2> DEFINE d == request[p].chat
  <2>1. RequestAgents(p) /\ RequestKnows(p) /\ request'[p] = request[p]
    BY <1>2 DEF AgentsOK, Known, Others
  <2>2. CASE request[p].at \in {"using", "saving"}
    <3>1. d \in Chats
      BY <2>1, <2>2 DEF RequestKnows, ChatPhases, UsePhases
    <3>2. \/ row'[d] = NoRow \/ row'[d] = row[d]
          \/ row'[d].agent = row[d].agent /\ row[d] # NoRow
      BY <1>2, <2>2, <3>1
    <3> QED
      BY <2>1, <2>2, <3>2 DEF RequestAgents, Exists, AgentChangePhases
  <2>3. CASE request[p].at = "inserting"
    BY <2>1, <2>3, ClaimedKeepsAgent DEF RequestAgents, CreatePhases, AgentChangePhases
  <2>4. CASE request[p].at \in AgentChangePhases
    <3>1. d \in Chats
      BY <2>1, <2>4 DEF RequestKnows, ChatPhases
    <3>2. ~At(UsePhases, d)
      BY <2>1, <2>4 DEF RequestAgents
    <3>3. /\ row'[d].thread = row[d].thread /\ sessionOf'[d] \in {sessionOf[d], NoSession}
          /\ request'[q].at \in UsePhases => request'[q].chat # d
      BY <1>2, <2>4, <3>1
    <3>4. ASSUME NEW o \in Requests, request'[o].at \in UsePhases
          PROVE  request'[o].chat # d
      <4>1. CASE o = q
        BY <3>3, <3>4, <4>1
      <4>2. CASE o # q
        BY <3>2, <3>4, <4>2 DEF At, Others
      <4> QED
        BY <4>1, <4>2
    <3> QED
      BY <2>1, <2>4, <3>3, <3>4 DEF RequestAgents, At, AgentChangePhases
  <2> QED
    BY <2>1, <2>2, <2>3, <2>4 DEF RequestAgents, AgentChangePhases
<1> QED
  BY <1>1, <1>2 DEF AgentsOK

-----------------------------------------------------------------------------
(* Steps that hand on a session, or change the row of a chat *)

\* A change of the agent meets no request of the chat.
AgentChangesWait == "use during agent change" \notin Overlaps

LEMMA UsersMeetNoChange ==
  ASSUME AgentsOK, NEW q \in Requests, request[q].at \in UsePhases,
         NEW p \in Requests, request[p].at \in AgentChangePhases
  PROVE  request[p].chat # request[q].chat
  BY DEF AgentsOK, RequestAgents, At

LEMMA UseBeginsAgents ==
  ASSUME IInv, IInv', Known, SameAgents, AgentsOK, AgentChangesWait,
         NEW q \in Requests, NEW c \in Chats, UseBegins(q, c)
  PROVE  AgentsOK'
<1>1. Others(q) /\ request'[q].at = "reading" /\ request'[q].chat = c
  BY ReadingBegins DEF IInv
<1>2. ~At(AgentChangePhases, c) /\ UNCHANGED <<row, sessionOf, creations>>
  BY DEF UseBegins, AgentChangesWait
<1>3. ChatAgents(c)'
  BY <1>2, ChatAgentsStay DEF AgentsOK
<1>4. RequestAgents(q)'
  BY <1>1 DEF RequestAgents, AgentChangePhases
<1>5. \A p \in Requests : request[p].at \in AgentChangePhases => request[p].chat # c
  BY <1>2 DEF At
<1>6. \A p \in Requests :
        request[p].at \in {"using", "saving"} /\ request[p].chat = c /\ p # q =>
          row'[c] = NoRow \/ (row'[c].agent = row[c].agent /\ row[c] # NoRow)
  BY <1>2
<1> QED
  BY <1>1, <1>2, <1>3, <1>4, <1>5, <1>6, AgentsByOne

LEMMA UseOpensAgents ==
  ASSUME IInv, IInv', Known, SameAgents, AgentsOK, NEW q \in Requests, UseOpens(q)
  PROVE  AgentsOK'
<1>1. PICK c : c = request[q].chat
  OBVIOUS
<1>2. /\ request[q].at = "reading" /\ UNCHANGED <<row, sessionOf>> /\ Exists(c)
      /\ OpensSession(q, c, row[c].agent)
  BY <1>1 DEF UseOpens
<1>3. c \in Chats /\ TypeOK
  BY <1>1, <1>2 DEF Known, RequestKnows, ChatPhases, UsePhases, IInv
<1>4. /\ Others(q) /\ request'[q].chat = c
      /\ \/ /\ sessionOf[c] # NoSession /\ request'[q].at = "using"
            /\ request'[q].agent = agentOf[sessionOf[c]] /\ creations' = creations
         \/ /\ sessionOf[c] = NoSession /\ request'[q].at = "opening"
            /\ creations' = [creations EXCEPT ![c] = IF @ = NoAgent THEN row[c].agent ELSE @]
  BY <1>2, <1>3, OpensRequest
<1>5. ChatAgents(c)
  BY <1>3 DEF AgentsOK
<1>6. /\ creations'[c] \in {creations[c], row[c].agent}
      /\ \A d \in Chats : d # c => creations'[d] = creations[d]
  BY <1>3, <1>4 DEF TypeOK
<1>7. sessionOf[c] # NoSession => agentOf'[sessionOf[c]] = agentOf[sessionOf[c]]
  BY <1>2, <1>3, MappedKeepsAgent
<1>8. ChatAgents(c)'
  BY <1>2, <1>5, <1>6, <1>7 DEF ChatAgents, Exists
<1>9. RequestAgents(q)'
  BY <1>2, <1>4, <1>5 DEF RequestAgents, AgentChangePhases, ChatAgents, Exists
<1>10. \A p \in Requests : request[p].at \in AgentChangePhases => request[p].chat # c
  BY <1>1, <1>2, UsersMeetNoChange DEF UsePhases
<1>11. \A p \in Requests :
        request[p].at \in {"using", "saving"} /\ request[p].chat = c /\ p # q =>
          row'[c] = NoRow \/ (row'[c].agent = row[c].agent /\ row[c] # NoRow)
  BY <1>2
<1> QED
  BY <1>2, <1>4, <1>6, <1>8, <1>9, <1>10, <1>11, AgentsByOne

\* A turn ends, and its thread is stored.
LEMMA UseReturnsAgents ==
  ASSUME IInv, IInv', Known, SameAgents, AgentsOK, NEW q \in Requests, UseReturnsThread(q)
  PROVE  AgentsOK'
<1>1. PICK c : c = request[q].chat
  OBVIOUS
<1>2. request[q].at = "using" /\ UNCHANGED <<row, sessionOf, creations>>
  BY DEF UseReturnsThread
<1>3. /\ Others(q) /\ request'[q].at = "saving" /\ request'[q].chat = c
      /\ request'[q].agent = request[q].agent
  BY <1>1, ReleasesRequest DEF UseReturnsThread, IInv
<1>4. c \in Chats => ChatAgents(c)'
  BY <1>2, ChatAgentsStay DEF AgentsOK
<1>5. RequestAgents(q)
  BY DEF AgentsOK
<1>6. RequestAgents(q)'
  BY <1>1, <1>2, <1>3, <1>5 DEF RequestAgents, AgentChangePhases, Exists
<1>7. \A p \in Requests : request[p].at \in AgentChangePhases => request[p].chat # c
  BY <1>1, <1>2, UsersMeetNoChange DEF UsePhases
<1>8. \A p \in Requests :
        request[p].at \in {"using", "saving"} /\ request[p].chat = c /\ p # q =>
          row'[c] = NoRow \/ (row'[c].agent = row[c].agent /\ row[c] # NoRow)
  BY <1>2
<1> QED
  BY <1>2, <1>3, <1>4, <1>6, <1>7, <1>8, AgentsByOne

LEMMA SavesAgents ==
  ASSUME IInv, IInv', Known, SameAgents, AgentsOK, NEW q \in Requests, SavesThread(q)
  PROVE  AgentsOK'
<1>1. PICK c : c = request[q].chat
  OBVIOUS
<1>2. request[q].at = "saving" /\ UNCHANGED <<sessionOf, creations>> /\ Ends(q)
  BY DEF SavesThread
<1>3. c \in Chats /\ TypeOK
  BY <1>1, <1>2 DEF Known, RequestKnows, ChatPhases, UsePhases, IInv
<1>4. Others(q) /\ request'[q].at = "idle"
  BY <1>2, <1>3, EndsRequest
<1>5. /\ \A d \in Chats : d # c => row'[d] = row[d]
      /\ row'[c].agent = row[c].agent
      /\ Exists(c) => row'[c].thread = request[q].agent
      /\ ~Exists(c) => row'[c] = row[c]
  <2>1. row \in [Chats -> Row]
    BY <1>3 DEF TypeOK
  <2> QED
    BY <1>1, <1>3, <2>1 DEF SavesThread, Row
<1>6. ChatAgents(c)'
  <2>1. ChatAgents(c) /\ RequestAgents(q)
    BY <1>3 DEF AgentsOK
  <2>2. CASE ~Exists(c)
    BY <1>2, <1>3, <1>5, <2>1, <2>2, ChatAgentsStay
  <2>3. CASE Exists(c)
    <3>1. row'[c].thread = row[c].agent
      BY <1>1, <1>2, <1>5, <2>1, <2>3 DEF RequestAgents
    <3>2. sessionOf[c] # NoSession => agentOf'[sessionOf[c]] = agentOf[sessionOf[c]]
      BY <1>2, <1>3, MappedKeepsAgent
    <3> QED
      BY <1>2, <1>5, <2>1, <2>3, <3>1, <3>2 DEF ChatAgents
  <2> QED
    BY <2>2, <2>3
<1>7. RequestAgents(q)'
  BY <1>4 DEF RequestAgents, AgentChangePhases
<1>8. \A p \in Requests : request[p].at \in AgentChangePhases => request[p].chat # c
  BY <1>1, <1>2, UsersMeetNoChange DEF UsePhases
<1>9. \A p \in Requests :
        request[p].at \in {"using", "saving"} /\ request[p].chat = c /\ p # q =>
          row'[c] = NoRow \/ (row'[c].agent = row[c].agent /\ row[c] # NoRow)
  BY <1>5 DEF Exists
<1> QED
  BY <1>2, <1>4, <1>5, <1>6, <1>7, <1>8, <1>9, AgentsByOne DEF UsePhases

\* A chat is inserted with the session that was claimed for it, or without.
LEMMA InsertsAgents ==
  ASSUME IInv, IInv', Known, SameAgents, AgentsOK, NEW q \in Requests, NEW c \in Chats,
         InsertsClaimed(q, c) \/ InsertsCold(q, c)
  PROVE  AgentsOK'
<1>1. PICK thread \in {NoAgent, request[q].agent} : Inserted(c, request[q].agent, thread)
  BY DEF InsertsClaimed, InsertsCold
<1>2. request[q].at = "inserting" /\ FreshChat(c) /\ TypeOK
  BY DEF InsertsClaimed, InsertsCold, IInv
<1>3. /\ row'[c] = [agent |-> request[q].agent, thread |-> thread]
      /\ \A d \in Chats : d # c => row'[d] = row[d]
  BY <1>1, <1>2, InsertedRow
<1>4. row'[c].agent = request[q].agent /\ row'[c].thread = thread
  BY <1>3
<1>5. /\ sessionOf[c] = NoSession /\ creations[c] = NoAgent
      /\ \A p \in Requests : request[p].chat # c
  BY <1>2 DEF FreshChat
<1>6. CASE InsertsClaimed(q, c)
  <2>1. PICK s : s = request[q].session
    OBVIOUS
  <2>2. /\ s # NoSession /\ sessionOf'[c] = s /\ UNCHANGED <<creations, agentOf>>
        /\ \A d \in Chats : d # c => sessionOf'[d] = sessionOf[d]
    BY <1>2, <1>6, <2>1 DEF InsertsClaimed, TypeOK, sessionVars
  <2>3. agentOf[s] = request[q].agent
    BY <1>2, <2>1, <2>2 DEF AgentsOK, RequestAgents
  <2>4. /\ Others(q) /\ request'[q].at \in {"idle", "saving", "using"}
        /\ request'[q].at # "idle" =>
             request'[q].chat = c /\ request'[q].agent = request[q].agent
    BY <1>2, <1>6, InsertsRequest
  <2>5. ChatAgents(c)'
    BY <1>1, <1>4, <1>5, <2>2, <2>3 DEF ChatAgents
  <2>6. RequestAgents(q)'
    BY <1>4, <2>4 DEF RequestAgents, AgentChangePhases
  <2>7. request'[q].at \in UsePhases => request'[q].chat = c
    BY <2>4 DEF UsePhases
  <2> QED
    BY <1>3, <1>5, <2>2, <2>4, <2>5, <2>6, <2>7, AgentsByOne
<1>7. CASE InsertsCold(q, c)
  <2>1. UNCHANGED sessionOf
    BY <1>7 DEF InsertsCold
  <2>2. /\ Others(q) /\ request'[q].at \in {"idle", "opening"}
        /\ request'[q].at # "idle" => request'[q].chat = c
        /\ creations'[c] \in {NoAgent, request[q].agent}
        /\ \A d \in Chats : d # c => creations'[d] = creations[d]
    <3>1. CASE Ends(q) /\ UNCHANGED creations
      BY <1>2, <1>5, <3>1, EndsRequest
    <3>2. CASE OpensSession(q, c, request[q].agent)
      <4>1. PICK a : a = request[q].agent /\ OpensSession(q, c, a)
        BY <3>2
      <4>2. /\ Others(q) /\ request'[q].at = "opening" /\ request'[q].chat = c
            /\ creations' = [creations EXCEPT ![c] = IF @ = NoAgent THEN a ELSE @]
        <5>1. /\ Others(q) /\ request'[q].chat = c
              /\ \/ /\ sessionOf[c] # NoSession /\ request'[q].at = "using"
                    /\ request'[q].agent = agentOf[sessionOf[c]]
                    /\ refreshing' = TRUE /\ creations' = creations
                 \/ /\ sessionOf[c] = NoSession /\ request'[q].at = "opening"
                    /\ refreshing' = refreshing
                    /\ creations' = [creations EXCEPT ![c] = IF @ = NoAgent THEN a ELSE @]
          <6>1. TypeOK /\ OpensSession(q, c, a)
            BY <1>2, <4>1
          <6> QED
            BY <6>1, OpensRequest
        <5> QED
          BY <1>5, <5>1
      <4> QED
        BY <1>2, <1>5, <4>1, <4>2 DEF TypeOK
    <3> QED
      BY <1>7, <3>1, <3>2 DEF InsertsCold
  <2>3. ChatAgents(c)'
    BY <1>1, <1>4, <1>5, <2>1, <2>2 DEF ChatAgents
  <2>4. RequestAgents(q)'
    BY <2>2 DEF RequestAgents, AgentChangePhases
  <2>5. request'[q].at \in UsePhases => request'[q].chat = c
    BY <2>2 DEF UsePhases
  <2> QED
    BY <1>3, <1>5, <2>1, <2>2, <2>3, <2>4, <2>5, AgentsByOne
<1> QED
  BY <1>6, <1>7

LEMMA ClaimMatchesAgents ==
  ASSUME IInv, IInv', Known, SameAgents, AgentsOK, NEW q \in Requests, ClaimMatches(q)
  PROVE  AgentsOK'
<1>1. /\ UNCHANGED <<row, sessionOf, creations, agentOf>> /\ Goes(q, "inserting")
      /\ agentOf[request[q].session] = request[q].agent
  BY DEF ClaimMatches, Matches, sessionVars
<1>2. /\ Others(q) /\ request'[q].at = "inserting"
      /\ request'[q].session = request[q].session /\ request'[q].agent = request[q].agent
  BY <1>1, GoesRequest DEF IInv
<1>3. RequestAgents(q)'
  BY <1>1, <1>2 DEF RequestAgents, AgentChangePhases
<1>4. PICK c : c \notin Chats
  <2>1. NoChat \notin Chats
    BY NullsAssumption
  <2> QED
    BY <2>1
<1>5. \A p \in Requests :
        request[p].at \in {"using", "saving"} \cup AgentChangePhases => request[p].chat # c
  BY <1>4 DEF Known, RequestKnows, ChatPhases, UsePhases
<1>6. request'[q].at \notin UsePhases
  BY <1>2 DEF UsePhases
<1> QED
  BY <1>1, <1>2, <1>3, <1>4, <1>5, <1>6, AgentsByOne

\* The agent of a chat is changed.
LEMMA ChangeBeginsAgents ==
  ASSUME IInv, IInv', Known, SameAgents, AgentsOK, AgentChangesWait,
         NEW q \in Requests, NEW c \in Chats, NEW a \in Agents, AgentChangeBegins(q, c, a)
  PROVE  AgentsOK'
<1>1. Others(q) /\ request'[q].at = "checking" /\ request'[q].chat = c
  BY CheckingBegins DEF IInv
<1>2. ~At(UsePhases, c) /\ UNCHANGED <<row, sessionOf, creations>>
  BY DEF AgentChangeBegins, AgentChangesWait
<1>3. ChatAgents(c)'
  BY <1>2, ChatAgentsStay DEF AgentsOK
<1>4. RequestAgents(q)'
  <2>1. ~At(UsePhases, request[q].chat)'
    BY <1>1, <1>2 DEF At, Others, UsePhases
  <2> QED
    BY <1>1, <2>1 DEF RequestAgents
<1>5. \A p \in Requests :
        request[p].at \in {"using", "saving"} /\ request[p].chat = c /\ p # q =>
          row'[c] = NoRow \/ (row'[c].agent = row[c].agent /\ row[c] # NoRow)
  BY <1>2 DEF At, UsePhases
<1>6. request'[q].at \notin UsePhases
  BY <1>1 DEF UsePhases
<1> QED
  BY <1>1, <1>2, <1>3, <1>4, <1>5, <1>6, AgentsByOne

LEMMA ChangeStepsAgents ==
  ASSUME IInv, IInv', Known, SameAgents, AgentsOK, NEW q \in Requests,
         \/ AgentChangeCloses(q) \/ AgentChangeRequires(q) \/ AgentChangeRecords(q)
  PROVE  AgentsOK'
<1>1. PICK c : c = request[q].chat
  OBVIOUS
<1>2. request[q].at \in AgentChangePhases /\ TypeOK
  BY DEF AgentChangeCloses, AgentChangeRequires, AgentChangeRecords, AgentChangePhases, IInv
<1>3. c \in Chats /\ RequestAgents(q) /\ ChatAgents(c)
  BY <1>1, <1>2 DEF Known, RequestKnows, ChatPhases, AgentsOK
<1>4. ~At(UsePhases, c)
  BY <1>1, <1>2, <1>3 DEF RequestAgents
<1>5. \A p \in Requests : request[p].at \in {"using", "saving"} => request[p].chat # c
  BY <1>4 DEF At, UsePhases
<1>6. CASE AgentChangeCloses(q)
  <2>1. /\ UNCHANGED <<row, creations>> /\ Goes(q, "requiring") /\ sessionOf'[c] = NoSession
        /\ \A d \in Chats : d # c => sessionOf'[d] = sessionOf[d]
    BY <1>1, <1>2, <1>3, <1>6 DEF AgentChangeCloses, TypeOK
  <2>2. Others(q) /\ request'[q].at = "requiring" /\ request'[q].chat = c
    BY <1>1, <1>2, <2>1, GoesRequest
  <2>3. ChatAgents(c)'
    BY <1>3, <2>1, ChatAgentsStay
  <2>4. ~At(UsePhases, request[q].chat)'
    BY <1>4, <2>2 DEF At, Others, UsePhases
  <2>5. RequestAgents(q)'
    BY <2>1, <2>2, <2>4 DEF RequestAgents
  <2>6. request'[q].at \notin UsePhases
    BY <2>2 DEF UsePhases
  <2> QED
    BY <1>5, <2>1, <2>2, <2>3, <2>5, <2>6, AgentsByOne
<1>7. CASE AgentChangeRequires(q)
  <2>1. /\ UNCHANGED <<row, sessionOf, creations>> /\ Goes(q, "recording")
        /\ request[q].at = "requiring" /\ row[c].thread = NoAgent
    BY <1>1, <1>7 DEF AgentChangeRequires
  <2>2. Others(q) /\ request'[q].at = "recording" /\ request'[q].chat = c
    BY <1>1, <1>2, <2>1, GoesRequest
  <2>3. ChatAgents(c)'
    BY <1>3, <2>1, ChatAgentsStay
  <2>4. ~At(UsePhases, request[q].chat)'
    BY <1>4, <2>2 DEF At, Others, UsePhases
  <2>5. RequestAgents(q)'
    BY <1>1, <1>3, <2>1, <2>2, <2>4 DEF RequestAgents
  <2>6. request'[q].at \notin UsePhases
    BY <2>2 DEF UsePhases
  <2> QED
    BY <1>5, <2>1, <2>2, <2>3, <2>5, <2>6, AgentsByOne
<1>8. CASE AgentChangeRecords(q)
  <2>1. UNCHANGED <<sessionOf, creations>> /\ Ends(q) /\ request[q].at = "recording"
    BY <1>8 DEF AgentChangeRecords
  <2>2. Others(q) /\ request'[q].at = "idle"
    BY <1>2, <2>1, EndsRequest
  <2>3. /\ \A d \in Chats : d # c => row'[d] = row[d]
        /\ row'[c].thread = row[c].thread
    <3>1. row \in [Chats -> Row]
      BY <1>2 DEF TypeOK
    <3> QED
      BY <1>1, <1>3, <1>8, <3>1 DEF AgentChangeRecords, Row
  <2>4. row[c].thread = NoAgent /\ sessionOf[c] = NoSession
    BY <1>1, <1>3, <2>1 DEF RequestAgents
  <2>5. creations[c] = NoAgent
    BY <1>3, <1>4 DEF Known, CreationAwaited, At, UsePhases
  <2>6. ChatAgents(c)'
    BY <2>1, <2>3, <2>4, <2>5 DEF ChatAgents
  <2>7. RequestAgents(q)' /\ request'[q].at \notin UsePhases
    BY <2>2 DEF RequestAgents, AgentChangePhases, UsePhases
  <2> QED
    BY <1>5, <2>1, <2>2, <2>3, <2>6, <2>7, AgentsByOne
<1> QED
  BY <1>6, <1>7, <1>8

\* A session is made for a chat.
LEMMA CreationSucceedsAgents ==
  ASSUME IInv, IInv', Known, SameAgents, AgentsOK, NEW c \in Chats, CreationSucceeds(c)
  PROVE  AgentsOK'
<1>1. PICK s \in Sessions :
        /\ Fresh(s) /\ Constructed(s, creations[c])
        /\ sessionOf' = [sessionOf EXCEPT ![c] = s]
  BY DEF CreationSucceeds
<1>2. /\ UNCHANGED row /\ creations[c] # NoAgent /\ TypeOK
      /\ creations' = [creations EXCEPT ![c] = NoAgent]
  BY DEF CreationSucceeds, IInv
<1>3. /\ agentOf'[s] = creations[c] /\ sessionOf'[c] = s /\ creations'[c] = NoAgent
      /\ \A d \in Chats : d # c =>
           sessionOf'[d] = sessionOf[d] /\ creations'[d] = creations[d]
  BY <1>1, <1>2 DEF Constructed, ConstructedAndClosed, TypeOK
<1>4. \A p \in Requests :
        IF request[p].at = "opening" /\ request[p].chat = c
        THEN request'[p].at = "using" /\ request'[p].chat = c /\ request'[p].agent = creations[c]
        ELSE request'[p] = request[p]
  BY <1>2, CreationRequests
<1>5. At({"opening"}, c)
  BY <1>2 DEF Known, CreationAwaited
<1>6. ChatAgents(c)
  BY DEF AgentsOK
<1>7. ASSUME NEW d \in Chats PROVE ChatAgents(d)'
  <2>1. CASE d = c
    BY <1>2, <1>3, <1>6, <2>1 DEF ChatAgents, Exists
  <2>2. CASE d # c
    BY <1>2, <1>3, <2>2, ChatAgentsStay DEF AgentsOK
  <2> QED
    BY <2>1, <2>2
<1>8. ASSUME NEW p \in Requests PROVE RequestAgents(p)'
  <2> DEFINE d == request[p].chat
  <2>1. RequestAgents(p) /\ RequestKnows(p)
    BY DEF AgentsOK, Known
  <2>2. CASE request[p].at = "opening" /\ request[p].chat = c
    BY <1>2, <1>4, <1>6, <2>2 DEF RequestAgents, AgentChangePhases, ChatAgents, Exists
  <2>3. CASE request'[p] = request[p] /\ request[p].at \in {"using", "saving"}
    BY <1>2, <2>1, <2>3 DEF RequestAgents, AgentChangePhases, Exists
  <2>4. CASE request'[p] = request[p] /\ request[p].at = "inserting"
    BY <2>1, <2>4, ClaimedKeepsAgent DEF RequestAgents, CreatePhases, AgentChangePhases
  <2>5. CASE request'[p] = request[p] /\ request[p].at \in AgentChangePhases
    <3>1. d \in Chats /\ ~At(UsePhases, d)
      BY <2>1, <2>5 DEF RequestKnows, ChatPhases, RequestAgents
    <3>2. d # c
      BY <1>5, <3>1 DEF At, UsePhases
    <3>3. \A o \in Requests : request'[o].at \in UsePhases => request'[o].chat # d
      BY <1>4, <3>1, <3>2 DEF At
    <3> QED
      BY <1>2, <1>3, <2>1, <2>5, <3>1, <3>2, <3>3 DEF RequestAgents, At, AgentChangePhases
  <2>6. CASE /\ request'[p] = request[p]
             /\ request[p].at \notin {"using", "saving", "inserting"} \cup AgentChangePhases
    BY <2>6 DEF RequestAgents, AgentChangePhases
  <2> QED
    BY <1>4, <2>2, <2>3, <2>4, <2>5, <2>6
<1> QED
  BY <1>7, <1>8 DEF AgentsOK

LEMMA AgentCalmByOne ==
  ASSUME TypeOK, NEW q \in Requests, Others(q),
         \/ request'[q].at \in {"idle", "matching", "warming", "deleting", "deleting all"}
         \/ request'[q].at = "inserting" /\ request'[q].session = NoSession,
         \A c \in Chats : /\ row'[c] \in {row[c], NoRow}
                          /\ sessionOf'[c] \in {sessionOf[c], NoSession}
                          /\ creations'[c] \in {creations[c], NoAgent}
  PROVE  AgentCalm
  BY DEF AgentCalm, Others

\* The steps that hand on nothing.
LEMMA AgentCalmSteps ==
  ASSUME TypeOK, NEW q \in Requests,
         \/ \E c \in Chats : DeleteBegins(q, c)
         \/ \E a \in Agents : NewBegins(q, a) \/ PrewarmBegins(q, a)
         \/ \E s \in Sessions, a \in Agents : ClaimBegins(q, s, a)
         \/ UseEndsEarly(q) \/ UseEnds(q) \/ ClaimRefused(q) \/ CreateFails(q)
         \/ AgentChangeRefused(q) \/ DeleteEnds(q) \/ DeleteAllBegins(q) \/ DeleteAllEnds(q)
         \/ PrewarmStores(q) \/ PrewarmFails(q)
  PROVE  AgentCalm
<1>1. \A c \in Chats : row'[c] \in {row[c], NoRow}
  BY DEF DeleteBegins, NewBegins, PrewarmBegins, ClaimBegins, UseEndsEarly, UseEnds,
     ClaimRefused, CreateFails, AgentChangeRefused, DeleteEnds, DeleteAllBegins, DeleteAllEnds,
     PrewarmStores, PrewarmFails, TypeOK
<1>2. \A c \in Chats : /\ sessionOf'[c] \in {sessionOf[c], NoSession}
                       /\ creations'[c] \in {creations[c], NoAgent}
  BY DEF DeleteBegins, NewBegins, PrewarmBegins, ClaimBegins, UseEndsEarly, UseEnds,
     ClaimRefused, CreateFails, AgentChangeRefused, DeleteEnds, DeleteAllBegins, DeleteAllEnds,
     PrewarmStores, PrewarmFails, TypeOK
<1>3. /\ Others(q)
      /\ \/ request'[q].at \in {"idle", "matching", "warming", "deleting", "deleting all"}
         \/ request'[q].at = "inserting" /\ request'[q].session = NoSession
  <2>1. ASSUME NEW c \in Chats, DeleteBegins(q, c)
        PROVE  Others(q) /\ request'[q].at = "deleting"
    BY <2>1, DeletingBegins
  <2>2. ASSUME NEW a \in Agents, NewBegins(q, a)
        PROVE  Others(q) /\ request'[q].at = "inserting" /\ request'[q].session = NoSession
    BY <2>2, InsertingBegins
  <2>3. ASSUME NEW a \in Agents, PrewarmBegins(q, a)
        PROVE  Others(q) /\ request'[q].at = "warming"
    BY <2>3, WarmingBegins
  <2>4. ASSUME NEW s \in Sessions, NEW a \in Agents, ClaimBegins(q, s, a)
        PROVE  Others(q) /\ request'[q].at = "matching"
    BY <2>4, MatchingBegins
  <2>5. CASE ClaimRefused(q)
    BY <2>5, ReleasesRequest DEF ClaimRefused
  <2>6. CASE DeleteAllBegins(q)
    BY <2>6, DeletingAllBegins
  <2>7. CASE Ends(q)
    BY <2>7, EndsRequest
  <2> QED
    BY <2>1, <2>2, <2>3, <2>4, <2>5, <2>6, <2>7 DEF UseEndsEarly, UseEnds, CreateFails,
       AgentChangeRefused, DeleteEnds, DeleteAllEnds, PrewarmStores, PrewarmFails
<1> QED
  BY <1>1, <1>2, <1>3, AgentCalmByOne

LEMMA AgentCalmElse ==
  ASSUME TypeOK,
         \/ UNCHANGED vars
         \/ \E q \in Requests : ConversationStarts(q)
         \/ \E c \in Chats : CreationFails(c) \/ DeleteArchived(c)
         \/ \E s \in Sessions :
              InspectionSucceeds(s) \/ InspectionFails(s) \/ ProcessChanges(s)
         \/ Refreshes
  PROVE  AgentCalm
<1>1. CASE \E c \in Chats : CreationFails(c)
  <2>1. PICK c \in Chats : CreationFails(c)
    BY <1>1
  <2>2. \A p \in Requests : request'[p] = request[p] \/ request'[p].at = "idle"
    BY <2>1, CreationRequests
  <2>3. /\ UNCHANGED <<row, sessionOf>>
        /\ \A d \in Chats : creations'[d] \in {creations[d], NoAgent}
    BY <2>1 DEF CreationFails, TypeOK
  <2> QED
    BY <2>2, <2>3 DEF AgentCalm
<1>2. CASE \E c \in Chats : DeleteArchived(c)
  <2>1. /\ UNCHANGED <<sessionOf, creations, request>>
        /\ \A d \in Chats : row'[d] \in {row[d], NoRow}
    BY <1>2 DEF DeleteArchived, TypeOK
  <2> QED
    BY <2>1 DEF AgentCalm
<1>3. ASSUME UNCHANGED <<row, sessionOf, creations, request>>
      PROVE  AgentCalm
  BY <1>3 DEF AgentCalm
<1>4. ASSUME \/ UNCHANGED vars
             \/ \E q \in Requests : ConversationStarts(q)
             \/ \E s \in Sessions :
                  InspectionSucceeds(s) \/ InspectionFails(s) \/ ProcessChanges(s)
             \/ Refreshes
      PROVE  UNCHANGED <<row, sessionOf, creations, request>>
  BY <1>4 DEF vars, ConversationStarts, InspectionSucceeds, InspectionFails, ProcessChanges,
     Refreshes
<1> QED
  BY <1>1, <1>2, <1>3, <1>4

LEMMA InitAgents == Init => AgentsOK
  BY IdleFields DEF Init, AgentsOK, ChatAgents, Exists, RequestAgents, AgentChangePhases

LEMMA StepAgents ==
  IInv /\ IInv' /\ Known /\ AgentsOK /\ AgentChangesWait /\ [Next]_vars => AgentsOK'
<1> SUFFICES ASSUME IInv, IInv', Known, AgentsOK, AgentChangesWait, [Next]_vars
             PROVE  AgentsOK'
  OBVIOUS
<1>t. TypeOK /\ SameAgents
  BY StepSameAgents DEF IInv
<1>1. ASSUME NEW q \in Requests, NEW c \in Chats,
             \/ UseBegins(q, c) \/ DeleteBegins(q, c)
             \/ InsertsClaimed(q, c) \/ InsertsCold(q, c)
             \/ \E a \in Agents : AgentChangeBegins(q, c, a)
      PROVE  AgentsOK'
  <2>1. CASE DeleteBegins(q, c)
    BY <1>t, <2>1, AgentCalmSteps, AgentCalmKeeps
  <2> QED
    BY <1>1, <1>t, <2>1, UseBeginsAgents, InsertsAgents, ChangeBeginsAgents
<1>2. ASSUME NEW q \in Requests,
             \/ UseOpens(q) \/ UseReturnsThread(q) \/ SavesThread(q) \/ ClaimMatches(q)
             \/ AgentChangeCloses(q) \/ AgentChangeRequires(q) \/ AgentChangeRecords(q)
      PROVE  AgentsOK'
  BY <1>2, <1>t, UseOpensAgents, UseReturnsAgents, SavesAgents, ClaimMatchesAgents,
     ChangeStepsAgents
<1>3. ASSUME NEW q \in Requests,
             \/ \E a \in Agents : NewBegins(q, a) \/ PrewarmBegins(q, a)
             \/ \E s \in Sessions, a \in Agents : ClaimBegins(q, s, a)
             \/ UseEndsEarly(q) \/ UseEnds(q) \/ ClaimRefused(q) \/ CreateFails(q)
             \/ AgentChangeRefused(q) \/ DeleteEnds(q) \/ DeleteAllBegins(q)
             \/ DeleteAllEnds(q) \/ PrewarmStores(q) \/ PrewarmFails(q)
      PROVE  AgentsOK'
  <2>1. AgentCalm
    BY <1>3, <1>t, AgentCalmSteps
  <2> QED
    BY <1>t, <2>1, AgentCalmKeeps
<1>4. ASSUME NEW c \in Chats, CreationSucceeds(c)
      PROVE  AgentsOK'
  BY <1>4, <1>t, CreationSucceedsAgents
<1>5. ASSUME \/ UNCHANGED vars
             \/ \E q \in Requests : ConversationStarts(q)
             \/ \E c \in Chats : CreationFails(c) \/ DeleteArchived(c)
             \/ \E s \in Sessions :
                  InspectionSucceeds(s) \/ InspectionFails(s) \/ ProcessChanges(s)
             \/ Refreshes
      PROVE  AgentsOK'
  <2>1. AgentCalm
    BY <1>5, <1>t, AgentCalmElse
  <2> QED
    BY <1>t, <2>1, AgentCalmKeeps
<1> QED
  BY <1>1, <1>2, <1>3, <1>4, <1>5 DEF Next

-----------------------------------------------------------------------------
(* No session without an owner *)

\* Requests make one session of an agent for the pool at a time, none while a claim
\* has taken one that it will refuse, and a claimed session ends up with its chat.
PoolIsOrderly ==
  {"prewarm twice", "prewarm in claim", "claim fails"} \cap Overlaps = {}

\* A session is being made for the pool where it has none of the agent.
WarmingAlone ==
  \A q \in Requests : request[q].at = "warming" =>
    /\ \A s \in InPool : agentOf[s] # request[q].agent
    /\ \A p \in Requests :
         request[p].at = "warming" /\ request[p].agent = request[q].agent => p = q

\* A claim that is to be refused has taken the only session of its agent.
RefusedAlone ==
  \A q \in Requests : request[q].at = "matching" =>
    /\ request[q].session # NoSession
    /\ ~Matches(request[q].session, request[q].agent) =>
         \A s \in InPool : agentOf[s] # agentOf[request[q].session]

KeysAlone == WarmingAlone /\ RefusedAlone

AllOwned == Open \subseteq InPool \cup Claimed \cup Mapped

\* Dropping a key drops no other entry.
LEMMA WithoutKeyKeeps ==
  ASSUME TypeOK, PoolKeysDiffer, NEW a, NEW s \in InPool, agentOf[s] # a
  PROVE  \E j \in DOMAIN WithoutKey(a) : WithoutKey(a)[j] = s
<1>1. PICK k \in DOMAIN prewarms : prewarms[k] = s
  BY DEF InPool
<1>2. /\ prewarms \in Seq(Sessions) /\ Len(prewarms) \in Nat
      /\ DOMAIN prewarms = 1 .. Len(prewarms)
  BY LenProperties DEF TypeOK
<1> DEFINE places == { i \in DOMAIN prewarms : agentOf[prewarms[i]] = a }
           place == CHOOSE i \in places : TRUE
<1>3. CASE places = {}
  <2>1. WithoutKey(a) = prewarms
    BY <1>3 DEF WithoutKey
  <2> QED
    BY <1>1, <2>1
<1>4. CASE places # {}
  <2>1. WithoutKey(a) = Removed(prewarms, place)
    BY <1>4 DEF WithoutKey
  <2>2. place \in DOMAIN prewarms /\ agentOf[prewarms[place]] = a
    BY <1>4
  <2> HIDE DEF place, places
  <2>3. k # place /\ k \in 1 .. Len(prewarms) /\ place \in 1 .. Len(prewarms)
    BY <1>1, <1>2, <2>2
  <2>4. CASE k < place
    <3>1. k \in 1 .. Len(prewarms) - 1
      BY <1>2, <2>3, <2>4
    <3> QED
      BY <1>1, <2>1, <2>4, <3>1 DEF Removed
  <2>5. CASE k > place
    <3>1. k - 1 \in 1 .. Len(prewarms) - 1 /\ ~ (k - 1 < place) /\ (k - 1) + 1 = k
      BY <1>2, <2>3, <2>5
    <3>2. PICK j : j = k - 1
      OBVIOUS
    <3>3. j \in 1 .. Len(prewarms) - 1 /\ ~ (j < place) /\ j + 1 = k
      BY <3>1, <3>2
    <3>4. j \in DOMAIN Removed(prewarms, place) /\ Removed(prewarms, place)[j] = prewarms[k]
      BY <3>3 DEF Removed
    <3> QED
      BY <1>1, <2>1, <3>4
  <2> QED
    BY <1>2, <2>3, <2>4, <2>5
<1> QED
  BY <1>3, <1>4

\* With no entry for the agent, the pool stays as it is.
LEMMA WithoutKeyAbsent ==
  ASSUME NEW a, \A s \in InPool : agentOf[s] # a
  PROVE  WithoutKey(a) = prewarms
  BY DEF InPool, WithoutKey

\* Claims stay, and no request starts to make a session for the pool or to claim one.
Steady ==
  \A p \in Requests :
    \/ request'[p] = request[p]
    \/ /\ request'[p].at \notin {"warming", "matching"}
       /\ request[p].at \in CreatePhases /\ request[p].session # NoSession =>
            request'[p].at \in CreatePhases /\ request'[p].session = request[p].session

LEMMA SteadyClaims ==
  ASSUME Steady
  PROVE  Claimed \subseteq Claimed'
  BY DEF Steady, Claimed, Creating

\* A claim that goes on keeps its session, and the pool gets none of its agent.
LEMMA RefusedStays ==
  ASSUME IInv, IInv', SameAgents, RefusedAlone, NEW q \in Requests,
         request'[q] = request[q], request[q].at = "matching",
         \A t \in InPool' : t \in InPool \/ agentOf'[t] # agentOf[request[q].session]
  PROVE  /\ request'[q].session # NoSession
         /\ ~Matches(request[q].session, request[q].agent)' =>
              \A t \in InPool' : agentOf'[t] # agentOf'[request'[q].session]
<1> DEFINE u == request[q].session
<1>1. u # NoSession /\ u \in Claimed
  BY DEF RefusedAlone, Claimed, Creating, CreatePhases
<1>2. u \in Claimed'
  BY <1>1 DEF Claimed, Creating, CreatePhases
<1>3. agentOf'[u] = agentOf[u]
  BY <1>1, <1>2 DEF IInv, OneOwner, SameAgents
<1>4. \A t \in InPool' : t \in InPool => agentOf'[t] = agentOf[t]
  BY DEF IInv, OneOwner, SameAgents
<1> QED
  BY <1>1, <1>3, <1>4 DEF RefusedAlone, Matches

LEMMA SteadyRefused ==
  ASSUME IInv, IInv', SameAgents, RefusedAlone, InPool' \subseteq InPool,
         \A p \in Requests : request'[p].at = "matching" => request'[p] = request[p]
  PROVE  RefusedAlone'
<1> SUFFICES ASSUME NEW p \in Requests, request'[p].at = "matching"
             PROVE  /\ request'[p].session # NoSession
                    /\ ~Matches(request[p].session, request[p].agent)' =>
                         \A t \in InPool' : agentOf'[t] # agentOf'[request'[p].session]
  BY DEF RefusedAlone
<1> QED
  BY RefusedStays

LEMMA SteadyWarming ==
  ASSUME IInv, IInv', SameAgents, KeysAlone, Steady, InPool' \subseteq InPool
  PROVE  KeysAlone'
<1>1. \A t \in InPool' : agentOf'[t] = agentOf[t]
  BY DEF IInv, OneOwner, SameAgents
<1>2. \A p \in Requests : request'[p].at = "warming" => request'[p] = request[p]
  BY DEF Steady
<1>3. WarmingAlone'
  BY <1>1, <1>2 DEF KeysAlone, WarmingAlone
<1>4. \A p \in Requests : request'[p].at = "matching" => request'[p] = request[p]
  BY DEF Steady
<1> QED
  BY <1>3, <1>4, SteadyRefused DEF KeysAlone

LEMMA SteadyByOne ==
  ASSUME NEW q \in Requests, Others(q), request'[q].at \notin {"warming", "matching"},
         request[q].at \in CreatePhases /\ request[q].session # NoSession =>
           request'[q].at \in CreatePhases /\ request'[q].session = request[q].session
  PROVE  Steady
  BY DEF Others, Steady

\* A step that touches no session.
LEMMA OwnedQuiet ==
  ASSUME IInv, IInv', SameAgents, AllOwned, KeysAlone, Steady,
         UNCHANGED <<sessionOf, prewarms, agentOf>>
  PROVE  (AllOwned /\ KeysAlone)'
<1>1. Open' = Open /\ InPool' = InPool /\ Mapped' = Mapped
  BY DEF Open, InPool, Mapped
<1> QED
  BY <1>1, SteadyClaims, SteadyWarming DEF AllOwned

LEMMA SteadySteps ==
  ASSUME IInv, PoolIsOrderly, NEW q \in Requests,
         \/ \E c \in Chats : \/ UseBegins(q, c) \/ InsertsCold(q, c)
                             \/ \E a \in Agents : AgentChangeBegins(q, c, a)
         \/ \E a \in Agents : NewBegins(q, a)
         \/ UseOpens(q) \/ UseEndsEarly(q) \/ UseReturnsThread(q) \/ UseEnds(q)
         \/ SavesThread(q) \/ ClaimMatches(q) \/ CreateFails(q) \/ AgentChangeRefused(q)
         \/ AgentChangeRequires(q) \/ AgentChangeRecords(q)
         \/ DeleteEnds(q) \/ DeleteAllEnds(q) \/ PrewarmFails(q)
  PROVE  Steady
<1>t. TypeOK /\ RequestsNamed
  BY DEF IInv
<1>1. ASSUME Ends(q), request[q].at \notin CreatePhases \/ request[q].session = NoSession
      PROVE  Steady
  BY <1>t, <1>1, EndsRequest, SteadyByOne
<1>2. ASSUME NEW c \in Chats, UseBegins(q, c)
      PROVE  Steady
  <2>1. Others(q) /\ request[q].at = "idle" /\ request'[q].at = "reading"
    BY <1>t, <1>2, ReadingBegins
  <2> QED
    BY <2>1, SteadyByOne DEF CreatePhases
<1>3. ASSUME NEW c \in Chats, NEW a \in Agents, AgentChangeBegins(q, c, a)
      PROVE  Steady
  <2>1. Others(q) /\ request[q].at = "idle" /\ request'[q].at = "checking"
    BY <1>t, <1>3, CheckingBegins
  <2> QED
    BY <2>1, SteadyByOne DEF CreatePhases
<1>4. ASSUME NEW a \in Agents, NewBegins(q, a)
      PROVE  Steady
  <2>1. Others(q) /\ request[q].at = "idle" /\ request'[q].at = "inserting"
    BY <1>t, <1>4, InsertingBegins
  <2> QED
    BY <2>1, SteadyByOne DEF CreatePhases
<1>5. ASSUME NEW c \in Chats, NEW a, OpensSession(q, c, a),
             request[q].at \notin CreatePhases \/ request[q].session = NoSession
      PROVE  Steady
  <2>1. Others(q) /\ request'[q].at \in {"using", "opening"}
    BY <1>t, <1>5, OpensRequest
  <2> QED
    BY <1>5, <2>1, SteadyByOne
<1>6. ASSUME NEW c \in Chats, InsertsCold(q, c)
      PROVE  Steady
  <2>1. /\ request[q].session = NoSession
        /\ Ends(q) \/ OpensSession(q, c, request[q].agent)
    BY <1>6 DEF InsertsCold
  <2> QED
    BY <1>1, <1>5, <2>1
<1>7. CASE UseOpens(q)
  <2>1. /\ request[q].at = "reading" /\ request[q].chat \in Chats
        /\ OpensSession(q, request[q].chat, row[request[q].chat].agent)
    BY <1>t, <1>7 DEF UseOpens, RequestsNamed
  <2> QED
    BY <1>5, <2>1 DEF CreatePhases
<1>8. CASE UseReturnsThread(q)
  <2>1. /\ request[q].at = "using"
        /\ request' = [request EXCEPT ![q].at = "saving", ![q].session = NoSession]
    BY <1>8 DEF UseReturnsThread
  <2>2. Others(q) /\ request'[q].at = "saving"
    BY <1>t, <2>1, ReleasesRequest
  <2> QED
    BY <2>1, <2>2, SteadyByOne DEF CreatePhases
<1>9. CASE ClaimMatches(q)
  <2>1. Goes(q, "inserting")
    BY <1>9 DEF ClaimMatches
  <2>2. /\ Others(q) /\ request'[q].at = "inserting"
        /\ request'[q].session = request[q].session
    BY <1>t, <2>1, GoesRequest
  <2> QED
    BY <2>2, SteadyByOne DEF CreatePhases
<1>10. CASE AgentChangeRequires(q)
  <2>1. request[q].at = "requiring" /\ Goes(q, "recording")
    BY <1>10 DEF AgentChangeRequires
  <2>2. Others(q) /\ request'[q].at = "recording"
    BY <1>t, <2>1, GoesRequest
  <2> QED
    BY <2>1, <2>2, SteadyByOne DEF CreatePhases
<1>11. CASE CreateFails(q)
  <2>1. Ends(q) /\ request[q].session = NoSession
    BY <1>11 DEF CreateFails, PoolIsOrderly
  <2> QED
    BY <1>1, <2>1
<1>12. CASE \/ UseEndsEarly(q) \/ UseEnds(q) \/ SavesThread(q) \/ AgentChangeRefused(q)
            \/ AgentChangeRecords(q) \/ DeleteEnds(q) \/ DeleteAllEnds(q) \/ PrewarmFails(q)
  <2>1. Ends(q) /\ request[q].at \notin CreatePhases
    BY <1>12 DEF UseEndsEarly, UseEnds, SavesThread, AgentChangeRefused, AgentChangeRecords,
       DeleteEnds, DeleteAllEnds, PrewarmFails, CreatePhases
  <2> QED
    BY <1>1, <2>1
<1> QED
  BY <1>2, <1>3, <1>4, <1>6, <1>7, <1>8, <1>9, <1>10, <1>11, <1>12

LEMMA OwnedQuietSteps ==
  ASSUME IInv, IInv', SameAgents, AllOwned, KeysAlone, PoolIsOrderly,
         \/ \E q \in Requests :
              \/ \E c \in Chats : \/ UseBegins(q, c) \/ InsertsCold(q, c)
                                  \/ \E a \in Agents : AgentChangeBegins(q, c, a)
              \/ \E a \in Agents : NewBegins(q, a)
              \/ UseOpens(q) \/ UseEndsEarly(q) \/ UseReturnsThread(q) \/ UseEnds(q)
              \/ SavesThread(q) \/ ClaimMatches(q) \/ CreateFails(q) \/ AgentChangeRefused(q)
              \/ AgentChangeRequires(q) \/ AgentChangeRecords(q)
              \/ DeleteEnds(q) \/ DeleteAllEnds(q) \/ PrewarmFails(q)
  PROVE  (AllOwned /\ KeysAlone)'
<1>1. Steady
  BY SteadySteps
<1>2. UNCHANGED <<sessionOf, prewarms, agentOf>>
  BY DEF UseBegins, InsertsCold, AgentChangeBegins, NewBegins, UseOpens, UseEndsEarly,
     UseReturnsThread, UseEnds, SavesThread, ClaimMatches, CreateFails, AgentChangeRefused,
     AgentChangeRequires, AgentChangeRecords, DeleteEnds, DeleteAllEnds, PrewarmFails,
     poolVars, sessionVars
<1> QED
  BY <1>1, <1>2, OwnedQuiet

LEMMA OwnedElse ==
  ASSUME IInv, IInv', SameAgents, AllOwned, KeysAlone,
         \/ UNCHANGED vars
         \/ \E q \in Requests : ConversationStarts(q)
         \/ \E c \in Chats : CreationFails(c) \/ DeleteArchived(c)
         \/ \E s \in Sessions : InspectionSucceeds(s) \/ ProcessChanges(s)
         \/ Refreshes
  PROVE  (AllOwned /\ KeysAlone)'
<1>1. UNCHANGED <<sessionOf, prewarms, agentOf>>
  BY DEF vars, ConversationStarts, CreationFails, DeleteArchived, InspectionSucceeds,
     ProcessChanges, Refreshes, poolVars, sessionVars
<1>2. Steady
  <2>1. CASE UNCHANGED request
    BY <2>1 DEF Steady
  <2>2. ASSUME NEW c \in Chats, CreationFails(c)
        PROVE  Steady
    <3>1. \A p \in Requests :
            IF request[p].at = "opening" /\ request[p].chat = c
            THEN request'[p].at = "idle"
            ELSE request'[p] = request[p]
      BY <2>2, CreationRequests DEF IInv
    <3> QED
      BY <3>1 DEF Steady, CreatePhases
  <2> QED
    BY <2>1, <2>2 DEF vars, ConversationStarts, DeleteArchived, InspectionSucceeds,
       ProcessChanges, Refreshes
<1> QED
  BY <1>1, <1>2, OwnedQuiet

\* The session of a chat is closed.
LEMMA OwnedCloses ==
  ASSUME IInv, IInv', SameAgents, AllOwned, KeysAlone, Steady, NEW c \in Chats,
         Closed({sessionOf[c]}), sessionOf' = [sessionOf EXCEPT ![c] = NoSession],
         UNCHANGED prewarms
  PROVE  (AllOwned /\ KeysAlone)'
<1>1. InPool' = InPool /\ Claimed \subseteq Claimed'
  BY SteadyClaims DEF InPool
<1>2. \A d \in Chats : d # c => sessionOf'[d] = sessionOf[d]
  BY DEF IInv, TypeOK
<1>3. ASSUME NEW t \in Open'
      PROVE  t \in (InPool \cup Claimed \cup Mapped)'
  <2>1. t \in Sessions
    BY DEF Open
  <2>2. t \in Open /\ t # sessionOf[c]
    BY <2>1, ClosedSpares
  <2>3. CASE t \in Mapped
    <3>1. PICK d \in Chats : t = sessionOf[d]
      BY <2>3 DEF Mapped
    <3>2. sessionOf'[d] = t /\ t # NoSession
      BY <1>2, <2>2, <2>3, <3>1 DEF Mapped
    <3> QED
      BY <3>2 DEF Mapped
  <2> QED
    BY <1>1, <2>2, <2>3 DEF AllOwned
<1> QED
  BY <1>1, <1>3, SteadyWarming DEF AllOwned

LEMMA ClosesOwned ==
  ASSUME IInv, IInv', SameAgents, AllOwned, KeysAlone, NEW q \in Requests,
         AgentChangeCloses(q) \/ \E c \in Chats : DeleteBegins(q, c)
  PROVE  (AllOwned /\ KeysAlone)'
<1>t. TypeOK /\ RequestsNamed
  BY DEF IInv
<1>1. CASE AgentChangeCloses(q)
  <2>1. PICK c \in Chats : c = request[q].chat
    BY <1>t, <1>1 DEF AgentChangeCloses, RequestsNamed
  <2>2. /\ request[q].at = "checking" /\ Goes(q, "requiring")
        /\ Closed({sessionOf[c]}) /\ sessionOf' = [sessionOf EXCEPT ![c] = NoSession]
        /\ UNCHANGED prewarms
    BY <1>1, <2>1 DEF AgentChangeCloses, poolVars
  <2>3. Others(q) /\ request'[q].at = "requiring"
    BY <1>t, <2>2, GoesRequest
  <2>4. Steady
    BY <2>2, <2>3, SteadyByOne DEF CreatePhases
  <2> QED
    BY <2>2, <2>4, OwnedCloses
<1>2. ASSUME NEW c \in Chats, DeleteBegins(q, c)
      PROVE  (AllOwned /\ KeysAlone)'
  <2>1. Others(q) /\ request[q].at = "idle" /\ request'[q].at = "deleting"
    BY <1>t, <1>2, DeletingBegins
  <2>2. Steady
    BY <2>1, SteadyByOne DEF CreatePhases
  <2>3. /\ Closed({sessionOf[c]}) /\ sessionOf' = [sessionOf EXCEPT ![c] = NoSession]
        /\ UNCHANGED prewarms
    BY <1>2 DEF DeleteBegins, poolVars
  <2> QED
    BY <2>2, <2>3, OwnedCloses
<1> QED
  BY <1>1, <1>2

\* The claimed session becomes that of the new chat.
LEMMA InsertsOwned ==
  ASSUME IInv, IInv', SameAgents, AllOwned, KeysAlone, NEW q \in Requests, NEW c \in Chats,
         InsertsClaimed(q, c)
  PROVE  (AllOwned /\ KeysAlone)'
<1>t. TypeOK
  BY DEF IInv
<1>1. /\ request[q].session # NoSession /\ sessionOf[c] = NoSession
      /\ sessionOf' = [sessionOf EXCEPT ![c] = request[q].session]
      /\ UNCHANGED <<prewarms, agentOf>>
  BY DEF InsertsClaimed, FreshChat, poolVars, sessionVars
<1>2. Others(q) /\ request'[q].at \in {"idle", "saving", "using"}
  BY <1>t, InsertsRequest
<1>3. Open' = Open /\ InPool' = InPool
  BY <1>1 DEF Open, InPool
<1>4. /\ sessionOf'[c] = request[q].session
      /\ \A d \in Chats : d # c => sessionOf'[d] = sessionOf[d]
  BY <1>1, <1>t DEF TypeOK
<1>5. Mapped \subseteq Mapped' /\ request[q].session \in Mapped'
  BY <1>1, <1>4 DEF Mapped
<1>6. Claimed \subseteq Claimed' \cup {request[q].session}
  BY <1>2 DEF Claimed, Creating, Others
<1>7. \A t \in InPool' : agentOf'[t] = agentOf[t]
  BY <1>1
<1>8. \A p \in Requests : request'[p].at = "warming" => request'[p] = request[p]
  BY <1>2 DEF Others
<1>9. WarmingAlone'
  BY <1>3, <1>7, <1>8 DEF KeysAlone, WarmingAlone
<1>10. RefusedAlone'
  <2>1. \A p \in Requests : request'[p].at = "matching" => request'[p] = request[p]
    BY <1>2 DEF Others
  <2> QED
    BY <1>3, <2>1, SteadyRefused DEF KeysAlone
<1> QED
  BY <1>3, <1>5, <1>6, <1>9, <1>10 DEF AllOwned, KeysAlone

\* A session leaves the pool by its key, and it alone.
LEMMA PoolSpares ==
  ASSUME TypeOK, PoolKeysDiffer, NEW s \in InPool, prewarms' = WithoutKey(agentOf[s])
  PROVE  /\ InPool' \subseteq InPool /\ InPool \ {s} \subseteq InPool'
         /\ \A t \in InPool' : agentOf[t] # agentOf[s]
<1>1. PICK a : a = agentOf[s]
  OBVIOUS
<1>2. \A t \in InPool : t # s => agentOf[t] # a
  BY <1>1 DEF InPool, PoolKeysDiffer
<1>3. \A j \in DOMAIN WithoutKey(a) : \E k \in DOMAIN prewarms :
        WithoutKey(a)[j] = prewarms[k] /\ agentOf[prewarms[k]] # a
  BY WithoutKeyProperties
<1>4. \A t \in InPool : t # s => \E j \in DOMAIN WithoutKey(a) : WithoutKey(a)[j] = t
  BY <1>2, WithoutKeyKeeps
<1>5. InPool' = { WithoutKey(a)[j] : j \in DOMAIN WithoutKey(a) }
  BY <1>1 DEF InPool
<1>6. InPool' \subseteq InPool
  BY <1>3, <1>5 DEF InPool
<1>7. InPool \ {s} \subseteq InPool'
  BY <1>4, <1>5
<1>8. \A t \in InPool' : agentOf[t] # a
  BY <1>3, <1>5
<1> QED
  BY <1>1, <1>6, <1>7, <1>8

LEMMA ClaimsOwned ==
  ASSUME IInv, IInv', SameAgents, AllOwned, KeysAlone, NEW q \in Requests,
         NEW s \in Sessions, NEW a \in Agents, ClaimBegins(q, s, a)
  PROVE  (AllOwned /\ KeysAlone)'
<1>t. TypeOK /\ PoolKeysDiffer
  BY DEF IInv
<1>1. /\ s \in InPool /\ prewarms' = WithoutKey(agentOf[s])
      /\ UNCHANGED <<sessionOf, agentOf>>
  BY DEF ClaimBegins, sessionVars
<1>2. /\ Others(q) /\ request[q].at = "idle" /\ request'[q].at = "matching"
      /\ request'[q].session = s
  BY <1>t, MatchingBegins
<1>3. /\ InPool' \subseteq InPool /\ InPool \ {s} \subseteq InPool'
      /\ \A t \in InPool' : agentOf[t] # agentOf[s]
  BY <1>t, <1>1, PoolSpares
<1>4. Open' = Open /\ Mapped' = Mapped
  BY <1>1 DEF Open, Mapped
<1>5. s # NoSession /\ Claimed \subseteq Claimed' /\ s \in Claimed'
  <2>1. s # NoSession
    BY NullsAssumption
  <2>2. Claimed \subseteq Claimed'
    BY <1>2 DEF Claimed, Creating, Others, CreatePhases
  <2> QED
    BY <1>2, <2>1, <2>2 DEF Claimed, Creating, CreatePhases
<1>6. \A p \in Requests : p # q => request'[p] = request[p]
  BY <1>2 DEF Others
<1>7. WarmingAlone'
  BY <1>1, <1>2, <1>3, <1>6 DEF KeysAlone, WarmingAlone
<1>8. RefusedAlone'
  <2> SUFFICES ASSUME NEW p \in Requests, request'[p].at = "matching"
               PROVE  /\ request'[p].session # NoSession
                      /\ ~Matches(request[p].session, request[p].agent)' =>
                           \A t \in InPool' : agentOf'[t] # agentOf'[request'[p].session]
    BY DEF RefusedAlone
  <2>1. CASE p = q
    BY <1>1, <1>2, <1>3, <1>5, <2>1
  <2>2. CASE p # q
    BY <1>3, <1>6, <2>2, RefusedStays DEF KeysAlone
  <2> QED
    BY <2>1, <2>2
<1> QED
  BY <1>3, <1>4, <1>5, <1>7, <1>8 DEF AllOwned, KeysAlone

LEMMA RefusedOwned ==
  ASSUME IInv, IInv', SameAgents, AllOwned, KeysAlone, NEW q \in Requests, ClaimRefused(q)
  PROVE  (AllOwned /\ KeysAlone)'
<1>t. TypeOK
  BY DEF IInv
<1>a. UNCHANGED prewarms
  <2>1. PICK a : a = agentOf[request[q].session]
    OBVIOUS
  <2>2. \A s \in InPool : agentOf[s] # a
    BY <2>1 DEF ClaimRefused, KeysAlone, RefusedAlone
  <2> QED
    BY <2>1, <2>2, WithoutKeyAbsent DEF ClaimRefused
<1>1. /\ Closed({request[q].session}) /\ UNCHANGED <<sessionOf, prewarms>>
      /\ request' = [request EXCEPT ![q].at = "inserting", ![q].session = NoSession]
  BY <1>a DEF ClaimRefused
<1>2. Others(q) /\ request'[q].at = "inserting"
  BY <1>t, <1>1, ReleasesRequest
<1>3. InPool' = InPool /\ Mapped' = Mapped
  BY <1>1 DEF InPool, Mapped
<1>4. Claimed \subseteq Claimed' \cup {request[q].session}
  BY <1>2 DEF Claimed, Creating, Others
<1>5. \A t \in Open' : t \in Open /\ t # request[q].session
  BY <1>1, ClosedSpares DEF Open
<1>6. \A t \in InPool' : agentOf'[t] = agentOf[t]
  BY <1>3 DEF IInv, OneOwner, SameAgents
<1>7. \A p \in Requests : request'[p].at = "warming" => request'[p] = request[p]
  BY <1>2 DEF Others
<1>8. WarmingAlone'
  BY <1>3, <1>6, <1>7 DEF KeysAlone, WarmingAlone
<1>9. RefusedAlone'
  <2>1. \A p \in Requests : request'[p].at = "matching" => request'[p] = request[p]
    BY <1>2 DEF Others
  <2> QED
    BY <1>3, <2>1, SteadyRefused DEF KeysAlone
<1> QED
  BY <1>3, <1>4, <1>5, <1>8, <1>9 DEF AllOwned, KeysAlone

LEMMA DeletesAllOwned ==
  ASSUME IInv, IInv', SameAgents, AllOwned, KeysAlone, NEW q \in Requests,
         DeleteAllBegins(q)
  PROVE  (AllOwned /\ KeysAlone)'
<1>t. TypeOK
  BY DEF IInv
<1>1. PICK S : S = Mapped \cup InPool
  OBVIOUS
<1>2. Closed(S) /\ prewarms' = <<>>
  BY <1>1 DEF DeleteAllBegins
<1>3. Others(q) /\ request[q].at = "idle" /\ request'[q].at = "deleting all"
  BY <1>t, DeletingAllBegins
<1>4. Steady
  BY <1>3, SteadyByOne DEF CreatePhases
<1>5. \A t \in Open' : t \in Open /\ t \notin S
  BY <1>2, ClosedSpares DEF Open
<1>6. InPool' = {}
  BY <1>2 DEF InPool
<1> QED
  BY <1>1, <1>4, <1>5, <1>6, SteadyClaims, SteadyWarming DEF AllOwned

LEMMA CreationsOwned ==
  ASSUME IInv, IInv', Known, SameAgents, AllOwned, KeysAlone, NEW c \in Chats,
         CreationSucceeds(c)
  PROVE  (AllOwned /\ KeysAlone)'
<1>t. TypeOK
  BY DEF IInv
<1>1. PICK s \in Sessions : /\ Fresh(s) /\ Constructed(s, creations[c])
                            /\ sessionOf' = [sessionOf EXCEPT ![c] = s]
  BY DEF CreationSucceeds
<1>2. UNCHANGED prewarms /\ creations[c] # NoAgent
  BY DEF CreationSucceeds, poolVars
<1>3. sessionOf[c] = NoSession
  BY <1>2 DEF Known, CreationAwaited
<1>4. /\ sessionOf'[c] = s
      /\ \A d \in Chats : d # c => sessionOf'[d] = sessionOf[d]
  BY <1>1, <1>t DEF TypeOK
<1>5. s \in Mapped' /\ Mapped \subseteq Mapped'
  <2>1. s # NoSession
    BY NullsAssumption
  <2> QED
    BY <1>3, <1>4, <2>1 DEF Mapped
<1>6. \A t \in Sessions : t # s => agentOf'[t] = agentOf[t]
  BY <1>1 DEF Constructed, ConstructedAndClosed
<1>7. Open' \subseteq Open \cup {s} /\ InPool' = InPool
  BY <1>2, <1>6 DEF Open, InPool
<1>8. \A p \in Requests :
        IF request[p].at = "opening" /\ request[p].chat = c
        THEN request'[p].at = "using"
        ELSE request'[p] = request[p]
  BY <1>t, CreationRequests
<1>9. Steady
  BY <1>8 DEF Steady, CreatePhases
<1> QED
  BY <1>5, <1>7, <1>9, SteadyClaims, SteadyWarming DEF AllOwned

LEMMA WarmingBeginsOwned ==
  ASSUME IInv, IInv', SameAgents, AllOwned, KeysAlone, PoolIsOrderly, NEW q \in Requests, NEW a \in Agents,
         PrewarmBegins(q, a)
  PROVE  (AllOwned /\ KeysAlone)'
<1>t. TypeOK
  BY DEF IInv
<1>1. /\ \A s \in InPool : agentOf[s] # a
      /\ \A p \in Requests : request[p].at = "warming" => request[p].agent # a
      /\ UNCHANGED <<sessionOf, prewarms, agentOf>>
  BY DEF PrewarmBegins, PoolIsOrderly, poolVars, sessionVars
<1>2. /\ Others(q) /\ request[q].at = "idle" /\ request'[q].at = "warming"
      /\ request'[q].agent = a
  BY <1>t, WarmingBegins
<1>3. Open' = Open /\ InPool' = InPool /\ Mapped' = Mapped
  BY <1>1 DEF Open, InPool, Mapped
<1>4. Claimed \subseteq Claimed'
  BY <1>2 DEF Claimed, Creating, Others, CreatePhases
<1>5. ASSUME NEW p \in Requests, request'[p].at = "warming"
      PROVE  /\ \A s \in InPool : agentOf'[s] # request'[p].agent
             /\ \A o \in Requests :
                  request'[o].at = "warming" /\ request'[o].agent = request'[p].agent => o = p
  BY <1>1, <1>2, <1>5 DEF Others, KeysAlone, WarmingAlone
<1>6. WarmingAlone'
  BY <1>3, <1>5 DEF WarmingAlone
<1>7. RefusedAlone'
  <2>1. \A p \in Requests : request'[p].at = "matching" => request'[p] = request[p]
    BY <1>2 DEF Others
  <2> QED
    BY <1>3, <2>1, SteadyRefused DEF KeysAlone
<1> QED
  BY <1>3, <1>4, <1>6, <1>7 DEF AllOwned, KeysAlone

\* What is not trimmed of a pool stays in it.
LEMMA TrimmedKeeps ==
  ASSUME TypeOK, NEW pool \in Seq(Sessions), Len(pool) \in Nat \ {0}, NEW i \in DOMAIN pool,
         ~(i <= Excess(pool))
  PROVE  \E j \in DOMAIN SubSeq(pool, Excess(pool) + 1, Len(pool)) :
           SubSeq(pool, Excess(pool) + 1, Len(pool))[j] = pool[i]
<1>1. Excess(pool) \in Nat /\ Excess(pool) < Len(pool)
  BY PrewarmAssumption DEF Excess
<1>2. PICK m : m = Excess(pool) + 1
  OBVIOUS
<1>3. PICK rest : rest = SubSeq(pool, m, Len(pool))
  OBVIOUS
<1>4. /\ m \in Int /\ Len(pool) \in Int /\ m <= Len(pool)
      /\ DOMAIN pool = 1 .. Len(pool)
      /\ \A k \in m .. Len(pool) : pool[k] \in Sessions
  BY <1>1, <1>2, LenProperties, ElementOfSeq
<1>5. /\ rest \in Seq(Sessions)
      /\ Len(rest) = Len(pool) - m + 1
      /\ \A k \in 1 .. Len(pool) - m + 1 : rest[k] = pool[m + k - 1]
  BY <1>3, <1>4, SubSeqProperties
<1>6. DOMAIN rest = 1 .. Len(pool) - m + 1
  BY <1>5, LenProperties
<1>7. PICK j : j = i - m + 1
  OBVIOUS
<1>8. j \in 1 .. Len(pool) - m + 1 /\ m + j - 1 = i
  BY <1>1, <1>2, <1>4, <1>7
<1> QED
  BY <1>2, <1>3, <1>5, <1>6, <1>8

LEMMA StoresOwned ==
  ASSUME IInv, IInv', SameAgents, AllOwned, KeysAlone, PoolIsOrderly, NEW q \in Requests,
         PrewarmStores(q)
  PROVE  (AllOwned /\ KeysAlone)'
<1>t. TypeOK
  BY DEF IInv
<1>1. PICK a \in Agents : a = request[q].agent
  BY DEF IInv, RequestsNamed, PrewarmStores
<1>2. /\ request[q].at = "warming" /\ Ends(q) /\ UNCHANGED sessionOf
      /\ WithoutKey(a) = prewarms
  <2>1. request[q].at = "warming" /\ Ends(q) /\ UNCHANGED sessionOf
    BY DEF PrewarmStores
  <2>2. \A s \in InPool : agentOf[s] # a
    BY <1>1, <2>1 DEF KeysAlone, WarmingAlone
  <2> QED
    BY <2>1, <2>2, WithoutKeyAbsent
<1>3. PICK s \in Sessions :
        LET pool == Append(prewarms, s)
            trimmed == { pool[i] : i \in 1 .. Excess(pool) }
        IN /\ Fresh(s)
           /\ ConstructedAndClosed(s, a, trimmed)
           /\ prewarms' = SubSeq(pool, Excess(pool) + 1, Len(pool))
  BY <1>1, <1>2 DEF PrewarmStores
<1>4. PICK pool : pool = Append(prewarms, s)
  OBVIOUS
<1>5. PICK trimmed : trimmed = { pool[i] : i \in 1 .. Excess(pool) }
  OBVIOUS
<1>6. /\ Fresh(s) /\ ConstructedAndClosed(s, a, trimmed)
      /\ prewarms' = SubSeq(pool, Excess(pool) + 1, Len(pool))
  BY <1>3, <1>4, <1>5
<1>7. /\ pool \in Seq(Sessions) /\ Len(pool) = Len(prewarms) + 1 /\ Len(prewarms) \in Nat
      /\ DOMAIN pool = 1 .. Len(prewarms) + 1 /\ DOMAIN prewarms = 1 .. Len(prewarms)
      /\ \A i \in 1 .. Len(prewarms) : pool[i] = prewarms[i]
      /\ pool[Len(prewarms) + 1] = s
  BY <1>4, <1>t, AppendProperties, LenProperties DEF TypeOK
<1>8. \A t \in InPool \cup {s} : \E i \in DOMAIN pool : pool[i] = t
  BY <1>7 DEF InPool
<1>9. \A t \in Sessions : t \in Open' => t \notin trimmed /\ (t = s \/ t \in Open)
  BY <1>6 DEF ConstructedAndClosed, Open
<1>10. ASSUME NEW t \in InPool \cup {s}, t \notin trimmed
       PROVE  t \in InPool'
  <2>1. PICK i \in DOMAIN pool : pool[i] = t
    BY <1>8
  <2>2. ~(i <= Excess(pool))
    <3>1. i \in 1 .. Len(prewarms) + 1
      BY <1>7
    <3>2. Excess(pool) \in Nat
      BY <1>7, PrewarmAssumption DEF Excess
    <3> QED
      BY <1>5, <1>7, <1>10, <2>1, <3>1, <3>2
  <2>3. Len(pool) \in Nat \ {0}
    BY <1>7
  <2>4. \E j \in DOMAIN SubSeq(pool, Excess(pool) + 1, Len(pool)) :
          SubSeq(pool, Excess(pool) + 1, Len(pool))[j] = pool[i]
    BY <1>7, <1>t, <2>2, <2>3, TrimmedKeeps
  <2>5. \E j \in DOMAIN prewarms' : prewarms'[j] = t
    BY <1>6, <2>1, <2>4
  <2> QED
    BY <2>5 DEF InPool
<1>11. Others(q) /\ request'[q].at = "idle"
  BY <1>2, <1>t, EndsRequest
<1>12. Steady
  BY <1>2, <1>11, SteadyByOne DEF CreatePhases
<1>13. Claimed \subseteq Claimed' /\ Mapped' = Mapped
  BY <1>2, <1>12, SteadyClaims DEF Mapped
<1>14. AllOwned'
  <2> SUFFICES ASSUME NEW t \in Open' PROVE t \in (InPool \cup Claimed \cup Mapped)'
    BY DEF AllOwned
  <2>1. t \notin trimmed /\ (t = s \/ t \in Open)
    BY <1>9 DEF Open
  <2> QED
    BY <1>10, <1>13, <2>1 DEF AllOwned
<1>15. \A t \in InPool' : t = s \/ t \in InPool
  <2>1. \A j \in DOMAIN prewarms' :
          j + Excess(pool) \in DOMAIN pool /\ prewarms'[j] = pool[j + Excess(pool)]
    <3>1. Len(pool) \in Nat \ {0}
      BY <1>7
    <3> QED
      BY <1>6, <1>7, <1>t, <3>1, TrimmedProperties
  <2>2. \A i \in DOMAIN pool : pool[i] = s \/ pool[i] \in InPool
    <3> TAKE i \in DOMAIN pool
    <3>1. CASE i \in 1 .. Len(prewarms)
      BY <1>7, <3>1 DEF InPool
    <3>2. CASE i = Len(prewarms) + 1
      BY <1>7, <3>2
    <3> QED
      BY <1>7, <3>1, <3>2
  <2> QED
    BY <2>1, <2>2 DEF InPool
<1>16. \A t \in InPool' : t \in Open'
  BY DEF IInv, OneOwner
<1>17. \A t \in InPool' : IF t = s THEN agentOf'[t] = a ELSE agentOf'[t] = agentOf[t]
  <2>1. \A t \in InPool' : t # s => agentOf'[t] = agentOf[t]
    BY <1>15, <1>16 DEF SameAgents, IInv, OneOwner
  <2>2. s \in Open' => agentOf'[s] = a
    BY <1>6 DEF ConstructedAndClosed, Open
  <2> QED
    BY <1>16, <2>1, <2>2
<1>18. \A p \in Requests : request'[p].at = "warming" =>
         /\ p # q /\ request'[p] = request[p]
         /\ request[p].agent # a
  <2>1. \A p \in Requests : request'[p].at = "warming" => p # q /\ request'[p] = request[p]
    BY <1>11 DEF Others
  <2>2. \A p \in Requests : request[p].at = "warming" /\ request[p].agent = a => p = q
    BY <1>1, <1>2 DEF KeysAlone, WarmingAlone
  <2> QED
    BY <2>1, <2>2
<1>19. WarmingAlone'
  <2>1. \A p \in Requests : request'[p].at = "warming" =>
          \A t \in InPool' : agentOf'[t] # request'[p].agent
    BY <1>15, <1>17, <1>18 DEF KeysAlone, WarmingAlone
  <2>2. \A p, o \in Requests :
          request'[p].at = "warming" /\ request'[o].at = "warming"
          /\ request'[o].agent = request'[p].agent => o = p
    BY <1>18 DEF KeysAlone, WarmingAlone
  <2> QED
    BY <2>1, <2>2 DEF WarmingAlone
<1>20. RefusedAlone'
  <2> SUFFICES ASSUME NEW p \in Requests, request'[p].at = "matching"
               PROVE  /\ request'[p].session # NoSession
                      /\ ~Matches(request[p].session, request[p].agent)' =>
                           \A t \in InPool' : agentOf'[t] # agentOf'[request'[p].session]
    BY DEF RefusedAlone
  <2>1. request'[p] = request[p] /\ request[p].at = "matching"
    BY <1>11 DEF Others
  <2>2. CASE Matches(request[p].session, request[p].agent)
    <3>1. request[p].session \in Claimed /\ request[p].session \in Claimed'
      BY <2>1 DEF KeysAlone, RefusedAlone, Claimed, Creating, CreatePhases
    <3>2. agentOf'[request[p].session] = agentOf[request[p].session]
      BY <3>1 DEF IInv, OneOwner, SameAgents
    <3> QED
      BY <2>1, <2>2, <3>2 DEF KeysAlone, RefusedAlone, Matches
  <2>3. CASE ~Matches(request[p].session, request[p].agent)
    <3>1. agentOf[request[p].session] # a
      BY <1>1, <2>1, <2>3 DEF PrewarmStores, PoolIsOrderly, RefusedClaim
    <3>2. \A t \in InPool' : t \in InPool \/ agentOf'[t] # agentOf[request[p].session]
      BY <1>15, <1>17, <3>1
    <3> QED
      BY <2>1, <3>2, RefusedStays DEF KeysAlone
  <2> QED
    BY <2>2, <2>3
<1> QED
  BY <1>14, <1>19, <1>20 DEF KeysAlone

LEMMA InspectionsOwned ==
  ASSUME IInv, IInv', SameAgents, AllOwned, KeysAlone, NEW s \in Sessions,
         InspectionFails(s)
  PROVE  (AllOwned /\ KeysAlone)'
<1>t. TypeOK /\ PoolKeysDiffer /\ InspectedIsFree
  BY DEF IInv
<1>1. /\ s \in inspecting /\ Closed({s}) /\ UNCHANGED <<sessionOf, request>>
      /\ prewarms' = IF s \in Open THEN WithoutKey(agentOf[s]) ELSE prewarms
  BY DEF InspectionFails
<1>2. InPool' \subseteq InPool /\ InPool \ {s} \subseteq InPool'
  <2>1. CASE s \in Open
    <3>1. s \in InPool
      BY <1>1, <1>t, <2>1 DEF AllOwned, InspectedIsFree
    <3> QED
      BY <1>1, <1>t, <2>1, <3>1, PoolSpares
  <2>2. CASE s \notin Open
    BY <1>1, <2>2 DEF InPool
  <2> QED
    BY <2>1, <2>2
<1>3. Mapped' = Mapped /\ Claimed' = Claimed /\ Steady
  BY <1>1 DEF Mapped, Claimed, Creating, Steady
<1>4. \A t \in Open' : t \in Open /\ t # s
  BY <1>1, ClosedSpares DEF Open
<1> QED
  BY <1>2, <1>3, <1>4, SteadyWarming DEF AllOwned

LEMMA StepOwned ==
  IInv /\ IInv' /\ Known /\ AllOwned /\ KeysAlone /\ PoolIsOrderly /\ [Next]_vars =>
    (AllOwned /\ KeysAlone)'
<1> SUFFICES ASSUME IInv, IInv', Known, AllOwned, KeysAlone, PoolIsOrderly, [Next]_vars
             PROVE  (AllOwned /\ KeysAlone)'
  OBVIOUS
<1>t. SameAgents
  BY StepSameAgents DEF IInv
<1>1. ASSUME NEW q \in Requests, NEW c \in Chats,
             \/ UseBegins(q, c) \/ DeleteBegins(q, c)
             \/ InsertsClaimed(q, c) \/ InsertsCold(q, c)
             \/ \E a \in Agents : AgentChangeBegins(q, c, a)
      PROVE  (AllOwned /\ KeysAlone)'
  BY <1>1, <1>t, ClosesOwned, InsertsOwned, OwnedQuietSteps
<1>2. ASSUME NEW q \in Requests, NEW a \in Agents,
             \/ NewBegins(q, a) \/ PrewarmBegins(q, a)
             \/ \E s \in Sessions : ClaimBegins(q, s, a)
      PROVE  (AllOwned /\ KeysAlone)'
  BY <1>2, <1>t, ClaimsOwned, WarmingBeginsOwned, OwnedQuietSteps
<1>3. ASSUME NEW q \in Requests,
             \/ UseOpens(q) \/ UseEndsEarly(q) \/ UseReturnsThread(q) \/ UseEnds(q)
             \/ SavesThread(q) \/ ClaimMatches(q) \/ CreateFails(q) \/ AgentChangeRefused(q)
             \/ AgentChangeRequires(q) \/ AgentChangeRecords(q)
             \/ DeleteEnds(q) \/ DeleteAllEnds(q) \/ PrewarmFails(q)
      PROVE  (AllOwned /\ KeysAlone)'
  BY <1>3, <1>t, OwnedQuietSteps
<1>4. ASSUME NEW q \in Requests,
             \/ ClaimRefused(q) \/ AgentChangeCloses(q) \/ DeleteAllBegins(q)
             \/ PrewarmStores(q)
      PROVE  (AllOwned /\ KeysAlone)'
  BY <1>4, <1>t, RefusedOwned, ClosesOwned, DeletesAllOwned, StoresOwned
<1>5. ASSUME NEW c \in Chats, CreationSucceeds(c)
      PROVE  (AllOwned /\ KeysAlone)'
  BY <1>5, <1>t, CreationsOwned
<1>6. ASSUME NEW s \in Sessions, InspectionFails(s)
      PROVE  (AllOwned /\ KeysAlone)'
  BY <1>6, <1>t, InspectionsOwned
<1>7. ASSUME \/ UNCHANGED vars
             \/ \E q \in Requests : ConversationStarts(q)
             \/ \E c \in Chats : CreationFails(c) \/ DeleteArchived(c)
             \/ \E s \in Sessions : InspectionSucceeds(s) \/ ProcessChanges(s)
             \/ Refreshes
      PROVE  (AllOwned /\ KeysAlone)'
  BY <1>7, <1>t, OwnedElse
<1> QED
  BY <1>1, <1>2, <1>3, <1>4, <1>5, <1>6, <1>7 DEF Next

LEMMA InitOwned == Init => AllOwned /\ KeysAlone
  BY IdleFields DEF Init, AllOwned, Open, KeysAlone, WarmingAlone, RefusedAlone

LEMMA InitMirror == Init => MirrorIsCurrent
<1> SUFFICES ASSUME Init PROVE MirrorIsCurrent
  OBVIOUS
<1>1. \A c \in Chats : ~Exists(c)
  BY DEF Init, Exists
<1> QED
  BY <1>1 DEF MirrorIsCurrent

-----------------------------------------------------------------------------
(* Theorems *)

\* ChatEngine's maps, the sessions, the requests and the entries of the process registry
\* keep their types, and the pool of prewarmed sessions its bound (trimChatPrewarms).
THEOREM TypeCorrect == Spec => []TypeOK
<1>1. IInv => TypeOK
  BY DEF IInv
<1> QED
  BY <1>1, Invariance, PTL

\* Every session of a chat, of the pool or of a request that has claimed it is open and
\* belongs to that one alone, whatever requests overlap and fail: creations that are
\* shared, claims, trimming, failed inspections, deletions and changes of the agent.
THEOREM SessionHasOneOwner == Spec => []OneOwner
<1>1. IInv => OneOwner
  BY DEF IInv
<1> QED
  BY <1>1, Invariance, PTL

\* No agent is left running for nothing: with deletions that wait for the requests that
\* open sessions, one prewarm of an agent at a time, none while a claim is about to be
\* refused, and claims that end with their chat, every open session is that of a chat that
\* exists, or in the pool, or claimed.
THEOREM SessionsOwned ==
  ASSUME DeletionsWait, PoolIsOrderly
  PROVE  Spec => []SessionsAreOwned
<1>1. Init => AllOwned /\ KeysAlone
  BY InitOwned
<1>2. IInv /\ IInv' /\ Known /\ AllOwned /\ KeysAlone /\ [Next]_vars =>
        (AllOwned /\ KeysAlone)'
  BY StepOwned
<1>3. AllOwned /\ Apart => SessionsAreOwned
  BY DEF AllOwned, Apart, MappedExist, SessionsAreOwned, Mapped
<1>4. Spec => []IInv /\ []Known /\ []Apart
  BY Invariance, KnownInvariance, ApartInvariance, PTL
<1> QED
  BY <1>1, <1>2, <1>3, <1>4, PTL DEF Spec

\* A chat talks to its own agent, and keeps the thread of no other, when nobody uses the
\* chat while its agent is changed: shared creations, claims and deletions included.
THEOREM AgentsMatch ==
  ASSUME AgentChangesWait
  PROVE  Spec => []AgentMatches
<1>1. Init => AgentsOK
  BY InitAgents
<1>2. IInv /\ IInv' /\ Known /\ AgentsOK /\ [Next]_vars => AgentsOK'
  BY StepAgents
<1>3. AgentsOK => AgentMatches
  BY DEF AgentsOK, ChatAgents, AgentMatches
<1>4. Spec => []IInv /\ []Known
  BY Invariance, KnownInvariance, PTL
<1> QED
  BY <1>1, <1>2, <1>3, <1>4, PTL DEF Spec

\* When no refresh is queued, the process registry has an entry for a chat exactly if its
\* session has a process, when deletions wait for the requests that open sessions: no
\* step that opens, closes or replaces a session of a chat forgets to queue one.
THEOREM MirrorCurrent ==
  ASSUME DeletionsWait
  PROVE  Spec => []MirrorIsCurrent
<1>1. Init => MirrorIsCurrent
  BY InitMirror
<1>2. IInv /\ IInv' /\ Known /\ Apart /\ MirrorIsCurrent /\ [Next]_vars => MirrorIsCurrent'
  BY StepMirror
<1>3. Spec => []IInv /\ []Known /\ []Apart
  BY Invariance, KnownInvariance, ApartInvariance, PTL
<1> QED
  BY <1>1, <1>2, <1>3, PTL DEF Spec
=============================================================================
