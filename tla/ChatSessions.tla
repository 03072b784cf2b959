---------------------------- MODULE ChatSessions ----------------------------
(***************************************************************************)
(* The live agent sessions of the daemon: ChatEngine of packages/daemon/   *)
(* src/features/chat/engine-runtime.ts with its three maps (the session of *)
(* a chat, creations under way, prewarmed sessions), the routes of api.ts  *)
(* that open and close sessions, and the mirror of the sessions in the     *)
(* process registry (features/chat/process-registry.ts).                   *)
(*                                                                         *)
(* A request is a sequence of segments, one action each, as in ChatRuns:   *)
(* it runs without interruption from one await to the next, and a database *)
(* call takes effect at the start of the segment after it.  What a session *)
(* says to its agent is left out but for two facts that the engine asks    *)
(* for: whether it has a conversation, and whether it has a process.       *)
(*                                                                         *)
(* A prewarmed session is made for an agent in the directory of a project; *)
(* projects are left out, so that its key is the agent.                    *)
(***************************************************************************)
EXTENDS Naturals, Sequences

CONSTANTS Chats, Agents, Sessions, NoChat, NoAgent, NoSession,
          Requests,            \* bound: requests handled at the same time
          MaxPrewarmSessions,  \* MAX_PREWARM_SESSIONS
          Overlaps             \* what may happen besides (see OverlapKinds)

\* "use during delete": a chat is deleted between the moment a request reads its
\* row and the moment the session of the request is in the map.  "use during
\* agent change": a request uses a chat while its agent is changed.  "prewarm
\* twice": two requests prewarm one agent at once.  "prewarm in claim": a session
\* is prewarmed for an agent while a claim has taken the one there was, and is to be
\* refused.  "claim fails": the request that took a prewarmed session fails before
\* the chat exists.  "archived in use": an archived chat that has a session is
\* deleted.
OverlapKinds ==
  { "use during delete", "use during agent change", "prewarm twice",
    "prewarm in claim", "claim fails", "archived in use" }

ASSUME NullsAssumption ==
  NoChat \notin Chats /\ NoAgent \notin Agents /\ NoSession \notin Sessions
ASSUME PrewarmAssumption == MaxPrewarmSessions \in Nat \ {0}
ASSUME OverlapsAssumption == Overlaps \subseteq OverlapKinds

VARIABLES
  row,         \* the chats table
  sessionOf,   \* chatSessions
  creations,   \* chatSessionCreations: the agent a session is being made for
  prewarms,    \* chatPrewarms, the oldest first
  inspecting,  \* prewarmed sessions whose inspection goes on
  agentOf,     \* the agent of each open session: made, and not closed
  processes,   \* open sessions that report the id of a process
  talking,     \* open sessions that have a conversation
  request,     \* requests between two awaits
  refreshing,  \* a refresh of the process registry is queued
  entries      \* the chat entries of the process registry

poolVars    == <<prewarms, inspecting>>
sessionVars == <<agentOf, processes, talking>>
mirrorVars  == <<refreshing, entries>>
vars == <<row, sessionOf, creations, poolVars, sessionVars, request, mirrorVars>>

Row ==
  [ agent : Agents \cup {NoAgent},     \* runtime
    thread : Agents \cup {NoAgent} ]   \* remoteThreadId, by the agent that gave it

NoRow == [agent |-> NoAgent, thread |-> NoAgent]

Request ==
  [ at : { "idle", "reading", "opening", "using", "saving", "matching",
           "inserting", "checking", "requiring", "recording", "deleting",
           "deleting all", "warming" },
    chat : Chats \cup {NoChat},
    agent : Agents \cup {NoAgent},
    session : Sessions \cup {NoSession} ]

Idle == [at |-> "idle", chat |-> NoChat, agent |-> NoAgent, session |-> NoSession]

TypeOK ==
  /\ row \in [Chats -> Row]
  /\ sessionOf \in [Chats -> Sessions \cup {NoSession}]
  /\ creations \in [Chats -> Agents \cup {NoAgent}]
  /\ prewarms \in Seq(Sessions) /\ Len(prewarms) <= MaxPrewarmSessions
  /\ inspecting \subseteq Sessions
  /\ agentOf \in [Sessions -> Agents \cup {NoAgent}]
  /\ processes \subseteq Sessions
  /\ talking \subseteq Sessions
  /\ request \in [Requests -> Request]
  /\ refreshing \in BOOLEAN
  /\ entries \in [Chats -> Sessions \cup {NoSession}]

Init ==
  /\ row = [c \in Chats |-> NoRow]
  /\ sessionOf = [c \in Chats |-> NoSession]
  /\ creations = [c \in Chats |-> NoAgent]
  /\ prewarms = <<>>
  /\ inspecting = {}
  /\ agentOf = [s \in Sessions |-> NoAgent]
  /\ processes = {}
  /\ talking = {}
  /\ request = [q \in Requests |-> Idle]
  /\ refreshing = FALSE
  /\ entries = [c \in Chats |-> NoSession]

-----------------------------------------------------------------------------
(* Helpers *)

Exists(c) == row[c] # NoRow

At(phases, c) == \E q \in Requests : request[q].at \in phases /\ request[q].chat = c
NoneAt(phases) == \A q \in Requests : request[q].at \notin phases

Open == { s \in Sessions : agentOf[s] # NoAgent }
InPool == { prewarms[i] : i \in DOMAIN prewarms }
Mapped == { sessionOf[c] : c \in Chats } \ {NoSession}

\* A pool without its entry at place i.
Removed(pool, i) ==
  [j \in 1 .. Len(pool) - 1 |-> IF j < i THEN pool[j] ELSE pool[j + 1]]

\* chatPrewarms without the entry for an agent, if there is one.
WithoutKey(a) ==
  LET places == { i \in DOMAIN prewarms : agentOf[prewarms[i]] = a }
  IN IF places = {} THEN prewarms ELSE Removed(prewarms, CHOOSE i \in places : TRUE)

\* A chat id that nothing refers to (createChat draws a random one).
FreshChat(c) ==
  /\ row[c] = NoRow
  /\ sessionOf[c] = NoSession /\ creations[c] = NoAgent /\ entries[c] = NoSession
  /\ \A q \in Requests : request[q].chat # c

\* A session object that nothing refers to.
Fresh(s) ==
  /\ s \notin Open \cup Mapped \cup InPool \cup inspecting
  /\ \A q \in Requests : request[q].session # s
  /\ \A c \in Chats : entries[c] # s

\* The session s is constructed for agent a, the native ones with their process, and
\* the sessions S are closed.  (A closed session may have a conversation still:
\* the engine asks none.)
ConstructedAndClosed(s, a, S) ==
  /\ agentOf' = [t \in Sessions |->
       IF t \in S THEN NoAgent ELSE IF t = s THEN a ELSE agentOf[t]]
  /\ processes' = (processes \cup {s}) \ S
  /\ talking' = talking \ S

Constructed(s, a) == ConstructedAndClosed(s, a, {})

Closed(S) ==
  /\ agentOf' = [t \in Sessions |-> IF t \in S THEN NoAgent ELSE agentOf[t]]
  /\ processes' = processes \ S
  /\ talking' = talking \ S

Goes(q, phase) == request' = [request EXCEPT ![q].at = phase]
Ends(q) == request' = [request EXCEPT ![q] = Idle]

\* A request that uses a chat, from the read of its row on.
UsePhases == {"reading", "opening", "using", "saving"}
\* ... until its session is in the map.
OpeningPhases == {"reading", "opening"}
CreatePhases == {"matching", "inserting"}
AgentChangePhases == {"checking", "requiring", "recording"}

-----------------------------------------------------------------------------
(* Requests that use the session of a chat: load, mode, permission mode, and the *)
(* turn of a chat run                                                            *)

\* getOrCreateChatSession, for a chat that was read with agent a.
OpensSession(q, c, a) ==
  IF sessionOf[c] # NoSession
  THEN /\ request' = [request EXCEPT ![q] =
            [at |-> "using", chat |-> c, agent |-> agentOf[sessionOf[c]],
             session |-> sessionOf[c]]]
       /\ refreshing' = TRUE
       /\ UNCHANGED creations
  ELSE /\ request' = [request EXCEPT ![q] =
            [Idle EXCEPT !.at = "opening", !.chat = c]]
       /\ creations' = [creations EXCEPT ![c] = IF @ = NoAgent THEN a ELSE @]
       /\ UNCHANGED refreshing

UseBegins(q, c) ==
  /\ request[q] = Idle
  /\ Exists(c)
  /\ \/ "use during delete" \in Overlaps
     \/ ~At({"deleting"}, c) /\ NoneAt({"deleting all"})
  /\ "use during agent change" \in Overlaps \/ ~At(AgentChangePhases, c)
  /\ request' = [request EXCEPT ![q] = [Idle EXCEPT !.at = "reading", !.chat = c]]
  /\ UNCHANGED <<row, sessionOf, creations, poolVars, sessionVars, mirrorVars>>

\* requireChat, and getChatSession with the agent of the row it read.
UseOpens(q) ==
  /\ request[q].at = "reading"
  /\ LET c == request[q].chat IN Exists(c) /\ OpensSession(q, c, row[c].agent)
  /\ UNCHANGED <<row, sessionOf, poolVars, sessionVars, entries>>

\* The chat is gone, or it is loaded and there is nothing to load.
UseEndsEarly(q) ==
  /\ request[q].at = "reading"
  /\ LET c == request[q].chat IN
       Exists(c) => row[c].thread = NoAgent /\ sessionOf[c] \notin talking
  /\ Ends(q)
  /\ UNCHANGED <<row, sessionOf, creations, poolVars, sessionVars, mirrorVars>>

\* Mutant of CreationSucceeds: the process registry is not told.
CreationSucceedsUnseen(c) ==
  /\ creations[c] # NoAgent
  /\ \E s \in Sessions :
       /\ Fresh(s)
       /\ Constructed(s, creations[c])
       /\ sessionOf' = [sessionOf EXCEPT ![c] = s]
       /\ request' = [q \in Requests |->
            IF request[q].at = "opening" /\ request[q].chat = c
            THEN [request[q] EXCEPT !.at = "using", !.agent = creations[c], !.session = s]
            ELSE request[q]]
  /\ creations' = [creations EXCEPT ![c] = NoAgent]
  /\ UNCHANGED <<row, poolVars, mirrorVars>>

\* The creation of a session settles, and the requests that wait for it go on.
CreationSucceeds(c) ==
  /\ creations[c] # NoAgent
  /\ \E s \in Sessions :
       /\ Fresh(s)
       /\ Constructed(s, creations[c])
       /\ sessionOf' = [sessionOf EXCEPT ![c] = s]
       /\ request' = [q \in Requests |->
            IF request[q].at = "opening" /\ request[q].chat = c
            THEN [request[q] EXCEPT !.at = "using", !.agent = creations[c], !.session = s]
            ELSE request[q]]
  /\ creations' = [creations EXCEPT ![c] = NoAgent]
  /\ refreshing' = TRUE
  /\ UNCHANGED <<row, poolVars, entries>>

CreationFails(c) ==
  /\ creations[c] # NoAgent
  /\ creations' = [creations EXCEPT ![c] = NoAgent]
  /\ request' = [q \in Requests |->
       IF request[q].at = "opening" /\ request[q].chat = c THEN Idle ELSE request[q]]
  /\ UNCHANGED <<row, sessionOf, poolVars, sessionVars, mirrorVars>>

\* The session starts or resumes its conversation.
ConversationStarts(q) ==
  /\ request[q].at = "using"
  /\ request[q].session \in Open \ talking
  /\ talking' = talking \cup {request[q].session}
  /\ UNCHANGED <<row, sessionOf, creations, poolVars, agentOf, processes,
                 request, mirrorVars>>

\* The operation of the session ends with a snapshot that names a remote thread.
UseReturnsThread(q) ==
  /\ request[q].at = "using"
  /\ request[q].session \in Open => request[q].session \in talking
  /\ request' = [request EXCEPT ![q].at = "saving", ![q].session = NoSession]
  /\ UNCHANGED <<row, sessionOf, creations, poolVars, sessionVars, mirrorVars>>

\* It fails, or its snapshot names none.
UseEnds(q) ==
  /\ request[q].at = "using"
  /\ Ends(q)
  /\ UNCHANGED <<row, sessionOf, creations, poolVars, sessionVars, mirrorVars>>

\* persistRemoteThreadId: the chat may be gone.
SavesThread(q) ==
  /\ request[q].at = "saving"
  /\ LET c == request[q].chat IN
       row' = IF Exists(c)
              THEN [row EXCEPT ![c].thread = request[q].agent]
              ELSE row
  /\ Ends(q)
  /\ UNCHANGED <<sessionOf, creations, poolVars, sessionVars, mirrorVars>>

-----------------------------------------------------------------------------
(* Requests that create a chat *)

\* Without a prewarmed session, or with the id of one that is not ready.
NewBegins(q, a) ==
  /\ request[q] = Idle
  /\ "use during delete" \in Overlaps \/ NoneAt({"deleting all"})
  /\ request' = [request EXCEPT ![q] = [Idle EXCEPT !.at = "inserting", !.agent = a]]
  /\ UNCHANGED <<row, sessionOf, creations, poolVars, sessionVars, mirrorVars>>

\* Mutant of ClaimBegins: the session stays in the pool until it is used.
ClaimBeginsInPool(q, s, a) ==
  /\ request[q] = Idle
  /\ "use during delete" \in Overlaps \/ NoneAt({"deleting all"})
  /\ s \in InPool \ inspecting
  /\ request' = [request EXCEPT ![q] =
       [at |-> "matching", chat |-> NoChat, agent |-> a, session |-> s]]
  /\ UNCHANGED <<row, sessionOf, creations, poolVars, sessionVars, mirrorVars>>

\* takeChatPrewarm, up to the await of chatPrewarmMatches: a client claims s for
\* a chat of agent a.
ClaimBegins(q, s, a) ==
  /\ request[q] = Idle
  /\ "use during delete" \in Overlaps \/ NoneAt({"deleting all"})
  /\ s \in InPool \ inspecting
  /\ prewarms' = WithoutKey(agentOf[s])
  /\ request' = [request EXCEPT ![q] =
       [at |-> "matching", chat |-> NoChat, agent |-> a, session |-> s]]
  /\ UNCHANGED <<row, sessionOf, creations, inspecting, sessionVars, mirrorVars>>

\* Mutant of Matches: the agents are not compared.
MatchesAny(s, a) == TRUE

\* chatPrewarmMatches
Matches(s, a) == agentOf[s] = a

ClaimMatches(q) ==
  /\ request[q].at = "matching"
  /\ Matches(request[q].session, request[q].agent)
  /\ Goes(q, "inserting")
  /\ UNCHANGED <<row, sessionOf, creations, poolVars, sessionVars, mirrorVars>>

\* Mutant of ClaimRefused: the session that is not used stays open.
ClaimRefusedStaysOpen(q) ==
  /\ request[q].at = "matching"
  /\ ~Matches(request[q].session, request[q].agent)
  /\ prewarms' = WithoutKey(agentOf[request[q].session])
  /\ request' = [request EXCEPT ![q].at = "inserting", ![q].session = NoSession]
  /\ UNCHANGED <<row, sessionOf, creations, inspecting, sessionVars, mirrorVars>>

\* The caller gets a cold create.  closeChatPrewarm closes the session, and deletes
\* the entry of its key once more: an entry that was stored during the await goes,
\* and its session stays open.
ClaimRefused(q) ==
  /\ request[q].at = "matching"
  /\ ~Matches(request[q].session, request[q].agent)
  /\ prewarms' = WithoutKey(agentOf[request[q].session])
  /\ Closed({request[q].session})
  /\ request' = [request EXCEPT ![q].at = "inserting", ![q].session = NoSession]
  /\ UNCHANGED <<row, sessionOf, creations, inspecting, mirrorVars>>

Inserted(c, a, thread) ==
  row' = [row EXCEPT ![c] = [agent |-> a, thread |-> thread]]

\* The chat gets the prewarmed session, and the thread of its snapshot if it has
\* one; a send goes on with the session.
InsertsClaimed(q, c) ==
  /\ request[q].at = "inserting"
  /\ request[q].session # NoSession
  /\ FreshChat(c)
  /\ Inserted(c, request[q].agent, NoAgent)
  /\ sessionOf' = [sessionOf EXCEPT ![c] = request[q].session]
  /\ \/ Ends(q)
     \/ \E phase \in {"saving", "using"} :
          request' = [request EXCEPT ![q].at = phase, ![q].chat = c,
            ![q].session = IF phase = "using" THEN @ ELSE NoSession]
  /\ refreshing' = TRUE
  /\ UNCHANGED <<creations, poolVars, sessionVars, entries>>

\* POST /api/chats leaves it at the row; an import stores the thread with it, and
\* a send and an import open a session at once.
InsertsCold(q, c) ==
  /\ request[q].at = "inserting"
  /\ request[q].session = NoSession
  /\ FreshChat(c)
  /\ \/ /\ Inserted(c, request[q].agent, NoAgent)
        /\ Ends(q)
        /\ UNCHANGED <<creations, refreshing>>
     \/ \E thread \in {NoAgent, request[q].agent} :
          /\ Inserted(c, request[q].agent, thread)
          /\ OpensSession(q, c, request[q].agent)
  /\ UNCHANGED <<sessionOf, poolVars, sessionVars, entries>>

\* The project of the request is gone, or the row is refused.
CreateFails(q) ==
  /\ request[q].at \in CreatePhases
  /\ request[q].session = NoSession \/ "claim fails" \in Overlaps
  /\ Ends(q)
  /\ UNCHANGED <<row, sessionOf, creations, poolVars, sessionVars, mirrorVars>>

-----------------------------------------------------------------------------
(* PUT /api/chats/:id/runtime *)

AgentChangeBegins(q, c, a) ==
  /\ request[q] = Idle
  /\ Exists(c)
  /\ "use during agent change" \in Overlaps \/ ~At(UsePhases, c)
  /\ request' = [request EXCEPT ![q] =
       [at |-> "checking", chat |-> c, agent |-> a, session |-> NoSession]]
  /\ UNCHANGED <<row, sessionOf, creations, poolVars, sessionVars, mirrorVars>>

\* A chat with a remote thread or a conversation keeps its agent.
Locked(c) == row[c].thread # NoAgent \/ sessionOf[c] \in talking

AgentChangeRefused(q) ==
  /\ \/ request[q].at = "checking"
        /\ (Exists(request[q].chat) => Locked(request[q].chat))
     \/ request[q].at = "requiring"
        /\ (Exists(request[q].chat) => row[request[q].chat].thread # NoAgent)
     \/ request[q].at = "recording"
        /\ ~Exists(request[q].chat)
  /\ Ends(q)
  /\ UNCHANGED <<row, sessionOf, creations, poolVars, sessionVars, mirrorVars>>

AgentChangeCloses(q) ==
  /\ request[q].at = "checking"
  /\ LET c == request[q].chat IN
       /\ Exists(c)
       /\ ~Locked(c)
       /\ Closed({sessionOf[c]})
       /\ sessionOf' = [sessionOf EXCEPT ![c] = NoSession]
  /\ refreshing' = TRUE
  /\ Goes(q, "requiring")
  /\ UNCHANGED <<row, creations, poolVars, entries>>

AgentChangeRequires(q) ==
  /\ request[q].at = "requiring"
  /\ Exists(request[q].chat)
  /\ row[request[q].chat].thread = NoAgent
  /\ Goes(q, "recording")
  /\ UNCHANGED <<row, sessionOf, creations, poolVars, sessionVars, mirrorVars>>

AgentChangeRecords(q) ==
  /\ request[q].at = "recording"
  /\ Exists(request[q].chat)
  /\ row' = [row EXCEPT ![request[q].chat].agent = request[q].agent]
  /\ Ends(q)
  /\ UNCHANGED <<sessionOf, creations, poolVars, sessionVars, mirrorVars>>

-----------------------------------------------------------------------------
(* Deletion and archive *)

\* DELETE /api/chats/:id closes the session, then deletes the row.
DeleteBegins(q, c) ==
  /\ request[q] = Idle
  /\ Exists(c)
  /\ "use during delete" \in Overlaps \/ ~At(OpeningPhases, c)
  /\ Closed({sessionOf[c]})
  /\ sessionOf' = [sessionOf EXCEPT ![c] = NoSession]
  /\ refreshing' = TRUE
  /\ request' = [request EXCEPT ![q] = [Idle EXCEPT !.at = "deleting", !.chat = c]]
  /\ UNCHANGED <<row, creations, poolVars, entries>>

\* requireChat refuses a chat that another request has deleted.
DeleteEnds(q) ==
  /\ request[q].at = "deleting"
  /\ row' = [row EXCEPT ![request[q].chat] = NoRow]
  /\ Ends(q)
  /\ UNCHANGED <<sessionOf, creations, poolVars, sessionVars, mirrorVars>>

\* DELETE /api/chats: closeAllSessions, then deleteAllChats.
DeleteAllBegins(q) ==
  /\ request[q] = Idle
  /\ \/ "use during delete" \in Overlaps
     \/ NoneAt(OpeningPhases \cup CreatePhases)
  /\ Closed(Mapped \cup InPool)
  /\ sessionOf' = [c \in Chats |-> NoSession]
  /\ prewarms' = <<>>
  /\ refreshing' = TRUE
  /\ request' = [request EXCEPT ![q] = [Idle EXCEPT !.at = "deleting all"]]
  /\ UNCHANGED <<row, creations, inspecting, entries>>

DeleteAllEnds(q) ==
  /\ request[q].at = "deleting all"
  /\ row' = [c \in Chats |-> NoRow]
  /\ Ends(q)
  /\ UNCHANGED <<sessionOf, creations, poolVars, sessionVars, mirrorVars>>

\* deleteArchivedChats deletes the row, and no more than that.  (A chat is archived
\* and restored at any time; nothing else here depends on it.)
DeleteArchived(c) ==
  /\ Exists(c)
  /\ "use during delete" \in Overlaps \/ ~At(OpeningPhases, c)
  /\ "archived in use" \in Overlaps \/ sessionOf[c] = NoSession
  /\ row' = [row EXCEPT ![c] = NoRow]
  /\ UNCHANGED <<sessionOf, creations, poolVars, sessionVars, request, mirrorVars>>

-----------------------------------------------------------------------------
(* POST /api/chats/prewarm *)

\* The pool has no session for this agent.  (If it has one, the request waits for
\* its inspection, and changes nothing.)
PrewarmBegins(q, a) ==
  /\ request[q] = Idle
  /\ \A s \in InPool : agentOf[s] # a
  /\ \/ "prewarm twice" \in Overlaps
     \/ \A p \in Requests : request[p].at = "warming" => request[p].agent # a
  /\ request' = [request EXCEPT ![q] = [Idle EXCEPT !.at = "warming", !.agent = a]]
  /\ UNCHANGED <<row, sessionOf, creations, poolVars, sessionVars, mirrorVars>>

\* trimChatPrewarms: the oldest are closed.
Excess(pool) ==
  IF Len(pool) > MaxPrewarmSessions THEN Len(pool) - MaxPrewarmSessions ELSE 0

\* A claim that is to be refused has taken a session for this agent.
RefusedClaim(a) ==
  \E q \in Requests : /\ request[q].at = "matching"
                      /\ agentOf[request[q].session] = a
                      /\ ~Matches(request[q].session, request[q].agent)

\* The session is made and stored, and its inspection starts.  An entry that
\* another request has stored meanwhile is overwritten.
PrewarmStores(q) ==
  /\ request[q].at = "warming"
  /\ "prewarm in claim" \in Overlaps \/ ~RefusedClaim(request[q].agent)
  /\ \E s \in Sessions :
       LET pool == Append(WithoutKey(request[q].agent), s)
           trimmed == { pool[i] : i \in 1 .. Excess(pool) }
       IN /\ Fresh(s)
          /\ ConstructedAndClosed(s, request[q].agent, trimmed)
          /\ prewarms' = SubSeq(pool, Excess(pool) + 1, Len(pool))
          /\ inspecting' = inspecting \cup {s}
  /\ Ends(q)
  /\ UNCHANGED <<row, sessionOf, creations, mirrorVars>>

PrewarmFails(q) ==
  /\ request[q].at = "warming"
  /\ Ends(q)
  /\ UNCHANGED <<row, sessionOf, creations, poolVars, sessionVars, mirrorVars>>

\* The inspection of a session that was closed meanwhile is given up.
InspectionSucceeds(s) ==
  /\ s \in inspecting
  /\ inspecting' = inspecting \ {s}
  /\ talking' = talking \cup ({s} \cap Open)
  /\ UNCHANGED <<row, sessionOf, creations, prewarms, agentOf, processes,
                 request, mirrorVars>>

\* closeChatPrewarm, unless it is closed: the entry goes by its key.
InspectionFails(s) ==
  /\ s \in inspecting
  /\ inspecting' = inspecting \ {s}
  /\ prewarms' = IF s \in Open THEN WithoutKey(agentOf[s]) ELSE prewarms
  /\ Closed({s})
  /\ UNCHANGED <<row, sessionOf, creations, request, mirrorVars>>

-----------------------------------------------------------------------------
(* The mirror of the sessions in the process registry *)

\* The chats whose session reports a process.
LiveEntries ==
  [c \in Chats |-> IF sessionOf[c] \in processes THEN sessionOf[c] ELSE NoSession]

\* ChatProcessRegistry.refresh looks up the chat of every session with a process;
\* it fails, and replaces nothing, when one of the chats is not found.
Refreshes ==
  /\ refreshing
  /\ refreshing' = FALSE
  /\ entries' = IF \A c \in Chats : sessionOf[c] \in processes => Exists(c)
                THEN LiveEntries
                ELSE entries
  /\ UNCHANGED <<row, sessionOf, creations, poolVars, sessionVars, request>>

\* The process of a session is gone, or there is one again: Claude and Pi start
\* theirs when they need it.  The session of a chat tells its subscriber.  (Of another
\* session nobody asks; it may as well have lost its process once a chat has it.)
ProcessChanges(s) ==
  /\ s \in Mapped
  /\ processes' = (processes \ {s}) \cup ({s} \ processes)
  /\ refreshing' = TRUE
  /\ UNCHANGED <<row, sessionOf, creations, poolVars, agentOf, talking,
                 request, entries>>

-----------------------------------------------------------------------------
Next ==
  \/ \E q \in Requests :
       \/ \E c \in Chats :
            \/ UseBegins(q, c) \/ DeleteBegins(q, c)
            \/ InsertsClaimed(q, c) \/ InsertsCold(q, c)
            \/ \E a \in Agents : AgentChangeBegins(q, c, a)
       \/ \E a \in Agents : NewBegins(q, a) \/ PrewarmBegins(q, a)
       \/ \E s \in Sessions, a \in Agents : ClaimBegins(q, s, a)
       \/ UseOpens(q) \/ UseEndsEarly(q) \/ ConversationStarts(q)
       \/ UseReturnsThread(q) \/ UseEnds(q) \/ SavesThread(q)
       \/ ClaimMatches(q) \/ ClaimRefused(q) \/ CreateFails(q)
       \/ AgentChangeRefused(q) \/ AgentChangeCloses(q)
       \/ AgentChangeRequires(q) \/ AgentChangeRecords(q)
       \/ DeleteEnds(q) \/ DeleteAllBegins(q) \/ DeleteAllEnds(q)
       \/ PrewarmStores(q) \/ PrewarmFails(q)
  \/ \E c \in Chats :
       CreationSucceeds(c) \/ CreationFails(c) \/ DeleteArchived(c)
  \/ \E s \in Sessions :
       InspectionSucceeds(s) \/ InspectionFails(s) \/ ProcessChanges(s)
  \/ Refreshes

Spec == Init /\ [][Next]_vars

-----------------------------------------------------------------------------
(* Properties *)

Creating == { q \in Requests : request[q].at \in CreatePhases }
Claimed == { request[q].session : q \in Creating } \ {NoSession}

\* No agent is left running for nothing: an open session is the session of a chat
\* that exists, or in the pool, or held by the request that has claimed it, whatever
\* was closed, trimmed, refused, deleted or changed meanwhile (the three maps of
\* ChatEngine; closeChatPrewarm deletes by key, engine-runtime.ts 189).
SessionsAreOwned ==
  \A s \in Open :
    s \in InPool \cup Claimed \/ \E c \in Chats : Exists(c) /\ sessionOf[c] = s

\* A session has one owner, and an owner's session is open: no two chats share a
\* session, a claimed session has left the pool, and a chat or the pool never
\* keeps a session that closeChatPrewarm or closeChatSession has closed.
OneOwner ==
  /\ Mapped \cup InPool \cup Claimed \subseteq Open
  /\ Mapped \cap InPool = {}
  /\ Claimed \cap (Mapped \cup InPool) = {}
  /\ \A c, d \in Chats : sessionOf[c] = sessionOf[d] => c = d \/ sessionOf[c] = NoSession
  /\ \A p, q \in Creating : request[p].session = request[q].session =>
       p = q \/ request[p].session = NoSession

\* A chat talks to its own agent: its session was made for the agent its row
\* names, and its remote thread is one that this agent gave ("never a wrong
\* session", engine-runtime.ts 700; the lock of setChatRuntime).
AgentMatches ==
  \A c \in Chats : Exists(c) =>
    /\ sessionOf[c] # NoSession => agentOf[sessionOf[c]] = row[c].agent
    /\ row[c].thread \in {NoAgent, row[c].agent}

\* When no refresh is queued, the process registry has an entry for a chat exactly
\* if its session has a process, and no entry of an earlier session of the chat
\* (process-registry.ts 6: "Mirrors live chat sessions into the process registry").
\* The activity store learns from these entries that a process is lost.
MirrorIsCurrent ==
  ~refreshing => \A c \in Chats : Exists(c) => entries[c] = LiveEntries[c]
=============================================================================
