--------------------------- MODULE MCChatSessions ---------------------------
EXTENDS ChatSessions, TLC

Symmetry == Permutations(Chats) \cup Permutations(Agents) \cup
            Permutations(Sessions) \cup Permutations(Requests)
=============================================================================
