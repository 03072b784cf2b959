----------------------------- MODULE MCChatRuns -----------------------------
(* ChatRuns with all the runs in the first chat: two runs of one chat compete *)
(* for the registry slot, the row and the activity entry of the chat.         *)
EXTENDS ChatRunsDelivery, TLC

CONSTANTS c1
MCChatOf == [r \in Runs |-> c1]

Symmetry == Permutations(Runs) \cup Permutations(Inputs)
=============================================================================
