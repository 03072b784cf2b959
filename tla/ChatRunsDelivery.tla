-------------------------- MODULE ChatRunsDelivery --------------------------
(***************************************************************************)
(* ChatRuns implements MessageDelivery: where the message of a run is can  *)
(* be read off its row and its execution.                                  *)
(***************************************************************************)
EXTENDS ChatRuns

\* A claimed message whose row is there and that is not with the agent.
ClaimedPlace(phase) ==
  CASE phase = "preparing"  -> "held"
    [] phase = "completing" -> "closing"
    [] OTHER -> "unsure"

\* Executing beats the row: a message that is with the agent is given even when a
\* row still says that it is queued.
Place(r) ==
  IF exec[r].phase = "streaming" THEN IF rows[r] = "none" THEN "revoked" ELSE "given"
  ELSE CASE rows[r] = "none"   -> "none"
         [] rows[r] = "queued" -> "waiting"
         [] rows[r] = "dispatching" -> ClaimedPlace(exec[r].phase)

\* A Stop, a clear or a deletion that has not taken its effect on the row yet, and the
\* chats that are archived, from where they are deleted at once.
Withdrawn ==
  {r \in Runs : stop[r] # "idle" \/ clear[ChatOf[r]] = "deleting"
                \/ remove[ChatOf[r]] = "deleting" \/ ChatOf[r] \in archived}

Delivery == INSTANCE MessageDelivery WITH
              Messages <- Runs, message <- [r \in Runs |-> Place(r)], withdrawn <- Withdrawn

\* Every step of the daemon, a crash and a recovery included, is a step a message may
\* take: from stored through claimed to the agent, once, dropped only when the user
\* asks, and from a claim that a crash has cut off only to the user (repository.ts
\* 265-269; repository.test "keeps a claimed input durable across the provider-start
\* crash window").
DeliversMessages == Delivery!Spec
=============================================================================
