-------------------------- MODULE MessageDelivery --------------------------
(***************************************************************************)
(* What the daemon promises about a chat message that a client has sent:   *)
(* it is handed to the agent at most once each time it is accepted, a      *)
(* message that is not is never lost silently, and one of which the daemon *)
(* cannot know, because it died with it in hand, is left to the user and   *)
(* never sent again by itself (packages/daemon/src/features/chat/          *)
(* repository.ts 265-269).                                                 *)
(***************************************************************************)
CONSTANT Messages

VARIABLES message,    \* where each message is
          withdrawn   \* those the user is asking to stop, to clear or to delete;
                      \* the user changes it in any step

\* none: the daemon has nothing to do for it; waiting: stored; held: claimed and
\* not with the agent yet; given: the agent works on it; revoked: it does, but the
\* user has stopped it; closing: over, and about to be forgotten; unsure: the
\* daemon died after it was claimed.
Place == {"none", "waiting", "held", "given", "revoked", "closing", "unsure"}

Init == message = [m \in Messages |-> "none"]

Goes(m, from, to) == message[m] \in from /\ message' = [message EXCEPT ![m] = to]

Accept(m) == Goes(m, {"none"}, "waiting")
Take(m)   == Goes(m, {"waiting"}, "held")
Give(m)   == Goes(m, {"held"}, "given")
Close(m)  == Goes(m, {"held", "given"}, "closing")
Forget(m) == Goes(m, {"closing", "revoked"}, "none")

\* Only what the user withdraws is dropped before it is over.
Revoked(p) == IF p \in {"given", "revoked"} THEN "revoked" ELSE "none"
Revoke(M) ==
  /\ M \subseteq withdrawn
  /\ message' = [m \in Messages |-> IF m \in M THEN Revoked(message[m]) ELSE message[m]]

\* The daemon dies: what is stored waits on, and nothing claimed is given again.
AfterDeath(p) ==
  CASE p \in {"held", "given", "closing"} -> "unsure"
    [] p = "revoked" -> "none"
    [] OTHER -> p
Die == message' = [m \in Messages |-> AfterDeath(message[m])]

Next ==
  \/ \E m \in Messages : Accept(m) \/ Take(m) \/ Give(m) \/ Close(m) \/ Forget(m)
  \/ \E M \in SUBSET Messages : Revoke(M)
  \/ Die

Spec == Init /\ [][Next]_message
=============================================================================
