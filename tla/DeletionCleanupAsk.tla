------------------------- MODULE DeletionCleanupAsk -------------------------
(***************************************************************************)
(* DeletionCleanup with a history variable: whether the retry that is owed *)
(* was asked for by forceRetry, which a desk load presses.                 *)
(***************************************************************************)
EXTENDS DeletionCleanup

VARIABLE forced   \* a desk load asked while the pass was in flight, and waits for its end

AskInit == CleanupInit /\ forced = FALSE
AskNext == CleanupNext /\ forced' = (retryOwed' /\ (forced \/ DeskLoad))
AskSpec == AskInit /\ [][AskNext]_<<cleanupVars, forced>>

(* "Someone asked while this pass was in flight and was told to wait for it ... so honour that ask
   now rather than leaving it dropped": as long as anything is owed when the pass ends, exhausted
   tombstones included, a timer is armed for the desk load that asked. (runOnce's finally) *)
AskHonoured ==
    [][forced /\ ~forced' /\ process' # "down" /\ owed' # {} => scheduled']_<<cleanupVars, forced>>
=============================================================================
