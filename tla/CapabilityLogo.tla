--------------------------- MODULE CapabilityLogo ---------------------------
(***************************************************************************)
(* The one drawing a capability incarnation is given: src/lifecycle/logo/, *)
(* and the logo columns of the registry row.                               *)
(*                                                                         *)
(* A tile of the desk asks for an attempt.  The attempt wins a claim in    *)
(* one short platform write, pays for a drawing under the incarnation's    *)
(* read token, installs the bytes at the incarnation's one logo path, and  *)
(* records the outcome in a second short write.  The other tiles that ask  *)
(* meanwhile watch the winner.  A process that dies leaves a row that says *)
(* `generating`; a recovery pass, at boot and at every desk load, tells it *)
(* from a call that is under way and reconciles row and file.  A deletion  *)
(* takes the row and the tree from under either of them.                   *)
(*                                                                         *)
(* The write lease is the one of MutationCoordinator.  The two writes of   *)
(* an attempt and the one of a recovery run to their end without an await, *)
(* so each is one action that finds the lease free; a deletion and a build *)
(* keep it across awaits.  A drawing is named by the attempt that drew it. *)
(***************************************************************************)
EXTENDS Naturals, FiniteSets

CONSTANTS Incarnations,   \* capability incarnations
          Requests,       \* requests to POST logo-attempt
          MaxAttempts,    \* LOGO_MAX_CLAIMED_ATTEMPTS
          Free, Build,    \* holders of the write lease that delete nothing
          NoOne           \* no incarnation, no request

ASSUME HoldersAssumption ==
    /\ Free \notin Incarnations /\ Build \notin Incarnations /\ Free # Build
    /\ NoOne \notin Incarnations \cup Requests

ASSUME AttemptsAssumption == MaxAttempts \in Nat

VARIABLES life,       \* the registry row: active, a tombstone, or gone with its tree
          status,     \* logo_status
          attempts,   \* logo_attempts
          drawing,    \* the drawing at the logo path, 0 without one
          truncated,  \* incarnations with an empty file at the logo path
          tree,       \* incarnations with a directory
          gate,       \* the read gate
          lease,      \* the holder of the write lease; an incarnation while it is being deleted
          pc,         \* where a request stands
          on,         \* the incarnation it asks for
          claim,      \* the attempt it claimed, 0 without a claim
          told,       \* the signal of its read token has aborted
          installed,  \* it installed its drawing
          winner,     \* the request it watches
          phase,      \* the process boots or serves
          pass,       \* a recovery pass is running
          todo,       \* rows it has yet to look at
          seen,       \* the rows as it read them
          over,       \* its budget is spent
          moving,     \* the row it waits to move
          action,     \* the transition that row earned
          paid,       \* calls of the drawing service so far
          shown       \* drawings that were ever served

rowVars  == <<life, status, attempts>>
diskVars == <<drawing, truncated, tree>>
reqVars  == <<pc, on, claim, told, installed, winner>>
passVars == <<pass, todo, seen, over, moving, action>>
vars == <<rowVars, diskVars, gate, lease, reqVars, phase, passVars, paid, shown>>

Attempts == 1..MaxAttempts
Statuses == {"absent", "generating", "present", "abandoned"}
Trying   == {"claiming", "claimed", "drawing", "settling"}   \* holds a ticket
Won      == Trying \ {"claiming"}                            \* the ticket says claimed

TypeOK ==
    /\ life \in [Incarnations -> {"active", "tombstone", "gone"}]
    /\ status \in [Incarnations -> Statuses]
    /\ attempts \in [Incarnations -> 0..MaxAttempts]
    /\ drawing \in [Incarnations -> 0..MaxAttempts]
    /\ truncated \subseteq Incarnations
    /\ tree \subseteq Incarnations
    /\ gate \in [Incarnations -> {"open", "closing", "retired"}]
    /\ lease \in Incarnations \cup {Free, Build}
    /\ pc \in [Requests -> Trying \cup {"idle", "watching"}]
    /\ on \in [Requests -> Incarnations \cup {NoOne}]
    /\ claim \in [Requests -> 0..MaxAttempts]
    /\ told \in [Requests -> BOOLEAN]
    /\ installed \in [Requests -> BOOLEAN]
    /\ winner \in [Requests -> Requests \cup {NoOne}]
    /\ phase \in {"booting", "serving"}
    /\ pass \in BOOLEAN /\ over \in BOOLEAN
    /\ todo \subseteq Incarnations
    /\ seen \in [Incarnations -> [status : Statuses, attempts : 0..MaxAttempts]]
    /\ moving \in Incarnations \cup {NoOne}
    /\ action \in {"none", "accepted", "released", "abandoned", "lost"}
    /\ paid \in [Incarnations -> Nat]
    /\ shown \in [Incarnations -> SUBSET Attempts]

Init ==
    /\ life = [c \in Incarnations |-> "active"]
    /\ status = [c \in Incarnations |-> "absent"]
    /\ attempts = [c \in Incarnations |-> 0]
    /\ drawing = [c \in Incarnations |-> 0]
    /\ truncated = {}
    /\ tree = Incarnations
    /\ gate = [c \in Incarnations |-> "open"]
    /\ lease = Free
    /\ pc = [r \in Requests |-> "idle"]
    /\ on = [r \in Requests |-> NoOne]
    /\ claim = [r \in Requests |-> 0]
    /\ told = [r \in Requests |-> FALSE]
    /\ installed = [r \in Requests |-> FALSE]
    /\ winner = [r \in Requests |-> NoOne]
    /\ phase = "booting"
    /\ pass = FALSE /\ over = FALSE
    /\ todo = {}
    /\ seen = [c \in Incarnations |-> [status |-> "absent", attempts |-> 0]]
    /\ moving = NoOne
    /\ action = "none"
    /\ paid = [c \in Incarnations |-> 0]
    /\ shown = [c \in Incarnations |-> {}]

-----------------------------------------------------------------------------
(* the claims of this process *)

Occupied(c) == drawing[c] # 0 \/ c \in truncated

\* Mutation: only a claim that was won counts, the registration after the commit.
IsAttemptingWon(c) == \E r \in Requests : on[r] = c /\ pc[r] \in {"drawing", "settling"}

\* isAttempting: some request, asking or won, holds a ticket for the incarnation.
IsAttempting(c) == \E r \in Requests : on[r] = c /\ pc[r] \in Trying

Winners(c) == {w \in Requests : on[w] = c /\ pc[w] \in Won}

\* The ticket ends: who watches this attempt is woken, whatever it did.
EndTicket(r) ==
    LET over_(q) == q = r \/ (pc[q] = "watching" /\ winner[q] = r)
    IN  /\ pc' = [q \in Requests |-> IF over_(q) THEN "idle" ELSE pc[q]]
        /\ on' = [q \in Requests |-> IF over_(q) THEN NoOne ELSE on[q]]
        /\ winner' = [q \in Requests |-> IF over_(q) THEN NoOne ELSE winner[q]]
        /\ claim' = [claim EXCEPT ![r] = 0]
        /\ told' = [told EXCEPT ![r] = FALSE]
        /\ installed' = [installed EXCEPT ![r] = FALSE]

\* awaitWinner finds a winner to watch.
Watch(r, c) ==
    /\ \E w \in Winners(c) : winner' = [winner EXCEPT ![r] = w]
    /\ pc' = [pc EXCEPT ![r] = "watching"]
    /\ on' = [on EXCEPT ![r] = c]
    /\ UNCHANGED <<claim, told, installed>>

-----------------------------------------------------------------------------
(* an attempt *)

\* canReachTheProvider and looksClaimable: two looks without the lease.
WorthAsking(c) ==
    /\ gate[c] = "open"
    /\ life[c] = "active" /\ status[c] = "absent" /\ attempts[c] < MaxAttempts

\* The ticket is taken before the claim is asked for.
Ask(r, c) ==
    /\ phase = "serving" /\ pc[r] = "idle"
    /\ WorthAsking(c)
    /\ pc' = [pc EXCEPT ![r] = "claiming"]
    /\ on' = [on EXCEPT ![r] = c]
    /\ UNCHANGED <<rowVars, diskVars, gate, lease, claim, told, installed, winner, phase,
                   passVars, paid, shown>>

\* Refused by the preflight while another request draws: it watches that one.
AskLate(r, c) ==
    /\ phase = "serving" /\ pc[r] = "idle"
    /\ ~WorthAsking(c)
    /\ Watch(r, c)
    /\ UNCHANGED <<rowVars, diskVars, gate, lease, phase, passVars, paid, shown>>

\* The bound of a watch runs out, or its client is gone.
StopWatching(r) ==
    /\ pc[r] = "watching"
    /\ pc' = [pc EXCEPT ![r] = "idle"]
    /\ on' = [on EXCEPT ![r] = NoOne]
    /\ winner' = [winner EXCEPT ![r] = NoOne]
    /\ UNCHANGED <<rowVars, diskVars, gate, lease, claim, told, installed, phase, passVars,
                   paid, shown>>

\* The WHERE of claimLogoGeneration.
Claimable(c) == life[c] = "active" /\ status[c] = "absent" /\ attempts[c] < MaxAttempts

\* claimLogoGeneration under the lease.
Claim(r) ==
    LET c == on[r]
    IN  /\ pc[r] = "claiming" /\ lease = Free
        /\ Claimable(c)
        /\ status' = [status EXCEPT ![c] = "generating"]
        /\ attempts' = [attempts EXCEPT ![c] = @ + 1]
        /\ claim' = [claim EXCEPT ![r] = attempts[c] + 1]
        /\ pc' = [pc EXCEPT ![r] = "claimed"]
        /\ UNCHANGED <<life, diskVars, gate, lease, on, told, installed, winner, phase,
                       passVars, paid, shown>>

\* The claim matched no row: the ticket ends, and the request watches the winner if there is one.
ClaimLost(r) ==
    LET c == on[r]
    IN  /\ pc[r] = "claiming" /\ lease = Free
        /\ ~Claimable(c)
        /\ IF Winners(c) # {} THEN Watch(r, c) ELSE EndTicket(r)
        /\ UNCHANGED <<rowVars, diskVars, gate, lease, phase, passVars, paid, shown>>

\* The write threw: the transaction is undone and the request answers with the row it reads.
ClaimThrows(r) ==
    /\ pc[r] = "claiming" /\ lease = Free
    /\ EndTicket(r)
    /\ UNCHANGED <<rowVars, diskVars, gate, lease, phase, passVars, paid, shown>>

Unpaid(r) ==
    /\ pc' = [pc EXCEPT ![r] = "settling"]
    /\ UNCHANGED <<rowVars, diskVars, gate, lease, on, claim, told, installed, winner, phase,
                   passVars, paid, shown>>

\* withTokens: the token is granted and the service is called.
CallService(r) ==
    /\ pc[r] = "claimed" /\ gate[on[r]] = "open"
    /\ paid' = [paid EXCEPT ![on[r]] = @ + 1]
    /\ pc' = [pc EXCEPT ![r] = "drawing"]
    /\ UNCHANGED <<rowVars, diskVars, gate, lease, on, claim, told, installed, winner, phase,
                   passVars, shown>>

\* Mutation: a closing gate is waited for.
TokenAwaited(r) == pc[r] = "claimed" /\ gate[on[r]] = "closing" /\ UNCHANGED vars

\* The token is refused after the claim was won: the attempt is spent unpaid.
TokenRefused(r) == pc[r] = "claimed" /\ gate[on[r]] # "open" /\ Unpaid(r)

\* The drawing is there and nobody told the attempt to stop: installCapabilityLogo, which links
\* only to a free path. The token is released.
Install(r) ==
    LET c == on[r]
    IN  /\ pc[r] = "drawing"
        /\ ~told[r]
        /\ ~Occupied(c)
        /\ drawing' = [drawing EXCEPT ![c] = claim[r]]
        /\ tree' = tree \cup {c}
        /\ installed' = [installed EXCEPT ![r] = TRUE]
        /\ pc' = [pc EXCEPT ![r] = "settling"]
        /\ UNCHANGED <<rowVars, truncated, gate, lease, on, claim, told, winner, phase,
                       passVars, paid, shown>>

\* Cancelled, timed out, malformed, or refused by the installer: nothing is installed.
NotDrawn(r) == pc[r] = "drawing" /\ Unpaid(r)

\* resolveSettlement.
SettlementOf(r) ==
    IF installed[r] THEN "present"
    ELSE IF claim[r] >= MaxAttempts THEN "abandoned" ELSE "absent"

\* finalizeAttempt: the row is settled or released, or, having moved, it is left and the
\* attempt's own file is taken back.
Settle(r) ==
    LET c == on[r]
    IN  /\ pc[r] = "settling" /\ lease = Free
        /\ IF life[c] = "active" /\ status[c] = "generating"
             THEN /\ status' = [status EXCEPT ![c] = SettlementOf(r)]
                  /\ UNCHANGED drawing
             ELSE /\ drawing' = IF installed[r] /\ drawing[c] = claim[r]
                                THEN [drawing EXCEPT ![c] = 0] ELSE drawing
                  /\ UNCHANGED status
        /\ EndTicket(r)
        /\ UNCHANGED <<life, attempts, truncated, tree, gate, lease, phase, passVars,
                       paid, shown>>

\* The second write threw: the row stays as it is and the ticket ends.
SettleThrows(r) ==
    /\ pc[r] = "settling" /\ lease = Free
    /\ EndTicket(r)
    /\ UNCHANGED <<rowVars, diskVars, gate, lease, phase, passVars, paid, shown>>

\* GET logo.svg: served to an address whose row is active and present, under a read token, when
\* the file holds bytes. The answer may be cached for a year.
Serve(c) ==
    /\ phase = "serving"
    /\ life[c] = "active" /\ status[c] = "present" /\ gate[c] = "open"
    /\ drawing[c] # 0
    /\ shown' = [shown EXCEPT ![c] = @ \cup {drawing[c]}]
    /\ UNCHANGED <<rowVars, diskVars, gate, lease, reqVars, phase, passVars, paid>>

-----------------------------------------------------------------------------
(* recovery *)

\* recoverCapabilityLogos reads the rows once; one pass runs at a time, and at boot nothing else.
StartPass ==
    /\ ~pass
    /\ pass' = TRUE
    /\ todo' = {c \in Incarnations : life[c] = "active"}
    /\ seen' = [c \in Incarnations |-> [status |-> status[c], attempts |-> attempts[c]]]
    /\ over' = FALSE
    /\ UNCHANGED <<rowVars, diskVars, gate, lease, reqVars, phase, moving, action, paid, shown>>

\* The pass's budget is spent.
SpendBudget ==
    /\ pass /\ ~over
    /\ over' = TRUE
    /\ UNCHANGED <<rowVars, diskVars, gate, lease, reqVars, phase, pass, todo, seen, moving,
                   action, paid, shown>>

\* A row is passed over: its status asks for nothing, an attempt owns it, the gate is closing, the
\* tree could not be read or cleared, the row is honest, or the budget is spent.
PassOver(c) ==
    /\ pass /\ moving = NoOne /\ c \in todo
    /\ todo' = todo \ {c}
    /\ UNCHANGED <<rowVars, diskVars, gate, lease, reqVars, phase, pass, seen, over, moving,
                   action, paid, shown>>

MayLook(c) ==
    /\ pass /\ ~over /\ moving = NoOne /\ c \in todo
    /\ ~IsAttempting(c)
    /\ gate[c] = "open"

Earned(c, a) ==
    /\ todo' = todo \ {c}
    /\ moving' = c /\ action' = a

\* resolveRecoveryAction for a claim nobody here holds.
ActionFor(c) ==
    IF drawing[c] # 0 THEN "accepted"
    ELSE IF seen[c].attempts >= MaxAttempts THEN "abandoned" ELSE "released"

\* Mutation: an empty file is a missing one, and stays at the path.
LookAtInterruptedLeaves(c) ==
    /\ MayLook(c) /\ seen[c].status = "generating"
    /\ Earned(c, ActionFor(c))
    /\ UNCHANGED <<rowVars, drawing, truncated, tree, gate, lease, reqVars, phase, pass, seen,
                   over, paid, shown>>

\* inspectIncarnationTree for an interrupted claim: an empty file is removed, and what is at the
\* path decides.
LookAtInterrupted(c) ==
    /\ MayLook(c) /\ seen[c].status = "generating"
    /\ truncated' = truncated \ {c}
    /\ Earned(c, ActionFor(c))
    /\ UNCHANGED <<rowVars, drawing, tree, gate, lease, reqVars, phase, pass, seen, over, paid,
                   shown>>

\* settleIdleTree, provenLoss: a present row whose file is empty, or gone from a tree that is
\* there, has lost its drawing. An empty file that cannot be removed stays.
LookAtPresent(c) ==
    /\ MayLook(c) /\ seen[c].status = "present"
    /\ drawing[c] = 0
    /\ c \in truncated \/ c \in tree
    /\ truncated' \in {truncated, truncated \ {c}}
    /\ Earned(c, "lost")
    /\ UNCHANGED <<rowVars, drawing, tree, gate, lease, reqVars, phase, pass, seen, over,
                   paid, shown>>

\* stillTrue: asked again under the lease.
StillTrue(c) ==
    /\ ~IsAttempting(c)
    /\ life[c] = "active"
    /\ seen[c] = [status |-> status[c], attempts |-> attempts[c]]

EndMove == moving' = NoOne /\ action' = "none"

\* Mutation: a lost drawing is drawn again.
MovedToRedraws(a) ==
    CASE a = "accepted" -> "present" [] a \in {"released", "lost"} -> "absent"
      [] OTHER -> "abandoned"

\* applyRecoveryAction.
MovedTo(a) ==
    CASE a = "accepted" -> "present" [] a = "released" -> "absent" [] OTHER -> "abandoned"

\* The row moves, if what was read of it still holds.
Move ==
    /\ moving # NoOne /\ lease = Free
    /\ status' = IF StillTrue(moving) THEN [status EXCEPT ![moving] = MovedTo(action)] ELSE status
    /\ EndMove
    /\ UNCHANGED <<life, attempts, diskVars, gate, lease, reqVars, phase, pass, todo, seen, over,
                   paid, shown>>

\* The budget ran out while the write waited, or the write threw: the row is left as it is.
MoveRefused ==
    /\ moving # NoOne
    /\ EndMove
    /\ UNCHANGED <<rowVars, diskVars, gate, lease, reqVars, phase, pass, todo, seen, over, paid,
                   shown>>

\* The boot goes on to serve, a desk load to render.
EndPass ==
    /\ pass /\ todo = {} /\ moving = NoOne
    /\ pass' = FALSE
    /\ phase' = "serving"
    /\ UNCHANGED <<rowVars, diskVars, gate, lease, reqVars, todo, seen, over, moving, action,
                   paid, shown>>

-----------------------------------------------------------------------------
(* deletion, builds and the end of the process *)

\* Mutation: the token goes back before the service is called.
HoldingUntilTheCall(r, c) == FALSE

\* The request holds the incarnation's read token.
Holding(r, c) == pc[r] = "drawing" /\ on[r] = c

\* A deletion takes the lease and closes the gate: who holds a token is told.
BeginDeletion(c) ==
    /\ phase = "serving" /\ lease = Free /\ life[c] = "active"
    /\ lease' = c
    /\ gate' = [gate EXCEPT ![c] = "closing"]
    /\ told' = [r \in Requests |-> told[r] \/ Holding(r, c)]
    /\ UNCHANGED <<rowVars, diskVars, pc, on, claim, installed, winner, phase, passVars, paid,
                   shown>>

\* The drain's deadline before its last reader: the gate opens again.
DrainTimeout(c) ==
    /\ lease = c /\ gate[c] = "closing"
    /\ gate' = [gate EXCEPT ![c] = "open"]
    /\ lease' = Free
    /\ UNCHANGED <<rowVars, diskVars, reqVars, phase, passVars, paid, shown>>

\* Nobody holds a token: the row becomes a tombstone and the gate is retired.
Tombstone(c) ==
    /\ lease = c /\ gate[c] = "closing"
    /\ \A r \in Requests : ~Holding(r, c)
    /\ life' = [life EXCEPT ![c] = "tombstone"]
    /\ gate' = [gate EXCEPT ![c] = "retired"]
    /\ UNCHANGED <<status, attempts, diskVars, lease, reqVars, phase, passVars, paid, shown>>

\* The tree is erased by the deletion itself, or later by a cleanup pass that found the lease free.
EraseTree(c) ==
    /\ life[c] = "tombstone" /\ lease \in {c, Free}
    /\ life' = [life EXCEPT ![c] = "gone"]
    /\ drawing' = [drawing EXCEPT ![c] = 0]
    /\ truncated' = truncated \ {c}
    /\ tree' = tree \ {c}
    /\ UNCHANGED <<status, attempts, gate, lease, reqVars, phase, passVars, paid, shown>>

EndDeletion(c) ==
    /\ lease = c /\ gate[c] = "retired"
    /\ lease' = Free
    /\ UNCHANGED <<rowVars, diskVars, gate, reqVars, phase, passVars, paid, shown>>

\* A build of some other capability keeps the lease for as long as it takes.
BeginBuild ==
    /\ phase = "serving" /\ lease = Free
    /\ lease' = Build
    /\ UNCHANGED <<rowVars, diskVars, gate, reqVars, phase, passVars, paid, shown>>

EndBuild ==
    /\ lease = Build
    /\ lease' = Free
    /\ UNCHANGED <<rowVars, diskVars, gate, reqVars, phase, passVars, paid, shown>>

\* What the process held is gone with it; recoverAtBoot opens the gates of the active rows.
ProcessGone ==
    /\ lease' = Free
    /\ gate' = [c \in Incarnations |-> IF life[c] = "active" THEN "open" ELSE "retired"]
    /\ pc' = [r \in Requests |-> "idle"]
    /\ on' = [r \in Requests |-> NoOne]
    /\ claim' = [r \in Requests |-> 0]
    /\ told' = [r \in Requests |-> FALSE]
    /\ installed' = [r \in Requests |-> FALSE]
    /\ winner' = [r \in Requests |-> NoOne]
    /\ phase' = "booting"
    /\ pass' = FALSE /\ over' = FALSE /\ todo' = {}
    /\ moving' = NoOne /\ action' = "none"
    /\ UNCHANGED <<rowVars, seen, paid, shown>>

\* The process dies between two steps.
Die ==
    /\ ProcessGone
    /\ UNCHANGED diskVars

\* It dies inside an install, which has made the directory and perhaps linked the file.
DieInstalling(r) ==
    LET c == on[r]
    IN  /\ pc[r] = "drawing" /\ ~told[r]
        /\ tree' = tree \cup {c}
        /\ drawing' \in IF Occupied(c) THEN {drawing}
                        ELSE {drawing, [drawing EXCEPT ![c] = claim[r]]}
        /\ UNCHANGED truncated
        /\ ProcessGone

\* Someone else empties or removes the file, or moves the directory away.
LoseFile(c) ==
    /\ drawing[c] # 0
    /\ drawing' = [drawing EXCEPT ![c] = 0]
    /\ truncated' \in {truncated, truncated \cup {c}}
    /\ UNCHANGED <<rowVars, tree, gate, lease, reqVars, phase, passVars, paid, shown>>

LoseTree(c) ==
    /\ life[c] = "active" /\ c \in tree
    /\ drawing' = [drawing EXCEPT ![c] = 0]
    /\ truncated' = truncated \ {c}
    /\ tree' = tree \ {c}
    /\ UNCHANGED <<rowVars, gate, lease, reqVars, phase, passVars, paid, shown>>

-----------------------------------------------------------------------------
AttemptNext ==
    \E r \in Requests :
        \/ \E c \in Incarnations : Ask(r, c) \/ AskLate(r, c)
        \/ StopWatching(r)
        \/ Claim(r) \/ ClaimLost(r) \/ ClaimThrows(r)
        \/ CallService(r) \/ TokenRefused(r)
        \/ Install(r) \/ NotDrawn(r)
        \/ Settle(r) \/ SettleThrows(r)

PassNext ==
    \/ StartPass \/ SpendBudget \/ EndPass
    \/ \E c \in Incarnations : PassOver(c) \/ LookAtInterrupted(c) \/ LookAtPresent(c)
    \/ Move \/ MoveRefused

DeletionNext ==
    \E c \in Incarnations :
        BeginDeletion(c) \/ DrainTimeout(c) \/ Tombstone(c) \/ EraseTree(c) \/ EndDeletion(c)

Next ==
    \/ AttemptNext
    \/ PassNext
    \/ DeletionNext
    \/ \E c \in Incarnations : Serve(c) \/ LoseFile(c) \/ LoseTree(c)
    \/ BeginBuild \/ EndBuild
    \/ Die
    \/ \E r \in Requests : DieInstalling(r)

(* The calls of an attempt are awaited one after the other, the service and a watch have a        *)
(* deadline, a deletion and a build end; the lease is granted in turn, so who asks for it is      *)
(* admitted although others hold it in between.                                                   *)
Fairness ==
    /\ \A r \in Requests :
          /\ SF_vars(Claim(r) \/ ClaimLost(r) \/ ClaimThrows(r))
          /\ WF_vars(CallService(r) \/ TokenRefused(r))
          /\ WF_vars(Install(r) \/ NotDrawn(r))
          /\ SF_vars(Settle(r) \/ SettleThrows(r))
          /\ WF_vars(StopWatching(r))
    /\ \A c \in Incarnations :
          WF_vars(DrainTimeout(c) \/ Tombstone(c)) /\ WF_vars(EndDeletion(c))
    /\ WF_vars(EndBuild)

Spec     == Init /\ [][Next]_vars
FairSpec == Spec /\ Fairness

-----------------------------------------------------------------------------
(* what a logo promises *)

(* One incarnation is drawn once at a time: no two requests are past a claim for it together,     *)
(* whatever recovery released meanwhile. (claimLogoGeneration, isAttempting, stillTrue)           *)
OneDrawing == \A c \in Incarnations : Cardinality(Winners(c)) <= 1

(* A face never changes: an answer may be cached for a year, and no later answer for the same     *)
(* incarnation holds another drawing. (installCapabilityLogo, abandonMissingCapabilityLogo)       *)
OneFace == \A c \in Incarnations : Cardinality(shown[c]) <= 1

(* A row that may still be drawn has a free path, so no attempt is paid for and then refused by   *)
(* its own installer.                                                                             *)
(* (inspectIncarnationTree, discardUnacknowledgedLogo)                                            *)
NeverBlocked ==
    \A c \in Incarnations :
        life[c] = "active" /\ status[c] = "absent" => ~Occupied(c)

(* The service is called at most as often as the cap allows over the whole life of an             *)
(* incarnation, through every crash and recovery. (LOGO_MAX_CLAIMED_ATTEMPTS)                     *)
PaidWithin == \A c \in Incarnations : paid[c] <= MaxAttempts

(* The tree of a deleted incarnation stays erased, although an attempt was drawing or settling    *)
(* when the deletion came. (attemptUnderReadToken, finalizeAttempt)                               *)
NothingRecreated ==
    \A c \in Incarnations : life[c] = "gone" => c \notin tree /\ ~Occupied(c)

(* Every request is answered: an attempt comes to its end and a watch is woken or gives up.       *)
(* (withPlatformWrite, DEFAULT_LOGO_GENERATION_TIMEOUT_MS, awaitWinner)                           *)
AttemptsEnd == \A r \in Requests : pc[r] # "idle" ~> pc[r] = "idle"
=============================================================================
