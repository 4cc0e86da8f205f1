---------------------------- MODULE RecordMutation ----------------------------
(***************************************************************************)
(* How the router runs a save (runtime/router/dispatch/router.ts,          *)
(* handler-invocation.ts, generated-code.ts).  All saves and all platform  *)
(* writes share ONE read-write connection, so SQLite cannot tell whose     *)
(* statement it executes: a statement joins the transaction that is open,  *)
(* and commits on its own when none is.  A save keeps its transaction open *)
(* over the awaits of a generated Handler, which the platform trusts       *)
(* least: the Handler may go on writing after it answered, may outlive the *)
(* deadline at which the route abandons it, and may swallow the error of a *)
(* write with which SQLite ended the transaction (a full disk).            *)
(*                                                                         *)
(* The lease is MutationCoordinator's, the read ownership ReadGates'.  A   *)
(* platform write is synchronous: one step.                                *)
(***************************************************************************)
EXTENDS Naturals, FiniteSets

CONSTANTS Requests,       \* saves and deletes of records
          WritesEach,     \* bound: statements of one request
          PlatformWrites  \* bound: platform writes

ASSUME RecordMutationAssumption ==
    WritesEach \in Nat /\ PlatformWrites \in Nat /\ "platform" \notin Requests /\ "free" \notin Requests

VARIABLES route,     \* what the route of a request is at
          run,       \* its invocation of the Handler, which nothing can cancel
          owned,     \* the requests whose read ownership stands
          answer,    \* what the client is told
          holder,    \* who holds the write lease
          open,      \* database.inTransaction
          pending,   \* statements in the open transaction
          committed, \* statements in the database
          accepted   \* statements that succeeded

sqlite == <<open, pending, committed>>
vars == <<route, run, owned, answer, holder, sqlite, accepted>>

Statements == (Requests \X (1 .. WritesEach)) \cup ({"platform"} \X (1 .. PlatformWrites))
Of(who)    == {s \in Statements : s[1] = who}

\* The route has the lease and still has to close the transaction.
Active(r) == route[r] \in {"waiting", "answering", "settled"}

TypeOK ==
    /\ route \in [Requests -> {"idle", "waiting", "answering", "settled", "done"}]
    /\ run \in [Requests -> {"none", "loading", "handling", "answered", "over"}]
    /\ owned \subseteq Requests
    /\ answer \in [Requests -> {"none", "ok", "failed"}]
    /\ holder \in Requests \cup {"free"}
    /\ open \in BOOLEAN /\ (open => holder # "free")
    /\ pending \subseteq Statements /\ committed \subseteq Statements /\ accepted \subseteq Statements

Init ==
    /\ route = [r \in Requests |-> "idle"] /\ run = [r \in Requests |-> "none"]
    /\ owned = {} /\ answer = [r \in Requests |-> "none"]
    /\ holder = "free"
    /\ open = FALSE /\ pending = {} /\ committed = {} /\ accepted = {}

-----------------------------------------------------------------------------
(* the connection *)

\* A statement succeeds: in whatever transaction is open, or on its own.
Execute(s) ==
    /\ s \in Statements \ accepted /\ accepted' = accepted \cup {s}
    /\ IF open THEN pending' = pending \cup {s} /\ UNCHANGED committed
               ELSE committed' = committed \cup {s} /\ UNCHANGED pending
    /\ UNCHANGED open

Commit ==
    /\ committed' = committed \cup pending
    /\ open' = FALSE /\ pending' = {}

\* A rollback, the router's or SQLite's own.
Undo ==
    /\ open' = FALSE /\ pending' = {}
    /\ UNCHANGED committed

-----------------------------------------------------------------------------
(* the route *)

\* The read tokens and the lease are tried and BEGIN is executed without an await between.
Admit(r) ==
    /\ route[r] = "idle" /\ holder = "free"
    /\ route' = [route EXCEPT ![r] = "waiting"] /\ run' = [run EXCEPT ![r] = "loading"]
    /\ owned' = owned \cup {r} /\ holder' = r /\ open' = TRUE
    /\ UNCHANGED <<answer, pending, committed, accepted>>

\* The lease is taken, or BEGIN fails.
TurnAway(r) ==
    /\ route[r] = "idle"
    /\ route' = [route EXCEPT ![r] = "done"] /\ answer' = [answer EXCEPT ![r] = "failed"]
    /\ UNCHANGED <<run, owned, holder, sqlite, accepted>>

\* Mutation: a save is waited for, however long it takes.
DeadlineOfReads(r) == FALSE /\ UNCHANGED vars

\* withHandlerDeadline: the wait is over, the Handler is not.
Deadline(r) ==
    /\ route[r] = "waiting"
    /\ route' = [route EXCEPT ![r] = "settled"] /\ answer' = [answer EXCEPT ![r] = "failed"]
    /\ UNCHANGED <<run, owned, holder, sqlite, accepted>>

\* A deletion takes back the read ownership.
GateCloses(r) ==
    /\ r \in owned /\ owned' = owned \ {r}
    /\ UNCHANGED <<route, run, answer, holder, sqlite, accepted>>

\* The fragment is checked, counted and answered, or it is refused.
Settle(r) ==
    /\ route[r] = "answering" /\ route' = [route EXCEPT ![r] = "settled"]
    /\ \E told \in {"ok", "failed"} : answer' = [answer EXCEPT ![r] = told]
    /\ UNCHANGED <<run, owned, holder, sqlite, accepted>>

\* Mutation: the lease goes back while the Handler still owns its reads.
CloseLeaseFirst(r) ==
    /\ route[r] = "settled" /\ route' = [route EXCEPT ![r] = "done"]
    /\ \/ answer[r] = "ok" /\ open /\ Commit /\ UNCHANGED answer
       \/ answer' = [answer EXCEPT ![r] = "failed"] /\ Undo
    /\ holder' = "free"
    /\ UNCHANGED <<run, owned, accepted>>

\* COMMIT or ROLLBACK, then the finally: ownership goes, then the lease.  A COMMIT that fails, or
\* that finds no transaction, fails the request.
Close(r) ==
    /\ route[r] = "settled" /\ route' = [route EXCEPT ![r] = "done"]
    /\ \/ answer[r] = "ok" /\ open /\ Commit /\ UNCHANGED answer
       \/ answer' = [answer EXCEPT ![r] = "failed"] /\ Undo
    /\ owned' = owned \ {r} /\ holder' = "free"
    /\ UNCHANGED <<run, accepted>>

-----------------------------------------------------------------------------
(* the invocation of the Handler, with or without a route that waits for it *)

\* The invocation ends; a route that still waits is told.
Ends(r, next, told) ==
    /\ run' = [run EXCEPT ![r] = "over"]
    /\ IF route[r] = "waiting"
         THEN route' = [route EXCEPT ![r] = next] /\ answer' = [answer EXCEPT ![r] = told]
         ELSE UNCHANGED <<route, answer>>

Fails(r) ==
    /\ Ends(r, "settled", "failed")
    /\ UNCHANGED <<owned, holder, sqlite, accepted>>

\* The Handler module is loaded, and called if the reads are still owned.
Load(r) ==
    /\ run[r] = "loading"
    /\ \/ /\ r \in owned /\ run' = [run EXCEPT ![r] = "handling"]
          /\ UNCHANGED <<route, owned, answer, holder, sqlite, accepted>>
       \/ Fails(r)

\* writeWindow and assertReadOwnership: the answer is pending, a transaction stands, and the reads
\* are owned.
WindowOpen(r) == run[r] = "handling" /\ open /\ r \in owned

\* The Handler writes.  Refused, it may catch the error and go on.
Write(r) ==
    /\ WindowOpen(r)
    /\ \E s \in Of(r) : Execute(s)
    /\ UNCHANGED <<route, run, owned, answer, holder>>

\* A write with which SQLite ends the transaction.
WriteEndsTransaction(r) ==
    /\ WindowOpen(r) /\ Undo
    /\ UNCHANGED <<route, run, owned, answer, holder, accepted>>

HandlerAnswers(r) ==
    /\ run[r] = "handling" /\ run' = [run EXCEPT ![r] = "answered"]
    /\ UNCHANGED <<route, owned, answer, holder, sqlite, accepted>>

HandlerThrows(r) == run[r] = "handling" /\ Fails(r)

\* Mutation: nobody asks whether the transaction still stands.
FinishUnasked(r) ==
    /\ run[r] = "answered"
    /\ \/ /\ r \in owned
          /\ \/ \E s \in Of(r) : Execute(s)
             \/ UNCHANGED <<sqlite, accepted>>
          /\ Ends(r, "answering", "none")
          /\ UNCHANGED <<owned, holder>>
       \/ Fails(r)

\* After the answer: assertReadOwnership, assertSaveStands, and releaseUnclaimedFiles, which writes.
Finish(r) ==
    /\ run[r] = "answered"
    /\ \/ /\ r \in owned /\ open
          /\ \/ \E s \in Of(r) : Execute(s)
             \/ UNCHANGED <<sqlite, accepted>>
          /\ Ends(r, "answering", "none")
          /\ UNCHANGED <<owned, holder>>
       \/ Fails(r)

-----------------------------------------------------------------------------
\* withPlatformWrite: admitted, executed and released.
PlatformWrite ==
    /\ holder = "free"
    /\ \E s \in Of("platform") : Execute(s)
    /\ UNCHANGED <<route, run, owned, answer, holder>>

Next ==
    \/ \E r \in Requests : \/ Admit(r) \/ TurnAway(r) \/ Deadline(r) \/ GateCloses(r) \/ Settle(r)
                           \/ Close(r) \/ Load(r) \/ Write(r) \/ WriteEndsTransaction(r)
                           \/ HandlerAnswers(r) \/ HandlerThrows(r) \/ Finish(r)
    \/ PlatformWrite

(* The deadline's timer fires and the platform's own code runs on; a Handler need not do anything. *)
Fairness == \A r \in Requests : WF_vars(Deadline(r)) /\ WF_vars(Settle(r)) /\ WF_vars(Close(r))

Spec     == Init /\ [][Next]_vars
FairSpec == Spec /\ Fairness

-----------------------------------------------------------------------------
(* what a save promises *)

(* A client told "ok" has every statement of its save in the database, and one told anything else has
   none, whatever its Handler swallowed, left running or was abandoned at. (the write window,
   assertSaveStands, COMMIT only if response.ok) *)
AllOrNothing ==
    \A r \in Requests :
        /\ route[r] = "done" /\ answer[r] = "ok" => accepted \cap Of(r) \subseteq committed
        /\ ~(route[r] = "done" /\ answer[r] = "ok") => committed \cap Of(r) = {}

(* The open transaction holds statements of the lease's holder only: no abandoned Handler writes into
   the save that came after it. (ownership first, then the lease) *)
NoForeignWrite == pending \subseteq Of(holder)

(* A platform write that returned is in the database: it never joined a save that then rolled back.
   (everything that writes asks the coordinator) *)
PlatformWritesStand == accepted \cap Of("platform") \subseteq committed

(* The lease comes back from every save, although a Handler may never answer: no write of the desk
   and no deletion waits for generated code. (withHandlerDeadline) *)
LeaseReturned == \A r \in Requests : holder = r ~> holder = "free"
=============================================================================
