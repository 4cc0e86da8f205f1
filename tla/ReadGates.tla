------------------------------ MODULE ReadGates ------------------------------
(***************************************************************************)
(* Read admission: the class ReadGateCoordinator of                        *)
(* src/runtime/concurrency/read-gates.ts, and the registry rows it guards. *)
(*                                                                         *)
(* An operation takes one token set over every incarnation it can observe, *)
(* all or nothing.  A deletion closes the gate of one incarnation, waits   *)
(* for its readers, and either commits (the row leaves the registry and    *)
(* the gate is retired for the life of the process) or reopens the gate.   *)
(* A reader acquires against a catalog it read earlier, so the catalog may *)
(* be older than the commit.  Every method runs to its end without an      *)
(* await; only the drain of closeAndDrain waits, so it is two actions.     *)
(***************************************************************************)
EXTENDS FiniteSets

CONSTANTS Incarnations,   \* incarnation ids; a fresh one per created capability
          CapabilityOf,   \* the capability each incarnation is a lifetime of
          Readers,        \* operations that hold read tokens
          Closers,        \* deletions
          NoOne           \* no close lease

ASSUME ClosersAssumption == NoOne \notin Closers

VARIABLES active,      \* incarnations of the registry's active rows
          unused,      \* incarnation ids not yet minted
          gate,        \* state of the gate of an incarnation, "none" without one
          readers,     \* gate.readers
          closeLease,  \* gate.closeLease: the closer that owns the closing gate
          retired,     \* this.retired
          catalog,     \* the catalog a reader captured
          wants,       \* the incarnations of a reader's token set
          signalled,   \* the token set's signal has aborted
          rphase,      \* where each reader stands
          cphase       \* where each closer stands

gateVars == <<gate, readers, closeLease, retired>>
vars == <<active, unused, gate, readers, closeLease, retired,
          catalog, wants, signalled, rphase, cphase>>

TypeOK ==
    /\ active \subseteq Incarnations
    /\ unused \subseteq Incarnations
    /\ gate \in [Incarnations -> {"none", "active", "closing"}]
    /\ readers \in [Incarnations -> SUBSET Readers]
    /\ closeLease \in [Incarnations -> Closers \cup {NoOne}]
    /\ retired \subseteq Incarnations
    /\ catalog \in [Readers -> SUBSET Incarnations]
    /\ wants \in [Readers -> SUBSET Incarnations]
    /\ signalled \in [Readers -> BOOLEAN]
    /\ rphase \in [Readers -> {"idle", "captured", "owned"}]
    /\ cphase \in [Closers -> {"idle", "draining", "drained"}]

Init ==
    /\ active = {}
    /\ unused = Incarnations
    /\ gate = [i \in Incarnations |-> "none"]
    /\ readers = [i \in Incarnations |-> {}]
    /\ closeLease = [i \in Incarnations |-> NoOne]
    /\ retired = {}
    /\ catalog = [r \in Readers |-> {}]
    /\ wants = [r \in Readers |-> {}]
    /\ signalled = [r \in Readers |-> FALSE]
    /\ rphase = [r \in Readers |-> "idle"]
    /\ cphase = [c \in Closers |-> "idle"]

-----------------------------------------------------------------------------
(* the registry around the gates *)

\* A build activates a fresh incarnation of a capability that has no row.
Activate(i) ==
    /\ i \in unused
    /\ \A j \in active : CapabilityOf[j] # CapabilityOf[i]
    /\ active' = active \cup {i}
    /\ unused' = unused \ {i}
    /\ UNCHANGED <<gateVars, catalog, wants, signalled, rphase, cphase>>

-----------------------------------------------------------------------------
(* readers *)

\* captureCapabilityRead: the active registry as the operation sees it from now on.
Capture(r) ==
    /\ rphase[r] = "idle"
    /\ catalog' = [catalog EXCEPT ![r] = active]
    /\ rphase' = [rphase EXCEPT ![r] = "captured"]
    /\ UNCHANGED <<active, unused, gateVars, wants, signalled, cphase>>

\* Mutation: the retired set is not consulted.
SynchronizedForgetsRetired(cat) ==
    [i \in Incarnations |-> IF i \in cat /\ gate[i] = "none" THEN "active" ELSE gate[i]]

\* synchronizeCatalog: gates for what the catalog names, except known and retired ones.
Synchronized(cat) ==
    [i \in Incarnations |->
        IF i \in cat /\ gate[i] = "none" /\ i \notin retired THEN "active" ELSE gate[i]]

\* tryAcquire: the catalog's gates appear, then all of the set or none of it.
Acquire(r, cat, set) ==
    /\ gate' = Synchronized(cat)
    /\ IF \A i \in set : i \in cat /\ gate'[i] = "active"
         THEN /\ readers' = [i \in Incarnations |->
                                IF i \in set THEN readers[i] \cup {r} ELSE readers[i]]
              /\ wants' = [wants EXCEPT ![r] = set]
              /\ signalled' = [signalled EXCEPT ![r] = FALSE]
              /\ rphase' = [rphase EXCEPT ![r] = "owned"]
         ELSE /\ rphase' = [rphase EXCEPT ![r] = "idle"]
              /\ UNCHANGED <<readers, wants, signalled>>
    /\ UNCHANGED <<active, unused, closeLease, retired, cphase>>

\* An operation over a few capabilities acquires against the catalog it captured.
TryAcquire(r, set) ==
    /\ rphase[r] = "captured"
    /\ Acquire(r, catalog[r], set)
    /\ catalog' = [catalog EXCEPT ![r] = {}]

\* A question captures the whole active catalog and acquires all of it in one tick.
AcquireAll(r) ==
    /\ rphase[r] = "idle"
    /\ Acquire(r, active, active)
    /\ UNCHANGED catalog

\* release: out of every gate still there, ownership revoked, and a drain that now has no reader
\* is woken.
Release(r) ==
    /\ rphase[r] = "owned"
    /\ readers' = [i \in Incarnations |-> readers[i] \ {r}]
    /\ wants' = [wants EXCEPT ![r] = {}]
    /\ signalled' = [signalled EXCEPT ![r] = TRUE]
    /\ rphase' = [rphase EXCEPT ![r] = "idle"]
    /\ cphase' = [c \in Closers |->
                     IF cphase[c] = "draining"
                        /\ \E i \in wants[r] : closeLease[i] = c /\ readers'[i] = {}
                     THEN "drained" ELSE cphase[c]]
    /\ UNCHANGED <<active, unused, gate, closeLease, retired, catalog>>

-----------------------------------------------------------------------------
(* closers *)

\* closeAndDrain up to its wait, after destroyCapability synchronized the target's own gate: the
\* gate closes, its readers are told, and without any the drain is over at once.
Close(c, i) ==
    /\ cphase[c] = "idle"
    /\ i \in active
    /\ LET synced == Synchronized({i})
       IN  /\ synced[i] = "active"
           /\ gate' = [synced EXCEPT ![i] = "closing"]
    /\ closeLease' = [closeLease EXCEPT ![i] = c]
    /\ signalled' = [r \in Readers |-> signalled[r] \/ r \in readers[i]]
    /\ cphase' = [cphase EXCEPT ![c] = IF readers[i] = {} THEN "drained" ELSE "draining"]
    /\ UNCHANGED <<active, unused, readers, retired, catalog, wants, rphase>>

\* The gate of a closing lease goes back to active.
ReopenGate(c, i) ==
    /\ closeLease[i] = c /\ gate[i] = "closing"
    /\ gate' = [gate EXCEPT ![i] = "active"]
    /\ closeLease' = [closeLease EXCEPT ![i] = NoOne]
    /\ cphase' = [cphase EXCEPT ![c] = "idle"]
    /\ UNCHANGED <<active, unused, readers, retired, catalog, wants, signalled, rphase>>

\* Mutation: at the deadline the readers are told again and waited for.
DrainTimeoutTellsAgain(c, i) ==
    /\ cphase[c] = "draining" /\ closeLease[i] = c
    /\ signalled' = [r \in Readers |-> signalled[r] \/ r \in readers[i]]
    /\ UNCHANGED <<active, unused, gateVars, catalog, wants, rphase, cphase>>

\* The drain's deadline before its last reader: closeAndDrain reopens in its finally and throws.
DrainTimeout(c, i) ==
    /\ cphase[c] = "draining"
    /\ ReopenGate(c, i)

\* Collecting the manifest or the transaction threw: the deletion reopens in its finally.
Reopen(c, i) ==
    /\ cphase[c] = "drained"
    /\ ReopenGate(c, i)

\* The tombstone transaction commits and, with no await between, the gate is retired: by
\* finalizeClose when it is closing and empty, by retireAfterCommit, which tells whoever still
\* reads, otherwise.
Commit(c, i) ==
    /\ cphase[c] = "drained" /\ closeLease[i] = c
    /\ active' = active \ {i}
    /\ gate' = [gate EXCEPT ![i] = "none"]
    /\ readers' = [readers EXCEPT ![i] = {}]
    /\ closeLease' = [closeLease EXCEPT ![i] = NoOne]
    /\ retired' = retired \cup {i}
    /\ signalled' = [r \in Readers |-> signalled[r] \/ r \in readers[i]]
    /\ cphase' = [cphase EXCEPT ![c] = "idle"]
    /\ UNCHANGED <<unused, catalog, wants, rphase>>

\* The process dies and the next one boots: recoverAtBoot rebuilds the gates from the registry.
Restart ==
    /\ gate' = [i \in Incarnations |-> IF i \in active THEN "active" ELSE "none"]
    /\ readers' = [i \in Incarnations |-> {}]
    /\ closeLease' = [i \in Incarnations |-> NoOne]
    /\ retired' = {}
    /\ catalog' = [r \in Readers |-> {}]
    /\ wants' = [r \in Readers |-> {}]
    /\ signalled' = [r \in Readers |-> TRUE]
    /\ rphase' = [r \in Readers |-> "idle"]
    /\ cphase' = [c \in Closers |-> "idle"]
    /\ UNCHANGED <<active, unused>>

-----------------------------------------------------------------------------
Next ==
    \/ \E i \in Incarnations : Activate(i)
    \/ \E r \in Readers : Capture(r) \/ AcquireAll(r) \/ Release(r)
    \/ \E r \in Readers, set \in SUBSET Incarnations : TryAcquire(r, set)
    \/ \E c \in Closers, i \in Incarnations :
          Close(c, i) \/ DrainTimeout(c, i) \/ Reopen(c, i) \/ Commit(c, i)
    \/ Restart

(* The drain's timer fires and a deletion goes on after it; a reader is never obliged to release. *)
Fairness ==
    \A c \in Closers, i \in Incarnations :
        WF_vars(DrainTimeout(c, i)) /\ WF_vars(Reopen(c, i) \/ Commit(c, i))

Spec     == Init /\ [][Next]_vars
FairSpec == Spec /\ Fairness

-----------------------------------------------------------------------------
(* what read admission promises *)

(* Nobody reads a dropped table: every token an operation holds names an incarnation whose row is
   still active, however old the catalog it acquired against. (tryAcquire, retired, finalizeClose) *)
NoReaderOfDropped == \A r \in Readers : rphase[r] = "owned" => wants[r] \subseteq active

(* The readers a gate counts are exactly the owners of a token over it, so a drain waits for every
   one of them and for nobody else. (tryAcquire, release, closeAndDrain) *)
ReadersCounted ==
    \A i \in Incarnations : readers[i] = {r \in Readers : rphase[r] = "owned" /\ i \in wants[r]}

(* Whoever still reads a closing incarnation has been asked to stop. (closeAndDrain) *)
ReadersTold ==
    \A i \in Incarnations : gate[i] = "closing" => \A r \in readers[i] : signalled[r]

(* A drain never sleeps beside an empty gate: the last release woke it. (release) *)
NoLostDrain ==
    \A i \in Incarnations, c \in Closers :
        closeLease[i] = c /\ cphase[c] = "draining" => readers[i] # {}

(* A closing gate admits nobody, by whatever catalog. (tryAcquire, synchronizeCatalog) *)
ClosingAdmitsNobody ==
    [][\A i \in Incarnations :
          gate[i] = "closing" /\ gate'[i] = "closing" => readers'[i] \subseteq readers[i]]_vars

(* A gate does not stay closing: the deletion commits, gives up or runs out of time. *)
ClosingEnds == \A i \in Incarnations : gate[i] = "closing" ~> gate[i] # "closing"
=============================================================================
