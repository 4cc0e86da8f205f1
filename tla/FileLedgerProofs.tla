-------------------------- MODULE FileLedgerProofs --------------------------
(***************************************************************************)
(* Proofs about FileLedger, for any number of keys, retries and faults.    *)
(*                                                                         *)
(* The invariant speaks of one key at a time (KeyInv).  A key that an      *)
(* eraser works on has no row or an enqueued one, and no row ever becomes  *)
(* pending again, so nobody erases what may be claimed.  Bytes that an     *)
(* eraser has passed do not come back, because it takes the staged ones    *)
(* first and the rename needs them: that is why the order of the two       *)
(* unlinks matters, and why no common lock is needed.                      *)
(***************************************************************************)
EXTENDS FileLedger, TLAPS

(* A key whose upload has not reached the ledger is known to nobody else. *)
Fresh(k) ==
    up[k] \in {"idle", "staged"} =>
        /\ row[k] = "none" /\ k \notin objects /\ k \notin manifest /\ k \notin wiped
        /\ \A e \in Erasers : k \notin todo[e]

(* What an eraser works on can no longer be claimed. *)
Hunted(k) ==
    /\ \A e \in Erasers : k \in todo[e] => row[k] \in {"none", "cleanup_enqueued"}
    /\ k \in todo["deletion"] => k \in manifest

(* What an eraser has passed stays gone. *)
Gone(k) ==
    /\ \A e \in Erasers : k \in half[e] => k \notin staging
    /\ k \in wiped => k \notin staging /\ k \notin objects
    /\ del /\ k \in manifest /\ k \notin todo["deletion"] => k \notin staging /\ k \notin objects

(* A key that nobody answers for has no object, and no upload will give it one. *)
Unowned(k) ==
    row[k] = "none" /\ k \notin manifest =>
        k \notin objects /\ (up[k] = "recorded" => k \notin staging)

(* A deleted incarnation has no rows, and only a deleted one has a manifest. *)
Deleted(k) ==
    /\ k \in manifest => ~live
    /\ ~live => row[k] = "none"

(* What a save may claim, has claimed, or will be able to claim, has its bytes. *)
Backed(k) ==
    row[k] = "owned" \/ (row[k] = "pending" /\ up[k] \in {"placed", "answered"}) => k \in objects

(* An upload that ended has left no pending row. *)
Closed(k) == up[k] = "over" => row[k] # "pending"

KeyInv(k) == Fresh(k) /\ Hunted(k) /\ Gone(k) /\ Unowned(k) /\ Deleted(k) /\ Backed(k) /\ Closed(k)
AllKeys   == \A k \in Keys : KeyInv(k)

(* A process that is down erases nothing. *)
Quiet == process = "down" => ~pass /\ ~del

IInv == TypeOK /\ Quiet /\ AllKeys /\ EnqueuedNotForgotten

-----------------------------------------------------------------------------
(* What the invariant says of every object and every row. *)
LEMMA Promises == IInv => ClaimedIntact /\ NoOrphanBytes /\ NoPendingLeft
  BY DEF IInv, TypeOK, AllKeys, KeyInv, Backed, Unowned, Closed, ClaimedIntact, NoOrphanBytes,
     NoPendingLeft

(* The flags, one by one. *)
LEMMA Flags ==
  ASSUME TypeOK
  PROVE  /\ live \in BOOLEAN /\ del \in BOOLEAN /\ sweeping \in BOOLEAN
         /\ pass \in BOOLEAN /\ waking \in BOOLEAN /\ timer \in BOOLEAN
         /\ unscheduled \in BOOLEAN
  BY DEF TypeOK

(* The initial state owes nothing. *)
LEMMA Initially == Init => IInv
  <1> SUFFICES ASSUME Init PROVE IInv
    OBVIOUS
  <1>1. TypeOK
    <2>1. /\ faults \in 0 .. Faults /\ failedPasses \in 0 .. Rungs + 1 /\ 0 \in 0 .. Rungs + 1
      BY FileLedgerAssumption DEF Init
    <2>2. {live, del, sweeping, pass, waking, timer, unscheduled} \subseteq BOOLEAN
      BY DEF Init
    <2> QED BY <2>1, <2>2 DEF Init, TypeOK, Erasers
  <1>2. AllKeys
    BY DEF Init, AllKeys, KeyInv, Fresh, Hunted, Gone, Unowned, Deleted, Backed, Closed, Erasers
  <1>3. Quiet /\ EnqueuedNotForgotten
    BY DEF Init, Quiet, EnqueuedNotForgotten
  <1> QED BY <1>1, <1>2, <1>3 DEF IInv

(* A staged key is fresh, and nobody has a claim on it. *)
LEMMA StageKeeps ==
  ASSUME IInv, NEW k \in Keys, Stage(k)
  PROVE  IInv'
  <1> USE FileLedgerAssumption DEF IInv, Stage, ledgerVars, bytesVars, ownerVars, eraseVars,
     workerVars, lifeVars, ladderVars
  <1>0. /\ live \in BOOLEAN /\ del \in BOOLEAN /\ sweeping \in BOOLEAN
        /\ pass \in BOOLEAN /\ waking \in BOOLEAN /\ timer \in BOOLEAN
        /\ unscheduled \in BOOLEAN
    BY Flags
  <1>1. TypeOK'
    <2>1. {live', del', sweeping', pass', waking', timer', unscheduled'} \subseteq BOOLEAN
      BY <1>0
    <2> QED BY <1>0, <2>1 DEF TypeOK, Quiet, Erasers
  <1>2. ASSUME NEW j \in Keys PROVE KeyInv(j)'
    <2>1. KeyInv(j)
      BY DEF AllKeys
    <2> QED BY <1>0, <2>1 DEF TypeOK, KeyInv, Fresh, Hunted, Gone, Unowned, Deleted, Backed,
       Closed, Erasers
  <1>3. Quiet' /\ EnqueuedNotForgotten'
    BY <1>0 DEF TypeOK, Quiet, AllKeys, KeyInv, Deleted, EnqueuedNotForgotten, Exhausted
  <1> QED BY <1>1, <1>2, <1>3 DEF AllKeys

(* An upload that stops short takes its staged bytes along. *)
LEMMA StopShortKeeps ==
  ASSUME IInv, NEW k \in Keys, StopShort(k)
  PROVE  IInv'
  <1> USE FileLedgerAssumption DEF IInv, StopShort, ledgerVars, bytesVars, ownerVars,
     eraseVars, workerVars, lifeVars, ladderVars
  <1>0. /\ live \in BOOLEAN /\ del \in BOOLEAN /\ sweeping \in BOOLEAN
        /\ pass \in BOOLEAN /\ waking \in BOOLEAN /\ timer \in BOOLEAN
        /\ unscheduled \in BOOLEAN
    BY Flags
  <1>1. TypeOK'
    <2>1. {live', del', sweeping', pass', waking', timer', unscheduled'} \subseteq BOOLEAN
      BY <1>0
    <2> QED BY <1>0, <2>1 DEF TypeOK, Quiet, Erasers
  <1>2. ASSUME NEW j \in Keys PROVE KeyInv(j)'
    <2>1. KeyInv(j)
      BY DEF AllKeys
    <2> QED BY <1>0, <2>1 DEF TypeOK, KeyInv, Fresh, Hunted, Gone, Unowned, Deleted, Backed,
       Closed, Erasers
  <1>3. Quiet' /\ EnqueuedNotForgotten'
    BY <1>0 DEF TypeOK, Quiet, AllKeys, KeyInv, Deleted, EnqueuedNotForgotten, Exhausted
  <1> QED BY <1>1, <1>2, <1>3 DEF AllKeys

(* The row comes first: until the rename it answers for nothing. *)
LEMMA RecordPendingKeeps ==
  ASSUME IInv, NEW k \in Keys, RecordPending(k)
  PROVE  IInv'
  <1> USE FileLedgerAssumption DEF IInv, RecordPending, Writes, ledgerVars, bytesVars,
     ownerVars, eraseVars, workerVars, lifeVars, ladderVars
  <1>0. /\ live \in BOOLEAN /\ del \in BOOLEAN /\ sweeping \in BOOLEAN
        /\ pass \in BOOLEAN /\ waking \in BOOLEAN /\ timer \in BOOLEAN
        /\ unscheduled \in BOOLEAN
    BY Flags
  <1>1. TypeOK'
    <2>1. {live', del', sweeping', pass', waking', timer', unscheduled'} \subseteq BOOLEAN
      BY <1>0
    <2> QED BY <1>0, <2>1 DEF TypeOK, Quiet, Erasers
  <1>2. ASSUME NEW j \in Keys PROVE KeyInv(j)'
    <2>1. KeyInv(j)
      BY DEF AllKeys
    <2> QED BY <1>0, <2>1 DEF TypeOK, KeyInv, Fresh, Hunted, Gone, Unowned, Deleted, Backed,
       Closed, Erasers
  <1>3. Quiet' /\ EnqueuedNotForgotten'
    BY <1>0 DEF TypeOK, Quiet, AllKeys, KeyInv, Deleted, EnqueuedNotForgotten, Exhausted
  <1> QED BY <1>1, <1>2, <1>3 DEF AllKeys

(* The rename gives bytes to a key that somebody answers for. *)
LEMMA PlaceKeeps ==
  ASSUME IInv, NEW k \in Keys, Place(k)
  PROVE  IInv'
  <1> USE FileLedgerAssumption DEF IInv, Place, ledgerVars, bytesVars, ownerVars, eraseVars,
     workerVars, lifeVars, ladderVars
  <1>0. /\ live \in BOOLEAN /\ del \in BOOLEAN /\ sweeping \in BOOLEAN
        /\ pass \in BOOLEAN /\ waking \in BOOLEAN /\ timer \in BOOLEAN
        /\ unscheduled \in BOOLEAN
    BY Flags
  <1>1. TypeOK'
    <2>1. {live', del', sweeping', pass', waking', timer', unscheduled'} \subseteq BOOLEAN
      BY <1>0
    <2> QED BY <1>0, <2>1 DEF TypeOK, Quiet, Erasers
  <1>2. ASSUME NEW j \in Keys PROVE KeyInv(j)'
    <2>1. KeyInv(j)
      BY DEF AllKeys
    <2> QED BY <1>0, <2>1 DEF TypeOK, KeyInv, Fresh, Hunted, Gone, Unowned, Deleted, Backed,
       Closed, Erasers
  <1>3. Quiet' /\ EnqueuedNotForgotten'
    BY <1>0 DEF TypeOK, Quiet, AllKeys, KeyInv, Deleted, EnqueuedNotForgotten, Exhausted
  <1> QED BY <1>1, <1>2, <1>3 DEF AllKeys

(* So does one that throws. *)
LEMMA PlaceThrowsKeeps ==
  ASSUME IInv, NEW k \in Keys, PlaceThrows(k)
  PROVE  IInv'
  <1> USE FileLedgerAssumption DEF IInv, PlaceThrows, ledgerVars, bytesVars, ownerVars,
     eraseVars, workerVars, lifeVars, ladderVars
  <1>0. /\ live \in BOOLEAN /\ del \in BOOLEAN /\ sweeping \in BOOLEAN
        /\ pass \in BOOLEAN /\ waking \in BOOLEAN /\ timer \in BOOLEAN
        /\ unscheduled \in BOOLEAN
    BY Flags
  <1>1. TypeOK'
    <2>1. {live', del', sweeping', pass', waking', timer', unscheduled'} \subseteq BOOLEAN
      BY <1>0
    <2> QED BY <1>0, <2>1 DEF TypeOK, Quiet, Erasers
  <1>2. ASSUME NEW j \in Keys PROVE KeyInv(j)'
    <2>1. KeyInv(j)
      BY DEF AllKeys
    <2> QED BY <1>0, <2>1 DEF TypeOK, KeyInv, Fresh, Hunted, Gone, Unowned, Deleted, Backed,
       Closed, Erasers
  <1>3. Quiet' /\ EnqueuedNotForgotten'
    BY <1>0 DEF TypeOK, Quiet, AllKeys, KeyInv, Deleted, EnqueuedNotForgotten, Exhausted
  <1> QED BY <1>1, <1>2, <1>3 DEF AllKeys

(* A key is handed back with its bytes in place. *)
LEMMA AnswerKeeps ==
  ASSUME IInv, NEW k \in Keys, Answer(k)
  PROVE  IInv'
  <1> USE FileLedgerAssumption DEF IInv, Answer, ledgerVars, bytesVars, ownerVars, eraseVars,
     workerVars, lifeVars, ladderVars
  <1>0. /\ live \in BOOLEAN /\ del \in BOOLEAN /\ sweeping \in BOOLEAN
        /\ pass \in BOOLEAN /\ waking \in BOOLEAN /\ timer \in BOOLEAN
        /\ unscheduled \in BOOLEAN
    BY Flags
  <1>1. TypeOK'
    <2>1. {live', del', sweeping', pass', waking', timer', unscheduled'} \subseteq BOOLEAN
      BY <1>0
    <2> QED BY <1>0, <2>1 DEF TypeOK, Quiet, Erasers
  <1>2. ASSUME NEW j \in Keys PROVE KeyInv(j)'
    <2>1. KeyInv(j)
      BY DEF AllKeys
    <2> QED BY <1>0, <2>1 DEF TypeOK, KeyInv, Fresh, Hunted, Gone, Unowned, Deleted, Backed,
       Closed, Erasers
  <1>3. Quiet' /\ EnqueuedNotForgotten'
    BY <1>0 DEF TypeOK, Quiet, AllKeys, KeyInv, Deleted, EnqueuedNotForgotten, Exhausted
  <1> QED BY <1>1, <1>2, <1>3 DEF AllKeys

(* An abandoned key is enqueued if it is still pending. *)
LEMMA AbandonKeeps ==
  ASSUME IInv, NEW k \in Keys, Abandon(k)
  PROVE  IInv'
  <1> USE FileLedgerAssumption DEF IInv, Abandon, Writes, Enqueue, Pending, ledgerVars,
     bytesVars, ownerVars, eraseVars, workerVars, lifeVars, ladderVars
  <1>0. /\ live \in BOOLEAN /\ del \in BOOLEAN /\ sweeping \in BOOLEAN
        /\ pass \in BOOLEAN /\ waking \in BOOLEAN /\ timer \in BOOLEAN
        /\ unscheduled \in BOOLEAN
    BY Flags
  <1>1. TypeOK'
    <2>1. {live', del', sweeping', pass', waking', timer', unscheduled'} \subseteq BOOLEAN
      BY <1>0
    <2> QED BY <1>0, <2>1 DEF TypeOK, Quiet, Erasers
  <1>2. ASSUME NEW j \in Keys PROVE KeyInv(j)'
    <2>1. KeyInv(j)
      BY DEF AllKeys
    <2> QED BY <1>0, <2>1 DEF TypeOK, KeyInv, Fresh, Hunted, Gone, Unowned, Deleted, Backed,
       Closed, Erasers
  <1>3. Quiet' /\ EnqueuedNotForgotten'
    BY <1>0 DEF TypeOK, Quiet, AllKeys, KeyInv, Deleted, EnqueuedNotForgotten, Exhausted
  <1> QED BY <1>1, <1>2, <1>3 DEF AllKeys

(* A save claims what may be claimed. *)
LEMMA SaveKeeps ==
  ASSUME IInv, NEW claimed \in SUBSET Keys, NEW displaced \in SUBSET Keys, NEW unclaimed \in
     SUBSET Keys, Save(claimed, displaced, unclaimed)
  PROVE  IInv'
  <1> USE FileLedgerAssumption DEF IInv, Save, Writes, Claimable, Pending, ledgerVars,
     bytesVars, ownerVars, eraseVars, workerVars, lifeVars, ladderVars
  <1>0. /\ live \in BOOLEAN /\ del \in BOOLEAN /\ sweeping \in BOOLEAN
        /\ pass \in BOOLEAN /\ waking \in BOOLEAN /\ timer \in BOOLEAN
        /\ unscheduled \in BOOLEAN
    BY Flags
  <1>1. TypeOK'
    <2>1. {live', del', sweeping', pass', waking', timer', unscheduled'} \subseteq BOOLEAN
      BY <1>0
    <2> QED BY <1>0, <2>1 DEF TypeOK, Quiet, Erasers
  <1>2. ASSUME NEW j \in Keys PROVE KeyInv(j)'
    <2>1. KeyInv(j)
      BY DEF AllKeys
    <2> QED BY <1>0, <2>1 DEF TypeOK, KeyInv, Fresh, Hunted, Gone, Unowned, Deleted, Backed,
       Closed, Erasers
  <1>3. Quiet' /\ EnqueuedNotForgotten'
    BY <1>0 DEF TypeOK, Quiet, AllKeys, KeyInv, Deleted, EnqueuedNotForgotten, Exhausted
  <1> QED BY <1>1, <1>2, <1>3 DEF AllKeys

(* A discard takes pending keys only. *)
LEMMA DiscardKeeps ==
  ASSUME IInv, NEW keys \in SUBSET Keys, Discard(keys)
  PROVE  IInv'
  <1> USE FileLedgerAssumption DEF IInv, Discard, Writes, Enqueue, Pending, ledgerVars,
     bytesVars, ownerVars, eraseVars, workerVars, lifeVars, ladderVars
  <1>0. /\ live \in BOOLEAN /\ del \in BOOLEAN /\ sweeping \in BOOLEAN
        /\ pass \in BOOLEAN /\ waking \in BOOLEAN /\ timer \in BOOLEAN
        /\ unscheduled \in BOOLEAN
    BY Flags
  <1>1. TypeOK'
    <2>1. {live', del', sweeping', pass', waking', timer', unscheduled'} \subseteq BOOLEAN
      BY <1>0
    <2> QED BY <1>0, <2>1 DEF TypeOK, Quiet, Erasers
  <1>2. ASSUME NEW j \in Keys PROVE KeyInv(j)'
    <2>1. KeyInv(j)
      BY DEF AllKeys
    <2> QED BY <1>0, <2>1 DEF TypeOK, KeyInv, Fresh, Hunted, Gone, Unowned, Deleted, Backed,
       Closed, Erasers
  <1>3. Quiet' /\ EnqueuedNotForgotten'
    BY <1>0 DEF TypeOK, Quiet, AllKeys, KeyInv, Deleted, EnqueuedNotForgotten, Exhausted
  <1> QED BY <1>1, <1>2, <1>3 DEF AllKeys

(* So does a sweep. *)
LEMMA SweepKeeps ==
  ASSUME IInv, Sweep
  PROVE  IInv'
  <1> USE FileLedgerAssumption DEF IInv, Sweep, Writes, Enqueue, Pending, ledgerVars,
     bytesVars, ownerVars, eraseVars, workerVars, lifeVars, ladderVars
  <1>0. /\ live \in BOOLEAN /\ del \in BOOLEAN /\ sweeping \in BOOLEAN
        /\ pass \in BOOLEAN /\ waking \in BOOLEAN /\ timer \in BOOLEAN
        /\ unscheduled \in BOOLEAN
    BY Flags
  <1>1. TypeOK'
    <2>1. {live', del', sweeping', pass', waking', timer', unscheduled'} \subseteq BOOLEAN
      BY <1>0
    <2> QED BY <1>0, <2>1 DEF TypeOK, Quiet, Erasers
  <1>2. ASSUME NEW j \in Keys PROVE KeyInv(j)'
    <2>1. KeyInv(j)
      BY DEF AllKeys
    <2> QED BY <1>0, <2>1 DEF TypeOK, KeyInv, Fresh, Hunted, Gone, Unowned, Deleted, Backed,
       Closed, Erasers
  <1>3. Quiet' /\ EnqueuedNotForgotten'
    BY <1>0 DEF TypeOK, Quiet, AllKeys, KeyInv, Deleted, EnqueuedNotForgotten, Exhausted
  <1> QED BY <1>1, <1>2, <1>3 DEF AllKeys

(* A pass works on enqueued keys. *)
LEMMA DeskLoadKeeps ==
  ASSUME IInv, DeskLoad
  PROVE  IInv'
  <1> USE FileLedgerAssumption DEF IInv, DeskLoad, Start, Begin, Owing, Exhausted, ledgerVars,
     bytesVars, ownerVars, eraseVars, workerVars, lifeVars, ladderVars
  <1>0. /\ live \in BOOLEAN /\ del \in BOOLEAN /\ sweeping \in BOOLEAN
        /\ pass \in BOOLEAN /\ waking \in BOOLEAN /\ timer \in BOOLEAN
        /\ unscheduled \in BOOLEAN
    BY Flags
  <1>1. TypeOK'
    <2>1. {live', del', sweeping', pass', waking', timer', unscheduled'} \subseteq BOOLEAN
      BY <1>0
    <2> QED BY <1>0, <2>1 DEF TypeOK, Quiet, Erasers
  <1>2. ASSUME NEW j \in Keys PROVE KeyInv(j)'
    <2>1. KeyInv(j)
      BY DEF AllKeys
    <2> QED BY <1>0, <2>1 DEF TypeOK, KeyInv, Fresh, Hunted, Gone, Unowned, Deleted, Backed,
       Closed, Erasers
  <1>3. Quiet' /\ EnqueuedNotForgotten'
    BY <1>0 DEF TypeOK, Quiet, AllKeys, KeyInv, Deleted, EnqueuedNotForgotten, Exhausted
  <1> QED BY <1>1, <1>2, <1>3 DEF AllKeys

(* So does one that a wake starts. *)
LEMMA WakeKeeps ==
  ASSUME IInv, Wake
  PROVE  IInv'
  <1> USE FileLedgerAssumption DEF IInv, Wake, Start, Begin, Owing, Exhausted, ledgerVars,
     bytesVars, ownerVars, eraseVars, workerVars, lifeVars, ladderVars
  <1>0. /\ live \in BOOLEAN /\ del \in BOOLEAN /\ sweeping \in BOOLEAN
        /\ pass \in BOOLEAN /\ waking \in BOOLEAN /\ timer \in BOOLEAN
        /\ unscheduled \in BOOLEAN
    BY Flags
  <1>1. TypeOK'
    <2>1. {live', del', sweeping', pass', waking', timer', unscheduled'} \subseteq BOOLEAN
      BY <1>0
    <2> QED BY <1>0, <2>1 DEF TypeOK, Quiet, Erasers
  <1>2. ASSUME NEW j \in Keys PROVE KeyInv(j)'
    <2>1. KeyInv(j)
      BY DEF AllKeys
    <2> QED BY <1>0, <2>1 DEF TypeOK, KeyInv, Fresh, Hunted, Gone, Unowned, Deleted, Backed,
       Closed, Erasers
  <1>3. Quiet' /\ EnqueuedNotForgotten'
    BY <1>0 DEF TypeOK, Quiet, AllKeys, KeyInv, Deleted, EnqueuedNotForgotten, Exhausted
  <1> QED BY <1>1, <1>2, <1>3 DEF AllKeys

(* So does one that a timer starts. *)
LEMMA TimerFiresKeeps ==
  ASSUME IInv, TimerFires
  PROVE  IInv'
  <1> USE FileLedgerAssumption DEF IInv, TimerFires, Start, Begin, Owing, Exhausted,
     ledgerVars, bytesVars, ownerVars, eraseVars, workerVars, lifeVars, ladderVars
  <1>0. /\ live \in BOOLEAN /\ del \in BOOLEAN /\ sweeping \in BOOLEAN
        /\ pass \in BOOLEAN /\ waking \in BOOLEAN /\ timer \in BOOLEAN
        /\ unscheduled \in BOOLEAN
    BY Flags
  <1>1. TypeOK'
    <2>1. {live', del', sweeping', pass', waking', timer', unscheduled'} \subseteq BOOLEAN
      BY <1>0
    <2> QED BY <1>0, <2>1 DEF TypeOK, Quiet, Erasers
  <1>2. ASSUME NEW j \in Keys PROVE KeyInv(j)'
    <2>1. KeyInv(j)
      BY DEF AllKeys
    <2> QED BY <1>0, <2>1 DEF TypeOK, KeyInv, Fresh, Hunted, Gone, Unowned, Deleted, Backed,
       Closed, Erasers
  <1>3. Quiet' /\ EnqueuedNotForgotten'
    BY <1>0 DEF TypeOK, Quiet, AllKeys, KeyInv, Deleted, EnqueuedNotForgotten, Exhausted
  <1> QED BY <1>1, <1>2, <1>3 DEF AllKeys

(* A delay that has passed changes no key. *)
LEMMA DelayPassesKeeps ==
  ASSUME IInv, NEW k \in Keys, DelayPasses(k)
  PROVE  IInv'
  <1> USE FileLedgerAssumption DEF IInv, DelayPasses, ledgerVars, bytesVars, ownerVars,
     eraseVars, workerVars, lifeVars, ladderVars
  <1>0. /\ live \in BOOLEAN /\ del \in BOOLEAN /\ sweeping \in BOOLEAN
        /\ pass \in BOOLEAN /\ waking \in BOOLEAN /\ timer \in BOOLEAN
        /\ unscheduled \in BOOLEAN
    BY Flags
  <1>1. TypeOK'
    <2>1. {live', del', sweeping', pass', waking', timer', unscheduled'} \subseteq BOOLEAN
      BY <1>0
    <2> QED BY <1>0, <2>1 DEF TypeOK, Quiet, Erasers
  <1>2. ASSUME NEW j \in Keys PROVE KeyInv(j)'
    <2>1. KeyInv(j)
      BY DEF AllKeys
    <2> QED BY <1>0, <2>1 DEF TypeOK, KeyInv, Fresh, Hunted, Gone, Unowned, Deleted, Backed,
       Closed, Erasers
  <1>3. Quiet' /\ EnqueuedNotForgotten'
    BY <1>0 DEF TypeOK, Quiet, AllKeys, KeyInv, Deleted, EnqueuedNotForgotten, Exhausted
  <1> QED BY <1>1, <1>2, <1>3 DEF AllKeys

(* The staged bytes go first: after them the object cannot come back. *)
LEMMA EraseKeeps ==
  ASSUME IInv, NEW e \in Erasers, NEW k \in Keys, Erase(e, k)
  PROVE  IInv'
  <1> USE FileLedgerAssumption DEF IInv, Erase, Succeed, ledgerVars, bytesVars, ownerVars,
     eraseVars, workerVars, lifeVars, ladderVars
  <1>0. /\ live \in BOOLEAN /\ del \in BOOLEAN /\ sweeping \in BOOLEAN
        /\ pass \in BOOLEAN /\ waking \in BOOLEAN /\ timer \in BOOLEAN
        /\ unscheduled \in BOOLEAN
    BY Flags
  <1>1. TypeOK'
    <2>1. {live', del', sweeping', pass', waking', timer', unscheduled'} \subseteq BOOLEAN
      BY <1>0
    <2> QED BY <1>0, <2>1 DEF TypeOK, Quiet, Erasers
  <1>2. ASSUME NEW j \in Keys PROVE KeyInv(j)'
    <2>1. KeyInv(j)
      BY DEF AllKeys
    <2> QED BY <1>0, <2>1 DEF TypeOK, KeyInv, Fresh, Hunted, Gone, Unowned, Deleted, Backed,
       Closed, Erasers
  <1>3. Quiet' /\ EnqueuedNotForgotten'
    BY <1>0 DEF TypeOK, Quiet, AllKeys, KeyInv, Deleted, EnqueuedNotForgotten, Exhausted
  <1> QED BY <1>1, <1>2, <1>3 DEF AllKeys

(* What the worker could not erase is left to a later pass. *)
LEMMA WorkerFailsKeeps ==
  ASSUME IInv, NEW k \in Keys, WorkerFails(k)
  PROVE  IInv'
  <1> USE FileLedgerAssumption DEF IInv, WorkerFails, ledgerVars, bytesVars, ownerVars,
     eraseVars, workerVars, lifeVars, ladderVars
  <1>0. /\ live \in BOOLEAN /\ del \in BOOLEAN /\ sweeping \in BOOLEAN
        /\ pass \in BOOLEAN /\ waking \in BOOLEAN /\ timer \in BOOLEAN
        /\ unscheduled \in BOOLEAN
    BY Flags
  <1>1. TypeOK'
    <2>1. {live', del', sweeping', pass', waking', timer', unscheduled'} \subseteq BOOLEAN
      BY <1>0
    <2> QED BY <1>0, <2>1 DEF TypeOK, Quiet, Erasers
  <1>2. ASSUME NEW j \in Keys PROVE KeyInv(j)'
    <2>1. KeyInv(j)
      BY DEF AllKeys
    <2> QED BY <1>0, <2>1 DEF TypeOK, KeyInv, Fresh, Hunted, Gone, Unowned, Deleted, Backed,
       Closed, Erasers
  <1>3. Quiet' /\ EnqueuedNotForgotten'
    BY <1>0 DEF TypeOK, Quiet, AllKeys, KeyInv, Deleted, EnqueuedNotForgotten, Exhausted
  <1> QED BY <1>1, <1>2, <1>3 DEF AllKeys

(* The row of a key goes after its bytes. *)
LEMMA RecordedKeeps ==
  ASSUME IInv, Recorded,
         half' = half, wiped' = {}, failed' = {},
         pass' \in BOOLEAN, timer' \in BOOLEAN, unscheduled' \in BOOLEAN,
         owed' \in {"none", "plain", "forced"}, faults' \in 0 .. Faults,
         \/ todo' = todo
         \/ /\ todo' = [todo EXCEPT !["worker"] =
                          Owing(row', attempts', delayed', owed = "forced")]
            /\ pass'
  PROVE  TypeOK' /\ AllKeys' /\ Quiet'
  <1> USE DEF IInv, Recorded, PassDone, ledgerVars, bytesVars, ownerVars, lifeVars, ladderVars
  <1>0. /\ live \in BOOLEAN /\ del \in BOOLEAN /\ sweeping \in BOOLEAN
        /\ pass \in BOOLEAN /\ waking \in BOOLEAN /\ timer \in BOOLEAN
        /\ unscheduled \in BOOLEAN
    BY Flags
  <1>2. todo["worker"] = {} /\ todo \in [Erasers -> SUBSET Keys]
    BY DEF TypeOK
  <1>3. \A j \in Keys, e \in Erasers : j \in todo'[e] => j \in todo[e] \/ row'[j] =
     "cleanup_enqueued"
    BY <1>2 DEF Owing, Erasers
  <1>4. \A j \in Keys : j \in todo'["deletion"] <=> j \in todo["deletion"]
    BY <1>2 DEF Erasers
  <1>5. TypeOK'
    <2>1. {live', del', sweeping', pass', waking', timer', unscheduled'} \subseteq BOOLEAN
      BY <1>0
    <2>2. row' \in [Keys -> {"none", "pending", "owned", "cleanup_enqueued"}]
      BY DEF TypeOK
    <2>3. attempts' \in [Keys -> 0 .. Rungs + 1]
      <3>1. ASSUME NEW j \in Keys PROVE attempts'[j] \in 0 .. Rungs + 1
        BY FileLedgerAssumption DEF TypeOK, Exhausted
      <3> QED BY <3>1
    <2>4. delayed' \subseteq Keys /\ failedPasses' \in 0 .. Rungs + 1
      BY FileLedgerAssumption DEF TypeOK
    <2>5. /\ todo' \in [Erasers -> SUBSET Keys]
          /\ todo'["worker"] # {} => pass'
          /\ todo'["deletion"] # {} => del'
          /\ \A e \in Erasers : half'[e] \subseteq todo'[e]
      BY <1>2 DEF TypeOK, Owing, Erasers
    <2> QED BY <2>1, <2>2, <2>3, <2>4, <2>5 DEF TypeOK
  <1>6. ASSUME NEW j \in Keys PROVE KeyInv(j)'
    <2>1. KeyInv(j)
      BY DEF AllKeys
    <2>2. row'[j] = row[j] \/ (row[j] = "cleanup_enqueued" /\ row'[j] = "none" /\ j \in wiped)
      BY DEF TypeOK
    <2>3. Fresh(j)' /\ Hunted(j)'
      BY <1>3, <1>4, <2>1, <2>2 DEF KeyInv, Fresh, Hunted, Erasers
    <2>4. Gone(j)' /\ Unowned(j)'
      BY <1>4, <2>1, <2>2 DEF KeyInv, Gone, Unowned
    <2>5. Deleted(j)' /\ Backed(j)' /\ Closed(j)'
      BY <2>1, <2>2 DEF KeyInv, Deleted, Backed, Closed
    <2> QED BY <2>3, <2>4, <2>5 DEF KeyInv
  <1>7. Quiet'
    BY DEF Quiet
  <1> QED BY <1>5, <1>6, <1>7 DEF AllKeys

(* A pass that ends well starts the owed pass or arms a timer. *)
LEMMA RecordOutcomesKeeps ==
  ASSUME IInv, RecordOutcomes
  PROVE  IInv'
  <1> USE DEF IInv, RecordOutcomes, PassDone
  <1>0. /\ live \in BOOLEAN /\ del \in BOOLEAN /\ sweeping \in BOOLEAN
        /\ pass \in BOOLEAN /\ waking \in BOOLEAN /\ timer \in BOOLEAN
        /\ unscheduled \in BOOLEAN
    BY Flags
  <1>1. todo["worker"] = {} /\ todo \in [Erasers -> SUBSET Keys] /\ pass
    BY DEF Recorded, TypeOK
  <1>2. [todo EXCEPT !["worker"] = {}] = todo
    BY <1>1 DEF Erasers
  <1>3. /\ half' = half /\ wiped' = {} /\ failed' = {}
        /\ pass' \in BOOLEAN /\ timer' \in BOOLEAN /\ unscheduled' \in BOOLEAN
        /\ owed' \in {"none", "plain", "forced"} /\ faults' \in 0 .. Faults
        /\ \/ todo' = todo
           \/ /\ todo' = [todo EXCEPT !["worker"] =
                            Owing(row', attempts', delayed', owed = "forced")]
              /\ pass'
    BY <1>0, <1>2 DEF Settle, Begin, TypeOK
  <1>4. TypeOK' /\ AllKeys' /\ Quiet'
    BY <1>3, RecordedKeeps
  <1>5. ~unscheduled /\ ~unscheduled'
    BY <1>1 DEF EnqueuedNotForgotten, Settle, Begin
  <1>6. EnqueuedNotForgotten'
    <2>1. CASE owed # "none"
      BY <1>5, <2>1 DEF Settle, Begin, EnqueuedNotForgotten
    <2>2. CASE owed = "none"
      <3> DEFINE waiting == \E k \in Keys : row'[k] = "cleanup_enqueued" /\ ~Exhausted(k, attempts')
      <3>1. ~(0 > 0)
        OBVIOUS
      <3>2. timer' = (timer \/ waiting)
        BY <2>2, <3>1 DEF Settle
      <3>3. EnqueuedNotForgotten' <=>
              /\ process' = "serving" /\ waiting => pass' \/ waking' \/ timer' \/
                   failedPasses' > Rungs \/ unscheduled'
              /\ unscheduled' => ~pass' /\ ~timer' /\ failedPasses' = 0
        BY DEF EnqueuedNotForgotten, Exhausted
      <3> HIDE DEF waiting
      <3> QED BY <1>5, <3>2, <3>3
    <2> QED BY <2>1, <2>2
  <1> QED BY <1>4, <1>6

(* A retry that could not be scheduled is written down, unless somebody comes all the same. *)
LEMMA RetryUnscheduledKeeps ==
  ASSUME IInv, RetryUnscheduled
  PROVE  IInv'
  <1> USE DEF IInv, RetryUnscheduled
  <1>0. /\ live \in BOOLEAN /\ del \in BOOLEAN /\ sweeping \in BOOLEAN
        /\ pass \in BOOLEAN /\ waking \in BOOLEAN /\ timer \in BOOLEAN
        /\ unscheduled \in BOOLEAN
    BY Flags
  <1>1. faults' \in 0 .. Faults
    BY FileLedgerAssumption DEF TypeOK
  <1>2. TypeOK' /\ AllKeys' /\ Quiet'
    <2>1. pass' \in BOOLEAN /\ timer' \in BOOLEAN /\ unscheduled' \in BOOLEAN
      BY <1>0
    <2>2. owed' \in {"none", "plain", "forced"} /\ todo' = todo /\ half' = half
      BY DEF TypeOK
    <2> QED BY <1>1, <2>1, <2>2, RecordedKeeps
  <1>3. EnqueuedNotForgotten'
    BY <1>0 DEF EnqueuedNotForgotten, Recorded
  <1> QED BY <1>2, <1>3

(* A pass that throws leaves the rows as they were. *)
LEMMA PassThrowsKeeps ==
  ASSUME IInv, PassThrows
  PROVE  IInv'
  <1> USE FileLedgerAssumption DEF IInv, PassThrows, PassDone, Settle, Begin, Owing, Exhausted,
     ledgerVars, bytesVars, ownerVars, eraseVars, workerVars, lifeVars, ladderVars
  <1>0. /\ live \in BOOLEAN /\ del \in BOOLEAN /\ sweeping \in BOOLEAN
        /\ pass \in BOOLEAN /\ waking \in BOOLEAN /\ timer \in BOOLEAN
        /\ unscheduled \in BOOLEAN
    BY Flags
  <1>1. TypeOK'
    <2>1. {live', del', sweeping', pass', waking', timer', unscheduled'} \subseteq BOOLEAN
      BY <1>0
    <2> QED BY <1>0, <2>1 DEF TypeOK, Quiet, Erasers
  <1>2. ASSUME NEW j \in Keys PROVE KeyInv(j)'
    <2>1. KeyInv(j)
      BY DEF AllKeys
    <2> QED BY <1>0, <2>1 DEF TypeOK, KeyInv, Fresh, Hunted, Gone, Unowned, Deleted, Backed,
       Closed, Erasers
  <1>3. Quiet' /\ EnqueuedNotForgotten'
    BY <1>0 DEF TypeOK, Quiet, AllKeys, KeyInv, Deleted, EnqueuedNotForgotten, Exhausted
  <1> QED BY <1>1, <1>2, <1>3 DEF AllKeys

(* The manifest takes over what the rows answered for. *)
LEMMA DeleteKeeps ==
  ASSUME IInv, Delete
  PROVE  IInv'
  <1> USE FileLedgerAssumption DEF IInv, Delete, Writes, ledgerVars, bytesVars, ownerVars,
     eraseVars, workerVars, lifeVars, ladderVars
  <1>0. /\ live \in BOOLEAN /\ del \in BOOLEAN /\ sweeping \in BOOLEAN
        /\ pass \in BOOLEAN /\ waking \in BOOLEAN /\ timer \in BOOLEAN
        /\ unscheduled \in BOOLEAN
    BY Flags
  <1>1. TypeOK'
    <2>1. {live', del', sweeping', pass', waking', timer', unscheduled'} \subseteq BOOLEAN
      BY <1>0
    <2> QED BY <1>0, <2>1 DEF TypeOK, Quiet, Erasers
  <1>2. ASSUME NEW j \in Keys PROVE KeyInv(j)'
    <2>1. KeyInv(j)
      BY DEF AllKeys
    <2> QED BY <1>0, <2>1 DEF TypeOK, KeyInv, Fresh, Hunted, Gone, Unowned, Deleted, Backed,
       Closed, Erasers
  <1>3. Quiet' /\ EnqueuedNotForgotten'
    BY <1>0 DEF TypeOK, Quiet, AllKeys, KeyInv, Deleted, EnqueuedNotForgotten, Exhausted
  <1> QED BY <1>1, <1>2, <1>3 DEF AllKeys

(* A deletion that fails keeps its manifest. *)
LEMMA DeletionFailsKeeps ==
  ASSUME IInv, DeletionFails
  PROVE  IInv'
  <1> USE FileLedgerAssumption DEF IInv, DeletionFails, ledgerVars, bytesVars, ownerVars,
     eraseVars, workerVars, lifeVars, ladderVars
  <1>0. /\ live \in BOOLEAN /\ del \in BOOLEAN /\ sweeping \in BOOLEAN
        /\ pass \in BOOLEAN /\ waking \in BOOLEAN /\ timer \in BOOLEAN
        /\ unscheduled \in BOOLEAN
    BY Flags
  <1>1. TypeOK'
    <2>1. {live', del', sweeping', pass', waking', timer', unscheduled'} \subseteq BOOLEAN
      BY <1>0
    <2> QED BY <1>0, <2>1 DEF TypeOK, Quiet, Erasers
  <1>2. ASSUME NEW j \in Keys PROVE KeyInv(j)'
    <2>1. KeyInv(j)
      BY DEF AllKeys
    <2> QED BY <1>0, <2>1 DEF TypeOK, KeyInv, Fresh, Hunted, Gone, Unowned, Deleted, Backed,
       Closed, Erasers
  <1>3. Quiet' /\ EnqueuedNotForgotten'
    BY <1>0 DEF TypeOK, Quiet, AllKeys, KeyInv, Deleted, EnqueuedNotForgotten, Exhausted
  <1> QED BY <1>1, <1>2, <1>3 DEF AllKeys

(* A retry starts over. *)
LEMMA DeletionRetriesKeeps ==
  ASSUME IInv, DeletionRetries
  PROVE  IInv'
  <1> USE FileLedgerAssumption DEF IInv, DeletionRetries, Writes, ledgerVars, bytesVars,
     ownerVars, eraseVars, workerVars, lifeVars, ladderVars
  <1>0. /\ live \in BOOLEAN /\ del \in BOOLEAN /\ sweeping \in BOOLEAN
        /\ pass \in BOOLEAN /\ waking \in BOOLEAN /\ timer \in BOOLEAN
        /\ unscheduled \in BOOLEAN
    BY Flags
  <1>1. TypeOK'
    <2>1. {live', del', sweeping', pass', waking', timer', unscheduled'} \subseteq BOOLEAN
      BY <1>0
    <2> QED BY <1>0, <2>1 DEF TypeOK, Quiet, Erasers
  <1>2. ASSUME NEW j \in Keys PROVE KeyInv(j)'
    <2>1. KeyInv(j)
      BY DEF AllKeys
    <2> QED BY <1>0, <2>1 DEF TypeOK, KeyInv, Fresh, Hunted, Gone, Unowned, Deleted, Backed,
       Closed, Erasers
  <1>3. Quiet' /\ EnqueuedNotForgotten'
    BY <1>0 DEF TypeOK, Quiet, AllKeys, KeyInv, Deleted, EnqueuedNotForgotten, Exhausted
  <1> QED BY <1>1, <1>2, <1>3 DEF AllKeys

(* A manifest ends when all its bytes are gone. *)
LEMMA DeletionEndsKeeps ==
  ASSUME IInv, DeletionEnds
  PROVE  IInv'
  <1> USE FileLedgerAssumption DEF IInv, DeletionEnds, ledgerVars, bytesVars, ownerVars,
     eraseVars, workerVars, lifeVars, ladderVars
  <1>0. /\ live \in BOOLEAN /\ del \in BOOLEAN /\ sweeping \in BOOLEAN
        /\ pass \in BOOLEAN /\ waking \in BOOLEAN /\ timer \in BOOLEAN
        /\ unscheduled \in BOOLEAN
    BY Flags
  <1>1. TypeOK'
    <2>1. {live', del', sweeping', pass', waking', timer', unscheduled'} \subseteq BOOLEAN
      BY <1>0
    <2> QED BY <1>0, <2>1 DEF TypeOK, Quiet, Erasers
  <1>2. ASSUME NEW j \in Keys PROVE KeyInv(j)'
    <2>1. KeyInv(j)
      BY DEF AllKeys
    <2> QED BY <1>0, <2>1 DEF TypeOK, KeyInv, Fresh, Hunted, Gone, Unowned, Deleted, Backed,
       Closed, Erasers
  <1>3. Quiet' /\ EnqueuedNotForgotten'
    BY <1>0 DEF TypeOK, Quiet, AllKeys, KeyInv, Deleted, EnqueuedNotForgotten, Exhausted
  <1> QED BY <1>1, <1>2, <1>3 DEF AllKeys

(* Rows, bytes and manifests survive. *)
LEMMA CrashKeeps ==
  ASSUME IInv, Crash
  PROVE  IInv'
  <1> USE FileLedgerAssumption DEF IInv, Crash, ledgerVars, bytesVars, ownerVars, eraseVars,
     workerVars, lifeVars, ladderVars
  <1>0. /\ live \in BOOLEAN /\ del \in BOOLEAN /\ sweeping \in BOOLEAN
        /\ pass \in BOOLEAN /\ waking \in BOOLEAN /\ timer \in BOOLEAN
        /\ unscheduled \in BOOLEAN
    BY Flags
  <1>1. TypeOK'
    <2>1. {live', del', sweeping', pass', waking', timer', unscheduled'} \subseteq BOOLEAN
      BY <1>0
    <2> QED BY <1>0, <2>1 DEF TypeOK, Quiet, Erasers
  <1>2. ASSUME NEW j \in Keys PROVE KeyInv(j)'
    <2>1. KeyInv(j)
      BY DEF AllKeys
    <2> QED BY <1>0, <2>1 DEF TypeOK, KeyInv, Fresh, Hunted, Gone, Unowned, Deleted, Backed,
       Closed, Erasers
  <1>3. Quiet' /\ EnqueuedNotForgotten'
    BY <1>0 DEF TypeOK, Quiet, AllKeys, KeyInv, Deleted, EnqueuedNotForgotten, Exhausted
  <1> QED BY <1>1, <1>2, <1>3 DEF AllKeys

(* Boot may empty the staging, and starts with a pass. *)
LEMMA BootKeeps ==
  ASSUME IInv, Boot
  PROVE  IInv'
  <1> USE FileLedgerAssumption DEF IInv, Boot, Begin, Owing, Exhausted, ledgerVars, bytesVars,
     ownerVars, eraseVars, workerVars, lifeVars, ladderVars
  <1>0. /\ live \in BOOLEAN /\ del \in BOOLEAN /\ sweeping \in BOOLEAN
        /\ pass \in BOOLEAN /\ waking \in BOOLEAN /\ timer \in BOOLEAN
        /\ unscheduled \in BOOLEAN
    BY Flags
  <1>1. TypeOK'
    <2>1. {live', del', sweeping', pass', waking', timer', unscheduled'} \subseteq BOOLEAN
      BY <1>0
    <2> QED BY <1>0, <2>1 DEF TypeOK, Quiet, Erasers
  <1>2. ASSUME NEW j \in Keys PROVE KeyInv(j)'
    <2>1. KeyInv(j)
      BY DEF AllKeys
    <2> QED BY <1>0, <2>1 DEF TypeOK, KeyInv, Fresh, Hunted, Gone, Unowned, Deleted, Backed,
       Closed, Erasers
  <1>3. Quiet' /\ EnqueuedNotForgotten'
    BY <1>0 DEF TypeOK, Quiet, AllKeys, KeyInv, Deleted, EnqueuedNotForgotten, Exhausted
  <1> QED BY <1>1, <1>2, <1>3 DEF AllKeys

-----------------------------------------------------------------------------
(* The invariant holds in every reachable state. *)
LEMMA Invariance == Spec => []IInv
  <1>1. IInv /\ [Next]_vars => IInv'
    <2> SUFFICES ASSUME IInv, [Next]_vars PROVE IInv'
      OBVIOUS
    <2>1. CASE UNCHANGED vars
      BY <2>1 DEF vars, ledgerVars, bytesVars, ownerVars, eraseVars, workerVars, ladderVars,
         lifeVars, IInv,
         TypeOK, Quiet, AllKeys, KeyInv, Fresh, Hunted, Gone, Unowned, Deleted, Backed, Closed,
         EnqueuedNotForgotten, Exhausted
    <2>2. ASSUME NEW k \in Keys,
                 \/ Stage(k) \/ StopShort(k) \/ RecordPending(k) \/ Place(k) \/ PlaceThrows(k)
                 \/ Answer(k) \/ Abandon(k) \/ DelayPasses(k) \/ WorkerFails(k)
                 \/ \E e \in Erasers : (e = "deletion" => del) /\ Erase(e, k)
          PROVE  IInv'
      BY <2>2, StageKeeps, StopShortKeeps, RecordPendingKeeps, PlaceKeeps, PlaceThrowsKeeps,
         AnswerKeeps, AbandonKeeps, DelayPassesKeeps, WorkerFailsKeeps, EraseKeeps
    <2>3. ASSUME NEW claimed \in SUBSET Keys, NEW displaced \in SUBSET Keys,
                 NEW unclaimed \in SUBSET Keys, Save(claimed, displaced, unclaimed)
          PROVE  IInv'
      BY <2>3, SaveKeeps
    <2>4. ASSUME NEW keys \in SUBSET Keys, Discard(keys)
          PROVE  IInv'
      BY <2>4, DiscardKeeps
    <2>5. CASE Sweep \/ DeskLoad \/ Wake \/ TimerFires \/ RecordOutcomes
                  \/ RetryUnscheduled \/ PassThrows
      BY <2>5, SweepKeeps, DeskLoadKeeps, WakeKeeps, TimerFiresKeeps, RecordOutcomesKeeps,
         RetryUnscheduledKeeps, PassThrowsKeeps
    <2>6. CASE Delete \/ DeletionFails \/ DeletionRetries \/ DeletionEnds
      BY <2>6, DeleteKeeps, DeletionFailsKeeps, DeletionRetriesKeeps, DeletionEndsKeeps
    <2>7. CASE Crash \/ Boot
      BY <2>7, CrashKeeps, BootKeeps
    <2>8. Pending \subseteq Keys
      BY DEF Pending
    <2> QED BY <2>1, <2>2, <2>3, <2>4, <2>5, <2>6, <2>7, <2>8 DEF Next
  <1> QED BY <1>1, Initially, PTL DEF Spec

(* The ledger's state keeps its type. *)
THEOREM TypeCorrect == Spec => []TypeOK
  BY Invariance, PTL DEF IInv

(* No sweep, discard, eraser, late upload or crash takes the bytes of a key that a save may claim or
   has claimed. *)
THEOREM ClaimedIntactHolds == Spec => []ClaimedIntact
  BY Invariance, Promises, PTL

(* No bytes are left that nobody will erase. *)
THEOREM NoOrphanBytesHolds == Spec => []NoOrphanBytes
  BY Invariance, Promises, PTL

(* An upload that ended has left no pending row. *)
THEOREM NoPendingLeftHolds == Spec => []NoPendingLeft
  BY Invariance, Promises, PTL

(* An upload leaves neither bytes nor a row that nobody will look at again. *)
THEOREM NothingLeftBehindHolds == Spec => []NothingLeftBehind
  BY NoOrphanBytesHolds, NoPendingLeftHolds, PTL DEF NothingLeftBehind

(* No enqueued key with retries left is ever forgotten by the worker, unless its passes keep throwing
   or the scheduling of its retry threw. *)
THEOREM EnqueuedNotForgottenHolds == Spec => []EnqueuedNotForgotten
  BY Invariance, PTL DEF IInv
=============================================================================
