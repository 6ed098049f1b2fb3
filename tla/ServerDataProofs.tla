-------------------------- MODULE ServerDataProofs --------------------------
(***************************************************************************)
(* The directory of a server.  First the transactional restore that        *)
(* replaces it, for any number of entries and of restores, one at a time   *)
(* (Permits = 1), whichever of their file operations fail.  Then the cache *)
(* of its size, for any number of callers, limits and updates: what keeps  *)
(* a stale result out of the cache is a fact about the call that owns the  *)
(* entry, since whoever reads the limit before an update loses the entry   *)
(* with it.                                                                *)
(***************************************************************************)
EXTENDS BackupRestore, DiskUsage, FiniteSetTheorems, TLAPS

-----------------------------------------------------------------------------
(* The restore.                                                            *)

(* What the archive of restore r puts into the directory.                  *)
Content(r) == [f \in Names |-> IF f \in archive[r] THEN r ELSE NoFile]

(* One restore at a time works on the directory.                           *)
Alone == \A r, q \in Restores : pc[r] \in Working /\ pc[q] \in Working => r = q

(* Where the entries the restore found, and those it unpacked, are at each *)
(* of its steps; `todo` tells the entries its loop has not reached.        *)
Unpacked(r) ==
    /\ pc[r] \in {"queued", "verify"} => failures[r] = 0
    /\ pc[r] \in {"queued", "verify", "place", "adopt"} =>
         previous[r] = NoFiles /\ failures[r] = 0
    /\ pc[r] \in {"place", "adopt", "aside"} => staging[r] = Content(r)

Adopting(r) == pc[r] = "adopt" => target = NoFiles

AsideInv(r) ==
    pc[r] = "aside" => \A f \in Names :
        IF f \in todo[r]
          THEN target[f] = before[r][f] /\ previous[r][f] = NoFile
          ELSE target[f] = NoFile /\ previous[r][f] = before[r][f]

ActivateInv(r) ==
    pc[r] = "activate" =>
        /\ previous[r] = before[r]
        /\ \A f \in Names :
             IF f \in todo[r]
               THEN staging[r][f] = Content(r)[f]
               ELSE target[f] = Content(r)[f]

ClearInv(r) ==
    pc[r] = "clear" =>
        /\ previous[r] = before[r]
        /\ \A f \in Names \ todo[r] : target[f] = NoFile

RollbackInv(r) ==
    pc[r] = "rollback" => \A f \in Names :
        IF f \in todo[r]
          THEN previous[r][f] = before[r][f]
          ELSE \/ target[f] = before[r][f]
               \/ failures[r] > 1 /\ before[r][f] = NoFile

CleanupInv(r) ==
    pc[r] = "cleanup" => \A f \in Names :
        \/ target[f] = before[r][f]
        \/ failures[r] > 1 /\ before[r][f] \in {NoFile, previous[r][f]}

FailedOnce(r) == pc[r] \in {"clear", "rollback", "cleanup"} => failures[r] > 0

(* The loops run only on a directory that exists.                          *)
LoopsThere == \A r \in Restores : pc[r] \in Looping => there = "present"

Where(r) ==
    /\ Unpacked(r) /\ Adopting(r) /\ AsideInv(r) /\ ActivateInv(r)
    /\ ClearInv(r) /\ RollbackInv(r) /\ CleanupInv(r) /\ FailedOnce(r)

IInv == TypeOK /\ LoopsThere /\ Alone /\ \A r \in Restores : Where(r)

-----------------------------------------------------------------------------
(* Steps of one restore seen by the others.                                *)

(* With one permit, a restore that acquires it is the only one at work.    *)
LEMMA NoHolder ==
  ASSUME Permits = 1, Cardinality(Holders) < Permits
  PROVE  \A r \in Restores : pc[r] \notin Working
  <1>1. IsFiniteSet(Holders)
    BY RestoreAssumption, FS_Subset DEF Holders
  <1>2. Cardinality(Holders) = 0
    BY <1>1, FS_CardinalityType
  <1>3. Holders = {}
    BY <1>1, <1>2, FS_EmptySet
  <1>4. QED
    BY <1>3 DEF Holders

(* The initial state satisfies the invariant.                              *)
LEMMA InitIInv == Init => IInv
  BY RestoreAssumption
  DEF Init, IInv, LoopsThere, Looping, TypeOK, Alone, Where, Unpacked, Adopting, AsideInv,
      ActivateInv, ClearInv, RollbackInv, CleanupInv, FailedOnce, NoFiles,
      Entries, Working, Moving, Ended

(* What a step of r leaves alone: everything that belongs to the others.   *)
Others(r) == \A q \in Restores \ {r} :
    /\ pc'[q] = pc[q] /\ staging'[q] = staging[q]
    /\ previous'[q] = previous[q] /\ failures'[q] = failures[q]

(* A restore that does not work keeps its facts while another one steps.   *)
LEMMA OthersKeep ==
  ASSUME IInv, TypeOK', NEW r \in Restores, pc[r] \in Working \/ pc'[r] = "verify",
         \A q \in Restores \ {r} : pc[q] \notin Working,
         Others(r), NEW q \in Restores \ {r}
  PROVE  Where(q)'
  BY DEF IInv, TypeOK, Others, Where, Unpacked, Adopting, AsideInv,
         ActivateInv, ClearInv, RollbackInv, CleanupInv, FailedOnce,
         Working, Moving

(* Every step of a restore keeps the types.                                *)
LEMMA StepTyped ==
  ASSUME TypeOK, LoopsThere, NEW r \in Restores,
         Acquire(r) \/ Step(r) \/ Abandon(r)
  PROVE  TypeOK' /\ LoopsThere'
  <1> USE RestoreAssumption
      DEF TypeOK, LoopsThere, Looping, Go, List, Ticked, InDir, NoFiles,
          Entries, Working, Moving, Ended
  <1>1. CASE Acquire(r)
    BY <1>1 DEF Acquire
  <1>2. CASE Refused(r)
    BY <1>2 DEF Refused
  <1>3. CASE Unpack(r)
    BY <1>3 DEF Unpack
  <1>4. CASE Place(r)
    BY <1>4 DEF Place
  <1>5. CASE Adopt(r)
    <2>1. staging[r] \in [Names -> Entries]
      OBVIOUS
    <2>2. CASE InDir(target) = {}
      <3>1. /\ target' = staging[r] /\ there' = "present"
            /\ staging' = [staging EXCEPT ![r] = NoFiles]
            /\ pc' = [pc EXCEPT ![r] = "done"]
        BY <1>5, <2>2 DEF Adopt
      <3>2. staging' \in [Restores -> [Names -> Entries]]
        BY <3>1
      <3>3. pc' \in [Restores -> {"queued"} \cup Working \cup Ended]
        BY <3>1
      <3>4. LoopsThere'
        BY <3>1
      <3>5. QED
        BY <1>5, <2>1, <3>1, <3>2, <3>3, <3>4 DEF Adopt
    <2>3. CASE InDir(target) # {}
      BY <1>5, <2>3 DEF Adopt
    <2>4. QED
      BY <2>2, <2>3
  <1>6. CASE AsideDone(r)
    BY <1>6 DEF AsideDone
  <1>7. CASE MoveInDone(r)
    BY <1>7 DEF MoveInDone
  <1>8. CASE OperationFails(r)
    <2>1. failures' \in [Restores -> 0 .. MaxFailures]
      BY <1>8 DEF OperationFails
    <2>2. PICK p \in {"clear", "rollback", "cleanup"}, listed \in SUBSET Names :
            /\ pc' = [pc EXCEPT ![r] = p]
            /\ todo' = [todo EXCEPT ![r] = listed]
      <3>1. CASE pc[r] = "activate"
        <4>1. /\ pc' = [pc EXCEPT ![r] = "clear"]
              /\ todo' = [todo EXCEPT ![r] = InDir(target)]
          BY <1>8, <3>1 DEF OperationFails, NextOnError
        <4>2. QED
          BY <4>1, InDir(target) \in SUBSET Names
      <3>2. CASE pc[r] \in {"aside", "clear"}
        <4>1. /\ pc' = [pc EXCEPT ![r] = "rollback"]
              /\ todo' = [todo EXCEPT ![r] = InDir(previous[r])]
          BY <1>8, <3>2 DEF OperationFails, NextOnError
        <4>2. QED
          BY <4>1, InDir(previous[r]) \in SUBSET Names
      <3>3. CASE pc[r] = "rollback"
        <4>1. /\ pc' = [pc EXCEPT ![r] = "cleanup"]
              /\ todo' = [todo EXCEPT ![r] = InDir(NoFiles)]
          BY <1>8, <3>3 DEF OperationFails, NextOnError
        <4>2. QED
          BY <4>1, InDir(NoFiles) \in SUBSET Names
      <3>4. QED
        BY <1>8, <3>1, <3>2, <3>3 DEF OperationFails
    <2>3. pc' \in [Restores -> {"queued"} \cup Working \cup Ended]
      BY <2>2
    <2>4. todo' \in [Restores -> SUBSET Names]
      BY <2>2
    <2>5. there = "present"
      BY <1>8 DEF OperationFails
    <2>6. QED
      BY <1>8, <2>1, <2>3, <2>4, <2>5 DEF OperationFails
  <1>9. CASE ClearDone(r)
    BY <1>9 DEF ClearDone
  <1>10. CASE RollbackDone(r)
    BY <1>10 DEF RollbackDone
  <1>11. CASE Cleanup(r)
    BY <1>11 DEF Cleanup
  <1>12. CASE Abandon(r)
    BY <1>12 DEF Abandon
  <1>13. ASSUME NEW f \in Names, MoveAside(r, f) PROVE TypeOK' /\ LoopsThere'
    BY <1>13 DEF MoveAside
  <1>14. ASSUME NEW f \in Names, MoveIn(r, f) PROVE TypeOK' /\ LoopsThere'
    <2>1. staging[r][f] \in Entries
      OBVIOUS
    <2>2. there = "present"
      BY <1>14 DEF MoveIn
    <2>3. target' \in [Names -> Entries]
      BY <1>14, <2>1 DEF MoveIn
    <2>4. QED
      BY <1>14, <2>2, <2>3 DEF MoveIn
  <1>15. ASSUME NEW f \in Names, Clear(r, f) PROVE TypeOK' /\ LoopsThere'
    BY <1>15 DEF Clear
  <1>16. ASSUME NEW f \in Names, PutBack(r, f) PROVE TypeOK' /\ LoopsThere'
    <2>1. previous[r][f] \in Entries
      OBVIOUS
    <2>2. there = "present"
      BY <1>16 DEF PutBack
    <2>3. target' \in [Names -> Entries]
      BY <1>16, <2>1 DEF PutBack
    <2>4. QED
      BY <1>16, <2>2, <2>3 DEF PutBack
  <1>17. QED
    BY <1>1, <1>2, <1>3, <1>4, <1>5, <1>6, <1>7, <1>8,
       <1>9, <1>10, <1>11, <1>12, <1>13, <1>14, <1>15, <1>16 DEF Step

(* What each step of r leaves alone.                                       *)
LEMMA StepOthers ==
  ASSUME TypeOK, NEW r \in Restores, Acquire(r) \/ Step(r) \/ Abandon(r)
  PROVE  /\ Others(r)
         /\ pc[r] \in Working \/ Acquire(r)
  <1> USE DEF TypeOK, Others, Go, List, Ticked, Working, Moving
  <1>1. CASE Acquire(r)
    BY <1>1 DEF Acquire
  <1>2. CASE Refused(r)
    BY <1>2 DEF Refused
  <1>3. CASE Unpack(r)
    BY <1>3 DEF Unpack
  <1>4. CASE Place(r)
    BY <1>4 DEF Place
  <1>5. CASE Adopt(r)
    BY <1>5 DEF Adopt
  <1>6. CASE AsideDone(r)
    BY <1>6 DEF AsideDone
  <1>7. CASE MoveInDone(r)
    BY <1>7 DEF MoveInDone
  <1>8. CASE OperationFails(r)
    BY <1>8 DEF OperationFails, NextOnError, Looping
  <1>9. CASE ClearDone(r)
    BY <1>9 DEF ClearDone
  <1>10. CASE RollbackDone(r)
    BY <1>10 DEF RollbackDone
  <1>11. CASE Cleanup(r)
    BY <1>11 DEF Cleanup
  <1>12. CASE Abandon(r)
    BY <1>12 DEF Abandon
  <1>13. ASSUME NEW f \in Names, MoveAside(r, f)
         PROVE  Others(r) /\ (pc[r] \in Working \/ Acquire(r))
    BY <1>13 DEF MoveAside
  <1>14. ASSUME NEW f \in Names, MoveIn(r, f)
         PROVE  Others(r) /\ (pc[r] \in Working \/ Acquire(r))
    BY <1>14 DEF MoveIn
  <1>15. ASSUME NEW f \in Names, Clear(r, f)
         PROVE  Others(r) /\ (pc[r] \in Working \/ Acquire(r))
    BY <1>15 DEF Clear
  <1>16. ASSUME NEW f \in Names, PutBack(r, f)
         PROVE  Others(r) /\ (pc[r] \in Working \/ Acquire(r))
    BY <1>16 DEF PutBack
  <1>17. QED
    BY <1>1, <1>2, <1>3, <1>4, <1>5, <1>6, <1>7, <1>8,
       <1>9, <1>10, <1>11, <1>12, <1>13, <1>14, <1>15, <1>16 DEF Step

(* What each step of r does to the entries of its own restore.             *)
LEMMA StepOwn ==
  ASSUME TypeOK, NEW r \in Restores, Where(r),
         Acquire(r) \/ Step(r) \/ Abandon(r)
  PROVE  Where(r)'
  <1> USE RestoreAssumption
      DEF TypeOK, Go, List, Ticked, InDir, NoFiles, Entries, Working, Moving,
          Ended, Content, Where, Unpacked, Adopting, AsideInv,
          ActivateInv, ClearInv, RollbackInv, CleanupInv, FailedOnce
  <1>1. CASE Acquire(r)
    BY <1>1 DEF Acquire
  <1>2. CASE Refused(r)
    BY <1>2 DEF Refused
  <1>3. CASE Unpack(r)
    BY <1>3 DEF Unpack
  <1>4. CASE Place(r)
    BY <1>4 DEF Place
  <1>5. CASE Adopt(r)
    BY <1>5 DEF Adopt
  <1>6. CASE AsideDone(r)
    BY <1>6 DEF AsideDone
  <1>7. CASE MoveInDone(r)
    BY <1>7 DEF MoveInDone
  <1>8. CASE OperationFails(r)
    BY <1>8 DEF OperationFails, NextOnError, Looping
  <1>9. CASE ClearDone(r)
    BY <1>9 DEF ClearDone
  <1>10. CASE RollbackDone(r)
    BY <1>10 DEF RollbackDone
  <1>11. CASE Cleanup(r)
    BY <1>11 DEF Cleanup
  <1>12. CASE Abandon(r)
    BY <1>12 DEF Abandon
  <1>13. ASSUME NEW f \in Names, MoveAside(r, f) PROVE Where(r)'
    BY <1>13 DEF MoveAside
  <1>14. ASSUME NEW f \in Names, MoveIn(r, f) PROVE Where(r)'
    BY <1>14 DEF MoveIn
  <1>15. ASSUME NEW f \in Names, Clear(r, f) PROVE Where(r)'
    BY <1>15 DEF Clear
  <1>16. ASSUME NEW f \in Names, PutBack(r, f) PROVE Where(r)'
    BY <1>16 DEF PutBack
  <1>17. QED
    BY <1>1, <1>2, <1>3, <1>4, <1>5, <1>6, <1>7, <1>8,
       <1>9, <1>10, <1>11, <1>12, <1>13, <1>14, <1>15, <1>16 DEF Step

-----------------------------------------------------------------------------
(* The invariant is inductive: the steps of one restore and what they      *)
(* leave alone put together.                                               *)
LEMMA NextIInv ==
  ASSUME Permits = 1
  PROVE  IInv /\ [Next]_vars => IInv'
  <1>1. SUFFICES ASSUME IInv, [Next]_vars PROVE IInv'
    OBVIOUS
  <1>2. CASE UNCHANGED vars
    BY <1>1, <1>2
    DEF IInv, vars, TypeOK, LoopsThere, Alone, Where, Unpacked, Adopting,
        AsideInv, ActivateInv, ClearInv, RollbackInv, CleanupInv, FailedOnce,
        Content
  <1>3. ASSUME NEW r \in Restores, Acquire(r) \/ Step(r) \/ Abandon(r)
        PROVE  IInv'
    <2>1. TypeOK' /\ LoopsThere'
      BY <1>1, <1>3, StepTyped DEF IInv
    <2>2. Others(r) /\ (pc[r] \in Working \/ Acquire(r))
      BY <1>1, <1>3, StepOthers DEF IInv
    <2>3. /\ pc[r] \in Working \/ pc'[r] = "verify"
          /\ \A q \in Restores \ {r} : pc[q] \notin Working
      <3>1. CASE pc[r] \in Working
        BY <1>1, <3>1 DEF IInv, Alone
      <3>2. CASE Acquire(r)
        BY <1>1, <3>2, NoHolder DEF IInv, TypeOK, Acquire, Go
      <3>3. QED
        BY <2>2, <3>1, <3>2
    <2>4. Alone'
      BY <2>2, <2>3 DEF Alone, Others
    <2>5. Where(r)'
      BY <1>1, <1>3, StepOwn DEF IInv
    <2>6. \A q \in Restores \ {r} : Where(q)'
      BY <1>1, <2>1, <2>2, <2>3, OthersKeep
    <2>7. QED
      BY <2>1, <2>4, <2>5, <2>6 DEF IInv
  <1>4. QED
    BY <1>1, <1>2, <1>3 DEF Next

(* With one permit the invariant holds, however many operations fail.      *)
LEMMA Invariance ==
  ASSUME Permits = 1
  PROVE  Spec => []IInv
  <1>1. Init => IInv
    BY InitIInv
  <1>2. IInv /\ [Next]_vars => IInv'
    BY NextIInv
  <1>3. QED
    BY <1>1, <1>2, PTL DEF Spec

(* However many restores run at once and fail, the listings are of this    *)
(* server's names and the loops work on a directory that exists.           *)
THEOREM RestoreTypeCorrect == Spec => []TypeOK
  <1>1. Init => TypeOK /\ LoopsThere
    BY InitIInv DEF IInv
  <1>2. TypeOK /\ LoopsThere /\ [Next]_vars => TypeOK' /\ LoopsThere'
    <2>1. SUFFICES ASSUME TypeOK, LoopsThere, [Next]_vars
                   PROVE  TypeOK' /\ LoopsThere'
      OBVIOUS
    <2>2. CASE UNCHANGED vars
      BY <2>1, <2>2 DEF vars, TypeOK, LoopsThere
    <2>3. CASE Next
      BY <2>1, <2>3, StepTyped DEF Next
    <2>4. QED
      BY <2>1, <2>2, <2>3
  <1>3. QED
    BY <1>1, <1>2, PTL DEF Spec

(* No step of a restore loses an entry of the directory it found.          *)
THEOREM OldDataSafe ==
  ASSUME Permits = 1
  PROVE  Spec => []OldDataKept
  <1>1. IInv => OldDataKept
    BY DEF IInv, TypeOK, Where, AsideInv, ActivateInv, ClearInv, RollbackInv,
           CleanupInv, OldDataKept, InDir, Moving
  <1>2. QED
    BY <1>1, Invariance, PTL

-----------------------------------------------------------------------------
(* How a restore ends.                                                     *)

(* A restore that succeeds leaves exactly what its archive holds.          *)
THEOREM ReplacesExactly ==
  ASSUME Permits = 1
  PROVE  Spec => ReplacedExactly
  <1> DEFINE Exact == \A r \in Restores : pc[r] # "done" /\ pc'[r] = "done" =>
         target' = [f \in Names |-> IF f \in archive[r] THEN r ELSE NoFile]
  <1>1. IInv /\ [Next]_vars => [Exact]_vars
    <2>1. SUFFICES ASSUME IInv, Next, NEW r \in Restores,
                          pc[r] # "done", pc'[r] = "done"
                   PROVE  target' = Content(r)
      BY DEF Content
    <2>2. Where(r) /\ TypeOK
      BY <2>1 DEF IInv
    <2>3. PICK q \in Restores : Acquire(q) \/ Step(q) \/ Abandon(q)
      BY <2>1 DEF Next
    <2>4. q = r
      BY <2>1, <2>2, <2>3, StepOthers DEF Others
    <2>5. CASE MoveInDone(r)
      BY <2>2, <2>5 DEF MoveInDone, Where, ActivateInv, TypeOK, Content
    <2>6. CASE Adopt(r)
      BY <2>1, <2>2, <2>6 DEF Adopt, Where, Unpacked, TypeOK, Go
    <2>7. MoveInDone(r) \/ Adopt(r)
      BY <2>1, <2>2, <2>3, <2>4
      DEF TypeOK, Acquire, Abandon, Step, Go, Refused, Unpack, Place,
          AsideDone, OperationFails, NextOnError, ClearDone, RollbackDone,
          Cleanup, MoveAside, MoveIn, Clear, PutBack
    <2>8. QED
      BY <2>5, <2>6, <2>7
  <1>2. QED
    BY <1>1, Invariance, PTL DEF Spec, ReplacedExactly

(* A restore that fails after it began to move the entries leaves the      *)
(* directory as it found it, if nothing fails while it is rolled back.     *)
THEOREM FailureUndone ==
  ASSUME Permits = 1, MaxFailures <= 1
  PROVE  Spec => FailureRestores
  <1> DEFINE Restored == \A r \in Restores :
         pc[r] \in Moving /\ pc'[r] = "failed" => target' = before[r]
  <1>1. IInv /\ [Next]_vars => [Restored]_vars
    <2>1. SUFFICES ASSUME IInv, Next, NEW r \in Restores,
                          pc[r] \in Moving, pc'[r] = "failed"
                   PROVE  target' = before[r]
      OBVIOUS
    <2>2. Where(r) /\ TypeOK
      BY <2>1 DEF IInv
    <2>3. PICK q \in Restores : Acquire(q) \/ Step(q) \/ Abandon(q)
      BY <2>1 DEF Next
    <2>4. q = r
      BY <2>1, <2>2, <2>3, StepOthers DEF Others, Moving
    <2>5. Cleanup(r)
      BY <2>1, <2>2, <2>3, <2>4
      DEF TypeOK, Moving, Acquire, Abandon, Step, Go, Refused, Unpack, Place,
          Adopt, AsideDone, MoveInDone, OperationFails, NextOnError, ClearDone,
          RollbackDone, MoveAside, MoveIn, Clear, PutBack
    <2>6. failures[r] <= 1
      BY <2>2, RestoreAssumption DEF TypeOK
    <2>7. QED
      BY <2>2, <2>5, <2>6, RestoreAssumption
      DEF Cleanup, Where, CleanupInv, TypeOK
  <1>2. QED
    BY <1>1, Invariance, PTL DEF Spec, FailureRestores

-----------------------------------------------------------------------------
(* The cache of its size.                                                  *)

(* Between updates, the owner of the entry read the limit that is on disk. *)
OwnerReadLimit ==
    \A c \in Callers :
        update = "idle" /\ Owns(c) /\ at[c] \in {"queue", "scan", "store"}
            => got[c] = limit

(* An update that fails half-way leaves a stale entry and is not "idle".   *)
Fresh == OwnerReadLimit /\ FreshLimit

DiskInv == DiskTypeOK /\ EntryIsOwned /\ Fresh

(* Nothing is cached and nobody calls at first.                            *)
LEMMA DiskInitTyped == DiskInit => DiskTypeOK
  BY DiskAssumption
  DEF DiskInit, DiskTypeOK, Empty, None, Steps, Calculates

(* A step of one call preserves the types.                                 *)
LEMMA DiskStepTyped ==
  ASSUME DiskTypeOK, NEW c \in Callers, CallerStep(c) \/ Drop(c) \/ WalkEnds(c)
  PROVE  DiskTypeOK'
<1> USE DiskAssumption
        DEF DiskTypeOK, CallerGoes, fixed, Steps, Calculates, NotifyWaiters
<1>1. CASE Lookup(c)
  <2>1. cache' = cache \/ cache' = Calculating(c)
    BY <1>1 DEF Lookup
  <2>2. /\ cache' \in {Empty} \cup {Calculating(d) : d \in Callers}
                       \cup {Ready(l) : l \in Limits \cup {Default}}
    BY <2>1
  <2>3. on' \in [Callers -> Callers \cup {None}]
    <3>1. cache.state = "calculating" => cache.by \in Callers
      BY DEF Empty, Calculating, Ready
    <3> QED BY <1>1, <3>1 DEF Lookup
  <2>4. at[c] = "lookup" /\ at' \in [Callers -> Steps]
        /\ \E step \in {"done", "enter", "limit"} :
              at' = [at EXCEPT ![c] = step]
    BY <1>1 DEF Lookup
  <2> QED BY <1>1, <2>2, <2>3, <2>4 DEF Lookup
<1>2. CASE Enter(c)
  BY <1>2 DEF Enter
<1>3. CASE Notified(c)
  BY <1>3 DEF Notified
<1>4. CASE TimesOut(c)
  BY <1>4 DEF TimesOut
<1>5. CASE GiveUp(c)
  BY <1>5 DEF GiveUp
<1>6. CASE ReadLimit(c)
  BY <1>6 DEF ReadLimit
<1>7. CASE AcquireScan(c)
  BY <1>7 DEF AcquireScan, None
<1>8. CASE Walked(c)
  BY <1>8 DEF Walked, None
<1>9. CASE Store(c)
  BY <1>9 DEF Store
<1>10. CASE GuardCleans(c)
  BY <1>10 DEF GuardCleans
<1>11. CASE Drop(c)
  BY <1>11 DEF Drop, None
<1>12. CASE WalkEnds(c)
  BY <1>12 DEF WalkEnds
<1> QED
  BY <1>1, <1>2, <1>3, <1>4, <1>5, <1>6, <1>7, <1>8, <1>9, <1>10, <1>11, <1>12
  DEF CallerStep

(* So does everything else that may happen.                                *)
LEMMA DiskOtherTyped ==
  ASSUME DiskTypeOK,
         OpenLimit \/ WriteLimit \/ RemoveEntry \/ UpdateFails \/ Forget
  PROVE  DiskTypeOK'
<1> USE DiskAssumption DEF DiskTypeOK
<1>1. CASE OpenLimit
  BY <1>1 DEF OpenLimit
<1>2. CASE WriteLimit
  BY <1>2 DEF WriteLimit
<1>3. CASE RemoveEntry
  BY <1>3 DEF RemoveEntry
<1>4. CASE UpdateFails
  BY <1>4 DEF UpdateFails
<1>5. CASE Forget
  BY <1>5 DEF Forget, fixed
<1> QED BY <1>1, <1>2, <1>3, <1>4, <1>5

(* Every step keeps the types and the permit with the call that scans.     *)
LEMMA DiskNextTyped == DiskTypeOK /\ [DiskNext]_disk_vars => DiskTypeOK'
<1>1. DiskTypeOK /\ UNCHANGED disk_vars => DiskTypeOK'
  BY DEF DiskTypeOK, disk_vars
<1> QED BY <1>1, DiskStepTyped, DiskOtherTyped DEF DiskNext

(* Every reachable state of the disk cache is well typed: waiters that     *)
(* were notified still wait, and the permit is held exactly by the call    *)
(* whose walk is awaited.                                                  *)
THEOREM DiskTypeCorrect == DiskSpec => []DiskTypeOK
  BY DiskInitTyped, DiskNextTyped, PTL DEF DiskSpec

-----------------------------------------------------------------------------

(* What a step of one call does to the entry and to who owns it.           *)
LEMMA DiskStepHolds ==
  ASSUME DiskInv, DiskTypeOK', NEW c \in Callers,
         CallerStep(c) \/ Drop(c) \/ WalkEnds(c)
  PROVE  EntryIsOwned' /\ Fresh'
<1>0. at \in [Callers -> Steps] /\ got \in [Callers -> Limits \cup {Default}]
  BY DEF DiskInv, DiskTypeOK
<1> USE <1>0 DEF DiskInv, EntryIsOwned, Fresh, OwnerReadLimit, FreshLimit,
             Owns, CallerGoes, fixed, Steps, Calculates
<1>1. CASE Lookup(c)
  <2>1. CASE cache' = cache
    BY <1>1, <2>1 DEF Lookup
  <2>2. CASE cache' = Calculating(c) /\ CallerGoes(c, "limit")
    BY <1>1, <2>2 DEF Lookup, Calculating
  <2> QED BY <1>1, <2>1, <2>2 DEF Lookup
<1>2. CASE Enter(c)
  BY <1>2 DEF Enter
<1>3. CASE Notified(c)
  BY <1>3 DEF Notified
<1>4. CASE TimesOut(c)
  BY <1>4 DEF TimesOut
<1>5. CASE GiveUp(c)
  BY <1>5 DEF GiveUp, Empty
<1>6. CASE ReadLimit(c)
  BY <1>6 DEF ReadLimit
<1>7. CASE AcquireScan(c)
  BY <1>7 DEF AcquireScan
<1>8. CASE Walked(c)
  BY <1>8 DEF Walked
<1>9. CASE Store(c)
  BY <1>9 DEF Store, Ready
<1>10. CASE GuardCleans(c)
  BY <1>10 DEF GuardCleans, Empty
<1>11. CASE Drop(c)
  BY <1>11 DEF Drop
<1>12. CASE WalkEnds(c)
  BY <1>12 DEF WalkEnds
<1> QED
  BY <1>1, <1>2, <1>3, <1>4, <1>5, <1>6, <1>7, <1>8, <1>9, <1>10, <1>11, <1>12
  DEF CallerStep

(* An update that returns without an error has dropped the entry.          *)
LEMMA DiskOtherHolds ==
  ASSUME DiskInv,
         OpenLimit \/ WriteLimit \/ RemoveEntry \/ UpdateFails \/ Forget
  PROVE  EntryIsOwned' /\ Fresh'
<1> USE DEF DiskInv, EntryIsOwned, Fresh, OwnerReadLimit, FreshLimit, Owns
<1>1. CASE OpenLimit
  BY <1>1 DEF OpenLimit
<1>2. CASE WriteLimit
  BY <1>2 DEF WriteLimit
<1>3. CASE RemoveEntry
  BY <1>3 DEF RemoveEntry, Empty
<1>4. CASE UpdateFails
  BY <1>4 DEF UpdateFails
<1>5. CASE Forget
  BY <1>5 DEF Forget, Empty, fixed
<1> QED BY <1>1, <1>2, <1>3, <1>4, <1>5

(* Ownership of the entries and freshness of the limit hold together.      *)
LEMMA DiskInductive ==
    /\ DiskInit => DiskInv
    /\ DiskInv /\ [DiskNext]_disk_vars => DiskInv'
<1>1. DiskInit => DiskInv
  BY DiskInitTyped
  DEF DiskInit, DiskInv, EntryIsOwned, Fresh, OwnerReadLimit, FreshLimit, Owns,
      Empty
<1>2. ASSUME DiskInv, UNCHANGED disk_vars PROVE DiskInv'
  BY <1>2 DEF DiskInv, DiskTypeOK, EntryIsOwned, Fresh, OwnerReadLimit,
              FreshLimit, Owns, disk_vars
<1>3. ASSUME DiskInv, DiskNext PROVE DiskInv'
  <2>1. DiskTypeOK'
    BY <1>3, DiskNextTyped DEF DiskInv
  <2> QED BY <1>3, <2>1, DiskStepHolds, DiskOtherHolds DEF DiskNext, DiskInv
<1> QED BY <1>1, <1>2, <1>3

(* However many callers, cancellations, time-outs and updates overlap, the *)
(* cache never holds a result measured under a limit that an update has    *)
(* since replaced successfully.                                            *)
THEOREM CacheIsFresh == DiskSpec => []FreshLimit
<1>1. DiskInv => FreshLimit
  BY DEF DiskInv, Fresh
<1> QED BY <1>1, DiskInductive, PTL DEF DiskSpec

(* No cancellation leaves an entry behind that nobody will ever complete.  *)
THEOREM NoOrphanedEntry == DiskSpec => []EntryIsOwned
<1>1. DiskInv => EntryIsOwned
  BY DEF DiskInv
<1> QED BY <1>1, DiskInductive, PTL DEF DiskSpec
=============================================================================
