--------------------------- MODULE BackupRestore ---------------------------
(***************************************************************************)
(* Restoring a backup of one server (src/src/storage/backup): the permits  *)
(* of manager.rs and restore_transactionally of archive.rs, which unpacks  *)
(* the archive beside the server's directory, moves the present entries to *)
(* a `previous` directory one rename at a time, moves the unpacked ones in *)
(* one at a time, and undoes both when a rename fails.                     *)
(*                                                                         *)
(* An entry is abstracted to where it came from: Old, or the restore that  *)
(* unpacked it.  A directory listing is taken when it is opened.           *)
(***************************************************************************)
EXTENDS Naturals, FiniteSets

CONSTANTS
    Names,          \* top-level entries of a server's directory
    Restores,       \* RestoreBackup calls for this server
    Old, NoFile,    \* an entry from before all of them; no entry
    Permits,        \* AGAPORNIS_BACKUP_CONCURRENCY, 1 to 4
    MaxFailures     \* bound: file operations failing in one restore

ASSUME RestoreAssumption ==
    /\ Permits \in 1 .. 4 /\ MaxFailures \in Nat
    /\ IsFiniteSet(Restores) /\ IsFiniteSet(Names)
    /\ Old # NoFile /\ Old \notin Restores /\ NoFile \notin Restores

Entries == Restores \cup {Old, NoFile}
NoFiles == [f \in Names |-> NoFile]
InDir(dir) == {f \in Names : dir[f] # NoFile}

VARIABLES
    target,     \* the server's directory
    there,      \* whether it exists: "present" or "absent"
    staging,    \* per restore, its unpacked archive
    previous,   \* per restore, what it moved aside
    pc,         \* per restore, the step it is at
    todo,       \* per restore, what is left of the listing it works on
    failures,   \* per restore, file operations that failed
    archive,    \* per restore, the names its archive holds
    before      \* history: per restore, the directory it found

vars == <<target, there, staging, previous, pc, todo, failures, archive,
          before>>

Moving == {"aside", "activate", "clear", "rollback", "cleanup"}
Working == {"verify", "place", "adopt"} \cup Moving
Ended == {"done", "failed", "abandoned"}

TypeOK ==
    /\ target \in [Names -> Entries]
    /\ there \in {"present", "absent"}
    /\ there = "absent" => target = NoFiles
    /\ staging \in [Restores -> [Names -> Entries]]
    /\ previous \in [Restores -> [Names -> Entries]]
    /\ pc \in [Restores -> {"queued"} \cup Working \cup Ended]
    /\ todo \in [Restores -> SUBSET Names]
    /\ failures \in [Restores -> 0 .. MaxFailures]
    /\ archive \in [Restores -> SUBSET Names]
    /\ before \in [Restores -> [Names -> Entries]]

Init ==
    /\ there \in {"present", "absent"}
    /\ target \in [Names -> {Old, NoFile}]
    /\ there = "absent" => target = NoFiles
    /\ staging = [r \in Restores |-> NoFiles]
    /\ previous = [r \in Restores |-> NoFiles]
    /\ pc = [r \in Restores |-> "queued"]
    /\ todo = [r \in Restores |-> {}]
    /\ failures = [r \in Restores |-> 0]
    /\ archive = [r \in Restores |-> {}]
    /\ before = [r \in Restores |-> NoFiles]

Go(r, p) == pc' = [pc EXCEPT ![r] = p]
List(r, dir) == todo' = [todo EXCEPT ![r] = InDir(dir)]
Ticked(r, f) == todo' = [todo EXCEPT ![r] = @ \ {f}]

\* Defect: a restore that failed keeps its permit.
HoldersForEver == {r \in Restores : pc[r] \in Working \cup {"failed"}}

(* The restores that hold a permit: until they return or are dropped.      *)
Holders == {r \in Restores : pc[r] \in Working}

(* operation_permit                                                        *)
Acquire(r) ==
    /\ pc[r] = "queued" /\ Cardinality(Holders) < Permits
    /\ Go(r, "verify")
    /\ UNCHANGED <<target, there, staging, previous, todo, failures, archive,
                   before>>

(* No such backup, a checksum, size or path that is refused, or a tar that *)
(* fails: the server's directory has not been touched.                     *)
Refused(r) ==
    /\ pc[r] = "verify"
    /\ Go(r, "failed")
    /\ UNCHANGED <<target, there, staging, previous, todo, failures, archive,
                   before>>

(* The archive is verified and unpacked into the staging directory.        *)
Unpack(r) ==
    /\ pc[r] = "verify"
    /\ \E names \in SUBSET Names :
         /\ archive' = [archive EXCEPT ![r] = names]
         /\ staging' = [staging EXCEPT ![r] =
                          [f \in Names |-> IF f \in names THEN r ELSE NoFile]]
    /\ Go(r, "place")
    /\ UNCHANGED <<target, there, previous, todo, failures, before>>

\* Defect: entries are not moved aside, the archive is laid over them.
PlaceOver(r) ==
    /\ pc[r] = "place"
    /\ before' = [before EXCEPT ![r] = target]
    /\ List(r, NoFiles)
    /\ Go(r, IF there = "absent" THEN "adopt" ELSE "aside")
    /\ UNCHANGED <<target, there, staging, previous, failures, archive>>

(* target.exists(), and the listing of what has to be moved aside.         *)
Place(r) ==
    /\ pc[r] = "place"
    /\ before' = [before EXCEPT ![r] = target]
    /\ List(r, target)
    /\ Go(r, IF there = "absent" THEN "adopt" ELSE "aside")
    /\ UNCHANGED <<target, there, staging, previous, failures, archive>>

(* rename(staging, target), which fails on a directory with entries.       *)
Adopt(r) ==
    /\ pc[r] = "adopt"
    /\ IF InDir(target) = {}
         THEN /\ target' = staging[r] /\ there' = "present"
              /\ staging' = [staging EXCEPT ![r] = NoFiles]
              /\ Go(r, "done")
         ELSE Go(r, "failed") /\ UNCHANGED <<target, there, staging>>
    /\ UNCHANGED <<previous, todo, failures, archive, before>>

-----------------------------------------------------------------------------
(* move_directory_contents and clear_directory_contents, entry by entry.   *)

MoveAside(r, f) ==
    /\ pc[r] = "aside" /\ f \in todo[r] /\ target[f] # NoFile
    /\ previous' = [previous EXCEPT ![r][f] = target[f]]
    /\ target' = [target EXCEPT ![f] = NoFile]
    /\ Ticked(r, f)
    /\ UNCHANGED <<there, staging, pc, failures, archive, before>>

AsideDone(r) ==
    /\ pc[r] = "aside" /\ todo[r] = {}
    /\ List(r, staging[r])
    /\ Go(r, "activate")
    /\ UNCHANGED <<target, there, staging, previous, failures, archive,
                   before>>

MoveIn(r, f) ==
    /\ pc[r] = "activate" /\ f \in todo[r]
    /\ target' = [target EXCEPT ![f] = staging[r][f]]
    /\ staging' = [staging EXCEPT ![r][f] = NoFile]
    /\ Ticked(r, f)
    /\ UNCHANGED <<there, previous, pc, failures, archive, before>>

(* Success: both helper directories are removed.                           *)
MoveInDone(r) ==
    /\ pc[r] = "activate" /\ todo[r] = {}
    /\ staging' = [staging EXCEPT ![r] = NoFiles]
    /\ previous' = [previous EXCEPT ![r] = NoFiles]
    /\ Go(r, "done")
    /\ UNCHANGED <<target, there, todo, failures, archive, before>>

\* Defect: a failed activation is rolled back over what it moved in.
NextOnErrorUncleared(r) ==
    IF pc[r] \in {"aside", "activate", "clear"}
      THEN Go(r, "rollback") /\ List(r, previous[r])
      ELSE Go(r, "cleanup") /\ List(r, NoFiles)

(* What follows the first operation that fails in each of the loops.       *)
NextOnError(r) ==
    CASE pc[r] = "activate" -> Go(r, "clear") /\ List(r, target)
      [] pc[r] \in {"aside", "clear"} ->
           Go(r, "rollback") /\ List(r, previous[r])
      [] OTHER -> Go(r, "cleanup") /\ List(r, NoFiles)

Looping == {"aside", "activate", "clear", "rollback"}

(* A listing, rename or removal fails: an I/O error, or an entry that is   *)
(* no longer there.                                                        *)
OperationFails(r) ==
    /\ pc[r] \in Looping /\ todo[r] # {}
    /\ failures[r] < MaxFailures
    /\ failures' = [failures EXCEPT ![r] = @ + 1]
    /\ NextOnError(r)
    /\ UNCHANGED <<target, there, staging, previous, archive, before>>

Clear(r, f) ==
    /\ pc[r] = "clear" /\ f \in todo[r] /\ target[f] # NoFile
    /\ target' = [target EXCEPT ![f] = NoFile]
    /\ Ticked(r, f)
    /\ UNCHANGED <<there, staging, previous, pc, failures, archive, before>>

ClearDone(r) ==
    /\ pc[r] = "clear" /\ todo[r] = {}
    /\ List(r, previous[r])
    /\ Go(r, "rollback")
    /\ UNCHANGED <<target, there, staging, previous, failures, archive,
                   before>>

PutBack(r, f) ==
    /\ pc[r] = "rollback" /\ f \in todo[r]
    /\ target' = [target EXCEPT ![f] = previous[r][f]]
    /\ previous' = [previous EXCEPT ![r][f] = NoFile]
    /\ Ticked(r, f)
    /\ UNCHANGED <<there, staging, pc, failures, archive, before>>

RollbackDone(r) ==
    /\ pc[r] = "rollback" /\ todo[r] = {}
    /\ Go(r, "cleanup")
    /\ UNCHANGED <<target, there, staging, previous, todo, failures, archive,
                   before>>

(* The helper directories go, whether or not the rollback succeeded.       *)
Cleanup(r) ==
    /\ pc[r] = "cleanup"
    /\ staging' = [staging EXCEPT ![r] = NoFiles]
    /\ previous' = [previous EXCEPT ![r] = NoFiles]
    /\ Go(r, "failed")
    /\ UNCHANGED <<target, there, todo, failures, archive, before>>

(* The caller's connection is lost and the handler is dropped at an await, *)
(* or the agent is killed: everything stays where it is.                   *)
Abandon(r) ==
    /\ pc[r] \in Working
    /\ Go(r, "abandoned")
    /\ UNCHANGED <<target, there, staging, previous, todo, failures, archive,
                   before>>

-----------------------------------------------------------------------------
Step(r) ==
    \/ Refused(r) \/ Unpack(r) \/ Place(r) \/ Adopt(r)
    \/ AsideDone(r) \/ MoveInDone(r) \/ OperationFails(r)
    \/ ClearDone(r) \/ RollbackDone(r) \/ Cleanup(r)
    \/ \E f \in Names : \/ MoveAside(r, f) \/ MoveIn(r, f) \/ Clear(r, f)
                        \/ PutBack(r, f)

Next == \E r \in Restores : Acquire(r) \/ Step(r) \/ Abandon(r)

Spec == Init /\ [][Next]_vars

(* A handler that runs takes its next step; the semaphore is fair (tokio   *)
(* serves its waiters in order).                                           *)
Fairness == \A r \in Restores : WF_vars(Step(r)) /\ SF_vars(Acquire(r))

FairSpec == Spec /\ Fairness

-----------------------------------------------------------------------------
(* Properties.                                                             *)

(* ARCHITECTURE.md:68: a restore that succeeds replaces the directory: the *)
(* archive's entries and nothing else, whatever earlier restores that      *)
(* failed or were abandoned half-way left behind.                          *)
ReplacedExactly ==
    [][\A r \in Restores : pc[r] # "done" /\ pc'[r] = "done" =>
         target' = [f \in Names |-> IF f \in archive[r] THEN r ELSE NoFile]]_vars

(* ARCHITECTURE.md:46: the restore is transactional: one that returns an   *)
(* error leaves the directory as it found it.                              *)
FailureRestores ==
    [][\A r \in Restores : pc[r] \in Moving /\ pc'[r] = "failed" =>
         target' = before[r]]_vars

(* At no await of a restore is an entry of the directory it found lost: it *)
(* is still there or in the `previous` directory, where an operator finds  *)
(* it if the restore is abandoned at that point.                           *)
OldDataKept ==
    \A r \in Restores : pc[r] \in Moving => \A f \in InDir(before[r]) :
        before[r][f] \in {target[f], previous[r][f]}

(* No restore waits for ever for a permit, and none hangs.                 *)
RestoreEnds == \A r \in Restores : (pc[r] = "queued") ~> (pc[r] \in Ended)
=============================================================================
