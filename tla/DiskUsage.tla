----------------------------- MODULE DiskUsage -----------------------------
(***************************************************************************)
(* The disk-usage cache of one server                                      *)
(* (src/src/runtime/docker/inspection/disk.rs): callers of disk_force join *)
(* a calculation that is under way or begin one, the calculation walks the *)
(* server's directory under a permit, and other operations drop the entry  *)
(* while all this goes on.                                                 *)
(*                                                                         *)
(* A caller begins at most one calculation, so its name stands for the     *)
(* Notify of that calculation.  Usage is abstracted away: what a result is *)
(* worth is told by the disk limit that was read along with it.            *)
(***************************************************************************)
EXTENDS Naturals

CONSTANTS
    Callers,        \* calls of disk_cached
    Forced,         \* those that do not accept a cached result
    Limits,         \* disk limits update_resources writes
    Default,        \* the limit assumed when the file cannot be read
    MaxUpdates,     \* bound: update_resources calls
    Faults          \* "drop": requests are cancelled, "io": updates fail

None == "none"

ASSUME DiskAssumption ==
    /\ None \notin Callers
    /\ Forced \subseteq Callers /\ Default \notin Limits
    /\ MaxUpdates \in Nat /\ Faults \subseteq {"drop", "io"}

VARIABLES
    cache,      \* disk_cache: the state of the entry, its Notify or limit
    at,         \* per caller, its next step
    on,         \* per caller, the Notify it waits for
    woken,      \* the waiters that were notified
    got,        \* per caller, the limit it read
    permit,     \* who holds the permit of disk_scans
    walks,      \* the directory walks that are running
    limit,      \* the disk limit metadata file
    update,     \* update_resources: "idle", "writing", "written", or
                \* "failed" until the next one
    updates     \* how many there were

disk_vars ==
    <<cache, at, on, woken, got, permit, walks, limit, update, updates>>

Calculates == {"limit", "queue", "scan", "store"}
Steps == {"lookup", "enter", "wait", "late", "cleanup", "done", "dropped"}
         \cup Calculates
Empty == [state |-> "empty", by |-> None, limit |-> Default]
Calculating(c) == [state |-> "calculating", by |-> c, limit |-> Default]
Ready(l) == [state |-> "ready", by |-> None, limit |-> l]

DiskTypeOK ==
    /\ cache \in {Empty} \cup {Calculating(c) : c \in Callers}
                 \cup {Ready(l) : l \in Limits \cup {Default}}
    /\ at \in [Callers -> Steps] /\ on \in [Callers -> Callers \cup {None}]
    /\ woken \subseteq {c \in Callers : at[c] = "wait"}
    /\ got \in [Callers -> Limits \cup {Default}]
    /\ permit \in Callers \cup {None}
    /\ \A c \in Callers : permit = c <=> at[c] = "scan"
    /\ walks \subseteq Callers
    /\ limit \in Limits \cup {Default}
    /\ update \in {"idle", "writing", "written", "failed"}
    /\ updates \in 0 .. MaxUpdates

DiskInit ==
    /\ cache = Empty
    /\ at = [c \in Callers |-> "lookup"] /\ on = [c \in Callers |-> None]
    /\ woken = {} /\ got = [c \in Callers |-> Default]
    /\ permit = None /\ walks = {}
    /\ limit \in Limits /\ update = "idle" /\ updates = 0

CallerGoes(c, step) == at' = [at EXCEPT ![c] = step]
Owns(c) == cache.state = "calculating" /\ cache.by = c

(* notify_waiters wakes those whose Notified future exists by now, no one  *)
(* who asks later.                                                         *)
NotifyWaiters(n) ==
    woken' = woken \cup {c \in Callers : at[c] = "wait" /\ on[c] = n}

fixed == <<limit, update, updates>>

(* begin_disk_calculation, under the cache's lock.                         *)
Lookup(c) ==
    /\ at[c] = "lookup"
    /\ \/ /\ cache.state = "ready" /\ c \notin Forced
          /\ CallerGoes(c, "done") /\ UNCHANGED <<cache, on>>
       \/ /\ cache.state = "calculating"
          /\ on' = [on EXCEPT ![c] = cache.by]
          /\ CallerGoes(c, "enter") /\ UNCHANGED cache
       \/ /\ cache.state # "calculating"
          /\ cache' = Calculating(c)
          /\ CallerGoes(c, "limit") /\ UNCHANGED on
    /\ UNCHANGED <<woken, got, permit, walks, fixed>>

(* wait_for_disk_calculation: the lock is gone, and only now is there a    *)
(* future that can be notified.                                            *)
Enter(c) ==
    /\ at[c] = "enter"
    /\ CallerGoes(c, "wait")
    /\ UNCHANGED <<cache, on, woken, got, permit, walks, fixed>>

Notified(c) ==
    /\ at[c] = "wait" /\ c \in woken
    /\ woken' = woken \ {c} /\ CallerGoes(c, "lookup")
    /\ UNCHANGED <<cache, on, got, permit, walks, fixed>>

\* Defect: the wait has no time limit.
WaitsForEver(c) ==
    /\ at[c] = "wait" /\ c \in woken
    /\ UNCHANGED disk_vars

(* 120 seconds without a notification.                                     *)
TimesOut(c) ==
    /\ at[c] = "wait" /\ c \notin woken
    /\ CallerGoes(c, "late")
    /\ UNCHANGED <<cache, on, woken, got, permit, walks, fixed>>

(* The waiter removes the calculation it waited for, if it is still there. *)
GiveUp(c) ==
    /\ at[c] = "late"
    /\ cache' = IF Owns(on[c]) THEN Empty ELSE cache
    /\ NotifyWaiters(on[c])
    /\ CallerGoes(c, "lookup")
    /\ UNCHANGED <<on, got, permit, walks, fixed>>

(* disk_limit; a file that is being written reads as the default.          *)
ReadLimit(c) ==
    /\ at[c] = "limit"
    /\ got' = [got EXCEPT ![c] = limit]
    /\ CallerGoes(c, "queue")
    /\ UNCHANGED <<cache, on, woken, permit, walks, fixed>>

(* measure_directory_usage: a permit, a walk on a blocking thread.         *)
AcquireScan(c) ==
    /\ at[c] = "queue" /\ permit = None
    /\ permit' = c /\ walks' = walks \cup {c}
    /\ CallerGoes(c, "scan")
    /\ UNCHANGED <<cache, on, woken, got, fixed>>

\* Defect: the permit is not given back.
WalkedHolding(c) ==
    /\ at[c] = "scan"
    /\ walks' = walks \ {c}
    /\ CallerGoes(c, "store")
    /\ UNCHANGED <<cache, on, woken, got, permit, fixed>>

Walked(c) ==
    /\ at[c] = "scan"
    /\ permit' = None /\ walks' = walks \ {c}
    /\ CallerGoes(c, "store")
    /\ UNCHANGED <<cache, on, woken, got, fixed>>

\* Defect: the result is stored even if the entry was dropped meanwhile.
StoreUnchecked(c) ==
    /\ at[c] = "store"
    /\ cache' = Ready(got[c])
    /\ NotifyWaiters(c)
    /\ CallerGoes(c, "done")
    /\ UNCHANGED <<on, got, permit, walks, fixed>>

(* The result is cached only if the entry is still this calculation's.     *)
Store(c) ==
    /\ at[c] = "store"
    /\ cache' = IF Owns(c) THEN Ready(got[c]) ELSE cache
    /\ NotifyWaiters(c)
    /\ CallerGoes(c, "done")
    /\ UNCHANGED <<on, got, permit, walks, fixed>>

\* Defect: nothing is done about the entry of a calculation that is dropped.
DropUnguarded(c) ==
    /\ "drop" \in Faults /\ at[c] \in {"enter", "wait"} \cup Calculates
    /\ CallerGoes(c, "dropped")
    /\ permit' = IF permit = c THEN None ELSE permit
    /\ woken' = woken \ {c}
    /\ UNCHANGED <<cache, on, got, walks, fixed>>

(* The request is cancelled, or the walk panics: the guard spawns a task;  *)
(* the permit is released, but a walk goes on to its end.                  *)
Drop(c) ==
    /\ "drop" \in Faults /\ at[c] \in {"enter", "wait"} \cup Calculates
    /\ CallerGoes(c, IF at[c] \in Calculates THEN "cleanup" ELSE "dropped")
    /\ permit' = IF permit = c THEN None ELSE permit
    /\ woken' = woken \ {c}
    /\ UNCHANGED <<cache, on, got, walks, fixed>>

WalkEnds(c) ==
    /\ c \in walks /\ at[c] # "scan"
    /\ walks' = walks \ {c}
    /\ UNCHANGED <<cache, at, on, woken, got, permit, fixed>>

(* The task DiskCalculationGuard::drop spawned.                            *)
GuardCleans(c) ==
    /\ at[c] = "cleanup"
    /\ cache' = IF Owns(c) THEN Empty ELSE cache
    /\ NotifyWaiters(c)
    /\ CallerGoes(c, "dropped")
    /\ UNCHANGED <<on, got, permit, walks, fixed>>

-----------------------------------------------------------------------------
(* The operations that change what a measurement is worth.                 *)

(* update_resources: the file is rewritten, read back, and the entry goes. *)
OpenLimit ==
    /\ update \in {"idle", "failed"} /\ updates < MaxUpdates
    /\ limit' = Default /\ update' = "writing" /\ updates' = updates + 1
    /\ UNCHANGED <<cache, at, on, woken, got, permit, walks>>

WriteLimit ==
    /\ update = "writing"
    /\ limit' \in Limits /\ update' = "written"
    /\ UNCHANGED <<cache, at, on, woken, got, permit, walks, updates>>

RemoveEntry ==
    /\ update = "written"
    /\ cache' = Empty /\ update' = "idle"
    /\ UNCHANGED <<at, on, woken, got, permit, walks, limit, updates>>

(* The read-back fails: update_resources returns, the entry stays.         *)
UpdateFails ==
    /\ "io" \in Faults /\ update = "written"
    /\ update' = "failed"
    /\ UNCHANGED <<cache, at, on, woken, got, permit, walks, limit, updates>>

(* create, delete and forget_runtime_state drop the entry.                 *)
Forget ==
    /\ cache # Empty
    /\ cache' = Empty
    /\ UNCHANGED <<at, on, woken, got, permit, walks, fixed>>

CallerStep(c) ==
    \/ Lookup(c) \/ Enter(c) \/ Notified(c) \/ TimesOut(c) \/ GiveUp(c)
    \/ ReadLimit(c) \/ AcquireScan(c) \/ Walked(c) \/ Store(c) \/ GuardCleans(c)

DiskNext ==
    \/ \E c \in Callers : CallerStep(c) \/ Drop(c) \/ WalkEnds(c)
    \/ OpenLimit \/ WriteLimit \/ RemoveEntry \/ UpdateFails \/ Forget

DiskSpec == DiskInit /\ [][DiskNext]_disk_vars

(* Tasks are polled, timers fire and walks end; a Semaphore is fair, so a  *)
(* caller that queues gets its permit.                                     *)
DiskFairness == \A c \in Callers : SF_disk_vars(CallerStep(c))

FairDiskSpec == DiskSpec /\ DiskFairness

-----------------------------------------------------------------------------
(* Properties.                                                             *)

(* A cached result is never one that was begun under a limit that has been *)
(* replaced since: after an update that succeeded the cached limit is the  *)
(* one on disk, also if an earlier update failed and left a stale entry.   *)
FreshLimit == update = "idle" /\ cache.state = "ready" => cache.limit = limit

(* An entry that says a calculation is under way belongs to a call that    *)
(* still runs or a guard that will remove it; it is never an orphan that   *)
(* everyone would have to wait two minutes for.                            *)
EntryIsOwned ==
    \A c \in Callers : Owns(c) => at[c] \in Calculates \cup {"cleanup"}

(* Every call that is not cancelled ends, even one that missed the         *)
(* notification it waits for.                                              *)
CallsEnd == \A c \in Callers : <>(at[c] \in {"done", "dropped"})
=============================================================================
