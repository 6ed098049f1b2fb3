-------------------------- MODULE ServerLifecycle --------------------------
(***************************************************************************)
(* The lifecycle of one game server: the Docker operations of the panel's  *)
(* RPCs (src/src/runtime/docker/lifecycle.rs, lifecycle/recreation.rs,     *)
(* provisioning.rs), the supervisor that watches the container             *)
(* (src/src/runtime/supervisor.rs) and the protection status they share    *)
(* (src/src/security/protection.rs).  Everything is keyed by the server's  *)
(* id, so one server is all there is to say.                               *)
(*                                                                         *)
(* No lock covers an operation: each is the list of Engine calls and file  *)
(* operations it still has to make, and anything may happen between two.   *)
(***************************************************************************)
EXTENDS Naturals, Sequences

CONSTANTS
    Calls,          \* the RPCs the panel has under way at once
    Ops,            \* the operations it asks for
    Faults,         \* the steps that may fail although nothing is wrong
    Supervisor,     \* the supervisor, when it calls DockerManager::stop
    FailureLimit    \* failures within five minutes that make a crash loop: 3

ASSUME ServerAssumption ==
    /\ Ops \subseteq {"create", "start", "stop", "kill", "restart",
                      "recreate", "reconfigure", "delete"}
    /\ Faults \subseteq {"pull", "create", "drop", "start", "attach", "config",
                         "remove", "rmdir", "install", "port"}
    /\ Supervisor \notin Calls /\ FailureLimit \in Nat \ {0}

Procs == Calls \cup {Supervisor}

VARIABLES
    live,       \* the container that has the server's name
    policy,     \* its restart policy
    stale,      \* per process, the container it last renamed aside
    dir,        \* the server's directory
    usage,      \* whether the files fit the disk limit
    status,     \* ProtectionState.statuses
    recovery,   \* ProtectionState.recovery, until it expires
    todo,       \* per process, the steps it still has to take
    op,         \* per process, the operation it performs
    wish,       \* history: what the panel last had done to the server
    restarts,   \* times Docker restarted it since the last observation
    exit,       \* its exit code: "zero" or "crash"
    obs,        \* the supervisor's Observation of it
    sup,        \* the supervisor's next step
    seen        \* what its inspection of the container found

docker == <<live, policy, stale, restarts, exit>>
disk == <<dir, usage>>
protection == <<status, recovery>>
supervisor == <<obs, sup, seen>>
vars == <<live, policy, stale, dir, usage, status, recovery, todo, op, wish,
          restarts, exit, obs, sup, seen>>

Runs == {"none", "stopped", "running"}
SupSteps == {"idle", "stale", "inspect", "observe", "quarantine", "mark",
             "disk", "over", "halt", "markdisk"}
NoObs == [known |-> "no", was |-> "stopped", failures |-> 0,
          quarantined |-> "no"]
Saw == [run : {"stopped", "running"}, exit : {"zero", "crash"},
        restarts : 0 .. FailureLimit]

StopScript == <<"inspect-stop", "policy", "ask", "wait", "halt", "stopped">>
StartScript == <<"inspect-start", "config", "disk", "recover", "policy",
                 "run", "attach">>
CreateScript == <<"reserve", "prepare", "install", "attempt", "target",
                  "attempt", "target", "configure", "payload", "pull", "new">>
ReplaceScript == <<"rename", "create", "drop">>
KillScript == <<"inspect-stop", "policy", "sigkill", "stopped">>

\* Defect: a forced stop leaves the restart policy in place.
ScriptKillRestarts(o) ==
    CASE o = "create"      -> CreateScript
      [] o = "start"       -> StartScript
      [] o = "stop"        -> StopScript
      [] o = "kill"        -> <<"inspect-stop", "sigkill", "stopped">>
      [] o = "restart"     -> StopScript \o StartScript
      [] o = "recreate"    -> <<"inspect-recreate">>
      [] o = "reconfigure" -> <<"inspect-recreate">>
      [] o = "delete"      -> <<"remove", "rmdir", "forget">>

(* What each RPC does, as far as it is known when it begins.               *)
Script(o) ==
    CASE o = "create"      -> CreateScript
      [] o = "start"       -> StartScript
      [] o = "stop"        -> StopScript
      [] o = "kill"        -> KillScript
      [] o = "restart"     -> StopScript \o StartScript
      [] o = "recreate"    -> <<"inspect-recreate">>
      [] o = "reconfigure" -> <<"inspect-recreate">>
      [] o = "delete"      -> <<"remove", "rmdir", "forget">>

\* Defect: a running container is replaced without being stopped.
AfterInspectUnstopped(o, running) ==
    (IF o = "recreate" THEN <<"pull", "reuse">> ELSE <<>>)
    \o ReplaceScript \o <<"forget">>
    \o (IF running THEN StartScript ELSE <<>>)

(* recreate pulls the image and inspects once more for what to reuse;      *)
(* update_configuration and update_ports reuse what they inspected first.  *)
AfterInspect(o, running) ==
    (IF o = "recreate" THEN <<"pull">> ELSE <<>>)
    \o (IF running THEN StopScript ELSE <<>>)
    \o (IF o = "recreate" THEN <<"reuse">> ELSE <<>>)
    \o ReplaceScript
    \o (IF o = "recreate" THEN <<"reuse">> ELSE <<>>)
    \o <<"forget">>
    \o (IF running THEN StartScript ELSE <<>>)

From(steps, mark) ==
    LET k == CHOOSE k \in DOMAIN steps :
               steps[k] = mark /\ \A j \in 1 .. k - 1 : steps[j] # mark
    IN  SubSeq(steps, k, Len(steps))

Idle(c) == todo[c] = <<>>

TypeOK ==
    /\ live \in Runs /\ policy \in {"no", "auto"}
    /\ stale \in [Procs -> Runs]
    /\ dir \in {"present", "absent"} /\ usage \in {"fits", "over"}
    /\ status \in {"none", "disk", "crash"} /\ recovery \in {"on", "off"}
    /\ todo \in [Procs -> Seq(STRING)]
    /\ op \in [Procs -> Ops \cup {"none"}]
    /\ wish \in {"created", "run", "stop", "delete", "deleted"}
    /\ restarts \in 0 .. FailureLimit /\ exit \in {"zero", "crash"}
    /\ obs \in [known : {"yes", "no"}, was : {"stopped", "running"},
                failures : 0 .. FailureLimit, quarantined : {"yes", "no"}]
    /\ sup \in SupSteps /\ seen \in Saw
    /\ sup # "mark" => Idle(Supervisor)

(* The agent starts beside a server an earlier version may have created,   *)
(* with a restart policy, or before there is one.                          *)
Init ==
    /\ live \in Runs /\ policy \in {"no", "auto"}
    /\ dir = (IF live = "none" THEN "absent" ELSE "present")
    /\ usage = "fits"
    /\ status = "none" /\ recovery = "off"
    /\ stale = [p \in Procs |-> "none"]
    /\ todo = [p \in Procs |-> <<>>] /\ op = [p \in Procs |-> "none"]
    /\ wish = (IF live = "none" THEN "deleted" ELSE "run")
    /\ restarts = 0 /\ exit = "zero"
    /\ obs = NoObs /\ sup = "idle"
    /\ seen = [run |-> "stopped", exit |-> "zero", restarts |-> 0]

-----------------------------------------------------------------------------
(* A step of an operation.                                                 *)

At(p, step) == todo[p] # <<>> /\ Head(todo[p]) = step
Go(p, rest) == todo' = [todo EXCEPT ![p] = rest]
Advance(p) == Go(p, Tail(todo[p]))
Fail(p) == Go(p, <<>>) /\ UNCHANGED wish
MayFail(p, fault) == fault \in Faults /\ p \in Calls

(* The last step of an operation that succeeded.                           *)
Succeed(p) ==
    /\ Advance(p)
    /\ wish' = IF Len(todo[p]) > 1 \/ p = Supervisor THEN wish
               ELSE CASE op[p] \in {"stop", "kill"} -> "stop"
                      [] op[p] = "delete" -> "deleted"
                      [] op[p] = "create" -> "created"
                      [] OTHER -> wish

Begin(c, o) ==
    /\ Idle(c)
    /\ IF o = "create" THEN wish \in {"delete", "deleted"} ELSE wish # "deleted"
    /\ op' = [op EXCEPT ![c] = o]
    /\ Go(c, Script(o))
    /\ wish' = CASE o \in {"start", "restart"} ->
                      (IF wish = "delete" THEN wish ELSE "run")
                 [] o = "delete" -> "delete"
                 [] OTHER -> wish
    /\ UNCHANGED <<docker, disk, protection, supervisor>>

Rest == <<op, supervisor>>

(* create_with_progress: the port, storage and metadata, the installer,    *)
(* the server's configuration, the check of what was installed against the *)
(* disk limit, the image, and then the container itself.                   *)
ReservePort(p) ==
    /\ At(p, "reserve")
    /\ \/ Succeed(p)
       \/ MayFail(p, "port") /\ Fail(p)
    /\ UNCHANGED <<docker, disk, protection, Rest>>

Prepare(p) ==
    /\ At(p, "prepare")
    /\ dir' = "present" /\ usage' = IF dir = "absent" THEN "fits" ELSE usage
    /\ Succeed(p)
    /\ UNCHANGED <<docker, protection, Rest>>

(* run_installer: its image and script, if the server has an installer.    *)
Install(p) ==
    /\ At(p, "install")
    /\ \/ Succeed(p)
       \/ Go(p, From(todo[p], "configure")) /\ UNCHANGED wish
       \/ MayFail(p, "install") /\ Fail(p)
    /\ UNCHANGED <<docker, disk, protection, Rest>>

(* execute_installer: a container of its own, waited for and removed.      *)
Attempt(p) ==
    /\ At(p, "attempt")
    /\ \/ Succeed(p)
       \/ MayFail(p, "install") /\ Fail(p)
    /\ UNCHANGED <<docker, disk, protection, Rest>>

(* installer_postcondition: the startup target is there, or the installer  *)
(* is tried a second time, or it has been tried twice.                     *)
InstallerPostcondition(p) ==
    /\ At(p, "target")
    /\ \/ Go(p, From(todo[p], "configure")) /\ UNCHANGED wish
       \/ todo[p][2] = "attempt" /\ Succeed(p)
       \/ todo[p][2] # "attempt" /\ Fail(p)
    /\ UNCHANGED <<docker, disk, protection, Rest>>

(* The network and the generated configuration files.                      *)
Configure(p) ==
    /\ At(p, "configure")
    /\ \/ Succeed(p)
       \/ MayFail(p, "config") /\ Fail(p)
    /\ UNCHANGED <<docker, disk, protection, Rest>>

(* ensure_provisioned_payload_disk_limit                                   *)
EnsurePayload(p) ==
    /\ At(p, "payload")
    /\ IF usage = "over" THEN Fail(p) ELSE Succeed(p)
    /\ UNCHANGED <<docker, disk, protection, Rest>>

NewContainer(p) ==
    /\ At(p, "new")
    /\ IF live = "none"
         THEN /\ live' = "stopped" /\ policy' = "no"
              /\ restarts' = 0 /\ exit' = "zero"
              /\ Succeed(p)
         ELSE Fail(p) /\ UNCHANGED <<live, policy, restarts, exit>>
    /\ UNCHANGED <<stale, disk, protection, Rest>>

(* start: a container that is not running may have to be replaced first.   *)
InspectStart(p) ==
    /\ At(p, "inspect-start")
    /\ \/ Advance(p)
       \/ live = "stopped"
          /\ Go(p, <<"reuse">> \o ReplaceScript \o Tail(todo[p]))
    /\ UNCHANGED <<docker, disk, protection, wish, Rest>>

ApplyServerConfig(p) ==
    /\ At(p, "config")
    /\ \/ Succeed(p)
       \/ MayFail(p, "config") /\ Fail(p)
    /\ UNCHANGED <<docker, disk, protection, Rest>>

(* ensure_disk                                                             *)
EnsureDisk(p) ==
    /\ At(p, "disk")
    /\ IF usage = "over"
         THEN status' = "disk" /\ Fail(p)
         ELSE /\ status' = IF status = "disk" THEN "none" ELSE status
              /\ Succeed(p)
    /\ UNCHANGED <<docker, disk, recovery, Rest>>

ManualRecovery(p) ==
    /\ At(p, "recover")
    /\ status' = "none" /\ recovery' = "on"
    /\ Succeed(p)
    /\ UNCHANGED <<docker, disk, Rest>>

(* apply_manual_restart_policy                                             *)
ManualPolicy(p) ==
    /\ At(p, "policy")
    /\ IF live = "none" THEN Fail(p) /\ UNCHANGED policy
                        ELSE policy' = "no" /\ Succeed(p)
    /\ UNCHANGED <<live, stale, restarts, exit, disk, protection, Rest>>

(* start_container; a lost bind mount makes it fail once, is repaired, and *)
(* tried again.                                                            *)
Run(p) ==
    /\ At(p, "run")
    /\ \/ /\ live # "none"
          /\ live' = "running" /\ restarts' = 0 /\ exit' = "zero"
          /\ Succeed(p)
       \/ /\ MayFail(p, "start") /\ live = "stopped"
          /\ Go(p, <<"reuse">> \o ReplaceScript \o <<"run", "attach">>)
          /\ UNCHANGED <<live, restarts, exit, wish>>
       \/ /\ live = "none" \/ MayFail(p, "start")
          /\ Fail(p) /\ UNCHANGED <<live, restarts, exit>>
    /\ UNCHANGED <<policy, stale, disk, protection, Rest>>

(* The console is attached after the start; its failure fails the start.   *)
Attach(p) ==
    /\ At(p, "attach")
    /\ \/ Succeed(p)
       \/ /\ live # "running" \/ MayFail(p, "attach")
          /\ Fail(p)
    /\ UNCHANGED <<docker, disk, protection, Rest>>

(* stop and kill: return early if it does not run; without a configured    *)
(* stop command go straight to `docker stop`.                              *)
InspectStop(p) ==
    /\ At(p, "inspect-stop")
    /\ CASE live = "none"    -> Fail(p)
         [] live = "stopped" -> Go(p, From(todo[p], "stopped"))
                                /\ UNCHANGED wish
         [] OTHER -> /\ UNCHANGED wish
                     /\ \/ Advance(p)
                        \/ /\ todo[p][3] = "ask"
                           /\ Go(p, From(todo[p], "halt"))
    /\ UNCHANGED <<docker, disk, protection, Rest>>

(* The stop command or SIGINT is sent, whether or not that succeeds; the   *)
(* server may obey at any time.                                            *)
Ask(p) ==
    /\ At(p, "ask")
    /\ Advance(p)
    /\ UNCHANGED <<docker, disk, protection, wish, Rest>>

(* wait_until_stopped: it stopped, or ten seconds passed.                  *)
WaitUntilStopped(p) ==
    /\ At(p, "wait")
    /\ CASE live = "none" -> Fail(p)
         [] live = "stopped" -> Go(p, From(todo[p], "stopped"))
                                /\ UNCHANGED wish
         [] OTHER -> Advance(p) /\ UNCHANGED wish
    /\ UNCHANGED <<docker, disk, protection, Rest>>

(* force_graceful_stop                                                     *)
Halt(p) ==
    /\ At(p, "halt")
    /\ IF live = "none" THEN Fail(p) /\ UNCHANGED live
                        ELSE live' = "stopped" /\ Succeed(p)
    /\ UNCHANGED <<policy, stale, restarts, exit, disk, protection, Rest>>

(* SIGKILL; Docker restarts what dies under a restart policy.              *)
Sigkill(p) ==
    /\ At(p, "sigkill")
    /\ IF live = "none" THEN Fail(p) /\ UNCHANGED live
       ELSE /\ live' = IF live = "running" /\ policy = "auto"
                         THEN "running" ELSE "stopped"
            /\ Succeed(p)
    /\ UNCHANGED <<policy, stale, restarts, exit, disk, protection, Rest>>

(* clear_stopped_runtime_state                                             *)
Stopped(p) ==
    /\ At(p, "stopped")
    /\ Succeed(p)
    /\ UNCHANGED <<docker, disk, protection, Rest>>

-----------------------------------------------------------------------------
(* recreate, update_configuration, update_ports, and the repair of start.  *)

(* update_configuration returns when nothing changed, and both it and      *)
(* update_ports refuse what they cannot use.                               *)
InspectRecreate(p) ==
    /\ At(p, "inspect-recreate")
    /\ \/ live = "none" /\ Fail(p)
       \/ op[p] = "reconfigure" /\ Fail(p)
       \/ /\ live # "none"
          /\ Go(p, AfterInspect(op[p], live = "running")) /\ UNCHANGED wish
    /\ UNCHANGED <<docker, disk, protection, Rest>>

Pull(p) ==
    /\ At(p, "pull")
    /\ \/ Succeed(p)
       \/ MayFail(p, "pull") /\ Fail(p)
    /\ UNCHANGED <<docker, disk, protection, Rest>>

(* An inspection that only has to succeed.                                 *)
Reuse(p) ==
    /\ At(p, "reuse")
    /\ IF live = "none" THEN Fail(p) ELSE Succeed(p)
    /\ UNCHANGED <<docker, disk, protection, Rest>>

(* replace_stale_container: rename aside, create under the name, remove.   *)
Rename(p) ==
    /\ At(p, "rename")
    /\ IF live = "none" THEN Fail(p) /\ UNCHANGED <<live, stale>>
       ELSE /\ stale' = [stale EXCEPT ![p] = live] /\ live' = "none"
            /\ Succeed(p)
    /\ UNCHANGED <<policy, restarts, exit, disk, protection, Rest>>

\* Defect: the old container does not get its name back.
CreateUnrestored(p) ==
    /\ At(p, "create")
    /\ \/ /\ live = "none"
          /\ live' = "stopped" /\ policy' = "no" /\ restarts' = 0
          /\ exit' = "zero"
          /\ Succeed(p) /\ UNCHANGED stale
       \/ /\ live # "none" \/ MayFail(p, "create")
          /\ Fail(p)
          /\ UNCHANGED <<live, policy, stale, restarts, exit>>
    /\ UNCHANGED <<disk, protection, Rest>>

(* If the new container cannot be created the old one gets its name back,  *)
(* unless another call has taken the name.                                 *)
Create(p) ==
    /\ At(p, "create")
    /\ \/ /\ live = "none"
          /\ live' = "stopped" /\ policy' = "no" /\ restarts' = 0
          /\ exit' = "zero"
          /\ Succeed(p) /\ UNCHANGED stale
       \/ /\ live # "none" \/ MayFail(p, "create")
          /\ Fail(p)
          /\ IF live = "none"
               THEN /\ live' = stale[p]
                    /\ stale' = [stale EXCEPT ![p] = "none"]
               ELSE UNCHANGED <<live, stale>>
          /\ UNCHANGED <<policy, restarts, exit>>
    /\ UNCHANGED <<disk, protection, Rest>>

(* A stale container that cannot be removed stays, with a warning.         *)
DropStale(p) ==
    /\ At(p, "drop")
    /\ \/ stale' = [stale EXCEPT ![p] = "none"]
       \/ MayFail(p, "drop") /\ UNCHANGED stale
    /\ Succeed(p)
    /\ UNCHANGED <<live, policy, restarts, exit, disk, protection, Rest>>

-----------------------------------------------------------------------------
(* delete: the container (404 is fine), the files and their metadata, then *)
(* what the agent knows about the server.                                  *)

Remove(p) ==
    /\ At(p, "remove")
    /\ \/ live' = "none" /\ Succeed(p)
       \/ MayFail(p, "remove") /\ Fail(p) /\ UNCHANGED live
    /\ UNCHANGED <<policy, stale, restarts, exit, disk, protection, Rest>>

RemoveFiles(p) ==
    /\ At(p, "rmdir")
    /\ \/ dir' = "absent" /\ usage' = "fits" /\ Succeed(p)
       \/ MayFail(p, "rmdir") /\ Fail(p) /\ UNCHANGED disk
    /\ UNCHANGED <<docker, protection, Rest>>

(* forget_runtime_state, and the end of delete.                            *)
Forget(p) ==
    /\ At(p, "forget")
    /\ status' = "none" /\ recovery' = "off"
    /\ Succeed(p)
    /\ UNCHANGED <<docker, disk, Rest>>

Step(p) ==
    \/ ReservePort(p) \/ Prepare(p) \/ Install(p) \/ Attempt(p)
    \/ InstallerPostcondition(p)
    \/ Configure(p) \/ EnsurePayload(p) \/ NewContainer(p) \/ InspectStart(p)
    \/ ApplyServerConfig(p) \/ EnsureDisk(p) \/ ManualRecovery(p)
    \/ ManualPolicy(p) \/ Run(p) \/ Attach(p) \/ InspectStop(p) \/ Ask(p)
    \/ WaitUntilStopped(p) \/ Halt(p) \/ Sigkill(p) \/ Stopped(p)
    \/ InspectRecreate(p) \/ Pull(p) \/ Reuse(p) \/ Rename(p) \/ Create(p)
    \/ DropStale(p) \/ Remove(p) \/ RemoveFiles(p) \/ Forget(p)

-----------------------------------------------------------------------------
(* The container and its files, on their own.                              *)

(* The server exits: by itself, as asked, or in a crash.                   *)
ContainerExits ==
    /\ live = "running"
    /\ \E code \in {"zero", "crash"} :
         IF policy = "auto"
           THEN /\ restarts' = IF restarts < FailureLimit THEN restarts + 1
                               ELSE restarts
                /\ UNCHANGED <<live, exit>>
           ELSE live' = "stopped" /\ exit' = code /\ UNCHANGED restarts
    /\ UNCHANGED <<policy, stale, disk, protection, todo, op, wish,
                   supervisor>>

(* Files grow and are deleted.                                             *)
UsageChanges ==
    /\ dir = "present"
    /\ usage' = IF usage = "fits" THEN "over" ELSE "fits"
    /\ UNCHANGED <<docker, dir, protection, todo, op, wish, supervisor>>

(* The two minutes of a manual recovery are over.                          *)
RecoveryExpires ==
    /\ recovery = "on"
    /\ recovery' = "off"
    /\ UNCHANGED <<docker, disk, status, todo, op, wish, supervisor>>

-----------------------------------------------------------------------------
(* scan_once and observe.                                                  *)

others == <<docker, disk, todo, op, wish>>

(* docker ps                                                               *)
ScanBegins ==
    /\ sup = "idle"
    /\ sup' = IF live # "none" THEN "inspect"
              ELSE IF obs.known = "yes" THEN "stale" ELSE "idle"
    /\ UNCHANGED <<others, protection, obs, seen>>

\* Defect: only the observation of a server that is gone is dropped.
ScanForgetsHalf ==
    /\ sup = "stale"
    /\ obs' = NoObs /\ sup' = "idle"
    /\ UNCHANGED <<others, protection, seen>>

(* A server that is gone is forgotten.                                     *)
ScanForgets ==
    /\ sup = "stale"
    /\ obs' = NoObs /\ sup' = "idle"
    /\ status' = "none" /\ recovery' = "off"
    /\ UNCHANGED <<others, seen>>

(* The container may be gone by the time it is inspected: the scan is over.*)
ScanInspects ==
    /\ sup = "inspect"
    /\ IF live = "none"
         THEN sup' = "idle" /\ UNCHANGED <<seen, restarts>>
         ELSE /\ sup' = "observe"
              /\ seen' = [run |-> live, exit |-> exit, restarts |-> restarts]
              /\ restarts' = 0
    /\ UNCHANGED <<live, policy, stale, exit, disk, protection, todo, op, wish,
                   obs>>

(* The failures observe may count, up to the limit.                        *)
Failures ==
    LET crashed == /\ obs.was = "running" /\ seen.run = "stopped"
                   /\ seen.exit = "crash"
        new == IF obs.known = "no" THEN 0
               ELSE seen.restarts + (IF crashed THEN 1 ELSE 0)
        capped(n) == IF n > FailureLimit THEN FailureLimit ELSE n
    IN  {capped(kept + new) : kept \in 0 .. obs.failures}
        \cup (IF seen.run = "running" THEN {0} ELSE {})

(* observe up to its first await.  Failures expire after five minutes: any *)
(* number of the earlier ones may be gone.  Two minutes of being seen      *)
(* running clear them all, the ones just counted included.                 *)
Observe ==
    /\ sup = "observe"
    /\ IF recovery = "on"
         THEN /\ obs' = [known |-> "yes", was |-> seen.run, failures |-> 0,
                         quarantined |-> "no"]
              /\ sup' = "disk"
         ELSE \E total \in Failures :
              LET trip == obs.quarantined = "no" /\ total = FailureLimit
              IN  /\ obs' = [known |-> "yes", was |-> seen.run,
                             failures |-> total,
                             quarantined |-> IF trip THEN "yes"
                                             ELSE obs.quarantined]
                  /\ sup' = IF trip THEN "quarantine" ELSE "disk"
    /\ UNCHANGED <<others, protection, seen>>

(* Crash-loop protection: the policy, DockerManager::stop (its errors are  *)
(* ignored), then the mark.                                                *)
Quarantine ==
    /\ sup = "quarantine"
    /\ policy' = IF live = "none" THEN policy ELSE "no"
    /\ Go(Supervisor, StopScript)
    /\ sup' = "mark"
    /\ UNCHANGED <<live, stale, restarts, exit, disk, protection, op, wish, obs,
                   seen>>

Mark ==
    /\ sup = "mark" /\ Idle(Supervisor)
    /\ status' = "crash"
    /\ sup' = "disk"
    /\ UNCHANGED <<others, recovery, obs, seen>>

DiskNotDue ==
    /\ sup = "disk"
    /\ sup' = "idle"
    /\ UNCHANGED <<others, protection, obs, seen>>

\* Defect: the mark of a full disk is never taken back.
CheckDiskKeepsMark ==
    /\ sup = "disk"
    /\ sup' = IF usage = "over" THEN "over" ELSE "idle"
    /\ UNCHANGED <<others, protection, obs, seen>>

(* disk_force, and what follows from its result.                           *)
CheckDisk ==
    /\ sup = "disk"
    /\ sup' = IF usage = "over" THEN "over" ELSE "idle"
    /\ status' = IF usage = "fits" /\ status = "disk" THEN "none" ELSE status
    /\ UNCHANGED <<others, recovery, obs, seen>>

OverPolicy ==
    /\ sup = "over"
    /\ policy' = IF live = "none" THEN policy ELSE "no"
    /\ sup' = "halt"
    /\ UNCHANGED <<live, stale, restarts, exit, disk, protection, todo, op,
                   wish, obs, seen>>

OverStop ==
    /\ sup = "halt"
    /\ live' = IF live = "running" THEN "stopped" ELSE live
    /\ sup' = "markdisk"
    /\ UNCHANGED <<policy, stale, restarts, exit, disk, protection, todo, op,
                   wish, obs, seen>>

MarkDisk ==
    /\ sup = "markdisk"
    /\ status' = "disk"
    /\ sup' = "idle"
    /\ UNCHANGED <<others, recovery, obs, seen>>

Scan ==
    \/ ScanBegins \/ ScanForgets \/ ScanInspects \/ Observe \/ Quarantine
    \/ Mark \/ DiskNotDue \/ CheckDisk \/ OverPolicy \/ OverStop \/ MarkDisk

Next ==
    \/ \E c \in Calls, o \in Ops : Begin(c, o)
    \/ \E p \in Procs : Step(p)
    \/ ContainerExits \/ UsageChanges \/ RecoveryExpires
    \/ Scan

Spec == Init /\ [][Next]_vars

(* The supervisor loops for ever and its disk timer comes round; calls     *)
(* that began go on.  Nothing makes the panel call or a server exit.       *)
Fairness ==
    /\ WF_vars(Scan) /\ SF_vars(CheckDisk)
    /\ \A p \in Procs : WF_vars(Step(p))

FairSpec == Spec /\ Fairness

-----------------------------------------------------------------------------
(* Properties.                                                             *)

AllIdle == \A c \in Calls : Idle(c)

(* A server that was created is not lost to a replacement of its container *)
(* that fails half-way: between calls the panel makes one at a time there  *)
(* is a container with its name.                                           *)
ServerKept ==
    AllIdle /\ wish \in {"created", "run", "stop"} => live # "none"

(* Two containers never run on one server's files, not even when the one   *)
(* that was replaced could not be removed.                                 *)
NoTwins ==
    live = "running" => \A p \in Procs : stale[p] # "running"

(* Once a stop or a kill has succeeded, or before a first start, the       *)
(* server is down until the panel asks for a start: whatever its restart   *)
(* policy was, and across replacements of the container.                   *)
StopHolds == AllIdle /\ wish \in {"created", "stop"} => live # "running"

(* The mark of a full disk is taken back once the files fit, even if the   *)
(* supervisor set it from a measurement that was out of date.              *)
DiskMarkClears ==
    (status = "disk" /\ usage = "fits") ~> (status # "disk" \/ usage = "over")

(* A mark the supervisor sets on a server while it is being deleted does   *)
(* not outlive the server.                                                 *)
NoGhostStatus ==
    (status # "none" /\ live = "none") ~> (status = "none" \/ live # "none")
=============================================================================
