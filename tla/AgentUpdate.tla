---------------------------- MODULE AgentUpdate ----------------------------
(***************************************************************************)
(* The staged binary update of the agent (src/src/runtime/update.rs), as a *)
(* protocol over the files next to the executable:                         *)
(*                                                                         *)
(*   exe                      the installed executable                     *)
(*   updates/*.pending        downloaded artifacts               (file)    *)
(*   updates/pending-artifact the marker naming the next one     (marker)  *)
(*   updates/previous-agent   the executable to fall back to     (previous)*)
(*   updates/activation-state.json   an unconfirmed activation   (state)   *)
(*                                                                         *)
(* The running agent stages artifacts and, 30 seconds after a start,       *)
(* confirms an activation.  `--activate-pending-update`, run by systemd as *)
(* ExecStartPre of the stopped service, activates or rolls back.  systemd  *)
(* never lets two of these processes run at once; `phase` is the one that  *)
(* runs and where it stands.  A binary is abstracted to the artifact it    *)
(* came from.                                                              *)
(***************************************************************************)
EXTENDS Naturals

CONSTANTS
    Artifacts,      \* one per call of stage(): the bytes and the uuid path
    Original,       \* the executable installed by the operator
    None,           \* no such file
    Torn,           \* a file whose writing was cut short
    Mismatched,     \* artifacts stage() has to reject: checksum, size, empty
    Broken,         \* verified artifacts that cannot run on this host
    Faults,         \* the protocols that may be cut short half-way
    StageInWindow   \* whether the panel stages during a health window

ASSUME ConstantsAssumption ==
    /\ Mismatched \subseteq Artifacts
    /\ Broken \subseteq Artifacts
    /\ Original \notin Artifacts
    /\ None \notin Artifacts /\ Torn \notin Artifacts
    /\ None # Original /\ Torn # Original /\ None # Torn
    /\ Faults \subseteq {"activate", "rollback", "commit", "io"}
    /\ StageInWindow \in BOOLEAN

Binaries == Artifacts \cup {Original}

VARIABLES
    exe,        \* content of the executable's path
    previous,   \* content of updates/previous-agent
    prevTmp,    \* content of updates/previous-agent.tmp
    aside,      \* content of the last updates/failed-agent-<time>
    state,      \* activation-state.json: "none", "torn" or "valid"
    marker,     \* the artifact updates/pending-artifact names
    file,       \* per artifact, its .pending file
    stg,        \* per artifact, where its stage() call stands
    phase,      \* the process that runs, and its next step
    caller,     \* who runs the activation binary: "unit" or "manual"
    commit,     \* the health-commit task of the running agent
    restart,    \* a scheduled `systemctl restart`
    good,       \* history: the last binary to survive its health window
    lastExit    \* history: "early" if it fell inside a health window

diskVars == <<exe, previous, prevTmp, aside, state, marker>>
histVars == <<good, lastExit>>
vars == <<exe, previous, prevTmp, aside, state, marker, file, stg, phase,
          caller, commit, restart, good, lastExit>>

ActivatePhases == {"prestart", "copy", "copying", "preserve", "note",
                   "noting", "swap", "unmark"}
RollbackPhases == {"rollback", "setaside", "restore", "forget"}
Phases == {"stopped", "boot", "running"} \cup ActivatePhases \cup RollbackPhases
StageSteps == {"new", "checked", "streaming", "verified", "staged", "failed"}

TypeOK ==
    /\ exe \in Binaries \cup {None}
    /\ previous \in Binaries \cup {None}
    /\ prevTmp \in Binaries \cup {None, Torn}
    /\ aside \in Binaries \cup {None}
    /\ state \in {"none", "torn", "valid"}
    /\ marker \in Artifacts \cup {None}
    /\ file \in [Artifacts -> {"absent", "partial", "verified"}]
    /\ stg \in [Artifacts -> StageSteps]
    /\ phase \in Phases
    /\ caller \in {"unit", "manual"}
    /\ commit \in {"off", "waiting", "dropped"}
    /\ restart \in {"none", "scheduled"}
    /\ good \in Binaries
    /\ lastExit \in {"early", "other"}

Init ==
    /\ exe = Original /\ previous = None /\ prevTmp = None /\ aside = None
    /\ state = "none" /\ marker = None
    /\ file = [a \in Artifacts |-> "absent"]
    /\ stg = [a \in Artifacts |-> "new"]
    /\ phase = "stopped" /\ caller = "unit"
    /\ commit = "off" /\ restart = "none"
    /\ good = Original /\ lastExit = "other"

(* A binary that starts at all; every one of them contains this protocol.  *)
Runnable(b) == b # None /\ b \notin Broken

-----------------------------------------------------------------------------
(* UpdateManager::stage, one call per artifact, several calls at a time.   *)

StepVars == <<exe, previous, prevTmp, aside, state, phase, caller, commit,
              restart, good, lastExit>>

(* The "already staged" test; a marker that names a lost file is an error. *)
StageCheck(a) ==
    /\ phase = "running" /\ stg[a] = "new"
    /\ StageInWindow \/ state = "none"
    /\ stg' = [stg EXCEPT ![a] = IF marker = None THEN "checked" ELSE "failed"]
    /\ UNCHANGED <<StepVars, marker, file>>

(* A marker found now was put there since the test; it is removed as if it *)
(* were an empty one.                                                      *)
StageCreate(a) ==
    /\ phase = "running" /\ stg[a] = "checked"
    /\ marker' = None
    /\ file' = [file EXCEPT ![a] = "partial"]
    /\ stg' = [stg EXCEPT ![a] = "streaming"]
    /\ UNCHANGED StepVars

StageReject(a) ==
    /\ phase = "running" /\ stg[a] = "streaming" /\ a \in Mismatched
    /\ file' = [file EXCEPT ![a] = "absent"]
    /\ stg' = [stg EXCEPT ![a] = "failed"]
    /\ UNCHANGED <<StepVars, marker>>

(* The connection or a write fails: `?` leaves the partial file behind.    *)
StageAbort(a) ==
    /\ phase = "running" /\ stg[a] = "streaming"
    /\ stg' = [stg EXCEPT ![a] = "failed"]
    /\ UNCHANGED <<StepVars, marker, file>>

\* Defect: the digest of the artifact is never compared.
StageVerifyUnchecked(a) ==
    /\ phase = "running" /\ stg[a] = "streaming"
    /\ file' = [file EXCEPT ![a] = "verified"]
    /\ stg' = [stg EXCEPT ![a] = "verified"]
    /\ UNCHANGED <<StepVars, marker>>

StageVerify(a) ==
    /\ phase = "running" /\ stg[a] = "streaming" /\ a \notin Mismatched
    /\ file' = [file EXCEPT ![a] = "verified"]
    /\ stg' = [stg EXCEPT ![a] = "verified"]
    /\ UNCHANGED <<StepVars, marker>>

(* The synced temporary marker is renamed over pending-artifact.           *)
StageCommit(a) ==
    /\ phase = "running" /\ stg[a] = "verified"
    /\ marker' = a
    /\ stg' = [stg EXCEPT ![a] = "staged"]
    /\ UNCHANGED <<StepVars, file>>

StageCommitFails(a) ==
    /\ "io" \in Faults
    /\ phase = "running" /\ stg[a] = "verified"
    /\ file' = [file EXCEPT ![a] = "absent"]
    /\ stg' = [stg EXCEPT ![a] = "failed"]
    /\ UNCHANGED <<StepVars, marker>>

Stage(a) ==
    \/ StageCheck(a) \/ StageCreate(a) \/ StageReject(a) \/ StageAbort(a)
    \/ StageVerify(a) \/ StageCommit(a) \/ StageCommitFails(a)

-----------------------------------------------------------------------------
(* The service as systemd drives it.                                       *)

(* UpdateManager::restart_pending: accepted only while an artifact that    *)
(* exists is marked.                                                       *)
RestartPending ==
    /\ phase = "running" /\ marker # None /\ file[marker] # "absent"
    /\ restart = "none"
    /\ restart' = "scheduled"
    /\ UNCHANGED <<diskVars, file, stg, phase, caller, commit, histVars>>

(* The end of the agent's process, and of every task in it.                *)
Stop ==
    /\ phase' = "stopped" /\ commit' = "off" /\ restart' = "none"
    /\ lastExit' = IF state # "none" /\ commit # "dropped"
                      THEN "early" ELSE "other"
    /\ stg' = [a \in Artifacts |->
                 IF stg[a] \in {"checked", "streaming", "verified"}
                   THEN "failed" ELSE stg[a]]
    /\ UNCHANGED <<diskVars, file, caller, good>>

Exit ==
    /\ phase = "running"
    /\ commit # "dropped" \/ "commit" \in Faults
    /\ Stop

(* systemctl cannot be run: the request is only logged as failed.          *)
RestartFails ==
    /\ "io" \in Faults
    /\ restart = "scheduled" /\ phase = "running"
    /\ restart' = "none"
    /\ UNCHANGED <<diskVars, file, stg, phase, caller, commit, histVars>>

\* Defect: the scheduled restart is forgotten.
ServiceRestartForgotten ==
    /\ restart = "scheduled" /\ phase = "running"
    /\ restart' = "none"
    /\ UNCHANGED <<diskVars, file, stg, phase, caller, commit, histVars>>

(* schedule_service_restart: five seconds later systemd stops the unit.    *)
ServiceRestart ==
    /\ restart = "scheduled" /\ phase = "running"
    /\ commit # "dropped" \/ "commit" \in Faults
    /\ Stop

(* ExecStartPre: it is the installed executable itself that is run.        *)
StartUnit ==
    /\ phase = "stopped" /\ Runnable(exe)
    /\ phase' = "prestart" /\ caller' = "unit"
    /\ UNCHANGED <<diskVars, file, stg, commit, restart, histVars>>

(* `--rollback-update`, run by the operator on the stopped service.        *)
ManualRollback ==
    /\ phase = "stopped" /\ Runnable(exe)
    /\ phase' = "rollback" /\ caller' = "manual"
    /\ UNCHANGED <<diskVars, file, stg, commit, restart, histVars>>

Rest == <<file, stg, caller, commit, restart>>

(* The activation binary exits with success / with an error.               *)
Return ==
    /\ phase' = IF caller = "unit" THEN "boot" ELSE "stopped"
    /\ lastExit' = "other"
    /\ UNCHANGED good

Fail ==
    /\ phase' = "stopped"
    /\ UNCHANGED histVars

\* Defect: the health window is not opened after an activation.
BootUnwatched ==
    /\ phase = "boot"
    /\ IF Runnable(exe)
         THEN /\ phase' = "running" /\ UNCHANGED lastExit
         ELSE /\ phase' = "stopped"
              /\ lastExit' = IF state = "none" THEN "other" ELSE "early"
    /\ commit' = "off"
    /\ UNCHANGED <<diskVars, file, stg, caller, restart, good>>

(* ExecStart; main schedules the health commit if an activation is open.   *)
Boot ==
    /\ phase = "boot"
    /\ IF Runnable(exe)
         THEN /\ phase' = "running" /\ UNCHANGED lastExit
              /\ commit' = IF state = "none" THEN "off" ELSE "waiting"
         ELSE /\ phase' = "stopped"
              /\ lastExit' = IF state = "none" THEN "other" ELSE "early"
              /\ UNCHANGED commit
    /\ UNCHANGED <<diskVars, file, stg, caller, restart, good>>

-----------------------------------------------------------------------------
(* activate_at, one file-system step at a time.                            *)

Goto(p) == phase' = p /\ UNCHANGED histVars

ActivateNothing ==
    /\ phase = "prestart" /\ marker = None /\ state = "none"
    /\ Return
    /\ UNCHANGED <<diskVars, Rest>>

\* Defect: an open activation is kept when nothing is pending.
ActivateKeepsFailed ==
    /\ phase = "prestart" /\ marker = None /\ state # "none"
    /\ Return
    /\ UNCHANGED <<diskVars, Rest>>

ActivateRollback ==
    /\ phase = "prestart" /\ marker = None /\ state # "none"
    /\ Goto("rollback")
    /\ UNCHANGED <<diskVars, Rest>>

ActivateRefused ==
    /\ phase = "prestart" /\ marker # None /\ file[marker] = "absent"
    /\ Fail
    /\ UNCHANGED <<diskVars, Rest>>

ActivatePending ==
    /\ phase = "prestart" /\ marker # None /\ file[marker] # "absent"
    /\ Goto("copy")
    /\ UNCHANGED <<diskVars, Rest>>

CopyBegin ==
    /\ phase = "copy"
    /\ prevTmp' = Torn
    /\ Goto("copying")
    /\ UNCHANGED <<exe, previous, aside, state, marker, Rest>>

CopyEnd ==
    /\ phase = "copying"
    /\ prevTmp' = exe
    /\ Goto("preserve")
    /\ UNCHANGED <<exe, previous, aside, state, marker, Rest>>

\* Defect: the copy of the executable is never committed.
PreserveSkipped ==
    /\ phase = "preserve"
    /\ Goto("note")
    /\ UNCHANGED <<diskVars, Rest>>

PreservePrevious ==
    /\ phase = "preserve"
    /\ previous' = prevTmp /\ prevTmp' = None
    /\ Goto("note")
    /\ UNCHANGED <<exe, aside, state, marker, Rest>>

\* Defect: the activation is not recorded.
NoteSkipped ==
    /\ phase = "note"
    /\ Goto("swap")
    /\ UNCHANGED <<diskVars, Rest>>

(* fs::write truncates activation-state.json before it fills it.           *)
NoteBegin ==
    /\ phase = "note"
    /\ state' = "torn"
    /\ Goto("noting")
    /\ UNCHANGED <<exe, previous, prevTmp, aside, marker, Rest>>

NoteEnd ==
    /\ phase = "noting"
    /\ state' = "valid"
    /\ Goto("swap")
    /\ UNCHANGED <<exe, previous, prevTmp, aside, marker, Rest>>

ReplaceBinary ==
    /\ phase = "swap"
    /\ exe' = marker
    /\ file' = [file EXCEPT ![marker] = "absent"]
    /\ Goto("unmark")
    /\ UNCHANGED <<previous, prevTmp, aside, state, marker, stg, caller,
                   commit, restart>>

RemoveMarker ==
    /\ phase = "unmark"
    /\ marker' = None
    /\ Return
    /\ UNCHANGED <<exe, previous, prevTmp, aside, state, Rest>>

Activate ==
    \/ ActivateNothing \/ ActivateRollback \/ ActivateRefused
    \/ ActivatePending \/ CopyBegin \/ CopyEnd \/ PreservePrevious
    \/ NoteBegin \/ NoteEnd \/ ReplaceBinary \/ RemoveMarker

-----------------------------------------------------------------------------
(* rollback_at.                                                            *)

RollbackNothing ==
    /\ phase = "rollback" /\ state = "none"
    /\ Return
    /\ UNCHANGED <<diskVars, Rest>>

RollbackRefused ==
    /\ phase = "rollback" /\ state # "none"
    /\ state = "torn" \/ previous = None
    /\ Fail
    /\ UNCHANGED <<diskVars, Rest>>

RollbackCheck ==
    /\ phase = "rollback" /\ state = "valid" /\ previous # None
    /\ Goto("setaside")
    /\ UNCHANGED <<diskVars, Rest>>

SetAside ==
    /\ phase = "setaside"
    /\ aside' = exe /\ exe' = None
    /\ Goto("restore")
    /\ UNCHANGED <<previous, prevTmp, state, marker, Rest>>

RestorePrevious ==
    /\ phase = "restore"
    /\ exe' = previous /\ previous' = None
    /\ Goto("forget")
    /\ UNCHANGED <<prevTmp, aside, state, marker, Rest>>

(* The second rename fails: the failed executable is put back.             *)
RestoreFails ==
    /\ "io" \in Faults
    /\ phase = "restore"
    /\ exe' = aside /\ aside' = None
    /\ Fail
    /\ UNCHANGED <<previous, prevTmp, state, marker, Rest>>

\* Defect: the record of the activation outlives its rollback.
ForgetSkipped ==
    /\ phase = "forget"
    /\ Return
    /\ UNCHANGED <<diskVars, Rest>>

ForgetState ==
    /\ phase = "forget"
    /\ state' = "none"
    /\ Return
    /\ UNCHANGED <<exe, previous, prevTmp, aside, marker, Rest>>

Rollback ==
    \/ RollbackNothing \/ RollbackRefused \/ RollbackCheck \/ SetAside
    \/ RestorePrevious \/ RestoreFails \/ ForgetState

(* A kill, or an I/O error every step returns with `?`, ends the activation*)
(* binary between two of its steps.                                        *)
Kill ==
    /\ \/ "activate" \in Faults /\ phase \in ActivatePhases
       \/ "rollback" \in Faults /\ phase \in RollbackPhases
    /\ Fail
    /\ UNCHANGED <<diskVars, Rest>>

-----------------------------------------------------------------------------
(* commit_healthy_at, 30 seconds into a run that began with an activation. *)

CommitDropPrevious ==
    /\ phase = "running" /\ commit = "waiting"
    /\ previous' = None
    /\ commit' = "dropped"
    /\ good' = exe
    /\ UNCHANGED <<exe, prevTmp, aside, state, marker, file, stg, phase,
                   caller, restart, lastExit>>

CommitForgetState ==
    /\ phase = "running" /\ commit = "dropped"
    /\ state' = "none"
    /\ commit' = "off"
    /\ UNCHANGED <<exe, previous, prevTmp, aside, marker, file, stg, phase,
                   caller, restart, good, lastExit>>

Next ==
    \/ \E a \in Artifacts : Stage(a)
    \/ RestartPending \/ RestartFails \/ Exit \/ ServiceRestart
    \/ StartUnit \/ ManualRollback \/ Boot
    \/ Activate \/ Rollback \/ Kill
    \/ CommitDropPrevious \/ CommitForgetState

Spec == Init /\ [][Next]_vars

(***************************************************************************)
(* systemd starts the unit again (Restart=on-failure, or the operator); a  *)
(* process that runs takes its next step; timers fire.  Nothing forces a   *)
(* download, a request of the panel or an exit.                            *)
(***************************************************************************)
Fairness ==
    /\ SF_vars(StartUnit) /\ WF_vars(Boot) /\ WF_vars(Activate)
    /\ WF_vars(Rollback) /\ WF_vars(ServiceRestart)
    /\ WF_vars(CommitDropPrevious) /\ WF_vars(CommitForgetState)

FairSpec == Spec /\ Fairness

-----------------------------------------------------------------------------
(* Properties.                                                             *)

(* Whatever is installed, kept for a rollback or put back by one is the    *)
(* operator's executable or an artifact whose digest stage() verified, at  *)
(* every point where a process can be cut short.                           *)
OnlyVerifiedRuns ==
    /\ exe \in {None, Original} \cup (Artifacts \ Mismatched)
    /\ previous \in {None, Original} \cup (Artifacts \ Mismatched)
    /\ aside \in {None, Original} \cup (Artifacts \ Mismatched)

(* The last executable that survived its health window is never lost: it   *)
(* is installed or it is previous-agent, across kills in the middle of an  *)
(* activation, a rollback or a health commit.                              *)
GoodBinaryKept == good \in {exe, previous}

(* What a running agent can conclude from activation-state.json: with no   *)
(* record it runs the confirmed executable; with one, the confirmed        *)
(* executable is the rollback target until the health commit drops it.     *)
StateTellsTrial ==
    phase = "running" =>
        /\ state = "none" => exe = good
        /\ commit = "waiting" => state = "valid" /\ previous = good
        /\ commit = "dropped" => exe = good

(* README.md:125: after an exit inside the health window, the ExecStartPre *)
(* that next succeeds has restored the previous executable.                *)
EarlyExitRestores ==
    [][(lastExit = "early" /\ phase # "boot" /\ phase' = "boot")
           => exe' = good]_vars

(* Every activation is settled: confirmed by the health commit or undone   *)
(* by a rollback; the service is not left on an unconfirmed executable.    *)
UpdateSettles == (state # "none") ~> (state = "none")

(* A stopped service comes back: no sequence of stages, restarts, exits    *)
(* and rollbacks leaves files on which ExecStartPre fails for ever.        *)
ServiceReturns == (phase = "stopped") ~> (phase = "running")

(* An accepted RestartForUpdate installs the marked artifact (unless a     *)
(* concurrent stage() takes the mark away first).                          *)
RestartApplies ==
    \A a \in Artifacts : (restart = "scheduled" /\ marker = a) ~> (exe = a \/ marker # a)

(* The executable on trial: installed, or set aside by a rollback that can *)
(* still put it back.                                                      *)
Candidate ==
    LET b == IF phase = "restore" THEN aside ELSE exe
    IN  IF b \in {None, good} THEN None ELSE b

Trial == INSTANCE UpdateTrial WITH confirmed <- good, candidate <- Candidate

(* Across kills at every step, the files implement the trial protocol: no  *)
(* trial begins before the last one was confirmed or undone, and only the  *)
(* executable on trial is ever confirmed.                                  *)
ImplementsTrial == Trial!Spec
=============================================================================
