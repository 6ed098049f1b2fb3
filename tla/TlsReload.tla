----------------------------- MODULE TlsReload -----------------------------
(***************************************************************************)
(* Rotation of the agent's mTLS bundle: InstallCertificate and             *)
(* RollbackCertificate (src/src/security/certificate.rs) rewrite three     *)
(* files and signal a watch channel half a second later; the listener loop *)
(* of src/src/main.rs shuts the gRPC server down on a signal, loads the    *)
(* files and serves again, or ends the process.                            *)
(*                                                                         *)
(* A file is abstracted to the bundle its content belongs to.  Bundles are *)
(* issued by one CA, so only the certificate and the key have to match.    *)
(***************************************************************************)
EXTENDS Naturals, FiniteSets

CONSTANTS
    Installs,       \* InstallCertificate calls; each brings a bundle
    Rollbacks,      \* RollbackCertificate calls
    First,          \* the bundle the node was set up with
    Absent, Torn,   \* no such file; a file that is being written
    Faults,         \* "io", "expired", "signal": what may go wrong
    MaxKills,       \* bound: how often the process is killed
    Patience        \* "none"; "serial": one call at a time; "reloaded": and
                    \* only once the reload of the one before is done

ASSUME TlsAssumption ==
    /\ Installs \cap Rollbacks = {}
    /\ First \notin Installs
    /\ Absent \notin Installs \cup {First} /\ Torn \notin Installs \cup {First}
    /\ Absent # Torn
    /\ Faults \subseteq {"io", "expired", "signal"} /\ MaxKills \in Nat
    /\ Patience \in {"none", "serial", "reloaded"}

Calls == Installs \cup Rollbacks
Bundles == Installs \cup {First}

(* The files in the order install, rollback and tls() go through them.     *)
Files == 1 .. 3
cert == 1
key == 2
ca == 3

VARIABLES
    cur,        \* per file, the bundle in its path
    prev,       \* per file, the bundle in <path>.previous
    tmp,        \* per file, the bundle in <path>.new
    at,         \* per call, its next step and the file it is at
    held,       \* per rollback, what it read: <path> and <path>.previous
    task,       \* per call, its schedule_reload task
    took,       \* per task, the value it borrowed
    val, ver,   \* the watch channel: its value and how often it was sent
    seen,       \* the version the listener's receiver has seen
    phase,      \* the listener: its next step in main's loop
    current,    \* main's `current`
    loaded,     \* per file, what tls() read
    signalled,  \* whether Ctrl-C was pressed: "yes" or "no"
    kills,      \* how often the process was killed
    pair        \* history: the bundle and the one before, as reported

files == <<cur, prev, tmp>>
calls == <<at, held>>
watch == <<task, took, val, ver>>
listener == <<seen, phase, current, loaded, signalled, kills>>
vars == <<cur, prev, tmp, at, held, task, took, val, ver, seen, phase, current,
          loaded, signalled, kills, pair>>

InstallSteps == {"copy", "copied", "write", "written", "rename"}
RollbackSteps == {"check", "read", "open", "fill", "openprev", "fillprev",
                  "validate"}
Steps == {"new", "schedule", "ok", "refused", "failed", "lost"}
         \cup InstallSteps \cup RollbackSteps
Phases == {"load", "bind", "serving", "drain", "compare", "down", "exited"}
Contents == Bundles \cup {Absent, Torn}

InFlight == {r \in Calls : at[r].step \notin {"new", "ok", "refused", "failed",
                                            "lost"}}

TypeOK ==
    /\ cur \in [Files -> Contents] /\ prev \in [Files -> Contents]
    /\ tmp \in [Files -> Contents]
    /\ at \in [Calls -> [step : Steps, file : Files]]
    /\ held \in [Rollbacks -> [path : Contents, previous : Contents]]
    /\ task \in [Calls -> {"none", "sleeping", "borrowed"}]
    /\ took \in [Calls -> 0 .. Cardinality(Calls)]
    /\ val \in 0 .. Cardinality(Calls) /\ ver \in val .. Cardinality(Calls)
    /\ seen \in 0 .. ver
    /\ phase \in Phases /\ current \in 0 .. Cardinality(Calls)
    /\ loaded \in [Files -> Contents]
    /\ signalled \in {"yes", "no"} /\ kills \in 0 .. MaxKills
    /\ pair \in Bundles \X (Bundles \cup {Absent})
    /\ phase \notin {"serving", "drain"} => InFlight = {}

Init ==
    /\ cur = [f \in Files |-> First]
    /\ prev = [f \in Files |-> Absent] /\ tmp = [f \in Files |-> Absent]
    /\ at = [r \in Calls |-> [step |-> "new", file |-> cert]]
    /\ held = [r \in Rollbacks |-> [path |-> Absent, previous |-> Absent]]
    /\ task = [r \in Calls |-> "none"] /\ took = [r \in Calls |-> 0]
    /\ val = 0 /\ ver = 0 /\ seen = 0
    /\ phase = "load" /\ current = 0 /\ signalled = "no" /\ kills = 0
    /\ loaded = [f \in Files |-> Absent]
    /\ pair = <<First, Absent>>

-----------------------------------------------------------------------------
(* The calls.                                                              *)

At(r, step) == at[r].step = step
File(r) == at[r].file
Move(r, step) == at' = [at EXCEPT ![r].step = step]

(* The last step for a file: on to the next one, or to what comes after.   *)
NextFile(r, first, after) ==
    at' = [at EXCEPT ![r] = IF File(r) = ca
                              THEN [step |-> after, file |-> cert]
                              ELSE [step |-> first, file |-> File(r) + 1]]

Reloaded == \A r \in Calls : task[r] = "none"

(* A call arrives while the listener serves.  install has validated its    *)
(* bundle before it touches a file; one that is refused changes nothing.   *)
Begin(r) ==
    /\ At(r, "new") /\ phase = "serving"
    /\ Patience # "none" => InFlight = {}
    /\ Patience = "reloaded" => Reloaded /\ ver = seen
    /\ Move(r, IF r \in Installs THEN "copy" ELSE "check")
    /\ UNCHANGED <<files, held, watch, listener, pair>>

(* A file operation fails, and the call with it.                           *)
Fails(r) ==
    /\ "io" \in Faults
    /\ at[r].step \in (InstallSteps \cup RollbackSteps) \ {"check", "validate"}
    /\ Move(r, "failed")
    /\ UNCHANGED <<files, held, watch, listener, pair>>

(* replace_with_previous: copy the file to .previous, write .new, rename.  *)
Copy(r) ==
    /\ At(r, "copy")
    /\ prev' = [prev EXCEPT ![File(r)] = Torn]
    /\ Move(r, "copied")
    /\ UNCHANGED <<cur, tmp, held, watch, listener, pair>>

Copied(r) ==
    /\ At(r, "copied")
    /\ prev' = [prev EXCEPT ![File(r)] = cur[File(r)]]
    /\ Move(r, "write")
    /\ UNCHANGED <<cur, tmp, held, watch, listener, pair>>

\* Defect: the new content is written to the path itself.
WriteInPlace(r) ==
    /\ At(r, "write")
    /\ tmp' = [tmp EXCEPT ![File(r)] = Torn]
    /\ cur' = [cur EXCEPT ![File(r)] = Torn]
    /\ Move(r, "written")
    /\ UNCHANGED <<prev, held, watch, listener, pair>>

Write(r) ==
    /\ At(r, "write")
    /\ tmp' = [tmp EXCEPT ![File(r)] = Torn]
    /\ Move(r, "written")
    /\ UNCHANGED <<cur, prev, held, watch, listener, pair>>

Written(r) ==
    /\ At(r, "written")
    /\ tmp' = [tmp EXCEPT ![File(r)] = r]
    /\ Move(r, "rename")
    /\ UNCHANGED <<cur, prev, held, watch, listener, pair>>

(* .new is shared by all calls: another one may have renamed it already.   *)
Rename(r) ==
    /\ At(r, "rename")
    /\ IF tmp[File(r)] = Absent
         THEN Move(r, "failed") /\ UNCHANGED <<cur, tmp>>
         ELSE /\ cur' = [cur EXCEPT ![File(r)] = tmp[File(r)]]
              /\ tmp' = [tmp EXCEPT ![File(r)] = Absent]
              /\ NextFile(r, "copy", "schedule")
    /\ UNCHANGED <<prev, held, watch, listener, pair>>

(* rollback: every .previous has to exist, then each is exchanged with its *)
(* file by rewriting both in place.                                        *)
Check(r) ==
    /\ At(r, "check")
    /\ Move(r, IF \E f \in Files : prev[f] = Absent THEN "refused" ELSE "read")
    /\ UNCHANGED <<files, held, watch, listener, pair>>

Read(r) ==
    /\ At(r, "read")
    /\ held' = [held EXCEPT ![r] = [path |-> cur[File(r)],
                                    previous |-> prev[File(r)]]]
    /\ Move(r, "open")
    /\ UNCHANGED <<files, watch, listener, pair>>

Open(r) ==
    /\ At(r, "open")
    /\ cur' = [cur EXCEPT ![File(r)] = Torn]
    /\ Move(r, "fill")
    /\ UNCHANGED <<prev, tmp, held, watch, listener, pair>>

Fill(r) ==
    /\ At(r, "fill")
    /\ cur' = [cur EXCEPT ![File(r)] = held[r].previous]
    /\ Move(r, "openprev")
    /\ UNCHANGED <<prev, tmp, held, watch, listener, pair>>

OpenPrev(r) ==
    /\ At(r, "openprev")
    /\ prev' = [prev EXCEPT ![File(r)] = Torn]
    /\ Move(r, "fillprev")
    /\ UNCHANGED <<cur, tmp, held, watch, listener, pair>>

\* Defect: .previous is rewritten from the path, which was just replaced.
FillPrevFromPath(r) ==
    /\ At(r, "fillprev")
    /\ prev' = [prev EXCEPT ![File(r)] = cur[File(r)]]
    /\ NextFile(r, "read", "validate")
    /\ UNCHANGED <<cur, tmp, held, watch, listener, pair>>

FillPrev(r) ==
    /\ At(r, "fillprev")
    /\ prev' = [prev EXCEPT ![File(r)] = held[r].path]
    /\ NextFile(r, "read", "validate")
    /\ UNCHANGED <<cur, tmp, held, watch, listener, pair>>

(* validate_certificate on what is now in place: a certificate that does   *)
(* not parse, or has expired, fails the call; the files stay exchanged.    *)
Validate(r) ==
    /\ At(r, "validate")
    /\ \/ cur[cert] \in Bundles /\ cur[ca] \in Bundles /\ Move(r, "schedule")
       \/ /\ \/ "expired" \in Faults
             \/ cur[cert] \notin Bundles \/ cur[ca] \notin Bundles
          /\ Move(r, "failed")
    /\ UNCHANGED <<files, held, watch, listener, pair>>

(* The answer, after the reload has been scheduled.                        *)
Schedule(r) ==
    /\ At(r, "schedule")
    /\ Move(r, "ok")
    /\ task' = [task EXCEPT ![r] = "sleeping"]
    /\ pair' = IF r \in Installs THEN <<r, pair[1]>>
               ELSE IF pair[2] = Absent THEN pair ELSE <<pair[2], pair[1]>>
    /\ UNCHANGED <<files, held, took, val, ver, listener>>

Call(r) ==
    \/ Fails(r) \/ Copy(r) \/ Copied(r) \/ Write(r) \/ Written(r) \/ Rename(r)
    \/ Check(r) \/ Read(r) \/ Open(r) \/ Fill(r) \/ OpenPrev(r) \/ FillPrev(r)
    \/ Validate(r) \/ Schedule(r)

-----------------------------------------------------------------------------
(* schedule_reload: after half a second, read the value and send the next. *)

Borrow(r) ==
    /\ task[r] = "sleeping"
    /\ task' = [task EXCEPT ![r] = "borrowed"]
    /\ took' = [took EXCEPT ![r] = val]
    /\ UNCHANGED <<files, calls, val, ver, listener, pair>>

\* Defect: the value that is sent is the one that was read.
SendSame(r) ==
    /\ task[r] = "borrowed"
    /\ task' = [task EXCEPT ![r] = "none"]
    /\ val' = took[r] /\ ver' = ver + 1
    /\ UNCHANGED <<files, calls, took, listener, pair>>

Send(r) ==
    /\ task[r] = "borrowed"
    /\ task' = [task EXCEPT ![r] = "none"]
    /\ val' = took[r] + 1 /\ ver' = ver + 1
    /\ UNCHANGED <<files, calls, took, listener, pair>>

-----------------------------------------------------------------------------
(* main's loop.                                                            *)

Matched == loaded[cert] = loaded[key] /\ loaded[cert] \in Bundles
           /\ loaded[ca] \in Bundles

(* tls() reads the three files one after the other.                        *)
Load ==
    /\ phase = "load"
    /\ LET missing == {f \in Files : loaded[f] = Absent}
           f == CHOOSE f \in missing : \A g \in missing : f <= g
       IN  /\ loaded' = [loaded EXCEPT ![f] = cur[f]]
           /\ phase' = IF missing = {f} THEN "bind" ELSE "load"
    /\ UNCHANGED <<files, calls, watch, seen, current, signalled, kills, pair>>

(* A bundle that is no identity ends the process with an error.            *)
Bind ==
    /\ phase = "bind"
    /\ IF Matched
         THEN phase' = "serving" /\ current' = val /\ UNCHANGED task
         ELSE /\ phase' = "down" /\ UNCHANGED current
              /\ task' = [r \in Calls |-> "none"]
    /\ UNCHANGED <<files, calls, took, val, ver, seen, loaded, signalled, kills, pair>>

(* reload.changed() completes and marks the newest version as seen.        *)
Changed ==
    /\ phase = "serving" /\ ver # seen
    /\ seen' = ver /\ phase' = "drain"
    /\ UNCHANGED <<files, calls, watch, current, loaded, signalled, kills, pair>>

CtrlC ==
    /\ "signal" \in Faults /\ phase = "serving"
    /\ phase' = "drain" /\ signalled' = "yes"
    /\ UNCHANGED <<files, calls, watch, seen, current, loaded, kills, pair>>

(* A graceful shutdown lets the requests that are under way finish.        *)
Drained ==
    /\ phase = "drain" /\ InFlight = {}
    /\ phase' = "compare"
    /\ UNCHANGED <<files, calls, watch, seen, current, loaded, signalled, kills, pair>>

(* Serve again if the value changed; return from main otherwise.           *)
Compare ==
    /\ phase = "compare"
    /\ IF val = current
         THEN phase' = "exited" /\ UNCHANGED loaded
         ELSE phase' = "load" /\ loaded' = [f \in Files |-> Absent]
    /\ UNCHANGED <<files, calls, watch, seen, current, signalled, kills, pair>>

(* The process is killed: what it was doing is lost.                       *)
Killed ==
    /\ kills < MaxKills /\ phase \notin {"down", "exited"}
    /\ phase' = "down" /\ kills' = kills + 1
    /\ at' = [r \in Calls |-> IF r \in InFlight
                                THEN [at[r] EXCEPT !.step = "lost"] ELSE at[r]]
    /\ task' = [r \in Calls |-> "none"]
    /\ UNCHANGED <<files, held, took, val, ver, seen, current, loaded,
                   signalled, pair>>

(* Restart=on-failure                                                      *)
Restart ==
    /\ phase = "down"
    /\ phase' = "load" /\ loaded' = [f \in Files |-> Absent]
    /\ val' = 0 /\ ver' = 0 /\ seen' = 0 /\ current' = 0
    /\ took' = [r \in Calls |-> 0]
    /\ UNCHANGED <<files, calls, task, signalled, kills, pair>>

Listener ==
    \/ Load \/ Bind \/ Changed \/ Drained \/ Compare \/ Restart

Next ==
    \/ \E r \in Calls : Begin(r) \/ Call(r) \/ Borrow(r) \/ Send(r)
    \/ Listener \/ CtrlC \/ Killed

Spec == Init /\ [][Next]_vars

(* The process runs on; a drain ends once the requests under way are done, *)
(* and the streams the panel holds open end when it goes away.             *)
Fairness ==
    /\ WF_vars(Listener)
    /\ \A r \in Calls :
         WF_vars(Call(r)) /\ WF_vars(Borrow(r)) /\ WF_vars(Send(r))

FairSpec == Spec /\ Fairness

-----------------------------------------------------------------------------
(* Properties.                                                             *)

Undisturbed == \A r \in Calls : at[r].step \notin {"failed", "lost"}

(* Calls made one at a time leave whole bundles: the three files hold what *)
(* the last successful call reported, and their .previous files together   *)
(* hold the bundle before it, across any series of installs and rollbacks, *)
(* reloads, Ctrl-C and kills in between; until a call fails half-way.      *)
FilesAgree ==
    InFlight = {} /\ Undisturbed =>
        \A f \in Files : cur[f] = pair[1] /\ prev[f] = pair[2]

(* However an install ends, no file is ever half written: until a rollback *)
(* rewrites them in place, each holds the whole of some bundle's.          *)
InstallsDoNotTear ==
    (\A r \in Rollbacks : At(r, "new")) => \A f \in Files : cur[f] \in Bundles

(* When the panel waits for one rotation before it asks for the next, the  *)
(* agent ends up serving exactly the bundle on disk, also if it is killed  *)
(* between the answer and the reload.                                      *)
RotationServed ==
    (InFlight = {} /\ Undisturbed)
        ~> \/ phase = "serving" /\ loaded = cur
           \/ InFlight # {} \/ ~Undisturbed \/ signalled = "yes"
=============================================================================
