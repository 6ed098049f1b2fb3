--------------------------- MODULE TlsReloadProofs ---------------------------
(***************************************************************************)
(* The three files of the mTLS bundle, for any number of installs and      *)
(* rollbacks made one at a time, reloads and kills in between.             *)
(***************************************************************************)
EXTENDS TlsReload, TLAPS

(* The types of what the calls work on.                                    *)
Typed ==
    /\ cur \in [Files -> Contents] /\ prev \in [Files -> Contents]
    /\ tmp \in [Files -> Contents]
    /\ at \in [Calls -> [step : Steps, file : Files]]
    /\ held \in [Rollbacks -> [path : Contents, previous : Contents]]
    /\ pair \in Bundles \X (Bundles \cup {Absent})

(* An install and a rollback go through their own steps.                   *)
Kinds ==
    /\ \A r \in Installs : at[r].step \notin RollbackSteps
    /\ \A r \in Rollbacks : at[r].step \notin InstallSteps

(* The steps at which a call is under way.                                 *)
Working == {"schedule"} \cup InstallSteps \cup RollbackSteps

(* One call at a time.                                                     *)
Lone == \A r, q \in Calls :
          at[r].step \in Working /\ at[q].step \in Working => r = q

(* What an install renames into place is the whole of its own bundle.      *)
OwnFile == \A r \in Calls : At(r, "rename") => tmp[File(r)] = r

(* Every call starts with the first file.                                  *)
Start == \A r \in Calls : at[r].step \in {"new", "check"} => File(r) = cert

CallsInv == Typed /\ Kinds /\ Lone /\ OwnFile /\ Start

(* A file before a call, installed by one, exchanged by one.               *)
Before(f) == cur[f] = pair[1] /\ prev[f] = pair[2]
Installed(r, f) == cur[f] = r /\ prev[f] = pair[1]
Exchanged(f) == cur[f] = pair[2] /\ prev[f] = pair[1]

(* How far an install has come.                                            *)
InstallProgress(r) == \A f \in Files :
    /\ at[r].step \in InstallSteps =>
         /\ f < File(r) => Installed(r, f)
         /\ f > File(r) => Before(f)
         /\ f = File(r) =>
              /\ cur[f] = pair[1]
              /\ At(r, "copy") => prev[f] = pair[2]
              /\ at[r].step \in {"write", "written", "rename"} =>
                   prev[f] = pair[1]
    /\ At(r, "schedule") => Installed(r, f)

(* How far a rollback has come; what it read of a file is the pair.        *)
RollbackProgress(r) == \A f \in Files :
    /\ At(r, "check") => Before(f)
    /\ at[r].step \in RollbackSteps \ {"check", "validate"} =>
         /\ f < File(r) => Exchanged(f)
         /\ f > File(r) => Before(f)
         /\ f = File(r) =>
              /\ at[r].step \in {"read", "open"} => cur[f] = pair[1]
              /\ at[r].step \in {"read", "open", "fill", "openprev"} =>
                   prev[f] = pair[2]
              /\ at[r].step \in {"openprev", "fillprev"} => cur[f] = pair[2]
              /\ ~At(r, "read") =>
                   held[r].path = pair[1] /\ held[r].previous = pair[2]
    /\ at[r].step \in {"validate", "schedule"} => Exchanged(f)
    /\ at[r].step \in (RollbackSteps \ {"check"}) \cup {"schedule"} =>
         pair[2] # Absent

(* Until a call is cut short, the files are where its progress says.       *)
ProgressInv ==
    Undisturbed =>
        /\ (\A r \in Calls : at[r].step \notin Working) =>
             \A f \in Files : Before(f)
        /\ \A r \in Installs : InstallProgress(r)
        /\ \A r \in Rollbacks : RollbackProgress(r)

IInv == CallsInv /\ InstallsDoNotTear /\ ProgressInv
-----------------------------------------------------------------------------
(* The helpers of the model.                                               *)

(* Move changes the step of one call and leaves its file.                  *)
LEMMA MoveChanges ==
  ASSUME Typed, NEW r \in Calls, NEW s \in Steps, Move(r, s)
  PROVE  /\ at' \in [Calls -> [step : Steps, file : Files]]
         /\ at'[r].step = s /\ at'[r].file = at[r].file
         /\ \A q \in Calls \ {r} : at'[q] = at[q]
  BY DEF Move, Typed

(* NextFile goes on to the next file, or past the last one.                *)
LEMMA NextFileChanges ==
  ASSUME Typed, NEW r \in Calls, NEW s \in Steps, NEW t \in Steps,
         NextFile(r, s, t)
  PROVE  /\ at' \in [Calls -> [step : Steps, file : Files]]
         /\ File(r) = ca => at'[r].step = t
         /\ File(r) # ca => at'[r].step = s /\ at'[r].file = File(r) + 1
         /\ \A q \in Calls \ {r} : at'[q] = at[q]
  <1>1. File(r) \in Files
    BY DEF Typed, File
  <1>2. CASE File(r) = ca
    <2>1. at' = [at EXCEPT ![r] = [step |-> t, file |-> cert]]
      BY <1>2 DEF NextFile
    <2>2. [step |-> t, file |-> cert] \in [step : Steps, file : Files]
      BY DEF cert, Files
    <2>3. QED
      BY <1>2, <2>1, <2>2 DEF Typed
  <1>3. CASE File(r) # ca
    <2>1. at' = [at EXCEPT ![r] = [step |-> s, file |-> File(r) + 1]]
      BY <1>3 DEF NextFile
    <2>2. [step |-> s, file |-> File(r) + 1] \in [step : Steps, file : Files]
      BY <1>1, <1>3 DEF ca, Files
    <2>3. QED
      BY <1>3, <2>1, <2>2 DEF Typed
  <1>4. QED
    BY <1>2, <1>3

(* The steps a call is at when it makes a step, and those it can reach.    *)
LEMMA CallMoves ==
  ASSUME Typed, Kinds, NEW r \in Calls, Call(r)
  PROVE  /\ at' \in [Calls -> [step : Steps, file : Files]]
         /\ at[r].step \in Working /\ at'[r].step \notin {"new", "check", "lost"}
         /\ \A q \in Calls \ {r} : at'[q] = at[q]
         /\ Kinds'
  <1> DEFINE Legal(s) == /\ s \in Steps /\ s \notin {"new", "check", "lost"}
                         /\ r \in Installs => s \notin RollbackSteps
                         /\ r \in Rollbacks => s \notin InstallSteps
             Moves == /\ at' \in [Calls -> [step : Steps, file : Files]]
                      /\ Legal(at'[r].step)
                      /\ \A q \in Calls \ {r} : at'[q] = at[q]
  <1>1. /\ \A s \in {"schedule", "ok", "refused", "failed"} : Legal(s)
        /\ r \in Installs => \A s \in InstallSteps : Legal(s)
        /\ r \in Rollbacks => \A s \in RollbackSteps \ {"check"} : Legal(s)
        /\ at[r].step \in InstallSteps => r \in Installs
        /\ at[r].step \in RollbackSteps => r \in Rollbacks
    BY TlsAssumption DEF Steps, Kinds, InstallSteps, RollbackSteps, Calls
  <1>2. ASSUME NEW s, Legal(s), Move(r, s) PROVE Moves
    BY <1>2, MoveChanges
  <1> HIDE DEF Legal, Moves
  <1> USE DEF At, InstallSteps, RollbackSteps
  <1>3. ASSUME Copy(r) PROVE Moves /\ at[r].step \in Working
    <2>1. at[r].step = "copy" /\ Move(r, "copied") /\ Legal("copied")
      BY <1>3, <1>1 DEF Copy
    <2>2. QED
      BY <2>1, <1>2 DEF Working
  <1>4. ASSUME Copied(r) PROVE Moves /\ at[r].step \in Working
    <2>1. at[r].step = "copied" /\ Move(r, "write") /\ Legal("write")
      BY <1>4, <1>1 DEF Copied
    <2>2. QED
      BY <2>1, <1>2 DEF Working
  <1>5. ASSUME Write(r) PROVE Moves /\ at[r].step \in Working
    <2>1. at[r].step = "write" /\ Move(r, "written") /\ Legal("written")
      BY <1>5, <1>1 DEF Write
    <2>2. QED
      BY <2>1, <1>2 DEF Working
  <1>6. ASSUME Written(r) PROVE Moves /\ at[r].step \in Working
    <2>1. at[r].step = "written" /\ Move(r, "rename") /\ Legal("rename")
      BY <1>6, <1>1 DEF Written
    <2>2. QED
      BY <2>1, <1>2 DEF Working
  <1>7. ASSUME Read(r) PROVE Moves /\ at[r].step \in Working
    <2>1. at[r].step = "read" /\ Move(r, "open") /\ Legal("open")
      BY <1>7, <1>1 DEF Read
    <2>2. QED
      BY <2>1, <1>2 DEF Working
  <1>8. ASSUME Open(r) PROVE Moves /\ at[r].step \in Working
    <2>1. at[r].step = "open" /\ Move(r, "fill") /\ Legal("fill")
      BY <1>8, <1>1 DEF Open
    <2>2. QED
      BY <2>1, <1>2 DEF Working
  <1>9. ASSUME Fill(r) PROVE Moves /\ at[r].step \in Working
    <2>1. at[r].step = "fill" /\ Move(r, "openprev") /\ Legal("openprev")
      BY <1>9, <1>1 DEF Fill
    <2>2. QED
      BY <2>1, <1>2 DEF Working
  <1>10. ASSUME OpenPrev(r) PROVE Moves /\ at[r].step \in Working
    <2>1. at[r].step = "openprev" /\ Move(r, "fillprev") /\ Legal("fillprev")
      BY <1>10, <1>1 DEF OpenPrev
    <2>2. QED
      BY <2>1, <1>2 DEF Working
  <1>11. ASSUME Schedule(r) PROVE Moves /\ at[r].step \in Working
    <2>1. at[r].step = "schedule" /\ Move(r, "ok") /\ Legal("ok")
      BY <1>11, <1>1 DEF Schedule
    <2>2. QED
      BY <2>1, <1>2 DEF Working
  <1>12. ASSUME Fails(r) PROVE Moves /\ at[r].step \in Working
    <2>1. at[r].step \in Working /\ Move(r, "failed") /\ Legal("failed")
      BY <1>12, <1>1 DEF Fails, Working
    <2>2. QED
      BY <2>1, <1>2
  <1>13. ASSUME Check(r) PROVE Moves /\ at[r].step \in Working
    <2>1. PICK s \in {"refused", "read"} : Move(r, s)
      BY <1>13 DEF Check
    <2>2. at[r].step = "check" /\ Legal(s)
      BY <1>13, <1>1 DEF Check
    <2>3. QED
      BY <2>1, <2>2, <1>2 DEF Working
  <1>14. ASSUME Validate(r) PROVE Moves /\ at[r].step \in Working
    <2>1. PICK s \in {"schedule", "failed"} : Move(r, s)
      BY <1>14 DEF Validate
    <2>2. at[r].step = "validate" /\ Legal(s)
      BY <1>14, <1>1 DEF Validate
    <2>3. QED
      BY <2>1, <2>2, <1>2 DEF Working
  <1>15. ASSUME Rename(r) PROVE Moves /\ at[r].step \in Working
    <2>1. at[r].step = "rename" /\ Legal("failed") /\ Legal("copy")
          /\ Legal("schedule")
      BY <1>15, <1>1 DEF Rename
    <2>2. CASE Move(r, "failed")
      BY <2>1, <2>2, <1>2 DEF Working
    <2>3. CASE NextFile(r, "copy", "schedule")
      BY <2>1, <2>3, NextFileChanges DEF Legal, Moves, Working
    <2>4. QED
      BY <1>15, <2>2, <2>3 DEF Rename
  <1>16. ASSUME FillPrev(r) PROVE Moves /\ at[r].step \in Working
    <2>1. at[r].step = "fillprev" /\ Legal("read") /\ Legal("validate")
      BY <1>16, <1>1 DEF FillPrev
    <2>2. NextFile(r, "read", "validate")
      BY <1>16 DEF FillPrev
    <2>3. QED
      BY <2>1, <2>2, NextFileChanges DEF Legal, Moves, Working
  <1>17. Moves /\ at[r].step \in Working
    BY <1>3, <1>4, <1>5, <1>6, <1>7, <1>8, <1>9, <1>10,
       <1>11, <1>12, <1>13, <1>14, <1>15, <1>16 DEF Call
  <1>18. Kinds'
    BY <1>17 DEF Kinds, Moves, Legal, Calls
  <1>19. QED
    BY <1>17, <1>18 DEF Moves, Legal
-----------------------------------------------------------------------------
(* Types, and what reaches a path while only installs have run.            *)

(* A call keeps the types of the files, and its own from other calls.      *)
LEMMA CallKeeps ==
  ASSUME CallsInv, NEW r \in Calls, Call(r)
  PROVE  CallsInv' /\ (InstallsDoNotTear => InstallsDoNotTear')
  <1>1. /\ at' \in [Calls -> [step : Steps, file : Files]]
        /\ at[r].step \in Working /\ at'[r].step \notin {"new", "check", "lost"}
        /\ \A q \in Calls \ {r} : at'[q] = at[q]
        /\ Kinds'
    BY CallMoves DEF CallsInv
  <1>2. \A q \in Calls \ {r} : at[q].step \notin Working
    BY <1>1 DEF CallsInv, Lone
  <1>3. Lone'
    BY <1>1, <1>2 DEF Lone
  <1>4. File(r) \in Files /\ r \in Calls
    BY DEF CallsInv, Typed, File
  <1>5. /\ at[r].step \in InstallSteps => r \in Installs
        /\ at[r].step \in RollbackSteps => r \in Rollbacks
    BY DEF CallsInv, Kinds, Calls
  <1> DEFINE Kept == /\ cur' \in [Files -> Contents]
                     /\ prev' \in [Files -> Contents]
                     /\ tmp' \in [Files -> Contents]
                     /\ held' \in [Rollbacks -> [path : Contents,
                                                 previous : Contents]]
                     /\ pair' \in Bundles \X (Bundles \cup {Absent})
                     /\ at'[r].step = "rename" =>
                          tmp'[File(r)] = r /\ at'[r].file = File(r)
                     /\ \/ cur' = cur
                        \/ r \in Rollbacks
                        \/ \A f \in Files : cur'[f] \in {cur[f], r}
  <1> USE DEF CallsInv, Typed, Contents, Bundles
  <1>6. ASSUME Fails(r) PROVE Kept
    <2>1. Move(r, "failed")
      BY <1>6 DEF Fails
    <2>2. at'[r].step # "rename"
      BY <2>1, MoveChanges
      DEF Steps, InstallSteps, RollbackSteps
    <2>3. QED
      BY <1>6, <1>4, <2>2 DEF Fails, files, watch, listener
  <1>7. ASSUME Copy(r) PROVE Kept
    <2>1. Move(r, "copied")
      BY <1>7 DEF Copy
    <2>2. at'[r].step # "rename"
      BY <2>1, MoveChanges
      DEF Steps, InstallSteps, RollbackSteps
    <2>3. QED
      BY <1>7, <1>4, <2>2 DEF Copy, files, watch, listener
  <1>8. ASSUME Copied(r) PROVE Kept
    <2>1. Move(r, "write")
      BY <1>8 DEF Copied
    <2>2. at'[r].step # "rename"
      BY <2>1, MoveChanges
      DEF Steps, InstallSteps, RollbackSteps
    <2>3. QED
      BY <1>8, <1>4, <2>2 DEF Copied, files, watch, listener
  <1>9. ASSUME Write(r) PROVE Kept
    <2>1. Move(r, "written")
      BY <1>9 DEF Write
    <2>2. at'[r].step # "rename"
      BY <2>1, MoveChanges
      DEF Steps, InstallSteps, RollbackSteps
    <2>3. QED
      BY <1>9, <1>4, <2>2 DEF Write, files, watch, listener
  <1>10. ASSUME Written(r) PROVE Kept
    <2>1. at[r].step = "written" /\ Move(r, "rename")
      BY <1>10 DEF Written, At
    <2>2. r \in Installs /\ at'[r].file = File(r)
      BY <2>1, <1>5, MoveChanges DEF InstallSteps, Steps, File
    <2>3. QED
      BY <1>10, <1>4, <2>2 DEF Written, files, watch, listener
  <1>11. ASSUME Rename(r) PROVE Kept
    <2>1. at[r].step = "rename" /\ tmp[File(r)] = r
      BY <1>11, <1>4 DEF Rename, At, OwnFile
    <2>2. at'[r].step # "rename"
      <3>1. CASE Move(r, "failed")
        BY <3>1, MoveChanges DEF Steps
      <3>2. CASE NextFile(r, "copy", "schedule")
        BY <3>2, NextFileChanges DEF Steps, InstallSteps
      <3>3. QED
        BY <1>11, <3>1, <3>2 DEF Rename
    <2>3. QED
      BY <1>11, <1>4, <2>1, <2>2 DEF Rename
  <1>12. ASSUME Check(r) PROVE Kept
    <2>1. \E s \in {"refused", "read"} : Move(r, s)
      BY <1>12 DEF Check
    <2>2. at'[r].step # "rename"
      BY <2>1, MoveChanges
      DEF Steps, InstallSteps, RollbackSteps
    <2>3. QED
      BY <1>12, <1>4, <2>2 DEF Check, files, watch, listener
  <1>13. ASSUME Read(r) PROVE Kept
    <2>1. Move(r, "open")
      BY <1>13 DEF Read
    <2>2. at'[r].step # "rename" /\ r \in Rollbacks
      BY <2>1, MoveChanges, <1>5, <1>13
      DEF Steps, InstallSteps, RollbackSteps, Read, At
    <2>3. QED
      BY <1>13, <1>4, <2>2 DEF Read, files, watch, listener
  <1>14. ASSUME Open(r) PROVE Kept
    <2>1. Move(r, "fill")
      BY <1>14 DEF Open
    <2>2. at'[r].step # "rename" /\ r \in Rollbacks
      BY <2>1, MoveChanges, <1>5, <1>14
      DEF Steps, InstallSteps, RollbackSteps, Open, At
    <2>3. QED
      BY <1>14, <1>4, <2>2 DEF Open, files, watch, listener
  <1>15. ASSUME Fill(r) PROVE Kept
    <2>1. Move(r, "openprev")
      BY <1>15 DEF Fill
    <2>2. at'[r].step # "rename" /\ r \in Rollbacks
      BY <2>1, MoveChanges, <1>5, <1>15
      DEF Steps, InstallSteps, RollbackSteps, Fill, At
    <2>3. QED
      BY <1>15, <1>4, <2>2 DEF Fill, files, watch, listener
  <1>16. ASSUME OpenPrev(r) PROVE Kept
    <2>1. Move(r, "fillprev")
      BY <1>16 DEF OpenPrev
    <2>2. at'[r].step # "rename" /\ r \in Rollbacks
      BY <2>1, MoveChanges, <1>5, <1>16
      DEF Steps, InstallSteps, RollbackSteps, OpenPrev, At
    <2>3. QED
      BY <1>16, <1>4, <2>2 DEF OpenPrev, files, watch, listener
  <1>17. ASSUME FillPrev(r) PROVE Kept
    <2>1. NextFile(r, "read", "validate")
      BY <1>17 DEF FillPrev
    <2>2. at'[r].step # "rename" /\ r \in Rollbacks
      <3>1. "read" \in Steps /\ "validate" \in Steps
        BY DEF Steps, RollbackSteps
      <3>2. at'[r].step \in {"read", "validate"}
        BY <2>1, <3>1, NextFileChanges
      <3>3. at[r].step = "fillprev"
        BY <1>17 DEF FillPrev, At
      <3>4. QED
        BY <3>2, <3>3, <1>5 DEF RollbackSteps
    <2>3. QED
      BY <1>17, <1>4, <2>2 DEF FillPrev, files, watch, listener
  <1>18. ASSUME Validate(r) PROVE Kept
    <2>1. \E s \in {"schedule", "failed"} : Move(r, s)
      BY <1>18 DEF Validate
    <2>2. at'[r].step # "rename"
      BY <2>1, MoveChanges
      DEF Steps, InstallSteps, RollbackSteps
    <2>3. QED
      BY <1>18, <1>4, <2>2 DEF Validate, files, watch, listener
  <1>19. ASSUME Schedule(r) PROVE Kept
    <2>1. Move(r, "ok")
      BY <1>19 DEF Schedule
    <2>2. at'[r].step # "rename"
      BY <2>1, MoveChanges
      DEF Steps, InstallSteps, RollbackSteps
    <2>3. QED
      BY <1>19, <1>4, <2>2 DEF Schedule, files, watch, listener
  <1>20. Kept
    BY <1>6, <1>7, <1>8, <1>9, <1>10, <1>11, <1>12, <1>13, <1>14,
       <1>15, <1>16, <1>17, <1>18, <1>19 DEF Call
  <1>21. Typed' /\ OwnFile' /\ Start'
    BY <1>1, <1>2, <1>4, <1>20
    DEF OwnFile, Start, At, File, Working, InstallSteps
  <1>22. InstallsDoNotTear => InstallsDoNotTear'
    BY <1>1, <1>20, TlsAssumption DEF InstallsDoNotTear, At, Calls
  <1>23. QED
    BY <1>1, <1>3, <1>21, <1>22
-----------------------------------------------------------------------------
(* How far the calls have come.                                            *)

(* A step of a call that is not cut short takes the files one step further *)
(* along the way from the last bundle to the next.                         *)
LEMMA CallProgresses ==
  ASSUME CallsInv, ProgressInv, NEW r \in Calls, Call(r)
  PROVE  ProgressInv'
  <1> SUFFICES ASSUME Undisturbed'
               PROVE  /\ (\A q \in Calls : at'[q].step \notin Working) =>
                           \A f \in Files : Before(f)'
                      /\ \A q \in Installs : InstallProgress(q)'
                      /\ \A q \in Rollbacks : RollbackProgress(q)'
    BY DEF ProgressInv
  <1>1. /\ at' \in [Calls -> [step : Steps, file : Files]]
        /\ at[r].step \in Working /\ at'[r].step \notin {"new", "check", "lost"}
        /\ \A q \in Calls \ {r} : at'[q] = at[q]
        /\ Kinds'
    BY CallMoves DEF CallsInv
  <1>2. \A q \in Calls \ {r} : at[q].step \notin Working
    BY <1>1 DEF CallsInv, Lone
  <1>3. Undisturbed
    BY <1>1
    DEF Undisturbed, Working, InstallSteps, RollbackSteps
  <1>4. /\ r \in Installs => InstallProgress(r)
        /\ r \in Rollbacks => RollbackProgress(r)
    BY <1>3 DEF ProgressInv
  <1>5. /\ at[r].step \in InstallSteps => r \in Installs
        /\ at[r].step \in RollbackSteps => r \in Rollbacks
        /\ at'[r].step # "failed" /\ File(r) \in Files
    BY DEF CallsInv, Typed, Kinds, Calls, Undisturbed, File
  <1> DEFINE Further ==
        /\ r \in Installs => InstallProgress(r)'
        /\ r \in Rollbacks => RollbackProgress(r)'
        /\ at'[r].step \notin Working => \A f \in Files : Before(f)'
  <1> USE TlsAssumption DEF CallsInv, Typed, At
  <1>6. ASSUME Copy(r) PROVE Further
    <2>1. at[r].step = "copy" /\ Move(r, "copied") /\ r \in Installs
      BY <1>6, <1>5 DEF Copy, InstallSteps
    <2>2. at'[r].step = "copied" /\ at'[r].file = at[r].file
      BY <2>1, MoveChanges DEF Steps, InstallSteps, RollbackSteps
    <2>3. QED
      BY <1>6, <1>4, <1>5, <2>1, <2>2
      DEF Copy, files, watch, listener, InstallProgress, RollbackProgress,
          Before, Installed, Exchanged, File, InstallSteps, RollbackSteps,
          Working, Files, cert, ca
  <1>7. ASSUME Copied(r) PROVE Further
    <2>1. at[r].step = "copied" /\ Move(r, "write") /\ r \in Installs
      BY <1>7, <1>5 DEF Copied, InstallSteps
    <2>2. at'[r].step = "write" /\ at'[r].file = at[r].file
      BY <2>1, MoveChanges DEF Steps, InstallSteps, RollbackSteps
    <2>3. QED
      BY <1>7, <1>4, <1>5, <2>1, <2>2
      DEF Copied, files, watch, listener, InstallProgress, RollbackProgress,
          Before, Installed, Exchanged, File, InstallSteps, RollbackSteps,
          Working, Files, cert, ca
  <1>8. ASSUME Write(r) PROVE Further
    <2>1. at[r].step = "write" /\ Move(r, "written") /\ r \in Installs
      BY <1>8, <1>5 DEF Write, InstallSteps
    <2>2. at'[r].step = "written" /\ at'[r].file = at[r].file
      BY <2>1, MoveChanges DEF Steps, InstallSteps, RollbackSteps
    <2>3. QED
      BY <1>8, <1>4, <1>5, <2>1, <2>2
      DEF Write, files, watch, listener, InstallProgress, RollbackProgress,
          Before, Installed, Exchanged, File, InstallSteps, RollbackSteps,
          Working, Files, cert, ca
  <1>9. ASSUME Written(r) PROVE Further
    <2>1. at[r].step = "written" /\ Move(r, "rename") /\ r \in Installs
      BY <1>9, <1>5 DEF Written, InstallSteps
    <2>2. at'[r].step = "rename" /\ at'[r].file = at[r].file
      BY <2>1, MoveChanges DEF Steps, InstallSteps, RollbackSteps
    <2>3. QED
      BY <1>9, <1>4, <1>5, <2>1, <2>2
      DEF Written, files, watch, listener, InstallProgress, RollbackProgress,
          Before, Installed, Exchanged, File, InstallSteps, RollbackSteps,
          Working, Files, cert, ca
  <1>10. ASSUME Read(r) PROVE Further
    <2>1. at[r].step = "read" /\ Move(r, "open") /\ r \in Rollbacks
      BY <1>10, <1>5 DEF Read, RollbackSteps
    <2>2. at'[r].step = "open" /\ at'[r].file = at[r].file
      BY <2>1, MoveChanges DEF Steps, InstallSteps, RollbackSteps
    <2>3. QED
      BY <1>10, <1>4, <1>5, <2>1, <2>2
      DEF Read, files, watch, listener, InstallProgress, RollbackProgress,
          Before, Installed, Exchanged, File, InstallSteps, RollbackSteps,
          Working, Files, cert, ca
  <1>11. ASSUME Open(r) PROVE Further
    <2>1. at[r].step = "open" /\ Move(r, "fill") /\ r \in Rollbacks
      BY <1>11, <1>5 DEF Open, RollbackSteps
    <2>2. at'[r].step = "fill" /\ at'[r].file = at[r].file
      BY <2>1, MoveChanges DEF Steps, InstallSteps, RollbackSteps
    <2>3. QED
      BY <1>11, <1>4, <1>5, <2>1, <2>2
      DEF Open, files, watch, listener, InstallProgress, RollbackProgress,
          Before, Installed, Exchanged, File, InstallSteps, RollbackSteps,
          Working, Files, cert, ca
  <1>12. ASSUME Fill(r) PROVE Further
    <2>1. at[r].step = "fill" /\ Move(r, "openprev") /\ r \in Rollbacks
      BY <1>12, <1>5 DEF Fill, RollbackSteps
    <2>2. at'[r].step = "openprev" /\ at'[r].file = at[r].file
      BY <2>1, MoveChanges DEF Steps, InstallSteps, RollbackSteps
    <2>3. QED
      BY <1>12, <1>4, <1>5, <2>1, <2>2
      DEF Fill, files, watch, listener, InstallProgress, RollbackProgress,
          Before, Installed, Exchanged, File, InstallSteps, RollbackSteps,
          Working, Files, cert, ca
  <1>13. ASSUME OpenPrev(r) PROVE Further
    <2>1. at[r].step = "openprev" /\ Move(r, "fillprev") /\ r \in Rollbacks
      BY <1>13, <1>5 DEF OpenPrev, RollbackSteps
    <2>2. at'[r].step = "fillprev" /\ at'[r].file = at[r].file
      BY <2>1, MoveChanges DEF Steps, InstallSteps, RollbackSteps
    <2>3. QED
      BY <1>13, <1>4, <1>5, <2>1, <2>2
      DEF OpenPrev, files, watch, listener, InstallProgress, RollbackProgress,
          Before, Installed, Exchanged, File, InstallSteps, RollbackSteps,
          Working, Files, cert, ca
  <1>14. ASSUME Fails(r) PROVE Further
    BY <1>14, <1>5, MoveChanges DEF Fails, Steps
  <1>15. ASSUME Check(r) PROVE Further
    <2>1. /\ at[r].step = "check" /\ r \in Rollbacks /\ at[r].file = cert
          /\ \A f \in Files : Before(f) /\ Before(f)'
      BY <1>15, <1>4, <1>5
      DEF Check, RollbackSteps, RollbackProgress, Before, Start, File, files
    <2>2. CASE pair[2] = Absent
      <3>1. Move(r, "refused")
        BY <1>15, <2>1, <2>2 DEF Check, Before, Files
      <3>2. at'[r].step = "refused"
        BY <3>1, MoveChanges DEF Steps
      <3>3. QED
        BY <2>1, <3>2 DEF RollbackProgress, RollbackSteps
    <2>3. CASE pair[2] # Absent
      <3>1. Move(r, "read")
        BY <1>15, <2>1, <2>3 DEF Check, Before, Files
      <3>2. at'[r].step = "read" /\ at'[r].file = cert
        BY <2>1, <3>1, MoveChanges DEF Steps, RollbackSteps
      <3>3. UNCHANGED pair
        BY <1>15 DEF Check
      <3>4. QED
        BY <2>1, <2>3, <3>2, <3>3
        DEF RollbackProgress, RollbackSteps, Working, File, cert, Files, Before
    <2>4. QED
      BY <2>2, <2>3
  <1>16. ASSUME Validate(r) PROVE Further
    <2>1. at[r].step = "validate" /\ r \in Rollbacks /\ Move(r, "schedule")
      BY <1>16, <1>5, MoveChanges DEF Validate, Steps, RollbackSteps
    <2>2. at'[r].step = "schedule"
      BY <2>1, MoveChanges DEF Steps
    <2>3. QED
      BY <1>16, <1>4, <2>1, <2>2
      DEF Validate, files, RollbackProgress, RollbackSteps, Working, Exchanged
  <1>17. ASSUME Schedule(r) PROVE Further
    <2>1. at[r].step = "schedule" /\ at'[r].step = "ok"
      BY <1>17, MoveChanges DEF Schedule, Steps
    <2>2. \A f \in Files : Before(f)'
      <3>1. CASE r \in Installs
        BY <1>17, <1>4, <2>1, <3>1
        DEF Schedule, files, InstallProgress, Installed, Before
      <3>2. CASE r \in Rollbacks
        BY <1>17, <1>4, <2>1, <3>2
        DEF Schedule, files, RollbackProgress, Exchanged, Before
      <3>3. QED
        BY <3>1, <3>2 DEF Calls
    <2>3. QED
      BY <2>1, <2>2
      DEF InstallProgress, RollbackProgress, InstallSteps, RollbackSteps
  <1>18. ASSUME Rename(r) PROVE Further
    <2>1. /\ at[r].step = "rename" /\ r \in Installs /\ tmp[File(r)] = r
          /\ r # Absent
      BY <1>18, <1>5 DEF Rename, InstallSteps, OwnFile
    <2>2. /\ NextFile(r, "copy", "schedule")
          /\ cur' = [cur EXCEPT ![File(r)] = r]
          /\ UNCHANGED <<prev, pair>>
      BY <1>18, <2>1 DEF Rename
    <2>3. /\ File(r) = ca => at'[r].step = "schedule"
          /\ File(r) # ca => at'[r].step = "copy" /\ at'[r].file = File(r) + 1
      BY <2>2, NextFileChanges DEF Steps, InstallSteps
    <2>4. QED
      BY <1>4, <1>5, <2>1, <2>2, <2>3
      DEF InstallProgress, Installed, Before, File, InstallSteps, Working,
          Files, ca
  <1>19. ASSUME FillPrev(r) PROVE Further
    <2>1. at[r].step = "fillprev" /\ r \in Rollbacks
      BY <1>19, <1>5 DEF FillPrev, RollbackSteps
    <2>2. /\ NextFile(r, "read", "validate")
          /\ prev' = [prev EXCEPT ![File(r)] = pair[1]]
          /\ UNCHANGED <<cur, pair>>
      BY <1>19, <1>4, <1>5, <2>1
      DEF FillPrev, RollbackProgress, RollbackSteps
    <2>3. /\ File(r) = ca => at'[r].step = "validate"
          /\ File(r) # ca => at'[r].step = "read" /\ at'[r].file = File(r) + 1
      <3>1. "read" \in Steps /\ "validate" \in Steps
        BY DEF Steps, RollbackSteps
      <3>2. QED
        BY <2>2, <3>1, NextFileChanges
    <2>4. QED
      BY <1>4, <1>5, <2>1, <2>2, <2>3
      DEF RollbackProgress, Exchanged, Before, File, RollbackSteps, Working,
          Files, ca
  <1>20. Further
    BY <1>6, <1>7, <1>8, <1>9, <1>10, <1>11, <1>12, <1>13,
       <1>14, <1>15, <1>16, <1>17, <1>18, <1>19 DEF Call
  <1>21. \A q \in Calls \ {r} : at'[q].step \notin Working
    BY <1>1, <1>2
  <1>22. \A q \in Installs \ {r} : InstallProgress(q)'
    BY <1>21 DEF InstallProgress, Working, Calls
  <1>23. \A q \in Rollbacks \ {r} : RollbackProgress(q)'
    BY <1>21 DEF RollbackProgress, Working, RollbackSteps, Calls
  <1>24. QED
    BY <1>20, <1>22, <1>23
-----------------------------------------------------------------------------
(* The invariant is inductive when the calls are made one at a time.       *)

(* Initially every file holds the bundle the node was set up with.         *)
LEMMA InitIInv == Init => IInv
  BY TlsAssumption
  DEF Init, IInv, CallsInv, Typed, Kinds, Lone, OwnFile, Start, At, File,
      InstallsDoNotTear, ProgressInv, Before, InstallProgress,
      RollbackProgress, Contents, Bundles, Steps, InstallSteps,
      RollbackSteps, Working, Files, cert, Calls

(* A call that has not ended is at one of its steps.                       *)
LEMMA WorkingIsInFlight ==
  ASSUME Typed
  PROVE  InFlight = {r \in Calls : at[r].step \in Working}
  BY DEF Typed, InFlight, Steps, Working, InstallSteps, RollbackSteps

(* A call begins on whole files, after the one before it has ended.        *)
LEMMA BeginKeeps ==
  ASSUME Patience # "none", IInv, NEW r \in Calls, Begin(r)
  PROVE  IInv'
  <1> DEFINE s == IF r \in Installs THEN "copy" ELSE "check"
  <1>1. /\ \A q \in Calls : at[q].step \notin Working
        /\ UNCHANGED <<cur, prev, tmp, held, pair>>
        /\ at[r].step = "new" /\ at[r].file = cert /\ Move(r, s)
    BY WorkingIsInFlight
    DEF Begin, IInv, CallsInv, Start, File, At, files
  <1>2. s \in Steps /\ s \in Working
    BY DEF Steps, InstallSteps, RollbackSteps, Working
  <1> HIDE DEF s
  <1>3. /\ at' \in [Calls -> [step : Steps, file : Files]]
        /\ at'[r].step = s /\ at'[r].file = cert
        /\ \A q \in Calls \ {r} : at'[q] = at[q]
    BY <1>1, <1>2, MoveChanges DEF IInv, CallsInv
  <1>4. CallsInv'
    <2>1. Typed'
      BY <1>1, <1>3 DEF IInv, CallsInv, Typed
    <2>2. Kinds'
      BY <1>3, TlsAssumption
      DEF s, IInv, CallsInv, Kinds, InstallSteps, RollbackSteps, Calls
    <2>3. Lone' /\ Start'
      BY <1>1, <1>3 DEF Lone, Start, IInv, CallsInv, File
    <2>4. OwnFile'
      BY <1>1, <1>3 DEF s, OwnFile, At, File, IInv, CallsInv
    <2>5. QED
      BY <2>1, <2>2, <2>3, <2>4 DEF CallsInv
  <1>5. InstallsDoNotTear'
    BY <1>1, <1>3, TlsAssumption DEF s, IInv, InstallsDoNotTear, At, Calls
  <1>6. ProgressInv'
    <2>1. SUFFICES ASSUME Undisturbed'
                   PROVE  /\ ~ \A q \in Calls : at'[q].step \notin Working
                          /\ \A q \in Installs : InstallProgress(q)'
                          /\ \A q \in Rollbacks : RollbackProgress(q)'
      BY DEF ProgressInv
    <2>2. Undisturbed
      BY <1>1, <1>3, <2>1 DEF Undisturbed
    <2>3. \A f \in Files : Before(f) /\ Before(f)'
      BY <1>1, <2>2 DEF IInv, ProgressInv, Before
    <2>4. \A q \in Calls \ {r} : at'[q].step \notin Working
      BY <1>1, <1>3
    <2>5. r \in Installs => InstallProgress(r)'
      BY <1>1, <1>3, <2>3
      DEF s, InstallProgress, At, File, Before, InstallSteps, Files, cert
    <2>6. r \in Rollbacks => RollbackProgress(r)'
      BY <1>1, <1>3, <2>3, TlsAssumption
      DEF s, RollbackProgress, At, RollbackSteps
    <2>7. \A q \in Installs \ {r} : InstallProgress(q)'
      BY <2>4 DEF InstallProgress, At, Working, Calls
    <2>8. \A q \in Rollbacks \ {r} : RollbackProgress(q)'
      BY <2>4 DEF RollbackProgress, At, Working, RollbackSteps, Calls
    <2>9. QED
      BY <1>2, <1>3, <2>5, <2>6, <2>7, <2>8
  <1>7. QED
    BY <1>4, <1>5, <1>6 DEF IInv

(* A kill loses the call under way, and with it the promise on the files.  *)
LEMMA KillKeeps ==
  ASSUME IInv, Killed
  PROVE  IInv'
  <1>1. /\ UNCHANGED <<cur, prev, tmp, held, pair>>
        /\ at' \in [Calls -> [step : Steps, file : Files]]
        /\ \A r \in Calls :
             IF at[r].step \in Working THEN at'[r].step = "lost"
                                       ELSE at'[r] = at[r]
    <2>1. at' = [r \in Calls |-> IF at[r].step \in Working
                                   THEN [at[r] EXCEPT !.step = "lost"]
                                   ELSE at[r]]
      BY WorkingIsInFlight DEF IInv, CallsInv, Killed
    <2>2. UNCHANGED <<cur, prev, tmp, held, pair>>
      BY DEF Killed, files
    <2>3. \A r \in Calls : at[r] \in [step : Steps, file : Files]
      BY DEF IInv, CallsInv, Typed
    <2>4. QED
      BY <2>1, <2>2, <2>3 DEF Steps
  <1>2. \A r \in Calls : at'[r].step \notin Working
    BY <1>1 DEF Working, InstallSteps, RollbackSteps
  <1>3. CallsInv'
    <2>1. Typed' /\ Kinds'
      BY <1>1 DEF IInv, CallsInv, Typed, Kinds, Calls, InstallSteps,
                  RollbackSteps
    <2>2. Lone' /\ OwnFile'
      BY <1>2 DEF Lone, OwnFile, At, Working, InstallSteps
    <2>3. Start'
      BY <1>1, <1>2 DEF IInv, CallsInv, Start, File, Working, RollbackSteps
    <2>4. QED
      BY <2>1, <2>2, <2>3 DEF CallsInv
  <1>4. InstallsDoNotTear'
    BY <1>1 DEF IInv, InstallsDoNotTear, At, Calls
  <1>5. ProgressInv'
    <2>1. SUFFICES ASSUME Undisturbed'
                   PROVE  /\ \A f \in Files : Before(f)'
                          /\ \A q \in Installs : InstallProgress(q)'
                          /\ \A q \in Rollbacks : RollbackProgress(q)'
      BY DEF ProgressInv
    <2>2. \A r \in Calls : at[r].step \notin Working /\ at'[r] = at[r]
      BY <1>1, <2>1 DEF Undisturbed
    <2>3. Undisturbed
      BY <2>1, <2>2 DEF Undisturbed
    <2>4. \A f \in Files : Before(f)'
      BY <1>1, <2>2, <2>3 DEF IInv, ProgressInv, Before
    <2>5. \A q \in Installs : InstallProgress(q)'
      BY <1>2 DEF InstallProgress, At, Working, Calls
    <2>6. \A q \in Rollbacks : RollbackProgress(q)'
      BY <1>2 DEF RollbackProgress, At, Working, RollbackSteps, Calls
    <2>7. QED
      BY <2>4, <2>5, <2>6
  <1>6. QED
    BY <1>3, <1>4, <1>5 DEF IInv

(* What neither the tasks nor the listener touch.                          *)
LEMMA FilesUntouched ==
  ASSUME IInv, UNCHANGED <<cur, prev, tmp, at, held, pair>>
  PROVE  IInv'
  BY DEF IInv, CallsInv, Typed, Kinds, Lone, OwnFile, Start, At, File,
         InstallsDoNotTear, ProgressInv, Undisturbed, Before, Installed,
         Exchanged, InstallProgress, RollbackProgress

(* Every step of the calls, the tasks and the listener keeps it.           *)
LEMMA NextIInv ==
  ASSUME Patience # "none"
  PROVE  IInv /\ [Next]_vars => IInv'
  <1> SUFFICES ASSUME IInv, [Next]_vars PROVE IInv'
    OBVIOUS
  <1>1. ASSUME NEW r \in Calls, Begin(r) PROVE IInv'
    BY <1>1, BeginKeeps
  <1>2. ASSUME NEW r \in Calls, Call(r) PROVE IInv'
    BY <1>2, CallKeeps, CallProgresses DEF IInv
  <1>3. ASSUME NEW r \in Calls, Borrow(r) \/ Send(r) PROVE IInv'
    BY <1>3, FilesUntouched DEF Borrow, Send, files, calls
  <1>4. CASE Listener \/ CtrlC
    BY <1>4, FilesUntouched
    DEF Listener, Load, Bind, Changed, Drained, Compare, Restart, CtrlC,
        files, calls
  <1>5. CASE Killed
    BY <1>5, KillKeeps
  <1>6. CASE UNCHANGED vars
    BY <1>6, FilesUntouched DEF vars
  <1>7. QED
    BY <1>1, <1>2, <1>3, <1>4, <1>5, <1>6 DEF Next

-----------------------------------------------------------------------------
(* The theorems.                                                           *)

(* However the installs end, none of them leaves a file half written or    *)
(* with another content than a bundle's, when they are made one at a time. *)
THEOREM InstallsAreWhole ==
  ASSUME Patience # "none"
  PROVE  Spec => []InstallsDoNotTear
  <1>1. IInv => InstallsDoNotTear
    BY DEF IInv
  <1>2. IInv /\ [Next]_vars => IInv'
    BY NextIInv, Patience # "none"
  <1>3. QED
    BY <1>1, <1>2, InitIInv, PTL DEF Spec

(* Any series of installs and rollbacks made one at a time leaves the      *)
(* bundle it reported and the one before it, across reloads and kills.     *)
THEOREM FilesHoldThePair ==
  ASSUME Patience # "none"
  PROVE  Spec => []FilesAgree
  <1>1. IInv => FilesAgree
    <2>1. SUFFICES ASSUME IInv, InFlight = {}, Undisturbed
                   PROVE  \A f \in Files : Before(f)
      BY DEF FilesAgree, Before
    <2>2. \A r \in Calls : at[r].step \notin Working
      BY <2>1, WorkingIsInFlight DEF IInv, CallsInv
    <2>3. QED
      BY <2>1, <2>2 DEF IInv, ProgressInv
  <1>2. IInv /\ [Next]_vars => IInv'
    BY NextIInv, Patience # "none"
  <1>3. QED
    BY <1>1, <1>2, InitIInv, PTL DEF Spec
=============================================================================
