------------------------- MODULE AgentUpdateProofs -------------------------
(***************************************************************************)
(* What AgentUpdate guarantees for any number of artifacts, whichever of   *)
(* them are mismatched or broken, and whichever protocols are cut short.   *)
(***************************************************************************)
EXTENDS AgentUpdate, TLAPS

(* The phases in which a marked artifact is being activated.               *)
Activating == {"copy", "copying", "preserve", "note", "noting", "swap"}

(* What each process knows about the files at each of its steps.           *)
StepInv ==
    /\ phase \in ActivatePhases \cup {"boot", "running", "rollback",
                                       "setaside", "forget"} => exe # None
    /\ phase \in {"setaside", "restore"} => previous # None
    /\ phase = "preserve" => prevTmp = exe
    /\ phase \in Activating => marker # None

(* Every binary that can reach the executable's path was verified.         *)
VerifiedInv ==
    /\ \A a \in Artifacts : stg[a] = "verified" => a \notin Mismatched
    /\ marker # None => marker \notin Mismatched
    /\ prevTmp \in {None, Torn, Original} \cup (Artifacts \ Mismatched)
    /\ OnlyVerifiedRuns

IInv == TypeOK /\ StepInv /\ VerifiedInv

(* Where the confirmed executable is, when nobody stages in a window.      *)
Marked == marker # None /\ file[marker] # "absent"

GoodInv ==
    /\ GoodBinaryKept
    /\ previous \in {None, good}
    /\ state = "none" => exe = good
    /\ Marked => exe \in {None, good}
    /\ Marked /\ phase = "restore" => aside = good
    /\ phase \in Activating => Marked
    /\ phase \in {"note", "noting", "swap", "unmark"} => previous = good
    /\ phase = "swap" => state = "valid"
    /\ phase = "unmark" => ~Marked /\ state = "valid"
    /\ phase \in {"setaside", "restore", "forget"} => state = "valid"
    /\ phase = "forget" => exe = good
    /\ commit # "off" => phase = "running"
    /\ commit = "dropped" => exe = good
    /\ \A a \in Artifacts :
         stg[a] \in {"checked", "streaming", "verified"}
             => phase = "running" /\ state = "none"

(* An exit inside the window leaves nothing marked to activate.            *)
EarlyInv ==
    /\ phase \in {"boot", "running"} /\ state # "none" => marker = None
    /\ phase \in {"boot", "running", "unmark"} => lastExit = "other"
    /\ lastExit = "early" => marker = None

-----------------------------------------------------------------------------
(* Types, and the provenance of every installed binary.                    *)

(* The initial state satisfies the invariant.                              *)
LEMMA InitIInv == Init => IInv
  BY ConstantsAssumption
  DEF Init, IInv, TypeOK, StepInv, VerifiedInv, OnlyVerifiedRuns, Binaries,
      Phases, StageSteps, ActivatePhases, RollbackPhases, Activating

(* Every step of every process preserves types, step facts and provenance. *)
LEMMA NextIInv == IInv /\ [Next]_vars => IInv'
  <1> SUFFICES ASSUME IInv, [Next]_vars PROVE IInv'
    OBVIOUS
  <1> USE ConstantsAssumption
      DEF IInv, TypeOK, StepInv, VerifiedInv, OnlyVerifiedRuns, Binaries,
          Phases, StageSteps, ActivatePhases, RollbackPhases, Activating
  <1>1. ASSUME NEW a \in Artifacts, StageCheck(a) PROVE IInv'
    BY <1>1 DEF StageCheck, StepVars
  <1>2. ASSUME NEW a \in Artifacts, StageCreate(a) PROVE IInv'
    BY <1>2 DEF StageCreate, StepVars
  <1>3. ASSUME NEW a \in Artifacts, StageReject(a) PROVE IInv'
    BY <1>3 DEF StageReject, StepVars
  <1>4. ASSUME NEW a \in Artifacts, StageAbort(a) PROVE IInv'
    BY <1>4 DEF StageAbort, StepVars
  <1>5. ASSUME NEW a \in Artifacts, StageVerify(a) PROVE IInv'
    BY <1>5 DEF StageVerify, StepVars
  <1>6. ASSUME NEW a \in Artifacts, StageCommit(a) PROVE IInv'
    BY <1>6 DEF StageCommit, StepVars
  <1>7. ASSUME NEW a \in Artifacts, StageCommitFails(a) PROVE IInv'
    BY <1>7 DEF StageCommitFails, StepVars
  <1>8. CASE RestartPending
    BY <1>8 DEF RestartPending, diskVars, histVars, Rest
  <1>9. CASE RestartFails
    BY <1>9 DEF RestartFails, diskVars, histVars, Rest
  <1>10. CASE Exit
    BY <1>10 DEF Exit, Stop, diskVars, histVars, Rest
  <1>11. CASE ServiceRestart
    BY <1>11 DEF ServiceRestart, Stop, diskVars, histVars, Rest
  <1>12. CASE StartUnit
    BY <1>12 DEF StartUnit, Runnable, diskVars, histVars, Rest
  <1>13. CASE ManualRollback
    BY <1>13 DEF ManualRollback, Runnable, diskVars, histVars, Rest
  <1>14. CASE Boot
    BY <1>14 DEF Boot, Runnable, diskVars, histVars, Rest
  <1>15. CASE ActivateNothing
    BY <1>15 DEF ActivateNothing, Return, diskVars, histVars, Rest
  <1>16. CASE ActivateRollback
    BY <1>16 DEF ActivateRollback, Goto, diskVars, histVars, Rest
  <1>17. CASE ActivateRefused
    BY <1>17 DEF ActivateRefused, Fail, diskVars, histVars, Rest
  <1>18. CASE ActivatePending
    BY <1>18 DEF ActivatePending, Goto, diskVars, histVars, Rest
  <1>19. CASE CopyBegin
    BY <1>19 DEF CopyBegin, Goto, diskVars, histVars, Rest
  <1>20. CASE CopyEnd
    BY <1>20 DEF CopyEnd, Goto, diskVars, histVars, Rest
  <1>21. CASE PreservePrevious
    BY <1>21 DEF PreservePrevious, Goto, diskVars, histVars, Rest
  <1>22. CASE NoteBegin
    BY <1>22 DEF NoteBegin, Goto, diskVars, histVars, Rest
  <1>23. CASE NoteEnd
    BY <1>23 DEF NoteEnd, Goto, diskVars, histVars, Rest
  <1>24. CASE ReplaceBinary
    BY <1>24 DEF ReplaceBinary, Goto, diskVars, histVars, Rest
  <1>25. CASE RemoveMarker
    BY <1>25 DEF RemoveMarker, Return, diskVars, histVars, Rest
  <1>26. CASE RollbackNothing
    BY <1>26 DEF RollbackNothing, Return, diskVars, histVars, Rest
  <1>27. CASE RollbackRefused
    BY <1>27 DEF RollbackRefused, Fail, diskVars, histVars, Rest
  <1>28. CASE RollbackCheck
    BY <1>28 DEF RollbackCheck, Goto, diskVars, histVars, Rest
  <1>29. CASE SetAside
    BY <1>29 DEF SetAside, Goto, diskVars, histVars, Rest
  <1>30. CASE RestorePrevious
    BY <1>30 DEF RestorePrevious, Goto, diskVars, histVars, Rest
  <1>31. CASE RestoreFails
    BY <1>31 DEF RestoreFails, Fail, diskVars, histVars, Rest
  <1>32. CASE ForgetState
    BY <1>32 DEF ForgetState, Return, diskVars, histVars, Rest
  <1>33. CASE Kill
    BY <1>33 DEF Kill, Fail, diskVars, histVars, Rest
  <1>34. CASE CommitDropPrevious
    BY <1>34 DEF CommitDropPrevious, diskVars, histVars, Rest
  <1>35. CASE CommitForgetState
    BY <1>35 DEF CommitForgetState, diskVars, histVars, Rest
  <1>36. CASE UNCHANGED vars
    BY <1>36 DEF vars
  <1>37. QED
    BY <1>1, <1>2, <1>3, <1>4, <1>5, <1>6, <1>7, <1>8, <1>9,
       <1>10, <1>11, <1>12, <1>13, <1>14, <1>15, <1>16, <1>17, <1>18,
       <1>19, <1>20, <1>21, <1>22, <1>23, <1>24, <1>25, <1>26, <1>27,
       <1>28, <1>29, <1>30, <1>31, <1>32, <1>33, <1>34, <1>35, <1>36
    DEF Next, Stage, Activate, Rollback

(* Type correctness: in particular previous-agent is never a torn copy and *)
(* the binary a health commit confirms is one that exists.                 *)
THEOREM TypeCorrect == Spec => []TypeOK
  <1>1. IInv => TypeOK
    BY DEF IInv
  <1>2. QED
    BY <1>1, InitIInv, NextIInv, PTL DEF Spec

(* Only verified artifacts are ever installed, kept or restored.           *)
THEOREM VerifiedOnly == Spec => []OnlyVerifiedRuns
  <1>1. IInv => OnlyVerifiedRuns
    BY DEF IInv, VerifiedInv
  <1>2. QED
    BY <1>1, InitIInv, NextIInv, PTL DEF Spec

-----------------------------------------------------------------------------
(* The fallback.                                                           *)

(* Initially the operator's executable is installed and confirmed.         *)
LEMMA InitGood == Init => GoodInv
  BY ConstantsAssumption
  DEF Init, GoodInv, GoodBinaryKept, Marked, Activating

(* If nothing is staged inside a health window, no step of any process,    *)
(* cut short or not, separates the confirmed executable from its place.    *)
LEMMA NextGood ==
  ASSUME StageInWindow = FALSE
  PROVE  IInv /\ GoodInv /\ [Next]_vars => GoodInv'
  <1> SUFFICES ASSUME IInv, GoodInv, [Next]_vars PROVE GoodInv'
    OBVIOUS
  <1> USE ConstantsAssumption, StageInWindow = FALSE
      DEF IInv, TypeOK, StepInv, GoodInv, GoodBinaryKept, Marked, Binaries,
          ActivatePhases, RollbackPhases, Activating, StageSteps
  <1>1. ASSUME NEW a \in Artifacts, StageCheck(a) PROVE GoodInv'
    BY <1>1 DEF StageCheck, StepVars
  <1>2. ASSUME NEW a \in Artifacts, StageCreate(a) PROVE GoodInv'
    BY <1>2 DEF StageCreate, StepVars
  <1>3. ASSUME NEW a \in Artifacts, StageReject(a) PROVE GoodInv'
    BY <1>3 DEF StageReject, StepVars
  <1>4. ASSUME NEW a \in Artifacts, StageAbort(a) PROVE GoodInv'
    BY <1>4 DEF StageAbort, StepVars
  <1>5. ASSUME NEW a \in Artifacts, StageVerify(a) PROVE GoodInv'
    BY <1>5 DEF StageVerify, StepVars
  <1>6. ASSUME NEW a \in Artifacts, StageCommit(a) PROVE GoodInv'
    BY <1>6 DEF StageCommit, StepVars
  <1>7. ASSUME NEW a \in Artifacts, StageCommitFails(a) PROVE GoodInv'
    BY <1>7 DEF StageCommitFails, StepVars
  <1>8. CASE RestartPending
    BY <1>8 DEF RestartPending, diskVars, histVars, Rest
  <1>9. CASE RestartFails
    BY <1>9 DEF RestartFails, diskVars, histVars, Rest
  <1>10. CASE Exit
    BY <1>10 DEF Exit, Stop, diskVars, histVars, Rest
  <1>11. CASE ServiceRestart
    BY <1>11 DEF ServiceRestart, Stop, diskVars, histVars, Rest
  <1>12. CASE StartUnit
    BY <1>12 DEF StartUnit, Runnable, diskVars, histVars, Rest
  <1>13. CASE ManualRollback
    BY <1>13 DEF ManualRollback, Runnable, diskVars, histVars, Rest
  <1>14. CASE Boot
    BY <1>14 DEF Boot, Runnable, diskVars, histVars, Rest
  <1>15. CASE ActivateNothing
    BY <1>15 DEF ActivateNothing, Return, diskVars, histVars, Rest
  <1>16. CASE ActivateRollback
    BY <1>16 DEF ActivateRollback, Goto, diskVars, histVars, Rest
  <1>17. CASE ActivateRefused
    BY <1>17 DEF ActivateRefused, Fail, diskVars, histVars, Rest
  <1>18. CASE ActivatePending
    BY <1>18 DEF ActivatePending, Goto, diskVars, histVars, Rest
  <1>19. CASE CopyBegin
    BY <1>19 DEF CopyBegin, Goto, diskVars, histVars, Rest
  <1>20. CASE CopyEnd
    BY <1>20 DEF CopyEnd, Goto, diskVars, histVars, Rest
  <1>21. CASE PreservePrevious
    BY <1>21 DEF PreservePrevious, Goto, diskVars, histVars, Rest
  <1>22. CASE NoteBegin
    BY <1>22 DEF NoteBegin, Goto, diskVars, histVars, Rest
  <1>23. CASE NoteEnd
    BY <1>23 DEF NoteEnd, Goto, diskVars, histVars, Rest
  <1>24. CASE ReplaceBinary
    BY <1>24 DEF ReplaceBinary, Goto, diskVars, histVars, Rest
  <1>25. CASE RemoveMarker
    BY <1>25 DEF RemoveMarker, Return, diskVars, histVars, Rest
  <1>26. CASE RollbackNothing
    BY <1>26 DEF RollbackNothing, Return, diskVars, histVars, Rest
  <1>27. CASE RollbackRefused
    BY <1>27 DEF RollbackRefused, Fail, diskVars, histVars, Rest
  <1>28. CASE RollbackCheck
    BY <1>28 DEF RollbackCheck, Goto, diskVars, histVars, Rest
  <1>29. CASE SetAside
    BY <1>29 DEF SetAside, Goto, diskVars, histVars, Rest
  <1>30. CASE RestorePrevious
    BY <1>30 DEF RestorePrevious, Goto, diskVars, histVars, Rest
  <1>31. CASE RestoreFails
    BY <1>31 DEF RestoreFails, Fail, diskVars, histVars, Rest
  <1>32. CASE ForgetState
    BY <1>32 DEF ForgetState, Return, diskVars, histVars, Rest
  <1>33. CASE Kill
    BY <1>33 DEF Kill, Fail, diskVars, histVars, Rest
  <1>34. CASE CommitDropPrevious
    BY <1>34 DEF CommitDropPrevious, diskVars, histVars, Rest
  <1>35. CASE CommitForgetState
    BY <1>35 DEF CommitForgetState, diskVars, histVars, Rest
  <1>36. CASE UNCHANGED vars
    BY <1>36 DEF vars
  <1>37. QED
    BY <1>1, <1>2, <1>3, <1>4, <1>5, <1>6, <1>7, <1>8, <1>9,
       <1>10, <1>11, <1>12, <1>13, <1>14, <1>15, <1>16, <1>17, <1>18,
       <1>19, <1>20, <1>21, <1>22, <1>23, <1>24, <1>25, <1>26, <1>27,
       <1>28, <1>29, <1>30, <1>31, <1>32, <1>33, <1>34, <1>35, <1>36
    DEF Next, Stage, Activate, Rollback

(* The executable that last survived its health window is always installed *)
(* or kept as previous-agent, provided nothing is staged inside a window.  *)
THEOREM GoodBinarySurvives ==
  ASSUME StageInWindow = FALSE
  PROVE  Spec => []GoodBinaryKept
  <1>1. GoodInv => GoodBinaryKept
    BY DEF GoodInv
  <1>2. IInv /\ GoodInv /\ [Next]_vars => GoodInv'
    BY NextGood, StageInWindow = FALSE
  <1>3. QED
    BY <1>1, <1>2, InitIInv, NextIInv, InitGood, PTL DEF Spec

(* Initially no exit has been seen.                                        *)
LEMMA InitEarly == Init => EarlyInv
  BY DEF Init, EarlyInv

(* Nothing becomes marked between an exit inside the window and the next   *)
(* successful ExecStartPre.                                                *)
LEMMA NextEarly ==
  ASSUME StageInWindow = FALSE
  PROVE  IInv /\ GoodInv /\ EarlyInv /\ [Next]_vars => EarlyInv'
  <1> SUFFICES ASSUME IInv, GoodInv, EarlyInv, [Next]_vars PROVE EarlyInv'
    OBVIOUS
  <1> USE ConstantsAssumption, StageInWindow = FALSE
      DEF IInv, TypeOK, StepInv, GoodInv, Marked, EarlyInv,
          ActivatePhases, RollbackPhases, Activating
  <1>1. ASSUME NEW a \in Artifacts, StageCheck(a) PROVE EarlyInv'
    BY <1>1 DEF StageCheck, StepVars
  <1>2. ASSUME NEW a \in Artifacts, StageCreate(a) PROVE EarlyInv'
    BY <1>2 DEF StageCreate, StepVars
  <1>3. ASSUME NEW a \in Artifacts, StageReject(a) PROVE EarlyInv'
    BY <1>3 DEF StageReject, StepVars
  <1>4. ASSUME NEW a \in Artifacts, StageAbort(a) PROVE EarlyInv'
    BY <1>4 DEF StageAbort, StepVars
  <1>5. ASSUME NEW a \in Artifacts, StageVerify(a) PROVE EarlyInv'
    BY <1>5 DEF StageVerify, StepVars
  <1>6. ASSUME NEW a \in Artifacts, StageCommit(a) PROVE EarlyInv'
    BY <1>6 DEF StageCommit, StepVars
  <1>7. ASSUME NEW a \in Artifacts, StageCommitFails(a) PROVE EarlyInv'
    BY <1>7 DEF StageCommitFails, StepVars
  <1>8. CASE RestartPending
    BY <1>8 DEF RestartPending, diskVars, histVars, Rest
  <1>9. CASE RestartFails
    BY <1>9 DEF RestartFails, diskVars, histVars, Rest
  <1>10. CASE Exit
    BY <1>10 DEF Exit, Stop, diskVars, histVars, Rest
  <1>11. CASE ServiceRestart
    BY <1>11 DEF ServiceRestart, Stop, diskVars, histVars, Rest
  <1>12. CASE StartUnit
    BY <1>12 DEF StartUnit, Runnable, diskVars, histVars, Rest
  <1>13. CASE ManualRollback
    BY <1>13 DEF ManualRollback, Runnable, diskVars, histVars, Rest
  <1>14. CASE Boot
    BY <1>14 DEF Boot, Runnable, diskVars, histVars, Rest
  <1>15. CASE ActivateNothing
    BY <1>15 DEF ActivateNothing, Return, diskVars, histVars, Rest
  <1>16. CASE ActivateRollback
    BY <1>16 DEF ActivateRollback, Goto, diskVars, histVars, Rest
  <1>17. CASE ActivateRefused
    BY <1>17 DEF ActivateRefused, Fail, diskVars, histVars, Rest
  <1>18. CASE ActivatePending
    BY <1>18 DEF ActivatePending, Goto, diskVars, histVars, Rest
  <1>19. CASE CopyBegin
    BY <1>19 DEF CopyBegin, Goto, diskVars, histVars, Rest
  <1>20. CASE CopyEnd
    BY <1>20 DEF CopyEnd, Goto, diskVars, histVars, Rest
  <1>21. CASE PreservePrevious
    BY <1>21 DEF PreservePrevious, Goto, diskVars, histVars, Rest
  <1>22. CASE NoteBegin
    BY <1>22 DEF NoteBegin, Goto, diskVars, histVars, Rest
  <1>23. CASE NoteEnd
    BY <1>23 DEF NoteEnd, Goto, diskVars, histVars, Rest
  <1>24. CASE ReplaceBinary
    BY <1>24 DEF ReplaceBinary, Goto, diskVars, histVars, Rest
  <1>25. CASE RemoveMarker
    BY <1>25 DEF RemoveMarker, Return, diskVars, histVars, Rest
  <1>26. CASE RollbackNothing
    BY <1>26 DEF RollbackNothing, Return, diskVars, histVars, Rest
  <1>27. CASE RollbackRefused
    BY <1>27 DEF RollbackRefused, Fail, diskVars, histVars, Rest
  <1>28. CASE RollbackCheck
    BY <1>28 DEF RollbackCheck, Goto, diskVars, histVars, Rest
  <1>29. CASE SetAside
    BY <1>29 DEF SetAside, Goto, diskVars, histVars, Rest
  <1>30. CASE RestorePrevious
    BY <1>30 DEF RestorePrevious, Goto, diskVars, histVars, Rest
  <1>31. CASE RestoreFails
    BY <1>31 DEF RestoreFails, Fail, diskVars, histVars, Rest
  <1>32. CASE ForgetState
    BY <1>32 DEF ForgetState, Return, diskVars, histVars, Rest
  <1>33. CASE Kill
    BY <1>33 DEF Kill, Fail, diskVars, histVars, Rest
  <1>34. CASE CommitDropPrevious
    BY <1>34 DEF CommitDropPrevious, diskVars, histVars, Rest
  <1>35. CASE CommitForgetState
    BY <1>35 DEF CommitForgetState, diskVars, histVars, Rest
  <1>36. CASE UNCHANGED vars
    BY <1>36 DEF vars
  <1>37. QED
    BY <1>1, <1>2, <1>3, <1>4, <1>5, <1>6, <1>7, <1>8, <1>9,
       <1>10, <1>11, <1>12, <1>13, <1>14, <1>15, <1>16, <1>17, <1>18,
       <1>19, <1>20, <1>21, <1>22, <1>23, <1>24, <1>25, <1>26, <1>27,
       <1>28, <1>29, <1>30, <1>31, <1>32, <1>33, <1>34, <1>35, <1>36
    DEF Next, Stage, Activate, Rollback

(* The ExecStartPre that follows an exit inside the health window restores *)
(* the confirmed executable, provided nothing is staged inside a window.   *)
THEOREM EarlyExitIsUndone ==
  ASSUME StageInWindow = FALSE
  PROVE  Spec => EarlyExitRestores
  <1> DEFINE All == IInv /\ GoodInv /\ EarlyInv
             Restores == (lastExit = "early" /\ phase # "boot"
                            /\ phase' = "boot") => exe' = good
  <1>1. All /\ [Next]_vars => [Restores]_vars
    <2> SUFFICES ASSUME All, [Next]_vars, lastExit = "early", phase # "boot",
                        phase' = "boot"
                 PROVE  exe' = good
      BY DEF vars
    <2> USE DEF IInv, TypeOK, StepInv, GoodInv, EarlyInv, Activating,
                ActivatePhases, RollbackPhases
    <2>1. phase # "running" /\ marker = None
      OBVIOUS
    <2>2. CASE ActivateNothing \/ RollbackNothing \/ ForgetState
      BY <2>2 DEF ActivateNothing, RollbackNothing, ForgetState, diskVars, Rest
    <2>3. CASE RemoveMarker
      BY <2>3 DEF RemoveMarker
    <2>4. CASE Activate /\ ~ActivateNothing /\ ~RemoveMarker
      BY <2>4 DEF Activate, ActivateRollback, ActivateRefused, ActivatePending,
                  CopyBegin, CopyEnd, PreservePrevious, NoteBegin, NoteEnd,
                  ReplaceBinary, Goto, Fail
    <2>5. CASE Rollback /\ ~RollbackNothing /\ ~ForgetState
      BY <2>5 DEF Rollback, RollbackRefused, RollbackCheck, SetAside,
                  RestorePrevious, RestoreFails, Goto, Fail
    <2>6. ASSUME NEW a \in Artifacts, Stage(a) PROVE FALSE
      BY <2>6, <2>1 DEF Stage, StageCheck, StageCreate, StageReject,
                        StageAbort, StageVerify, StageCommit, StageCommitFails
    <2>7. CASE \/ RestartPending \/ RestartFails \/ Exit \/ ServiceRestart
               \/ CommitDropPrevious \/ CommitForgetState
      BY <2>7, <2>1 DEF RestartPending, RestartFails, Exit, ServiceRestart,
                        CommitDropPrevious, CommitForgetState
    <2>8. CASE StartUnit \/ ManualRollback \/ Boot \/ Kill
      BY <2>8 DEF StartUnit, ManualRollback, Boot, Kill, Fail
    <2>9. CASE UNCHANGED vars
      BY <2>9 DEF vars
    <2>10. QED
      BY <2>2, <2>3, <2>4, <2>5, <2>6, <2>7, <2>8, <2>9 DEF Next
  <1>2. Init => All
    BY InitIInv, InitGood, InitEarly
  <1>3. All /\ [Next]_vars => All'
    BY NextIInv, NextGood, NextEarly, StageInWindow = FALSE
  <1>4. QED
    <2>1. Spec => []All
      BY <1>2, <1>3, PTL DEF Spec
    <2>2. Spec => [][Restores]_vars
      BY <2>1, <1>1, PTL DEF Spec
    <2>3. QED
      BY <2>2 DEF EarlyExitRestores
-----------------------------------------------------------------------------
(* The trial.                                                              *)

(* An activation the next process inherits is recorded whole, with the     *)
(* confirmed executable to go back to; a rollback under way has moved the  *)
(* executable.                                                             *)
WatchInv ==
    /\ phase = "boot" /\ state # "none" => state = "valid" /\ previous = good
    /\ commit = "waiting" => state = "valid" /\ previous = good
    /\ phase = "restore" => exe = None

(* Initially there is no activation.                                       *)
LEMMA InitWatch == Init => WatchInv
  BY DEF Init, WatchInv

(* Only a whole activation hands over to the agent.                        *)
LEMMA NextWatch ==
  ASSUME StageInWindow = FALSE
  PROVE  IInv /\ GoodInv /\ WatchInv /\ [Next]_vars => WatchInv'
  <1> SUFFICES ASSUME IInv, GoodInv, WatchInv, [Next]_vars PROVE WatchInv'
    OBVIOUS
  <1> USE ConstantsAssumption, StageInWindow = FALSE
      DEF IInv, TypeOK, StepInv, GoodInv, Marked, WatchInv,
          ActivatePhases, RollbackPhases, Activating
  <1>1. ASSUME NEW a \in Artifacts, StageCheck(a) PROVE WatchInv'
    BY <1>1 DEF StageCheck, StepVars
  <1>2. ASSUME NEW a \in Artifacts, StageCreate(a) PROVE WatchInv'
    BY <1>2 DEF StageCreate, StepVars
  <1>3. ASSUME NEW a \in Artifacts, StageReject(a) PROVE WatchInv'
    BY <1>3 DEF StageReject, StepVars
  <1>4. ASSUME NEW a \in Artifacts, StageAbort(a) PROVE WatchInv'
    BY <1>4 DEF StageAbort, StepVars
  <1>5. ASSUME NEW a \in Artifacts, StageVerify(a) PROVE WatchInv'
    BY <1>5 DEF StageVerify, StepVars
  <1>6. ASSUME NEW a \in Artifacts, StageCommit(a) PROVE WatchInv'
    BY <1>6 DEF StageCommit, StepVars
  <1>7. ASSUME NEW a \in Artifacts, StageCommitFails(a) PROVE WatchInv'
    BY <1>7 DEF StageCommitFails, StepVars
  <1>8. CASE RestartPending
    BY <1>8 DEF RestartPending, diskVars, histVars, Rest
  <1>9. CASE RestartFails
    BY <1>9 DEF RestartFails, diskVars, histVars, Rest
  <1>10. CASE Exit
    BY <1>10 DEF Exit, Stop, diskVars, histVars, Rest
  <1>11. CASE ServiceRestart
    BY <1>11 DEF ServiceRestart, Stop, diskVars, histVars, Rest
  <1>12. CASE StartUnit
    BY <1>12 DEF StartUnit, Runnable, diskVars, histVars, Rest
  <1>13. CASE ManualRollback
    BY <1>13 DEF ManualRollback, Runnable, diskVars, histVars, Rest
  <1>14. CASE Boot
    BY <1>14 DEF Boot, Runnable, diskVars, histVars, Rest
  <1>15. CASE ActivateNothing
    BY <1>15 DEF ActivateNothing, Return, diskVars, histVars, Rest
  <1>16. CASE ActivateRollback
    BY <1>16 DEF ActivateRollback, Goto, diskVars, histVars, Rest
  <1>17. CASE ActivateRefused
    BY <1>17 DEF ActivateRefused, Fail, diskVars, histVars, Rest
  <1>18. CASE ActivatePending
    BY <1>18 DEF ActivatePending, Goto, diskVars, histVars, Rest
  <1>19. CASE CopyBegin
    BY <1>19 DEF CopyBegin, Goto, diskVars, histVars, Rest
  <1>20. CASE CopyEnd
    BY <1>20 DEF CopyEnd, Goto, diskVars, histVars, Rest
  <1>21. CASE PreservePrevious
    BY <1>21 DEF PreservePrevious, Goto, diskVars, histVars, Rest
  <1>22. CASE NoteBegin
    BY <1>22 DEF NoteBegin, Goto, diskVars, histVars, Rest
  <1>23. CASE NoteEnd
    BY <1>23 DEF NoteEnd, Goto, diskVars, histVars, Rest
  <1>24. CASE ReplaceBinary
    BY <1>24 DEF ReplaceBinary, Goto, diskVars, histVars, Rest
  <1>25. CASE RemoveMarker
    BY <1>25 DEF RemoveMarker, Return, diskVars, histVars, Rest
  <1>26. CASE RollbackNothing
    BY <1>26 DEF RollbackNothing, Return, diskVars, histVars, Rest
  <1>27. CASE RollbackRefused
    BY <1>27 DEF RollbackRefused, Fail, diskVars, histVars, Rest
  <1>28. CASE RollbackCheck
    BY <1>28 DEF RollbackCheck, Goto, diskVars, histVars, Rest
  <1>29. CASE SetAside
    BY <1>29 DEF SetAside, Goto, diskVars, histVars, Rest
  <1>30. CASE RestorePrevious
    BY <1>30 DEF RestorePrevious, Goto, diskVars, histVars, Rest
  <1>31. CASE RestoreFails
    BY <1>31 DEF RestoreFails, Fail, diskVars, histVars, Rest
  <1>32. CASE ForgetState
    BY <1>32 DEF ForgetState, Return, diskVars, histVars, Rest
  <1>33. CASE Kill
    BY <1>33 DEF Kill, Fail, diskVars, histVars, Rest
  <1>34. CASE CommitDropPrevious
    BY <1>34 DEF CommitDropPrevious, diskVars, histVars, Rest
  <1>35. CASE CommitForgetState
    BY <1>35 DEF CommitForgetState, diskVars, histVars, Rest
  <1>36. CASE UNCHANGED vars
    BY <1>36 DEF vars
  <1>37. QED
    BY <1>1, <1>2, <1>3, <1>4, <1>5, <1>6, <1>7, <1>8, <1>9,
       <1>10, <1>11, <1>12, <1>13, <1>14, <1>15, <1>16, <1>17, <1>18,
       <1>19, <1>20, <1>21, <1>22, <1>23, <1>24, <1>25, <1>26, <1>27,
       <1>28, <1>29, <1>30, <1>31, <1>32, <1>33, <1>34, <1>35, <1>36
    DEF Next, Stage, Activate, Rollback

(* Whatever happened before, a running agent can tell from the record of   *)
(* the activation whether it is on trial and what it would go back to.     *)
THEOREM StateTells ==
  ASSUME StageInWindow = FALSE
  PROVE  Spec => []StateTellsTrial
  <1>1. GoodInv /\ WatchInv => StateTellsTrial
    BY DEF GoodInv, WatchInv, StateTellsTrial
  <1>2. Init => IInv /\ GoodInv /\ WatchInv
    BY InitIInv, InitGood, InitWatch
  <1>3. IInv /\ GoodInv /\ WatchInv /\ [Next]_vars
          => (IInv /\ GoodInv /\ WatchInv)'
    BY NextIInv, NextGood, NextWatch, StageInWindow = FALSE
  <1>4. QED
    BY <1>1, <1>2, <1>3, PTL DEF Spec

(* Each step of the files is a step of the trial, or leaves it alone: the  *)
(* swap begins one, the health commit confirms it, and a rollback, or a    *)
(* kill in the middle of one, undoes it.                                   *)
LEMMA StepImplementsTrial ==
  ASSUME StageInWindow = FALSE
  PROVE  IInv /\ GoodInv /\ WatchInv /\ [Next]_vars
           => [Trial!Next]_(Trial!vars)
  <1> SUFFICES ASSUME IInv, GoodInv, WatchInv, [Next]_vars
               PROVE  Trial!Next \/ UNCHANGED <<good, Candidate>>
    BY DEF Trial!vars
  <1> USE ConstantsAssumption
      DEF IInv, TypeOK, StepInv, GoodInv, Marked, WatchInv, Activating,
          ActivatePhases, RollbackPhases
  <1>1. ASSUME UNCHANGED <<exe, good>>, phase # "restore", phase' # "restore"
        PROVE  UNCHANGED <<good, Candidate>>
    BY <1>1 DEF Candidate
  <1>2. CASE ReplaceBinary
    <2>1. exe = good /\ exe' = marker /\ marker \in Artifacts /\ good' = good
      BY <1>2 DEF ReplaceBinary, Goto, histVars
    <2>2. Candidate = None
      BY <2>1, <1>2 DEF ReplaceBinary, Candidate
    <2>3. Candidate' = IF marker = good THEN None ELSE marker
      BY <2>1, <1>2 DEF ReplaceBinary, Goto, Candidate
    <2>4. QED
      BY <2>1, <2>2, <2>3 DEF Trial!Next, Trial!Begin
  <1>3. CASE SetAside
    BY <1>3 DEF SetAside, Goto, histVars, Candidate
  <1>4. CASE RestorePrevious
    <2>1. exe' = good /\ good' = good /\ Candidate' = None
      BY <1>4 DEF RestorePrevious, Goto, histVars, Candidate
    <2>2. QED
      BY <2>1 DEF Trial!Next, Trial!Undo
  <1>5. CASE RestoreFails
    BY <1>5 DEF RestoreFails, Fail, histVars, Candidate
  <1>6. CASE Kill
    <2>1. CASE phase = "restore"
      <3>1. good' = good /\ Candidate' = None
        BY <1>6, <2>1 DEF Kill, Fail, histVars, diskVars, Candidate
      <3>2. QED
        BY <3>1 DEF Trial!Next, Trial!Undo
    <2>2. CASE phase # "restore"
      BY <1>6, <2>2, <1>1 DEF Kill, Fail, histVars, diskVars
    <2>3. QED
      BY <2>1, <2>2
  <1>7. CASE CommitDropPrevious
    <2>1. good' = exe /\ exe # None /\ Candidate' = None
      BY <1>7 DEF CommitDropPrevious, Candidate
    <2>2. Candidate = IF exe = good THEN None ELSE exe
      BY <1>7, <2>1 DEF CommitDropPrevious, Candidate
    <2>3. QED
      BY <2>1, <2>2 DEF Trial!Next, Trial!Confirm
  <1>8. ASSUME NEW a \in Artifacts, Stage(a)
        PROVE  UNCHANGED <<good, Candidate>>
    BY <1>8, <1>1
    DEF Stage, StageCheck, StageCreate, StageReject, StageAbort, StageVerify,
        StageCommit, StageCommitFails, StepVars
  <1>9. CASE \/ RestartPending \/ RestartFails \/ Exit \/ ServiceRestart
             \/ StartUnit \/ ManualRollback \/ Boot \/ CommitForgetState
    BY <1>9, <1>1
    DEF RestartPending, RestartFails, Exit, ServiceRestart, Stop, StartUnit,
        ManualRollback, Boot, CommitForgetState, diskVars, histVars
  <1>10. CASE Activate /\ ~ReplaceBinary
    BY <1>10, <1>1
    DEF Activate, ActivateNothing, ActivateRollback, ActivateRefused,
        ActivatePending, CopyBegin, CopyEnd, PreservePrevious, NoteBegin,
        NoteEnd, RemoveMarker, Goto, Fail, Return, diskVars, histVars
  <1>11. CASE Rollback /\ ~(SetAside \/ RestorePrevious \/ RestoreFails)
    BY <1>11, <1>1
    DEF Rollback, RollbackNothing, RollbackRefused, RollbackCheck,
        ForgetState, Goto, Fail, Return, diskVars, histVars
  <1>12. CASE UNCHANGED vars
    BY <1>12 DEF vars, Candidate
  <1>13. QED
    BY <1>2, <1>3, <1>4, <1>5, <1>6, <1>7, <1>8, <1>9, <1>10, <1>11, <1>12
    DEF Next

(* The files implement the trial protocol of UpdateTrial across kills at   *)
(* every step, provided nothing is staged inside a window.                 *)
THEOREM FilesImplementTrial ==
  ASSUME StageInWindow = FALSE
  PROVE  Spec => ImplementsTrial
  <1>1. Init => Trial!Init
    BY ConstantsAssumption DEF Init, Trial!Init, Candidate
  <1>2. Init => IInv /\ GoodInv /\ WatchInv
    BY InitIInv, InitGood, InitWatch
  <1>3. IInv /\ GoodInv /\ WatchInv /\ [Next]_vars
          => (IInv /\ GoodInv /\ WatchInv)'
    BY NextIInv, NextGood, NextWatch, StageInWindow = FALSE
  <1>4. IInv /\ GoodInv /\ WatchInv /\ [Next]_vars
          => [Trial!Next]_(Trial!vars)
    BY StepImplementsTrial, StageInWindow = FALSE
  <1>5. QED
    BY <1>1, <1>2, <1>3, <1>4, PTL DEF Spec, ImplementsTrial, Trial!Spec
=============================================================================
