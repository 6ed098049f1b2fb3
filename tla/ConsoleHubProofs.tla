-------------------------- MODULE ConsoleHubProofs --------------------------
(***************************************************************************)
(* What the console hub guarantees for any number of servers, viewers and  *)
(* reader tasks.                                                           *)
(***************************************************************************)
EXTENDS ConsoleHub, FiniteSetTheorems, TLAPS

(* The inventory's part of the types.                                      *)
InventoryType ==
    /\ container \subseteq Servers
    /\ desired \subseteq Servers /\ additions \subseteq Servers
    /\ inflight \in [Servers -> SUBSET Calls]
    /\ snapshot \subseteq SUBSET Servers
    /\ viewer \in [Viewers -> [at : {"off", "attaching", "on"},
                               id : Servers, chan : Chans]]
    /\ sender \in [Servers -> Chans]

(* A call owed to the hub tells what its RPC did to the container.         *)
FlightInv ==
    \A s \in Servers :
        /\ "track" \in inflight[s] => s \in container
        /\ "refresh" \in inflight[s] => s \in container
        /\ "remove" \in inflight[s] => s \notin container

(* Before the first inventory: what an inventory in flight gets wrong      *)
(* about a settled server, the deltas put right.                           *)
DeltaInv ==
    ~initialized => \A s \in Servers :
        /\ s \in container /\ "track" \notin inflight[s] =>
             /\ s \notin removals
             /\ \A ids \in snapshot : s \in ids \/ s \in additions
        /\ s \notin container /\ "remove" \notin inflight[s] =>
             /\ s \notin additions
             /\ \A ids \in snapshot : s \notin ids \/ s \in removals

(* After it: the hub agrees with Docker about every settled server.        *)
SettledInv ==
    initialized => \A s \in Servers :
        /\ s \in container /\ "track" \notin inflight[s] => s \in desired
        /\ s \notin container /\ "remove" \notin inflight[s]
             => s \notin desired

InventoryInv == InventoryType /\ FlightInv /\ DeltaInv /\ SettledInv

(* Nothing is pending and nothing initialized when the agent starts.       *)
LEMMA InitInventory == Init => InventoryInv
  BY HubAssumption
  DEF Init, InventoryInv, InventoryType, FlightInv, DeltaInv, SettledInv,
      Calls, NoViewer, AnyServer, Chans

(* Every step preserves the agreement if the panel does not overlap RPCs.  *)
LEMMA NextInventory ==
  ASSUME Overlap = FALSE
  PROVE  InventoryInv /\ [Next]_vars => InventoryInv'
  <1> SUFFICES ASSUME InventoryInv, [Next]_vars PROVE InventoryInv'
    OBVIOUS
  <1> USE HubAssumption, Overlap = FALSE
      DEF InventoryInv, InventoryType, FlightInv, DeltaInv, SettledInv, Calls,
          Idle, Chans, NextChan, NoViewer
  <1>0. AnyServer \in Servers
    BY DEF AnyServer
  <1>1. ASSUME NEW s \in Servers, CreateServer(s) PROVE InventoryInv'
    BY <1>1 DEF CreateServer, hubVars
  <1>2. ASSUME NEW s \in Servers, StartServer(s) PROVE InventoryInv'
    BY <1>2 DEF StartServer, hubVars
  <1>3. ASSUME NEW s \in Servers, DeleteServer(s) PROVE InventoryInv'
    BY <1>3 DEF DeleteServer, hubVars
  <1>4. ASSUME NEW s \in Servers, ContainerStops(s) PROVE InventoryInv'
    BY <1>4 DEF ContainerStops, hubVars
  <1>5. ASSUME NEW s \in Servers, ContainerRestarts(s) PROVE InventoryInv'
    BY <1>5 DEF ContainerRestarts, hubVars
  <1>6. ASSUME NEW s \in Servers, track_server(s) PROVE InventoryInv'
    BY <1>6 DEF track_server, record_addition
  <1>7. ASSUME NEW s \in Servers, refresh_server(s) PROVE InventoryInv'
    BY <1>7 DEF refresh_server, record_addition
  <1>8. ASSUME NEW s \in Servers, remove(s) PROVE InventoryInv'
    BY <1>8 DEF remove, stop_reader
  <1>9. ASSUME NEW s \in Servers, publish(s) PROVE InventoryInv'
    BY <1>9 DEF publish, world, inventory
  <1>10. ASSUME NEW s \in Servers, detach_reader(s) PROVE InventoryInv'
    BY <1>10 DEF detach_reader, world, inventory
  <1>11. ASSUME NEW s \in Servers, wake_reader(s) PROVE InventoryInv'
    BY <1>11 DEF wake_reader, world, inventory
  <1>12. ASSUME NEW v \in Viewers, NEW s \in Servers, Attach(v, s) PROVE InventoryInv'
    BY <1>12 DEF Attach, world, inventory
  <1>13. ASSUME NEW v \in Viewers, subscribe(v) PROVE InventoryInv'
    BY <1>13 DEF subscribe, validate_subscription, world, inventory
  <1>14. ASSUME NEW v \in Viewers, AttachRefused(v) PROVE InventoryInv'
    BY <1>14, <1>0 DEF AttachRefused, world
  <1>15. ASSUME NEW v \in Viewers, Leave(v) PROVE InventoryInv'
    BY <1>15, <1>0 DEF Leave, world, inventory
  <1>16. ASSUME NEW v \in Viewers, StreamEnds(v) PROVE InventoryInv'
    BY <1>16, <1>0 DEF StreamEnds, world, inventory
  <1>17. ASSUME NEW t \in Tasks, LoopTop(t) PROVE InventoryInv'
    BY <1>17 DEF LoopTop, End, otherVars
  <1>18. ASSUME NEW t \in Tasks, ReadLine(t) PROVE InventoryInv'
    BY <1>18 DEF ReadLine, Go, End, otherVars
  <1>19. ASSUME NEW t \in Tasks, StreamBreaks(t) PROVE InventoryInv'
    BY <1>19 DEF StreamBreaks, Go, otherVars
  <1>20. ASSUME NEW t \in Tasks, Woken(t) PROVE InventoryInv'
    BY <1>20 DEF Woken, otherVars
  <1>21. ASSUME NEW t \in Tasks, Push(t) PROVE InventoryInv'
    BY <1>21 DEF Push, Go, End, otherVars
  <1>22. ASSUME NEW t \in Tasks, Send(t) PROVE InventoryInv'
    BY <1>22 DEF Send, Go, End, otherVars
  <1>23. ASSUME NEW t \in Tasks, Check(t) PROVE InventoryInv'
    BY <1>23 DEF Check, Go, End, otherVars
  <1>24. ASSUME NEW t \in Tasks, Reconnect(t) PROVE InventoryInv'
    BY <1>24 DEF Reconnect, Go, otherVars
  <1>25. ASSUME NEW t \in Tasks, Park(t) PROVE InventoryInv'
    BY <1>25 DEF Park, otherVars
  <1>26. ASSUME NEW t \in Tasks, Aborted(t) PROVE InventoryInv'
    BY <1>26 DEF Aborted, Go, End, otherVars
  <1>27. ASSUME NEW t \in Tasks, IdleExpires(t) PROVE InventoryInv'
    BY <1>27 DEF IdleExpires, Go, otherVars
  <1>28. ASSUME NEW t \in Tasks, Retire(t) PROVE InventoryInv'
    BY <1>28 DEF Retire, Go, End, world, inventory
  <1>29. CASE CaptureInventory
    BY <1>29 DEF CaptureInventory, hubVars
  <1>30. CASE synchronize_servers
    <2> DEFINE wanted == ((UNION snapshot) \cup additions) \ removals
    <2>1. /\ initialized' = TRUE /\ snapshot' = {} /\ additions' = {}
          /\ desired' = wanted
          /\ ~initialized /\ snapshot # {}
          /\ UNCHANGED <<container, inflight, viewer, sender>>
      BY <1>30 DEF synchronize_servers
    <2>2. ASSUME NEW s \in Servers, s \in container,
                 "track" \notin inflight[s]
          PROVE  s \in wanted
      <3>1. PICK ids \in snapshot : TRUE
        BY <2>1
      <3>2. s \notin removals /\ (s \in ids \/ s \in additions)
        BY <2>1, <2>2, <3>1 DEF DeltaInv, InventoryInv
      <3>3. QED
        BY <3>1, <3>2
    <2>3. ASSUME NEW s \in Servers, s \notin container,
                 "remove" \notin inflight[s]
          PROVE  s \notin wanted
      <3>1. /\ s \notin additions
            /\ \A ids \in snapshot : s \notin ids \/ s \in removals
        BY <2>1, <2>3 DEF DeltaInv, InventoryInv
      <3>2. QED
        BY <3>1
    <2>4. wanted \subseteq Servers
      <3>1. (UNION snapshot) \subseteq Servers
        BY DEF InventoryInv, InventoryType
      <3>2. QED
        BY <3>1 DEF InventoryInv, InventoryType
    <2> HIDE DEF wanted
    <2>5. InventoryType'
      BY <2>1, <2>4
    <2>6. FlightInv'
      BY <2>1
    <2>7. DeltaInv' /\ SettledInv'
      BY <2>1, <2>2, <2>3
    <2>8. QED
      BY <2>5, <2>6, <2>7
  <1>31. CASE SyncAgain
    BY <1>31 DEF SyncAgain, hubVars
  <1>32. CASE DropSenders
    BY <1>32 DEF DropSenders, world, inventory
  <1>33. CASE DropIdleSender
    BY <1>33 DEF DropIdleSender, world, inventory
  <1>34. CASE DropHistory
    BY <1>34 DEF DropHistory, world, inventory
  <1>35. CASE ScanBegins
    BY <1>35 DEF ScanBegins, hubVars
  <1>36. CASE UNCHANGED vars
    BY <1>36 DEF vars
  <1>37. QED
    BY <1>1, <1>2, <1>3, <1>4, <1>5, <1>6, <1>7, <1>8, <1>9, <1>10,
       <1>11, <1>12, <1>13, <1>14, <1>15, <1>16, <1>17, <1>18, <1>19, <1>20,
       <1>21, <1>22, <1>23, <1>24, <1>25, <1>26, <1>27, <1>28, <1>29, <1>30,
       <1>31, <1>32, <1>33, <1>34, <1>35, <1>36
    DEF Next, ServerStep, ViewerStep, ReaderStep

(* Once the first inventory is in, the hub's idea of which servers are     *)
(* assigned agrees with Docker's for every server no handler is busy with. *)
THEOREM InventoryAgrees ==
  ASSUME Overlap = FALSE
  PROVE  Spec => []InventoryConverges
  <1>1. InventoryInv => InventoryConverges
    BY DEF InventoryInv, SettledInv, InventoryConverges
  <1>2. InventoryInv /\ [Next]_vars => InventoryInv'
    BY NextInventory, Overlap = FALSE
  <1>3. QED
    BY <1>1, <1>2, InitInventory, PTL DEF Spec

-----------------------------------------------------------------------------
(* Readers, channels and lines: also when the panel overlaps its RPCs.     *)

ReaderType ==
    /\ container \subseteq Servers /\ snapshot \subseteq SUBSET Servers
    /\ desired \subseteq Servers /\ additions \subseteq Servers
    /\ reader \in [Servers -> 0 .. MaxTasks]
    /\ lock \in [op : {"free", "senders", "idle", "history"},
                 ids : SUBSET Servers, chan : Chans]
    /\ lock.op = "free" => lock = Free
    /\ task \in [Tasks -> [at : Steps, id : Servers, chan : Chans,
                           inc : Nat, flags : SUBSET Flags]]
    /\ sender \in [Servers -> Chans]
    /\ delivered \in [Servers -> SUBSET Nat]
    /\ history \in [Servers -> SUBSET Nat]
    /\ viewer \in [Viewers -> [at : {"off", "attaching", "on"},
                               id : Servers, chan : Chans]]
    /\ inc \in [Servers -> Nat]

(* A reader in the map is an active task of its server, which is desired.  *)
MapInv ==
    \A s \in Servers : reader[s] # 0 =>
        /\ task[reader[s]].at # "unused" /\ task[reader[s]].id = s
        /\ Is(reader[s], "active") /\ task[reader[s]].chan # 0
        /\ s \in desired

(* An active task is in the map, and reads the present incarnation.        *)
ActiveInv ==
    \A t \in Tasks : Is(t, "active") =>
        reader[task[t].id] = t /\ task[t].inc = inc[task[t].id]

(* What the holder of the lifecycle mutex leaves between two of its steps. *)
LockInv ==
    /\ \A s \in lock.ids : reader[s] = 0
    /\ lock.op = "idle" =>
         /\ \A s \in lock.ids : sender[s] = lock.chan
         /\ Receivers(lock.chan) = {}
    /\ lock.op = "history" => \A s \in lock.ids : sender[s] = 0

(* A server has a channel as long as it has a reader, and it is that one's.*)
ChannelInv ==
    /\ \A s \in Servers \ lock.ids :
         IF reader[s] = 0 THEN sender[s] = 0
                          ELSE sender[s] = task[reader[s]].chan
    /\ \A v \in Viewers : viewer[v].at = "on" => viewer[v].chan # 0

(* What is retained or sent is of the present incarnation, except while the*)
(* mutex's holder is about to clear it.                                    *)
LineInv ==
    \A s \in Servers :
        /\ s \notin lock.ids => history[s] \subseteq {inc[s]}
        /\ sender[s] # 0 =>
             \/ delivered[s] \subseteq {inc[s]}
             \/ s \in lock.ids /\ lock.op = "senders"

HubInv ==
    /\ ReaderType /\ MapInv /\ ActiveInv /\ LockInv /\ ChannelInv /\ LineInv
    /\ ReaderBound

(* What a task keeps as long as it is one: its server, its channel, the    *)
(* incarnation it reads and whether it is still wanted.                    *)
Keeps(t) ==
    /\ task[t].at # "unused" => task'[t].at # "unused"
    /\ task'[t].id = task[t].id /\ task'[t].chan = task[t].chan
    /\ task'[t].inc = task[t].inc
    /\ Is(t, "active")' <=> Is(t, "active")

(* A step that neither takes a reader out of the map nor puts one in, and  *)
(* gives no viewer a channel.                                              *)
Calm ==
    /\ UNCHANGED <<reader, lock, sender, inc>>
    /\ ReaderType' /\ desired \subseteq desired'
    /\ \A v \in Viewers : viewer'[v].at = "on" => viewer'[v] = viewer[v]
    /\ \A t \in Tasks :
         Keeps(t) \/ (~Is(t, "active") /\ task'[t] = NoTask)
    /\ \A s \in Servers :
         /\ history'[s] \subseteq history[s] \cup {inc[s]}
         /\ delivered'[s] \subseteq delivered[s] \cup {inc[s]}

(* A bound on a set bounds its subsets, and leaves room for one more where *)
(* it is not reached.                                                      *)
LEMMA StillBounded ==
  ASSUME ReaderBound,
         \/ ActiveReaders' \subseteq ActiveReaders
         \/ /\ \E s \in Servers : ActiveReaders' \subseteq ActiveReaders \cup {s}
            /\ Cardinality(ActiveReaders) < MaxReaders
  PROVE  ReaderBound'
  <1>1. ActiveReaders \subseteq Servers /\ IsFiniteSet(Servers)
        /\ IsFiniteSet(ActiveReaders) /\ MaxReaders \in Nat
    BY FS_Subset, HubAssumption DEF ActiveReaders
  <1>2. Cardinality(ActiveReaders) \in Nat
    BY <1>1, FS_CardinalityType
  <1>3. CASE ActiveReaders' \subseteq ActiveReaders
    <2>1. Cardinality(ActiveReaders') <= Cardinality(ActiveReaders)
          /\ Cardinality(ActiveReaders') \in Nat
      BY <1>1, <1>3, FS_Subset, FS_CardinalityType
    <2>2. QED
      BY <2>1, <1>1, <1>2 DEF ReaderBound
  <1>4. CASE /\ \E s \in Servers : ActiveReaders' \subseteq ActiveReaders \cup {s}
             /\ Cardinality(ActiveReaders) < MaxReaders
    <2>1. PICK s \in Servers : ActiveReaders' \subseteq ActiveReaders \cup {s}
      BY <1>4
    <2>2. IsFiniteSet(ActiveReaders \cup {s})
          /\ Cardinality(ActiveReaders \cup {s})
               \in {Cardinality(ActiveReaders), Cardinality(ActiveReaders) + 1}
      BY <1>1, FS_AddElement
    <2>3. Cardinality(ActiveReaders') <= Cardinality(ActiveReaders \cup {s})
          /\ Cardinality(ActiveReaders') \in Nat
      BY <2>1, <2>2, FS_Subset, FS_CardinalityType
    <2>4. QED
      BY <2>2, <2>3, <1>1, <1>2, <1>4 DEF ReaderBound
  <1>5. QED
    BY <1>3, <1>4

(* A calm step preserves the invariant.                                    *)
LEMMA CalmKeeps == HubInv /\ Calm => HubInv'
  <1> SUFFICES ASSUME HubInv, Calm PROVE HubInv'
    OBVIOUS
  <1>1. \A s \in Servers : reader[s] # 0 => reader[s] \in Tasks
    BY HubAssumption DEF HubInv, ReaderType, Tasks
  <1>2. ASSUME NEW t \in Tasks, Is(t, "active") PROVE Keeps(t)
    BY <1>2 DEF Calm
  <1>3. ASSUME NEW t \in Tasks, Is(t, "active")' PROVE Keeps(t) /\ Is(t, "active")
    BY <1>3 DEF Calm, Keeps, Is, NoTask
  <1>4. MapInv'
    BY <1>1, <1>2 DEF Calm, HubInv, MapInv, Keeps
  <1>5. ActiveInv'
    BY <1>3 DEF Calm, HubInv, ActiveInv, Keeps, ReaderType
  <1>6. \A c : Receivers(c)' \subseteq Receivers(c)
    BY DEF Calm, Receivers
  <1>7. LockInv'
    BY <1>6 DEF Calm, HubInv, LockInv
  <1>8. ChannelInv'
    BY <1>1, <1>2 DEF Calm, HubInv, ChannelInv, MapInv, Keeps
  <1>9. LineInv'
    BY DEF Calm, HubInv, LineInv
  <1>10. ReaderBound'
    <2>1. ActiveReaders' \subseteq ActiveReaders
      BY <1>1 DEF Calm, HubInv, MapInv, ActiveReaders, HasReader
    <2>2. QED
      BY <2>1, StillBounded DEF HubInv
  <1>11. QED
    BY <1>4, <1>5, <1>7, <1>8, <1>9, <1>10 DEF HubInv, Calm

(* No reader, no channel and no line when the agent starts.                *)
LEMMA InitHub == Init => HubInv
  <1> SUFFICES ASSUME Init PROVE HubInv
    OBVIOUS
  <1>1. AnyServer \in Servers
    BY HubAssumption DEF AnyServer
  <1>2. ReaderType
    BY <1>1, HubAssumption
    DEF Init, ReaderType, Free, NoTask, NoViewer, Chans, Steps
  <1>3. MapInv /\ ActiveInv /\ LockInv /\ ChannelInv /\ LineInv
    BY DEF Init, MapInv, ActiveInv, LockInv, ChannelInv, LineInv, Free,
           NoTask, NoViewer, Is
  <1>4. ReaderBound
    <2>1. ActiveReaders = {}
      BY DEF Init, ActiveReaders, HasReader
    <2>2. QED
      BY <2>1, FS_EmptySet, HubAssumption DEF ReaderBound
  <1>5. QED
    BY <1>2, <1>3, <1>4 DEF HubInv

(* A line of the present incarnation is added to one server's lines.       *)
LEMMA LineAdded ==
  ASSUME NEW lines \in [Servers -> SUBSET Nat], NEW more, NEW r \in Servers,
         inc \in [Servers -> Nat],
         more = [lines EXCEPT ![r] = @ \cup {inc[r]}]
  PROVE  /\ more \in [Servers -> SUBSET Nat]
         /\ \A s \in Servers : more[s] \subseteq lines[s] \cup {inc[s]}
  <1>1. lines[r] \cup {inc[r]} \in SUBSET Nat
    OBVIOUS
  <1>2. more = [s \in Servers |-> IF s = r THEN lines[r] \cup {inc[r]}
                                          ELSE lines[s]]
    OBVIOUS
  <1>3. more \in [Servers -> SUBSET Nat]
    BY <1>1, <1>2
  <1>4. \A s \in Servers : more[s] = IF s = r THEN lines[r] \cup {inc[r]}
                                             ELSE lines[s]
    BY <1>2
  <1>5. QED
    BY <1>3, <1>4

(* Notes left for a reader in its shared flags leave it what it is.        *)
LEMMA FlagsAreCalm ==
  ASSUME ReaderType, NEW r \in Tasks, NEW F \in SUBSET Flags,
         ("active" \in F) <=> Is(r, "active"),
         task' = [task EXCEPT ![r].flags = F]
  PROVE  /\ task' \in [Tasks -> [at : Steps, id : Servers, chan : Chans,
                                inc : Nat, flags : SUBSET Flags]]
         /\ \A t \in Tasks : Keeps(t)
  <1>1. ASSUME NEW t \in Tasks
        PROVE  /\ task'[t] = IF t = r THEN [task[t] EXCEPT !.flags = F]
                             ELSE task[t]
               /\ task[t] \in [at : Steps, id : Servers, chan : Chans,
                               inc : Nat, flags : SUBSET Flags]
    BY DEF ReaderType
  <1>2. \A t \in Tasks : Keeps(t)
    BY <1>1 DEF Keeps, Is
  <1>3. QED
    BY <1>1, <1>2 DEF ReaderType

(* What a reader task does on its own is calm: it ends only when it has    *)
(* been stopped, and an active one reads its server's present incarnation. *)
LEMMA ReaderIsCalm ==
  ASSUME HubInv, NEW t \in Tasks, ReaderStep(t), ~Retire(t)
  PROVE  Calm
  <1> USE DEF ReaderType, Keeps, Is, otherVars
  <1>1. AnyServer \in Servers
    BY HubAssumption DEF AnyServer
  <1>2. NoTask \in [at : Steps, id : Servers, chan : Chans, inc : Nat,
                   flags : SUBSET Flags]
    BY <1>1, HubAssumption DEF NoTask, Steps, Chans
  <1>3. Is(t, "active") => task[t].inc = inc[task[t].id]
    BY DEF HubInv, ActiveInv
  <1>4. ReaderType /\ task[t].id \in Servers
    BY DEF HubInv
  <1>5. CASE LoopTop(t)
    <2>1. CASE Is(t, "active")
      <3> DEFINE p == IF Is(t, "suspended") THEN "parked" ELSE "reading"
                 F == IF Is(t, "suspended") THEN task[t].flags \cup {"parked"}
                      ELSE task[t].flags \ {"parked"}
      <3>1. task' = [task EXCEPT ![t].at = p, ![t].flags = F]
        BY <1>5, <2>1 DEF LoopTop
      <3>2. p \in Steps \ {"unused"} /\ F \in SUBSET Flags
            /\ ("active" \in F <=> "active" \in task[t].flags)
        <4>1. task[t].flags \in SUBSET Flags
          BY <1>4
        <4> HIDE DEF ReaderType, Keeps, otherVars
        <4>2. QED
          BY <4>1 DEF Steps, Flags
      <3> HIDE DEF p, F
      <3>3. /\ task' \in [Tasks -> [at : Steps, id : Servers, chan : Chans,
                                   inc : Nat, flags : SUBSET Flags]]
            /\ \A u \in Tasks : Keeps(u)
        <4>1. task'[t] = [task[t] EXCEPT !.at = p, !.flags = F]
          BY <3>1, <1>4
        <4>2. task'[t] \in [at : Steps, id : Servers, chan : Chans,
                           inc : Nat, flags : SUBSET Flags]
          <5>1. task[t] \in [at : Steps, id : Servers, chan : Chans,
                             inc : Nat, flags : SUBSET Flags]
            BY <1>4
          <5> HIDE DEF ReaderType, Keeps, otherVars, Is
          <5>2. QED
            BY <3>2, <4>1, <5>1
        <4>3. \A u \in Tasks \ {t} : task'[u] = task[u]
          BY <3>1, <1>4
        <4>4. task' \in [Tasks -> [at : Steps, id : Servers, chan : Chans,
                                  inc : Nat, flags : SUBSET Flags]]
          BY <3>1, <4>2, <1>4
        <4>5. Keeps(t)
          BY <3>2, <4>1, <1>4
        <4>6. QED
          BY <4>3, <4>4, <4>5
      <3>4. UNCHANGED <<otherVars, delivered, history>>
        BY <1>5 DEF LoopTop
      <3>5. QED
        BY <3>3, <3>4, <1>4 DEF Calm
    <2>2. CASE ~Is(t, "active")
      <3>1. task' = [task EXCEPT ![t] = NoTask]
        BY <1>5, <2>2 DEF LoopTop, End
      <3>2. UNCHANGED <<otherVars, delivered, history>>
        BY <1>5 DEF LoopTop
      <3>3. /\ task' \in [Tasks -> [at : Steps, id : Servers, chan : Chans,
                                   inc : Nat, flags : SUBSET Flags]]
            /\ \A u \in Tasks : Keeps(u) \/ (u = t /\ task'[u] = NoTask)
        BY <3>1, <1>2, <1>4
      <3>4. QED
        BY <2>2, <3>2, <3>3, <1>4 DEF Calm
    <2>3. QED
      BY <2>1, <2>2
  <1>6. CASE ReadLine(t)
    <2>1. CASE Is(t, "active")
      BY <1>6, <2>1, <1>4 DEF Calm, Steps, ReadLine, Go
    <2>2. CASE ~Is(t, "active")
      BY <1>6, <2>2, <1>2, <1>4 DEF Calm, ReadLine, End
    <2>3. QED
      BY <2>1, <2>2
  <1>7. CASE StreamBreaks(t)
    BY <1>7, <1>2, <1>3, <1>4 DEF Calm, Steps, Flags, StreamBreaks, Go
  <1>8. CASE Woken(t)
    BY <1>8, <1>2, <1>3, <1>4 DEF Calm, Steps, Flags, Woken
  <1>9. CASE Push(t)
    <2>1. CASE Is(t, "active")
      <3>1. \/ history' = history
            \/ history' = [history EXCEPT ![task[t].id] =
                              @ \cup {inc[task[t].id]}]
        BY <1>9, <2>1, <1>3 DEF Push
      <3>2. /\ history' \in [Servers -> SUBSET Nat]
            /\ \A s \in Servers : history'[s] \subseteq history[s] \cup {inc[s]}
        BY <3>1, <1>4, LineAdded
      <3>3. /\ task' \in [Tasks -> [at : Steps, id : Servers, chan : Chans,
                                   inc : Nat, flags : SUBSET Flags]]
            /\ \A u \in Tasks : Keeps(u)
        <4>1. task' = [task EXCEPT ![t].at = "send"] /\ task[t].at # "unused"
          BY <1>9, <2>1 DEF Push, Go
        <4>2. QED
          BY <4>1, <1>4 DEF Steps
      <3>4. QED
        BY <1>9, <3>2, <3>3, <1>4 DEF Calm, Push
    <2>2. CASE ~Is(t, "active")
      BY <1>9, <2>2, <1>2, <1>4 DEF Calm, Push, End
    <2>3. QED
      BY <2>1, <2>2
  <1>10. CASE Send(t)
    <2>1. CASE Is(t, "active")
      <3>1. \/ delivered' = delivered
            \/ delivered' = [delivered EXCEPT ![task[t].id] =
                              @ \cup {inc[task[t].id]}]
        BY <1>10, <2>1, <1>3 DEF Send
      <3>2. /\ delivered' \in [Servers -> SUBSET Nat]
            /\ \A s \in Servers : delivered'[s] \subseteq delivered[s] \cup {inc[s]}
        BY <3>1, <1>4, LineAdded
      <3>3. /\ task' \in [Tasks -> [at : Steps, id : Servers, chan : Chans,
                                   inc : Nat, flags : SUBSET Flags]]
            /\ \A u \in Tasks : Keeps(u)
        <4>1. task' = [task EXCEPT ![t].at = "reading"] /\ task[t].at # "unused"
          BY <1>10, <2>1 DEF Send, Go
        <4>2. QED
          BY <4>1, <1>4 DEF Steps
      <3>4. QED
        BY <1>10, <3>2, <3>3, <1>4 DEF Calm, Send
    <2>2. CASE ~Is(t, "active")
      BY <1>10, <2>2, <1>2, <1>4 DEF Calm, Send, End
    <2>3. QED
      BY <2>1, <2>2
  <1>11. CASE Check(t)
    <2>1. CASE Is(t, "active")
      <3>1. PICK p \in Steps \ {"unused"} : task' = [task EXCEPT ![t].at = p]
        BY <1>11, <2>1 DEF Check, Go, Steps
      <3>2. /\ task' \in [Tasks -> [at : Steps, id : Servers, chan : Chans,
                                   inc : Nat, flags : SUBSET Flags]]
            /\ \A u \in Tasks : Keeps(u)
        BY <3>1, <1>4
      <3>3. UNCHANGED <<otherVars, delivered, history>>
        BY <1>11 DEF Check
      <3>4. QED
        BY <3>2, <3>3, <1>4 DEF Calm
    <2>2. CASE ~Is(t, "active")
      BY <1>11, <2>2, <1>2, <1>4 DEF Calm, Check, End
    <2>3. QED
      BY <2>1, <2>2
  <1>12. CASE Reconnect(t)
    BY <1>12, <1>2, <1>3, <1>4 DEF Calm, Steps, Flags, Reconnect, Go
  <1>13. CASE Park(t)
    BY <1>13, <1>2, <1>3, <1>4 DEF Calm, Steps, Flags, Park
  <1>14. CASE Aborted(t)
    BY <1>14, <1>2, <1>3, <1>4 DEF Calm, Steps, Flags, Aborted, End
  <1>15. CASE IdleExpires(t)
    BY <1>15, <1>2, <1>3, <1>4 DEF Calm, Steps, Flags, IdleExpires, Go
  <1>16. QED
    BY <1>5, <1>6, <1>7, <1>8, <1>9, <1>10, <1>11, <1>12, <1>13, <1>14, <1>15
    DEF ReaderStep

(* So is what Docker, the handlers and the viewers do, except where they   *)
(* stop a reader or subscribe.                                             *)
LEMMA OthersAreCalm ==
  ASSUME HubInv,
         \/ \E s \in Servers :
              \/ ServerStep(s) /\ ~remove(s)
              \/ \E v \in Viewers : Attach(v, s)
         \/ \E v \in Viewers : ViewerStep(v) /\ ~subscribe(v)
         \/ CaptureInventory \/ SyncAgain \/ ScanBegins \/ UNCHANGED vars
  PROVE  Calm
  <1> USE DEF ReaderType, Keeps, Is
  <1>1. ReaderType /\ NoViewer \in [at : {"off", "attaching", "on"},
                                   id : Servers, chan : Chans]
    BY HubAssumption DEF HubInv, NoViewer, AnyServer, Chans
  <1>2. ASSUME NEW s \in Servers, CreateServer(s) PROVE Calm
    BY <1>2, <1>1 DEF Calm, Flags, Chans, CreateServer, hubVars
  <1>3. ASSUME NEW s \in Servers, StartServer(s) PROVE Calm
    BY <1>3, <1>1 DEF Calm, Flags, Chans, StartServer, hubVars
  <1>4. ASSUME NEW s \in Servers, DeleteServer(s) PROVE Calm
    BY <1>4, <1>1 DEF Calm, Flags, Chans, DeleteServer, hubVars
  <1>5. ASSUME NEW s \in Servers, ContainerStops(s) PROVE Calm
    BY <1>5, <1>1 DEF Calm, Flags, Chans, ContainerStops, hubVars
  <1>6. ASSUME NEW s \in Servers, ContainerRestarts(s) PROVE Calm
    BY <1>6, <1>1 DEF Calm, Flags, Chans, ContainerRestarts, hubVars
  <1>7. ASSUME NEW s \in Servers, track_server(s) PROVE Calm
    BY <1>7, <1>1 DEF Calm, Flags, Chans, track_server, record_addition
  <1>8. ASSUME NEW s \in Servers, refresh_server(s) PROVE Calm
    <2> DEFINE F == (task[reader[s]].flags \ {"suspended"}) \cup {"wake"}
    <2>1. CASE reader[s] = 0
      BY <1>8, <2>1, <1>1 DEF Calm, refresh_server, record_addition
    <2>2. CASE reader[s] # 0
      <3>1. reader[s] \in Tasks
        BY <2>2, <1>1, HubAssumption DEF Tasks
      <3>2. /\ F \in SUBSET Flags
            /\ ("active" \in F) <=> Is(reader[s], "active")
            /\ task' = [task EXCEPT ![reader[s]].flags = F]
        BY <1>8, <2>2, <3>1, <1>1 DEF refresh_server, Flags
      <3> HIDE DEF F
      <3>3. /\ task' \in [Tasks -> [at : Steps, id : Servers, chan : Chans,
                                   inc : Nat, flags : SUBSET Flags]]
            /\ \A t \in Tasks : Keeps(t)
        BY <3>1, <3>2, <1>1, FlagsAreCalm
      <3>4. QED
        BY <1>8, <3>3, <1>1 DEF Calm, refresh_server, record_addition
    <2>3. QED
      BY <2>1, <2>2
  <1>9. ASSUME NEW s \in Servers, publish(s) PROVE Calm
    BY <1>9, <1>1 DEF Calm, Flags, Chans, publish, world, inventory
  <1>10. ASSUME NEW s \in Servers, detach_reader(s) PROVE Calm
    <2> DEFINE F == task[reader[s]].flags \cup {"suspended", "wake"}
    <2>1. CASE reader[s] = 0
      BY <1>10, <2>1, <1>1 DEF Calm, detach_reader, world, inventory
    <2>2. CASE reader[s] # 0
      <3>1. reader[s] \in Tasks
        BY <2>2, <1>1, HubAssumption DEF Tasks
      <3>2. /\ F \in SUBSET Flags
            /\ ("active" \in F) <=> Is(reader[s], "active")
            /\ task' = [task EXCEPT ![reader[s]].flags = F]
        BY <1>10, <2>2, <3>1, <1>1 DEF detach_reader, Flags
      <3> HIDE DEF F
      <3>3. /\ task' \in [Tasks -> [at : Steps, id : Servers, chan : Chans,
                                   inc : Nat, flags : SUBSET Flags]]
            /\ \A t \in Tasks : Keeps(t)
        BY <3>1, <3>2, <1>1, FlagsAreCalm
      <3>4. QED
        BY <1>10, <3>3, <1>1 DEF Calm, detach_reader, world, inventory
    <2>3. QED
      BY <2>1, <2>2
  <1>11. ASSUME NEW s \in Servers, wake_reader(s) PROVE Calm
    <2> DEFINE F == (task[reader[s]].flags \ {"suspended"}) \cup {"wake"}
    <2>1. CASE reader[s] = 0
      BY <1>11, <2>1, <1>1 DEF Calm, wake_reader, world, inventory
    <2>2. CASE reader[s] # 0
      <3>1. reader[s] \in Tasks
        BY <2>2, <1>1, HubAssumption DEF Tasks
      <3>2. /\ F \in SUBSET Flags
            /\ ("active" \in F) <=> Is(reader[s], "active")
            /\ task' = [task EXCEPT ![reader[s]].flags = F]
        BY <1>11, <2>2, <3>1, <1>1 DEF wake_reader, Flags
      <3> HIDE DEF F
      <3>3. /\ task' \in [Tasks -> [at : Steps, id : Servers, chan : Chans,
                                   inc : Nat, flags : SUBSET Flags]]
            /\ \A t \in Tasks : Keeps(t)
        BY <3>1, <3>2, <1>1, FlagsAreCalm
      <3>4. QED
        BY <1>11, <3>3, <1>1 DEF Calm, wake_reader, world, inventory
    <2>3. QED
      BY <2>1, <2>2
  <1>12. ASSUME NEW v \in Viewers, NEW s \in Servers, Attach(v, s) PROVE Calm
    <2>1. [at |-> "attaching", id |-> s, chan |-> 0]
            \in [at : {"off", "attaching", "on"}, id : Servers, chan : Chans]
      BY HubAssumption DEF Chans
    <2>2. QED
      BY <1>12, <2>1, <1>1 DEF Calm, Attach, world, inventory
  <1>13. ASSUME NEW v \in Viewers, AttachRefused(v) PROVE Calm
    BY <1>13, <1>1 DEF Calm, Flags, Chans, AttachRefused, world, NoViewer
  <1>14. ASSUME NEW v \in Viewers, Leave(v) PROVE Calm
    BY <1>14, <1>1 DEF Calm, Flags, Chans, Leave, world, inventory, NoViewer
  <1>15. ASSUME NEW v \in Viewers, StreamEnds(v) PROVE Calm
    BY <1>15, <1>1 DEF Calm, Flags, Chans, StreamEnds, world, inventory, NoViewer
  <1>16. CASE CaptureInventory
    BY <1>16, <1>1 DEF Calm, CaptureInventory, hubVars
  <1>17. CASE SyncAgain
    BY <1>17, <1>1 DEF Calm, SyncAgain, hubVars
  <1>18. CASE ScanBegins
    BY <1>18, <1>1 DEF Calm, ScanBegins, hubVars
  <1>19. CASE UNCHANGED vars
    BY <1>19, <1>1 DEF Calm, vars
  <1>20. QED
    BY <1>2, <1>3, <1>4, <1>5, <1>6, <1>7, <1>8, <1>9, <1>10, <1>11, <1>12, <1>13, <1>14, <1>15, <1>16, <1>17, <1>18, <1>19
    DEF ServerStep, ViewerStep

(* stop_reader takes the readers of some servers out of the map, and leaves*)
(* exactly their tasks unwanted.                                           *)
LEMMA Stopping ==
  ASSUME HubInv, NEW ids \in SUBSET Servers, stop_reader(ids)
  PROVE  /\ reader' \in [Servers -> 0 .. MaxTasks]
         /\ task' \in [Tasks -> [at : Steps, id : Servers, chan : Chans,
                                inc : Nat, flags : SUBSET Flags]]
         /\ \A s \in Servers : reader'[s] = IF s \in ids THEN 0 ELSE reader[s]
         /\ \A t \in Tasks :
              /\ task'[t].at = task[t].at /\ task'[t].id = task[t].id
              /\ task'[t].chan = task[t].chan /\ task'[t].inc = task[t].inc
              /\ Is(t, "active")' <=> (Is(t, "active") /\ task[t].id \notin ids)
  <1>1. ReaderType
    BY DEF HubInv
  <1>2. \A s \in Servers : reader'[s] = IF s \in ids THEN 0 ELSE reader[s]
    BY DEF stop_reader
  <1>3. reader' \in [Servers -> 0 .. MaxTasks]
    <2>1. \A s \in Servers : (IF s \in ids THEN 0 ELSE reader[s]) \in 0 .. MaxTasks
      BY <1>1, HubAssumption DEF ReaderType
    <2>2. QED
      BY <2>1 DEF stop_reader
  <1>4. ASSUME NEW t \in Tasks
        PROVE  task'[t] = IF \E s \in ids : reader[s] = t
                            THEN [task[t] EXCEPT !.flags = @ \ {"active"}]
                            ELSE task[t]
    BY DEF stop_reader
  <1>5. ASSUME NEW t \in Tasks
        PROVE  task'[t] \in [at : Steps, id : Servers, chan : Chans, inc : Nat,
                             flags : SUBSET Flags]
    <2>1. task[t] \in [at : Steps, id : Servers, chan : Chans, inc : Nat,
                       flags : SUBSET Flags]
      BY <1>1 DEF ReaderType
    <2>2. [task[t] EXCEPT !.flags = @ \ {"active"}]
            \in [at : Steps, id : Servers, chan : Chans, inc : Nat,
                flags : SUBSET Flags]
      BY <2>1
    <2>3. QED
      BY <1>4, <2>1, <2>2
  <1>6. task' \in [Tasks -> [at : Steps, id : Servers, chan : Chans,
                            inc : Nat, flags : SUBSET Flags]]
    BY <1>5 DEF stop_reader
  <1>7. ASSUME NEW t \in Tasks
        PROVE  /\ task'[t].at = task[t].at /\ task'[t].id = task[t].id
               /\ task'[t].chan = task[t].chan /\ task'[t].inc = task[t].inc
               /\ Is(t, "active")' <=> (Is(t, "active") /\ task[t].id \notin ids)
    <2>1. task[t] \in [at : Steps, id : Servers, chan : Chans, inc : Nat,
                       flags : SUBSET Flags]
      BY <1>1 DEF ReaderType
    <2>2. CASE \E s \in ids : reader[s] = t
      <3>1. task[t].id \in ids
        BY <2>2, HubAssumption DEF HubInv, MapInv, Tasks
      <3>2. QED
        <4>1. task'[t] = [task[t] EXCEPT !.flags = @ \ {"active"}]
          BY <1>4, <2>2
        <4>2. QED
          BY <4>1, <2>1, <3>1 DEF Is
    <2>3. CASE ~ \E s \in ids : reader[s] = t
      <3>1. Is(t, "active") => task[t].id \notin ids
        BY <2>3 DEF HubInv, ActiveInv
      <3>2. QED
        BY <1>4, <2>3, <3>1 DEF Is
    <2>4. QED
      BY <2>2, <2>3
  <1>8. QED
    BY <1>2, <1>3, <1>6, <1>7

(* A handler that stops readers keeps the invariant: it has yet to drop    *)
(* the channels and the lines of their servers.                            *)
LEMMA StopKeeps ==
  ASSUME HubInv, lock = Free, NEW ids \in SUBSET Servers, stop_reader(ids),
         container' \subseteq Servers, snapshot' \subseteq SUBSET Servers,
         additions' \subseteq Servers, desired' \subseteq Servers,
         desired \ ids \subseteq desired',
         inc' \in [Servers -> Nat],
         \A s \in Servers \ ids : inc'[s] = inc[s],
         lock' = IF ids = {} THEN Free
                 ELSE [op |-> "senders", ids |-> ids, chan |-> 0],
         UNCHANGED <<sender, delivered, history, viewer>>
  PROVE  HubInv'
  <1>1. /\ reader' \in [Servers -> 0 .. MaxTasks]
        /\ task' \in [Tasks -> [at : Steps, id : Servers, chan : Chans,
                               inc : Nat, flags : SUBSET Flags]]
        /\ \A s \in Servers : reader'[s] = IF s \in ids THEN 0 ELSE reader[s]
        /\ \A t \in Tasks :
             /\ task'[t].at = task[t].at /\ task'[t].id = task[t].id
             /\ task'[t].chan = task[t].chan /\ task'[t].inc = task[t].inc
             /\ Is(t, "active")' <=> (Is(t, "active") /\ task[t].id \notin ids)
    BY Stopping
  <1>2. ReaderType
    BY DEF HubInv
  <1>3. /\ lock'.ids = ids /\ lock'.op \in {"free", "senders"}
        /\ lock.ids = {} /\ lock.op = "free"
    BY DEF Free
  <1>4. \A s \in Servers : reader[s] # 0 => reader[s] \in Tasks
    BY <1>2, HubAssumption DEF ReaderType, Tasks
  <1>5. ReaderType'
    <2>1. /\ lock' \in [op : {"free", "senders", "idle", "history"},
                        ids : SUBSET Servers, chan : Chans]
          /\ lock'.op = "free" => lock' = Free
      BY HubAssumption DEF Chans, Free
    <2>2. QED
      BY <1>1, <1>2, <2>1 DEF ReaderType, Free
  <1>6. MapInv'
    BY <1>1, <1>4 DEF HubInv, MapInv
  <1>7. ActiveInv'
    BY <1>1, <1>2 DEF HubInv, ActiveInv, ReaderType
  <1>8. LockInv'
    BY <1>1, <1>3 DEF LockInv
  <1>9. ChannelInv'
    BY <1>1, <1>3, <1>4 DEF HubInv, ChannelInv
  <1>10. LineInv'
    BY <1>3 DEF HubInv, LineInv, Free
  <1>11. ReaderBound'
    <2>1. ActiveReaders' \subseteq ActiveReaders
      BY <1>1, <1>4 DEF ActiveReaders, HasReader
    <2>2. QED
      BY <2>1, StillBounded DEF HubInv
  <1>12. QED
    BY <1>5, <1>6, <1>7, <1>8, <1>9, <1>10, <1>11 DEF HubInv

(* The rest of a handler or of a retirement: the channels, then the lines. *)
LEMMA DropKeeps ==
  ASSUME HubInv, DropSenders \/ DropIdleSender \/ DropHistory
  PROVE  HubInv'
  <1> DEFINE gone == IF lock.op \in {"senders", "idle"} THEN lock.ids ELSE {}
  <1>1. ReaderType /\ lock.ids \subseteq Servers
    BY DEF HubInv, ReaderType
  <1>2. /\ \A s \in Servers : sender'[s] = IF s \in gone THEN 0 ELSE sender[s]
        /\ \A s \in Servers : delivered'[s] = IF s \in gone THEN {} ELSE delivered[s]
        /\ sender' \in [Servers -> Chans] /\ delivered' \in [Servers -> SUBSET Nat]
        /\ \A s \in Servers :
             history'[s] = IF lock.op = "history" /\ s \in lock.ids THEN {}
                           ELSE history[s]
        /\ history' \in [Servers -> SUBSET Nat]
        /\ UNCHANGED <<reader, task, inc, viewer, container, snapshot, desired,
                       additions>>
        /\ lock' = IF lock.op = "history" THEN Free
                   ELSE [lock EXCEPT !.op = "history"]
        /\ lock.op # "free"
    <2>1. CASE DropSenders
      BY <2>1, <1>1, HubAssumption DEF DropSenders, ReaderType, world, inventory, Chans
    <2>2. CASE DropIdleSender
      <3> DEFINE idle == {s \in lock.ids : sender[s] = lock.chan
                                             /\ Receivers(lock.chan) = {}}
      <3>1. lock.op = "idle" /\ idle = lock.ids
        BY <2>2 DEF DropIdleSender, HubInv, LockInv
      <3>2. /\ sender' = [s \in Servers |-> IF s \in idle THEN 0 ELSE sender[s]]
            /\ delivered' = [s \in Servers |->
                               IF s \in idle THEN {} ELSE delivered[s]]
        BY <2>2 DEF DropIdleSender
      <3> HIDE DEF idle
      <3>3. idle = gone
        BY <3>1
      <3> HIDE DEF gone
      <3>4. /\ \A s \in Servers : sender'[s] = IF s \in gone THEN 0 ELSE sender[s]
            /\ \A s \in Servers :
                 delivered'[s] = IF s \in gone THEN {} ELSE delivered[s]
            /\ sender' \in [Servers -> Chans]
            /\ delivered' \in [Servers -> SUBSET Nat]
        BY <3>2, <3>3, <1>1, HubAssumption DEF ReaderType, Chans
      <3>5. QED
        BY <2>2, <3>1, <3>4, <1>1
        DEF DropIdleSender, ReaderType, world, inventory
    <2>3. CASE DropHistory
      BY <2>3, <1>1 DEF DropHistory, ReaderType, world, inventory
    <2>4. QED
      BY <2>1, <2>2, <2>3
  <1>3. /\ lock'.ids = (IF lock.op = "history" THEN {} ELSE lock.ids)
        /\ lock'.op = (IF lock.op = "history" THEN "free" ELSE "history")
        /\ lock.op \in {"senders", "idle", "history"}
    BY <1>1, <1>2 DEF ReaderType, Free
  <1>4. ReaderType'
    BY <1>1, <1>2, HubAssumption DEF ReaderType, Free, Chans
  <1>5. MapInv' /\ ActiveInv'
    BY <1>2 DEF HubInv, MapInv, ActiveInv, Is
  <1>6. LockInv'
    <2>1. \A s \in lock'.ids : s \in lock.ids /\ reader'[s] = 0
      BY <1>2, <1>3 DEF HubInv, LockInv
    <2>2. lock'.op = "history" => \A s \in lock'.ids : sender'[s] = 0
      BY <1>1, <1>2, <1>3
    <2>3. lock'.op # "idle"
      BY <1>3
    <2>4. QED
      BY <2>1, <2>2, <2>3 DEF LockInv
  <1>7. ChannelInv'
    BY <1>2, <1>3 DEF HubInv, ChannelInv, LockInv
  <1>8. LineInv'
    BY <1>2, <1>3 DEF HubInv, LineInv, LockInv
  <1>9. ReaderBound'
    <2>1. ActiveReaders' = ActiveReaders
      BY <1>2 DEF ActiveReaders, HasReader
    <2>2. QED
      BY <2>1 DEF HubInv, ReaderBound
  <1>10. QED
    BY <1>4, <1>5, <1>6, <1>7, <1>8, <1>9 DEF HubInv

(* The two handlers that stop readers.                                     *)
LEMMA HandlersKeep ==
  ASSUME HubInv, synchronize_servers \/ \E s \in Servers : remove(s)
  PROVE  HubInv'
  <1>1. ReaderType
    BY DEF HubInv
  <1>2. CASE synchronize_servers
    <2> DEFINE wanted == ((UNION snapshot) \cup additions) \ removals
               removed == desired \ wanted
    <2>1. /\ wanted \subseteq Servers /\ removed \in SUBSET Servers
          /\ desired \ removed \subseteq wanted
      BY <1>1 DEF ReaderType
    <2>2. /\ lock = Free /\ desired' = wanted /\ stop_reader(removed)
          /\ snapshot' = {} /\ additions' = {}
          /\ lock' = IF removed = {} THEN Free
                     ELSE [op |-> "senders", ids |-> removed, chan |-> 0]
          /\ UNCHANGED <<container, sender, delivered, history, viewer, inc>>
      BY <1>2 DEF synchronize_servers
    <2> HIDE DEF wanted, removed
    <2>3. inc' \in [Servers -> Nat] /\ container' \subseteq Servers
      BY <1>1, <2>2 DEF ReaderType
    <2>4. QED
      BY <2>1, <2>2, <2>3, StopKeeps
  <1>3. ASSUME NEW s \in Servers, remove(s) PROVE HubInv'
    <2>1. /\ lock = Free /\ desired' = desired \ {s} /\ stop_reader({s})
          /\ UNCHANGED <<container, snapshot, sender, delivered, history, viewer>>
          /\ lock' = [op |-> "senders", ids |-> {s}, chan |-> 0]
          /\ additions' \subseteq additions
          /\ inc' = [inc EXCEPT ![s] = @ + 1]
      BY <1>3 DEF remove
    <2>2. /\ container' \subseteq Servers /\ snapshot' \subseteq SUBSET Servers
          /\ additions' \subseteq Servers /\ desired' \subseteq Servers
          /\ inc' \in [Servers -> Nat]
          /\ \A r \in Servers \ {s} : inc'[r] = inc[r]
      BY <1>1, <2>1 DEF ReaderType
    <2>3. QED
      BY <2>1, <2>2, StopKeeps
  <1>4. QED
    BY <1>2, <1>3

(* A new reader starts for a desired server that has none, on the server's *)
(* channel: a viewer's, or an idle one's successor.  Here is what such a   *)
(* step leaves.                                                            *)
Starts(s, n, c) ==
    /\ lock = Free /\ lock' = Free
    /\ n \in NextTask /\ c \in Chans \ {0} /\ s \in desired'
    /\ reader' = [reader EXCEPT ![s] = n]
    /\ task'[n] = NewTask(s, c)
    /\ task' \in [Tasks -> [at : Steps, id : Servers, chan : Chans,
                           inc : Nat, flags : SUBSET Flags]]
    /\ \A t \in Tasks \ {n} :
         task'[t] = task[t] \/ (task'[t] = NoTask /\ reader[s] = t)
    /\ \A t \in Tasks : task[t].id = s /\ Is(t, "active") => task'[t] = NoTask \/ t = n
    /\ sender' = [sender EXCEPT ![s] = c]
    /\ \/ delivered' = [delivered EXCEPT ![s] = {}]
       \/ delivered' = delivered /\ sender' = sender
    /\ \A v \in Viewers : viewer'[v].at = "on" => viewer'[v].chan # 0
    /\ viewer' \in [Viewers -> [at : {"off", "attaching", "on"},
                               id : Servers, chan : Chans]]
    /\ \/ reader[s] # 0
       \/ Cardinality(ActiveReaders) < MaxReaders
    /\ desired \subseteq desired' /\ desired' \subseteq Servers
    /\ UNCHANGED <<container, snapshot, additions, history, inc>>

(* A reader that starts that way keeps the invariant.                      *)
LEMMA StartKeeps ==
  ASSUME HubInv, NEW s \in Servers, NEW n, NEW c, Starts(s, n, c)
  PROVE  HubInv'
  <1>1. ReaderType
    BY DEF HubInv
  <1>2. /\ n \in Tasks /\ task[n].at = "unused" /\ n # 0
        /\ lock.ids = {} /\ lock'.ids = {} /\ lock.op = "free" /\ lock'.op = "free"
    BY HubAssumption DEF Starts, NextTask, Unused, Free, Tasks
  <1>3. \A r \in Servers : reader[r] # 0 =>
          reader[r] \in Tasks /\ reader[r] # n
    <2>1. ASSUME NEW r \in Servers, reader[r] # 0 PROVE reader[r] \in Tasks
      BY <1>1, <2>1, HubAssumption DEF ReaderType, Tasks
    <2>2. ASSUME NEW r \in Servers, reader[r] # 0 PROVE reader[r] # n
      BY <1>2, <2>2 DEF HubInv, MapInv
    <2>3. QED
      BY <2>1, <2>2
  <1>4. \A r \in Servers : reader'[r] = IF r = s THEN n ELSE reader[r]
    BY <1>1 DEF Starts, ReaderType
  <1>5. /\ task'[n].at = "top" /\ task'[n].id = s /\ task'[n].chan = c
        /\ task'[n].inc = inc[s] /\ Is(n, "active")' /\ c # 0 /\ s \in desired'
    BY DEF Starts, NewTask, Is
  <1>6. \A r \in Servers \ {s} : reader[r] # 0 => task'[reader[r]] = task[reader[r]]
    <2>1. ASSUME NEW r \in Servers \ {s}, reader[r] # 0, reader[s] = reader[r]
          PROVE  FALSE
      BY <2>1 DEF HubInv, MapInv
    <2>2. QED
      BY <2>1, <1>3 DEF Starts
  <1>7. ReaderType'
    <2>1. reader' \in [Servers -> 0 .. MaxTasks] /\ sender' \in [Servers -> Chans]
      <3>1. n \in 0 .. MaxTasks /\ c \in Chans
        BY <1>2, HubAssumption DEF Starts, Tasks
      <3>2. QED
        BY <3>1, <1>1 DEF Starts, ReaderType
    <2>2. delivered' \in [Servers -> SUBSET Nat]
      <3>1. {} \in SUBSET Nat
        OBVIOUS
      <3>2. QED
        BY <3>1, <1>1 DEF Starts, ReaderType
    <2>3. QED
      BY <2>1, <2>2, <1>1 DEF Starts, ReaderType
  <1>8. MapInv'
    BY <1>4, <1>5, <1>6 DEF HubInv, MapInv, Is, Starts
  <1>9. ActiveInv'
    <2>1. ASSUME NEW t \in Tasks, Is(t, "active")', t # n
          PROVE  task'[t] = task[t] /\ Is(t, "active") /\ task[t].id # s
      <3>1. "active" \notin NoTask.flags
        BY DEF NoTask
      <3>2. task'[t] = task[t]
        BY <2>1, <3>1 DEF Starts, Is
      <3>3. QED
        BY <2>1, <3>1, <3>2 DEF Starts, Is
    <2>2. QED
      BY <2>1, <1>1, <1>4, <1>5 DEF HubInv, ActiveInv, Starts, ReaderType
  <1>10. LockInv'
    BY <1>2 DEF LockInv
  <1>11. ChannelInv'
    <2>1. \A r \in Servers : sender'[r] = IF r = s THEN c ELSE sender[r]
      BY <1>1 DEF Starts, ReaderType
    <2>2. QED
      BY <2>1, <1>2, <1>4, <1>5, <1>6 DEF HubInv, ChannelInv, Starts
  <1>12. LineInv'
    BY <1>1, <1>2 DEF HubInv, LineInv, Starts, ReaderType
  <1>13. ReaderBound'
    <2>1. ActiveReaders' \subseteq ActiveReaders \cup {s}
      BY <1>3, <1>4, <1>6 DEF ActiveReaders, HasReader
    <2>2. CASE reader[s] # 0
      <3>1. s \in ActiveReaders
        BY <2>2 DEF HubInv, MapInv, ActiveReaders, HasReader
      <3>2. QED
        BY <2>1, <3>1, StillBounded DEF HubInv
    <2>3. CASE Cardinality(ActiveReaders) < MaxReaders
      BY <2>1, <2>3, StillBounded DEF HubInv
    <2>4. QED
      BY <2>2, <2>3 DEF Starts
  <1>14. QED
    BY <1>7, <1>8, <1>9, <1>10, <1>11, <1>12, <1>13 DEF HubInv

(* A viewer that subscribes finds its server's reader or starts one, and   *)
(* gets the channel that reader publishes on.                              *)
LEMMA SubscribeKeeps ==
  ASSUME HubInv, NEW v \in Viewers, subscribe(v)
  PROVE  HubInv'
  <1> DEFINE s == viewer[v].id
  <1>1. ReaderType /\ s \in Servers
    BY DEF HubInv, ReaderType
  <1>2. HasReader(s) <=> reader[s] # 0
    BY <1>1 DEF HubInv, MapInv, HasReader
  <1>3. s \in desired' /\ desired \subseteq desired' /\ desired' \subseteq Servers
    BY <1>1 DEF subscribe, validate_subscription, ReaderType
  <1>4. /\ lock = Free /\ lock' = Free /\ lock.ids = {} /\ lock'.ids = {}
        /\ lock.op = "free" /\ lock'.op = "free"
        /\ UNCHANGED <<container, snapshot, additions, history, inc>>
    BY DEF subscribe, Free, world
  <1>5. sender[s] = 0 <=> reader[s] = 0
    BY <1>1, <1>4 DEF HubInv, ChannelInv, MapInv
  <1>6. PICK c \in (IF sender[s] = 0 THEN NextChan ELSE {sender[s]}) :
          /\ sender' = [sender EXCEPT ![s] = c]
          /\ viewer' = [viewer EXCEPT ![v] = [at |-> "on", id |-> s, chan |-> c]]
          /\ \/ HasReader(s) /\ UNCHANGED <<reader, task>>
             \/ /\ ~HasReader(s)
                /\ \E n \in NextTask :
                     /\ reader' = [reader EXCEPT ![s] = n]
                     /\ task' = [task EXCEPT ![n] = NewTask(s, c)]
    BY DEF subscribe
  <1>7. c \in Chans \ {0}
    BY <1>1, <1>6, HubAssumption DEF ReaderType, Chans, NextChan
  <1>8. /\ viewer' \in [Viewers -> [at : {"off", "attaching", "on"},
                                   id : Servers, chan : Chans]]
        /\ \A w \in Viewers : viewer'[w].at = "on" => viewer'[w].chan # 0
    <2>1. [at |-> "on", id |-> s, chan |-> c]
            \in [at : {"off", "attaching", "on"}, id : Servers, chan : Chans]
      BY <1>1, <1>7
    <2>2. \A w \in Viewers : viewer'[w] = IF w = v THEN [at |-> "on", id |-> s, chan |-> c]
                                          ELSE viewer[w]
      BY <1>1, <1>6 DEF ReaderType
    <2>3. QED
      BY <1>1, <1>6, <1>7, <2>1, <2>2 DEF ReaderType, HubInv, ChannelInv
  <1>9. delivered' = IF sender[s] = 0 THEN [delivered EXCEPT ![s] = {}] ELSE delivered
    BY DEF subscribe
  <1> HIDE DEF s
  <1>10. CASE reader[s] # 0
    <2>1. /\ sender' = sender /\ delivered' = delivered
          /\ UNCHANGED <<reader, task>>
      BY <1>1, <1>2, <1>5, <1>6, <1>9, <1>10 DEF ReaderType
    <2>2. ReaderType'
      BY <2>1, <1>1, <1>3, <1>4, <1>8 DEF ReaderType
    <2>3. MapInv' /\ ActiveInv'
      BY <2>1, <1>3, <1>4 DEF HubInv, MapInv, ActiveInv, Is
    <2>4. LockInv' /\ ChannelInv' /\ LineInv'
      BY <2>1, <1>4, <1>8 DEF HubInv, LockInv, ChannelInv, LineInv
    <2>5. ReaderBound'
      <3>1. ActiveReaders' = ActiveReaders
        BY <2>1 DEF ActiveReaders, HasReader
      <3>2. QED
        BY <3>1 DEF HubInv, ReaderBound
    <2>6. QED
      BY <2>2, <2>3, <2>4, <2>5 DEF HubInv
  <1>11. CASE reader[s] = 0
    <2>1. PICK n \in NextTask : /\ reader' = [reader EXCEPT ![s] = n]
                                /\ task' = [task EXCEPT ![n] = NewTask(s, c)]
      BY <1>2, <1>6, <1>11
    <2>2. n \in Tasks
      BY DEF NextTask, Unused
    <2>3. NewTask(s, c) \in [at : Steps, id : Servers, chan : Chans, inc : Nat,
                             flags : SUBSET Flags]
      BY <1>1, <1>7 DEF NewTask, Steps, Flags, ReaderType
    <2>4. /\ task'[n] = NewTask(s, c)
          /\ task' \in [Tasks -> [at : Steps, id : Servers, chan : Chans,
                                 inc : Nat, flags : SUBSET Flags]]
          /\ \A t \in Tasks \ {n} : task'[t] = task[t]
      BY <2>1, <2>2, <2>3, <1>1 DEF ReaderType
    <2>5. Cardinality(ActiveReaders) < MaxReaders
      BY <1>2, <1>11 DEF subscribe, validate_reader_capacity, s
    <2>6. ~ \E t \in Tasks : task[t].id = s /\ Is(t, "active")
      BY <1>11, HubAssumption DEF HubInv, ActiveInv, Tasks
    <2>7. Starts(s, n, c)
      BY <2>1, <2>4, <2>5, <2>6, <1>3, <1>4, <1>5, <1>6, <1>7, <1>8, <1>9, <1>11
      DEF Starts
    <2>8. QED
      BY <2>7, <1>1, StartKeeps
  <1>12. QED
    BY <1>10, <1>11

(* An idle reader retires: quietly when it is no longer the one in the     *)
(* map, with a successor when a viewer came in the meantime, else for good.*)
LEMMA RetireKeeps ==
  ASSUME HubInv, NEW t \in Tasks, Retire(t)
  PROVE  HubInv'
  <1> DEFINE s == task[t].id
             again == Receivers(task[t].chan) # {} /\ s \in desired
  <1>1. /\ ReaderType /\ s \in Servers /\ t # 0
        /\ task[t] \in [at : Steps, id : Servers, chan : Chans, inc : Nat,
                        flags : SUBSET Flags]
    <2>1. ReaderType
      BY DEF HubInv
    <2>2. task[t] \in [at : Steps, id : Servers, chan : Chans, inc : Nat,
                       flags : SUBSET Flags]
      BY <2>1 DEF ReaderType
    <2>3. t # 0
      BY HubAssumption DEF Tasks
    <2>4. QED
      BY <2>1, <2>2, <2>3
  <1>2. /\ lock = Free /\ lock.ids = {} /\ lock.op = "free" /\ task[t].at = "idle"
        /\ UNCHANGED <<container, snapshot, desired, additions, sender, delivered,
                       history, viewer, inc>>
    BY DEF Retire, Free, world, inventory
  <1>3. NoTask \in [at : Steps, id : Servers, chan : Chans, inc : Nat,
                   flags : SUBSET Flags]
        /\ "active" \notin NoTask.flags
    BY HubAssumption DEF NoTask, Steps, Chans, AnyServer
  <1>4. CASE reader[s] # t
    <2>1. ~Is(t, "active")
      BY <1>4 DEF HubInv, ActiveInv
    <2>2. task' = [task EXCEPT ![t] = NoTask] /\ UNCHANGED <<reader, lock>>
      BY <1>4 DEF Retire, End
    <2>3. /\ \A u \in Tasks : u # t => task'[u] = task[u]
          /\ task'[t] = NoTask
          /\ task' \in [Tasks -> [at : Steps, id : Servers, chan : Chans,
                                 inc : Nat, flags : SUBSET Flags]]
      BY <2>2, <1>1, <1>3 DEF ReaderType
    <2>4. \A u \in Tasks : Keeps(u) \/ (~Is(u, "active") /\ task'[u] = NoTask)
      BY <2>1, <2>3 DEF Keeps, Is
    <2>5. Calm
      BY <2>2, <2>3, <2>4, <1>1, <1>2 DEF Calm, ReaderType
    <2>6. QED
      BY <2>5, CalmKeeps
  <1>5. ASSUME reader[s] = t
        PROVE  /\ s \in desired /\ task[t].chan # 0 /\ sender[s] = task[t].chan
    BY <1>1, <1>2, <1>5 DEF HubInv, MapInv, ChannelInv
  <1>6. CASE reader[s] = t /\ again
    <2>1. PICK n \in NextTask :
            /\ reader' = [reader EXCEPT ![s] = n]
            /\ task' = [task EXCEPT ![t] = NoTask,
                                    ![n] = NewTask(s, task[t].chan)]
            /\ UNCHANGED lock
      BY <1>6 DEF Retire
    <2>2. n \in Tasks /\ n # t
      BY <1>2 DEF NextTask, Unused
    <2>3. NewTask(s, task[t].chan) \in [at : Steps, id : Servers, chan : Chans,
                                        inc : Nat, flags : SUBSET Flags]
      BY <1>1 DEF NewTask, Steps, Flags, ReaderType
    <2>4. /\ task'[n] = NewTask(s, task[t].chan) /\ task'[t] = NoTask
          /\ task' \in [Tasks -> [at : Steps, id : Servers, chan : Chans,
                                 inc : Nat, flags : SUBSET Flags]]
          /\ \A u \in Tasks \ {n, t} : task'[u] = task[u]
      <3> DEFINE new == NewTask(s, task[t].chan)
      <3>1. task' = [task EXCEPT ![t] = NoTask, ![n] = new]
        BY <2>1
      <3>2. new \in [at : Steps, id : Servers, chan : Chans, inc : Nat,
                     flags : SUBSET Flags]
        BY <2>3
      <3> HIDE DEF new
      <3>3. /\ task'[n] = new /\ task'[t] = NoTask
            /\ task' \in [Tasks -> [at : Steps, id : Servers, chan : Chans,
                                   inc : Nat, flags : SUBSET Flags]]
            /\ \A u \in Tasks \ {n, t} : task'[u] = task[u]
        BY <3>1, <3>2, <2>2, <1>1, <1>3 DEF ReaderType
      <3>4. QED
        BY <3>3 DEF new
    <2>5. \A u \in Tasks : task[u].id = s /\ Is(u, "active") => u = t
      BY <1>6 DEF HubInv, ActiveInv
    <2>6. sender' = [sender EXCEPT ![s] = task[t].chan] /\ task[t].chan \in Chans \ {0}
      BY <1>1, <1>2, <1>5, <1>6 DEF ReaderType
    <2>7. /\ \A v \in Viewers : viewer'[v].at = "on" => viewer'[v].chan # 0
          /\ viewer' \in [Viewers -> [at : {"off", "attaching", "on"},
                                     id : Servers, chan : Chans]]
          /\ desired \subseteq desired' /\ desired' \subseteq Servers
      BY <1>1, <1>2 DEF HubInv, ChannelInv, ReaderType
    <2>8. Starts(s, n, task[t].chan)
      <3> HIDE DEF s
      <3>1. s \in desired'
        BY <1>2, <1>5, <1>6
      <3>2. \A u \in Tasks \ {n} :
              task'[u] = task[u] \/ (task'[u] = NoTask /\ reader[s] = u)
        BY <2>4, <1>6
      <3>3. \A u \in Tasks :
              task[u].id = s /\ Is(u, "active") => task'[u] = NoTask \/ u = n
        BY <2>4, <2>5
      <3>4. QED
        BY <3>1, <3>2, <3>3, <2>1, <2>4, <2>6, <2>7, <1>1, <1>2, <1>6 DEF Starts
    <2>9. QED
      BY <2>8, <1>1, StartKeeps
  <1>7. CASE reader[s] = t /\ ~again
    <2>1. /\ reader' = [reader EXCEPT ![s] = 0]
          /\ lock' = [op |-> "idle", ids |-> {s}, chan |-> task[t].chan]
          /\ task' = [task EXCEPT ![t] = NoTask]
          /\ Receivers(task[t].chan) = {}
      BY <1>7, <1>5 DEF Retire, End
    <2>2. /\ \A r \in Servers : reader'[r] = IF r = s THEN 0 ELSE reader[r]
          /\ \A u \in Tasks : task'[u] = IF u = t THEN NoTask ELSE task[u]
          /\ lock'.op = "idle" /\ lock'.ids = {s} /\ lock'.chan = task[t].chan
      BY <2>1, <1>1 DEF ReaderType
    <2>3. \A r \in Servers \ {s} : reader[r] # t
      BY <1>1 DEF HubInv, MapInv
    <2>4. \A r \in Servers : reader[r] # 0 => reader[r] \in Tasks
      BY <1>1, HubAssumption DEF ReaderType, Tasks
    <2>5. ReaderType'
      <3>1. /\ reader' \in [Servers -> 0 .. MaxTasks]
            /\ task' \in [Tasks -> [at : Steps, id : Servers, chan : Chans,
                                   inc : Nat, flags : SUBSET Flags]]
            /\ lock' \in [op : {"free", "senders", "idle", "history"},
                          ids : SUBSET Servers, chan : Chans]
        BY <2>1, <1>1, <1>3, HubAssumption DEF ReaderType
      <3>2. QED
        BY <3>1, <2>2, <1>1, <1>2 DEF ReaderType
    <2>6. MapInv'
      BY <2>2, <2>3, <2>4, <1>2 DEF HubInv, MapInv, Is
    <2>7. ActiveInv'
      <3>1. ASSUME NEW u \in Tasks, Is(u, "active")'
            PROVE  u # t /\ task'[u] = task[u] /\ Is(u, "active") /\ task[u].id # s
        BY <3>1, <2>2, <1>3, <1>7 DEF HubInv, ActiveInv, Is
      <3>2. QED
        BY <3>1, <2>2, <1>1, <1>2 DEF HubInv, ActiveInv, ReaderType
    <2>8. LockInv'
      <3>1. \A v \in Viewers : ~(viewer'[v].at = "on"
                                /\ viewer'[v].chan = task[t].chan)
        BY <2>1, <1>2 DEF Receivers
      <3>2. lock'.chan = task[t].chan
        BY <2>2
      <3>3. Receivers(lock.chan)' = {}
        BY <3>1, <3>2 DEF Receivers
      <3>4. (\A r \in lock.ids : reader[r] = 0)'
        BY <2>2, <1>1
      <3>5. (\A r \in lock.ids : sender[r] = lock.chan)'
        BY <2>2, <1>2, <1>5, <1>7
      <3>6. lock'.op # "history"
        BY <2>2
      <3>7. QED
        BY <3>3, <3>4, <3>5, <3>6 DEF LockInv
    <2>9. ChannelInv'
      BY <2>2, <2>3, <2>4, <1>2 DEF HubInv, ChannelInv
    <2>10. LineInv'
      BY <2>2, <1>2 DEF HubInv, LineInv
    <2>11. ReaderBound'
      <3>1. ActiveReaders' \subseteq ActiveReaders
        BY <2>2, <2>3, <2>4 DEF ActiveReaders, HasReader
      <3>2. QED
        BY <3>1, StillBounded DEF HubInv
    <2>12. QED
      BY <2>5, <2>6, <2>7, <2>8, <2>9, <2>10, <2>11 DEF HubInv
  <1>8. QED
    BY <1>4, <1>6, <1>7

(* Every step preserves the invariant, whatever overlaps.                  *)
LEMMA NextHub == HubInv /\ [Next]_vars => HubInv'
  <1> SUFFICES ASSUME HubInv, [Next]_vars PROVE HubInv'
    OBVIOUS
  <1>1. ASSUME NEW t \in Tasks, ReaderStep(t) PROVE HubInv'
    BY <1>1, ReaderIsCalm, CalmKeeps, RetireKeeps
  <1>2. ASSUME NEW v \in Viewers, ViewerStep(v) PROVE HubInv'
    BY <1>2, SubscribeKeeps, OthersAreCalm, CalmKeeps
  <1>3. ASSUME NEW s \in Servers, ServerStep(s) PROVE HubInv'
    BY <1>3, HandlersKeep, OthersAreCalm, CalmKeeps
  <1>4. CASE CaptureInventory \/ SyncAgain \/ ScanBegins \/ UNCHANGED vars
    BY <1>4, OthersAreCalm, CalmKeeps
  <1>5. CASE synchronize_servers
    BY <1>5, HandlersKeep
  <1>6. CASE DropSenders \/ DropIdleSender \/ DropHistory
    BY <1>6, DropKeeps
  <1>7. QED
    BY <1>1, <1>2, <1>3, <1>4, <1>5, <1>6 DEF Next

(* The invariant holds of every behaviour.                                 *)
LEMMA HubInvariance == Spec => []HubInv
  BY InitHub, NextHub, PTL DEF Spec

(* No line of a deleted server is retained for, or sent to a viewer of, the*)
(* next server of that name, however the deletion, the readers and the     *)
(* handlers interleave.                                                    *)
THEOREM LinesStayHome == Spec => []NoStaleLines
  <1>1. HubInv => NoStaleLines
    BY DEF HubInv, LineInv, NoStaleLines
  <1>2. QED
    BY <1>1, HubInvariance, PTL

(* There are never more readers than max_active_readers, also while viewers*)
(* subscribe at once and idle readers are replaced.                        *)
THEOREM ReadersAreBounded == Spec => []ReaderBound
  <1>1. HubInv => ReaderBound
    BY DEF HubInv
  <1>2. QED
    BY <1>1, HubInvariance, PTL

(* A viewer on its server's channel always has a reader on that channel.   *)
THEOREM NobodyIsForgotten == Spec => []ViewersAreServed
  <1>1. HubInv => ViewersAreServed
    <2> SUFFICES ASSUME HubInv, NEW v \in Viewers, viewer[v].at = "on",
                        sender[viewer[v].id] = viewer[v].chan,
                        viewer[v].id \notin lock.ids
                 PROVE  /\ HasReader(viewer[v].id)
                        /\ task[reader[viewer[v].id]].chan = viewer[v].chan
      BY DEF ViewersAreServed
    <2>1. viewer[v].id \in Servers /\ viewer[v].chan # 0
      BY DEF HubInv, ReaderType, ChannelInv
    <2>2. reader[viewer[v].id] # 0
          /\ sender[viewer[v].id] = task[reader[viewer[v].id]].chan
      BY <2>1 DEF HubInv, ChannelInv
    <2>3. QED
      BY <2>1, <2>2 DEF HubInv, MapInv, HasReader
  <1>2. QED
    BY <1>1, HubInvariance, PTL
=============================================================================
