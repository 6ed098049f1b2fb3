----------------------------- MODULE ConsoleHub -----------------------------
(***************************************************************************)
(* The console hub (src/src/grpc/services/console): which servers have a   *)
(* console (the inventory), which of them have a Docker log reader, and    *)
(* who may publish where.                                                  *)
(*                                                                         *)
(* The RPC handlers, the supervisor, the viewers and the reader tasks run  *)
(* concurrently.  `lifecycle`, `senders` and `history` are three separate  *)
(* mutexes: a handler that holds the first takes the others one after the  *)
(* other, and reader tasks take only the last two, so the steps between    *)
(* two acquisitions are separate actions here.                             *)
(*                                                                         *)
(* A line is abstracted to the incarnation of the server it came from:     *)
(* deleting a server ends an incarnation.                                  *)
(***************************************************************************)
EXTENDS Naturals, FiniteSets

CONSTANTS
    Servers, Viewers,
    MaxReaders,     \* max_active_readers
    MaxTasks,       \* bound: reader tasks alive at once, aborted ones included
    MaxChans,       \* bound: broadcast channels in use at once
    MaxIncs,        \* bound: incarnations of a server
    Callers,        \* who else is active besides viewers and readers
    Overlap         \* whether the panel overlaps two RPCs on one server

ASSUME HubAssumption ==
    /\ MaxReaders \in Nat \ {0} /\ MaxTasks \in Nat /\ MaxChans \in Nat
    /\ MaxIncs \in Nat /\ Overlap \in BOOLEAN
    /\ Callers \subseteq {"create", "start", "delete", "sync", "scan",
                          "publish", "docker"}
    /\ IsFiniteSet(Servers) /\ Servers # {}

VARIABLES
    container,      \* servers whose Docker container exists
    running,        \* servers whose container runs
    inflight,       \* per server, hub calls owed by RPCs past their Docker part
    snapshot,       \* the inventory the panel is sending: {} or {ids}
    observed,       \* the supervisor's observations
    stale,          \* servers its current scan found missing
    initialized,    \* ConsoleLifecycle.inventory_initialized
    desired, additions, removals,   \* ... desired and the pending deltas
    reader,         \* ... readers: per server its task, 0 if none
    lock,           \* what the holder of the lifecycle mutex still has to do
    task,           \* the reader tasks
    sender,         \* the senders map: per server its channel, 0 if none
    delivered,      \* per server, incarnations sent on its current channel
    history,        \* per server, incarnations of the retained lines
    viewer,         \* per viewer, its stream
    inc             \* per server, its incarnation

inventory == <<initialized, desired, additions, removals>>
world == <<container, running, inflight, snapshot, observed, stale>>
vars == <<container, running, inflight, snapshot, observed, stale,
          initialized, desired, additions, removals, reader, lock, task,
          sender, delivered, history, viewer, inc>>

Calls == {"track", "refresh", "remove"}
Tasks == 1 .. MaxTasks
Chans == 0 .. MaxChans
Steps == {"unused", "top", "reading", "push", "send", "check", "parking",
          "parked", "backoff", "idle"}
(* The shared atomics of a task, and "wake", the permit of its Notify.     *)
Flags == {"active", "suspended", "parked", "wake"}
AnyServer == CHOOSE s \in Servers : TRUE
NoTask == [at |-> "unused", id |-> AnyServer, chan |-> 0, inc |-> 0,
           flags |-> {}]
NoViewer == [at |-> "off", id |-> AnyServer, chan |-> 0]
Free == [op |-> "free", ids |-> {}, chan |-> 0]

TypeOK ==
    /\ container \subseteq Servers /\ running \subseteq container
    /\ inflight \in [Servers -> SUBSET Calls]
    /\ snapshot \subseteq SUBSET Servers
    /\ observed \subseteq Servers /\ stale \subseteq Servers
    /\ initialized \in BOOLEAN
    /\ desired \subseteq Servers
    /\ additions \subseteq Servers /\ removals \subseteq Servers
    /\ reader \in [Servers -> 0 .. MaxTasks]
    /\ lock \in [op : {"free", "senders", "idle", "history"},
                 ids : SUBSET Servers, chan : Chans]
    /\ task \in [Tasks -> [at : Steps, id : Servers, chan : Chans,
                           inc : 0 .. MaxIncs, flags : SUBSET Flags]]
    /\ sender \in [Servers -> Chans]
    /\ delivered \in [Servers -> SUBSET (0 .. MaxIncs)]
    /\ history \in [Servers -> SUBSET (0 .. MaxIncs)]
    /\ viewer \in [Viewers -> [at : {"off", "attaching", "on"},
                               id : Servers, chan : Chans]]
    /\ inc \in [Servers -> 0 .. MaxIncs]

(* The agent starts beside containers an earlier process created.          *)
Init ==
    /\ container \in SUBSET Servers /\ running \in SUBSET container
    /\ inflight = [s \in Servers |-> {}] /\ snapshot = {}
    /\ observed = {} /\ stale = {}
    /\ initialized = FALSE
    /\ desired = {} /\ additions = {} /\ removals = {}
    /\ reader = [s \in Servers |-> 0] /\ lock = Free
    /\ task = [t \in Tasks |-> NoTask]
    /\ sender = [s \in Servers |-> 0]
    /\ delivered = [s \in Servers |-> {}]
    /\ history = [s \in Servers |-> {}]
    /\ viewer = [v \in Viewers |-> NoViewer]
    /\ inc = [s \in Servers |-> 0]

Receivers(c) == {v \in Viewers : viewer[v].at = "on" /\ viewer[v].chan = c}
Is(t, flag) == flag \in task[t].flags
Unused == {t \in Tasks : task[t].at = "unused"}
NextTask == {t \in Unused : \A u \in Unused : t <= u}
InUse == {task[t].chan : t \in Tasks} \cup {viewer[v].chan : v \in Viewers}
            \cup {sender[s] : s \in Servers}
NextChan == {c \in 1 .. MaxChans :
               c \notin InUse /\ \A d \in 1 .. c - 1 : d \in InUse}

-----------------------------------------------------------------------------
(* Docker and the RPC handlers up to the point where they call the hub.    *)

Idle(s) == Overlap \/ inflight[s] = {}

hubVars == <<initialized, desired, additions, removals, reader, lock, task,
             sender, delivered, history, viewer, inc>>

CreateServer(s) ==
    /\ "create" \in Callers /\ s \notin container /\ Idle(s)
    /\ container' = container \cup {s}
    /\ inflight' = [inflight EXCEPT ![s] = @ \cup {"track"}]
    /\ UNCHANGED <<running, snapshot, observed, stale, hubVars>>

(* start_server, restart_server and recreate_server.                       *)
StartServer(s) ==
    /\ "start" \in Callers /\ s \in container /\ Idle(s)
    /\ running' = running \cup {s}
    /\ inflight' = [inflight EXCEPT ![s] = @ \cup {"refresh"}]
    /\ UNCHANGED <<container, snapshot, observed, stale, hubVars>>

DeleteServer(s) ==
    /\ "delete" \in Callers /\ s \in container /\ Idle(s)
    /\ inc[s] < MaxIncs
    /\ container' = container \ {s} /\ running' = running \ {s}
    /\ inflight' = [inflight EXCEPT ![s] = @ \cup {"remove"}]
    /\ UNCHANGED <<snapshot, observed, stale, hubVars>>

(* A server stops, or Docker's restart policy starts it, on its own.       *)
ContainerStops(s) ==
    /\ "docker" \in Callers /\ s \in running
    /\ running' = running \ {s}
    /\ UNCHANGED <<container, inflight, snapshot, observed, stale, hubVars>>

ContainerRestarts(s) ==
    /\ "docker" \in Callers /\ s \in container \ running
    /\ running' = running \cup {s}
    /\ UNCHANGED <<container, inflight, snapshot, observed, stale, hubVars>>

(* The panel reads its inventory; a server whose create or delete is under *)
(* way may or may not be in it.                                            *)
CaptureInventory ==
    /\ "sync" \in Callers /\ snapshot = {}
    /\ \E doubtful \in SUBSET {s \in Servers :
                                 inflight[s] \cap {"track", "remove"} # {}} :
         snapshot' = {(container \ {s \in Servers : "track" \in inflight[s]})
                         \cup doubtful}
    /\ UNCHANGED <<container, running, inflight, observed, stale, hubVars>>

-----------------------------------------------------------------------------
(* The lifecycle mutex.                                                    *)

record_addition(s) ==
    /\ removals' = IF initialized THEN removals ELSE removals \ {s}
    /\ additions' = IF initialized THEN additions ELSE additions \cup {s}

track_server(s) ==
    /\ lock = Free /\ "track" \in inflight[s]
    /\ inflight' = [inflight EXCEPT ![s] = @ \ {"track"}]
    /\ record_addition(s)
    /\ desired' = desired \cup {s}
    /\ UNCHANGED <<container, running, snapshot, observed, stale, initialized,
                   reader, lock, task, sender, delivered, history,
                   viewer, inc>>

refresh_server(s) ==
    /\ lock = Free /\ "refresh" \in inflight[s]
    /\ inflight' = [inflight EXCEPT ![s] = @ \ {"refresh"}]
    /\ record_addition(s)
    /\ desired' = desired \cup {s}
    /\ task' = IF reader[s] = 0 THEN task
               ELSE [task EXCEPT ![reader[s]].flags =
                                   (@ \ {"suspended"}) \cup {"wake"}]
    /\ UNCHANGED <<container, running, snapshot, observed, stale, initialized,
                   reader, lock, sender, delivered, history, viewer, inc>>

(* The readers of a set of servers leave the map, inactive; abort() ends   *)
(* each of them at its next await.                                         *)
stop_reader(ids) ==
    /\ reader' = [s \in Servers |-> IF s \in ids THEN 0 ELSE reader[s]]
    /\ task' = [t \in Tasks |->
                  IF \E s \in ids : reader[s] = t
                    THEN [task[t] EXCEPT !.flags = @ \ {"active"}]
                    ELSE task[t]]

\* Defect: tombstones do not apply to the inventory that arrives late.
SyncIgnoresRemovals ==
    /\ lock = Free /\ snapshot # {} /\ ~initialized
    /\ snapshot' = {}
    /\ LET wanted == (UNION snapshot) \cup additions
           removed == desired \ wanted
       IN  /\ desired' = wanted
           /\ initialized' = TRUE /\ additions' = {} /\ removals' = {}
           /\ stop_reader(removed)
           /\ lock' = IF removed = {} THEN Free
                      ELSE [op |-> "senders", ids |-> removed, chan |-> 0]
    /\ UNCHANGED <<container, running, inflight, observed, stale, sender,
                   delivered, history, viewer, inc>>

(* synchronize_servers: the first inventory, corrected by what happened    *)
(* while it was on its way.                                                *)
synchronize_servers ==
    /\ lock = Free /\ snapshot # {} /\ ~initialized
    /\ snapshot' = {}
    /\ LET wanted == ((UNION snapshot) \cup additions) \ removals
           removed == desired \ wanted
       IN  /\ desired' = wanted
           /\ initialized' = TRUE /\ additions' = {} /\ removals' = {}
           /\ stop_reader(removed)
           /\ lock' = IF removed = {} THEN Free
                      ELSE [op |-> "senders", ids |-> removed, chan |-> 0]
    /\ UNCHANGED <<container, running, inflight, observed, stale, sender,
                   delivered, history, viewer, inc>>

(* Any later inventory is answered and ignored.                            *)
SyncAgain ==
    /\ lock = Free /\ snapshot # {} /\ initialized
    /\ snapshot' = {}
    /\ UNCHANGED <<container, running, inflight, observed, stale, hubVars>>

remove(s) ==
    /\ lock = Free /\ "remove" \in inflight[s]
    /\ inflight' = [inflight EXCEPT ![s] = @ \ {"remove"}]
    /\ additions' = IF initialized THEN additions ELSE additions \ {s}
    /\ removals' = IF initialized THEN removals ELSE removals \cup {s}
    /\ desired' = desired \ {s}
    /\ stop_reader({s})
    /\ inc' = [inc EXCEPT ![s] = @ + 1]
    /\ lock' = [op |-> "senders", ids |-> {s}, chan |-> 0]
    /\ UNCHANGED <<container, running, snapshot, observed, stale, initialized,
                   sender, delivered, history, viewer>>

(* The rest of remove and synchronize_servers: senders, then history.      *)
DropSenders ==
    /\ lock.op = "senders"
    /\ sender' = [s \in Servers |-> IF s \in lock.ids THEN 0 ELSE sender[s]]
    /\ delivered' = [s \in Servers |->
                       IF s \in lock.ids THEN {} ELSE delivered[s]]
    /\ lock' = [lock EXCEPT !.op = "history"]
    /\ UNCHANGED <<world, inventory, reader, task, history, viewer, inc>>

DropHistory ==
    /\ lock.op = "history"
    /\ history' = [s \in Servers |->
                     IF s \in lock.ids THEN {} ELSE history[s]]
    /\ lock' = Free
    /\ UNCHANGED <<world, inventory, reader, task, sender, delivered,
                   viewer, inc>>

(* publish, for the supervisor's own messages.                             *)
publish(s) ==
    /\ "publish" \in Callers /\ lock = Free /\ s \in observed
    /\ IF initialized THEN s \in desired ELSE s \notin removals
    /\ history' = [history EXCEPT ![s] = @ \cup {inc[s]}]
    /\ delivered' = IF sender[s] = 0 THEN delivered
                    ELSE [delivered EXCEPT ![s] = @ \cup {inc[s]}]
    /\ UNCHANGED <<world, inventory, reader, lock, task, sender,
                   viewer, inc>>

-----------------------------------------------------------------------------
(* Viewers: stream_console.                                                *)

(* attach_requires_inspection, and docker.inspect when it says so.         *)
Attach(v, s) ==
    /\ viewer[v].at = "off" /\ lock = Free
    /\ IF initialized THEN s \in desired ELSE s \notin removals
    /\ s \in desired \/ s \in container
    /\ viewer' = [viewer EXCEPT ![v] = [at |-> "attaching", id |-> s,
                                        chan |-> 0]]
    /\ UNCHANGED <<world, inventory, reader, lock, task, sender,
                   delivered, history, inc>>

(* start_reader_locked: a fresh task on the given channel.                 *)
NewTask(s, c) == [at |-> "top", id |-> s, chan |-> c, inc |-> inc[s],
                  flags |-> {"active"}]

HasReader(s) == reader[s] # 0 /\ task[reader[s]].at # "unused"
ActiveReaders == {s \in Servers : HasReader(s)}

\* Defect: every viewer may start one more reader.
CapacityUnchecked(s) == TRUE

validate_reader_capacity(s) ==
    HasReader(s) \/ Cardinality(ActiveReaders) < MaxReaders

validate_subscription(s) ==
    IF initialized THEN s \in desired ELSE s \notin removals

(* subscribe: both checks, the channel, the receiver and ensure_reader.    *)
subscribe(v) ==
    LET s == viewer[v].id
        channel == IF sender[s] = 0 THEN NextChan ELSE {sender[s]}
    IN  /\ viewer[v].at = "attaching" /\ lock = Free
        /\ validate_subscription(s)
        /\ validate_reader_capacity(s)
        /\ \E c \in channel :
             /\ sender' = [sender EXCEPT ![s] = c]
             /\ viewer' = [viewer EXCEPT ![v] = [at |-> "on", id |-> s,
                                                 chan |-> c]]
             /\ \/ HasReader(s) /\ UNCHANGED <<reader, task>>
                \/ /\ ~HasReader(s)
                   /\ \E n \in NextTask :
                        /\ reader' = [reader EXCEPT ![s] = n]
                        /\ task' = [task EXCEPT ![n] = NewTask(s, c)]
        /\ desired' = IF initialized THEN desired ELSE desired \cup {s}
        /\ delivered' = IF sender[s] = 0
                          THEN [delivered EXCEPT ![s] = {}] ELSE delivered
        /\ UNCHANGED <<world, initialized, additions, removals, lock, history,
                       inc>>

(* The attach is refused.  Before the first inventory the check of the     *)
(* subscription has by then made the server a desired one.                 *)
AttachRefused(v) ==
    LET s == viewer[v].id
        admitted == validate_subscription(s)
    IN  /\ viewer[v].at = "attaching" /\ lock = Free
        /\ ~(admitted /\ validate_reader_capacity(s))
        /\ viewer' = [viewer EXCEPT ![v] = NoViewer]
        /\ desired' = IF admitted /\ ~initialized THEN desired \cup {s}
                      ELSE desired
        /\ UNCHANGED <<world, initialized, additions, removals, reader, lock,
                       task, sender, delivered, history, inc>>

(* The viewer hangs up.                                                    *)
Leave(v) ==
    /\ viewer[v].at = "on"
    /\ viewer' = [viewer EXCEPT ![v] = NoViewer]
    /\ UNCHANGED <<world, inventory, reader, lock, task, sender,
                   delivered, history, inc>>

(* The last sender of a channel is dropped: its streams end.               *)
StreamEnds(v) ==
    /\ viewer[v].at = "on"
    /\ sender[viewer[v].id] # viewer[v].chan
    /\ \A t \in Tasks : task[t].chan # viewer[v].chan
    /\ viewer' = [viewer EXCEPT ![v] = NoViewer]
    /\ UNCHANGED <<world, inventory, reader, lock, task, sender,
                   delivered, history, inc>>

-----------------------------------------------------------------------------
(* A reader task: read_loop, publish_prepared and retire_idle_reader.      *)

otherVars == <<container, running, inflight, snapshot, observed, stale,
               initialized, desired, additions, removals, reader, lock,
               sender, viewer, inc>>

Go(t, p) == task' = [task EXCEPT ![t].at = p]
End(t) == task' = [task EXCEPT ![t] = NoTask]

LoopTop(t) ==
    /\ task[t].at = "top"
    /\ IF Is(t, "active")
         THEN task' = [task EXCEPT
                ![t].at = IF Is(t, "suspended") THEN "parked" ELSE "reading",
                ![t].flags = IF Is(t, "suspended") THEN @ \cup {"parked"}
                             ELSE @ \ {"parked"}]
         ELSE End(t)
    /\ UNCHANGED <<otherVars, delivered, history>>

(* The log stream yields a line: new output, output Docker had buffered,   *)
(* or the rest the decoder flushes when the stream is over.                *)
ReadLine(t) ==
    /\ task[t].at = "reading"
    /\ IF Is(t, "active") THEN Go(t, "push") ELSE End(t)
    /\ UNCHANGED <<otherVars, delivered, history>>

(* ... or ends: the container stopped, or Docker dropped the connection.   *)
StreamBreaks(t) ==
    /\ task[t].at = "reading"
    /\ Go(t, "check")
    /\ UNCHANGED <<otherVars, delivered, history>>

Woken(t) ==
    /\ task[t].at \in {"reading", "parked", "backoff"} /\ Is(t, "wake")
    /\ task' = [task EXCEPT ![t].at = "top",
                            ![t].flags = @ \ {"wake", "parked"}]
    /\ UNCHANGED <<otherVars, delivered, history>>

\* Defect: the flag is not looked at again under the history mutex.
PushUnchecked(t) ==
    /\ task[t].at = "push"
    /\ history' = [history EXCEPT ![task[t].id] = @ \cup {task[t].inc}]
    /\ Go(t, "send")
    /\ UNCHANGED <<otherVars, delivered>>

(* Under the history mutex: still active, then push.                       *)
Push(t) ==
    /\ task[t].at = "push"
    /\ IF Is(t, "active")
         THEN /\ history' = [history EXCEPT ![task[t].id] = @ \cup {task[t].inc}]
              /\ Go(t, "send")
         ELSE End(t) /\ UNCHANGED history
    /\ UNCHANGED <<otherVars, delivered>>

(* Under the senders mutex: still active, then send to whoever is mapped.  *)
Send(t) ==
    /\ task[t].at = "send"
    /\ IF Is(t, "active")
         THEN /\ delivered' = IF sender[task[t].id] = 0 THEN delivered
                 ELSE [delivered EXCEPT ![task[t].id] = @ \cup {task[t].inc}]
              /\ Go(t, "reading")
         ELSE End(t) /\ UNCHANGED delivered
    /\ UNCHANGED <<otherVars, history>>

(* After the stream: inspect the container, and park if it does not run.   *)
Check(t) ==
    /\ task[t].at = "check"
    /\ IF Is(t, "active")
         THEN Go(t, IF Is(t, "suspended") THEN "top"
                      ELSE IF task[t].id \in running THEN "backoff"
                      ELSE "parking")
         ELSE End(t)
    /\ UNCHANGED <<otherVars, delivered, history>>

(* The reconnect delay of a running container's reader is over.            *)
Reconnect(t) ==
    /\ task[t].at = "backoff"
    /\ Go(t, "top")
    /\ UNCHANGED <<otherVars, delivered, history>>

Park(t) ==
    /\ task[t].at = "parking"
    /\ task' = [task EXCEPT ![t].at = "parked",
                            ![t].flags = @ \cup {"parked"}]
    /\ UNCHANGED <<otherVars, delivered, history>>

(* An aborted task is gone at its next await.                              *)
Aborted(t) ==
    /\ task[t].at # "unused" /\ ~Is(t, "active")
    /\ End(t)
    /\ UNCHANGED <<otherVars, delivered, history>>

(* wait_for_idle_viewers: the idle period passed without a receiver.       *)
IdleExpires(t) ==
    /\ task[t].at \in {"reading", "parked", "backoff"}
    /\ Receivers(task[t].chan) = {}
    /\ Go(t, "idle")
    /\ UNCHANGED <<otherVars, delivered, history>>

\* Defect: a viewer that came after the idle check is not looked for.
RetireBlindly(t) ==
    LET s == task[t].id IN
    /\ task[t].at = "idle" /\ lock = Free
    /\ End(t)
    /\ reader' = IF reader[s] = t THEN [reader EXCEPT ![s] = 0] ELSE reader
    /\ lock' = IF reader[s] = t
                 THEN [op |-> "idle", ids |-> {s}, chan |-> task[t].chan]
                 ELSE lock
    /\ UNCHANGED <<world, inventory, sender, delivered, history,
                   viewer, inc>>

(* retire_idle_reader: unless a viewer came in the meantime.               *)
Retire(t) ==
    LET s == task[t].id
        again == Receivers(task[t].chan) # {} /\ s \in desired
    IN
    /\ task[t].at = "idle" /\ lock = Free
    /\ IF reader[s] # t
         THEN End(t) /\ UNCHANGED <<reader, lock>>
         ELSE IF again
         THEN /\ \E n \in NextTask :
                   /\ reader' = [reader EXCEPT ![s] = n]
                   /\ task' = [task EXCEPT ![t] = NoTask,
                                           ![n] = NewTask(s, task[t].chan)]
              /\ UNCHANGED lock
         ELSE /\ reader' = [reader EXCEPT ![s] = 0]
              /\ lock' = [op |-> "idle", ids |-> {s}, chan |-> task[t].chan]
              /\ End(t)
    /\ UNCHANGED <<world, inventory, sender, delivered, history,
                   viewer, inc>>

DropIdleSender ==
    /\ lock.op = "idle"
    /\ LET gone == {s \in lock.ids : sender[s] = lock.chan
                                       /\ Receivers(lock.chan) = {}}
       IN  /\ sender' = [s \in Servers |-> IF s \in gone THEN 0 ELSE sender[s]]
           /\ delivered' = [s \in Servers |->
                              IF s \in gone THEN {} ELSE delivered[s]]
    /\ lock' = [lock EXCEPT !.op = "history"]
    /\ UNCHANGED <<world, inventory, reader, task, history, viewer, inc>>

ReaderStep(t) ==
    \/ LoopTop(t) \/ ReadLine(t) \/ StreamBreaks(t) \/ Woken(t) \/ Push(t)
    \/ Send(t) \/ Check(t) \/ Reconnect(t) \/ Park(t) \/ Aborted(t)
    \/ IdleExpires(t) \/ Retire(t)

-----------------------------------------------------------------------------
(* The supervisor's scan, as far as it touches the hub.                    *)

(* `docker ps`: what was observed before and is missing now is stale.      *)
ScanBegins ==
    /\ "scan" \in Callers /\ stale = {}
    /\ stale' = observed \ container
    /\ observed' = container
    /\ UNCHANGED <<container, running, inflight, snapshot, hubVars>>

detach_reader(s) ==
    /\ lock = Free /\ s \in stale
    /\ stale' = stale \ {s}
    /\ task' = IF reader[s] = 0 THEN task
               ELSE [task EXCEPT ![reader[s]].flags =
                                   @ \cup {"suspended", "wake"}]
    /\ UNCHANGED <<container, running, inflight, snapshot, observed, inventory,
                   reader, lock, sender, delivered, history, viewer,
                   inc>>

\* Defect: only suspended readers are woken.
WakeSuspendedOnly(s) ==
    /\ "scan" \in Callers /\ lock = Free
    /\ s \in running /\ s \in desired /\ reader[s] # 0
    /\ Is(reader[s], "suspended")
    /\ task' = [task EXCEPT ![reader[s]].flags =
                              (@ \ {"suspended"}) \cup {"wake"}]
    /\ UNCHANGED <<world, inventory, reader, lock, sender, delivered,
                   history, viewer, inc>>

(* wake_reader, for every container the scan finds running.                *)
wake_reader(s) ==
    /\ "scan" \in Callers /\ lock = Free
    /\ s \in running /\ s \in desired /\ reader[s] # 0
    /\ Is(reader[s], "suspended") \/ Is(reader[s], "parked")
    /\ task' = [task EXCEPT ![reader[s]].flags =
                              (@ \ {"suspended"}) \cup {"wake"}]
    /\ UNCHANGED <<world, inventory, reader, lock, sender, delivered,
                   history, viewer, inc>>

-----------------------------------------------------------------------------
ServerStep(s) ==
    \/ CreateServer(s) \/ StartServer(s) \/ DeleteServer(s)
    \/ ContainerStops(s) \/ ContainerRestarts(s)
    \/ track_server(s) \/ refresh_server(s) \/ remove(s) \/ publish(s)
    \/ detach_reader(s) \/ wake_reader(s)

ViewerStep(v) ==
    \/ \E s \in Servers : Attach(v, s)
    \/ subscribe(v) \/ AttachRefused(v) \/ Leave(v) \/ StreamEnds(v)

Next ==
    \/ \E s \in Servers : ServerStep(s)
    \/ \E v \in Viewers : ViewerStep(v)
    \/ \E t \in Tasks : ReaderStep(t)
    \/ CaptureInventory \/ synchronize_servers \/ SyncAgain
    \/ DropSenders \/ DropIdleSender \/ DropHistory \/ ScanBegins

Spec == Init /\ [][Next]_vars

(***************************************************************************)
(* A task that can run runs; a mutex is released; calls of the hub that    *)
(* are owed are made; the supervisor scans again and again.  Nothing makes *)
(* a viewer leave, a stream break or an idle period expire.                *)
(***************************************************************************)
Fairness ==
    /\ WF_vars(DropSenders) /\ WF_vars(DropIdleSender) /\ WF_vars(DropHistory)
    /\ \A t \in Tasks :
         /\ WF_vars(LoopTop(t)) /\ WF_vars(Woken(t)) /\ WF_vars(Check(t))
         /\ WF_vars(Reconnect(t)) /\ WF_vars(Park(t)) /\ WF_vars(Push(t)) /\ WF_vars(Send(t))
         /\ SF_vars(Retire(t))
    /\ \A s \in Servers : SF_vars(wake_reader(s))

FairSpec == Spec /\ Fairness

-----------------------------------------------------------------------------
(* Properties.                                                             *)

(* A deleted server's lines never reach the next server of that name: what *)
(* is retained or sent for a server stems from its present incarnation,    *)
(* whatever a reader of an earlier one was doing when it was stopped.      *)
NoStaleLines ==
    \A s \in Servers : s \notin lock.ids =>
        /\ history[s] \subseteq {inc[s]}
        /\ sender[s] # 0 => delivered[s] \subseteq {inc[s]}

(* The deltas recorded before the first inventory arrives make up for what *)
(* the inventory missed: once it is in, and the handlers are done with a   *)
(* server, the hub's idea of its assignment agrees with Docker's.          *)
InventoryConverges ==
    initialized => \A s \in Servers :
        inflight[s] = {} => (s \in desired <=> s \in container)

(* Reader tasks are bounded by max_active_readers, also while an idle one  *)
(* is replaced.                                                            *)
ReaderBound == Cardinality(ActiveReaders) <= MaxReaders

(* A viewer of an assigned server is never left without a reader, and the  *)
(* reader watches the channel the viewer is on: otherwise it would see no  *)
(* viewers, idle out, and the console would stay silent.                   *)
ViewersAreServed ==
    \A v \in Viewers :
        LET s == viewer[v].id IN
        viewer[v].at = "on" /\ sender[s] = viewer[v].chan
        /\ s \notin lock.ids
            => HasReader(s) /\ task[reader[s]].chan = viewer[v].chan

(* A wakeup lost between the reader's inspection and its parking is made   *)
(* up for by a later scan: a viewer of a running server gets to read it.   *)
ViewerReads ==
    \A v \in Viewers, s \in Servers :
        (viewer[v].at = "on" /\ viewer[v].id = s /\ s \in running)
            ~> \/ viewer[v].at # "on" \/ viewer[v].id # s \/ s \notin running
               \/ s \notin desired
               \/ reader[s] # 0 /\ task[reader[s]].at = "reading"
=============================================================================
