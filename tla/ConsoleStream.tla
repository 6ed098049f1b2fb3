---------------------------- MODULE ConsoleStream ----------------------------
(***************************************************************************)
(* The path of a console line (src/src/grpc/services/console): Docker log, *)
(* reader cursor, rate limit, history cache, broadcast channel, viewer.    *)
(*                                                                         *)
(* ConsoleHub says who may publish where; this module follows the lines of *)
(* servers that stay assigned.  A reader or a publisher holds a line       *)
(* between `history.push` and `sender.send` (two mutexes), a viewer exists *)
(* between the installation of its receiver and its history snapshot, and  *)
(* the Docker connection breaks anywhere, also in the middle of a line.    *)
(*                                                                         *)
(* A log line is its timestamp and its text.  A published line carries the *)
(* index of the log line it shows, 0 for notices, fragments and the        *)
(* agent's own lines.                                                      *)
(***************************************************************************)
EXTENDS Integers, FiniteSets, FiniteSetsExt, SequencesExt

CONSTANTS
    Servers, Viewers,
    Chatty,         \* servers whose container writes and whose console is seen
    Texts,          \* what a log line may say
    MaxLog,         \* bound: lines in a log
    MaxTime,        \* bound: timestamps
    Ticks,          \* timestamps in one second
    TailLines,      \* lines of the first attachment ("200")
    Capacity,       \* CONSOLE_BROADCAST_CAPACITY
    HistoryLines,   \* CONSOLE_HISTORY_LINES
    HistoryBytes,   \* CONSOLE_HISTORY_BYTES
    Maximum,        \* HistoryCache.maximum_bytes
    Overhead,       \* size_of::<ConsoleEntry>()
    Limit,          \* console_lines_per_second
    StrikeLimit,    \* console_strike_limit
    MaxBreaks,      \* bound: Docker connections lost
    MaxPublished,   \* bound: lines of the agent itself
    MaxViews        \* bound: console streams opened

(* What is published besides log lines: a notice of the agent, or the      *)
(* beginning of a line.                                                    *)
Notice == "[agent]"
Cut == "cut"
(* A notice is the longer line.                                            *)
Bytes(text) == IF text = Notice THEN 2 ELSE 1

ASSUME StreamAssumption ==
    /\ Notice \notin Texts /\ Cut \notin Texts
    /\ {MaxLog, MaxTime, TailLines, Overhead, MaxBreaks, MaxPublished, MaxViews}
         \subseteq Nat
    /\ {Ticks, Capacity, HistoryLines, HistoryBytes, Limit, StrikeLimit}
         \subseteq Nat \ {0}
    /\ Chatty \subseteq Servers
    \* configured() clamps the maximum to at least CONSOLE_HISTORY_BYTES
    /\ Maximum \in Nat /\ Maximum >= HistoryBytes

VARIABLES
    log,            \* Docker's log of each server
    reader,         \* per server, its reader task
    cache,          \* HistoryCache
    rate,           \* per server, its ConsoleRate
    publisher,      \* the caller of publish, which holds the lifecycle mutex
    viewer,         \* per viewer, its console stream
    budget,         \* what is left of the three event bounds
    done,           \* per server, log lines shown, or withheld and announced
    rewound,        \* servers whose reader was restarted over its history
    owed            \* per viewer, sequences pushed since its snapshot

vars == <<log, reader, cache, rate, publisher, viewer, budget,
          done, rewound, owed>>

None == -1
AnyServer == CHOOSE s \in Servers : TRUE
NoLine == [sequence |-> 0, of |-> 0, text |-> Notice]
NoReader == [at |-> "none", then |-> "reading", start |-> 0, pos |-> 0,
             cursor |-> None, cursor_lines |-> {},
             cutoff |-> None, cutoff_lines |-> {}, entry |-> NoLine]
NoHistory == [lines |-> <<>>, content_bytes |-> 0, charged_bytes |-> 0,
              next_sequence |-> 0]
NoViewer == [at |-> "off", id |-> AnyServer, through |-> 0, queue |-> <<>>,
             missed |-> {}, last |-> 0, reset |-> FALSE]
NoRate == [count |-> 0, strikes |-> 0, exceeded |-> FALSE,
           warned |-> FALSE]
NotPublishing == [at |-> "idle", id |-> AnyServer, entry |-> NoLine]

Init ==
    /\ log = [s \in Servers |-> <<>>]
    /\ reader = [s \in Servers |-> NoReader]
    /\ cache = [entries |-> [s \in Servers |-> NoHistory],
                charged_bytes |-> 0, recent |-> <<>>]
    /\ rate = [s \in Servers |-> NoRate]
    /\ publisher = NotPublishing
    /\ viewer = [v \in Viewers |-> NoViewer]
    /\ budget = [breaks |-> MaxBreaks, published |-> MaxPublished,
                 views |-> MaxViews]
    /\ done = [s \in Servers |-> {}] /\ rewound = {}
    /\ owed = [v \in Viewers |-> {}]

-----------------------------------------------------------------------------
(* The history cache.  `recent` lists the servers that have an entry by    *)
(* increasing last_access.                                                 *)

entry_charge(e) == Overhead + Bytes(e.text)
Charge(lines) == FoldLeft(LAMBDA sum, e : sum + entry_charge(e), 0, lines)
Content(lines) == FoldLeft(LAMBDA sum, e : sum + Bytes(e.text), 0, lines)

(* History h without its k oldest lines.                                   *)
PopFront(h, k) ==
    LET old == SubSeq(h.lines, 1, k) IN
    [h EXCEPT !.lines = SubSeq(@, k + 1, Len(@)),
              !.content_bytes = @ - Content(old),
              !.charged_bytes = @ - Charge(old)]

\* Defect: the entry is dropped but stays on the account of the cache.
RemoveUncharged(c, ids) ==
    [c EXCEPT !.entries = [s \in Servers |-> IF s \in ids THEN NoHistory
                                             ELSE @[s]],
              !.recent = SelectSeq(@, LAMBDA s : s \notin ids)]

RemoveHistory(c, ids) ==
    [c EXCEPT !.charged_bytes =
                  @ - MapThenSumSet(
                        LAMBDA s : c.entries[s].charged_bytes, ids),
              !.entries = [s \in Servers |-> IF s \in ids THEN NoHistory
                                             ELSE @[s]],
              !.recent = SelectSeq(@, LAMBDA s : s \notin ids)]

(* The least recently used others that must go, oldest first, until the    *)
(* total fits or no other is left.                                         *)
Victims(c, protected) ==
    LET n == Len(c.recent)
        Oldest(k) == {c.recent[i] : i \in 1 .. k} \ {protected}
        Freed(k) == MapThenSumSet(LAMBDA s : c.entries[s].charged_bytes,
                                  Oldest(k))
        Enough(k) == c.charged_bytes - Freed(k) <= Maximum
    IN Oldest(Min({k \in 0 .. n : Enough(k)} \cup {n}))

evict_to_budget(c, protected) ==
    LET d == RemoveHistory(c, Victims(c, protected))
        h == d.entries[protected]
        Enough(k) ==
            d.charged_bytes - Charge(SubSeq(h.lines, 1, k)) <= Maximum
        k == Min({i \in 0 .. Len(h.lines) : Enough(i)} \cup {Len(h.lines)})
        g == PopFront(h, k)
    IN [d EXCEPT !.entries[protected] = g,
                 !.charged_bytes = @ - (h.charged_bytes - g.charged_bytes)]

Touch(recent, s) == Append(SelectSeq(recent, LAMBDA r : r # s), s)

(* HistoryCache::push: the cache and the entry.                            *)
Entry(s, of, text) ==
    [sequence |-> cache.entries[s].next_sequence + 1, of |-> of,
     text |-> text]
Push(s, e) ==
    LET h == cache.entries[s]
        full == [h EXCEPT !.next_sequence = e.sequence,
                          !.lines = Append(@, e),
                          !.content_bytes = @ + Bytes(e.text),
                          !.charged_bytes = @ + entry_charge(e)]
        Fits(k) == /\ Len(full.lines) - k <= HistoryLines
                   /\ PopFront(full, k).content_bytes <= HistoryBytes
        n == Len(full.lines)
        kept == PopFront(full, Min({k \in 0 .. n : Fits(k)} \cup {n}))
    IN evict_to_budget(
         [entries |-> [cache.entries EXCEPT ![s] = kept],
          charged_bytes |-> cache.charged_bytes + kept.charged_bytes
                              - h.charged_bytes,
          recent |-> Touch(cache.recent, s)], s)

(* A push as the viewers are concerned: the line is owed to everyone whose *)
(* snapshot came before it, and the sequence of an evicted server restarts *)
(* under its viewers.                                                      *)
PushLine(s, e) ==
    LET gone == {u \in Servers : /\ cache.entries[u] # NoHistory
                                 /\ cache'.entries[u] = NoHistory} IN
    /\ cache' = Push(s, e)
    /\ owed' = [v \in Viewers |->
                  IF viewer[v].at = "live" /\ viewer[v].id = s
                  THEN owed[v] \cup {e.sequence} ELSE owed[v]]
    /\ viewer' = [v \in Viewers |->
                    IF viewer[v].at # "off" /\ viewer[v].id \in gone
                    THEN [viewer[v] EXCEPT !.reset = TRUE] ELSE viewer[v]]

-----------------------------------------------------------------------------
(* ProtectionState::observe_line, given how long ago the second and the    *)
(* last strike began.                                                      *)

Capped(n) == IF n > Limit THEN Limit + 1 ELSE n

observe_line(r, elapsed) ==
    LET calm == IF elapsed = "ten_seconds"
                THEN [r EXCEPT !.strikes = 0, !.warned = FALSE] ELSE r
        fresh == IF elapsed = "none" THEN calm
                 ELSE [calm EXCEPT !.count = 0, !.exceeded = FALSE]
        counted == [fresh EXCEPT !.count = Capped(@ + 1)]
        struck == [counted EXCEPT !.exceeded = TRUE, !.strikes = @ + 1]
        Decided(q, d) ==
            [rate |-> [q EXCEPT !.warned = @ \/ d \in {"Notify", "Trip"}],
             decision |-> d]
    IN CASE counted.count <= Limit -> Decided(counted, "Allow")
         [] counted.count > Limit /\ counted.exceeded ->
                Decided(counted, "Suppress")
         [] OTHER -> Decided(struck,
                CASE struck.strikes >= StrikeLimit -> "Trip"
                  [] struck.strikes < StrikeLimit /\ struck.strikes = 1 ->
                        "Notify"
                  [] OTHER -> "Suppress")

(* prepare_line: what is published for a line, if anything.                *)
prepare_line(s) ==
    {observe_line(rate[s], elapsed) :
        elapsed \in {"none", "second", "ten_seconds"}}
Prepared(o, text) == IF o.decision = "Allow" THEN text ELSE Notice

-----------------------------------------------------------------------------
(* The container writes a line.  Docker stamps in order.                   *)
Emit(s) ==
    /\ s \in Chatty /\ Len(log[s]) < MaxLog
    /\ \E t \in 0 .. MaxTime, text \in Texts :
         /\ log[s] # <<>> => Last(log[s]).time <= t
         /\ log' = [log EXCEPT ![s] = Append(@, [time |-> t, text |-> text])]
    /\ UNCHANGED <<reader, cache, rate, publisher, viewer, budget, done,
                   rewound, owed>>

-----------------------------------------------------------------------------
(* The reader task: read_loop and process_docker_line.                     *)

\* Defect: the fraction of a second is rounded up.
since_rounded_up(t) == (t + Ticks - 1) \div Ticks

docker_since_timestamp(t) == t \div Ticks

(* Where follow_console_logs starts reading.                               *)
FirstLine(s) ==
    LET n == Len(log[s])
        since == docker_since_timestamp(reader[s].cursor)
        Since(i) == log[s][i].time >= Ticks * since
    IN IF reader[s].cursor = None
       THEN Max({1, n - TailLines + 1})
       ELSE Min({i \in 1 .. n : Since(i)} \cup {n + 1})

Connect(s) ==
    /\ reader[s].at = "connect"
    /\ reader' = [reader EXCEPT ![s].at = "reading",
                    ![s].pos = FirstLine(s),
                    ![s].start = IF reader[s].cursor = None
                                 THEN FirstLine(s) ELSE @,
                    ![s].cutoff = reader[s].cursor,
                    ![s].cutoff_lines = reader[s].cursor_lines]
    /\ UNCHANGED <<log, cache, rate, publisher, viewer, budget, done,
                   rewound, owed>>

Skipped(r, t, text) ==
    /\ r.cutoff # None
    /\ t < r.cutoff \/ (t = r.cutoff /\ text \in r.cutoff_lines)

Seen(r, t, text) ==
    CASE t = None -> r
      [] t # None /\ t < r.cursor -> r
      [] t # None /\ t = r.cursor ->
            [r EXCEPT !.cursor_lines = @ \cup {text}]
      [] OTHER -> [r EXCEPT !.cursor = t, !.cursor_lines = {text}]

(* The position and the cutoff belong to one connection.                   *)
Disconnected(r, at) ==
    [r EXCEPT !.at = at, !.pos = 0, !.cutoff = None, !.cutoff_lines = {}]
Goes(r, next) ==
    IF next = "connect" THEN Disconnected(r, next) ELSE [r EXCEPT !.at = next]

(* process_docker_line on line `of` of the log, or on a fragment (of = 0), *)
(* read at timestamp t (None if none could be parsed), by a reader that    *)
(* goes on at `next`.  The skip test applies to stamped lines only.        *)
ProcessLine(s, t, text, of, r, next) ==
    \/ /\ t # None /\ Skipped(r, t, text)
       /\ reader' = [reader EXCEPT ![s] = Goes(r, next)]
       /\ UNCHANGED <<cache, rate, viewer, done, owed>>
    \/ /\ ~ (t # None /\ Skipped(r, t, text))
       /\ \E o \in prepare_line(s) :
            LET e == Entry(s, IF o.decision = "Allow" THEN of ELSE 0,
                           Prepared(o, text))
                held == o.decision = "Suppress"
            IN /\ rate' = [rate EXCEPT ![s] = o.rate]
               /\ reader' = [reader EXCEPT ![s] =
                               IF held THEN Goes(Seen(r, t, text), next)
                               ELSE [Goes(Seen(r, t, text), next) EXCEPT
                                       !.at = "send", !.then = next,
                                       !.entry = e]]
               /\ IF held THEN UNCHANGED <<cache, viewer, owed>>
                          ELSE PushLine(s, e)
               /\ done' = [done EXCEPT ![s] =
                             @ \cup (IF o.decision = "Allow" \/ o.rate.warned
                                     THEN {of} ELSE {})]

ReadLine(s) ==
    LET i == reader[s].pos
        r == [reader[s] EXCEPT !.pos = @ + 1]
    IN /\ reader[s].at = "reading" /\ i <= Len(log[s])
       /\ ProcessLine(s, log[s][i].time, log[s][i].text, i, r, "reading")
       /\ UNCHANGED <<log, publisher, budget, rewound>>

(* The stream ends, or a wake-up asks for a new one, between two lines.    *)
StreamEnds(s) ==
    /\ reader[s].at = "reading" /\ budget.breaks > 0
    /\ budget' = [budget EXCEPT !.breaks = @ - 1]
    /\ reader' = [reader EXCEPT ![s] = Disconnected(@, "connect")]
    /\ UNCHANGED <<log, cache, rate, publisher, viewer, done, rewound, owed>>

(* It ends in the middle of a line: decoder.finish hands over what came,   *)
(* cut in the timestamp, in the text or just before the line feed.         *)
StreamEndsInLine(s) ==
    LET i == reader[s].pos
        l == log[s][i]
    IN /\ reader[s].at = "reading" /\ i <= Len(log[s]) /\ budget.breaks > 0
       /\ budget' = [budget EXCEPT !.breaks = @ - 1]
       /\ \/ ProcessLine(s, None, Cut, 0, reader[s], "connect")
          \/ ProcessLine(s, l.time, Cut, 0, reader[s], "connect")
          \/ ProcessLine(s, l.time, l.text, i, reader[s], "connect")
       /\ UNCHANGED <<log, publisher, rewound>>

Receivers(s) == {v \in Viewers : viewer[v].at # "off" /\ viewer[v].id = s}

(* broadcast::Sender::send: a full receiver loses its oldest entry.        *)
Broadcast(s, e) ==
    viewer' = [v \in Viewers |->
        LET q == Append(viewer[v].queue, e) IN
        CASE v \notin Receivers(s) -> viewer[v]
          [] v \in Receivers(s) /\ Len(q) <= Capacity ->
                [viewer[v] EXCEPT !.queue = q]
          [] OTHER -> [viewer[v] EXCEPT !.queue = Tail(q),
                                        !.missed = @ \cup {Head(q).sequence}]]

ReaderSends(s) ==
    /\ reader[s].at = "send"
    /\ Broadcast(s, reader[s].entry)
    /\ reader' = [reader EXCEPT ![s].at = reader[s].then,
                                ![s].then = "reading",
                                ![s].entry = NoLine]
    /\ UNCHANGED <<log, cache, rate, publisher, budget, done, rewound, owed>>

(* wait_for_idle_viewers: no receiver for reader_idle.                     *)
IdleEnds(s) ==
    /\ reader[s].at \in {"connect", "reading"} /\ Receivers(s) = {}
    /\ reader' = [reader EXCEPT ![s] =
                    [NoReader EXCEPT !.at = "retire",
                                     !.start = reader[s].start]]
    /\ done' = [done EXCEPT ![s] = {}]
    /\ UNCHANGED <<log, cache, rate, publisher, viewer, budget, rewound, owed>>

(* retire_idle_reader, under the lifecycle mutex: a viewer that came       *)
(* meanwhile gets a fresh reader, without the cursor of this one.          *)
RetireIdleReader(s) ==
    /\ reader[s].at = "retire" /\ publisher.at = "idle"
    /\ \/ /\ Receivers(s) # {}
          /\ reader' = [reader EXCEPT ![s] = [NoReader EXCEPT !.at = "connect"]]
          /\ rewound' = rewound \cup {s}
          /\ UNCHANGED cache
       \/ /\ Receivers(s) = {}
          /\ reader' = [reader EXCEPT ![s] = NoReader]
          /\ rewound' = rewound \ {s}
          /\ cache' = RemoveHistory(cache, {s})
    /\ UNCHANGED <<log, rate, publisher, viewer, budget, done, owed>>

-----------------------------------------------------------------------------
(* ConsoleHub::publish: the agent's own lines.  The lifecycle mutex is     *)
(* held from the push to the send.                                         *)

Publish(s) ==
    /\ publisher.at = "idle" /\ budget.published > 0
    /\ budget' = [budget EXCEPT !.published = @ - 1]
    /\ \E o \in prepare_line(s) :
         LET e == Entry(s, 0, Prepared(o, Notice)) IN
         /\ rate' = [rate EXCEPT ![s] = o.rate]
         /\ IF o.decision = "Suppress"
            THEN UNCHANGED <<cache, viewer, owed, publisher>>
            ELSE /\ PushLine(s, e)
                 /\ publisher' = [at |-> "send", id |-> s, entry |-> e]
    /\ UNCHANGED <<log, reader, done, rewound>>

PublisherSends ==
    /\ publisher.at = "send"
    /\ Broadcast(publisher.id, publisher.entry)
    /\ publisher' = NotPublishing
    /\ UNCHANGED <<log, reader, cache, rate, budget, done, rewound, owed>>

-----------------------------------------------------------------------------
(* stream_console: subscribe, replay, then the live entries.               *)

(* The part of subscribe under the lifecycle mutex: the receiver, and a    *)
(* reader if the server has none.                                          *)
Subscribe(v, s) ==
    /\ s \in Chatty /\ viewer[v].at = "off"
    /\ publisher.at = "idle" /\ budget.views > 0
    /\ budget' = [budget EXCEPT !.views = @ - 1]
    /\ viewer' = [viewer EXCEPT ![v] =
                    [NoViewer EXCEPT !.at = "installed", !.id = s,
                       !.reset = reader[s].entry.sequence >
                                   cache.entries[s].next_sequence]]
    /\ reader' = [reader EXCEPT ![s].at = IF @ = "none" THEN "connect" ELSE @]
    /\ UNCHANGED <<log, cache, rate, publisher, done, rewound, owed>>

ReplayedThrough(h) == IF h.lines = <<>> THEN 0 ELSE Last(h.lines).sequence

(* HistoryCache::snapshot, after the mutex was released.                   *)
Snapshot(v) ==
    LET s == viewer[v].id
        h == cache.entries[s]
    IN /\ viewer[v].at = "installed"
       /\ viewer' = [viewer EXCEPT ![v].at = "live",
                       ![v].through = ReplayedThrough(h),
                       ![v].last = Max({e.of : e \in ToSet(h.lines)} \cup {0})]
       /\ cache' = IF s \in ToSet(cache.recent)
                   THEN [cache EXCEPT !.recent = Touch(@, s)] ELSE cache
       /\ UNCHANGED <<log, reader, rate, publisher, budget, done, rewound,
                      owed>>

\* Defect: the last line of the snapshot is shown again.
ShownFrom(through, e) == e.sequence >= through

\* Defect: the first line after the snapshot is taken for a part of it.
ShownAfter(through, e) == e.sequence > through + 1

Shown(through, e) == e.sequence > through

(* A lag is reported before the next entry is handed out.                  *)
Receive(v) ==
    /\ viewer[v].at = "live"
    /\ \/ /\ viewer[v].missed # {}
          /\ viewer' = [viewer EXCEPT ![v].missed = {}]
          /\ owed' = [owed EXCEPT ![v] = @ \ viewer[v].missed]
       \/ /\ viewer[v].missed = {} /\ viewer[v].queue # <<>>
          /\ LET e == Head(viewer[v].queue)
                 shown == Shown(viewer[v].through, e)
             IN /\ viewer' = [viewer EXCEPT
                      ![v].queue = Tail(@),
                      ![v].last = IF shown THEN Max({@, e.of}) ELSE @]
                /\ owed' = [owed EXCEPT ![v] =
                              IF shown THEN @ \ {e.sequence} ELSE @]
    /\ UNCHANGED <<log, reader, cache, rate, publisher, budget, done, rewound>>

Leave(v) ==
    /\ viewer[v].at # "off"
    /\ viewer' = [viewer EXCEPT ![v] = NoViewer]
    /\ owed' = [owed EXCEPT ![v] = {}]
    /\ UNCHANGED <<log, reader, cache, rate, publisher, budget, done, rewound>>

Next ==
    \/ PublisherSends
    \/ \E s \in Servers :
         \/ Emit(s) \/ Connect(s) \/ ReadLine(s) \/ StreamEnds(s)
         \/ StreamEndsInLine(s) \/ ReaderSends(s) \/ IdleEnds(s)
         \/ RetireIdleReader(s) \/ Publish(s)
         \/ \E v \in Viewers : Subscribe(v, s)
    \/ \E v \in Viewers : Snapshot(v) \/ Receive(v) \/ Leave(v)

Spec == Init /\ [][Next]_vars

-----------------------------------------------------------------------------
(* No log line falls between two connections: what the reader has passed   *)
(* since its first attachment was published, or was withheld by the rate   *)
(* limit after a notice said so, or repeats a line that was (the same text *)
(* at the same instant).  `since` has seconds, the cursor nanoseconds, and *)
(* the stream breaks inside a line (read_loop, process_docker_line,        *)
(* observe_line).                                                          *)
ReplayComplete ==
    \A s \in Servers : \A i \in reader[s].start .. reader[s].pos - 1 :
        i > 0 => \E j \in done[s] \cap (1 .. Len(log[s])) :
                    log[s][j] = log[s][i]

(* Line j may follow line i: it comes later in the log, or it shares an    *)
(* instant with the first line of the tail and was left out of the tail.   *)
Follows(s, i, j) ==
    i < j \/ (j \in 1 .. reader[s].start - 1 /\ i # j
               /\ log[s][i].time = log[s][j].time)
(* A viewer sees every log line at most once and in the order of the log:  *)
(* in the replayed history, across the seam between snapshot and queue     *)
(* (stream_console's filter) and across reconnections.  Excepted are       *)
(* streams whose server was evicted under them and servers whose reader    *)
(* was restarted by retire_idle_reader.                                    *)
OnceInOrder ==
    \A s \in Servers \ rewound :
        /\ LET lines == cache.entries[s].lines
               Logged == {i \in 1 .. Len(lines) : lines[i].of # 0}
           IN \A i, j \in Logged :
                i < j => Follows(s, lines[i].of, lines[j].of)
        /\ \A v \in Receivers(s) :
             (viewer[v].at = "live" /\ ~ viewer[v].reset) =>
                LET queue == viewer[v].queue
                    ToShow == {i \in 1 .. Len(queue) :
                                 /\ queue[i].of # 0
                                 /\ Shown(viewer[v].through, queue[i])}
                IN \A j \in ToShow :
                     /\ Follows(s, viewer[v].last, queue[j].of)
                     /\ \A i \in ToShow :
                          i < j => Follows(s, queue[i].of, queue[j].of)

(* A line pushed after a viewer's snapshot reaches it or is counted in a   *)
(* reported lag: it is in the hands of its publisher, or queued and not    *)
(* filtered, or among the lines the next receive reports as dropped.       *)
(* Excepted are streams whose server was evicted under them: the sequence  *)
(* restarts below their replayed_through.                                  *)
NoSilentLoss ==
    \A v \in Viewers : (viewer[v].at = "live" /\ ~ viewer[v].reset) =>
        LET s == viewer[v].id
            queued == {e \in ToSet(viewer[v].queue) :
                         Shown(viewer[v].through, e)}
            held == {reader[s].entry} \cup
                    (IF publisher.id = s THEN {publisher.entry} ELSE {})
        IN owed[v] \subseteq viewer[v].missed \cup
             {e.sequence : e \in queued \cup held}

(* The accounts of the history cache agree with its lines after any mix of *)
(* pushes, trims, evictions and removals, and the limits hold: lines and   *)
(* bytes of a server, bytes of all servers (push, remove,                  *)
(* evict_to_budget).                                                       *)
HistoryAccounts ==
    /\ cache.charged_bytes <= Maximum
    /\ cache.charged_bytes = MapThenSumSet(
            LAMBDA s : Charge(cache.entries[s].lines), Servers)
    /\ \A s \in Servers :
         LET h == cache.entries[s] IN
         /\ Len(h.lines) <= HistoryLines
         /\ h.content_bytes = Content(h.lines)
         /\ h.content_bytes <= HistoryBytes
         /\ s \notin ToSet(cache.recent) => h = NoHistory
=============================================================================
