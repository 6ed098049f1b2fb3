------------------------ MODULE ConsoleStreamProofs ------------------------
(***************************************************************************)
(* What the path of a console line guarantees for any servers, viewers,    *)
(* logs and limits.                                                        *)
(***************************************************************************)
EXTENDS ConsoleStream, TLAPS, WellFoundedInduction

-----------------------------------------------------------------------------
(* The reader and its cursor.                                              *)

LineType == [time : Nat, text : Texts]
LogInv(L) ==
    /\ L \in Seq(LineType)
    /\ \A i, j \in 1 .. Len(L) : i < j => L[i].time <= L[j].time

ReaderType(r) ==
    /\ r = [at |-> r.at, then |-> r.then, start |-> r.start, pos |-> r.pos,
            cursor |-> r.cursor, cursor_lines |-> r.cursor_lines,
            cutoff |-> r.cutoff, cutoff_lines |-> r.cutoff_lines,
            entry |-> r.entry]
    /\ r.at \in {"none", "connect", "reading", "send", "retire"}
    /\ r.then \in {"reading", "connect"}
    /\ r.start \in Nat /\ r.pos \in Nat
    /\ r.cursor \in Nat \cup {None} /\ r.cutoff \in Nat \cup {None}

RateType == [count : Nat, strikes : Nat, exceeded : BOOLEAN, warned : BOOLEAN]
(* Suppressed lines were announced.                                        *)
RateInv(q) ==
    /\ q \in RateType
    /\ q.exceeded \/ q.strikes > 0 => q.warned

(* Line i of log L, or one of the same text and instant, is in D.          *)
Covered(L, D, i) == \E j \in D \cap (1 .. Len(L)) : L[j] = L[i]

(* What a cursor says was seen is in D: what lies before its instant since *)
(* the first attachment, and the texts it lists at its instant.            *)
Passed(L, D, start, t, lines) ==
    t # None =>
      /\ \E k \in 1 .. Len(L) : L[k].time = t
      /\ \A i \in 1 .. Len(L) :
           start <= i /\ L[i].time < t => Covered(L, D, i)
      /\ \A x \in lines \cap Texts :
           \E j \in D \cap (1 .. Len(L)) : L[j].time = t /\ L[j].text = x

(* So are the lines a connection read.                                     *)
Behind(L, D, start, pos) ==
    \A i \in 1 .. pos - 1 : start <= i => Covered(L, D, i)

Reads(r) == r.at = "reading" \/ (r.at = "send" /\ r.then = "reading")

ReaderInv(L, D, r) ==
    /\ ReaderType(r)
    /\ IF Reads(r) THEN r.pos \in 1 .. Len(L) + 1 ELSE r.pos = 0
    /\ Behind(L, D, r.start, r.pos)
    /\ Passed(L, D, r.start, r.cursor, r.cursor_lines)
    /\ Passed(L, D, r.start, r.cutoff, r.cutoff_lines)

(* Reader r after its cursor took in a line.                               *)
SeenBy(L, D, r, q) ==
    /\ ReaderType(q) /\ q.start = r.start /\ q.pos = r.pos
    /\ q.cutoff = r.cutoff /\ q.cutoff_lines = r.cutoff_lines
    /\ Passed(L, D, q.start, q.cursor, q.cursor_lines)

StreamInv ==
    /\ log = [s \in Servers |-> log[s]] /\ reader = [s \in Servers |-> reader[s]]
    /\ rate = [s \in Servers |-> rate[s]] /\ done = [s \in Servers |-> done[s]]
    /\ \A s \in Servers : /\ LogInv(log[s]) /\ RateInv(rate[s])
                          /\ ReaderInv(log[s], done[s], reader[s])

-----------------------------------------------------------------------------
(* Histories, viewers and the lines in hand.                               *)

EntryType == [sequence : Nat, of : Nat, text : Texts \cup {Notice, Cut}]

(* Sequences end with the last one given out.                              *)
HistoryInv(h) ==
    /\ h = [lines |-> h.lines, content_bytes |-> h.content_bytes,
            charged_bytes |-> h.charged_bytes,
            next_sequence |-> h.next_sequence]
    /\ h.lines \in Seq(EntryType) /\ h.next_sequence \in Nat
    /\ \A i \in 1 .. Len(h.lines) : h.lines[i].sequence <= h.next_sequence
    /\ h.lines # <<>> =>
         h.lines[Len(h.lines)].sequence = h.next_sequence

CacheInv(c) ==
    /\ c = [entries |-> c.entries, charged_bytes |-> c.charged_bytes,
            recent |-> c.recent]
    /\ c.entries = [s \in Servers |-> c.entries[s]]
    /\ \A s \in Servers : HistoryInv(c.entries[s])

ViewerType(w) ==
    /\ w = [at |-> w.at, id |-> w.id, through |-> w.through,
            queue |-> w.queue, missed |-> w.missed, last |-> w.last,
            reset |-> w.reset]
    /\ w.at \in {"off", "installed", "live"}
    /\ w.at # "off" => w.id \in Servers
    /\ w.through \in Nat /\ w.queue \in Seq(EntryType)

(* Who has a line in hand, if any.                                         *)
HandInv ==
    /\ \A s \in Servers : /\ reader[s].entry \in EntryType
                          /\ reader[s].at # "send" => reader[s].entry = NoLine
    /\ publisher = [at |-> publisher.at, id |-> publisher.id,
                    entry |-> publisher.entry]
    /\ publisher.entry \in EntryType
    /\ publisher.at # "send" => publisher.entry = NoLine
    /\ publisher.at = "send" => publisher.id \in Servers

Queued(v, x) ==
    \E i \in 1 .. Len(viewer[v].queue) : viewer[v].queue[i].sequence = x
Held(s, x) ==
    \/ reader[s].entry.sequence = x
    \/ publisher.id = s /\ publisher.entry.sequence = x
InHand(v, x) == \E s \in Servers : s = viewer[v].id /\ Held(s, x)

(* A viewer is owed what comes after its snapshot.                         *)
Owed(v) ==
    /\ viewer[v].at # "live" => owed[v] = {}
    /\ (viewer[v].at = "live" /\ ~ viewer[v].reset) =>
         /\ viewer[v].through <= cache.entries[viewer[v].id].next_sequence
         /\ \A x \in owed[v] :
              /\ x \in Nat /\ x > viewer[v].through
              /\ x \in viewer[v].missed \/ Queued(v, x) \/ InHand(v, x)

ViewersInv ==
    /\ viewer = [v \in Viewers |-> viewer[v]]
    /\ owed = [v \in Viewers |-> owed[v]]
    /\ \A v \in Viewers : ViewerType(viewer[v]) /\ Owed(v)

LinesInv == HandInv /\ CacheInv(cache) /\ ViewersInv

LossInv == StreamInv /\ LinesInv

(* The least and the greatest of a set of numbers.                         *)
LEMMA LeastOf ==
  ASSUME NEW S \in SUBSET Nat, S # {}
  PROVE  Min(S) \in S /\ \A k \in S : Min(S) <= k
  <1>1. PICK m \in S : \A k \in S : <<k, m>> \notin OpToRel(<, Nat)
    BY WFMin, NatLessThanWellFounded, Zenon
  <1>2. ASSUME NEW k \in S PROVE ~ (k < m)
    <2>1. <<k, m>> \in Nat \X Nat /\ <<k, m>> \notin OpToRel(<, Nat)
      BY <1>1, Zenon
    <2>2. QED
      BY <2>1, Zenon DEF OpToRel
  <1>3. \A k \in S : m \in Nat /\ k \in Nat
    OBVIOUS
  <1> HIDE DEF OpToRel
  <1>4. m \in S /\ \A k \in S : m =< k
    BY <1>2, <1>3
  <1>5. QED
    BY <1>4 DEF Min

LEMMA LogTimes ==
  ASSUME NEW L, LogInv(L)
  PROVE  Len(L) \in Nat
         /\ \A k \in 1 .. Len(L) : L[k] \in LineType /\ L[k].time \in Nat
  <1>1. Len(L) \in Nat /\ \A k \in 1 .. Len(L) : L[k] \in LineType
    BY DEF LogInv
  <1>2. QED
    BY <1>1 DEF LineType

(* Where the reader of a server starts: nothing before it is left out but  *)
(* what precedes the instant of its cursor, or the tail.                   *)
LEMMA FirstLineSplits ==
  ASSUME NEW s \in Servers, LogInv(log[s]), ReaderType(reader[s])
  PROVE  /\ FirstLine(s) \in 1 .. Len(log[s]) + 1
         /\ reader[s].cursor # None =>
              \A i \in 1 .. FirstLine(s) - 1 : log[s][i].time < reader[s].cursor
  <1> DEFINE L == log[s]
             n == Len(L)
             t == reader[s].cursor
  <1>1. n \in Nat /\ \A i \in 1 .. n : L[i].time \in Nat
    BY LogTimes
  <1>2. CASE t = None
    <2>1. FirstLine(s) = Max({1, n - TailLines + 1})
      BY <1>2 DEF FirstLine
    <2>2. TailLines \in Nat
      BY StreamAssumption
    <2> DEFINE m == IF n - TailLines + 1 >= 1 THEN n - TailLines + 1 ELSE 1
    <2>3. m \in {1, n - TailLines + 1} /\ \A y \in {1, n - TailLines + 1} : m >= y
      BY <1>1, <2>2
    <2>4. Max({1, n - TailLines + 1}) \in {1, n - TailLines + 1}
          /\ \A y \in {1, n - TailLines + 1} : Max({1, n - TailLines + 1}) >= y
      BY <2>3 DEF Max
    <2>5. n - TailLines + 1 \in Int /\ n - TailLines + 1 <= n + 1
      BY <1>1, <2>2
    <2>6. FirstLine(s) \in 1 .. n + 1
      BY <1>1, <2>1, <2>4, <2>5
    <2>7. QED
      BY <1>2, <2>6
  <1>3. CASE t # None
    <2> DEFINE since == docker_since_timestamp(t)
               S == {i \in 1 .. n : L[i].time >= Ticks * since} \cup {n + 1}
    <2>1. FirstLine(s) = Min(S)
      BY <1>3 DEF FirstLine
    <2>2. S \in SUBSET Nat /\ n + 1 \in S
      BY <1>1
    <2>3. Min(S) \in S /\ \A k \in S : Min(S) <= k
      BY <2>2, LeastOf
    <2>4. t \in Nat /\ Ticks \in Nat /\ Ticks > 0
      BY <1>3, StreamAssumption DEF ReaderType
    <2>5. Ticks * since <= t /\ Ticks * since \in Nat
      <3>1. \A a, b \in Nat : b > 0 => b * (a \div b) <= a /\ b * (a \div b) \in Nat
        BY SMTT(30)
      <3>2. QED
        BY <2>4, <3>1 DEF docker_since_timestamp
    <2>6. ASSUME NEW i \in 1 .. Min(S) - 1 PROVE L[i].time < t
      <3>1. Min(S) \in 1 .. n + 1
        BY <1>1, <2>3
      <3>2. i \in 1 .. n /\ i \notin S
        BY <1>1, <2>3, <2>6, <3>1
      <3>3. QED
        BY <1>1, <2>4, <2>5, <3>2
    <2>7. Min(S) \in 1 .. n + 1
      BY <1>1, <2>3
    <2>8. QED
      BY <2>1, <2>6, <2>7
  <1>4. QED
    BY <1>2, <1>3

(* The rate limit announces what it withholds.                             *)

LEMMA RateFields ==
  ASSUME NEW q \in RateType
  PROVE  /\ q.count \in Nat /\ q.strikes \in Nat
         /\ q.exceeded \in BOOLEAN /\ q.warned \in BOOLEAN
  BY DEF RateType

(* A rate that counts fewer faults, or has announced more, is as good.     *)
LEMMA RateKept ==
  ASSUME NEW q, RateInv(q), NEW p \in RateType,
         p.exceeded => q.exceeded, p.strikes = q.strikes, q.warned => p.warned
  PROVE  RateInv(p)
  BY DEF RateInv, RateType

LEMMA Struck ==
  ASSUME NEW q, RateInv(q), NEW p \in RateType, NEW d,
         p.strikes = q.strikes + 1, q.warned => p.warned,
         d = CASE p.strikes >= StrikeLimit -> "Trip"
               [] p.strikes < StrikeLimit /\ p.strikes = 1 -> "Notify"
               [] OTHER -> "Suppress"
  PROVE  LET w == [p EXCEPT !.warned = @ \/ d \in {"Notify", "Trip"}]
         IN  RateInv(w) /\ w.warned
  <1>1. q.strikes \in Nat /\ p.strikes \in Nat /\ StrikeLimit \in Nat
        /\ (q.strikes > 0 => q.warned)
    BY StreamAssumption DEF RateInv, RateType
  <1>2. CASE q.strikes > 0
    <2>1. p.warned
      BY <1>1, <1>2
    <2>2. QED
      BY <2>1 DEF RateInv, RateType
  <1>3. CASE ~ (q.strikes > 0)
    <2>1. p.strikes = 1
      BY <1>1, <1>3
    <2>2. CASE p.strikes >= StrikeLimit
      BY <2>2 DEF RateInv, RateType
    <2>3. CASE ~ (p.strikes >= StrikeLimit)
      <3>1. p.strikes < StrikeLimit
        BY <1>1, <2>3
      <3>2. d = "Notify"
        BY <2>1, <2>3, <3>1
      <3>3. QED
        BY <3>2 DEF RateInv, RateType
    <2>4. QED
      BY <2>2, <2>3
  <1>4. QED
    BY <1>2, <1>3

LEMMA Announced ==
  ASSUME NEW s \in Servers, RateInv(rate[s]), NEW o \in prepare_line(s)
  PROVE  RateInv(o.rate) /\ (o.decision = "Allow" \/ o.rate.warned)
  <1> DEFINE r == rate[s]
             Decided(q, d) ==
               [rate |-> [q EXCEPT !.warned = @ \/ d \in {"Notify", "Trip"}],
                decision |-> d]
  <1>1. PICK elapsed \in {"none", "second", "ten_seconds"} :
          o = observe_line(r, elapsed)
    BY DEF prepare_line
  <1>2. PICK calm : calm = IF elapsed = "ten_seconds"
                           THEN [r EXCEPT !.strikes = 0, !.warned = FALSE] ELSE r
    OBVIOUS
  <1>3. PICK fresh : fresh = IF elapsed = "none" THEN calm
                             ELSE [calm EXCEPT !.count = 0, !.exceeded = FALSE]
    OBVIOUS
  <1>4. PICK counted : counted = [fresh EXCEPT !.count = Capped(@ + 1)]
    OBVIOUS
  <1>5. PICK struck : struck = [counted EXCEPT !.exceeded = TRUE, !.strikes = @ + 1]
    OBVIOUS
  <1>6. PICK d : d = CASE struck.strikes >= StrikeLimit -> "Trip"
                       [] struck.strikes < StrikeLimit /\ struck.strikes = 1 ->
                            "Notify"
                       [] OTHER -> "Suppress"
    OBVIOUS
  <1>7. o = CASE counted.count <= Limit -> Decided(counted, "Allow")
              [] counted.count > Limit /\ counted.exceeded ->
                   Decided(counted, "Suppress")
              [] OTHER -> Decided(struck, d)
    BY <1>1, <1>2, <1>3, <1>4, <1>5, <1>6 DEF observe_line
  <1>8. RateInv(fresh)
    <2>1. r \in RateType /\ (r.exceeded \/ r.strikes > 0 => r.warned)
      BY DEF RateInv
    <2>2. calm \in RateType
      BY <1>2, <2>1 DEF RateType
    <2>3. CASE elapsed = "none"
      <3>1. fresh = r
        BY <1>2, <1>3, <2>3
      <3>2. QED
        BY <3>1
    <2>4. CASE elapsed # "none"
      <3>1. fresh = [calm EXCEPT !.count = 0, !.exceeded = FALSE]
        BY <1>3, <2>4
      <3>2. fresh \in RateType /\ ~ fresh.exceeded
            /\ fresh.strikes = calm.strikes /\ fresh.warned = calm.warned
        BY <2>2, <3>1 DEF RateType
      <3>3. calm.strikes > 0 => calm.warned
        BY <1>2, <2>1 DEF RateType
      <3>4. QED
        BY <3>2, <3>3 DEF RateInv
    <2>5. QED
      BY <2>3, <2>4
  <1>9. RateInv(counted) /\ counted \in RateType
    <2>1. fresh \in RateType /\ fresh.count \in Nat /\ Limit \in Nat
      BY <1>8, RateFields, StreamAssumption DEF RateInv
    <2>2. Capped(fresh.count + 1) \in Nat
      BY <2>1 DEF Capped
    <2>3. /\ counted \in RateType /\ counted.exceeded = fresh.exceeded
          /\ counted.strikes = fresh.strikes /\ counted.warned = fresh.warned
      BY <1>4, <2>1, <2>2 DEF RateType
    <2>4. QED
      BY <1>8, <2>3, RateKept
  <1>10. counted.count \in Nat /\ counted.strikes \in Nat /\ Limit \in Nat
    BY <1>9, RateFields, StreamAssumption
  <1>11. ASSUME NEW w \in {"Allow", "Suppress"}, o = Decided(counted, w)
         PROVE  RateInv(o.rate) /\ o.decision = w
                /\ (counted.warned => o.rate.warned)
    <2>1. o.rate = [counted EXCEPT !.warned = @ \/ w \in {"Notify", "Trip"}]
          /\ o.decision = w
      BY <1>11
    <2>2. /\ o.rate \in RateType /\ o.rate.exceeded = counted.exceeded
          /\ o.rate.strikes = counted.strikes
          /\ counted.warned => o.rate.warned
      BY <1>9, <2>1 DEF RateType
    <2>3. QED
      BY <1>9, <2>1, <2>2, RateKept
  <1>12. CASE counted.count <= Limit
    <2>1. ~ (counted.count > Limit)
      BY <1>10, <1>12
    <2> HIDE DEF Decided
    <2>2. o = Decided(counted, "Allow")
      BY <1>7, <1>12, <2>1
    <2>3. QED
      BY <1>11, <2>2
  <1>13. CASE counted.count > Limit /\ counted.exceeded
    <2>1. ~ (counted.count <= Limit)
      BY <1>10, <1>13
    <2>2. counted.warned
      BY <1>9, <1>13 DEF RateInv
    <2> HIDE DEF Decided
    <2>3. o = Decided(counted, "Suppress")
      BY <1>7, <1>13, <2>1
    <2>4. QED
      BY <1>11, <2>2, <2>3
  <1>14. CASE ~ (counted.count <= Limit) /\ ~ (counted.count > Limit /\ counted.exceeded)
    <2>1. struck \in RateType /\ struck.strikes = counted.strikes + 1
          /\ (counted.warned => struck.warned)
      <3>1. counted.strikes + 1 \in Nat
        BY <1>10
      <3>2. QED
        BY <1>5, <1>9, <3>1 DEF RateType
    <2>2. LET w == [struck EXCEPT !.warned = @ \/ d \in {"Notify", "Trip"}]
          IN  RateInv(w) /\ w.warned
      BY <1>6, <1>9, <2>1, Struck
    <2>3. o.rate = [struck EXCEPT !.warned = @ \/ d \in {"Notify", "Trip"}]
      BY <1>7, <1>14
    <2>4. QED
      BY <2>2, <2>3
  <1>15. QED
    BY <1>12, <1>13, <1>14

(* What was seen stays seen when more lines are shown.                     *)
LEMMA PassedGrows ==
  ASSUME NEW L, NEW D, NEW E, D \subseteq E, NEW start, NEW t, NEW lines
  PROVE  /\ \A i : Covered(L, D, i) => Covered(L, E, i)
         /\ Passed(L, D, start, t, lines) => Passed(L, E, start, t, lines)
  BY Zenon DEF Covered, Passed

(* A cursor that moves to line i of the log has lines behind it only that  *)
(* were shown: the log is ordered in time, and a fragment is none of its   *)
(* texts.                                                                  *)
LEMMA SeenPassed ==
  ASSUME NEW L, LogInv(L), NEW E, NEW r, ReaderType(r),
         NEW i \in 1 .. Len(L), NEW text,
         text = Cut \/ (text = L[i].text /\ i \in E),
         Behind(L, E, r.start, i),
         Passed(L, E, r.start, r.cursor, r.cursor_lines)
  PROVE  SeenBy(L, E, r, Seen(r, L[i].time, text))
  <1> DEFINE t == L[i].time
             n == Len(L)
             q == Seen(r, t, text)
  <1>1. n \in Nat /\ \A k \in 1 .. n : L[k] \in LineType
    BY DEF LogInv
  <1>2. n \in Nat /\ \A k \in 1 .. n : L[k].time \in Nat
    BY <1>1 DEF LineType
  <1>3. t \in Nat /\ t # None
    BY <1>2 DEF None
  <1>4. r.cursor \in Nat \cup {-1} /\ r.start \in Nat
    BY DEF ReaderType, None
  <1>5. Cut \notin Texts
    BY StreamAssumption
  <1>6. \A x \in {text} \cap Texts :
           \E j \in E \cap (1 .. n) : L[j].time = t /\ L[j].text = x
    BY <1>5
  <1> HIDE DEF n, t
  <1>7. CASE t < r.cursor
    <2>1. q = r
      BY <1>3, <1>7 DEF Seen
    <2>2. QED
      BY <2>1 DEF t, SeenBy
  <1>8. CASE t = r.cursor
    <2>1. ~ (t < r.cursor)
      BY <1>3, <1>8
    <2>2. q = [r EXCEPT !.cursor_lines = @ \cup {text}]
      BY <1>3, <1>8, <2>1 DEF Seen
    <2>3. /\ ReaderType(q) /\ q.start = r.start /\ q.pos = r.pos
          /\ q.cutoff = r.cutoff /\ q.cutoff_lines = r.cutoff_lines
          /\ q.cursor = t
          /\ q.cursor_lines = r.cursor_lines \cup {text}
      BY <1>8, <2>2 DEF ReaderType
    <2>4. Passed(L, E, r.start, t, r.cursor_lines \cup {text})
      BY <1>3, <1>6, <1>8 DEF Passed, n
    <2>5. QED
      BY <2>3, <2>4 DEF t, SeenBy
  <1>9. CASE ~ (t < r.cursor) /\ t # r.cursor
    <2>1. q = [r EXCEPT !.cursor = t, !.cursor_lines = {text}]
      BY <1>3, <1>9 DEF Seen
    <2>2. /\ ReaderType(q) /\ q.start = r.start /\ q.pos = r.pos
          /\ q.cutoff = r.cutoff /\ q.cutoff_lines = r.cutoff_lines
          /\ q.cursor = t /\ q.cursor_lines = {text}
      BY <1>3, <2>1 DEF ReaderType
    <2>3. ASSUME NEW k \in 1 .. n, r.start <= k, L[k].time < t
          PROVE  Covered(L, E, k)
      <3>1. ~ (i < k)
        BY <1>2, <2>3 DEF LogInv, n, t
      <3>2. k # i
        BY <1>2, <2>3 DEF t
      <3>3. k \in 1 .. i - 1
        BY <1>2, <3>1, <3>2 DEF n
      <3>4. QED
        BY <2>3, <3>3 DEF Behind
    <2>4. Passed(L, E, r.start, t, {text})
      BY <1>6, <2>3 DEF Passed, n, t
    <2>5. QED
      BY <2>2, <2>4 DEF t, SeenBy
  <1>10. QED
    BY <1>7, <1>8, <1>9 DEF t

(* Where a reader is once it dealt with a line.                            *)
Leaves(q, next, p) ==
    \/ p = Goes(q, next)
    \/ \E e : p = [Goes(q, next) EXCEPT !.at = "send", !.then = next,
                                        !.entry = e]

LEMMA GoesFields ==
  ASSUME NEW q, ReaderType(q), NEW next \in {"reading", "connect"}, NEW p,
         Leaves(q, next, p)
  PROVE  /\ ReaderType(p) /\ p.start = q.start /\ p.at # "retire"
         /\ p.cursor = q.cursor /\ p.cursor_lines = q.cursor_lines
         /\ Reads(p) <=> next = "reading"
         /\ next = "reading" => /\ p.pos = q.pos /\ p.cutoff = q.cutoff
                                /\ p.cutoff_lines = q.cutoff_lines
         /\ next = "connect" => p.pos = 0 /\ p.cutoff = None
  <1>1. PICK g : g = Goes(q, next)
    OBVIOUS
  <1>2. PICK e : p = g \/ p = [g EXCEPT !.at = "send", !.then = next,
                                        !.entry = e]
    BY <1>1 DEF Leaves
  <1>3. ASSUME ReaderType(g), g.at = next
        PROVE  /\ ReaderType(p) /\ p.start = g.start /\ p.pos = g.pos
               /\ p.cursor = g.cursor /\ p.cursor_lines = g.cursor_lines
               /\ p.cutoff = g.cutoff /\ p.cutoff_lines = g.cutoff_lines
               /\ Reads(p) <=> next = "reading"
               /\ p.at # "retire"
    <2>1. CASE p = g
      BY <1>3, <2>1 DEF Reads
    <2>2. CASE p = [g EXCEPT !.at = "send", !.then = next, !.entry = e]
      <3>1. /\ p.at = "send" /\ p.then = next
            /\ p.start = g.start /\ p.pos = g.pos
            /\ p.cursor = g.cursor /\ p.cursor_lines = g.cursor_lines
            /\ p.cutoff = g.cutoff /\ p.cutoff_lines = g.cutoff_lines
        BY <1>3, <2>2 DEF ReaderType
      <3>2. ReaderType(p)
        BY <1>3, <2>2 DEF ReaderType
      <3>3. QED
        BY <3>1, <3>2 DEF Reads
    <2>3. QED
      BY <1>2, <2>1, <2>2
  <1>4. CASE next = "reading"
    <2>1. g = [q EXCEPT !.at = "reading"]
      BY <1>1, <1>4 DEF Goes
    <2>2. /\ ReaderType(g) /\ g.at = next /\ g.start = q.start /\ g.pos = q.pos
          /\ g.cursor = q.cursor /\ g.cursor_lines = q.cursor_lines
          /\ g.cutoff = q.cutoff /\ g.cutoff_lines = q.cutoff_lines
      BY <1>4, <2>1 DEF ReaderType
    <2>3. QED
      BY <1>3, <1>4, <2>2
  <1>5. CASE next = "connect"
    <2>1. g = [q EXCEPT !.at = "connect", !.pos = 0,
                        !.cutoff = None, !.cutoff_lines = {}]
      BY <1>1, <1>5 DEF Goes, Disconnected
    <2>2. /\ g.at = next /\ g.start = q.start /\ g.pos = 0
          /\ g.cursor = q.cursor /\ g.cursor_lines = q.cursor_lines
          /\ g.cutoff = None
      BY <1>5, <2>1 DEF ReaderType
    <2>3. ReaderType(g)
      BY <1>5, <2>1, <2>2 DEF ReaderType
    <2>4. QED
      BY <1>3, <1>5, <2>2, <2>3
  <1>6. QED
    BY <1>4, <1>5

LEMMA GoesOn ==
  ASSUME NEW L, LogInv(L), NEW E, NEW q, ReaderType(q),
         NEW next \in {"reading", "connect"}, NEW p, Leaves(q, next, p),
         next = "reading" =>
           /\ q.pos \in 1 .. Len(L) + 1
           /\ Behind(L, E, q.start, q.pos),
         Passed(L, E, q.start, q.cursor, q.cursor_lines),
         Passed(L, E, q.start, q.cutoff, q.cutoff_lines)
  PROVE  ReaderInv(L, E, p)
  <1>1. /\ ReaderType(p) /\ p.start = q.start
        /\ p.cursor = q.cursor /\ p.cursor_lines = q.cursor_lines
        /\ Reads(p) <=> next = "reading"
        /\ next = "reading" => /\ p.pos = q.pos /\ p.cutoff = q.cutoff
                               /\ p.cutoff_lines = q.cutoff_lines
        /\ next = "connect" => p.pos = 0 /\ p.cutoff = None
    BY GoesFields
  <1>2. CASE next = "reading"
    BY <1>1, <1>2 DEF ReaderInv
  <1>3. CASE next = "connect"
    <2>1. 1 .. 0 - 1 = {} /\ Passed(L, E, p.start, None, p.cutoff_lines)
      BY DEF Passed
    <2>2. ~ Reads(p)
      BY <1>1, <1>3
    <2>3. QED
      BY <1>1, <1>3, <2>1, <2>2 DEF ReaderInv, Behind
  <1>4. QED
    BY <1>2, <1>3

(* A step that concerns the reader, the rate and the published lines of    *)
(* one server.                                                             *)
LEMMA OneServer ==
  ASSUME NEW s \in Servers, StreamInv, log' = log, NEW p, NEW q, NEW E,
         reader' = [reader EXCEPT ![s] = p], rate' = [rate EXCEPT ![s] = q],
         done' = [done EXCEPT ![s] = E],
         RateInv(q), ReaderInv(log[s], E, p)
  PROVE  StreamInv'
  <1>1. /\ reader' = [u \in Servers |-> reader'[u]]
        /\ rate' = [u \in Servers |-> rate'[u]]
        /\ done' = [u \in Servers |-> done'[u]]
        /\ reader'[s] = p /\ rate'[s] = q /\ done'[s] = E
        /\ \A u \in Servers \ {s} : reader'[u] = reader[u]
             /\ rate'[u] = rate[u] /\ done'[u] = done[u]
    BY DEF StreamInv
  <1>2. ASSUME NEW u \in Servers
        PROVE  LogInv(log[u]) /\ RateInv(rate'[u])
               /\ ReaderInv(log[u], done'[u], reader'[u])
    <2>1. CASE u = s
      BY <1>1, <2>1, Zenon DEF StreamInv
    <2>2. CASE u # s
      BY <1>1, <2>2, Zenon DEF StreamInv
    <2>3. QED
      BY <2>1, <2>2
  <1>3. QED
    BY <1>1, <1>2, Zenon DEF StreamInv

LEMMA OneReader ==
  ASSUME NEW s \in Servers, StreamInv, log' = log, rate' = rate, NEW p,
         reader' = [reader EXCEPT ![s] = p], NEW E,
         done' = [done EXCEPT ![s] = E], ReaderInv(log[s], E, p)
  PROVE  StreamInv'
  <1>1. rate' = [rate EXCEPT ![s] = rate[s]] /\ RateInv(rate[s])
    BY DEF StreamInv
  <1>2. QED
    BY <1>1, OneServer, Zenon

(* A line the skip test drops was seen by an earlier connection.           *)
LEMMA SkippedWasSeen ==
  ASSUME NEW L, LogInv(L), NEW D, NEW r, ReaderType(r), NEW i \in 1 .. Len(L),
         r.start <= i, Skipped(r, L[i].time, L[i].text),
         Passed(L, D, r.start, r.cutoff, r.cutoff_lines)
  PROVE  Covered(L, D, i)
  <1>1. \A k \in 1 .. Len(L) : L[k] \in LineType
    BY DEF LogInv
  <1>2. CASE L[i].time < r.cutoff
    BY <1>2, Zenon DEF Skipped, Passed
  <1>3. CASE L[i].time = r.cutoff /\ L[i].text \in r.cutoff_lines
    <2>1. L[i].text \in r.cutoff_lines \cap Texts
      BY <1>1, <1>3 DEF LineType
    <2>2. PICK j \in D \cap (1 .. Len(L)) :
            L[j].time = r.cutoff /\ L[j].text = L[i].text
      BY <2>1 DEF Skipped, Passed
    <2>3. L[j] = L[i]
      BY <1>1, <1>3, <2>2 DEF LineType
    <2>4. QED
      BY <2>3 DEF Covered
  <1>4. QED
    BY <1>2, <1>3 DEF Skipped

(* process_docker_line, on a line or on the beginning of one.              *)
LEMMA ProcessKeeps ==
  ASSUME NEW s \in Servers, StreamInv, log' = log,
         NEW i \in 1 .. Len(log[s]), NEW t, NEW text, NEW of, NEW r,
         NEW next \in {"reading", "connect"},
         reader[s].at = "reading", reader[s].pos = i, ReaderType(r),
         r.start = reader[s].start,
         r.cursor = reader[s].cursor, r.cursor_lines = reader[s].cursor_lines,
         r.cutoff = reader[s].cutoff, r.cutoff_lines = reader[s].cutoff_lines,
         next = "reading" => r.pos = i + 1 /\ of = i,
         \/ t = None /\ text = Cut /\ of = 0
         \/ t = log[s][i].time /\ text = Cut /\ of = 0
         \/ t = log[s][i].time /\ text = log[s][i].text /\ of = i,
         ProcessLine(s, t, text, of, r, next)
  PROVE  StreamInv'
  <1> DEFINE L == log[s]
             D == done[s]
  <1>1. LogInv(L) /\ RateInv(rate[s]) /\ ReaderInv(L, D, reader[s])
    BY DEF StreamInv
  <1>2. /\ Behind(L, D, r.start, i)
        /\ Passed(L, D, r.start, r.cursor, r.cursor_lines)
        /\ Passed(L, D, r.start, r.cutoff, r.cutoff_lines)
    BY <1>1 DEF ReaderInv
  <1>3. i \in Nat /\ i >= 1 /\ i <= Len(L) /\ Len(L) \in Nat /\ r.start \in Nat
    BY <1>1 DEF LogInv, ReaderType
  <1>4. of = 0 \/ of = i
    OBVIOUS
  <1>5. CASE /\ t # None /\ Skipped(r, t, text)
             /\ reader' = [reader EXCEPT ![s] = Goes(r, next)]
             /\ UNCHANGED <<rate, done>>
    <2>1. ASSUME next = "reading" PROVE r.start <= i => Covered(L, D, i)
      <3>1. t = L[i].time /\ text = L[i].text
        BY <1>3, <2>1
      <3>2. QED
        BY <1>1, <1>2, <1>5, <3>1, SkippedWasSeen
    <2>2. next = "reading" =>
            /\ r.pos \in 1 .. Len(L) + 1
            /\ Behind(L, D, r.start, r.pos)
      <3>1. ASSUME next = "reading", NEW k \in 1 .. r.pos - 1, r.start <= k
            PROVE  Covered(L, D, k)
        <4>1. k \in 1 .. i - 1 \/ k = i
          BY <1>3, <3>1
        <4>2. QED
          BY <1>2, <2>1, <3>1, <4>1 DEF Behind
      <3>2. next = "reading" => r.pos \in 1 .. Len(L) + 1
        BY <1>3
      <3>3. QED
        BY <3>1, <3>2 DEF Behind
    <2>3. ReaderInv(L, D, Goes(r, next))
      <3>1. Leaves(r, next, Goes(r, next))
        BY DEF Leaves
      <3>2. QED
        BY <1>1, <1>2, <2>2, <3>1, GoesOn
    <2>4. rate' = [rate EXCEPT ![s] = rate[s]] /\ done' = [done EXCEPT ![s] = D]
      BY <1>5 DEF StreamInv
    <2>5. QED
      BY <1>1, <1>5, <2>3, <2>4, OneServer
  <1>6. CASE ~ (/\ t # None /\ Skipped(r, t, text)
                /\ reader' = [reader EXCEPT ![s] = Goes(r, next)]
                /\ UNCHANGED <<rate, done>>)
    <2> DEFINE q == Seen(r, t, text)
               E == D \cup {of}
               e(o) == Entry(s, IF o.decision = "Allow" THEN of ELSE 0,
                             Prepared(o, text))
    <2>1. PICK o \in prepare_line(s) :
            /\ rate' = [rate EXCEPT ![s] = o.rate]
            /\ reader' = [reader EXCEPT ![s] =
                            IF o.decision = "Suppress" THEN Goes(q, next)
                            ELSE [Goes(q, next) EXCEPT !.at = "send",
                                    !.then = next, !.entry = e(o)]]
            /\ done' = [done EXCEPT ![s] =
                          @ \cup (IF o.decision = "Allow" \/ o.rate.warned
                                  THEN {of} ELSE {})]
      BY <1>6, Zenon DEF ProcessLine
    <2>2. RateInv(o.rate) /\ (o.decision = "Allow" \/ o.rate.warned)
      BY <1>1, Announced
    <2>3. done' = [done EXCEPT ![s] = E]
      BY <2>1, <2>2
    <2>4. PICK p : /\ reader' = [reader EXCEPT ![s] = p]
                   /\ \/ p = Goes(q, next)
                      \/ p = [Goes(q, next) EXCEPT !.at = "send",
                                !.then = next, !.entry = e(o)]
      <3> HIDE DEF q
      <3>1. QED
        BY <2>1
    <2>5. \A k : Covered(L, D, k) => Covered(L, E, k)
      BY PassedGrows
    <2>6. SeenBy(L, E, r, q)
      <3>1. CASE t = None
        <4>1. q = r
          BY <3>1 DEF Seen
        <4>2. Passed(L, E, r.start, r.cursor, r.cursor_lines)
          BY <1>2, PassedGrows
        <4>3. QED
          BY <4>1, <4>2 DEF SeenBy
      <3>2. CASE t # None
        <4>1. t = L[i].time /\ (text = Cut \/ (text = L[i].text /\ of = i))
          BY <3>2
        <4>2. text = Cut \/ (text = L[i].text /\ i \in E)
          BY <4>1
        <4>3. /\ Behind(L, E, r.start, i)
              /\ Passed(L, E, r.start, r.cursor, r.cursor_lines)
          BY <1>2, <2>5, PassedGrows DEF Behind
        <4> HIDE DEF E
        <4>4. SeenBy(L, E, r, Seen(r, L[i].time, text))
          BY <1>1, <4>2, <4>3, SeenPassed
        <4>5. QED
          BY <4>1, <4>4
      <3>3. QED
        BY <3>1, <3>2
    <2>7. Passed(L, E, q.start, q.cutoff, q.cutoff_lines)
      <3>1. Passed(L, E, r.start, r.cutoff, r.cutoff_lines)
        BY <1>2, PassedGrows
      <3> HIDE DEF q, E
      <3>2. QED
        BY <2>6, <3>1 DEF SeenBy
    <2>8. next = "reading" =>
            /\ q.pos \in 1 .. Len(L) + 1
            /\ Behind(L, E, q.start, q.pos)
      <3> SUFFICES ASSUME next = "reading"
                   PROVE  /\ q.pos \in 1 .. Len(L) + 1
                          /\ Behind(L, E, q.start, q.pos)
        OBVIOUS
      <3>1. Covered(L, E, i)
        BY DEF Covered
      <3> HIDE DEF q, E
      <3>2. q.pos = i + 1 /\ q.start = r.start
        BY <2>6 DEF SeenBy
      <3>3. ASSUME NEW k \in 1 .. q.pos - 1, q.start <= k
            PROVE  Covered(L, E, k)
        <4>1. k \in 1 .. i - 1 \/ k = i
          BY <1>3, <3>2
        <4>2. QED
          BY <1>2, <2>5, <3>1, <3>2, <3>3, <4>1 DEF Behind
      <3>4. QED
        BY <1>3, <3>2, <3>3 DEF Behind
    <2> HIDE DEF q, E, e
    <2>9. ReaderInv(L, E, p)
      <3>1. Leaves(q, next, p)
        BY <2>4 DEF Leaves
      <3>2. QED
        BY <1>1, <2>6, <2>7, <2>8, <3>1, GoesOn DEF SeenBy
    <2>10. QED
      BY <2>1, <2>2, <2>3, <2>4, <2>9, OneServer
  <1>7. QED
    BY <1>5, <1>6

(* The container writes a line: it is not before what a cursor has seen.   *)
LEMMA GrownPassed ==
  ASSUME NEW L, LogInv(L), NEW e \in LineType,
         \A k \in 1 .. Len(L) : L[k].time <= e.time,
         NEW D, NEW start, NEW t, NEW lines, Passed(L, D, start, t, lines)
  PROVE  /\ \A i \in 1 .. Len(L) :
              Covered(L, D, i) => Covered(Append(L, e), D, i)
         /\ Passed(Append(L, e), D, start, t, lines)
  <1> DEFINE n == Len(L)
             M == Append(L, e)
  <1>1. /\ n \in Nat /\ Len(M) = n + 1 /\ M[n + 1] = e
        /\ \A k \in 1 .. n : M[k] = L[k]
    BY DEF LogInv
  <1>2. \A k \in 1 .. n : L[k].time \in Nat
    BY LogTimes
  <1>3. e.time \in Nat
    BY DEF LineType
  <1> HIDE DEF M, n
  <1>4. 1 .. n \subseteq 1 .. Len(M) /\ \A k \in 1 .. Len(M) : k \in 1 .. n \/ k = n + 1
    BY <1>1
  <1>5. \A i \in 1 .. n : Covered(L, D, i) => Covered(M, D, i)
    BY <1>1, <1>4, Zenon DEF Covered, n
  <1>6. ASSUME t # None PROVE Passed(M, D, start, t, lines)
    <2>1. PICK k \in 1 .. n : L[k].time = t
      BY <1>6 DEF Passed, n
    <2>2. \E j \in 1 .. Len(M) : M[j].time = t
      BY <1>1, <1>4, <2>1
    <2>3. ASSUME NEW i \in 1 .. Len(M), start <= i, M[i].time < t
          PROVE  Covered(M, D, i)
      <3>1. CASE i = n + 1
        <4>1. t <= e.time /\ e.time < t /\ t \in Nat
          BY <1>1, <1>2, <2>1, <2>3, <3>1 DEF n
        <4>2. QED
          BY <1>3, <4>1
      <3>2. CASE i \in 1 .. n
        <4>1. L[i].time < t
          BY <1>1, <2>3, <3>2
        <4>2. QED
          BY <1>5, <1>6, <2>3, <3>2, <4>1 DEF Passed, n
      <3>3. QED
        BY <1>4, <3>1, <3>2
    <2>4. ASSUME NEW x \in lines \cap Texts
          PROVE  \E j \in D \cap (1 .. Len(M)) : M[j].time = t /\ M[j].text = x
      <3>1. PICK j \in D \cap (1 .. n) : L[j].time = t /\ L[j].text = x
        BY <1>6 DEF Passed, n
      <3>2. QED
        BY <1>1, <1>4, <3>1
    <2>5. QED
      BY <2>2, <2>3, <2>4 DEF Passed
  <1>7. Passed(M, D, start, t, lines)
    BY <1>6 DEF Passed
  <1>8. QED
    BY <1>5, <1>7 DEF M, n

LEMMA GrownReader ==
  ASSUME NEW L, LogInv(L), NEW e \in LineType,
         \A k \in 1 .. Len(L) : L[k].time <= e.time,
         NEW D, NEW r, ReaderInv(L, D, r)
  PROVE  ReaderInv(Append(L, e), D, r)
  <1>1. Len(L) \in Nat /\ Len(Append(L, e)) = Len(L) + 1
    BY DEF LogInv
  <1>2. /\ Passed(Append(L, e), D, r.start, r.cursor, r.cursor_lines)
        /\ Passed(Append(L, e), D, r.start, r.cutoff, r.cutoff_lines)
        /\ \A i \in 1 .. Len(L) :
             Covered(L, D, i) => Covered(Append(L, e), D, i)
    BY GrownPassed DEF ReaderInv
  <1>3. 1 .. r.pos - 1 \subseteq 1 .. Len(L)
    BY <1>1 DEF ReaderInv
  <1>4. Behind(Append(L, e), D, r.start, r.pos)
    BY <1>2, <1>3 DEF Behind, ReaderInv
  <1>5. IF Reads(r) THEN r.pos \in 1 .. Len(Append(L, e)) + 1 ELSE r.pos = 0
    BY <1>1 DEF ReaderInv
  <1>6. QED
    BY <1>2, <1>4, <1>5 DEF ReaderInv

LEMMA GrownLog ==
  ASSUME NEW L, LogInv(L), NEW e \in LineType,
         L # <<>> => Last(L).time <= e.time
  PROVE  LogInv(Append(L, e)) /\ \A k \in 1 .. Len(L) : L[k].time <= e.time
  <1> DEFINE n == Len(L)
             M == Append(L, e)
  <1>1. /\ n \in Nat /\ Len(M) = n + 1 /\ M[n + 1] = e
        /\ \A k \in 1 .. n : M[k] = L[k]
    BY DEF LogInv
  <1>2. \A k \in 1 .. n : L[k].time \in Nat
    BY LogTimes
  <1>3. ASSUME NEW k \in 1 .. n PROVE L[k].time <= e.time
    <2>1. L # <<>> /\ n \in 1 .. n
      BY <1>1, <1>3
    <2>2. L[n].time <= e.time
      BY <2>1 DEF Last
    <2>3. L[k].time <= L[n].time
      <3>1. CASE k = n
        BY <1>2, <3>1
      <3>2. CASE k # n
        <4>1. k < n
          BY <1>1, <3>2
        <4>2. QED
          BY <2>1, <4>1 DEF LogInv
      <3>3. QED
        BY <3>1, <3>2
    <2>4. e.time \in Nat /\ L[k].time \in Nat /\ L[n].time \in Nat
      BY <1>2, <2>1 DEF LineType
    <2> HIDE DEF n
    <2>5. QED
      BY <2>2, <2>3, <2>4
  <1>4. M \in Seq(LineType)
    BY DEF LogInv
  <1> HIDE DEF M, n
  <1>5. ASSUME NEW i \in 1 .. Len(M), NEW j \in 1 .. Len(M), i < j
        PROVE  M[i].time <= M[j].time
    <2>1. i \in 1 .. n /\ (j \in 1 .. n \/ j = n + 1)
      BY <1>1, <1>5
    <2>2. CASE j = n + 1
      BY <1>1, <1>3, <2>1, <2>2
    <2>3. CASE j \in 1 .. n
      <3>1. L[i].time <= L[j].time
        BY <1>5, <2>1, <2>3 DEF LogInv, n
      <3>2. QED
        BY <1>1, <2>1, <2>3, <3>1
    <2>4. QED
      BY <2>1, <2>2, <2>3
  <1>6. QED
    BY <1>3, <1>4, <1>5 DEF LogInv, M, n

LEMMA EmitKeeps ==
  ASSUME NEW s \in Servers, StreamInv, Emit(s)
  PROVE  StreamInv'
  <1>1. PICK e \in LineType :
          /\ log[s] # <<>> => Last(log[s]).time <= e.time
          /\ log' = [log EXCEPT ![s] = Append(@, e)]
    <2>1. PICK t \in 0 .. MaxTime, text \in Texts :
            /\ log[s] # <<>> => Last(log[s]).time <= t
            /\ log' = [log EXCEPT ![s] = Append(@, [time |-> t, text |-> text])]
      BY DEF Emit
    <2>2. [time |-> t, text |-> text] \in LineType
      BY StreamAssumption DEF LineType
    <2>3. QED
      BY <2>1, <2>2
  <1>2. UNCHANGED <<reader, rate, done>>
    BY DEF Emit
  <1>3. LogInv(log[s]) /\ ReaderInv(log[s], done[s], reader[s])
    BY DEF StreamInv
  <1>4. LogInv(Append(log[s], e))
        /\ ReaderInv(Append(log[s], e), done[s], reader[s])
    BY <1>1, <1>3, GrownLog, GrownReader
  <1>5. /\ log' = [u \in Servers |-> log'[u]] /\ log'[s] = Append(log[s], e)
        /\ \A u \in Servers \ {s} : log'[u] = log[u]
    BY <1>1 DEF StreamInv
  <1>6. ASSUME NEW u \in Servers
        PROVE  LogInv(log'[u]) /\ RateInv(rate[u])
               /\ ReaderInv(log'[u], done[u], reader[u])
    <2>1. CASE u = s
      BY <1>4, <1>5, <2>1, Zenon DEF StreamInv
    <2>2. CASE u # s
      BY <1>5, <2>2, Zenon DEF StreamInv
    <2>3. QED
      BY <2>1, <2>2
  <1>7. QED
    BY <1>2, <1>5, <1>6, Zenon DEF StreamInv

(* A connection starts behind its cursor, or at the tail.                  *)
LEMMA ConnectKeeps ==
  ASSUME NEW s \in Servers, StreamInv, Connect(s)
  PROVE  StreamInv'
  <1> DEFINE L == log[s]
             D == done[s]
             r == reader[s]
             f == FirstLine(s)
  <1>1. LogInv(L) /\ RateInv(rate[s]) /\ ReaderInv(L, D, r)
    BY DEF StreamInv
  <1>2. PICK p : /\ p = [r EXCEPT !.at = "reading", !.pos = f,
                           !.start = IF r.cursor = None THEN f ELSE @,
                           !.cutoff = r.cursor,
                           !.cutoff_lines = r.cursor_lines]
                 /\ reader' = [reader EXCEPT ![s] = p]
    BY DEF Connect, StreamInv
  <1>3. r.at = "connect" /\ log' = log /\ rate' = rate /\ done' = done
    BY DEF Connect
  <1>4. f \in 1 .. Len(L) + 1 /\ Len(L) \in Nat
        /\ (r.cursor # None => \A i \in 1 .. f - 1 : L[i].time < r.cursor)
    BY <1>1, FirstLineSplits, LogTimes DEF ReaderInv
  <1> HIDE DEF f
  <1>5. f \in Nat /\ ReaderType(r)
    BY <1>1, <1>4 DEF ReaderInv
  <1>6. /\ p.at = "reading" /\ p.pos = f
        /\ p.start = IF r.cursor = None THEN f ELSE r.start
        /\ p.cursor = r.cursor /\ p.cursor_lines = r.cursor_lines
        /\ p.cutoff = r.cursor /\ p.cutoff_lines = r.cursor_lines
    BY <1>2, <1>5 DEF ReaderType
  <1>7. ReaderType(p)
    BY <1>2, <1>5, <1>6 DEF ReaderType
  <1>8. Passed(L, D, r.start, r.cursor, r.cursor_lines)
    BY <1>1 DEF ReaderInv
  <1>9. Passed(L, D, p.start, r.cursor, r.cursor_lines)
    BY <1>6, <1>8 DEF Passed
  <1>10. Behind(L, D, p.start, f)
    <2>1. CASE r.cursor = None
      BY <1>4, <1>5, <1>6, <2>1 DEF Behind
    <2>2. CASE r.cursor # None
      <3>1. \A i \in 1 .. f - 1 : i \in 1 .. Len(L)
        BY <1>4
      <3>2. QED
        BY <1>4, <1>6, <1>8, <2>2, <3>1 DEF Behind, Passed
    <2>3. QED
      BY <2>1, <2>2
  <1>11. ReaderInv(L, D, p)
    BY <1>4, <1>6, <1>7, <1>9, <1>10 DEF ReaderInv, Reads
  <1>12. done' = [done EXCEPT ![s] = D]
    BY <1>3 DEF StreamInv
  <1>13. QED
    BY <1>2, <1>3, <1>11, <1>12, OneReader, Zenon

(* A reader between two connections, or none.                              *)
LEMMA Detached ==
  ASSUME NEW L, NEW E, NEW p, ReaderType(p), p.at \notin {"reading", "send"},
         p.pos = 0, p.cursor = None, p.cutoff = None
  PROVE  ReaderInv(L, E, p)
  <1>1. 1 .. 0 - 1 = {} /\ ~ Reads(p)
    BY DEF Reads
  <1>2. QED
    BY <1>1 DEF ReaderInv, Passed, Behind

LEMMA NoReaderType ==
  /\ ReaderType(NoReader) /\ NoReader.at = "none" /\ NoReader.start = 0
  /\ NoReader.pos = 0 /\ NoReader.cursor = None /\ NoReader.cutoff = None
  /\ NoReader.then = "reading"
  BY DEF NoReader, ReaderType, None

LEMMA ReadLineKeeps ==
  ASSUME NEW s \in Servers, StreamInv, ReadLine(s)
  PROVE  StreamInv'
  <1> DEFINE i == reader[s].pos
             r == [reader[s] EXCEPT !.pos = @ + 1]
  <1>1. /\ reader[s].at = "reading" /\ i <= Len(log[s]) /\ log' = log
        /\ ProcessLine(s, log[s][i].time, log[s][i].text, i, r, "reading")
    BY Zenon DEF ReadLine
  <1>2. ReaderInv(log[s], done[s], reader[s]) /\ LogInv(log[s])
    BY DEF StreamInv
  <1>3. i \in 1 .. Len(log[s]) /\ i \in Nat
    BY <1>1, <1>2, LogTimes DEF ReaderInv, Reads
  <1>4. ReaderType(reader[s])
    BY <1>2 DEF ReaderInv
  <1>5. /\ ReaderType(r) /\ r.pos = i + 1 /\ r.start = reader[s].start
        /\ r.cursor = reader[s].cursor
        /\ r.cursor_lines = reader[s].cursor_lines
        /\ r.cutoff = reader[s].cutoff
        /\ r.cutoff_lines = reader[s].cutoff_lines
    BY <1>3, <1>4 DEF ReaderType
  <1> HIDE DEF r
  <1>6. QED
    BY <1>1, <1>3, <1>5, ProcessKeeps

LEMMA StreamEndsInLineKeeps ==
  ASSUME NEW s \in Servers, StreamInv, StreamEndsInLine(s)
  PROVE  StreamInv'
  <1> DEFINE i == reader[s].pos
  <1>1. /\ reader[s].at = "reading" /\ i <= Len(log[s]) /\ log' = log
        /\ \/ ProcessLine(s, None, Cut, 0, reader[s], "connect")
           \/ ProcessLine(s, log[s][i].time, Cut, 0, reader[s], "connect")
           \/ ProcessLine(s, log[s][i].time, log[s][i].text, i, reader[s],
                          "connect")
    BY Zenon DEF StreamEndsInLine
  <1>2. ReaderInv(log[s], done[s], reader[s]) /\ LogInv(log[s])
    BY DEF StreamInv
  <1>3. i \in 1 .. Len(log[s])
    BY <1>1, <1>2, LogTimes DEF ReaderInv, Reads
  <1>4. ReaderType(reader[s])
    BY <1>2 DEF ReaderInv
  <1>5. CASE ProcessLine(s, None, Cut, 0, reader[s], "connect")
    BY <1>1, <1>3, <1>4, <1>5, ProcessKeeps
  <1>6. CASE ProcessLine(s, log[s][i].time, Cut, 0, reader[s], "connect")
    BY <1>1, <1>3, <1>4, <1>6, ProcessKeeps
  <1>7. CASE ProcessLine(s, log[s][i].time, log[s][i].text, i, reader[s],
                         "connect")
    BY <1>1, <1>3, <1>4, <1>7, ProcessKeeps
  <1>8. QED
    BY <1>1, <1>5, <1>6, <1>7

LEMMA StreamEndsKeeps ==
  ASSUME NEW s \in Servers, StreamInv, StreamEnds(s)
  PROVE  StreamInv'
  <1>1. PICK p : p = Goes(reader[s], "connect")
                 /\ reader' = [reader EXCEPT ![s] = p]
    BY DEF StreamEnds, Goes
  <1>2. log' = log /\ rate' = rate /\ done' = done
    BY DEF StreamEnds
  <1>3. /\ LogInv(log[s]) /\ ReaderType(reader[s])
        /\ Passed(log[s], done[s], reader[s].start, reader[s].cursor,
                  reader[s].cursor_lines)
        /\ Passed(log[s], done[s], reader[s].start, reader[s].cutoff,
                  reader[s].cutoff_lines)
    BY DEF StreamInv, ReaderInv
  <1>4. ReaderInv(log[s], done[s], Goes(reader[s], "connect"))
    <2>1. Leaves(reader[s], "connect", Goes(reader[s], "connect"))
      BY DEF Leaves
    <2>2. QED
      BY <1>3, <2>1, GoesOn
  <1>5. done' = [done EXCEPT ![s] = done[s]]
    BY <1>2 DEF StreamInv
  <1>6. QED
    BY <1>1, <1>2, <1>4, <1>5, OneReader

LEMMA ReaderSendsKeeps ==
  ASSUME NEW s \in Servers, StreamInv, ReaderSends(s)
  PROVE  StreamInv'
  <1> DEFINE r == reader[s]
  <1>1. PICK p : /\ p = [r EXCEPT !.at = r.then, !.then = "reading",
                                  !.entry = NoLine]
                 /\ reader' = [reader EXCEPT ![s] = p]
    BY DEF ReaderSends, StreamInv
  <1>2. r.at = "send" /\ log' = log /\ rate' = rate /\ done' = done
    BY DEF ReaderSends
  <1>3. ReaderInv(log[s], done[s], r)
    BY DEF StreamInv
  <1>4. /\ p.at = r.then /\ p.then = "reading" /\ p.start = r.start
        /\ p.pos = r.pos /\ p.cursor = r.cursor
        /\ p.cursor_lines = r.cursor_lines /\ p.cutoff = r.cutoff
        /\ p.cutoff_lines = r.cutoff_lines
    BY <1>1, <1>3 DEF ReaderInv, ReaderType
  <1>5. ReaderType(p)
    BY <1>1, <1>3, <1>4 DEF ReaderInv, ReaderType
  <1>6. Reads(p) <=> Reads(r)
    BY <1>2, <1>3, <1>4 DEF Reads, ReaderInv, ReaderType
  <1>7. ReaderInv(log[s], done[s], p)
    BY <1>3, <1>4, <1>5, <1>6 DEF ReaderInv
  <1>8. done' = [done EXCEPT ![s] = done[s]]
    BY <1>2 DEF StreamInv
  <1>9. QED
    BY <1>1, <1>2, <1>7, <1>8, OneReader, Zenon

LEMMA IdleEndsKeeps ==
  ASSUME NEW s \in Servers, StreamInv, IdleEnds(s)
  PROVE  StreamInv'
  <1>1. PICK p : /\ p = [NoReader EXCEPT !.at = "retire",
                                         !.start = reader[s].start]
                 /\ reader' = [reader EXCEPT ![s] = p]
    BY DEF IdleEnds
  <1>2. log' = log /\ rate' = rate /\ done' = [done EXCEPT ![s] = {}]
    BY DEF IdleEnds
  <1>3. reader[s].start \in Nat
    BY DEF StreamInv, ReaderInv, ReaderType
  <1>4. /\ ReaderType(p) /\ p.at = "retire" /\ p.pos = 0
        /\ p.cursor = None /\ p.cutoff = None
    BY <1>1, <1>3, NoReaderType DEF ReaderType
  <1>5. ReaderInv(log[s], {}, p)
    BY <1>4, Detached
  <1>6. QED
    BY <1>1, <1>2, <1>5, OneReader, Zenon

LEMMA RetireKeeps ==
  ASSUME NEW s \in Servers, StreamInv, RetireIdleReader(s)
  PROVE  StreamInv'
  <1>1. PICK p \in {NoReader, [NoReader EXCEPT !.at = "connect"]} :
          reader' = [reader EXCEPT ![s] = p]
    BY DEF RetireIdleReader
  <1>2. log' = log /\ rate' = rate /\ done' = done
    BY DEF RetireIdleReader
  <1>3. /\ ReaderType(p) /\ p.at \notin {"reading", "send"} /\ p.pos = 0
        /\ p.cursor = None /\ p.cutoff = None
    <2>1. CASE p = NoReader
      BY <2>1, NoReaderType
    <2>2. CASE p = [NoReader EXCEPT !.at = "connect"]
      BY <2>2, NoReaderType DEF ReaderType
    <2>3. QED
      BY <2>1, <2>2
  <1>4. ReaderInv(log[s], done[s], p)
    BY <1>3, Detached
  <1>5. done' = [done EXCEPT ![s] = done[s]]
    BY <1>2 DEF StreamInv
  <1>6. QED
    BY <1>1, <1>2, <1>4, <1>5, OneReader, Zenon

LEMMA SubscribeKeeps ==
  ASSUME NEW s \in Servers, NEW v \in Viewers, StreamInv, Subscribe(v, s)
  PROVE  StreamInv'
  <1> DEFINE r == reader[s]
  <1>1. PICK p : /\ p = [r EXCEPT !.at = IF @ = "none" THEN "connect" ELSE @]
                 /\ reader' = [reader EXCEPT ![s] = p]
    BY DEF Subscribe, StreamInv
  <1>2. log' = log /\ rate' = rate /\ done' = done
    BY DEF Subscribe
  <1>3. ReaderInv(log[s], done[s], r)
    BY DEF StreamInv
  <1>4. /\ p.at = IF r.at = "none" THEN "connect" ELSE r.at
        /\ p.then = r.then /\ p.start = r.start
        /\ p.pos = r.pos /\ p.cursor = r.cursor
        /\ p.cursor_lines = r.cursor_lines /\ p.cutoff = r.cutoff
        /\ p.cutoff_lines = r.cutoff_lines
    BY <1>1, <1>3 DEF ReaderInv, ReaderType
  <1>5. ReaderType(p)
    BY <1>1, <1>3, <1>4 DEF ReaderInv, ReaderType
  <1>6. Reads(p) <=> Reads(r)
    BY <1>4 DEF Reads
  <1>7. ReaderInv(log[s], done[s], p)
    BY <1>3, <1>4, <1>5, <1>6 DEF ReaderInv
  <1>8. done' = [done EXCEPT ![s] = done[s]]
    BY <1>2 DEF StreamInv
  <1>9. QED
    BY <1>1, <1>2, <1>7, <1>8, OneReader, Zenon

LEMMA PublishKeeps ==
  ASSUME NEW s \in Servers, StreamInv, Publish(s)
  PROVE  StreamInv'
  <1>1. PICK o \in prepare_line(s) : rate' = [rate EXCEPT ![s] = o.rate]
    BY Zenon DEF Publish
  <1>2. log' = log /\ reader' = reader /\ done' = done
    BY DEF Publish
  <1>3. RateInv(rate[s]) /\ ReaderInv(log[s], done[s], reader[s])
    BY DEF StreamInv
  <1>4. RateInv(o.rate)
    BY <1>3, Announced
  <1>5. /\ reader' = [reader EXCEPT ![s] = reader[s]]
        /\ done' = [done EXCEPT ![s] = done[s]]
    BY <1>2 DEF StreamInv
  <1>6. QED
    BY <1>1, <1>2, <1>3, <1>4, <1>5, OneServer, Zenon

-----------------------------------------------------------------------------
(* The first attachment fixes what a reader owes; from there every line    *)
(* behind its position was shown, or withheld and announced.               *)
LEMMA StreamInitial == ASSUME Init PROVE StreamInv
  <1>1. \A s \in Servers :
          log[s] = <<>> /\ reader[s] = NoReader /\ rate[s] = NoRate
    BY DEF Init
  <1>2. LogInv(<<>>)
    BY DEF LogInv
  <1>3. RateInv(NoRate)
    BY DEF NoRate, RateInv, RateType
  <1>4. \A s \in Servers : ReaderInv(log[s], done[s], reader[s])
    BY <1>1, NoReaderType, Detached
  <1>5. /\ log = [s \in Servers |-> log[s]]
        /\ reader = [s \in Servers |-> reader[s]]
        /\ rate = [s \in Servers |-> rate[s]]
        /\ done = [s \in Servers |-> done[s]]
    BY DEF Init
  <1>6. QED
    BY <1>1, <1>2, <1>3, <1>4, <1>5 DEF StreamInv

LEMMA StreamUnchanged ==
  ASSUME StreamInv, log' = log, reader' = reader, rate' = rate, done' = done
  PROVE  StreamInv'
  BY DEF StreamInv

LEMMA StreamStep == ASSUME StreamInv, [Next]_vars PROVE StreamInv'
  <1>1. CASE UNCHANGED vars
    BY <1>1, StreamUnchanged DEF vars
  <1>2. CASE PublisherSends
    BY <1>2, StreamUnchanged DEF PublisherSends
  <1>3. ASSUME NEW v \in Viewers, Snapshot(v) \/ Receive(v) \/ Leave(v)
        PROVE  StreamInv'
    BY <1>3, StreamUnchanged DEF Snapshot, Receive, Leave
  <1>4. ASSUME NEW s \in Servers,
               \/ Emit(s) \/ Connect(s) \/ ReadLine(s) \/ StreamEnds(s)
               \/ StreamEndsInLine(s) \/ ReaderSends(s) \/ IdleEnds(s)
               \/ RetireIdleReader(s) \/ Publish(s)
               \/ \E v \in Viewers : Subscribe(v, s)
        PROVE  StreamInv'
    BY <1>4, EmitKeeps, ConnectKeeps, ReadLineKeeps, StreamEndsKeeps,
       StreamEndsInLineKeeps, ReaderSendsKeeps, IdleEndsKeeps, RetireKeeps,
       PublishKeeps, SubscribeKeeps, Zenon
  <1>5. QED
    BY <1>1, <1>2, <1>3, <1>4, Zenon DEF Next

(* Every log line between the first attachment of a reader and its         *)
(* position was published, or withheld after a notice, or repeats one that *)
(* was, through breaks of the Docker connection at and inside lines        *)
(* (read_loop, process_docker_line, observe_line).                         *)
THEOREM NoLineBetweenConnections == Spec => []ReplayComplete
  <1>1. StreamInv => ReplayComplete
    <2>1. ASSUME StreamInv, NEW s \in Servers,
                 NEW i \in reader[s].start .. reader[s].pos - 1, i > 0
          PROVE  Covered(log[s], done[s], i)
      <3>1. ReaderInv(log[s], done[s], reader[s])
        BY <2>1 DEF StreamInv
      <3>2. reader[s].start \in Nat /\ reader[s].pos \in Nat
        BY <3>1 DEF ReaderInv, ReaderType
      <3>3. i \in 1 .. reader[s].pos - 1 /\ reader[s].start <= i
        BY <2>1, <3>2
      <3>4. QED
        BY <3>1, <3>3 DEF ReaderInv, Behind
    <2>2. QED
      BY <2>1 DEF ReplayComplete, Covered
  <1>2. QED
    BY <1>1, StreamInitial, StreamStep, PTL DEF Spec

HistoryType(h) ==
    /\ h = [lines |-> h.lines, content_bytes |-> h.content_bytes,
            charged_bytes |-> h.charged_bytes,
            next_sequence |-> h.next_sequence]
    /\ h.lines \in Seq(EntryType) /\ h.next_sequence \in Nat

(* History g is h without some of its oldest lines.                        *)
Trimmed(h, g) ==
    /\ g.next_sequence = h.next_sequence
    /\ \E k \in 0 .. Len(h.lines) :
         /\ Len(g.lines) = Len(h.lines) - k
         /\ \A i \in 1 .. Len(g.lines) : g.lines[i] = h.lines[i + k]

LEMMA PopFrontTrims ==
  ASSUME NEW h, HistoryType(h), NEW k \in 0 .. Len(h.lines)
  PROVE  HistoryType(PopFront(h, k)) /\ Trimmed(h, PopFront(h, k))
  <1> DEFINE n == Len(h.lines)
             l == SubSeq(h.lines, k + 1, n)
  <1>1. PICK c, d :
          PopFront(h, k) = [h EXCEPT !.lines = l, !.content_bytes = c,
                                     !.charged_bytes = d]
    BY DEF PopFront
  <1>2. n \in Nat /\ k \in Nat /\ h.lines \in Seq(EntryType) /\ k <= n
    BY DEF HistoryType
  <1>3. l \in Seq(EntryType) /\ Len(l) = n - k
        /\ \A i \in 1 .. Len(l) : l[i] = h.lines[i + k]
    BY <1>2
  <1> HIDE DEF l
  <1>4. PICK g : g = PopFront(h, k)
    OBVIOUS
  <1>5. /\ g = [lines |-> l, content_bytes |-> c, charged_bytes |-> d,
                next_sequence |-> h.next_sequence]
    BY <1>1, <1>4 DEF HistoryType
  <1>6. g.lines = l /\ g.next_sequence = h.next_sequence /\ HistoryType(g)
    BY <1>3, <1>5 DEF HistoryType
  <1>7. Trimmed(h, g)
    BY <1>2, <1>3, <1>6 DEF Trimmed
  <1>8. QED
    BY <1>4, <1>6, <1>7

LEMMA TrimmedKeeps ==
  ASSUME NEW h, HistoryInv(h), NEW g, HistoryType(g), Trimmed(h, g)
  PROVE  HistoryInv(g)
  <1>1. PICK k \in 0 .. Len(h.lines) :
         /\ Len(g.lines) = Len(h.lines) - k
         /\ \A i \in 1 .. Len(g.lines) : g.lines[i] = h.lines[i + k]
    BY DEF Trimmed
  <1>2. g.next_sequence = h.next_sequence
    BY DEF Trimmed
  <1>3. Len(h.lines) \in Nat /\ Len(g.lines) \in Nat /\ k \in Nat
    BY DEF HistoryInv, HistoryType
  <1>4. ASSUME NEW i \in 1 .. Len(g.lines)
        PROVE  g.lines[i].sequence <= g.next_sequence
    <2>1. i + k \in 1 .. Len(h.lines)
      BY <1>1, <1>3
    <2>2. QED
      BY <1>1, <1>2, <2>1 DEF HistoryInv
  <1>5. ASSUME g.lines # <<>>
        PROVE  g.lines[Len(g.lines)].sequence = g.next_sequence
    <2>1. Len(g.lines) \in 1 .. Len(g.lines)
      BY <1>3, <1>5 DEF HistoryType
    <2>2. g.lines[Len(g.lines)] = h.lines[Len(g.lines) + k]
      BY <1>1, <2>1
    <2>3. Len(g.lines) + k = Len(h.lines) /\ h.lines # <<>>
      BY <1>1, <1>3, <2>1
    <2>4. QED
      BY <1>2, <2>2, <2>3 DEF HistoryInv
  <1>6. QED
    BY <1>4, <1>5 DEF HistoryInv, HistoryType

LEMMA TrimmedTwice ==
  ASSUME NEW f, NEW g, NEW h, HistoryType(f), HistoryType(g), HistoryType(h),
         Trimmed(f, g), Trimmed(g, h)
  PROVE  Trimmed(f, h)
  <1>1. PICK k \in 0 .. Len(f.lines) :
         /\ Len(g.lines) = Len(f.lines) - k
         /\ \A i \in 1 .. Len(g.lines) : g.lines[i] = f.lines[i + k]
    BY DEF Trimmed
  <1>2. PICK m \in 0 .. Len(g.lines) :
         /\ Len(h.lines) = Len(g.lines) - m
         /\ \A i \in 1 .. Len(h.lines) : h.lines[i] = g.lines[i + m]
    BY DEF Trimmed
  <1>3. Len(f.lines) \in Nat /\ Len(g.lines) \in Nat /\ Len(h.lines) \in Nat
    BY DEF HistoryType
  <1>4. m + k \in 0 .. Len(f.lines) /\ Len(h.lines) = Len(f.lines) - (m + k)
    BY <1>1, <1>2, <1>3
  <1>5. ASSUME NEW i \in 1 .. Len(h.lines)
        PROVE  h.lines[i] = f.lines[i + (m + k)]
    <2>1. i + m \in 1 .. Len(g.lines)
      BY <1>2, <1>3
    <2>2. h.lines[i] = g.lines[i + m] /\ g.lines[i + m] = f.lines[(i + m) + k]
      BY <1>1, <1>2, <2>1
    <2>3. (i + m) + k = i + (m + k)
      BY <1>1, <1>2, <1>3
    <2>4. QED
      BY <2>2, <2>3
  <1>6. QED
    BY <1>4, <1>5 DEF Trimmed

LEMMA LeastBelow ==
  ASSUME NEW n \in Nat, NEW S \in SUBSET (0 .. n)
  PROVE  Min(S \cup {n}) \in 0 .. n
  <1>1. S \cup {n} \in SUBSET Nat /\ S \cup {n} # {}
    OBVIOUS
  <1>2. Min(S \cup {n}) \in S \cup {n}
    BY <1>1, LeastOf
  <1>3. S \cup {n} \subseteq 0 .. n
    OBVIOUS
  <1>4. QED
    BY <1>2, <1>3

LEMMA RemoveKeeps ==
  ASSUME NEW c, CacheInv(c), NEW ids
  PROVE  LET d == RemoveHistory(c, ids) IN
         /\ CacheInv(d)
         /\ \A u \in Servers :
              d.entries[u] = IF u \in ids THEN NoHistory ELSE c.entries[u]
  <1>1. PICK b, r : RemoveHistory(c, ids) =
          [c EXCEPT !.charged_bytes = b,
                    !.entries = [s \in Servers |-> IF s \in ids THEN NoHistory
                                                   ELSE @[s]],
                    !.recent = r]
    BY DEF RemoveHistory
  <1>2. PICK d : d = RemoveHistory(c, ids)
    OBVIOUS
  <1>3. d = [entries |-> [s \in Servers |-> IF s \in ids THEN NoHistory
                                            ELSE c.entries[s]],
             charged_bytes |-> b, recent |-> r]
    BY <1>1, <1>2 DEF CacheInv
  <1>4. HistoryInv(NoHistory)
    BY DEF HistoryInv, NoHistory
  <1>5. \A u \in Servers :
          d.entries[u] = IF u \in ids THEN NoHistory ELSE c.entries[u]
    BY <1>3
  <1>6. \A u \in Servers : HistoryInv(d.entries[u])
    BY <1>4, <1>5 DEF CacheInv
  <1>7. CacheInv(d)
    BY <1>3, <1>6 DEF CacheInv
  <1>8. QED
    BY <1>2, <1>5, <1>7

(* evict_to_budget removes others and trims the protected history.         *)
LEMMA EvictKeeps ==
  ASSUME NEW c, CacheInv(c), NEW s \in Servers
  PROVE  LET b == evict_to_budget(c, s) IN
         /\ CacheInv(b) /\ Trimmed(c.entries[s], b.entries[s])
         /\ \A u \in Servers \ {s} : b.entries[u] \in {c.entries[u], NoHistory}
  <1>1. PICK ids : ids = Victims(c, s)
    OBVIOUS
  <1>2. s \notin ids
    BY <1>1 DEF Victims
  <1>3. PICK d : d = RemoveHistory(c, ids)
    OBVIOUS
  <1>4. /\ CacheInv(d)
        /\ \A u \in Servers :
             d.entries[u] = IF u \in ids THEN NoHistory ELSE c.entries[u]
    BY <1>3, RemoveKeeps
  <1>5. PICK h : h = d.entries[s]
    OBVIOUS
  <1>6. HistoryInv(h) /\ HistoryType(h) /\ h = c.entries[s]
    BY <1>2, <1>4, <1>5 DEF CacheInv, HistoryInv, HistoryType
  <1> DEFINE n == Len(h.lines)
             S == {k \in 0 .. n :
                     d.charged_bytes - Charge(SubSeq(h.lines, 1, k)) <= Maximum}
             f == PopFront(h, Min(S \cup {n}))
  <1>7. evict_to_budget(c, s) =
          [d EXCEPT !.entries[s] = f,
                    !.charged_bytes = @ - (h.charged_bytes - f.charged_bytes)]
    BY <1>1, <1>3, <1>5 DEF evict_to_budget
  <1>8. Min(S \cup {n}) \in 0 .. n
    <2>1. n \in Nat /\ S \in SUBSET (0 .. n)
      BY <1>6 DEF HistoryType
    <2> HIDE DEF n, S
    <2>2. QED
      BY <2>1, LeastBelow
  <1>9. PICK g, x : g = f /\ x = d.charged_bytes -
                                   (h.charged_bytes - f.charged_bytes)
    OBVIOUS
  <1>10. HistoryType(g) /\ Trimmed(h, g) /\ HistoryInv(g)
    BY <1>6, <1>8, <1>9, PopFrontTrims, TrimmedKeeps
  <1>11. PICK b : b = evict_to_budget(c, s)
    OBVIOUS
  <1>12. b = [d EXCEPT !.entries[s] = g, !.charged_bytes = x]
    BY <1>7, <1>9, <1>11
  <1>13. b = [entries |-> [d.entries EXCEPT ![s] = g], charged_bytes |-> x,
              recent |-> d.recent]
    BY <1>4, <1>12 DEF CacheInv
  <1>14. /\ b.entries = [u \in Servers |-> b.entries[u]] /\ b.entries[s] = g
         /\ \A u \in Servers \ {s} : b.entries[u] = d.entries[u]
    BY <1>4, <1>13 DEF CacheInv
  <1>15. \A u \in Servers : HistoryInv(b.entries[u])
    BY <1>4, <1>10, <1>14 DEF CacheInv
  <1>16. CacheInv(b)
    BY <1>13, <1>14, <1>15 DEF CacheInv
  <1>17. QED
    BY <1>4, <1>6, <1>10, <1>11, <1>14, <1>16

(* HistoryCache::push: the entry ends the history of its server, unless    *)
(* that is empty, and other histories stay or go as a whole.               *)
LEMMA PushKeeps ==
  ASSUME CacheInv(cache), NEW s \in Servers, NEW e \in EntryType,
         e.sequence = cache.entries[s].next_sequence + 1
  PROVE  LET c == Push(s, e)
             old == cache.entries[s].lines
         IN /\ CacheInv(c) /\ c.entries[s].next_sequence = e.sequence
            /\ Trimmed([lines |-> Append(old, e), next_sequence |-> e.sequence],
                       c.entries[s])
            /\ \A u \in Servers \ {s} :
                 c.entries[u] \in {cache.entries[u], NoHistory}
  <1> DEFINE h == cache.entries[s]
             l == Append(h.lines, e)
             n == Len(l)
  <1>1. HistoryInv(h) /\ HistoryType(h)
    BY DEF CacheInv, HistoryInv, HistoryType
  <1>2. PICK full :
          full = [h EXCEPT !.next_sequence = e.sequence,
                           !.lines = Append(@, e),
                           !.content_bytes = @ + Bytes(e.text),
                           !.charged_bytes = @ + entry_charge(e)]
    OBVIOUS
  <1>3. PICK x, y : full = [lines |-> l, content_bytes |-> x,
                            charged_bytes |-> y,
                            next_sequence |-> e.sequence]
    BY <1>1, <1>2 DEF HistoryType
  <1>4. /\ h.lines \in Seq(EntryType) /\ l \in Seq(EntryType)
        /\ n = Len(h.lines) + 1 /\ Len(h.lines) \in Nat /\ l[n] = e
        /\ \A i \in 1 .. Len(h.lines) : l[i] = h.lines[i]
        /\ e.sequence \in Nat /\ h.next_sequence \in Nat
    BY <1>1 DEF HistoryType, EntryType
  <1>5. full.lines = l /\ full.next_sequence = e.sequence /\ HistoryType(full)
    BY <1>3, <1>4 DEF HistoryType
  <1> HIDE DEF l
  <1>6. HistoryInv(full)
    <2>1. \A i \in 1 .. Len(h.lines) : h.lines[i] \in EntryType
      BY <1>4
    <2>2. \A i \in 1 .. Len(h.lines) :
            h.lines[i].sequence \in Nat /\ h.lines[i].sequence <= h.next_sequence
      BY <1>1, <2>1 DEF HistoryInv, EntryType
    <2> HIDE DEF h, n
    <2>3. ASSUME NEW i \in 1 .. n PROVE l[i].sequence <= e.sequence
      <3>1. CASE i = n
        BY <1>4, <3>1
      <3>2. CASE i # n
        <4>1. i \in 1 .. Len(h.lines) /\ l[i] = h.lines[i]
          BY <1>4, <3>2
        <4>2. h.lines[i].sequence \in Nat
              /\ h.lines[i].sequence <= h.next_sequence
          BY <2>2, <4>1
        <4>3. e.sequence = h.next_sequence + 1
          BY DEF h
        <4>4. l[i].sequence = h.lines[i].sequence
          BY <4>1
        <4>5. QED
          BY <1>4, <4>2, <4>3, <4>4
      <3>3. QED
        BY <3>1, <3>2
    <2>4. Len(full.lines) = n /\ full.lines[Len(full.lines)] = e
      BY <1>4, <1>5 DEF n
    <2>5. /\ full.lines \in Seq(EntryType) /\ full.next_sequence \in Nat
          /\ \A i \in 1 .. Len(full.lines) :
               full.lines[i].sequence <= full.next_sequence
          /\ full.lines[Len(full.lines)].sequence = full.next_sequence
      BY <1>4, <1>5, <2>3, <2>4
    <2>6. QED
      BY <1>5, <2>5 DEF HistoryInv, HistoryType
  <1> DEFINE S == {k \in 0 .. n : /\ n - k <= HistoryLines
                                  /\ PopFront(full, k).content_bytes
                                       <= HistoryBytes}
             kept == PopFront(full, Min(S \cup {n}))
             w == [entries |-> [cache.entries EXCEPT ![s] = kept],
                   charged_bytes |-> cache.charged_bytes + kept.charged_bytes
                                       - h.charged_bytes,
                   recent |-> Touch(cache.recent, s)]
  <1>7. Push(s, e) = evict_to_budget(w, s)
    BY <1>2, <1>5 DEF Push
  <1>8. Min(S \cup {n}) \in 0 .. n
    <2>1. n \in Nat /\ S \in SUBSET (0 .. n)
      BY <1>4
    <2> HIDE DEF n, S
    <2>2. QED
      BY <2>1, LeastBelow
  <1>9. HistoryType(kept) /\ Trimmed(full, kept)
    <2> HIDE DEF S
    <2>1. QED
      BY <1>5, <1>8, PopFrontTrims
  <1>10. HistoryInv(kept)
    <2> HIDE DEF kept
    <2>1. QED
      BY <1>6, <1>9, TrimmedKeeps
  <1> HIDE DEF kept
  <1>11. /\ w.entries = [u \in Servers |-> w.entries[u]] /\ w.entries[s] = kept
         /\ \A u \in Servers \ {s} : w.entries[u] = cache.entries[u]
    BY DEF CacheInv
  <1>12. \A u \in Servers : HistoryInv(w.entries[u])
    BY <1>10, <1>11 DEF CacheInv
  <1>13. CacheInv(w)
    BY <1>11, <1>12 DEF CacheInv
  <1>14. PICK z, c : z = w /\ c = evict_to_budget(w, s)
    OBVIOUS
  <1>15. /\ CacheInv(c) /\ Trimmed(kept, c.entries[s])
         /\ \A u \in Servers \ {s} : c.entries[u] \in {z.entries[u], NoHistory}
    BY <1>11, <1>13, <1>14, EvictKeeps
  <1>16. HistoryType(c.entries[s])
    BY <1>15 DEF CacheInv, HistoryInv, HistoryType
  <1>17. Trimmed(full, c.entries[s])
    BY <1>5, <1>9, <1>15, <1>16, TrimmedTwice
  <1>18. Trimmed([lines |-> l, next_sequence |-> e.sequence], c.entries[s])
    BY <1>5, <1>17 DEF Trimmed
  <1>19. c.entries[s].next_sequence = e.sequence
    BY <1>18 DEF Trimmed
  <1>20. \A u \in Servers \ {s} : c.entries[u] \in {cache.entries[u], NoHistory}
    BY <1>11, <1>14, <1>15
  <1>21. QED
    BY <1>7, <1>14, <1>15, <1>18, <1>19, <1>20 DEF l

-----------------------------------------------------------------------------
(* What a viewer is owed.                                                  *)

LEMMA NoLineType == NoLine \in EntryType /\ NoLine.sequence = 0 /\ NoLine.of = 0
  BY DEF NoLine, EntryType

(* A step that leaves the viewers alone and takes no line out of a hand.   *)
LEMMA OwedStays ==
  ASSUME ViewersInv, UNCHANGED <<viewer, owed>>,
         \A u \in Servers : Receivers(u) # {} =>
            cache.entries[u].next_sequence <= cache'.entries[u].next_sequence,
         \A u \in Servers : \A x \in Nat :
            x > 0 /\ Held(u, x) => Held(u, x)',
         \A u \in Servers : /\ cache.entries[u].next_sequence \in Nat
                            /\ cache'.entries[u].next_sequence \in Nat
  PROVE  ViewersInv'
  <1>1. ASSUME NEW v \in Viewers PROVE Owed(v)'
    <2>1. viewer'[v] = viewer[v] /\ owed'[v] = owed[v] /\ ViewerType(viewer[v])
          /\ Owed(v)
      BY DEF ViewersInv
    <2>2. CASE viewer[v].at = "live" /\ ~ viewer[v].reset
      <3> DEFINE u == viewer[v].id
      <3>1. u \in Servers /\ viewer[v].through \in Nat
        BY <2>1, <2>2 DEF ViewerType
      <3>2. viewer[v].through <= cache.entries[u].next_sequence
        BY <2>1, <2>2 DEF Owed
      <3>3. viewer[v].through <= cache'.entries[u].next_sequence
        <4>1. v \in Receivers(u)
          BY <2>2 DEF Receivers
        <4>2. QED
          BY <3>1, <3>2, <4>1
      <3>4. ASSUME NEW x \in owed[v]
            PROVE  /\ x \in Nat /\ x > viewer[v].through
                   /\ x \in viewer[v].missed \/ Queued(v, x)' \/ InHand(v, x)'
        <4>1. /\ x \in Nat /\ x > viewer[v].through
              /\ x \in viewer[v].missed \/ Queued(v, x) \/ InHand(v, x)
          BY <2>1, <2>2, <3>4 DEF Owed
        <4>2. x > 0
          BY <3>1, <4>1
        <4>3. Queued(v, x) => Queued(v, x)'
          BY DEF Queued
        <4>4. InHand(v, x) => InHand(v, x)'
          BY <2>1, <4>1, <4>2 DEF InHand
        <4>5. QED
          BY <4>1, <4>3, <4>4
      <3>5. QED
        BY <2>1, <2>2, <3>3, <3>4 DEF Owed
    <2>3. CASE ~ (viewer[v].at = "live" /\ ~ viewer[v].reset)
      BY <2>1, <2>3 DEF Owed
    <2>4. QED
      BY <2>2, <2>3
  <1>2. QED
    BY <1>1 DEF ViewersInv

(* A push is owed to the viewers of its server; who loses its history is   *)
(* reset.                                                                  *)
LEMMA OwedPush ==
  ASSUME ViewersInv, CacheInv(cache), NEW s \in Servers, NEW e \in EntryType,
         e.sequence = cache.entries[s].next_sequence + 1, PushLine(s, e),
         \A u \in Servers : \A x \in Nat :
            x > 0 /\ Held(u, x) => Held(u, x)',
         Held(s, e.sequence)'
  PROVE  ViewersInv' /\ CacheInv(cache')
  <1>1. /\ CacheInv(cache')
        /\ cache'.entries[s].next_sequence = e.sequence
        /\ \A u \in Servers \ {s} :
             cache'.entries[u] \in {cache.entries[u], NoHistory}
    BY PushKeeps DEF PushLine
  <1>2. PICK gone : /\ gone = {u \in Servers : /\ cache.entries[u] # NoHistory
                                 /\ cache'.entries[u] = NoHistory}
         /\ owed' = [v \in Viewers |->
                  IF viewer[v].at = "live" /\ viewer[v].id = s
                  THEN owed[v] \cup {e.sequence} ELSE owed[v]]
         /\ viewer' = [v \in Viewers |->
                    IF viewer[v].at # "off" /\ viewer[v].id \in gone
                    THEN [viewer[v] EXCEPT !.reset = TRUE] ELSE viewer[v]]
    BY DEF PushLine
  <1>3. /\ viewer' = [v \in Viewers |-> viewer'[v]]
        /\ owed' = [v \in Viewers |-> owed'[v]]
    BY <1>2
  <1>4. ASSUME NEW v \in Viewers PROVE ViewerType(viewer'[v]) /\ Owed(v)'
    <2> DEFINE w == viewer[v]
               u == w.id
    <2>1. ViewerType(w) /\ Owed(v)
      BY DEF ViewersInv
    <2>2. viewer'[v] = IF w.at # "off" /\ w.id \in gone
                       THEN [w EXCEPT !.reset = TRUE] ELSE w
      BY <1>2
    <2>3. /\ ViewerType(viewer'[v])
          /\ viewer'[v].at = w.at /\ viewer'[v].id = u
          /\ viewer'[v].through = w.through /\ viewer'[v].queue = w.queue
          /\ viewer'[v].missed = w.missed
          /\ ~ viewer'[v].reset => ~ w.reset /\ (w.at # "off" => u \notin gone)
      BY <2>1, <2>2 DEF ViewerType
    <2>4. owed'[v] = IF w.at = "live" /\ u = s
                     THEN owed[v] \cup {e.sequence} ELSE owed[v]
      BY <1>2
    <2>5. CASE w.at # "live"
      BY <2>1, <2>3, <2>4, <2>5 DEF Owed
    <2>6. CASE w.at = "live" /\ viewer'[v].reset
      BY <2>3, <2>6 DEF Owed
    <2>7. CASE w.at = "live" /\ ~ viewer'[v].reset
      <3>1. ~ w.reset /\ u \notin gone /\ u \in Servers /\ w.through \in Nat
        BY <2>1, <2>3, <2>7 DEF ViewerType
      <3>2. w.through <= cache.entries[u].next_sequence
        BY <2>1, <2>7, <3>1 DEF Owed
      <3>3. /\ cache.entries[u].next_sequence \in Nat
            /\ cache.entries[s].next_sequence \in Nat
        BY <3>1 DEF CacheInv, HistoryInv
      <3>4. u # s => cache'.entries[u] = cache.entries[u]
        BY <1>1, <1>2, <3>1
      <3>5. w.through <= cache'.entries[u].next_sequence
        <4>1. CASE u = s
          BY <1>1, <3>1, <3>2, <3>3, <4>1
        <4>2. CASE u # s
          BY <3>2, <3>4, <4>2
        <4>3. QED
          BY <4>1, <4>2
      <3>6. ASSUME NEW x \in owed'[v]
            PROVE  /\ x \in Nat /\ x > w.through
                   /\ x \in w.missed \/ Queued(v, x)' \/ InHand(v, x)'
        <4>1. CASE x \in owed[v]
          <5>1. /\ x \in Nat /\ x > w.through
                /\ x \in w.missed \/ Queued(v, x) \/ InHand(v, x)
            BY <2>1, <2>7, <3>1, <4>1 DEF Owed
          <5>2. x > 0
            BY <3>1, <5>1
          <5>3. Queued(v, x) => Queued(v, x)'
            BY <2>3 DEF Queued
          <5>4. InHand(v, x) => InHand(v, x)'
            BY <2>3, <5>1, <5>2 DEF InHand
          <5>5. QED
            BY <5>1, <5>3, <5>4
        <4>2. CASE x \notin owed[v]
          <5>1. u = s /\ x = e.sequence
            BY <2>4, <3>6, <4>2
          <5>2. x \in Nat /\ x > w.through
            BY <3>1, <3>2, <3>3, <5>1
          <5>3. InHand(v, x)'
            BY <2>3, <5>1 DEF InHand
          <5>4. QED
            BY <5>2, <5>3
        <4>3. QED
          BY <4>1, <4>2
      <3>7. QED
        BY <2>3, <2>7, <3>5, <3>6 DEF Owed
    <2>8. QED
      BY <2>3, <2>5, <2>6, <2>7
  <1>5. QED
    BY <1>1, <1>3, <1>4 DEF ViewersInv

(* broadcast::Sender::send: what the queue of a viewer loses is counted.   *)
LEMMA SentOne ==
  ASSUME NEW v \in Viewers, NEW s \in Servers, NEW e \in EntryType,
         ViewerType(viewer[v]), viewer' = [u \in Viewers |-> viewer'[u]],
         Broadcast(s, e)
  PROVE  LET w == viewer[v]
             z == viewer'[v]
             q == Append(w.queue, e)
         IN /\ ViewerType(z) /\ z.at = w.at /\ z.id = w.id /\ z.last = w.last
            /\ z.through = w.through /\ z.reset = w.reset
            /\ IF w.at # "off" /\ w.id = s
               THEN \/ z.queue = q /\ z.missed = w.missed
                    \/ /\ z.queue = Tail(q)
                       /\ z.missed = w.missed \cup {q[1].sequence}
               ELSE z = w
  <1> DEFINE w == viewer[v]
             q == Append(w.queue, e)
  <1>1. PICK z : z = viewer'[v]
    OBVIOUS
  <1>2. q \in Seq(EntryType) /\ q # <<>> /\ Head(q) = q[1]
        /\ Tail(q) \in Seq(EntryType)
    <2>1. w.queue \in Seq(EntryType)
      BY DEF ViewerType
    <2>2. q \in Seq(EntryType) /\ Len(q) = Len(w.queue) + 1
      BY <2>1
    <2>3. q # <<>>
      BY <2>1, <2>2
    <2> HIDE DEF q
    <2>4. QED
      BY <2>2, <2>3
  <1>3. v \in Receivers(s) <=> w.at # "off" /\ w.id = s
    BY DEF Receivers
  <1>4. z = CASE v \notin Receivers(s) -> w
              [] v \in Receivers(s) /\ Len(q) <= Capacity ->
                    [w EXCEPT !.queue = q]
              [] OTHER -> [w EXCEPT !.queue = Tail(q),
                                    !.missed = @ \cup {Head(q).sequence}]
    BY <1>1 DEF Broadcast
  <1> HIDE DEF q
  <1>5. CASE v \notin Receivers(s)
    <2>1. z = w
      BY <1>4, <1>5
    <2>2. QED
      BY <1>1, <1>3, <1>5, <2>1
  <1>6. CASE v \in Receivers(s) /\ z = [w EXCEPT !.queue = q]
    <2>1. /\ z.at = w.at /\ z.id = w.id /\ z.last = w.last
          /\ z.through = w.through /\ z.reset = w.reset
          /\ z.queue = q /\ z.missed = w.missed
      BY <1>6 DEF ViewerType
    <2>2. ViewerType(z)
      BY <1>2, <1>6, <2>1 DEF ViewerType
    <2>3. QED
      BY <1>1, <1>3, <1>6, <2>1, <2>2 DEF q
  <1>7. CASE v \in Receivers(s) /\ z = [w EXCEPT !.queue = Tail(q),
                                    !.missed = @ \cup {Head(q).sequence}]
    <2>1. /\ z.at = w.at /\ z.id = w.id /\ z.last = w.last
          /\ z.through = w.through /\ z.reset = w.reset
          /\ z.queue = Tail(q) /\ z.missed = w.missed \cup {q[1].sequence}
      BY <1>2, <1>7 DEF ViewerType
    <2>2. ViewerType(z)
      BY <1>2, <1>7, <2>1 DEF ViewerType
    <2>3. QED
      BY <1>1, <1>3, <1>7, <2>1, <2>2 DEF q
  <1>8. QED
    BY <1>4, <1>5, <1>6, <1>7

LEMMA OwedSent ==
  ASSUME ViewersInv, NEW s \in Servers, NEW e \in EntryType,
         Broadcast(s, e), UNCHANGED <<cache, owed>>,
         \A u \in Servers : \A x \in Nat :
            x > 0 /\ Held(u, x)
              => Held(u, x)' \/ (u = s /\ x = e.sequence)
  PROVE  ViewersInv'
  <1>1. viewer' = [v \in Viewers |-> viewer'[v]]
    BY DEF Broadcast
  <1>2. ASSUME NEW v \in Viewers PROVE ViewerType(viewer'[v]) /\ Owed(v)'
    <2> DEFINE w == viewer[v]
               q == Append(w.queue, e)
    <2>1. ViewerType(w) /\ Owed(v) /\ owed'[v] = owed[v]
      BY DEF ViewersInv
    <2>2. PICK z : z = viewer'[v]
      OBVIOUS
    <2>3. /\ ViewerType(z) /\ z.at = w.at /\ z.id = w.id
          /\ z.through = w.through /\ z.reset = w.reset
          /\ IF w.at # "off" /\ w.id = s
             THEN \/ z.queue = q /\ z.missed = w.missed
                  \/ /\ z.queue = Tail(q)
                     /\ z.missed = w.missed \cup {q[1].sequence}
             ELSE z = w
      BY <1>1, <2>1, <2>2, SentOne
    <2>4. CASE w.at = "live" /\ ~ w.reset
      <3>1. w.through \in Nat
        BY <2>1 DEF ViewerType
      <3>2. ASSUME NEW x \in owed[v]
            PROVE  /\ x \in Nat /\ x > w.through
                   /\ x \in z.missed \/ Queued(v, x)' \/ InHand(v, x)'
        <4>1. /\ x \in Nat /\ x > w.through
              /\ x \in w.missed \/ Queued(v, x) \/ InHand(v, x)
          BY <2>1, <2>4, <3>2 DEF Owed
        <4>2. w.missed \subseteq z.missed
          BY <2>3
        <4>3. CASE w.id = s
          <5>1. /\ w.queue \in Seq(EntryType) /\ Len(q) = Len(w.queue) + 1
                /\ q[Len(q)] = e /\ q \in Seq(EntryType)
                /\ \A i \in 1 .. Len(w.queue) : q[i] = w.queue[i]
                /\ Len(w.queue) \in Nat
            BY <2>1 DEF ViewerType
          <5>2. ASSUME NEW i \in 1 .. Len(q), q[i].sequence = x
                PROVE  x \in z.missed \/ Queued(v, x)'
            <6>1. CASE z.queue = q
              BY <2>2, <5>2, <6>1 DEF Queued
            <6>2. CASE z.queue = Tail(q) /\ z.missed = w.missed \cup {q[1].sequence}
              <7>1. CASE i = 1
                BY <5>2, <6>2, <7>1
              <7>2. CASE i # 1
                <8>1. /\ i - 1 \in 1 .. Len(Tail(q))
                      /\ Tail(q)[i - 1] = q[i]
                  BY <5>1, <7>2
                <8>2. QED
                  BY <2>2, <5>2, <6>2, <8>1 DEF Queued
              <7>3. QED
                BY <7>1, <7>2
            <6>3. QED
              BY <2>3, <2>4, <4>3, <6>1, <6>2
          <5>3. Queued(v, x) => \E i \in 1 .. Len(q) : q[i].sequence = x
            BY <5>1 DEF Queued
          <5>4. x = e.sequence => \E i \in 1 .. Len(q) : q[i].sequence = x
            BY <5>1
          <5>5. x > 0
            BY <3>1, <4>1
          <5>6. viewer[v].id = viewer'[v].id
            BY <2>2, <2>3
          <5>7. InHand(v, x) => InHand(v, x)' \/ x = e.sequence
            BY <4>1, <5>5, <5>6 DEF InHand
          <5> HIDE DEF q
          <5>8. QED
            BY <4>1, <4>2, <5>2, <5>3, <5>4, <5>7
        <4>4. CASE w.id # s
          <5>1. z = w /\ x > 0
            BY <2>3, <3>1, <4>1, <4>4
          <5>2. Queued(v, x) => Queued(v, x)'
            BY <2>2, <5>1 DEF Queued
          <5>3. InHand(v, x) => InHand(v, x)'
            BY <2>2, <4>1, <4>4, <5>1 DEF InHand
          <5>4. QED
            BY <4>1, <4>2, <5>2, <5>3
        <4>5. QED
          BY <4>3, <4>4
      <3>3. w.through <= cache.entries[w.id].next_sequence
        BY <2>1, <2>4 DEF Owed
      <3>4. QED
        BY <2>1, <2>2, <2>3, <2>4, <3>2, <3>3 DEF Owed
    <2>5. CASE ~ (w.at = "live" /\ ~ w.reset)
      <3>1. /\ viewer'[v].at = w.at /\ viewer'[v].reset = w.reset
            /\ ViewerType(viewer'[v])
        BY <2>2, <2>3
      <3>2. QED
        BY <2>1, <2>5, <3>1 DEF Owed
    <2>6. QED
      BY <2>4, <2>5
  <1>3. QED
    BY <1>1, <1>2 DEF ViewersInv

-----------------------------------------------------------------------------
(* Every step keeps what is in hand, in the histories and owed.            *)

LEMMA HandKept ==
  ASSUME StreamInv, HandInv, publisher' = publisher, NEW s \in Servers, NEW p,
         reader' = [reader EXCEPT ![s] = p], p.entry \in EntryType,
         p.at # "send" => p.entry = NoLine
  PROVE  /\ HandInv' /\ reader'[s] = p
         /\ \A u \in Servers \ {s} : reader'[u] = reader[u]
  BY DEF StreamInv, HandInv

LEMMA CacheNumbers ==
  ASSUME NEW c, CacheInv(c)
  PROVE  \A u \in Servers : c.entries[u].next_sequence \in Nat
  BY DEF CacheInv, HistoryInv

LEMMA QuietKeeps ==
  ASSUME LinesInv, UNCHANGED <<reader, publisher, cache, viewer, owed>>
  PROVE  LinesInv'
  BY DEF LinesInv, HandInv, CacheInv, ViewersInv, Owed, Queued, InHand, Held

(* A reader without a line in hand moves and takes none.                   *)
LEMMA ReaderMoves ==
  ASSUME StreamInv, LinesInv,
         NEW s \in Servers, reader[s].at # "send", NEW p,
         reader' = [reader EXCEPT ![s] = p], p.entry = reader[s].entry,
         UNCHANGED <<publisher, viewer, owed>>, CacheInv(cache'),
         \A u \in Servers : Receivers(u) # {} =>
            cache.entries[u].next_sequence <= cache'.entries[u].next_sequence
  PROVE  LinesInv'
  <1>1. HandInv /\ CacheInv(cache) /\ ViewersInv /\ reader[s].entry = NoLine
    BY DEF LinesInv, HandInv
  <1>2. /\ HandInv' /\ reader'[s] = p
        /\ \A u \in Servers \ {s} : reader'[u] = reader[u]
    BY <1>1, HandKept, NoLineType
  <1>3. \A u \in Servers : reader'[u].entry = reader[u].entry
    BY <1>2
  <1>4. \A u \in Servers : \A x \in Nat : Held(u, x) => Held(u, x)'
    BY <1>3 DEF Held
  <1>5. ViewersInv'
    BY <1>1, <1>4, CacheNumbers, OwedStays
  <1>6. QED
    BY <1>2, <1>5 DEF LinesInv

(* The histories stay as they are.                                         *)
LEMMA SameNumbers ==
  ASSUME LinesInv, cache' = cache
  PROVE  /\ CacheInv(cache')
         /\ \A u \in Servers :
              cache.entries[u].next_sequence <= cache'.entries[u].next_sequence
  <1>1. CacheInv(cache)
    BY DEF LinesInv
  <1>2. QED
    BY <1>1, CacheNumbers

LEMMA ReaderFields ==
  ASSUME StreamInv, NEW s \in Servers
  PROVE  ReaderType(reader[s])
  BY DEF StreamInv, ReaderInv

(* Between lines a reader has no line in hand.                             *)
LEMMA ReaderStepsKeep ==
  ASSUME LossInv, NEW s \in Servers,
         Connect(s) \/ StreamEnds(s) \/ IdleEnds(s)
  PROVE  LinesInv'
  <1> DEFINE r == reader[s]
  <1>1. /\ StreamInv /\ LinesInv /\ ReaderType(r)
        /\ r.at # "send" => r.entry = NoLine
    BY ReaderFields DEF LossInv, LinesInv, HandInv
  <1>2. UNCHANGED <<publisher, viewer, owed, cache>> /\ r.at # "send"
    BY DEF Connect, StreamEnds, IdleEnds
  <1>3. \E p : reader' = [reader EXCEPT ![s] = p] /\ p.entry = r.entry
    <2>1. CASE Connect(s)
      <3>1. PICK p : /\ p = [r EXCEPT !.at = "reading", !.pos = FirstLine(s),
                            !.start = IF r.cursor = None
                                      THEN FirstLine(s) ELSE @,
                            !.cutoff = r.cursor,
                            !.cutoff_lines = r.cursor_lines]
                     /\ reader' = [reader EXCEPT ![s] = p]
        BY <2>1 DEF Connect, StreamInv
      <3>2. p.entry = r.entry
        BY <1>1, <3>1 DEF ReaderType
      <3>3. QED
        BY <3>1, <3>2
    <2>2. CASE StreamEnds(s)
      <3>1. reader' = [reader EXCEPT ![s] = Disconnected(r, "connect")]
        BY <2>2 DEF StreamEnds
      <3>2. Disconnected(r, "connect").entry = r.entry
        BY <1>1 DEF Disconnected, ReaderType
      <3>3. QED
        BY <3>1, <3>2
    <2>3. CASE IdleEnds(s)
      <3>1. PICK p : /\ p = [NoReader EXCEPT !.at = "retire", !.start = r.start]
                     /\ reader' = [reader EXCEPT ![s] = p]
        BY <2>3 DEF IdleEnds
      <3>2. p.entry = r.entry
        BY <1>1, <1>2, <3>1 DEF NoReader
      <3>3. QED
        BY <3>1, <3>2
    <2>4. QED
      BY <2>1, <2>2, <2>3
  <1>4. PICK p : reader' = [reader EXCEPT ![s] = p] /\ p.entry = r.entry
    BY <1>3
  <1>5. QED
    BY <1>1, <1>2, <1>4, SameNumbers, ReaderMoves

(* A history goes when its reader retires without a receiver.              *)
LEMMA RetireLines ==
  ASSUME LossInv, NEW s \in Servers, RetireIdleReader(s)
  PROVE  LinesInv'
  <1>1. StreamInv /\ LinesInv /\ HandInv /\ CacheInv(cache)
    BY DEF LossInv, LinesInv
  <1>2. /\ UNCHANGED <<publisher, viewer, owed>> /\ reader[s].at # "send"
        /\ reader[s].entry = NoLine
    BY <1>1 DEF RetireIdleReader, HandInv
  <1>3. PICK p : reader' = [reader EXCEPT ![s] = p] /\ p.entry = NoLine
    BY DEF RetireIdleReader, NoReader
  <1>4. /\ CacheInv(cache')
        /\ \A u \in Servers : Receivers(u) # {} =>
            cache.entries[u].next_sequence <= cache'.entries[u].next_sequence
    <2>1. CASE cache' = cache
      BY <1>1, <2>1, SameNumbers
    <2>2. CASE Receivers(s) = {} /\ cache' = RemoveHistory(cache, {s})
      <3>1. /\ CacheInv(cache')
            /\ \A u \in Servers \ {s} : cache'.entries[u] = cache.entries[u]
        BY <1>1, <2>2, RemoveKeeps
      <3>2. \A u \in Servers : Receivers(u) # {} => u # s
        BY <2>2
      <3>3. QED
        BY <1>1, <3>1, <3>2, CacheNumbers
    <2>3. QED
      BY <2>1, <2>2 DEF RetireIdleReader
  <1>5. QED
    BY <1>1, <1>2, <1>3, <1>4, ReaderMoves

(* What process_docker_line does to the line in hand.                      *)
LEMMA GoesEntry ==
  ASSUME NEW r, ReaderType(r), NEW next \in {"reading", "connect"}, NEW e
  PROVE  /\ Goes(r, next).at = next /\ Goes(r, next).entry = r.entry
         /\ LET p == [Goes(r, next) EXCEPT !.at = "send", !.then = next,
                                           !.entry = e]
            IN p.at = "send" /\ p.entry = e
  <1>1. CASE next = "connect"
    BY <1>1 DEF Goes, Disconnected, ReaderType
  <1>2. CASE next = "reading"
    BY <1>2 DEF Goes, ReaderType
  <1>3. QED
    BY <1>1, <1>2

LEMMA SeenEntry ==
  ASSUME NEW r, ReaderType(r), NEW t \in Nat \cup {None}, NEW text
  PROVE  LET q == Seen(r, t, text)
         IN  ReaderType(q) /\ q.entry = r.entry
  <1>1. PICK q : q = Seen(r, t, text)
    OBVIOUS
  <1>2. CASE q = r
    BY <1>1, <1>2
  <1>3. CASE \E c, lines : c \in Nat \cup {None} /\
               q = [r EXCEPT !.cursor = c, !.cursor_lines = lines]
    <2>1. PICK c, lines : c \in Nat \cup {None} /\
            q = [r EXCEPT !.cursor = c, !.cursor_lines = lines]
      BY <1>3
    <2>2. /\ q.at = r.at /\ q.then = r.then /\ q.start = r.start
          /\ q.pos = r.pos /\ q.cursor = c /\ q.cutoff = r.cutoff
          /\ q.entry = r.entry
      BY <2>1 DEF ReaderType
    <2>3. QED
      BY <1>1, <2>1, <2>2 DEF ReaderType
  <1>4. CASE q = [r EXCEPT !.cursor_lines = @ \cup {text}]
    <2>1. q = [r EXCEPT !.cursor = r.cursor,
                        !.cursor_lines = r.cursor_lines \cup {text}]
      BY <1>4 DEF ReaderType
    <2>2. r.cursor \in Nat \cup {None}
      BY DEF ReaderType
    <2>3. QED
      BY <1>3, <2>1, <2>2
  <1>5. CASE q = [r EXCEPT !.cursor = t, !.cursor_lines = {text}]
    BY <1>3, <1>5
  <1>6. QED
    BY <1>1, <1>2, <1>4, <1>5 DEF Seen

LEMMA EntryTyped ==
  ASSUME CacheInv(cache), NEW s \in Servers, NEW of \in Nat,
         NEW text \in Texts \cup {Notice, Cut}
  PROVE  LET e == Entry(s, of, text) IN
         /\ e \in EntryType
         /\ e.sequence = cache.entries[s].next_sequence + 1
         /\ e.sequence > 0
  BY CacheNumbers DEF Entry, EntryType

(* A line is pushed, and its reader has it in hand.                        *)
LEMMA ReaderPushes ==
  ASSUME StreamInv, LinesInv, NEW s \in Servers, reader[s].at # "send",
         publisher' = publisher, NEW p, p.at = "send",
         reader' = [reader EXCEPT ![s] = p], p.entry \in EntryType,
         p.entry.sequence = cache.entries[s].next_sequence + 1,
         PushLine(s, p.entry)
  PROVE  LinesInv'
  <1>1. HandInv /\ CacheInv(cache) /\ ViewersInv /\ reader[s].entry = NoLine
    BY DEF LinesInv, HandInv
  <1>2. /\ HandInv' /\ reader'[s] = p
        /\ \A u \in Servers \ {s} : reader'[u] = reader[u]
    BY <1>1, HandKept
  <1>3. ASSUME NEW u \in Servers, NEW x \in Nat, x > 0, Held(u, x)
        PROVE  Held(u, x)'
    <2>1. CASE publisher.id = u /\ publisher.entry.sequence = x
      BY <2>1 DEF Held
    <2>2. CASE reader[u].entry.sequence = x
      <3>1. u # s
        BY <1>1, <1>3, <2>2, NoLineType
      <3>2. QED
        BY <1>2, <2>2, <3>1 DEF Held
    <2>3. QED
      BY <1>3, <2>1, <2>2 DEF Held
  <1>4. Held(s, p.entry.sequence)'
    BY <1>2 DEF Held
  <1>5. PICK e \in EntryType : e = p.entry
    OBVIOUS
  <1>6. ViewersInv' /\ CacheInv(cache')
    BY <1>1, <1>3, <1>4, <1>5, OwedPush
  <1>7. QED
    BY <1>2, <1>6 DEF LinesInv

(* So does process_docker_line.                                            *)
LEMMA ProcessLines ==
  ASSUME LossInv, NEW s \in Servers, reader[s].at # "send",
         publisher' = publisher, NEW t \in Nat \cup {None},
         NEW text \in Texts \cup {Cut}, NEW of \in Nat, NEW r, ReaderType(r),
         r.entry = NoLine, NEW next \in {"reading", "connect"},
         ProcessLine(s, t, text, of, r, next)
  PROVE  LinesInv'
  <1>1. StreamInv /\ LinesInv /\ CacheInv(cache) /\ reader[s].entry = NoLine
    BY DEF LossInv, LinesInv, HandInv
  <1>2. PICK q : q = Seen(r, t, text) /\ ReaderType(q) /\ q.entry = NoLine
    BY SeenEntry
  <1>3. CASE /\ UNCHANGED <<cache, viewer, owed>>
             /\ \E p : reader' = [reader EXCEPT ![s] = p] /\ p.entry = NoLine
    <2>1. PICK p : reader' = [reader EXCEPT ![s] = p] /\ p.entry = NoLine
      BY <1>3
    <2>2. /\ CacheInv(cache')
          /\ \A u \in Servers : cache.entries[u].next_sequence
                                  <= cache'.entries[u].next_sequence
      BY <1>1, <1>3, SameNumbers
    <2>3. QED
      BY <1>1, <1>3, <2>1, <2>2, ReaderMoves
  <1>4. CASE /\ t # None /\ Skipped(r, t, text)
             /\ reader' = [reader EXCEPT ![s] = Goes(r, next)]
             /\ UNCHANGED <<cache, rate, viewer, done, owed>>
    <2>1. PICK p : p = Goes(r, next)
      OBVIOUS
    <2>2. p.entry = NoLine
      BY <2>1, GoesEntry
    <2>3. reader' = [reader EXCEPT ![s] = p] /\ UNCHANGED <<cache, viewer, owed>>
      BY <1>4, <2>1
    <2>4. QED
      BY <1>3, <2>2, <2>3
  <1>5. CASE \E o \in prepare_line(s) :
               LET e == Entry(s, IF o.decision = "Allow" THEN of ELSE 0,
                              Prepared(o, text))
                   held == o.decision = "Suppress"
               IN /\ reader' = [reader EXCEPT ![s] =
                       IF held THEN Goes(q, next)
                       ELSE [Goes(q, next) EXCEPT !.at = "send",
                               !.then = next, !.entry = e]]
                  /\ IF held THEN UNCHANGED <<cache, viewer, owed>>
                             ELSE PushLine(s, e)
    <2>1. PICK o \in prepare_line(s) :
            LET e == Entry(s, IF o.decision = "Allow" THEN of ELSE 0,
                           Prepared(o, text))
                held == o.decision = "Suppress"
            IN /\ reader' = [reader EXCEPT ![s] =
                    IF held THEN Goes(q, next)
                    ELSE [Goes(q, next) EXCEPT !.at = "send",
                            !.then = next, !.entry = e]]
               /\ IF held THEN UNCHANGED <<cache, viewer, owed>>
                          ELSE PushLine(s, e)
      BY <1>5
    <2>2. CASE o.decision = "Suppress"
      <3>1. PICK p : p = Goes(q, next)
        OBVIOUS
      <3>2. p.entry = NoLine
        BY <1>2, <3>1, GoesEntry
      <3>3. /\ reader' = [reader EXCEPT ![s] = p]
            /\ UNCHANGED <<cache, viewer, owed>>
        BY <2>1, <2>2, <3>1
      <3>4. QED
        BY <1>3, <3>2, <3>3
    <2>3. CASE o.decision # "Suppress"
      <3>1. PICK e : e = Entry(s, IF o.decision = "Allow" THEN of ELSE 0,
                               Prepared(o, text))
        OBVIOUS
      <3>2. /\ e \in EntryType
            /\ e.sequence = cache.entries[s].next_sequence + 1
        <4>1. Prepared(o, text) \in Texts \cup {Notice, Cut}
          BY DEF Prepared
        <4>2. (IF o.decision = "Allow" THEN of ELSE 0) \in Nat
          OBVIOUS
        <4>3. QED
          BY <1>1, <3>1, <4>1, <4>2, EntryTyped
      <3>3. PICK p : /\ p = [Goes(q, next) EXCEPT !.at = "send",
                                         !.then = next, !.entry = e]
                     /\ reader' = [reader EXCEPT ![s] = p]
        BY <2>1, <2>3, <3>1
      <3>4. p.at = "send" /\ p.entry = e
        BY <1>2, <3>3, GoesEntry
      <3>5. PushLine(s, e)
        BY <2>1, <2>3, <3>1
      <3>6. QED
        <4>1. /\ p.entry \in EntryType /\ PushLine(s, p.entry)
              /\ p.entry.sequence = cache.entries[s].next_sequence + 1
          BY <3>2, <3>4, <3>5
        <4>2. reader' = [reader EXCEPT ![s] = p] /\ p.at = "send"
          BY <3>3, <3>4
        <4>3. QED
          BY <1>1, <4>1, <4>2, ReaderPushes
    <2>4. QED
      BY <2>2, <2>3
  <1>6. QED
    BY <1>2, <1>4, <1>5, Zenon DEF ProcessLine

LEMMA ReadLines ==
  ASSUME LossInv, NEW s \in Servers, ReadLine(s) \/ StreamEndsInLine(s)
  PROVE  LinesInv'
  <1> DEFINE i == reader[s].pos
             r == [reader[s] EXCEPT !.pos = @ + 1]
  <1>1. /\ StreamInv /\ HandInv /\ LogInv(log[s]) /\ ReaderType(reader[s])
        /\ ReaderInv(log[s], done[s], reader[s])
    BY ReaderFields DEF LossInv, LinesInv, StreamInv
  <1>2. /\ reader[s].at = "reading" /\ i <= Len(log[s])
        /\ publisher' = publisher
    BY DEF ReadLine, StreamEndsInLine
  <1>3. reader[s].entry = NoLine
    BY <1>1, <1>2 DEF HandInv
  <1>4. i \in 1 .. Len(log[s]) /\ i \in Nat
    BY <1>1, <1>2, LogTimes DEF ReaderInv, Reads
  <1>5. log[s][i].time \in Nat /\ log[s][i].text \in Texts
    BY <1>1, <1>4, LogTimes DEF LineType
  <1>6. ReaderType(r) /\ r.entry = NoLine
    BY <1>1, <1>3, <1>4 DEF ReaderType
  <1> HIDE DEF r
  <1>7. CASE ProcessLine(s, log[s][i].time, log[s][i].text, i, r, "reading")
    BY <1>2, <1>4, <1>5, <1>6, <1>7, ProcessLines
  <1>8. CASE ProcessLine(s, None, Cut, 0, reader[s], "connect")
    BY <1>1, <1>2, <1>3, <1>8, ProcessLines
  <1>9. CASE ProcessLine(s, log[s][i].time, Cut, 0, reader[s], "connect")
    BY <1>1, <1>2, <1>3, <1>5, <1>9, ProcessLines
  <1>10. CASE ProcessLine(s, log[s][i].time, log[s][i].text, i, reader[s],
                          "connect")
    BY <1>1, <1>2, <1>3, <1>4, <1>5, <1>10, ProcessLines
  <1>11. QED
    BY <1>7, <1>8, <1>9, <1>10, Zenon DEF ReadLine, StreamEndsInLine, r

(* A line leaves a hand when it is sent.                                   *)
LEMMA ReaderSendLines ==
  ASSUME LossInv, NEW s \in Servers, ReaderSends(s)
  PROVE  LinesInv'
  <1> DEFINE r == reader[s]
  <1>1. /\ StreamInv /\ HandInv /\ CacheInv(cache) /\ ViewersInv
        /\ r.entry \in EntryType /\ ReaderType(r)
    BY ReaderFields DEF LossInv, LinesInv, HandInv
  <1>2. /\ Broadcast(s, r.entry)
        /\ publisher' = publisher /\ UNCHANGED <<cache, owed>>
    BY DEF ReaderSends
  <1>3. PICK p : /\ p = [r EXCEPT !.at = r.then, !.then = "reading",
                                  !.entry = NoLine]
                 /\ reader' = [reader EXCEPT ![s] = p]
    BY <1>1 DEF ReaderSends, StreamInv
  <1>4. p.entry = NoLine
    BY <1>1, <1>3 DEF ReaderType
  <1>5. /\ HandInv' /\ reader'[s] = p
        /\ \A u \in Servers \ {s} : reader'[u] = reader[u]
    <2>1. p.entry \in EntryType /\ (p.at # "send" => p.entry = NoLine)
      BY <1>4, NoLineType
    <2>2. reader' = [reader EXCEPT ![s] = p]
      BY <1>3
    <2>3. QED
      BY <1>1, <1>2, <2>1, <2>2, HandKept
  <1>6. ASSUME NEW u \in Servers, NEW x \in Nat, x > 0, Held(u, x)
        PROVE  Held(u, x)' \/ (u = s /\ x = r.entry.sequence)
    BY <1>2, <1>5, <1>6 DEF Held
  <1>7. PICK e \in EntryType : e = r.entry
    BY <1>1
  <1>8. ViewersInv'
    BY <1>1, <1>2, <1>6, <1>7, OwedSent
  <1>9. QED
    BY <1>1, <1>2, <1>5, <1>8 DEF LinesInv

LEMMA PublisherSendLines ==
  ASSUME LossInv, PublisherSends
  PROVE  LinesInv'
  <1>1. HandInv /\ CacheInv(cache) /\ ViewersInv
    BY DEF LossInv, LinesInv
  <1>2. /\ publisher.at = "send" /\ Broadcast(publisher.id, publisher.entry)
        /\ publisher' = NotPublishing /\ UNCHANGED <<reader, cache, owed>>
    BY DEF PublisherSends
  <1>3. PICK s \in Servers, e \in EntryType :
          s = publisher.id /\ e = publisher.entry
    BY <1>1, <1>2 DEF HandInv
  <1>4. /\ publisher'.at = "idle" /\ publisher'.entry = NoLine
        /\ publisher' = [at |-> publisher'.at, id |-> publisher'.id,
                         entry |-> publisher'.entry]
    BY <1>2 DEF NotPublishing
  <1>5. HandInv'
    BY <1>1, <1>2, <1>4, NoLineType DEF HandInv
  <1>6. ASSUME NEW u \in Servers, NEW x \in Nat, x > 0, Held(u, x)
        PROVE  Held(u, x)' \/ (u = s /\ x = e.sequence)
    BY <1>2, <1>3, <1>6 DEF Held
  <1>7. ViewersInv'
    BY <1>1, <1>2, <1>3, <1>6, OwedSent
  <1>8. QED
    BY <1>1, <1>2, <1>5, <1>7 DEF LinesInv

(* The agent publishes a line of its own.                                  *)
LEMMA PublishLines ==
  ASSUME LossInv, NEW s \in Servers, Publish(s)
  PROVE  LinesInv'
  <1>1. LinesInv /\ HandInv /\ CacheInv(cache) /\ ViewersInv
    BY DEF LossInv, LinesInv
  <1>2. publisher.at = "idle" /\ reader' = reader
    BY DEF Publish
  <1>3. CASE UNCHANGED <<cache, viewer, owed, publisher>>
    BY <1>1, <1>2, <1>3, QuietKeeps
  <1>4. CASE \E o \in prepare_line(s) :
               LET e == Entry(s, 0, Prepared(o, Notice)) IN
               PushLine(s, e) /\ publisher' = [at |-> "send", id |-> s, entry |-> e]
    <2>1. PICK o, e :
            /\ o \in prepare_line(s)
            /\ e = Entry(s, 0, Prepared(o, Notice)) /\ PushLine(s, e)
            /\ publisher' = [at |-> "send", id |-> s, entry |-> e]
      BY <1>4
    <2>2. /\ e \in EntryType
          /\ e.sequence = cache.entries[s].next_sequence + 1
      <3>1. Prepared(o, Notice) \in Texts \cup {Notice, Cut}
        BY DEF Prepared
      <3>2. QED
        BY <1>1, <2>1, <3>1, EntryTyped
    <2>3. /\ publisher'.at = "send" /\ publisher'.id = s
          /\ publisher'.entry = e
          /\ publisher' = [at |-> publisher'.at, id |-> publisher'.id,
                           entry |-> publisher'.entry]
      BY <2>1
    <2>4. HandInv'
      BY <1>1, <1>2, <2>2, <2>3 DEF HandInv
    <2>5. publisher.entry = NoLine
      BY <1>1, <1>2 DEF HandInv
    <2>6. ASSUME NEW u \in Servers, NEW x \in Nat, x > 0, Held(u, x)
          PROVE  Held(u, x)'
      BY <1>2, <2>5, <2>6, NoLineType DEF Held
    <2>7. Held(s, e.sequence)'
      BY <2>3 DEF Held
    <2>8. ViewersInv' /\ CacheInv(cache')
      BY <1>1, <2>1, <2>2, <2>6, <2>7, OwedPush
    <2>9. QED
      BY <2>4, <2>8 DEF LinesInv
  <1>5. QED
    BY <1>3, <1>4, Zenon DEF Publish

(* A viewer moves, and no line does.                                       *)
LEMMA OneViewer ==
  ASSUME LinesInv, NEW v \in Viewers, NEW w, NEW O, HandInv', CacheInv(cache'),
         publisher' = publisher,
         \A u \in Servers : reader'[u].entry = reader[u].entry,
         cache'.entries = cache.entries,
         viewer' = [viewer EXCEPT ![v] = w], owed' = [owed EXCEPT ![v] = O],
         ViewerType(w), Owed(v)'
  PROVE  LinesInv'
  <1>1. HandInv /\ CacheInv(cache) /\ ViewersInv
    BY DEF LinesInv
  <1>2. ASSUME NEW z \in Viewers PROVE ViewerType(viewer'[z]) /\ Owed(z)'
    <2>1. CASE z = v
      BY <1>1, <2>1 DEF ViewersInv
    <2>2. CASE z # v
      <3>1. /\ viewer'[z] = viewer[z] /\ owed'[z] = owed[z]
            /\ ViewerType(viewer[z]) /\ Owed(z)
        BY <1>1, <2>2 DEF ViewersInv
      <3>2. \A x : Queued(z, x) => Queued(z, x)'
        BY <3>1 DEF Queued
      <3>3. \A x : InHand(z, x) => InHand(z, x)'
        BY <3>1 DEF InHand, Held
      <3>4. QED
        BY <3>1, <3>2, <3>3 DEF Owed
    <2>3. QED
      BY <2>1, <2>2
  <1>3. /\ viewer' = [z \in Viewers |-> viewer'[z]]
        /\ owed' = [z \in Viewers |-> owed'[z]]
    BY <1>1 DEF ViewersInv
  <1>4. ViewersInv'
    BY <1>2, <1>3 DEF ViewersInv
  <1>5. QED
    BY <1>4 DEF LinesInv

LEMMA ViewerFields ==
  ASSUME LinesInv, NEW v \in Viewers
  PROVE  /\ ViewerType(viewer[v]) /\ Owed(v)
         /\ \A w : [viewer EXCEPT ![v] = w][v] = w
         /\ \A O : [owed EXCEPT ![v] = O][v] = O
  BY DEF LinesInv, ViewersInv

LEMMA SubscribeLines ==
  ASSUME LossInv, NEW s \in Servers, NEW v \in Viewers, Subscribe(v, s)
  PROVE  LinesInv'
  <1> DEFINE r == reader[s]
  <1>1. /\ StreamInv /\ LinesInv /\ HandInv /\ CacheInv(cache) /\ Owed(v)
        /\ ReaderType(r) /\ owed = [u \in Viewers |-> owed[u]]
        /\ r.at # "send" => r.entry = NoLine
        /\ r.entry \in EntryType
    BY ReaderFields, ViewerFields DEF LossInv, LinesInv, ViewersInv, HandInv
  <1>2. UNCHANGED <<publisher, cache, owed>> /\ viewer[v].at = "off"
    BY DEF Subscribe
  <1>3. PICK p : /\ p = [r EXCEPT !.at = IF @ = "none" THEN "connect" ELSE @]
                 /\ reader' = [reader EXCEPT ![s] = p]
    BY <1>1 DEF Subscribe, StreamInv
  <1>4. p.entry = r.entry /\ (p.at # "send" => r.at # "send")
    BY <1>1, <1>3 DEF ReaderType
  <1>5. /\ HandInv' /\ reader'[s] = p
        /\ \A u \in Servers \ {s} : reader'[u] = reader[u]
    <2>1. /\ p.entry \in EntryType /\ (p.at # "send" => p.entry = NoLine)
          /\ reader' = [reader EXCEPT ![s] = p]
      BY <1>1, <1>3, <1>4
    <2>2. QED
      BY <1>1, <1>2, <2>1, HandKept
  <1>6. PICK b : viewer' = [viewer EXCEPT ![v] =
                   [NoViewer EXCEPT !.at = "installed", !.id = s, !.reset = b]]
    BY DEF Subscribe
  <1>7. PICK w : w = [NoViewer EXCEPT !.at = "installed", !.id = s, !.reset = b]
    OBVIOUS
  <1>8. ViewerType(w) /\ w.at = "installed"
    <2>1. PICK z : z = NoViewer
      OBVIOUS
    <2>2. /\ ViewerType(z) /\ z.at = "off"
      BY <2>1 DEF ViewerType, NoViewer
    <2>3. /\ w = [z EXCEPT !.at = "installed", !.id = s, !.reset = b]
      BY <1>7, <2>1
    <2>4. /\ w.at = "installed" /\ w.id = s /\ w.reset = b
          /\ w.through = z.through /\ w.queue = z.queue
          /\ w.missed = z.missed /\ w.last = z.last
      BY <2>2, <2>3 DEF ViewerType
    <2>5. QED
      BY <2>2, <2>3, <2>4 DEF ViewerType
  <1>9. owed' = [owed EXCEPT ![v] = {}]
    BY <1>1, <1>2 DEF Owed
  <1>10. Owed(v)'
    <2>1. viewer'[v].at = "installed" /\ owed'[v] = {}
      BY <1>1, <1>6, <1>7, <1>8, <1>9, ViewerFields
    <2>2. QED
      BY <2>1 DEF Owed
  <1>11. \A u \in Servers : reader'[u].entry = reader[u].entry
    BY <1>4, <1>5
  <1>12. cache'.entries = cache.entries /\ CacheInv(cache')
    BY <1>1, <1>2
  <1>13. QED
    BY <1>1, <1>2, <1>5, <1>6, <1>7, <1>8, <1>9, <1>10, <1>11, <1>12, OneViewer

(* Nobody moves but one viewer.                                            *)
LEMMA ViewerAlone ==
  ASSUME LinesInv, NEW v \in Viewers, NEW w, NEW O,
         UNCHANGED <<reader, publisher, cache>>,
         viewer' = [viewer EXCEPT ![v] = w], owed' = [owed EXCEPT ![v] = O],
         ViewerType(w), Owed(v)'
  PROVE  LinesInv'
  <1>1. HandInv' /\ CacheInv(cache')
    BY DEF LinesInv, HandInv
  <1>2. /\ cache'.entries = cache.entries
        /\ \A u \in Servers : reader'[u].entry = reader[u].entry
    OBVIOUS
  <1>3. QED
    BY <1>1, <1>2, OneViewer

LEMMA LeaveLines ==
  ASSUME LossInv, NEW v \in Viewers, Leave(v)
  PROVE  LinesInv'
  <1>1. LinesInv
    BY DEF LossInv
  <1>2. ViewerType(NoViewer) /\ NoViewer.at = "off"
    BY DEF ViewerType, NoViewer
  <1>3. /\ UNCHANGED <<reader, publisher, cache>>
        /\ viewer' = [viewer EXCEPT ![v] = NoViewer]
        /\ owed' = [owed EXCEPT ![v] = {}]
    BY DEF Leave
  <1>4. Owed(v)'
    BY <1>1, <1>2, <1>3, ViewerFields DEF Owed
  <1>5. QED
    BY <1>1, <1>2, <1>3, <1>4, ViewerAlone

(* The snapshot goes up to the last sequence given out, or is empty.       *)
LEMMA SnapshotLines ==
  ASSUME LossInv, NEW v \in Viewers, Snapshot(v)
  PROVE  LinesInv'
  <1> DEFINE s == viewer[v].id
             h == cache.entries[s]
             n == ReplayedThrough(h)
  <1>1. /\ LinesInv /\ HandInv /\ CacheInv(cache) /\ ViewerType(viewer[v])
        /\ Owed(v) /\ viewer[v].at = "installed"
        /\ owed = [u \in Viewers |-> owed[u]]
    BY ViewerFields DEF LossInv, LinesInv, ViewersInv, Snapshot
  <1>2. s \in Servers /\ HistoryInv(h)
    BY <1>1 DEF ViewerType, CacheInv
  <1>3. n \in Nat /\ n <= h.next_sequence /\ h.next_sequence \in Nat
    <2>1. /\ h.next_sequence \in Nat
          /\ h.lines # <<>> => h.lines[Len(h.lines)].sequence = h.next_sequence
      BY <1>2 DEF HistoryInv
    <2> HIDE DEF h
    <2>2. n = IF h.lines = <<>> THEN 0 ELSE h.lines[Len(h.lines)].sequence
      BY DEF ReplayedThrough, Last
    <2> HIDE DEF n
    <2>3. QED
      BY <2>1, <2>2
  <1>4. PICK m : viewer' = [viewer EXCEPT ![v].at = "live", ![v].through = n,
                                          ![v].last = m]
    BY DEF Snapshot
  <1>5. PICK w : /\ w = [viewer[v] EXCEPT !.at = "live", !.through = n,
                                          !.last = m]
                 /\ viewer' = [viewer EXCEPT ![v] = w]
    BY <1>1, <1>4 DEF LinesInv, ViewersInv
  <1>6. /\ w.at = "live" /\ w.id = s /\ w.through = n
        /\ w.reset = viewer[v].reset
    BY <1>1, <1>5 DEF ViewerType
  <1>7. ViewerType(w)
    <2>1. w.queue = viewer[v].queue /\ w.missed = viewer[v].missed
          /\ w.last = m
      BY <1>1, <1>5 DEF ViewerType
    <2>2. QED
      BY <1>1, <1>2, <1>3, <1>5, <1>6, <2>1 DEF ViewerType
  <1>8. UNCHANGED <<reader, publisher, owed>> /\ cache'.entries = cache.entries
        /\ CacheInv(cache')
    <2>1. cache' = cache \/ cache' = [cache EXCEPT !.recent = Touch(@, s)]
      BY DEF Snapshot
    <2>2. CASE cache' = [cache EXCEPT !.recent = Touch(@, s)]
      BY <1>1, <2>2 DEF CacheInv, Snapshot
    <2>3. QED
      BY <1>1, <2>1, <2>2 DEF Snapshot
  <1>9. owed' = [owed EXCEPT ![v] = {}]
    BY <1>1, <1>8 DEF Owed
  <1>10. Owed(v)'
    <2>1. viewer'[v] = w /\ owed'[v] = {}
      BY <1>1, <1>5, <1>9, ViewerFields
    <2>2. n <= cache'.entries[s].next_sequence
      BY <1>3, <1>8
    <2> HIDE DEF n
    <2>3. QED
      BY <1>6, <2>1, <2>2 DEF Owed
  <1>11. HandInv'
    BY <1>1, <1>8 DEF HandInv
  <1>12. QED
    BY <1>1, <1>5, <1>7, <1>8, <1>9, <1>10, <1>11, OneViewer

(* A viewer takes the report of a lag, or the head of its queue.           *)
LEMMA ReceiveLines ==
  ASSUME LossInv, NEW v \in Viewers, Receive(v)
  PROVE  LinesInv'
  <1> DEFINE z == viewer[v]
  <1>1. /\ LinesInv /\ ViewerType(z) /\ Owed(v) /\ z.at = "live"
        /\ viewer = [u \in Viewers |-> viewer[u]]
        /\ owed = [u \in Viewers |-> owed[u]]
    BY ViewerFields DEF LossInv, LinesInv, ViewersInv, Receive
  <1>2. UNCHANGED <<reader, publisher, cache>>
    BY DEF Receive
  <1>3. \A x : InHand(v, x) /\ viewer'[v].id = z.id => InHand(v, x)'
    BY <1>2 DEF InHand, Held
  <1>4. CASE /\ viewer' = [viewer EXCEPT ![v].missed = {}]
             /\ owed' = [owed EXCEPT ![v] = @ \ z.missed]
    <2>1. PICK w : /\ w = [z EXCEPT !.missed = {}]
                   /\ viewer' = [viewer EXCEPT ![v] = w]
      BY <1>1, <1>4
    <2>2. PICK O : O = owed[v] \ z.missed /\ owed' = [owed EXCEPT ![v] = O]
      BY <1>1, <1>4
    <2>3. /\ w.at = "live" /\ w.id = z.id /\ w.through = z.through
          /\ w.queue = z.queue /\ w.reset = z.reset /\ ViewerType(w)
      BY <1>1, <2>1 DEF ViewerType
    <2>4. viewer'[v] = w /\ owed'[v] = O
      BY <1>1, <2>1, <2>2, ViewerFields
    <2>5. \A x : Queued(v, x) => Queued(v, x)'
      BY <2>3, <2>4 DEF Queued
    <2>6. Owed(v)'
      BY <1>1, <1>2, <1>3, <2>2, <2>3, <2>4, <2>5 DEF Owed
    <2>7. QED
      BY <1>1, <1>2, <2>1, <2>2, <2>3, <2>6, ViewerAlone
  <1>5. CASE /\ z.missed = {} /\ z.queue # <<>>
             /\ LET e == Head(z.queue)
                    shown == Shown(z.through, e)
                IN /\ viewer' = [viewer EXCEPT
                         ![v].queue = Tail(@),
                         ![v].last = IF shown THEN Max({@, e.of}) ELSE @]
                   /\ owed' = [owed EXCEPT ![v] =
                                 IF shown THEN @ \ {e.sequence} ELSE @]
    <2>1. PICK e : e = Head(z.queue)
      OBVIOUS
    <2>2. PICK O : /\ O = IF Shown(z.through, e)
                          THEN owed[v] \ {e.sequence} ELSE owed[v]
                   /\ owed' = [owed EXCEPT ![v] = O]
      BY <1>1, <1>5, <2>1
    <2>3. PICK m : viewer' = [viewer EXCEPT ![v].queue = Tail(@), ![v].last = m]
      BY <1>5, <2>1
    <2>4. PICK w : /\ w = [z EXCEPT !.queue = Tail(z.queue), !.last = m]
                   /\ viewer' = [viewer EXCEPT ![v] = w]
      BY <1>1, <2>3
    <2>5. /\ z.queue \in Seq(EntryType) /\ z.queue # <<>> /\ z.through \in Nat
          /\ Tail(z.queue) \in Seq(EntryType)
      BY <1>1, <1>5 DEF ViewerType
    <2>6. /\ w.at = "live" /\ w.id = z.id /\ w.through = z.through
          /\ w.queue = Tail(z.queue) /\ w.reset = z.reset
          /\ w.missed = z.missed
      BY <1>1, <2>4 DEF ViewerType
    <2>7. ViewerType(w)
      BY <1>1, <2>4, <2>5, <2>6 DEF ViewerType
    <2>8. viewer'[v] = w /\ owed'[v] = O
      BY <1>1, <2>2, <2>4, ViewerFields
    <2>9. ASSUME NEW x \in Nat, x > z.through, x \in O, Queued(v, x)
          PROVE  Queued(v, x)'
      <3>1. PICK i \in 1 .. Len(z.queue) : z.queue[i].sequence = x
        BY <2>9 DEF Queued
      <3>2. i # 1
        <4>1. ASSUME i = 1 PROVE FALSE
          <5>1. e.sequence = x
            BY <2>1, <2>5, <3>1, <4>1
          <5>2. Shown(z.through, e)
            BY <2>9, <5>1 DEF Shown
          <5>3. QED
            BY <2>2, <2>9, <5>1, <5>2
        <4>2. QED
          BY <4>1
      <3>3. i - 1 \in 1 .. Len(Tail(z.queue))
            /\ Tail(z.queue)[i - 1] = z.queue[i]
        BY <2>5, <3>2
      <3>4. QED
        BY <2>6, <2>8, <3>1, <3>3 DEF Queued
    <2>10. Owed(v)'
      BY <1>1, <1>2, <1>3, <2>2, <2>6, <2>8, <2>9 DEF Owed
    <2>11. QED
      BY <1>1, <1>2, <2>2, <2>4, <2>7, <2>10, ViewerAlone
  <1>6. QED
    BY <1>4, <1>5 DEF Receive

LEMMA LinesInitial == ASSUME Init PROVE LinesInv
  <1>1. HandInv
    BY NoLineType DEF Init, HandInv, NoReader, NotPublishing
  <1>2. HistoryInv(NoHistory)
    BY DEF HistoryInv, NoHistory
  <1>3. CacheInv(cache)
    BY <1>2 DEF Init, CacheInv
  <1>4. ViewerType(NoViewer) /\ NoViewer.at = "off"
    BY DEF ViewerType, NoViewer
  <1>5. ViewersInv
    BY <1>4 DEF Init, ViewersInv, Owed
  <1>6. QED
    BY <1>1, <1>3, <1>5 DEF LinesInv

(* Whatever happens, a line owed to a viewer is somewhere on its way.      *)
LEMMA LossStep == ASSUME LossInv, [Next]_vars PROVE LossInv'
  <1>1. StreamInv /\ LinesInv
    BY DEF LossInv
  <1>2. StreamInv'
    BY <1>1, StreamStep
  <1>3. LinesInv'
    <2>1. CASE UNCHANGED <<reader, publisher, cache, viewer, owed>>
      BY <1>1, <2>1, QuietKeeps
    <2>2. CASE PublisherSends
      BY <2>2, PublisherSendLines
    <2>3. ASSUME NEW s \in Servers,
                 \/ Emit(s) \/ Connect(s) \/ ReadLine(s) \/ StreamEnds(s)
                 \/ StreamEndsInLine(s) \/ ReaderSends(s) \/ IdleEnds(s)
                 \/ RetireIdleReader(s) \/ Publish(s)
                 \/ \E v \in Viewers : Subscribe(v, s)
          PROVE  LinesInv'
      <3>1. CASE Emit(s)
        BY <2>1, <3>1 DEF Emit
      <3>2. CASE Connect(s) \/ StreamEnds(s) \/ IdleEnds(s)
        BY <3>2, ReaderStepsKeep
      <3>3. CASE ReadLine(s) \/ StreamEndsInLine(s)
        BY <3>3, ReadLines
      <3>4. CASE ReaderSends(s)
        BY <3>4, ReaderSendLines
      <3>5. CASE RetireIdleReader(s)
        BY <3>5, RetireLines
      <3>6. CASE Publish(s)
        BY <3>6, PublishLines
      <3>7. CASE \E v \in Viewers : Subscribe(v, s)
        BY <3>7, SubscribeLines
      <3>8. QED
        BY <2>3, <3>1, <3>2, <3>3, <3>4, <3>5, <3>6, <3>7
    <2>4. ASSUME NEW v \in Viewers, Snapshot(v) \/ Receive(v) \/ Leave(v)
          PROVE  LinesInv'
      BY <2>4, SnapshotLines, ReceiveLines, LeaveLines
    <2>5. CASE UNCHANGED vars
      BY <2>1, <2>5 DEF vars
    <2>6. QED
      BY <2>2, <2>3, <2>4, <2>5 DEF Next
  <1>4. QED
    BY <1>2, <1>3 DEF LossInv

(* A line pushed after a viewer's snapshot reaches it or is counted in a   *)
(* reported lag, whatever is evicted, retired or lost meanwhile, unless    *)
(* the history of its server went away under it.                           *)
THEOREM NoLineIsLost == Spec => []NoSilentLoss
  <1>1. Init => LossInv
    BY StreamInitial, LinesInitial DEF LossInv
  <1>2. ASSUME LossInv PROVE NoSilentLoss
    <2>1. ASSUME NEW v \in Viewers, viewer[v].at = "live", ~ viewer[v].reset,
                 NEW x \in owed[v], x \notin viewer[v].missed
          PROVE  \E e \in {f \in ToSet(viewer[v].queue) :
                             Shown(viewer[v].through, f)}
                    \cup ({reader[viewer[v].id].entry} \cup
                          (IF publisher.id = viewer[v].id
                           THEN {publisher.entry} ELSE {})) :
                   x = e.sequence
      <3>1. /\ x \in Nat /\ x > viewer[v].through
            /\ Queued(v, x) \/ InHand(v, x)
        BY <1>2, <2>1 DEF LossInv, LinesInv, ViewersInv, Owed
      <3>2. CASE Queued(v, x)
        <4>1. PICK i \in 1 .. Len(viewer[v].queue) :
                viewer[v].queue[i].sequence = x
          BY <3>2 DEF Queued
        <4>2. viewer[v].queue[i] \in ToSet(viewer[v].queue)
          BY DEF ToSet
        <4>3. QED
          BY <3>1, <4>1, <4>2 DEF Shown
      <3>3. CASE InHand(v, x)
        BY <3>3 DEF InHand, Held
      <3>4. QED
        BY <3>1, <3>2, <3>3
    <2>2. QED
      BY <2>1 DEF NoSilentLoss
  <1>3. QED
    BY <1>1, <1>2, LossStep, PTL DEF Spec
-----------------------------------------------------------------------------
(* The order of the lines.                                                 *)

(* The cursor has passed line i.                                           *)
SeenAt(L, t, lines, i) ==
    t # None /\ (L[i].time < t \/ (L[i].time = t /\ L[i].text \in lines))

(* Line k, and the lines since the first attachment that come before it.   *)
UpTo(r, k) == {k} \cup {i \in 1 .. k : r.start <= i}
AllSeen(L, r, t, lines, k) == \A i \in UpTo(r, k) : SeenAt(L, t, lines, i)

(* Line k is published: the cursor has passed it and all lines before it   *)
(* since the first attachment; so has the connection, or its cutoff.       *)
Published(L, r, k) ==
    /\ k \in 1 .. Len(L)
    /\ r.at # "retire" =>
         /\ AllSeen(L, r, r.cursor, r.cursor_lines, k)
         /\ Reads(r) =>
              k < r.pos \/ AllSeen(L, r, r.cutoff, r.cutoff_lines, k)

(* What a connection skips lies behind the cursor, and so does what it     *)
(* has read.                                                               *)
CutoffInv(r) ==
    r.cutoff # None =>
      /\ r.cursor # None /\ r.cutoff <= r.cursor
      /\ r.cutoff = r.cursor => r.cutoff_lines \subseteq r.cursor_lines
CursorInv(L, r) ==
    /\ CutoffInv(r)
    /\ \A i \in 1 .. r.pos - 1 :
         r.start <= i => SeenAt(L, r.cursor, r.cursor_lines, i)

(* Follows, of log L and reader r.                                         *)
After(L, r, i, j) ==
    i < j \/ (j \in 1 .. r.start - 1 /\ i # j /\ L[i].time = L[j].time)

(* The log lines among the entries q are published and in order.           *)
Lined(L, r, q) ==
    /\ \A i \in 1 .. Len(q) : q[i].of # 0 => Published(L, r, q[i].of)
    /\ \A i, j \in 1 .. Len(q) :
         (i < j /\ q[i].of # 0 /\ q[j].of # 0) => After(L, r, q[i].of, q[j].of)

(* What is queued, and then the line in hand, follows on the history that  *)
(* viewer w has seen; before the snapshot it is in the history.            *)
Line(w, r) == Append(w.queue, r.entry)
Continued(L, r, w, next) ==
    LET q == Line(w, r) IN
    /\ Lined(L, r, q)
    /\ w.last # 0 => Published(L, r, w.last)
    /\ ~ w.reset => \A i \in 1 .. Len(q) :
         IF w.at = "live"
         THEN q[i].of # 0 /\ Shown(w.through, q[i]) =>
                After(L, r, w.last, q[i].of)
         ELSE q[i].sequence <= next

ServerOrder(s) ==
    /\ CursorInv(log[s], reader[s])
    /\ s \notin rewound =>
         /\ Lined(log[s], reader[s], cache.entries[s].lines)
         /\ reader[s].entry.of # 0 =>
              Published(log[s], reader[s], reader[s].entry.of)

ViewerOrder(v) ==
    \A s \in Servers : (s = viewer[v].id /\ viewer[v].at # "off") =>
        /\ s \notin rewound => Continued(log[s], reader[s], viewer[v],
                                         cache.entries[s].next_sequence)
        /\ (~ viewer[v].reset /\ publisher.id = s) =>
             publisher.entry.sequence <= cache.entries[s].next_sequence

OrderInv ==
    /\ publisher.entry.of = 0
    /\ \A s \in Servers : ServerOrder(s)
    /\ \A v \in Viewers : ViewerOrder(v)

(* What was published stays so, in the same order, in log M of reader p.   *)
Continues(L, r, M, p) ==
    /\ \A k \in 1 .. Len(L) : Published(L, r, k) => Published(M, p, k)
    /\ \A i, j \in 1 .. Len(L) :
         (Published(L, r, i) /\ Published(L, r, j) /\ After(L, r, i, j)) =>
           After(M, p, i, j)

(* Line k is published there after all that were.                          *)
Newest(L, r, M, p, k) ==
    /\ Published(M, p, k)
    /\ \A i \in 1 .. Len(L) : Published(L, r, i) => After(M, p, i, k)

(* The log lines of f are those that m finds in q, and perhaps a new one.  *)
From(L, r, M, p, q, f, m) ==
    \A i \in 1 .. Len(f) : f[i].of # 0 =>
      \/ i = Len(f) /\ Newest(L, r, M, p, f[i].of)
      \/ /\ m[i] \in 1 .. Len(q) /\ q[m[i]] = f[i]
         /\ \A j \in 1 .. i - 1 : f[j].of # 0 => m[j] < m[i]

LEMMA PublishedIn ==
  ASSUME NEW L, NEW r, NEW k, Published(L, r, k)
  PROVE  k \in 1 .. Len(L)
  BY DEF Published

(* Entries that come from a published and ordered sequence are published   *)
(* and in order.                                                           *)
LEMMA LinedFrom ==
  ASSUME NEW L, NEW r, NEW M, NEW p, NEW q \in Seq(EntryType),
         NEW f \in Seq(EntryType), NEW m, Lined(L, r, q),
         Continues(L, r, M, p), From(L, r, M, p, q, f, m)
  PROVE  Lined(M, p, f)
  <1>1. ASSUME NEW i \in 1 .. Len(f), f[i].of # 0, i # Len(f)
        PROVE  /\ m[i] \in 1 .. Len(q) /\ q[m[i]] = f[i]
               /\ \A j \in 1 .. i - 1 : f[j].of # 0 => m[j] < m[i]
    BY <1>1 DEF From
  <1>2. ASSUME NEW i \in 1 .. Len(f), f[i].of # 0,
               m[i] \in 1 .. Len(q), q[m[i]] = f[i]
        PROVE  Published(L, r, f[i].of) /\ f[i].of \in 1 .. Len(L)
    BY <1>2, PublishedIn DEF Lined
  <1>3. ASSUME NEW i \in 1 .. Len(f), f[i].of # 0
        PROVE  Published(M, p, f[i].of)
    <2>1. CASE Newest(L, r, M, p, f[i].of)
      BY <2>1 DEF Newest
    <2>2. CASE m[i] \in 1 .. Len(q) /\ q[m[i]] = f[i]
      BY <1>2, <1>3, <2>2 DEF Continues
    <2>3. QED
      BY <1>3, <2>1, <2>2 DEF From
  <1>4. ASSUME NEW i \in 1 .. Len(f), NEW j \in 1 .. Len(f), i < j,
               f[i].of # 0, f[j].of # 0
        PROVE  After(M, p, f[i].of, f[j].of)
    <2>1. i # Len(f) /\ i \in 1 .. j - 1
      BY <1>4
    <2>2. /\ m[i] \in 1 .. Len(q) /\ q[m[i]] = f[i]
          /\ Published(L, r, f[i].of) /\ f[i].of \in 1 .. Len(L)
      BY <1>1, <1>2, <1>4, <2>1
    <2>3. CASE Newest(L, r, M, p, f[j].of)
      BY <2>2, <2>3 DEF Newest
    <2>4. CASE /\ m[j] \in 1 .. Len(q) /\ q[m[j]] = f[j]
               /\ \A k \in 1 .. j - 1 : f[k].of # 0 => m[k] < m[j]
      <3>1. m[i] < m[j]
        BY <1>4, <2>1, <2>4
      <3>2. After(L, r, f[i].of, f[j].of)
        BY <1>4, <2>2, <2>4, <3>1 DEF Lined
      <3>3. Published(L, r, f[j].of) /\ f[j].of \in 1 .. Len(L)
        BY <1>2, <1>4, <2>4
      <3>4. QED
        BY <2>2, <3>2, <3>3 DEF Continues
    <2>5. QED
      BY <1>4, <2>3, <2>4 DEF From
  <1>5. QED
    BY <1>3, <1>4 DEF Lined

LEMMA ContinuesSame ==
  ASSUME NEW L, NEW r
  PROVE  Continues(L, r, L, r)
  BY DEF Continues

LEMMA LineTyped ==
  ASSUME NEW w, w.queue \in Seq(EntryType), NEW r, r.entry \in EntryType
  PROVE  /\ Line(w, r) \in Seq(EntryType)
         /\ Len(Line(w, r)) = Len(w.queue) + 1 /\ Len(w.queue) \in Nat
         /\ Line(w, r)[Len(w.queue) + 1] = r.entry
         /\ \A i \in 1 .. Len(w.queue) : Line(w, r)[i] = w.queue[i]
  BY DEF Line

LEMMA EntryFields ==
  ASSUME NEW f \in Seq(EntryType), NEW i \in 1 .. Len(f)
  PROVE  f[i] \in EntryType /\ f[i].sequence \in Nat /\ f[i].of \in Nat
  <1>1. f[i] \in EntryType
    OBVIOUS
  <1>2. QED
    BY <1>1 DEF EntryType

(* What a viewer has before it after a step.                               *)
LEMMA ContinuedFrom ==
  ASSUME NEW L, NEW r, NEW M, NEW p, NEW w, NEW z, NEW n, NEW x, NEW m,
         w.queue \in Seq(EntryType), z.queue \in Seq(EntryType),
         r.entry \in EntryType, p.entry \in EntryType, n \in Nat, x \in Nat,
         Continued(L, r, w, n), Continues(L, r, M, p),
         From(L, r, M, p, Line(w, r), Line(z, p), m),
         z.at = w.at, z.last = w.last, z.through = w.through,
         ~ z.reset => ~ w.reset /\ n <= x,
         \A i \in 1 .. Len(Line(z, p)) :
            \/ z.reset \/ z.at = "live" \/ Line(z, p)[i].sequence <= x
            \/ m[i] \in 1 .. Len(Line(w, r)) /\ Line(w, r)[m[i]] = Line(z, p)[i]
  PROVE  Continued(M, p, z, x)
  <1>1. PICK q, f : /\ q = Line(w, r) /\ f = Line(z, p)
                    /\ q \in Seq(EntryType) /\ f \in Seq(EntryType)
    BY LineTyped
  <1>2. Lined(M, p, f)
    BY <1>1, LinedFrom DEF Continued
  <1>3. z.last # 0 => Published(M, p, z.last)
    BY PublishedIn DEF Continued, Continues
  <1>4. ASSUME ~ z.reset, NEW i \in 1 .. Len(f), z.at = "live",
               f[i].of # 0, Shown(z.through, f[i])
        PROVE  After(M, p, z.last, f[i].of)
    <2>1. f[i].of \in Nat /\ f[i].of # 0
      BY <1>1, <1>4, EntryFields
    <2>2. CASE z.last = 0
      BY <2>1, <2>2 DEF After
    <2>3. CASE z.last # 0 /\ Newest(L, r, M, p, f[i].of)
      BY <2>3, PublishedIn DEF Continued, Newest
    <2>4. CASE z.last # 0 /\ m[i] \in 1 .. Len(q) /\ q[m[i]] = f[i]
      <3>1. Published(L, r, f[i].of) /\ Published(L, r, z.last)
        BY <1>1, <1>4, <2>4 DEF Continued, Lined
      <3>2. After(L, r, z.last, f[i].of)
        BY <1>1, <1>4, <2>4 DEF Continued
      <3>3. QED
        BY <3>1, <3>2, PublishedIn DEF Continues
    <2>5. QED
      BY <1>1, <1>4, <2>2, <2>3, <2>4 DEF From
  <1>5. ASSUME ~ z.reset, NEW i \in 1 .. Len(f), z.at # "live"
        PROVE  f[i].sequence <= x
    <2>1. CASE m[i] \in 1 .. Len(q) /\ q[m[i]] = f[i]
      <3>1. f[i].sequence \in Nat
        BY <1>1, <1>5, EntryFields
      <3>2. f[i].sequence <= n
        BY <1>1, <1>5, <2>1 DEF Continued
      <3>3. QED
        BY <1>5, <3>1, <3>2
    <2>2. QED
      BY <1>1, <1>5, <2>1
  <1>6. QED
    BY <1>1, <1>2, <1>3, <1>4, <1>5 DEF Continued

(* The queue stays, and the reader keeps its line or takes a new one.      *)
LEMMA ContinuedKept ==
  ASSUME NEW L, NEW r, NEW M, NEW p, NEW w, NEW z, NEW n \in Nat, NEW x \in Nat,
         w.queue \in Seq(EntryType), r.entry \in EntryType,
         p.entry \in EntryType,
         Continued(L, r, w, n), Continues(L, r, M, p), z.queue = w.queue,
         z.at = w.at, z.last = w.last, z.through = w.through,
         ~ z.reset => ~ w.reset /\ n <= x,
         \/ p.entry = r.entry
         \/ /\ p.entry.of # 0 => Newest(L, r, M, p, p.entry.of)
            /\ p.entry.sequence <= x
  PROVE  Continued(M, p, z, x)
  <1> DEFINE l == Len(w.queue)
             q == Line(w, r)
             f == Line(z, p)
             m == [i \in 1 .. l + 1 |-> i]
  <1>1. /\ l \in Nat /\ Len(q) = l + 1 /\ Len(f) = l + 1
        /\ q[l + 1] = r.entry /\ f[l + 1] = p.entry
        /\ \A i \in 1 .. l : q[i] = w.queue[i] /\ f[i] = w.queue[i]
    BY LineTyped
  <1> HIDE DEF l, q, f
  <1>2. \A i \in 1 .. Len(f) : i # Len(f) \/ p.entry = r.entry =>
          m[i] \in 1 .. Len(q) /\ q[m[i]] = f[i]
    BY <1>1
  <1>3. \A i \in 1 .. Len(f) : \A j \in 1 .. i - 1 : m[j] < m[i]
    BY <1>1
  <1> HIDE DEF m
  <1>4. From(L, r, M, p, q, f, m)
    BY <1>1, <1>2, <1>3 DEF From
  <1>5. \A i \in 1 .. Len(f) :
          \/ f[i].sequence <= x
          \/ m[i] \in 1 .. Len(q) /\ q[m[i]] = f[i]
    BY <1>1, <1>2
  <1>6. QED
    BY <1>4, <1>5, ContinuedFrom DEF q, f

(* The reader stays, and so does the last sequence.                        *)
LEMMA ContinuedSame ==
  ASSUME NEW L, NEW r, NEW w, NEW z, NEW n \in Nat, NEW m,
         w.queue \in Seq(EntryType), z.queue \in Seq(EntryType),
         r.entry \in EntryType, Continued(L, r, w, n),
         From(L, r, L, r, Line(w, r), Line(z, r), m),
         z.at = w.at, z.last = w.last, z.through = w.through,
         z.reset = w.reset,
         \A i \in 1 .. Len(Line(z, r)) :
            \/ w.reset \/ Line(z, r)[i].sequence <= n
            \/ m[i] \in 1 .. Len(Line(w, r)) /\ Line(w, r)[m[i]] = Line(z, r)[i]
  PROVE  Continued(L, r, z, n)
  <1>1. PICK p, x : p = r /\ x = n
    OBVIOUS
  <1>2. /\ Continues(L, r, L, p) /\ n <= x /\ x \in Nat /\ p.entry \in EntryType
        /\ From(L, r, L, p, Line(w, r), Line(z, p), m)
    BY <1>1, ContinuesSame
  <1>3. \A i \in 1 .. Len(Line(z, p)) :
            \/ z.reset \/ z.at = "live" \/ Line(z, p)[i].sequence <= x
            \/ m[i] \in 1 .. Len(Line(w, r)) /\ Line(w, r)[m[i]] = Line(z, p)[i]
    BY <1>1
  <1>4. ~ z.reset => ~ w.reset /\ n <= x
    BY <1>2
  <1>5. Continued(L, p, z, x)
    BY <1>2, <1>3, <1>4, ContinuedFrom
  <1>6. QED
    BY <1>1, <1>5

(* A full queue loses its head.                                            *)
LEMMA ContinuedTail ==
  ASSUME NEW L, NEW r, NEW w, NEW z, NEW n \in Nat,
         w.queue \in Seq(EntryType), r.entry \in EntryType,
         Continued(L, r, w, n), w.queue # <<>>, z.queue = Tail(w.queue),
         z.at = w.at, z.last = w.last, z.through = w.through,
         z.reset = w.reset
  PROVE  Continued(L, r, z, n)
  <1> DEFINE l == Len(w.queue)
             q == Line(w, r)
             f == Line(z, r)
             m == [i \in 1 .. l |-> i + 1]
  <1>1. /\ z.queue \in Seq(EntryType) /\ l \in Nat /\ l > 0
        /\ Len(z.queue) = l - 1
        /\ \A i \in 1 .. l - 1 : z.queue[i] = w.queue[i + 1]
    OBVIOUS
  <1>2. /\ Len(q) = l + 1 /\ q[l + 1] = r.entry
        /\ \A i \in 1 .. l : q[i] = w.queue[i]
    BY LineTyped
  <1>3. /\ Len(f) = l /\ f[l] = r.entry
        /\ \A i \in 1 .. l - 1 : f[i] = z.queue[i]
    <2>1. /\ Len(f) = Len(z.queue) + 1 /\ f[Len(z.queue) + 1] = r.entry
          /\ \A i \in 1 .. Len(z.queue) : f[i] = z.queue[i]
      BY <1>1, LineTyped
    <2> HIDE DEF f, l
    <2>2. QED
      BY <1>1, <2>1
  <1> HIDE DEF l, q, f
  <1>4. ASSUME NEW i \in 1 .. Len(f)
        PROVE  m[i] \in 1 .. Len(q) /\ q[m[i]] = f[i]
    <2>1. CASE i = l
      BY <1>1, <1>2, <1>3, <2>1
    <2>2. CASE i # l
      <3>1. i \in 1 .. l - 1 /\ i + 1 \in 1 .. l /\ m[i] = i + 1
        BY <1>1, <1>3, <2>2
      <3>2. q[i + 1] = w.queue[i + 1] /\ f[i] = w.queue[i + 1]
        BY <1>1, <1>2, <1>3, <3>1
      <3>3. QED
        BY <1>1, <1>2, <3>1, <3>2
    <2>3. QED
      BY <2>1, <2>2
  <1>5. \A i \in 1 .. Len(f) : \A j \in 1 .. i - 1 : m[j] < m[i]
    BY <1>1, <1>3
  <1> HIDE DEF m
  <1>6. From(L, r, L, r, q, f, m)
    BY <1>4, <1>5 DEF From
  <1>7. \A i \in 1 .. Len(Line(z, r)) :
            m[i] \in 1 .. Len(Line(w, r)) /\ Line(w, r)[m[i]] = Line(z, r)[i]
    BY <1>4 DEF q, f
  <1>8. From(L, r, L, r, Line(w, r), Line(z, r), m)
    BY <1>6 DEF q, f
  <1>9. \A i \in 1 .. Len(Line(z, r)) :
            \/ w.reset \/ Line(z, r)[i].sequence <= n
            \/ m[i] \in 1 .. Len(Line(w, r)) /\ Line(w, r)[m[i]] = Line(z, r)[i]
    BY <1>7
  <1>10. PICK y : y = z /\ y.queue \in Seq(EntryType)
    BY <1>1
  <1>11. Continued(L, r, y, n)
    <2>1. y.at = w.at /\ y.last = w.last /\ y.through = w.through
      BY <1>10
    <2>2. y.reset = w.reset
      BY <1>10
    <2>3. From(L, r, L, r, Line(w, r), Line(y, r), m)
      BY <1>8, <1>10
    <2>4. \A i \in 1 .. Len(Line(y, r)) :
            \/ w.reset \/ Line(y, r)[i].sequence <= n
            \/ m[i] \in 1 .. Len(Line(w, r)) /\ Line(w, r)[m[i]] = Line(y, r)[i]
      BY <1>9, <1>10
    <2>5. QED
      BY <1>10, <2>1, <2>2, <2>3, <2>4, ContinuedSame
  <1>12. QED
    BY <1>10, <1>11

(* The line in hand is sent.                                               *)
LEMMA ContinuedSent ==
  ASSUME NEW L, NEW r, NEW p, NEW w, NEW z, NEW n \in Nat,
         w.queue \in Seq(EntryType), r.entry \in EntryType, p.entry = NoLine,
         Continued(L, r, w, n), Continues(L, r, L, p),
         z.queue = Append(w.queue, r.entry),
         z.at = w.at, z.last = w.last, z.through = w.through,
         z.reset = w.reset
  PROVE  Continued(L, p, z, n)
  <1> DEFINE l == Len(w.queue)
             q == Line(w, r)
             f == Line(z, p)
             m == [i \in 1 .. l + 2 |-> i]
  <1>1. /\ z.queue \in Seq(EntryType) /\ p.entry \in EntryType
        /\ p.entry.of = 0 /\ p.entry.sequence = 0
        /\ z.queue = q /\ l \in Nat /\ Len(q) = l + 1
    BY NoLineType, LineTyped DEF Line
  <1>2. /\ Len(f) = l + 2 /\ f[l + 2] = p.entry
        /\ \A i \in 1 .. l + 1 : f[i] = q[i]
    <2>1. /\ Len(f) = Len(z.queue) + 1 /\ f[Len(z.queue) + 1] = p.entry
          /\ \A i \in 1 .. Len(z.queue) : f[i] = z.queue[i]
      BY <1>1, LineTyped
    <2> HIDE DEF f, q, l
    <2>2. QED
      BY <1>1, <2>1
  <1> HIDE DEF l, q, f
  <1>3. \A i \in 1 .. Len(f) : \/ f[i].of = 0 /\ f[i].sequence <= n
                               \/ m[i] \in 1 .. Len(q) /\ q[m[i]] = f[i]
    BY <1>1, <1>2
  <1>4. \A i \in 1 .. Len(f) : \A j \in 1 .. i - 1 : m[j] < m[i]
    BY <1>1, <1>2
  <1> HIDE DEF m
  <1>5. From(L, r, L, p, q, f, m)
    BY <1>3, <1>4 DEF From
  <1>6. n <= n
    OBVIOUS
  <1>7. QED
    BY <1>1, <1>3, <1>5, <1>6, ContinuedFrom DEF q, f

(* A line of the agent comes before the line in hand.                      *)
LEMMA ContinuedAside ==
  ASSUME NEW L, NEW r, NEW w, NEW z, NEW n \in Nat,
         w.queue \in Seq(EntryType), r.entry \in EntryType,
         NEW e \in EntryType, e.of = 0, w.reset \/ e.sequence <= n,
         Continued(L, r, w, n), z.queue = Append(w.queue, e),
         z.at = w.at, z.last = w.last, z.through = w.through,
         z.reset = w.reset
  PROVE  Continued(L, r, z, n)
  <1> DEFINE l == Len(w.queue)
             q == Line(w, r)
             f == Line(z, r)
             m == [i \in 1 .. l + 2 |-> IF i = l + 2 THEN l + 1 ELSE i]
  <1>1. /\ z.queue \in Seq(EntryType) /\ l \in Nat /\ Len(z.queue) = l + 1
        /\ z.queue[l + 1] = e
        /\ \A i \in 1 .. l : z.queue[i] = w.queue[i]
    <2>1. PICK a \in Seq(EntryType) : a = w.queue
      OBVIOUS
    <2>2. /\ Append(a, e) \in Seq(EntryType) /\ Len(a) \in Nat
          /\ Len(Append(a, e)) = Len(a) + 1 /\ Append(a, e)[Len(a) + 1] = e
          /\ \A i \in 1 .. Len(a) : Append(a, e)[i] = a[i]
      OBVIOUS
    <2>3. QED
      BY <2>1, <2>2
  <1>2. /\ Len(q) = l + 1 /\ q[l + 1] = r.entry
        /\ \A i \in 1 .. l : q[i] = w.queue[i]
    BY LineTyped
  <1>3. /\ Len(f) = Len(z.queue) + 1 /\ f[Len(z.queue) + 1] = r.entry
        /\ \A i \in 1 .. Len(z.queue) : f[i] = z.queue[i]
    <2>1. \A y : y.queue \in Seq(EntryType) =>
            /\ Len(Line(y, r)) = Len(y.queue) + 1
            /\ Line(y, r)[Len(y.queue) + 1] = r.entry
            /\ \A i \in 1 .. Len(y.queue) : Line(y, r)[i] = y.queue[i]
      BY LineTyped, Zenon
    <2>2. QED
      BY <1>1, <2>1, Zenon
  <1> HIDE DEF l, q, f
  <1>4. /\ Len(f) = l + 2 /\ f[l + 2] = r.entry /\ f[l + 1] = e
        /\ \A i \in 1 .. l : f[i] = w.queue[i]
    BY <1>1, <1>3
  <1>5. ASSUME NEW i \in 1 .. Len(f)
        PROVE  \/ i = l + 1 /\ f[i].of = 0 /\ (w.reset \/ f[i].sequence <= n)
               \/ i # l + 1 /\ m[i] \in 1 .. Len(q) /\ q[m[i]] = f[i]
    <2>1. CASE i = l + 1
      BY <1>4, <2>1
    <2>2. CASE i = l + 2
      BY <1>1, <1>2, <1>4, <2>2
    <2>3. CASE i \in 1 .. l
      BY <1>1, <1>2, <1>4, <2>3
    <2>4. QED
      BY <1>1, <1>4, <2>1, <2>2, <2>3
  <1>6. \A i \in 1 .. Len(f) : \A j \in 1 .. i - 1 :
          j # l + 1 => m[j] < m[i]
    BY <1>1, <1>4
  <1> HIDE DEF m
  <1>7. From(L, r, L, r, q, f, m)
    <2>1. \A i \in 1 .. Len(f) : \A j \in 1 .. i - 1 : j \in 1 .. Len(f)
      BY <1>1, <1>4
    <2>2. QED
      BY <1>5, <1>6, <2>1 DEF From
  <1>8. QED
    <2>1. From(L, r, L, r, Line(w, r), Line(z, r), m)
      BY <1>7 DEF q, f
    <2>2. \A i \in 1 .. Len(Line(z, r)) :
            \/ w.reset \/ Line(z, r)[i].sequence <= n
            \/ m[i] \in 1 .. Len(Line(w, r)) /\ Line(w, r)[m[i]] = Line(z, r)[i]
      BY <1>5 DEF q, f
    <2>3. z.queue \in Seq(EntryType)
      BY <1>1
    <2>4. QED
      BY <2>1, <2>2, <2>3, ContinuedSame

(* What a connection skips lies behind the cursor.                         *)
LEMMA CutoffBehind ==
  ASSUME NEW L, LogInv(L), NEW r, ReaderType(r), CutoffInv(r),
         NEW i \in 1 .. Len(L), SeenAt(L, r.cutoff, r.cutoff_lines, i)
  PROVE  SeenAt(L, r.cursor, r.cursor_lines, i)
  <1>1. /\ L[i].time \in Nat /\ r.cutoff \in Nat /\ r.cursor \in Nat
        /\ r.cursor # None
    BY LogTimes DEF SeenAt, CutoffInv, ReaderType
  <1>2. QED
    BY <1>1 DEF SeenAt, CutoffInv

(* A cursor that takes in a line keeps what it has passed.                 *)
LEMMA SeenOrder ==
  ASSUME NEW L, LogInv(L), NEW r, ReaderType(r), NEW t \in Nat \cup {None},
         NEW text
  PROVE  LET q == Seen(r, t, text) IN
         /\ ReaderType(q) /\ q.start = r.start /\ q.pos = r.pos
         /\ q.cutoff = r.cutoff /\ q.cutoff_lines = r.cutoff_lines
         /\ \A i \in 1 .. Len(L) :
              \/ SeenAt(L, r.cursor, r.cursor_lines, i)
              \/ t # None /\ t = L[i].time /\ text = L[i].text
              => SeenAt(L, q.cursor, q.cursor_lines, i)
         /\ CutoffInv(r) => CutoffInv(q)
  <1>1. PICK q : q = Seen(r, t, text)
    OBVIOUS
  <1>2. /\ r.cursor \in Nat \cup {None} /\ r.cutoff \in Nat \cup {None}
        /\ \A i \in 1 .. Len(L) : L[i].time \in Nat
    BY LogTimes DEF ReaderType
  <1>3. ASSUME NEW c \in Nat \cup {None}, NEW lines,
               q = [r EXCEPT !.cursor = c, !.cursor_lines = lines]
        PROVE  /\ ReaderType(q) /\ q.start = r.start /\ q.pos = r.pos
               /\ q.cutoff = r.cutoff /\ q.cutoff_lines = r.cutoff_lines
               /\ q.cursor = c /\ q.cursor_lines = lines
    <2>1. /\ q.at = r.at /\ q.then = r.then /\ q.start = r.start
          /\ q.pos = r.pos /\ q.cursor = c /\ q.cursor_lines = lines
          /\ q.cutoff = r.cutoff /\ q.cutoff_lines = r.cutoff_lines
      BY <1>3 DEF ReaderType
    <2>2. QED
      BY <1>3, <2>1 DEF ReaderType
  <1>4. CASE q = r /\ (t = None \/ t < r.cursor)
    <2>1. \A i \in 1 .. Len(L) : t # None /\ t = L[i].time =>
            SeenAt(L, r.cursor, r.cursor_lines, i)
      BY <1>2, <1>4 DEF SeenAt, None
    <2>2. QED
      BY <1>1, <1>4, <2>1
  <1>5. CASE /\ t # None /\ t = r.cursor
             /\ q = [r EXCEPT !.cursor_lines = @ \cup {text}]
    <2>1. PICK lines : /\ lines = r.cursor_lines \cup {text}
                       /\ q = [r EXCEPT !.cursor = t, !.cursor_lines = lines]
      BY <1>5 DEF ReaderType
    <2>2. /\ ReaderType(q) /\ q.start = r.start /\ q.pos = r.pos
          /\ q.cutoff = r.cutoff /\ q.cutoff_lines = r.cutoff_lines
          /\ q.cursor = t /\ q.cursor_lines = lines
      BY <1>3, <2>1
    <2>3. \A i \in 1 .. Len(L) :
            \/ SeenAt(L, r.cursor, r.cursor_lines, i)
            \/ t # None /\ t = L[i].time /\ text = L[i].text
            => SeenAt(L, q.cursor, q.cursor_lines, i)
      BY <1>5, <2>1, <2>2 DEF SeenAt
    <2>4. CutoffInv(r) => CutoffInv(q)
      BY <1>5, <2>1, <2>2 DEF CutoffInv
    <2>5. QED
      BY <1>1, <2>2, <2>3, <2>4
  <1>6. CASE /\ t # None /\ ~ (t < r.cursor) /\ t # r.cursor
             /\ q = [r EXCEPT !.cursor = t, !.cursor_lines = {text}]
    <2>1. PICK lines : /\ lines = {text}
                       /\ q = [r EXCEPT !.cursor = t, !.cursor_lines = lines]
      BY <1>6
    <2>2. /\ ReaderType(q) /\ q.start = r.start /\ q.pos = r.pos
          /\ q.cutoff = r.cutoff /\ q.cutoff_lines = r.cutoff_lines
          /\ q.cursor = t /\ q.cursor_lines = lines
      BY <1>3, <2>1
    <2>3. t \in Nat /\ r.cursor < t /\ r.cursor \in Int
      BY <1>2, <1>6 DEF None
    <2>4. \A i \in 1 .. Len(L) :
            \/ SeenAt(L, r.cursor, r.cursor_lines, i)
            \/ t # None /\ t = L[i].time /\ text = L[i].text
            => SeenAt(L, q.cursor, q.cursor_lines, i)
      BY <1>2, <1>6, <2>1, <2>2, <2>3 DEF SeenAt
    <2>5. CutoffInv(r) => CutoffInv(q)
      BY <1>2, <1>6, <2>2, <2>3 DEF CutoffInv, None
    <2>6. QED
      BY <1>1, <2>2, <2>4, <2>5
  <1>7. \/ q = r /\ (t = None \/ t < r.cursor)
        \/ /\ t # None /\ t = r.cursor
           /\ q = [r EXCEPT !.cursor_lines = @ \cup {text}]
        \/ /\ t # None /\ ~ (t < r.cursor) /\ t # r.cursor
           /\ q = [r EXCEPT !.cursor = t, !.cursor_lines = {text}]
    BY <1>1 DEF Seen
  <1>8. QED
    BY <1>4, <1>5, <1>6, <1>7

LEMMA UpToIn ==
  ASSUME NEW L, NEW r, NEW k \in 1 .. Len(L)
  PROVE  UpTo(r, k) \subseteq 1 .. Len(L)
  <1>1. \A i \in 1 .. k : i \in 1 .. Len(L)
    OBVIOUS
  <1>2. QED
    BY <1>1 DEF UpTo

(* A reader whose cursor keeps what it has passed, on the same connection  *)
(* or on one that starts from there, keeps what is published.              *)
LEMMA ReaderContinues ==
  ASSUME NEW L, LogInv(L), NEW r, ReaderType(r), NEW p, ReaderType(p),
         p.start = r.start, r.at # "retire",
         \A i \in 1 .. Len(L) : SeenAt(L, r.cursor, r.cursor_lines, i) =>
                                SeenAt(L, p.cursor, p.cursor_lines, i),
         Reads(p) =>
           \/ /\ Reads(r) /\ r.pos <= p.pos /\ p.cutoff = r.cutoff
              /\ p.cutoff_lines = r.cutoff_lines
           \/ p.cutoff = p.cursor /\ p.cutoff_lines = p.cursor_lines
  PROVE  Continues(L, r, L, p)
  <1>1. ASSUME NEW k \in 1 .. Len(L), Published(L, r, k)
        PROVE  Published(L, p, k)
    <2>1. /\ AllSeen(L, r, r.cursor, r.cursor_lines, k)
          /\ Reads(r) =>
               k < r.pos \/ AllSeen(L, r, r.cutoff, r.cutoff_lines, k)
      BY <1>1 DEF Published
    <2>2. UpTo(p, k) = UpTo(r, k) /\ UpTo(r, k) \subseteq 1 .. Len(L)
      BY <1>1, UpToIn DEF UpTo
    <2>3. AllSeen(L, p, p.cursor, p.cursor_lines, k)
      BY <2>1, <2>2 DEF AllSeen
    <2>4. ASSUME Reads(p)
          PROVE  k < p.pos \/ AllSeen(L, p, p.cutoff, p.cutoff_lines, k)
      <3>1. CASE /\ Reads(r) /\ r.pos <= p.pos /\ p.cutoff = r.cutoff
                 /\ p.cutoff_lines = r.cutoff_lines
        <4>1. AllSeen(L, r, r.cutoff, r.cutoff_lines, k) =>
                AllSeen(L, p, p.cutoff, p.cutoff_lines, k)
          BY <2>2, <3>1 DEF AllSeen
        <4>2. k < r.pos => k < p.pos
          BY <3>1, LogTimes DEF ReaderType
        <4>3. QED
          BY <2>1, <3>1, <4>1, <4>2
      <3>2. CASE p.cutoff = p.cursor /\ p.cutoff_lines = p.cursor_lines
        BY <2>3, <3>2
      <3>3. QED
        BY <2>4, <3>1, <3>2
    <2>5. QED
      BY <2>3, <2>4 DEF Published
  <1>2. \A i, j \in 1 .. Len(L) : After(L, r, i, j) => After(L, p, i, j)
    BY DEF After
  <1>3. QED
    BY <1>1, <1>2 DEF Continues

(* Nothing is published before the cursor is set.                          *)
LEMMA NothingPublished ==
  ASSUME NEW L, NEW r, r.at # "retire", r.cursor = None, NEW M, NEW p
  PROVE  Continues(L, r, M, p)
  <1>1. ASSUME NEW k \in 1 .. Len(L), Published(L, r, k) PROVE FALSE
    <2>1. k \in UpTo(r, k)
      BY DEF UpTo
    <2>2. QED
      BY <1>1, <2>1 DEF Published, AllSeen, SeenAt
  <1>2. QED
    BY <1>1 DEF Continues

(* A connection that reads a line it does not skip has published nothing   *)
(* that comes later: the line is behind its position, or it follows at the *)
(* same instant what the cutoff has seen of the tail.                      *)
LEMMA NewestLine ==
  ASSUME NEW L, LogInv(L), NEW r, ReaderType(r), Reads(r), r.at # "retire",
         r.pos \in 1 .. Len(L), CursorInv(L, r),
         ~ Skipped(r, L[r.pos].time, L[r.pos].text),
         NEW p, ReaderType(p), p.start = r.start,
         \A i \in 1 .. Len(L) : SeenAt(L, r.cursor, r.cursor_lines, i) =>
                                SeenAt(L, p.cursor, p.cursor_lines, i),
         SeenAt(L, p.cursor, p.cursor_lines, r.pos),
         Reads(p) => r.pos < p.pos
  PROVE  Newest(L, r, L, p, r.pos)
  <1>1. PICK i \in 1 .. Len(L) : i = r.pos
    OBVIOUS
  <1>2. Published(L, p, i)
    <2>1. ASSUME NEW j \in UpTo(p, i)
          PROVE  SeenAt(L, p.cursor, p.cursor_lines, j)
      <3>1. j = i \/ (j \in 1 .. i - 1 /\ r.start <= j)
        BY <1>1, LogTimes DEF UpTo
      <3>2. CASE j # i
        <4>1. j \in 1 .. r.pos - 1 /\ r.start <= j /\ j \in 1 .. Len(L)
          BY <1>1, <3>1, <3>2, LogTimes
        <4>2. QED
          BY <4>1 DEF CursorInv
      <3>3. QED
        BY <1>1, <3>2
    <2>2. QED
      BY <1>1, <2>1 DEF Published, AllSeen
  <1>3. ASSUME NEW k \in 1 .. Len(L), Published(L, r, k)
        PROVE  After(L, p, k, i)
    <2>1. ~ SeenAt(L, r.cutoff, r.cutoff_lines, i)
      BY <1>1 DEF SeenAt, Skipped
    <2>2. CASE k < i
      BY <2>2 DEF After
    <2>3. CASE ~ (k < i)
      <3>1. AllSeen(L, r, r.cutoff, r.cutoff_lines, k)
        BY <1>1, <1>3, <2>3 DEF Published
      <3>2. SeenAt(L, r.cutoff, r.cutoff_lines, k) /\ k # i
        BY <2>1, <3>1 DEF AllSeen, UpTo
      <3>3. i \in 1 .. k /\ i < k /\ ~ (r.start <= i)
        <4>1. i \in 1 .. k /\ i < k
          BY <2>3, <3>2, LogTimes
        <4>2. r.start <= i => i \in UpTo(r, k)
          BY <4>1 DEF UpTo
        <4>3. QED
          BY <2>1, <3>1, <4>1, <4>2 DEF AllSeen
      <3>4. L[k].time <= r.cutoff /\ ~ (L[i].time < r.cutoff)
            /\ r.cutoff \in Nat
        BY <2>1, <3>2, LogTimes DEF SeenAt, ReaderType
      <3>5. L[i].time <= L[k].time
        BY <3>3 DEF LogInv
      <3>6. L[i].time = L[k].time
        BY <3>4, <3>5, LogTimes
      <3>7. i \in 1 .. p.start - 1
        BY <3>3, LogTimes DEF ReaderType
      <3>8. QED
        BY <3>2, <3>6, <3>7 DEF After
    <2>4. QED
      BY <2>2, <2>3
  <1>4. QED
    BY <1>1, <1>2, <1>3 DEF Newest

(* A history that gets one line and is trimmed stays in order.             *)
LEMMA LinedTrimmed ==
  ASSUME NEW L, NEW r, NEW M, NEW p, NEW old \in Seq(EntryType),
         NEW e \in EntryType, NEW g, g.lines \in Seq(EntryType), NEW x,
         Trimmed([lines |-> Append(old, e), next_sequence |-> x], g),
         Lined(L, r, old), Continues(L, r, M, p),
         e.of # 0 => Newest(L, r, M, p, e.of)
  PROVE  Lined(M, p, g.lines)
  <1> DEFINE full == Append(old, e)
             n == Len(old)
             f == g.lines
  <1>1. /\ n \in Nat /\ Len(full) = n + 1 /\ full[n + 1] = e
        /\ \A i \in 1 .. n : full[i] = old[i]
    OBVIOUS
  <1>2. PICK k \in 0 .. Len(full) :
         /\ Len(f) = Len(full) - k
         /\ \A i \in 1 .. Len(f) : f[i] = full[i + k]
    BY DEF Trimmed
  <1> DEFINE m == [i \in 1 .. Len(f) |-> i + k]
  <1> HIDE DEF full, n, f
  <1>3. ASSUME NEW i \in 1 .. Len(f)
        PROVE  \/ i = Len(f) /\ f[i] = e
               \/ m[i] \in 1 .. n /\ old[m[i]] = f[i]
    <2>1. i + k \in 1 .. n + 1 /\ f[i] = full[i + k] /\ m[i] = i + k
      BY <1>1, <1>2
    <2>2. CASE i + k = n + 1
      <3>1. f[i] = e
        BY <1>1, <2>1, <2>2
      <3>2. Len(f) = i
        BY <1>1, <1>2, <2>2
      <3>3. QED
        BY <3>1, <3>2
    <2>3. CASE i + k # n + 1
      BY <1>1, <2>1, <2>3
    <2>4. QED
      BY <2>2, <2>3
  <1>4. \A i \in 1 .. Len(f) : \A j \in 1 .. i - 1 : m[j] < m[i]
    BY <1>1, <1>2
  <1> HIDE DEF m
  <1>5. From(L, r, M, p, old, f, m)
    BY <1>3, <1>4 DEF From, n
  <1>6. QED
    BY <1>5, LinedFrom DEF f

(* A viewer whose stream a step leaves alone, unless its history goes.     *)
Still(v) ==
    LET w == viewer[v]
        z == viewer'[v]
    IN /\ z.at = w.at /\ z.id = w.id /\ z.queue = w.queue /\ z.last = w.last
       /\ z.through = w.through
       /\ ~ z.reset =>
            /\ ~ w.reset
            /\ w.at # "off" => cache.entries[w.id].next_sequence
                                 <= cache'.entries[w.id].next_sequence

LEMMA OrderTypes ==
  ASSUME LinesInv
  PROVE  /\ \A u \in Servers : /\ reader[u].entry \in EntryType
                               /\ cache.entries[u].next_sequence \in Nat
                               /\ cache.entries[u].lines \in Seq(EntryType)
         /\ publisher.entry \in EntryType /\ publisher.entry.sequence \in Nat
         /\ \A v \in Viewers : /\ viewer[v].queue \in Seq(EntryType)
                               /\ viewer[v].at # "off" => viewer[v].id \in Servers
  BY DEF LinesInv, HandInv, CacheInv, HistoryInv, ViewersInv, ViewerType,
         EntryType

LEMMA LinedNone ==
  ASSUME NEW L, NEW r
  PROVE  Lined(L, r, NoHistory.lines)
  <1>1. NoHistory.lines = <<>> /\ 1 .. Len(<<>>) = {}
    BY DEF NoHistory
  <1>2. QED
    BY <1>1, Zenon DEF Lined

LEMMA OtherServer ==
  ASSUME NEW u \in Servers, ServerOrder(u), log'[u] = log[u],
         reader'[u] = reader[u], u \in rewound => u \in rewound',
         cache'.entries[u] \in {cache.entries[u], NoHistory}
  PROVE  ServerOrder(u)'
  <1>1. Lined(log[u], reader[u], cache.entries[u].lines) =>
          Lined(log[u], reader[u], cache'.entries[u].lines)
    BY LinedNone
  <1>2. QED
    BY <1>1 DEF ServerOrder

(* The publisher may have a new line in hand, which is in the history.     *)
PublisherMoves ==
    \/ publisher' = publisher
    \/ \A u \in Servers : u = publisher'.id =>
         publisher'.entry.sequence <= cache'.entries[u].next_sequence

LEMMA PublisherOrder ==
  ASSUME LinesInv, LinesInv', NEW v \in Viewers, ViewerOrder(v), PublisherMoves,
         viewer'[v].at # "off" => viewer[v].at # "off",
         viewer'[v].id = viewer[v].id,
         ~ viewer'[v].reset => ~ viewer[v].reset,
         ~ viewer'[v].reset /\ viewer[v].at # "off" =>
              cache.entries[viewer[v].id].next_sequence
                <= cache'.entries[viewer[v].id].next_sequence
  PROVE  \A u \in Servers :
            (u = viewer'[v].id /\ viewer'[v].at # "off" /\ ~ viewer'[v].reset
              /\ publisher'.id = u) =>
            publisher'.entry.sequence <= cache'.entries[u].next_sequence
  <1>1. ASSUME NEW u \in Servers, u = viewer'[v].id, viewer'[v].at # "off",
               ~ viewer'[v].reset, publisher'.id = u, publisher' = publisher
        PROVE  publisher'.entry.sequence <= cache'.entries[u].next_sequence
    <2>1. publisher.entry.sequence <= cache.entries[u].next_sequence
      BY <1>1 DEF ViewerOrder
    <2>2. /\ publisher.entry.sequence \in Nat
          /\ cache.entries[u].next_sequence \in Nat
          /\ cache'.entries[u].next_sequence \in Nat
      BY OrderTypes, CacheNumbers DEF LinesInv
    <2>3. QED
      BY <1>1, <2>1, <2>2
  <1>2. QED
    BY <1>1 DEF PublisherMoves

(* One server moves, and no queue does.                                    *)
LEMMA ServerMoves ==
  ASSUME LinesInv, LinesInv', OrderInv, NEW s \in Servers, rewound' = rewound,
         \A u \in Servers \ {s} :
            /\ log'[u] = log[u] /\ reader'[u] = reader[u]
            /\ cache'.entries[u] \in {cache.entries[u], NoHistory},
         NEW L, NEW r, NEW M, NEW p,
         L = log[s], r = reader[s], M = log'[s], p = reader'[s],
         Continues(L, r, M, p), CursorInv(M, p),
         \/ p.entry = r.entry
         \/ /\ p.entry.of # 0 => Newest(L, r, M, p, p.entry.of)
            /\ p.entry.sequence <= cache'.entries[s].next_sequence,
         s \notin rewound => Lined(M, p, cache'.entries[s].lines),
         \A v \in Viewers : Still(v), publisher'.entry.of = 0, PublisherMoves
  PROVE  OrderInv'
  <1>1. /\ \A u \in Servers : /\ reader[u].entry \in EntryType
                              /\ reader'[u].entry \in EntryType
                              /\ cache.entries[u].next_sequence \in Nat
                              /\ cache'.entries[u].next_sequence \in Nat
        /\ \A v \in Viewers : viewer[v].queue \in Seq(EntryType)
    BY OrderTypes, CacheNumbers DEF LinesInv, HandInv
  <1>2. ASSUME NEW u \in Servers PROVE ServerOrder(u)'
    <2>1. CASE u = s
      <3>1. p.entry.of # 0 /\ s \notin rewound => Published(M, p, p.entry.of)
        BY PublishedIn DEF OrderInv, ServerOrder, Continues, Newest
      <3>2. QED
        BY <2>1, <3>1 DEF ServerOrder
    <2>2. CASE u # s
      BY <2>2, OtherServer DEF OrderInv
    <2>3. QED
      BY <2>1, <2>2
  <1>3. ASSUME NEW v \in Viewers PROVE ViewerOrder(v)'
    <2>1. ViewerOrder(v) /\ Still(v)
      BY DEF OrderInv
    <2>2. ASSUME NEW u \in Servers, u = viewer'[v].id, viewer'[v].at # "off",
                 u \notin rewound
          PROVE  Continued(log'[u], reader'[u], viewer'[v],
                           cache'.entries[u].next_sequence)
      <3> DEFINE n == cache.entries[u].next_sequence
                 x == cache'.entries[u].next_sequence
      <3>1. /\ Continued(log[u], reader[u], viewer[v], n)
            /\ ~ viewer'[v].reset => ~ viewer[v].reset /\ n <= x
            /\ n \in Nat /\ x \in Nat
        BY <1>1, <2>1, <2>2 DEF ViewerOrder, Still
      <3> HIDE DEF n, x
      <3>2. Continues(log[u], reader[u], log'[u], reader'[u])
        BY <2>2, ContinuesSame
      <3>3. \/ reader'[u].entry = reader[u].entry
            \/ /\ reader'[u].entry.of # 0 =>
                    Newest(log[u], reader[u], log'[u], reader'[u],
                           reader'[u].entry.of)
               /\ reader'[u].entry.sequence <= x
        BY DEF x
      <3>4. /\ viewer'[v].at = viewer[v].at /\ viewer'[v].last = viewer[v].last
            /\ viewer'[v].queue = viewer[v].queue
            /\ viewer'[v].through = viewer[v].through
        BY <2>1 DEF Still
      <3>5. Continued(log'[u], reader'[u], viewer'[v], x)
        BY <1>1, <3>1, <3>2, <3>3, <3>4, ContinuedKept
      <3>6. QED
        BY <3>5 DEF x
    <2>3. \A u \in Servers :
            (u = viewer'[v].id /\ viewer'[v].at # "off" /\ ~ viewer'[v].reset
              /\ publisher'.id = u) =>
            publisher'.entry.sequence <= cache'.entries[u].next_sequence
      BY <2>1, PublisherOrder DEF Still
    <2>4. QED
      BY <2>2, <2>3 DEF ViewerOrder
  <1>4. QED
    BY <1>2, <1>3 DEF OrderInv

LEMMA LinedContinues ==
  ASSUME NEW L, NEW r, NEW M, NEW p, NEW q, Lined(L, r, q),
         Continues(L, r, M, p)
  PROVE  Lined(M, p, q)
  <1>1. \A i \in 1 .. Len(q) : q[i].of # 0 =>
          q[i].of \in 1 .. Len(L) /\ Published(L, r, q[i].of)
    BY PublishedIn DEF Lined
  <1>2. QED
    BY <1>1 DEF Lined, Continues

(* Nothing but the reader or the log of one server moves.                  *)
LEMMA QuietMoves ==
  ASSUME LinesInv, LinesInv', OrderInv, NEW s \in Servers,
         UNCHANGED <<cache, viewer, publisher, rewound>>,
         \A u \in Servers \ {s} : log'[u] = log[u] /\ reader'[u] = reader[u],
         NEW L, NEW r, NEW M, NEW p,
         L = log[s], r = reader[s], M = log'[s], p = reader'[s],
         Continues(L, r, M, p), CursorInv(M, p), p.entry = r.entry
  PROVE  OrderInv'
  <1>1. s \notin rewound => Lined(M, p, cache'.entries[s].lines)
    BY LinedContinues DEF OrderInv, ServerOrder
  <1>2. \A v \in Viewers : Still(v)
    <2>1. ASSUME NEW v \in Viewers, viewer[v].at # "off"
          PROVE  cache.entries[viewer[v].id].next_sequence
                   <= cache'.entries[viewer[v].id].next_sequence
      BY <2>1, OrderTypes
    <2>2. QED
      BY <2>1 DEF Still
  <1>3. publisher'.entry.of = 0 /\ PublisherMoves
    BY DEF OrderInv, PublisherMoves
  <1>4. \A u \in Servers \ {s} :
            /\ log'[u] = log[u] /\ reader'[u] = reader[u]
            /\ cache'.entries[u] \in {cache.entries[u], NoHistory}
    OBVIOUS
  <1>5. QED
    BY <1>1, <1>2, <1>3, <1>4, ServerMoves

LEMMA OrderOf ==
  ASSUME OrderInv, NEW s \in Servers
  PROVE  CursorInv(log[s], reader[s]) /\ CutoffInv(reader[s])
  BY DEF OrderInv, ServerOrder, CursorInv

(* The container writes a line.                                            *)
LEMMA EmitOrder ==
  ASSUME LossInv, LinesInv', OrderInv, NEW s \in Servers, Emit(s)
  PROVE  OrderInv'
  <1> DEFINE L == log[s]
             r == reader[s]
  <1>1. LinesInv /\ StreamInv /\ LogInv(L) /\ ReaderInv(L, done[s], r)
    BY DEF LossInv, StreamInv
  <1>2. /\ UNCHANGED <<cache, viewer, publisher, rewound, reader>>
        /\ Len(L) \in Nat
    BY <1>1, LogTimes DEF Emit
  <1>3. PICK e \in LineType : log' = [log EXCEPT ![s] = Append(@, e)]
    <2>1. \A t \in 0 .. MaxTime, x \in Texts : [time |-> t, text |-> x] \in LineType
      BY StreamAssumption DEF LineType
    <2>2. QED
      BY <2>1 DEF Emit
  <1>4. PICK M : M = Append(L, e) /\ M = log'[s]
    BY <1>1, <1>3 DEF StreamInv
  <1>5. Len(M) = Len(L) + 1 /\ \A i \in 1 .. Len(L) : M[i] = L[i]
    <2>1. L \in Seq(LineType)
      BY <1>1 DEF LogInv
    <2>2. PICK K \in Seq(LineType) : K = L
      BY <2>1
    <2>3. /\ Len(Append(K, e)) = Len(K) + 1
          /\ \A i \in 1 .. Len(K) : Append(K, e)[i] = K[i]
      OBVIOUS
    <2>4. M = Append(K, e)
      BY <1>4, <2>2
    <2> HIDE DEF L
    <2>5. QED
      BY <2>2, <2>3, <2>4
  <1>6. \A t, lines : \A i \in 1 .. Len(L) :
          SeenAt(M, t, lines, i) <=> SeenAt(L, t, lines, i)
    BY <1>5 DEF SeenAt
  <1>7. Continues(L, r, M, r)
    <2>1. ASSUME NEW k \in 1 .. Len(L)
          PROVE  k \in 1 .. Len(M) /\ UpTo(r, k) \subseteq 1 .. Len(L)
      BY <1>2, <1>5, UpToIn
    <2>2. \A k \in 1 .. Len(L) : Published(L, r, k) => Published(M, r, k)
      BY <1>6, <2>1 DEF Published, AllSeen
    <2>3. \A i, j \in 1 .. Len(L) : After(L, r, i, j) => After(M, r, i, j)
      BY <1>5 DEF After
    <2>4. QED
      BY <2>2, <2>3 DEF Continues
  <1>8. CursorInv(M, r)
    <2>1. \A i \in 1 .. r.pos - 1 : i \in 1 .. Len(L)
      BY <1>1, <1>2 DEF ReaderInv, ReaderType
    <2>2. CursorInv(L, r)
      BY OrderOf
    <2>3. QED
      BY <1>6, <2>1, <2>2 DEF CursorInv
  <1>9. /\ \A u \in Servers \ {s} : log'[u] = log[u] /\ reader'[u] = reader[u]
        /\ r = reader'[s]
    BY <1>1, <1>2, <1>3 DEF StreamInv
  <1>10. QED
    BY <1>1, <1>2, <1>4, <1>7, <1>8, <1>9, QuietMoves

(* The reader alone moves, between two lines.                              *)
LEMMA ReaderAlone ==
  ASSUME LossInv, LinesInv', OrderInv, NEW s \in Servers, log' = log,
         UNCHANGED <<cache, viewer, publisher, rewound>>, NEW p,
         reader' = [reader EXCEPT ![s] = p], p.entry = reader[s].entry,
         Continues(log[s], reader[s], log[s], p), CursorInv(log[s], p)
  PROVE  OrderInv'
  <1>1. LinesInv /\ StreamInv
    BY DEF LossInv
  <1>2. /\ \A u \in Servers \ {s} : log'[u] = log[u] /\ reader'[u] = reader[u]
        /\ p = reader'[s] /\ log'[s] = log[s]
    BY <1>1 DEF StreamInv
  <1>3. QED
    BY <1>1, <1>2, QuietMoves

(* A connection starts at or behind the cursor, which is its cutoff.       *)
LEMMA ConnectOrder ==
  ASSUME LossInv, LinesInv', OrderInv, NEW s \in Servers, Connect(s)
  PROVE  OrderInv'
  <1> DEFINE L == log[s]
             r == reader[s]
             f == FirstLine(s)
  <1>1. StreamInv /\ LogInv(L) /\ ReaderInv(L, done[s], r) /\ ReaderType(r)
        /\ CursorInv(L, r)
    BY OrderOf DEF LossInv, StreamInv, ReaderInv
  <1>2. PICK p : /\ p = [r EXCEPT !.at = "reading", !.pos = f,
                           !.start = IF r.cursor = None THEN f ELSE @,
                           !.cutoff = r.cursor,
                           !.cutoff_lines = r.cursor_lines]
                 /\ reader' = [reader EXCEPT ![s] = p]
    BY <1>1 DEF Connect, StreamInv
  <1>3. /\ r.at = "connect" /\ log' = log
        /\ UNCHANGED <<cache, viewer, publisher, rewound>>
    BY DEF Connect
  <1>4. f \in 1 .. Len(L) + 1 /\ Len(L) \in Nat
        /\ (r.cursor # None => \A i \in 1 .. f - 1 : L[i].time < r.cursor)
    BY <1>1, FirstLineSplits, LogTimes
  <1> HIDE DEF f
  <1>5. /\ p.at = "reading" /\ p.pos = f /\ p.entry = r.entry
        /\ p.start = IF r.cursor = None THEN f ELSE r.start
        /\ p.cursor = r.cursor /\ p.cursor_lines = r.cursor_lines
        /\ p.cutoff = r.cursor /\ p.cutoff_lines = r.cursor_lines
    BY <1>1, <1>2 DEF ReaderType
  <1>6. ReaderType(p)
    <2>1. f \in Nat /\ p.start \in Nat
      BY <1>1, <1>4, <1>5 DEF ReaderType
    <2>2. QED
      BY <1>1, <1>2, <1>5, <2>1 DEF ReaderType
  <1>7. CutoffInv(p)
    <2>1. r.cursor # None => r.cursor <= r.cursor
      BY <1>1 DEF ReaderType
    <2>2. QED
      BY <1>5, <2>1 DEF CutoffInv
  <1>8. CursorInv(L, p)
    <2>1. ASSUME NEW i \in 1 .. f - 1, p.start <= i
          PROVE  SeenAt(L, p.cursor, p.cursor_lines, i)
      <3>1. r.cursor # None
        BY <1>4, <1>5, <2>1
      <3>2. QED
        BY <1>4, <1>5, <3>1 DEF SeenAt
    <2>2. QED
      BY <1>5, <1>7, <2>1 DEF CursorInv
  <1>9. Continues(L, r, L, p)
    <2>1. CASE r.cursor = None
      BY <1>3, <2>1, NothingPublished
    <2>2. CASE r.cursor # None
      <3>1. p.start = r.start /\ r.at # "retire"
            /\ p.cutoff = p.cursor /\ p.cutoff_lines = p.cursor_lines
        BY <1>3, <1>5, <2>2
      <3>2. QED
        BY <1>1, <1>5, <1>6, <3>1, ReaderContinues
    <2>3. QED
      BY <2>1, <2>2
  <1>10. QED
    BY <1>2, <1>3, <1>5, <1>8, <1>9, ReaderAlone

(* A connection is lost between two lines.                                 *)
LEMMA StreamEndsOrder ==
  ASSUME LossInv, LinesInv', OrderInv, NEW s \in Servers, StreamEnds(s)
  PROVE  OrderInv'
  <1> DEFINE L == log[s]
             r == reader[s]
  <1>1. StreamInv /\ LogInv(L) /\ ReaderType(r)
    BY DEF LossInv, StreamInv, ReaderInv
  <1>2. PICK p : p = Goes(r, "connect") /\ reader' = [reader EXCEPT ![s] = p]
    BY DEF StreamEnds, Goes
  <1>3. /\ r.at = "reading" /\ log' = log
        /\ UNCHANGED <<cache, viewer, publisher, rewound>>
    BY DEF StreamEnds
  <1>4. /\ ReaderType(p) /\ p.start = r.start /\ ~ Reads(p)
        /\ p.cursor = r.cursor /\ p.cursor_lines = r.cursor_lines
        /\ p.pos = 0 /\ p.cutoff = None
    <2>1. Leaves(r, "connect", p)
      BY <1>2 DEF Leaves
    <2>2. QED
      BY <1>1, <2>1, GoesFields
  <1>5. p.entry = r.entry
    BY <1>1, <1>2, GoesEntry
  <1>6. CursorInv(L, p)
    BY <1>4 DEF CursorInv, CutoffInv
  <1>7. Continues(L, r, L, p)
    <2>1. r.at # "retire"
      BY <1>3
    <2>2. QED
      BY <1>1, <1>4, <2>1, ReaderContinues
  <1>8. QED
    BY <1>2, <1>3, <1>5, <1>6, <1>7, ReaderAlone

(* A reader without a receiver ends.                                       *)
LEMMA IdleEndsOrder ==
  ASSUME LossInv, LinesInv', OrderInv, NEW s \in Servers, IdleEnds(s)
  PROVE  OrderInv'
  <1> DEFINE L == log[s]
             r == reader[s]
  <1>1. StreamInv /\ LinesInv
    BY DEF LossInv
  <1>2. PICK p : /\ p = [NoReader EXCEPT !.at = "retire", !.start = r.start]
                 /\ reader' = [reader EXCEPT ![s] = p]
    BY DEF IdleEnds
  <1>3. /\ r.entry = NoLine /\ log' = log
        /\ UNCHANGED <<cache, viewer, publisher, rewound>>
    BY <1>1 DEF IdleEnds, LinesInv, HandInv
  <1>4. /\ p.at = "retire" /\ p.start = r.start /\ p.pos = 0
        /\ p.cutoff = None /\ p.entry = NoLine
    BY <1>2 DEF NoReader
  <1>5. CursorInv(L, p)
    BY <1>4 DEF CursorInv, CutoffInv
  <1>6. Continues(L, r, L, p)
    BY <1>4, PublishedIn DEF Continues, Published, After
  <1>7. QED
    BY <1>2, <1>3, <1>4, <1>5, <1>6, ReaderAlone

(* What process_docker_line does to the cursor keeps what is published,    *)
(* and the line that it shows comes last.                                  *)
LEMMA StepOrder ==
  ASSUME NEW L, LogInv(L), NEW r, ReaderType(r), CursorInv(L, r),
         r.at = "reading", NEW i \in 1 .. Len(L), r.pos = i,
         NEW a, ReaderType(a), a.start = r.start,
         a.cursor = r.cursor, a.cursor_lines = r.cursor_lines,
         a.cutoff = r.cutoff, a.cutoff_lines = r.cutoff_lines,
         NEW t \in Nat \cup {None}, NEW text,
         NEW next \in {"reading", "connect"},
         next = "reading" =>
           a.pos = i + 1 /\ t = L[i].time /\ text = L[i].text,
         NEW q, \/ q = a /\ Skipped(a, t, text)
                \/ q = Seen(a, t, text),
         NEW p, Leaves(q, next, p)
  PROVE  /\ Continues(L, r, L, p) /\ CursorInv(L, p)
         /\ (/\ q = Seen(a, t, text) /\ ~ Skipped(a, t, text)
             /\ t = L[i].time /\ text = L[i].text) => Newest(L, r, L, p, i)
  <1>1. L[i].time \in Nat /\ Len(L) \in Nat /\ CutoffInv(a) /\ r.pos \in Nat
    BY LogTimes DEF CursorInv, CutoffInv
  <1>2. /\ ReaderType(q) /\ q.start = r.start /\ q.pos = a.pos
        /\ q.cutoff = r.cutoff /\ q.cutoff_lines = r.cutoff_lines
        /\ \A j \in 1 .. Len(L) : SeenAt(L, r.cursor, r.cursor_lines, j) =>
                                  SeenAt(L, q.cursor, q.cursor_lines, j)
        /\ t = L[i].time /\ text = L[i].text =>
             SeenAt(L, q.cursor, q.cursor_lines, i)
        /\ CutoffInv(q)
    <2>1. CASE q = a /\ Skipped(a, t, text)
      <3>1. ASSUME t = L[i].time, text = L[i].text
            PROVE  SeenAt(L, q.cursor, q.cursor_lines, i)
        <4>1. SeenAt(L, a.cutoff, a.cutoff_lines, i)
          BY <2>1, <3>1 DEF Skipped, SeenAt
        <4>2. QED
          BY <1>1, <2>1, <4>1, CutoffBehind
      <3>2. QED
        BY <1>1, <2>1, <3>1
    <2>2. CASE q = Seen(a, t, text)
      <3>1. /\ ReaderType(q) /\ q.start = a.start /\ q.pos = a.pos
            /\ q.cutoff = a.cutoff /\ q.cutoff_lines = a.cutoff_lines
            /\ \A j \in 1 .. Len(L) :
                 \/ SeenAt(L, a.cursor, a.cursor_lines, j)
                 \/ t # None /\ t = L[j].time /\ text = L[j].text
                 => SeenAt(L, q.cursor, q.cursor_lines, j)
            /\ CutoffInv(a) => CutoffInv(q)
        BY <2>2, SeenOrder
      <3>2. t = L[i].time => t # None
        BY <1>1 DEF None
      <3>3. QED
        BY <1>1, <3>1, <3>2
    <2>3. QED
      BY <2>1, <2>2
  <1>3. /\ ReaderType(p) /\ p.start = r.start /\ p.at # "retire"
        /\ p.cursor = q.cursor /\ p.cursor_lines = q.cursor_lines
        /\ Reads(p) <=> next = "reading"
        /\ next = "reading" => /\ p.pos = i + 1 /\ p.cutoff = r.cutoff
                               /\ p.cutoff_lines = r.cutoff_lines
        /\ next = "connect" => p.pos = 0 /\ p.cutoff = None
    <2>1. /\ ReaderType(p) /\ p.start = q.start /\ p.at # "retire"
          /\ p.cursor = q.cursor /\ p.cursor_lines = q.cursor_lines
          /\ Reads(p) <=> next = "reading"
          /\ next = "reading" => /\ p.pos = q.pos /\ p.cutoff = q.cutoff
                                 /\ p.cutoff_lines = q.cutoff_lines
          /\ next = "connect" => p.pos = 0 /\ p.cutoff = None
      <3>1. ReaderType(q)
        BY <1>2
      <3>2. QED
        BY <3>1, GoesFields
    <2>2. QED
      BY <1>2, <2>1
  <1>4. /\ \A j \in 1 .. Len(L) : SeenAt(L, r.cursor, r.cursor_lines, j) =>
                                  SeenAt(L, p.cursor, p.cursor_lines, j)
        /\ Reads(r) /\ r.at # "retire"
        /\ Reads(p) => r.pos <= p.pos /\ r.pos < p.pos
    BY <1>1, <1>2, <1>3 DEF Reads
  <1>5. Continues(L, r, L, p)
    BY <1>3, <1>4, ReaderContinues
  <1>6. CutoffInv(p)
    <2>1. CASE next = "reading"
      BY <1>2, <1>3, <2>1 DEF CutoffInv
    <2>2. CASE next = "connect"
      BY <1>3, <2>2 DEF CutoffInv
    <2>3. QED
      BY <2>1, <2>2
  <1>7. ASSUME NEW j \in 1 .. p.pos - 1, p.start <= j
        PROVE  SeenAt(L, p.cursor, p.cursor_lines, j)
    <2>1. next = "reading" /\ p.pos = i + 1
      BY <1>3, <1>7
    <2>2. CASE j = i
      BY <1>2, <1>3, <2>1, <2>2
    <2>3. CASE j # i
      <3>1. j \in 1 .. r.pos - 1 /\ r.start <= j /\ j \in 1 .. Len(L)
        BY <1>1, <1>3, <1>7, <2>1, <2>3
      <3>2. QED
        BY <1>4, <3>1 DEF CursorInv
    <2>4. QED
      BY <2>2, <2>3
  <1>8. ASSUME ~ Skipped(a, t, text), t = L[i].time, text = L[i].text
        PROVE  Newest(L, r, L, p, i)
    <2>1. /\ ~ Skipped(r, L[r.pos].time, L[r.pos].text)
          /\ SeenAt(L, p.cursor, p.cursor_lines, r.pos)
      BY <1>2, <1>3, <1>8 DEF Skipped
    <2>2. Newest(L, r, L, p, r.pos)
      BY <1>3, <1>4, <2>1, NewestLine
    <2>3. QED
      BY <2>2
  <1>9. QED
    BY <1>5, <1>6, <1>7, <1>8 DEF CursorInv

(* HistoryCache::push, as the order is concerned.                          *)
LEMMA PushOrder ==
  ASSUME LinesInv, NEW s \in Servers, NEW e \in EntryType, PushLine(s, e),
         e.sequence = cache.entries[s].next_sequence + 1
  PROVE  /\ cache'.entries[s].next_sequence = e.sequence
         /\ cache'.entries[s].lines \in Seq(EntryType)
         /\ \A u \in Servers \ {s} :
              cache'.entries[u] \in {cache.entries[u], NoHistory}
         /\ Trimmed([lines |-> Append(cache.entries[s].lines, e),
                     next_sequence |-> e.sequence], cache'.entries[s])
         /\ \A v \in Viewers : Still(v)
  <1>1. /\ CacheInv(cache) /\ CacheInv(cache')
        /\ cache'.entries[s].next_sequence = e.sequence
        /\ \A u \in Servers \ {s} :
             cache'.entries[u] \in {cache.entries[u], NoHistory}
        /\ Trimmed([lines |-> Append(cache.entries[s].lines, e),
                     next_sequence |-> e.sequence], cache'.entries[s])
    BY PushKeeps DEF PushLine, LinesInv
  <1>2. PICK gone : /\ gone = {u \in Servers : /\ cache.entries[u] # NoHistory
                                 /\ cache'.entries[u] = NoHistory}
         /\ viewer' = [v \in Viewers |->
                    IF viewer[v].at # "off" /\ viewer[v].id \in gone
                    THEN [viewer[v] EXCEPT !.reset = TRUE] ELSE viewer[v]]
    BY DEF PushLine
  <1>3. \A u \in Servers : u \notin gone =>
          cache.entries[u].next_sequence <= cache'.entries[u].next_sequence
    <2>1. ASSUME NEW u \in Servers, u \notin gone
          PROVE  cache.entries[u].next_sequence
                   <= cache'.entries[u].next_sequence
      <3>1. cache.entries[u].next_sequence \in Nat
        BY <1>1, CacheNumbers
      <3>2. CASE u = s
        BY <1>1, <3>1, <3>2
      <3>3. CASE u # s
        <4>1. cache'.entries[u] = cache.entries[u]
          BY <1>1, <1>2, <2>1, <3>3
        <4>2. QED
          BY <3>1, <4>1
      <3>4. QED
        BY <3>2, <3>3
    <2>2. QED
      BY <2>1
  <1>4. ASSUME NEW v \in Viewers PROVE Still(v)
    <2> DEFINE w == viewer[v]
    <2>1. ViewerType(w)
      BY DEF LinesInv, ViewersInv
    <2>2. viewer'[v] = IF w.at # "off" /\ w.id \in gone
                       THEN [w EXCEPT !.reset = TRUE] ELSE w
      BY <1>2
    <2>3. /\ viewer'[v].at = w.at /\ viewer'[v].id = w.id
          /\ viewer'[v].through = w.through /\ viewer'[v].queue = w.queue
          /\ viewer'[v].last = w.last
          /\ ~ viewer'[v].reset => ~ w.reset /\ (w.at # "off" => w.id \notin gone)
      BY <2>1, <2>2 DEF ViewerType
    <2>4. w.at # "off" => w.id \in Servers
      BY <2>1 DEF ViewerType
    <2>5. QED
      BY <1>3, <2>3, <2>4 DEF Still
  <1>5. cache'.entries[s].lines \in Seq(EntryType)
    BY <1>1 DEF CacheInv, HistoryInv
  <1>6. QED
    BY <1>1, <1>4, <1>5

(* process_docker_line pushes a line, and its reader has it in hand.       *)
LEMMA PushedOrder ==
  ASSUME LossInv, LinesInv', OrderInv, NEW s \in Servers, log' = log,
         rewound' = rewound, publisher' = publisher, NEW p,
         reader' = [reader EXCEPT ![s] = p], NEW e \in EntryType, p.entry = e,
         e.sequence = cache.entries[s].next_sequence + 1, PushLine(s, e),
         Continues(log[s], reader[s], log[s], p), CursorInv(log[s], p),
         e.of # 0 => Newest(log[s], reader[s], log[s], p, e.of)
  PROVE  OrderInv'
  <1> DEFINE L == log[s]
             r == reader[s]
             old == cache.entries[s].lines
  <1>1. LinesInv /\ StreamInv /\ old \in Seq(EntryType)
    BY OrderTypes DEF LossInv
  <1>2. /\ cache'.entries[s].next_sequence = e.sequence
        /\ cache'.entries[s].lines \in Seq(EntryType)
        /\ \A u \in Servers \ {s} :
             cache'.entries[u] \in {cache.entries[u], NoHistory}
        /\ Trimmed([lines |-> Append(old, e),
                    next_sequence |-> e.sequence], cache'.entries[s])
        /\ \A v \in Viewers : Still(v)
    BY <1>1, PushOrder
  <1>3. /\ \A u \in Servers \ {s} : log'[u] = log[u] /\ reader'[u] = reader[u]
        /\ p = reader'[s] /\ L = log'[s]
    BY <1>1 DEF StreamInv
  <1>4. s \notin rewound => Lined(L, p, cache'.entries[s].lines)
    <2>1. ASSUME s \notin rewound PROVE Lined(L, r, old)
      BY <2>1 DEF OrderInv, ServerOrder
    <2> HIDE DEF L, r, old
    <2>2. PICK g : g = cache'.entries[s]
      OBVIOUS
    <2>3. s \notin rewound => Lined(L, p, g.lines)
      BY <1>1, <1>2, <2>1, <2>2, LinedTrimmed DEF L, r
    <2>4. QED
      BY <2>2, <2>3
  <1>5. publisher'.entry.of = 0 /\ PublisherMoves
    BY DEF OrderInv, PublisherMoves
  <1>6. p.entry.sequence <= cache'.entries[s].next_sequence
    <2>1. e.sequence \in Nat
      BY DEF EntryType
    <2>2. QED
      BY <1>2, <2>1
  <1>7. \A u \in Servers \ {s} :
            /\ log'[u] = log[u] /\ reader'[u] = reader[u]
            /\ cache'.entries[u] \in {cache.entries[u], NoHistory}
    BY <1>2, <1>3
  <1>8. p.entry.of # 0 => Newest(L, r, L, p, p.entry.of)
    OBVIOUS
  <1>9. \A v \in Viewers : Still(v)
    BY <1>2
  <1> HIDE DEF L, r, old
  <1>10. Continues(L, r, L, p) /\ CursorInv(L, p) /\ L = log[s] /\ r = reader[s]
    BY DEF L, r
  <1>11. QED
    BY <1>1, <1>3, <1>4, <1>5, <1>6, <1>7, <1>8, <1>9, <1>10, ServerMoves

(* process_docker_line.                                                    *)
LEMMA ProcessOrder ==
  ASSUME LossInv, LinesInv', OrderInv, NEW s \in Servers,
         UNCHANGED <<log, publisher, rewound>>, reader[s].at = "reading",
         NEW i \in 1 .. Len(log[s]), reader[s].pos = i,
         NEW a, ReaderType(a), a.start = reader[s].start,
         a.cursor = reader[s].cursor, a.cursor_lines = reader[s].cursor_lines,
         a.cutoff = reader[s].cutoff, a.cutoff_lines = reader[s].cutoff_lines,
         a.entry = reader[s].entry, NEW next \in {"reading", "connect"},
         NEW t \in Nat \cup {None}, NEW text \in Texts \cup {Cut}, NEW of \in Nat,
         next = "reading" => a.pos = i + 1 /\ of = i,
         of # 0 => t = log[s][i].time /\ text = log[s][i].text /\ of = i,
         ProcessLine(s, t, text, of, a, next)
  PROVE  OrderInv'
  <1> DEFINE L == log[s]
             r == reader[s]
  <1>1. /\ StreamInv /\ LinesInv /\ CacheInv(cache) /\ LogInv(L)
        /\ ReaderType(r) /\ CursorInv(L, r) /\ r.entry = NoLine
        /\ i # 0
    BY OrderOf, ReaderFields DEF LossInv, StreamInv, LinesInv, HandInv
  <1>2. next = "reading" => /\ a.pos = i + 1
                            /\ t = L[i].time /\ text = L[i].text
    BY <1>1
  <1>3. ASSUME NEW q, (q = a /\ Skipped(a, t, text)) \/ q = Seen(a, t, text),
               NEW p, Leaves(q, next, p)
        PROVE  /\ Continues(L, r, L, p) /\ CursorInv(L, p)
               /\ (q = Seen(a, t, text) /\ ~ Skipped(a, t, text) /\ of # 0) =>
                    Newest(L, r, L, p, of)
    <2>1. /\ Continues(L, r, L, p) /\ CursorInv(L, p)
          /\ (/\ q = Seen(a, t, text) /\ ~ Skipped(a, t, text)
              /\ t = L[i].time /\ text = L[i].text) => Newest(L, r, L, p, i)
      BY <1>1, <1>2, <1>3, StepOrder
    <2>2. QED
      BY <2>1
  <1> HIDE DEF L, r
  <1>4. PICK q : q = Seen(a, t, text) /\ ReaderType(q) /\ q.entry = NoLine
    BY <1>1, SeenEntry DEF r
  <1>5. ASSUME NEW p, reader' = [reader EXCEPT ![s] = p], p.entry = NoLine,
               Continues(L, r, L, p), CursorInv(L, p),
               UNCHANGED <<cache, viewer>>
        PROVE  OrderInv'
    BY <1>1, <1>5, ReaderAlone DEF L, r
  <1>6. CASE /\ t # None /\ Skipped(a, t, text)
             /\ reader' = [reader EXCEPT ![s] = Goes(a, next)]
             /\ UNCHANGED <<cache, rate, viewer, done, owed>>
    <2>1. PICK p : p = Goes(a, next)
      OBVIOUS
    <2>2. p.entry = NoLine
      BY <1>1, <2>1, GoesEntry DEF r
    <2>3. Continues(L, r, L, p) /\ CursorInv(L, p)
      BY <1>3, <1>6, <2>1 DEF Leaves
    <2>4. QED
      BY <1>5, <1>6, <2>1, <2>2, <2>3
  <1>7. ASSUME NEW o, t # None => ~ Skipped(a, t, text),
               LET e == Entry(s, IF o.decision = "Allow" THEN of ELSE 0,
                              Prepared(o, text))
                   held == o.decision = "Suppress"
               IN /\ reader' = [reader EXCEPT ![s] =
                       IF held THEN Goes(q, next)
                       ELSE [Goes(q, next) EXCEPT !.at = "send",
                               !.then = next, !.entry = e]]
                  /\ IF held THEN UNCHANGED <<cache, viewer, owed>>
                             ELSE PushLine(s, e)
        PROVE  OrderInv'
    <2>1. CASE o.decision = "Suppress"
      <3>1. PICK p : p = Goes(q, next)
        OBVIOUS
      <3>2. p.entry = NoLine
        BY <1>4, <3>1, GoesEntry
      <3>3. /\ reader' = [reader EXCEPT ![s] = p]
            /\ UNCHANGED <<cache, viewer>>
        BY <1>7, <2>1, <3>1
      <3>4. Continues(L, r, L, p) /\ CursorInv(L, p)
        BY <1>3, <1>4, <3>1 DEF Leaves
      <3>5. QED
        BY <1>5, <3>2, <3>3, <3>4
    <2>2. CASE o.decision # "Suppress"
      <3>1. PICK e : e = Entry(s, IF o.decision = "Allow" THEN of ELSE 0,
                               Prepared(o, text))
        OBVIOUS
      <3>2. /\ e \in EntryType
            /\ e.sequence = cache.entries[s].next_sequence + 1
            /\ e.of \in {0, of}
        <4>1. Prepared(o, text) \in Texts \cup {Notice, Cut}
          BY DEF Prepared
        <4>2. (IF o.decision = "Allow" THEN of ELSE 0) \in Nat
          OBVIOUS
        <4>3. e.of \in {0, of}
          BY <3>1 DEF Entry
        <4>4. QED
          BY <1>1, <3>1, <4>1, <4>2, <4>3, EntryTyped
      <3>3. PICK p : /\ p = [Goes(q, next) EXCEPT !.at = "send",
                                         !.then = next, !.entry = e]
                     /\ reader' = [reader EXCEPT ![s] = p]
        BY <1>7, <2>2, <3>1
      <3>4. p.at = "send" /\ p.entry = e
        BY <1>4, <3>3, GoesEntry
      <3>5. PushLine(s, e)
        BY <1>7, <2>2, <3>1
      <3>6. Leaves(q, next, p)
        BY <3>3 DEF Leaves
      <3>7. /\ Continues(L, r, L, p) /\ CursorInv(L, p)
            /\ e.of # 0 => Newest(L, r, L, p, e.of)
        <4>1. of # 0 => ~ Skipped(a, t, text)
          BY <1>1, <1>7, LogTimes DEF L, None
        <4>2. QED
          BY <1>3, <1>4, <3>2, <3>6, <4>1
      <3>8. reader' = [reader EXCEPT ![s] = p]
        BY <3>3
      <3>9. QED
        BY <3>2, <3>4, <3>5, <3>7, <3>8, PushedOrder DEF L, r
    <2>3. QED
      BY <2>1, <2>2
  <1>8. QED
    BY <1>4, <1>6, <1>7, Zenon DEF ProcessLine

LEMMA ReadOrder ==
  ASSUME LossInv, LinesInv', OrderInv, NEW s \in Servers,
         ReadLine(s) \/ StreamEndsInLine(s)
  PROVE  OrderInv'
  <1> DEFINE i == reader[s].pos
             a == [reader[s] EXCEPT !.pos = @ + 1]
  <1>1. /\ LogInv(log[s]) /\ ReaderType(reader[s])
        /\ ReaderInv(log[s], done[s], reader[s])
    BY ReaderFields DEF LossInv, StreamInv
  <1>2. /\ reader[s].at = "reading" /\ i <= Len(log[s])
        /\ UNCHANGED <<log, publisher, rewound>>
    BY DEF ReadLine, StreamEndsInLine
  <1>3. i \in 1 .. Len(log[s]) /\ i \in Nat
    BY <1>1, <1>2, LogTimes DEF ReaderInv, Reads
  <1>4. log[s][i].time \in Nat /\ log[s][i].text \in Texts
    BY <1>1, <1>3, LogTimes DEF LineType
  <1>5. /\ ReaderType(a) /\ a.pos = i + 1 /\ a.start = reader[s].start
        /\ a.cursor = reader[s].cursor
        /\ a.cursor_lines = reader[s].cursor_lines
        /\ a.cutoff = reader[s].cutoff
        /\ a.cutoff_lines = reader[s].cutoff_lines
        /\ a.entry = reader[s].entry
    BY <1>1, <1>3 DEF ReaderType
  <1> HIDE DEF a
  <1>6. CASE ProcessLine(s, log[s][i].time, log[s][i].text, i, a, "reading")
    BY <1>2, <1>3, <1>4, <1>5, <1>6, ProcessOrder
  <1>7. CASE ProcessLine(s, None, Cut, 0, reader[s], "connect")
    BY <1>1, <1>2, <1>3, <1>7, ProcessOrder
  <1>8. CASE ProcessLine(s, log[s][i].time, Cut, 0, reader[s], "connect")
    BY <1>1, <1>2, <1>3, <1>4, <1>8, ProcessOrder
  <1>9. CASE ProcessLine(s, log[s][i].time, log[s][i].text, i, reader[s],
                         "connect")
    BY <1>1, <1>2, <1>3, <1>4, <1>9, ProcessOrder
  <1>10. QED
    BY <1>6, <1>7, <1>8, <1>9, Zenon DEF ReadLine, StreamEndsInLine, a

(* The agent publishes a line of its own.                                  *)
LEMMA PublishOrder ==
  ASSUME LossInv, LinesInv', OrderInv, NEW s \in Servers, Publish(s)
  PROVE  OrderInv'
  <1> DEFINE L == log[s]
             r == reader[s]
  <1>1. /\ StreamInv /\ LinesInv /\ CacheInv(cache) /\ CursorInv(L, r)
        /\ cache.entries[s].lines \in Seq(EntryType)
    BY OrderOf, OrderTypes DEF LossInv, LinesInv
  <1>2. UNCHANGED <<log, reader, rewound>> /\ Continues(L, r, L, r)
    BY ContinuesSame DEF Publish
  <1>3. CASE UNCHANGED <<cache, viewer, owed, publisher>>
    BY <1>1, <1>2, <1>3, QuietMoves
  <1>4. CASE \E o \in prepare_line(s) :
               LET e == Entry(s, 0, Prepared(o, Notice)) IN
               PushLine(s, e) /\ publisher' = [at |-> "send", id |-> s, entry |-> e]
    <2>1. PICK o, e :
            /\ o \in prepare_line(s)
            /\ e = Entry(s, 0, Prepared(o, Notice)) /\ PushLine(s, e)
            /\ publisher' = [at |-> "send", id |-> s, entry |-> e]
      BY <1>4
    <2>2. /\ e \in EntryType /\ e.of = 0 /\ e.sequence \in Nat
          /\ e.sequence = cache.entries[s].next_sequence + 1
      <3>1. Prepared(o, Notice) \in Texts \cup {Notice, Cut}
        BY DEF Prepared
      <3>2. /\ e \in EntryType
            /\ e.sequence = cache.entries[s].next_sequence + 1
        BY <1>1, <2>1, <3>1, EntryTyped
      <3>3. e.of = 0
        BY <2>1 DEF Entry
      <3>4. QED
        BY <3>2, <3>3 DEF EntryType
    <2>3. /\ cache'.entries[s].next_sequence = e.sequence
          /\ cache'.entries[s].lines \in Seq(EntryType)
          /\ \A u \in Servers \ {s} :
               cache'.entries[u] \in {cache.entries[u], NoHistory}
          /\ Trimmed([lines |-> Append(cache.entries[s].lines, e),
                      next_sequence |-> e.sequence], cache'.entries[s])
          /\ \A v \in Viewers : Still(v)
      BY <1>1, <2>1, <2>2, PushOrder
    <2>4. s \notin rewound => Lined(L, r, cache'.entries[s].lines)
      <3>1. s \notin rewound => Lined(L, r, cache.entries[s].lines)
        BY DEF OrderInv, ServerOrder
      <3> HIDE DEF L, r
      <3>2. PICK g : g = cache'.entries[s]
        OBVIOUS
      <3>3. s \notin rewound => Lined(L, r, g.lines)
        BY <1>1, <1>2, <2>2, <2>3, <3>1, <3>2, LinedTrimmed
      <3>4. QED
        BY <3>2, <3>3
    <2>5. publisher'.entry.of = 0 /\ PublisherMoves
      <3>1. publisher'.id = s /\ publisher'.entry = e
        BY <2>1
      <3>2. e.sequence <= e.sequence
        BY <2>2
      <3>3. QED
        BY <2>2, <2>3, <3>1, <3>2 DEF PublisherMoves
    <2>6. \A u \in Servers \ {s} :
            /\ log'[u] = log[u] /\ reader'[u] = reader[u]
            /\ cache'.entries[u] \in {cache.entries[u], NoHistory}
      BY <1>2, <2>3
    <2>7. \A v \in Viewers : Still(v)
      BY <2>3
    <2>8. /\ Continues(L, r, L, r) /\ CursorInv(L, r) /\ L = log'[s]
          /\ r = reader'[s]
      BY <1>1, <1>2
    <2>9. QED
      BY <1>1, <1>2, <2>4, <2>5, <2>6, <2>7, <2>8, ServerMoves
  <1>5. QED
    BY <1>3, <1>4, Zenon DEF Publish

(* broadcast::Sender::send takes the line of the reader into a queue.      *)
LEMMA SentQueue ==
  ASSUME NEW L, NEW r, NEW p, NEW w, NEW z, NEW n \in Nat,
         w.queue \in Seq(EntryType), r.entry \in EntryType, p.entry = NoLine,
         Continued(L, r, w, n), Continues(L, r, L, p), NEW q,
         q = Append(w.queue, r.entry), z.queue = q \/ z.queue = Tail(q),
         z.at = w.at, z.last = w.last, z.through = w.through,
         z.reset = w.reset
  PROVE  Continued(L, p, z, n)
  <1>1. PICK y : y = [at |-> w.at, last |-> w.last, through |-> w.through,
                      reset |-> w.reset, queue |-> q]
    OBVIOUS
  <1>2. /\ y.at = w.at /\ y.last = w.last /\ y.through = w.through
        /\ y.reset = w.reset /\ y.queue = q
    BY <1>1
  <1>3. /\ q \in Seq(EntryType) /\ q # <<>>
    <2>1. q \in Seq(EntryType) /\ Len(q) = Len(w.queue) + 1
          /\ Len(w.queue) \in Nat
      OBVIOUS
    <2>2. Len(<<>>) = 0
      OBVIOUS
    <2>3. QED
      BY <2>1, <2>2
  <1>4. Continued(L, p, y, n)
    BY <1>2, ContinuedSent
  <1>5. CASE z.queue = q
    <2>1. Line(z, p) = Line(y, p)
      BY <1>2, <1>5 DEF Line
    <2>2. QED
      BY <1>2, <1>4, <2>1 DEF Continued
  <1>6. CASE z.queue = Tail(q)
    BY <1>2, <1>3, <1>4, <1>6, NoLineType, ContinuedTail
  <1>7. QED
    BY <1>5, <1>6

(* It takes the line of the publisher into a queue.                        *)
LEMMA AsideQueue ==
  ASSUME NEW L, NEW r, NEW w, NEW z, NEW n \in Nat,
         w.queue \in Seq(EntryType), r.entry \in EntryType,
         NEW e \in EntryType, e.of = 0, w.reset \/ e.sequence <= n,
         Continued(L, r, w, n), NEW q,
         q = Append(w.queue, e), z.queue = q \/ z.queue = Tail(q),
         z.at = w.at, z.last = w.last, z.through = w.through,
         z.reset = w.reset
  PROVE  Continued(L, r, z, n)
  <1>1. PICK y : y = [at |-> w.at, last |-> w.last, through |-> w.through,
                      reset |-> w.reset, queue |-> q]
    OBVIOUS
  <1>2. /\ y.at = w.at /\ y.last = w.last /\ y.through = w.through
        /\ y.reset = w.reset /\ y.queue = q
    BY <1>1
  <1>3. /\ q \in Seq(EntryType) /\ q # <<>>
    <2>1. q \in Seq(EntryType) /\ Len(q) = Len(w.queue) + 1
          /\ Len(w.queue) \in Nat
      OBVIOUS
    <2>2. Len(<<>>) = 0
      OBVIOUS
    <2>3. QED
      BY <2>1, <2>2
  <1>4. Continued(L, r, y, n)
    BY <1>2, ContinuedAside
  <1>5. CASE z.queue = q
    <2>1. Line(z, r) = Line(y, r)
      BY <1>2, <1>5 DEF Line
    <2>2. QED
      BY <1>2, <1>4, <2>1 DEF Continued
  <1>6. CASE z.queue = Tail(q)
    BY <1>2, <1>3, <1>4, <1>6, ContinuedTail
  <1>7. QED
    BY <1>5, <1>6

(* The reader sends the line it pushed.                                    *)
LEMMA ReaderSendOrder ==
  ASSUME LossInv, LinesInv', OrderInv, NEW s \in Servers, ReaderSends(s)
  PROVE  OrderInv'
  <1> DEFINE L == log[s]
             r == reader[s]
  <1>1. /\ StreamInv /\ LinesInv /\ LogInv(L) /\ ReaderType(r)
        /\ CursorInv(L, r) /\ r.entry \in EntryType
    BY OrderOf, OrderTypes, ReaderFields DEF LossInv, StreamInv
  <1>2. /\ Broadcast(s, r.entry) /\ r.at = "send"
        /\ UNCHANGED <<log, cache, publisher, rewound>>
    BY DEF ReaderSends
  <1>3. PICK p : /\ p = [r EXCEPT !.at = r.then, !.then = "reading",
                                  !.entry = NoLine]
                 /\ reader' = [reader EXCEPT ![s] = p]
    BY <1>1 DEF ReaderSends, StreamInv
  <1>4. /\ p.at = r.then /\ p.then = "reading" /\ p.start = r.start
        /\ p.pos = r.pos /\ p.cursor = r.cursor
        /\ p.cursor_lines = r.cursor_lines /\ p.cutoff = r.cutoff
        /\ p.cutoff_lines = r.cutoff_lines /\ p.entry = NoLine
    BY <1>1, <1>3 DEF ReaderType
  <1>5. ReaderType(p)
    BY <1>1, <1>3, <1>4 DEF ReaderType
  <1>6. Reads(p) => Reads(r) /\ r.pos <= p.pos
    BY <1>1, <1>2, <1>4 DEF Reads, ReaderType
  <1>7. Continues(L, r, L, p)
    <2>1. r.at # "retire"
      BY <1>2
    <2>2. QED
      BY <1>1, <1>4, <1>5, <1>6, <2>1, ReaderContinues
  <1>8. CursorInv(L, p)
    BY <1>1, <1>4 DEF CursorInv, CutoffInv
  <1>9. /\ p = reader'[s]
        /\ \A u \in Servers \ {s} : reader'[u] = reader[u]
    BY <1>1, <1>3 DEF StreamInv
  <1>10. ASSUME NEW u \in Servers PROVE ServerOrder(u)'
    <2>1. CASE u = s
      <3>1. p.entry.of = 0
        BY <1>4, NoLineType
      <3>2. s \notin rewound => Lined(L, p, cache.entries[s].lines)
        BY <1>7, LinedContinues DEF OrderInv, ServerOrder
      <3>3. QED
        BY <1>2, <1>8, <1>9, <2>1, <3>1, <3>2 DEF ServerOrder
    <2>2. CASE u # s
      BY <1>2, <1>9, <2>2, OtherServer DEF OrderInv
    <2>3. QED
      BY <2>1, <2>2
  <1>11. ASSUME NEW v \in Viewers PROVE ViewerOrder(v)'
    <2> DEFINE w == viewer[v]
               q == Append(w.queue, r.entry)
    <2>1. ViewerType(w) /\ ViewerOrder(v) /\ w.queue \in Seq(EntryType)
      BY <1>1, OrderTypes DEF LinesInv, ViewersInv, OrderInv
    <2>2. viewer' = [u \in Viewers |-> viewer'[u]]
      BY <1>2 DEF Broadcast
    <2>3. PICK z : z = viewer'[v]
      OBVIOUS
    <2>4. /\ z.at = w.at /\ z.id = w.id /\ z.last = w.last
          /\ z.through = w.through /\ z.reset = w.reset
          /\ IF w.at # "off" /\ w.id = s
             THEN z.queue = q \/ z.queue = Tail(q) ELSE z = w
      BY <1>1, <1>2, <2>1, <2>2, <2>3, SentOne
    <2> HIDE DEF q
    <2>5. ASSUME NEW u \in Servers, u = z.id, z.at # "off", u \notin rewound
          PROVE  Continued(log[u], reader'[u], z,
                           cache.entries[u].next_sequence)
      <3>1. /\ Continued(log[u], reader[u], w, cache.entries[u].next_sequence)
            /\ cache.entries[u].next_sequence \in Nat
        BY <1>1, <2>1, <2>4, <2>5, OrderTypes DEF ViewerOrder
      <3>2. CASE u = s
        <4>1. z.queue = q \/ z.queue = Tail(q)
          BY <2>4, <2>5, <3>2
        <4>2. PICK n \in Nat : n = cache.entries[u].next_sequence
          BY <3>1
        <4>3. Continued(L, p, z, n)
          BY <1>1, <1>4, <1>7, <2>1, <2>4, <3>1, <3>2, <4>1, <4>2, SentQueue
             DEF q
        <4>4. QED
          BY <1>9, <3>2, <4>2, <4>3
      <3>3. CASE u # s
        BY <1>9, <2>4, <2>5, <3>1, <3>3
      <3>4. QED
        BY <3>2, <3>3
    <2>6. QED
      BY <1>2, <2>1, <2>3, <2>4, <2>5 DEF ViewerOrder
  <1>12. QED
    BY <1>2, <1>10, <1>11 DEF OrderInv

(* So does the publisher.                                                  *)
LEMMA PublisherSendOrder ==
  ASSUME LossInv, LinesInv', OrderInv, PublisherSends
  PROVE  OrderInv'
  <1>1. StreamInv /\ LinesInv /\ HandInv
    BY DEF LossInv, LinesInv
  <1>2. /\ publisher.at = "send" /\ Broadcast(publisher.id, publisher.entry)
        /\ publisher' = NotPublishing
        /\ UNCHANGED <<log, reader, cache, rewound>>
    BY DEF PublisherSends
  <1>3. PICK s \in Servers, e \in EntryType :
          s = publisher.id /\ e = publisher.entry
    BY <1>1, <1>2 DEF HandInv
  <1>4. publisher'.entry = NoLine /\ e.of = 0
    BY <1>2, <1>3 DEF NotPublishing, OrderInv
  <1>5. ASSUME NEW u \in Servers PROVE ServerOrder(u)'
    BY <1>2, OtherServer DEF OrderInv
  <1>6. ASSUME NEW v \in Viewers PROVE ViewerOrder(v)'
    <2> DEFINE w == viewer[v]
               q == Append(w.queue, e)
    <2>1. ViewerType(w) /\ ViewerOrder(v) /\ w.queue \in Seq(EntryType)
      BY <1>1, OrderTypes DEF LinesInv, ViewersInv, OrderInv
    <2>2. viewer' = [u \in Viewers |-> viewer'[u]]
      BY <1>2 DEF Broadcast
    <2>3. PICK z : z = viewer'[v]
      OBVIOUS
    <2>4. /\ z.at = w.at /\ z.id = w.id /\ z.last = w.last
          /\ z.through = w.through /\ z.reset = w.reset
          /\ IF w.at # "off" /\ w.id = s
             THEN z.queue = q \/ z.queue = Tail(q) ELSE z = w
      BY <1>2, <1>3, <2>1, <2>2, <2>3, SentOne
    <2> HIDE DEF q
    <2>5. ASSUME NEW u \in Servers, u = z.id, z.at # "off"
          PROVE  u \notin rewound =>
                   Continued(log[u], reader[u], z,
                             cache.entries[u].next_sequence)
      <3>1. /\ u \notin rewound =>
                 Continued(log[u], reader[u], w, cache.entries[u].next_sequence)
            /\ cache.entries[u].next_sequence \in Nat
            /\ reader[u].entry \in EntryType
        BY <1>1, <2>1, <2>4, <2>5, OrderTypes DEF ViewerOrder
      <3>2. CASE u = s
        <4>1. z.queue = q \/ z.queue = Tail(q)
          BY <2>4, <2>5, <3>2
        <4>2. w.reset \/ e.sequence <= cache.entries[u].next_sequence
          BY <1>3, <2>1, <2>4, <2>5, <3>2 DEF ViewerOrder
        <4>3. QED
          BY <1>4, <2>1, <2>4, <3>1, <4>1, <4>2, AsideQueue DEF q
      <3>3. CASE u # s
        BY <2>4, <2>5, <3>1, <3>3
      <3>4. QED
        BY <3>2, <3>3
    <2>6. \A u \in Servers : publisher'.entry.sequence
                               <= cache.entries[u].next_sequence
      BY <1>1, <1>4, NoLineType, OrderTypes
    <2>7. QED
      BY <1>2, <2>3, <2>5, <2>6 DEF ViewerOrder
  <1>7. publisher'.entry.of = 0
    BY <1>4, NoLineType
  <1>8. QED
    BY <1>5, <1>6, <1>7 DEF OrderInv

(* One viewer moves, and the readers go on where they were.                *)
LEMMA OneViewerOrder ==
  ASSUME LinesInv, LinesInv', OrderInv, NEW v \in Viewers, NEW w,
         UNCHANGED <<log, publisher, rewound>>,
         cache'.entries = cache.entries, viewer' = [viewer EXCEPT ![v] = w],
         \A u \in Servers : /\ Continues(log[u], reader[u], log[u], reader'[u])
                            /\ CursorInv(log[u], reader'[u])
                            /\ reader'[u].entry = reader[u].entry,
         ViewerOrder(v)'
  PROVE  OrderInv'
  <1>1. ASSUME NEW u \in Servers PROVE ServerOrder(u)'
    <2>1. u \notin rewound =>
            Lined(log[u], reader'[u], cache.entries[u].lines)
      BY LinedContinues DEF OrderInv, ServerOrder
    <2>2. reader[u].entry.of # 0 /\ u \notin rewound =>
            Published(log[u], reader'[u], reader[u].entry.of)
      BY PublishedIn DEF OrderInv, ServerOrder, Continues
    <2>3. QED
      BY <2>1, <2>2 DEF ServerOrder
  <1>2. ASSUME NEW z \in Viewers, z # v PROVE ViewerOrder(z)'
    <2>1. viewer'[z] = viewer[z] /\ ViewerOrder(z)
      BY <1>2 DEF LinesInv, ViewersInv, OrderInv
    <2>2. ASSUME NEW u \in Servers, u = viewer[z].id, viewer[z].at # "off",
                 u \notin rewound
          PROVE  Continued(log[u], reader'[u], viewer[z],
                           cache.entries[u].next_sequence)
      <3>1. PICK n \in Nat : n = cache.entries[u].next_sequence
        BY OrderTypes
      <3>2. /\ Continued(log[u], reader[u], viewer[z], n)
            /\ viewer[z].queue \in Seq(EntryType)
            /\ reader[u].entry \in EntryType /\ reader'[u].entry \in EntryType
        BY <2>1, <2>2, <3>1, OrderTypes DEF ViewerOrder
      <3>3. n <= n
        OBVIOUS
      <3>4. Continued(log[u], reader'[u], viewer[z], n)
        BY <3>2, <3>3, ContinuedKept
      <3>5. QED
        BY <3>1, <3>4
    <2>3. QED
      BY <2>1, <2>2 DEF ViewerOrder
  <1>3. QED
    BY <1>1, <1>2 DEF OrderInv

LEMMA ReadersStay ==
  ASSUME OrderInv, reader' = reader
  PROVE  \A u \in Servers : /\ Continues(log[u], reader[u], log[u], reader'[u])
                            /\ CursorInv(log[u], reader'[u])
                            /\ reader'[u].entry = reader[u].entry
  BY OrderOf, ContinuesSame

(* A new stream finds its queue empty, and what the reader has in hand in  *)
(* the history.                                                            *)
LEMMA SubscribeOrder ==
  ASSUME LossInv, LinesInv', OrderInv, NEW s \in Servers, NEW v \in Viewers,
         Subscribe(v, s)
  PROVE  OrderInv'
  <1> DEFINE L == log[s]
             r == reader[s]
             n == cache.entries[s].next_sequence
  <1>1. /\ StreamInv /\ LinesInv /\ LogInv(L) /\ ReaderType(r)
        /\ CursorInv(L, r) /\ ServerOrder(s)
        /\ r.entry \in EntryType /\ n \in Nat
    BY OrderOf, OrderTypes, ReaderFields DEF LossInv, StreamInv, OrderInv
  <1>2. /\ UNCHANGED <<log, publisher, rewound, cache>>
        /\ publisher.entry = NoLine
    BY <1>1 DEF Subscribe, LinesInv, HandInv
  <1>3. PICK p : /\ p = [r EXCEPT !.at = IF @ = "none" THEN "connect" ELSE @]
                 /\ reader' = [reader EXCEPT ![s] = p]
    BY <1>1 DEF Subscribe, StreamInv
  <1>4. /\ p.at = IF r.at = "none" THEN "connect" ELSE r.at
        /\ p.then = r.then /\ p.start = r.start
        /\ p.pos = r.pos /\ p.cursor = r.cursor
        /\ p.cursor_lines = r.cursor_lines /\ p.cutoff = r.cutoff
        /\ p.cutoff_lines = r.cutoff_lines /\ p.entry = r.entry
    BY <1>1, <1>3 DEF ReaderType
  <1>5. ReaderType(p)
    BY <1>1, <1>3, <1>4 DEF ReaderType
  <1>6. Continues(L, r, L, p)
    <2>1. CASE r.at = "retire"
      BY <1>4, <2>1 DEF Continues, Published, After
    <2>2. CASE r.at # "retire"
      <3>1. Reads(p) => Reads(r) /\ r.pos <= p.pos
        BY <1>1, <1>4 DEF Reads, ReaderType
      <3>2. QED
        BY <1>1, <1>4, <1>5, <2>2, <3>1, ReaderContinues
    <2>3. QED
      BY <2>1, <2>2
  <1>7. CursorInv(L, p)
    BY <1>1, <1>4 DEF CursorInv, CutoffInv
  <1>8. ASSUME NEW u \in Servers
        PROVE  /\ Continues(log[u], reader[u], log[u], reader'[u])
               /\ CursorInv(log[u], reader'[u])
               /\ reader'[u].entry = reader[u].entry
    <2>1. CASE u = s
      BY <1>1, <1>3, <1>4, <1>6, <1>7, <2>1 DEF StreamInv
    <2>2. CASE u # s
      <3>1. reader'[u] = reader[u]
        BY <1>1, <1>3, <2>2 DEF StreamInv
      <3>2. QED
        BY <3>1, OrderOf, ContinuesSame
    <2>3. QED
      BY <2>1, <2>2
  <1>9. PICK w : /\ w = [NoViewer EXCEPT !.at = "installed", !.id = s,
                                         !.reset = r.entry.sequence > n]
                 /\ viewer' = [viewer EXCEPT ![v] = w]
    BY DEF Subscribe
  <1>10. /\ w.at = "installed" /\ w.id = s /\ w.queue = <<>> /\ w.last = 0
         /\ w.reset = (r.entry.sequence > n)
    BY <1>9 DEF NoViewer
  <1>11. viewer'[v] = w /\ reader'[s] = p
    BY <1>1, <1>3, <1>9, ViewerFields DEF StreamInv
  <1>12. s \notin rewound => Continued(L, p, w, n)
    <2>1. PICK q : q = Line(w, p)
      OBVIOUS
    <2>2. Len(q) = 1 /\ q[1] = r.entry
      BY <1>4, <1>10, <2>1 DEF Line
    <2>3. r.entry.sequence \in Nat /\ (~ w.reset => r.entry.sequence <= n)
      <3>1. r.entry.sequence \in Nat
        BY <1>1 DEF EntryType
      <3>2. ~ w.reset => ~ (r.entry.sequence > n)
        BY <1>10
      <3>3. PICK i, j \in Nat : i = r.entry.sequence /\ j = n
        BY <1>1, <3>1
      <3>4. ~ w.reset => i <= j
        BY <3>2, <3>3
      <3>5. QED
        BY <3>1, <3>3, <3>4
    <2>4. s \notin rewound => Lined(L, p, q)
      <3>1. ASSUME s \notin rewound, r.entry.of # 0
            PROVE  Published(L, p, r.entry.of)
        BY <1>1, <1>6, <3>1, PublishedIn DEF ServerOrder, Continues
      <3>2. \A i \in 1 .. Len(q) : i = 1
        BY <2>2
      <3>3. QED
        BY <2>2, <3>1, <3>2 DEF Lined
    <2>5. \A i \in 1 .. Len(q) : q[i] = r.entry
      BY <2>2
    <2>6. QED
      BY <1>10, <2>1, <2>3, <2>4, <2>5 DEF Continued
  <1>13. ViewerOrder(v)'
    <2>1. publisher.entry.sequence <= n
      BY <1>1, <1>2, NoLineType
    <2>2. QED
      BY <1>2, <1>10, <1>11, <1>12, <2>1 DEF ViewerOrder
  <1>14. QED
    BY <1>1, <1>2, <1>8, <1>9, <1>13, OneViewerOrder

LEMMA LeaveOrder ==
  ASSUME LossInv, LinesInv', OrderInv, NEW v \in Viewers, Leave(v)
  PROVE  OrderInv'
  <1>1. LinesInv /\ UNCHANGED <<log, reader, publisher, rewound, cache>>
        /\ viewer' = [viewer EXCEPT ![v] = NoViewer]
    BY DEF LossInv, Leave
  <1>2. viewer'[v].at = "off"
    <2>1. viewer'[v] = NoViewer
      BY <1>1, ViewerFields
    <2>2. NoViewer.at = "off"
      BY DEF NoViewer
    <2>3. QED
      BY <2>1, <2>2
  <1>3. ViewerOrder(v)'
    BY <1>2 DEF ViewerOrder
  <1>4. QED
    BY <1>1, <1>3, ReadersStay, OneViewerOrder

(* A reader without a receiver takes its history along; another one loses  *)
(* its place.                                                              *)
LEMMA RetireOrder ==
  ASSUME LossInv, LinesInv', OrderInv, NEW s \in Servers, RetireIdleReader(s)
  PROVE  OrderInv'
  <1>1. StreamInv /\ LinesInv /\ CacheInv(cache)
    BY DEF LossInv, LinesInv
  <1>2. /\ UNCHANGED <<log, publisher, viewer>> /\ publisher.entry = NoLine
    BY <1>1 DEF RetireIdleReader, LinesInv, HandInv
  <1>3. PICK p \in {NoReader, [NoReader EXCEPT !.at = "connect"]} :
          reader' = [reader EXCEPT ![s] = p]
    BY DEF RetireIdleReader
  <1>4. /\ p.pos = 0 /\ p.cutoff = None /\ p.entry = NoLine
    BY <1>3 DEF NoReader
  <1>5. /\ reader'[s] = p
        /\ \A u \in Servers \ {s} : reader'[u] = reader[u]
    BY <1>1, <1>3 DEF StreamInv
  <1>6. \/ s \in rewound' /\ cache'.entries = cache.entries
        \/ Receivers(s) = {} /\ cache'.entries[s] = NoHistory
    <2>1. CASE rewound' = rewound \cup {s} /\ cache' = cache
      BY <2>1
    <2>2. CASE Receivers(s) = {} /\ cache' = RemoveHistory(cache, {s})
      BY <1>1, <2>2, RemoveKeeps
    <2>3. QED
      BY <2>1, <2>2 DEF RetireIdleReader
  <1>7. \A u \in Servers \ {s} : /\ u \in rewound <=> u \in rewound'
                                 /\ cache'.entries[u] = cache.entries[u]
    <2>1. CASE rewound' = rewound \cup {s} /\ cache' = cache
      BY <2>1
    <2>2. CASE rewound' = rewound \ {s} /\ cache' = RemoveHistory(cache, {s})
      BY <1>1, <2>2, RemoveKeeps
    <2>3. QED
      BY <2>1, <2>2 DEF RetireIdleReader
  <1>8. ASSUME NEW u \in Servers PROVE ServerOrder(u)'
    <2>1. CASE u = s
      <3>1. CursorInv(log[s], p)
        BY <1>4 DEF CursorInv, CutoffInv
      <3>2. s \notin rewound' => Lined(log[s], p, cache'.entries[s].lines)
        BY <1>6, LinedNone
      <3>3. p.entry.of = 0
        BY <1>4, NoLineType
      <3>4. QED
        BY <1>2, <1>5, <2>1, <3>1, <3>2, <3>3 DEF ServerOrder
    <2>2. CASE u # s
      BY <1>2, <1>5, <1>7, <2>2, OtherServer DEF OrderInv
    <2>3. QED
      BY <2>1, <2>2
  <1>9. ASSUME NEW v \in Viewers PROVE ViewerOrder(v)'
    <2>1. ASSUME NEW u \in Servers, u = viewer[v].id, viewer[v].at # "off",
                 u \notin rewound'
          PROVE  Continued(log[u], reader'[u], viewer[v],
                           cache'.entries[u].next_sequence)
      <3>1. CASE u = s
        <4>1. v \in Receivers(s)
          BY <2>1, <3>1 DEF Receivers
        <4>2. QED
          BY <1>6, <2>1, <3>1, <4>1
      <3>2. CASE u # s
        BY <1>5, <1>7, <2>1, <3>2 DEF OrderInv, ViewerOrder
      <3>3. QED
        BY <3>1, <3>2
    <2>2. \A u \in Servers :
            publisher.entry.sequence <= cache'.entries[u].next_sequence
      <3>1. \A u \in Servers : cache'.entries[u].next_sequence \in Nat
        BY CacheNumbers DEF LinesInv
      <3>2. QED
        BY <1>2, <3>1, NoLineType
    <2>3. QED
      BY <1>2, <2>1, <2>2 DEF ViewerOrder
  <1>10. QED
    BY <1>2, <1>8, <1>9 DEF OrderInv

LEMMA GreatestOf ==
  ASSUME NEW n \in Nat, NEW S \in SUBSET (0 .. n), S # {}
  PROVE  Max(S) \in S /\ \A k \in S : k <= Max(S)
  <1> DEFINE T == {n - k : k \in S}
  <1>1. T \in SUBSET Nat /\ T # {}
    <2>1. \A k \in S : n - k \in Nat
      <3>1. \A k \in S : k \in 0 .. n
        OBVIOUS
      <3>2. \A k \in 0 .. n : n - k \in Nat
        OBVIOUS
      <3>3. QED
        BY <3>1, <3>2
    <2>2. PICK k \in S : TRUE
      OBVIOUS
    <2>3. n - k \in T
      OBVIOUS
    <2>4. QED
      BY <2>1, <2>3
  <1>2. PICK t \in T : \A k \in T : t <= k
    BY <1>1, LeastOf
  <1>3. PICK m \in S : t = n - m
    BY <1>2
  <1>4. \A k \in S : m >= k
    <2>1. ASSUME NEW k \in S PROVE m >= k
      <3>1. n - k \in T
        OBVIOUS
      <3>2. n - m <= n - k /\ m \in 0 .. n /\ k \in 0 .. n
        BY <1>2, <1>3, <3>1
      <3>3. QED
        BY <3>2
    <2>2. QED
      BY <2>1
  <1> HIDE DEF T
  <1>5. \E x \in S : \A y \in S : x >= y
    BY <1>4
  <1>6. Max(S) \in S /\ \A y \in S : Max(S) >= y
    BY <1>5, Zenon DEF Max
  <1>7. PICK g : g = Max(S)
    OBVIOUS
  <1>8. \A k \in S : k \in Int
    OBVIOUS
  <1>9. g \in Int /\ \A k \in S : g >= k
    BY <1>6, <1>7, <1>8
  <1>10. QED
    BY <1>6, <1>7, <1>8, <1>9

(* The snapshot shows the whole history, and nothing of what is queued.    *)
LEMMA SnapshotOrder ==
  ASSUME LossInv, LinesInv', OrderInv, NEW v \in Viewers, Snapshot(v)
  PROVE  OrderInv'
  <1> DEFINE s == viewer[v].id
             h == cache.entries[s]
             n == ReplayedThrough(h)
             S == {e.of : e \in ToSet(h.lines)} \cup {0}
             L == log[s]
             r == reader[s]
  <1>1. /\ LinesInv /\ CacheInv(cache) /\ ViewerType(viewer[v])
        /\ StreamInv /\ viewer[v].at = "installed" /\ ViewerOrder(v)
    BY ViewerFields DEF LossInv, LinesInv, Snapshot, OrderInv
  <1>2. s \in Servers /\ HistoryInv(h) /\ LogInv(L) /\ ServerOrder(s)
    BY <1>1 DEF ViewerType, CacheInv, StreamInv, OrderInv
  <1>3. PICK w : /\ w = [viewer[v] EXCEPT !.at = "live", !.through = n,
                                          !.last = Max(S)]
                 /\ viewer' = [viewer EXCEPT ![v] = w]
    <2>1. PICK m : m = Max(S)
      OBVIOUS
    <2>2. viewer' = [viewer EXCEPT ![v].at = "live", ![v].through = n,
                                   ![v].last = m]
      BY <2>1 DEF Snapshot
    <2> HIDE DEF n, S
    <2>3. viewer = [u \in Viewers |-> viewer[u]]
      BY <1>1 DEF LinesInv, ViewersInv
    <2>4. PICK w : w = [viewer[v] EXCEPT !.at = "live", !.through = n,
                                         !.last = m]
      OBVIOUS
    <2>5. viewer' = [viewer EXCEPT ![v] = w]
      BY <2>2, <2>3, <2>4
    <2>6. QED
      BY <2>1, <2>4, <2>5
  <1> HIDE DEF S, n, h
  <1>4. /\ w.at = "live" /\ w.id = s /\ w.through = n /\ w.last = Max(S)
        /\ w.reset = viewer[v].reset /\ w.queue = viewer[v].queue
    BY <1>1, <1>3 DEF ViewerType
  <1>5. UNCHANGED <<log, reader, publisher, rewound>>
        /\ cache'.entries = cache.entries
    <2>1. cache' = cache \/ cache' = [cache EXCEPT !.recent = Touch(@, s)]
      BY DEF Snapshot
    <2>2. ASSUME cache' = [cache EXCEPT !.recent = Touch(@, s)]
          PROVE  cache'.entries = cache.entries
      <3>1. PICK x : cache' = [cache EXCEPT !.recent = x]
        BY <2>2
      <3>2. PICK a, b, d : cache = [entries |-> a, charged_bytes |-> b,
                                    recent |-> d]
        BY <1>1 DEF CacheInv
      <3>3. QED
        BY <3>1, <3>2
    <2>3. UNCHANGED <<log, reader, publisher, rewound>>
      BY DEF Snapshot
    <2>4. QED
      BY <2>1, <2>2, <2>3
  <1>6. /\ h.next_sequence \in Nat /\ h.lines \in Seq(EntryType)
        /\ h.lines # <<>> => n = h.next_sequence
    <2>1. /\ h.next_sequence \in Nat /\ h.lines \in Seq(EntryType)
          /\ h.lines # <<>> => h.lines[Len(h.lines)].sequence = h.next_sequence
      BY <1>2 DEF HistoryInv
    <2>2. h.lines # <<>> => n = h.lines[Len(h.lines)].sequence
      BY DEF ReplayedThrough, Last, n
    <2>3. QED
      BY <2>1, <2>2
  <1>7. ASSUME s \notin rewound
        PROVE  /\ Max(S) # 0 => Published(L, r, Max(S))
               /\ h.lines = <<>> => Max(S) = 0
    <2>1. Lined(L, r, h.lines) /\ Len(L) \in Nat
      BY <1>2, <1>7, LogTimes DEF ServerOrder, h
    <2>2. ASSUME NEW k \in S
          PROVE  k = 0 \/ (Published(L, r, k) /\ h.lines # <<>>)
      <3>1. CASE k \in {e.of : e \in ToSet(h.lines)} /\ k # 0
        <4>1. PICK i \in 1 .. Len(h.lines) : k = h.lines[i].of
          BY <1>6, <3>1 DEF ToSet
        <4>2. Published(L, r, k)
          BY <2>1, <3>1, <4>1 DEF Lined
        <4>3. Len(h.lines) # 0
          BY <1>6, <4>1
        <4>4. QED
          BY <4>2, <4>3
      <3>2. QED
        BY <3>1 DEF S
    <2>3. ASSUME NEW k \in S PROVE k \in 0 .. Len(L)
      <3>1. k = 0 \/ k \in 1 .. Len(L)
        BY <2>2, PublishedIn
      <3>2. QED
        BY <2>1, <3>1
    <2>4. 0 \in S
      BY DEF S
    <2>5. Max(S) \in S
      BY <2>1, <2>3, <2>4, GreatestOf
    <2>6. QED
      BY <2>2, <2>5
  <1> HIDE DEF L, r
  <1>8. s \notin rewound => Continued(L, r, w, h.next_sequence)
    <2>1. ASSUME s \notin rewound
          PROVE  Continued(L, r, viewer[v], h.next_sequence)
      BY <1>1, <1>2, <2>1 DEF ViewerOrder, L, r, h
    <2>2. PICK q \in Seq(EntryType) : q = Line(w, r) /\ q = Line(viewer[v], r)
      <3>1. /\ viewer[v].queue \in Seq(EntryType) /\ r.entry \in EntryType
        BY <1>1, <1>2, OrderTypes DEF r
      <3>2. Line(w, r) = Line(viewer[v], r)
        BY <1>4 DEF Line
      <3>3. QED
        BY <3>1, <3>2, LineTyped
    <2>3. ASSUME s \notin rewound, ~ w.reset, NEW i \in 1 .. Len(q),
                 q[i].of # 0, Shown(w.through, q[i])
          PROVE  After(L, r, w.last, q[i].of)
      <3>1. q[i].sequence \in Nat /\ q[i].of \in Nat
        BY <2>2, EntryFields
      <3>2. q[i].sequence <= h.next_sequence
        BY <1>1, <1>4, <2>1, <2>2, <2>3 DEF Continued
      <3>3. CASE h.lines # <<>>
        <4>1. q[i].sequence > h.next_sequence
          BY <1>4, <1>6, <2>3, <3>3 DEF Shown
        <4>2. QED
          BY <1>6, <3>1, <3>2, <4>1
      <3>4. CASE h.lines = <<>>
        <4>1. w.last = 0
          BY <1>4, <1>7, <2>3, <3>4
        <4>2. 0 < q[i].of
          BY <2>3, <3>1
        <4>3. QED
          BY <4>1, <4>2 DEF After
      <3>5. QED
        BY <3>3, <3>4
    <2>4. QED
      BY <1>4, <1>7, <2>1, <2>2, <2>3 DEF Continued
  <1>9. ViewerOrder(v)'
    <2>1. viewer'[v] = w
      BY <1>1, <1>3, ViewerFields
    <2>2. ~ w.reset /\ publisher.id = s =>
            publisher.entry.sequence <= h.next_sequence
      BY <1>1, <1>2, <1>4 DEF ViewerOrder, h
    <2>3. cache'.entries[s] = h /\ log'[s] = L /\ reader'[s] = r
      BY <1>5 DEF h, L, r
    <2>4. QED
      BY <1>4, <1>5, <1>8, <2>1, <2>2, <2>3 DEF ViewerOrder
  <1>10. QED
    BY <1>1, <1>3, <1>5, <1>9, ReadersStay, OneViewerOrder

(* What a viewer takes out of its queue comes before all that is left.     *)
LEMMA ContinuedTaken ==
  ASSUME NEW L, NEW r, NEW w, NEW z, NEW n \in Nat,
         w.queue \in Seq(EntryType), r.entry \in EntryType,
         Continued(L, r, w, n), w.queue # <<>>, z.queue = Tail(w.queue),
         w.at = "live", z.at = "live", z.through = w.through, z.reset = w.reset,
         NEW e, e = Head(w.queue), Len(L) \in Nat,
         z.last = IF Shown(w.through, e) THEN Max({w.last, e.of}) ELSE w.last
  PROVE  Continued(L, r, z, n)
  <1>1. PICK y : y = [at |-> w.at, last |-> w.last, through |-> w.through,
                      reset |-> w.reset, queue |-> z.queue]
    OBVIOUS
  <1>2. /\ y.at = w.at /\ y.last = w.last /\ y.through = w.through
        /\ y.reset = w.reset /\ y.queue = z.queue
    BY <1>1
  <1>3. Continued(L, r, y, n) /\ Line(z, r) = Line(y, r)
    BY <1>2, ContinuedTail DEF Line
  <1>4. CASE z.last = w.last
    BY <1>2, <1>3, <1>4 DEF Continued
  <1>5. CASE z.last # w.last
    <2>1. PICK q \in Seq(EntryType), f \in Seq(EntryType) :
            q = Line(w, r) /\ f = Line(z, r)
      <3>1. z.queue \in Seq(EntryType)
        OBVIOUS
      <3>2. QED
        BY <3>1, LineTyped
    <2>2. /\ Len(q) \in Nat /\ Len(q) > 1 /\ q[1] = e
          /\ Len(f) = Len(q) - 1
          /\ \A i \in 1 .. Len(f) : f[i] = q[i + 1]
      <3>1. PICK k \in Seq(EntryType), t \in Seq(EntryType) :
              k = w.queue /\ t = z.queue /\ t = Tail(k) /\ k # <<>>
        <4>1. PICK k \in Seq(EntryType) : k = w.queue /\ k # <<>>
          OBVIOUS
        <4>2. Tail(k) \in Seq(EntryType) /\ z.queue = Tail(k)
          BY <4>1
        <4>3. QED
          BY <4>1, <4>2
      <3>2. /\ Len(k) \in Nat /\ Len(k) > 0 /\ Len(t) = Len(k) - 1
            /\ e = k[1] /\ \A i \in 1 .. Len(k) - 1 : t[i] = k[i + 1]
        BY <3>1
      <3>3. /\ Len(q) = Len(k) + 1 /\ q[Len(k) + 1] = r.entry
            /\ \A i \in 1 .. Len(k) : q[i] = k[i]
        BY <2>1, <3>1, LineTyped
      <3>4. /\ Len(f) = Len(t) + 1 /\ f[Len(t) + 1] = r.entry
            /\ \A i \in 1 .. Len(t) : f[i] = t[i]
        <4>1. z.queue \in Seq(EntryType)
          BY <3>1
        <4>2. /\ Len(f) = Len(z.queue) + 1 /\ f[Len(z.queue) + 1] = r.entry
              /\ \A i \in 1 .. Len(z.queue) : f[i] = z.queue[i]
          BY <2>1, <4>1, LineTyped
        <4>3. QED
          BY <3>1, <4>2
      <3>5. Len(f) = Len(q) - 1 /\ Len(q) > 1 /\ q[1] = e /\ Len(q) \in Nat
        BY <3>2, <3>3, <3>4
      <3>6. ASSUME NEW i \in 1 .. Len(f) PROVE f[i] = q[i + 1]
        <4>1. CASE i = Len(k)
          BY <3>2, <3>3, <3>4, <4>1
        <4>2. CASE i # Len(k)
          <5>1. i \in 1 .. Len(k) - 1 /\ i + 1 \in 1 .. Len(k)
            <6>1. Len(f) = Len(k)
              BY <3>2, <3>4
            <6>2. QED
              BY <3>2, <4>2, <6>1
          <5>2. QED
            BY <3>2, <3>3, <3>4, <5>1
        <4>3. QED
          BY <4>1, <4>2
      <3>7. QED
        BY <3>5, <3>6
    <2>3. Lined(L, r, q) /\ (w.last # 0 => Published(L, r, w.last))
      BY <2>1 DEF Continued
    <2>4. e.of # 0 => Published(L, r, e.of)
      BY <2>2, <2>3 DEF Lined
    <2>5. w.last \in 0 .. Len(L) /\ e.of \in 0 .. Len(L)
      <3>1. \A k : k = 0 \/ Published(L, r, k) => k \in 0 .. Len(L)
        BY PublishedIn
      <3>2. QED
        BY <2>3, <2>4, <3>1
    <2>6. z.last = e.of /\ z.last # 0
      <3>1. PICK a \in 0 .. Len(L), b \in 0 .. Len(L) : a = w.last /\ b = e.of
        BY <2>5
      <3>2. z.last = Max({a, b})
        BY <1>5, <3>1
      <3>3. Max({a, b}) \in {a, b} /\ \A k \in {a, b} : k <= Max({a, b})
        BY GreatestOf
      <3>4. PICK m : m = Max({a, b})
        OBVIOUS
      <3>5. m = b /\ a <= m /\ m # a
        BY <1>5, <3>1, <3>2, <3>3, <3>4
      <3>6. m # 0
        BY <3>5
      <3>7. QED
        BY <3>1, <3>2, <3>4, <3>5, <3>6
    <2>7. ASSUME NEW i \in 1 .. Len(f), f[i].of # 0
          PROVE  After(L, r, z.last, f[i].of)
      <3>1. /\ 1 \in 1 .. Len(q) /\ i + 1 \in 1 .. Len(q) /\ 1 < i + 1
            /\ f[i] = q[i + 1]
        BY <2>2
      <3>2. QED
        BY <2>2, <2>3, <2>6, <2>7, <3>1 DEF Lined
    <2>8. Lined(L, r, f)
      BY <1>3, <2>1 DEF Continued
    <2>9. QED
      BY <2>1, <2>4, <2>6, <2>7, <2>8 DEF Continued
  <1>6. QED
    BY <1>4, <1>5

(* A viewer takes the report of a lag, or the head of its queue.           *)
LEMMA ReceiveOrder ==
  ASSUME LossInv, LinesInv', OrderInv, NEW v \in Viewers, Receive(v)
  PROVE  OrderInv'
  <1> DEFINE z == viewer[v]
             s == z.id
  <1>1. /\ LinesInv /\ StreamInv /\ ViewerType(z) /\ ViewerOrder(v)
        /\ z.at = "live" /\ viewer = [u \in Viewers |-> viewer[u]]
    BY ViewerFields DEF LossInv, LinesInv, ViewersInv, Receive, OrderInv
  <1>2. UNCHANGED <<log, reader, publisher, rewound, cache>>
    BY DEF Receive
  <1>3. PICK n \in Nat : n = cache.entries[s].next_sequence
    BY <1>1, OrderTypes DEF ViewerType
  <1>4. /\ s \in Servers /\ z.queue \in Seq(EntryType)
        /\ reader[s].entry \in EntryType /\ Len(log[s]) \in Nat
        /\ s \notin rewound => Continued(log[s], reader[s], z, n)
    BY <1>1, <1>3, OrderTypes, LogTimes DEF ViewerType, StreamInv, ViewerOrder
  <1>5. ASSUME NEW w, viewer' = [viewer EXCEPT ![v] = w], w.id = s,
               w.reset = z.reset,
               s \notin rewound => Continued(log[s], reader[s], w, n)
        PROVE  OrderInv'
    <2>1. viewer'[v] = w
      BY <1>1, <1>5, ViewerFields
    <2>2. ~ w.reset /\ publisher.id = s =>
            publisher.entry.sequence <= n
      BY <1>1, <1>3, <1>4, <1>5 DEF ViewerOrder
    <2>3. ViewerOrder(v)'
      BY <1>2, <1>3, <1>5, <2>1, <2>2 DEF ViewerOrder
    <2>4. QED
      BY <1>1, <1>2, <1>5, <2>3, ReadersStay, OneViewerOrder
  <1> HIDE DEF z, s
  <1>6. CASE viewer' = [viewer EXCEPT ![v].missed = {}]
    <2>1. PICK w : /\ w = [z EXCEPT !.missed = {}]
                   /\ viewer' = [viewer EXCEPT ![v] = w]
      BY <1>1, <1>6 DEF z
    <2>2. /\ w.at = z.at /\ w.id = s /\ w.through = z.through
          /\ w.queue = z.queue /\ w.reset = z.reset /\ w.last = z.last
      BY <1>1, <2>1 DEF ViewerType, s
    <2>3. s \notin rewound => Continued(log[s], reader[s], w, n)
      BY <1>4, <2>2 DEF Continued, Line
    <2>4. QED
      BY <1>5, <2>1, <2>2, <2>3
  <1>7. CASE /\ z.queue # <<>>
             /\ viewer' = [viewer EXCEPT
                  ![v].queue = Tail(@),
                  ![v].last = IF Shown(z.through, Head(z.queue))
                              THEN Max({@, Head(z.queue).of}) ELSE @]
    <2>1. PICK e : e = Head(z.queue)
      OBVIOUS
    <2>2. PICK m : m = IF Shown(z.through, e) THEN Max({z.last, e.of})
                                              ELSE z.last
      OBVIOUS
    <2>3. PICK w : w = [z EXCEPT !.queue = Tail(z.queue), !.last = m]
      OBVIOUS
    <2>4. viewer' = [viewer EXCEPT ![v] = w]
      BY <1>1, <1>7, <2>1, <2>2, <2>3 DEF z
    <2>5. /\ w.at = "live" /\ w.id = s /\ w.through = z.through
          /\ w.queue = Tail(z.queue) /\ w.reset = z.reset /\ w.last = m
      BY <1>1, <2>3 DEF ViewerType, s
    <2>6. s \notin rewound => Continued(log[s], reader[s], w, n)
      BY <1>1, <1>4, <1>7, <2>1, <2>2, <2>5, ContinuedTaken
    <2>7. QED
      BY <1>5, <2>4, <2>5, <2>6
  <1>8. QED
    BY <1>6, <1>7 DEF Receive, z

LEMMA OrderInitial == ASSUME Init PROVE OrderInv
  <1>1. ASSUME NEW s \in Servers PROVE ServerOrder(s)
    <2>1. /\ reader[s] = NoReader /\ cache.entries[s] = NoHistory
      BY DEF Init
    <2>2. NoReader.cutoff = None /\ NoReader.pos = 0 /\ NoReader.entry = NoLine
      BY DEF NoReader
    <2>3. CursorInv(log[s], NoReader)
      BY <2>2 DEF CursorInv, CutoffInv
    <2>4. QED
      BY <2>1, <2>2, <2>3, LinedNone, NoLineType DEF ServerOrder
  <1>2. ASSUME NEW v \in Viewers PROVE ViewerOrder(v)
    <2>1. viewer[v] = NoViewer /\ NoViewer.at = "off"
      BY DEF Init, NoViewer
    <2>2. QED
      BY <2>1 DEF ViewerOrder
  <1>3. publisher.entry.of = 0
    BY NoLineType DEF Init, NotPublishing
  <1>4. QED
    BY <1>1, <1>2, <1>3 DEF OrderInv

(* Whatever happens, what is queued and kept stays in the order of the log. *)
LEMMA OrderStep ==
  ASSUME LossInv, OrderInv, [Next]_vars
  PROVE  OrderInv'
  <1>1. LinesInv /\ LinesInv'
    BY LossStep DEF LossInv
  <1>2. CASE PublisherSends
    BY <1>1, <1>2, PublisherSendOrder
  <1>3. ASSUME NEW s \in Servers,
               \/ Emit(s) \/ Connect(s) \/ ReadLine(s) \/ StreamEnds(s)
               \/ StreamEndsInLine(s) \/ ReaderSends(s) \/ IdleEnds(s)
               \/ RetireIdleReader(s) \/ Publish(s)
               \/ \E v \in Viewers : Subscribe(v, s)
        PROVE  OrderInv'
    <2>1. CASE Emit(s)
      BY <1>1, <2>1, EmitOrder
    <2>2. CASE Connect(s)
      BY <1>1, <2>2, ConnectOrder
    <2>3. CASE StreamEnds(s)
      BY <1>1, <2>3, StreamEndsOrder
    <2>4. CASE ReadLine(s) \/ StreamEndsInLine(s)
      BY <1>1, <2>4, ReadOrder
    <2>5. CASE ReaderSends(s)
      BY <1>1, <2>5, ReaderSendOrder
    <2>6. CASE IdleEnds(s)
      BY <1>1, <2>6, IdleEndsOrder
    <2>7. CASE RetireIdleReader(s)
      BY <1>1, <2>7, RetireOrder
    <2>8. CASE Publish(s)
      BY <1>1, <2>8, PublishOrder
    <2>9. CASE \E v \in Viewers : Subscribe(v, s)
      BY <1>1, <2>9, SubscribeOrder
    <2>10. QED
      BY <1>3, <2>1, <2>2, <2>3, <2>4, <2>5, <2>6, <2>7, <2>8, <2>9
  <1>4. ASSUME NEW v \in Viewers, Snapshot(v) \/ Receive(v) \/ Leave(v)
        PROVE  OrderInv'
    BY <1>1, <1>4, SnapshotOrder, ReceiveOrder, LeaveOrder
  <1>5. CASE UNCHANGED vars
    <2>1. UNCHANGED <<log, reader, cache, viewer, publisher, rewound>>
      BY <1>5 DEF vars
    <2>2. \A s \in Servers : ServerOrder(s) => ServerOrder(s)'
      BY <2>1 DEF ServerOrder
    <2>3. \A v \in Viewers : ViewerOrder(v) => ViewerOrder(v)'
      BY <2>1 DEF ViewerOrder
    <2>4. QED
      BY <2>1, <2>2, <2>3 DEF OrderInv
  <1>6. QED
    BY <1>2, <1>3, <1>4, <1>5 DEF Next

(* A viewer sees every log line at most once and in the order of the log,  *)
(* across the seam between snapshot and queue, reconnections, lags and     *)
(* trims, unless its server was evicted under it or its reader rewound.    *)
THEOREM LinesStayInOrder == Spec => []OnceInOrder
  <1>1. Init => LossInv /\ OrderInv
    BY StreamInitial, LinesInitial, OrderInitial DEF LossInv
  <1>2. LossInv /\ OrderInv /\ [Next]_vars => (LossInv /\ OrderInv)'
    BY LossStep, OrderStep
  <1>3. ASSUME LossInv, OrderInv PROVE OnceInOrder
    <2>1. ASSUME NEW s \in Servers \ rewound
          PROVE  \A i, j \in {k \in 1 .. Len(cache.entries[s].lines) :
                                cache.entries[s].lines[k].of # 0} :
                   i < j => Follows(s, cache.entries[s].lines[i].of,
                                    cache.entries[s].lines[j].of)
      <3>1. Lined(log[s], reader[s], cache.entries[s].lines)
        BY <1>3 DEF OrderInv, ServerOrder
      <3>2. PICK q : q = cache.entries[s].lines
        OBVIOUS
      <3>3. \A i, j \in {k \in 1 .. Len(q) : q[k].of # 0} :
              i < j => After(log[s], reader[s], q[i].of, q[j].of)
        BY <3>1, <3>2 DEF Lined
      <3>4. \A i, j : After(log[s], reader[s], i, j) => Follows(s, i, j)
        BY DEF Follows, After
      <3>5. QED
        BY <3>2, <3>3, <3>4
    <2>2. ASSUME NEW s \in Servers \ rewound, NEW v \in Receivers(s),
                 viewer[v].at = "live", ~ viewer[v].reset,
                 NEW j \in {i \in 1 .. Len(viewer[v].queue) :
                              /\ viewer[v].queue[i].of # 0
                              /\ Shown(viewer[v].through, viewer[v].queue[i])}
          PROVE  /\ Follows(s, viewer[v].last, viewer[v].queue[j].of)
                 /\ \A i \in {k \in 1 .. Len(viewer[v].queue) :
                                /\ viewer[v].queue[k].of # 0
                                /\ Shown(viewer[v].through, viewer[v].queue[k])} :
                      i < j => Follows(s, viewer[v].queue[i].of,
                                       viewer[v].queue[j].of)
      <3> DEFINE z == viewer[v]
                 n == cache.entries[s].next_sequence
                 q == Line(z, reader[s])
      <3>1. v \in Viewers /\ z.id = s /\ z.at # "off"
        BY <2>2 DEF Receivers
      <3>2. Continued(log[s], reader[s], z, n)
        BY <1>3, <2>2, <3>1 DEF OrderInv, ViewerOrder
      <3>3. /\ Len(q) = Len(z.queue) + 1 /\ Len(z.queue) \in Nat
            /\ \A i \in 1 .. Len(z.queue) : q[i] = z.queue[i]
        BY <1>3, <3>1, OrderTypes, LineTyped DEF LossInv
      <3> HIDE DEF q, n
      <3>4. \A i \in 1 .. Len(z.queue) : i \in 1 .. Len(q)
        BY <3>3
      <3>5. /\ Lined(log[s], reader[s], q)
            /\ \A i \in 1 .. Len(q) : q[i].of # 0 /\ Shown(z.through, q[i]) =>
                 After(log[s], reader[s], z.last, q[i].of)
        BY <2>2, <3>2 DEF Continued, q
      <3>6. After(log[s], reader[s], z.last, z.queue[j].of)
        BY <3>3, <3>4, <3>5
      <3>7. ASSUME NEW i \in 1 .. Len(z.queue), z.queue[i].of # 0, i < j
            PROVE  After(log[s], reader[s], z.queue[i].of, z.queue[j].of)
        BY <3>3, <3>4, <3>5, <3>7 DEF Lined
      <3>8. \A i, k : Follows(s, i, k) <=> After(log[s], reader[s], i, k)
        BY DEF Follows, After
      <3>9. QED
        BY <3>6, <3>7, <3>8
    <2>3. QED
      BY <2>1, <2>2 DEF OnceInOrder
  <1>4. QED
    BY <1>1, <1>2, <1>3, PTL DEF Spec
=============================================================================
