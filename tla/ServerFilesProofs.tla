------------------------- MODULE ServerFilesProofs -------------------------
(***************************************************************************)
(* What the file operations guarantee for any directories, names, calls,   *)
(* faults and files at the start: a call that nobody else met on its paths *)
(* did what it reports, and never leaves a half-made file under the name   *)
(* of a pack's file or an archive, and no file disappears.                 *)
(*                                                                         *)
(* Calls interleave step by step, but a clean call is alone on its paths,  *)
(* so that what they hold is a matter of the steps it has left.            *)
(***************************************************************************)
EXTENDS ServerFiles, TLAPS

Contents == {Absent, Torn} \cup Paths \cup Calls
Doings == {"open", "fill", "chown", "receive", "exists", "remove", "rm",
           "free", "rename", "mv", "mkdir", "tar", "replace", "inspect",
           "get", "part", "stream", "clear", "place", "copy",
           "read_manifest", "refuse", "mismatch"}
Steps == [do : Doings, p : Paths, q : Paths,
          by : {"child", "call", "shell"}, err : {"fail", "unlink", "ignore"}]

Typed ==
    /\ tree \in [Paths -> Contents] /\ part \in [Paths -> Contents]
    /\ status \in [Calls -> {"new", "running", "leaving", "ok", "failed",
                             "dropped"}]
    /\ todo \in [Calls -> Seq(Steps)]
    /\ call = [c \in Calls |-> call[c]]
    /\ clean \subseteq Calls

(* The paths of a request, by operation.                                   *)
Shape(r) ==
    /\ r.from \in Seq(Paths) /\ r.to \in Seq(Paths)
    /\ r.op \in {"write", "upload", "delete", "create_directory"} =>
         Len(r.to) = 1
    /\ r.op \in {"archive", "extract", "rename"} =>
         Len(r.from) = 1 /\ Len(r.to) = 1
    /\ r.op = "move" =>
         /\ Len(r.from) = Len(r.to) /\ Len(r.to) \in {1, 2}
         /\ Len(r.to) = 2 => r.from[1] # r.from[2] /\ r.to[1] # r.to[2]
    /\ r.op = "modpack" => Len(r.to) = 2
    /\ r.op \in {"write", "upload", "delete", "create_directory", "archive",
                 "extract", "rename", "move", "modpack"}

(* Calls keep to their own paths.                                          *)
Keeps(c) ==
    /\ Begun(c) => Shape(call[c])
    /\ Active(c) => Len(todo[c]) > 0
    /\ \A i \in 1 .. Len(todo[c]) :
         todo[c][i].p \in Uses(call[c]) /\ todo[c][i].q \in Uses(call[c])

(* No other call that can still do something uses the paths of a clean one.*)
Alone(c) ==
    /\ Begun(c)
    /\ \A d \in Calls \ {c} :
         Active(d) => Uses(call[d]) \cap Uses(call[c]) = {}

(* What a step that succeeds makes of the files, where its path holds what *)
(* the steps before it left there.                                         *)
Effect(i, c, T, P, T2, P2) ==
    /\ i.do \notin {"refuse", "mismatch"}
    /\ i.do \in {"chown", "receive", "inspect", "read_manifest", "get", "tar",
                 "exists", "free"} => T2 = T /\ P2 = P
    /\ i.do = "exists" => T[i.p] # Absent
    /\ i.do = "free" => T[i.p] = Absent
    /\ i.do = "open" => T2 = With(T, i.p, Torn)
    /\ i.do = "fill" => (T[i.p] = Torn => T2 = With(T, i.p, c))
    /\ i.do \in {"remove", "rm"} => T2 = With(T, i.p, Absent)
    /\ i.do = "mkdir" => T2 = With(T, i.p, c)
    /\ i.do \in {"rename", "mv"} =>
         /\ T[i.p] # Absent
         /\ T[i.q] = Absent => T2 = With(With(T, i.q, T[i.p]), i.p, Absent)
    /\ i.do = "replace" => (T[i.p] = Absent => T2 = With(T, i.p, c))
    /\ i.do = "part" => T2 = T /\ P2 = With(P, i.p, Torn)
    /\ i.do \in {"stream", "copy"} => T2 = T /\ P2 = With(P, i.p, c)
    /\ i.do = "clear" => T2 = With(T, i.p, Absent) /\ P2 = P
    /\ i.do = "place" => T2 = With(T, i.p, P[i.p]) /\ P2 = With(P, i.p, Absent)

(* What the paths of a call nobody meets hold before the k-th step of its  *)
(* script, and after the last one.                                         *)
WriteStage(c, t, k, T) ==
    /\ k = 2 => T[t] = Torn
    /\ k > 2 => T[t] = c
RenameStage(h, s, t, k, T) ==
    /\ k < 4 => T[s] = h[s] /\ T[t] = h[t]
    /\ k = 3 => T[t] = Absent
    /\ k = 4 => T[s] = Absent /\ T[t] = h[s]
MoveStage(h, s1, t1, s2, t2, k, T) ==
    /\ k < 6 => T[s1] = h[s1] /\ T[t1] = h[t1]
    /\ k < 7 => T[s2] = h[s2] /\ T[t2] = h[t2]
    /\ k > 1 => h[s1] # Absent
    /\ k > 2 => h[t1] = Absent
    /\ k > 3 => h[s2] # Absent
    /\ k > 4 => h[t2] = Absent
    /\ k > 5 => T[s1] = Absent /\ T[t1] = h[s1]
    /\ k = 7 => T[s2] = Absent /\ T[t2] = h[s2]
ArchiveStage(host, c, h, t, k, T) ==
    /\ k = 1 => T[t] = h[t]
    /\ k > 1 => h[t] = Absent
    /\ k \in {2, 3} => T[t] = Absent
    /\ k = 4 => T[t] = IF host THEN Torn ELSE Absent
    /\ k > 4 => T[t] = c
PackStage(c, h, p, q, k, T, P) ==
    /\ k < 6 => T[p] = h[p]
    /\ k < 10 => (p # q => T[q] = h[q])
    /\ k \in {5, 6} => P[p] = c
    /\ k = 6 => T[p] = Absent
    /\ k \in 7 .. 9 => T[p] = c
    /\ k > 6 => (p # q => T[p] = c /\ P[p] = Absent)
    /\ k \in {9, 10} => P[q] = c
    /\ k = 10 => T[q] = Absent
    /\ k = 11 => T[q] = c /\ P[q] = Absent

Stage(host, c, r, k, T, P) ==
    LET s == r.from[1]
        t == r.to[1]
    IN /\ r.op = "write" => WriteStage(c, t, k, T)
       /\ r.op = "upload" => WriteStage(c, t, k - 1, T)
       /\ r.op = "delete" => (k > (IF host THEN 2 ELSE 1) => T[t] = Absent)
       /\ r.op = "create_directory" => (k > 1 => T[t] = c)
       /\ r.op = "rename" =>
            RenameStage(r.had, s, t, IF host THEN k ELSE k + 1, T)
       /\ r.op = "move" /\ Len(r.to) = 1 => RenameStage(r.had, s, t, k, T)
       /\ r.op = "move" /\ Len(r.to) = 2 =>
            MoveStage(r.had, s, t, r.from[2], r.to[2], k, T)
       /\ r.op = "archive" => ArchiveStage(host, c, r.had, t, k, T)
       /\ r.op = "extract" => (k = 5 => T[t] = Torn) /\ (k = 6 => T[t] = c)
       /\ r.op = "modpack" =>
            /\ PackStage(c, r.had, t, r.to[2], k, T, P)
            /\ host \/ k = 1

(* The properties, of any files.                                           *)
DoneIn(c, r, T, P) ==
    CASE r.op = "delete" -> T[r.to[1]] = Absent
      [] r.op \in {"rename", "move"} ->
            \A k \in 1 .. Len(r.from) : /\ T[r.from[k]] = Absent
                                        /\ T[r.to[k]] = r.had[r.from[k]]
      [] r.op = "modpack" ->
            \A p \in Range(r.to) : T[p] = c /\ P[p] = Absent
      [] OTHER -> T[r.to[1]] = c
WholePack(c, r, T, P) ==
    \A p \in Range(r.to) : \/ T[p] = r.had[p] \/ T[p] = c
                           \/ T[p] = Absent /\ P[p] = c
WholeArchive(c, r, T) ==
    T[r.to[1]] = r.had[r.to[1]] \/ T[r.to[1]] = c

(* A script whose steps keep to these paths.                               *)
Fits(S, U) ==
    /\ S \in Seq(Steps) /\ Len(S) > 0
    /\ \A k \in 1 .. Len(S) : S[k].p \in U /\ S[k].q \in U

(* Call c is before the k-th step of a script.                             *)
OnScript(host, c, k) ==
    LET S == Script(host, call[c]) IN
    /\ k \in 1 .. Len(S) /\ Len(todo[c]) = Len(S) - k + 1
    /\ \A i \in 1 .. Len(todo[c]) : todo[c][i] = S[k + i - 1]

(* What is known of a clean call: where it is and what its paths hold.     *)
OnTheWay(c) ==
    \/ \E host \in BOOLEAN, k \in Nat :
         OnScript(host, c, k) /\ Stage(host, c, call[c], k, tree, part)
    \/ /\ Len(todo[c]) = 1 /\ todo[c][1].do = "mismatch"
       /\ todo[c][1].err = "fail" /\ call[c].op # "archive"
       /\ call[c].op = "modpack" =>
            \A p \in Range(call[c].to) : tree[p] = call[c].had[p]
Local(c) ==
    /\ Active(c) => OnTheWay(c)
    /\ status[c] = "ok" => DoneIn(c, call[c], tree, part)
    /\ call[c].op = "modpack" => WholePack(c, call[c], tree, part)
    /\ call[c].op = "archive" /\ status[c] \in {"ok", "failed"} =>
         WholeArchive(c, call[c], tree)

FilesInv ==
    /\ Typed
    /\ \A c \in Calls : Keeps(c)
    /\ \A c \in clean : Alone(c)
    /\ \A c \in clean \ silent : Local(c)

(* A step of c, a failure of one, or c being dropped: what it touches and  *)
(* how it ends.                                                            *)
Acts(c) == Step(c) \/ StepFails(c) \/ Drop(c)
Framed(c) ==
    /\ UNCHANGED <<call, clean>>
    /\ \A d \in Calls \ {c} : status'[d] = status[d] /\ todo'[d] = todo[d]
    /\ silent \subseteq silent' /\ silent' \subseteq silent \cup {c}
    /\ \A p \in Paths : p # At(c).p /\ p # At(c).q =>
                          tree'[p] = tree[p] /\ part'[p] = part[p]
Advances(c) == \/ Len(todo[c]) > 1 /\ todo'[c] = Tail(todo[c])
                  /\ status'[c] = status[c]
               \/ todo'[c] = <<>> /\ status'[c] = "dropped"
               \/ Len(todo[c]) = 1 /\ todo'[c] = <<>> /\ status'[c] = "ok"
Fails(c) == todo'[c] = <<>> /\ status'[c] \in {"failed", "dropped"}
Outcome(c) ==
    \/ Advances(c) /\ (c \in silent' \/ Effect(At(c), c, tree, part, tree', part'))
    \/ /\ Fails(c) /\ tree' = tree /\ part' = part /\ At(c).err = "fail"
    \/ /\ Fails(c) /\ tree' = tree /\ At(c).do \in {"stream", "mismatch"}
       /\ part' = With(part, At(c).p, Absent)
    \/ /\ Fails(c) /\ At(c).err = "unlink" /\ part' = part
       /\ tree' = With(tree, At(c).p, Absent)
    \/ /\ At(c).do = "stream" /\ tree' = tree /\ part' = part
       /\ status'[c] = status[c]
       /\ todo'[c] = <<One("mismatch", At(c).p, "call")>>
    \/ /\ tree' = tree /\ part' = part
       /\ \/ todo'[c] = <<>> /\ status'[c] = "dropped"
          \/ todo'[c] = todo[c] /\ status'[c] = "leaving"
             /\ status[c] = "running"

-----------------------------------------------------------------------------
(* Requests and their scripts.                                             *)

(* One script after another.                                               *)
LEMMA Concatenated ==
  ASSUME NEW a \in Seq(Steps), NEW b \in Seq(Steps), NEW S, S = a \o b
  PROVE  /\ S \in Seq(Steps) /\ Len(S) = Len(a) + Len(b)
         /\ \A i \in 1 .. Len(a) : S[i] = a[i]
         /\ \A i \in Len(a) + 1 .. Len(a) + Len(b) : S[i] = b[i - Len(a)]
  OBVIOUS

(* What the panel may ask for has a shape.                                 *)
LEMMA RequestShape ==
  ASSUME NEW r \in Requests
  PROVE  Shape(r)
  <1>0. r \in Singles \cup Packings \cup Renames \cup Modpacks
            \cup {m \in Moves : \A i, j \in 1 .. Len(m.to) :
                                   i # j => m.to[i] # m.to[j]}
    BY DEF Requests
  <1>1. CASE r \in Singles
    <2>1. PICK op \in {"write", "upload", "delete", "create_directory"},
               p \in Paths : r = Single(op, p)
      BY <1>1 DEF Singles
    <2>2. r.op = op /\ r.from = <<>> /\ r.to = <<p>>
      BY <2>1 DEF Single, Request
    <2>3. <<>> \in Seq(Paths) /\ <<p>> \in Seq(Paths) /\ Len(<<p>>) = 1
      OBVIOUS
    <2>4. QED
      BY <2>2, <2>3 DEF Shape
  <1>2. CASE r \in Packings
    <2>1. PICK op \in {"archive", "extract"}, p \in Paths, q \in Paths :
              r = Request(op, <<p>>, <<q>>)
      BY <1>2 DEF Packings
    <2>2. r.op = op /\ r.from = <<p>> /\ r.to = <<q>>
      BY <2>1 DEF Request
    <2>3. QED
      BY <2>2 DEF Shape
  <1>3. CASE r \in Renames
    <2>1. PICK p \in Paths, n \in Names : r = Request("rename", <<p>>, <<<<p[1], n>>>>)
      BY <1>3 DEF Renames
    <2>2. <<p[1], n>> \in Paths
      BY DEF Paths
    <2>3. QED
      BY <2>1, <2>2 DEF Request, Shape
  <1>4. CASE r \in {m \in Moves : \A i, j \in 1 .. Len(m.to) :
                                   i # j => m.to[i] # m.to[j]}
    <2>1. PICK s \in Selections, d \in Dirs : r = Request("move", s, In(d, s))
      BY <1>4 DEF Moves
    <2>2. \A i, j \in 1 .. Len(r.to) : i # j => r.to[i] # r.to[j]
      BY <1>4
    <2>3. r.op = "move" /\ r.from = s /\ r.to = In(d, s)
      BY <2>1 DEF Request
    <2>4. /\ s \in Seq(Paths) /\ Len(s) \in {1, 2}
          /\ Len(s) = 2 => s[1] # s[2]
      <3>1. CASE s \in {<<p>> : p \in Paths}
        <4>1. PICK p \in Paths : s = <<p>>
          BY <3>1
        <4>2. <<p>> \in Seq(Paths) /\ Len(<<p>>) = 1
          OBVIOUS
        <4>3. QED
          BY <4>1, <4>2
      <3>2. CASE s \in {x \in Paths \X Paths : x[1] # x[2]}
        <4>1. s = <<s[1], s[2]>> /\ s[1] \in Paths /\ s[2] \in Paths /\ s[1] # s[2]
          BY <3>2
        <4> DEFINE a == s[1]
                   b == s[2]
        <4>2. a \in Paths /\ b \in Paths /\ s = <<a, b>> /\ a # b
          BY <4>1
        <4> HIDE DEF a, b
        <4>3. s \in Seq(Paths) /\ Len(s) = 2 /\ s[1] = a /\ s[2] = b
          BY <4>2
        <4>4. QED
          BY <4>2, <4>3
      <3>3. QED
        BY <3>1, <3>2 DEF Selections
    <2>5. /\ In(d, s) \in Seq(Paths) /\ Len(In(d, s)) = Len(s)
      <3>1. \A k \in 1 .. Len(s) : <<d, s[k][2]>> \in Paths
        BY <2>4 DEF Paths
      <3>2. QED
        BY <2>4, <3>1 DEF In
    <2>6. Len(r.to) = 2 => r.to[1] # r.to[2]
      BY <2>2
    <2>7. QED
      BY <2>3, <2>4, <2>5, <2>6 DEF Shape
  <1>5. CASE r \in Modpacks
    <2>1. PICK p \in Paths, q \in Paths : r = Modpack(p, q)
      BY <1>5 DEF Modpacks
    <2>2. r.op = "modpack" /\ r.from = <<>> /\ r.to = <<p, q>>
      BY <2>1 DEF Modpack, Request
    <2>3. <<>> \in Seq(Paths) /\ <<p, q>> \in Seq(Paths) /\ Len(<<p, q>>) = 2
      OBVIOUS
    <2>4. QED
      BY <2>2, <2>3 DEF Shape
  <1>6. QED
    BY <1>0, <1>1, <1>2, <1>3, <1>4, <1>5

(* The steps of the scripts, one script at a time.                         *)
LEMMA WriteScript ==
  ASSUME NEW host \in BOOLEAN, NEW t \in Paths, NEW S, S = Write(host, t)
  PROVE  /\ Fits(S, {t}) /\ Len(S) = IF host THEN 3 ELSE 2
         /\ S[1].do = "open" /\ S[2].do = "fill"
         /\ host => S[3].do = "chown"
  <1> DEFINE by == IF host THEN "shell" ELSE "child"
             a == One("open", t, by)
             b == One("fill", t, by)
             d == Chown(t)
  <1>1. /\ a \in Steps /\ a.do = "open" /\ a.p = t /\ a.q = t
        /\ b \in Steps /\ b.do = "fill" /\ b.p = t /\ b.q = t
        /\ d \in Steps /\ d.do = "chown" /\ d.p = t /\ d.q = t
    BY DEF One, Chown, Do, Steps, Doings
  <1>2. S = IF host THEN <<a, b, d>> ELSE <<a, b>>
    BY DEF Write
  <1> HIDE DEF a, b, d
  <1>3. QED
    BY <1>1, <1>2 DEF Fits

(* An upload receives its chunks, and then writes.                         *)
LEMMA UploadScript ==
  ASSUME NEW host \in BOOLEAN, NEW t \in Paths, NEW S, S = Upload(host, t)
  PROVE  /\ Fits(S, {t}) /\ Len(S) = IF host THEN 4 ELSE 3
         /\ S[1].do = "receive" /\ S[2].do = "open" /\ S[3].do = "fill"
         /\ host => S[4].do = "chown"
  <1> DEFINE a == One("receive", t, "child")
             W == Write(host, t)
  <1>1. a \in Steps /\ a.do = "receive" /\ a.p = t /\ a.q = t
    BY DEF One, Do, Steps, Doings
  <1>2. /\ Fits(W, {t}) /\ Len(W) = IF host THEN 3 ELSE 2
        /\ W[1].do = "open" /\ W[2].do = "fill"
        /\ host => W[3].do = "chown"
    BY WriteScript
  <1>3. S = <<a>> \o W
    BY DEF Upload
  <1> HIDE DEF a, W
  <1>4. /\ S \in Seq(Steps) /\ Len(S) = 1 + Len(W) /\ S[1] = a
        /\ \A k \in 1 .. Len(W) : S[1 + k] = W[k]
    <2> DEFINE A == <<a>>
    <2>1. A \in Seq(Steps) /\ Len(A) = 1 /\ A[1] = a
      BY <1>1
    <2>2. S = A \o W
      BY <1>3
    <2> HIDE DEF A
    <2>3. W \in Seq(Steps) /\ Len(W) \in Nat
      BY <1>2 DEF Fits
    <2>4. /\ S \in Seq(Steps) /\ Len(S) = Len(A) + Len(W)
          /\ \A i \in 1 .. Len(A) : S[i] = A[i]
          /\ \A i \in Len(A) + 1 .. Len(A) + Len(W) : S[i] = W[i - Len(A)]
      <3>1. A \in Seq(Steps) /\ W \in Seq(Steps)
        BY <2>1, <2>3
      <3>2. QED
        BY <2>2, <3>1, Concatenated, SMTT(30)
    <2>5. ASSUME NEW k \in 1 .. Len(W) PROVE S[1 + k] = W[k]
      <3>1. /\ 1 + k \in Len(A) + 1 .. Len(A) + Len(W)
            /\ 1 + k - Len(A) = k
        BY <2>1, <2>3
      <3>2. QED
        BY <2>4, <3>1
    <2>6. QED
      BY <2>1, <2>4, <2>5
  <1>5. \A k \in 1 .. Len(S) : S[k].p = t /\ S[k].q = t
    <2>1. TAKE k \in 1 .. Len(S)
    <2>2. k = 1 \/ (k - 1 \in 1 .. Len(W) /\ S[k] = W[k - 1])
      BY <1>2, <1>4
    <2>3. QED
      BY <1>1, <1>2, <1>4, <2>2 DEF Fits
  <1>6. S[2] = W[1] /\ S[3] = W[2] /\ (host => S[4] = W[3])
    BY <1>2, <1>4
  <1>7. QED
    BY <1>1, <1>2, <1>4, <1>5, <1>6 DEF Fits

(* A deletion is one step, behind a check on the host.                     *)
LEMMA DeleteScript ==
  ASSUME NEW host \in BOOLEAN, NEW t \in Paths, NEW S, S = Delete(host, t)
  PROVE  /\ Fits(S, {t}) /\ Len(S) = IF host THEN 2 ELSE 1
         /\ host => (S[1].do = "exists" /\ S[2].do = "remove")
         /\ ~ host => S[1].do = "rm"
  <1> DEFINE a == One("exists", t, "call")
             b == One("remove", t, "call")
             d == One("rm", t, "shell")
  <1>1. /\ a \in Steps /\ a.do = "exists" /\ a.p = t /\ a.q = t
        /\ b \in Steps /\ b.do = "remove" /\ b.p = t /\ b.q = t
        /\ d \in Steps /\ d.do = "rm" /\ d.p = t /\ d.q = t
    BY DEF One, Do, Steps, Doings
  <1>2. S = IF host THEN <<a, b>> ELSE <<d>>
    BY DEF Delete
  <1> HIDE DEF a, b, d
  <1>3. CASE host
    <2>1. S = <<a, b>>
      BY <1>2, <1>3
    <2>2. S \in Seq(Steps) /\ Len(S) = 2 /\ S[1] = a /\ S[2] = b
      BY <1>1, <2>1
    <2>3. Fits(S, {t})
      BY <1>1, <2>2 DEF Fits
    <2>4. QED
      BY <1>1, <1>3, <2>2, <2>3
  <1>4. CASE ~ host
    <2>1. S = <<d>>
      BY <1>2, <1>4
    <2>2. S \in Seq(Steps) /\ Len(S) = 1 /\ S[1] = d
      BY <1>1, <2>1
    <2>3. QED
      BY <1>1, <1>4, <2>2 DEF Fits
  <1>5. QED
    BY <1>3, <1>4

(* A new directory, on the host with its owner set.                        *)
LEMMA DirectoryScript ==
  ASSUME NEW host \in BOOLEAN, NEW t \in Paths,
         NEW S, S = CreateDirectory(host, t)
  PROVE  /\ Fits(S, {t}) /\ Len(S) = IF host THEN 2 ELSE 1
         /\ S[1].do = "mkdir" /\ (host => S[2].do = "chown")
  <1> DEFINE a == One("mkdir", t, IF host THEN "call" ELSE "shell")
             b == Chown(t)
  <1>1. /\ a \in Steps /\ a.do = "mkdir" /\ a.p = t /\ a.q = t
        /\ b \in Steps /\ b.do = "chown" /\ b.p = t /\ b.q = t
    BY DEF One, Chown, Do, Steps, Doings
  <1>2. S = IF host THEN <<a, b>> ELSE <<a>>
    BY DEF CreateDirectory
  <1> HIDE DEF a, b
  <1>3. QED
    BY <1>1, <1>2 DEF Fits

RenameSteps(S, host, s, t) ==
    /\ Len(S) = IF host THEN 3 ELSE 2
    /\ S[1].do = IF host THEN "exists" ELSE "free"
    /\ S[1].p = IF host THEN s ELSE t
    /\ S[2].do = IF host THEN "free" ELSE "mv"
    /\ S[2].p = IF host THEN t ELSE s
    /\ S[2].q = t
    /\ Len(S) = 3 => S[3].do = "rename" /\ S[3].p = s /\ S[3].q = t

(* A rename ends with the one step that moves, after the name was free.    *)
LEMMA RenameScript ==
  ASSUME NEW host \in BOOLEAN, NEW s \in Paths, NEW t \in Paths,
         NEW S, S = Rename(host, s, t)
  PROVE  Fits(S, {s, t}) /\ RenameSteps(S, host, s, t)
  <1> DEFINE by == IF host THEN "call" ELSE "shell"
             a == One("exists", s, "call")
             b == One("free", t, by)
             d == Two(IF host THEN "rename" ELSE "mv", s, t, by)
  <1>1. /\ a \in Steps /\ a.do = "exists" /\ a.p = s /\ a.q = s
        /\ b \in Steps /\ b.do = "free" /\ b.p = t /\ b.q = t
        /\ d \in Steps /\ d.p = s /\ d.q = t
        /\ d.do = IF host THEN "rename" ELSE "mv"
    BY DEF One, Two, Do, Steps, Doings
  <1>2. S = IF host THEN <<a, b, d>> ELSE <<b, d>>
    BY DEF Rename
  <1> HIDE DEF a, b, d
  <1>3. CASE host
    BY <1>1, <1>2, <1>3 DEF Fits, RenameSteps
  <1>4. CASE ~ host
    BY <1>1, <1>2, <1>4 DEF Fits, RenameSteps
  <1>5. QED
    BY <1>3, <1>4

ArchiveSteps(S, host, s, t) ==
    /\ Len(S) = IF host THEN 5 ELSE 4
    /\ S[1].do = "free" /\ S[1].p = t
    /\ S[2].do = "exists" /\ S[2].p = s
    /\ \A k \in 3 .. Len(S) : S[k].p = t
    /\ S[1].err = "fail" /\ S[2].err = "fail"
    /\ S[3].err = (IF host THEN "unlink" ELSE "ignore") /\ S[4].err = S[3].err
    /\ host => /\ S[3].do = "open" /\ S[4].do = "fill"
               /\ S[5].do = "chown"
    /\ ~ host => S[3].do = "tar" /\ S[4].do = "replace"

(* An archive: the name is free before anything is written to it.          *)
LEMMA ArchiveScript ==
  ASSUME NEW host \in BOOLEAN, NEW s \in Paths, NEW t \in Paths,
         NEW S, S = CreateArchive(host, s, t)
  PROVE  Fits(S, {s, t}) /\ ArchiveSteps(S, host, s, t)
  <1> DEFINE by == IF host THEN "call" ELSE "shell"
             a == One("free", t, by)
             b == One("exists", s, by)
             d == Do("open", t, t, "child", "unlink")
             e == Do("fill", t, t, "child", "unlink")
             g == Chown(t)
             m == Do("tar", t, t, "shell", "ignore")
             n == Do("replace", t, t, "shell", "ignore")
  <1>1. /\ a \in Steps /\ a.do = "free" /\ a.p = t /\ a.q = t
        /\ b \in Steps /\ b.do = "exists" /\ b.p = s /\ b.q = s
        /\ a.err = "fail" /\ b.err = "fail"
    BY DEF One, Do, Steps, Doings
  <1>2. /\ d \in Steps /\ d.do = "open" /\ d.p = t /\ d.q = t
        /\ d.err = "unlink" /\ e.err = "unlink"
        /\ e \in Steps /\ e.do = "fill" /\ e.p = t /\ e.q = t
        /\ g \in Steps /\ g.do = "chown" /\ g.p = t /\ g.q = t
    BY DEF One, Do, Chown, Steps, Doings
  <1>3. /\ m \in Steps /\ m.do = "tar" /\ m.p = t /\ m.q = t
        /\ m.err = "ignore" /\ n.err = "ignore"
        /\ n \in Steps /\ n.do = "replace" /\ n.p = t /\ n.q = t
    BY DEF Do, Steps, Doings
  <1>4. S = IF host THEN <<a, b, d, e, g>> ELSE <<a, b, m, n>>
    BY DEF CreateArchive
  <1> HIDE DEF a, b, d, e, g, m, n
  <1>5. CASE host
    BY <1>1, <1>2, <1>4, <1>5 DEF Fits, ArchiveSteps
  <1>6. CASE ~ host
    <2>1. S = <<a, b, m, n>>
      BY <1>4, <1>6
    <2>2. /\ S \in Seq(Steps) /\ Len(S) = 4
          /\ S[1] = a /\ S[2] = b /\ S[3] = m /\ S[4] = n
      BY <1>1, <1>3, <2>1
    <2>3. QED
      BY <1>1, <1>3, <1>6, <2>2 DEF Fits, ArchiveSteps
  <1>7. QED
    BY <1>5, <1>6

(* An extraction opens and fills its target after the archive was read.    *)
LEMMA ExtractScript ==
  ASSUME NEW s \in Paths, NEW t \in Paths, NEW S, S = Extract(s, t)
  PROVE  /\ Fits(S, {s, t}) /\ Len(S) = 5
         /\ S[1].do = "exists" /\ S[2].do = "chown" /\ S[3].do = "inspect"
         /\ S[4].do = "open" /\ S[4].p = t /\ S[5].do = "fill" /\ S[5].p = t
  <1> DEFINE a == One("exists", s, "call")
             b == Chown(t)
             d == One("inspect", t, "child")
             e == One("open", t, "shell")
             g == One("fill", t, "shell")
  <1>1. /\ a \in Steps /\ a.do = "exists" /\ a.p = s /\ a.q = s
        /\ b \in Steps /\ b.do = "chown" /\ b.p = t /\ b.q = t
        /\ d \in Steps /\ d.do = "inspect" /\ d.p = t /\ d.q = t
    BY DEF One, Chown, Do, Steps, Doings
  <1>2. /\ e \in Steps /\ e.do = "open" /\ e.p = t /\ e.q = t
        /\ g \in Steps /\ g.do = "fill" /\ g.p = t /\ g.q = t
    BY DEF One, Do, Steps, Doings
  <1>3. S = <<a, b, d, e, g>>
    BY DEF Extract
  <1> HIDE DEF a, b, d, e, g
  <1>4. QED
    BY <1>1, <1>2, <1>3 DEF Fits

(* The checks of a move and then its renames, for one path and for two.    *)
MoveSteps(S, host, s, t) ==
    /\ Len(S) = 3 * Len(t)
    /\ S[1].do = "exists" /\ S[1].p = s[1]
    /\ S[2].do = "free" /\ S[2].p = t[1]
    /\ Len(t) = 1 => /\ S[3].do = IF host THEN "rename" ELSE "mv"
                     /\ S[3].p = s[1] /\ S[3].q = t[1]
    /\ Len(t) = 2 =>
         /\ S[3].do = "exists" /\ S[3].p = s[2]
         /\ S[4].do = "free" /\ S[4].p = t[2]
         /\ S[5].do = IF host THEN "rename" ELSE "mv"
         /\ S[5].p = s[1] /\ S[5].q = t[1]
         /\ S[6].do = IF host THEN "rename" ELSE "mv"
         /\ S[6].p = s[2] /\ S[6].q = t[2]

(* A move of one or two sources: all checks, then the renames.             *)
LEMMA MoveScript ==
  ASSUME NEW host \in BOOLEAN, NEW s \in Seq(Paths), NEW t \in Seq(Paths),
         Len(s) = Len(t), Len(t) \in {1, 2},
         NEW S, S = MoveFiles(host, s, t)
  PROVE  Fits(S, Range(s) \cup Range(t)) /\ MoveSteps(S, host, s, t)
  <1> DEFINE by == IF host THEN "call" ELSE "shell"
             n == Len(s)
             C(k) == IF k % 2 = 1 THEN One("exists", s[(k + 1) \div 2], by)
                     ELSE One("free", t[k \div 2], by)
             M(k) == IF host THEN Two("rename", s[k], t[k], by)
                     ELSE Do("mv", s[k], t[k], by,
                             IF k < n THEN "ignore" ELSE "fail")
             checks == [k \in 1 .. 2 * n |-> C(k)]
             moves == [k \in 1 .. n |-> M(k)]
             U == Range(s) \cup Range(t)
  <1>0. PICK A, B : A = checks /\ B = moves
    OBVIOUS
  <1>1. S = A \o B
    BY <1>0 DEF MoveFiles
  <1>2. \A k \in 1 .. n : s[k] \in U /\ t[k] \in U /\ s[k] \in Paths /\ t[k] \in Paths
    BY DEF Range
  <1>3. ASSUME NEW k \in 1 .. n
        PROVE  /\ M(k) \in Steps /\ M(k).p = s[k] /\ M(k).q = t[k]
               /\ M(k).do = IF host THEN "rename" ELSE "mv"
    BY <1>2, <1>3 DEF Two, Do, Steps, Doings
  <1>4. ASSUME NEW k \in 1 .. n
        PROVE  /\ C(2 * k - 1) = One("exists", s[k], by)
               /\ C(2 * k) = One("free", t[k], by)
    BY <1>4
  <1>5. ASSUME NEW k \in 1 .. n
        PROVE  /\ C(2 * k - 1) \in Steps /\ C(2 * k) \in Steps
               /\ C(2 * k - 1).do = "exists" /\ C(2 * k).do = "free"
               /\ C(2 * k - 1).p = s[k] /\ C(2 * k - 1).q = s[k]
               /\ C(2 * k).p = t[k] /\ C(2 * k).q = t[k]
    <2>1. /\ C(2 * k - 1) = One("exists", s[k], by)
          /\ C(2 * k) = One("free", t[k], by)
      BY <1>4, <1>5
    <2> HIDE DEF C
    <2>2. QED
      BY <2>1, <1>2, <1>5 DEF One, Do, Steps, Doings
  <1> HIDE DEF C, M, U
  <1>6. n \in {1, 2}
    OBVIOUS
  <1>7. CASE n = 1
    <2>1. /\ A \in Seq(Steps) /\ Len(A) = 2
          /\ A[1] = C(1) /\ A[2] = C(2)
      <3>1. C(1) \in Steps /\ C(2) \in Steps
        BY <1>5, <1>7
      <3>2. \A k \in 1 .. 2 * n : C(k) \in Steps
        BY <3>1, <1>7
      <3>3. QED
        BY <1>0, <1>7, <3>2
    <2>2. B \in Seq(Steps) /\ Len(B) = 1 /\ B[1] = M(1)
      BY <1>0, <1>3, <1>7
    <2>3. /\ S \in Seq(Steps) /\ Len(S) = 3
          /\ S[1] = C(1) /\ S[2] = C(2) /\ S[3] = M(1)
      <3>1. A \in Seq(Steps) /\ B \in Seq(Steps)
        BY <1>1, <2>1, <2>2
      <3>2. /\ S \in Seq(Steps) /\ Len(S) = Len(A) + Len(B)
            /\ \A i \in 1 .. Len(A) : S[i] = A[i]
            /\ \A i \in Len(A) + 1 .. Len(A) + Len(B) :
                 S[i] = B[i - Len(A)]
        BY <1>1, <3>1, Concatenated, SMT
      <3>3. QED
        BY <1>1, <2>1, <2>2, <3>2
    <2>4. /\ C(1).do = "exists" /\ C(2).do = "free"
          /\ C(1).p = s[1] /\ C(1).q = s[1] /\ C(2).p = t[1] /\ C(2).q = t[1]
          /\ M(1).p = s[1] /\ M(1).q = t[1]
          /\ M(1).do = IF host THEN "rename" ELSE "mv"
      BY <1>3, <1>5, <1>7
    <2>5. Fits(S, U)
      BY <1>2, <1>7, <2>3, <2>4 DEF Fits
    <2>6. QED
      BY <1>7, <2>3, <2>4, <2>5 DEF U, MoveSteps
  <1>8. CASE n = 2
    <2>1. /\ A \in Seq(Steps) /\ Len(A) = 4
          /\ A[1] = C(1) /\ A[2] = C(2)
          /\ A[3] = C(3) /\ A[4] = C(4)
      <3>1. C(1) \in Steps /\ C(2) \in Steps /\ C(3) \in Steps /\ C(4) \in Steps
        BY <1>5, <1>8
      <3>2. \A k \in 1 .. 2 * n : C(k) \in Steps
        BY <3>1, <1>8
      <3>3. QED
        BY <1>0, <1>8, <3>2
    <2>2. /\ B \in Seq(Steps) /\ Len(B) = 2
          /\ B[1] = M(1) /\ B[2] = M(2)
      BY <1>0, <1>3, <1>8
    <2>3. /\ S \in Seq(Steps) /\ Len(S) = 6
          /\ S[1] = C(1) /\ S[2] = C(2) /\ S[3] = C(3) /\ S[4] = C(4)
          /\ S[5] = M(1) /\ S[6] = M(2)
      <3>1. A \in Seq(Steps) /\ B \in Seq(Steps)
        BY <1>1, <2>1, <2>2
      <3>2. /\ S \in Seq(Steps) /\ Len(S) = Len(A) + Len(B)
            /\ \A i \in 1 .. Len(A) : S[i] = A[i]
            /\ \A i \in Len(A) + 1 .. Len(A) + Len(B) :
                 S[i] = B[i - Len(A)]
        BY <1>1, <3>1, Concatenated, SMT
      <3>3. QED
        BY <1>1, <2>1, <2>2, <3>2
    <2>4. /\ C(1).do = "exists" /\ C(2).do = "free"
          /\ C(1).p = s[1] /\ C(1).q = s[1] /\ C(2).p = t[1] /\ C(2).q = t[1]
          /\ C(3).do = "exists" /\ C(4).do = "free"
          /\ C(3).p = s[2] /\ C(3).q = s[2] /\ C(4).p = t[2] /\ C(4).q = t[2]
      BY <1>5, <1>8
    <2>5. /\ M(1).p = s[1] /\ M(1).q = t[1]
          /\ M(1).do = IF host THEN "rename" ELSE "mv"
          /\ M(2).p = s[2] /\ M(2).q = t[2]
          /\ M(2).do = IF host THEN "rename" ELSE "mv"
      BY <1>3, <1>8
    <2>6. Fits(S, U)
      BY <1>2, <1>8, <2>3, <2>4, <2>5 DEF Fits
    <2>7. QED
      BY <1>8, <2>3, <2>4, <2>5, <2>6 DEF U, MoveSteps
  <1>9. QED
    BY <1>6, <1>7, <1>8

PackSteps(S, host, p, q) ==
    /\ Len(S) = IF host THEN 10 ELSE 1
    /\ Len(S) = 1 => S[1].do = "refuse"
    /\ Len(S) = 10 =>
         /\ S[1].do = "read_manifest" /\ S[2].do = "get"
         /\ S[3].do = "part" /\ S[4].do = "stream" /\ S[5].do = "clear"
         /\ S[6].do = "place" /\ S[7].do = "part" /\ S[8].do = "copy"
         /\ S[9].do = "clear" /\ S[10].do = "place"
         /\ \A k \in 1 .. 6 : S[k].p = p
         /\ \A k \in 7 .. 10 : S[k].p = q
    /\ \A k \in 1 .. Len(S) : S[k].err = "fail"

(* A modpack: each part file is filled before it takes its place.          *)
LEMMA PackScript ==
  ASSUME NEW host \in BOOLEAN, NEW p \in Paths, NEW q \in Paths,
         NEW S, S = InstallModpack(host, p, q)
  PROVE  Fits(S, {p, q}) /\ PackSteps(S, host, p, q)
  <1>1. CASE ~ host
    <2> DEFINE a == One("refuse", p, "call")
    <2>1. a \in Steps /\ a.do = "refuse" /\ a.p = p /\ a.q = p /\ a.err = "fail"
      BY DEF One, Do, Steps, Doings
    <2>2. S = <<a>>
      BY <1>1 DEF InstallModpack
    <2> HIDE DEF a
    <2>3. S \in Seq(Steps) /\ Len(S) = 1 /\ S[1] = a
      BY <2>1, <2>2
    <2>4. QED
      BY <1>1, <2>1, <2>3 DEF Fits, PackSteps
  <1>2. CASE host
    <2> DEFINE a == One("read_manifest", p, "call")
               D == download_file(p)
               E == extract_overrides(q)
    <2>1. /\ a \in Steps /\ a.do = "read_manifest" /\ a.p = p /\ a.q = p
          /\ a.err = "fail"
      BY DEF One, Do, Steps, Doings
    <2>2. /\ D \in Seq(Steps) /\ Len(D) = 5 /\ D[1].do = "get"
          /\ D[2].do = "part" /\ D[3].do = "stream" /\ D[4].do = "clear"
          /\ D[5].do = "place"
          /\ \A k \in 1 .. 5 : D[k].p = p /\ D[k].q = p /\ D[k].err = "fail"
      <3> DEFINE d1 == One("get", p, "child")
                 d2 == One("part", p, "call")
                 d3 == One("stream", p, "child")
                 d4 == One("clear", p, "call")
                 d5 == One("place", p, "call")
      <3>1. /\ d1 \in Steps /\ d1.do = "get" /\ d1.p = p /\ d1.q = p
            /\ d2 \in Steps /\ d2.do = "part" /\ d2.p = p /\ d2.q = p
            /\ d3 \in Steps /\ d3.do = "stream" /\ d3.p = p /\ d3.q = p
            /\ d1.err = "fail" /\ d2.err = "fail" /\ d3.err = "fail"
        BY DEF One, Do, Steps, Doings
      <3>2. /\ d4 \in Steps /\ d4.do = "clear" /\ d4.p = p /\ d4.q = p
            /\ d5 \in Steps /\ d5.do = "place" /\ d5.p = p /\ d5.q = p
            /\ d4.err = "fail" /\ d5.err = "fail"
        BY DEF One, Do, Steps, Doings
      <3>3. D = <<d1, d2, d3, d4, d5>>
        BY DEF download_file
      <3> HIDE DEF d1, d2, d3, d4, d5, D
      <3>4. /\ D \in Seq(Steps) /\ Len(D) = 5 /\ D[1] = d1 /\ D[2] = d2
            /\ D[3] = d3 /\ D[4] = d4 /\ D[5] = d5
        BY <3>1, <3>2, <3>3
      <3>5. QED
        BY <3>1, <3>2, <3>4
    <2>3. /\ E \in Seq(Steps) /\ Len(E) = 4
          /\ E[1].do = "part" /\ E[2].do = "copy" /\ E[3].do = "clear"
          /\ E[4].do = "place"
          /\ \A k \in 1 .. 4 : E[k].p = q /\ E[k].q = q /\ E[k].err = "fail"
      <3> DEFINE e1 == One("part", q, "shell")
                 e2 == One("copy", q, "shell")
                 e3 == One("clear", q, "shell")
                 e4 == One("place", q, "shell")
      <3>1. /\ e1 \in Steps /\ e1.do = "part" /\ e1.p = q /\ e1.q = q
            /\ e2 \in Steps /\ e2.do = "copy" /\ e2.p = q /\ e2.q = q
            /\ e1.err = "fail" /\ e2.err = "fail"
        BY DEF One, Do, Steps, Doings
      <3>2. /\ e3 \in Steps /\ e3.do = "clear" /\ e3.p = q /\ e3.q = q
            /\ e4 \in Steps /\ e4.do = "place" /\ e4.p = q /\ e4.q = q
            /\ e3.err = "fail" /\ e4.err = "fail"
        BY DEF One, Do, Steps, Doings
      <3>3. E = <<e1, e2, e3, e4>>
        BY DEF extract_overrides
      <3> HIDE DEF e1, e2, e3, e4, E
      <3>4. /\ E \in Seq(Steps) /\ Len(E) = 4 /\ E[1] = e1 /\ E[2] = e2
            /\ E[3] = e3 /\ E[4] = e4
        BY <3>1, <3>2, <3>3
      <3>5. QED
        BY <3>1, <3>2, <3>4
    <2>4. S = <<a>> \o D \o E
      BY <1>2 DEF InstallModpack
    <2> DEFINE B == <<a>> \o D
    <2> HIDE DEF a, D, E
    <2>5. /\ B \in Seq(Steps) /\ Len(B) = 6 /\ B[1] = a /\ B[2] = D[1]
          /\ B[3] = D[2] /\ B[4] = D[3] /\ B[5] = D[4] /\ B[6] = D[5]
      <3>1. /\ <<a>> \in Seq(Steps) /\ Len(<<a>>) = 1 /\ <<a>>[1] = a
        BY <2>1
      <3> DEFINE A == <<a>>
      <3> HIDE DEF A
      <3>2. B = A \o D /\ A \in Seq(Steps) /\ Len(A) = 1 /\ A[1] = a
        BY <3>1 DEF A
      <3> HIDE DEF B
      <3>3. QED
        <4>1. A \in Seq(Steps) /\ D \in Seq(Steps)
          BY <2>2, <3>2
        <4>2. /\ B \in Seq(Steps) /\ Len(B) = Len(A) + Len(D)
              /\ \A i \in 1 .. Len(A) : B[i] = A[i]
              /\ \A i \in Len(A) + 1 .. Len(A) + Len(D) :
                   B[i] = D[i - Len(A)]
          <5>1. B = A \o D
            BY <3>2
          <5>2. QED
            BY <4>1, <5>1, SMTT(30)
        <4>3. QED
          BY <2>2, <3>2, <4>2, SMTT(30)
    <2>6. S = B \o E
      BY <2>4
    <2> HIDE DEF B
    <2>7. /\ S \in Seq(Steps) /\ Len(S) = 10
          /\ S[1] = B[1] /\ S[2] = B[2] /\ S[3] = B[3] /\ S[4] = B[4]
          /\ S[5] = B[5] /\ S[6] = B[6]
          /\ S[7] = E[1] /\ S[8] = E[2] /\ S[9] = E[3] /\ S[10] = E[4]
      <3>1. B \in Seq(Steps) /\ E \in Seq(Steps)
        BY <2>3, <2>5
      <3>2. /\ S \in Seq(Steps) /\ Len(S) = Len(B) + Len(E)
            /\ \A i \in 1 .. Len(B) : S[i] = B[i]
            /\ \A i \in Len(B) + 1 .. Len(B) + Len(E) :
                 S[i] = E[i - Len(B)]
        BY <3>1, <2>6
      <3>3. Len(B) = 6 /\ Len(E) = 4
        BY <2>3, <2>5
      <3>4. /\ S[1] = B[1] /\ S[2] = B[2] /\ S[3] = B[3] /\ S[4] = B[4]
            /\ S[5] = B[5] /\ S[6] = B[6]
        BY <3>2, <3>3
      <3>5. /\ S[7] = E[7 - 6] /\ S[8] = E[8 - 6] /\ S[9] = E[9 - 6]
            /\ S[10] = E[10 - 6]
        BY <3>2, <3>3
      <3>6. QED
        BY <3>2, <3>3, <3>4, <3>5
    <2>8. /\ \A k \in 1 .. 6 : S[k].p = p /\ S[k].q = p /\ S[k].err = "fail"
          /\ \A k \in 7 .. 10 : S[k].p = q /\ S[k].q = q /\ S[k].err = "fail"
      BY <2>1, <2>2, <2>3, <2>5, <2>7
    <2>9. Fits(S, {p, q}) /\ \A k \in 1 .. Len(S) : S[k].err = "fail"
      BY <2>7, <2>8 DEF Fits
    <2>10. /\ S[1].do = "read_manifest" /\ S[2].do = "get"
           /\ S[3].do = "part" /\ S[4].do = "stream" /\ S[5].do = "clear"
           /\ S[6].do = "place"
      BY <2>1, <2>2, <2>5, <2>7
    <2>11. /\ S[7].do = "part" /\ S[8].do = "copy"
           /\ S[9].do = "clear" /\ S[10].do = "place"
      BY <2>3, <2>7
    <2>12. Len(S) = IF host THEN 10 ELSE 1
      BY <1>2, <2>7
    <2>13. PackSteps(S, host, p, q)
      <3>1. Len(S) = 10 /\ Len(S) # 1
        BY <2>7
      <3>2. \A k \in 1 .. 6 : S[k].p = p
        BY <2>8
      <3>3. \A k \in 7 .. 10 : S[k].p = q
        BY <2>8
      <3>4. \A k \in 1 .. Len(S) : S[k].err = "fail"
        BY <2>9
      <3>5. QED
        BY <2>10, <2>11, <2>12, <3>1, <3>2, <3>3, <3>4, Zenon DEF PackSteps
    <2>14. QED
      BY <2>9, <2>13
  <1>3. QED
    BY <1>1, <1>2

-----------------------------------------------------------------------------
(* Each step takes its script from one stage to the next.                  *)
LEMMA WriteMoves ==
  ASSUME NEW host \in BOOLEAN, NEW c \in Calls, NEW r, Shape(r),
         r.op = "write", NEW S, S = Script(host, r), NEW k \in 1 .. Len(S),
         NEW T \in [Paths -> Contents], NEW P \in [Paths -> Contents],
         NEW T2, NEW P2,
         Stage(host, c, r, k, T, P), Effect(S[k], c, T, P, T2, P2)
  PROVE  Stage(host, c, r, k + 1, T2, P2)
  <1> DEFINE s == r.from[1]
             t == r.to[1]
  <1>1. t \in Paths /\ S = Write(host, t)
    BY DEF Shape, Script
  <1>2. /\ Fits(S, {t}) /\ Len(S) = IF host THEN 3 ELSE 2
        /\ S[1].do = "open" /\ S[2].do = "fill"
        /\ host => S[3].do = "chown"
    BY <1>1, WriteScript
  <1>3. S[k].p = t
    BY <1>2 DEF Fits
  <1>4. WriteStage(c, t, k, T) => WriteStage(c, t, k + 1, T2)
    <2>1. CASE k = 1
      BY <1>1, <1>2, <1>3, <2>1 DEF WriteStage, Effect, With
    <2>2. CASE k = 2
      BY <1>1, <1>2, <1>3, <2>2 DEF WriteStage, Effect, With
    <2>3. CASE k = 3
      BY <1>1, <1>2, <1>3, <2>3 DEF WriteStage, Effect, With
    <2>4. QED
      BY <1>2, <2>1, <2>2, <2>3
  <1>5. QED
    BY <1>4 DEF Stage

(* The stages of an upload.                                                *)
LEMMA UploadMoves ==
  ASSUME NEW host \in BOOLEAN, NEW c \in Calls, NEW r, Shape(r),
         r.op = "upload", NEW S, S = Script(host, r), NEW k \in 1 .. Len(S),
         NEW T \in [Paths -> Contents], NEW P \in [Paths -> Contents],
         NEW T2, NEW P2,
         Stage(host, c, r, k, T, P), Effect(S[k], c, T, P, T2, P2)
  PROVE  Stage(host, c, r, k + 1, T2, P2)
  <1> DEFINE s == r.from[1]
             t == r.to[1]
  <1>1. t \in Paths /\ S = Upload(host, t)
    BY DEF Shape, Script
  <1>2. /\ Fits(S, {t}) /\ Len(S) = IF host THEN 4 ELSE 3
        /\ S[1].do = "receive" /\ S[2].do = "open" /\ S[3].do = "fill"
        /\ host => S[4].do = "chown"
    BY <1>1, UploadScript
  <1>3. S[k].p = t
    BY <1>2 DEF Fits
  <1>4. WriteStage(c, t, k - 1, T) => WriteStage(c, t, k, T2)
    <2>1. CASE k = 1
      BY <1>1, <1>2, <1>3, <2>1 DEF WriteStage, Effect, With
    <2>2. CASE k = 2
      BY <1>1, <1>2, <1>3, <2>2 DEF WriteStage, Effect, With
    <2>3. CASE k = 3
      BY <1>1, <1>2, <1>3, <2>3 DEF WriteStage, Effect, With
    <2>4. CASE k = 4
      BY <1>1, <1>2, <1>3, <2>4 DEF WriteStage, Effect, With
    <2>5. QED
      BY <1>2, <2>1, <2>2, <2>3, <2>4
  <1>5. k + 1 - 1 = k
    OBVIOUS
  <1>6. QED
    BY <1>4, <1>5 DEF Stage

(* The stages of a deletion.                                               *)
LEMMA DeleteMoves ==
  ASSUME NEW host \in BOOLEAN, NEW c \in Calls, NEW r, Shape(r),
         r.op = "delete", NEW S, S = Script(host, r), NEW k \in 1 .. Len(S),
         NEW T \in [Paths -> Contents], NEW P \in [Paths -> Contents],
         NEW T2, NEW P2,
         Stage(host, c, r, k, T, P), Effect(S[k], c, T, P, T2, P2)
  PROVE  Stage(host, c, r, k + 1, T2, P2)
  <1> DEFINE s == r.from[1]
             t == r.to[1]
  <1>1. t \in Paths /\ S = Delete(host, t)
    BY DEF Shape, Script
  <1>2. /\ Fits(S, {t}) /\ Len(S) = IF host THEN 2 ELSE 1
        /\ host => (S[1].do = "exists" /\ S[2].do = "remove")
        /\ ~ host => S[1].do = "rm"
    BY <1>1, DeleteScript
  <1>3. S[k].p = t
    BY <1>2 DEF Fits
  <1>4. k + 1 > (IF host THEN 2 ELSE 1) => T2[t] = Absent
    BY <1>1, <1>2, <1>3 DEF Effect, With
  <1>5. QED
    BY <1>4 DEF Stage

(* The stages of a new directory.                                          *)
LEMMA DirectoryMoves ==
  ASSUME NEW host \in BOOLEAN, NEW c \in Calls, NEW r, Shape(r),
         r.op = "create_directory", NEW S, S = Script(host, r), NEW k \in 1 .. Len(S),
         NEW T \in [Paths -> Contents], NEW P \in [Paths -> Contents],
         NEW T2, NEW P2,
         Stage(host, c, r, k, T, P), Effect(S[k], c, T, P, T2, P2)
  PROVE  Stage(host, c, r, k + 1, T2, P2)
  <1> DEFINE s == r.from[1]
             t == r.to[1]
  <1>1. t \in Paths /\ S = CreateDirectory(host, t)
    BY DEF Shape, Script
  <1>2. /\ Fits(S, {t}) /\ Len(S) = IF host THEN 2 ELSE 1
        /\ S[1].do = "mkdir" /\ (host => S[2].do = "chown")
    BY <1>1, DirectoryScript
  <1>3. S[k].p = t
    BY <1>2 DEF Fits
  <1>4. (k > 1 => T[t] = c) => T2[t] = c
    BY <1>1, <1>2, <1>3 DEF Effect, With
  <1>5. QED
    BY <1>4 DEF Stage

(* A rename to a free name, alone or after the checks of a move.           *)
LEMMA RenameTakesPlace ==
  ASSUME NEW c, NEW s \in Paths, NEW t \in Paths, NEW h,
         NEW T \in [Paths -> Contents], NEW P, NEW T2, NEW P2, NEW i,
         i.do \in {"rename", "mv"}, i.p = s, i.q = t,
         Effect(i, c, T, P, T2, P2), RenameStage(h, s, t, 3, T)
  PROVE  RenameStage(h, s, t, 4, T2)
  BY DEF RenameStage, Effect, With

(* The stages of a rename.                                                 *)
LEMMA RenameMoves ==
  ASSUME NEW host \in BOOLEAN, NEW c \in Calls, NEW r, Shape(r),
         r.op = "rename", NEW S, S = Script(host, r), NEW k \in 1 .. Len(S),
         NEW T \in [Paths -> Contents], NEW P \in [Paths -> Contents],
         NEW T2, NEW P2,
         Stage(host, c, r, k, T, P), Effect(S[k], c, T, P, T2, P2)
  PROVE  Stage(host, c, r, k + 1, T2, P2)
  <1> DEFINE s == r.from[1]
             t == r.to[1]
  <1>1. s \in Paths /\ t \in Paths /\ S = Rename(host, s, t)
    BY DEF Shape, Script
  <1>2. RenameSteps(S, host, s, t)
    BY <1>1, RenameScript
  <1> DEFINE m == IF host THEN k ELSE k + 1
  <1>3. RenameStage(r.had, s, t, m, T)
    BY DEF Stage
  <1>4. RenameStage(r.had, s, t, m + 1, T2)
    <2>1. CASE m = 3
      <3>1. S[k].do \in {"rename", "mv"} /\ S[k].p = s /\ S[k].q = t
        BY <1>2, <2>1 DEF RenameSteps
      <3>2. RenameStage(r.had, s, t, 3, T)
        BY <1>3, <2>1
      <3>3. RenameStage(r.had, s, t, 4, T2)
        BY <1>1, <3>1, <3>2, RenameTakesPlace
      <3>4. QED
        BY <2>1, <3>3
    <2>2. CASE m = 2
      <3>1. S[k].do = "free" /\ S[k].p = t
        BY <1>2, <2>2 DEF RenameSteps
      <3>2. T2 = T /\ T[t] = Absent
        BY <3>1 DEF Effect
      <3>3. QED
        BY <1>3, <2>2, <3>2 DEF RenameStage
    <2>3. CASE m = 1
      <3>1. S[k].do = "exists"
        BY <1>2, <2>3 DEF RenameSteps
      <3>2. T2 = T
        BY <3>1 DEF Effect
      <3>3. QED
        BY <1>3, <2>3, <3>2 DEF RenameStage
    <2>4. QED
      BY <1>2, <2>1, <2>2, <2>3 DEF RenameSteps
  <1>5. m + 1 = IF host THEN k + 1 ELSE (k + 1) + 1
    OBVIOUS
  <1>6. QED
    BY <1>4, <1>5 DEF Stage

(* The stages of a move: the second source waits for the first.            *)
LEMMA MoveMoves ==
  ASSUME NEW host \in BOOLEAN, NEW c \in Calls, NEW r, Shape(r),
         r.op = "move", NEW S, S = Script(host, r), NEW k \in 1 .. Len(S),
         NEW T \in [Paths -> Contents], NEW P \in [Paths -> Contents],
         NEW T2, NEW P2,
         Stage(host, c, r, k, T, P), Effect(S[k], c, T, P, T2, P2)
  PROVE  Stage(host, c, r, k + 1, T2, P2)
  <1> DEFINE s == r.from[1]
             t == r.to[1]
  <1>1. /\ r.from \in Seq(Paths) /\ r.to \in Seq(Paths)
        /\ Len(r.from) = Len(r.to) /\ Len(r.to) \in {1, 2}
        /\ Len(r.to) = 2 => r.from[1] # r.from[2] /\ r.to[1] # r.to[2]
    BY DEF Shape
  <1>2. S = MoveFiles(host, r.from, r.to)
    BY DEF Script
  <1>3. MoveSteps(S, host, r.from, r.to)
    BY <1>1, <1>2, MoveScript
  <1>4. s \in Paths /\ t \in Paths
    BY <1>1
  <1>5. CASE Len(r.to) = 1
    <2>1. RenameStage(r.had, s, t, k, T)
      BY <1>5 DEF Stage
    <2>2. RenameStage(r.had, s, t, k + 1, T2)
      <3>1. CASE k = 1
        <4>1. T2 = T
          BY <1>3, <3>1 DEF Effect, MoveSteps
        <4>2. QED
          BY <2>1, <3>1, <4>1 DEF RenameStage
      <3>2. CASE k = 2
        <4>1. T2 = T /\ T[t] = Absent
          BY <1>3, <3>2 DEF Effect, MoveSteps
        <4>2. QED
          BY <2>1, <3>2, <4>1 DEF RenameStage
      <3>3. CASE k = 3
        <4>1. S[k].do \in {"rename", "mv"} /\ S[k].p = s /\ S[k].q = t
          BY <1>3, <1>5, <3>3 DEF MoveSteps
        <4>2. RenameStage(r.had, s, t, 4, T2)
          BY <1>4, <2>1, <3>3, <4>1, RenameTakesPlace
        <4>3. QED
          BY <3>3, <4>2
      <3>4. QED
        BY <1>3, <1>5, <3>1, <3>2, <3>3 DEF MoveSteps
    <2>3. QED
      BY <1>5, <2>2 DEF Stage
  <1>6. CASE Len(r.to) = 2
    <2> DEFINE s2 == r.from[2]
               t2 == r.to[2]
               h == r.had
    <2>1. MoveStage(h, s, t, s2, t2, k, T)
      BY <1>6 DEF Stage
    <2>2. s2 \in Paths /\ t2 \in Paths /\ s # s2 /\ t # t2
      BY <1>1, <1>6
    <2>3. MoveStage(h, s, t, s2, t2, k + 1, T2)
      <3>1. CASE k = 1
        <4>1. T2 = T /\ T[s] # Absent
          BY <1>3, <3>1 DEF Effect, MoveSteps
        <4>2. QED
          BY <2>1, <3>1, <4>1 DEF MoveStage
      <3>2. CASE k = 2
        <4>1. T2 = T /\ T[t] = Absent
          BY <1>3, <3>2 DEF Effect, MoveSteps
        <4>2. QED
          BY <2>1, <3>2, <4>1 DEF MoveStage
      <3>3. CASE k = 3
        <4>1. T2 = T /\ T[s2] # Absent
          BY <1>3, <1>6, <3>3 DEF Effect, MoveSteps
        <4>2. QED
          BY <2>1, <3>3, <4>1 DEF MoveStage
      <3>4. CASE k = 4
        <4>1. T2 = T /\ T[t2] = Absent
          BY <1>3, <1>6, <3>4 DEF Effect, MoveSteps
        <4>2. QED
          BY <2>1, <3>4, <4>1 DEF MoveStage
      <3>5. CASE k = 5
        <4>1. S[k].do \in {"rename", "mv"} /\ S[k].p = s /\ S[k].q = t
          BY <1>3, <1>6, <3>5 DEF MoveSteps
        <4>2. /\ T[s] = h[s] /\ T[t] = h[t] /\ T[s2] = h[s2] /\ T[t2] = h[t2]
              /\ h[s] # Absent /\ h[t] = Absent /\ h[s2] # Absent
              /\ h[t2] = Absent
          BY <2>1, <3>5 DEF MoveStage
        <4>3. T2 = With(With(T, t, T[s]), s, Absent)
          BY <4>1, <4>2 DEF Effect
        <4>4. /\ T2[s] = Absent /\ T2[t] = h[s] /\ T2[s2] = h[s2]
              /\ T2[t2] = h[t2]
          BY <1>4, <2>2, <4>2, <4>3 DEF With
        <4>5. QED
          BY <3>5, <4>2, <4>4 DEF MoveStage
      <3>6. CASE k = 6
        <4>1. S[k].do \in {"rename", "mv"} /\ S[k].p = s2 /\ S[k].q = t2
          BY <1>3, <1>6, <3>6 DEF MoveSteps
        <4>2. /\ T[s] = Absent /\ T[t] = h[s] /\ T[s2] = h[s2] /\ T[t2] = h[t2]
              /\ h[s] # Absent /\ h[t] = Absent /\ h[s2] # Absent
              /\ h[t2] = Absent
          BY <2>1, <3>6 DEF MoveStage
        <4>3. T2 = With(With(T, t2, T[s2]), s2, Absent)
          BY <4>1, <4>2 DEF Effect
        <4>4. /\ T2[s] = Absent /\ T2[t] = h[s] /\ T2[s2] = Absent
              /\ T2[t2] = h[s2]
          BY <1>4, <2>2, <4>2, <4>3 DEF With
        <4>5. QED
          BY <3>6, <4>2, <4>4 DEF MoveStage
      <3>7. QED
        BY <1>3, <1>6, <3>1, <3>2, <3>3, <3>4, <3>5, <3>6 DEF MoveSteps
    <2>4. QED
      BY <1>6, <2>3 DEF Stage
  <1>7. QED
    BY <1>1, <1>5, <1>6

(* The stages of an archive.                                               *)
LEMMA ArchiveMoves ==
  ASSUME NEW host \in BOOLEAN, NEW c \in Calls, NEW r, Shape(r),
         r.op = "archive", NEW S, S = Script(host, r), NEW k \in 1 .. Len(S),
         NEW T \in [Paths -> Contents], NEW P \in [Paths -> Contents],
         NEW T2, NEW P2,
         Stage(host, c, r, k, T, P), Effect(S[k], c, T, P, T2, P2)
  PROVE  Stage(host, c, r, k + 1, T2, P2)
  <1> DEFINE s == r.from[1]
             t == r.to[1]
  <1>1. s \in Paths /\ t \in Paths /\ S = CreateArchive(host, s, t)
    BY DEF Shape, Script
  <1>2. ArchiveSteps(S, host, s, t)
    BY <1>1, ArchiveScript
  <1>3. ArchiveStage(host, c, r.had, t, k, T)
    BY DEF Stage
  <1>4. ArchiveStage(host, c, r.had, t, k + 1, T2)
    <2>1. CASE k = 1
      <3>1. T2 = T /\ T[t] = Absent
        BY <1>2, <2>1 DEF Effect, ArchiveSteps
      <3>2. QED
        BY <1>3, <2>1, <3>1 DEF ArchiveStage
    <2>2. CASE k = 2
      <3>1. T2 = T
        BY <1>2, <2>2 DEF Effect, ArchiveSteps
      <3>2. QED
        BY <1>3, <2>2, <3>1 DEF ArchiveStage
    <2>3. CASE k = 3
      <3>1. S[k].p = t /\ S[k].do = IF host THEN "open" ELSE "tar"
        BY <1>2, <2>3 DEF ArchiveSteps
      <3>2. T2[t] = IF host THEN Torn ELSE T[t]
        BY <1>1, <3>1 DEF Effect, With
      <3>3. QED
        BY <1>3, <2>3, <3>2 DEF ArchiveStage
    <2>4. CASE k = 4
      <3>1. S[k].p = t /\ S[k].do = IF host THEN "fill" ELSE "replace"
        BY <1>2, <2>4 DEF ArchiveSteps
      <3>2. T[t] = IF host THEN Torn ELSE Absent
        BY <1>3, <2>4 DEF ArchiveStage
      <3>3. T2[t] = c
        BY <1>1, <3>1, <3>2 DEF Effect, With
      <3>4. QED
        BY <1>3, <2>4, <3>3 DEF ArchiveStage
    <2>5. CASE k = 5
      <3>1. T2 = T
        BY <1>2, <2>5 DEF Effect, ArchiveSteps
      <3>2. QED
        BY <1>3, <2>5, <3>1 DEF ArchiveStage
    <2>6. QED
      BY <1>2, <2>1, <2>2, <2>3, <2>4, <2>5 DEF ArchiveSteps
  <1>5. QED
    BY <1>4 DEF Stage

(* The stages of an extraction.                                            *)
LEMMA ExtractMoves ==
  ASSUME NEW host \in BOOLEAN, NEW c \in Calls, NEW r, Shape(r),
         r.op = "extract", NEW S, S = Script(host, r), NEW k \in 1 .. Len(S),
         NEW T \in [Paths -> Contents], NEW P \in [Paths -> Contents],
         NEW T2, NEW P2,
         Stage(host, c, r, k, T, P), Effect(S[k], c, T, P, T2, P2)
  PROVE  Stage(host, c, r, k + 1, T2, P2)
  <1> DEFINE s == r.from[1]
             t == r.to[1]
  <1>1. s \in Paths /\ t \in Paths /\ S = Extract(s, t)
    BY DEF Shape, Script
  <1>f. Fits(S, {s, t})
    BY <1>1, ExtractScript
  <1>2. /\ Len(S) = 5
        /\ S[1].do = "exists" /\ S[2].do = "chown" /\ S[3].do = "inspect"
        /\ S[4].do = "open" /\ S[4].p = t /\ S[5].do = "fill" /\ S[5].p = t
    BY <1>f, <1>1, ExtractScript
  <1>3. (k = 5 => T[t] = Torn) => /\ k = 4 => T2[t] = Torn
                                  /\ k = 5 => T2[t] = c
    <2>1. CASE k = 4
      <3>1. T2 = With(T, t, Torn)
        BY <1>2, <2>1 DEF Effect
      <3>2. QED
        BY <1>1, <2>1, <3>1 DEF With
    <2>2. CASE k = 5
      <3>1. T[t] = Torn => T2 = With(T, t, c)
        BY <1>2, <2>2 DEF Effect
      <3>2. QED
        BY <1>1, <2>2, <3>1 DEF With
    <2>3. QED
      BY <2>1, <2>2
  <1>4. QED
    BY <1>2, <1>3 DEF Stage

(* The stages of a modpack: one file after the other.                      *)
LEMMA PackMoves ==
  ASSUME NEW host \in BOOLEAN, NEW c \in Calls, NEW r, Shape(r),
         r.op = "modpack", NEW S, S = Script(host, r), NEW k \in 1 .. Len(S),
         NEW T \in [Paths -> Contents], NEW P \in [Paths -> Contents],
         NEW T2, NEW P2,
         Stage(host, c, r, k, T, P), Effect(S[k], c, T, P, T2, P2)
  PROVE  Stage(host, c, r, k + 1, T2, P2)
  <1> DEFINE s == r.from[1]
             t == r.to[1]
  <1> DEFINE q == r.to[2]
             h == r.had
  <1>1. t \in Paths /\ q \in Paths /\ S = InstallModpack(host, t, q)
    BY DEF Shape, Script
  <1>2. PackSteps(S, host, t, q)
    BY <1>1, PackScript
  <1>3. host
    BY <1>2 DEF Effect, PackSteps
  <1>s. Len(S) = 10
    BY <1>2, <1>3 DEF PackSteps
  <1>t. /\ S[1].do = "read_manifest" /\ S[2].do = "get" /\ S[3].do = "part"
        /\ S[4].do = "stream" /\ S[5].do = "clear" /\ S[6].do = "place"
        /\ S[7].do = "part" /\ S[8].do = "copy" /\ S[9].do = "clear"
        /\ S[10].do = "place"
        /\ S[4].p = t /\ S[5].p = t /\ S[6].p = t
        /\ S[7].p = q /\ S[8].p = q /\ S[9].p = q /\ S[10].p = q
    BY <1>2, <1>s DEF PackSteps
  <1>4. PackStage(c, h, t, q, k, T, P)
    BY <1>3 DEF Stage
  <1>5. PackStage(c, h, t, q, k + 1, T2, P2)
    <2>1. CASE k \in {1, 2}
      <3>1. T2 = T /\ P2 = P
        BY <1>t, <2>1 DEF Effect
      <3>2. QED
        BY <1>4, <2>1, <3>1 DEF PackStage
    <2>2. CASE k = 3
      <3>1. T2 = T
        BY <1>t, <2>2 DEF Effect
      <3>2. QED
        BY <1>4, <2>2, <3>1 DEF PackStage
    <2>3. CASE k = 4
      <3>1. T2 = T /\ P2 = With(P, t, c)
        <4>1. S[k].do = "stream" /\ S[k].p = t
          BY <1>t, <2>3
        <4>2. QED
          BY <4>1 DEF Effect
      <3>2. P2[t] = c
        BY <1>1, <3>1 DEF With
      <3>3. QED
        BY <1>4, <2>3, <3>1, <3>2 DEF PackStage
    <2>4. CASE k = 5
      <3>1. T2 = With(T, t, Absent) /\ P2 = P
        <4>1. S[k].do = "clear" /\ S[k].p = t
          BY <1>t, <2>4
        <4>2. QED
          BY <4>1 DEF Effect
      <3>2. T2[t] = Absent /\ (t # q => T2[q] = T[q])
        BY <1>1, <3>1 DEF With
      <3>3. QED
        BY <1>4, <2>4, <3>1, <3>2 DEF PackStage
    <2>5. CASE k = 6
      <3>1. T2 = With(T, t, P[t]) /\ P2 = With(P, t, Absent)
        <4>1. S[k].do = "place" /\ S[k].p = t
          BY <1>t, <2>5
        <4>2. QED
          BY <4>1 DEF Effect
      <3>2. T2[t] = P[t] /\ (t # q => T2[q] = T[q]) /\ P2[t] = Absent
        BY <1>1, <3>1 DEF With
      <3>3. QED
        BY <1>4, <2>5, <3>1, <3>2 DEF PackStage
    <2>6. CASE k = 7
      <3>1. T2 = T /\ P2 = With(P, q, Torn)
        <4>1. S[k].do = "part" /\ S[k].p = q
          BY <1>t, <2>6
        <4>2. QED
          BY <4>1 DEF Effect
      <3>2. t # q => P2[t] = P[t]
        BY <1>1, <3>1 DEF With
      <3>3. QED
        BY <1>4, <2>6, <3>1, <3>2 DEF PackStage
    <2>7. CASE k = 8
      <3>1. T2 = T /\ P2 = With(P, q, c)
        <4>1. S[k].do = "copy" /\ S[k].p = q
          BY <1>t, <2>7
        <4>2. QED
          BY <4>1 DEF Effect
      <3>2. P2[q] = c /\ (t # q => P2[t] = P[t])
        BY <1>1, <3>1 DEF With
      <3>3. QED
        BY <1>4, <2>7, <3>1, <3>2 DEF PackStage
    <2>8. CASE k = 9
      <3>1. T2 = With(T, q, Absent) /\ P2 = P
        <4>1. S[k].do = "clear" /\ S[k].p = q
          BY <1>t, <2>8
        <4>2. QED
          BY <4>1 DEF Effect
      <3>2. T2[q] = Absent /\ (t # q => T2[t] = T[t])
        BY <1>1, <3>1 DEF With
      <3>3. QED
        BY <1>4, <2>8, <3>1, <3>2 DEF PackStage
    <2>9. CASE k = 10
      <3>1. T2 = With(T, q, P[q]) /\ P2 = With(P, q, Absent)
        <4>1. S[k].do = "place" /\ S[k].p = q
          BY <1>t, <2>9
        <4>2. QED
          BY <4>1 DEF Effect
      <3>2. /\ T2[q] = P[q] /\ P2[q] = Absent
            /\ t # q => T2[t] = T[t] /\ P2[t] = P[t]
        BY <1>1, <3>1 DEF With
      <3>3. QED
        BY <1>4, <2>9, <3>1, <3>2 DEF PackStage
    <2>10. k \in 1 .. 10
      BY <1>s
    <2>11. QED
      BY <2>10, <2>1, <2>2, <2>3, <2>4, <2>5, <2>6, <2>7, <2>8, <2>9
  <1>6. QED
    BY <1>3, <1>5 DEF Stage

(* The stages of any request.                                              *)
LEMMA StageMoves ==
  ASSUME NEW host \in BOOLEAN, NEW c \in Calls, NEW r, Shape(r),
         NEW S, S = Script(host, r), NEW k \in 1 .. Len(S),
         NEW T \in [Paths -> Contents], NEW P \in [Paths -> Contents],
         NEW T2, NEW P2,
         Stage(host, c, r, k, T, P), Effect(S[k], c, T, P, T2, P2)
  PROVE  Stage(host, c, r, k + 1, T2, P2)
  <1>1. CASE r.op = "write"
    BY <1>1, WriteMoves
  <1>2. CASE r.op = "upload"
    BY <1>2, UploadMoves
  <1>3. CASE r.op = "delete"
    BY <1>3, DeleteMoves
  <1>4. CASE r.op = "create_directory"
    BY <1>4, DirectoryMoves
  <1>5. CASE r.op = "rename"
    BY <1>5, RenameMoves
  <1>6. CASE r.op = "move"
    BY <1>6, MoveMoves
  <1>7. CASE r.op = "archive"
    BY <1>7, ArchiveMoves
  <1>8. CASE r.op = "extract"
    BY <1>8, ExtractMoves
  <1>9. CASE r.op = "modpack"
    BY <1>9, PackMoves
  <1>10. QED
    BY <1>1, <1>2, <1>3, <1>4, <1>5, <1>6, <1>7, <1>8, <1>9 DEF Shape

(* The paths that a request of each shape uses.                            *)
LEMMA PathsOfShape ==
  ASSUME NEW r, Shape(r)
  PROVE  /\ \A i \in 1 .. Len(r.from) : r.from[i] \in Uses(r) \cap Paths
         /\ \A i \in 1 .. Len(r.to) :
              /\ r.to[i] \in Uses(r) \cap Paths
              /\ r.to[i] \in Range(r.to)
         /\ Uses(r) \subseteq Paths
  <1>1. r.from \in Seq(Paths) /\ r.to \in Seq(Paths)
    BY DEF Shape
  <1>2. QED
    BY <1>1 DEF Uses, Range

(* A script begins at its first stage, with what its paths held.           *)
LEMMA StageBegins ==
  ASSUME NEW host, NEW c, NEW r, Shape(r), NEW T, NEW P,
         \A p \in Uses(r) : T[p] = r.had[p]
  PROVE  Stage(host, c, r, 1, T, P)
  <1>1. \A i \in 1 .. Len(r.from) : T[r.from[i]] = r.had[r.from[i]]
    BY PathsOfShape
  <1>2. \A i \in 1 .. Len(r.to) : T[r.to[i]] = r.had[r.to[i]]
    BY PathsOfShape
  <1>3. r.op \in {"archive", "rename", "move", "modpack"} =>
            T[r.to[1]] = r.had[r.to[1]]
    BY <1>2 DEF Shape
  <1>4. r.op \in {"rename", "move"} => T[r.from[1]] = r.had[r.from[1]]
    BY <1>1 DEF Shape
  <1>5. r.op = "move" /\ Len(r.to) = 2 => /\ T[r.from[2]] = r.had[r.from[2]]
                                         /\ T[r.to[2]] = r.had[r.to[2]]
    BY <1>1, <1>2 DEF Shape
  <1>6. r.op = "modpack" => T[r.to[2]] = r.had[r.to[2]]
    BY <1>2 DEF Shape
  <1>7. r.op = "archive" => ArchiveStage(host, c, r.had, r.to[1], 1, T)
    BY <1>3 DEF ArchiveStage
  <1>8. r.op = "rename" => RenameStage(r.had, r.from[1], r.to[1],
                                       IF host THEN 1 ELSE 1 + 1, T)
    BY <1>3, <1>4 DEF RenameStage
  <1>9. r.op = "move" => RenameStage(r.had, r.from[1], r.to[1], 1, T)
    BY <1>3, <1>4 DEF RenameStage
  <1>10. r.op = "move" /\ Len(r.to) = 2 =>
            MoveStage(r.had, r.from[1], r.to[1], r.from[2], r.to[2], 1, T)
    BY <1>3, <1>4, <1>5 DEF MoveStage
  <1>11. r.op = "modpack" => PackStage(c, r.had, r.to[1], r.to[2], 1, T, P)
    BY <1>3, <1>6 DEF PackStage
  <1>12. /\ WriteStage(c, r.to[1], 1, T)
         /\ WriteStage(c, r.to[1], 1 - 1, T)
    BY DEF WriteStage
  <1>13. QED
    BY <1>7, <1>8, <1>9, <1>10, <1>11, <1>12 DEF Stage

(* After the last step everything is done.                                 *)
LEMMA StageEnds ==
  ASSUME NEW host \in BOOLEAN, NEW c, NEW r, Shape(r), NEW T, NEW P,
         NEW S, S = Script(host, r), Stage(host, c, r, Len(S) + 1, T, P)
  PROVE  DoneIn(c, r, T, P)
  <1> DEFINE s == r.from[1]
             t == r.to[1]
  <1>1. CASE r.op = "write"
    <2>1. S = Write(host, t) /\ t \in Paths
      BY <1>1 DEF Shape, Script
    <2>2. Fits(S, {t}) /\ Len(S) = IF host THEN 3 ELSE 2
      BY <2>1, WriteScript
    <2>3. WriteStage(c, t, Len(S) + 1, T)
      BY <1>1 DEF Stage
    <2>4. QED
      BY <1>1, <2>2, <2>3 DEF WriteStage, DoneIn
  <1>2. CASE r.op = "upload"
    <2>1. S = Upload(host, t) /\ t \in Paths
      BY <1>2 DEF Shape, Script
    <2>2. Fits(S, {t}) /\ Len(S) = IF host THEN 4 ELSE 3
      BY <2>1, UploadScript
    <2>3. WriteStage(c, t, Len(S) + 1 - 1, T)
      BY <1>2 DEF Stage
    <2>4. QED
      BY <1>2, <2>2, <2>3 DEF WriteStage, DoneIn
  <1>3. CASE r.op = "delete"
    <2>1. S = Delete(host, t) /\ t \in Paths
      BY <1>3 DEF Shape, Script
    <2>2. Fits(S, {t}) /\ Len(S) = IF host THEN 2 ELSE 1
      BY <2>1, DeleteScript
    <2>3. Len(S) + 1 > (IF host THEN 2 ELSE 1) => T[t] = Absent
      BY <1>3 DEF Stage
    <2>4. QED
      BY <1>3, <2>2, <2>3 DEF DoneIn
  <1>4. CASE r.op = "create_directory"
    <2>1. S = CreateDirectory(host, t) /\ t \in Paths
      BY <1>4 DEF Shape, Script
    <2>2. Fits(S, {t}) /\ Len(S) = IF host THEN 2 ELSE 1
      BY <2>1, DirectoryScript
    <2>3. Len(S) + 1 > 1 => T[t] = c
      BY <1>4 DEF Stage
    <2>4. QED
      BY <1>4, <2>2, <2>3 DEF DoneIn
  <1>5. CASE r.op = "rename"
    <2>1. S = Rename(host, s, t) /\ s \in Paths /\ t \in Paths
      BY <1>5 DEF Shape, Script
    <2>2. RenameSteps(S, host, s, t)
      BY <2>1, RenameScript
    <2>3. RenameStage(r.had, s, t, IF host THEN Len(S) + 1 ELSE Len(S) + 1 + 1, T)
      BY <1>5 DEF Stage
    <2>4. T[s] = Absent /\ T[t] = r.had[s]
      BY <2>2, <2>3 DEF RenameSteps, RenameStage
    <2>5. QED
      BY <1>5, <2>4 DEF DoneIn, Shape
  <1>6. CASE r.op = "move"
    <2>1. /\ r.from \in Seq(Paths) /\ r.to \in Seq(Paths)
          /\ Len(r.from) = Len(r.to) /\ Len(r.to) \in {1, 2}
      BY <1>6 DEF Shape
    <2>2. S = MoveFiles(host, r.from, r.to)
      BY <1>6 DEF Script
    <2>3. MoveSteps(S, host, r.from, r.to)
      BY <2>1, <2>2, MoveScript
    <2>4. Len(S) = 3 * Len(r.to)
      BY <2>3 DEF MoveSteps
    <2>5. CASE Len(r.to) = 1
      <3>1. RenameStage(r.had, s, t, 4, T)
        BY <1>6, <2>4, <2>5 DEF Stage
      <3>2. QED
        BY <1>6, <2>1, <2>5, <3>1 DEF RenameStage, DoneIn
    <2>6. CASE Len(r.to) = 2
      <3>1. MoveStage(r.had, s, t, r.from[2], r.to[2], 7, T)
        BY <1>6, <2>4, <2>6 DEF Stage
      <3>2. QED
        BY <1>6, <2>1, <2>6, <3>1 DEF MoveStage, DoneIn
    <2>7. QED
      BY <2>1, <2>5, <2>6
  <1>7. CASE r.op = "archive"
    <2>1. S = CreateArchive(host, s, t) /\ s \in Paths /\ t \in Paths
      BY <1>7 DEF Shape, Script
    <2>2. ArchiveSteps(S, host, s, t)
      BY <2>1, ArchiveScript
    <2>3. Len(S) + 1 > 4
      BY <2>2 DEF ArchiveSteps
    <2>4. QED
      BY <1>7, <2>3 DEF Stage, ArchiveStage, DoneIn
  <1>8. CASE r.op = "extract"
    <2>1. S = Extract(s, t) /\ s \in Paths /\ t \in Paths
      BY <1>8 DEF Shape, Script
    <2>f. Fits(S, {s, t})
      BY <2>1, ExtractScript
    <2>2. Len(S) = 5
      BY <2>f, <2>1, ExtractScript
    <2>3. QED
      BY <1>8, <2>2 DEF Stage, DoneIn
  <1>9. CASE r.op = "modpack"
    <2>1. S = InstallModpack(host, t, r.to[2]) /\ t \in Paths /\ r.to[2] \in Paths
      BY <1>9 DEF Shape, Script
    <2>2. PackSteps(S, host, t, r.to[2])
      BY <2>1, PackScript
    <2>3. host \/ Len(S) + 1 = 1
      BY <1>9 DEF Stage
    <2>4. Len(S) = 10
      BY <2>2, <2>3 DEF PackSteps
    <2>5. PackStage(c, r.had, t, r.to[2], 11, T, P)
      BY <1>9, <2>4 DEF Stage
    <2>6. T[t] = c /\ P[t] = Absent /\ T[r.to[2]] = c /\ P[r.to[2]] = Absent
      BY <2>5 DEF PackStage
    <2>7. Range(r.to) = {t, r.to[2]}
      BY <1>9 DEF Shape, Range
    <2>8. QED
      BY <1>9, <2>6, <2>7 DEF DoneIn
  <1>10. QED
    BY <1>1, <1>2, <1>3, <1>4, <1>5, <1>6, <1>7, <1>8, <1>9 DEF Shape

(* A script keeps to the paths of its request.                             *)
LEMMA ScriptFits ==
  ASSUME NEW host \in BOOLEAN, NEW r, Shape(r), NEW S, S = Script(host, r)
  PROVE  Fits(S, Uses(r))
  <1> DEFINE s == r.from[1]
             t == r.to[1]
  <1>0. ASSUME NEW U \in SUBSET Uses(r), Fits(S, U)
        PROVE  Fits(S, Uses(r))
    BY <1>0 DEF Fits
  <1>t. t \in Uses(r) /\ t \in Paths
    BY PathsOfShape DEF Shape
  <1>s. r.op \in {"archive", "extract", "rename"} => s \in Uses(r) /\ s \in Paths
    BY PathsOfShape DEF Shape
  <1>1. CASE r.op = "write"
    <2>1. S = Write(host, t)
      BY <1>1 DEF Script
    <2>2. Fits(S, {t})
      BY <2>1, <1>t, WriteScript
    <2>3. QED
      BY <1>0, <1>t, <2>2
  <1>2. CASE r.op = "upload"
    <2>1. S = Upload(host, t)
      BY <1>2 DEF Script
    <2>2. Fits(S, {t})
      BY <2>1, <1>t, UploadScript
    <2>3. QED
      BY <1>0, <1>t, <2>2
  <1>3. CASE r.op = "delete"
    <2>1. S = Delete(host, t)
      BY <1>3 DEF Script
    <2>2. Fits(S, {t})
      BY <2>1, <1>t, DeleteScript
    <2>3. QED
      BY <1>0, <1>t, <2>2
  <1>4. CASE r.op = "create_directory"
    <2>1. S = CreateDirectory(host, t)
      BY <1>4 DEF Script
    <2>2. Fits(S, {t})
      BY <2>1, <1>t, DirectoryScript
    <2>3. QED
      BY <1>0, <1>t, <2>2
  <1>5. CASE r.op = "rename"
    <2>1. S = Rename(host, s, t)
      BY <1>5 DEF Script
    <2>2. Fits(S, {s, t})
      BY <2>1, <1>5, <1>s, <1>t, RenameScript
    <2>3. QED
      BY <1>0, <1>5, <1>s, <1>t, <2>2
  <1>6. CASE r.op = "move"
    <2>1. S = MoveFiles(host, r.from, r.to)
      BY <1>6 DEF Script
    <2>2. Fits(S, Range(r.from) \cup Range(r.to))
      BY <2>1, <1>6, MoveScript DEF Shape
    <2>3. QED
      BY <2>2 DEF Uses
  <1>7. CASE r.op = "archive"
    <2>1. S = CreateArchive(host, s, t)
      BY <1>7 DEF Script
    <2>2. Fits(S, {s, t})
      BY <2>1, <1>7, <1>s, <1>t, ArchiveScript
    <2>3. QED
      BY <1>0, <1>7, <1>s, <1>t, <2>2
  <1>8. CASE r.op = "extract"
    <2>1. S = Extract(s, t)
      BY <1>8 DEF Script
    <2>2. Fits(S, {s, t})
      BY <2>1, <1>8, <1>s, <1>t, ExtractScript
    <2>3. QED
      BY <1>0, <1>8, <1>s, <1>t, <2>2
  <1>9. CASE r.op = "modpack"
    <2>1. S = InstallModpack(host, t, r.to[2])
      BY <1>9 DEF Script
    <2>2. r.to[2] \in Uses(r) /\ r.to[2] \in Paths
      BY <1>9, PathsOfShape DEF Shape
    <2>3. Fits(S, {t, r.to[2]})
      BY <2>1, <2>2, <1>t, PackScript
    <2>4. QED
      BY <1>0, <1>t, <2>2, <2>3
  <1>10. QED
    BY <1>1, <1>2, <1>3, <1>4, <1>5, <1>6, <1>7, <1>8, <1>9 DEF Shape

(* A pack's step: its failure ends the call, and before its stream the     *)
(* old files are in place.                                                 *)
PackStep(i, r, T) ==
    /\ i.err = "fail" /\ i.do # "mismatch"
    /\ i.do = "stream" => \A p \in Range(r.to) : T[p] = r.had[p]

(* At every stage a pack's paths hold the old file, the new one, or        *)
(* nothing beside the new one; up to its verification they hold the old.   *)
LEMMA PackIsWhole ==
  ASSUME NEW host \in BOOLEAN, NEW c, NEW r, Shape(r), r.op = "modpack",
         NEW S, S = Script(host, r), NEW k \in 1 .. Len(S) + 1, NEW T, NEW P,
         Stage(host, c, r, k, T, P)
  PROVE  /\ WholePack(c, r, T, P)
         /\ k \in 1 .. Len(S) => PackStep(S[k], r, T)
  <1> DEFINE t == r.to[1]
             q == r.to[2]
  <1>1. S = InstallModpack(host, t, q) /\ t \in Paths /\ q \in Paths
    BY DEF Shape, Script
  <1>2. PackSteps(S, host, t, q)
    BY <1>1, PackScript
  <1>3. PackStage(c, r.had, t, q, k, T, P) /\ (host \/ k = 1)
    BY DEF Stage
  <1>4. Range(r.to) = {t, q}
    BY DEF Shape, Range
  <1>5. k \in 1 .. 11
    <2>1. Len(S) = 10 \/ Len(S) = 1
      BY <1>2 DEF PackSteps
    <2>2. CASE Len(S) = 10
      BY <2>2
    <2>3. CASE Len(S) = 1
      BY <2>3
    <2>4. QED
      BY <2>1, <2>2, <2>3
  <1>6. /\ T[t] = r.had[t] \/ T[t] = c \/ (T[t] = Absent /\ P[t] = c)
        /\ T[q] = r.had[q] \/ T[q] = c \/ (T[q] = Absent /\ P[q] = c)
    <2>1. CASE t = q
      BY <1>3, <1>5, <2>1 DEF PackStage
    <2>2. CASE t # q
      BY <1>3, <1>5, <2>2 DEF PackStage
    <2>3. QED
      BY <2>1, <2>2
  <1>7. WholePack(c, r, T, P)
    BY <1>4, <1>6 DEF WholePack
  <1>8. ASSUME k \in 1 .. Len(S)
        PROVE  /\ S[k].err = "fail" /\ S[k].do # "mismatch"
               /\ S[k].do = "stream" => k = 4
    <2>1. CASE Len(S) = 1
      <3>1. S[1].do = "refuse" /\ k = 1 /\ S[1].err = "fail"
        BY <1>2, <1>8, <2>1 DEF PackSteps
      <3>2. QED
        BY <3>1
    <2>2. CASE Len(S) = 10
      <3>1. /\ S[1].do = "read_manifest" /\ S[2].do = "get"
            /\ S[3].do = "part" /\ S[4].do = "stream" /\ S[5].do = "clear"
            /\ S[6].do = "place" /\ S[7].do = "part" /\ S[8].do = "copy"
            /\ S[9].do = "clear" /\ S[10].do = "place"
        BY <1>2, <2>2 DEF PackSteps
      <3>2. S[k].err = "fail"
        BY <1>2, <1>8 DEF PackSteps
      <3>3. \/ k = 1 \/ k = 2 \/ k = 3 \/ k = 4 \/ k = 5 \/ k = 6 \/ k = 7
            \/ k = 8 \/ k = 9 \/ k = 10
        BY <1>8, <2>2
      <3>4. QED
        BY <3>1, <3>2, <3>3
    <2>3. Len(S) \in {1, 10}
      BY <1>2 DEF PackSteps
    <2>4. QED
      BY <2>1, <2>2, <2>3
  <1>9. k = 4 => T[t] = r.had[t] /\ T[q] = r.had[q]
    BY <1>3 DEF PackStage
  <1>10. QED
    BY <1>4, <1>7, <1>8, <1>9 DEF PackStep

(* An archive that fails leaves its name as it was, or made.               *)
LEMMA ArchiveFails ==
  ASSUME NEW host \in BOOLEAN, NEW c \in Calls, NEW r, Shape(r),
         r.op = "archive", NEW S, S = Script(host, r), NEW k \in 1 .. Len(S),
         NEW T \in [Paths -> Contents], NEW P,
         Stage(host, c, r, k, T, P)
  PROVE  /\ S[k].do \notin {"stream", "mismatch"}
         /\ S[k].err = "fail" => WholeArchive(c, r, T)
         /\ S[k].err = "unlink" =>
              WholeArchive(c, r, With(T, S[k].p, Absent))
  <1> DEFINE s == r.from[1]
             t == r.to[1]
  <1>1. s \in Paths /\ t \in Paths /\ S = CreateArchive(host, s, t)
    BY DEF Shape, Script
  <1>2. ArchiveSteps(S, host, s, t)
    BY <1>1, ArchiveScript
  <1>3. ArchiveStage(host, c, r.had, t, k, T)
    BY DEF Stage
  <1>4. CASE k = 1 \/ k = 2
    <2>1. S[k].err = "fail" /\ S[k].do \notin {"stream", "mismatch"}
      BY <1>2, <1>4 DEF ArchiveSteps
    <2>2. T[t] = r.had[t]
      BY <1>3, <1>4 DEF ArchiveStage
    <2>3. QED
      BY <2>1, <2>2 DEF WholeArchive
  <1>5. CASE k = 3 \/ k = 4
    <2>1. /\ S[k].err # "fail" /\ S[k].p = t
          /\ S[k].do \notin {"stream", "mismatch"}
      BY <1>2, <1>5 DEF ArchiveSteps
    <2>2. r.had[t] = Absent
      BY <1>3, <1>5 DEF ArchiveStage
    <2>3. With(T, t, Absent)[t] = Absent
      BY <1>1 DEF With
    <2>4. QED
      BY <2>1, <2>2, <2>3 DEF WholeArchive
  <1>6. CASE k = 5
    <2>1. S[k].do = "chown" /\ T[t] = c /\ S[k].p = t
      BY <1>2, <1>3, <1>6 DEF ArchiveSteps, ArchiveStage
    <2>2. With(T, t, Absent)[t] = Absent
      BY <1>1 DEF With
    <2>3. r.had[t] = Absent
      BY <1>3, <1>6 DEF ArchiveStage
    <2>4. QED
      BY <2>1, <2>2, <2>3 DEF WholeArchive
  <1>7. QED
    BY <1>2, <1>4, <1>5, <1>6 DEF ArchiveSteps

-----------------------------------------------------------------------------
(* One step of a call.                                                     *)
(* The next step of a call is a step.                                      *)
LEMMA AtTyped ==
  ASSUME Typed, NEW c \in Calls, Active(c), todo[c] # <<>>
  PROVE  /\ todo[c] \in Seq(Steps) /\ Len(todo[c]) > 0 /\ At(c) = todo[c][1]
         /\ At(c) \in Steps /\ At(c).p \in Paths /\ At(c).q \in Paths
  <1>1. todo[c] \in Seq(Steps)
    BY DEF Typed
  <1>2. Len(todo[c]) > 0 /\ todo[c][1] \in Steps /\ At(c) = todo[c][1]
    BY <1>1 DEF At
  <1>3. QED
    BY <1>1, <1>2 DEF Steps

(* A call that takes its next step, or that was left and ends with it.     *)
LEMMA AdvanceOutcome ==
  ASSUME Typed, NEW c \in Calls, Active(c), todo[c] # <<>>, Advance(c)
  PROVE  /\ \A d \in Calls \ {c} : status'[d] = status[d] /\ todo'[d] = todo[d]
         /\ Advances(c)
         /\ todo' \in [Calls -> Seq(Steps)]
         /\ status' \in [Calls -> {"new", "running", "leaving", "ok", "failed",
                                  "dropped"}]
  <1>1. todo[c] \in Seq(Steps) /\ Len(todo[c]) > 0
    BY AtTyped
  <1>2. todo'[c] = IF GoesOn(c) THEN Tail(todo[c]) ELSE <<>>
    BY DEF Advance, Typed
  <1>3. status'[c] = IF GoesOn(c) THEN status[c]
                     ELSE IF status[c] = "running" THEN "ok" ELSE "dropped"
    BY DEF Advance, Typed
  <1>4. /\ todo' \in [Calls -> Seq(Steps)]
        /\ \A d \in Calls \ {c} : todo'[d] = todo[d]
    <2>1. CASE GoesOn(c)
      <3>1. Tail(todo[c]) \in Seq(Steps)
        BY <1>1, <2>1 DEF GoesOn
      <3>2. todo' = [todo EXCEPT ![c] = Tail(todo[c])]
        BY <2>1 DEF Advance
      <3>3. QED
        BY <3>1, <3>2 DEF Typed
    <2>2. CASE ~ GoesOn(c)
      <3>1. todo' = [todo EXCEPT ![c] = <<>>]
        BY <2>2 DEF Advance
      <3>2. <<>> \in Seq(Steps)
        OBVIOUS
      <3>3. QED
        BY <3>1, <3>2 DEF Typed
    <2>3. QED
      BY <2>1, <2>2
  <1>5. /\ status' \in [Calls -> {"new", "running", "leaving", "ok", "failed",
                                  "dropped"}]
        /\ \A d \in Calls \ {c} : status'[d] = status[d]
    BY DEF Advance, Typed
  <1>6. Advances(c)
    <2>1. CASE GoesOn(c)
      BY <1>2, <1>3, <2>1 DEF GoesOn, Advances
    <2>2. CASE ~ GoesOn(c) /\ status[c] = "running"
      <3>1. Len(todo[c]) = 1
        <4>1. PICK n \in Nat : n = Len(todo[c])
          BY <1>1
        <4>2. ~ (n > 1) /\ n > 0
          BY <1>1, <2>2, <4>1 DEF GoesOn
        <4>3. n = 1
          BY <4>2
        <4>4. QED
          BY <4>1, <4>3
      <3>2. QED
        BY <1>2, <1>3, <2>2, <3>1 DEF Advances
    <2>3. CASE ~ GoesOn(c) /\ status[c] # "running"
      BY <1>2, <1>3, <2>3 DEF Advances
    <2>4. QED
      BY <2>1, <2>2, <2>3
  <1>7. QED
    BY <1>4, <1>5, <1>6

(* A call that fails.                                                      *)
LEMMA FailOutcome ==
  ASSUME Typed, NEW c \in Calls, Active(c), Fail(c)
  PROVE  /\ \A d \in Calls \ {c} : status'[d] = status[d] /\ todo'[d] = todo[d]
         /\ Fails(c)
         /\ todo' \in [Calls -> Seq(Steps)]
         /\ status' \in [Calls -> {"new", "running", "leaving", "ok", "failed",
                                  "dropped"}]
  <1>1. <<>> \in Seq(Steps)
    OBVIOUS
  <1>2. QED
    BY <1>1 DEF Fail, Fails, Typed

(* A step that succeeds, given what it does to the files.                  *)
LEMMA DoesOutcome ==
  ASSUME Typed, NEW c \in Calls, Active(c), todo[c] # <<>>,
         NEW T \in [Paths -> Contents], NEW P \in [Paths -> Contents],
         Does(c, T, P), c \in silent \/ Effect(At(c), c, tree, part, T, P),
         \A p \in Paths : p # At(c).p /\ p # At(c).q =>
                          T[p] = tree[p] /\ P[p] = part[p]
  PROVE  Framed(c) /\ Outcome(c) /\ Typed'
  <1>1. /\ tree' = T /\ part' = P /\ Advance(c) /\ silent' = silent
        /\ call' = call /\ clean' = clean
    BY DEF Does, rest
  <1>2. /\ \A d \in Calls \ {c} : status'[d] = status[d] /\ todo'[d] = todo[d]
        /\ Advances(c)
        /\ todo' \in [Calls -> Seq(Steps)]
        /\ status' \in [Calls -> {"new", "running", "leaving", "ok", "failed",
                                 "dropped"}]
    BY <1>1, AdvanceOutcome
  <1>3. Framed(c)
    BY <1>1, <1>2 DEF Framed
  <1>4. c \in silent' \/ Effect(At(c), c, tree, part, tree', part')
    BY <1>1
  <1>5. Outcome(c)
    BY <1>2, <1>4 DEF Outcome
  <1>6. Typed'
    BY <1>1, <1>2 DEF Typed
  <1>7. QED
    BY <1>3, <1>5, <1>6

(* A step that fails: ends the call, unlinks first, or is ignored.         *)
LEMMA ErrsOutcome ==
  ASSUME Typed, NEW c \in Calls, Active(c), todo[c] # <<>>, Errs(c)
  PROVE  Framed(c) /\ Outcome(c) /\ Typed'
  <1>0. At(c).p \in Paths /\ Absent \in Contents
    BY AtTyped DEF Contents
  <1>1. CASE /\ Advance(c) /\ silent' = silent \cup {c}
             /\ UNCHANGED <<tree, part, rest>>
    <2>1. /\ \A d \in Calls \ {c} : status'[d] = status[d] /\ todo'[d] = todo[d]
          /\ Advances(c)
          /\ todo' \in [Calls -> Seq(Steps)]
          /\ status' \in [Calls -> {"new", "running", "leaving", "ok",
                                   "failed", "dropped"}]
      BY <1>1, AdvanceOutcome
    <2>2. Framed(c)
      BY <1>1, <2>1 DEF Framed, rest
    <2>3. Outcome(c)
      BY <1>1, <2>1 DEF Outcome
    <2>4. Typed'
      BY <1>1, <2>1 DEF Typed, rest
    <2>5. QED
      BY <2>2, <2>3, <2>4
  <1>2. ASSUME Fail(c)
        PROVE  /\ \A d \in Calls \ {c} : status'[d] = status[d] /\ todo'[d] = todo[d]
               /\ Fails(c)
               /\ todo' \in [Calls -> Seq(Steps)]
               /\ status' \in [Calls -> {"new", "running", "leaving", "ok",
                                        "failed", "dropped"}]
    BY <1>2, FailOutcome
  <1>3. CASE /\ At(c).err = "unlink" /\ Fail(c)
             /\ tree' = [tree EXCEPT ![At(c).p] = Absent]
             /\ UNCHANGED <<part, silent, rest>>
    <2>1. tree' = With(tree, At(c).p, Absent) /\ part' = part
      BY <1>3 DEF With
    <2>2. Framed(c)
      BY <1>0, <1>2, <1>3 DEF Framed, rest, Typed
    <2>3. Outcome(c)
      BY <1>2, <1>3, <2>1 DEF Outcome
    <2>4. Typed'
      BY <1>0, <1>2, <1>3 DEF Typed, rest
    <2>5. QED
      BY <2>2, <2>3, <2>4
  <1>4. CASE /\ At(c).err = "fail" /\ Fail(c)
             /\ UNCHANGED <<tree, part, silent, rest>>
    <2>1. Framed(c)
      BY <1>2, <1>4 DEF Framed, rest
    <2>2. Outcome(c)
      BY <1>2, <1>4 DEF Outcome
    <2>3. Typed'
      BY <1>2, <1>4 DEF Typed, rest
    <2>4. QED
      BY <2>1, <2>2, <2>3
  <1>5. QED
    BY <1>1, <1>3, <1>4 DEF Errs

(* A file replaced at the path of a step.                                  *)
LEMMA Replaced ==
  ASSUME NEW f \in [Paths -> Contents], NEW p \in Paths, NEW x \in Contents
  PROVE  /\ With(f, p, x) \in [Paths -> Contents]
         /\ With(f, p, x)[p] = x
         /\ \A q \in Paths : q # p => With(f, p, x)[q] = f[q]
  BY DEF With

(* Each step, by what it does: its effect where it succeeds.               *)
LEMMA StepOutcome ==
  ASSUME Typed, NEW c \in Calls, Step(c)
  PROVE  Framed(c) /\ Outcome(c) /\ Typed'
  <1> DEFINE i == At(c)
             G == Framed(c) /\ Outcome(c) /\ Typed'
  <1>0. Active(c) /\ todo[c] # <<>>
    BY DEF Step, Plain, Exists, Free, Refuse, Open, Fill, Remove, RmRf, MkDir,
           RenamePath, Mv, MvTemporary, Part, Stream, TooLarge, Copy, Mismatch,
           Clear, Place, Running
  <1>1. /\ tree \in [Paths -> Contents] /\ part \in [Paths -> Contents]
        /\ i.p \in Paths /\ i.q \in Paths
        /\ Absent \in Contents /\ Torn \in Contents /\ c \in Contents
    BY <1>0, AtTyped DEF Typed, Contents
  <1>2. tree[i.p] \in Contents /\ tree[i.q] \in Contents /\ part[i.p] \in Contents
    BY <1>1
  <1>3. ASSUME Errs(c) PROVE G
    BY <1>0, <1>3, ErrsOutcome
  <1>4. ASSUME Does(c, tree, part), Effect(i, c, tree, part, tree, part)
        PROVE  G
    BY <1>0, <1>1, <1>4, DoesOutcome
  <1>5. ASSUME NEW x \in Contents, Does(c, With(tree, i.p, x), part),
               c \in silent \/ Effect(i, c, tree, part, With(tree, i.p, x), part)
        PROVE  G
    <2>1. With(tree, i.p, x) \in [Paths -> Contents]
      BY <1>1, Replaced
    <2>2. \A p \in Paths : p # i.p => With(tree, i.p, x)[p] = tree[p]
      BY <1>1 DEF With
    <2>3. QED
      BY <1>0, <1>1, <1>5, <2>1, <2>2, DoesOutcome
  <1>6. ASSUME NEW x \in Contents, Does(c, tree, With(part, i.p, x)),
               Effect(i, c, tree, part, tree, With(part, i.p, x))
        PROVE  G
    <2>1. With(part, i.p, x) \in [Paths -> Contents]
      BY <1>1, Replaced
    <2>2. \A p \in Paths : p # i.p => With(part, i.p, x)[p] = part[p]
      BY <1>1 DEF With
    <2>3. QED
      BY <1>0, <1>1, <1>6, <2>1, <2>2, DoesOutcome
  <1>7. ASSUME i.p # i.q, i.do \in {"rename", "mv"}, tree[i.p] # Absent,
               Does(c, Renamed(i.p, i.q), part)
        PROVE  G
    <2> DEFINE T == With(With(tree, i.q, tree[i.p]), i.p, Absent)
    <2>1. Renamed(i.p, i.q) = T
      BY <1>7 DEF Renamed
    <2> DEFINE M == With(tree, i.q, tree[i.p])
    <2>2. /\ M \in [Paths -> Contents]
          /\ \A p \in Paths : p # i.q => M[p] = tree[p]
      <3>1. i.q \in Paths /\ tree[i.p] \in Contents
        BY <1>1, <1>2
      <3> HIDE DEF i
      <3>2. QED
        BY <1>1, <3>1 DEF With
    <2>3. /\ T \in [Paths -> Contents]
          /\ \A p \in Paths : p # i.p /\ p # i.q => T[p] = tree[p]
      <3> HIDE DEF M, i
      <3>1. i.p \in Paths /\ Absent \in Contents
        BY <1>1
      <3>2. T = With(M, i.p, Absent)
        BY DEF M
      <3> HIDE DEF T
      <3>3. /\ T \in [Paths -> Contents]
            /\ \A p \in Paths : p # i.p => T[p] = M[p]
        BY <2>2, <3>1, <3>2 DEF With
      <3>4. QED
        BY <2>2, <3>3
    <2>4. Effect(i, c, tree, part, T, part)
      BY <1>7 DEF Effect
    <2>5. QED
      BY <1>0, <1>1, <1>7, <2>1, <2>3, <2>4, DoesOutcome
  <1>8. CASE Plain(c)
    <2>1. /\ i.do \in {"chown", "receive", "inspect", "read_manifest", "get",
                       "tar"}
          /\ Does(c, tree, part)
      BY <1>8 DEF Plain, Running
    <2>2. Effect(i, c, tree, part, tree, part)
      BY <2>1 DEF Effect
    <2>3. QED
      BY <1>4, <2>1, <2>2
  <1>9. CASE Exists(c)
    <2>1. i.do = "exists"
      BY <1>9 DEF Exists, Running
    <2>2. CASE tree[i.p] # Absent
      <3>1. Effect(i, c, tree, part, tree, part)
        BY <2>1, <2>2 DEF Effect
      <3>2. QED
        BY <1>4, <1>9, <2>2, <3>1 DEF Exists
    <2>3. QED
      BY <1>3, <1>9, <2>2 DEF Exists
  <1>10. CASE Free(c)
    <2>1. i.do = "free"
      BY <1>10 DEF Free, Running
    <2>2. CASE tree[i.p] = Absent
      <3>1. Effect(i, c, tree, part, tree, part)
        BY <2>1, <2>2 DEF Effect
      <3>2. QED
        BY <1>4, <1>10, <2>2, <3>1 DEF Free
    <2>3. QED
      BY <1>3, <1>10, <2>2 DEF Free
  <1>11. CASE Refuse(c)
    BY <1>3, <1>11 DEF Refuse
  <1>12. CASE Open(c)
    <2>1. i.do = "open"
      BY <1>12 DEF Open, Running
    <2>2. CASE Does(c, With(tree, i.p, Torn), part)
      <3>1. Effect(i, c, tree, part, With(tree, i.p, Torn), part)
        BY <2>1 DEF Effect
      <3>2. QED
        BY <1>1, <1>5, <2>2, <3>1
    <2>3. QED
      BY <1>3, <1>12, <2>2 DEF Open
  <1>13. CASE Fill(c)
    <2>1. i.do = "fill"
      BY <1>13 DEF Fill, Running
    <2>2. CASE tree[i.p] = Torn
      <3>1. Does(c, With(tree, i.p, c), part)
        BY <1>13, <2>2 DEF Fill
      <3>2. Effect(i, c, tree, part, With(tree, i.p, c), part)
        BY <2>1 DEF Effect
      <3>3. QED
        BY <1>1, <1>5, <3>1, <3>2
    <2>3. CASE tree[i.p] # Torn
      <3>1. Does(c, tree, part)
        BY <1>13, <2>3 DEF Fill
      <3>2. Effect(i, c, tree, part, tree, part)
        BY <2>1, <2>3 DEF Effect
      <3>3. QED
        BY <1>4, <3>1, <3>2
    <2>4. QED
      BY <2>2, <2>3
  <1>14. CASE Remove(c) \/ RmRf(c)
    <2>1. i.do \in {"remove", "rm"}
      BY <1>14 DEF Remove, RmRf, Running
    <2>2. CASE Does(c, With(tree, i.p, Absent), part)
      <3>1. Effect(i, c, tree, part, With(tree, i.p, Absent), part)
        BY <2>1 DEF Effect
      <3>2. QED
        BY <1>1, <1>5, <2>2, <3>1
    <2>3. QED
      BY <1>3, <1>14, <2>2 DEF Remove, RmRf
  <1>15. CASE MkDir(c)
    <2>1. i.do = "mkdir"
      BY <1>15 DEF MkDir, Running
    <2>2. CASE Does(c, With(tree, i.p, c), part)
      <3>1. Effect(i, c, tree, part, With(tree, i.p, c), part)
        BY <2>1 DEF Effect
      <3>2. QED
        BY <1>1, <1>5, <2>2, <3>1
    <2>3. QED
      BY <1>3, <1>15, <2>2 DEF MkDir
  <1>16. CASE RenamePath(c)
    <2>1. i.do = "rename"
      BY <1>16 DEF RenamePath, Running
    <2>2. CASE tree[i.p] # Absent /\ Does(c, Renamed(i.p, i.q), part)
      <3>1. CASE i.p = i.q
        <4>1. Does(c, tree, part)
          BY <2>2, <3>1 DEF Renamed
        <4>2. Effect(i, c, tree, part, tree, part)
          BY <2>1, <2>2, <3>1 DEF Effect
        <4>3. QED
          BY <1>4, <4>1, <4>2
      <3>2. CASE i.p # i.q
        BY <1>7, <2>1, <2>2, <3>2
      <3>3. QED
        BY <3>1, <3>2
    <2>3. QED
      BY <1>3, <1>16, <2>2 DEF RenamePath
  <1>17. CASE Mv(c)
    <2>1. i.do = "mv"
      BY <1>17 DEF Mv, Running
    <2>2. CASE tree[i.p] = Absent \/ i.p = i.q
      <3>1. Errs(c)
        BY <1>17, <2>2 DEF Mv
      <3>2. QED
        BY <1>3, <3>1
    <2>3. CASE tree[i.p] # Absent /\ i.p # i.q /\ IsDir(tree[i.q])
      <3>1. Does(c, With(tree, i.p, Absent), part)
        BY <1>17, <2>3 DEF Mv
      <3>2. tree[i.q] # Absent
        BY <2>3, FilesAssumption DEF IsDir
      <3>3. Effect(i, c, tree, part, With(tree, i.p, Absent), part)
        BY <2>1, <2>3, <3>2 DEF Effect
      <3>4. QED
        BY <1>1, <1>5, <3>1, <3>3
    <2>4. CASE tree[i.p] # Absent /\ i.p # i.q /\ ~ IsDir(tree[i.q])
      <3>1. Does(c, Renamed(i.p, i.q), part)
        BY <1>17, <2>4 DEF Mv
      <3>2. QED
        BY <1>7, <2>1, <2>4, <3>1
    <2>5. QED
      BY <2>2, <2>3, <2>4
  <1>18. CASE MvTemporary(c)
    <2>1. i.do = "replace"
      BY <1>18 DEF MvTemporary, Running
    <2>2. CASE IsDir(tree[i.p])
      <3>1. Does(c, tree, part)
        BY <1>18, <2>2 DEF MvTemporary
      <3>2. tree[i.p] # Absent
        BY <2>2, FilesAssumption DEF IsDir
      <3>3. Effect(i, c, tree, part, tree, part)
        BY <2>1, <3>2 DEF Effect
      <3>4. QED
        BY <1>4, <3>1, <3>3
    <2>3. CASE ~ IsDir(tree[i.p]) /\ c \in silent
      <3>1. Does(c, With(tree, i.p, Torn), part)
        BY <1>18, <2>3 DEF MvTemporary
      <3>2. QED
        BY <1>1, <1>5, <2>3, <3>1
    <2>4. CASE ~ IsDir(tree[i.p]) /\ c \notin silent
      <3>1. Does(c, With(tree, i.p, c), part)
        BY <1>18, <2>4 DEF MvTemporary
      <3>2. Effect(i, c, tree, part, With(tree, i.p, c), part)
        BY <2>1 DEF Effect
      <3>3. QED
        BY <1>1, <1>5, <3>1, <3>2
    <2>5. QED
      BY <2>2, <2>3, <2>4
  <1>19. CASE Part(c)
    <2>1. i.do = "part" /\ Does(c, tree, With(part, i.p, Torn))
      BY <1>19 DEF Part, Running
    <2>2. Effect(i, c, tree, part, tree, With(part, i.p, Torn))
      BY <2>1 DEF Effect
    <2>3. QED
      BY <1>1, <1>6, <2>1, <2>2
  <1>20. CASE Copy(c)
    <2>1. i.do = "copy" /\ Does(c, tree, With(part, i.p, c))
      BY <1>20 DEF Copy, Running
    <2>2. Effect(i, c, tree, part, tree, With(part, i.p, c))
      BY <2>1 DEF Effect
    <2>3. QED
      BY <1>1, <1>6, <2>1, <2>2
  <1>21. CASE Stream(c)
    <2>1. i.do = "stream"
      BY <1>21 DEF Stream, Running
    <2>2. CASE Does(c, tree, With(part, i.p, c))
      <3>1. Effect(i, c, tree, part, tree, With(part, i.p, c))
        BY <2>1 DEF Effect
      <3>2. QED
        BY <1>1, <1>6, <2>2, <3>1
    <2>3. CASE /\ todo' = [todo EXCEPT ![c] = <<One("mismatch", i.p, "call")>>]
               /\ UNCHANGED <<tree, part, status, silent, rest>>
      <3>1. One("mismatch", i.p, "call") \in Steps
        BY <1>1 DEF One, Do, Steps, Doings
      <3>2. <<One("mismatch", i.p, "call")>> \in Seq(Steps)
        BY <3>1
      <3>3. /\ todo' \in [Calls -> Seq(Steps)]
            /\ todo'[c] = <<One("mismatch", i.p, "call")>>
            /\ \A d \in Calls \ {c} : todo'[d] = todo[d]
        BY <2>3, <3>2 DEF Typed
      <3>4. Framed(c)
        BY <2>3, <3>3 DEF Framed, rest
      <3>5. Outcome(c)
        BY <2>1, <2>3, <3>3 DEF Outcome
      <3>6. Typed'
        BY <2>3, <3>3 DEF Typed, rest
      <3>7. QED
        BY <3>4, <3>5, <3>6
    <2>4. QED
      BY <1>21, <2>2, <2>3 DEF Stream
  <1>22. CASE TooLarge(c) \/ Mismatch(c)
    <2>1. /\ i.do \in {"stream", "mismatch"} /\ Fail(c)
          /\ part' = With(part, i.p, Absent) /\ tree' = tree
          /\ silent' = silent /\ UNCHANGED rest
      BY <1>22 DEF TooLarge, Mismatch, Running
    <2>2. /\ \A d \in Calls \ {c} : status'[d] = status[d] /\ todo'[d] = todo[d]
          /\ Fails(c)
          /\ todo' \in [Calls -> Seq(Steps)]
          /\ status' \in [Calls -> {"new", "running", "leaving", "ok",
                                   "failed", "dropped"}]
      BY <1>0, <2>1, FailOutcome
    <2>3. /\ part' \in [Paths -> Contents]
          /\ \A p \in Paths : p # i.p => part'[p] = part[p]
      BY <1>1, <2>1 DEF With
    <2>4. Framed(c)
      BY <2>1, <2>2, <2>3 DEF Framed, rest
    <2>5. Outcome(c)
      BY <2>1, <2>2 DEF Outcome
    <2>6. Typed'
      BY <2>1, <2>2, <2>3 DEF Typed, rest
    <2>7. QED
      BY <2>4, <2>5, <2>6
  <1>23. CASE Clear(c)
    <2>1. i.do = "clear"
      BY <1>23 DEF Clear, Running
    <2>2. CASE Does(c, With(tree, i.p, Absent), part)
      <3>1. Effect(i, c, tree, part, With(tree, i.p, Absent), part)
        BY <2>1 DEF Effect
      <3>2. QED
        BY <1>1, <1>5, <2>2, <3>1
    <2>3. QED
      BY <1>3, <1>23, <2>2 DEF Clear
  <1>24. CASE Place(c)
    <2>1. i.do = "place"
      BY <1>24 DEF Place, Running
    <2>2. CASE Does(c, With(tree, i.p, part[i.p]), With(part, i.p, Absent))
      <3> DEFINE T == With(tree, i.p, part[i.p])
                 P == With(part, i.p, Absent)
      <3>1. Effect(i, c, tree, part, T, P)
        BY <2>1 DEF Effect
      <3>2. /\ T \in [Paths -> Contents] /\ P \in [Paths -> Contents]
            /\ \A p \in Paths : p # i.p => T[p] = tree[p] /\ P[p] = part[p]
        BY <1>1, <1>2 DEF With
      <3>3. QED
        BY <1>0, <1>1, <2>2, <3>1, <3>2, DoesOutcome
    <2>3. QED
      BY <1>3, <1>24, <2>2 DEF Place
  <1>25. QED
    BY <1>8, <1>9, <1>10, <1>11, <1>12, <1>13, <1>14, <1>15, <1>16, <1>17,
       <1>18, <1>19, <1>20, <1>21, <1>22, <1>23, <1>24 DEF Step

(* A step, a failure or a drop.                                            *)
LEMMA ActsOutcome ==
  ASSUME Typed, NEW c \in Calls, Keeps(c), Acts(c)
  PROVE  /\ Active(c) /\ todo[c] # <<>>
         /\ Framed(c) /\ Outcome(c) /\ Typed'
  <1>1. CASE Step(c)
    <2>1. Active(c) /\ todo[c] # <<>>
      BY <1>1
      DEF Step, Plain, Exists, Free, Refuse, Open, Fill, Remove, RmRf, MkDir,
          RenamePath, Mv, MvTemporary, Part, Stream, TooLarge, Copy, Mismatch,
          Clear, Place, Running
    <2>2. QED
      BY <1>1, <2>1, StepOutcome
  <1>2. CASE StepFails(c)
    BY <1>2, ErrsOutcome DEF StepFails
  <1>3. CASE Drop(c)
    <2>1. Active(c)
      BY <1>3 DEF Drop, Active
    <2>2. todo[c] \in Seq(Steps) /\ Len(todo[c]) > 0
      BY <2>1 DEF Keeps, Typed
    <2>3. todo[c] # <<>>
      BY <2>2
    <2>4. tree' = tree /\ part' = part /\ silent' = silent /\ UNCHANGED rest
      BY <1>3 DEF Drop
    <2>5. \/ /\ todo' = [todo EXCEPT ![c] = <<>>]
             /\ status' = [status EXCEPT ![c] = "dropped"]
          \/ /\ status' = [status EXCEPT ![c] = "leaving"] /\ todo' = todo
             /\ status[c] = "running"
      BY <1>3 DEF Drop
    <2>6. <<>> \in Seq(Steps)
      OBVIOUS
    <2>7. Typed'
      BY <2>4, <2>5, <2>6 DEF Typed, rest
    <2>8. Framed(c)
      BY <2>4, <2>5 DEF Framed, rest, Typed
    <2>9. Outcome(c)
      BY <2>4, <2>5 DEF Outcome, Typed
    <2>10. QED
      BY <2>1, <2>3, <2>7, <2>8, <2>9
  <1>4. QED
    BY <1>1, <1>2, <1>3 DEF Acts

(* What is known of a call depends on its own paths only.                  *)
LEMMA StageLocal ==
  ASSUME NEW host \in BOOLEAN, NEW c, NEW r, Shape(r), NEW k, NEW T, NEW P,
         NEW T2, NEW P2,
         \A p \in Uses(r) : T2[p] = T[p] /\ P2[p] = P[p],
         Stage(host, c, r, k, T, P)
  PROVE  Stage(host, c, r, k, T2, P2)
  <1>1. /\ \A i \in 1 .. Len(r.from) : T2[r.from[i]] = T[r.from[i]]
        /\ \A i \in 1 .. Len(r.to) : /\ T2[r.to[i]] = T[r.to[i]]
                                     /\ P2[r.to[i]] = P[r.to[i]]
    BY PathsOfShape
  <1>2. T2[r.to[1]] = T[r.to[1]] /\ P2[r.to[1]] = P[r.to[1]]
    BY <1>1 DEF Shape
  <1>3. r.op \in {"rename", "move"} => T2[r.from[1]] = T[r.from[1]]
    BY <1>1 DEF Shape
  <1>4. r.op = "move" /\ Len(r.to) = 2 => /\ T2[r.from[2]] = T[r.from[2]]
                                         /\ T2[r.to[2]] = T[r.to[2]]
    BY <1>1 DEF Shape
  <1>5. r.op = "modpack" => /\ T2[r.to[2]] = T[r.to[2]]
                            /\ P2[r.to[2]] = P[r.to[2]]
    BY <1>1 DEF Shape
  <1>6. \A m : WriteStage(c, r.to[1], m, T) => WriteStage(c, r.to[1], m, T2)
    BY <1>2 DEF WriteStage
  <1>7. r.op \in {"rename", "move"} =>
          \A m : RenameStage(r.had, r.from[1], r.to[1], m, T)
                   => RenameStage(r.had, r.from[1], r.to[1], m, T2)
    BY <1>2, <1>3 DEF RenameStage
  <1>8. r.op = "move" /\ Len(r.to) = 2 =>
          (MoveStage(r.had, r.from[1], r.to[1], r.from[2], r.to[2], k, T)
           => MoveStage(r.had, r.from[1], r.to[1], r.from[2], r.to[2], k, T2))
    BY <1>2, <1>3, <1>4 DEF MoveStage
  <1>9. ArchiveStage(host, c, r.had, r.to[1], k, T)
          => ArchiveStage(host, c, r.had, r.to[1], k, T2)
    BY <1>2 DEF ArchiveStage
  <1>10. r.op = "modpack" =>
          (PackStage(c, r.had, r.to[1], r.to[2], k, T, P)
           => PackStage(c, r.had, r.to[1], r.to[2], k, T2, P2))
    BY <1>2, <1>5 DEF PackStage
  <1>11. QED
    BY <1>2, <1>6, <1>7, <1>8, <1>9, <1>10 DEF Stage

(* So does what a call promised of them.                                   *)
LEMMA ResultLocal ==
  ASSUME NEW c, NEW r, Shape(r), NEW T, NEW P, NEW T2, NEW P2,
         \A p \in Uses(r) : T2[p] = T[p] /\ P2[p] = P[p]
  PROVE  /\ DoneIn(c, r, T, P) => DoneIn(c, r, T2, P2)
         /\ WholePack(c, r, T, P) => WholePack(c, r, T2, P2)
         /\ WholeArchive(c, r, T) => WholeArchive(c, r, T2)
  <1>1. /\ \A i \in 1 .. Len(r.from) : T2[r.from[i]] = T[r.from[i]]
        /\ \A i \in 1 .. Len(r.to) : /\ T2[r.to[i]] = T[r.to[i]]
                                     /\ P2[r.to[i]] = P[r.to[i]]
    BY PathsOfShape
  <1>2. T2[r.to[1]] = T[r.to[1]]
    BY <1>1 DEF Shape
  <1>3. \A p \in Range(r.to) : T2[p] = T[p] /\ P2[p] = P[p]
    BY DEF Uses
  <1>4. WholePack(c, r, T, P) => WholePack(c, r, T2, P2)
    BY <1>3 DEF WholePack
  <1>5. WholeArchive(c, r, T) => WholeArchive(c, r, T2)
    BY <1>2 DEF WholeArchive
  <1>6. ASSUME DoneIn(c, r, T, P)
        PROVE  DoneIn(c, r, T2, P2)
    <2>1. CASE r.op \in {"rename", "move"}
      <3>1. Len(r.from) = Len(r.to)
        BY <2>1 DEF Shape
      <3>2. QED
        BY <1>1, <1>6, <2>1, <3>1 DEF DoneIn
    <2>2. CASE r.op = "modpack"
      BY <1>3, <1>6, <2>2 DEF DoneIn
    <2>3. CASE r.op \notin {"rename", "move", "modpack"}
      BY <1>2, <1>6, <2>3 DEF DoneIn
    <2>4. QED
      BY <2>1, <2>2, <2>3
  <1>7. QED
    BY <1>4, <1>5, <1>6

(* Where a clean call stands after a step of its own.                      *)
LEMMA OwnStep ==
  ASSUME Typed, NEW c \in Calls, Keeps(c), Local(c), Acts(c), c \notin silent'
  PROVE  Local(c)'
  <1> DEFINE r == call[c]
  <1>1. Active(c) /\ todo[c] # <<>> /\ Framed(c) /\ Outcome(c)
    BY ActsOutcome
  <1>2. Shape(r)
    BY <1>1 DEF Keeps, Begun, Active
  <1>3. call' = call
    BY <1>1 DEF Framed
  <1>4. /\ todo[c] \in Seq(Steps) /\ Len(todo[c]) > 0 /\ At(c) = todo[c][1]
        /\ tree \in [Paths -> Contents] /\ part \in [Paths -> Contents]
    BY <1>1, AtTyped DEF Typed
  <1>5. OnTheWay(c)
    BY <1>1 DEF Local
  <1>6. status[c] \in {"running", "leaving"}
    BY <1>1 DEF Active
  <1>7. CASE \E host \in BOOLEAN, k \in Nat :
               OnScript(host, c, k) /\ Stage(host, c, r, k, tree, part)
    <2>1. PICK host \in BOOLEAN, k \in Nat :
               OnScript(host, c, k) /\ Stage(host, c, r, k, tree, part)
      BY <1>7
    <2> DEFINE S == Script(host, r)
    <2>2. /\ k \in 1 .. Len(S) /\ Len(todo[c]) = Len(S) - k + 1
          /\ \A i \in 1 .. Len(todo[c]) : todo[c][i] = S[k + i - 1]
      BY <2>1 DEF OnScript
    <2>3. Fits(S, Uses(r))
      BY <1>2, ScriptFits
    <2>4. S \in Seq(Steps) /\ Len(S) \in Nat
      BY <2>3 DEF Fits
    <2>5. At(c) = S[k]
      <3>1. todo[c][1] = S[k + 1 - 1]
        BY <1>4, <2>2
      <3>2. QED
        BY <1>4, <3>1
    <2> HIDE DEF S
    <2>6. S = Script(host, r)
      BY DEF S
    <2>7. r.op = "modpack" =>
            /\ WholePack(c, r, tree, part)
            /\ At(c).err = "fail" /\ At(c).do # "mismatch"
            /\ At(c).do = "stream" =>
                 \A p \in Range(r.to) : tree[p] = r.had[p]
      <3>1. k \in 1 .. Len(S) + 1
        BY <2>2, <2>4
      <3>2. Stage(host, c, r, k, tree, part)
        BY <2>1
      <3>3. r.op = "modpack" => /\ WholePack(c, r, tree, part)
                                /\ k \in 1 .. Len(S) => PackStep(S[k], r, tree)
        BY <1>2, <2>6, <3>1, <3>2, PackIsWhole
      <3>4. QED
        BY <2>2, <2>5, <3>3 DEF PackStep
    <2>8. r.op = "archive" =>
            /\ At(c).do \notin {"stream", "mismatch"}
            /\ At(c).err = "fail" => WholeArchive(c, r, tree)
            /\ At(c).err = "unlink" =>
                 WholeArchive(c, r, With(tree, At(c).p, Absent))
      <3>1. Stage(host, c, r, k, tree, part) /\ k \in 1 .. Len(S)
        BY <2>1, <2>2
      <3>2. r.op = "archive" =>
              /\ S[k].do \notin {"stream", "mismatch"}
              /\ S[k].err = "fail" => WholeArchive(c, r, tree)
              /\ S[k].err = "unlink" =>
                   WholeArchive(c, r, With(tree, S[k].p, Absent))
        BY <1>2, <1>4, <2>6, <3>1, ArchiveFails
      <3>3. QED
        BY <2>5, <3>2
    <2>9. CASE Advances(c) /\ Effect(At(c), c, tree, part, tree', part')
      <3>1. Stage(host, c, r, k + 1, tree', part')
        <4>1. Effect(S[k], c, tree, part, tree', part')
          BY <2>5, <2>9
        <4>2. QED
          BY <1>2, <1>4, <2>1, <2>2, <2>6, <4>1, StageMoves
      <3>2. r.op = "modpack" => WholePack(c, r, tree', part')
        <4>1. k + 1 \in 1 .. Len(S) + 1
          BY <2>2, <2>4
        <4>2. QED
          BY <1>2, <2>6, <3>1, <4>1, PackIsWhole
      <3>3. CASE Len(todo[c]) > 1 /\ todo'[c] = Tail(todo[c])
                 /\ status'[c] = status[c]
        <4>1. /\ Len(todo'[c]) = Len(todo[c]) - 1
              /\ \A i \in 1 .. Len(todo'[c]) : todo'[c][i] = todo[c][i + 1]
          BY <1>4, <3>3
        <4>2. /\ k + 1 \in 1 .. Len(S)
              /\ Len(todo'[c]) = Len(S) - (k + 1) + 1
          BY <2>2, <2>4, <3>3, <4>1
        <4>3. \A i \in 1 .. Len(todo'[c]) : todo'[c][i] = S[k + 1 + i - 1]
          <5>1. TAKE i \in 1 .. Len(todo'[c])
          <5>2. todo'[c][i] = todo[c][i + 1] /\ i + 1 \in 1 .. Len(todo[c])
            BY <1>4, <4>1
          <5>3. todo[c][i + 1] = S[k + (i + 1) - 1]
            BY <2>2, <5>2
          <5>4. k + (i + 1) - 1 = k + 1 + i - 1
            OBVIOUS
          <5>5. QED
            BY <5>2, <5>3, <5>4
        <4>4. OnScript(host, c, k + 1)'
          BY <1>3, <2>6, <4>2, <4>3 DEF OnScript
        <4>5. OnTheWay(c)'
          BY <1>3, <3>1, <4>4 DEF OnTheWay
        <4>6. QED
          BY <1>3, <1>6, <3>2, <3>3, <4>5 DEF Local, Active
      <3>4. CASE todo'[c] = <<>> /\ status'[c] = "dropped"
        BY <1>3, <3>2, <3>4 DEF Local, Active
      <3>5. CASE Len(todo[c]) = 1 /\ todo'[c] = <<>> /\ status'[c] = "ok"
        <4>1. k = Len(S)
          <5>1. PICK n \in Nat : n = Len(S)
            BY <2>4
          <5>2. k \in 1 .. n /\ 1 = n - k + 1
            BY <2>2, <3>5, <5>1
          <5>3. k = n
            BY <5>2
          <5>4. QED
            BY <5>1, <5>3
        <4>2. DoneIn(c, r, tree', part')
          BY <1>2, <2>6, <3>1, <4>1, StageEnds
        <4>3. r.op = "archive" => WholeArchive(c, r, tree')
          BY <4>2 DEF DoneIn, WholeArchive
        <4>4. QED
          BY <1>3, <3>2, <3>5, <4>2, <4>3 DEF Local, Active
      <3>6. QED
        BY <2>9, <3>3, <3>4, <3>5 DEF Advances
    <2>10. CASE Fails(c) /\ tree' = tree /\ part' = part /\ At(c).err = "fail"
      BY <1>3, <2>7, <2>8, <2>10 DEF Local, Active, Fails
    <2>11. CASE /\ Fails(c) /\ tree' = tree
                /\ At(c).do \in {"stream", "mismatch"}
                /\ part' = With(part, At(c).p, Absent)
      <3>1. r.op = "modpack" => WholePack(c, r, tree', part')
        BY <2>7, <2>11 DEF WholePack
      <3>2. QED
        BY <1>3, <2>8, <2>11, <3>1 DEF Local, Active, Fails
    <2>12. CASE /\ Fails(c) /\ At(c).err = "unlink" /\ part' = part
                /\ tree' = With(tree, At(c).p, Absent)
      BY <1>3, <2>7, <2>8, <2>12 DEF Local, Active, Fails
    <2>13. CASE /\ At(c).do = "stream" /\ tree' = tree /\ part' = part
                /\ status'[c] = status[c]
                /\ todo'[c] = <<One("mismatch", At(c).p, "call")>>
      <3>1. /\ Len(todo'[c]) = 1 /\ todo'[c][1].do = "mismatch"
            /\ todo'[c][1].err = "fail"
        BY <2>13 DEF One, Do
      <3>2. OnTheWay(c)'
        BY <1>3, <2>7, <2>8, <2>13, <3>1 DEF OnTheWay
      <3>3. QED
        BY <1>3, <1>6, <2>7, <2>13, <3>2 DEF Local, Active
    <2>14. CASE /\ tree' = tree /\ part' = part
                /\ todo'[c] = <<>> /\ status'[c] = "dropped"
      BY <1>3, <2>7, <2>14 DEF Local, Active
    <2>15. CASE /\ tree' = tree /\ part' = part
                /\ todo'[c] = todo[c] /\ status'[c] = "leaving"
      <3>1. OnScript(host, c, k)'
        BY <1>3, <2>1, <2>15 DEF OnScript
      <3>2. OnTheWay(c)'
        BY <1>3, <2>1, <2>15, <3>1 DEF OnTheWay
      <3>3. QED
        BY <1>3, <2>7, <2>15, <3>2 DEF Local, Active
    <2>16. QED
      BY <1>1, <2>9, <2>10, <2>11, <2>12, <2>13, <2>14, <2>15 DEF Outcome
  <1>8. CASE /\ Len(todo[c]) = 1 /\ todo[c][1].do = "mismatch"
             /\ todo[c][1].err = "fail" /\ r.op # "archive"
             /\ r.op = "modpack" =>
                  \A p \in Range(r.to) : tree[p] = r.had[p]
    <2>1. At(c).do = "mismatch" /\ At(c).err = "fail"
      BY <1>4, <1>8
    <2>2. ~ Effect(At(c), c, tree, part, tree', part')
      BY <2>1 DEF Effect
    <2>3. tree' = tree => (r.op = "modpack" => WholePack(c, r, tree', part'))
      BY <1>8 DEF WholePack
    <2>4. CASE Fails(c) /\ tree' = tree
      BY <1>3, <1>8, <2>3, <2>4 DEF Local, Active, Fails
    <2>5. CASE /\ tree' = tree /\ part' = part
               /\ todo'[c] = <<>> /\ status'[c] = "dropped"
      BY <1>3, <2>3, <2>5 DEF Local, Active
    <2>6. CASE /\ tree' = tree /\ part' = part
               /\ todo'[c] = todo[c] /\ status'[c] = "leaving"
      <3>1. OnTheWay(c)'
        BY <1>3, <1>8, <2>6 DEF OnTheWay
      <3>2. QED
        BY <1>3, <2>3, <2>6, <3>1 DEF Local, Active
    <2>7. QED
      BY <1>1, <2>1, <2>2, <2>4, <2>5, <2>6 DEF Outcome
  <1>9. QED
    BY <1>5, <1>7, <1>8 DEF OnTheWay

(* Where a clean call stands after a step of another: where it was.        *)
LEMMA OtherStep ==
  ASSUME NEW c \in Calls, NEW d \in Calls \ {c}, Typed, Keeps(c), Keeps(d),
         Alone(c), Local(c), Active(d), todo[d] # <<>>, Framed(d)
  PROVE  Local(c)'
  <1> DEFINE r == call[c]
  <1>1. Shape(r)
    BY DEF Alone, Keeps
  <1>2. call' = call /\ status'[c] = status[c] /\ todo'[c] = todo[c]
    BY DEF Framed
  <1>3. At(d).p \in Uses(call[d]) /\ At(d).q \in Uses(call[d])
    BY AtTyped DEF Keeps
  <1>4. Uses(call[d]) \cap Uses(r) = {}
    BY DEF Alone
  <1>5. \A p \in Uses(r) : tree'[p] = tree[p] /\ part'[p] = part[p]
    <2>1. Uses(r) \subseteq Paths
      BY <1>1, PathsOfShape
    <2>2. QED
      BY <1>3, <1>4, <2>1 DEF Framed
  <1>6. Active(c) => OnTheWay(c)'
    <2>1. SUFFICES ASSUME Active(c) PROVE OnTheWay(c)'
      OBVIOUS
    <2>2. OnTheWay(c)
      BY <2>1 DEF Local
    <2>3. CASE \E host \in BOOLEAN, k \in Nat :
                 OnScript(host, c, k) /\ Stage(host, c, r, k, tree, part)
      <3>1. PICK host \in BOOLEAN, k \in Nat :
                 OnScript(host, c, k) /\ Stage(host, c, r, k, tree, part)
        BY <2>3
      <3>2. Stage(host, c, r, k, tree', part')
        BY <1>1, <1>5, <3>1, StageLocal
      <3>3. OnScript(host, c, k)'
        BY <1>2, <3>1 DEF OnScript
      <3>4. QED
        BY <1>2, <3>2, <3>3 DEF OnTheWay
    <2>4. CASE /\ Len(todo[c]) = 1 /\ todo[c][1].do = "mismatch"
               /\ todo[c][1].err = "fail" /\ r.op # "archive"
               /\ r.op = "modpack" =>
                    \A p \in Range(r.to) : tree[p] = r.had[p]
      <3>1. \A p \in Range(r.to) : tree'[p] = tree[p]
        BY <1>5 DEF Uses
      <3>2. QED
        BY <1>2, <2>4, <3>1 DEF OnTheWay
    <2>5. QED
      BY <2>2, <2>3, <2>4 DEF OnTheWay
  <1>7. /\ DoneIn(c, r, tree, part) => DoneIn(c, r, tree', part')
        /\ WholePack(c, r, tree, part) => WholePack(c, r, tree', part')
        /\ WholeArchive(c, r, tree) => WholeArchive(c, r, tree')
    BY <1>1, <1>5, ResultLocal
  <1>8. QED
    BY <1>2, <1>6, <1>7 DEF Local, Active

(* What a step of a call leaves of its script.                             *)
LEMMA StepKeeps ==
  ASSUME Typed, NEW c \in Calls, Keeps(c), Active(c), todo[c] # <<>>,
         Framed(c), Outcome(c)
  PROVE  Keeps(c)' /\ Begun(c)'
  <1> DEFINE U == Uses(call[c])
  <1>1. /\ todo[c] \in Seq(Steps) /\ Len(todo[c]) > 0 /\ At(c) = todo[c][1]
        /\ At(c).p \in Paths
    BY AtTyped
  <1>2. \A i \in 1 .. Len(todo[c]) : todo[c][i].p \in U /\ todo[c][i].q \in U
    BY DEF Keeps
  <1>3. call' = call /\ Shape(call[c])
    BY DEF Framed, Keeps, Begun, Active
  <1>4. status'[c] # "new"
    BY DEF Outcome, Advances, Fails, Active
  <1>5. CASE Len(todo[c]) > 1 /\ todo'[c] = Tail(todo[c])
    <2>1. /\ Len(todo'[c]) = Len(todo[c]) - 1
          /\ \A i \in 1 .. Len(todo'[c]) : todo'[c][i] = todo[c][i + 1]
      BY <1>1, <1>5
    <2>2. Len(todo'[c]) > 0
      BY <1>1, <1>5, <2>1
    <2>3. \A i \in 1 .. Len(todo'[c]) : i + 1 \in 1 .. Len(todo[c])
      BY <1>1, <2>1
    <2>4. \A i \in 1 .. Len(todo'[c]) : todo'[c][i].p \in U /\ todo'[c][i].q \in U
      BY <1>2, <2>1, <2>3
    <2>5. QED
      BY <1>3, <1>4, <2>2, <2>4 DEF Keeps, Begun
  <1>6. CASE todo'[c] = <<>> /\ ~ Active(c)'
    <2>1. Len(todo'[c]) = 0
      BY <1>6
    <2>2. QED
      BY <1>3, <1>4, <1>6, <2>1 DEF Keeps, Begun
  <1>7. CASE todo'[c] = <<One("mismatch", At(c).p, "call")>>
    <2>1. /\ Len(todo'[c]) = 1 /\ todo'[c][1].p = At(c).p
          /\ todo'[c][1].q = At(c).p
      BY <1>7 DEF One, Do
    <2>2. At(c).p \in U
      BY <1>1, <1>2
    <2>3. QED
      BY <1>3, <1>4, <2>1, <2>2 DEF Keeps, Begun
  <1>8. CASE todo'[c] = todo[c]
    BY <1>1, <1>2, <1>3, <1>4, <1>8 DEF Keeps, Begun
  <1>9. QED
    BY <1>5, <1>6, <1>7, <1>8 DEF Outcome, Advances, Fails, Active

(* The invariant is kept by whatever a call that has begun does.           *)
LEMMA ActsPreserves ==
  ASSUME FilesInv, NEW d \in Calls, Acts(d)
  PROVE  FilesInv'
  <1>1. Typed /\ Keeps(d)
    BY DEF FilesInv
  <1>2. /\ Active(d) /\ todo[d] # <<>>
        /\ Framed(d) /\ Outcome(d) /\ Typed'
    BY <1>1, ActsOutcome
  <1>3. Keeps(d)' /\ Begun(d)'
    BY <1>1, <1>2, StepKeeps
  <1>4. call' = call /\ clean' = clean /\ silent \subseteq silent'
    BY <1>2 DEF Framed
  <1>5. ASSUME NEW c \in Calls \ {d}
        PROVE  /\ status'[c] = status[c] /\ todo'[c] = todo[c]
               /\ Keeps(c)'
    <2>1. status'[c] = status[c] /\ todo'[c] = todo[c]
      BY <1>2, <1>5 DEF Framed
    <2>2. Keeps(c)
      BY <1>5 DEF FilesInv
    <2>3. QED
      BY <1>4, <2>1, <2>2 DEF Keeps, Begun, Active
  <1>6. ASSUME NEW c \in clean'
        PROVE  Alone(c)'
    <2>1. Alone(c) /\ c \in Calls
      BY <1>1, <1>4, <1>6 DEF FilesInv, Typed
    <2>2. Begun(c)'
      BY <1>3, <1>5, <2>1 DEF Alone, Begun
    <2>3. \A e \in Calls \ {c} : Active(e)' => Active(e)
      BY <1>2, <1>5 DEF Active
    <2>4. QED
      BY <1>4, <2>1, <2>2, <2>3 DEF Alone
  <1>7. ASSUME NEW c \in clean' \ silent'
        PROVE  Local(c)'
    <2>1. c \in clean \ silent /\ c \in Calls
      BY <1>1, <1>4, <1>7 DEF Typed
    <2>2. Local(c) /\ Alone(c) /\ Keeps(c)
      BY <2>1 DEF FilesInv
    <2>3. CASE c = d
      BY <1>1, <1>7, <2>1, <2>2, <2>3, OwnStep
    <2>4. CASE c # d
      BY <1>1, <1>2, <2>1, <2>2, <2>4, OtherStep
    <2>5. QED
      BY <2>3, <2>4
  <1>8. \A c \in Calls : Keeps(c)'
    BY <1>3, <1>5
  <1>9. QED
    BY <1>2, <1>6, <1>7, <1>8 DEF FilesInv

(* A call that begins.                                                     *)
LEMMA BeginPreserves ==
  ASSUME FilesInv, NEW c \in Calls, Begin(c)
  PROVE  FilesInv'
  <1> DEFINE others(r) == {d \in Calls : /\ Begun(d)
                                        /\ Uses(call[d]) \cap Uses(r) # {}}
             met(r) == {d \in others(r) : Active(d)}
  <1>1. PICK r \in Requests :
          /\ call' = [call EXCEPT ![c] =
                        [op |-> r.op, from |-> r.from, to |-> r.to,
                         had |-> [p \in Uses(r) |-> tree[p]]]]
          /\ \E host \in use_host : todo' = [todo EXCEPT ![c] = Script(host, r)]
          /\ clean' = (clean \ others(r)) \cup (IF met(r) = {} THEN {c} ELSE {})
    BY DEF Begin
  <1>2. PICK host \in BOOLEAN : todo' = [todo EXCEPT ![c] = Script(host, r)]
    BY <1>1 DEF use_host
  <1>3. /\ status[c] = "new" /\ status' = [status EXCEPT ![c] = "running"]
        /\ tree' = tree /\ part' = part /\ silent' = silent
    BY DEF Begin
  <1> DEFINE q == [op |-> r.op, from |-> r.from, to |-> r.to,
                   had |-> [p \in Uses(r) |-> tree[p]]]
             S == Script(host, r)
  <1>4. Typed /\ Shape(r)
    BY RequestShape DEF FilesInv
  <1>5. /\ Shape(q) /\ Uses(q) = Uses(r) /\ Script(host, q) = S
        /\ \A p \in Uses(q) : tree[p] = q.had[p]
    <2>1. q.op = r.op /\ q.from = r.from /\ q.to = r.to
          /\ q.had = [p \in Uses(r) |-> tree[p]]
      OBVIOUS
    <2> HIDE DEF q
    <2>2. Shape(q) /\ Uses(q) = Uses(r)
      BY <1>4, <2>1 DEF Shape, Uses
    <2>3. Script(host, q) = S
      BY <2>1 DEF Script
    <2>4. QED
      BY <2>1, <2>2, <2>3
  <1>6. Fits(S, Uses(r))
    BY <1>4, ScriptFits
  <1> HIDE DEF q, S
  <1>7. /\ call'[c] = q /\ status'[c] = "running" /\ todo'[c] = S
        /\ \A d \in Calls \ {c} : /\ call'[d] = call[d] /\ todo'[d] = todo[d]
                                 /\ status'[d] = status[d]
    BY <1>1, <1>2, <1>3, <1>4 DEF Typed, q, S
  <1>8. Typed'
    <2>1. S \in Seq(Steps)
      BY <1>6 DEF Fits
    <2>2. todo' \in [Calls -> Seq(Steps)]
      BY <1>2, <1>4, <2>1 DEF Typed, S
    <2>3. clean' \subseteq Calls
      BY <1>1, <1>4 DEF Typed
    <2>4. call' = [d \in Calls |-> call'[d]]
      BY <1>1, <1>4 DEF Typed
    <2>5. QED
      BY <1>3, <1>4, <2>2, <2>3, <2>4 DEF Typed
  <1>9. ASSUME NEW d \in Calls
        PROVE  Keeps(d)'
    <2>1. CASE d = c
      BY <1>5, <1>6, <1>7, <2>1 DEF Keeps, Begun, Active, Fits
    <2>2. CASE d # c
      <3>1. Keeps(d)
        BY DEF FilesInv
      <3>2. QED
        BY <1>7, <2>2, <3>1 DEF Keeps, Begun, Active
    <2>3. QED
      BY <2>1, <2>2
  <1>10. c \notin clean
    BY <1>3 DEF FilesInv, Alone, Begun
  <1>11. ASSUME NEW d \in clean'
         PROVE  Alone(d)'
    <2>1. d \in Calls
      BY <1>8, <1>11 DEF Typed
    <2>2. CASE d # c
      <3>1. d \in clean /\ d \notin others(r)
        BY <1>1, <1>11, <2>2
      <3>2. Alone(d)
        BY <3>1 DEF FilesInv
      <3>3. Uses(call[d]) \cap Uses(r) = {}
        BY <2>1, <3>1, <3>2 DEF Alone
      <3>4. Begun(d)'
        BY <1>7, <2>1, <2>2, <3>2 DEF Alone, Begun
      <3>5. ASSUME NEW e \in Calls \ {d}, Active(e)'
            PROVE  Uses(call'[e]) \cap Uses(call'[d]) = {}
        <4>1. CASE e = c
          BY <1>5, <1>7, <2>1, <2>2, <3>3, <4>1
        <4>2. CASE e # c
          BY <1>7, <2>1, <2>2, <3>2, <3>5, <4>2 DEF Alone, Active
        <4>3. QED
          BY <4>1, <4>2
      <3>6. QED
        BY <3>4, <3>5 DEF Alone
    <2>3. CASE d = c
      <3>1. met(r) = {}
        BY <1>1, <1>10, <1>11, <2>3
      <3>2. Begun(c)'
        BY <1>7 DEF Begun
      <3>3. ASSUME NEW e \in Calls \ {c}, Active(e)'
            PROVE  Uses(call'[e]) \cap Uses(call'[c]) = {}
        <4>1. Active(e) /\ Begun(e)
          BY <1>7, <3>3 DEF Active, Begun
        <4>2. Uses(call[e]) \cap Uses(r) = {}
          BY <3>1, <4>1
        <4>3. QED
          BY <1>5, <1>7, <4>2
      <3>4. QED
        BY <2>3, <3>2, <3>3 DEF Alone
    <2>4. QED
      BY <2>2, <2>3
  <1>12. ASSUME NEW d \in clean' \ silent'
         PROVE  Local(d)'
    <2>1. d \in Calls
      BY <1>8, <1>12 DEF Typed
    <2>2. CASE d # c
      <3>1. d \in clean \ silent
        BY <1>1, <1>3, <1>12, <2>2
      <3>2. Local(d)
        BY <3>1 DEF FilesInv
      <3>3. call'[d] = call[d] /\ todo'[d] = todo[d] /\ status'[d] = status[d]
        BY <1>7, <2>1, <2>2
      <3>4. OnTheWay(d) => OnTheWay(d)'
        <4>1. \A h \in BOOLEAN, k \in Nat : OnScript(h, d, k) => OnScript(h, d, k)'
          BY <3>3 DEF OnScript
        <4>2. QED
          BY <1>3, <3>3, <4>1 DEF OnTheWay
      <3>5. QED
        BY <1>3, <3>2, <3>3, <3>4 DEF Local, Active
    <2>3. CASE d = c
      <3>1. S \in Seq(Steps) /\ Len(S) \in Nat /\ Len(S) > 0
        BY <1>6 DEF Fits
      <3>2. OnScript(host, c, 1)'
        <4>1. /\ 1 \in 1 .. Len(S) /\ Len(S) = Len(S) - 1 + 1
              /\ \A i \in 1 .. Len(S) : S[i] = S[1 + i - 1]
          BY <3>1
        <4>2. QED
          BY <1>5, <1>7, <4>1 DEF OnScript
      <3>3. Stage(host, c, q, 1, tree, part)
        BY <1>5, StageBegins
      <3>4. OnTheWay(c)'
        BY <1>3, <1>7, <3>2, <3>3 DEF OnTheWay
      <3>5. q.op = "modpack" => WholePack(c, q, tree, part)
        <4>1. 1 \in 1 .. Len(S) + 1 /\ S = Script(host, q)
          BY <1>5, <3>1
        <4>2. QED
          BY <1>5, <3>3, <4>1, PackIsWhole
      <3>6. QED
        BY <1>3, <1>7, <2>3, <3>4, <3>5 DEF Local, Active
    <2>4. QED
      BY <2>2, <2>3
  <1>13. QED
    BY <1>8, <1>9, <1>11, <1>12 DEF FilesInv

(* FilesInv is inductive.                                                  *)
LEMMA FilesInvHolds == Spec => []FilesInv
  <1>1. Init => FilesInv
    <2>1. SUFFICES ASSUME Init PROVE FilesInv
      OBVIOUS
    <2>2. Typed
      <3>1. tree \in [Paths -> Contents] /\ part \in [Paths -> Contents]
        BY <2>1 DEF Init, Contents
      <3>2. \A c \in Calls : <<>> \in Seq(Steps)
        OBVIOUS
      <3>3. todo \in [Calls -> Seq(Steps)]
        BY <2>1, <3>2 DEF Init
      <3>4. QED
        BY <2>1, <3>1, <3>3 DEF Init, Typed
    <2>3. \A c \in Calls : Keeps(c)
      BY <2>1 DEF Init, Keeps, Begun, Active
    <2>4. clean = {}
      BY <2>1 DEF Init
    <2>5. QED
      BY <2>2, <2>3, <2>4 DEF FilesInv
  <1>2. FilesInv /\ [Next]_vars => FilesInv'
    <2>1. SUFFICES ASSUME FilesInv, [Next]_vars PROVE FilesInv'
      OBVIOUS
    <2>2. CASE UNCHANGED vars
      <3>1. /\ tree' = tree /\ part' = part /\ call' = call /\ todo' = todo
            /\ status' = status /\ present' = present
            /\ silent' = silent /\ clean' = clean /\ given' = given
        BY <2>2 DEF vars
      <3>2. Typed'
        BY <2>1, <3>1 DEF FilesInv, Typed
      <3>3. ASSUME NEW c \in Calls PROVE Keeps(c)'
        BY <2>1, <3>1 DEF FilesInv, Keeps, Begun, Active
      <3>4. ASSUME NEW c \in clean' PROVE Alone(c)'
        BY <2>1, <3>1, <3>4 DEF FilesInv, Alone, Begun, Active
      <3>5. ASSUME NEW c \in clean' \ silent' PROVE Local(c)'
        <4>1. Local(c)
          BY <2>1, <3>1, <3>5 DEF FilesInv
        <4>2. \A h \in BOOLEAN, k \in Nat : OnScript(h, c, k) => OnScript(h, c, k)'
          BY <3>1 DEF OnScript
        <4>3. OnTheWay(c) => OnTheWay(c)'
          BY <3>1, <4>2 DEF OnTheWay
        <4>4. QED
          BY <3>1, <4>1, <4>3 DEF Local, Active
      <3>6. QED
        BY <3>2, <3>3, <3>4, <3>5 DEF FilesInv
    <2>3. CASE Next
      <3>1. PICK c \in Calls : Begin(c) \/ Acts(c)
        BY <2>3 DEF Next, Acts
      <3>2. QED
        BY <2>1, <3>1, BeginPreserves, ActsPreserves
    <2>4. QED
      BY <2>1, <2>2, <2>3
  <1>3. QED
    BY <1>1, <1>2, PTL DEF Spec

-----------------------------------------------------------------------------
(* Files that do not disappear.                                            *)

(* What may not be lost: a file from the start, or the output of a call    *)
(* that has succeeded or still may, unless it was given up.                *)
Precious ==
    (present \cup {c \in Calls : status[c] \in {"running", "leaving", "ok"}})
    \ given
Saved ==
    (present \cup {c \in Calls : status[c] = "ok"
                                 /\ c \notin silent
                                 /\ call[c].op \notin
                                      {"delete", "rename", "move"}})
    \ given

(* Steps overwrite what the request names as its target, and only renames  *)
(* and moves move, each source to a target of its own.                     *)
Moving == {"rename", "mv"}
Filling == {"part", "stream", "copy", "place", "mismatch"}
Overwrites(i) ==
    \/ i.do \in {"open", "remove", "rm", "clear", "replace"} \cup Filling
    \/ i.err = "unlink"
OrderlyStep(r, i) ==
    /\ i.do \in Filling => r.op = "modpack"
    /\ Overwrites(i) =>
         /\ i.p \in Range(r.to)
         /\ r.op \in {"write", "upload", "delete", "extract", "modpack",
                      "archive"}
    /\ i.do = "replace" => r.op = "archive"
    /\ i.do \in Moving => r.op \in {"rename", "move"}
    /\ i.do = "free" => i.err = "fail"
    /\ i.err = "ignore" => r.op \in {"archive", "move"}
    /\ r.op \in {"rename", "move"} => i.do \in {"exists", "free"} \cup Moving
Orderly(r, S) ==
    /\ \A k \in 1 .. Len(S) : OrderlyStep(r, S[k])
    /\ \A j, k \in 1 .. Len(S) :
         j < k /\ S[j].do \in Moving /\ S[k].do \in Moving => S[j].q # S[k].q

(* The name of an archive and the targets of a move are found free before  *)
(* anything is put there.                                                  *)
Freed(c, r, S, T) ==
    /\ r.op = "archive" =>
         \/ S[1].do = "free" /\ S[1].p = r.to[1] /\ S[1].err = "fail"
         \/ T[r.to[1]] \in {Absent, Torn, c}
    /\ \A k \in 1 .. Len(S) : S[k].do \in Moving =>
         \/ T[S[k].q] = Absent
         \/ \E j \in 1 .. k - 1 : S[j].do = "free" /\ S[j].p = S[k].q

(* What a clean call replaces is its own or was given up; one that met     *)
(* another has nothing on its paths that was not.                          *)
Replaces(c) == \A p \in Destroys(call[c]) : tree[p] = c \/ tree[p] \notin Precious
Spends(c) ==
    /\ c \in given
    /\ \A p \in Uses(call[c]) : tree[p] \notin Precious /\ part[p] \notin Precious

(* A part file is of a modpack under way, or of one that did not succeed.  *)
PartOf(c, p) ==
    \/ c \in given
    \/ /\ status[c] # "ok"
       /\ Active(c) => call[c].op = "modpack" /\ p \in Range(call[c].to)

KeptInv ==
    /\ present \subseteq Paths
    /\ part \in [Paths -> {Absent, Torn} \cup Calls]
    /\ \A c \in Calls : Orderly(call[c], todo[c])
    /\ \A c \in Calls : status[c] = "new" =>
         \A p \in Paths : tree[p] # c /\ part[p] # c
    /\ silent \subseteq Calls
    /\ \A c \in silent : Begun(c) /\ call[c].op \in {"archive", "move"}
    /\ \A c \in Calls : \A p \in Paths : part[p] = c => PartOf(c, p)
    /\ \A c \in Calls \ clean : Active(c) => Spends(c)
    /\ \A c \in clean : Active(c) => Freed(c, call[c], todo[c], tree) /\ Replaces(c)
    /\ \A x \in Saved : \E p \in Paths : tree[p] = x

(* The steps of every script are orderly.                                  *)
LEMMA ScriptSteps ==
  ASSUME NEW host \in BOOLEAN, NEW r, Shape(r), NEW S, S = Script(host, r)
  PROVE  \A k \in 1 .. Len(S) : OrderlyStep(r, S[k])
  <1> DEFINE O == {i \in Steps : OrderlyStep(r, i)}
             s == r.from[1]
             t == r.to[1]
  <1>0. S \in Seq(O) => \A k \in 1 .. Len(S) : OrderlyStep(r, S[k])
    <2>1. SUFFICES ASSUME S \in Seq(O), NEW k \in 1 .. Len(S)
                   PROVE  OrderlyStep(r, S[k])
      OBVIOUS
    <2>2. S[k] \in O
      BY <2>1
    <2>3. QED
      BY <2>2
  <1>1. ASSUME NEW w \in Doings, NEW p \in Paths, NEW q \in Paths,
               NEW by \in {"child", "call", "shell"},
               NEW e \in {"fail", "unlink", "ignore"},
               w \in Filling => r.op = "modpack",
               w \in {"open", "remove", "rm", "clear", "replace"} \cup Filling
                 \/ e = "unlink" =>
                 /\ p \in Range(r.to)
                 /\ r.op \in {"write", "upload", "delete", "extract",
                              "modpack", "archive"},
               w = "replace" => r.op = "archive",
               w \in Moving => r.op \in {"rename", "move"},
               w = "free" => e = "fail",
               e = "ignore" => r.op \in {"archive", "move"},
               r.op \in {"rename", "move"} =>
                 w \in {"exists", "free"} \cup Moving
        PROVE  Do(w, p, q, by, e) \in O
    <2> DEFINE i == Do(w, p, q, by, e)
    <2>1. i \in Steps /\ i.do = w /\ i.p = p /\ i.err = e
      BY DEF Do, Steps
    <2> HIDE DEF i
    <2>2. OrderlyStep(r, i)
      BY <1>1, <2>1 DEF OrderlyStep, Overwrites
    <2>3. QED
      BY <2>1, <2>2 DEF i
  <1> HIDE DEF O
  <1>t. t \in Range(r.to) /\ t \in Paths
    BY DEF Shape, Range
  <1>s. r.op \in {"archive", "extract", "rename"} => s \in Paths
    BY DEF Shape
  <1>2. ASSUME r.op \in {"write", "upload"} PROVE Write(host, t) \in Seq(O)
    <2> DEFINE by == IF host THEN "shell" ELSE "child"
    <2>1. by \in {"child", "call", "shell"}
      OBVIOUS
    <2> HIDE DEF by
    <2>2. /\ One("open", t, by) \in O /\ One("fill", t, by) \in O
          /\ Chown(t) \in O
      BY <1>1, <1>2, <1>t, <2>1 DEF One, Chown, Doings, Filling, Moving
    <2>3. Write(host, t) = IF host THEN <<One("open", t, by), One("fill", t, by),
                                          Chown(t)>>
                           ELSE <<One("open", t, by), One("fill", t, by)>>
      BY DEF Write, by
    <2>4. QED
      BY <2>2, <2>3
  <1>3. CASE r.op = "write"
    BY <1>0, <1>2, <1>3 DEF Script
  <1>4. CASE r.op = "upload"
    <2>1. One("receive", t, "child") \in O
      BY <1>1, <1>4, <1>t DEF One, Doings, Filling, Moving
    <2>2. S = <<One("receive", t, "child")>> \o Write(host, t)
      BY <1>4 DEF Script, Upload
    <2>3. S \in Seq(O)
      BY <1>2, <1>4, <2>1, <2>2
    <2>4. QED
      BY <1>0, <2>3
  <1>5. CASE r.op = "delete"
    <2>1. /\ One("exists", t, "call") \in O /\ One("remove", t, "call") \in O
          /\ One("rm", t, "shell") \in O
      BY <1>1, <1>5, <1>t DEF One, Doings, Filling, Moving
    <2>2. S = IF host THEN <<One("exists", t, "call"), One("remove", t, "call")>>
              ELSE <<One("rm", t, "shell")>>
      BY <1>5 DEF Script, Delete
    <2>3. S \in Seq(O)
      BY <2>1, <2>2
    <2>4. QED
      BY <1>0, <2>3
  <1>6. CASE r.op = "create_directory"
    <2>1. /\ One("mkdir", t, "call") \in O /\ One("mkdir", t, "shell") \in O
          /\ Chown(t) \in O
      BY <1>1, <1>6, <1>t DEF One, Chown, Doings, Filling, Moving
    <2>2. S = IF host THEN <<One("mkdir", t, "call"), Chown(t)>>
              ELSE <<One("mkdir", t, "shell")>>
      BY <1>6 DEF Script, CreateDirectory
    <2>3. S \in Seq(O)
      BY <2>1, <2>2
    <2>4. QED
      BY <1>0, <2>3
  <1>7. CASE r.op = "rename"
    <2>1. s \in Paths
      BY <1>7, <1>s
    <2>2. /\ One("exists", s, "call") \in O /\ One("free", t, "call") \in O
          /\ One("free", t, "shell") \in O
      BY <1>1, <1>7, <1>t, <2>1 DEF One, Doings, Filling, Moving
    <2>3. Two("rename", s, t, "call") \in O /\ Two("mv", s, t, "shell") \in O
      BY <1>1, <1>7, <1>t, <2>1 DEF Two, Doings, Filling, Moving
    <2>4. S = IF host THEN <<One("exists", s, "call"), One("free", t, "call"),
                             Two("rename", s, t, "call")>>
              ELSE <<One("free", t, "shell"), Two("mv", s, t, "shell")>>
      BY <1>7 DEF Script, Rename
    <2>5. S \in Seq(O)
      BY <2>2, <2>3, <2>4
    <2>6. QED
      BY <1>0, <2>5
  <1>8. CASE r.op = "move"
    <2> DEFINE by == IF host THEN "call" ELSE "shell"
               n == Len(r.from)
               checks == [k \in 1 .. 2 * n |->
                            IF k % 2 = 1
                            THEN One("exists", r.from[(k + 1) \div 2], by)
                            ELSE One("free", r.to[k \div 2], by)]
               moves == [k \in 1 .. n |->
                           IF host THEN Two("rename", r.from[k], r.to[k], by)
                           ELSE Do("mv", r.from[k], r.to[k], by,
                                   IF k < n THEN "ignore" ELSE "fail")]
    <2>1. /\ r.from \in Seq(Paths) /\ r.to \in Seq(Paths)
          /\ Len(r.from) = Len(r.to) /\ n \in {1, 2}
      BY <1>8 DEF Shape
    <2>2. S = checks \o moves
      BY <1>8 DEF Script, MoveFiles
    <2>3. by \in {"child", "call", "shell"}
      OBVIOUS
    <2>4. ASSUME NEW k \in 1 .. n
          PROVE  /\ One("exists", r.from[k], by) \in O
                 /\ One("free", r.to[k], by) \in O
                 /\ Two("rename", r.from[k], r.to[k], by) \in O
                 /\ \A e \in {"ignore", "fail"} :
                      Do("mv", r.from[k], r.to[k], by, e) \in O
      <3>1. r.from[k] \in Paths /\ r.to[k] \in Paths
        BY <2>1
      <3> HIDE DEF by
      <3>2. One("exists", r.from[k], by) \in O /\ One("free", r.to[k], by) \in O
        BY <1>1, <1>8, <2>3, <3>1 DEF One, Doings, Filling, Moving
      <3>3. Two("rename", r.from[k], r.to[k], by) \in O
        BY <1>1, <1>8, <2>3, <3>1 DEF Two, Doings, Filling, Moving
      <3>4. ASSUME NEW e \in {"ignore", "fail"}
            PROVE  Do("mv", r.from[k], r.to[k], by, e) \in O
        BY <1>1, <1>8, <2>3, <3>1 DEF Doings, Filling, Moving
      <3>5. QED
        BY <3>2, <3>3, <3>4
    <2> HIDE DEF by
    <2>5. ASSUME NEW k \in 1 .. 2 * n PROVE checks[k] \in O
      <3>1. CASE k % 2 = 1
        <4>1. (k + 1) \div 2 \in 1 .. n
          BY <2>1, <3>1
        <4>2. QED
          BY <2>4, <3>1, <4>1
      <3>2. CASE k % 2 # 1
        <4>1. k \div 2 \in 1 .. n
          BY <2>1, <3>2
        <4>2. QED
          BY <2>4, <3>2, <4>1
      <3>3. QED
        BY <3>1, <3>2
    <2>6. \A k \in 1 .. n : moves[k] \in O
      BY <2>4
    <2>7. /\ checks = [k \in 1 .. 2 * n |-> checks[k]]
          /\ moves = [k \in 1 .. n |-> moves[k]]
      OBVIOUS
    <2> HIDE DEF checks, moves
    <2>8. n \in Nat /\ 2 * n \in Nat
      BY <2>1
    <2> HIDE DEF n
    <2>a. ASSUME NEW m \in Nat, NEW f, f = [k \in 1 .. m |-> f[k]],
                 \A k \in 1 .. m : f[k] \in O
          PROVE  f \in Seq(O)
      <3>1. f \in [1 .. m -> O]
        BY <2>a
      <3>2. QED
        BY <3>1
    <2>9. checks \in Seq(O) /\ moves \in Seq(O)
      <3>1. checks \in Seq(O)
        BY <2>5, <2>7, <2>8, <2>a
      <3>2. moves \in Seq(O)
        BY <2>6, <2>7, <2>8, <2>a
      <3>3. QED
        BY <3>1, <3>2
    <2>10. S \in Seq(O)
      BY <2>2, <2>9
    <2>11. QED
      BY <1>0, <2>10
  <1>9. CASE r.op = "archive"
    <2>1. s \in Paths
      BY <1>9, <1>s
    <2>2. /\ One("free", t, "call") \in O /\ One("exists", s, "call") \in O
          /\ Chown(t) \in O /\ One("free", t, "shell") \in O
          /\ One("exists", s, "shell") \in O
      BY <1>1, <1>9, <1>t, <2>1 DEF One, Chown, Doings, Filling, Moving
    <2>3. /\ Do("open", t, t, "child", "unlink") \in O
          /\ Do("fill", t, t, "child", "unlink") \in O
          /\ Do("tar", t, t, "shell", "ignore") \in O
          /\ Do("replace", t, t, "shell", "ignore") \in O
      BY <1>1, <1>9, <1>t DEF Doings, Filling, Moving
    <2>4. S = IF host
              THEN <<One("free", t, "call"), One("exists", s, "call"),
                     Do("open", t, t, "child", "unlink"),
                     Do("fill", t, t, "child", "unlink"), Chown(t)>>
              ELSE <<One("free", t, "shell"), One("exists", s, "shell"),
                     Do("tar", t, t, "shell", "ignore"),
                     Do("replace", t, t, "shell", "ignore")>>
      BY <1>9 DEF Script, CreateArchive
    <2>5. S \in Seq(O)
      BY <2>2, <2>3, <2>4
    <2>6. QED
      BY <1>0, <2>5
  <1>10. CASE r.op = "extract"
    <2>1. s \in Paths
      BY <1>10, <1>s
    <2>2. /\ One("exists", s, "call") \in O /\ Chown(t) \in O
          /\ One("inspect", t, "child") \in O /\ One("open", t, "shell") \in O
          /\ One("fill", t, "shell") \in O
      BY <1>1, <1>10, <1>t, <2>1 DEF One, Chown, Doings, Filling, Moving
    <2>3. S = <<One("exists", s, "call"), Chown(t), One("inspect", t, "child"),
                One("open", t, "shell"), One("fill", t, "shell")>>
      BY <1>10 DEF Script, Extract
    <2>4. S \in Seq(O)
      BY <2>2, <2>3
    <2>5. QED
      BY <1>0, <2>4
  <1>11. CASE r.op = "modpack"
    <2> DEFINE q == r.to[2]
               D == download_file(t)
               E == extract_overrides(q)
    <2>1. q \in Range(r.to) /\ q \in Paths
      BY <1>11 DEF Shape, Range
    <2>2. /\ One("refuse", t, "call") \in O
          /\ One("read_manifest", t, "call") \in O
          /\ One("get", t, "child") \in O /\ One("part", t, "call") \in O
          /\ One("stream", t, "child") \in O /\ One("clear", t, "call") \in O
          /\ One("place", t, "call") \in O
      BY <1>1, <1>11, <1>t DEF One, Doings, Filling, Moving
    <2>3. /\ One("part", q, "shell") \in O /\ One("copy", q, "shell") \in O
          /\ One("clear", q, "shell") \in O /\ One("place", q, "shell") \in O
      BY <1>1, <1>11, <2>1 DEF One, Doings, Filling, Moving
    <2>4. D \in Seq(O)
      BY <2>2 DEF download_file
    <2>5. E \in Seq(O)
      BY <2>3 DEF extract_overrides
    <2>6. S = IF host THEN <<One("read_manifest", t, "call")>> \o D \o E
              ELSE <<One("refuse", t, "call")>>
      BY <1>11 DEF Script, InstallModpack
    <2> HIDE DEF D, E
    <2>7. S \in Seq(O)
      BY <2>2, <2>4, <2>5, <2>6
    <2>8. QED
      BY <1>0, <2>7
  <1>12. QED
    BY <1>3, <1>4, <1>5, <1>6, <1>7, <1>8, <1>9, <1>10, <1>11 DEF Shape

(* A script finds the name of an archive and the targets of its renames    *)
(* free first.                                                             *)
LEMMA ScriptFrees ==
  ASSUME NEW host \in BOOLEAN, NEW r, Shape(r), NEW S, S = Script(host, r),
         NEW c, NEW T
  PROVE  Orderly(r, S) /\ Freed(c, r, S, T)
  <1> DEFINE s == r.from[1]
             t == r.to[1]
  <1>1. \A k \in 1 .. Len(S) : OrderlyStep(r, S[k])
    BY ScriptSteps
  <1>2. SUFFICES
          /\ r.op = "archive" =>
               S[1].do = "free" /\ S[1].p = t /\ S[1].err = "fail"
          /\ \A k \in 1 .. Len(S) : S[k].do \in Moving =>
               \E j \in 1 .. k - 1 : S[j].do = "free" /\ S[j].p = S[k].q
          /\ \A j, k \in 1 .. Len(S) :
               j < k /\ S[j].do \in Moving /\ S[k].do \in Moving
               => S[j].q # S[k].q
    BY <1>1 DEF Orderly, Freed
  <1>3. t \in Paths /\ (r.op \in {"archive", "rename"} => s \in Paths)
    BY DEF Shape
  <1>4. CASE r.op \notin {"rename", "move"}
    <2>1. \A k \in 1 .. Len(S) : S[k].do \notin Moving
      BY <1>1, <1>4 DEF OrderlyStep
    <2>2. ASSUME r.op = "archive"
          PROVE  S[1].do = "free" /\ S[1].p = t /\ S[1].err = "fail"
      <3>1. S = CreateArchive(host, s, t)
        BY <2>2 DEF Script
      <3>2. ArchiveSteps(S, host, s, t)
        BY <1>3, <2>2, <3>1, ArchiveScript
      <3>3. QED
        BY <3>2 DEF ArchiveSteps
    <2>3. QED
      BY <2>1, <2>2
  <1>5. CASE r.op = "rename"
    <2>1. S = Rename(host, s, t)
      BY <1>5 DEF Script
    <2>2. RenameSteps(S, host, s, t)
      BY <1>3, <1>5, <2>1, RenameScript
    <2>3. CASE host
      <3>1. /\ Len(S) = 3 /\ S[1].do = "exists" /\ S[2].do = "free"
            /\ S[2].p = t /\ S[3].q = t
        BY <2>2, <2>3 DEF RenameSteps
      <3>2. \A k \in 1 .. Len(S) : S[k].do \in Moving => k = 3
        BY <3>1 DEF Moving
      <3>3. QED
        BY <1>5, <3>1, <3>2
    <2>4. CASE ~ host
      <3>1. /\ Len(S) = 2 /\ S[1].do = "free" /\ S[1].p = t /\ S[2].q = t
        BY <2>2, <2>4 DEF RenameSteps
      <3>2. \A k \in 1 .. Len(S) : S[k].do \in Moving => k = 2
        BY <3>1 DEF Moving
      <3>3. QED
        BY <1>5, <3>1, <3>2
    <2>5. QED
      BY <2>3, <2>4
  <1>6. CASE r.op = "move"
    <2> DEFINE f == r.from
               g == r.to
    <2>1. /\ f \in Seq(Paths) /\ g \in Seq(Paths) /\ Len(f) = Len(g)
          /\ Len(g) \in {1, 2} /\ (Len(g) = 2 => g[1] # g[2])
      BY <1>6 DEF Shape
    <2>2. S = MoveFiles(host, f, g)
      BY <1>6 DEF Script
    <2> HIDE DEF f, g
    <2>3. MoveSteps(S, host, f, g)
      BY <2>1, <2>2, MoveScript
    <2>4. CASE Len(g) = 1
      <3>1. /\ Len(S) = 3 /\ S[1].do = "exists" /\ S[2].do = "free"
            /\ S[2].p = g[1] /\ S[3].q = g[1]
        BY <2>3, <2>4 DEF MoveSteps
      <3>2. \A k \in 1 .. Len(S) : S[k].do \in Moving => k = 3
        BY <3>1 DEF Moving
      <3>3. QED
        BY <1>6, <3>1, <3>2
    <2>5. CASE Len(g) = 2
      <3>1. /\ Len(S) = 6 /\ S[1].do = "exists" /\ S[2].do = "free"
            /\ S[3].do = "exists" /\ S[4].do = "free"
            /\ S[2].p = g[1] /\ S[4].p = g[2]
            /\ S[5].q = g[1] /\ S[6].q = g[2]
        BY <2>3, <2>5 DEF MoveSteps
      <3>2. \A k \in 1 .. Len(S) : S[k].do \in Moving => k \in {5, 6}
        BY <3>1 DEF Moving
      <3>3. ASSUME NEW k \in 1 .. Len(S), S[k].do \in Moving
            PROVE  \E j \in 1 .. k - 1 : S[j].do = "free" /\ S[j].p = S[k].q
        <4>1. CASE k = 5
          BY <3>1, <4>1
        <4>2. CASE k = 6
          BY <3>1, <4>2
        <4>3. QED
          BY <3>2, <3>3, <4>1, <4>2
      <3>4. ASSUME NEW j \in 1 .. Len(S), NEW k \in 1 .. Len(S), j < k,
                   S[j].do \in Moving, S[k].do \in Moving
            PROVE  S[j].q # S[k].q
        <4>1. j = 5 /\ k = 6
          BY <3>1, <3>2, <3>4
        <4>2. QED
          BY <2>1, <2>5, <3>1, <4>1
      <3>5. QED
        BY <1>6, <3>3, <3>4
    <2>6. QED
      BY <2>1, <2>4, <2>5
  <1>7. QED
    BY <1>4, <1>5, <1>6

(* What a step of a call does to the files, whether it succeeds or not.    *)
TreeTurns(c) ==
    \/ tree' = tree
    \/ /\ Overwrites(At(c))
       /\ \E x \in {Absent, Torn, c} : tree' = With(tree, At(c).p, x)
    \/ At(c).do = "place" /\ tree' = With(tree, At(c).p, part[At(c).p])
    \/ /\ At(c).do \in {"fill", "mkdir"} /\ tree[At(c).p] \in {Absent, Torn}
       /\ tree' = With(tree, At(c).p, c)
    \/ /\ At(c).do \in Moving /\ IsDir(tree[At(c).q])
       /\ tree' = With(tree, At(c).p, Absent)
    \/ /\ At(c).do \in Moving /\ At(c).p # At(c).q
       /\ tree' = With(With(tree, At(c).q, tree[At(c).p]), At(c).p, Absent)
PartTurns(c) ==
    \/ part' = part
    \/ /\ At(c).do \in Filling
       /\ \E x \in {Absent, Torn, c} : part' = With(part, At(c).p, x)
Turns(c) ==
    /\ TreeTurns(c) /\ PartTurns(c)
    /\ present' = present /\ given' = given
    /\ silent' = silent \/ At(c).err = "ignore"
    /\ At(c).do = "free" /\ At(c).err = "fail" =>
         todo'[c] \in {<<>>, todo[c]} \/ tree[At(c).p] = Absent

(* Each step turns the files one of these ways.                            *)
LEMMA StepTurns ==
  ASSUME Typed, NEW c \in Calls, Active(c), todo[c] # <<>>, Acts(c)
  PROVE  Turns(c)
  <1> DEFINE i == At(c)
  <1>1. ASSUME NEW T, NEW P, Does(c, T, P), T = tree, P = part,
               i.do # "free" \/ tree[i.p] = Absent
        PROVE  Turns(c)
    BY <1>1 DEF Does, rest, Turns, TreeTurns, PartTurns
  <1>2. ASSUME Errs(c)
        PROVE  Turns(c)
    <2>1. part' = part /\ present' = present /\ given' = given
      BY <1>2 DEF Errs, rest
    <2>2. silent' = silent \/ i.err = "ignore"
      BY <1>2 DEF Errs
    <2>3. TreeTurns(c)
      <3>1. CASE tree' = tree
        BY <3>1 DEF TreeTurns
      <3>2. CASE i.err = "unlink" /\ tree' = [tree EXCEPT ![i.p] = Absent]
        BY <3>2 DEF TreeTurns, Overwrites, With
      <3>3. QED
        BY <1>2, <3>1, <3>2 DEF Errs
    <2>4. i.err = "fail" => todo'[c] = <<>>
      BY <1>2 DEF Errs, Fail, Typed
    <2>5. QED
      BY <2>1, <2>2, <2>3, <2>4 DEF Turns, PartTurns
  <1>3. ASSUME NEW T, Does(c, T, part), i.do # "free", T = tree \/
               (Overwrites(i) /\ \E x \in {Absent, Torn, c} : T = With(tree, i.p, x))
        PROVE  Turns(c)
    BY <1>3 DEF Does, rest, Turns, TreeTurns, PartTurns
  <1>4. ASSUME NEW x \in {Absent, Torn, c}, Does(c, tree, With(part, i.p, x)),
               i.do \in Filling
        PROVE  Turns(c)
    BY <1>4 DEF Does, rest, Turns, TreeTurns, PartTurns, Filling
  <1>5. CASE Plain(c)
    <2>1. Does(c, tree, part) /\ i.do # "free"
      BY <1>5 DEF Plain, Running
    <2>2. QED
      BY <1>1, <2>1
  <1>6. CASE Exists(c) \/ Free(c) \/ Refuse(c)
    <2>1. \/ Errs(c)
          \/ Does(c, tree, part) /\ (i.do # "free" \/ tree[i.p] = Absent)
      BY <1>6 DEF Exists, Free, Refuse, Running
    <2>2. QED
      BY <1>1, <1>2, <2>1
  <1>7. CASE Open(c) \/ Remove(c) \/ RmRf(c) \/ Clear(c)
    <2>1. i.do \in {"open", "remove", "rm", "clear"}
      BY <1>7 DEF Open, Remove, RmRf, Clear, Running
    <2>2. \/ Errs(c) \/ Does(c, With(tree, i.p, Torn), part)
          \/ Does(c, With(tree, i.p, Absent), part)
      BY <1>7 DEF Open, Remove, RmRf, Clear
    <2>3. Overwrites(i) /\ i.do # "free"
      BY <2>1 DEF Overwrites
    <2>4. QED
      BY <1>2, <1>3, <2>2, <2>3
  <1>8. CASE Fill(c) \/ MkDir(c)
    <2>1. i.do \in {"fill", "mkdir"}
      BY <1>8 DEF Fill, MkDir, Running
    <2>2. \/ Errs(c) \/ Does(c, tree, part)
          \/ Does(c, With(tree, i.p, c), part) /\ tree[i.p] \in {Absent, Torn}
      BY <1>8 DEF Fill, MkDir
    <2>3. CASE Does(c, With(tree, i.p, c), part) /\ tree[i.p] \in {Absent, Torn}
      BY <2>1, <2>3 DEF Does, rest, Turns, TreeTurns, PartTurns
    <2>4. QED
      BY <1>1, <1>2, <2>1, <2>2, <2>3
  <1>9. CASE RenamePath(c) \/ Mv(c)
    <2>1. i.do \in Moving
      BY <1>9 DEF RenamePath, Mv, Running, Moving
    <2>2. \/ Errs(c) \/ Does(c, Renamed(i.p, i.q), part)
          \/ IsDir(tree[i.q]) /\ Does(c, With(tree, i.p, Absent), part)
      BY <1>9 DEF RenamePath, Mv
    <2>3. CASE Does(c, Renamed(i.p, i.q), part)
      BY <2>1, <2>3
      DEF Does, rest, Turns, TreeTurns, PartTurns, Renamed, Moving
    <2>4. CASE IsDir(tree[i.q]) /\ Does(c, With(tree, i.p, Absent), part)
      BY <2>1, <2>4 DEF Does, rest, Turns, TreeTurns, PartTurns, Moving
    <2>5. QED
      BY <1>2, <2>2, <2>3, <2>4
  <1>10. CASE MvTemporary(c)
    <2>1. i.do = "replace"
      BY <1>10 DEF MvTemporary, Running
    <2>2. Overwrites(i) /\ i.do # "free"
      BY <2>1 DEF Overwrites
    <2>3. \/ Does(c, tree, part) \/ Does(c, With(tree, i.p, Torn), part)
          \/ Does(c, With(tree, i.p, c), part)
      BY <1>10 DEF MvTemporary
    <2>4. QED
      BY <1>3, <2>2, <2>3
  <1>11. CASE Part(c) \/ Copy(c)
    <2>1. i.do \in Filling
      BY <1>11 DEF Part, Copy, Running, Filling
    <2>2. \/ Does(c, tree, With(part, i.p, Torn))
          \/ Does(c, tree, With(part, i.p, c))
      BY <1>11 DEF Part, Copy
    <2>3. QED
      BY <1>4, <2>1, <2>2
  <1>12. CASE Stream(c)
    <2>1. i.do = "stream"
      BY <1>12 DEF Stream, Running
    <2>2. CASE Does(c, tree, With(part, i.p, c))
      BY <1>4, <2>1, <2>2 DEF Filling
    <2>3. CASE UNCHANGED <<tree, part, status, silent, rest>>
      BY <2>1, <2>3 DEF rest, Turns, TreeTurns, PartTurns
    <2>4. QED
      BY <1>12, <2>2, <2>3 DEF Stream
  <1>13. CASE TooLarge(c) \/ Mismatch(c)
    <2>1. /\ i.do \in {"stream", "mismatch"} /\ part' = With(part, i.p, Absent)
          /\ tree' = tree /\ silent' = silent /\ UNCHANGED rest
      BY <1>13 DEF TooLarge, Mismatch, Running
    <2>2. QED
      BY <2>1 DEF rest, Turns, TreeTurns, PartTurns, Filling
  <1>14. CASE Place(c)
    <2>1. i.do = "place"
      BY <1>14 DEF Place, Running
    <2>2. \/ Errs(c)
          \/ Does(c, With(tree, i.p, part[i.p]), With(part, i.p, Absent))
      BY <1>14 DEF Place
    <2>3. CASE Does(c, With(tree, i.p, part[i.p]), With(part, i.p, Absent))
      BY <2>1, <2>3 DEF Does, rest, Turns, TreeTurns, PartTurns, Filling
    <2>4. QED
      BY <1>2, <2>2, <2>3
  <1>15. CASE StepFails(c)
    BY <1>2, <1>15 DEF StepFails
  <1>16. CASE Drop(c)
    <2>1. tree' = tree /\ part' = part /\ silent' = silent /\ UNCHANGED rest
      BY <1>16 DEF Drop
    <2>2. todo'[c] \in {<<>>, todo[c]}
      BY <1>16 DEF Drop, Typed
    <2>3. QED
      BY <2>1, <2>2 DEF rest, Turns, TreeTurns, PartTurns
  <1>17. QED
    BY <1>5, <1>6, <1>7, <1>8, <1>9, <1>10, <1>11, <1>12, <1>13, <1>14, <1>15,
       <1>16 DEF Acts, Step

(* What a call in progress may rely on at its step.                        *)
LEMMA AtWork ==
  ASSUME FilesInv, KeptInv, NEW c \in Calls, Acts(c)
  PROVE  /\ Active(c) /\ Framed(c) /\ Outcome(c) /\ Turns(c) /\ Typed
         /\ Shape(call[c]) /\ OrderlyStep(call[c], At(c))
         /\ Len(todo[c]) > 0 /\ todo[c] \in Seq(Steps) /\ At(c) = todo[c][1]
         /\ At(c).p \in Uses(call[c]) \cap Paths
         /\ At(c).q \in Uses(call[c]) \cap Paths
         /\ Uses(call[c]) \subseteq Paths
  <1>1. Typed /\ Keeps(c)
    BY DEF FilesInv
  <1>2. Active(c) /\ todo[c] # <<>> /\ Framed(c) /\ Outcome(c)
    BY <1>1, ActsOutcome
  <1>3. Turns(c)
    BY <1>1, <1>2, StepTurns
  <1>4. Shape(call[c])
    BY <1>1, <1>2 DEF Keeps, Begun, Active
  <1>5. /\ todo[c] \in Seq(Steps) /\ Len(todo[c]) > 0 /\ At(c) = todo[c][1]
        /\ At(c).p \in Paths /\ At(c).q \in Paths
    BY <1>1, <1>2, AtTyped
  <1>6. At(c).p \in Uses(call[c]) /\ At(c).q \in Uses(call[c])
    BY <1>1, <1>5 DEF Keeps
  <1>7. OrderlyStep(call[c], At(c))
    BY <1>5 DEF KeptInv, Orderly
  <1>8. Uses(call[c]) \subseteq Paths
    BY <1>4, PathsOfShape
  <1>9. QED
    BY <1>1, <1>2, <1>3, <1>4, <1>5, <1>6, <1>7, <1>8

(* What may not be lost is a file; a step adds nothing to it.              *)
LEMMA PreciousFiles ==
  ASSUME KeptInv
  PROVE  /\ Precious \subseteq Paths \cup Calls
         /\ Absent \notin Precious /\ Torn \notin Precious
         /\ \A c \in given : c \notin Precious
         /\ Saved \subseteq Precious
  <1>1. Precious \subseteq Paths \cup Calls
    BY DEF KeptInv, Precious
  <1>2. QED
    BY <1>1, FilesAssumption DEF Precious, Saved

LEMMA PreciousShrinks ==
  ASSUME NEW c \in Calls, Active(c), Framed(c), Turns(c)
  PROVE  Precious' \subseteq Precious
  BY DEF Active, Framed, Turns, Precious

(* Where the contents of a path come from.                                 *)
LEMMA Turned ==
  ASSUME FilesInv, KeptInv, NEW c \in Calls, Acts(c), NEW p \in Paths
  PROVE  /\ \/ tree'[p] \in {tree[p], Absent, Torn, c}
            \/ At(c).do = "place" /\ p = At(c).p /\ tree'[p] = part[p]
            \/ At(c).do \in Moving /\ p = At(c).q /\ tree'[p] = tree[At(c).p]
         /\ \/ part'[p] \in {part[p], Absent, Torn}
            \/ At(c).do \in Filling /\ p = At(c).p /\ part'[p] = c
  <1> DEFINE i == At(c)
  <1>1. Turns(c) /\ Typed /\ i.p \in Paths /\ i.q \in Paths
    BY AtWork
  <1>2. tree \in [Paths -> Contents] /\ part \in [Paths -> Contents]
    BY <1>1 DEF Typed
  <1> HIDE DEF i
  <1>3. ASSUME NEW x PROVE With(tree, i.p, x)[p] = IF p = i.p THEN x ELSE tree[p]
    BY <1>1, <1>2 DEF With
  <1>4. ASSUME NEW x PROVE With(part, i.p, x)[p] = IF p = i.p THEN x ELSE part[p]
    BY <1>1, <1>2 DEF With
  <1>5. ASSUME NEW x, NEW y
        PROVE  With(With(tree, i.q, x), i.p, y)[p] =
                 IF p = i.p THEN y ELSE IF p = i.q THEN x ELSE tree[p]
    BY <1>1, <1>2 DEF With
  <1>6. TreeTurns(c) /\ PartTurns(c)
    BY <1>1 DEF Turns
  <1>7. \/ tree'[p] \in {tree[p], Absent, Torn, c}
        \/ i.do = "place" /\ p = i.p /\ tree'[p] = part[p]
        \/ i.do \in Moving /\ p = i.q /\ tree'[p] = tree[i.p]
    BY <1>3, <1>5, <1>6 DEF TreeTurns, i
  <1>8. \/ part'[p] \in {part[p], Absent, Torn}
        \/ i.do \in Filling /\ p = i.p /\ part'[p] = c
    BY <1>4, <1>6 DEF PartTurns, i
  <1>9. QED
    BY <1>7, <1>8 DEF i

(* The rest of an orderly script is orderly.                               *)
LEMMA RestIsOrderly ==
  ASSUME NEW r, NEW S \in Seq(Steps), Len(S) > 0, Orderly(r, S)
  PROVE  Orderly(r, Tail(S)) /\ Orderly(r, <<>>)
  <1>1. /\ Len(Tail(S)) = Len(S) - 1
        /\ \A k \in 1 .. Len(Tail(S)) : k + 1 \in 1 .. Len(S) /\ Tail(S)[k] = S[k + 1]
    OBVIOUS
  <1>2. \A k \in 1 .. Len(Tail(S)) : OrderlyStep(r, Tail(S)[k])
    BY <1>1 DEF Orderly
  <1>3. ASSUME NEW j \in 1 .. Len(Tail(S)), NEW k \in 1 .. Len(Tail(S)), j < k,
               Tail(S)[j].do \in Moving, Tail(S)[k].do \in Moving
        PROVE  Tail(S)[j].q # Tail(S)[k].q
    <2>1. j + 1 \in 1 .. Len(S) /\ k + 1 \in 1 .. Len(S) /\ j + 1 < k + 1
      BY <1>1, <1>3
    <2>2. Tail(S)[j] = S[j + 1] /\ Tail(S)[k] = S[k + 1]
      BY <1>1
    <2>3. QED
      BY <1>3, <2>1, <2>2 DEF Orderly
  <1>4. Orderly(r, <<>>)
    <2>1. Len(<<>>) = 0
      OBVIOUS
    <2>2. QED
      BY <2>1 DEF Orderly
  <1>5. QED
    BY <1>2, <1>3, <1>4 DEF Orderly

LEMMA OrderlyKept ==
  ASSUME FilesInv, KeptInv, NEW c \in Calls, Acts(c)
  PROVE  \A d \in Calls : Orderly(call'[d], todo'[d])
  <1> DEFINE r == call[c]
             i == At(c)
  <1>1. /\ Active(c) /\ Framed(c) /\ Outcome(c) /\ OrderlyStep(r, i)
        /\ Len(todo[c]) > 0 /\ todo[c] \in Seq(Steps)
    BY AtWork
  <1>2. Orderly(r, todo[c])
    BY DEF KeptInv
  <1>3. Orderly(r, Tail(todo[c])) /\ Orderly(r, <<>>)
    BY <1>1, <1>2, RestIsOrderly
  <1>4. ASSUME i.do = "stream"
        PROVE  Orderly(r, <<One("mismatch", i.p, "call")>>)
    <2> DEFINE m == One("mismatch", i.p, "call")
    <2>1. r.op = "modpack" /\ i.p \in Range(r.to)
      BY <1>1, <1>4 DEF OrderlyStep, Filling, Overwrites
    <2>2. m.do = "mismatch" /\ m.p = i.p /\ m.err = "fail"
      BY DEF One, Do
    <2> HIDE DEF m
    <2>3. OrderlyStep(r, m)
      BY <2>1, <2>2 DEF OrderlyStep, Overwrites, Moving
    <2>4. Len(<<m>>) = 1 /\ <<m>>[1] = m
      OBVIOUS
    <2>5. Orderly(r, <<m>>)
      BY <2>3, <2>4 DEF Orderly
    <2>6. QED
      BY <2>5 DEF m
  <1>5. Orderly(r, todo'[c])
    BY <1>1, <1>2, <1>3, <1>4 DEF Outcome, Advances, Fails
  <1>6. QED
    BY <1>1, <1>5 DEF Framed, KeptInv

(* What lies in a part file is given up, or no success and under way only  *)
(* in a call that has this path: a call that places it and is alone on it  *)
(* places its own.                                                         *)
LEMMA PartIsOwn ==
  ASSUME FilesInv, KeptInv, NEW d \in Calls, Alone(d), NEW p \in Uses(call[d]),
         p \in Paths
  PROVE  part[p] \notin Precious \/ part[p] = d
  <1>1. SUFFICES ASSUME part[p] \in Precious, part[p] # d PROVE FALSE
    OBVIOUS
  <1>2. part[p] \in {Absent, Torn} \cup Calls
    BY DEF KeptInv
  <1>3. part[p] \in Calls /\ part[p] \notin given
    BY <1>1, <1>2, PreciousFiles
  <1> DEFINE v == part[p]
  <1>4. v \in Calls /\ v # d /\ v \in Precious /\ v \notin Paths /\ PartOf(v, p)
    BY <1>1, <1>3, FilesAssumption DEF KeptInv
  <1> HIDE DEF v
  <1>5. status[v] # "ok" /\ v \notin given
    BY <1>4, PreciousFiles DEF PartOf
  <1>6. Active(v)
    BY <1>4, <1>5 DEF Precious, KeptInv, Active
  <1>7. p \in Uses(call[v])
    BY <1>4, <1>5, <1>6 DEF PartOf, Uses
  <1>8. Uses(call[v]) \cap Uses(call[d]) = {}
    BY <1>4, <1>6 DEF Alone
  <1>9. QED
    BY <1>7, <1>8

(* Silent calls archive or move.                                           *)
LEMMA SilentKept ==
  ASSUME FilesInv, KeptInv, NEW c \in Calls, Acts(c)
  PROVE  /\ silent' \subseteq Calls
         /\ \A d \in silent' : Begun(d)' /\ call'[d].op \in {"archive", "move"}
  <1>1. /\ Active(c) /\ Framed(c) /\ Turns(c) /\ Outcome(c)
        /\ OrderlyStep(call[c], At(c))
    BY AtWork
  <1>2. call' = call /\ status'[c] # "new"
    BY <1>1 DEF Framed, Outcome, Advances, Fails, Active
  <1>3. ASSUME NEW d \in silent'
        PROVE  d \in Calls /\ status'[d] # "new" /\ call[d].op \in {"archive", "move"}
    <2>1. CASE d \in silent
      <3>1. d \in Calls /\ status[d] # "new" /\ call[d].op \in {"archive", "move"}
        BY <2>1 DEF KeptInv, Begun
      <3>2. QED
        BY <1>1, <1>2, <3>1 DEF Framed
    <2>2. CASE d \notin silent
      <3>1. d = c /\ At(c).err = "ignore"
        BY <1>1, <1>3, <2>2 DEF Framed, Turns
      <3>2. QED
        BY <1>1, <1>2, <3>1 DEF OrderlyStep
    <2>3. QED
      BY <2>1, <2>2
  <1>4. QED
    BY <1>2, <1>3 DEF Begun

(* A call that succeeds did what it was asked, unless others met it.       *)
LEMMA OkIsDone ==
  ASSUME FilesInv, KeptInv, NEW c \in Calls, Acts(c), status'[c] = "ok",
         c \notin given, c \notin silent'
  PROVE  DoneIn(c, call[c], tree', part') /\ Shape(call[c])
  <1>1. Active(c) /\ Framed(c) /\ Shape(call[c])
    BY AtWork
  <1>2. c \in clean
    BY <1>1 DEF KeptInv, Spends
  <1>3. call' = call /\ clean' = clean
    BY <1>1 DEF Framed
  <1>4. Local(c)'
    BY <1>2, <1>3, ActsPreserves DEF FilesInv
  <1>5. QED
    BY <1>1, <1>3, <1>4 DEF Local

LEMMA PartKept ==
  ASSUME FilesInv, KeptInv, NEW c \in Calls, Acts(c), NEW d \in Calls,
         NEW p \in Paths, part'[p] = d
  PROVE  PartOf(d, p)'
  <1>1. /\ Active(c) /\ Framed(c) /\ Turns(c) /\ OrderlyStep(call[c], At(c))
    BY AtWork
  <1>2. call' = call /\ given' = given
    BY <1>1 DEF Framed, Turns
  <1>3. CASE d # c
    <2>1. part[p] = d
      BY <1>3, Turned, FilesAssumption
    <2>2. status'[d] = status[d] /\ PartOf(d, p)
      BY <1>1, <1>3, <2>1 DEF Framed, KeptInv
    <2>3. QED
      BY <1>2, <2>2 DEF PartOf, Active
  <1>4. CASE d = c /\ c \notin given
    <2>1. call[c].op = "modpack" /\ p \in Range(call[c].to)
      <3>1. CASE part[p] = c
        BY <1>1, <1>4, <3>1 DEF KeptInv, PartOf
      <3>2. CASE At(c).do \in Filling /\ p = At(c).p
        BY <1>1, <3>2 DEF OrderlyStep, Overwrites
      <3>3. QED
        BY <1>4, <3>1, <3>2, Turned, FilesAssumption
    <2>2. c \notin silent'
      BY <1>2, <2>1, SilentKept
    <2>3. status'[c] = "ok" => part'[p] = Absent
      BY <1>4, <2>1, <2>2, OkIsDone DEF DoneIn
    <2>4. status'[c] # "ok"
      BY <1>4, <2>3, FilesAssumption
    <2>5. QED
      BY <1>2, <1>4, <2>1, <2>4 DEF PartOf
  <1>5. QED
    BY <1>2, <1>3, <1>4 DEF PartOf

(* A call that met another puts nothing on its paths that counts.          *)
LEMMA SpentStep ==
  ASSUME FilesInv, KeptInv, NEW c \in Calls \ clean, Acts(c),
         NEW p \in Uses(call[c])
  PROVE  /\ tree[p] \notin Precious /\ part[p] \notin Precious
         /\ tree'[p] \notin Precious /\ part'[p] \notin Precious
  <1>1. /\ Active(c) /\ p \in Paths
        /\ At(c).p \in Uses(call[c]) /\ At(c).q \in Uses(call[c])
    BY AtWork
  <1>2. /\ c \in given
        /\ \A q \in Uses(call[c]) : tree[q] \notin Precious /\ part[q] \notin Precious
    BY <1>1 DEF KeptInv, Spends
  <1>3. c \notin Precious /\ Absent \notin Precious /\ Torn \notin Precious
    BY <1>2, PreciousFiles
  <1>4. QED
    BY <1>1, <1>2, <1>3, Turned

(* The paths of the others stay as they are, or hold nothing that counts.  *)
LEMMA OthersPaths ==
  ASSUME FilesInv, KeptInv, NEW c \in Calls, Acts(c), NEW d \in Calls \ {c},
         NEW p \in Uses(call[d]), p \in Paths, Active(d), c \in clean \/ d \in clean
  PROVE  tree'[p] = tree[p] /\ part'[p] = part[p]
  <1>1. /\ Active(c) /\ Framed(c)
        /\ At(c).p \in Uses(call[c]) /\ At(c).q \in Uses(call[c])
    BY AtWork
  <1>2. Uses(call[c]) \cap Uses(call[d]) = {}
    BY <1>1 DEF FilesInv, Alone
  <1>3. QED
    BY <1>1, <1>2 DEF Framed

LEMMA SpendsKept ==
  ASSUME FilesInv, KeptInv, NEW c \in Calls, Acts(c), NEW d \in Calls \ clean,
         Active(d)'
  PROVE  Spends(d)'
  <1>1. Active(c) /\ Framed(c) /\ Turns(c)
    BY AtWork
  <1>2. call' = call /\ given' = given /\ Active(d)
    BY <1>1 DEF Framed, Turns, Active
  <1>3. Precious' \subseteq Precious
    BY <1>1, PreciousShrinks
  <1>4. /\ d \in given
        /\ \A p \in Uses(call[d]) : tree[p] \notin Precious /\ part[p] \notin Precious
    BY <1>2 DEF KeptInv, Spends
  <1>5. ASSUME NEW p \in Uses(call[d])
        PROVE  tree'[p] \notin Precious /\ part'[p] \notin Precious
    <2>1. p \in Paths
      BY <1>2, PathsOfShape DEF FilesInv, Keeps, Begun, Active
    <2>2. CASE p \in Uses(call[c]) /\ c \notin clean
      BY <2>2, SpentStep
    <2>3. CASE c \in clean
      <3>1. c # d
        BY <2>3
      <3>2. QED
        BY <1>2, <1>4, <2>1, <2>3, <3>1, OthersPaths
    <2>4. CASE p \notin Uses(call[c])
      <3>1. At(c).p \in Uses(call[c]) /\ At(c).q \in Uses(call[c])
        BY AtWork
      <3>2. tree'[p] = tree[p] /\ part'[p] = part[p]
        BY <1>1, <2>1, <2>4, <3>1 DEF Framed
      <3>3. QED
        BY <1>4, <3>2
    <2>5. QED
      BY <2>2, <2>3, <2>4
  <1>6. QED
    BY <1>2, <1>3, <1>4, <1>5 DEF Spends

(* What a clean call overwrites does not count: its own, given up, or, for *)
(* an archive, what it made where it found nothing.                        *)
LEMMA OverwrittenIsSpent ==
  ASSUME FilesInv, KeptInv, NEW c \in clean, Acts(c), Overwrites(At(c))
  PROVE  tree[At(c).p] \in {Absent, Torn, c} \/ tree[At(c).p] \notin Precious
  <1> DEFINE r == call[c]
             i == At(c)
  <1>0. c \in Calls
    BY DEF FilesInv, Typed
  <1>1. /\ Active(c) /\ OrderlyStep(r, i) /\ Shape(r) /\ i = todo[c][1]
    BY <1>0, AtWork
  <1>2. /\ i.p \in Range(r.to)
        /\ r.op \in {"write", "upload", "delete", "extract", "modpack", "archive"}
    BY <1>1 DEF OrderlyStep
  <1>3. Freed(c, r, todo[c], tree) /\ Replaces(c)
    BY <1>1 DEF KeptInv
  <1>4. CASE r.op = "archive"
    <2>1. i.p = r.to[1]
      BY <1>1, <1>2, <1>4 DEF Shape, Range
    <2>2. ~ (i.do = "free" /\ i.err = "fail")
      BY DEF Overwrites, Filling
    <2>3. QED
      BY <1>1, <1>3, <1>4, <2>1, <2>2 DEF Freed
  <1>5. CASE r.op # "archive"
    <2>1. i.p \in Destroys(r)
      BY <1>2, <1>5 DEF Destroys
    <2>2. QED
      BY <1>3, <2>1 DEF Replaces
  <1>6. QED
    BY <1>4, <1>5

(* What a clean call renames or moves goes where nothing is.               *)
LEMMA TargetIsFree ==
  ASSUME FilesInv, KeptInv, NEW c \in clean, Acts(c), At(c).do \in Moving
  PROVE  tree[At(c).q] = Absent
  <1>0. c \in Calls
    BY DEF FilesInv, Typed
  <1>1. Active(c) /\ Len(todo[c]) > 0 /\ todo[c] \in Seq(Steps) /\ At(c) = todo[c][1]
    BY <1>0, AtWork
  <1>2. Freed(c, call[c], todo[c], tree)
    BY <1>1 DEF KeptInv
  <1>3. 1 \in 1 .. Len(todo[c]) /\ 1 .. 1 - 1 = {}
    BY <1>1
  <1>4. QED
    BY <1>1, <1>2, <1>3 DEF Freed

LEMMA MovedOnly ==
  ASSUME FilesInv, KeptInv, NEW c \in clean, Acts(c), At(c).do \in Moving
  PROVE  \/ tree' = tree
         \/ /\ At(c).p # At(c).q /\ tree'[At(c).q] = tree[At(c).p]
            /\ tree'[At(c).p] = Absent
            /\ \A p \in Paths : p # At(c).p /\ p # At(c).q => tree'[p] = tree[p]
  <1> DEFINE i == At(c)
  <1>0. c \in Calls
    BY DEF FilesInv, Typed
  <1>1. /\ OrderlyStep(call[c], i) /\ Turns(c) /\ Framed(c)
        /\ tree \in [Paths -> Contents] /\ i.p \in Paths /\ i.q \in Paths
    BY <1>0, AtWork DEF Typed
  <1>2. tree[i.q] = Absent
    BY TargetIsFree
  <1>3. ~ Overwrites(i) /\ i.do \notin {"place", "fill", "mkdir"}
    BY <1>1 DEF OrderlyStep, Moving
  <1>4. ~ IsDir(tree[i.q])
    BY <1>2, FilesAssumption DEF IsDir
  <1>5. \/ tree' = tree
        \/ i.p # i.q /\ tree' = With(With(tree, i.q, tree[i.p]), i.p, Absent)
    BY <1>1, <1>3, <1>4 DEF Turns, TreeTurns
  <1> HIDE DEF i
  <1>6. ASSUME i.p # i.q, tree' = With(With(tree, i.q, tree[i.p]), i.p, Absent)
        PROVE  tree'[i.q] = tree[i.p] /\ tree'[i.p] = Absent
    BY <1>1, <1>6 DEF With
  <1>7. QED
    BY <1>1, <1>5, <1>6 DEF Framed, i

LEMMA ReplacesKept ==
  ASSUME FilesInv, KeptInv, NEW c \in clean, Acts(c), NEW p \in Destroys(call[c])
  PROVE  tree'[p] = c \/ tree'[p] \notin Precious
  <1>0. c \in Calls
    BY DEF FilesInv, Typed
  <1>1. Active(c) /\ Shape(call[c]) /\ OrderlyStep(call[c], At(c))
    BY <1>0, AtWork
  <1>2. p \in Uses(call[c]) /\ p \in Paths
    BY <1>1, PathsOfShape DEF Destroys, Uses
  <1>3. tree[p] = c \/ tree[p] \notin Precious
    BY <1>1 DEF KeptInv, Replaces
  <1>4. Alone(c)
    BY DEF FilesInv
  <1>5. part[p] \notin Precious \/ part[p] = c
    BY <1>0, <1>2, <1>4, PartIsOwn
  <1>6. call[c].op \notin {"rename", "move"}
    BY DEF Destroys
  <1>7. At(c).do \notin Moving
    BY <1>1, <1>6 DEF OrderlyStep
  <1>8. QED
    BY <1>0, <1>2, <1>3, <1>5, <1>7, Turned, PreciousFiles

(* A check leaves the files alone.                                         *)
LEMMA ChecksOnly ==
  ASSUME FilesInv, KeptInv, NEW c \in Calls, Acts(c),
         At(c).do \in {"free", "exists"}, At(c).err = "fail" \/ call[c].op = "move"
         \/ call[c].op = "rename"
  PROVE  tree' = tree
  <1>1. Turns(c) /\ OrderlyStep(call[c], At(c))
    BY AtWork
  <1>2. ~ Overwrites(At(c))
    BY <1>1 DEF OrderlyStep, Overwrites, Filling
  <1>3. QED
    BY <1>1, <1>2 DEF Turns, TreeTurns, Moving

LEMMA FreedKept ==
  ASSUME FilesInv, KeptInv, NEW c \in clean, Acts(c), Active(c)'
  PROVE  Freed(c, call[c], todo'[c], tree')
  <1> DEFINE r == call[c]
             i == At(c)
             S == todo[c]
             Z == todo'[c]
  <1>0. c \in Calls
    BY DEF FilesInv, Typed
  <1>1. /\ Active(c) /\ Shape(r) /\ OrderlyStep(r, i) /\ Turns(c) /\ Outcome(c)
        /\ Len(S) > 0 /\ S \in Seq(Steps) /\ i = S[1]
        /\ i.p \in Paths /\ i.q \in Paths
    BY <1>0, AtWork
  <1>2. Freed(c, r, S, tree) /\ Orderly(r, S)
    BY <1>0, <1>1 DEF KeptInv
  <1>3. \/ Z = S /\ tree' = tree
        \/ i.do = "stream" /\ Z = <<One("mismatch", i.p, "call")>>
        \/ Len(S) > 1 /\ Z = Tail(S)
    BY <1>1 DEF Outcome, Advances, Fails, Active
  <1>4. CASE Z = S /\ tree' = tree
    BY <1>2, <1>4
  <1>5. CASE i.do = "stream" /\ Z = <<One("mismatch", i.p, "call")>>
    <2>1. r.op = "modpack"
      BY <1>1, <1>5 DEF OrderlyStep, Filling
    <2>2. Len(Z) = 1 /\ Z[1].do = "mismatch"
      BY <1>5 DEF One, Do
    <2>3. QED
      BY <2>1, <2>2 DEF Freed, Moving
  <1>6. CASE Len(S) > 1 /\ Z = Tail(S)
    <2>1. /\ Len(Z) = Len(S) - 1
          /\ \A k \in 1 .. Len(Z) : k + 1 \in 1 .. Len(S) /\ Z[k] = S[k + 1]
      BY <1>1, <1>6
    <2>2. i.do = "free" => tree[i.p] = Absent /\ tree' = tree
      <3>1. SUFFICES ASSUME i.do = "free" PROVE tree[i.p] = Absent /\ tree' = tree
        OBVIOUS
      <3>2. i.err = "fail"
        BY <1>1, <3>1 DEF OrderlyStep
      <3>3. Z # <<>> /\ Z # S
        <4>1. Len(Z) > 0 /\ Len(Z) # Len(S)
          BY <1>1, <1>6, <2>1
        <4>2. QED
          BY <4>1
      <3>4. tree[i.p] = Absent
        BY <1>1, <3>1, <3>2, <3>3 DEF Turns
      <3>5. QED
        BY <1>0, <3>1, <3>2, <3>4, ChecksOnly
    <2>3. ASSUME r.op = "archive"
          PROVE  tree'[r.to[1]] \in {Absent, Torn, c}
      <3>1. r.to[1] \in Paths
        BY <1>1, <2>3 DEF Shape
      <3>2. tree[r.to[1]] \in {Absent, Torn, c}
        BY <1>1, <1>2, <2>2, <2>3 DEF Freed
      <3>3. i.do # "place" /\ i.do \notin Moving
        BY <1>1, <2>3 DEF OrderlyStep, Filling
      <3>4. QED
        BY <1>0, <3>1, <3>2, <3>3, Turned
    <2>4. ASSUME NEW k \in 1 .. Len(Z), Z[k].do \in Moving
          PROVE  \/ tree'[Z[k].q] = Absent
                 \/ \E j \in 1 .. k - 1 : Z[j].do = "free" /\ Z[j].p = Z[k].q
      <3>1. k + 1 \in 1 .. Len(S) /\ Z[k] = S[k + 1] /\ k \in Nat
        BY <2>1
      <3>2. r.op \in {"rename", "move"}
        BY <1>2, <2>4, <3>1 DEF Orderly, OrderlyStep
      <3>3. CASE tree[S[k + 1].q] = Absent
        <4>1. CASE i.do \in Moving
          <5>1. S[1].q # S[k + 1].q
            BY <1>1, <1>2, <2>4, <3>1, <4>1 DEF Orderly
          <5>2. S[k + 1].q \in Paths
            <6>1. S[k + 1] \in Steps
              BY <1>1, <3>1
            <6>2. QED
              BY <6>1 DEF Steps
          <5>3. QED
            BY <1>1, <3>1, <3>3, <4>1, <5>1, <5>2, MovedOnly
        <4>2. CASE i.do \notin Moving
          <5>1. i.do \in {"exists", "free"}
            BY <1>1, <3>2, <4>2 DEF OrderlyStep
          <5>2. tree' = tree
            BY <1>0, <3>2, <5>1, ChecksOnly
          <5>3. QED
            BY <3>1, <3>3, <5>2
        <4>3. QED
          BY <4>1, <4>2
      <3>4. CASE \E j \in 1 .. k : S[j].do = "free" /\ S[j].p = S[k + 1].q
        <4>1. PICK j \in 1 .. k : S[j].do = "free" /\ S[j].p = S[k + 1].q
          BY <3>4
        <4>2. CASE j = 1
          BY <1>1, <2>2, <3>1, <4>1, <4>2
        <4>3. CASE j # 1
          <5>0. k \in Nat /\ Len(Z) \in Nat /\ k =< Len(Z)
            BY <1>1, <2>1, <2>4
          <5>1. j - 1 \in 1 .. k - 1 /\ j - 1 \in 1 .. Len(Z) /\ (j - 1) + 1 = j
            BY <4>1, <4>3, <5>0
          <5>2. Z[j - 1] = S[j]
            BY <2>1, <5>1
          <5>3. QED
            BY <3>1, <4>1, <5>1, <5>2
        <4>4. QED
          BY <4>2, <4>3
      <3>5. (k + 1) - 1 = k
        BY <3>1
      <3>6. QED
        BY <1>2, <2>4, <3>1, <3>3, <3>4, <3>5 DEF Freed
    <2>5. QED
      BY <2>3, <2>4 DEF Freed
  <1>7. QED
    BY <1>3, <1>4, <1>5, <1>6

(* A file that counts is where it was, or where it was moved to.           *)
LEMMA SavedKept ==
  ASSUME FilesInv, KeptInv, NEW c \in Calls, Acts(c), NEW x \in Saved'
  PROVE  \E p \in Paths : tree'[p] = x
  <1> DEFINE r == call[c]
             i == At(c)
  <1>1. /\ Active(c) /\ Shape(r) /\ OrderlyStep(r, i) /\ Turns(c) /\ Framed(c)
        /\ i.p \in Uses(r) \cap Paths /\ i.q \in Uses(r) \cap Paths
    BY AtWork
  <1>2. call' = call /\ given' = given /\ present' = present
    BY <1>1 DEF Framed, Turns
  <1>3. CASE x \in Saved
    <2>1. PICK p \in Paths : tree[p] = x
      BY <1>3 DEF KeptInv
    <2>2. x \in Precious /\ x \notin {Absent, Torn} /\ x # c
      <3>1. x \in Precious /\ x \notin {Absent, Torn}
        BY <1>3, PreciousFiles
      <3>2. c \notin Saved
        BY <1>1, FilesAssumption DEF Saved, Active, KeptInv
      <3>3. QED
        BY <1>3, <3>1, <3>2
    <2>3. CASE c \notin clean
      <3>1. p \notin Uses(r)
        BY <2>1, <2>2, <2>3, SpentStep
      <3>2. QED
        BY <1>1, <2>1, <3>1 DEF Framed
    <2>4. CASE c \in clean /\ i.do \in Moving
      BY <1>1, <2>1, <2>2, <2>4, MovedOnly, TargetIsFree
    <2>5. CASE c \in clean /\ i.do \notin Moving
      <3>1. p = i.p => ~ Overwrites(i)
        BY <2>1, <2>2, <2>5, OverwrittenIsSpent
      <3>2. p = i.p => i.do # "place" /\ tree[i.p] \notin {Absent, Torn}
        BY <2>1, <2>2, <3>1 DEF Overwrites, Filling
      <3>3. p = i.p => tree' = tree
        BY <1>1, <2>5, <3>1, <3>2 DEF Turns, TreeTurns
      <3>4. p # i.p => tree'[p] = tree[p]
        <4>1. Typed
          BY DEF FilesInv
        <4>2. \A y : p # i.p => With(tree, i.p, y)[p] = tree[p]
          BY <1>1, <4>1 DEF With, Typed
        <4>3. QED
          BY <1>1, <2>5, <4>2 DEF Turns, TreeTurns
      <3>5. QED
        BY <2>1, <3>3, <3>4
    <2>6. QED
      BY <2>3, <2>4, <2>5
  <1>4. CASE x \notin Saved
    <2>1. /\ x = c /\ status'[c] = "ok" /\ c \notin silent' /\ c \notin given
          /\ r.op \notin {"delete", "rename", "move"}
      BY <1>1, <1>2, <1>4 DEF Saved, Framed
    <2>2. DoneIn(c, r, tree', part')
      BY <2>1, OkIsDone
    <2>3. r.to[1] \in Paths /\ (r.op = "modpack" => r.to[1] \in Range(r.to))
      BY <1>1 DEF Shape, Range
    <2>4. tree'[r.to[1]] = c
      BY <2>1, <2>2, <2>3 DEF DoneIn
    <2>5. QED
      BY <2>1, <2>3, <2>4
  <1>5. QED
    BY <1>3, <1>4

(* What a call in progress does keeps the files that count.                *)
LEMMA ActsKeep ==
  ASSUME FilesInv, KeptInv, NEW c \in Calls, Acts(c)
  PROVE  KeptInv'
  <1>1. /\ Active(c) /\ Framed(c) /\ Turns(c) /\ Outcome(c) /\ Typed
        /\ At(c).p \in Paths
    BY AtWork
  <1>2. call' = call /\ given' = given /\ present' = present /\ clean' = clean
    BY <1>1 DEF Framed, Turns
  <1>3. Precious' \subseteq Precious
    BY <1>1, PreciousShrinks
  <1>4. (present \subseteq Paths)'
    BY <1>2 DEF KeptInv
  <1>5. (part \in [Paths -> {Absent, Torn} \cup Calls])'
    BY <1>1 DEF KeptInv, Turns, PartTurns, With
  <1>6. ASSUME NEW d \in Calls, status'[d] = "new", NEW p \in Paths
        PROVE  tree'[p] # d /\ part'[p] # d
    <2>1. d # c
      BY <1>1, <1>6 DEF Outcome, Advances, Fails, Active
    <2>2. status[d] = "new"
      BY <1>1, <1>6, <2>1 DEF Framed
    <2>3. \A q \in Paths : tree[q] # d /\ part[q] # d
      BY <2>2 DEF KeptInv
    <2>4. QED
      BY <1>1, <2>1, <2>3, Turned, FilesAssumption
  <1>7. ASSUME NEW d \in Calls \ clean, Active(d)'
        PROVE  Spends(d)'
    BY <1>7, SpendsKept
  <1>8. ASSUME NEW d \in clean, Active(d)'
        PROVE  Freed(d, call[d], todo'[d], tree') /\ Replaces(d)'
    <2>0. d \in Calls
      BY DEF FilesInv, Typed
    <2>1. CASE d = c
      <3>1. Freed(c, call[c], todo'[c], tree')
        BY <1>8, <2>1, FreedKept
      <3>2. \A p \in Destroys(call[c]) : tree'[p] = c \/ tree'[p] \notin Precious
        BY <2>1, ReplacesKept
      <3>3. QED
        BY <1>2, <1>3, <2>1, <3>1, <3>2 DEF Replaces
    <2>2. CASE d # c
      <3>1. /\ todo'[d] = todo[d] /\ Active(d) /\ Keeps(d)
        BY <1>1, <1>8, <2>0, <2>2 DEF Framed, Active, FilesInv
      <3>2. Shape(call[d])
        BY <3>1 DEF Keeps, Begun, Active
      <3>3. Uses(call[d]) \subseteq Paths
        BY <3>2, PathsOfShape
      <3>4. \A p \in Uses(call[d]) : tree'[p] = tree[p]
        BY <1>8, <2>0, <2>2, <3>1, <3>3, OthersPaths
      <3>5. Freed(d, call[d], todo[d], tree) /\ Replaces(d)
        BY <1>8, <3>1 DEF KeptInv
      <3>6. Destroys(call[d]) \subseteq Uses(call[d])
        BY DEF Destroys, Uses
      <3>7. Replaces(d)'
        BY <1>2, <1>3, <3>4, <3>5, <3>6 DEF Replaces
      <3>8. call[d].op = "archive" => call[d].to[1] \in Uses(call[d])
        BY <3>2, PathsOfShape DEF Shape
      <3>9. \A k \in 1 .. Len(todo[d]) : todo[d][k].q \in Uses(call[d])
        BY <3>1 DEF Keeps
      <3>10. Freed(d, call[d], todo[d], tree')
        BY <3>4, <3>5, <3>8, <3>9 DEF Freed
      <3>11. QED
        BY <3>1, <3>7, <3>10
    <2>3. QED
      BY <2>1, <2>2
  <1>9. /\ \A d \in Calls : Orderly(call'[d], todo'[d])
        /\ silent' \subseteq Calls
        /\ \A d \in silent' : Begun(d)' /\ call'[d].op \in {"archive", "move"}
    BY OrderlyKept, SilentKept
  <1>10. \A d \in Calls : \A p \in Paths : part'[p] = d => PartOf(d, p)'
    BY PartKept
  <1>11. \A x \in Saved' : \E p \in Paths : tree'[p] = x
    BY SavedKept
  <1>12. QED
    BY <1>2, <1>4, <1>5, <1>6, <1>7, <1>8, <1>9, <1>10, <1>11 DEF KeptInv

(* A call that begins gives up what it is to replace, and, where it meets  *)
(* others, what lies on the paths of both.                                 *)
LEMMA BeginKeeps ==
  ASSUME FilesInv, KeptInv, NEW c \in Calls, Begin(c)
  PROVE  KeptInv'
  <1> DEFINE others(r) == {d \in Calls : /\ Begun(d)
                                        /\ Uses(call[d]) \cap Uses(r) # {}}
             met(r) == {d \in others(r) : Active(d)}
             shared(r) == UNION {Uses(call[d]) : d \in met(r)}
             request(r) == [op |-> r.op, from |-> r.from, to |-> r.to,
                            had |-> [p \in Uses(r) |-> tree[p]]]
  <1>1. PICK r \in Requests :
          /\ call' = [call EXCEPT ![c] = request(r)]
          /\ \E host \in use_host : todo' = [todo EXCEPT ![c] = Script(host, r)]
          /\ clean' = (clean \ others(r)) \cup (IF met(r) = {} THEN {c} ELSE {})
          /\ given' = (given \cup {tree[p] : p \in Destroys(r)} \cup
                         (IF met(r) = {} THEN {}
                          ELSE met(r) \cup {c} \cup
                               {tree[p] : p \in shared(r) \cup Uses(r)}))
                      \ {Absent, Torn}
    BY DEF Begin
  <1>2. PICK host \in BOOLEAN : todo' = [todo EXCEPT ![c] = Script(host, r)]
    BY <1>1 DEF use_host
  <1>3. /\ status[c] = "new" /\ status' = [status EXCEPT ![c] = "running"]
        /\ tree' = tree /\ part' = part /\ silent' = silent /\ present' = present
    BY DEF Begin
  <1>4. Typed /\ Shape(r)
    BY RequestShape DEF FilesInv
  <1> DEFINE q == request(r)
             S == Script(host, r)
  <1>5. /\ Shape(q) /\ Uses(q) = Uses(r) /\ Script(host, q) = S
        /\ Destroys(q) = Destroys(r)
    <2>1. q.op = r.op /\ q.from = r.from /\ q.to = r.to
      OBVIOUS
    <2> HIDE DEF q
    <2>2. Shape(q) /\ Uses(q) = Uses(r) /\ Destroys(q) = Destroys(r)
      BY <1>4, <2>1 DEF Shape, Uses, Destroys
    <2>3. Script(host, q) = S
      BY <2>1 DEF Script
    <2>4. QED
      BY <2>2, <2>3
  <1> HIDE DEF q, S
  <1>6. /\ call'[c] = q /\ status'[c] = "running" /\ todo'[c] = S
        /\ \A d \in Calls \ {c} : /\ call'[d] = call[d] /\ todo'[d] = todo[d]
                                 /\ status'[d] = status[d]
    BY <1>1, <1>2, <1>3, <1>4 DEF Typed, q, S
  <1> DEFINE M == met(r)
             D == shared(r)
  <1>7. /\ M = {d \in Calls : /\ Active(d)
                              /\ Uses(call[d]) \cap Uses(r) # {}}
        /\ \A d \in M : Uses(call[d]) \subseteq D
    BY DEF Active, Begun
  <1>8. /\ \A x \in given : x \in given' \/ x \in {Absent, Torn}
        /\ \A p \in Destroys(r) : tree[p] \in given' \cup {Absent, Torn}
        /\ M # {} => /\ \A d \in M \cup {c} : d \in given' \cup {Absent, Torn}
                     /\ \A p \in D \cup Uses(r) : tree[p] \in given' \cup {Absent, Torn}
    BY <1>1
  <1>9. /\ c \notin clean
        /\ clean' = (clean \ others(r)) \cup (IF M = {} THEN {c} ELSE {})
        /\ \A d \in others(r) : Active(d) => d \in M
    BY <1>1, <1>3 DEF FilesInv, Alone, Begun
  <1> HIDE DEF M, D
  <1>10. /\ Precious' \subseteq Precious \cup {c}
         /\ \A x \in given' : x \notin Precious'
         /\ Absent \notin Precious' /\ Torn \notin Precious'
    <2>1. /\ Precious \subseteq Paths \cup Calls /\ Absent \notin Precious
          /\ Torn \notin Precious
      BY PreciousFiles
    <2>2. Precious' \subseteq (present \cup {d \in Calls : status[d] \in {"running", "leaving", "ok"}} \cup {c}) \ given'
      BY <1>3, <1>6 DEF Precious
    <2>3. present \subseteq Paths
      BY DEF KeptInv
    <2>4. Absent \notin Paths \cup Calls /\ Torn \notin Paths \cup Calls
      BY FilesAssumption
    <2>5. Precious' \subseteq Precious \cup {c}
      BY <1>8, <2>2, <2>3, <2>4 DEF Precious
    <2>6. \A x \in given' : x \notin Precious'
      BY <2>2
    <2>7. QED
      BY <2>1, <2>4, <2>5, <2>6
  <1>11. \A p \in Paths : tree[p] # c /\ part[p] # c
    BY <1>3 DEF KeptInv
  <1>12. ASSUME NEW p \in Paths
         PROVE  /\ tree[p] \in Precious' => tree[p] \in Precious
                /\ part[p] \in Precious' => part[p] \in Precious
    BY <1>10, <1>11
  <1>13. ASSUME NEW d \in Calls, d \in given PROVE d \in given'
    BY <1>8, <1>13, FilesAssumption
  <1>14. ASSUME NEW d \in Calls, NEW p \in Paths, part[p] = d
         PROVE  PartOf(d, p)'
    <2>1. PartOf(d, p) /\ d # c
      BY <1>11, <1>14 DEF KeptInv
    <2>2. QED
      BY <1>6, <1>13, <2>1 DEF PartOf, Active
  <1>15. ASSUME NEW d \in Calls, NEW p \in Paths, part[p] = d,
                Active(d) => d \in given'
         PROVE  part[p] \notin Precious'
    <2>1. CASE d \in given'
      BY <1>10, <1>15, <2>1
    <2>2. CASE d \notin given'
      <3>1. PartOf(d, p) /\ d \notin given /\ ~ Active(d)
        BY <1>13, <1>15, <2>2 DEF KeptInv
      <3>2. status[d] \notin {"running", "leaving", "ok"} /\ d \notin Paths
        BY <3>1, FilesAssumption DEF PartOf, Active
      <3>3. d \notin Precious
        BY <3>2 DEF Precious, KeptInv
      <3>4. QED
        BY <1>12, <1>15, <3>3
    <2>3. QED
      BY <2>1, <2>2
  <1>16. ASSUME NEW d \in Calls, NEW p \in Paths, part[p] = d, d \notin given,
                Active(d)
         PROVE  p \in Uses(call[d])
    BY <1>16 DEF KeptInv, PartOf, Uses
  <1>17. ASSUME NEW d \in Calls \ clean', Active(d)'
         PROVE  Spends(d)'
    <2>1. CASE d = c
      <3>1. M # {}
        BY <1>9, <1>17, <2>1
      <3>2. c \in given'
        BY <1>8, <3>1, FilesAssumption
      <3>3. ASSUME NEW p \in Uses(r)
            PROVE  tree[p] \notin Precious' /\ part[p] \notin Precious'
        <4>1. p \in Paths
          BY <1>4, PathsOfShape
        <4>2. tree[p] \notin Precious'
          BY <1>8, <1>10, <3>1
        <4>3. part[p] \notin Precious'
          <5>1. CASE part[p] \in {Absent, Torn}
            BY <1>10, <5>1
          <5>2. CASE part[p] \in Calls
            <6> DEFINE v == part[p]
            <6>1. v \in Calls /\ part[p] = v
              BY <5>2
            <6> HIDE DEF v
            <6>2. ASSUME Active(v), v \notin given
                  PROVE  v \in given'
              <7>1. p \in Uses(call[v])
                BY <1>16, <4>1, <6>1, <6>2
              <7>2. v \in M
                BY <1>7, <6>1, <6>2, <7>1
              <7>3. QED
                BY <1>8, <3>1, <6>1, <7>2, FilesAssumption
            <6>3. QED
              BY <1>13, <1>15, <4>1, <6>1, <6>2
          <5>3. QED
            BY <4>1, <5>1, <5>2 DEF KeptInv
        <4>4. QED
          BY <4>2, <4>3
      <3>4. QED
        BY <1>3, <1>5, <1>6, <2>1, <3>2, <3>3 DEF Spends
    <2>2. CASE d # c
      <3>1. /\ Active(d) /\ call'[d] = call[d] /\ Keeps(d)
        BY <1>6, <1>17, <2>2 DEF Active, FilesInv
      <3>2. Uses(call[d]) \subseteq Paths
        BY <3>1, PathsOfShape DEF Keeps, Begun, Active
      <3>3. CASE d \notin clean
        <4>1. /\ d \in given
              /\ \A p \in Uses(call[d]) :
                   tree[p] \notin Precious /\ part[p] \notin Precious
          BY <3>1, <3>3 DEF KeptInv, Spends
        <4>2. QED
          BY <1>3, <1>12, <1>13, <3>1, <3>2, <4>1 DEF Spends
      <3>4. CASE d \in clean
        <4>1. d \in others(r)
          BY <1>9, <1>17, <3>4
        <4>2. d \in M
          BY <1>9, <3>1, <4>1
        <4>3. M # {} /\ Uses(call[d]) \subseteq D
          BY <1>7, <4>2
        <4>4. d \in given'
          BY <1>8, <4>2, <4>3, FilesAssumption
        <4>5. ASSUME NEW p \in Uses(call[d])
              PROVE  tree[p] \notin Precious' /\ part[p] \notin Precious'
          <5>1. p \in Paths
            BY <3>2
          <5>2. tree[p] \notin Precious'
            BY <1>8, <1>10, <4>3
          <5>3. Alone(d)
            BY <3>4 DEF FilesInv
          <5>4. part[p] \notin Precious \/ part[p] = d
            BY <5>1, <5>3, PartIsOwn
          <5>5. QED
            BY <1>10, <1>12, <4>4, <5>1, <5>2, <5>4
        <4>6. QED
          BY <1>3, <3>1, <4>4, <4>5 DEF Spends
      <3>5. QED
        BY <3>3, <3>4
    <2>3. QED
      BY <2>1, <2>2
  <1>18. ASSUME NEW d \in clean', Active(d)'
         PROVE  Freed(d, call[d], todo[d], tree)' /\ Replaces(d)'
    <2>1. CASE d = c
      <3>1. Freed(c, q, S, tree)
        BY <1>5, ScriptFrees
      <3>2. \A p \in Destroys(q) : tree[p] \notin Precious'
        BY <1>5, <1>8, <1>10
      <3>3. QED
        BY <1>3, <1>6, <2>1, <3>1, <3>2 DEF Replaces
    <2>2. CASE d # c
      <3>1. d \in clean
        BY <1>9, <1>18, <2>2
      <3>2. d \in Calls
        BY <1>4, <3>1 DEF Typed
      <3>3. call'[d] = call[d] /\ todo'[d] = todo[d] /\ Active(d)
        BY <1>6, <1>18, <2>2, <3>2 DEF Active
      <3>4. Freed(d, call[d], todo[d], tree) /\ Replaces(d)
        BY <3>1, <3>3 DEF KeptInv
      <3>5. Destroys(call[d]) \subseteq Paths
        <4>1. Shape(call[d])
          BY <3>2, <3>3 DEF FilesInv, Keeps, Begun, Active
        <4>2. QED
          BY <4>1, PathsOfShape DEF Destroys, Uses
      <3>6. Replaces(d)'
        BY <1>3, <1>12, <3>3, <3>4, <3>5 DEF Replaces
      <3>7. QED
        BY <1>3, <3>3, <3>4, <3>6
    <2>3. QED
      BY <2>1, <2>2
  <1>19. ASSUME NEW d \in Calls
         PROVE  Orderly(call'[d], todo'[d])
    <2>1. Orderly(q, S)
      BY <1>5, ScriptFrees
    <2>2. QED
      BY <1>6, <2>1 DEF KeptInv
  <1>20. ASSUME NEW d \in silent'
         PROVE  Begun(d)' /\ call'[d].op \in {"archive", "move"}
    <2>1. d \in Calls /\ Begun(d) /\ call[d].op \in {"archive", "move"}
      BY <1>3, <1>20 DEF KeptInv
    <2>2. QED
      BY <1>3, <1>6, <2>1 DEF Begun
  <1>21. ASSUME NEW x \in Saved'
         PROVE  \E p \in Paths : tree[p] = x
    <2>1. present \subseteq Paths
      BY DEF KeptInv
    <2>2. x \in Saved
      BY <1>3, <1>6, <1>8, <1>21, <2>1, FilesAssumption DEF Saved
    <2>3. QED
      BY <2>2 DEF KeptInv
  <1>22. \A d \in Calls : status'[d] = "new" => status[d] = "new"
    BY <1>6
  <1>23. (present \subseteq Paths)' /\ (silent \subseteq Calls)'
         /\ (part \in [Paths -> {Absent, Torn} \cup Calls])'
    BY <1>3 DEF KeptInv
  <1>24. ASSUME NEW d \in Calls, status'[d] = "new", NEW p \in Paths
         PROVE  tree'[p] # d /\ part'[p] # d
    BY <1>3, <1>22, <1>24 DEF KeptInv
  <1>25. QED
    BY <1>3, <1>14, <1>17, <1>18, <1>19, <1>20, <1>21, <1>23, <1>24 DEF KeptInv

(* KeptInv is inductive, with FilesInv.                                    *)
LEMMA KeptInvHolds == Spec => []KeptInv
  <1>1. Init => KeptInv
    <2>1. SUFFICES ASSUME Init PROVE KeptInv
      OBVIOUS
    <2>2. /\ present \subseteq Paths /\ silent = {} /\ clean = {} /\ given = {}
          /\ tree = [p \in Paths |-> IF p \in present THEN p ELSE Absent]
          /\ part = [p \in Paths |-> Absent]
          /\ status = [c \in Calls |-> "new"]
          /\ todo = [c \in Calls |-> <<>>]
      BY <2>1 DEF Init
    <2>3. ASSUME NEW c \in Calls
          PROVE  /\ status[c] = "new" /\ ~ Active(c) /\ Orderly(call[c], todo[c])
                 /\ \A p \in Paths : tree[p] # c /\ part[p] # c
      <3>1. todo[c] = <<>> /\ Len(<<>>) = 0
        BY <2>2
      <3>2. Orderly(call[c], todo[c])
        BY <3>1 DEF Orderly
      <3>3. \A p \in Paths : tree[p] # c /\ part[p] # c
        BY <2>2, FilesAssumption
      <3>4. QED
        BY <2>2, <3>2, <3>3 DEF Active
    <2>4. \A x \in Saved : x \in Paths /\ tree[x] = x
      BY <2>2, <2>3 DEF Saved
    <2>5. QED
      BY <2>2, <2>3, <2>4 DEF KeptInv
  <1>2. FilesInv /\ KeptInv /\ [Next]_vars => KeptInv'
    <2>1. SUFFICES ASSUME FilesInv, KeptInv, [Next]_vars PROVE KeptInv'
      OBVIOUS
    <2>2. CASE UNCHANGED vars
      <3>1. /\ tree' = tree /\ part' = part /\ call' = call /\ todo' = todo
            /\ status' = status /\ present' = present
            /\ silent' = silent /\ clean' = clean /\ given' = given
        BY <2>2 DEF vars
      <3>2. /\ Precious' = Precious /\ Saved' = Saved
            /\ \A c : Active(c)' = Active(c) /\ Begun(c)' = Begun(c)
        BY <3>1 DEF Precious, Saved, Active, Begun
      <3>3. /\ \A c : Spends(c)' = Spends(c) /\ Replaces(c)' = Replaces(c)
            /\ \A c, p : PartOf(c, p)' = PartOf(c, p)
        BY <3>1, <3>2 DEF Spends, Replaces, PartOf
      <3>4. QED
        BY <2>1, <3>1, <3>2, <3>3 DEF KeptInv
    <2>3. CASE Next
      <3>1. PICK c \in Calls : Begin(c) \/ Acts(c)
        BY <2>3 DEF Next, Acts
      <3>2. QED
        BY <2>1, <3>1, BeginKeeps, ActsKeep
    <2>4. QED
      BY <2>1, <2>2, <2>3
  <1>3. QED
    BY <1>1, <1>2, FilesInvHolds, PTL DEF Spec

-----------------------------------------------------------------------------
(* A call that reports success, and that no other call met on its paths,   *)
(* did all of what it was asked: everything moved, the whole file written, *)
(* every file of the pack verified and in place (files.rs, modpack.rs).    *)
THEOREM SuccessIsDone == Spec => []SuccessMeansDone
  <1>1. FilesInv => SuccessMeansDone
    <2>1. SUFFICES ASSUME FilesInv, NEW c \in clean \ silent, status[c] = "ok"
                   PROVE  Done(c)
      BY DEF SuccessMeansDone
    <2>2. DoneIn(c, call[c], tree, part)
      BY <2>1 DEF FilesInv, Local
    <2>3. QED
      BY <2>2 DEF DoneIn, Done
  <1>2. QED
    BY <1>1, FilesInvHolds, PTL

(* A pack's path holds its old file or the verified new one at any time,   *)
(* and an archive that could not be completed is not left under its name   *)
(* (modpack.rs download_file, extract_overrides; files.rs create_archive). *)
THEOREM FilesStayWhole == Spec => []OnlyWholeFiles
  <1>1. FilesInv => OnlyWholeFiles
    <2>1. SUFFICES ASSUME FilesInv, NEW c \in clean \ silent
                   PROVE  /\ call[c].op = "modpack" =>
                               WholePack(c, call[c], tree, part)
                          /\ call[c].op = "archive" /\ status[c] \in {"ok", "failed"}
                               => WholeArchive(c, call[c], tree)
      BY DEF OnlyWholeFiles, WholePack, WholeArchive
    <2>2. QED
      BY <2>1 DEF FilesInv, Local
  <1>2. QED
    BY <1>1, FilesInvHolds, PTL

(* What was there at the start, or was made by a call that succeeded, is   *)
(* still found under some name, however the calls interleave, fail or are  *)
(* dropped, unless one was asked to replace or remove it or two of them    *)
(* met on its path (files.rs rename, move_files, create_archive).          *)
THEOREM NoFileDisappears == Spec => []FilesKept
  <1>1. KeptInv => FilesKept
    BY DEF KeptInv, FilesKept, Saved
  <1>2. QED
    BY <1>1, KeptInvHolds, PTL
=============================================================================
