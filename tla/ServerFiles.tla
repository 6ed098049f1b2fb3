----------------------------- MODULE ServerFiles -----------------------------
(***************************************************************************)
(* The file operations on a server's data: src/src/storage/files.rs,       *)
(* storage/files/modpack.rs and the handlers in grpc/services/file.rs.     *)
(*                                                                         *)
(* Nothing serialises them: each call is a script of steps (a check, a     *)
(* truncation, a rename, ...) that interleave with the steps of the other  *)
(* calls, and any step may fail.  A call can be dropped at any await.      *)
(* What that stops depends on who runs the step:                           *)
(*   "child"   a network wait or a process with kill_on_drop: it stops;    *)
(*   "call"    one tokio::fs operation: a blocking thread may already have *)
(*             it and carries it out after the call is gone;               *)
(*   "shell"   a shell inside the container, or a longer job of a blocking *)
(*             thread: it runs on to its end.                              *)
(*                                                                         *)
(* Files live in a few directories.  A content is Absent, Torn (cut short  *)
(* or unverified), what was there at the start (named by its path), or the *)
(* whole output of a call (named by the call).                             *)
(***************************************************************************)
EXTENDS Naturals, Sequences, FiniteSets, Functions

CONSTANTS
    Dirs, Names,
    Calls,
    Files,          \* how many files there are at the start
    Absent, Torn,
    Faults          \* what may happen: "io", "drop"

Paths == Dirs \X Names

ASSUME FilesAssumption ==
    /\ {Absent, Torn} \cap (Paths \cup Calls) = {} /\ Paths \cap Calls = {}
    /\ Faults \subseteq {"io", "drop"} /\ Files \in Nat

VARIABLES
    present,        \* the paths that held a file at the start
    tree,           \* per path, its content
    part,           \* per path, its .agapornis-part
    call,           \* per call, its request and what its paths held before
    status,         \* "new", "running", "leaving", "ok", "failed", "dropped"
    todo,           \* the steps ahead of a call
    silent,         \* calls whose shell went on after a failed command
    clean,          \* calls whose paths nobody else has used since they began
    given           \* contents a call was asked to replace or to remove

vars == <<present, tree, part, call, status, todo, silent, clean, given>>

-----------------------------------------------------------------------------
(* The requests.  `from` and `to` are sequences of paths; a move pairs     *)
(* them up, a modpack has one file in its index and one override (its      *)
(* archive is not among the paths).  Two sources of one name would be      *)
(* moved over each other (README, known limits); such moves are left out.  *)

Request(op, from, to) == [op |-> op, from |-> from, to |-> to]
In(d, s) == [k \in 1 .. Len(s) |-> <<d, s[k][2]>>]
(* validated_sources: one or more, none twice.                             *)
Selections == {<<p>> : p \in Paths} \cup
              {s \in Paths \X Paths : s[1] # s[2]}
Single(op, p) == Request(op, <<>>, <<p>>)
Modpack(p, q) == Request("modpack", <<>>, <<p, q>>)
Singles == {Single(op, p) :
               op \in {"write", "upload", "delete", "create_directory"},
               p \in Paths}
Packings == {Request(op, <<p>>, <<q>>) :
                op \in {"archive", "extract"}, p \in Paths, q \in Paths}
Renames == {Request("rename", <<p>>, <<<<p[1], n>>>>) : p \in Paths, n \in Names}
Moves == {Request("move", s, In(d, s)) : s \in Selections, d \in Dirs}
Modpacks == {Modpack(p, q) : p \in Paths, q \in Paths}

Requests ==
    Singles \cup Packings \cup Renames \cup Modpacks
    \cup {r \in Moves : \A i, j \in 1 .. Len(r.to) :
                            i # j => r.to[i] # r.to[j]}

Uses(r) == Range(r.from) \cup Range(r.to)
(* What a request is meant to replace or to remove.                        *)
Destroys(r) ==
    IF r.op \in {"write", "upload", "delete", "extract", "modpack"}
    THEN Range(r.to) ELSE {}

NoCall == [op |-> "none", from |-> <<>>, to |-> <<>>,
           had |-> [p \in {} |-> Absent]]
Begun(c) == status[c] # "new"
Active(c) == status[c] \in {"running", "leaving"}
IsDir(x) == x \in Calls /\ call[x].op = "create_directory"

Init ==
    /\ present \in {s \in SUBSET Paths : Cardinality(s) = Files}
    /\ tree = [p \in Paths |-> IF p \in present THEN p ELSE Absent]
    /\ part = [p \in Paths |-> Absent]
    /\ call = [c \in Calls |-> NoCall]
    /\ status = [c \in Calls |-> "new"]
    /\ todo = [c \in Calls |-> <<>>]
    /\ silent = {} /\ clean = {} /\ given = {}

-----------------------------------------------------------------------------
(* The scripts.  `by` says who runs a step, `err` what its failure does:   *)
(* "fail" ends the call, "unlink" removes the path first, "ignore" is a    *)
(* command before a semicolon.                                             *)

Do(what, p, q, by, err) ==
    [do |-> what, p |-> p, q |-> q, by |-> by, err |-> err]
One(what, p, by) == Do(what, p, p, by, "fail")
Two(what, p, q, by) == Do(what, p, q, by, "fail")

Chown(p) == One("chown", p, "child")

Write(host, t) ==
    IF host
    THEN <<One("open", t, "shell"), One("fill", t, "shell"), Chown(t)>>
    ELSE <<One("open", t, "child"), One("fill", t, "child")>>

Upload(host, t) == <<One("receive", t, "child")>> \o Write(host, t)

Delete(host, t) ==
    IF host THEN <<One("exists", t, "call"), One("remove", t, "call")>>
    ELSE <<One("rm", t, "shell")>>

Rename(host, s, t) ==
    IF host
    THEN <<One("exists", s, "call"), One("free", t, "call"),
           Two("rename", s, t, "call")>>
    ELSE <<One("free", t, "shell"), Two("mv", s, t, "shell")>>

CreateDirectory(host, t) ==
    IF host THEN <<One("mkdir", t, "call"), Chown(t)>>
    ELSE <<One("mkdir", t, "shell")>>

(* All checks first, then the renames; in the shell only the last mv's     *)
(* status counts.                                                          *)
MoveFiles(host, from, to) ==
    LET by == IF host THEN "call" ELSE "shell"
        n == Len(from)
        checks == [k \in 1 .. 2 * n |->
                     IF k % 2 = 1 THEN One("exists", from[(k + 1) \div 2], by)
                     ELSE One("free", to[k \div 2], by)]
        moves == [k \in 1 .. n |->
                    IF host THEN Two("rename", from[k], to[k], by)
                    ELSE Do("mv", from[k], to[k], by,
                            IF k < n THEN "ignore" ELSE "fail")]
    IN checks \o moves

\* Defect: an item that already has the archive's name is overwritten.
ArchiveOverwrites(host, s, t) ==
    IF host
    THEN <<One("exists", s, "call"), Do("open", t, t, "child", "unlink"),
           Do("fill", t, t, "child", "unlink"), Chown(t)>>
    ELSE <<One("exists", s, "shell"), Do("tar", t, t, "shell", "ignore"),
           Do("replace", t, t, "shell", "ignore")>>

\* Defect: an archive that could not be completed stays under its name.
ArchiveUncleaned(host, s, t) ==
    IF host
    THEN <<One("free", t, "call"), One("exists", s, "call"),
           One("open", t, "child"), One("fill", t, "child"), Chown(t)>>
    ELSE <<One("free", t, "shell"), One("exists", s, "shell"),
           Do("tar", t, t, "shell", "ignore"),
           Do("replace", t, t, "shell", "ignore")>>

CreateArchive(host, s, t) ==
    IF host
    THEN <<One("free", t, "call"), One("exists", s, "call"),
           Do("open", t, t, "child", "unlink"),
           Do("fill", t, t, "child", "unlink"), Chown(t)>>
    ELSE <<One("free", t, "shell"), One("exists", s, "shell"),
           Do("tar", t, t, "shell", "ignore"),
           Do("replace", t, t, "shell", "ignore")>>

(* On the host's files in any case, by a container of its own.             *)
Extract(a, t) ==
    <<One("exists", a, "call"), Chown(t), One("inspect", t, "child"),
      One("open", t, "shell"), One("fill", t, "shell")>>

download_file(p) ==
    <<One("get", p, "child"), One("part", p, "call"),
      One("stream", p, "child"), One("clear", p, "call"),
      One("place", p, "call")>>
extract_overrides(p) ==
    <<One("part", p, "shell"), One("copy", p, "shell"),
      One("clear", p, "shell"), One("place", p, "shell")>>
InstallModpack(host, p, q) ==
    IF host
    THEN <<One("read_manifest", p, "call")>> \o download_file(p)
           \o extract_overrides(q)
    ELSE <<One("refuse", p, "call")>>

Script(host, r) ==
    CASE r.op = "write" -> Write(host, r.to[1])
      [] r.op = "upload" -> Upload(host, r.to[1])
      [] r.op = "delete" -> Delete(host, r.to[1])
      [] r.op = "create_directory" -> CreateDirectory(host, r.to[1])
      [] r.op = "rename" -> Rename(host, r.from[1], r.to[1])
      [] r.op = "move" -> MoveFiles(host, r.from, r.to)
      [] r.op = "archive" -> CreateArchive(host, r.from[1], r.to[1])
      [] r.op = "extract" -> Extract(r.from[1], r.to[1])
      [] r.op = "modpack" -> InstallModpack(host, r.to[1], r.to[2])

(* Root.use_host: the host's files unless the server runs without an exact *)
(* mount.  It may start and stop between two calls, and an inspection that *)
(* fails counts as "not running".                                          *)
use_host == {TRUE, FALSE}

-----------------------------------------------------------------------------
(* A call begins.  Calls that meet on a path are no longer clean, and what *)
(* they find there may go.                                                 *)
Begin(c) ==
    /\ status[c] = "new"
    /\ \E r \in Requests :
         LET others == {d \in Calls : /\ Begun(d)
                                      /\ Uses(call[d]) \cap Uses(r) # {}}
             met == {d \in others : Active(d)}
             shared == UNION {Uses(call[d]) : d \in met}
         IN /\ call' = [call EXCEPT ![c] =
                          [op |-> r.op, from |-> r.from, to |-> r.to,
                           had |-> [p \in Uses(r) |-> tree[p]]]]
            /\ \E host \in use_host : todo' = [todo EXCEPT ![c] = Script(host, r)]
            /\ clean' = (clean \ others) \cup (IF met = {} THEN {c} ELSE {})
            /\ given' = (given \cup {tree[p] : p \in Destroys(r)} \cup
                           (IF met = {} THEN {}
                            ELSE met \cup {c} \cup
                                 {tree[p] : p \in shared \cup Uses(r)}))
                        \ {Absent, Torn}
    /\ status' = [status EXCEPT ![c] = "running"]
    /\ UNCHANGED <<present, tree, part, silent>>

At(c) == Head(todo[c])
Running(c, what) == Active(c) /\ todo[c] # <<>> /\ At(c).do = what

(* A dropped call ends after the operation, or the shell, already at work. *)
GoesOn(c) ==
    /\ Len(todo[c]) > 1
    /\ status[c] = "leaving" => At(c).by = "shell" /\ todo[c][2].by = "shell"
Advance(c) ==
    /\ todo' = [todo EXCEPT ![c] = IF GoesOn(c) THEN Tail(@) ELSE <<>>]
    /\ status' = [status EXCEPT ![c] =
                    IF GoesOn(c) THEN @
                    ELSE IF @ = "running" THEN "ok" ELSE "dropped"]
Fail(c) ==
    /\ todo' = [todo EXCEPT ![c] = <<>>]
    /\ status' = [status EXCEPT ![c] = IF @ = "running" THEN "failed"
                                       ELSE "dropped"]
rest == <<present, call, clean, given>>

(* The step at hand errs.                                                  *)
Errs(c) ==
    LET i == At(c) IN
    \/ /\ i.err = "ignore" /\ Advance(c)
       /\ silent' = silent \cup {c} /\ UNCHANGED <<tree, part, rest>>
    \/ /\ i.err = "unlink" /\ Fail(c)
       /\ tree' = [tree EXCEPT ![i.p] = Absent]
       /\ UNCHANGED <<part, silent, rest>>
    \/ /\ i.err = "fail" /\ Fail(c) /\ UNCHANGED <<tree, part, silent, rest>>

(* It succeeds, with these files.                                          *)
Does(c, newTree, newPart) ==
    /\ tree' = newTree /\ part' = newPart
    /\ Advance(c) /\ UNCHANGED <<silent, rest>>
With(f, p, x) == [f EXCEPT ![p] = x]

-----------------------------------------------------------------------------
(* The steps.                                                              *)

(* Waits and processes that leave the files alone.                         *)
Plain(c) ==
    /\ \E what \in {"chown", "receive", "inspect", "read_manifest", "get",
                     "tar"} : Running(c, what)
    /\ Does(c, tree, part)

Exists(c) ==
    /\ Running(c, "exists")
    /\ IF tree[At(c).p] # Absent THEN Does(c, tree, part) ELSE Errs(c)

Free(c) ==
    /\ Running(c, "free")
    /\ IF tree[At(c).p] = Absent THEN Does(c, tree, part) ELSE Errs(c)

Refuse(c) == Running(c, "refuse") /\ Errs(c)

Open(c) ==
    /\ Running(c, "open")
    /\ IF IsDir(tree[At(c).p]) THEN Errs(c)
       ELSE Does(c, With(tree, At(c).p, Torn), part)

(* A file that was renamed or removed meanwhile is filled all the same,    *)
(* under its new name or none.                                             *)
Fill(c) ==
    /\ Running(c, "fill")
    /\ Does(c, IF tree[At(c).p] = Torn THEN With(tree, At(c).p, c) ELSE tree,
            part)

Remove(c) ==
    /\ Running(c, "remove")
    /\ IF tree[At(c).p] # Absent
       THEN Does(c, With(tree, At(c).p, Absent), part) ELSE Errs(c)

RmRf(c) ==
    /\ Running(c, "rm") /\ Does(c, With(tree, At(c).p, Absent), part)

MkDir(c) ==
    /\ Running(c, "mkdir")
    /\ IF tree[At(c).p] = Absent
       THEN Does(c, With(tree, At(c).p, c), part) ELSE Errs(c)

Renamed(p, q) ==
    IF p = q THEN tree ELSE With(With(tree, q, tree[p]), p, Absent)

(* rename(2) replaces a file by a file and a directory by a directory, and *)
(* leaves a path renamed to itself alone; mv refuses that.                 *)
RenamePath(c) ==
    LET p == At(c).p
        q == At(c).q
    IN /\ Running(c, "rename")
       /\ IF /\ tree[p] # Absent
             /\ tree[q] # Absent => (IsDir(tree[p]) <=> IsDir(tree[q]))
          THEN Does(c, Renamed(p, q), part) ELSE Errs(c)

(* mv moves into a directory: out of the paths looked at here.             *)
Mv(c) ==
    LET p == At(c).p
        q == At(c).q
    IN /\ Running(c, "mv")
       /\ CASE tree[p] = Absent \/ p = q -> Errs(c)
            [] tree[p] # Absent /\ p # q /\ IsDir(tree[q]) ->
                 Does(c, With(tree, p, Absent), part)
            [] OTHER -> Does(c, Renamed(p, q), part)

(* The archive made in the container is moved whether or not tar failed.   *)
MvTemporary(c) ==
    LET t == At(c).p IN
    /\ Running(c, "replace")
    /\ Does(c, IF IsDir(tree[t]) THEN tree
               ELSE With(tree, t, IF c \in silent THEN Torn ELSE c), part)

Part(c) == Running(c, "part") /\ Does(c, tree, With(part, At(c).p, Torn))

(* All chunks arrive; the digest of what this call received agrees with    *)
(* the index or not.                                                       *)
Stream(c) ==
    /\ Running(c, "stream")
    /\ \/ Does(c, tree, With(part, At(c).p, c))
       \/ /\ todo' = [todo EXCEPT ![c] = <<One("mismatch", At(c).p, "call")>>]
          /\ UNCHANGED <<tree, part, status, silent, rest>>

(* The limits: the temporary file is removed.                              *)
TooLarge(c) ==
    /\ "io" \in Faults /\ Running(c, "stream") /\ Fail(c)
    /\ part' = With(part, At(c).p, Absent)
    /\ UNCHANGED <<tree, silent, rest>>

Copy(c) == Running(c, "copy") /\ Does(c, tree, With(part, At(c).p, c))

\* Defect: the pack's digest is computed and not compared.
MismatchIgnored(c) ==
    /\ Running(c, "mismatch")
    /\ Does(c, With(tree, At(c).p, Torn), With(part, At(c).p, Absent))

(* SHA-512 verification failed.                                            *)
Mismatch(c) ==
    /\ Running(c, "mismatch") /\ Fail(c)
    /\ part' = With(part, At(c).p, Absent)
    /\ UNCHANGED <<tree, silent, rest>>

(* An existing target is removed first; remove_file refuses a directory.   *)
Clear(c) ==
    /\ Running(c, "clear")
    /\ IF IsDir(tree[At(c).p]) THEN Errs(c)
       ELSE Does(c, With(tree, At(c).p, Absent), part)

Place(c) ==
    LET p == At(c).p IN
    /\ Running(c, "place")
    /\ IF part[p] # Absent /\ ~ IsDir(tree[p])
       THEN Does(c, With(tree, p, part[p]), With(part, p, Absent))
       ELSE Errs(c)

Step(c) ==
    \/ Plain(c) \/ Exists(c) \/ Free(c) \/ Refuse(c) \/ Open(c) \/ Fill(c)
    \/ Remove(c) \/ RmRf(c) \/ MkDir(c) \/ RenamePath(c) \/ Mv(c)
    \/ MvTemporary(c) \/ Part(c) \/ Stream(c) \/ TooLarge(c) \/ Copy(c)
    \/ Mismatch(c) \/ Clear(c) \/ Place(c)

(* An I/O error, a failing process, a broken stream.                       *)
StepFails(c) ==
    /\ "io" \in Faults /\ Active(c) /\ todo[c] # <<>>
    /\ At(c).do \notin {"mismatch", "refuse"} /\ Errs(c)

(* The client goes away: the call stops, or leaves a step behind.          *)
Drop(c) ==
    /\ "drop" \in Faults /\ status[c] = "running"
    /\ \/ /\ At(c).by \in {"child", "call"}
          /\ todo' = [todo EXCEPT ![c] = <<>>]
          /\ status' = [status EXCEPT ![c] = "dropped"]
       \/ /\ At(c).by \in {"call", "shell"}
          /\ status' = [status EXCEPT ![c] = "leaving"]
          /\ UNCHANGED todo
    /\ UNCHANGED <<tree, part, silent, rest>>

Next == \E c \in Calls : Begin(c) \/ Step(c) \/ StepFails(c) \/ Drop(c)

Spec == Init /\ [][Next]_vars

-----------------------------------------------------------------------------
Done(c) ==
    LET r == call[c] IN
    CASE r.op = "delete" -> tree[r.to[1]] = Absent
      [] r.op \in {"rename", "move"} ->
            \A k \in 1 .. Len(r.from) : /\ tree[r.from[k]] = Absent
                                        /\ tree[r.to[k]] = r.had[r.from[k]]
      [] r.op = "modpack" ->
            \A p \in Range(r.to) : tree[p] = c /\ part[p] = Absent
      [] OTHER -> tree[r.to[1]] = c

(* A call that reports success did all of what it was asked, wherever its  *)
(* steps could fail or the other call was in between on other paths:       *)
(* everything moved, the whole file written, every file of the pack        *)
(* verified and in place (files.rs, modpack.rs).  Excepted are the scripts *)
(* for a running container that go on after a failed tar or mv.            *)
SuccessMeansDone ==
    \A c \in clean \ silent : status[c] = "ok" => Done(c)

(* No file disappears: what was there at the start, or was produced by a   *)
(* successful call, is still found under some name, unless a call was      *)
(* asked to replace or remove it or two calls met on its path.  Renames    *)
(* and moves that fail or are dropped half-way leave each file in one of   *)
(* its two places.                                                         *)
FilesKept ==
    \A x \in ((present \cup {c \in Calls : status[c] = "ok"
                                           /\ c \notin silent
                                           /\ call[c].op \notin
                                                {"delete", "rename", "move"}})
              \ given) : \E p \in Paths : tree[p] = x

(* A pack's file is replaced as a whole and only by verified content: at   *)
(* any time, also after a failure or a dropped call, its path holds the    *)
(* old content or the new one, or nothing while the verified new one lies  *)
(* beside it.  An archive that could not be completed is not left under    *)
(* its name (modpack.rs download_file, extract_overrides; files.rs         *)
(* create_archive).  Excepted: an archive whose call was dropped.          *)
OnlyWholeFiles ==
    \A c \in clean \ silent :
        LET r == call[c] IN
        /\ r.op = "modpack" => \A p \in Range(r.to) :
             \/ tree[p] = r.had[p] \/ tree[p] = c
             \/ tree[p] = Absent /\ part[p] = c
        /\ r.op = "archive" /\ status[c] \in {"ok", "failed"} =>
             tree[r.to[1]] = r.had[r.to[1]] \/ tree[r.to[1]] = c
=============================================================================
