----------------------- MODULE ServerLifecycleProofs -----------------------
(***************************************************************************)
(* What the lifecycle of a server guarantees whatever Docker, the          *)
(* installer and the panel's choice of operations do, for any crash-loop   *)
(* limit, as long as the panel has one operation per server under way; the *)
(* supervisor and the container's own exits come at any time.              *)
(*                                                                         *)
(* A call's state is the list of steps it has yet to take.  Every clause   *)
(* of the invariant speaks of the positions in that list and survives the  *)
(* loss of a prefix, so that advancing and jumping ahead keep it.          *)
(***************************************************************************)
EXTENDS ServerLifecycle, SequenceTheorems, WellFoundedInduction, TLAPS

Marks == {"ask", "attach", "attempt", "config", "configure", "create", "disk",
          "drop", "forget", "halt", "inspect-recreate", "inspect-start",
          "inspect-stop", "install", "new", "payload", "policy", "prepare",
          "pull", "recover", "remove", "rename", "reserve", "reuse", "rmdir",
          "run", "sigkill", "stopped", "target", "wait"}
StopSteps == {"inspect-stop", "policy", "ask", "wait", "halt", "stopped"}

(* The order that the scripts of the operations keep: a may come before b. *)
Before(a, b) ==
    /\ a = "run" => b \notin {"rename", "stopped", "new"}
    /\ a \in {"rename", "remove", "inspect-start"} => b # "stopped"
    /\ a = "inspect-start" => b # "sigkill"
    /\ a \in {"stopped", "halt", "configure"} => b # "sigkill"
    /\ a = "configure" => b \notin {"rename", "stopped"}
Ordered(s) == \A i, j \in 1 .. Len(s) : i < j => Before(s[i], s[j])

(* What a step may jump to is ahead of it, and a replacement's creation    *)
(* follows its renaming.                                                   *)
Complete(s) ==
    \A i \in 1 .. Len(s) :
        /\ s[i] \in {"install", "target"} =>
             \E j \in i + 1 .. Len(s) : s[j] = "configure"
        /\ s[i] = "inspect-stop" => i + 3 <= Len(s)
        /\ s[i] \in {"inspect-stop", "wait"} =>
             \E j \in i + 1 .. Len(s) : s[j] = "stopped"
        /\ s[i] = "ask" => \E j \in i + 1 .. Len(s) : s[j] = "halt"
        /\ s[i] = "create" /\ i > 1 => s[i - 1] = "rename"
        /\ s[i] = "rename" => i < Len(s) /\ s[i + 1] = "create"

Formed(s) == s \in Seq(Marks) /\ Ordered(s) /\ Complete(s)

(* An operation that ends with success ends with its own last step; one    *)
(* that stops, kills or creates neither replaces nor runs a container.     *)
Ends(s, o) ==
    /\ Len(s) > 0 =>
         /\ o \in {"stop", "kill"} => s[Len(s)] = "stopped"
         /\ o = "create" => s[Len(s)] = "new"
    /\ \A i \in 1 .. Len(s) :
         s[i] \in {"run", "inspect-start", "inspect-recreate"} =>
           o \notin {"stop", "kill", "create"}

(* What is true of the container, or will have been made true on the way,  *)
(* when a call reaches a step.                                             *)
Halts(s, i) == \E j \in 1 .. i - 1 : s[j] = "halt"
Stoppers(s, i) == \E j \in 1 .. i - 1 : s[j] \in {"halt", "sigkill"}
Pins(s, i) == \E j \in 1 .. i - 1 : s[j] = "policy"

Ahead(s) ==
    \A i \in 1 .. Len(s) :
        /\ s[i] = "rename" => live # "running" \/ Halts(s, i)
        /\ s[i] = "stopped" => live = "stopped" \/ Stoppers(s, i)
        /\ s[i] = "sigkill" => policy = "no" \/ Pins(s, i)
        /\ s[i] = "run" => wish \in {"run", "delete"}
        /\ s[i] = "remove" => wish = "delete"

(* Between the renaming of a container and the creation of the next.       *)
Replacing(c) == Len(todo[c]) > 0 /\ todo[c][1] = "create"

Typed ==
    /\ live \in Runs /\ policy \in {"no", "auto"}
    /\ stale \in [Procs -> {"none", "stopped"}]
    /\ todo \in [Procs -> Seq(Marks)] /\ op \in [Procs -> Ops \cup {"none"}]
    /\ wish \in {"created", "run", "stop", "delete", "deleted"}

ScriptInv ==
    /\ \A p \in Procs : Formed(todo[p])
    /\ \A i \in 1 .. Len(todo[Supervisor]) : todo[Supervisor][i] \in StopSteps

CallInv(c) ==
    /\ Ends(todo[c], op[c]) /\ Ahead(todo[c])
    /\ Replacing(c) => live = "none" /\ stale[c] = "stopped"
    /\ live = "none" => wish \in {"delete", "deleted"} \/ Replacing(c)
    /\ Len(todo[c]) > 0 /\ op[c] # "create" => wish # "deleted"

IInv ==
    /\ Typed /\ ScriptInv /\ \A c \in Calls : CallInv(c)
    /\ wish \in {"created", "stop"} => live # "running"

-----------------------------------------------------------------------------
(* Scripts.                                                                *)

(* new is old without its first k steps.                                   *)
Drops(new, old, k) ==
    /\ new \in Seq(Marks) /\ Len(new) = Len(old) - k
    /\ \A i \in 1 .. Len(new) : new[i] = old[i + k]

(* The first step of a script, and what it leaves.                         *)
LEMMA TailDrops ==
  ASSUME NEW s \in Seq(Marks), Len(s) > 0
  PROVE  Drops(Tail(s), s, 1) /\ Head(s) = s[1]
  BY DEF Drops

(* From finds the first of the steps it is looking for.                    *)
LEMMA FromDrops ==
  ASSUME NEW s \in Seq(Marks), NEW m, \E i \in 1 .. Len(s) : s[i] = m
  PROVE  \E k \in 1 .. Len(s) :
           /\ s[k] = m /\ \A j \in 1 .. k - 1 : s[j] # m
           /\ Drops(From(s, m), s, k - 1)
  <1> DEFINE First(k) == s[k] = m /\ \A j \in 1 .. k - 1 : s[j] # m
             S == {i \in 1 .. Len(s) : s[i] = m}
  <1>1. \E k \in DOMAIN s : First(k)
    <2>1. S # {} /\ S \subseteq Nat
      OBVIOUS
    <2>2. PICK k \in S : \A j \in S : k <= j
      <3> HIDE DEF S
      <3>1. PICK k \in S : \A j \in S : <<j, k>> \notin OpToRel(<, Nat)
        BY <2>1, NatLessThanWellFounded, WFMin
      <3>2. OpToRel(<, Nat) = {p \in Nat \X Nat : p[1] < p[2]}
        BY Zenon DEF OpToRel
      <3>3. ASSUME NEW j \in S PROVE k <= j
        <4>1. j \in Nat /\ k \in Nat /\ <<j, k>> \in Nat \X Nat
          BY <2>1
        <4>2. ~(j < k)
          BY <3>1, <3>2, <4>1
        <4>3. QED
          BY <4>1, <4>2
      <3>4. QED
        BY <3>3
    <2>3. QED
      BY <2>2
  <1>2. PICK k \in DOMAIN s : First(k) /\ From(s, m) = SubSeq(s, k, Len(s))
    BY <1>1 DEF From
  <1>3. /\ From(s, m) \in Seq(Marks) /\ Len(From(s, m)) = Len(s) - k + 1
        /\ \A i \in 1 .. Len(s) - k + 1 : From(s, m)[i] = s[i + k - 1]
    BY <1>2
  <1> HIDE DEF First
  <1>4. k \in 1 .. Len(s) /\ s[k] = m /\ \A j \in 1 .. k - 1 : s[j] # m
    BY <1>2 DEF First
  <1>5. Drops(From(s, m), s, k - 1)
    BY <1>3, <1>4 DEF Drops
  <1>6. QED
    BY <1>4, <1>5

(* A suffix of a script is one.                                            *)
LEMMA SuffixFormed ==
  ASSUME NEW old, Formed(old), NEW new, NEW k \in 0 .. Len(old),
         Drops(new, old, k)
  PROVE  Formed(new) /\ \A o : Ends(old, o) => Ends(new, o)
  <1>1. old \in Seq(Marks) /\ new \in Seq(Marks) /\ Len(old) \in Nat
    BY DEF Formed, Drops
  <1>2. Ordered(new)
    BY <1>1 DEF Ordered, Formed, Drops
  <1>3. Complete(new)
    <2> SUFFICES ASSUME NEW i \in 1 .. Len(new)
                 PROVE
        /\ new[i] \in {"install", "target"} =>
             \E j \in i + 1 .. Len(new) : new[j] = "configure"
        /\ new[i] = "inspect-stop" => i + 3 <= Len(new)
        /\ new[i] \in {"inspect-stop", "wait"} =>
             \E j \in i + 1 .. Len(new) : new[j] = "stopped"
        /\ new[i] = "ask" => \E j \in i + 1 .. Len(new) : new[j] = "halt"
        /\ new[i] = "create" /\ i > 1 => new[i - 1] = "rename"
        /\ new[i] = "rename" => i < Len(new) /\ new[i + 1] = "create"
      BY DEF Complete
    <2>1. /\ i + k \in 1 .. Len(old) /\ new[i] = old[i + k]
          /\ Len(new) = Len(old) - k
      BY <1>1 DEF Drops
    <2> DEFINE h == i + k
    <2>0. /\ old[h] \in {"install", "target"} =>
               \E j \in h + 1 .. Len(old) : old[j] = "configure"
          /\ old[h] = "inspect-stop" => h + 3 <= Len(old)
          /\ old[h] \in {"inspect-stop", "wait"} =>
               \E j \in h + 1 .. Len(old) : old[j] = "stopped"
          /\ old[h] = "ask" => \E j \in h + 1 .. Len(old) : old[j] = "halt"
          /\ old[h] = "create" /\ h > 1 => old[h - 1] = "rename"
          /\ old[h] = "rename" => h < Len(old) /\ old[h + 1] = "create"
      <3>1. h \in 1 .. Len(old)
        BY <2>1
      <3> HIDE DEF h
      <3>2. QED
        BY <3>1 DEF Formed, Complete
    <2>2. ASSUME NEW m, \E j \in i + k + 1 .. Len(old) : old[j] = m
          PROVE  \E j \in i + 1 .. Len(new) : new[j] = m
      <3>1. PICK j \in i + k + 1 .. Len(old) : old[j] = m
        BY <2>2
      <3>2. j - k \in i + 1 .. Len(new) /\ new[j - k] = m
        BY <1>1, <2>1, <3>1 DEF Drops
      <3>3. QED
        BY <3>2
    <2>3. new[i] = "create" /\ i > 1 => new[i - 1] = "rename"
      <3>1. i > 1 => i - 1 \in 1 .. Len(new) /\ new[i - 1] = old[i - 1 + k]
        BY <1>1, <2>1 DEF Drops
      <3>2. QED
        BY <3>1, <1>1, <2>0, <2>1
    <2>4. new[i] = "rename" => i < Len(new) /\ new[i + 1] = "create"
      <3>1. i < Len(new) => i + 1 \in 1 .. Len(new) /\ new[i + 1] = old[i + 1 + k]
        BY <1>1, <2>1 DEF Drops
      <3>2. QED
        BY <3>1, <1>1, <2>0, <2>1
    <2>5. /\ new[i] \in {"install", "target"} =>
               \E j \in i + 1 .. Len(new) : new[j] = "configure"
          /\ new[i] \in {"inspect-stop", "wait"} =>
               \E j \in i + 1 .. Len(new) : new[j] = "stopped"
          /\ new[i] = "ask" => \E j \in i + 1 .. Len(new) : new[j] = "halt"
      BY <2>0, <2>1, <2>2
    <2>6. new[i] = "inspect-stop" => i + 3 <= Len(new)
      BY <1>1, <2>0, <2>1
    <2>7. QED
      BY <2>3, <2>4, <2>5, <2>6
  <1>4. ASSUME NEW o, Ends(old, o) PROVE Ends(new, o)
    BY <1>1, <1>4 DEF Ends, Drops
  <1>5. QED
    BY <1>1, <1>2, <1>3, <1>4 DEF Formed

(* Steps that rely on an earlier one find it before them in their script.  *)
Armed(s) ==
    \A i \in 1 .. Len(s) :
        /\ s[i] = "stopped" => Stoppers(s, i)
        /\ s[i] = "sigkill" => Pins(s, i)

IsScript(s) == Formed(s) /\ Armed(s)
Fits(s, t) ==
    /\ Len(t) > 0 => t[1] # "create"
    /\ \A i \in 1 .. Len(s), j \in 1 .. Len(t) : Before(s[i], t[j])
Joined(n, s, t) ==
    /\ Len(n) = Len(s) + Len(t)
    /\ \A i \in 1 .. Len(s) : n[i] = s[i]
    /\ \A i \in 1 .. Len(t) : n[Len(s) + i] = t[i]

(* One script after another is a script, if their steps may follow.        *)
LEMMA Appending ==
  ASSUME NEW s, NEW t, IsScript(s), IsScript(t), Fits(s, t)
  PROVE  IsScript(s \o t) /\ Joined(s \o t, s, t)
  <1> USE DEF IsScript, Fits, Joined
  <1> DEFINE n == s \o t
             a == Len(s)
             b == Len(t)
  <1>1. /\ s \in Seq(Marks) /\ t \in Seq(Marks) /\ n \in Seq(Marks)
        /\ a \in Nat /\ b \in Nat /\ Len(n) = a + b
        /\ \A i \in 1 .. a : n[i] = s[i]
        /\ \A i \in 1 .. b : n[a + i] = t[i]
    BY DEF Formed
  <1> HIDE DEF n, a, b
  <1>2. ASSUME NEW i \in 1 .. Len(n)
        PROVE  \/ i \in 1 .. a /\ n[i] = s[i]
               \/ i - a \in 1 .. b /\ n[i] = t[i - a]
    <2>1. CASE i \in 1 .. a
      BY <2>1, <1>1
    <2>2. CASE i \notin 1 .. a
      <3>1. i - a \in 1 .. b
        BY <2>2, <1>1
      <3>2. n[a + (i - a)] = t[i - a] /\ a + (i - a) = i
        BY <3>1, <1>1
      <3>3. QED
        BY <3>1, <3>2
    <2>3. QED
      BY <2>1, <2>2
  <1>3. Ordered(n)
    <2>1. ASSUME NEW i \in 1 .. Len(n), NEW j \in 1 .. Len(n), i < j
          PROVE  Before(n[i], n[j])
      <3>1. i \in Int /\ j \in Int
        OBVIOUS
      <3>2. CASE j \in 1 .. a
        BY <3>2, <2>1, <1>1 DEF Formed, Ordered, a
      <3>3. CASE j - a \in 1 .. b /\ n[j] = t[j - a]
        <4>1. CASE i \in 1 .. a /\ n[i] = s[i]
          BY <4>1, <3>3 DEF a, b
        <4>2. CASE i - a \in 1 .. b /\ n[i] = t[i - a]
          <5>1. i - a < j - a
            BY <2>1, <3>1, <1>1
          <5>2. QED
            BY <5>1, <4>2, <3>3 DEF Formed, Ordered, b
        <4>3. QED
          BY <4>1, <4>2, <1>2
      <3>4. QED
        BY <3>2, <3>3, <1>2
    <2>2. QED
      BY <2>1 DEF Ordered
  <1>4. Armed(n)
    <2> SUFFICES ASSUME NEW i \in 1 .. Len(n)
                 PROVE  /\ n[i] = "stopped" => Stoppers(n, i)
                        /\ n[i] = "sigkill" => Pins(n, i)
      BY DEF Armed
    <2>1. CASE i \in 1 .. a
      <3>1. /\ s[i] = "stopped" => Stoppers(s, i)
            /\ s[i] = "sigkill" => Pins(s, i)
        BY <2>1 DEF Armed, a
      <3>2. \A j \in 1 .. i - 1 : n[j] = s[j]
        BY <2>1, <1>1
      <3>3. QED
        BY <3>1, <3>2, <2>1, <1>1 DEF Stoppers, Pins
    <2>2. CASE i - a \in 1 .. b /\ n[i] = t[i - a]
      <3>1. /\ t[i - a] = "stopped" => Stoppers(t, i - a)
            /\ t[i - a] = "sigkill" => Pins(t, i - a)
        BY <2>2 DEF Armed, b
      <3>2. \A j \in 1 .. (i - a) - 1 : a + j \in 1 .. i - 1 /\ n[a + j] = t[j]
        BY <2>2, <1>1
      <3>3. QED
        BY <3>1, <3>2, <2>2 DEF Stoppers, Pins
    <2>3. QED
      BY <2>1, <2>2, <1>2
  <1>5. Complete(n)
    <2> SUFFICES ASSUME NEW i \in 1 .. Len(n)
                 PROVE
        /\ n[i] \in {"install", "target"} =>
             \E j \in i + 1 .. Len(n) : n[j] = "configure"
        /\ n[i] = "inspect-stop" => i + 3 <= Len(n)
        /\ n[i] \in {"inspect-stop", "wait"} =>
             \E j \in i + 1 .. Len(n) : n[j] = "stopped"
        /\ n[i] = "ask" => \E j \in i + 1 .. Len(n) : n[j] = "halt"
        /\ n[i] = "create" /\ i > 1 => n[i - 1] = "rename"
        /\ n[i] = "rename" => i < Len(n) /\ n[i + 1] = "create"
      BY DEF Complete
    <2>1. CASE i \in 1 .. a /\ n[i] = s[i]
      <3>1. /\ s[i] \in {"install", "target"} =>
                 \E j \in i + 1 .. a : s[j] = "configure"
            /\ s[i] = "inspect-stop" => i + 3 <= a
            /\ s[i] \in {"inspect-stop", "wait"} =>
                 \E j \in i + 1 .. a : s[j] = "stopped"
            /\ s[i] = "ask" => \E j \in i + 1 .. a : s[j] = "halt"
            /\ s[i] = "create" /\ i > 1 => s[i - 1] = "rename"
            /\ s[i] = "rename" => i < a /\ s[i + 1] = "create"
        BY <2>1 DEF Formed, Complete, a
      <3>2. \A j \in i + 1 .. a : j \in i + 1 .. Len(n) /\ n[j] = s[j]
        BY <2>1, <1>1
      <3>3. i > 1 => n[i - 1] = s[i - 1]
        BY <2>1, <1>1
      <3>4. i < a => n[i + 1] = s[i + 1]
        BY <2>1, <1>1
      <3>5. n[i] = "inspect-stop" => i + 3 <= Len(n)
        BY <2>1, <3>1, <1>1
      <3>6. n[i] = "rename" => i < Len(n) /\ n[i + 1] = "create"
        BY <2>1, <3>1, <3>4, <1>1
      <3>7. QED
        BY <3>1, <3>2, <3>3, <3>5, <3>6, <2>1
    <2>2. CASE i - a \in 1 .. b /\ n[i] = t[i - a]
      <3> DEFINE k == i - a
      <3>1. /\ t[k] \in {"install", "target"} =>
                 \E j \in k + 1 .. b : t[j] = "configure"
            /\ t[k] = "inspect-stop" => k + 3 <= b
            /\ t[k] \in {"inspect-stop", "wait"} =>
                 \E j \in k + 1 .. b : t[j] = "stopped"
            /\ t[k] = "ask" => \E j \in k + 1 .. b : t[j] = "halt"
            /\ t[k] = "create" /\ k > 1 => t[k - 1] = "rename"
            /\ t[k] = "rename" => k < b /\ t[k + 1] = "create"
        <4>1. k \in 1 .. b
          BY <2>2
        <4> HIDE DEF k
        <4>2. QED
          BY <4>1 DEF Formed, Complete, b
      <3>2. ASSUME NEW m, \E j \in k + 1 .. b : t[j] = m
            PROVE  \E j \in i + 1 .. Len(n) : n[j] = m
        <4>1. PICK j \in k + 1 .. b : t[j] = m
          BY <3>2
        <4>2. a + j \in i + 1 .. Len(n) /\ n[a + j] = t[j]
          BY <4>1, <2>2, <1>1
        <4>3. QED
          BY <4>1, <4>2
      <3>3. k > 1 => n[i - 1] = t[k - 1]
        <4>1. k > 1 => k - 1 \in 1 .. b /\ a + (k - 1) = i - 1
          BY <2>2, <1>1
        <4>2. QED
          BY <4>1, <1>1
      <3>4. k < b => n[i + 1] = t[k + 1]
        <4>1. k < b => k + 1 \in 1 .. b /\ a + (k + 1) = i + 1
          BY <2>2, <1>1
        <4>2. QED
          BY <4>1, <1>1
      <3>5. /\ n[i] \in {"install", "target"} =>
                 \E j \in i + 1 .. Len(n) : n[j] = "configure"
            /\ n[i] \in {"inspect-stop", "wait"} =>
                 \E j \in i + 1 .. Len(n) : n[j] = "stopped"
            /\ n[i] = "ask" => \E j \in i + 1 .. Len(n) : n[j] = "halt"
        BY <3>1, <3>2, <2>2
      <3>6. n[i] = "inspect-stop" => i + 3 <= Len(n)
        BY <3>1, <2>2, <1>1
      <3>7. n[i] = "create" /\ i > 1 => n[i - 1] = "rename"
        <4>1. n[i] = t[k] /\ (n[i] = "create" => k > 1)
          BY <2>2, <1>1 DEF b
        <4> HIDE DEF k
        <4>2. QED
          BY <4>1, <3>1, <3>3
      <3>8. n[i] = "rename" => i < Len(n) /\ n[i + 1] = "create"
        BY <3>1, <3>4, <2>2, <1>1
      <3>9. QED
        BY <3>5, <3>6, <3>7, <3>8
    <2>3. QED
      BY <2>1, <2>2, <1>2
  <1>6. QED
    BY <1>1, <1>3, <1>4, <1>5 DEF Formed, n, a, b

(* The scripts that are written out, one by one.                           *)
LEMMA PlainScripts ==
  /\ IsScript(StopScript) /\ IsScript(StartScript) /\ IsScript(CreateScript)
  /\ IsScript(ReplaceScript) /\ IsScript(KillScript)
  /\ \A s \in {<<"inspect-recreate">>, <<"remove", "rmdir", "forget">>,
                <<"run", "attach">>} : IsScript(s)
  <1> USE DEF IsScript, Formed, Armed, Marks, Ordered, Before, Complete, Stoppers, Pins
  <1>1. Formed(StopScript)
    BY DEF StopScript
  <1>2. Armed(StopScript)
    BY DEF StopScript
  <1>3. Formed(StartScript) /\ Armed(StartScript)
    BY DEF StartScript
  <1>4. Formed(CreateScript)
    BY DEF CreateScript
  <1>5. Armed(CreateScript)
    BY DEF CreateScript
  <1>6. Formed(ReplaceScript) /\ Armed(ReplaceScript)
    BY DEF ReplaceScript
  <1>7. Formed(KillScript)
    BY DEF KillScript
  <1>8. Armed(KillScript)
    BY DEF KillScript
  <1>9. /\ Formed(<<"inspect-recreate">>) /\ Armed(<<"inspect-recreate">>)
        /\ Formed(<<"remove", "rmdir", "forget">>)
        /\ Armed(<<"remove", "rmdir", "forget">>)
        /\ Formed(<<"run", "attach">>) /\ Armed(<<"run", "attach">>)
    OBVIOUS
  <1>10. QED
    BY <1>1, <1>2, <1>3, <1>4, <1>5, <1>6, <1>7, <1>8, <1>9

(* Single steps, and none.                                                 *)
LEMMA ShortScripts ==
  IsScript(<<>>) /\ \A m \in {"pull", "reuse", "forget"} : IsScript(<<m>>)
  BY DEF IsScript, Formed, Armed, Marks, Ordered, Before, Complete, Stoppers, Pins

(* What an operation begins with: it neither replaces nor, unless it is a  *)
(* start, runs anything before it has looked at the container.             *)
LEMMA ScriptFacts ==
  ASSUME NEW o \in Ops
  PROVE  /\ Formed(Script(o)) /\ Armed(Script(o)) /\ Ends(Script(o), o)
         /\ Len(Script(o)) > 0 /\ Script(o)[1] # "create"
         /\ \A i \in 1 .. Len(Script(o)) :
              /\ Script(o)[i] # "rename"
              /\ Script(o)[i] = "run" => o \in {"start", "restart"}
              /\ Script(o)[i] = "remove" => o = "delete"
  <1> DEFINE Facts(s) ==
         /\ Formed(s) /\ Armed(s) /\ Ends(s, o)
         /\ Len(s) > 0 /\ s[1] # "create"
         /\ \A i \in 1 .. Len(s) :
              /\ s[i] # "rename"
              /\ s[i] = "run" => o \in {"start", "restart"}
              /\ s[i] = "remove" => o = "delete"
  <1>1. CASE o = "create"
    <2>1. Facts(CreateScript)
      BY <1>1, PlainScripts DEF IsScript, CreateScript, Ends
    <2>2. QED
      BY <1>1, <2>1 DEF Script
  <1>2. CASE o = "start"
    <2>1. Facts(StartScript)
      BY <1>2, PlainScripts DEF IsScript, StartScript, Ends
    <2>2. QED
      BY <1>2, <2>1 DEF Script
  <1>3. CASE o = "stop"
    <2>1. Facts(StopScript)
      BY <1>3, PlainScripts DEF IsScript, StopScript, Ends
    <2>2. QED
      BY <1>3, <2>1 DEF Script
  <1>4. CASE o = "kill"
    <2>1. Facts(KillScript)
      BY <1>4, PlainScripts DEF IsScript, KillScript, Ends
    <2>2. QED
      BY <1>4, <2>1 DEF Script
  <1>5. CASE o = "restart"
    <2>1. \A i \in 1 .. Len(StopScript), j \in 1 .. Len(StartScript) :
            Before(StopScript[i], StartScript[j])
      BY DEF StopScript, StartScript, Before
    <2>2. Len(StartScript) = 7 /\ StartScript[1] # "create"
      BY DEF StartScript
    <2> DEFINE n == StopScript \o StartScript
    <2>3. IsScript(n) /\ Joined(n, StopScript, StartScript)
      <3>1. IsScript(StopScript) /\ IsScript(StartScript)
        BY PlainScripts
      <3>2. Fits(StopScript, StartScript)
        BY <2>1, <2>2 DEF Fits
      <3>3. QED
        BY <3>1, <3>2, Appending
    <2>4. /\ Len(StopScript) = 6
          /\ \A i \in 1 .. 6 : StopScript[i] \notin {"create", "rename", "run", "remove"}
          /\ \A i \in 1 .. 7 : StartScript[i] \notin {"create", "rename", "remove"}
      BY DEF StopScript, StartScript
    <2> HIDE DEF n
    <2>5. \A i \in 1 .. 13 : n[i] \notin {"create", "rename", "remove"}
      <3>1. ASSUME NEW i \in 1 .. 13
            PROVE  n[i] \notin {"create", "rename", "remove"}
        <4>1. CASE i <= 6
          BY <4>1, <2>3, <2>4 DEF Joined
        <4>2. CASE i > 6
          <5>1. i - 6 \in 1 .. 7 /\ 6 + (i - 6) = i
            BY <4>2
          <5>2. n[i] = StartScript[i - 6]
            BY <5>1, <2>2, <2>3, <2>4 DEF Joined
          <5>3. QED
            BY <5>1, <5>2, <2>4
        <4>3. QED
          BY <4>1, <4>2
      <3>2. QED
        BY <3>1
    <2>6. Len(n) = 13
      BY <2>2, <2>3, <2>4 DEF Joined
    <2>7. Facts(n)
      <3>1. Len(n) > 0 /\ n[1] # "create" /\ Ends(n, o)
        BY <1>5, <2>5, <2>6 DEF Ends
      <3>2. \A i \in 1 .. Len(n) : n[i] # "rename" /\ n[i] # "remove"
        BY <2>5, <2>6
      <3>3. QED
        BY <1>5, <2>3, <3>1, <3>2 DEF IsScript
    <2>8. QED
      BY <1>5, <2>7 DEF Script, n
  <1>6. CASE o \in {"recreate", "reconfigure"}
    <2>1. Facts(<<"inspect-recreate">>)
      BY <1>6, PlainScripts DEF IsScript, Ends
    <2>2. Script(o) = <<"inspect-recreate">>
      BY <1>6 DEF Script
    <2>3. QED
      BY <2>1, <2>2
  <1>7. CASE o = "delete"
    <2>1. Facts(<<"remove", "rmdir", "forget">>)
      BY <1>7, PlainScripts DEF IsScript, Ends
    <2>2. QED
      BY <1>7, <2>1 DEF Script
  <1>8. QED
    BY <1>1, <1>2, <1>3, <1>4, <1>5, <1>6, <1>7, ServerAssumption

(* A script over the given steps that does not begin in the middle of a    *)
(* replacement.                                                            *)
Part(s, M) ==
    /\ IsScript(s) /\ \A i \in 1 .. Len(s) : s[i] \in M
    /\ Len(s) > 0 => s[1] # "create"
(* It stops the server before it renames anything.                         *)
StopsFirst(s) ==
    \E j \in 1 .. Len(s) : s[j] = "halt" /\ \A i \in 1 .. j : s[i] # "rename"

(* Parts make a part if no step of the second may not follow one of the    *)
(* first.                                                                  *)
LEMMA AppendingParts ==
  ASSUME NEW s, NEW t, NEW M, NEW N, Part(s, M), Part(t, N),
         \A a \in M, b \in N : Before(a, b)
  PROVE  /\ Part(s \o t, M \cup N)
         /\ Len(s \o t) = Len(s) + Len(t)
         /\ StopsFirst(s) => StopsFirst(s \o t)
  <1> DEFINE n == s \o t
  <1>1. Len(s) \in Nat /\ Len(t) \in Nat
    BY DEF Part, IsScript, Formed
  <1>2. IsScript(n) /\ Joined(n, s, t)
    <2>1. Fits(s, t)
      BY DEF Fits, Part
    <2>2. QED
      BY <2>1, Appending DEF Part
  <1> HIDE DEF n
  <1>3. ASSUME NEW i \in 1 .. Len(n) PROVE n[i] \in M \cup N
    <2>1. CASE i \in 1 .. Len(s)
      BY <2>1, <1>2 DEF Joined, Part
    <2>2. CASE i \notin 1 .. Len(s)
      <3>1. i - Len(s) \in 1 .. Len(t) /\ Len(s) + (i - Len(s)) = i
        BY <2>2, <1>1, <1>2 DEF Joined
      <3>2. n[i] = t[i - Len(s)]
        BY <3>1, <1>2 DEF Joined
      <3>3. QED
        BY <3>1, <3>2 DEF Part
    <2>3. QED
      BY <2>1, <2>2
  <1>4. Len(n) > 0 => n[1] # "create"
    <2>1. CASE Len(s) > 0
      BY <2>1, <1>1, <1>2 DEF Joined, Part
    <2>2. CASE Len(s) = 0
      <3>1. Len(n) > 0 => n[1] = t[1] /\ Len(t) > 0
        BY <2>2, <1>1, <1>2 DEF Joined
      <3>2. QED
        BY <3>1 DEF Part
    <2>3. QED
      BY <1>1, <2>1, <2>2
  <1>5. StopsFirst(s) => StopsFirst(n)
    <2> SUFFICES ASSUME StopsFirst(s) PROVE StopsFirst(n)
      OBVIOUS
    <2>1. PICK j \in 1 .. Len(s) : s[j] = "halt" /\ \A i \in 1 .. j : s[i] # "rename"
      BY DEF StopsFirst
    <2>2. j \in 1 .. Len(n) /\ n[j] = "halt" /\ \A i \in 1 .. j : n[i] # "rename"
      <3>1. Len(n) = Len(s) + Len(t) /\ \A i \in 1 .. Len(s) : n[i] = s[i]
        BY <1>2 DEF Joined
      <3>2. j \in 1 .. Len(n) /\ n[j] = "halt"
        BY <2>1, <3>1, <1>1
      <3>3. ASSUME NEW i \in 1 .. j PROVE n[i] # "rename"
        BY <2>1, <3>1, <1>1
      <3>4. QED
        BY <3>2, <3>3
    <2>3. QED
      BY <2>2 DEF StopsFirst
  <1>6. QED
    BY <1>2, <1>3, <1>4, <1>5 DEF Part, Joined, n

(* What follows the inspection of a container that is to be replaced: one  *)
(* that runs is stopped before it is renamed, and only then started again. *)
LEMMA AfterInspectFacts ==
  ASSUME NEW o, NEW r \in BOOLEAN
  PROVE  LET s == AfterInspect(o, r) IN
         /\ Part(s, Marks \ {"remove", "sigkill", "new"}) /\ Len(s) > 0
         /\ r => StopsFirst(s)
         /\ ~r => \A i \in 1 .. Len(s) : s[i] # "run"
  <1> DEFINE A == IF o = "recreate" THEN <<"pull">> ELSE <<>>
             B == IF r THEN StopScript ELSE <<>>
             C == IF o = "recreate" THEN <<"reuse">> ELSE <<>>
             F == <<"forget">>
             G == IF r THEN StartScript ELSE <<>>
             MB == {"pull"} \cup StopSteps
             MC == MB \cup {"reuse"}
             MD == MC \cup {"rename", "create", "drop"}
             ME == MD \cup {"reuse"}
             MF == ME \cup {"forget"}
             MG == IF r THEN {"inspect-start", "config", "disk", "recover",
                              "policy", "run", "attach"} ELSE {}
             X1 == A \o B
             X2 == X1 \o C
             X3 == X2 \o ReplaceScript
             X4 == X3 \o C
             X5 == X4 \o F
             X6 == X5 \o G
  <1>1. /\ IsScript(<<>>) /\ IsScript(<<"pull">>) /\ IsScript(<<"reuse">>)
        /\ IsScript(<<"forget">>) /\ IsScript(StopScript)
        /\ IsScript(StartScript) /\ IsScript(ReplaceScript)
    BY ShortScripts, PlainScripts
  <1>2. Part(A, {"pull"}) /\ Part(C, {"reuse"}) /\ Part(F, {"forget"})
    BY <1>1 DEF Part
  <1>3. Part(B, StopSteps)
    BY <1>1 DEF Part, StopSteps, StopScript
  <1>4. Part(ReplaceScript, {"rename", "create", "drop"})
    BY <1>1 DEF Part, ReplaceScript
  <1>5. Part(G, MG)
    BY <1>1 DEF Part, StartScript
  <1>6. r => StopsFirst(B)
    BY DEF StopsFirst, StopScript
  <1>7. Len(F) = 1
    OBVIOUS
  <1>8. /\ \A a \in {"pull"}, b \in StopSteps : Before(a, b)
        /\ \A a \in MB, b \in {"reuse"} : Before(a, b)
        /\ \A a \in MC, b \in {"rename", "create", "drop"} : Before(a, b)
        /\ \A a \in MD, b \in {"reuse"} : Before(a, b)
        /\ \A a \in ME, b \in {"forget"} : Before(a, b)
        /\ \A a \in MF, b \in MG : Before(a, b)
    BY DEF Before, StopSteps
  <1>9. AfterInspect(o, r) = X6
    BY DEF AfterInspect
  <1>10. Len(A) \in Nat /\ (r => StopsFirst(X1))
    <2>1. CASE r
      <3>1. PICK j \in 1 .. Len(B) : B[j] = "halt" /\ \A i \in 1 .. j : B[i] # "rename"
        BY <2>1, <1>6 DEF StopsFirst
      <3>2. Fits(A, B)
        BY <1>2, <1>3, <1>8 DEF Fits, Part
      <3>3. Joined(X1, A, B) /\ IsScript(X1)
        BY <1>2, <1>3, <3>2, Appending DEF Part
      <3>4. Len(A) \in Nat /\ Len(B) \in Nat
        BY <1>2, <1>3 DEF Part, IsScript, Formed
      <3> HIDE DEF A, B, X1
      <3>5. Len(A) + j \in 1 .. Len(X1) /\ X1[Len(A) + j] = "halt"
        BY <3>1, <3>3, <3>4 DEF Joined
      <3>6. ASSUME NEW i \in 1 .. Len(A) + j PROVE X1[i] # "rename"
        <4>1. CASE i \in 1 .. Len(A)
          BY <4>1, <3>3, <1>2 DEF Joined, Part
        <4>2. CASE i \notin 1 .. Len(A)
          <5>1. i - Len(A) \in 1 .. j /\ Len(A) + (i - Len(A)) = i
            BY <4>2, <3>1, <3>4
          <5>2. X1[i] = B[i - Len(A)]
            BY <5>1, <3>1, <3>3, <3>4 DEF Joined
          <5>3. QED
            BY <5>1, <5>2, <3>1
        <4>3. QED
          BY <4>1, <4>2
      <3>7. QED
        BY <3>4, <3>5, <3>6 DEF StopsFirst
    <2>2. CASE ~r
      BY <2>2, <1>2 DEF Part, IsScript, Formed
    <2>3. QED
      BY <2>1, <2>2
  <1>0. /\ MB = {"pull"} \cup StopSteps /\ MC = MB \cup {"reuse"}
        /\ MD = MC \cup {"rename", "create", "drop"}
        /\ ME = MD \cup {"reuse"} /\ MF = ME \cup {"forget"}
    OBVIOUS
  <1> HIDE DEF A, B, C, F, G, MB, MC, MD, ME, MF, MG
  <1>11. Part(X1, MB)
    BY <1>0, <1>2, <1>3, <1>8, AppendingParts
  <1> HIDE DEF X1
  <1>12. Part(X2, MC) /\ (StopsFirst(X1) => StopsFirst(X2))
    BY <1>0, <1>2, <1>8, <1>11, AppendingParts, Zenon
  <1> HIDE DEF X2
  <1>13. Part(X3, MD) /\ (StopsFirst(X2) => StopsFirst(X3))
    BY <1>0, <1>4, <1>8, <1>12, AppendingParts, Zenon
  <1> HIDE DEF X3
  <1>14. Part(X4, ME) /\ (StopsFirst(X3) => StopsFirst(X4))
    BY <1>0, <1>2, <1>8, <1>13, AppendingParts, Zenon
  <1> HIDE DEF X4
  <1>15. /\ Part(X5, MF) /\ (StopsFirst(X4) => StopsFirst(X5))
         /\ Len(X5) = Len(X4) + Len(F)
    BY <1>0, <1>2, <1>8, <1>14, AppendingParts, Zenon
  <1> HIDE DEF X5
  <1>16. /\ Part(X6, MF \cup MG) /\ (StopsFirst(X5) => StopsFirst(X6))
         /\ Len(X6) = Len(X5) + Len(G)
    BY <1>5, <1>8, <1>15, AppendingParts
  <1> HIDE DEF X6
  <1>17. Len(X6) > 0
    <2>1. Len(X4) \in Nat /\ Len(G) \in Nat
      BY <1>5, <1>14 DEF Part, IsScript, Formed
    <2>2. QED
      BY <2>1, <1>7, <1>15, <1>16
  <1>18. /\ MF \cup MG \subseteq Marks \ {"remove", "sigkill", "new"}
         /\ ~r => "run" \notin MF \cup MG
    BY DEF Marks, StopSteps, MB, MC, MD, ME, MF, MG
  <1>19. QED
    BY <1>9, <1>10, <1>12, <1>13, <1>14, <1>15, <1>16, <1>17, <1>18 DEF Part

-----------------------------------------------------------------------------
(* The invariant.                                                          *)

(* At first nothing is under way.                                          *)
LEMMA InitIInv == Init => IInv
  <1> SUFFICES ASSUME Init PROVE IInv
    OBVIOUS
  <1>1. Typed
    BY DEF Init, Typed, Runs
  <1>2. ASSUME NEW p \in Procs PROVE todo[p] = <<>> /\ Len(todo[p]) = 0
    BY DEF Init
  <1>3. ScriptInv
    BY <1>2, ShortScripts DEF ScriptInv, IsScript, Procs
  <1>4. ASSUME NEW c \in Calls PROVE CallInv(c)
    BY <1>2 DEF CallInv, Ends, Ahead, Replacing, Init, Procs
  <1>5. wish \in {"created", "stop"} => live # "running"
    BY DEF Init
  <1>6. QED
    BY <1>1, <1>3, <1>4, <1>5 DEF IInv

(* The world and the supervisor: the server may go down and its restart    *)
(* policy be taken away at any time.                                       *)
LEMMA WorldKeeps ==
  ASSUME IInv, todo' \in [Procs -> Seq(Marks)],
         \A d \in Calls : todo'[d] = todo[d],
         Formed(todo'[Supervisor]),
         \A i \in 1 .. Len(todo'[Supervisor]) : todo'[Supervisor][i] \in StopSteps,
         live' = live \/ (live = "running" /\ live' = "stopped"),
         policy' \in {policy, "no"}, UNCHANGED <<stale, wish, op>>
  PROVE  IInv'
  <1>1. Typed'
    BY DEF IInv, Typed, Runs
  <1>2. ScriptInv'
    BY DEF IInv, ScriptInv, Procs
  <1>3. ASSUME NEW d \in Calls PROVE CallInv(d)'
    <2>1. CallInv(d) /\ todo'[d] = todo[d]
      BY DEF IInv
    <2>2. Ahead(todo[d])'
      BY <2>1 DEF CallInv, Ahead, Halts, Stoppers, Pins
    <2>3. QED
      BY <2>1, <2>2 DEF CallInv, Ends, Replacing
  <1>4. QED
    BY <1>1, <1>2, <1>3 DEF IInv

(* A call loses all its steps: it failed.                                  *)
LEMMA FailKeeps ==
  ASSUME IInv, NEW c, Calls = {c}, Fail(c), ~Replacing(c),
         UNCHANGED <<live, policy, stale, op>>
  PROVE  IInv'
  <1>1. c \in Procs /\ c # Supervisor /\ c \in Calls
    BY ServerAssumption DEF Procs
  <1>2. /\ todo' \in [Procs -> Seq(Marks)] /\ todo'[c] = <<>> /\ Len(todo'[c]) = 0
        /\ \A p \in Procs : p # c => todo'[p] = todo[p]
        /\ wish' = wish
    BY <1>1 DEF Fail, Go, IInv, Typed
  <1>3. Typed'
    BY <1>2 DEF IInv, Typed
  <1>4. ScriptInv'
    BY <1>1, <1>2, ShortScripts DEF IInv, ScriptInv, IsScript, Procs
  <1>5. CallInv(c)'
    BY <1>1, <1>2 DEF IInv, CallInv, Ends, Ahead, Replacing
  <1>6. QED
    BY <1>2, <1>3, <1>4, <1>5 DEF IInv

(* A call goes on to its next step: `live' and the policy are what the step*)
(* it took is there for, and only the last step changes what the panel has *)
(* had done.                                                               *)
LEMMA AdvanceKeeps ==
  ASSUME IInv, NEW c, Calls = {c}, Len(todo[c]) > 0,
         Succeed(c) \/ (Advance(c) /\ UNCHANGED wish), UNCHANGED op,
         NEW h, h = todo[c][1],
         stale' \in [Procs -> {"none", "stopped"}],
         policy' \in {policy, "no"}, live' \in Runs,
         h \in {"halt", "sigkill", "new"} => live' = "stopped",
         h = "policy" => policy' = "no",
         h = "rename" => live' = "none" /\ stale'[c] = "stopped",
         live' = "running" => live = "running" \/ h = "run",
         live = "stopped" => live' = "stopped" \/ h \in {"run", "rename", "remove"},
         live' = "none" => \/ live = "none" /\ h # "create"
                           \/ h \in {"rename", "remove"}
  PROVE  IInv'
  <1> DEFINE s == todo[c]
             n == todo'[c]
  <1>1. c \in Procs /\ c # Supervisor /\ c \in Calls
    BY ServerAssumption DEF Procs
  <1>2. /\ CallInv(c) /\ Formed(s) /\ s \in Seq(Marks)
        /\ todo \in [Procs -> Seq(Marks)]
    BY <1>1 DEF IInv, ScriptInv, Typed
  <1>3. /\ n = Tail(s) /\ \A p \in Procs : p # c => todo'[p] = todo[p]
        /\ DOMAIN todo' = Procs
    BY <1>1, <1>2 DEF Succeed, Advance, Go
  <1>4. Drops(n, s, 1) /\ 1 \in 0 .. Len(s)
    BY <1>2, <1>3, TailDrops
  <1>5. Formed(n) /\ \A o : Ends(s, o) => Ends(n, o)
    BY <1>2, <1>4, SuffixFormed
  <1>6. todo' \in [Procs -> Seq(Marks)] /\ todo' = [todo EXCEPT ![c] = n]
    BY <1>1, <1>2, <1>3, <1>4 DEF Drops, Succeed, Advance, Go
  <1>7. /\ Len(n) > 0 => wish' = wish
        /\ wish' # wish =>
             \/ op[c] \in {"stop", "kill"} /\ wish' = "stop" /\ Len(s) = 1
             \/ wish' = "deleted" /\ Len(s) = 1
             \/ op[c] = "create" /\ wish' = "created" /\ Len(s) = 1
        /\ wish' \in {"created", "run", "stop", "delete", "deleted"}
    <2>1. Len(n) = Len(s) - 1 /\ Len(s) \in Nat
      BY <1>2, <1>4 DEF Drops
    <2>2. CASE Succeed(c)
      <3>1. CASE Len(s) > 1
        BY <2>2, <3>1, <1>1 DEF Succeed, IInv, Typed
      <3>2. CASE Len(s) = 1
        <4>1. wish' = CASE op[c] \in {"stop", "kill"} -> "stop"
                        [] op[c] = "delete" -> "deleted"
                        [] op[c] = "create" -> "created"
                        [] OTHER -> wish
          BY <2>2, <3>2, <1>1 DEF Succeed
        <4>2. Len(n) = 0
          BY <2>1, <3>2
        <4>3. CASE op[c] \in {"stop", "kill"}
          BY <4>1, <4>2, <4>3, <3>2
        <4>4. CASE op[c] = "delete"
          BY <4>1, <4>2, <4>4, <3>2
        <4>5. CASE op[c] = "create"
          BY <4>1, <4>2, <4>5, <3>2
        <4>6. CASE op[c] \notin {"stop", "kill", "delete", "create"}
          <5>1. wish' = wish
            BY <4>1, <4>6
          <5>2. QED
            BY <5>1, <4>2 DEF IInv, Typed
        <4>7. QED
          BY <4>3, <4>4, <4>5, <4>6
      <3>3. Len(s) > 1 \/ Len(s) = 1
        <4>1. \A k \in Nat : k > 0 => k > 1 \/ k = 1
          OBVIOUS
        <4>2. Len(s) > 0 /\ Len(s) \in Nat
          BY <2>1
        <4>3. QED
          BY <4>1, <4>2, Zenon
      <3>4. QED
        BY <3>1, <3>2, <3>3
    <2>3. CASE UNCHANGED wish
      BY <2>3 DEF IInv, Typed
    <2>4. QED
      BY <2>2, <2>3
  <1>8. Typed'
    BY <1>6, <1>7 DEF IInv, Typed
  <1>9. ScriptInv'
    BY <1>1, <1>3, <1>5 DEF IInv, ScriptInv, Procs
  <1>10. /\ h = "stopped" => live = "stopped"
         /\ h = "sigkill" => policy = "no"
         /\ h = "run" => wish \in {"run", "delete"}
         /\ h = "remove" => wish = "delete"
         /\ h = "rename" => live # "running"
    BY <1>2 DEF CallInv, Ahead, Halts, Stoppers, Pins
  <1>11. \A i \in 1 .. Len(n) : Before(h, n[i]) /\ n[i] = s[i + 1]
                                /\ i + 1 \in 1 .. Len(s)
    <2>1. ASSUME NEW i \in 1 .. Len(n)
          PROVE  n[i] = s[i + 1] /\ i + 1 \in 1 .. Len(s) /\ 1 \in 1 .. Len(s)
                 /\ 1 < i + 1
      BY <1>2, <1>4 DEF Drops
    <2>2. QED
      BY <2>1, <1>2 DEF Formed, Ordered
  <1>12. Ahead(todo[c])'
    <2> SUFFICES ASSUME NEW i \in 1 .. Len(n)
                 PROVE  /\ n[i] = "rename" => live' # "running" \/ Halts(n, i)
                        /\ n[i] = "stopped" => live' = "stopped" \/ Stoppers(n, i)
                        /\ n[i] = "sigkill" => policy' = "no" \/ Pins(n, i)
                        /\ n[i] = "run" => wish' \in {"run", "delete"}
                        /\ n[i] = "remove" => wish' = "delete"
      BY DEF Ahead, Halts, Stoppers, Pins
    <2>1. n[i] = s[i + 1] /\ i + 1 \in 1 .. Len(s) /\ Before(h, n[i])
      BY <1>11
    <2>2. wish' = wish
      BY <1>7
    <2>3. ASSUME NEW M, \E j \in 1 .. (i + 1) - 1 : s[j] \in M, h \notin M
          PROVE  \E j \in 1 .. i - 1 : n[j] \in M
      <3>1. PICK j \in 1 .. i : s[j] \in M
        BY <2>3
      <3>2. j # 1
        BY <2>3, <3>1
      <3>3. j - 1 \in 1 .. i - 1 /\ j - 1 \in 1 .. Len(n) /\ (j - 1) + 1 = j
        BY <3>1, <3>2
      <3>4. n[j - 1] = s[j]
        BY <3>3, <1>11
      <3>5. QED
        BY <3>1, <3>3, <3>4
    <2>4. n[i] = "rename" => live' # "running" \/ Halts(n, i)
      <3> SUFFICES ASSUME n[i] = "rename", live' = "running" PROVE Halts(n, i)
        OBVIOUS
      <3>1. h # "run" /\ h # "halt"
        BY <2>1 DEF Before
      <3>2. live = "running"
        BY <3>1
      <3>3. Halts(s, i + 1)
        BY <2>1, <3>2, <1>2 DEF CallInv, Ahead
      <3>4. \E j \in 1 .. (i + 1) - 1 : s[j] \in {"halt"}
        BY <3>3 DEF Halts
      <3>5. \E j \in 1 .. i - 1 : n[j] \in {"halt"}
        BY <3>1, <3>4, <2>3
      <3>6. QED
        BY <3>5 DEF Halts
    <2>5. n[i] = "stopped" => live' = "stopped" \/ Stoppers(n, i)
      <3> SUFFICES ASSUME n[i] = "stopped", live' # "stopped" PROVE Stoppers(n, i)
        OBVIOUS
      <3>1. h \notin {"run", "rename", "remove", "halt", "sigkill"}
        BY <2>1 DEF Before
      <3>2. live # "stopped"
        BY <3>1
      <3>3. Stoppers(s, i + 1)
        BY <2>1, <3>2, <1>2 DEF CallInv, Ahead
      <3>4. \E j \in 1 .. (i + 1) - 1 : s[j] \in {"halt", "sigkill"}
        BY <3>3 DEF Stoppers
      <3>5. \E j \in 1 .. i - 1 : n[j] \in {"halt", "sigkill"}
        BY <3>1, <3>4, <2>3
      <3>6. QED
        BY <3>5 DEF Stoppers
    <2>6. n[i] = "sigkill" => policy' = "no" \/ Pins(n, i)
      <3> SUFFICES ASSUME n[i] = "sigkill", policy' # "no" PROVE Pins(n, i)
        OBVIOUS
      <3>1. h # "policy" /\ policy # "no"
        OBVIOUS
      <3>2. Pins(s, i + 1)
        BY <2>1, <3>1, <1>2 DEF CallInv, Ahead
      <3>3. \E j \in 1 .. (i + 1) - 1 : s[j] \in {"policy"}
        BY <3>2 DEF Pins
      <3>4. \E j \in 1 .. i - 1 : n[j] \in {"policy"}
        BY <3>1, <3>3, <2>3
      <3>5. QED
        BY <3>4 DEF Pins
    <2>7. QED
      BY <2>1, <2>2, <2>4, <2>5, <2>6, <1>2 DEF CallInv, Ahead
  <1>13. Replacing(c)' <=> h = "rename"
    <2>1. CASE h = "rename"
      <3>1. 1 \in 1 .. Len(s) /\ s[1] = "rename"
        BY <2>1, <1>2
      <3>2. 1 < Len(s) /\ s[1 + 1] = "create"
        BY <3>1, <1>2 DEF Formed, Complete
      <3>3. Len(n) > 0 /\ n[1] = s[1 + 1]
        BY <3>2, <1>2, <1>4 DEF Drops
      <3>4. QED
        BY <2>1, <3>2, <3>3 DEF Replacing
    <2>2. CASE h # "rename"
      <3>1. ASSUME Len(n) > 0, n[1] = "create" PROVE FALSE
        <4>1. s[2] = "create" /\ 2 \in 1 .. Len(s)
          BY <3>1, <1>4 DEF Drops
        <4>2. s[2 - 1] = "rename"
          BY <4>1, <1>2 DEF Formed, Complete
        <4>3. QED
          BY <4>2, <2>2
      <3>2. QED
        BY <3>1, <2>2 DEF Replacing
    <2>3. QED
      BY <2>1, <2>2
  <1>14. CallInv(c)'
    <2>1. Ends(todo[c], op[c])'
      BY <1>2, <1>5 DEF CallInv, Ends
    <2>2. Replacing(c)' => live' = "none" /\ stale'[c] = "stopped"
      BY <1>13
    <2>3. live' = "none" => wish' \in {"delete", "deleted"} \/ Replacing(c)'
      <3> SUFFICES ASSUME live' = "none", h # "rename"
                   PROVE  wish' \in {"delete", "deleted"}
        BY <1>13
      <3>1. wish \in {"delete", "deleted"}
        BY <1>2, <1>10 DEF CallInv, Replacing
      <3>2. CASE wish' = wish
        BY <3>1, <3>2
      <3>3. CASE wish' # wish
        <4>1. s[Len(s)] = h
          BY <3>3, <1>7
        <4>2. CASE op[c] \in {"stop", "kill"}
          <5>1. h = "stopped"
            BY <4>1, <4>2, <1>2 DEF CallInv, Ends
          <5>2. live' = "stopped"
            BY <5>1, <1>10
          <5>3. QED
            BY <5>2
        <4>3. CASE op[c] = "create"
          BY <4>1, <4>3, <1>2 DEF CallInv, Ends
        <4>4. QED
          BY <3>3, <4>2, <4>3, <1>7
      <3>4. QED
        BY <3>2, <3>3
    <2>4. Len(n) > 0 /\ op'[c] # "create" => wish' # "deleted"
      BY <1>2, <1>4, <1>7 DEF CallInv, Drops
    <2>5. QED
      BY <2>1, <2>2, <2>3, <2>4, <1>12 DEF CallInv
  <1>15. wish' \in {"created", "stop"} => live' # "running"
    <2>1. CASE wish' = wish
      BY <2>1, <1>10 DEF IInv
    <2>2. CASE wish' # wish
      <3>1. s[Len(s)] = h
        BY <2>2, <1>7
      <3>2. CASE op[c] \in {"stop", "kill"}
        <4>1. h = "stopped"
          BY <3>1, <3>2, <1>2 DEF CallInv, Ends
        <4>2. QED
          BY <4>1, <1>10
      <3>3. CASE op[c] = "create"
        BY <3>1, <3>3, <1>2 DEF CallInv, Ends
      <3>4. QED
        BY <2>2, <3>2, <3>3, <1>7
    <2>3. QED
      BY <2>1, <2>2
  <1>16. QED
    BY <1>8, <1>9, <1>14, <1>15 DEF IInv

(* A call skips ahead, to its stopping steps or past them when the server  *)
(* is down, or to the configuration of a new one.                          *)
LEMMA JumpKeeps ==
  ASSUME IInv, NEW c, Calls = {c}, NEW m \in {"configure", "halt", "stopped"},
         \E i \in 1 .. Len(todo[c]) : todo[c][i] = m,
         Go(c, From(todo[c], m)), UNCHANGED <<live, policy, stale, wish, op>>,
         m = "stopped" => live = "stopped", ~Replacing(c)
  PROVE  IInv'
  <1> DEFINE s == todo[c]
             n == todo'[c]
  <1>1. c \in Procs /\ c # Supervisor /\ c \in Calls
    BY ServerAssumption DEF Procs
  <1>2. /\ CallInv(c) /\ Formed(s) /\ s \in Seq(Marks) /\ Len(s) \in Nat
        /\ todo \in [Procs -> Seq(Marks)]
    BY <1>1 DEF IInv, ScriptInv, Typed
  <1>3. n = From(s, m) /\ \A p \in Procs : p # c => todo'[p] = todo[p]
    BY <1>1, <1>2 DEF Go
  <1>4. PICK k \in 1 .. Len(s) :
          /\ s[k] = m /\ \A j \in 1 .. k - 1 : s[j] # m
          /\ Drops(n, s, k - 1)
    BY <1>2, <1>3, FromDrops
  <1>5. /\ Formed(n) /\ \A o : Ends(s, o) => Ends(n, o)
        /\ Len(n) > 0 /\ 1 \in 1 .. Len(n) /\ n[1] = m /\ Len(s) > 0
        /\ n \in Seq(Marks)
    <2>1. k - 1 \in 0 .. Len(s)
      BY <1>2
    <2>2. Formed(n) /\ \A o : Ends(s, o) => Ends(n, o)
      BY <1>2, <1>4, <2>1, SuffixFormed
    <2>3. Len(n) = Len(s) - (k - 1) /\ n[1] = s[1 + (k - 1)]
      BY <1>2, <1>4 DEF Drops
    <2>4. QED
      BY <1>2, <1>4, <2>2, <2>3 DEF Drops
  <1>6. todo' \in [Procs -> Seq(Marks)]
    BY <1>1, <1>2, <1>3, <1>5 DEF Go
  <1>7. Typed'
    BY <1>6 DEF IInv, Typed
  <1>8. ScriptInv'
    BY <1>1, <1>3, <1>5 DEF IInv, ScriptInv, Procs
  <1>9. Ahead(todo[c])'
    <2> SUFFICES ASSUME NEW i \in 1 .. Len(n)
                 PROVE  /\ n[i] = "rename" => live' # "running" \/ Halts(n, i)
                        /\ n[i] = "stopped" => live' = "stopped" \/ Stoppers(n, i)
                        /\ n[i] = "sigkill" => policy' = "no" \/ Pins(n, i)
                        /\ n[i] = "run" => wish' \in {"run", "delete"}
                        /\ n[i] = "remove" => wish' = "delete"
      BY DEF Ahead, Halts, Stoppers, Pins
    <2>1. n[i] = s[i + (k - 1)] /\ i + (k - 1) \in 1 .. Len(s)
      BY <1>2, <1>4 DEF Drops
    <2>2. i = 1 \/ (1 < i /\ Before(m, n[i]))
      BY <1>5 DEF Formed, Ordered
    <2>3. /\ n[i] = "run" => wish' \in {"run", "delete"}
          /\ n[i] = "remove" => wish' = "delete"
      <3> DEFINE h == i + (k - 1)
      <3> HIDE DEF h
      <3>1. h \in 1 .. Len(s) /\ n[i] = s[h]
        BY <2>1 DEF h
      <3>2. QED
        BY <3>1, <1>2 DEF CallInv, Ahead
    <2>4. n[i] # "sigkill"
      BY <2>2, <1>5 DEF Before
    <2>5. n[i] = "rename" => live' # "running" \/ Halts(n, i)
      <3>1. CASE m = "halt"
        <4>1. i > 1 => Halts(n, i)
          BY <3>1, <1>5 DEF Halts
        <4>2. QED
          BY <3>1, <4>1, <2>2, <1>5
      <3>2. CASE m = "stopped"
        BY <3>2
      <3>3. CASE m = "configure"
        BY <3>3, <2>2, <1>5 DEF Before
      <3>4. QED
        BY <3>1, <3>2, <3>3
    <2>6. n[i] = "stopped" => live' = "stopped" \/ Stoppers(n, i)
      <3>1. CASE m = "halt"
        <4>1. i > 1 => Stoppers(n, i)
          BY <3>1, <1>5 DEF Stoppers
        <4>2. QED
          BY <3>1, <4>1, <2>2, <1>5
      <3>2. CASE m = "stopped"
        BY <3>2
      <3>3. CASE m = "configure"
        BY <3>3, <2>2, <1>5 DEF Before
      <3>4. QED
        BY <3>1, <3>2, <3>3
    <2>7. QED
      BY <2>3, <2>4, <2>5, <2>6
  <1>10. CallInv(c)'
    <2>1. Ends(todo[c], op[c])'
      BY <1>2, <1>5 DEF CallInv, Ends
    <2>2. ~Replacing(c)'
      BY <1>5 DEF Replacing
    <2>3. QED
      BY <1>2, <1>5, <1>9, <2>1, <2>2 DEF CallInv
  <1>11. QED
    BY <1>7, <1>8, <1>10 DEF IInv

(* A call gets a new list of steps: when it begins, when it has seen what  *)
(* it is to replace, when it finds that a start needs a replacement first. *)
LEMMA PushKeeps ==
  ASSUME IInv, NEW c, Calls = {c}, NEW n, IsScript(n), Ends(n, op'[c]),
         Len(n) > 0, n[1] # "create", Go(c, n), op' \in [Procs -> Ops \cup {"none"}],
         wish' \in {"created", "run", "stop", "delete", "deleted"},
         UNCHANGED <<live, policy, stale>>,
         ~Replacing(c),
         op'[c] # "create" => wish' # "deleted",
         wish \in {"delete", "deleted"} => wish' \in {"delete", "deleted"},
         wish' \in {"created", "stop"} => wish' = wish,
         live # "running" \/ StopsFirst(n) \/ \A i \in 1 .. Len(n) : n[i] # "rename",
         \A i \in 1 .. Len(n) :
           /\ n[i] = "run" => wish' \in {"run", "delete"}
           /\ n[i] = "remove" => wish' = "delete"
  PROVE  IInv'
  <1>1. c \in Procs /\ c # Supervisor /\ c \in Calls
    BY ServerAssumption DEF Procs
  <1>2. /\ todo \in [Procs -> Seq(Marks)] /\ n \in Seq(Marks) /\ Formed(n) /\ Armed(n)
        /\ CallInv(c)
    BY <1>1 DEF IInv, Typed, IsScript, Formed
  <1>3. /\ todo'[c] = n /\ \A p \in Procs : p # c => todo'[p] = todo[p]
        /\ todo' \in [Procs -> Seq(Marks)]
    BY <1>1, <1>2 DEF Go
  <1>4. Typed'
    BY <1>3 DEF IInv, Typed
  <1>5. ScriptInv'
    BY <1>1, <1>2, <1>3 DEF IInv, ScriptInv, Procs
  <1>6. Ahead(n)'
    <2>1. ASSUME NEW i \in 1 .. Len(n), n[i] = "rename"
          PROVE  live # "running" \/ Halts(n, i)
      <3>1. CASE StopsFirst(n)
        <4>1. PICK j \in 1 .. Len(n) : n[j] = "halt" /\ \A h \in 1 .. j : n[h] # "rename"
          BY <3>1 DEF StopsFirst
        <4>2. j \in 1 .. i - 1
          BY <4>1, <2>1, <1>2
        <4>3. QED
          BY <4>1, <4>2 DEF Halts
      <3>2. QED
        BY <3>1, <2>1
    <2>2. QED
      BY <2>1, <1>2 DEF Ahead, Armed, Halts, Stoppers, Pins
  <1>7. ~Replacing(c)'
    BY <1>3 DEF Replacing
  <1>8. CallInv(c)'
    <2>1. Ahead(todo[c])'
      BY <1>3, <1>6 DEF Ahead, Halts, Stoppers, Pins
    <2>2. live' = "none" => wish' \in {"delete", "deleted"}
      BY <1>2 DEF CallInv
    <2>3. QED
      BY <2>1, <2>2, <1>3, <1>7 DEF CallInv, Ends
  <1>9. wish' \in {"created", "stop"} => live' # "running"
    BY DEF IInv
  <1>10. QED
    BY <1>4, <1>5, <1>8, <1>9 DEF IInv

(* A call at a step has it first in its list.                              *)
LEMMA AtHead ==
  ASSUME IInv, NEW c, Calls = {c}, NEW h, At(c, h)
  PROVE  /\ c \in Procs /\ c # Supervisor /\ c \in Calls
         /\ todo[c] \in Seq(Marks) /\ Len(todo[c]) > 0 /\ 1 \in 1 .. Len(todo[c])
         /\ todo[c][1] = h
         /\ Formed(todo[c]) /\ CallInv(c)
         /\ (h # "create" => ~Replacing(c))
  <1>1. c \in Procs /\ c # Supervisor /\ c \in Calls
    BY ServerAssumption DEF Procs
  <1>2. todo[c] \in Seq(Marks) /\ Formed(todo[c]) /\ CallInv(c)
    BY <1>1 DEF IInv, Typed, ScriptInv
  <1>3. Len(todo[c]) > 0 /\ 1 \in 1 .. Len(todo[c])
    BY <1>2 DEF At
  <1>4. todo[c][1] = h
    BY <1>2, <1>3, TailDrops DEF At
  <1>5. QED
    BY <1>1, <1>2, <1>3, <1>4 DEF Replacing

(* A step that leaves the container alone and goes on.                     *)
LEMMA PlainKeeps ==
  ASSUME IInv, NEW c, Calls = {c}, NEW h, At(c, h),
         h \notin {"halt", "sigkill", "new", "policy", "rename", "create"},
         Succeed(c) \/ (Advance(c) /\ UNCHANGED wish),
         UNCHANGED <<live, policy, stale, op>>
  PROVE  IInv'
  <1>1. Len(todo[c]) > 0 /\ h = todo[c][1]
    BY AtHead
  <1>2. stale' \in [Procs -> {"none", "stopped"}] /\ live' \in Runs
    BY DEF IInv, Typed
  <1>3. QED
    BY <1>1, <1>2, AdvanceKeeps

(* A step that fails before it has touched the container.                  *)
LEMMA StopsShort ==
  ASSUME IInv, NEW c, Calls = {c}, NEW h, At(c, h), h # "create", Fail(c),
         UNCHANGED <<live, policy, stale, op>>
  PROVE  IInv'
  BY AtHead, FailKeeps

(* What a step that skips ahead skips to is there.                         *)
LEMMA JumpsAhead ==
  ASSUME NEW s, Formed(s), Len(s) > 0, NEW h, h = s[1]
  PROVE  /\ h \in {"install", "target"} =>
              \E i \in 1 .. Len(s) : s[i] = "configure"
         /\ h \in {"inspect-stop", "wait"} =>
              \E i \in 1 .. Len(s) : s[i] = "stopped"
         /\ h = "inspect-stop" /\ s[3] = "ask" =>
              \E i \in 1 .. Len(s) : s[i] = "halt"
  <1>1. /\ s \in Seq(Marks) /\ Len(s) \in Nat /\ 1 \in 1 .. Len(s) /\ s[1] = h
        /\ Complete(s)
    BY DEF Formed
  <1>2. \A i \in 1 .. Len(s) : i + 1 .. Len(s) \subseteq 1 .. Len(s)
    BY <1>1
  <1>3. /\ h \in {"install", "target"} => \E i \in 1 + 1 .. Len(s) : s[i] = "configure"
        /\ h \in {"inspect-stop", "wait"} => \E i \in 1 + 1 .. Len(s) : s[i] = "stopped"
        /\ h = "inspect-stop" => 1 + 3 <= Len(s)
    BY <1>1 DEF Complete
  <1>4. h = "inspect-stop" /\ s[3] = "ask" => \E i \in 1 .. Len(s) : s[i] = "halt"
    <2>1. h = "inspect-stop" => 3 \in 1 .. Len(s)
      BY <1>1, <1>3
    <2>2. h = "inspect-stop" /\ s[3] = "ask" => \E i \in 3 + 1 .. Len(s) : s[i] = "halt"
      BY <2>1, <1>1 DEF Complete
    <2>3. QED
      BY <2>1, <2>2, <1>2
  <1>5. QED
    BY <1>1, <1>2, <1>3, <1>4

(* The steps of an operation that begin something or look at something.    *)
LEMMA QuietStepKeeps ==
  ASSUME IInv, NEW c, Calls = {c},
         \/ ReservePort(c) \/ Prepare(c) \/ Install(c) \/ Attempt(c)
         \/ InstallerPostcondition(c) \/ Configure(c) \/ EnsurePayload(c)
         \/ ApplyServerConfig(c) \/ EnsureDisk(c) \/ ManualRecovery(c)
         \/ Attach(c) \/ InspectStop(c) \/ Ask(c) \/ WaitUntilStopped(c)
         \/ Stopped(c) \/ Pull(c) \/ Reuse(c) \/ RemoveFiles(c) \/ Forget(c)
  PROVE  IInv'
  <1> USE DEF docker, Rest
  <1>1. CASE ReservePort(c) \/ Prepare(c) \/ Attempt(c) \/ Configure(c)
             \/ EnsurePayload(c)
    BY <1>1, PlainKeeps, StopsShort
       DEF ReservePort, Prepare, Attempt, Configure, EnsurePayload
  <1>2. CASE ApplyServerConfig(c) \/ EnsureDisk(c) \/ ManualRecovery(c) \/ Attach(c)
    BY <1>2, PlainKeeps, StopsShort
       DEF ApplyServerConfig, EnsureDisk, ManualRecovery, Attach
  <1>3. CASE Ask(c) \/ Stopped(c) \/ Pull(c) \/ Reuse(c) \/ RemoveFiles(c)
             \/ Forget(c)
    BY <1>3, PlainKeeps, StopsShort
       DEF Ask, Stopped, Pull, Reuse, RemoveFiles, Forget
  <1>4. CASE Install(c)
    <2>1. CASE Go(c, From(todo[c], "configure")) /\ UNCHANGED wish
      BY <1>4, <2>1, AtHead, JumpsAhead, JumpKeeps DEF Install
    <2>2. QED
      BY <1>4, <2>1, PlainKeeps, StopsShort DEF Install
  <1>5. CASE InstallerPostcondition(c)
    <2>1. CASE Go(c, From(todo[c], "configure")) /\ UNCHANGED wish
      BY <1>5, <2>1, AtHead, JumpsAhead, JumpKeeps DEF InstallerPostcondition
    <2>2. QED
      BY <1>5, <2>1, PlainKeeps, StopsShort DEF InstallerPostcondition
  <1>6. CASE InspectStop(c)
    <2> USE <1>6 DEF InspectStop
    <2>1. CASE live = "none"
      BY <2>1, StopsShort
    <2>2. CASE live = "stopped"
      BY <2>2, AtHead, JumpsAhead, JumpKeeps
    <2>3. CASE live \notin {"none", "stopped"} /\ Advance(c)
      BY <2>3, PlainKeeps
    <2>4. CASE live \notin {"none", "stopped"} /\ ~Advance(c)
      <3>1. todo[c][3] = "ask" /\ Go(c, From(todo[c], "halt")) /\ UNCHANGED wish
        BY <2>4
      <3>2. QED
        BY <3>1, AtHead, JumpsAhead, JumpKeeps
    <2>5. QED
      BY <2>1, <2>2, <2>3, <2>4
  <1>7. CASE WaitUntilStopped(c)
    <2> USE <1>7 DEF WaitUntilStopped
    <2>1. CASE live = "none"
      BY <2>1, StopsShort
    <2>2. CASE live = "stopped"
      BY <2>2, AtHead, JumpsAhead, JumpKeeps
    <2>3. CASE live \notin {"none", "stopped"}
      BY <2>3, PlainKeeps
    <2>4. QED
      BY <2>1, <2>2, <2>3
  <1>8. QED
    BY <1>1, <1>2, <1>3, <1>4, <1>5, <1>6, <1>7

(* A replacement before what was to be done next is a script.              *)
LEMMA ReplacedFirst ==
  ASSUME NEW t, Part(t, Marks \ {"stopped", "sigkill"})
  PROVE  LET n == <<"reuse">> \o ReplaceScript \o t IN
         /\ Part(n, Marks) /\ Len(n) > 0
         /\ \A i \in 1 .. Len(n) :
              n[i] \in {"run", "remove"} =>
                \E j \in 1 .. Len(t) : t[j] = n[i]
  <1> DEFINE U == <<"reuse">>
             R == U \o ReplaceScript
             L == {"reuse"}
             K == {"rename", "create", "drop"}
             N == Marks \ {"stopped", "sigkill"}
             n == R \o t
  <1>1. Part(U, L) /\ Len(U) = 1
    BY ShortScripts DEF Part
  <1>2. Part(ReplaceScript, K) /\ Len(ReplaceScript) = 3
    BY PlainScripts DEF Part, ReplaceScript
  <1>3. \A a \in L, b \in K : Before(a, b)
    BY DEF Before
  <1>4. \A a \in L \cup K, b \in N : Before(a, b)
    BY DEF Before
  <1>5. L \cup K \cup N \subseteq Marks /\ "run" \notin L \cup K
        /\ "remove" \notin L \cup K
    BY DEF Marks
  <1>6. Part(t, N)
    OBVIOUS
  <1>7. n = R \o t /\ n = <<"reuse">> \o ReplaceScript \o t
    OBVIOUS
  <1> HIDE DEF U, L, K, N
  <1>8. Part(R, L \cup K) /\ Len(R) = 4
    <2>1. Part(R, L \cup K) /\ Len(R) = Len(U) + Len(ReplaceScript)
      BY <1>1, <1>2, <1>3, AppendingParts
    <2>2. QED
      BY <2>1, <1>1, <1>2
  <1> HIDE DEF R
  <1>9. Part(n, (L \cup K) \cup N) /\ Len(n) = Len(R) + Len(t)
    BY <1>8, <1>4, <1>6, AppendingParts
  <1>10. Part(n, Marks)
    BY <1>9, <1>5 DEF Part
  <1>11. Joined(n, R, t) /\ Len(t) \in Nat
    <2>1. Fits(R, t)
      BY <1>8, <1>4, <1>6 DEF Fits, Part
    <2>2. QED
      BY <2>1, <1>8, <1>6, Appending DEF Part, IsScript, Formed
  <1> HIDE DEF n
  <1>12. ASSUME NEW i \in 1 .. Len(n), n[i] \in {"run", "remove"}
        PROVE  \E j \in 1 .. Len(t) : t[j] = n[i]
    <2>1. CASE i \in 1 .. 4
      BY <2>1, <1>8, <1>5, <1>11, <1>12 DEF Joined, Part
    <2>2. CASE i \notin 1 .. 4
      <3>1. i - 4 \in 1 .. Len(t) /\ 4 + (i - 4) = i
        BY <2>2, <1>8, <1>9, <1>11
      <3>2. n[i] = t[i - 4]
        BY <3>1, <1>8, <1>11 DEF Joined
      <3>3. QED
        BY <3>1, <3>2
    <2>3. QED
      BY <2>1, <2>2
  <1>13. Len(n) > 0
    BY <1>8, <1>9, <1>11
  <1>14. QED
    BY <1>8, <1>10, <1>11, <1>12, <1>7, <1>13

(* A start that finds its container unfit replaces it, then goes on.       *)
LEMMA RepairKeeps ==
  ASSUME IInv, NEW c, Calls = {c}, NEW h \in {"inspect-start", "run"}, At(c, h),
         live = "stopped",
         NEW t, Part(t, Marks \ {"stopped", "sigkill"}),
         \A i \in 1 .. Len(t) :
           /\ t[i] = "run" => wish \in {"run", "delete"}
           /\ t[i] = "remove" => wish = "delete",
         Go(c, <<"reuse">> \o ReplaceScript \o t),
         UNCHANGED <<live, policy, stale, wish, op>>
  PROVE  IInv'
  <1> DEFINE n == <<"reuse">> \o ReplaceScript \o t
  <1>1. /\ c \in Procs /\ CallInv(c) /\ ~Replacing(c) /\ 1 \in 1 .. Len(todo[c])
        /\ todo[c][1] = h /\ Len(todo[c]) > 0
    BY AtHead
  <1>2. op[c] \notin {"stop", "kill", "create"}
    BY <1>1 DEF CallInv, Ends
  <1>3. /\ Part(n, Marks) /\ Len(n) > 0
        /\ \A i \in 1 .. Len(n) :
             n[i] \in {"run", "remove"} => \E j \in 1 .. Len(t) : t[j] = n[i]
    BY ReplacedFirst
  <1> HIDE DEF n
  <1>4. /\ IsScript(n) /\ n[1] # "create" /\ Ends(n, op'[c])
        /\ op' \in [Procs -> Ops \cup {"none"}]
        /\ wish' \in {"created", "run", "stop", "delete", "deleted"}
        /\ op'[c] # "create" => wish' # "deleted"
        /\ live # "running"
    BY <1>1, <1>2, <1>3 DEF Part, Ends, IInv, Typed, CallInv
  <1>5. \A i \in 1 .. Len(n) : /\ n[i] = "run" => wish' \in {"run", "delete"}
                               /\ n[i] = "remove" => wish' = "delete"
    BY <1>3
  <1>6. Go(c, n)
    BY DEF n
  <1>7. QED
    BY <1>1, <1>3, <1>4, <1>5, <1>6, PushKeeps

(* start looks at its container.                                           *)
LEMMA InspectStartKeeps ==
  ASSUME IInv, NEW c, Calls = {c}, InspectStart(c)
  PROVE  IInv'
  <1> DEFINE s == todo[c]
             t == Tail(s)
  <1>1. /\ At(c, "inspect-start") /\ UNCHANGED <<live, policy, stale, wish, op>>
    BY DEF InspectStart, docker, Rest
  <1>2. CASE Advance(c)
    BY <1>1, <1>2, PlainKeeps
  <1>3. CASE ~Advance(c)
    <2>1. live = "stopped" /\ Go(c, <<"reuse">> \o ReplaceScript \o t)
      BY <1>3 DEF InspectStart
    <2>2. /\ s \in Seq(Marks) /\ Len(s) > 0 /\ 1 \in 1 .. Len(s)
          /\ s[1] = "inspect-start" /\ Formed(s) /\ CallInv(c)
      BY <1>1, AtHead
    <2>3. Drops(t, s, 1)
      BY <2>2, TailDrops
    <2> HIDE DEF s, t
    <2>4. Formed(t)
      BY <2>2, <2>3, SuffixFormed
    <2>5. ASSUME NEW i \in 1 .. Len(t)
          PROVE  /\ t[i] = s[i + 1] /\ i + 1 \in 1 .. Len(s)
                 /\ Before("inspect-start", t[i])
                 /\ t[i] \in Marks
      <3>1. t[i] = s[i + 1] /\ i + 1 \in 1 .. Len(s) /\ 1 < i + 1
        BY <2>2, <2>3 DEF Drops
      <3>2. QED
        BY <3>1, <2>2 DEF Formed, Ordered
    <2>6. Part(t, Marks \ {"stopped", "sigkill"})
      <3>1. \A i \in 1 .. Len(t) : t[i] \in Marks \ {"stopped", "sigkill"}
        BY <2>5 DEF Before
      <3>2. IsScript(t)
        BY <3>1, <2>4 DEF IsScript, Armed
      <3>3. Len(t) > 0 => t[1] # "create"
        <4>1. Len(t) > 0 => 1 \in 1 .. Len(t)
          BY <2>3 DEF Drops
        <4>2. ASSUME Len(t) > 0, t[1] = "create" PROVE FALSE
          <5>1. s[2] = "create" /\ 2 \in 1 .. Len(s)
            BY <4>1, <4>2, <2>5
          <5>2. s[2 - 1] = "rename"
            BY <5>1, <2>2 DEF Formed, Complete
          <5>3. QED
            BY <5>2, <2>2
        <4>3. QED
          BY <4>2
      <3>4. QED
        BY <3>1, <3>2, <3>3 DEF Part
    <2>7. \A i \in 1 .. Len(t) :
            /\ t[i] = "run" => wish \in {"run", "delete"}
            /\ t[i] = "remove" => wish = "delete"
      <3>1. ASSUME NEW k \in 1 .. Len(s)
            PROVE  /\ s[k] = "run" => wish \in {"run", "delete"}
                   /\ s[k] = "remove" => wish = "delete"
        BY <2>2 DEF CallInv, Ahead, s
      <3>2. QED
        BY <3>1, <2>5
    <2>8. QED
      BY <1>1, <2>1, <2>6, <2>7, RepairKeeps
  <1>4. QED
    BY <1>2, <1>3

(* The server is started, or its container is repaired first.              *)
LEMMA RunKeeps ==
  ASSUME IInv, NEW c, Calls = {c}, Run(c)
  PROVE  IInv'
  <1> USE DEF Rest
  <1>1. /\ At(c, "run") /\ UNCHANGED <<policy, stale, op>>
    BY DEF Run
  <1>2. /\ Len(todo[c]) > 0 /\ todo[c][1] = "run" /\ 1 \in 1 .. Len(todo[c])
        /\ CallInv(c) /\ stale \in [Procs -> {"none", "stopped"}] /\ live \in Runs
    BY <1>1, AtHead DEF IInv, Typed
  <1>3. CASE live # "none" /\ live' = "running" /\ Succeed(c)
    <2>1. live' \in Runs
      BY <1>3 DEF Runs
    <2>2. QED
      BY <1>1, <1>2, <1>3, <2>1, AdvanceKeeps
  <1>4. CASE /\ live = "stopped" /\ UNCHANGED <<live, wish>>
             /\ Go(c, <<"reuse">> \o ReplaceScript \o <<"run", "attach">>)
    <2>1. Part(<<"run", "attach">>, Marks \ {"stopped", "sigkill"})
      BY PlainScripts DEF Part, Marks
    <2>2. wish \in {"run", "delete"}
      BY <1>2 DEF CallInv, Ahead
    <2>3. \A i \in 1 .. Len(<<"run", "attach">>) :
            /\ <<"run", "attach">>[i] = "run" => wish \in {"run", "delete"}
            /\ <<"run", "attach">>[i] = "remove" => wish = "delete"
      BY <2>2
    <2>4. QED
      BY <1>1, <1>4, <2>1, <2>3, RepairKeeps
  <1>5. CASE Fail(c) /\ UNCHANGED live
    BY <1>1, <1>5, StopsShort
  <1>6. QED
    BY <1>3, <1>4, <1>5 DEF Run

(* The container is created, stopped, renamed, replaced and removed.       *)
LEMMA ContainerStepKeeps ==
  ASSUME IInv, NEW c, Calls = {c},
         \/ NewContainer(c) \/ ManualPolicy(c) \/ Halt(c) \/ Sigkill(c)
         \/ Rename(c) \/ DropStale(c) \/ Remove(c)
  PROVE  IInv'
  <1> USE DEF Rest
  <1>0. /\ stale \in [Procs -> {"none", "stopped"}] /\ live \in Runs
        /\ policy \in {"no", "auto"}
        /\ "stopped" \in Runs /\ "none" \in Runs
    BY DEF IInv, Typed, Runs
  <1>1. CASE NewContainer(c)
    <2>1. CASE live = "none"
      BY <1>0, <1>1, <2>1, AtHead, AdvanceKeeps DEF NewContainer
    <2>2. CASE live # "none"
      BY <1>1, <2>2, StopsShort DEF NewContainer
    <2>3. QED
      BY <2>1, <2>2
  <1>2. CASE ManualPolicy(c)
    <2>1. CASE live = "none"
      BY <1>2, <2>1, StopsShort DEF ManualPolicy
    <2>2. CASE live # "none"
      BY <1>0, <1>2, <2>2, AtHead, AdvanceKeeps DEF ManualPolicy
    <2>3. QED
      BY <2>1, <2>2
  <1>3. CASE Halt(c)
    <2>1. CASE live = "none"
      BY <1>3, <2>1, StopsShort DEF Halt
    <2>2. CASE live # "none"
      BY <1>0, <1>3, <2>2, AtHead, AdvanceKeeps DEF Halt
    <2>3. QED
      BY <2>1, <2>2
  <1>4. CASE Sigkill(c)
    <2>1. CASE live = "none"
      BY <1>4, <2>1, StopsShort DEF Sigkill
    <2>2. CASE live # "none"
      <3>1. /\ todo[c][1] = "sigkill" /\ Len(todo[c]) > 0 /\ 1 \in 1 .. Len(todo[c])
            /\ CallInv(c)
        BY <1>4, AtHead DEF Sigkill
      <3>2. policy = "no"
        BY <3>1 DEF CallInv, Ahead, Pins
      <3>3. live' = "stopped" /\ Succeed(c) /\ UNCHANGED <<policy, stale, op>>
        BY <1>4, <2>2, <3>2 DEF Sigkill
      <3>4. QED
        BY <1>0, <3>1, <3>3, AdvanceKeeps
    <2>3. QED
      BY <2>1, <2>2
  <1>5. CASE Rename(c)
    <2>1. CASE live = "none"
      BY <1>5, <2>1, StopsShort DEF Rename
    <2>2. CASE live # "none"
      <3>1. /\ todo[c][1] = "rename" /\ Len(todo[c]) > 0 /\ 1 \in 1 .. Len(todo[c])
            /\ CallInv(c) /\ c \in Procs
        BY <1>5, AtHead DEF Rename
      <3>2. live = "stopped"
        BY <1>0, <2>2, <3>1 DEF CallInv, Ahead, Halts, Runs
      <3>3. /\ live' = "none" /\ Succeed(c) /\ UNCHANGED <<policy, op>>
            /\ stale'[c] = "stopped" /\ stale' \in [Procs -> {"none", "stopped"}]
        BY <1>0, <1>5, <2>2, <3>1, <3>2 DEF Rename
      <3>4. QED
        BY <1>0, <3>1, <3>2, <3>3, AdvanceKeeps
    <2>3. QED
      BY <2>1, <2>2
  <1>6. CASE DropStale(c)
    <2>1. stale' \in [Procs -> {"none", "stopped"}]
      BY <1>0, <1>6, AtHead DEF DropStale
    <2>2. QED
      BY <1>0, <1>6, <2>1, AtHead, AdvanceKeeps DEF DropStale
  <1>7. CASE Remove(c)
    <2>1. CASE live' = "none" /\ Succeed(c)
      BY <1>0, <1>7, <2>1, AtHead, AdvanceKeeps DEF Remove
    <2>2. CASE Fail(c) /\ UNCHANGED live
      BY <1>7, <2>2, StopsShort DEF Remove
    <2>3. QED
      BY <1>7, <2>1, <2>2 DEF Remove
  <1>8. QED
    BY <1>1, <1>2, <1>3, <1>4, <1>5, <1>6, <1>7

(* The new container is created under the old one's name, or the old one   *)
(* gets it back.                                                           *)
LEMMA CreateKeeps ==
  ASSUME IInv, NEW c, Calls = {c}, Create(c)
  PROVE  IInv'
  <1>1. /\ c \in Procs /\ c # Supervisor /\ c \in Calls /\ CallInv(c)
        /\ todo[c][1] = "create" /\ Len(todo[c]) > 0
        /\ live = "none" /\ stale[c] = "stopped"
    BY AtHead DEF Create, CallInv, Replacing
  <1>2. /\ stale \in [Procs -> {"none", "stopped"}]
        /\ todo \in [Procs -> Seq(Marks)] /\ UNCHANGED op
        /\ policy \in {"no", "auto"} /\ "stopped" \in Runs
    BY DEF IInv, Typed, Create, Rest, Runs
  <1>3. CASE live' = "stopped" /\ policy' = "no" /\ Succeed(c) /\ UNCHANGED stale
    BY <1>1, <1>2, <1>3, AdvanceKeeps
  <1>4. CASE /\ live' = stale[c] /\ stale' = [stale EXCEPT ![c] = "none"]
             /\ UNCHANGED policy /\ Fail(c)
    <2>1. /\ todo' \in [Procs -> Seq(Marks)] /\ todo'[c] = <<>>
          /\ Len(todo'[c]) = 0 /\ wish' = wish
          /\ \A p \in Procs : p # c => todo'[p] = todo[p]
      BY <1>1, <1>2, <1>4 DEF Fail, Go
    <2>2. live' = "stopped" /\ stale' \in [Procs -> {"none", "stopped"}]
      BY <1>1, <1>2, <1>4
    <2>3. Typed'
      BY <1>2, <1>4, <2>1, <2>2 DEF IInv, Typed
    <2>4. ScriptInv'
      BY <1>1, <2>1, ShortScripts DEF IInv, ScriptInv, IsScript, Procs
    <2>5. CallInv(c)'
      BY <2>1, <2>2 DEF CallInv, Ends, Ahead, Replacing
    <2>6. QED
      BY <2>2, <2>3, <2>4, <2>5 DEF IInv
  <1>5. QED
    BY <1>1, <1>3, <1>4 DEF Create

(* What is to be replaced has been inspected.                              *)
LEMMA InspectRecreateKeeps ==
  ASSUME IInv, NEW c, Calls = {c}, InspectRecreate(c)
  PROVE  IInv'
  <1>1. At(c, "inspect-recreate") /\ UNCHANGED <<live, policy, stale, op>>
    BY DEF InspectRecreate, docker, Rest
  <1>2. CASE Fail(c)
    BY <1>1, <1>2, StopsShort
  <1>3. CASE Go(c, AfterInspect(op[c], live = "running")) /\ UNCHANGED wish
    <2> DEFINE r == live = "running"
               n == AfterInspect(op[c], r)
               M == Marks \ {"remove", "sigkill", "new"}
    <2>1. /\ c \in Procs /\ CallInv(c) /\ ~Replacing(c) /\ 1 \in 1 .. Len(todo[c])
          /\ todo[c][1] = "inspect-recreate" /\ Len(todo[c]) > 0
      BY <1>1, AtHead
    <2>2. op[c] \notin {"stop", "kill", "create"}
      BY <2>1 DEF CallInv, Ends
    <2>3. r \in BOOLEAN
      OBVIOUS
    <2>4. /\ Part(n, M) /\ Len(n) > 0
          /\ r => StopsFirst(n)
          /\ ~r => \A i \in 1 .. Len(n) : n[i] # "run"
      BY <2>3, AfterInspectFacts
    <2>5. Go(c, n)
      BY <1>3
    <2>6. r => wish \in {"run", "delete"}
      BY <2>1, <2>2 DEF IInv, Typed, CallInv
    <2> HIDE DEF n
    <2>7. IsScript(n) /\ n[1] # "create" /\ \A i \in 1 .. Len(n) : n[i] # "remove"
      BY <2>4 DEF Part
    <2>8. Ends(n, op'[c])
      BY <1>1, <2>2 DEF Ends
    <2>9. op' \in [Procs -> Ops \cup {"none"}]
          /\ wish' \in {"created", "run", "stop", "delete", "deleted"}
          /\ (op'[c] # "create" => wish' # "deleted")
      BY <1>1, <1>3, <2>1 DEF IInv, Typed, CallInv
    <2>10. \A i \in 1 .. Len(n) : /\ n[i] = "run" => wish' \in {"run", "delete"}
                                  /\ n[i] = "remove" => wish' = "delete"
      BY <1>3, <2>4, <2>6, <2>7
    <2>11. live # "running" \/ StopsFirst(n)
      BY <2>4
    <2>12. QED
      BY <1>1, <1>3, <2>1, <2>4, <2>5, <2>7, <2>8, <2>9, <2>10, <2>11, PushKeeps
  <1>4. QED
    BY <1>2, <1>3 DEF InspectRecreate

(* Every step of the call.                                                 *)
LEMMA CallStepKeeps ==
  ASSUME IInv, NEW c, Calls = {c}, Step(c)
  PROVE  IInv'
  BY QuietStepKeeps, ContainerStepKeeps, InspectStartKeeps, RunKeeps, CreateKeeps,
     InspectRecreateKeeps DEF Step

(* The panel asks for something.                                           *)
LEMMA BeginKeeps ==
  ASSUME IInv, NEW c, Calls = {c}, NEW o \in Ops, Begin(c, o)
  PROVE  IInv'
  <1> DEFINE n == Script(o)
  <1>1. /\ c \in Procs /\ CallInv(c) /\ Len(todo[c]) = 0
        /\ op \in [Procs -> Ops \cup {"none"}]
    BY DEF Begin, Idle, IInv, Typed, Procs
  <1>2. /\ IsScript(n) /\ Ends(n, o) /\ Len(n) > 0 /\ n[1] # "create"
        /\ \A i \in 1 .. Len(n) : /\ n[i] # "rename"
                                  /\ n[i] = "run" => o \in {"start", "restart"}
                                  /\ n[i] = "remove" => o = "delete"
    BY ScriptFacts DEF IsScript
  <1> HIDE DEF n
  <1>3. /\ op'[c] = o /\ op' \in [Procs -> Ops \cup {"none"}]
        /\ UNCHANGED <<live, policy, stale>> /\ ~Replacing(c)
    BY <1>1 DEF Begin, docker, Replacing
  <1>4. Go(c, n)
    BY DEF Begin, n
  <1>5. /\ o = "create" => wish \in {"delete", "deleted"} /\ wish' = wish
        /\ o \in {"start", "restart"} =>
             wish # "deleted" /\ wish' = IF wish = "delete" THEN wish ELSE "run"
        /\ o = "delete" => wish # "deleted" /\ wish' = "delete"
        /\ o \notin {"create", "start", "restart", "delete"} =>
             wish # "deleted" /\ wish' = wish
        /\ wish \in {"created", "run", "stop", "delete", "deleted"}
    BY DEF Begin, IInv, Typed
  <1>6. /\ wish' \in {"created", "run", "stop", "delete", "deleted"}
        /\ o # "create" => wish' # "deleted"
        /\ wish \in {"delete", "deleted"} => wish' \in {"delete", "deleted"}
        /\ wish' \in {"created", "stop"} => wish' = wish
        /\ o \in {"start", "restart"} => wish' \in {"run", "delete"}
        /\ o = "delete" => wish' = "delete"
    BY <1>5
  <1>7. QED
    BY <1>1, <1>2, <1>3, <1>4, <1>6, PushKeeps

(* What is left of the supervisor's own stop after one of its steps is     *)
(* still part of a stop.                                                   *)
LEMMA SupervisorGoesOn ==
  ASSUME IInv, NEW h, At(Supervisor, h),
         \/ Succeed(Supervisor) \/ Advance(Supervisor) \/ Fail(Supervisor)
         \/ Go(Supervisor, From(todo[Supervisor], "stopped"))
            /\ h \in {"inspect-stop", "wait"}
         \/ Go(Supervisor, From(todo[Supervisor], "halt"))
            /\ h = "inspect-stop" /\ todo[Supervisor][3] = "ask"
  PROVE  /\ todo' \in [Procs -> Seq(Marks)] /\ Formed(todo'[Supervisor])
         /\ \A d \in Calls : todo'[d] = todo[d]
         /\ \A i \in 1 .. Len(todo'[Supervisor]) : todo'[Supervisor][i] \in StopSteps
         /\ h \in StopSteps
  <1> DEFINE s == todo[Supervisor]
             n == todo'[Supervisor]
  <1>1. Supervisor \in Procs /\ todo \in [Procs -> Seq(Marks)] /\ Supervisor \notin Calls
    BY ServerAssumption DEF Procs, IInv, Typed
  <1>2. /\ Formed(s) /\ s \in Seq(Marks) /\ \A i \in 1 .. Len(s) : s[i] \in StopSteps
    BY <1>1 DEF IInv, ScriptInv
  <1>3. Len(s) > 0 /\ 1 \in 1 .. Len(s) /\ Len(s) \in Nat
    BY <1>2 DEF At
  <1>4. s[1] = h /\ h \in StopSteps
    BY <1>2, <1>3, TailDrops DEF At
  <1>5. \/ n = <<>> \/ n = Tail(s)
        \/ n = From(s, "stopped") /\ h \in {"inspect-stop", "wait"}
        \/ n = From(s, "halt") /\ h = "inspect-stop" /\ s[3] = "ask"
    BY <1>1 DEF Succeed, Advance, Fail, Go
  <1>6. todo' = [todo EXCEPT ![Supervisor] = n]
    BY <1>1 DEF Succeed, Advance, Fail, Go
  <1> HIDE DEF n
  <1>7. n = <<>> \/ \E k \in 0 .. Len(s) : Drops(n, s, k)
    <2>1. CASE n = Tail(s)
      BY <2>1, <1>2, <1>3, TailDrops
    <2>2. ASSUME NEW m \in {"stopped", "halt"}, n = From(s, m),
                 \E i \in 1 .. Len(s) : s[i] = m
          PROVE  \E k \in 0 .. Len(s) : Drops(n, s, k)
      <3>1. PICK k \in 1 .. Len(s) : Drops(From(s, m), s, k - 1)
        BY <2>2, <1>2, FromDrops
      <3>2. k - 1 \in 0 .. Len(s) /\ Drops(n, s, k - 1)
        BY <3>1, <2>2, <1>3
      <3>3. QED
        BY <3>2
    <2>3. QED
      BY <1>2, <1>3, <1>4, <1>5, <2>1, <2>2, JumpsAhead
  <1>8. n \in Seq(Marks) /\ Formed(n) /\ \A i \in 1 .. Len(n) : n[i] \in StopSteps
    <2>1. CASE n = <<>>
      BY <2>1, ShortScripts DEF IsScript, Formed
    <2>2. CASE \E k \in 0 .. Len(s) : Drops(n, s, k)
      <3>1. PICK k \in 0 .. Len(s) : Drops(n, s, k)
        BY <2>2
      <3>2. Formed(n)
        BY <3>1, <1>2, SuffixFormed
      <3>3. \A i \in 1 .. Len(n) : i + k \in 1 .. Len(s) /\ n[i] = s[i + k]
        BY <3>1, <1>3 DEF Drops
      <3>4. QED
        BY <3>2, <3>3, <1>2 DEF Formed
    <2>3. QED
      BY <2>1, <2>2, <1>7
  <1>9. todo' \in [Procs -> Seq(Marks)] /\ \A d \in Calls : todo'[d] = todo[d]
    BY <1>1, <1>6, <1>8 DEF Procs
  <1>10. QED
    BY <1>4, <1>8, <1>9 DEF n

(* The supervisor's stop does no more than take the server down.           *)
LEMMA SupervisorStepKeeps ==
  ASSUME IInv, Step(Supervisor)
  PROVE  IInv'
  <1> DEFINE p == Supervisor
  <1>1. ASSUME NEW h, At(p, h) PROVE h \in StopSteps
    <2>1. /\ todo[p] \in Seq(Marks) /\ \A i \in 1 .. Len(todo[p]) : todo[p][i] \in StopSteps
      BY DEF IInv, Typed, ScriptInv, Procs
    <2>2. Len(todo[p]) > 0 /\ 1 \in 1 .. Len(todo[p])
      BY <1>1, <2>1 DEF At
    <2>3. QED
      BY <1>1, <2>1, <2>2, TailDrops DEF At
  <1>2. \/ ManualPolicy(p) \/ InspectStop(p) \/ Ask(p) \/ WaitUntilStopped(p)
        \/ Halt(p) \/ Stopped(p)
    <2>1. /\ ~ReservePort(p) /\ ~Prepare(p) /\ ~Install(p) /\ ~Attempt(p)
          /\ ~InstallerPostcondition(p) /\ ~Configure(p) /\ ~EnsurePayload(p)
          /\ ~NewContainer(p) /\ ~InspectStart(p) /\ ~ApplyServerConfig(p)
          /\ ~EnsureDisk(p) /\ ~ManualRecovery(p)
      BY <1>1 DEF StopSteps, ReservePort, Prepare, Install, Attempt,
         InstallerPostcondition, Configure, EnsurePayload, NewContainer,
         InspectStart, ApplyServerConfig, EnsureDisk, ManualRecovery
    <2>2. /\ ~Run(p) /\ ~Attach(p) /\ ~Sigkill(p) /\ ~InspectRecreate(p)
          /\ ~Pull(p) /\ ~Reuse(p) /\ ~Rename(p) /\ ~Create(p) /\ ~DropStale(p)
          /\ ~Remove(p) /\ ~RemoveFiles(p) /\ ~Forget(p)
      BY <1>1 DEF StopSteps, Run, Attach, Sigkill, InspectRecreate, Pull, Reuse,
         Rename, Create, DropStale, Remove, RemoveFiles, Forget
    <2>3. QED
      BY <2>1, <2>2 DEF Step
  <1>3. live \in {"none", "stopped", "running"} /\ policy \in {"no", "auto"}
    BY DEF IInv, Typed, Runs
  <1>4. /\ UNCHANGED <<stale, op, wish>>
        /\ policy' \in {policy, "no"}
        /\ live' = live \/ (live = "running" /\ live' = "stopped")
    <2>1. CASE ManualPolicy(p)
      BY <2>1 DEF ManualPolicy, Succeed, Fail, Rest
    <2>2. CASE InspectStop(p)
      BY <2>2, <1>3 DEF InspectStop, Fail, docker, Rest
    <2>3. CASE Ask(p) \/ WaitUntilStopped(p) \/ Stopped(p)
      BY <2>3 DEF Ask, WaitUntilStopped, Stopped, Succeed, Fail, docker, Rest
    <2>4. CASE Halt(p)
      BY <2>4, <1>3 DEF Halt, Succeed, Fail, Rest
    <2>5. QED
      BY <1>2, <2>1, <2>2, <2>3, <2>4
  <1>5. /\ todo' \in [Procs -> Seq(Marks)] /\ Formed(todo'[p])
        /\ \A d \in Calls : todo'[d] = todo[d]
        /\ \A i \in 1 .. Len(todo'[p]) : todo'[p][i] \in StopSteps
    <2>1. CASE ManualPolicy(p) \/ Ask(p) \/ Halt(p) \/ Stopped(p)
      BY <2>1, SupervisorGoesOn DEF ManualPolicy, Ask, Halt, Stopped
    <2>2. CASE InspectStop(p)
      <3>1. \/ Fail(p) \/ Advance(p) \/ Go(p, From(todo[p], "stopped"))
            \/ todo[p][3] = "ask" /\ Go(p, From(todo[p], "halt"))
        BY <2>2 DEF InspectStop
      <3>2. QED
        BY <2>2, <3>1, SupervisorGoesOn DEF InspectStop
    <2>3. CASE WaitUntilStopped(p)
      <3>1. Fail(p) \/ Advance(p) \/ Go(p, From(todo[p], "stopped"))
        BY <2>3 DEF WaitUntilStopped
      <3>2. QED
        BY <2>3, <3>1, SupervisorGoesOn DEF WaitUntilStopped
    <2>4. QED
      BY <1>2, <2>1, <2>2, <2>3
  <1>6. QED
    BY <1>4, <1>5, WorldKeeps

(* The supervisor's scan, the server's own exits and its files.            *)
LEMMA AloneKeeps ==
  ASSUME IInv, ContainerExits \/ UsageChanges \/ RecoveryExpires \/ Scan
  PROVE  IInv'
  <1> USE DEF docker, others
  <1>1. /\ todo \in [Procs -> Seq(Marks)] /\ Formed(todo[Supervisor])
        /\ \A i \in 1 .. Len(todo[Supervisor]) : todo[Supervisor][i] \in StopSteps
    BY DEF IInv, Typed, ScriptInv, Procs
  <1>2. CASE ContainerExits
    BY <1>1, <1>2, WorldKeeps DEF ContainerExits
  <1>3. CASE UsageChanges \/ RecoveryExpires
    BY <1>1, <1>3, WorldKeeps DEF UsageChanges, RecoveryExpires
  <1>4. CASE Quarantine
    <2>1. /\ todo' \in [Procs -> Seq(Marks)] /\ todo'[Supervisor] = StopScript
          /\ \A d \in Calls : todo'[d] = todo[d]
      BY <1>1, <1>4, ServerAssumption, PlainScripts
         DEF Quarantine, Go, Procs, IsScript, Formed
    <2>2. /\ Formed(StopScript)
          /\ \A i \in 1 .. Len(StopScript) : StopScript[i] \in StopSteps
      BY PlainScripts DEF IsScript, StopScript, StopSteps
    <2>3. QED
      BY <1>4, <2>1, <2>2, WorldKeeps DEF Quarantine
  <1>5. CASE OverPolicy \/ OverStop
    BY <1>1, <1>5, WorldKeeps DEF OverPolicy, OverStop
  <1>6. CASE ScanBegins \/ ScanForgets \/ ScanInspects \/ Observe
    BY <1>1, <1>6, WorldKeeps DEF ScanBegins, ScanForgets, ScanInspects, Observe
  <1>7. CASE Mark \/ DiskNotDue \/ CheckDisk \/ MarkDisk
    BY <1>1, <1>7, WorldKeeps DEF Mark, DiskNotDue, CheckDisk, MarkDisk
  <1>8. QED
    BY <1>2, <1>3, <1>4, <1>5, <1>6, <1>7 DEF Scan

(* Every step keeps the invariant while one call at a time is under way.   *)
LEMMA NextIInv ==
  ASSUME NEW c, Calls = {c}, IInv, [Next]_vars
  PROVE  IInv'
  <1>1. CASE \E o \in Ops : Begin(c, o)
    BY <1>1, BeginKeeps
  <1>2. CASE Step(c)
    BY <1>2, CallStepKeeps
  <1>3. CASE Step(Supervisor)
    BY <1>3, SupervisorStepKeeps
  <1>4. CASE ContainerExits \/ UsageChanges \/ RecoveryExpires \/ Scan
    BY <1>4, AloneKeeps
  <1>5. CASE UNCHANGED vars
    <2>1. UNCHANGED <<live, policy, stale, todo, wish, op>>
      BY <1>5 DEF vars
    <2>2. /\ todo \in [Procs -> Seq(Marks)] /\ Formed(todo[Supervisor])
          /\ \A i \in 1 .. Len(todo[Supervisor]) : todo[Supervisor][i] \in StopSteps
      BY DEF IInv, Typed, ScriptInv, Procs
    <2>3. QED
      BY <2>1, <2>2, WorldKeeps
  <1>6. QED
    BY <1>1, <1>2, <1>3, <1>4, <1>5 DEF Next, Procs

-----------------------------------------------------------------------------
(* What follows.                                                           *)

(* The invariant holds of every behaviour.                                 *)
LEMMA Invariance ==
  ASSUME NEW CONSTANT c, Calls = {c}
  PROVE  Spec => []IInv
  <1>1. IInv /\ [Next]_vars => IInv'
    BY NextIInv
  <1>2. QED
    BY InitIInv, <1>1, PTL DEF Spec

(* A created server is not lost (recreation.rs, replace_stale_container):  *)
(* whatever fails in a replacement, and whatever the supervisor does       *)
(* meanwhile, a container has its name once the call is over.              *)
THEOREM KeepsTheServer ==
  ASSUME NEW CONSTANT c, Calls = {c}
  PROVE  Spec => []ServerKept
  <1>1. IInv => ServerKept
    <2> SUFFICES ASSUME IInv, AllIdle, wish \in {"created", "run", "stop"}
                 PROVE  live # "none"
      BY DEF ServerKept
    <2>1. CallInv(c) /\ Len(todo[c]) = 0
      BY DEF IInv, AllIdle, Idle
    <2>2. QED
      BY <2>1 DEF CallInv, Replacing
  <1>2. QED
    BY <1>1, Invariance, PTL

(* Two containers of one server never run at once (recreation.rs): the one *)
(* renamed aside is down before the new one starts, even when it could not *)
(* be removed or was started by an earlier call.                           *)
THEOREM OneContainerRuns ==
  ASSUME NEW CONSTANT c, Calls = {c}
  PROVE  Spec => []NoTwins
  <1>1. IInv => NoTwins
    BY DEF IInv, Typed, NoTwins
  <1>2. QED
    BY <1>1, Invariance, PTL

(* A stopped server stays down (lifecycle.rs, stop and kill): neither its  *)
(* restart policy nor a replacement of its container brings it back.       *)
THEOREM StoppedStaysDown ==
  ASSUME NEW CONSTANT c, Calls = {c}
  PROVE  Spec => []StopHolds
  <1>1. IInv => StopHolds
    BY DEF IInv, StopHolds
  <1>2. QED
    BY <1>1, Invariance, PTL
=============================================================================
