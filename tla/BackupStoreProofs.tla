-------------------------- MODULE BackupStoreProofs --------------------------
(***************************************************************************)
(* The backups of one server for any number of calls and of earlier        *)
(* backups, dropped, failing and killed anywhere, one permit at a time.    *)
(***************************************************************************)
EXTENDS BackupStore, FiniteSetTheorems, WellFoundedInduction, TLAPS

-----------------------------------------------------------------------------
(* What each call is about.                                                *)

Typed ==
    /\ pc \in [Calls -> {"new", "queued", "detached"} \cup Permitted
                          \cup Unpermitted \cup Ended]
    /\ request \in [Calls -> Requests \cup {NoRequest}]
    /\ temp \in [Calls -> SUBSET {"plain", "upload", "stored", "copy"}]
    /\ todo \in [Calls -> SUBSET (Backups \cup {"archive", "metadata"})]
    /\ home \in [Backups -> Stores]
    /\ archive \in [Backups -> {"none", "partial", "whole"}]
    /\ meta \in [Backups -> {"none", "torn", "valid"}]
    /\ born \in [Backups -> Nat]
    /\ kills \in 0 .. MaxKills
    /\ asked \subseteq Backups /\ retired \subseteq Backups
    /\ made \subseteq Backups

(* A call that was made is about a backup of the store it names: its own,  *)
(* or one that another call makes or that was there.                       *)
Asked(c) ==
    IF pc[c] = "new"
      THEN request[c] = NoRequest /\ home[c] = "local"
      ELSE /\ request[c] \in Requests
           /\ home[About(c)] = request[c].storage
           /\ IF Op(c) \in {"verify", "download", "delete"}
                THEN \/ About(c) \in Earlier
                     \/ /\ About(c) \in Calls
                        /\ Op(About(c)) \in {"create", "import"}
                ELSE About(c) = c

(* The operations that go through each step.                               *)
Steps(c) ==
    /\ pc[c] = "queued" =>
         /\ Op(c) \in {"create", "verify", "download", "export", "import"}
         /\ Op(c) = "import" => ~Remote(c)
    /\ pc[c] \in {"tar", "tarring"} => Op(c) = "create"
    /\ pc[c] \in {"encrypt", "upload", "put", "retain", "retire", "confirm"}
         => Op(c) = "create" /\ Remote(c)
    /\ pc[c] \in {"find", "download", "decrypt", "check"} =>
         /\ Op(c) \in {"create", "verify", "download"}
         /\ Op(c) = "create" => Remote(c)
    /\ pc[c] \in {"download", "decrypt"} => Remote(c)
    /\ pc[c] = "write" => Op(c) \in {"create", "verify"}
    /\ pc[c] \in {"writing", "detached"} =>
         Op(c) \in {"create", "verify"} /\ ~Remote(c)
    /\ pc[c] \in {"receive", "unpack"} => Op(c) = "import" /\ ~Remote(c)
    /\ pc[c] \in {"locate", "remove"} => Op(c) = "delete" /\ Remote(c)
    /\ pc[c] \in {"unlink", "forget"} => Op(c) = "delete" /\ ~Remote(c)

(* One call at a time holds the permit.                                    *)
Lone == \A c, d \in Calls : pc[c] \in Permitted /\ pc[d] \in Permitted => c = d

CallInv == Typed /\ Lone /\ \A c \in Calls : Asked(c) /\ Steps(c)

-----------------------------------------------------------------------------
(* Where the files of a backup are.                                        *)

(* A put to S3 is atomic; a backup nobody asked for has no files, and one  *)
(* nobody can have found yet has no metadata.                              *)
PutsAreAtomic ==
    /\ \A b \in Backups : home[b] = "s3" =>
         archive[b] # "partial" /\ meta[b] # "torn"
    /\ \A c \in Calls : pc[c] = "new" => archive[c] = "none"

Preparing == {"new", "receive", "queued", "tar", "tarring", "encrypt",
              "upload", "put"}
Published(b) == b \in Calls => pc[b] \notin Preparing
Unpublished(c) == pc[c] \in Preparing => meta[c] = "none"

(* What a call found, and what retention lists, had metadata.              *)
FoundInv(c) ==
    /\ pc[c] \in {"download", "decrypt", "check", "write", "writing",
                  "detached", "remove"} => Published(About(c))
    /\ pc[c] = "retire" => \A b \in todo[c] \cap Backups :
                              home[b] = "s3" /\ Published(b)

(* The archive is there before the metadata, and what is read from S3 is   *)
(* there until it has been verified.                                       *)
ReadInv(c) ==
    /\ pc[c] = "put" => archive[c] = "whole"
    /\ pc[c] \in {"download", "decrypt", "check", "write"} /\ Remote(c) =>
         Restorable(About(c)) \/ About(c) \in asked
    /\ (pc[c] = "find" /\ Op(c) = "create")
         \/ pc[c] \in {"retain", "retire", "confirm"}
         => Restorable(c) \/ c \in asked

(* The local files of a create or an import, until it returns.             *)
LocalInv(c) ==
    /\ Op(c) = "create" /\ ~Remote(c) /\ pc[c] \in {"write", "writing"} =>
         archive[c] = "whole" \/ c \in asked
    /\ Op(c) = "create" /\ pc[c] = "writing" =>
         meta[c] # "none" \/ c \in asked
    /\ pc[c] = "forget" => About(c) \in asked
    /\ pc[c] = "unpack" =>
         /\ "archive" \in todo[c] \/ archive[c] = "whole" \/ c \in asked
         /\ "metadata" \in todo[c] \/ meta[c] # "none" \/ c \in asked

MadeInv == \A c \in Calls : c \in made => pc[c] = "done"

FileInv ==
    /\ RemoteListedIsWhole /\ BackupKept /\ MadeInv /\ PutsAreAtomic
    /\ \A c \in Calls : Unpublished(c) /\ FoundInv(c) /\ ReadInv(c) /\ LocalInv(c)

-----------------------------------------------------------------------------
(* The order of the archives.                                              *)

(* A create has the newest archive from its tar until it returns, so its   *)
(* retention spares it.                                                    *)
NewestInv(c) ==
    /\ pc[c] \in {"new", "queued", "receive", "tar", "tarring", "unpack"}
         => born[c] = 0
    /\ Op(c) = "create" /\ Remote(c)
         /\ pc[c] \in {"encrypt", "upload", "put", "find", "download",
                       "decrypt", "check", "write", "retain", "retire",
                       "confirm"}
         => \A b \in Backups : born[b] <= born[c]
    /\ pc[c] = "retire" => c \notin todo[c]

OrderInv ==
    /\ \A b \in Backups : born[b] <= Cardinality(Created)
    /\ \A c \in Calls : NewestInv(c)

IInv == CallInv /\ FileInv /\ OrderInv
-----------------------------------------------------------------------------
(* The calls.                                                              *)

(* With one permit, a call that acquires it is the only holder.            *)
LEMMA NoHolder ==
  ASSUME Permits = 1, Cardinality(Holders) < Permits
  PROVE  \A c \in Calls : pc[c] \notin Permitted
  <1>1. IsFiniteSet(Holders)
    BY StoreAssumption, FS_Subset, Zenon DEF Holders
  <1>2. Cardinality(Holders) = 0
    BY <1>1, FS_CardinalityType
  <1>3. Holders = {}
    BY <1>1, <1>2, FS_EmptySet
  <1>4. QED
    BY <1>3 DEF Holders

(* created_at is a number.                                                 *)
LEMMA OrderIsNat ==
  /\ IsFiniteSet(Created) /\ Cardinality(Created) \in Nat
  /\ Now = Cardinality(Created) + 1
  <1>1. IsFiniteSet(Backups)
    BY StoreAssumption, FS_Union, Zenon DEF Backups
  <1>2. IsFiniteSet(Created)
    <2>1. Created \subseteq Backups
      BY DEF Created
    <2>2. QED
      BY <1>1, <2>1, FS_Subset, Zenon
  <1>3. QED
    BY <1>2, FS_CardinalityType DEF Now

(* What a step of c leaves alone: the other calls, and every store.        *)
Others(c) ==
    /\ \A d \in Calls \ {c} : pc'[d] = pc[d] /\ todo'[d] = todo[d]
    /\ request' = request /\ home' = home

(* A step of a call keeps the types and moves this call only; it begins    *)
(* work with a permit only if no other call holds one.                     *)
LEMMA StepCall ==
  ASSUME Permits = 1, CallInv, NEW c \in Calls, Step(c)
  PROVE  /\ Typed' /\ Others(c) /\ Steps(c)'
         /\ pc[c] # "new" /\ pc'[c] # "new"
         /\ \/ pc[c] \in Permitted \/ pc'[c] \notin Permitted
            \/ \A d \in Calls : pc[d] \notin Permitted
  <1> DEFINE Goal == /\ Typed' /\ Others(c) /\ Steps(c)'
                     /\ pc[c] # "new" /\ pc'[c] # "new"
                     /\ \/ pc[c] \in Permitted \/ pc'[c] \notin Permitted
                        \/ \A d \in Calls : pc[d] \notin Permitted
  <1> USE StoreAssumption
      DEF CallInv, Typed, Asked, Steps, Others, Go, Store, Describe, Keep,
          Drops, files, Permitted, Unpermitted, Ended, Backups, Op, Remote,
          About
  <1>1. ASSUME Acquire(c) PROVE Goal
    <2>1. \A d \in Calls : pc[d] \notin Permitted
      BY <1>1, NoHolder DEF Acquire
    <2>2. pc[c] = "queued" /\ pc' = [pc EXCEPT ![c] = Started(Op(c))]
      BY <1>1 DEF Acquire
    <2>3. Started(Op(c)) \in {"tar", "pack", "unpack", "find"}
      BY DEF Started
    <2>4. todo' \in [Calls -> SUBSET (Backups \cup {"archive", "metadata"})]
          /\ \A d \in Calls \ {c} : todo'[d] = todo[d]
      BY <1>1 DEF Acquire
    <2>5. Typed' /\ Others(c) /\ pc[c] # "new" /\ pc'[c] = Started(Op(c))
      BY <1>1, <2>2, <2>3, <2>4 DEF Acquire
    <2>6. Op(c) \in {"create", "verify", "download", "export", "import"}
      BY <2>2
    <2>7. Op(c) = "import" => ~Remote(c)
      BY <2>2
    <2>8. Steps(c)'
      BY <1>1, <2>5, <2>6, <2>7, <2>2 DEF Acquire, Started
    <2>9. QED
      BY <2>1, <2>3, <2>5, <2>8
  <1>2. ASSUME TarBegin(c) PROVE Goal
    BY <1>2 DEF TarBegin
  <1>3. ASSUME TarEnd(c) PROVE Goal
    BY <1>3, OrderIsNat DEF TarEnd
  <1>4. ASSUME Encrypt(c) PROVE Goal
    BY <1>4 DEF Encrypt
  <1>5. ASSUME PutArchive(c) PROVE Goal
    BY <1>5 DEF PutArchive
  <1>6. ASSUME PutMetadata(c) PROVE Goal
    BY <1>6 DEF PutMetadata
  <1>7. ASSUME Find(c) PROVE Goal
    BY <1>7 DEF Find
  <1>8. ASSUME Download(c) PROVE Goal
    BY <1>8 DEF Download
  <1>9. ASSUME Decrypt(c) PROVE Goal
    BY <1>9 DEF Decrypt
  <1>10. ASSUME Check(c) PROVE Goal
    BY <1>10 DEF Check
  <1>11. ASSUME Stamp(c) PROVE Goal
    BY <1>11 DEF Stamp, Verified
  <1>12. ASSUME WriteBegin(c) PROVE Goal
    BY <1>12 DEF WriteBegin
  <1>13. ASSUME WriteEnd(c) PROVE Goal
    BY <1>13 DEF WriteEnd
  <1>14. ASSUME ListSurplus(c) PROVE Goal
    <2>1. Surplus(c) \subseteq Backups
      BY DEF Surplus, RemoteList
    <2>2. QED
      BY <1>14, <2>1 DEF ListSurplus
  <1>15. ASSUME RetireDone(c) PROVE Goal
    BY <1>15 DEF RetireDone
  <1>16. ASSUME Confirm(c) PROVE Goal
    BY <1>16 DEF Confirm
  <1>17. ASSUME Locate(c) PROVE Goal
    BY <1>17 DEF Locate
  <1>18. ASSUME Remove(c) PROVE Goal
    BY <1>18 DEF Remove
  <1>19. ASSUME Unlink(c) PROVE Goal
    BY <1>19 DEF Unlink
  <1>20. ASSUME Forget(c) PROVE Goal
    BY <1>20 DEF Forget
  <1>21. ASSUME ClearDone(c) PROVE Goal
    BY <1>21 DEF ClearDone
  <1>22. ASSUME PackServer(c) PROVE Goal
    BY <1>22 DEF PackServer
  <1>23. ASSUME PackBackups(c) PROVE Goal
    BY <1>23 DEF PackBackups
  <1>24. ASSUME Streamed(c) PROVE Goal
    BY <1>24 DEF Streamed
  <1>25. ASSUME Receive(c) PROVE Goal
    BY <1>25 DEF Receive
  <1>26. ASSUME UnpackBegin(c) PROVE Goal
    BY <1>26 DEF UnpackBegin
  <1>27. ASSUME UnpackEnd(c) PROVE Goal
    BY <1>27 DEF UnpackEnd
  <1>28. ASSUME Unpacked(c) PROVE Goal
    BY <1>28, OrderIsNat DEF Unpacked
  <1>29. ASSUME Fail(c) PROVE Goal
    BY <1>29 DEF Fail
  <1>30. ASSUME Drop(c) PROVE Goal
    BY <1>30 DEF Drop
  <1>31. ASSUME NEW b \in Backups, Retire(c, b) PROVE Goal
    BY <1>31 DEF Retire
  <1>32. ASSUME NEW b \in Backups, ClearFile(c, b) PROVE Goal
    BY <1>32 DEF ClearFile
  <1>33. QED
    BY <1>1, <1>2, <1>3, <1>4, <1>5, <1>6, <1>7, <1>8,
       <1>9, <1>10, <1>11, <1>12, <1>13, <1>14, <1>15, <1>16,
       <1>17, <1>18, <1>19, <1>20, <1>21, <1>22, <1>23, <1>24,
       <1>25, <1>26, <1>27, <1>28, <1>29, <1>30, <1>31, <1>32,
       ZenonT(30) DEF Step
(* A call is asked about a backup of the store it is in, and moves none.   *)
LEMMA AskCall ==
  ASSUME CallInv, NEW c \in Calls, Ask(c)
  PROVE  /\ CallInv'
         /\ pc[c] = "new" /\ pc'[c] \in {"receive", "clear", "locate",
                                        "unlink", "queued"}
         /\ \A d \in Calls \ {c} : pc'[d] = pc[d] /\ request'[d] = request[d]
         /\ \A d \in Calls \ {c} : pc[d] # "new" =>
              home'[About(d)] = home[About(d)]
         /\ \A b \in Backups : home'[b] = home[b] \/ b = c
         /\ UNCHANGED <<temp, todo, archive, meta, born, kills, asked,
                        retired, made>>
  <1>1. PICK r \in Requests :
          /\ IF r.op \in {"verify", "download", "delete"}
               THEN /\ \/ r.backup \in Earlier
                       \/ r.backup \in Calls
                          /\ request[r.backup].op \in {"create", "import"}
                    /\ r.storage = home[r.backup]
               ELSE r.backup = c /\ (r.op # "create" => r.storage = "local")
          /\ request' = [request EXCEPT ![c] = r]
          /\ home' = [home EXCEPT ![r.backup] = r.storage]
          /\ pc' = [pc EXCEPT ![c] = First(r.op, r.storage)]
    BY DEF Ask, Go
  <1>2. /\ pc[c] = "new"
        /\ UNCHANGED <<temp, todo, archive, meta, born, kills, asked, retired,
                       made>>
    BY DEF Ask
  <1>3. /\ r.op \in Operations /\ r.storage \in Stores /\ r.backup \in Backups
        /\ c \in Backups /\ request[c] = NoRequest /\ NoRequest.op = "none"
    BY <1>2 DEF Requests, CallInv, Asked, Backups, NoRequest
  <1>4. r.backup # c => home'[r.backup] = home[r.backup]
    BY <1>1, <1>3 DEF CallInv, Typed
  <1>5. \A b \in Backups : home'[b] = home[b] \/ b = c
    BY <1>1, <1>4 DEF CallInv, Typed
  <1>6. First(r.op, r.storage) \in {"receive", "clear", "locate", "unlink",
                                    "queued"}
    BY <1>3 DEF First
  <1>7. \A d \in Calls \ {c} : pc[d] # "new" =>
          About(d) # c /\ About(d) \in Backups
    BY <1>3, StoreAssumption
    DEF CallInv, Asked, Op, About, Requests
  <1>8. Typed'
    BY <1>1, <1>2, <1>3, <1>6
    DEF CallInv, Typed, Unpermitted, Permitted, Ended, Backups
  <1>9. Lone'
    BY <1>1, <1>6 DEF CallInv, Typed, Lone, Permitted
  <1>10. pc'[c] = First(r.op, r.storage) /\ request'[c] = r
    BY <1>1 DEF CallInv, Typed
  <1>11. Asked(c)'
    <2>1. home'[r.backup] = r.storage
      BY <1>1, <1>3 DEF CallInv, Typed
    <2>2. r.backup \in Calls /\ r.backup # c => request'[r.backup] = request[r.backup]
      BY <1>1 DEF CallInv, Typed
    <2>3. r.op \in {"verify", "download", "delete"} => r.backup # c
      BY <1>1, <1>3, StoreAssumption
    <2>4. QED
      BY <1>1, <1>6, <1>10, <2>1, <2>2, <2>3 DEF Asked, Op, About
  <1>12. Steps(c)'
    BY <1>1, <1>3, <1>10 DEF Steps, Op, Remote, First, Operations, Stores
  <1>13. \A d \in Calls \ {c} : pc'[d] = pc[d] /\ request'[d] = request[d]
    BY <1>1 DEF CallInv, Typed
  <1>14. \A d \in Calls \ {c} : Steps(d)'
    BY <1>13 DEF CallInv, Steps, Op, Remote
  <1>15. ASSUME NEW d \in Calls \ {c} PROVE Asked(d)'
    <2>1. Asked(d) /\ pc'[d] = pc[d] /\ request'[d] = request[d]
      BY <1>13 DEF CallInv
    <2>2. CASE pc[d] = "new"
      BY <1>5, <2>1, <2>2 DEF Asked, Backups
    <2>3. CASE pc[d] # "new"
      <3>1. home'[About(d)] = home[About(d)] /\ About(d) # c
        BY <1>5, <1>7, <2>3
      <3>2. About(d) \in Calls => request'[About(d)] = request[About(d)]
        BY <1>13, <3>1
      <3>3. QED
        BY <2>1, <2>3, <3>1, <3>2 DEF Asked, Op, About
    <2>4. QED
      BY <2>2, <2>3
  <1>16. QED
    BY <1>2, <1>5, <1>6, <1>7, <1>8, <1>9, <1>10, <1>11, <1>12, <1>13, <1>14,
       <1>15
    DEF CallInv

(* A kill ends the calls.                                                  *)
LEMMA KillCall ==
  ASSUME CallInv, Kill
  PROVE  /\ CallInv'
         /\ \A c \in Calls : IF pc[c] \in {"new"} \cup Ended
                               THEN pc'[c] = pc[c] ELSE pc'[c] = "failed"
         /\ UNCHANGED <<request, temp, todo, home, archive, meta, born, asked,
                        retired, made>>
  <1>1. /\ \A c \in Calls : IF pc[c] \in {"new"} \cup Ended
                              THEN pc'[c] = pc[c] ELSE pc'[c] = "failed"
        /\ UNCHANGED <<request, temp, todo, home, archive, meta, born, asked,
                       retired, made>>
    BY DEF Kill
  <1>2. Typed'
    BY StoreAssumption DEF Kill, CallInv, Typed, Ended
  <1>3. Lone' /\ \A c \in Calls : Steps(c)'
    BY <1>1 DEF Lone, Steps, Permitted, Ended
  <1>4. \A c \in Calls : Asked(c)'
    BY <1>1 DEF CallInv, Asked, Op, About, Ended
  <1>5. QED
    BY <1>1, <1>2, <1>3, <1>4 DEF CallInv

(* Every step keeps what is known of the calls.                            *)
LEMMA StepCallInv ==
  ASSUME Permits = 1, CallInv, NEW c \in Calls, Step(c)
  PROVE  CallInv'
  <1>1. /\ Typed' /\ Others(c) /\ Steps(c)'
        /\ pc[c] # "new" /\ pc'[c] # "new"
        /\ \/ pc[c] \in Permitted \/ pc'[c] \notin Permitted
           \/ \A d \in Calls : pc[d] \notin Permitted
    BY StepCall
  <1>2. Lone'
    BY <1>1 DEF CallInv, Lone, Others
  <1>3. \A d \in Calls : Steps(d)'
    BY <1>1 DEF CallInv, Steps, Others, Op, Remote
  <1>4. ASSUME NEW d \in Calls PROVE Asked(d)'
    <2>1. Asked(d) /\ UNCHANGED <<request, home>>
      BY <1>1 DEF CallInv, Others
    <2>2. Others(c) /\ pc[c] # "new" /\ pc'[c] # "new"
      BY <1>1
    <2>3. d # c => pc'[d] = pc[d]
      BY <2>2 DEF Others
    <2>4. QED
      BY <2>1, <2>2, <2>3 DEF Asked, Op, About
  <1>5. QED
    BY <1>1, <1>2, <1>3, <1>4 DEF CallInv
-----------------------------------------------------------------------------
(* The files.                                                              *)

(* No step of a call, whichever of its requests fail or wherever it is     *)
(* dropped, takes from another one what that has found or made.            *)
LEMMA StepFiles ==
  ASSUME CallInv, CallInv', FileInv, OrderInv, NEW c \in Calls, Step(c),
         Others(c)
  PROVE  FileInv'
  <1> USE StoreAssumption
      DEF CallInv, Typed, Asked, Steps, Lone, Others, FileInv,
          RemoteListedIsWhole, BackupKept, MadeInv, PutsAreAtomic, Unpublished, FoundInv,
          ReadInv, LocalInv, Published, Preparing, Restorable, RemoteList,
          OrderInv, NewestInv, Go, Store, Describe,
          files, Permitted, Unpermitted, Ended, Backups, Op, Remote, About, Stores
  <1>1. ASSUME Acquire(c) PROVE FileInv'
    BY <1>1, SMTT(30) DEF Acquire, Started
  <1>2. ASSUME TarBegin(c) PROVE FileInv'
    BY <1>2, SMTT(30) DEF TarBegin
  <1>3. ASSUME TarEnd(c) PROVE FileInv'
    BY <1>3, SMTT(30) DEF TarEnd
  <1>4. ASSUME Encrypt(c) PROVE FileInv'
    BY <1>4, SMTT(30) DEF Encrypt
  <1>5. ASSUME PutArchive(c) PROVE FileInv'
    BY <1>5, SMTT(30) DEF PutArchive
  <1>6. ASSUME PutMetadata(c) PROVE FileInv'
    BY <1>6, SMTT(30) DEF PutMetadata
  <1>7. ASSUME Find(c) PROVE FileInv'
    BY <1>7, SMTT(30) DEF Find, Found
  <1>8. ASSUME Download(c) PROVE FileInv'
    BY <1>8, SMTT(30) DEF Download
  <1>9. ASSUME Decrypt(c) PROVE FileInv'
    BY <1>9, SMTT(30) DEF Decrypt
  <1>10. ASSUME Check(c) PROVE FileInv'
    BY <1>10, SMTT(30) DEF Check
  <1>11. ASSUME Stamp(c) PROVE FileInv'
    BY <1>11, SMTT(30) DEF Stamp, Verified
  <1>12. ASSUME WriteBegin(c) PROVE FileInv'
    BY <1>12, SMTT(30) DEF WriteBegin
  <1>13. ASSUME WriteEnd(c) PROVE FileInv'
    BY <1>13, SMTT(30) DEF WriteEnd
  <1>14. ASSUME ListSurplus(c) PROVE FileInv'
    <2>1. Surplus(c) \subseteq RemoteList
      BY DEF Surplus
    <2>2. QED
      BY <1>14, <2>1 DEF ListSurplus
  <1>15. ASSUME RetireDone(c) PROVE FileInv'
    BY <1>15, SMTT(30) DEF RetireDone
  <1>16. ASSUME Confirm(c) PROVE FileInv'
    BY <1>16, SMTT(30) DEF Confirm, Found
  <1>17. ASSUME Locate(c) PROVE FileInv'
    BY <1>17, SMTT(30) DEF Locate, Found
  <1>18. ASSUME Remove(c) PROVE FileInv'
    BY <1>18, SMTT(30) DEF Remove
  <1>19. ASSUME Unlink(c) PROVE FileInv'
    BY <1>19, SMTT(30) DEF Unlink
  <1>20. ASSUME Forget(c) PROVE FileInv'
    BY <1>20, SMTT(30) DEF Forget
  <1>21. ASSUME ClearDone(c) PROVE FileInv'
    BY <1>21, SMTT(30) DEF ClearDone
  <1>22. ASSUME PackServer(c) PROVE FileInv'
    BY <1>22, SMTT(30) DEF PackServer
  <1>23. ASSUME PackBackups(c) PROVE FileInv'
    BY <1>23, SMTT(30) DEF PackBackups
  <1>24. ASSUME Streamed(c) PROVE FileInv'
    BY <1>24, SMTT(30) DEF Streamed
  <1>25. ASSUME Receive(c) PROVE FileInv'
    BY <1>25, SMTT(30) DEF Receive
  <1>26. ASSUME UnpackBegin(c) PROVE FileInv'
    BY <1>26, SMTT(30) DEF UnpackBegin
  <1>27. ASSUME UnpackEnd(c) PROVE FileInv'
    BY <1>27, SMTT(30) DEF UnpackEnd
  <1>28. ASSUME Unpacked(c) PROVE FileInv'
    BY <1>28, SMTT(30) DEF Unpacked
  <1>29. ASSUME Fail(c) PROVE FileInv'
    BY <1>29, SMTT(30) DEF Fail
  <1>30. ASSUME Drop(c) PROVE FileInv'
    BY <1>30, SMTT(30) DEF Drop
  <1>31. ASSUME NEW b \in Backups, Retire(c, b) PROVE FileInv'
    BY <1>31, SMTT(30) DEF Retire
  <1>32. ASSUME NEW b \in Backups, ClearFile(c, b) PROVE FileInv'
    BY <1>32, SMTT(30) DEF ClearFile
  <1> HIDE DEF CallInv, FileInv, OrderInv, Others
  <1>33. QED
    BY <1>1, <1>2, <1>3, <1>4, <1>5, <1>6, <1>7, <1>8,
       <1>9, <1>10, <1>11, <1>12, <1>13, <1>14, <1>15, <1>16,
       <1>17, <1>18, <1>19, <1>20, <1>21, <1>22, <1>23, <1>24,
       <1>25, <1>26, <1>27, <1>28, <1>29, <1>30, <1>31, <1>32,
       ZenonT(30) DEF Step
-----------------------------------------------------------------------------
(* The order.                                                              *)

(* An archive that gets its created_at is newer than every other one.      *)
LEMMA BornLast ==
  ASSUME CallInv, OrderInv, NEW c \in Calls, born[c] = 0,
         born' = [born EXCEPT ![c] = Now]
  PROVE  /\ \A b \in Backups : born'[b] <= Cardinality(Created')
         /\ \A b \in Backups : born'[b] <= born'[c]
         /\ \A b \in Backups \ {c} : born'[b] = born[b]
  <1>1. /\ IsFiniteSet(Created) /\ Cardinality(Created) \in Nat
        /\ Now = Cardinality(Created) + 1
    BY OrderIsNat
  <1>2. born'[c] = Now /\ \A b \in Backups \ {c} : born'[b] = born[b]
    BY DEF CallInv, Typed, Backups
  <1>3. Created' = Created \cup {c}
    <2>1. c \in Backups /\ born'[c] > 0
      BY <1>1, <1>2 DEF Backups
    <2>2. ASSUME NEW b \in Backups
          PROVE  born'[b] > 0 <=> (born[b] > 0 \/ b = c)
      BY <1>2, <2>1
    <2>3. QED
      BY <2>1, <2>2 DEF Created
  <1>4. Cardinality(Created') = Cardinality(Created) + 1
    <2>1. c \notin Created
      BY DEF Created
    <2>2. QED
      BY <1>1, <1>3, <2>1, FS_AddElement
  <1>5. \A b \in Backups : born[b] \in Nat /\ born[b] <= Cardinality(Created)
    BY DEF CallInv, Typed, OrderInv
  <1>6. QED
    BY <1>1, <1>2, <1>4, <1>5

(* Retention skips the backup that was just made.                          *)
LEMMA NewestSpared ==
  ASSUME CallInv, NEW c \in Calls, \A b \in Backups : born[b] <= born[c],
         request[c].retention \in Nat, request[c].retention # 0
  PROVE  c \notin Surplus(c)
  <1>1. {a \in RemoteList : born[a] > born[c]} = {}
    BY DEF RemoteList, CallInv, Typed, Backups
  <1>2. Cardinality({a \in RemoteList : born[a] > born[c]}) = 0
    BY <1>1, FS_EmptySet
  <1>3. QED
    BY <1>2 DEF Surplus

(* A step of a call leaves the order, or adds its own backup at the end.   *)
LEMMA StepOrder ==
  ASSUME CallInv, CallInv', OrderInv, NEW c \in Calls, Step(c), Others(c)
  PROVE  OrderInv'
  <1>1. /\ born' = born
        /\ \A d \in Calls : NewestInv(d)'
        => OrderInv'
    BY DEF OrderInv, Created
  <1> USE DEF CallInv, Typed, Asked, Steps, Lone, Others, OrderInv, NewestInv,
              Go, files, Permitted, Unpermitted, Ended, Backups, Op, Remote,
              About
  <1>2. ASSUME Acquire(c) PROVE OrderInv'
    <2>1. \A d \in Calls : NewestInv(d)'
      BY <1>2, StoreAssumption DEF Acquire, Started
    <2>2. QED
      BY <1>1, <1>2, <2>1 DEF Acquire
  <1>3. ASSUME TarBegin(c) PROVE OrderInv'
    <2>1. \A d \in Calls : NewestInv(d)'
      BY <1>3, StoreAssumption DEF TarBegin
    <2>2. QED
      BY <1>1, <1>3, <2>1 DEF TarBegin
  <1>4. ASSUME TarEnd(c) PROVE OrderInv'
    <2>1. born[c] = 0 /\ born' = [born EXCEPT ![c] = Now]
      BY <1>4 DEF TarEnd
    <2>2. /\ \A b \in Backups : born'[b] <= Cardinality(Created')
          /\ \A b \in Backups : born'[b] <= born'[c]
          /\ \A b \in Backups \ {c} : born'[b] = born[b]
      BY <2>1, BornLast
    <2>3. \A d \in Calls : NewestInv(d)'
      BY <1>4, <2>2, StoreAssumption DEF TarEnd
    <2>4. QED
      BY <2>2, <2>3
  <1>5. ASSUME Encrypt(c) PROVE OrderInv'
    <2>1. \A d \in Calls : NewestInv(d)'
      BY <1>5, StoreAssumption DEF Encrypt
    <2>2. QED
      BY <1>1, <1>5, <2>1 DEF Encrypt
  <1>6. ASSUME PutArchive(c) PROVE OrderInv'
    <2>1. \A d \in Calls : NewestInv(d)'
      BY <1>6, StoreAssumption DEF PutArchive
    <2>2. QED
      BY <1>1, <1>6, <2>1 DEF PutArchive
  <1>7. ASSUME PutMetadata(c) PROVE OrderInv'
    <2>1. \A d \in Calls : NewestInv(d)'
      BY <1>7, StoreAssumption DEF PutMetadata
    <2>2. QED
      BY <1>1, <1>7, <2>1 DEF PutMetadata
  <1>8. ASSUME Find(c) PROVE OrderInv'
    <2>1. \A d \in Calls : NewestInv(d)'
      BY <1>8, StoreAssumption DEF Find
    <2>2. QED
      BY <1>1, <1>8, <2>1 DEF Find
  <1>9. ASSUME Download(c) PROVE OrderInv'
    <2>1. \A d \in Calls : NewestInv(d)'
      BY <1>9, StoreAssumption DEF Download
    <2>2. QED
      BY <1>1, <1>9, <2>1 DEF Download
  <1>10. ASSUME Decrypt(c) PROVE OrderInv'
    <2>1. \A d \in Calls : NewestInv(d)'
      BY <1>10, StoreAssumption DEF Decrypt
    <2>2. QED
      BY <1>1, <1>10, <2>1 DEF Decrypt
  <1>11. ASSUME Check(c) PROVE OrderInv'
    <2>1. \A d \in Calls : NewestInv(d)'
      BY <1>11, StoreAssumption DEF Check
    <2>2. QED
      BY <1>1, <1>11, <2>1 DEF Check
  <1>12. ASSUME Stamp(c) PROVE OrderInv'
    <2>1. \A d \in Calls : NewestInv(d)'
      BY <1>12, StoreAssumption DEF Stamp, Verified
    <2>2. QED
      BY <1>1, <1>12, <2>1 DEF Stamp
  <1>13. ASSUME WriteBegin(c) PROVE OrderInv'
    <2>1. \A d \in Calls : NewestInv(d)'
      BY <1>13, StoreAssumption DEF WriteBegin
    <2>2. QED
      BY <1>1, <1>13, <2>1 DEF WriteBegin
  <1>14. ASSUME WriteEnd(c) PROVE OrderInv'
    <2>1. \A d \in Calls : NewestInv(d)'
      BY <1>14, StoreAssumption DEF WriteEnd
    <2>2. QED
      BY <1>1, <1>14, <2>1 DEF WriteEnd
  <1>15. ASSUME ListSurplus(c) PROVE OrderInv'
    <2>1. request[c].retention \in Nat
      BY <1>15, StoreAssumption DEF ListSurplus, Requests
    <2>2. request[c].retention # 0 => c \notin Surplus(c)
      BY <1>15, <2>1, NewestSpared DEF ListSurplus
    <2>3. \A d \in Calls : NewestInv(d)'
      BY <1>15, <2>2, StoreAssumption DEF ListSurplus
    <2>4. QED
      BY <1>1, <1>15, <2>3 DEF ListSurplus
  <1>16. ASSUME RetireDone(c) PROVE OrderInv'
    <2>1. \A d \in Calls : NewestInv(d)'
      BY <1>16, StoreAssumption DEF RetireDone
    <2>2. QED
      BY <1>1, <1>16, <2>1 DEF RetireDone
  <1>17. ASSUME Confirm(c) PROVE OrderInv'
    <2>1. \A d \in Calls : NewestInv(d)'
      BY <1>17, StoreAssumption DEF Confirm
    <2>2. QED
      BY <1>1, <1>17, <2>1 DEF Confirm
  <1>18. ASSUME Locate(c) PROVE OrderInv'
    <2>1. \A d \in Calls : NewestInv(d)'
      BY <1>18, StoreAssumption DEF Locate
    <2>2. QED
      BY <1>1, <1>18, <2>1 DEF Locate
  <1>19. ASSUME Remove(c) PROVE OrderInv'
    <2>1. \A d \in Calls : NewestInv(d)'
      BY <1>19, StoreAssumption DEF Remove
    <2>2. QED
      BY <1>1, <1>19, <2>1 DEF Remove
  <1>20. ASSUME Unlink(c) PROVE OrderInv'
    <2>1. \A d \in Calls : NewestInv(d)'
      BY <1>20, StoreAssumption DEF Unlink
    <2>2. QED
      BY <1>1, <1>20, <2>1 DEF Unlink
  <1>21. ASSUME Forget(c) PROVE OrderInv'
    <2>1. \A d \in Calls : NewestInv(d)'
      BY <1>21, StoreAssumption DEF Forget
    <2>2. QED
      BY <1>1, <1>21, <2>1 DEF Forget
  <1>22. ASSUME ClearDone(c) PROVE OrderInv'
    <2>1. \A d \in Calls : NewestInv(d)'
      BY <1>22, StoreAssumption DEF ClearDone
    <2>2. QED
      BY <1>1, <1>22, <2>1 DEF ClearDone
  <1>23. ASSUME PackServer(c) PROVE OrderInv'
    <2>1. \A d \in Calls : NewestInv(d)'
      BY <1>23, StoreAssumption DEF PackServer
    <2>2. QED
      BY <1>1, <1>23, <2>1 DEF PackServer
  <1>24. ASSUME PackBackups(c) PROVE OrderInv'
    <2>1. \A d \in Calls : NewestInv(d)'
      BY <1>24, StoreAssumption DEF PackBackups
    <2>2. QED
      BY <1>1, <1>24, <2>1 DEF PackBackups
  <1>25. ASSUME Streamed(c) PROVE OrderInv'
    <2>1. \A d \in Calls : NewestInv(d)'
      BY <1>25, StoreAssumption DEF Streamed
    <2>2. QED
      BY <1>1, <1>25, <2>1 DEF Streamed
  <1>26. ASSUME Receive(c) PROVE OrderInv'
    <2>1. \A d \in Calls : NewestInv(d)'
      BY <1>26, StoreAssumption DEF Receive
    <2>2. QED
      BY <1>1, <1>26, <2>1 DEF Receive
  <1>27. ASSUME UnpackBegin(c) PROVE OrderInv'
    <2>1. \A d \in Calls : NewestInv(d)'
      BY <1>27, StoreAssumption DEF UnpackBegin
    <2>2. QED
      BY <1>1, <1>27, <2>1 DEF UnpackBegin
  <1>28. ASSUME UnpackEnd(c) PROVE OrderInv'
    <2>1. \A d \in Calls : NewestInv(d)'
      BY <1>28, StoreAssumption DEF UnpackEnd
    <2>2. QED
      BY <1>1, <1>28, <2>1 DEF UnpackEnd
  <1>29. ASSUME Unpacked(c) PROVE OrderInv'
    <2>1. born[c] = 0 /\ born' = [born EXCEPT ![c] = Now]
      BY <1>29 DEF Unpacked
    <2>2. /\ \A b \in Backups : born'[b] <= Cardinality(Created')
          /\ \A b \in Backups : born'[b] <= born'[c]
          /\ \A b \in Backups \ {c} : born'[b] = born[b]
      BY <2>1, BornLast
    <2>3. \A d \in Calls : NewestInv(d)'
      BY <1>29, <2>2, StoreAssumption DEF Unpacked
    <2>4. QED
      BY <2>2, <2>3
  <1>30. ASSUME Fail(c) PROVE OrderInv'
    <2>1. \A d \in Calls : NewestInv(d)'
      BY <1>30, StoreAssumption DEF Fail
    <2>2. QED
      BY <1>1, <1>30, <2>1 DEF Fail
  <1>31. ASSUME Drop(c) PROVE OrderInv'
    <2>1. \A d \in Calls : NewestInv(d)'
      BY <1>31, StoreAssumption DEF Drop
    <2>2. QED
      BY <1>1, <1>31, <2>1 DEF Drop
  <1>32. ASSUME NEW b \in Backups, Retire(c, b) PROVE OrderInv'
    <2>1. \A d \in Calls : NewestInv(d)'
      BY <1>32, StoreAssumption DEF Retire
    <2>2. QED
      BY <1>1, <1>32, <2>1 DEF Retire
  <1>33. ASSUME NEW b \in Backups, ClearFile(c, b) PROVE OrderInv'
    <2>1. \A d \in Calls : NewestInv(d)'
      BY <1>33, StoreAssumption DEF ClearFile
    <2>2. QED
      BY <1>1, <1>33, <2>1 DEF ClearFile
  <1>34. QED
    BY <1>2, <1>3, <1>4, <1>5, <1>6, <1>7, <1>8, <1>9,
       <1>10, <1>11, <1>12, <1>13, <1>14, <1>15, <1>16, <1>17,
       <1>18, <1>19, <1>20, <1>21, <1>22, <1>23, <1>24, <1>25,
       <1>26, <1>27, <1>28, <1>29, <1>30, <1>31, <1>32, <1>33 DEF Step
-----------------------------------------------------------------------------
(* The invariant.                                                          *)

(* Initially there are only the earlier backups, whole and in order.       *)
LEMMA InitIInv == Init => IInv
  <1> SUFFICES ASSUME Init PROVE IInv
    OBVIOUS
  <1> USE StoreAssumption
  <1>1. CallInv
    BY DEF Init, CallInv, Typed, Lone, Asked, Steps, Permitted, Backups,
           Stores
  <1>2. FileInv
    BY DEF Init, FileInv, RemoteListedIsWhole, RemoteList, BackupKept, MadeInv, PutsAreAtomic,
           Unpublished, FoundInv, ReadInv, LocalInv, Backups
  <1>3. OrderInv
    <2>1. Created = Earlier
      BY FS_CardinalityType DEF Init, Created, Backups
    <2>2. \A b \in Backups : born[b] \in 0 .. Cardinality(Earlier)
      BY DEF Init
    <2>3. Cardinality(Earlier) \in Nat
      BY FS_CardinalityType
    <2>4. \A c \in Calls : NewestInv(c)
      BY DEF Init, NewestInv
    <2>5. QED
      BY <2>1, <2>2, <2>3, <2>4 DEF OrderInv
  <1>4. QED
    BY <1>1, <1>2, <1>3 DEF IInv

(* Asking for a backup touches none.                                       *)
LEMMA AskKeeps ==
  ASSUME IInv, NEW c \in Calls, Ask(c)
  PROVE  IInv'
  <1>1. /\ CallInv'
        /\ pc[c] = "new" /\ pc'[c] \in {"receive", "clear", "locate",
                                       "unlink", "queued"}
        /\ \A d \in Calls \ {c} : pc'[d] = pc[d] /\ request'[d] = request[d]
        /\ \A d \in Calls \ {c} : pc[d] # "new" =>
             home'[About(d)] = home[About(d)]
        /\ \A b \in Backups : home'[b] = home[b] \/ b = c
        /\ UNCHANGED <<temp, todo, archive, meta, born, kills, asked, retired,
                       made>>
    BY AskCall DEF IInv
  <1>2. FileInv'
    <2>1. meta[c] = "none" /\ c \notin made
      BY <1>1 DEF IInv, FileInv, MadeInv, Unpublished, Preparing
    <2>2. (RemoteListedIsWhole /\ BackupKept /\ MadeInv /\ PutsAreAtomic)'
      BY <1>1, <2>1
      DEF IInv, FileInv, RemoteListedIsWhole, BackupKept, MadeInv, PutsAreAtomic,
        RemoteList,
          CallInv, Typed
    <2>3. ASSUME NEW d \in Calls
          PROVE  (Unpublished(d) /\ FoundInv(d) /\ ReadInv(d) /\ LocalInv(d))'
      BY <1>1, <2>1, <2>3
      DEF IInv, FileInv, Unpublished, FoundInv, ReadInv, LocalInv, Published,
          Preparing, Restorable, About, Op, Remote
    <2>4. QED
      BY <2>2, <2>3 DEF FileInv
  <1>3. OrderInv'
    BY <1>1 DEF IInv, OrderInv, NewestInv, Created, Op, Remote
  <1>4. QED
    BY <1>1, <1>2, <1>3 DEF IInv

(* A kill leaves the files as they are.                                    *)
LEMMA KillKeeps ==
  ASSUME IInv, Kill
  PROVE  IInv'
  <1>1. /\ CallInv'
        /\ \A c \in Calls : IF pc[c] \in {"new"} \cup Ended
                              THEN pc'[c] = pc[c] ELSE pc'[c] = "failed"
        /\ UNCHANGED <<request, temp, todo, home, archive, meta, born, asked,
                       retired, made>>
    BY KillCall DEF IInv
  <1>2. FileInv'
    BY <1>1
    DEF IInv, FileInv, RemoteListedIsWhole, BackupKept, MadeInv, PutsAreAtomic,
        RemoteList,
        Unpublished, FoundInv, ReadInv, LocalInv, Preparing, Ended
  <1>3. OrderInv'
    BY <1>1 DEF IInv, OrderInv, NewestInv, Created, Ended
  <1>4. QED
    BY <1>1, <1>2, <1>3 DEF IInv

(* The invariant is inductive with one permit.                             *)
LEMMA NextIInv ==
  ASSUME Permits = 1
  PROVE  IInv /\ [Next]_vars => IInv'
  <1> SUFFICES ASSUME IInv, [Next]_vars PROVE IInv'
    OBVIOUS
  <1>1. ASSUME NEW c \in Calls, Ask(c) PROVE IInv'
    BY <1>1, AskKeeps
  <1>2. ASSUME NEW c \in Calls, Step(c) PROVE IInv'
    <2>1. Others(c)
      BY <1>2, StepCall, Permits = 1 DEF IInv
    <2>2. CallInv'
      BY <1>2, StepCallInv, Permits = 1 DEF IInv
    <2>3. FileInv' /\ OrderInv'
      BY <1>2, <2>1, <2>2, StepFiles, StepOrder DEF IInv
    <2>4. QED
      BY <2>2, <2>3 DEF IInv
  <1>3. CASE Kill
    BY <1>3, KillKeeps
  <1>4. CASE UNCHANGED vars
    BY <1>4
    DEF vars, files, IInv, CallInv, Typed, Lone, Asked, Steps, FileInv,
        RemoteListedIsWhole, BackupKept, MadeInv, PutsAreAtomic,
        RemoteList, Unpublished,
        FoundInv, ReadInv, LocalInv, Published, Restorable, OrderInv,
        NewestInv, Created, Op, Remote, About
  <1>5. QED
    BY <1>1, <1>2, <1>3, <1>4 DEF Next

(* With one permit, whatever the calls ask for and wherever they end.      *)
LEMMA Invariance ==
  ASSUME Permits = 1
  PROVE  Spec => []IInv
  <1>1. IInv /\ [Next]_vars => IInv'
    BY NextIInv, Permits = 1
  <1>2. QED
    BY <1>1, InitIInv, PTL DEF Spec

-----------------------------------------------------------------------------
(* Retention.                                                              *)

(* Archives have different created_at, and a backup that S3 may list, or   *)
(* lists again, has one.                                                   *)
Distinct == \A a, b \in Backups : born[a] = born[b] /\ born[a] > 0 => a = b
Dated == \A b \in Backups : home[b] = "s3" /\ meta[b] # "none" => born[b] > 0
DatedFor(c) ==
    /\ pc[c] \in {"encrypt", "upload", "put"} => born[c] > 0
    /\ pc[c] \in {"download", "decrypt", "check", "write"} /\ Remote(c)
         => born[About(c)] > 0
DatesInv == Distinct /\ Dated /\ \A c \in Calls : DatedFor(c)

(* What a retention has yet to delete leaves at most retention_count of    *)
(* the listing, and each of it is older than so many that stay.            *)
Remaining(c) == RemoteList \ todo[c]
Spared(c, b) ==
    {a \in Backups \ todo[c] : /\ home[a] = "s3" /\ born[a] > born[b]
                               /\ Restorable(a) \/ a \in asked}
RetireInv(c) ==
    pc[c] = "retire" =>
      /\ Cardinality(Remaining(c)) <= request[c].retention
      /\ \A b \in todo[c] :
           b \in Backups /\ Cardinality(Spared(c, b)) >= request[c].retention

(* A set of numbers has a least one.                                       *)
LEMMA LeastNumber ==
  ASSUME NEW S \in SUBSET Nat, S # {}
  PROVE  \E m \in S : \A k \in S : m <= k
  <1>1. PICK m \in S : \A k \in S : <<k, m>> \notin OpToRel(<, Nat)
    BY WFMin, NatLessThanWellFounded, Zenon
  <1>2. ASSUME NEW k \in S PROVE ~ (k < m)
    <2>1. <<k, m>> \in Nat \X Nat /\ <<k, m>> \notin OpToRel(<, Nat)
      BY <1>1, Zenon
    <2>2. QED
      BY <2>1, Zenon DEF OpToRel
  <1>3. \A k \in S : m \in Nat /\ k \in Nat
    OBVIOUS
  <1> HIDE DEF OpToRel
  <1>4. QED
    BY <1>2, <1>3

LEMMA BackupsAreFinite ==
  /\ IsFiniteSet(Backups)
  /\ \A S \in SUBSET Backups : IsFiniteSet(S) /\ Cardinality(S) \in Nat
  <1>1. IsFiniteSet(Backups)
    BY StoreAssumption, FS_Union, Zenon DEF Backups
  <1>2. QED
    BY <1>1, FS_Subset, FS_CardinalityType

(* What follows the newest retention_count of the listing leaves no more   *)
(* than these, all of them newer, and there are so many if it is anything. *)
LEMMA SurplusSplits ==
  ASSUME CallInv, DatesInv, NEW c \in Calls, request[c].retention \in Nat
  PROVE  /\ Cardinality(RemoteList \ Surplus(c)) <= request[c].retention
         /\ \A b \in Surplus(c) :
              Cardinality({a \in RemoteList \ Surplus(c) : born[a] > born[b]})
                >= request[c].retention
  <1> DEFINE L == RemoteList
             R == request[c].retention
             N(b) == {a \in L : born[a] > born[b]}
             K == L \ Surplus(c)
  <1>1. L \subseteq Backups /\ \A b \in L : born[b] \in Nat /\ born[b] > 0
    BY DEF RemoteList, CallInv, Typed, DatesInv, Dated
  <1>2. \A a, b \in L : born[a] = born[b] => a = b
    BY <1>1 DEF DatesInv, Distinct
  <1>3. \A S \in SUBSET L : IsFiniteSet(S) /\ Cardinality(S) \in Nat
    BY <1>1, BackupsAreFinite
  <1>4. /\ Surplus(c) \subseteq L
        /\ \A b \in L : b \in Surplus(c) <=> Cardinality(N(b)) >= R
    BY DEF Surplus
  <1> HIDE DEF L
  <1>5. \A b \in L : N(b) \in SUBSET L /\ Cardinality(N(b)) \in Nat
    BY <1>3
  <1>6. ASSUME NEW a \in L, NEW b \in L, born[a] > born[b]
        PROVE  Cardinality(N(a)) < Cardinality(N(b))
    <2>1. N(a) \in SUBSET N(b) /\ N(a) # N(b)
      <3>1. N(a) \subseteq N(b)
        BY <1>1, <1>6
      <3>2. a \in N(b) /\ a \notin N(a)
        BY <1>1, <1>6
      <3>3. QED
        BY <3>1, <3>2
    <2>2. IsFiniteSet(N(b))
      BY <1>3, <1>5
    <2> HIDE DEF N
    <2>3. /\ Cardinality(N(a)) <= Cardinality(N(b))
          /\ Cardinality(N(a)) # Cardinality(N(b))
      BY <2>1, <2>2, FS_Subset
    <2>4. QED
      BY <1>5, <2>3
  <1> HIDE DEF N
  <1>7. Cardinality(K) <= R
    <2> DEFINE f == [b \in K |-> Cardinality(N(b))]
    <2>1. f \in [K -> 0 .. R - 1]
      BY <1>4, <1>5
    <2>2. \A a, b \in K : f[a] = f[b] => a = b
      <3>1. SUFFICES ASSUME NEW a \in K, NEW b \in K, a # b
                     PROVE  Cardinality(N(a)) # Cardinality(N(b))
        OBVIOUS
      <3>2. born[a] > born[b] \/ born[b] > born[a]
        BY <1>1, <1>2, <3>1
      <3>3. QED
        BY <1>5, <1>6, <3>2
    <2> HIDE DEF f
    <2>3. f \in Injection(K, 0 .. R - 1)
      BY <2>1, <2>2 DEF Injection, IsInjective
    <2>4. IsFiniteSet(0 .. R - 1) /\ Cardinality(0 .. R - 1) = R
      <3>1. 0 \in Int /\ R - 1 \in Int
        OBVIOUS
      <3>2. /\ IsFiniteSet(0 .. R - 1)
            /\ Cardinality(0 .. R - 1) = IF 0 > R - 1 THEN 0 ELSE R - 1 - 0 + 1
        BY <3>1, FS_Interval, Zenon
      <3>3. QED
        BY <3>2
    <2>5. QED
      BY <2>3, <2>4, FS_Injection
  <1>8. ASSUME NEW b \in Surplus(c)
        PROVE  Cardinality({a \in K : born[a] > born[b]}) >= R
    <2>1. ASSUME NEW a \in K PROVE born[a] > born[b]
      <3>1. a \in L /\ b \in L /\ Cardinality(N(a)) < Cardinality(N(b))
        BY <1>4, <1>5
      <3>2. ~ (born[b] > born[a]) /\ born[a] # born[b]
        BY <1>2, <1>5, <1>6, <3>1
      <3>3. QED
        BY <1>1, <3>1, <3>2
    <2>2. {a \in K : born[a] > born[b]} = K
      BY <2>1
    <2> DEFINE T == {Cardinality(N(x)) : x \in Surplus(c)}
    <2>3. T \in SUBSET Nat /\ T # {}
      BY <1>4, <1>5
    <2>4. PICK m \in T : \A k \in T : m <= k
      BY <2>3, LeastNumber
    <2>5. PICK x \in Surplus(c) : Cardinality(N(x)) = m
      BY <2>4
    <2>6. N(x) \subseteq K
      <3>1. SUFFICES ASSUME NEW y \in N(x), y \in Surplus(c) PROVE FALSE
        BY <1>4, <1>5
      <3>2. y \in L /\ x \in L /\ born[y] > born[x]
        BY <1>4 DEF N
      <3>3. Cardinality(N(y)) < Cardinality(N(x))
        BY <1>6, <3>2
      <3>4. Cardinality(N(y)) \in T
        BY <3>1
      <3>5. QED
        BY <1>5, <2>4, <2>5, <3>2, <3>3, <3>4
    <2>7. Cardinality(N(x)) <= Cardinality(K)
      <3>1. IsFiniteSet(K)
        BY <1>3
      <3>2. QED
        BY <2>6, <3>1, FS_Subset
    <2>8. R <= Cardinality(N(x)) /\ Cardinality(N(x)) \in Nat
      BY <1>4, <1>5
    <2>9. Cardinality(K) \in Nat
      BY <1>3
    <2>10. QED
      BY <2>2, <2>7, <2>8, <2>9
  <1>9. QED
    BY <1>7, <1>8 DEF L

(* The archive that gets its created_at gets one of its own.               *)
LEMMA BornDistinct ==
  ASSUME CallInv, OrderInv, Distinct, NEW c \in Calls, born[c] = 0,
         born' = [born EXCEPT ![c] = Now]
  PROVE  /\ Distinct' /\ born'[c] > 0
         /\ \A b \in Backups : born[b] > 0 => born'[b] > 0
  <1>1. Cardinality(Created) \in Nat /\ Now = Cardinality(Created) + 1
    BY OrderIsNat
  <1>2. \A b \in Backups : born[b] \in Nat /\ born[b] <= Cardinality(Created)
    BY DEF CallInv, Typed, OrderInv
  <1>3. /\ c \in Backups /\ born'[c] = Now
        /\ \A b \in Backups \ {c} : born'[b] = born[b]
    BY DEF CallInv, Typed, Backups
  <1>4. \A b \in Backups \ {c} : born'[b] # born'[c]
    BY <1>1, <1>2, <1>3
  <1>5. QED
    BY <1>1, <1>2, <1>3, <1>4 DEF Distinct

(* A step gives an archive its date before it describes it in S3, and      *)
(* takes none away.                                                        *)
LEMMA StepDates ==
  ASSUME CallInv, CallInv', OrderInv, DatesInv, NEW c \in Calls, Step(c),
         Others(c)
  PROVE  DatesInv'
  <1> USE StoreAssumption
      DEF CallInv, Typed, Asked, Steps, Others, DatesInv, Dated, DatedFor,
          Go, Store, Describe, files, Permitted, Unpermitted, Ended, Backups,
          Op, Remote, About, Stores
  <1>0. born' = born => Distinct'
    BY DEF Distinct
  <1>1. ASSUME Acquire(c) PROVE DatesInv'
    BY <1>0, <1>1 DEF Acquire, Started
  <1>2. ASSUME TarBegin(c) PROVE DatesInv'
    BY <1>0, <1>2 DEF TarBegin
  <1>3. ASSUME TarEnd(c) PROVE DatesInv'
    <2>1. born[c] = 0 /\ born' = [born EXCEPT ![c] = Now]
      BY <1>0, <1>3 DEF TarEnd, OrderInv, NewestInv
    <2>2. /\ Distinct' /\ born'[c] > 0
          /\ \A x \in Backups : born[x] > 0 => born'[x] > 0
      BY <2>1, BornDistinct
    <2>3. /\ Dated' /\ \A d \in Calls : DatedFor(d)'
      BY <1>3, <2>2 DEF TarEnd
    <2>4. QED
      BY <2>2, <2>3
  <1>4. ASSUME Encrypt(c) PROVE DatesInv'
    BY <1>0, <1>4 DEF Encrypt
  <1>5. ASSUME PutArchive(c) PROVE DatesInv'
    BY <1>0, <1>5 DEF PutArchive
  <1>6. ASSUME PutMetadata(c) PROVE DatesInv'
    BY <1>0, <1>6 DEF PutMetadata
  <1>7. ASSUME Find(c) PROVE DatesInv'
    BY <1>0, <1>7 DEF Find, Found
  <1>8. ASSUME Download(c) PROVE DatesInv'
    BY <1>0, <1>8 DEF Download
  <1>9. ASSUME Decrypt(c) PROVE DatesInv'
    BY <1>0, <1>9 DEF Decrypt
  <1>10. ASSUME Check(c) PROVE DatesInv'
    BY <1>0, <1>10 DEF Check
  <1>11. ASSUME Stamp(c) PROVE DatesInv'
    BY <1>0, <1>11 DEF Stamp, Verified
  <1>12. ASSUME WriteBegin(c) PROVE DatesInv'
    BY <1>0, <1>12 DEF WriteBegin
  <1>13. ASSUME WriteEnd(c) PROVE DatesInv'
    BY <1>0, <1>13 DEF WriteEnd
  <1>14. ASSUME ListSurplus(c) PROVE DatesInv'
    BY <1>0, <1>14 DEF ListSurplus
  <1>15. ASSUME RetireDone(c) PROVE DatesInv'
    BY <1>0, <1>15 DEF RetireDone
  <1>16. ASSUME Confirm(c) PROVE DatesInv'
    BY <1>0, <1>16 DEF Confirm, Found
  <1>17. ASSUME Locate(c) PROVE DatesInv'
    BY <1>0, <1>17 DEF Locate, Found
  <1>18. ASSUME Remove(c) PROVE DatesInv'
    BY <1>0, <1>18 DEF Remove
  <1>19. ASSUME Unlink(c) PROVE DatesInv'
    BY <1>0, <1>19 DEF Unlink
  <1>20. ASSUME Forget(c) PROVE DatesInv'
    BY <1>0, <1>20 DEF Forget
  <1>21. ASSUME ClearDone(c) PROVE DatesInv'
    BY <1>0, <1>21 DEF ClearDone
  <1>22. ASSUME PackServer(c) PROVE DatesInv'
    BY <1>0, <1>22 DEF PackServer
  <1>23. ASSUME PackBackups(c) PROVE DatesInv'
    BY <1>0, <1>23 DEF PackBackups
  <1>24. ASSUME Streamed(c) PROVE DatesInv'
    BY <1>0, <1>24 DEF Streamed
  <1>25. ASSUME Receive(c) PROVE DatesInv'
    BY <1>0, <1>25 DEF Receive
  <1>26. ASSUME UnpackBegin(c) PROVE DatesInv'
    BY <1>0, <1>26 DEF UnpackBegin
  <1>27. ASSUME UnpackEnd(c) PROVE DatesInv'
    BY <1>0, <1>27 DEF UnpackEnd
  <1>28. ASSUME Unpacked(c) PROVE DatesInv'
    <2>1. born[c] = 0 /\ born' = [born EXCEPT ![c] = Now]
      BY <1>0, <1>28 DEF Unpacked, OrderInv, NewestInv
    <2>2. /\ Distinct' /\ born'[c] > 0
          /\ \A x \in Backups : born[x] > 0 => born'[x] > 0
      BY <2>1, BornDistinct
    <2>3. /\ Dated' /\ \A d \in Calls : DatedFor(d)'
      BY <1>28, <2>2 DEF Unpacked
    <2>4. QED
      BY <2>2, <2>3
  <1>29. ASSUME Fail(c) PROVE DatesInv'
    BY <1>0, <1>29 DEF Fail
  <1>30. ASSUME Drop(c) PROVE DatesInv'
    BY <1>0, <1>30 DEF Drop
  <1>31. ASSUME NEW b \in Backups, Retire(c, b) PROVE DatesInv'
    BY <1>0, <1>31 DEF Retire
  <1>32. ASSUME NEW b \in Backups, ClearFile(c, b) PROVE DatesInv'
    BY <1>0, <1>32 DEF ClearFile
  <1>33. QED
    BY <1>1, <1>2, <1>3, <1>4, <1>5, <1>6, <1>7, <1>8,
       <1>9, <1>10, <1>11, <1>12, <1>13, <1>14, <1>15, <1>16,
       <1>17, <1>18, <1>19, <1>20, <1>21, <1>22, <1>23, <1>24,
       <1>25, <1>26, <1>27, <1>28, <1>29, <1>30, <1>31, <1>32 DEF Step
(* What a step leaves of the listing: it adds nothing to it, dates         *)
(* nothing, and what is whole or was deleted by the panel stays so.        *)
Spares ==
    /\ born' = born /\ retired' = retired /\ RemoteList' \subseteq RemoteList
    /\ \A b \in Backups : home[b] = "s3" /\ (Restorable(b) \/ b \in asked)
         => home'[b] = "s3" /\ (Restorable(b)' \/ b \in asked')

(* Calls without the permit only ever take from the listing what the panel *)
(* asked them to delete.                                                   *)
LEMMA OthersSpare ==
  ASSUME CallInv, NEW c \in Calls, Step(c), Others(c), pc[c] \notin Permitted
  PROVE  Spares
  <1> USE StoreAssumption
      DEF CallInv, Typed, Asked, Steps, Others, Spares, RemoteList, Restorable,
          Go, Store, Describe, files, Permitted, Unpermitted, Ended, Backups,
          Op, Remote, About, Stores
  <1>1. ASSUME Acquire(c) PROVE Spares
    BY <1>1 DEF Acquire, Started
  <1>2. ASSUME TarBegin(c) PROVE Spares
    BY <1>2 DEF TarBegin
  <1>3. ASSUME TarEnd(c) PROVE Spares
    BY <1>3 DEF TarEnd
  <1>4. ASSUME Encrypt(c) PROVE Spares
    BY <1>4 DEF Encrypt
  <1>5. ASSUME PutArchive(c) PROVE Spares
    BY <1>5 DEF PutArchive
  <1>6. ASSUME PutMetadata(c) PROVE Spares
    BY <1>6 DEF PutMetadata
  <1>7. ASSUME Find(c) PROVE Spares
    BY <1>7 DEF Find, Found
  <1>8. ASSUME Download(c) PROVE Spares
    BY <1>8 DEF Download
  <1>9. ASSUME Decrypt(c) PROVE Spares
    BY <1>9 DEF Decrypt
  <1>10. ASSUME Check(c) PROVE Spares
    BY <1>10 DEF Check
  <1>11. ASSUME Stamp(c) PROVE Spares
    BY <1>11 DEF Stamp, Verified
  <1>12. ASSUME WriteBegin(c) PROVE Spares
    BY <1>12 DEF WriteBegin
  <1>13. ASSUME WriteEnd(c) PROVE Spares
    BY <1>13 DEF WriteEnd
  <1>14. ASSUME ListSurplus(c) PROVE Spares
    BY <1>14 DEF ListSurplus
  <1>15. ASSUME RetireDone(c) PROVE Spares
    BY <1>15 DEF RetireDone
  <1>16. ASSUME Confirm(c) PROVE Spares
    BY <1>16 DEF Confirm, Found
  <1>17. ASSUME Locate(c) PROVE Spares
    BY <1>17 DEF Locate, Found
  <1>18. ASSUME Remove(c) PROVE Spares
    BY <1>18 DEF Remove
  <1>19. ASSUME Unlink(c) PROVE Spares
    BY <1>19 DEF Unlink
  <1>20. ASSUME Forget(c) PROVE Spares
    BY <1>20 DEF Forget
  <1>21. ASSUME ClearDone(c) PROVE Spares
    BY <1>21 DEF ClearDone
  <1>22. ASSUME PackServer(c) PROVE Spares
    BY <1>22 DEF PackServer
  <1>23. ASSUME PackBackups(c) PROVE Spares
    BY <1>23 DEF PackBackups
  <1>24. ASSUME Streamed(c) PROVE Spares
    BY <1>24 DEF Streamed
  <1>25. ASSUME Receive(c) PROVE Spares
    BY <1>25 DEF Receive
  <1>26. ASSUME UnpackBegin(c) PROVE Spares
    BY <1>26 DEF UnpackBegin
  <1>27. ASSUME UnpackEnd(c) PROVE Spares
    BY <1>27 DEF UnpackEnd
  <1>28. ASSUME Unpacked(c) PROVE Spares
    BY <1>28 DEF Unpacked
  <1>29. ASSUME Fail(c) PROVE Spares
    BY <1>29 DEF Fail
  <1>30. ASSUME Drop(c) PROVE Spares
    BY <1>30 DEF Drop
  <1>31. ASSUME NEW b \in Backups, Retire(c, b) PROVE Spares
    BY <1>31 DEF Retire
  <1>32. ASSUME NEW b \in Backups, ClearFile(c, b) PROVE Spares
    BY <1>32 DEF ClearFile
  <1>33. QED
    BY <1>1, <1>2, <1>3, <1>4, <1>5, <1>6, <1>7, <1>8,
       <1>9, <1>10, <1>11, <1>12, <1>13, <1>14, <1>15, <1>16,
       <1>17, <1>18, <1>19, <1>20, <1>21, <1>22, <1>23, <1>24,
       <1>25, <1>26, <1>27, <1>28, <1>29, <1>30, <1>31, <1>32 DEF Step

(* Such a step leaves a retention as it was.                               *)
LEMMA SparedRetention ==
  ASSUME CallInv, CallInv', Spares, NEW c \in Calls, RetireInv(c),
         todo'[c] = todo[c], pc'[c] = "retire" => pc[c] = "retire",
         pc[c] = "retire" => request'[c] = request[c]
  PROVE  RetireInv(c)'
  <1>1. SUFFICES ASSUME pc'[c] = "retire" PROVE RetireInv(c)'
    BY DEF RetireInv
  <1>2. /\ Cardinality(Remaining(c)) <= request[c].retention
        /\ \A b \in todo[c] : b \in Backups
              /\ Cardinality(Spared(c, b)) >= request[c].retention
        /\ request'[c] = request[c] /\ pc[c] = "retire"
    BY <1>1 DEF RetireInv
  <1>3. request[c].retention \in Nat
    BY <1>2, StoreAssumption DEF CallInv, Asked, Requests
  <1>4. /\ Remaining(c)' \subseteq Remaining(c) /\ Remaining(c) \subseteq Backups
    BY DEF Spares, Remaining, RemoteList
  <1>5. Cardinality(Remaining(c)') <= Cardinality(Remaining(c))
    <2>1. IsFiniteSet(Remaining(c))
      BY <1>4, BackupsAreFinite
    <2>2. QED
      BY <1>4, <2>1, FS_Subset
  <1>6. /\ Cardinality(Remaining(c)') \in Nat /\ Cardinality(Remaining(c)) \in Nat
    BY <1>4, BackupsAreFinite
  <1>7. ASSUME NEW b \in todo[c]
        PROVE  Cardinality(Spared(c, b)') >= request[c].retention
    <2>1. Spared(c, b) \subseteq Spared(c, b)'
      BY DEF Spares, Spared
    <2>2. Spared(c, b)' \subseteq Backups /\ Spared(c, b) \subseteq Backups
      BY DEF Spared
    <2>3. IsFiniteSet(Spared(c, b)') /\ Cardinality(Spared(c, b)') \in Nat
          /\ Cardinality(Spared(c, b)) \in Nat
      BY <2>2, BackupsAreFinite
    <2>4. Cardinality(Spared(c, b)) <= Cardinality(Spared(c, b)')
      BY <2>1, <2>3, FS_Subset
    <2>5. QED
      BY <1>2, <1>3, <2>3, <2>4
  <1>8. \A b \in todo'[c] : b \in Backups /\ Cardinality(Spared(c, b)') >= request'[c].retention
    BY <1>2, <1>7
  <1>9. Cardinality(Remaining(c)') <= request'[c].retention
    BY <1>2, <1>3, <1>5, <1>6
  <1>10. QED
    BY <1>8, <1>9 DEF RetireInv

(* At its retention, a create deletes one of its list, ends it, or fails.  *)
LEMMA AtRetire ==
  ASSUME CallInv, NEW c \in Calls, pc[c] = "retire", Step(c)
  PROVE  \/ \E b \in Backups : Retire(c, b)
         \/ RetireDone(c)
         \/ pc'[c] = "failed" /\ retired' = retired
  <1> DEFINE G == \/ \E b \in Backups : Retire(c, b)
                  \/ RetireDone(c)
                  \/ pc'[c] = "failed" /\ retired' = retired
  <1> USE DEF Permitted, Unpermitted, Go, files, CallInv, Typed
  <1>1. ASSUME Acquire(c) PROVE G
    BY <1>1 DEF Acquire, Started
  <1>2. ASSUME TarBegin(c) PROVE G
    BY <1>2 DEF TarBegin
  <1>3. ASSUME TarEnd(c) PROVE G
    BY <1>3 DEF TarEnd
  <1>4. ASSUME Encrypt(c) PROVE G
    BY <1>4 DEF Encrypt
  <1>5. ASSUME PutArchive(c) PROVE G
    BY <1>5 DEF PutArchive
  <1>6. ASSUME PutMetadata(c) PROVE G
    BY <1>6 DEF PutMetadata
  <1>7. ASSUME Find(c) PROVE G
    BY <1>7 DEF Find, Found
  <1>8. ASSUME Download(c) PROVE G
    BY <1>8 DEF Download
  <1>9. ASSUME Decrypt(c) PROVE G
    BY <1>9 DEF Decrypt
  <1>10. ASSUME Check(c) PROVE G
    BY <1>10 DEF Check
  <1>11. ASSUME Stamp(c) PROVE G
    BY <1>11 DEF Stamp, Verified
  <1>12. ASSUME WriteBegin(c) PROVE G
    BY <1>12 DEF WriteBegin
  <1>13. ASSUME WriteEnd(c) PROVE G
    BY <1>13 DEF WriteEnd
  <1>14. ASSUME ListSurplus(c) PROVE G
    BY <1>14 DEF ListSurplus
  <1>15. ASSUME RetireDone(c) PROVE G
    BY <1>15
  <1>16. ASSUME Confirm(c) PROVE G
    BY <1>16 DEF Confirm, Found
  <1>17. ASSUME Locate(c) PROVE G
    BY <1>17 DEF Locate, Found
  <1>18. ASSUME Remove(c) PROVE G
    BY <1>18 DEF Remove
  <1>19. ASSUME Unlink(c) PROVE G
    BY <1>19 DEF Unlink
  <1>20. ASSUME Forget(c) PROVE G
    BY <1>20 DEF Forget
  <1>21. ASSUME ClearDone(c) PROVE G
    BY <1>21 DEF ClearDone
  <1>22. ASSUME PackServer(c) PROVE G
    BY <1>22 DEF PackServer
  <1>23. ASSUME PackBackups(c) PROVE G
    BY <1>23 DEF PackBackups
  <1>24. ASSUME Streamed(c) PROVE G
    BY <1>24 DEF Streamed
  <1>25. ASSUME Receive(c) PROVE G
    BY <1>25 DEF Receive
  <1>26. ASSUME UnpackBegin(c) PROVE G
    BY <1>26 DEF UnpackBegin
  <1>27. ASSUME UnpackEnd(c) PROVE G
    BY <1>27 DEF UnpackEnd
  <1>28. ASSUME Unpacked(c) PROVE G
    BY <1>28 DEF Unpacked
  <1>29. ASSUME Fail(c) PROVE G
    BY <1>29 DEF Fail
  <1>30. ASSUME Drop(c) PROVE G
    BY <1>30 DEF Drop
  <1>31. ASSUME NEW b \in Backups, Retire(c, b) PROVE G
    BY <1>31
  <1>32. ASSUME NEW b \in Backups, ClearFile(c, b) PROVE G
    BY <1>32 DEF ClearFile
  <1>33. QED
    BY <1>1, <1>2, <1>3, <1>4, <1>5, <1>6, <1>7, <1>8,
       <1>9, <1>10, <1>11, <1>12, <1>13, <1>14, <1>15, <1>16,
       <1>17, <1>18, <1>19, <1>20, <1>21, <1>22, <1>23, <1>24,
       <1>25, <1>26, <1>27, <1>28, <1>29, <1>30, <1>31, <1>32 DEF Step

(* A retention begins with the surplus of the listing.                     *)
LEMMA RetentionBegins ==
  ASSUME CallInv, CallInv', FileInv, DatesInv, NEW c \in Calls,
         ListSurplus(c)
  PROVE  RetireInv(c)'
  <1>1. SUFFICES ASSUME pc'[c] = "retire" PROVE RetireInv(c)'
    BY DEF RetireInv
  <1>2. /\ pc[c] = "retain" /\ todo'[c] = Surplus(c)
        /\ UNCHANGED <<request, home, archive, meta, born, asked>>
    BY <1>1 DEF ListSurplus, Go, CallInv, Typed, files
  <1>3. request[c].retention \in Nat
    BY <1>2, StoreAssumption DEF CallInv, Asked, Requests
  <1>4. /\ Cardinality(RemoteList \ Surplus(c)) <= request[c].retention
        /\ \A b \in Surplus(c) :
             Cardinality({a \in RemoteList \ Surplus(c) : born[a] > born[b]})
               >= request[c].retention
    BY <1>3, SurplusSplits
  <1>5. RemoteList' = RemoteList
    BY <1>2 DEF RemoteList
  <1>6. Remaining(c)' = RemoteList \ Surplus(c)
    BY <1>2, <1>5 DEF Remaining
  <1>7. ASSUME NEW b \in Surplus(c)
        PROVE  b \in Backups /\ Cardinality(Spared(c, b)') >= request[c].retention
    <2> DEFINE S == {a \in RemoteList \ Surplus(c) : born[a] > born[b]}
    <2>1. S \subseteq Spared(c, b)'
      BY <1>2 DEF Spared, RemoteList, Restorable, FileInv, RemoteListedIsWhole
    <2>2. Spared(c, b)' \subseteq Backups /\ S \subseteq Backups /\ b \in Backups
      BY DEF Spared, RemoteList, Surplus
    <2>3. IsFiniteSet(Spared(c, b)') /\ Cardinality(Spared(c, b)') \in Nat
          /\ Cardinality(S) \in Nat
      BY <2>2, BackupsAreFinite
    <2>4. Cardinality(S) >= request[c].retention
      BY <1>4
    <2> HIDE DEF S
    <2>5. Cardinality(S) <= Cardinality(Spared(c, b)')
      BY <2>1, <2>3, FS_Subset
    <2>6. QED
      BY <1>3, <2>2, <2>3, <2>4, <2>5
  <1>8. QED
    BY <1>2, <1>4, <1>6, <1>7 DEF RetireInv

(* Each deletion leaves what remains, and what spares the rest.            *)
LEMMA RetentionGoesOn ==
  ASSUME CallInv, CallInv', NEW c \in Calls, RetireInv(c),
         NEW b \in Backups, Retire(c, b)
  PROVE  RetireInv(c)'
  <1>1. /\ pc[c] = "retire" /\ b \in todo[c] /\ todo'[c] = todo[c] \ {b}
        /\ UNCHANGED <<request, home, born, asked>>
        /\ archive'[b] = "none" /\ meta'[b] = "none"
        /\ \A a \in Backups \ {b} : archive'[a] = archive[a] /\ meta'[a] = meta[a]
    BY DEF Retire, Store, Describe, CallInv, Typed
  <1>2. Remaining(c)' = Remaining(c)
    <2>1. RemoteList' = RemoteList \ {b}
      BY <1>1 DEF RemoteList
    <2>2. QED
      BY <1>1, <2>1 DEF Remaining
  <1>3. request[c].retention \in Nat
    BY <1>1, StoreAssumption DEF CallInv, Asked, Requests
  <1>4. ASSUME NEW x \in todo[c] \ {b}
        PROVE  /\ x \in Backups
               /\ Cardinality(Spared(c, x)') >= request[c].retention
    <2>1. Spared(c, x) \subseteq Spared(c, x)'
      BY <1>1 DEF Spared, Restorable
    <2>2. Spared(c, x)' \subseteq Backups /\ Spared(c, x) \subseteq Backups
      BY DEF Spared
    <2>3. IsFiniteSet(Spared(c, x)') /\ Cardinality(Spared(c, x)') \in Nat
          /\ Cardinality(Spared(c, x)) \in Nat
      BY <2>2, BackupsAreFinite
    <2>4. Cardinality(Spared(c, x)) <= Cardinality(Spared(c, x)')
      BY <2>1, <2>3, FS_Subset
    <2>5. x \in Backups /\ Cardinality(Spared(c, x)) >= request[c].retention
      BY <1>1 DEF RetireInv
    <2>6. QED
      BY <1>3, <2>3, <2>4, <2>5
  <1>5. QED
    BY <1>1, <1>2, <1>4 DEF RetireInv

(* A step of a call keeps what is known of every retention.                *)
LEMMA StepRetire ==
  ASSUME CallInv, CallInv', FileInv, DatesInv, \A d \in Calls : RetireInv(d),
         NEW c \in Calls, Step(c), Others(c)
  PROVE  \A d \in Calls : RetireInv(d)'
  <1>1. ASSUME NEW d \in Calls \ {c}, pc'[d] = "retire" PROVE RetireInv(d)'
    <2>1. pc[d] = "retire" /\ todo'[d] = todo[d] /\ request'[d] = request[d]
      BY <1>1 DEF Others
    <2>2. pc[c] \notin Permitted
      BY <1>1, <2>1 DEF CallInv, Lone, Permitted
    <2>3. Spares
      BY <2>2, OthersSpare
    <2>4. QED
      BY <2>1, <2>3, SparedRetention
  <1>2. ASSUME pc'[c] = "retire", pc[c] # "retire" PROVE RetireInv(c)'
    <2>1. ListSurplus(c)
      BY <1>2
      DEF CallInv, Typed, Step, Acquire, Started, TarBegin, TarEnd, Encrypt, PutArchive,
          PutMetadata, Find, Download, Decrypt, Check, Stamp, Verified, WriteBegin,
          WriteEnd, RetireDone, Confirm, Locate, Remove, Unlink, Forget,
          ClearDone, PackServer, PackBackups, Streamed, Receive, UnpackBegin,
          UnpackEnd, Unpacked, Fail, Drop, Retire, ClearFile, Go
    <2>2. QED
      BY <2>1, RetentionBegins
  <1>3. ASSUME pc'[c] = "retire", pc[c] = "retire" PROVE RetireInv(c)'
    <2>1. ~ RetireDone(c)
      BY <1>3 DEF RetireDone, Go, CallInv, Typed
    <2>2. PICK b \in Backups : Retire(c, b)
      BY <1>3, <2>1, AtRetire
    <2>3. QED
      BY <2>2, RetentionGoesOn
  <1>4. QED
    BY <1>1, <1>2, <1>3 DEF RetireInv

RetentionInv == IInv /\ DatesInv /\ \A c \in Calls : RetireInv(c)

(* Dates and retentions are kept along with the rest.                      *)
LEMMA NextRetention ==
  ASSUME Permits = 1
  PROVE  RetentionInv /\ [Next]_vars => RetentionInv'
  <1> SUFFICES ASSUME RetentionInv, [Next]_vars PROVE RetentionInv'
    OBVIOUS
  <1>1. IInv /\ IInv'
    BY NextIInv, Permits = 1 DEF RetentionInv
  <1>2. ASSUME NEW c \in Calls, Ask(c) PROVE RetentionInv'
    <2>1. /\ pc[c] = "new" /\ pc'[c] \in {"receive", "clear", "locate",
                                           "unlink", "queued"}
          /\ \A d \in Calls \ {c} : pc'[d] = pc[d] /\ request'[d] = request[d]
          /\ \A b \in Backups : home'[b] = home[b] \/ b = c
          /\ UNCHANGED <<temp, todo, archive, meta, born, kills, asked, retired,
                         made>>
      BY <1>1, <1>2, AskCall DEF IInv
    <2>2. meta[c] = "none" /\ home[c] = "local"
      BY <1>1, <2>1 DEF IInv, FileInv, Unpublished, Preparing, CallInv, Asked
    <2>3. DatesInv'
      BY <1>1, <2>1, <2>2 DEF RetentionInv, DatesInv, Distinct, Dated, DatedFor,
         About, Remote
    <2>4. Spares
      BY <2>1, <2>2 DEF Spares, RemoteList, Restorable
    <2>5. CallInv /\ CallInv'
      BY <1>1 DEF IInv
    <2>6. ASSUME NEW d \in Calls PROVE RetireInv(d)'
      <3>1. /\ RetireInv(d) /\ todo'[d] = todo[d]
            /\ pc'[d] = "retire" => pc[d] = "retire"
            /\ pc[d] = "retire" => request'[d] = request[d]
        BY <2>1 DEF RetentionInv
      <3>2. QED
        BY <2>4, <2>5, <3>1, SparedRetention
    <2>7. QED
      BY <1>1, <2>3, <2>6 DEF RetentionInv
  <1>3. ASSUME NEW c \in Calls, Step(c) PROVE RetentionInv'
    <2>1. Others(c)
      BY <1>1, <1>3, StepCall, Permits = 1 DEF IInv
    <2>2. DatesInv'
      BY <1>1, <1>3, <2>1, StepDates DEF IInv, RetentionInv
    <2>3. \A d \in Calls : RetireInv(d)'
      BY <1>1, <1>3, <2>1, StepRetire DEF IInv, RetentionInv
    <2>4. QED
      BY <1>1, <2>2, <2>3 DEF RetentionInv
  <1>4. CASE Kill
    <2>1. /\ \A c \in Calls : IF pc[c] \in {"new"} \cup Ended
                                THEN pc'[c] = pc[c] ELSE pc'[c] = "failed"
          /\ UNCHANGED <<request, temp, todo, home, archive, meta, born, asked,
                         retired, made>>
      BY <1>1, <1>4, KillCall DEF IInv
    <2>2. DatesInv'
      BY <2>1 DEF RetentionInv, DatesInv, Distinct, Dated, DatedFor, Ended
    <2>3. \A c \in Calls : RetireInv(c)'
      BY <2>1 DEF RetireInv, Ended
    <2>4. QED
      BY <1>1, <2>2, <2>3 DEF RetentionInv
  <1>5. CASE UNCHANGED vars
    <2>1. UNCHANGED <<pc, request, todo, home, archive, meta, born, asked>>
      BY <1>5 DEF vars, files
    <2>2. DatesInv'
      BY <2>1 DEF RetentionInv, DatesInv, Distinct, Dated, DatedFor, About, Remote
    <2>3. ASSUME NEW c \in Calls PROVE RetireInv(c)'
      <3>1. RemoteList' = RemoteList /\ Remaining(c)' = Remaining(c)
        BY <2>1 DEF RemoteList, Remaining
      <3>2. \A b \in todo[c] : Spared(c, b)' = Spared(c, b)
        BY <2>1 DEF Spared, Restorable
      <3>3. QED
        BY <2>1, <3>1, <3>2 DEF RetentionInv, RetireInv
    <2>4. QED
      BY <1>1, <2>2, <2>3 DEF RetentionInv
  <1>6. QED
    BY <1>2, <1>3, <1>4, <1>5 DEF Next

LEMMA InitRetention == Init => RetentionInv
  <1> SUFFICES ASSUME Init PROVE RetentionInv
    OBVIOUS
  <1>1. IInv
    BY InitIInv
  <1>2. /\ \A c \in Calls : pc[c] = "new" /\ meta[c] = "none" /\ born[c] = 0
        /\ \A b \in Earlier : born[b] > 0
        /\ \A a, b \in Earlier : born[a] = born[b] => a = b
    BY StoreAssumption DEF Init, Backups
  <1>3. Distinct
    BY <1>2 DEF Distinct, Backups
  <1>4. Dated /\ \A c \in Calls : DatedFor(c) /\ RetireInv(c)
    BY <1>2 DEF Dated, DatedFor, RetireInv, Backups
  <1>5. QED
    BY <1>1, <1>3, <1>4 DEF RetentionInv, DatesInv

(* What a retention deletes is spared for, and what is left at its end is  *)
(* what was to remain.                                                     *)
LEMMA RetentionStep ==
  ASSUME Permits = 1, RetentionInv, RetentionInv', Next, NEW c \in Calls,
         pc[c] = "retire"
  PROVE  /\ \A b \in retired' \ retired :
              Cardinality({a \in Backups : /\ home[a] = "s3"
                                           /\ born[a] > born[b]
                                           /\ Restorable(a) \/ a \in asked})
                >= request[c].retention
         /\ pc'[c] = "confirm" =>
              Cardinality(RemoteList') <= request[c].retention
  <1> DEFINE Newer(b) == {a \in Backups : /\ home[a] = "s3"
                                          /\ born[a] > born[b]
                                          /\ Restorable(a) \/ a \in asked}
             G == /\ \A b \in retired' \ retired :
                       Cardinality(Newer(b)) >= request[c].retention
                  /\ pc'[c] = "confirm" =>
                       Cardinality(RemoteList') <= request[c].retention
  <1>1. IInv /\ CallInv /\ CallInv' /\ RetireInv(c)
    BY DEF RetentionInv, IInv
  <1>2. request[c].retention \in Nat
    BY <1>1, StoreAssumption DEF CallInv, Asked, Requests
  <1>3. ASSUME retired' = retired, pc'[c] # "confirm" PROVE G
    BY <1>3
  <1>4. ASSUME NEW d \in Calls, Ask(d) PROVE G
    <2>1. /\ pc[d] = "new" /\ retired' = retired
          /\ \A e \in Calls \ {d} : pc'[e] = pc[e]
      BY <1>1, <1>4, AskCall DEF IInv
    <2>2. pc'[c] = "retire"
      BY <2>1
    <2>3. QED
      BY <1>3, <2>1, <2>2
  <1>5. ASSUME NEW d \in Calls \ {c}, Step(d) PROVE G
    <2>1. Others(d)
      BY <1>1, <1>5, StepCall DEF IInv
    <2>2. pc'[c] = "retire" /\ pc[d] \notin Permitted
      BY <1>1, <1>5, <2>1 DEF Others, CallInv, Lone, Permitted
    <2>3. retired' = retired
      BY <1>1, <1>5, <2>1, <2>2, OthersSpare DEF Spares
    <2>4. QED
      BY <1>3, <2>2, <2>3
  <1>6. ASSUME NEW b \in Backups, Retire(c, b) PROVE G
    <2>1. b \in todo[c] /\ retired' = retired \cup {b} /\ pc' = pc
      BY <1>6 DEF Retire
    <2>2. Cardinality(Spared(c, b)) >= request[c].retention
      BY <1>1, <2>1 DEF RetireInv
    <2>3. Spared(c, b) \subseteq Newer(b)
      BY DEF Spared
    <2>4. Newer(b) \subseteq Backups /\ Spared(c, b) \subseteq Backups
      BY DEF Spared
    <2>5. IsFiniteSet(Newer(b)) /\ Cardinality(Newer(b)) \in Nat
          /\ Cardinality(Spared(c, b)) \in Nat
      BY <2>4, BackupsAreFinite
    <2> HIDE DEF Newer
    <2>6. Cardinality(Spared(c, b)) <= Cardinality(Newer(b))
      BY <2>3, <2>5, FS_Subset
    <2>7. Cardinality(Newer(b)) >= request[c].retention
      BY <1>2, <2>2, <2>5, <2>6
    <2>8. QED
      BY <2>1, <2>7
  <1>7. ASSUME RetireDone(c) PROVE G
    <2>1. todo[c] = {} /\ UNCHANGED <<home, meta, retired>>
      BY <1>7 DEF RetireDone, files
    <2>2. RemoteList' = Remaining(c)
      BY <2>1 DEF RemoteList, Remaining
    <2>3. QED
      BY <1>1, <2>1, <2>2 DEF RetireInv
  <1>8. ASSUME Step(c) PROVE G
    BY <1>1, <1>3, <1>6, <1>7, <1>8, AtRetire
  <1>9. ASSUME Kill PROVE G
    <2>1. pc'[c] = "failed" /\ retired' = retired
      BY <1>1, <1>9, KillCall DEF IInv, Ended
    <2>2. QED
      BY <1>3, <2>1
  <1>10. QED
    BY <1>4, <1>5, <1>8, <1>9 DEF Next

-----------------------------------------------------------------------------
(* The theorems.                                                           *)

(* Every step keeps the types; in particular nothing in S3 is ever torn.   *)
THEOREM StoreTypeCorrect ==
  ASSUME Permits = 1
  PROVE  Spec => []TypeOK
  <1>1. IInv => TypeOK
    <2>1. SUFFICES ASSUME IInv PROVE TypeOK
      OBVIOUS
    <2>2. Typed /\ \A c \in Calls : Asked(c)
      BY <2>1 DEF IInv, CallInv
    <2>3. \A c \in Calls : pc[c] # "new" => request[c] \in Requests
      BY <2>2 DEF Asked
    <2>4. born \in [Backups -> 0 .. Cardinality(Backups)]
      <3>1. IsFiniteSet(Backups)
        BY StoreAssumption, FS_Union, Zenon DEF Backups
      <3>2. Created \subseteq Backups
        BY DEF Created
      <3>3. /\ Cardinality(Created) <= Cardinality(Backups)
            /\ Cardinality(Created) \in Nat /\ Cardinality(Backups) \in Nat
        BY <3>1, <3>2, FS_Subset, FS_CardinalityType
      <3>4. \A b \in Backups : born[b] \in Nat /\ born[b] <= Cardinality(Created)
        BY <2>1, <2>2 DEF IInv, OrderInv, Typed
      <3>5. QED
        BY <2>2, <3>3, <3>4 DEF Typed
    <2>5. \A b \in Backups : home[b] = "s3" =>
            archive[b] # "partial" /\ meta[b] # "torn"
      BY <2>1 DEF IInv, FileInv, PutsAreAtomic
    <2>6. QED
      BY <2>2, <2>3, <2>4, <2>5 DEF Typed, TypeOK
  <1>2. QED
    BY <1>1, Invariance, PTL

(* A backup that S3 lists has its archive, unless the panel deleted it:    *)
(* no create, verification or retention cut short leaves one without.      *)
THEOREM ListedIsWhole ==
  ASSUME Permits = 1
  PROVE  Spec => []RemoteListedIsWhole
  <1>1. IInv => RemoteListedIsWhole
    BY DEF IInv, FileInv
  <1>2. QED
    BY <1>1, Invariance, PTL

(* A create's own retention never deletes the backup it has uploaded.      *)
THEOREM RetentionSparesOwn ==
  ASSUME Permits = 1
  PROVE  Spec => []OwnBackupKept
  <1>1. IInv => OwnBackupKept
    <2>1. SUFFICES ASSUME IInv, NEW c \in Calls, Op(c) = "create", Remote(c),
                          pc[c] \in {"find", "download", "decrypt", "check",
                                     "write", "retain", "retire", "confirm"}
                   PROVE  Restorable(c) \/ c \in asked
      BY DEF OwnBackupKept
    <2>2. About(c) = c
      BY <2>1 DEF IInv, CallInv, Asked
    <2>3. ReadInv(c)
      BY <2>1 DEF IInv, FileInv
    <2>4. QED
      BY <2>1, <2>2, <2>3 DEF ReadInv
  <1>2. QED
    BY <1>1, Invariance, PTL

(* A backup reported as made stays whole and described until the panel or  *)
(* a retention deletes it.                                                 *)
THEOREM MadeBackupsAreKept ==
  ASSUME Permits = 1
  PROVE  Spec => []BackupKept
  <1>1. IInv => BackupKept
    BY DEF IInv, FileInv
  <1>2. QED
    BY <1>1, Invariance, PTL

(* With one permit, retention deletes a backup only while at least         *)
(* retention_count newer ones are whole in S3, or were until the panel     *)
(* deleted them, and when it ends it has left at most so many listed: the  *)
(* listing is taken once and the deletions go on for a while, but until    *)
(* they end no other call can publish, and a deletion of the panel only    *)
(* makes the listing shorter.                                              *)
THEOREM RetentionIsExact == ASSUME Permits = 1 PROVE Spec => RetentionExact
  <1>1. Spec => []RetentionInv
    <2>1. RetentionInv /\ [Next]_vars => RetentionInv'
      BY NextRetention, Permits = 1
    <2>2. QED
      BY InitRetention, <2>1, PTL DEF Spec
  <1> DEFINE Exact == \A c \in Calls :
         pc[c] = "retire" =>
           /\ \A b \in retired' \ retired :
                Cardinality({a \in Backups : /\ home[a] = "s3"
                                             /\ born[a] > born[b]
                                             /\ Restorable(a) \/ a \in asked})
                  >= request[c].retention
           /\ pc'[c] = "confirm" =>
                Cardinality(RemoteList') <= request[c].retention
  <1>2. RetentionInv /\ RetentionInv' /\ [Next]_vars => [Exact]_vars
    <2>1. SUFFICES ASSUME RetentionInv, RetentionInv', Next PROVE Exact
      OBVIOUS
    <2>2. QED
      BY <2>1, RetentionStep, Permits = 1
  <1>3. QED
    BY <1>1, <1>2, PTL DEF Spec, RetentionExact
=============================================================================
