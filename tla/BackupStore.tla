---------------------------- MODULE BackupStore ----------------------------
(***************************************************************************)
(* Where the backups of one server are kept (src/src/storage/backup): the  *)
(* local directory and the S3 prefix, each holding an archive and a        *)
(* metadata file per backup, and the calls that create, verify, download,  *)
(* delete, export and import them.  All but the deletions queue for a      *)
(* permit.  What a restore does to the server is in BackupRestore.         *)
(*                                                                         *)
(* A backup made by a call, or brought by an import, is named after it;    *)
(* created_at is its place in the order of the archives.  An archive is    *)
(* "whole" when its checksum and size are those of its metadata, and may   *)
(* be encrypted on the way to S3.  A request to S3 is atomic: it has been  *)
(* processed or not when its caller goes on, fails or is dropped.          *)
(***************************************************************************)
EXTENDS Naturals, FiniteSets

CONSTANTS
    Calls,          \* calls of the panel, each made at most once
    Earlier,        \* backups from before all of them
    Permits,        \* AGAPORNIS_BACKUP_CONCURRENCY, 1 to 4
    MaxRetention,   \* bound: retention_count of a create
    MaxKills        \* bound: kills of the agent

ASSUME StoreAssumption ==
    /\ IsFiniteSet(Calls) /\ IsFiniteSet(Earlier) /\ Calls \cap Earlier = {}
    /\ Permits \in 1 .. 4 /\ MaxRetention \in Nat /\ MaxKills \in Nat

Backups == Calls \cup Earlier
Stores == {"local", "s3"}
Operations == {"create", "verify", "download", "delete", "delete_local",
               "export", "import"}

VARIABLES
    pc,         \* per call, the step it is at
    request,    \* per call, what it asks for
    temp,       \* per call, its files in the temporary directory
    todo,       \* per call, what is left of its list of work
    home,       \* per backup, the store it is in
    archive,    \* per backup, its archive: "none", "partial" or "whole"
    meta,       \* per backup, its metadata: "none", "torn" or "valid"
    born,       \* per backup, its created_at; 0 before it has one
    kills,      \* kills so far
    asked,      \* history: backups the panel deleted files of
    retired,    \* history: backups a create's retention deleted
    made        \* history: backups whose create or import succeeded

files == <<home, archive, meta, born, kills, asked, retired, made>>
vars == <<pc, request, temp, todo, files>>

(* The steps taken with a permit, the other ones, and the end.             *)
Permitted == {"tar", "tarring", "encrypt", "upload", "put", "find",
              "download", "decrypt", "check", "write", "writing", "retain",
              "retire", "confirm", "pack", "unpack"}
Unpermitted == {"receive", "stream", "locate", "remove", "unlink", "forget",
                "clear"}
Ended == {"done", "failed"}

Requests == [op : Operations, storage : Stores, backup : Backups,
             retention : 0 .. MaxRetention, encrypt : {"yes", "no"}]

TypeOK ==
    /\ pc \in [Calls -> {"new", "queued", "detached"} \cup Permitted
                          \cup Unpermitted \cup Ended]
    /\ DOMAIN request = Calls
    /\ \A c \in Calls : pc[c] # "new" => request[c] \in Requests
    /\ temp \in [Calls -> SUBSET {"plain", "upload", "stored", "copy"}]
    /\ todo \in [Calls -> SUBSET (Backups \cup {"archive", "metadata"})]
    /\ home \in [Backups -> Stores]
    /\ archive \in [Backups -> {"none", "partial", "whole"}]
    /\ meta \in [Backups -> {"none", "torn", "valid"}]
    /\ \A b \in Backups : home[b] = "s3" =>
         archive[b] # "partial" /\ meta[b] # "torn"
    /\ born \in [Backups -> 0 .. Cardinality(Backups)]
    /\ kills \in 0 .. MaxKills
    /\ asked \subseteq Backups /\ retired \subseteq Backups
    /\ made \subseteq Backups

NoRequest == [op |-> "none"]

Init ==
    /\ pc = [c \in Calls |-> "new"]
    /\ request = [c \in Calls |-> NoRequest]
    /\ temp = [c \in Calls |-> {}]
    /\ todo = [c \in Calls |-> {}]
    /\ home \in {h \in [Backups -> Stores] : \A c \in Calls : h[c] = "local"}
    /\ archive = [b \in Backups |-> IF b \in Earlier THEN "whole" ELSE "none"]
    /\ meta = [b \in Backups |-> IF b \in Earlier THEN "valid" ELSE "none"]
    /\ born \in {o \in [Backups -> 0 .. Cardinality(Earlier)] :
                   /\ \A c \in Calls : o[c] = 0
                   /\ \A a, b \in Earlier : o[a] > 0 /\ (o[a] = o[b] => a = b)}
    /\ kills = 0 /\ asked = {} /\ retired = {} /\ made = Earlier

-----------------------------------------------------------------------------
Op(c) == request[c].op
About(c) == request[c].backup
Remote(c) == request[c].storage = "s3"
Created == {b \in Backups : born[b] > 0}
Now == Cardinality(Created) + 1

Go(c, step) == pc' = [pc EXCEPT ![c] = step]
Store(b, file) == archive' = [archive EXCEPT ![b] = file]
Describe(b, file) == meta' = [meta EXCEPT ![b] = file]
Keep(c, name) == temp' = [temp EXCEPT ![c] = @ \cup {name}]
Drops(c, names) == temp' = [temp EXCEPT ![c] = @ \ names]

(* list of s3.rs: every metadata object that parses, whatever else exists. *)
RemoteList == {b \in Backups : home[b] = "s3" /\ meta[b] = "valid"}

(* find: the listing for S3, read_metadata for a local backup.             *)
Found(c) == /\ home[About(c)] = request[c].storage
            /\ meta[About(c)] = "valid"

Encrypted(b) == b \in Calls /\ request[b].encrypt = "yes"

Restorable(b) == archive[b] = "whole" /\ meta[b] = "valid"

-----------------------------------------------------------------------------
(* The handlers of BackupManagement and NodeTransfer.                      *)

First(op, storage) ==
    CASE op = "import" -> "receive"
      [] op = "delete_local" -> "clear"
      [] op = "delete" /\ storage = "s3" -> "locate"
      [] op = "delete" /\ storage = "local" -> "unlink"
      [] OTHER -> "queued"

(* A call about a backup names one the panel can have heard of; the other  *)
(* ones are about the server, and a create or an import makes its own.     *)
Ask(c) ==
    /\ pc[c] = "new"
    /\ \E r \in Requests :
         /\ IF r.op \in {"verify", "download", "delete"}
              THEN /\ \/ r.backup \in Earlier
                      \/ r.backup \in Calls
                         /\ request[r.backup].op \in {"create", "import"}
                   /\ r.storage = home[r.backup]
              ELSE r.backup = c /\ (r.op # "create" => r.storage = "local")
         /\ r.op # "create" \/ r.storage = "local" =>
              r.retention = 0 /\ r.encrypt = "no"
         /\ request' = [request EXCEPT ![c] = r]
         /\ home' = [home EXCEPT ![r.backup] = r.storage]
         /\ Go(c, First(r.op, r.storage))
    /\ UNCHANGED <<temp, todo, archive, meta, born, kills, asked, retired,
                   made>>

(* operation_permit: held until the manager's function returns.            *)
Holders == {c \in Calls : pc[c] \in Permitted}

Started(op) ==
    CASE op = "create" -> "tar"
      [] op = "export" -> "pack"
      [] op = "import" -> "unpack"
      [] OTHER -> "find"

Acquire(c) ==
    /\ pc[c] = "queued" /\ Cardinality(Holders) < Permits
    /\ Go(c, Started(Op(c)))
    /\ todo' = IF Op(c) = "import"
                 THEN [todo EXCEPT ![c] = {"archive", "metadata"}] ELSE todo
    /\ UNCHANGED <<request, temp, files>>

-----------------------------------------------------------------------------
(* create                                                                  *)

(* tar -czf into the backup directory itself, or a temporary file.         *)
TarBegin(c) ==
    /\ pc[c] = "tar"
    /\ Go(c, "tarring")
    /\ IF Remote(c) THEN Keep(c, "plain") /\ UNCHANGED archive
                    ELSE Store(c, "partial") /\ UNCHANGED temp
    /\ UNCHANGED <<request, todo, home, meta, born, kills, asked, retired,
                   made>>

(* tar has exited; the size and checksum are taken, which fails if a       *)
(* deletion has unlinked the file, and the backup gets its created_at.     *)
TarEnd(c) ==
    /\ pc[c] = "tarring"
    /\ Remote(c) \/ archive[c] = "partial"
    /\ IF Remote(c) THEN UNCHANGED archive ELSE Store(c, "whole")
    /\ born' = [born EXCEPT ![c] = Now]
    /\ Go(c, CASE ~Remote(c) -> "write"
               [] Remote(c) /\ request[c].encrypt = "yes" -> "encrypt"
               [] OTHER -> "upload")
    /\ UNCHANGED <<request, temp, todo, home, meta, kills, asked, retired,
                   made>>

(* encrypt_file: chunk by chunk into a second temporary file.              *)
Encrypt(c) ==
    /\ pc[c] = "encrypt"
    /\ Keep(c, "upload")
    /\ Go(c, "upload")
    /\ UNCHANGED <<request, todo, files>>

\* Defect: upload puts the metadata before the archive.
PutMetadataFirst(c) ==
    /\ pc[c] = "upload"
    /\ Describe(c, "valid")
    /\ Go(c, "put")
    /\ UNCHANGED <<request, temp, todo, home, archive, born, kills, asked,
                   retired, made>>

(* upload: the archive, then the metadata.                                 *)
PutArchive(c) ==
    /\ pc[c] = "upload"
    /\ Store(c, "whole")
    /\ Go(c, "put")
    /\ UNCHANGED <<request, temp, todo, home, meta, born, kills, asked,
                   retired, made>>

PutMetadata(c) ==
    /\ pc[c] = "put"
    /\ Describe(c, "valid")
    /\ Go(c, "find")
    /\ UNCHANGED <<request, temp, todo, home, archive, born, kills, asked,
                   retired, made>>

-----------------------------------------------------------------------------
(* prepare and verify_inner, for create, verify and prepare_download.      *)

Find(c) ==
    /\ pc[c] = "find" /\ Found(c)
    /\ Go(c, IF Remote(c) THEN "download" ELSE "check")
    /\ UNCHANGED <<request, temp, todo, files>>

(* The object is fetched into a temporary file, which is renamed ...       *)
Download(c) ==
    /\ pc[c] = "download" /\ archive[About(c)] = "whole"
    /\ IF Encrypted(About(c)) THEN Keep(c, "stored") /\ Go(c, "decrypt")
                             ELSE Keep(c, "copy") /\ Go(c, "check")
    /\ UNCHANGED <<request, todo, files>>

(* ... or, if the metadata says so, decrypted into another one.            *)
Decrypt(c) ==
    /\ pc[c] = "decrypt"
    /\ temp' = [temp EXCEPT ![c] = (@ \ {"stored"}) \cup {"copy"}]
    /\ Go(c, "check")
    /\ UNCHANGED <<request, todo, files>>

(* verify_integrity, and for a verification validate_archive and a trial   *)
(* extraction.  A download gives its permit back here.                     *)
Check(c) ==
    /\ pc[c] = "check"
    /\ Remote(c) \/ archive[About(c)] = "whole"
    /\ Go(c, IF Op(c) = "download" THEN "stream" ELSE "write")
    /\ UNCHANGED <<request, temp, todo, files>>

(* After verify_inner: a create removes its own temporary files too.       *)
Verified(c) ==
    IF Op(c) = "create"
      THEN Go(c, "retain") /\ Drops(c, {"plain", "upload", "copy"})
      ELSE Go(c, "done") /\ Drops(c, {"copy"})

(* put_metadata with the time of the verification: the object is created   *)
(* again if it has been deleted since it was read.                         *)
Stamp(c) ==
    /\ pc[c] = "write" /\ Remote(c)
    /\ Describe(About(c), "valid")
    /\ Verified(c)
    /\ UNCHANGED <<request, todo, home, archive, born, kills, asked, retired,
                   made>>

(* write_metadata: fs::write truncates the file and fills it ...           *)
WriteBegin(c) ==
    /\ pc[c] = "write" /\ ~Remote(c)
    /\ Describe(About(c), "torn")
    /\ Go(c, "writing")
    /\ UNCHANGED <<request, temp, todo, home, archive, born, kills, asked,
                   retired, made>>

(* ... in a blocking task that ends even if the call is dropped meanwhile. *)
(* A file that a deletion has unlinked stays unlinked.                     *)
WriteEnd(c) ==
    /\ pc[c] \in {"writing", "detached"}
    /\ Describe(About(c), IF meta[About(c)] = "none" THEN "none" ELSE "valid")
    /\ Go(c, IF pc[c] = "writing" THEN "done" ELSE "failed")
    /\ made' = IF Op(c) = "create" /\ pc[c] = "writing"
                 THEN made \cup {c} ELSE made
    /\ UNCHANGED <<request, temp, todo, home, archive, born, kills, asked,
                   retired>>

-----------------------------------------------------------------------------
(* create: retention of the remote backups                                 *)

\* Defect: the listing is sorted the other way round.
SurplusOfNewest(c) ==
    {b \in RemoteList :
       Cardinality({a \in RemoteList : born[a] < born[b]})
         >= request[c].retention}

\* Defect: one too many is skipped past.
SurplusByOne(c) ==
    {b \in RemoteList :
       Cardinality({a \in RemoteList : born[a] > born[b]}) + 1
         >= request[c].retention}

(* What follows the retention_count newest of the listing.                 *)
Surplus(c) ==
    {b \in RemoteList :
       Cardinality({a \in RemoteList : born[a] > born[b]})
         >= request[c].retention}

ListSurplus(c) ==
    /\ pc[c] = "retain"
    /\ IF request[c].retention = 0
         THEN Go(c, "confirm") /\ UNCHANGED todo
         ELSE Go(c, "retire") /\ todo' = [todo EXCEPT ![c] = Surplus(c)]
    /\ UNCHANGED <<request, temp, files>>

(* s3.delete of one of them: both objects in one request.                  *)
Retire(c, b) ==
    /\ pc[c] = "retire" /\ b \in todo[c]
    /\ Store(b, "none") /\ Describe(b, "none")
    /\ retired' = retired \cup {b}
    /\ todo' = [todo EXCEPT ![c] = @ \ {b}]
    /\ UNCHANGED <<pc, request, temp, home, born, kills, asked, made>>

RetireDone(c) ==
    /\ pc[c] = "retire" /\ todo[c] = {}
    /\ Go(c, "confirm")
    /\ UNCHANGED <<request, temp, todo, files>>

Confirm(c) ==
    /\ pc[c] = "confirm" /\ Found(c)
    /\ made' = made \cup {c}
    /\ Go(c, "done")
    /\ UNCHANGED <<request, temp, todo, home, archive, meta, born, kills,
                   asked, retired>>

-----------------------------------------------------------------------------
(* delete and delete_local, which take no permit                           *)

Locate(c) ==
    /\ pc[c] = "locate" /\ Found(c)
    /\ Go(c, "remove")
    /\ UNCHANGED <<request, temp, todo, files>>

Remove(c) ==
    /\ pc[c] = "remove"
    /\ Store(About(c), "none") /\ Describe(About(c), "none")
    /\ asked' = asked \cup {About(c)}
    /\ Go(c, "done")
    /\ UNCHANGED <<request, temp, todo, home, born, kills, retired, made>>

Unlink(c) ==
    /\ pc[c] = "unlink" /\ archive[About(c)] # "none"
    /\ Store(About(c), "none")
    /\ asked' = asked \cup {About(c)}
    /\ Go(c, "forget")
    /\ UNCHANGED <<request, temp, todo, home, meta, born, kills, retired,
                   made>>

(* An error of this second removal is ignored.                             *)
Forget(c) ==
    /\ pc[c] = "forget"
    /\ Describe(About(c), "none") \/ UNCHANGED meta
    /\ Go(c, "done")
    /\ UNCHANGED <<request, temp, todo, home, archive, born, kills, asked,
                   retired, made>>

(* remove_dir_all of the backup directory, file by file.                   *)
ClearFile(c, b) ==
    /\ pc[c] = "clear" /\ home[b] = "local"
    /\ \/ archive[b] # "none" /\ Store(b, "none") /\ UNCHANGED meta
       \/ meta[b] # "none" /\ Describe(b, "none") /\ UNCHANGED archive
    /\ asked' = asked \cup {b}
    /\ UNCHANGED <<pc, request, temp, todo, home, born, kills, retired, made>>

Cleared ==
    \A b \in Backups : home[b] = "local" => archive[b] = "none" /\ meta[b] = "none"

ClearDone(c) ==
    /\ pc[c] = "clear" /\ Cleared
    /\ Go(c, "done")
    /\ UNCHANGED <<request, temp, todo, files>>

-----------------------------------------------------------------------------
(* Downloads, exports and imports                                          *)

(* temporary_server: the server's directory; the handler has stopped the   *)
(* server before (ServerLifecycle).                                        *)
PackServer(c) ==
    /\ pc[c] = "pack"
    /\ Keep(c, "plain")
    /\ Go(c, "stream")
    /\ UNCHANGED <<request, todo, files>>

(* temporary_backups: the local backups, nothing if there are none.        *)
PackBackups(c) ==
    /\ pc[c] = "pack"
    /\ IF Cleared THEN UNCHANGED temp ELSE Keep(c, "plain")
    /\ Go(c, "stream")
    /\ UNCHANGED <<request, todo, files>>

\* Defect: the file that was sent is removed, temporary or not.
StreamedAndRemoved(c) ==
    /\ pc[c] = "stream"
    /\ Remote(c) \/ Op(c) = "export" \/ archive[About(c)] # "none"
    /\ Drops(c, {"plain", "copy"})
    /\ IF Op(c) = "download" THEN Store(About(c), "none")
                             ELSE UNCHANGED archive
    /\ Go(c, "done")
    /\ UNCHANGED <<request, todo, home, meta, born, kills, asked, retired,
                   made>>

(* The stream has been read to its end.  A local archive is opened only    *)
(* now, without a permit.                                                  *)
Streamed(c) ==
    /\ pc[c] = "stream"
    /\ Remote(c) \/ Op(c) = "export" \/ archive[About(c)] # "none"
    /\ Drops(c, {"plain", "copy"})
    /\ Go(c, "done")
    /\ UNCHANGED <<request, todo, files>>

(* The frames of an import are written to a temporary file, and accepted   *)
(* if metadata came first, once, and announced their size.  An import of   *)
(* backups may be empty.                                                   *)
Receive(c) ==
    /\ pc[c] = "receive"
    /\ \/ temp[c] = {} /\ Keep(c, "plain") /\ UNCHANGED pc
       \/ temp[c] # {} /\ Go(c, "queued") /\ UNCHANGED temp
       \/ temp[c] # {} /\ Go(c, "done") /\ Drops(c, {"plain"})
    /\ UNCHANGED <<request, todo, files>>

(* extract_backups: tar writes the two files of the backup, in either      *)
(* order, each first partly.                                               *)
UnpackBegin(c) ==
    /\ pc[c] = "unpack"
    /\ \/ "archive" \in todo[c] /\ Store(c, "partial") /\ UNCHANGED meta
          /\ archive[c] = "none"
       \/ "metadata" \in todo[c] /\ Describe(c, "torn") /\ UNCHANGED archive
          /\ meta[c] = "none"
    /\ UNCHANGED <<pc, request, temp, todo, home, born, kills, asked, retired,
                   made>>

UnpackEnd(c) ==
    /\ pc[c] = "unpack"
    /\ \/ archive[c] = "partial" /\ Store(c, "whole") /\ UNCHANGED meta
          /\ todo' = [todo EXCEPT ![c] = @ \ {"archive"}]
       \/ meta[c] = "torn" /\ Describe(c, "valid") /\ UNCHANGED archive
          /\ todo' = [todo EXCEPT ![c] = @ \ {"metadata"}]
    /\ UNCHANGED <<pc, request, temp, home, born, kills, asked, retired, made>>

Unpacked(c) ==
    /\ pc[c] = "unpack" /\ todo[c] = {}
    /\ born' = [born EXCEPT ![c] = Now]
    /\ made' = made \cup {c}
    /\ Drops(c, {"plain"})
    /\ Go(c, "done")
    /\ UNCHANGED <<request, todo, home, archive, meta, kills, asked, retired>>

-----------------------------------------------------------------------------
(* Failures                                                                *)

(* A file operation, a process, an S3 request or a check fails, or the     *)
(* backup is not found: `?` returns at once, and only an import that was   *)
(* received removes its temporary file.                                    *)
Fail(c) ==
    /\ pc[c] \in (Permitted \cup Unpermitted) \ {"forget"}
    /\ Go(c, "failed")
    /\ IF pc[c] = "unpack" THEN Drops(c, {"plain"}) ELSE UNCHANGED temp
    /\ UNCHANGED <<request, todo, files>>

(* The panel goes away and the handler is dropped at an await; tar is      *)
(* killed with it, a blocking write is not.                                *)
Drop(c) ==
    /\ pc[c] \in Permitted \cup Unpermitted \cup {"queued"}
    /\ Go(c, IF pc[c] = "writing" THEN "detached" ELSE "failed")
    /\ UNCHANGED <<request, temp, todo, files>>

(* The agent is killed: every call ends where it is.                       *)
Kill ==
    /\ kills < MaxKills /\ kills' = kills + 1
    /\ pc' = [c \in Calls |-> IF pc[c] \in {"new"} \cup Ended
                                THEN pc[c] ELSE "failed"]
    /\ UNCHANGED <<request, temp, todo, home, archive, meta, born, asked,
                   retired, made>>

-----------------------------------------------------------------------------
Step(c) ==
    \/ Acquire(c) \/ TarBegin(c) \/ TarEnd(c) \/ Encrypt(c)
    \/ PutArchive(c) \/ PutMetadata(c) \/ Find(c) \/ Download(c)
    \/ Decrypt(c) \/ Check(c) \/ Stamp(c) \/ WriteBegin(c) \/ WriteEnd(c)
    \/ ListSurplus(c) \/ RetireDone(c) \/ Confirm(c) \/ Locate(c)
    \/ Remove(c) \/ Unlink(c) \/ Forget(c) \/ ClearDone(c) \/ PackServer(c)
    \/ PackBackups(c) \/ Streamed(c) \/ Receive(c) \/ UnpackBegin(c) \/ UnpackEnd(c)
    \/ Unpacked(c) \/ Fail(c) \/ Drop(c)
    \/ \E b \in Backups : Retire(c, b) \/ ClearFile(c, b)

Next == (\E c \in Calls : Ask(c) \/ Step(c)) \/ Kill

Spec == Init /\ [][Next]_vars

-----------------------------------------------------------------------------
(* Properties.                                                             *)

(* The metadata of a remote backup is what makes it listed: whatever call  *)
(* is cut short where, a listed backup has its archive, unless the panel   *)
(* deleted it (a verification under way then writes the metadata again).   *)
RemoteListedIsWhole ==
    \A b \in RemoteList : archive[b] = "whole" \/ b \in asked

(* A create whose upload is complete finds its backup until it returns:    *)
(* only the panel can take it away, not the create's own retention.        *)
OwnBackupKept ==
    \A c \in Calls :
      Op(c) = "create" /\ Remote(c)
        /\ pc[c] \in {"find", "download", "decrypt", "check", "write",
                      "retain", "retire", "confirm"}
        => Restorable(c) \/ c \in asked

(* A backup that was reported as made keeps its archive and its metadata   *)
(* until the panel or the retention deletes it, whoever verifies,          *)
(* downloads, exports or is killed meanwhile.  (Metadata of a local backup *)
(* is torn while it is rewritten, for good if that write is cut short.)    *)
BackupKept ==
    \A b \in made \ (asked \cup retired) :
        /\ archive[b] = "whole" /\ meta[b] # "none"
        /\ home[b] = "s3" => meta[b] = "valid"

(* Retention takes a backup only if at least retention_count newer ones    *)
(* are there, or were until the panel deleted them, and when it is done at *)
(* most so many are listed.                                                *)
RetentionExact ==
    [][\A c \in Calls :
         pc[c] = "retire" =>
           /\ \A b \in retired' \ retired :
                Cardinality({a \in Backups : /\ home[a] = "s3"
                                             /\ born[a] > born[b]
                                             /\ Restorable(a) \/ a \in asked})
                  >= request[c].retention
           /\ pc'[c] = "confirm" =>
                Cardinality(RemoteList') <= request[c].retention]_vars
=============================================================================
