---------------------------- MODULE ArchiveStore ----------------------------
(***************************************************************************)
(* The archive cache (storage.rs, with its caller in http_api.rs).  A      *)
(* request looks for its archive in the bundled mirror and in the cache    *)
(* without a lock; on a miss a detached task takes the key's lock, looks   *)
(* again and downloads: temp file, fsync, rename, fsync of the directory.  *)
(* A file that was hashed once is remembered by its identity.              *)
(*                                                                         *)
(* A file's content is represented by its SHA-256 digest; a file identity  *)
(* (device, inode, size, mtime) by the number of files created before it.  *)
(* The environment answers downloads as it likes, disconnects clients,     *)
(* replaces or deletes cached files, lets the last write to a temp file    *)
(* fail unreported, and kills the process or the machine.                  *)
(***************************************************************************)
EXTENDS Integers, FiniteSets

CONSTANTS
  Keys,             \* archives
  Requests,         \* concurrent calls of the download handler
  Contents,         \* file contents, each standing for its own digest
  Announced,        \* Announced[k]: the checksums metadata may give for k
  Foreign,          \* contents an operator or a fault may put in the cache
  Oversize,         \* contents longer than max_archive_bytes
  HasBundle,        \* TF_PLUGIN_MIRROR_DIR is set
  MaxDownloads,     \* MAX_CONCURRENT_DOWNLOADS
  MaxVerified,      \* MAX_VERIFIED_ENTRIES
  MaxFiles,         \* bound: files created in a behaviour
  MaxCrashes,       \* bound: crashes in a behaviour
  Nobody, NoFile, NoEntry,
  Partial,          \* content of a file that is being written
  Short,            \* content of one whose last write has failed
  Unused            \* content of a file that does not exist yet

ASSUME StoreConstants ==
  /\ IsFiniteSet(Requests) /\ IsFiniteSet(Keys)
  /\ Keys # {} /\ Announced \in [Keys -> (SUBSET Contents) \ {{}}]
  /\ Foreign \subseteq Contents /\ Oversize \subseteq Contents
  /\ \A k \in Keys : Foreign \cap Announced[k] = {}
  /\ HasBundle \in BOOLEAN
  /\ {MaxDownloads, MaxVerified, MaxFiles, MaxCrashes} \subseteq Nat
  /\ MaxDownloads > 0 /\ MaxVerified > 0
  /\ Nobody \notin Requests /\ NoFile \notin 1..MaxFiles
  /\ {Partial, Short, Unused} \cap Contents = {}
  /\ Partial # Short /\ Partial # Unused /\ Short # Unused

Places == {"bundled", "cache"}
Paths == Keys \X Places
Files == 1..MaxFiles
Sums == UNION {Announced[k] : k \in Keys}
Entries == [id : Files, sum : Sums]
ASSUME NoEntryAssumption == NoEntry \notin [id : Files \cup {NoFile}, sum : Sums]

VARIABLES
  file,      \* file[p]: the file at path p
  durable,   \* durable[k]: the file at k's cache path after a power failure
  body,      \* body[f]: the content of f
  synced,    \* the files whose content was flushed to the disk
  temps,     \* the temp files on the disk
  stale,     \* those of them an earlier process has left
  born,      \* number of files created
  verified,  \* verified[p]: the identity and checksum remembered for p
  holder,    \* holder[k]: the request whose task holds k's lock
  permits,   \* available download permits
  up, crashes, tampered,   \* process is running; crashes; keys interfered with
  trusted,   \* history: the files this process cannot have seen the bytes of
             \* when it vouches for them
  pc, key, want, place, attached,   \* the request, and whether a client waits
  seen,      \* the file a stat or an open of this request has found
  temp       \* the temp file of the request's download

disk == <<file, durable, body, synced, temps, stale, born>>
local == <<key, want, place, seen>>
env == <<up, crashes, tampered, trusted>>
vars == <<disk, verified, holder, permits, env, pc, attached, local, temp>>

Lock == INSTANCE KeyMutex WITH Threads <- Requests

Checking == {"stat", "memo", "hash", "note"}
Downloading == {"create", "fetch", "sync", "rename", "syncdir", "restat", "record"}
Answering == {"open", "served", "ended"}
Stages == {"idle", "lock", "permit"} \cup Checking \cup Downloading \cup Answering

TypeOK ==
  /\ file \in [Paths -> Files \cup {NoFile}]
  /\ durable \in [Keys -> Files \cup {NoFile}]
  /\ body \in [Files -> Contents \cup {Partial, Short, Unused}]
  /\ synced \subseteq Files /\ temps \subseteq Files /\ stale \subseteq temps
  /\ born \in 0..MaxFiles
  /\ verified \in [Paths -> Entries \cup {NoEntry}]
  /\ Lock!TypeOK
  /\ permits \in 0..MaxDownloads
  /\ up \in BOOLEAN /\ crashes \in 0..MaxCrashes /\ tampered \subseteq Keys
  /\ trusted \subseteq Files
  /\ pc \in [Requests -> Stages]
  /\ key \in [Requests -> Keys] /\ place \in [Requests -> Places]
  /\ want \in [Requests -> Sums]
  /\ \A r \in Requests : want[r] \in Announced[key[r]]
  /\ attached \in [Requests -> BOOLEAN]
  /\ seen \in [Requests -> Files \cup {NoFile}]
  /\ temp \in [Requests -> Files \cup {NoFile}]

Dest(k) == <<k, "cache">>
Path(r) == <<key[r], place[r]>>

(* A regular file no longer than max_archive_bytes. *)
Readable(p) == file[p] # NoFile /\ body[file[p]] \notin Oversize
Locked(r) == holder[key[r]] = r
Owned == {temp[r] : r \in Requests} \ {NoFile}

(* A new file with content c: the next identity. *)
NewFile(c) ==
  /\ born < MaxFiles
  /\ born' = born + 1
  /\ body' = [body EXCEPT ![born + 1] = c]

AnyKey == CHOOSE k \in Keys : TRUE
AnySum(k) == CHOOSE d \in Announced[k] : TRUE

(* The first path load_or_fetch looks at. *)
FirstPlace == IF HasBundle THEN "bundled" ELSE "cache"

(* The cache directory may hold archives of an earlier run, whose metadata  *)
(* may have been different; the memory of verified files starts empty.      *)
Init ==
  /\ born \in 0..MaxFiles
  /\ file \in [Paths -> 1..born \cup {NoFile}]
  /\ \A f \in 1..born : \E p \in Paths : file[p] = f
  /\ \A p, q \in Paths : file[p] = file[q] /\ file[p] # NoFile => p = q
  /\ HasBundle \/ \A k \in Keys : file[<<k, "bundled">>] = NoFile
  /\ durable = [k \in Keys |-> file[Dest(k)]]
  /\ body \in [Files -> Contents \cup {Short, Unused}]
  /\ \A f \in Files : body[f] = Unused <=> f > born
  /\ synced = 1..born /\ temps = {} /\ stale = {}
  /\ verified = [p \in Paths |-> NoEntry]
  /\ Lock!Init
  /\ permits = MaxDownloads
  /\ up = TRUE /\ crashes = 0 /\ tampered = {} /\ trusted = {}
  /\ pc = [r \in Requests |-> "idle"]
  /\ key = [r \in Requests |-> AnyKey] /\ want = [r \in Requests |-> AnySum(AnyKey)]
  /\ place = [r \in Requests |-> "cache"]
  /\ attached = [r \in Requests |-> FALSE]
  /\ seen = [r \in Requests |-> NoFile]
  /\ temp = [r \in Requests |-> NoFile]

Goto(r, l) == pc' = [pc EXCEPT ![r] = l]
-----------------------------------------------------------------------------
(* record_verified: a full map is cleared before a new path is inserted. *)
Recorded(p, f, d) ==
  LET Full == Cardinality({q \in Paths : verified[q] # NoEntry}) >= MaxVerified
      base == IF Full /\ verified[p] = NoEntry THEN [q \in Paths |-> NoEntry]
                                               ELSE verified
  IN [base EXCEPT ![p] = [id |-> f, sum |-> d]]

(* Mutated FinishTask: the permit is forgotten on an error. *)
FinishTaskLosesPermit(r, result) ==
  /\ temps' = temps \ {temp[r]} /\ temp' = [temp EXCEPT ![r] = NoFile]
  /\ permits' = IF pc[r] \in Downloading /\ result = "open" THEN permits + 1 ELSE permits
  /\ Lock!Release(key[r], r)
  /\ Goto(r, IF attached[r] THEN result ELSE "ended")

(* Mutated FinishTask: no TempCleanup. *)
FinishTaskKeepsTemp(r, result) ==
  /\ UNCHANGED temps /\ temp' = [temp EXCEPT ![r] = NoFile]
  /\ permits' = IF pc[r] \in Downloading THEN permits + 1 ELSE permits
  /\ Lock!Release(key[r], r)
  /\ Goto(r, IF attached[r] THEN result ELSE "ended")

(* The task of r returns: the permit and the guard are dropped, a temp file *)
(* that was not renamed is removed, and the client, if it still waits, gets *)
(* the result.                                                              *)
FinishTask(r, result) ==
  /\ temps' = temps \ {temp[r]}
  /\ temp' = [temp EXCEPT ![r] = NoFile]
  /\ permits' = IF pc[r] \in Downloading THEN permits + 1 ELSE permits
  /\ Lock!Release(key[r], r)
  /\ Goto(r, IF attached[r] THEN result ELSE "ended")

(* archive_matches_checksum said yes: this path is the answer. *)
CheckSucceeds(r) ==
  \/ ~Locked(r) /\ Goto(r, "open") /\ UNCHANGED <<temps, temp, permits, holder>>
  \/ Locked(r) /\ FinishTask(r, "open")

(* download: the URL does not parse, or the wait for a permit begins, which *)
(* nothing but a permit ends.                                               *)
Download(r) ==
  \/ FinishTask(r, "ended")
  \/ Goto(r, "permit") /\ UNCHANGED <<temps, temp, permits, holder>>

(* It said no: the next path, then the task (tokio::spawn), then download. *)
CheckFails(r) ==
  /\ seen' = [seen EXCEPT ![r] = NoFile]
  /\ \/ /\ place[r] = "bundled"
        /\ place' = [place EXCEPT ![r] = "cache"]
        /\ Goto(r, "stat") /\ UNCHANGED <<temps, temp, permits, holder>>
     \/ /\ place[r] = "cache" /\ ~Locked(r)
        /\ Goto(r, "lock") /\ UNCHANGED <<place, temps, temp, permits, holder>>
     \/ /\ place[r] = "cache" /\ Locked(r)
        /\ Download(r) /\ UNCHANGED place

(* load_or_fetch is called with a valid key and checksum. *)
Start(r, k, d) ==
  /\ up /\ pc[r] = "idle"
  /\ key' = [key EXCEPT ![r] = k] /\ want' = [want EXCEPT ![r] = d]
  /\ place' = [place EXCEPT ![r] = FirstPlace]
  /\ attached' = [attached EXCEPT ![r] = TRUE]
  /\ Goto(r, "stat")
  /\ UNCHANGED <<disk, verified, holder, permits, env, seen, temp>>

(* validate_key, the filename comparison or expected_checksum refuse. *)
Refuse(r) ==
  /\ up /\ pc[r] = "idle"
  /\ attached' = [attached EXCEPT ![r] = TRUE]
  /\ Goto(r, "ended")
  /\ UNCHANGED <<disk, verified, holder, permits, env, local, temp>>

(* symlink_metadata(path) *)
Stat(r) ==
  /\ pc[r] = "stat"
  /\ \/ /\ Readable(Path(r))
        /\ seen' = [seen EXCEPT ![r] = file[Path(r)]]
        /\ Goto(r, "memo")
        /\ UNCHANGED <<place, temps, temp, permits, holder>>
     \/ /\ ~Readable(Path(r))
        /\ CheckFails(r)
  /\ UNCHANGED <<file, durable, body, synced, stale, born, verified, env, key,
                 want, attached>>

(* Mutated MemoHit: the identity alone decides. *)
MemoHitAnySum(r) == verified[Path(r)] # NoEntry /\ verified[Path(r)].id = seen[r]

(* The lookup in verified: identity and checksum must both be equal. *)
MemoHit(r) == verified[Path(r)] = [id |-> seen[r], sum |-> want[r]]

Memo(r) ==
  /\ pc[r] = "memo"
  /\ \/ MemoHit(r) /\ CheckSucceeds(r)
     \/ ~MemoHit(r) /\ Goto(r, "hash") /\ UNCHANGED <<temps, temp, permits, holder>>
  /\ UNCHANGED <<file, durable, body, synced, stale, born, verified, env, local, attached>>

(* hash_file: content and identity are those of the opened file. *)
Hash(r) ==
  /\ pc[r] = "hash"
  /\ \/ /\ Readable(Path(r))
        /\ seen' = [seen EXCEPT ![r] = file[Path(r)]]
     \/ /\ ~Readable(Path(r))
        /\ seen' = [seen EXCEPT ![r] = NoFile]
  /\ Goto(r, "note")
  /\ UNCHANGED <<disk, verified, holder, permits, env, key, want, place, attached, temp>>

(* Mutated Matches: any file that can be read will do. *)
MatchesAny(r) == seen[r] # NoFile

(* The checksum of the bytes that were hashed is the expected one. *)
Matches(r) == seen[r] # NoFile /\ body[seen[r]] = want[r]

(* The hash is compared and the memory of verified files updated. *)
Note(r) ==
  /\ pc[r] = "note"
  /\ \/ /\ Matches(r)
        /\ verified' = Recorded(Path(r), seen[r], want[r])
        /\ CheckSucceeds(r) /\ UNCHANGED <<place, seen>>
     \/ /\ ~Matches(r)
        /\ verified' = [verified EXCEPT ![Path(r)] = NoEntry]
        /\ CheckFails(r)
  /\ UNCHANGED <<file, durable, body, synced, stale, born, env, key, want, attached>>

(* Mutated TakeLock: no second look after waiting for the lock. *)
TakeLockAndDownload(r) ==
  /\ pc[r] = "lock"
  /\ Lock!Acquire(key[r], r)
  /\ Goto(r, "permit")
  /\ UNCHANGED <<disk, verified, permits, env, local, attached, temp>>

(* locked_load_or_fetch gets the lock and looks at both paths again. *)
TakeLock(r) ==
  /\ pc[r] = "lock"
  /\ Lock!Acquire(key[r], r)
  /\ place' = [place EXCEPT ![r] = FirstPlace]
  /\ Goto(r, "stat")
  /\ UNCHANGED <<disk, verified, permits, env, key, want, seen, attached, temp>>
-----------------------------------------------------------------------------
(* download *)
TakePermit(r) ==
  /\ pc[r] = "permit" /\ permits > 0
  /\ permits' = permits - 1
  /\ Goto(r, "create")
  /\ UNCHANGED <<disk, verified, holder, env, local, attached, temp>>

(* TempCleanup is armed, then the temp file is opened with create_new. *)
CreateTemp(r) ==
  /\ pc[r] = "create"
  /\ NewFile(Partial)
  /\ temps' = temps \cup {born'} /\ temp' = [temp EXCEPT ![r] = born']
  /\ Goto(r, "fetch")
  /\ UNCHANGED <<file, durable, synced, stale, verified, holder, permits, env, local,
                 attached>>

(* create_new fails on a temp file of the same name, left by a process with *)
(* the same id whose sweep at startup failed; the armed cleanup removes it. *)
TempNameTaken(r, f) ==
  /\ pc[r] = "create" /\ f \in stale
  /\ stale' = stale \ {f}
  /\ temps' = temps \ {f}
  /\ permits' = permits + 1
  /\ Lock!Release(key[r], r)
  /\ Goto(r, "ended")
  /\ UNCHANGED <<file, durable, body, synced, born, verified, env, local, attached, temp>>

(* Mutated Accepts: the checksum of the stream is not compared. *)
AcceptsAny(r, c) == c \notin Oversize

(* The stream is accepted: within the cap, and of the expected checksum.   *)
(* Any other stream, status or timeout is IoError.                         *)
Accepts(r, c) == c = want[r] /\ c \notin Oversize

(* The checksum is that of the stream.  write_all hands a chunk to a thread *)
(* and reports the failure of the chunk before; that of the last one        *)
(* neither sync_all nor anything else reports.                              *)
Fetch(r, c) ==
  /\ pc[r] = "fetch" /\ Accepts(r, c)
  /\ \/ body' = [body EXCEPT ![temp[r]] = c] /\ UNCHANGED trusted
     \/ body' = [body EXCEPT ![temp[r]] = Short] /\ trusted' = trusted \cup {temp[r]}
  /\ Goto(r, "sync")
  /\ UNCHANGED <<file, durable, synced, temps, stale, born, verified, holder, permits,
                 up, crashes, tampered, local, attached, temp>>

(* Mutated SyncTemp: no fsync before the rename. *)
SyncTempSkipped(r) ==
  /\ pc[r] = "sync"
  /\ Goto(r, "rename")
  /\ UNCHANGED <<disk, verified, holder, permits, env, local, attached, temp>>

(* file.sync_all() *)
SyncTemp(r) ==
  /\ pc[r] = "sync"
  /\ synced' = synced \cup {temp[r]}
  /\ Goto(r, "rename")
  /\ UNCHANGED <<file, durable, body, temps, stale, born, verified, holder, permits, env,
                 local, attached, temp>>

(* rename(temp, destination), and the cleanup is disarmed. *)
Rename(r) ==
  /\ pc[r] = "rename"
  /\ file' = [file EXCEPT ![Dest(key[r])] = temp[r]]
  /\ temps' = temps \ {temp[r]}
  /\ temp' = [temp EXCEPT ![r] = NoFile]
  /\ seen' = [seen EXCEPT ![r] = temp[r]]
  /\ Goto(r, "syncdir")
  /\ UNCHANGED <<durable, body, synced, stale, born, verified, holder, permits, env,
                 key, want, place, attached>>

(* sync_parent *)
SyncParent(r) ==
  /\ pc[r] = "syncdir"
  /\ durable' = [durable EXCEPT ![key[r]] = file[Dest(key[r])]]
  /\ Goto(r, "restat")
  /\ UNCHANGED <<file, body, synced, temps, stale, born, verified, holder, permits, env,
                 local, attached, temp>>

(* symlink_metadata(destination), whose identity will be remembered. *)
Restat(r) ==
  /\ pc[r] = "restat"
  /\ LET f == file[Dest(key[r])] IN
     \/ f # NoFile /\ seen' = [seen EXCEPT ![r] = f] /\ Goto(r, "record")
        /\ UNCHANGED <<temps, temp, permits, holder>>
     \/ FinishTask(r, "open") /\ UNCHANGED seen   \* nothing there, or an error
  /\ UNCHANGED <<file, durable, body, synced, stale, born, verified, env, key, want,
                 place, attached>>

Record(r) ==
  /\ pc[r] = "record"
  /\ verified' = Recorded(Dest(key[r]), seen[r], want[r])
  /\ FinishTask(r, "open")
  /\ UNCHANGED <<file, durable, body, synced, stale, born, env, local, attached>>
-----------------------------------------------------------------------------
(* An I/O operation fails with something other than NotFound, or upstream   *)
(* does not deliver the expected bytes in time: the `?` of every step.      *)
IoError(r) ==
  /\ \/ /\ pc[r] \in {"stat", "hash"} /\ ~Locked(r)
        /\ Goto(r, "ended")
        /\ UNCHANGED <<temps, temp, permits, holder>>
     \/ /\ Locked(r)
        /\ pc[r] \in {"stat", "hash", "create", "fetch", "sync", "rename", "syncdir"}
        /\ FinishTask(r, "ended")
  /\ UNCHANGED <<file, durable, body, synced, stale, born, verified, env, local, attached>>

(* The handler opens the path it was given and starts to stream it. *)
Open(r) ==
  /\ pc[r] = "open"
  /\ \/ /\ file[Path(r)] # NoFile
        /\ seen' = [seen EXCEPT ![r] = file[Path(r)]]
        /\ Goto(r, "served")
     \/ Goto(r, "ended") /\ UNCHANGED seen
  /\ UNCHANGED <<disk, verified, holder, permits, env, key, want, place, attached, temp>>

(* The response is complete, or dropped; the call's locals are gone. *)
Reply(r) ==
  /\ pc[r] \in {"served", "ended"}
  /\ Goto(r, "idle")
  /\ attached' = [attached EXCEPT ![r] = FALSE]
  /\ key' = [key EXCEPT ![r] = AnyKey] /\ want' = [want EXCEPT ![r] = AnySum(AnyKey)]
  /\ place' = [place EXCEPT ![r] = "cache"] /\ seen' = [seen EXCEPT ![r] = NoFile]
  /\ UNCHANGED <<disk, verified, holder, permits, env, temp>>

(* The client goes away: the handler's future is dropped where it stands,   *)
(* a spawned task goes on without it.                                       *)
Disconnect(r) ==
  /\ attached[r]
  /\ attached' = [attached EXCEPT ![r] = FALSE]
  /\ IF Locked(r) \/ pc[r] = "lock" THEN UNCHANGED pc ELSE Goto(r, "ended")
  /\ UNCHANGED <<disk, verified, holder, permits, env, local, temp>>

(* A download of k has renamed its file and not yet looked at the path again. *)
InWindow(k) == \E r \in Requests : key[r] = k /\ pc[r] \in {"syncdir", "restat"}

(* An operator or a fault changes the cache directory behind the server. *)
Replace(k, c) ==
  /\ k \notin tampered /\ c \in Foreign
  /\ NewFile(c)
  /\ trusted' = IF InWindow(k) THEN trusted \cup {born'} ELSE trusted
  /\ file' = [file EXCEPT ![Dest(k)] = born'] /\ durable' = [durable EXCEPT ![k] = born']
  /\ synced' = synced \cup {born'}
  /\ tampered' = tampered \cup {k}
  /\ UNCHANGED <<temps, stale, verified, holder, permits, up, crashes, pc, attached,
                 local, temp>>

Delete(k) ==
  /\ k \notin tampered /\ file[Dest(k)] # NoFile
  /\ file' = [file EXCEPT ![Dest(k)] = NoFile] /\ durable' = [durable EXCEPT ![k] = NoFile]
  /\ tampered' = tampered \cup {k}
  /\ UNCHANGED <<body, synced, temps, stale, born, verified, holder, permits, up, crashes,
                 trusted, pc, attached, local, temp>>

(* The process ends with everything it has in memory.  After a power        *)
(* failure the renames in `lost` that were not synced are undone, and data  *)
(* that was not synced is gone.                                             *)
Crash(power, lost) ==
  /\ up /\ crashes < MaxCrashes
  /\ up' = FALSE /\ crashes' = crashes + 1
  /\ LET undone == {k \in lost : file[Dest(k)] # durable[k]} IN
     /\ ~power => lost = {}
     /\ file' = [p \in Paths |-> IF p[2] = "cache" /\ p[1] \in undone
                                 THEN durable[p[1]] ELSE file[p]]
     /\ temps' = temps \cup ({file[Dest(k)] : k \in undone} \ {NoFile})
     /\ stale' = temps'
  /\ durable' = [k \in Keys |-> file'[Dest(k)]]
  /\ body' = [f \in Files |-> IF power /\ f <= born /\ f \notin synced
                              THEN Partial ELSE body[f]]
  /\ verified' = [p \in Paths |-> NoEntry] /\ trusted' = {}
  /\ holder' = [k \in Keys |-> Nobody]
  /\ permits' = MaxDownloads
  /\ pc' = [r \in Requests |-> "idle"]
  /\ attached' = [r \in Requests |-> FALSE]
  /\ temp' = [r \in Requests |-> NoFile]
  /\ key' = [r \in Requests |-> AnyKey] /\ want' = [r \in Requests |-> AnySum(AnyKey)]
  /\ place' = [r \in Requests |-> "cache"] /\ seen' = [r \in Requests |-> NoFile]
  /\ UNCHANGED <<synced, born, tampered>>

(* prepare_data_dir sweeps the temp files; when that fails some stay. *)
Restart(left) ==
  /\ ~up /\ left \subseteq temps
  /\ up' = TRUE
  /\ temps' = left /\ stale' = left
  /\ UNCHANGED <<file, durable, body, synced, born, verified, holder, permits, crashes,
                 tampered, trusted, pc, attached, local, temp>>

(* What the server does for r once it is called. *)
Step(r) ==
  \/ Stat(r) \/ Memo(r) \/ Hash(r) \/ Note(r) \/ TakeLock(r)
  \/ TakePermit(r) \/ CreateTemp(r) \/ \E f \in Files : TempNameTaken(r, f)
  \/ \E c \in Contents : Fetch(r, c)
  \/ SyncTemp(r) \/ Rename(r) \/ SyncParent(r) \/ Restat(r) \/ Record(r)
  \/ IoError(r) \/ Open(r) \/ Reply(r)

Next ==
  \/ \E r \in Requests :
       \/ \E k \in Keys : \E d \in Announced[k] : Start(r, k, d)
       \/ Refuse(r) \/ Step(r) \/ Disconnect(r)
  \/ \E k \in Keys : \/ \E c \in Contents : Replace(k, c)
                     \/ Delete(k)
  \/ \E power \in BOOLEAN, lost \in SUBSET Keys : Crash(power, lost)
  \/ \E left \in SUBSET temps : Restart(left)

(* Tasks are polled, every network operation has a timeout, the lock and    *)
(* the semaphore queue their waiters, and a supervisor restarts the server. *)
Fairness ==
  /\ \A r \in Requests : WF_vars(Step(r)) /\ SF_vars(TakeLock(r)) /\ SF_vars(TakePermit(r))
  /\ WF_vars(\E left \in SUBSET temps : Restart(left))

Spec == Init /\ [][Next]_vars /\ Fairness
-----------------------------------------------------------------------------
(* When load_or_fetch answers with a path, the file it last looked at there *)
(* has the checksum this request asked for: hashed now, hashed earlier and  *)
(* found in `verified`, or just downloaded.  The exceptions are files that  *)
(* this process vouches for without having seen their bytes.                *)
ReturnedFileVerified ==
  \A r \in Requests :
    pc[r] = "open" => seen[r] \in Files /\ (body[seen[r]] = want[r] \/ seen[r] \in trusted)

(* Whatever order hashing, downloading, clearing and forgetting interleave  *)
(* in, an entry of `verified` is true of the file it names, so a cache hit  *)
(* without hashing is as good as one with it.  Only a file that was cut     *)
(* short by a lost write, or put in place between a download's rename and   *)
(* its look at the path, can have a false entry, and none after a restart.  *)
MemoSound ==
  \A p \in Paths : verified[p] # NoEntry =>
    body[verified[p].id] = verified[p].sum \/ verified[p].id \in trusted

(* An archive whose cache nobody interfered with is only ever served with   *)
(* bytes that metadata announced for it, even when the file changed between *)
(* the check and the open, unless this very process downloaded the file and *)
(* its last write was lost: a file some earlier process cut short is not    *)
(* served.                                                                  *)
ServedBytesAnnounced ==
  \A r \in Requests : pc[r] = "served" /\ key[r] \notin tampered =>
    \/ body[seen[r]] \in Announced[key[r]]
    \/ body[seen[r]] = Short /\ seen[r] \in trusted

(* Each archive is downloaded once under concurrent requests: no download   *)
(* is started, or still running, while the cache has its result.            *)
NoRedundantDownload ==
  \A r \in Requests :
    pc[r] \in {"permit", "create", "fetch", "sync", "rename"} =>
      ~(Readable(Dest(key[r])) /\ body[file[Dest(key[r])]] = want[r])

(* What the cache shows, now and after a power failure at any point of a    *)
(* download, was written to its end and flushed before it was renamed: the  *)
(* failure neither shows a file still being written nor takes bytes away.   *)
CacheDurable ==
  \A k \in Keys : \A f \in {file[Dest(k)], durable[k]} \ {NoFile} :
    f \in synced /\ body[f] # Partial

(* Every exit of a download gives its permit back, and no more than that. *)
PermitsConserved ==
  permits + Cardinality({r \in Requests : pc[r] \in Downloading}) = MaxDownloads

(* A temp file on the disk belongs to a download in progress, or was left   *)
(* by an earlier process and is not swept yet (or could not be).            *)
TempsOwned == temps = Owned \cup stale

(* Every request is answered and every task ends: nobody waits forever for  *)
(* a lock, a permit or a client that has gone.                              *)
RequestEnds == \A r \in Requests : pc[r] # "idle" ~> pc[r] = "idle"

-----------------------------------------------------------------------------
(* The abstract cache: what files hold instead of their identities, and no  *)
(* stages, temp files, locks or permits.                                    *)
Bytes(f) == IF f = NoFile THEN {} ELSE {body[f]}
Held == [p \in Paths |-> Bytes(file[p])]
Kept == [k \in Keys |-> Bytes(durable[k])]
Calling == Stages \ {"idle", "served", "ended"}
Asked == [r \in Requests |-> IF pc[r] \in Calling THEN {<<key[r], want[r]>>} ELSE {}]

(* A call has found what it asks for when that is what its last look at a   *)
(* path has shown, or what it has downloaded, or when it is taken on trust. *)
Looked == {"memo", "hash", "note", "syncdir", "restat", "record", "open"}
Good(r) == seen[r] # NoFile /\ (body[seen[r]] = want[r] \/ seen[r] \in trusted)
Found == [r \in Requests |-> IF pc[r] \in Looked /\ Good(r) THEN {place[r]} ELSE {}]
Given == [r \in Requests |-> IF pc[r] = "served" THEN {body[seen[r]]} ELSE {}]
Unseen == {k \in Keys : file[Dest(k)] \in trusted}

Cache == INSTANCE ArchiveCache WITH
  held <- Held, kept <- Kept, asked <- Asked, found <- Found, given <- Given,
  touched <- tampered, unseen <- Unseen

(* The store implements the abstract cache: whatever fails, disconnects or  *)
(* crashes, an archive's place changes at once, to bytes that were asked    *)
(* for and that it did not have, or to bytes nobody has seen (a lost write, *)
(* a replacement that meets a download), which are taken on trust until the *)
(* process ends; a power failure brings back a former state and nothing     *)
(* half-written, and a client is served from a place where, after it had    *)
(* asked, the bytes it asked for were seen, or something was trusted.       *)
ImplementsArchiveCache == Cache!Spec
=============================================================================
