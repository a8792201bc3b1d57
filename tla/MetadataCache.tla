--------------------------- MODULE MetadataCache ---------------------------
(***************************************************************************)
(* Provider metadata (metadata.rs): the version index of each provider and *)
(* the platforms of each version, in memory, persisted as JSON, refreshed  *)
(* from the registry under per-key locks, with back-off after failures and *)
(* stale data served meanwhile.                                            *)
(*                                                                         *)
(* An index is a function from versions to the platforms listed for them;  *)
(* the metadata of a version is the set of platforms it knows a package    *)
(* of.  One clock stands for Instant and for SystemTime.  Corrupt JSON and *)
(* JSON that fails validation are one thing: Junk.                         *)
(***************************************************************************)
EXTENDS Integers, FiniteSets

CONSTANTS
  Callers,          \* concurrent requests
  Providers, Versions, Platforms,
  Listings,         \* the sets of platforms the registry may list
  Freshness,        \* the time an entry is fresh for
  Backoff,          \* refresh_backoff, also the retry of partial entries
  MaxFailures,      \* MAX_FAILURES
  MaxNow, MaxFaults, MaxDisconnects, MaxRestarts,   \* bounds; a fault is an
                    \* error of the registry or of the disk
  FirstRun,         \* is the data directory empty at the start?
  Operations,       \* the operations that are called
  Nobody, None, Junk

Ops == {"list", "version", "sync"}

ASSUME MetadataConstants ==
  /\ IsFiniteSet(Callers) /\ IsFiniteSet(Providers) /\ IsFiniteSet(Versions)
  /\ Listings \subseteq SUBSET Platforms /\ Listings # {}
  /\ {Freshness, Backoff, MaxFailures, MaxNow, MaxFaults, MaxDisconnects,
      MaxRestarts} \subseteq Nat
  /\ Freshness > 0 /\ Backoff > 0 /\ MaxFailures > 0
  /\ Nobody \notin Callers /\ Providers # {} /\ Versions # {}
  /\ Providers \cap (Providers \X Versions) = {}
  /\ FirstRun \in BOOLEAN /\ Operations \subseteq Ops

Keys == Providers \X Versions
Times == 0..MaxNow
RetryTimes == 0..(MaxNow + Backoff)   \* 0: no entry in the map of failures
Index == UNION {[S -> Listings] : S \in SUBSET Versions}
IndexEntry == [at : Times, complete : {TRUE}, list : Index]
VersionEntry == [at : Times, complete : BOOLEAN, platforms : SUBSET Platforms]
ASSUME NoneAssumption ==
  /\ {None, Junk} \cap (IndexEntry \cup VersionEntry) = {} /\ None # Junk
  /\ None \notin Int /\ None \notin Providers \cup Keys

VARIABLES
  now,
  pubAt,         \* pubAt[k]: when the registry published k, None if not yet
  indices, versions,           \* memory
  indexFile, versionFile,      \* disk
  late,          \* renames a dropped caller has left to the blocking pool
  cutShort,      \* history: providers whose index file a lost write cut short
  indexHolder, versionHolder,  \* the guards of index_locks and version_locks
  indexRetry, versionRetry, missRetry,   \* the maps of failures: retry_at
  syncing, failed, disconnects, restarts,   \* the flag; counts of faults
  pc, call,      \* the calls in progress and their locals
  lastMiss,      \* history: the last refresh for a missing version
  lastFail,      \* history: the last failed refresh of a provider's index
                 \* (None after a success) and of a version's metadata
  abandoned      \* history: providers whose index a dropped caller was writing

time == <<now, pubAt>>
memory == <<indices, versions>>
disk == <<indexFile, versionFile, late, cutShort>>
locks == <<indexHolder, versionHolder>>
retries == <<indexRetry, versionRetry, missRetry>>
faults == <<failed, disconnects, restarts, abandoned>>
vars == <<time, memory, disk, locks, retries, syncing, faults, pc, call, lastMiss, lastFail>>

ILock == INSTANCE KeyMutex WITH Keys <- Providers, Threads <- Callers, holder <- indexHolder
VLock == INSTANCE KeyMutex WITH Threads <- Callers, holder <- versionHolder

Refreshing == {"fetchindex", "writeindex", "syncindex"}
Stages == {"idle", "version", "versionlock", "loadversion", "index", "indexlock",
           "loadindex", "find", "missed", "packages", "writeversion", "syncversion",
           "versionfailed", "nextprovider", "done"} \cup Refreshing

(* why: the index is loaded, refreshed for a missing version, or synced;    *)
(* index: the index in hand of refresh_version; entry: what is about to be  *)
(* written; todo: the providers left to sync; result: of the call, or the   *)
(* error on its way up: `missing` is MetadataError::NotFound, which         *)
(* map_registry also makes of a 404 of the registry.                        *)
Errors == {"missing", "transient", "final"}
Calls ==
  [op : Ops, prov : Providers, ver : Versions,
   why : {"load", "miss", "sync"}, index : Index,
   entry : IndexEntry \cup VersionEntry \cup {None}, todo : SUBSET Providers,
   result : {"none", "ok", "conflict"} \cup Errors]

TypeOK ==
  /\ now \in Times /\ pubAt \in [Keys -> Times \cup {None}]
  /\ indices \in [Providers -> IndexEntry \cup {None}]
  /\ versions \in [Keys -> VersionEntry \cup {None}]
  /\ indexFile \in [Providers -> IndexEntry \cup {None, Junk}]
  /\ versionFile \in [Keys -> VersionEntry \cup {None, Junk}]
  /\ late \subseteq (Providers \X (IndexEntry \cup {Junk})) \cup (Keys \X (VersionEntry \cup {Junk}))
  /\ cutShort \subseteq Providers
  /\ ILock!TypeOK /\ VLock!TypeOK
  /\ indexRetry \in [Providers -> RetryTimes] /\ missRetry \in [Providers -> RetryTimes]
  /\ versionRetry \in [Keys -> RetryTimes]
  /\ syncing \in BOOLEAN
  /\ failed \in 0..MaxFaults /\ disconnects \in 0..MaxDisconnects /\ restarts \in 0..MaxRestarts
  /\ pc \in [Callers -> Stages] /\ call \in [Callers -> Calls]
  /\ lastMiss \in [Providers -> Times \cup {None}]
  /\ lastFail \in [Providers \cup Keys -> Times \cup {None}]
  /\ abandoned \subseteq Providers

Prov(c) == call[c].prov
Key(c) == <<call[c].prov, call[c].ver>>
NoVersions == [v \in {} |-> {}]
Published(p) == {v \in Versions : pubAt[<<p, v>>] # None}

(* CacheEntry::fresh *)
Fresh(e) == e # None /\ now - e.at < (IF e.complete THEN Freshness ELSE Backoff)

(* refresh_allowed *)
Allowed(failures, k) == now >= failures[k]

(* Mutated Recorded: the back-off is added twice. *)
RecordedTwice(failures, k) == {[failures EXCEPT ![k] = now + 2 * Backoff]}

(* record_refresh_failure: entries that have run out go, then one of the    *)
(* oldest if the map is still full; which of several is not determined.     *)
Recorded(failures, k) ==
  LET live == {j \in DOMAIN failures : failures[j] > now}
      oldest == IF Cardinality(live) < MaxFailures THEN {None}
                ELSE {j \in live : \A i \in live : failures[j] <= failures[i]}
  IN {[j \in DOMAIN failures |-> IF j = k THEN now + Backoff
                                 ELSE IF j \in live \ {o} THEN failures[j] ELSE 0] : o \in oldest}

(* Mutated Noted: failures are not recorded. *)
NotedNever(failures, k, error) == {failures}

(* should_backoff *)
Noted(failures, k, error) ==
  IF error = "transient" THEN Recorded(failures, k) ELSE {failures}

Cleared(failures, k) == [failures EXCEPT ![k] = 0]

(* What read_json and validation leave of a file. *)
Read(f) == IF f = Junk THEN None ELSE f

(* Mutated OnHand: the disk is preferred to memory. *)
OnHandFromDisk(e, f) == IF Read(f) = None THEN e ELSE Read(f)

(* A lookup under the lock reads the file only if memory has nothing. *)
OnHand(e, f) == IF e = None THEN Read(f) ELSE e

NoCall == [op |-> "list", prov |-> CHOOSE p \in Providers : TRUE,
           ver |-> CHOOSE v \in Versions : TRUE, why |-> "load", index |-> NoVersions,
           entry |-> None, todo |-> {}, result |-> "none"]

(* The data directory may hold the metadata of an earlier run.  At startup  *)
(* discover_indices loads the indexes it can read.                          *)
Init ==
  /\ now = 0
  /\ pubAt \in [Keys -> {0, None}]
  /\ indexFile \in [Providers -> [at : {0}, complete : {TRUE}, list : Index] \cup {None, Junk}]
  /\ \A p \in Providers : Read(indexFile[p]) # None => DOMAIN indexFile[p].list = Published(p)
  /\ versionFile \in [Keys -> [at : {0}, complete : BOOLEAN, platforms : SUBSET Platforms]
                              \cup {None, Junk}]
  /\ \A k \in Keys : Read(versionFile[k]) # None => pubAt[k] # None
  /\ FirstRun => /\ indexFile = [p \in Providers |-> None]
                 /\ versionFile = [k \in Keys |-> None]
  /\ indices = [p \in Providers |-> Read(indexFile[p])]
  /\ versions = [k \in Keys |-> None]
  /\ late = {} /\ cutShort = {}
  /\ ILock!Init /\ VLock!Init
  /\ indexRetry = [p \in Providers |-> 0] /\ missRetry = [p \in Providers |-> 0]
  /\ versionRetry = [k \in Keys |-> 0]
  /\ syncing = FALSE /\ failed = 0 /\ disconnects = 0 /\ restarts = 0
  /\ pc = [c \in Callers |-> "idle"] /\ call = [c \in Callers |-> NoCall]
  /\ lastMiss = [p \in Providers |-> None] /\ lastFail = [x \in Providers \cup Keys |-> None]
  /\ abandoned = {}

Goto(c, l) == pc' = [pc EXCEPT ![c] = l]
Proceed(c, l) == Goto(c, l) /\ UNCHANGED call
Return(c, r) == Goto(c, "done") /\ call' = [call EXCEPT ![c] = [NoCall EXCEPT !.result = r]]

(* refresh_version returns an error. *)
Abandon(c, error) ==
  /\ Goto(c, "versionfailed")
  /\ call' = [call EXCEPT ![c].index = NoVersions, ![c].entry = None, ![c].why = "load",
                          ![c].result = error]

(* The registry or the disk fails. *)
Fault ==
  /\ failed < MaxFaults /\ failed' = failed + 1
  /\ UNCHANGED <<disconnects, restarts, abandoned>>
-----------------------------------------------------------------------------
(* list_versions, get_version (and get_platform_by_archive) with a valid    *)
(* address of an allowed registry; with any other the call ends at once.    *)
List(c, p) ==
  /\ "list" \in Operations /\ pc[c] = "idle" /\ Goto(c, "index")
  /\ call' = [call EXCEPT ![c].prov = p]
  /\ UNCHANGED <<time, memory, disk, locks, retries, syncing, faults, lastMiss, lastFail>>

GetVersion(c, k) ==
  /\ "version" \in Operations /\ pc[c] = "idle" /\ Goto(c, "version")
  /\ call' = [call EXCEPT ![c].op = "version", ![c].prov = k[1], ![c].ver = k[2]]
  /\ UNCHANGED <<time, memory, disk, locks, retries, syncing, faults, lastMiss, lastFail>>

Refuse(c) ==
  /\ pc[c] = "idle" /\ Return(c, "final")
  /\ UNCHANGED <<time, memory, disk, locks, retries, syncing, faults, lastMiss, lastFail>>

(* sync_known: one at a time, over the providers known when it starts. *)
Sync(c) ==
  /\ "sync" \in Operations /\ pc[c] = "idle"
  /\ \/ syncing /\ Return(c, "conflict") /\ UNCHANGED syncing
     \/ /\ ~syncing /\ syncing' = TRUE /\ Goto(c, "nextprovider")
        /\ call' = [call EXCEPT ![c].op = "sync", ![c].why = "sync",
                                ![c].todo = {p \in Providers : indices[p] # None}]
  /\ UNCHANGED <<time, memory, disk, locks, retries, faults, lastMiss, lastFail>>

NextProvider(c) ==
  /\ pc[c] = "nextprovider"
  /\ \/ /\ call[c].todo = {}
        /\ Return(c, IF call[c].result = "none" THEN "ok" ELSE call[c].result)
        /\ syncing' = FALSE
     \/ \E p \in call[c].todo :
          /\ call' = [call EXCEPT ![c].prov = p, ![c].todo = @ \ {p}]
          /\ Goto(c, "indexlock") /\ UNCHANGED syncing
  /\ UNCHANGED <<time, memory, disk, locks, retries, faults, lastMiss, lastFail>>
-----------------------------------------------------------------------------
(* load_version *)
LookVersion(c) ==
  /\ pc[c] = "version"
  /\ \/ Fresh(versions[Key(c)]) /\ Return(c, "ok")
     \/ ~Fresh(versions[Key(c)]) /\ Proceed(c, "versionlock")
  /\ UNCHANGED <<time, memory, disk, locks, retries, syncing, faults, lastMiss, lastFail>>

TakeVersionLock(c) ==
  /\ pc[c] = "versionlock" /\ VLock!Acquire(Key(c), c)
  /\ Proceed(c, "loadversion")
  /\ UNCHANGED <<time, memory, disk, indexHolder, retries, syncing, faults, lastMiss, lastFail>>

(* Under the lock: look again, at the disk too, and mind the back-off. *)
LoadVersion(c) ==
  LET k == Key(c)
      e == OnHand(versions[k], versionFile[k])
  IN
  /\ pc[c] = "loadversion"
  /\ versions' = [versions EXCEPT ![k] = e]
  /\ \/ /\ Fresh(e) \/ (e # None /\ ~Allowed(versionRetry, k))
        /\ Return(c, "ok") /\ VLock!Release(k, c)
     \/ /\ e = None /\ ~Allowed(versionRetry, k)
        /\ Return(c, "transient") /\ VLock!Release(k, c)
     \/ /\ ~Fresh(e) /\ Allowed(versionRetry, k)
        /\ Proceed(c, "index") /\ UNCHANGED versionHolder
  /\ UNCHANGED <<time, indices, disk, indexHolder, retries, syncing, faults, lastMiss, lastFail>>

(* Mutated VersionUnreadable: the error path keeps the guard. *)
VersionUnreadableKeepsLock(c) ==
  /\ Fault /\ pc[c] = "loadversion" /\ versions[Key(c)] = None
  /\ Return(c, "transient")
  /\ UNCHANGED <<time, memory, disk, locks, retries, syncing, lastMiss, lastFail>>

(* read_json fails: the error is returned as it is. *)
VersionUnreadable(c) ==
  /\ Fault /\ pc[c] = "loadversion" /\ versions[Key(c)] = None
  /\ Return(c, "transient") /\ VLock!Release(Key(c), c)
  /\ UNCHANGED <<time, memory, disk, indexHolder, retries, syncing, lastMiss, lastFail>>
-----------------------------------------------------------------------------
(* load_index returns an index, or an error. *)
HaveIndex(c, value) ==
  \/ call[c].op = "list" /\ Return(c, "ok")
  \/ /\ call[c].op = "version"
     /\ Goto(c, "find") /\ call' = [call EXCEPT ![c].index = value, ![c].entry = None]

IndexError(c, error) ==
  \/ call[c].op = "list" /\ Return(c, error)
  \/ call[c].op = "version" /\ Abandon(c, error)

LookIndex(c) ==
  /\ pc[c] = "index"
  /\ \/ Fresh(indices[Prov(c)]) /\ HaveIndex(c, indices[Prov(c)].list)
     \/ ~Fresh(indices[Prov(c)]) /\ Proceed(c, "indexlock")
  /\ UNCHANGED <<time, memory, disk, locks, retries, syncing, faults, lastMiss, lastFail>>

(* Mutated TakeIndexLock: no second look after waiting. *)
TakeIndexLockAndFetch(c) ==
  /\ pc[c] = "indexlock" /\ ILock!Acquire(Prov(c), c)
  /\ Proceed(c, IF call[c].why = "miss" THEN "missed" ELSE "fetchindex")
  /\ UNCHANGED <<time, memory, disk, versionHolder, retries, syncing, faults, lastMiss, lastFail>>

(* index_locks: load_index, the refresh for a missing version, sync_known. *)
TakeIndexLock(c) ==
  /\ pc[c] = "indexlock" /\ ILock!Acquire(Prov(c), c)
  /\ Proceed(c, CASE call[c].why = "load" -> "loadindex"
                  [] call[c].why = "miss" -> "missed"
                  [] call[c].why = "sync" -> "fetchindex")
  /\ UNCHANGED <<time, memory, disk, versionHolder, retries, syncing, faults, lastMiss, lastFail>>

LoadIndex(c) ==
  LET p == Prov(c)
      e == OnHand(indices[p], indexFile[p])
  IN
  /\ pc[c] = "loadindex"
  /\ indices' = [indices EXCEPT ![p] = e]
  /\ \/ /\ Fresh(e) \/ (e # None /\ ~Allowed(indexRetry, p))
        /\ HaveIndex(c, e.list) /\ ILock!Release(p, c)
     \/ /\ e = None /\ ~Allowed(indexRetry, p)
        /\ IndexError(c, "transient") /\ ILock!Release(p, c)
     \/ /\ ~Fresh(e) /\ Allowed(indexRetry, p)
        /\ Proceed(c, "fetchindex") /\ UNCHANGED indexHolder
  /\ UNCHANGED <<time, versions, disk, versionHolder, retries, syncing, faults, lastMiss, lastFail>>

IndexUnreadable(c) ==
  /\ Fault /\ pc[c] = "loadindex" /\ indices[Prov(c)] = None
  /\ IndexError(c, "transient") /\ ILock!Release(Prov(c), c)
  /\ UNCHANGED <<time, memory, disk, versionHolder, retries, syncing, lastMiss, lastFail>>
-----------------------------------------------------------------------------
(* refresh_index_unlocked: what the registry has published, as of now. *)
FetchIndex(c, value) ==
  /\ pc[c] = "fetchindex" /\ DOMAIN value = Published(Prov(c))
  /\ call' = [call EXCEPT ![c].entry = [at |-> now, complete |-> TRUE, list |-> value]]
  /\ Goto(c, "writeindex")
  /\ UNCHANGED <<time, memory, disk, locks, retries, syncing, faults, lastMiss, lastFail>>

(* Mutated WriteIndex: memory will be updated and the disk not. *)
WriteIndexLost(c) ==
  /\ pc[c] = "writeindex" /\ Proceed(c, "syncindex")
  /\ UNCHANGED <<time, memory, disk, locks, retries, syncing, faults, lastMiss, lastFail>>

(* What write_json_atomic gives its file: the entry, or what is left of it  *)
(* when the last write fails, which neither sync_all nor anything else      *)
(* reports.                                                                 *)
Contents(c) == {call[c].entry, Junk}

(* The index file of p has a new content. *)
CutShort(p, content) ==
  cutShort' = IF content = Junk THEN cutShort \cup {p} ELSE cutShort \ {p}

(* write_json_atomic up to its rename *)
WriteIndex(c) ==
  /\ pc[c] = "writeindex"
  /\ \E content \in Contents(c) :
       /\ IF content = Junk THEN Fault ELSE UNCHANGED faults
       /\ indexFile' = [indexFile EXCEPT ![Prov(c)] = content] /\ CutShort(Prov(c), content)
  /\ Proceed(c, "syncindex")
  /\ UNCHANGED <<time, memory, versionFile, late, locks, retries, syncing, lastMiss, lastFail>>

(* refresh_version looks its version up in the index value. *)
Choose(c, value) ==
  \/ /\ call[c].ver \in DOMAIN value /\ Goto(c, "packages")
     /\ call' = [call EXCEPT ![c].index = value, ![c].why = "load", ![c].entry = None]
  \/ call[c].ver \notin DOMAIN value /\ Abandon(c, "missing")

(* The directory is synced and memory updated; the caller goes on. *)
StoreIndex(c) ==
  LET p == Prov(c) IN
  /\ pc[c] = "syncindex"
  /\ indices' = [indices EXCEPT ![p] = call[c].entry]
  /\ indexRetry' = Cleared(indexRetry, p) /\ lastFail' = [lastFail EXCEPT ![p] = None]
  /\ ILock!Release(p, c)
  /\ \/ call[c].why = "load" /\ HaveIndex(c, call[c].entry.list)
     \/ call[c].why = "miss" /\ Choose(c, call[c].entry.list)
     \/ /\ call[c].why = "sync" /\ Goto(c, "nextprovider")
        /\ call' = [call EXCEPT ![c].entry = None]
  /\ UNCHANGED <<time, versions, disk, versionHolder, versionRetry, missRetry, syncing, faults,
                 lastMiss>>

(* The registry or the disk fails, or the registry knows no such provider;  *)
(* load_index falls back on what it has.                                    *)
FailIndex(c, error) ==
  LET p == Prov(c) IN
  /\ Fault /\ pc[c] \in Refreshing /\ (error # "transient" => pc[c] = "fetchindex")
  /\ indexRetry' \in Noted(indexRetry, p, error)
  /\ lastFail' = IF error = "transient" THEN [lastFail EXCEPT ![p] = now] ELSE lastFail
  /\ ILock!Release(p, c)
  /\ \/ call[c].why = "load" /\ indices[p] # None /\ HaveIndex(c, indices[p].list)
     \/ call[c].why = "load" /\ indices[p] = None /\ IndexError(c, error)
     \/ call[c].why = "miss" /\ IndexError(c, error)
     \/ /\ call[c].why = "sync" /\ Goto(c, "nextprovider")
        /\ call' = [call EXCEPT ![c].entry = None, ![c].result = "transient"]   \* SyncFailed
  /\ UNCHANGED <<time, memory, disk, versionHolder, versionRetry, missRetry, syncing, lastMiss>>
-----------------------------------------------------------------------------
(* Mutated NeedsRefresh: without the back-off. *)
NeedsRefreshAlways(c, value) == call[c].ver \notin DOMAIN value

(* Mutated NeedsRefresh: a missing version is no reason to refresh. *)
NeedsRefreshNever(c, value) == FALSE

(* A version that is not in the index is a reason to refresh it, unless     *)
(* that was done, or has failed, a short time ago.                          *)
NeedsRefresh(c, value) ==
  /\ call[c].ver \notin DOMAIN value
  /\ Allowed(missRetry, Prov(c)) /\ Allowed(indexRetry, Prov(c))

(* refresh_version has an index. *)
FindVersion(c) ==
  /\ pc[c] = "find"
  /\ IF NeedsRefresh(c, call[c].index)
     THEN Goto(c, "indexlock") /\ call' = [call EXCEPT ![c].why = "miss"]
     ELSE Choose(c, call[c].index)
  /\ UNCHANGED <<time, memory, disk, locks, retries, syncing, faults, lastMiss, lastFail>>

(* Under the lock of the index: look again before asking the registry. *)
Missed(c) ==
  LET p == Prov(c)
      value == IF indices[p] = None THEN call[c].index ELSE indices[p].list
  IN
  /\ pc[c] = "missed"
  /\ \/ /\ NeedsRefresh(c, value)
        /\ missRetry' \in Recorded(missRetry, p)
        /\ lastMiss' = [lastMiss EXCEPT ![p] = now]
        /\ Proceed(c, "fetchindex") /\ UNCHANGED indexHolder
     \/ /\ ~NeedsRefresh(c, value)
        /\ Choose(c, value) /\ ILock!Release(p, c)
        /\ UNCHANGED <<missRetry, lastMiss>>
  /\ UNCHANGED <<time, memory, disk, versionHolder, indexRetry, versionRetry, syncing, faults,
                 lastFail>>

(* Mutated Merged: the cache is not consulted. *)
MergedFresh(c, good) == good

(* The packages of the platforms in good arrive, the others fail, the first *)
(* of them with error.  What is in the cache of a platform that is still    *)
(* listed stays.                                                            *)
Merged(c, good) ==
  LET listed == call[c].index[call[c].ver]
      cached == versions[Key(c)]
  IN good \cup (IF cached = None THEN {} ELSE listed \cap cached.platforms)

FetchPackages(c, good, error) ==
  LET listed == call[c].index[call[c].ver] IN
  /\ pc[c] = "packages" /\ good \subseteq listed
  /\ IF good = listed THEN UNCHANGED faults ELSE Fault
  /\ \/ /\ Merged(c, good) = {} /\ good # listed
        /\ Abandon(c, error)
     \/ /\ Merged(c, good) # {} \/ good = listed
        /\ Goto(c, "writeversion")
        /\ call' = [call EXCEPT ![c].entry = [at |-> now, complete |-> good = listed,
                                              platforms |-> Merged(c, good)]]
  /\ UNCHANGED <<time, memory, disk, locks, retries, syncing, lastMiss, lastFail>>

WriteVersion(c) ==
  /\ pc[c] = "writeversion"
  /\ \E content \in Contents(c) :
       /\ IF content = Junk THEN Fault ELSE UNCHANGED faults
       /\ versionFile' = [versionFile EXCEPT ![Key(c)] = content]
  /\ Proceed(c, "syncversion")
  /\ UNCHANGED <<time, memory, indexFile, late, cutShort, locks, retries, syncing, lastMiss,
                 lastFail>>

StoreVersion(c) ==
  LET k == Key(c) IN
  /\ pc[c] = "syncversion"
  /\ versions' = [versions EXCEPT ![k] = call[c].entry]
  /\ versionRetry' = Cleared(versionRetry, k)
  /\ Return(c, "ok") /\ VLock!Release(k, c)
  /\ UNCHANGED <<time, indices, disk, indexHolder, indexRetry, missRetry, syncing, faults,
                 lastMiss, lastFail>>

VersionNotWritten(c) ==
  /\ Fault /\ pc[c] \in {"writeversion", "syncversion"}
  /\ Abandon(c, "transient")
  /\ UNCHANGED <<time, memory, disk, locks, retries, syncing, lastMiss, lastFail>>

(* Mutated FailVersion: no fallback. *)
FailVersionHard(c) ==
  /\ pc[c] = "versionfailed"
  /\ versionRetry' \in Noted(versionRetry, Key(c), call[c].result)
  /\ Return(c, call[c].result) /\ VLock!Release(Key(c), c)
  /\ UNCHANGED <<time, memory, disk, indexHolder, indexRetry, missRetry, syncing, faults,
                 lastMiss, lastFail>>

(* refresh_version has failed: stale metadata is better than none. *)
FailVersion(c) ==
  LET k == Key(c) IN
  /\ pc[c] = "versionfailed"
  /\ versionRetry' \in Noted(versionRetry, k, call[c].result)
  /\ lastFail' = IF call[c].result = "transient" THEN [lastFail EXCEPT ![k] = now] ELSE lastFail
  /\ Return(c, IF versions[k] = None THEN call[c].result ELSE "ok")
  /\ VLock!Release(k, c)
  /\ UNCHANGED <<time, memory, disk, indexHolder, indexRetry, missRetry, syncing, faults,
                 lastMiss>>
-----------------------------------------------------------------------------
Reply(c) ==
  /\ pc[c] = "done"
  /\ Goto(c, "idle") /\ call' = [call EXCEPT ![c] = NoCall]
  /\ UNCHANGED <<time, memory, disk, locks, retries, syncing, faults, lastMiss, lastFail>>

(* Mutated Reset: the flag stays up. *)
ResetForgotten(c) == UNCHANGED syncing

(* Drop of sync_known's Reset *)
Reset(c) == syncing' = (syncing /\ ~(call[c].op = "sync" /\ pc[c] # "done"))

(* The client goes away: the future is dropped with its guards and the      *)
(* Reset of sync_known.  A rename already given to the blocking pool will   *)
(* still happen, also that of a file whose last write was lost.             *)
Disconnect(c) ==
  /\ pc[c] # "idle" /\ disconnects < MaxDisconnects
  /\ disconnects' = disconnects + 1
  /\ indexHolder' = [p \in Providers |-> IF indexHolder[p] = c THEN Nobody ELSE indexHolder[p]]
  /\ versionHolder' = [k \in Keys |-> IF versionHolder[k] = c THEN Nobody ELSE versionHolder[k]]
  /\ Reset(c)
  /\ \/ UNCHANGED <<late, abandoned, failed>>
     \/ \E content \in Contents(c) :
          /\ IF content = Junk THEN failed < MaxFaults /\ failed' = failed + 1 ELSE UNCHANGED failed
          /\ \/ /\ pc[c] = "writeindex" /\ late' = late \cup {<<Prov(c), content>>}
                /\ abandoned' = abandoned \cup {Prov(c)}
             \/ /\ pc[c] = "writeversion" /\ late' = late \cup {<<Key(c), content>>}
                /\ UNCHANGED abandoned
  /\ Goto(c, "idle") /\ call' = [call EXCEPT ![c] = NoCall]
  /\ UNCHANGED <<time, memory, indexFile, versionFile, cutShort, retries, restarts, lastMiss,
                 lastFail>>

LateRename(target, entry) ==
  /\ <<target, entry>> \in late /\ late' = late \ {<<target, entry>>}
  /\ \/ /\ target \in Providers /\ indexFile' = [indexFile EXCEPT ![target] = entry]
        /\ CutShort(target, entry) /\ UNCHANGED versionFile
     \/ /\ target \in Keys /\ versionFile' = [versionFile EXCEPT ![target] = entry]
        /\ UNCHANGED <<indexFile, cutShort>>
  /\ UNCHANGED <<time, memory, locks, retries, syncing, faults, pc, call, lastMiss, lastFail>>

(* The process ends and is started again on what is on the disk. *)
Restart ==
  /\ restarts < MaxRestarts /\ restarts' = restarts + 1
  /\ indices' = [p \in Providers |-> Read(indexFile[p])]
  /\ versions' = [k \in Keys |-> None]
  /\ late' = {}
  /\ indexHolder' = [p \in Providers |-> Nobody] /\ versionHolder' = [k \in Keys |-> Nobody]
  /\ indexRetry' = [p \in Providers |-> 0] /\ missRetry' = [p \in Providers |-> 0]
  /\ versionRetry' = [k \in Keys |-> 0]
  /\ syncing' = FALSE
  /\ pc' = [c \in Callers |-> "idle"] /\ call' = [c \in Callers |-> NoCall]
  /\ lastMiss' = [p \in Providers |-> None] /\ lastFail' = [x \in Providers \cup Keys |-> None]
  /\ UNCHANGED <<time, indexFile, versionFile, cutShort, failed, disconnects, abandoned>>

Tick ==
  /\ now < MaxNow /\ now' = now + 1
  /\ UNCHANGED <<pubAt, memory, disk, locks, retries, syncing, faults, pc, call, lastMiss, lastFail>>

(* The registry publishes a version. *)
Publish(k) ==
  /\ pubAt[k] = None /\ pubAt' = [pubAt EXCEPT ![k] = now]
  /\ UNCHANGED <<now, memory, disk, locks, retries, syncing, faults, pc, call, lastMiss, lastFail>>

(* What the server does for caller c. *)
Step(c) ==
  \/ NextProvider(c) \/ LookVersion(c) \/ TakeVersionLock(c) \/ LoadVersion(c)
  \/ VersionUnreadable(c) \/ LookIndex(c) \/ TakeIndexLock(c) \/ LoadIndex(c)
  \/ IndexUnreadable(c) \/ \E value \in Index : FetchIndex(c, value)
  \/ WriteIndex(c) \/ StoreIndex(c) \/ \E error \in Errors : FailIndex(c, error)
  \/ FindVersion(c) \/ Missed(c)
  \/ \E good \in SUBSET Platforms, error \in Errors : FetchPackages(c, good, error)
  \/ WriteVersion(c) \/ StoreVersion(c) \/ VersionNotWritten(c) \/ FailVersion(c) \/ Reply(c)

Next ==
  \/ \E c \in Callers :
       \/ \E p \in Providers : List(c, p)
       \/ \E k \in Keys : GetVersion(c, k)
       \/ Refuse(c) \/ Sync(c) \/ Step(c) \/ Disconnect(c)
  \/ \E x \in late : LateRename(x[1], x[2])
  \/ Restart \/ Tick \/ \E k \in Keys : Publish(k)

(* Tasks are polled, requests to the registry have a timeout, and a tokio   *)
(* mutex queues its waiters.                                                *)
Fairness ==
  \A c \in Callers :
    WF_vars(Step(c)) /\ SF_vars(TakeIndexLock(c)) /\ SF_vars(TakeVersionLock(c))

Spec == Init /\ [][Next]_vars /\ Fairness
-----------------------------------------------------------------------------
Recent(t) == t # None /\ now < t + Backoff

(* A lookup that asks the registry has nothing fresh: callers that waited   *)
(* for the lock share the answer the first of them got.                     *)
SharedRefresh ==
  \A c \in Callers :
    /\ pc[c] \in Refreshing /\ call[c].why = "load" => ~Fresh(indices[Prov(c)])
    /\ call[c].op = "version" /\ versionHolder[Key(c)] = c => ~Fresh(versions[Key(c)])
         \/ pc[c] = "loadversion"

(* The index in memory never goes back to an older one while the server     *)
(* runs, whatever renames of dropped callers do to the file.                *)
IndexMovesForward ==
  [][\A p \in Providers : indices[p] # None /\ restarts' = restarts =>
       indices'[p] # None /\ indices'[p].at >= indices[p].at]_vars

(* A restart finds every known provider again, with an index as recent as   *)
(* the one that was served, unless a caller was dropped in mid-write or the *)
(* last write of the file has failed unreported.                            *)
KnownIsPersisted ==
  \A p \in Providers : indices[p] # None /\ p \notin cutShort =>
    /\ Read(indexFile[p]) # None
    /\ p \notin abandoned => indexFile[p].at >= indices[p].at

(* As many other versions as the map of failures has room for have failed   *)
(* since k did.                                                             *)
CrowdedOut(k) ==
  Cardinality({j \in Keys \ {k} : Recent(lastFail[j]) /\ lastFail[j] >= lastFail[k]}) >= MaxFailures

(* After a failed refresh of an index the registry is left alone for        *)
(* refresh_backoff, by lookups and by requests for missing versions         *)
(* (sync_known may ask), as long as the map cannot be full: one that fails  *)
(* again in a full map pushes another one out.  After a failed refresh of a *)
(* version's metadata it is left alone unless the map was full and others   *)
(* have failed since.                                                       *)
BackoffHonoured ==
  [][\A c \in Callers :
       /\ pc[c] # "fetchindex" /\ pc'[c] = "fetchindex" /\ call[c].why # "sync" =>
            \/ ~Recent(lastFail[Prov(c)])
            \/ Cardinality(Providers) >= MaxFailures /\ Providers # {Prov(c)}
       /\ pc[c] = "loadversion" /\ pc'[c] = "index" =>
            ~Recent(lastFail[Key(c)]) \/ CrowdedOut(Key(c))]_vars

(* Requests for missing versions refresh a provider's index at most once in *)
(* refresh_backoff, however many versions are asked for at the same time,   *)
(* as long as the map has room for every provider.                          *)
MissRefreshSpaced ==
  [][\A c \in Callers : pc[c] = "missed" /\ pc'[c] = "fetchindex" =>
       ~Recent(lastMiss[Prov(c)]) \/ Cardinality(Providers) > MaxFailures]_vars

(* The step in which c learns that its version, or provider, does not exist. *)
ToldMissing(c) == call[c].result # "missing" /\ call'[c].result = "missing"

(* The registry has answered this very request: that it knows no such       *)
(* provider, with an index without the version, or with a 404 for packages  *)
(* of a version it lists, none of whose platforms is in memory.             *)
RegistrySaid(c) ==
  \/ pc[c] \in {"fetchindex", "syncindex"}
  \/ /\ pc[c] = "packages" /\ call[c].index[call[c].ver] # {}
     /\ versions[Key(c)] # None =>
          call[c].index[call[c].ver] \cap versions[Key(c)].platforms = {}

(* Nothing is reported missing on the word of what is in memory alone: the  *)
(* registry has said so to this request, or it was asked for a missing      *)
(* version, or could not be reached, a short time ago.                      *)
MissingExplained ==
  [][\A c \in Callers : ToldMissing(c) =>
       RegistrySaid(c) \/ Recent(lastMiss[Prov(c)]) \/ Recent(lastFail[Prov(c)])]_vars

(* A version that was published at least refresh_backoff ago is found, or   *)
(* else the registry did not offer it to this very request: what forcing    *)
(* an index refresh for versions that are not in the index is for.          *)
NewVersionFound ==
  [][\A c \in Callers : ToldMissing(c) =>
       RegistrySaid(c) \/ pubAt[Key(c)] = None \/ Recent(pubAt[Key(c)])]_vars

(* A platform that is known and still listed is not lost to a refresh in    *)
(* which its package could not be fetched, and an entry is called complete  *)
(* only if every listed platform is in it.                                  *)
PlatformsKept ==
  \A c \in Callers : pc[c] \in {"writeversion", "syncversion"} =>
    LET listed == call[c].index[call[c].ver]
        cached == versions[Key(c)]
    IN /\ call[c].entry.platforms \subseteq listed
       /\ call[c].entry.complete => call[c].entry.platforms = listed
       /\ cached # None => listed \cap cached.platforms \subseteq call[c].entry.platforms

(* Stale metadata is served while the registry is down: a call ends with an *)
(* error only if memory has no entry to offer.                              *)
StaleServed ==
  [][\A c \in Callers :
       pc[c] \notin {"idle", "done"} /\ pc'[c] = "done" /\ call'[c].result # "ok" =>
         \/ call[c].op = "sync"
         \/ call[c].op = "list" /\ indices'[Prov(c)] = None
         \/ call[c].op = "version" /\ versions'[Key(c)] = None]_vars

(* The sync flag is up exactly while one call of sync_known runs, also when *)
(* its client went away.                                                    *)
OneSync ==
  Cardinality({c \in Callers : call[c].op = "sync" /\ pc[c] # "done"}) =
    (IF syncing THEN 1 ELSE 0)

(* Every call ends, although version locks are held while waiting for index *)
(* locks, and whatever fails or disconnects.                                *)
CallEnds == \A c \in Callers : pc[c] # "idle" ~> pc[c] = "idle"
=============================================================================
