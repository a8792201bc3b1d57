# A TLA+ model of open-tf-mirror

open-tf-mirror is a caching mirror for Terraform/OpenTofu providers: it answers
the provider network mirror protocol from metadata and archives that it fetches
from upstream registries, verifies, and keeps on a disk.  This directory models
the parts of it that hold state under concurrency and failure and the algorithms
they rest on, checks them with TLC on small instances, and proves with TLAPS, for
every size, that each of the components is safe.

## 1. Inventory

| component | source | state | operations | interacts with |
|---|---|---|---|---|
| keyed locks | `storage.rs`, `metadata.rs` (same code twice) | map key -> `Arc<Mutex>`, reference counts | `lock_for`, lock, guard drop, handle `Drop`, cancelled wait | used by the archive store and the metadata service |
| archive store | `storage.rs` | cache directory, bundled directory, `verified` map, key locks, 8 permits, temp files | `load_or_fetch`, `archive_matches_checksum`, `download`, `record_verified`, startup sweep | called by the download handler with a checksum from the metadata service; fetches with the outbound client |
| provider metadata | `metadata.rs` | `indices`, `versions`, JSON files, index and version locks, three back-off maps, `syncing` flag | `list_versions`, `get_version`, `get_platform_by_archive`, `sync_known`, startup discovery | called by the handlers; asks the registry client |
| registry client | `registry.rs` | discovered origins with expiry, discovery locks, discovery failures | `versions`, `package`, `discover` | called by the metadata service; uses the outbound client |
| outbound client | `outbound.rs` | none | address policy, redirect policy, body limits | every request upstream |
| TLS reload | `tls_reload.rs` | cached certified key, time of the last check, expiry | `resolve` in each handshake, reload, DER time parsing | listeners |
| HTTP API | `http_api.rs` | token bucket | routes, handlers, rate limit, health and readiness | metadata, archive store |
| listeners | `main.rs` | connection permits, shutdown signal, TCP/TLS sniffing | accept loop, redirect, graceful shutdown, `prepare_data_dir` | HTTP API, TLS reload, archive store (sweep) |
| archive names | `provider.rs` | none | `ArchiveName::parse` | metadata, handlers |
| deployment | `charts/`, `scripts/`, `Dockerfile` | none | configuration | - |

Requests are tokio tasks; a disconnected client drops its handler's future at
whatever `await` it has reached, except for the archive store's task, which is
spawned and goes on.  What is hard, by component:

* keyed locks: an entry is removed when a reference count says that nobody else
  uses it; the count, the lookup and the release of the `Arc` are separate steps.
  Correct if two tasks are never in one key's section and nobody waits for ever.
* archive store: lookups without a lock race downloads, the memory of verified
  files, operators and faults; files have to survive a crash between any two
  of write, fsync, rename and directory fsync.  Correct if what is returned was
  verified, what is cached is durable, nothing is downloaded twice, and permits
  and temp files are given back.
* provider metadata: nested locks, a refresh shared by many callers, back-off,
  partial results, memory and disk updated one after the other, renames that
  outlive their caller.  Correct if refreshes are shared and spaced, stale data
  is kept and served, memory never goes backwards, and calls end.
* registry client: rediscovery by several callers; an expired origin in use.
  Correct if a host is asked by one caller at a time and not more often than the
  cache and the back-off allow, if a known origin is not lost to a failure, and if a
  move of the API is noticed.
* outbound client: every hop of a redirect and every address a name has.  Correct
  if no request goes where the policy forbids, and permitted ones are not refused.
* TLS reload: certificate and key are rotated one file after the other; a slow
  load may overwrite a newer one.  Validity periods are read from DER by hand.
  Correct if pairs match and have not expired, and a rotation is noticed.
* HTTP API: the bucket's time is read before its lock is taken; probes write files
  under names that repeat after a restart.  Correct if admissions are bounded and
  a probe fails only for a reason outside the process.
* listeners: connection limit, accept errors, silent clients, and shutdown with open
  connections.  Correct if no permit is lost, stalled clients give theirs back, and
  shutdown ends.
* archive names: types and versions may contain the separators.  Correct if names
  are read back as they are spelled and the validators agree.

The `hazards` of `PROJECT.json` are this list at source lines, each with the
properties that cover it or the reason why none does.

## 2. Modules

    KeyMutex          abstract per-key mutex
      ^ implemented by (INSTANCE, refinement mapping holder)
    KeyedLock         lock map with reference counting      KeyedLock_proofs
    ArchiveCache      abstract archive cache
      ^ implemented by (places, what calls have found, what clients get)
    ArchiveStore      archive store, uses KeyMutex          ArchiveStore_proofs
    MetadataCache     provider metadata, uses KeyMutex      MetadataCache_proofs
      + Names         archive names and validators          Names_proofs
    Discovery         registry client, uses KeyMutex        Discovery_proofs
      + Outbound      address and redirect policies         Discovery_proofs
    TlsReload         certificate reload                    TlsReload_proofs
      + CertTime      validity periods from DER             TlsReload_proofs
          Calendar    the days of dates                     TlsReload_proofs
    Listener          accept loop, connections, shutdown    Listener_proofs
    HttpApi           limiter, probes, redirect to HTTPS    HttpApi_proofs

`KeyedLock` is checked and proved to implement `KeyMutex`, `ArchiveStore` to implement
`ArchiveCache`; the larger modules
take their locks from `KeyMutex`, so that the reference counting does not multiply
their states.  The modules of pure operators (`Names`, `Outbound`, `CertTime` with
`Calendar`) are put together with the component that calls them in its MC module, and their
checks are invariants there: whenever the component is about to use the algorithm, it
agrees with its reference.

### KeyedLock

`map`, `owner` and `arc` are the lock map, the tokio mutexes' owners and the
`Arc` of each handle.  `LockFor` is one step (the map is behind a `RwLock`),
`Acquire` and `Cancel` end the wait, `Unlock` drops the guard, `DropCheck` is the
body of `Drop::drop`, and `DropArc` the release of the handle's field that Rust
does after `drop` has returned.  An address that nobody refers to may be used
again by the allocator.

### ArchiveStore

The content of a file stands for its own digest and a file's identity is the
number of files created before it (device, inode, size and mtime in the code).
A request goes through the stages
`stat - memo - hash - note` (`archive_matches_checksum`; first the bundled place,
then the cache), and on a miss through `lock`, the same stages again under
the lock, `permit`, and `create - fetch - sync - rename - syncdir - restat - record`
(`download`), then `open - served` (the handler).  `FinishTask` stands for the
destructors on every way out of the task: guard, permit, `TempCleanup`.  A
`Disconnect` ends a request that has no task and detaches it from a task it has.
`Crash` ends the process, or the machine, in which case any subset of renames that
were not followed by a directory sync may be undone and data that was not synced
is lost; `Restart` sweeps temp files, perhaps not all of them, since the server
starts although the sweep failed.  `Replace` and `Delete` are an operator or a
fault behind the server's back, at most once per archive.

`ArchiveCache` is what all this amounts to: a place for each archive that changes in one
step (`Store`) to bytes that are asked for, keeps its old content until then, and goes
back to a former one of its contents at worst in a power failure; a call finds a place
with the bytes it asks for (`Find`) and gives what that place has (`Give`).  The mapping takes
`held` from the directories and the bytes of their files, `found` from the last look
at a path that showed the bytes the call wants, and `given` from the open file; hashing, memory,
locks, permits and temp files are not seen from there.

`Download` is the beginning of `download`: a URL that does not parse ends the task,
otherwise it waits for a permit, and nothing but a permit ends that wait.

Two hazards of the environment are survived by the code only in part, and the model has
both at all times.  The last write of a tokio file may fail in the background: `sync_all`
waits for it without reporting the error, so `Fetch` may leave a file that is `Short`
although the digest of the stream was right.  And a file may be replaced between a
download's rename and the stat that looks the destination up again (`InWindow`).  The
history variable `trusted` has the files of either kind that the running process vouches
for without having seen their bytes; properties name it where they make an exception, and
it is empty after a crash.  `ArchiveCache` knows it as `unseen`, the archives whose place
is taken on trust.

### MetadataCache

An index is a function from versions to sets of platforms; the metadata of a
version is the set of platforms it has a package of.  One clock stands for
`Instant` and `SystemTime`.  `0` in a back-off map is "no entry".  A caller's `pc`
follows `load_version` (`version - versionlock - loadversion`), `load_index`
(`index - indexlock - loadindex - fetchindex - writeindex - syncindex`),
`refresh_version` (`find - missed - packages - writeversion - syncversion`,
`versionfailed` on error) and `sync_known` (`nextprovider`).  `why` tells the three
users of `refresh_index_unlocked` apart.  Errors are `transient` (recorded by
`should_backoff`), `final` (refused addresses,
answers that fail validation) and `missing`: `MetadataError::NotFound`,
which says that a version is in no index, and which `map_registry` also makes of a 404 of
the registry, for an index (`FailIndex`) or for a package (`FetchPackages`).  Whatever it
came from, the client is told 404.  `Contents` is what `write_json_atomic` may leave in
its file: the entry, or `Junk` when its last write fails, which nobody reports;
`cutShort` remembers the providers whose index file that has happened to.  `Disconnect` drops the
future with its guards and the `Reset` of `sync_known`; a rename already handed
to the blocking pool stays in `late` and happens whenever it likes
(`LateRename`).  `lastMiss`, `lastFail`, `abandoned` and `cutShort` are history variables.

### Names

A name is a sequence of words and separators, `terraform-provider-` one of the
words.  `parse` is `ArchiveName::parse` with both forms, `from_parts` its check of
platform and version.  `valid_component`, `valid_version` and `validate_package` are
those of `metadata.rs`; `storage_valid_component` and `validate_key` those of
`storage.rs`.  The reference is the set of spellings an archive may have:
`ArchiveNamesExact` parses all of them back, for its own type and for others, and
requires of every near miss (one token removed or replaced) that what is read from it
is a spelling of what was read.  `PackagesServable` follows a package the metadata
store accepts to the archive store, which takes its name exactly if the type has no
dot: `metadata.rs` allows one in a type and `storage.rs` does not, so the archives of
a provider with a dotted type are listed and never served.

### Discovery

`cache` holds the `DiscoveryEntry` of each host, `NoEntry` where the map has none.  A
call goes through `look - lock - relook - ask - answer - fetch`: the first look, the
lock of the host, the second look, the request for the document, its arrival, and the
request to the origin.  The answer names where the API is when the host answers; it is
stored when the whole document has arrived, which may be later, so `Move` can come in
between.  `Undiscovered` is every failure: the entry is kept and gets a time before
which nobody asks again.  `Drop` drops the future at an await.  `left` is when an
origin was last the right one, `succeeded` and `failed` when discoveries last ended:
history variables.  `Timeout` is the longest a discovery takes (six requests of 30 s).

### Outbound

Addresses are tuples of octets or segments, `is_public_ip` a translation of the
code's arithmetic.  `get` is the redirect loop as a recursive function, one round of it
being `Follow`, over a web (what each URL answers) and a network (literals and DNS).  The references are a list of
reserved blocks as prefixes, checked on every first octet and on the edges of all
blocks (`AddressesJudged`), and a walk of the redirects that knows nothing of the loop
(`RedirectsFollowed`): requests only go to permitted URLs, and a response is returned
exactly if one can be reached through permitted URLs in at most `MaxRedirects` hops.

### TlsReload

A handshake takes the time (`Hello`), looks at the cached pair under the read lock
(`Look`), looks again under the write lock and claims the reload (`Claim`), reads
the chain, judges its validity and reads the key (`ReadCert`, `Validate`, `ReadKey`),
and installs the pair (`Install`) or falls back on the cached one (`Fallback`).  Each
of these is a step of its own: other handshakes, the clock and the operator who
rewrites one file at a time (`Write`) come in between, and a file can fail to be
read at any time (`IoError`).  A chain is the set of the validity periods of its
certificates; its key has the same name.  A file that is missing or does not parse,
DER included, is `Broken`.  `changed`, `claimed`, `failedAt` and `slow` are history
variables.

### CertTime and Calendar

`parse_certificate_validity` and all it calls, on sequences of bytes, with the
arithmetic on dates in `Calendar`; a result is a set
with one element or, for an error, none.  `Wide` is the number of bytes of a `usize`
(2 in the run, so that lengths at its limit occur).  A time is a pair of day and second:
TLC's integers are too small for the code's seconds in 64 bits.  The loops over bytes are
recursive functions.  The references: all
ways to write a length around a value, over all short strings of critical bytes
(`DerReadExactly`); a calendar that counts every year of 0..9999 and the days of sample
years one by one (`CalendarCounts`); all dates of sample years in both formats with
every single-character damage (`TimesRead`); and small certificates, cut at every
byte (`ValidityFound`).

### Listener

One listener; the program runs one or two of them that share the shutdown channel only.
`loop` is where `serve_listener` is, `held` whether it has a permit in hand, `conn` where
the task of each connection is: `greet` (TLS handshake, or the wait for decidable first
bytes over plain HTTP), `detect` (hyper-util reads the first bytes, without a
time-out), `idle`, `request`, `reply`.  `GreetTimeout`, `IdleTimeout` and `GraceEnds` are
timers.  `break`, `continue` and the end of a task drop the permit they own.  A client
may fall silent, which means it neither sends nor reads, or reset, at any time.  Over
plain HTTP the bytes hyper-util looks at have been peeked at, so a silent client cannot
stop it; over TLS it can.  A handler may take for ever, and the reply to a client that
does not read has no time-out: the properties do not claim one.

### HttpApi

What happens before a provider handler: `Redirect` (the plain listener, when TLS is on),
the token bucket, and the probes.  `Arrive` takes the time and `try_acquire` is the
section under the lock, so that requests can get the lock in another order than their
times; `rewound` adds up how far `last_refill` was moved back.  Tokens are whole units,
`Scale` of them to a token.  `readyz` names its file after the process id and a counter;
`Open`, `Sync` and `Remove` can fail (`Fault`) or be cut off by `Disconnect`, in which case
the operation already handed to the blocking pool still happens.  `Restart` is a new
process, perhaps with the same id (always the same in a container); the sweep at the
start does not cover probe files.

## 3. Runs

| run | instance | shows |
|---|---|---|
| `keyed_lock` | 3 tasks, 2 keys, 4 addresses (never all in use) | mutual exclusion per key, `KeyMutex` is implemented, waiters are served |
| `archive_races` | 2 requests, 1 archive with 2 announced checksums, a foreign and an oversize content, 2 files, memory of 1 entry, bundled place, lost writes, replacement at any time | answers, memory and served bytes are verified; no redundant download; `ArchiveCache` is implemented, files replacing files included |
| `archive_crash` | 2 requests, 2 archives that share 1 permit, any earlier file or 1 download, 1 crash or power failure at any step, lost writes, I/O errors, disconnects | cached files durable, temp files and permits given back, `ArchiveCache` is implemented, every request ends |
| `metadata_index` | 2 callers of list and sync, 1 provider, 3 instants, one each of fault (a lost write is one), disconnect, restart; any earlier data directory | memory moves forward, what is known is on the disk unless cut short, one sync at a time |
| `metadata_versions` | 2 callers, 2 versions, 2 platforms, 2 instants, 1 fault | shared and spaced refreshes, back-off, stale and partial data |
| `metadata_ends` | 2 callers of version and sync, 1 fault, 1 disconnect | every call ends |
| `tls_reload` | 2 handshakes, 2 chains, one with a certificate that expires half-way, interval of 2 in 6 instants, 3 file writes | served pairs match and had not expired, a rotation is noticed, loads are spaced as long as they are quick, validity is read exactly |
| `discovery` | 2 callers, 1 host with 2 places to be, 1 move, 1 dropped caller, 8 instants with `Ttl` 3, back-off 2, time-out 1 | hosts are asked seldom and by one caller at a time, origins kept and moves followed, requests confined, calls end |
| `listener` | 3 clients, 2 permits, with and without TLS | permits conserved, stalled clients released, shutdown ends |
| `http_api` | 2 requests, burst 2, half a token per tick, 4 instants, 2 probe names, 1 disk fault, 1 restart under the same id | admissions bounded, unavailability explained |
| `metadata_new_version`, `listener_silent` | small instances that fail | the first two disagreements of section 4 |

Why the bounds are enough.  Every property relates at most two requests on one
key, and a third party (an operator, a crash, a fault, the clock), which the
instances have; a third task on the lock is there because the reference count
takes two dropping tasks and a newcomer to go wrong.  `MaxVerified = 1` and
`MaxFailures = 1` make the full-map paths run all the time (16384 and 4096 in the
code).  `Freshness` and `Backoff` are one tick, so that one tick is both "expired"
and "may be retried".  Two versions share a map of failures with room for one, so that
the eviction of `record_refresh_failure` happens (`BackoffHonoured` is false without its
`CrowdedOut`).  The relations between the real values (30 min, 30 s) that
matter are "still within" and "past", which both occur.  The certificate reload has an interval of two ticks, so that
a load can begin and end within it or outlast it, and time for two intervals and a
rest, which a slow load, a later one and a handshake after both need; three writes are
a rotation and a broken file.  A discovery needs time for an answer, its expiry, a failure
and the end of its back-off.  Three clients on two permits put one in the backlog while the
others are served.  `MaxRedirects` is 2 (5 in the code) for a web in which every chain of
redirects is longer than that or ends.  `archive_crash` has one file in a
behaviour and `archive_races` no crash, so that a power failure after one file has replaced
another is in no run.  For safety the theorems of section 5 remove the bounds, that
one included.  Symmetry is over callers
only and only in runs without liveness.

A mutant for each property of a passing run (an operator named after what it
breaks, directly before the definition it replaces) shows that the property can
fail: a dropped second look under a lock, a missing fsync, a permit kept on an
exit, a flag not reset, an off-by-one in the reference count.  `archive_races` breaks
`ImplementsArchiveCache` by a memory that ignores checksums, `archive_crash` by a rename
without fsync.

**Fairness.**  Weak fairness of each request's steps: tasks are polled by the
runtime, and every network operation has a timeout, so each step ends in success or
an error.  Strong fairness for taking a lock or a permit: tokio's mutex and
semaphore are FIFO, so a waiter cannot be overtaken for ever.
Neither wait has a time-out or an error, in the code or in the model: a permit that is lost
leaves the others waiting, and `RequestEnds` is false.  Weak
fairness of `Restart` after a crash: the server runs under a supervisor.  In `Listener`, weak
fairness of the accept loop, of the timers, of hyper-util reading bytes that are there and of
noticing the shutdown; each is a future the runtime polls.  `Accept` and the handlers have
none, nor have the steps a client has to take part in.  Nothing is
assumed of clients, the registry, the operator, the clock or late renames.

## 4. Disagreements between code and documentation

* `metadata_new_version`: the back-off for missing versions is set before the refresh
  it belongs to, and is looked at before waiting for that refresh.  A request for
  another new version that arrives meanwhile gets 404 although the version was
  published long ago and the index that lists it is on its way.
* `listener_silent`: after the TLS handshake the HTTPS path goes straight to hyper-util,
  whose detection of the protocol has no time-out.  A client that then says nothing keeps
  its permit until shutdown.  The comment on `wait_for_protocol_preface` describes this
  very problem, and the plain path, which waits, is free of it (`StalledReleased`).

Three more have no run of their own; they are why properties have exceptions, and TLC
finds each of them as soon as the exception is taken out of its property:

* `write_all` on a tokio file (`storage.rs:392`) returns before its blocking write has
  ended; the error of the last one is kept for a next write, and `sync_all` does not
  report it.  The checksum is that of the stream, so a download whose last chunk was not
  written is published, remembered as verified and served until the process ends (the next
  one hashes the file and fetches it again).  `src/README.md:14` says that archives are
  "SHA-256-verified before they are published".  `ServedBytesAnnounced` is violated without its
  `Short`, `MemoSound` without its `trusted`.
* `download` stats the destination by name after its rename (`storage.rs:406`) and remembers
  what it finds under the checksum of the download.  A file put there in between is
  never hashed; `src/README.md:30-31` says that a replaced file is.  `ReturnedFileVerified` and
  `MemoSound` are violated if `Replace` adds nothing to `trusted`.
* `write_json_atomic` (`metadata.rs:1014`) writes in the same way as `download`.  A refresh
  whose last write fails replaces a valid `index.json` by a truncated one; `src/README.md:26-27` says that
  "a failed refresh never replaces valid data".  Memory serves the new index; after a restart
  the provider is unknown until somebody asks for it again.  `KnownIsPersisted` is violated
  without its `cutShort`.

Further observations:

* Two handles of a key that are dropped at the same time each count the other's `Arc`,
  and both leave the entry in the lock map, where it stays until the key is used again
  (`KeyedLock`: in a state with every task idle, `map` need not be empty).
  `tests/provider_storage.rs:81` asserts that no lock is left after two concurrent
  requests.  Harmless for exclusion, see `KeyedLockExcludes`.
* A version that the index lists and whose packages the registry answers with 404 is
  reported missing to the client, like one that is in no index: both are
  `MetadataError::NotFound`.  So is the whole provider when its index is a 404 and none is
  in memory.  `MissingExplained` therefore counts these answers as the registry's word
  (`RegistrySaid`); none of them is remembered by a back-off, so every request asks again.
* A certificate load stores its own start as the time of the last check when it is
  done.  If it took longer than the interval, that moves the time of a later check
  back, and the files are read again at once; README and changelog say once per
  interval.  `QuickReadsSpaced` is what holds (false without its `~slow`), and
  `RotationSeen` shows why storing the start is right for noticing a rotation.
* The limiter credits time twice when a request that read the clock early gets the lock
  late; `AdmissionBounded` has a term for it, and is false without.
* `record_refresh_failure` makes room in a full map before it looks whether the key is
  in it already.  A provider that fails again while the map is full pushes the oldest
  entry of another one out, which may then be asked at once.  The back-off of an index
  is therefore safe only while there are fewer providers than places in the map, or a
  single one, and that of missing versions while there are not more (each provider's
  entry is made once in a back-off): the conditions in `BackoffHonoured` and
  `MissRefreshSpaced`, which the proof asked for and a run with one provider cannot show.
* A probe file left by a crash makes the probe of the same number fail in the next
  process with the same id, once.

## 5. Proofs

`KeyedLock_proofs`: `KeyedLockExcludes` (mutual exclusion) and `KeyedLockRefines`
(the implementation of `KeyMutex`), for any number of tasks, keys and addresses.
The mapping takes the holder of a key to be the task inside its section, whichever
mutex it locked (`HolderOwnsMapped` shows it to be the owner of the mapped one).
Mutual exclusion is not inductive: the invariant adds that a task between lookup and
release of its `Arc` points at its key's current map entry whenever it may still
lock, that no mutex is in the map under two keys, and that only a task in its section
owns a mutex.  The cardinality argument (a count of two means: the map and I)
rests on the library's facts on finite sets.

`ArchiveStore_proofs`: in every environment, lost writes and replacements in the window
included, `StoreTypes`, `MemoIsSound`, `AnswersAreVerified`, `DownloadsOnce`, `CacheSurvives`,
`PermitsBalance`, `TempsAreOwned` and `ServedBytesAreAnnounced` are `Spec => []...` of the
invariants of the two runs.  `MemoIsSound`, `AnswersAreVerified` and
`ServedBytesAreAnnounced` make the exceptions that their properties state, for files in
`trusted`, and so show that only those two hazards can make the server vouch for wrong bytes.
`CacheSurvives` makes none: what has a name in the cache was flushed before it got it.

They are consequences of one inductive invariant, `IInv`: `TypeOK`, the properties
themselves, and what they need.  `DiskInv`: only synced files have a name in the
cache, now and after a power failure, and synced files are complete or `Short`.
`TrustInv`: which files are taken on trust; where nobody interferes, only short ones.
`LockInv`: who downloads has the key's lock, so that nobody else can fill the cache under it.
`TempInv`: which content a temp file has at each stage, and that no two downloads
share one.  `SeenInv`: after the rename the destination is the downloaded file,
none, or one taken on trust.  `HashInv`: a hash taken under the lock is still right when it
is judged.
There is one lemma per action (`StatKeeps`, `RenameKeeps`, ...); `PermitStep`
carries the counting of permits.  The constants are only assumed to be what
`StoreConstants` says (finite sets of requests and keys, foreign contents are
announced for no key); TLC evaluates these assumptions on every run.

`StoreImplementsCache` is the refinement: the initial states of the store are initial states
of `ArchiveCache`, and every step of it is a step of the cache or leaves its variables
alone (one lemma per action or group of actions).  Next to `IInv` and `ServeInv` (below) it
needs `LookInv`: the file a call saw at its last look is complete or none, so its bytes,
and with them what the call has found, change with no step of the others.

`ServedBytesAnnounced` speaks of the file a handler opens, after the answer and without
a lock, when it need no longer be the one that was verified.  It has a second
layer, `ServeInv`, inductive together with `IInv`: for an archive nobody has interfered
with, a request that looks at a file still has that file at its path, or one with
announced bytes, and from the rename or the verdict to the open it has one with announced
bytes (`Fine`), or one that this process itself has cut short.  Steps of the others replace
files by such files only (`KeepsFiles`).

`Listener_proofs`: `PermitsBalanced` (`PermitsConserved`, with `TypeOK` the inductive
invariant) for any finite set of clients and any number of permits; a step either moves one
connection in or out of `Live` and one permit the other way (`EndBalances`), or leaves both
(`MoveBalances`).

`HttpApi_proofs`: `ApiTypes`, `LimiterBounds` and `ReadinessExplained`.  `AdmissionBounded`
is inductive with the types: the time a request adds to the bucket is what `last_refill`
advances, or what `rewound` grows by (`AcquireBounded`).  `ReadyExplained` needs `ProbeInv`:
probes at work have names of their own, below the counter; every file is left over or has
such a name; a file is there from `Open` to `Remove`, and before `Open` only if left over.

`MetadataCache_proofs`: all safety properties of the metadata service, for any number of
callers, providers, versions, faults and restarts: `MetadataTypes`, `OneSyncRuns`,
`KnownProvidersPersist`, `RefreshesAreShared`, `PlatformsAreKept`, and the action properties
`IndexesMoveForward`, `BackoffIsHonoured`, `MissRefreshesAreSpaced`, `MissingIsExplained` and
`StaleIsServed`.  One inductive invariant serves them all.

* `CallsInv`: which stages a call of each kind can be in, and what it has in hand there.
* `LockInv`: who is at a stage that needs a lock has it; a version's lock is held by a
  call for that version only.
* `Persisted`: an index on its way to the disk is not older than the one in memory, no
  index is from the future, and between rename and sync the file is the one just renamed
  unless a dropped caller's rename came in between or the file was cut short.  This is why `KnownIsPersisted` and
  `IndexMovesForward` survive a directory sync that fails.
* `SharedInv`: under the lock, past the second look, what is to be refreshed is still stale.
* `IndexBackoff`, `MissBackoff`, `VersionBackoff`: an entry of a map of failures is the
  time of a failure plus the back-off, and a recent failure has its entry, unless the full
  map forced it out.  The counting (a full map without me has `MaxFailures` others)
  rests on the library's facts on finite sets.
* `SyncInv`: the flag is up exactly if one call of `sync_known` runs.

`KnownProvidersPersist` is about every write, also one that fails unreported: it excepts just the
providers whose file that has cut short (`cutShort`), until the file is written again.
`MissingIsExplained` counts every answer that ends as a 404 for the client, the registry's own 404s
included; `MissingReported` goes through the steps that produce one.

A step's effect is stated once per group of steps that change the same variables
(`StillStep`, `DataStep`, ...) and the conjuncts are carried through those groups.

`Discovery_proofs`: `DiscoveryTypes`, `AsksAreSpaced`, `OriginsAreKept` and
`MovesAreFollowed`.  Spacing follows from `LockInv` (who asks has the lock of the host),
`CacheInv` (the entry is the record of the last success and the last failure) and `AskInv`
(an ask that is under way began after both had lost their force).  `MovesAreFollowed` needs
`HomeInv`: a document on its way names an origin that was right when it was asked for
or later, so the age of an entry counts from at most `Timeout` after the origin was right.

`TlsReload_proofs`: `TlsTypes`, `PairsAreUsable`, `ReadsAreSpaced` and `RotationsAreSeen`.
`CacheInv` and `LoadInv` say what is known of the cached pair, and of the files a load has
read at each stage.  `SpacingInv`: until a load has been slow, the time of the cache is that
of the last claim, and older loads are an interval behind.  `RotationInv`: a load that
began after the last change has read the new files, and a cache that is dated after
the change holds them or a younger load is pending.  The last two theorems are for
`Interval > 0` (5 s in `main.rs`); tests also build a resolver with an interval of
zero, for which there is nothing to keep apart.  That a chain's earliest end exists is
proved from well-foundedness of inclusion (`LeastExists`).

The algorithms on outside input, for every input:

* `PublicIpv4`, `PublicIpv6` and `CarriedIpv4` (`Discovery_proofs`): the octet and segment
  tests of `outbound.rs` are membership in the reserved blocks, for all addresses, and an
  IPv4 address is judged alike in each of its four IPv6 forms.
* `RedirectsConfined`: for every client, network, web and number of redirects, requests go
  to permitted URLs only and a response is returned exactly if the chain of redirects gets to
  one through permitted URLs within the limit.  The loop is a recursive function; that it
  exists and what it yields is shown by induction on the rounds that are left, which the
  library's induction theorems cannot state here (they take an operator): `AllNumbers`
  gets it from well-foundedness, for sets of numbers.  `RequestsAreConfined` draws
  `RequestsConfined` from it and from the theorems on addresses, for every `MaxRedirects`.
* `NamesExact` (`Names_proofs`): an archive is read from a name exactly if the name is one
  of its spellings, for every type and every sequence of the model's tokens.  From the
  left the fields are what the last two separators leave (`SplitExactly`), and the
  tokens of an operating system and an architecture hold none (`WordsAreFree`).
* `NamesToldApart`: a name is read in one way and as an archive of one type.  For names
  with underscores this rests on the parts that hold none, for names with dashes on
  `Plain` types, in which no `-` is followed by the beginning of a version: without
  that it is false of the code too (see `Comparable`), where a type may look like a version.
  A name of both forms would end in `-bin.zip` and in an architecture without `-`
  (`NotBothForms`).
* `ParsedIsServable`: what `parse` accepts passes the validators of both stores, but for types
  with a dot.  `NamesAlwaysAgree` is `NamesAgree`, the tables that the run tries, from
  these three.
* `DaysAreCounted` and `DatesKeepOrder` (`TlsReload_proofs`): `days_from_civil` numbers the
  Gregorian calendar without gap and in order, in all years, those before 0 included
  (`CalendarCounts` for sample years).  The argument is a closed form,
  `365Y + Y/4 - Y/100 + Y/400`, for years that begin in March (`ClosedForm`), which
  removes the eras of 400 years.

* `DerReadsExactly` (`TlsReload_proofs`): `read_der_tlv` reads a value exactly when the bytes
  begin with a spelling of it, with its length in one byte or in any number of bytes that
  `usize` holds, leading zeros included.  The loop over the length bytes is a recursive
  function; with at most `Wide` bytes no shift loses anything (`BigEndianSums`), and
  the bytes of a number add up to it (`BytesSum`, `LengthRead`).  `Wide` is assumed to
  be in 1..127 (a length byte cannot name more bytes; Rust's `usize` has 2, 4 or 8).
* `TimesReadExactly`: `parse_certificate_time` accepts exactly the texts that spell a time
  which exists, in either format, as the instant they state.  Both directions go through
  the parts of the text: digits to number (`TwoDigits`, `FourDigits`), places to fields
  (`TimeParts`, `FieldsAreParsed`), the fraction (`FractionRead`), two digits to a year
  (`YearsRead`).
* `ValidityIsReadExactly` is `ValidityReadExactly`, from these two, from the calendar
  (`CalendarIsCounted`), from the shape of a text that is read (`ReadShape`, which refuses
  the damaged texts of `TimesRead`), and, for `ValidityFound`, from a reading of the small
  certificates value by value (`StartsWith`, `CutShort`, `BodyRead`, `TimesIn`).

The induction in these proofs is over sets of numbers, from the well-foundedness of `<`
(`EveryNumber`); that a recursive function exists is shown with it (`Iterates`).

Only model-checked, because it is out of the prover's reach: liveness (`WaiterServed`,
`RequestEnds`, `CallEnds`, `DiscoverEnds`, `StalledReleased`, `ShutdownEnds`).  Every
invariant and every action property of the passing runs is proved.  Certificates other than the
small ones of `ValidityFound` are covered value by value and time by time
(`DerReadsExactly`, `TimesReadExactly`), not as a whole.

## 6. Not modelled

* In the archive store: nothing that changes its state.  Range and header
  details of the response are left out.
* In the metadata service: `insert_version` (a helper for tests), a wall clock that
  goes back (`fresh` saturates), duplicate platforms in a listing, the order of the
  version list, leftover temp files of dropped writes, power failures between the
  writes of a JSON file.  Corrupt and invalid files are both `Junk`.
* In the certificate reload: a wall clock
  that is set (one clock stands for `Instant` and `SystemTime`).  A handshake whose load
  took long may be given a chain that expired after it was validated; the code
  compares the times it took first, and so does `ServedPairUsable`.
* In the registry client: what a listing or a package says (an input of
  `MetadataCache`); the constructors for tests, which fix an origin.
* In the outbound client: the CA bundle and the proxy variables, read once at the start.
  A name is looked up once per request, so that an answer of DNS cannot change in between.
* In the listener: several requests at once on one HTTP/2 connection, which share its
  permit; the two listeners together (the first one to return an error ends both, and
  `serve_listener` returns none after it has bound).  How long the grace period is, and that
  hyper lets a request finish in it, is assumed in the guards and no property claims it.
* In the HTTP API: headers and bodies of responses, the rounding of `f64`.
* Lengths of names, host names, the order of the version list (`compare_versions`).
* Command line and tracing set-up, and the deployment files, have no program state.

## 7. Plan

1. done: keyed locks with their refinement, the archive store, the metadata service,
   the certificate reload, the registry client, the listener, the request path, and the
   algorithms against references; every safety property of the components as a theorem.
2. done: the abstract cache that `ArchiveStore` implements, as a run and as a theorem.
3. A wall clock of its own in `MetadataCache`, which may be set back (`fresh` saturates).
