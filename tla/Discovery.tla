----------------------------- MODULE Discovery -----------------------------
(***************************************************************************)
(* The registry client (src/src/registry.rs): the origin of a host's       *)
(* provider API is discovered from a document the host serves, cached for  *)
(* half an hour, and asked for again at most once in 30 seconds after a    *)
(* failure.  Callers share the cache and one lock per host; a caller can   *)
(* be dropped at every await.  Hosts move their API while documents that   *)
(* name the old place are still on their way.                              *)
(***************************************************************************)
EXTENDS Integers, FiniteSets

CONSTANTS Callers,      \* the tasks that call versions() or package()
          Hosts,        \* the hostnames of registries
          Origins,      \* the places a provider API can be at
          None,         \* no origin, no time, no holder
          Ttl,          \* how long a discovered origin is used (30 min)
          Backoff,      \* how long a failed discovery is not repeated (30 s)
          Timeout,      \* the longest a discovery takes
          MaxNow,       \* bound of the clock
          MaxMoves,     \* bound of the moves of APIs
          MaxDrops      \* bound of the dropped callers

ASSUME TimesAssumption ==
  /\ Ttl \in Nat \ {0} /\ Backoff \in Nat \ {0} /\ {Timeout, MaxNow} \subseteq Nat
  /\ None \notin Origins \cup Callers \cup Hosts /\ None \notin Int

VARIABLES cache,     \* discovery_cache: a DiscoveryEntry for some hosts
          holder,    \* discovery_locks: who holds the lock of a host
          pc,        \* where a caller is in versions() or package()
          host,      \* the hostname it was called with
          asked,     \* when its discovery request was sent
          document,  \* the origin named in the document it received
          url,       \* what origin() returned to it
          now,       \* Instant::now()
          home,      \* where the API of a host really is
          moves, drops,
          left,      \* history: when an origin was last the home of a host
          succeeded, \* history: when a discovery of a host last succeeded
          failed     \* history: when one last failed

vars == <<cache, holder, pc, host, asked, document, url, now, home, moves,
          drops, left, succeeded, failed>>
callVars == <<pc, host, asked, document, url>>
worldVars == <<home, moves, left>>
histVars == <<succeeded, failed>>

(* The entries of discovery_locks are never removed, so that the map hands *)
(* every caller of a host the same mutex.                                  *)
Locks == INSTANCE KeyMutex WITH Keys <- Hosts, Threads <- Callers,
                                Nobody <- None

(* A call has ended when its caller is idle, or got an error of discover(). *)
Ended == {"idle", "failed"}
Stages == Ended \cup {"look", "lock", "relook", "ask", "answer", "fetch"}

DiscoveryEntry == [origin : Origins \cup {None}, fetched_at : 0..MaxNow,
                   retry_at : 0..(MaxNow + Backoff) \cup {None}]
NoEntry == [origin |-> None, fetched_at |-> 0, retry_at |-> None]

(* HashMap::get: NoEntry is neither fresh nor backing off. *)
TypeOK ==
  /\ cache \in [Hosts -> DiscoveryEntry \cup {NoEntry}]
  /\ Locks!TypeOK
  /\ pc \in [Callers -> Stages]
  /\ host \in [Callers -> Hosts]
  /\ asked \in [Callers -> 0..MaxNow \cup {None}]
  /\ document \in [Callers -> Origins \cup {None}]
  /\ url \in [Callers -> Origins \cup {None}]
  /\ now \in 0..MaxNow
  /\ home \in [Hosts -> Origins] /\ moves \in Nat /\ drops \in Nat
  /\ left \in [Hosts -> [Origins -> 0..MaxNow \cup {None}]]
  /\ succeeded \in [Hosts -> 0..MaxNow \cup {None}]
  /\ failed \in [Hosts -> 0..MaxNow \cup {None}]

Init ==
  /\ cache = [h \in Hosts |-> NoEntry]
  /\ Locks!Init
  /\ pc = [c \in Callers |-> "idle"]
  /\ host \in [Callers -> Hosts]
  /\ asked = [c \in Callers |-> None]
  /\ document = [c \in Callers |-> None]
  /\ url = [c \in Callers |-> None]
  /\ now = 0
  /\ home \in [Hosts -> Origins]
  /\ moves = 0 /\ drops = 0
  /\ left = [h \in Hosts |-> [o \in Origins |-> IF o = home[h] THEN 0 ELSE None]]
  /\ succeeded = [h \in Hosts |-> None]
  /\ failed = [h \in Hosts |-> None]

-----------------------------------------------------------------------------
(* versions() or package() is called.  Outside the tests no host is in the *)
(* map `origins`, so that origin() discovers every host.                   *)
Origin(c) ==
  /\ pc[c] \in Ended
  /\ \E h \in Hosts : host' = [host EXCEPT ![c] = h]
  /\ pc' = [pc EXCEPT ![c] = "look"]
  /\ UNCHANGED <<cache, holder, asked, document, url, now, drops>>
  /\ UNCHANGED <<worldVars, histVars>>

(* The cached entry decides: its origin is fresh, or it is too early to    *)
(* ask again.                                                              *)
Decided(entry) ==
  \/ entry.origin /= None /\ now - entry.fetched_at < Ttl
  \/ entry.retry_at /= None /\ now < entry.retry_at

(* discover() returns an origin, or an error when there is none. *)
Return(c, origin) ==
  /\ url' = [url EXCEPT ![c] = origin]
  /\ pc' = [pc EXCEPT ![c] = IF origin /= None THEN "fetch" ELSE "failed"]
  /\ asked' = [asked EXCEPT ![c] = None]
  /\ document' = [document EXCEPT ![c] = None]

(* The first look at the cache, without the lock. *)
Look(c) ==
  /\ pc[c] = "look"
  /\ \/ /\ Decided(cache[host[c]])
        /\ Return(c, cache[host[c]].origin)
     \/ /\ ~Decided(cache[host[c]])
        /\ pc' = [pc EXCEPT ![c] = "lock"]
        /\ UNCHANGED <<asked, document, url>>
  /\ UNCHANGED <<cache, holder, host, now, drops>>
  /\ UNCHANGED <<worldVars, histVars>>

Lock(c) ==
  /\ pc[c] = "lock"
  /\ Locks!Acquire(host[c], c)
  /\ pc' = [pc EXCEPT ![c] = "relook"]
  /\ UNCHANGED <<cache, host, asked, document, url, now, drops>>
  /\ UNCHANGED <<worldVars, histVars>>

RelookSkipped(c) ==
  /\ pc[c] = "relook"
  /\ pc' = [pc EXCEPT ![c] = "ask"]
  /\ asked' = [asked EXCEPT ![c] = now]
  /\ UNCHANGED <<cache, holder, host, document, url, now, drops>>
  /\ UNCHANGED <<worldVars, histVars>>

(* The second look: another caller may have asked while this one waited. *)
Relook(c) ==
  /\ pc[c] = "relook"
  /\ \/ /\ Decided(cache[host[c]])
        /\ Return(c, cache[host[c]].origin)
        /\ Locks!Release(host[c], c)
     \/ /\ ~Decided(cache[host[c]])
        /\ pc' = [pc EXCEPT ![c] = "ask"]
        /\ asked' = [asked EXCEPT ![c] = now]
        /\ UNCHANGED <<holder, document, url>>
  /\ UNCHANGED <<cache, host, now, drops>>
  /\ UNCHANGED <<worldVars, histVars>>

(* The host answers with a document that names where its API is now. *)
Answer(c) ==
  /\ pc[c] = "ask"
  /\ document' = [document EXCEPT ![c] = home[host[c]]]
  /\ pc' = [pc EXCEPT ![c] = "answer"]
  /\ UNCHANGED <<cache, holder, host, asked, url, now, drops>>
  /\ UNCHANGED <<worldVars, histVars>>

(* The whole document has arrived and names a valid origin. *)
Discovered(c) ==
  LET h == host[c] IN
  /\ pc[c] = "answer"
  /\ cache' = [cache EXCEPT ![h] =
       [origin |-> document[c], fetched_at |-> now, retry_at |-> None]]
  /\ Return(c, document[c])
  /\ Locks!Release(h, c)
  /\ succeeded' = [succeeded EXCEPT ![h] = now]
  /\ UNCHANGED <<host, now, drops, failed, worldVars>>

(* What a failure leaves in the cache: the entry that was there, or one     *)
(* without an origin, with a time before which nobody asks again.          *)
BackedOffForgets(entry) ==
  [origin |-> None, fetched_at |-> now, retry_at |-> now + Backoff]
BackedOffRenews(entry) ==
  [entry EXCEPT !.fetched_at = now, !.retry_at = now + Backoff]
BackedOff(entry) ==
  [IF entry = NoEntry THEN [entry EXCEPT !.fetched_at = now] ELSE entry
     EXCEPT !.retry_at = now + Backoff]

(* No answer in time, an error status, too large a body, or a document     *)
(* without a valid origin: what is cached is kept and used.                *)
Undiscovered(c) ==
  LET h == host[c] IN
  /\ pc[c] \in {"ask", "answer"}
  /\ cache' = [cache EXCEPT ![h] = BackedOff(@)]
  /\ Return(c, cache[h].origin)
  /\ Locks!Release(h, c)
  /\ failed' = [failed EXCEPT ![h] = now]
  /\ UNCHANGED <<host, now, drops, succeeded, worldVars>>

(* The call itself: a request to the origin, which ends one way or another. *)
Fetch(c) ==
  /\ pc[c] = "fetch"
  /\ pc' = [pc EXCEPT ![c] = "idle"]
  /\ url' = [url EXCEPT ![c] = None]
  /\ UNCHANGED <<cache, holder, host, asked, document, now, drops>>
  /\ UNCHANGED <<worldVars, histVars>>

DropKeepsLock(c) ==
  /\ drops < MaxDrops
  /\ pc[c] \in {"lock", "ask", "answer", "fetch"}
  /\ pc' = [pc EXCEPT ![c] = "idle"]
  /\ drops' = drops + 1
  /\ UNCHANGED <<cache, holder, host, asked, document, url, now, worldVars, histVars>>

(* The future of c is dropped at an await: its guard is, nothing is stored. *)
Drop(c) ==
  /\ drops < MaxDrops
  /\ pc[c] \in {"lock", "ask", "answer", "fetch"}
  /\ pc' = [pc EXCEPT ![c] = "idle"]
  /\ holder' = [h \in Hosts |-> IF holder[h] = c THEN None ELSE holder[h]]
  /\ asked' = [asked EXCEPT ![c] = None]
  /\ document' = [document EXCEPT ![c] = None]
  /\ url' = [url EXCEPT ![c] = None]
  /\ drops' = drops + 1
  /\ UNCHANGED <<cache, host, now, worldVars, histVars>>

(* A host moves its API. *)
Move(h) ==
  /\ moves < MaxMoves
  /\ \E o \in Origins \ {home[h]} :
       /\ home' = [home EXCEPT ![h] = o]
       /\ left' = [left EXCEPT ![h][o] = now]
  /\ moves' = moves + 1
  /\ UNCHANGED <<cache, holder, callVars, now, drops, histVars>>

(* Time passes; a discovery in flight has ended when Timeout has passed. *)
Tick ==
  /\ now < MaxNow
  /\ \A c \in Callers : pc[c] \in {"ask", "answer"} => now < asked[c] + Timeout
  /\ now' = now + 1
  /\ left' = [h \in Hosts |-> [left[h] EXCEPT ![home[h]] = now + 1]]
  /\ UNCHANGED <<cache, holder, callVars, home, moves, drops, histVars>>

Work(c) == Look(c) \/ Relook(c) \/ Answer(c) \/ Discovered(c) \/ Undiscovered(c) \/ Fetch(c)

Next ==
  \/ \E c \in Callers : Origin(c) \/ Work(c) \/ Lock(c) \/ Drop(c)
  \/ \E h \in Hosts : Move(h)
  \/ Tick

(* A caller's task runs on, an outbound request ends by its timeout, and   *)
(* the mutex serves its waiters in order.                                  *)
Fairness == \A c \in Callers : WF_vars(Work(c)) /\ SF_vars(Lock(c))

Spec == Init /\ [][Next]_vars /\ Fairness

-----------------------------------------------------------------------------
(* A host is asked for its document by one caller at a time, not within    *)
(* Ttl of an answer, and not within Backoff of a failure, whatever the     *)
(* callers saw in the cache before they waited for the lock.               *)
DiscoverySpaced ==
  [][\A c \in Callers : pc[c] /= "ask" /\ pc'[c] = "ask" =>
       LET h == host[c] IN
       /\ \A d \in Callers \ {c} : host[d] = h => pc[d] \notin {"ask", "answer"}
       /\ succeeded[h] /= None => now >= succeeded[h] + Ttl
       /\ failed[h] /= None => now >= failed[h] + Backoff]_vars

(* Once the origin of a host has been discovered, no failure, back-off or  *)
(* dropped caller makes discover() answer with an error again.             *)
OriginKept ==
  [][\A c \in Callers : pc[c] /= "failed" /\ pc'[c] = "failed" =>
       succeeded[host[c]] = None]_vars

(* A caller is handed an origin the host left more than Ttl + Timeout ago  *)
(* only while a failed discovery is being backed off.                      *)
MoveFollowed ==
  [][\A c \in Callers : pc[c] /= "fetch" /\ pc'[c] = "fetch" =>
       LET h == host[c] IN
       \/ now < left[h][url'[c]] + Ttl + Timeout
       \/ failed'[h] /= None /\ now < failed'[h] + Backoff]_vars

(* Every call of discover(), and the request after it, comes to an end. *)
DiscoverEnds ==
  \A c \in Callers : (pc[c] = "look") ~> (pc[c] \in Ended)
=============================================================================
