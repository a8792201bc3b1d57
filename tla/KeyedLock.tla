----------------------------- MODULE KeyedLock -----------------------------
(***************************************************************************)
(* The map of per-key mutexes that single-flights downloads (storage.rs)   *)
(* and refreshes (metadata.rs).  A handle (ManagedArchiveLock,             *)
(* ManagedKeyLock) holds an Arc of the key's mutex; the handle's Drop      *)
(* removes the map entry when it believes it is the last user, which it    *)
(* reads off Arc::strong_count.  The map itself is behind a RwLock, so a   *)
(* lookup and the check in Drop are one step each; the Arc inside the      *)
(* handle is released only after Drop::drop has returned, in a later step. *)
(***************************************************************************)
EXTENDS Integers, FiniteSets

CONSTANTS Keys, Threads,
          Mutexes,    \* addresses at which an Arc<Mutex<()>> can be allocated
          Nobody,     \* owner of an unlocked mutex
          NoMutex     \* no map entry, or no Arc held

ASSUME LockConstants ==
  /\ IsFiniteSet(Threads) /\ IsFiniteSet(Keys)
  /\ Nobody \notin Threads /\ NoMutex \notin Mutexes

VARIABLES
  map,     \* map[k]: the mutex the lock map holds for k
  owner,   \* owner[m]: who holds the guard of m
  pc,      \* pc[t]: where t is in its use of a lock
  key,     \* key[t]: the key of t's handle
  arc      \* arc[t]: the mutex t's handle points to

vars == <<map, owner, pc, key, arc>>

Stages == {"idle", "wait", "held", "drop", "dropped"}

TypeOK ==
  /\ map \in [Keys -> Mutexes \cup {NoMutex}]
  /\ owner \in [Mutexes -> Threads \cup {Nobody}]
  /\ pc \in [Threads -> Stages]
  /\ key \in [Threads -> Keys]
  /\ arc \in [Threads -> Mutexes \cup {NoMutex}]

Init ==
  /\ map = [k \in Keys |-> NoMutex]
  /\ owner = [m \in Mutexes |-> Nobody]
  /\ pc = [t \in Threads |-> "idle"]
  /\ key \in [Threads -> Keys]
  /\ arc = [t \in Threads |-> NoMutex]

Mapped(m) == {k \in Keys : map[k] = m}
Handles(m) == {t \in Threads : arc[t] = m}

(* Arc::strong_count: the clones in the map and in the live handles. *)
StrongCount(m) == Cardinality(Mapped(m)) + Cardinality(Handles(m))

(* An address the allocator may hand out. *)
Free(m) == Mapped(m) = {} /\ Handles(m) = {}

-----------------------------------------------------------------------------
(* lock_for: entry(key).or_insert_with(..).clone(), under the map's lock. *)
LockFor(t, k) ==
  /\ pc[t] = "idle"
  /\ \E m \in Mutexes :
       \/ /\ map[k] = m
          /\ UNCHANGED <<map, owner>>
          /\ arc' = [arc EXCEPT ![t] = m]
       \/ /\ map[k] = NoMutex /\ Free(m)
          /\ map' = [map EXCEPT ![k] = m]
          /\ owner' = [owner EXCEPT ![m] = Nobody]
          /\ arc' = [arc EXCEPT ![t] = m]
  /\ key' = [key EXCEPT ![t] = k]
  /\ pc' = [pc EXCEPT ![t] = "wait"]

(* Mutated Acquire: the guard is handed over only without competition. *)
AcquireUncontended(t) ==
  /\ pc[t] = "wait"
  /\ owner[arc[t]] = Nobody /\ Handles(arc[t]) = {t}
  /\ owner' = [owner EXCEPT ![arc[t]] = t]
  /\ pc' = [pc EXCEPT ![t] = "held"]
  /\ UNCHANGED <<map, key, arc>>

(* mutex.lock().await returns the guard. *)
Acquire(t) ==
  /\ pc[t] = "wait"
  /\ owner[arc[t]] = Nobody
  /\ owner' = [owner EXCEPT ![arc[t]] = t]
  /\ pc' = [pc EXCEPT ![t] = "held"]
  /\ UNCHANGED <<map, key, arc>>

(* The future is dropped while it waits for the mutex: a metadata handler  *)
(* whose client disconnects, or the runtime shutting down.                 *)
Cancel(t) ==
  /\ pc[t] = "wait"
  /\ pc' = [pc EXCEPT ![t] = "drop"]
  /\ UNCHANGED <<map, owner, key, arc>>

(* The guard is declared after the handle, so it is dropped first. *)
Unlock(t) ==
  /\ pc[t] = "held"
  /\ owner' = [owner EXCEPT ![arc[t]] = Nobody]
  /\ pc' = [pc EXCEPT ![t] = "drop"]
  /\ UNCHANGED <<map, key, arc>>

(* Mutated LastUser: strong_count off by one. *)
LastUserOffByOne(t) == StrongCount(arc[t]) <= 3 /\ map[key[t]] = arc[t]

(* Mutated LastUser: the count is not looked at. *)
LastUserUncounted(t) == map[key[t]] = arc[t]

LastUser(t) == StrongCount(arc[t]) = 2 /\ map[key[t]] = arc[t]

(* Drop::drop of the handle, under the map's write lock. *)
DropCheck(t) ==
  /\ pc[t] = "drop"
  /\ map' = IF LastUser(t) THEN [map EXCEPT ![key[t]] = NoMutex] ELSE map
  /\ pc' = [pc EXCEPT ![t] = "dropped"]
  /\ UNCHANGED <<owner, key, arc>>

(* After Drop::drop the fields are dropped: the Arc is released. *)
DropArc(t) ==
  /\ pc[t] = "dropped"
  /\ arc' = [arc EXCEPT ![t] = NoMutex]
  /\ pc' = [pc EXCEPT ![t] = "idle"]
  /\ UNCHANGED <<map, owner, key>>

Next ==
  \E t \in Threads :
    \/ \E k \in Keys : LockFor(t, k)
    \/ Acquire(t) \/ Cancel(t) \/ Unlock(t) \/ DropCheck(t) \/ DropArc(t)

(* tokio's mutex queues its waiters, so one that keeps waiting is served   *)
(* (SF); a holder's critical section ends (network and disk operations     *)
(* have timeouts); dropping is straight-line code.  Nothing is assumed of  *)
(* who asks for a lock or gives up waiting.                                *)
Fairness ==
  \A t \in Threads :
    SF_vars(Acquire(t)) /\ WF_vars(Unlock(t) \/ DropCheck(t) \/ DropArc(t))

Spec == Init /\ [][Next]_vars /\ Fairness
-----------------------------------------------------------------------------
(* Two tasks are never both inside the critical section of one key, however *)
(* the removal of the map entry races with lookups of the same key: what    *)
(* single-flights downloads and index writes.                               *)
MutualExclusion ==
  \A s, t \in Threads :
    pc[s] = "held" /\ pc[t] = "held" /\ key[s] = key[t] => s = t

(* Who is in the critical section of key k, whichever mutex it locked. *)
Inside(k) == {t \in Threads : pc[t] = "held" /\ key[t] = k}
Holder == [k \in Keys |-> IF Inside(k) = {} THEN Nobody ELSE CHOOSE t \in Inside(k) : TRUE]

Mutex == INSTANCE KeyMutex WITH holder <- Holder

(* The lock map implements the abstract per-key mutex. *)
ImplementsKeyMutex == Mutex!Spec

(* No waiter is stranded on a mutex that has left the map or is never      *)
(* released: it gets the lock, or its future is dropped.                   *)
WaiterServed == \A t \in Threads : pc[t] = "wait" ~> pc[t] # "wait"
=============================================================================
