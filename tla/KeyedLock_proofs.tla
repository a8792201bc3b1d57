-------------------------- MODULE KeyedLock_proofs --------------------------
(***************************************************************************)
(* Mutual exclusion of the keyed lock map, and that it implements          *)
(* KeyMutex, for every number of tasks, keys and mutexes.  The argument:   *)
(* every handle that has not yet run its Drop points to the mutex the map  *)
(* has for its key.  Drop may remove the entry only when it counts two     *)
(* Arcs, the map's and its own, so no such handle is left behind.          *)
(***************************************************************************)
EXTENDS KeyedLock, FiniteSetTheorems, TLAPS

(* A handle whose Drop has not run yet points to the map's mutex. *)
HandleIsMapped ==
  \A t \in Threads : pc[t] \in {"wait", "held", "drop"} =>
                       arc[t] \in Mutexes /\ map[key[t]] = arc[t]

(* An idle task has no Arc, any other one has. *)
ArcWhileBusy == \A t \in Threads : arc[t] = NoMutex <=> pc[t] = "idle"

(* No mutex serves two keys. *)
MapInjective ==
  \A j, k \in Keys : map[j] = map[k] /\ map[j] # NoMutex => j = k

(* The owner of a mutex is the task inside its critical section. *)
OwnerIsInside ==
  /\ \A t \in Threads : pc[t] = "held" => owner[arc[t]] = t
  /\ \A m \in Mutexes : owner[m] # Nobody =>
       owner[m] \in Threads /\ pc[owner[m]] = "held" /\ arc[owner[m]] = m

IInv ==
  TypeOK /\ HandleIsMapped /\ ArcWhileBusy /\ MapInjective /\ OwnerIsInside

(* What strong_count = 2 tells Drop: nobody else has a handle to its mutex. *)
LEMMA LastUserIsAlone ==
  ASSUME TypeOK, NEW t \in Threads, LastUser(t), arc[t] \in Mutexes,
         NEW s \in Threads, arc[s] = arc[t]
  PROVE  s = t
<1> DEFINE m == arc[t]
           H == Handles(m)
           M == Mapped(m)
<1>1. IsFiniteSet(H) /\ IsFiniteSet(M)
  BY FS_Subset, LockConstants DEF Handles, Mapped
<1>2. Cardinality(H) \in Nat /\ Cardinality(M) \in Nat
  BY <1>1, FS_CardinalityType
<1>3. M # {} /\ t \in H /\ s \in H
  BY DEF LastUser, Mapped, Handles, TypeOK
<1>4. Cardinality(M) # 0 /\ Cardinality(H) # 0
  BY <1>1, <1>3, FS_EmptySet
<1>5. Cardinality(M) + Cardinality(H) = 2
  BY DEF LastUser, StrongCount
<1>6. Cardinality(H) = 1
  BY <1>2, <1>4, <1>5
<1>7. \E x : H = {x}
  BY <1>1, <1>6, FS_Singleton
<1> QED BY <1>3, <1>7

LEMMA InitIInv == Init => IInv
BY LockConstants DEF Init, IInv, TypeOK, HandleIsMapped, ArcWhileBusy, MapInjective,
  OwnerIsInside, Stages

(* Every step of the lock map preserves the invariant. *)
LEMMA NextIInv == IInv /\ [Next]_vars => IInv'
<1> SUFFICES ASSUME IInv, [Next]_vars PROVE IInv'
  OBVIOUS
<1> USE LockConstants DEF IInv, TypeOK, Stages
<1>1. ASSUME NEW t \in Threads, NEW k \in Keys, LockFor(t, k) PROVE IInv'
  <2>1. PICK m \in Mutexes :
          \/ map[k] = m /\ UNCHANGED <<map, owner>> /\ arc' = [arc EXCEPT ![t] = m]
          \/ /\ map[k] = NoMutex /\ Free(m)
             /\ map' = [map EXCEPT ![k] = m]
             /\ owner' = [owner EXCEPT ![m] = Nobody]
             /\ arc' = [arc EXCEPT ![t] = m]
    BY <1>1 DEF LockFor
  <2>2. /\ pc[t] = "idle" /\ key' = [key EXCEPT ![t] = k]
        /\ pc' = [pc EXCEPT ![t] = "wait"]
    BY <1>1 DEF LockFor
  <2>3. map'[k] = m /\ \A j \in Keys \ {k} : map'[j] = map[j]
    BY <2>1
  <2>4. TypeOK'
    BY <2>1, <2>2
  <2>5. HandleIsMapped'
    <3> SUFFICES ASSUME NEW s \in Threads, pc'[s] \in {"wait", "held", "drop"}
                 PROVE  arc'[s] \in Mutexes /\ map'[key'[s]] = arc'[s]
      BY DEF HandleIsMapped
    <3>1. CASE s = t
      BY <3>1, <2>1, <2>2, <2>3
    <3>2. CASE s # t
      <4>1. pc[s] \in {"wait", "held", "drop"} /\ arc'[s] = arc[s] /\ key'[s] = key[s]
        BY <3>2, <2>1, <2>2
      <4>2. arc[s] \in Mutexes /\ map[key[s]] = arc[s]
        BY <4>1 DEF HandleIsMapped
      <4>3. map[k] = NoMutex => key[s] # k
        BY <4>2
      <4> QED BY <4>1, <4>2, <4>3, <2>1, <2>3
    <3> QED BY <3>1, <3>2
  <2>6. ArcWhileBusy'
    BY <2>1, <2>2 DEF ArcWhileBusy
  <2>7. MapInjective'
    BY <2>1, <2>3 DEF MapInjective, Free, Mapped
  <2>8. OwnerIsInside'
    <3>1. CASE UNCHANGED owner
      BY <3>1, <2>1, <2>2 DEF OwnerIsInside
    <3>2. CASE Free(m) /\ owner' = [owner EXCEPT ![m] = Nobody]
      BY <3>2, <2>1, <2>2 DEF OwnerIsInside, Free, Handles
    <3> QED BY <3>1, <3>2, <2>1
  <2> QED BY <2>4, <2>5, <2>6, <2>7, <2>8
<1>2. ASSUME NEW t \in Threads, Acquire(t) PROVE IInv'
  <2>1. arc[t] \in Mutexes
    BY <1>2 DEF Acquire, HandleIsMapped
  <2>2. TypeOK' /\ HandleIsMapped' /\ ArcWhileBusy' /\ MapInjective'
    BY <1>2, <2>1 DEF Acquire, HandleIsMapped, ArcWhileBusy, MapInjective
  <2>3. OwnerIsInside'
    BY <1>2, <2>1 DEF Acquire, OwnerIsInside
  <2> QED BY <2>2, <2>3
<1>3. ASSUME NEW t \in Threads, Cancel(t) PROVE IInv'
  BY <1>3 DEF Cancel, HandleIsMapped, ArcWhileBusy, MapInjective, OwnerIsInside
<1>4. ASSUME NEW t \in Threads, Unlock(t) PROVE IInv'
  <2>1. arc[t] \in Mutexes /\ owner[arc[t]] = t
    BY <1>4 DEF Unlock, HandleIsMapped, OwnerIsInside
  <2>2. TypeOK' /\ HandleIsMapped' /\ ArcWhileBusy' /\ MapInjective'
    BY <1>4, <2>1 DEF Unlock, HandleIsMapped, ArcWhileBusy, MapInjective
  <2>3. OwnerIsInside'
    BY <1>4, <2>1 DEF Unlock, OwnerIsInside
  <2> QED BY <2>2, <2>3
<1>5. ASSUME NEW t \in Threads, DropCheck(t) PROVE IInv'
  <2>1. arc[t] \in Mutexes /\ map[key[t]] = arc[t]
    BY <1>5 DEF DropCheck, HandleIsMapped
  <2>2. /\ pc[t] = "drop" /\ UNCHANGED <<owner, key, arc>>
        /\ pc' = [pc EXCEPT ![t] = "dropped"]
    BY <1>5 DEF DropCheck
  <2>3. map' = IF LastUser(t) THEN [map EXCEPT ![key[t]] = NoMutex] ELSE map
    BY <1>5 DEF DropCheck
  <2>4. TypeOK' /\ ArcWhileBusy' /\ MapInjective'
    BY <2>2, <2>3 DEF ArcWhileBusy, MapInjective
  <2>5. OwnerIsInside'
    BY <2>2 DEF OwnerIsInside
  <2>6. HandleIsMapped'
    <3> SUFFICES ASSUME NEW s \in Threads, pc'[s] \in {"wait", "held", "drop"}
                 PROVE  arc[s] \in Mutexes /\ map'[key[s]] = arc[s]
      BY <2>2 DEF HandleIsMapped
    <3>1. s # t /\ pc[s] \in {"wait", "held", "drop"}
      BY <2>2
    <3>2. arc[s] \in Mutexes /\ map[key[s]] = arc[s]
      BY <3>1 DEF HandleIsMapped
    <3>3. LastUser(t) => key[s] # key[t]
      BY <2>1, <3>1, <3>2, LastUserIsAlone
    <3> QED BY <2>3, <3>2, <3>3
  <2> QED BY <2>4, <2>5, <2>6
<1>6. ASSUME NEW t \in Threads, DropArc(t) PROVE IInv'
  BY <1>6 DEF DropArc, HandleIsMapped, ArcWhileBusy, MapInjective, OwnerIsInside
<1>7. CASE UNCHANGED vars
  BY <1>7 DEF vars, HandleIsMapped, ArcWhileBusy, MapInjective, OwnerIsInside
<1> QED BY <1>1, <1>2, <1>3, <1>4, <1>5, <1>6, <1>7 DEF Next

(* The inductive invariant holds in every reachable state. *)
THEOREM KeyedLockInvariant == Spec => []IInv
BY InitIInv, NextIInv, PTL DEF Spec

(* Two tasks are never both in the critical section of one key (lock_for,  *)
(* Drop for ManagedArchiveLock and ManagedKeyLock).                        *)
THEOREM KeyedLockExcludes == Spec => []MutualExclusion
<1>1. IInv => MutualExclusion
  <2> SUFFICES ASSUME IInv, NEW s \in Threads, NEW t \in Threads,
                      pc[s] = "held", pc[t] = "held", key[s] = key[t]
               PROVE  s = t
    BY DEF MutualExclusion
  <2>1. arc[s] = arc[t]
    BY DEF IInv, HandleIsMapped
  <2> QED BY <2>1 DEF IInv, OwnerIsInside
<1> QED BY <1>1, KeyedLockInvariant, PTL

MappedOwner == [k \in Keys |-> IF map[k] = NoMutex THEN Nobody ELSE owner[map[k]]]

(* Who is in a key's critical section owns the mutex the map has for it. *)
LEMMA HolderOwnsMapped == IInv => Holder = MappedOwner
<1> SUFFICES ASSUME IInv, NEW k \in Keys PROVE Holder[k] = MappedOwner[k]
  BY DEF Holder, MappedOwner
<1> USE LockConstants DEF IInv, TypeOK, MappedOwner
<1>1. \A t \in Inside(k) :
        t \in Threads /\ map[k] = arc[t] /\ map[k] \in Mutexes /\ owner[map[k]] = t
  BY DEF Inside, HandleIsMapped, OwnerIsInside
<1>2. CASE Inside(k) = {}
  <2>1. ASSUME map[k] \in Mutexes, owner[map[k]] # Nobody PROVE FALSE
    <3> DEFINE t == owner[map[k]]
    <3>1. t \in Threads /\ pc[t] = "held" /\ arc[t] = map[k]
      BY <2>1 DEF OwnerIsInside
    <3>2. key[t] \in Keys /\ map[key[t]] = map[k]
      BY <3>1 DEF HandleIsMapped
    <3>3. key[t] = k
      BY <2>1, <3>2 DEF MapInjective
    <3> QED BY <1>2, <3>1, <3>3 DEF Inside
  <2> QED BY <1>2, <2>1 DEF Holder
<1>3. CASE Inside(k) # {}
  <2>1. (CHOOSE t \in Inside(k) : TRUE) \in Inside(k)
    BY <1>3
  <2>2. Holder[k] \in Inside(k)
    BY <1>3, <2>1 DEF Holder
  <2> QED BY <1>1, <2>2
<1> QED BY <1>2, <1>3

(* The lock map implements the abstract per-key mutex: handing over and    *)
(* dropping a guard are its steps, and creating, counting and removing map *)
(* entries is invisible through the mapping Holder.                        *)
THEOREM KeyedLockRefines == Spec => ImplementsKeyMutex
<1>1. Init => Mutex!Init
  BY DEF Init, Mutex!Init, Holder, Inside
<1>2. IInv /\ IInv' /\ [Next]_vars => [Mutex!Next]_Holder
  <2> SUFFICES ASSUME IInv, IInv', [Next]_vars PROVE [Mutex!Next]_Holder
    OBVIOUS
  <2>0. Holder = MappedOwner /\ (Holder = MappedOwner)'
    BY HolderOwnsMapped, PTL
  <2> USE LockConstants DEF IInv, TypeOK, MappedOwner
  <2>1. ASSUME NEW t \in Threads, NEW k \in Keys, LockFor(t, k)
        PROVE  UNCHANGED Holder
    BY <2>0, <2>1 DEF LockFor, Free, Mapped, MapInjective
  <2>2. ASSUME NEW t \in Threads, Acquire(t) PROVE Mutex!Next
    <3>1. arc[t] \in Mutexes /\ key[t] \in Keys /\ map[key[t]] = arc[t]
      BY <2>2 DEF Acquire, HandleIsMapped
    <3>2. Holder[key[t]] = Nobody
      BY <2>0, <2>2, <3>1 DEF Acquire
    <3>3. \A j \in Keys : map[j] = arc[t] => j = key[t]
      BY <3>1 DEF MapInjective
    <3>4. \A j \in Keys : Holder'[j] = IF j = key[t] THEN t ELSE Holder[j]
      BY <2>0, <2>2, <3>1, <3>3 DEF Acquire
    <3>5. Holder' = [Holder EXCEPT ![key[t]] = t]
      BY <2>0, <3>1, <3>4
    <3> QED BY <3>1, <3>2, <3>5 DEF Mutex!Next, Mutex!Acquire
  <2>3. ASSUME NEW t \in Threads, Unlock(t) PROVE Mutex!Next
    <3>1. /\ arc[t] \in Mutexes /\ key[t] \in Keys /\ map[key[t]] = arc[t]
          /\ owner[arc[t]] = t
      BY <2>3 DEF Unlock, HandleIsMapped, OwnerIsInside
    <3>2. Holder[key[t]] = t
      BY <2>0, <2>3, <3>1 DEF Unlock
    <3>3. \A j \in Keys : map[j] = arc[t] => j = key[t]
      BY <3>1 DEF MapInjective
    <3>4. \A j \in Keys : Holder'[j] = IF j = key[t] THEN Nobody ELSE Holder[j]
      BY <2>0, <2>3, <3>1, <3>3 DEF Unlock
    <3>5. Holder' = [Holder EXCEPT ![key[t]] = Nobody]
      BY <2>0, <3>1, <3>4
    <3> QED BY <3>1, <3>2, <3>5 DEF Mutex!Next, Mutex!Release
  <2>4. ASSUME NEW t \in Threads, DropCheck(t) PROVE UNCHANGED Holder
    <3>1. arc[t] \in Mutexes /\ key[t] \in Keys /\ map[key[t]] = arc[t] /\ pc[t] = "drop"
      BY <2>4 DEF DropCheck, HandleIsMapped
    <3>2. LastUser(t) => owner[arc[t]] = Nobody
      BY <3>1, LastUserIsAlone DEF OwnerIsInside
    <3> QED BY <2>0, <2>4, <3>1, <3>2 DEF DropCheck
  <2>5. ASSUME NEW t \in Threads, Cancel(t) \/ DropArc(t) PROVE UNCHANGED Holder
    BY <2>0, <2>5 DEF Cancel, DropArc
  <2>6. CASE UNCHANGED vars
    BY <2>0, <2>6 DEF vars
  <2> QED BY <2>1, <2>2, <2>3, <2>4, <2>5, <2>6 DEF Next
<1> QED BY <1>1, <1>2, KeyedLockInvariant, PTL DEF Spec, ImplementsKeyMutex, Mutex!Spec
=============================================================================
