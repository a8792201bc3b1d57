------------------------------ MODULE KeyMutex ------------------------------
(***************************************************************************)
(* What the keyed locks promise their callers: for every key at most one   *)
(* thread is between lock().await and the drop of its guard.  KeyedLock is *)
(* the program's lock map, which implements this specification;            *)
(* ArchiveStore and the metadata modules take their locks from here.       *)
(***************************************************************************)
CONSTANTS Keys,      \* what is locked: an archive, an index or a version
          Threads,   \* the tasks that lock
          Nobody     \* the holder of a key that is not locked

VARIABLE holder      \* holder[k]: the thread that holds the guard of k

TypeOK == holder \in [Keys -> Threads \cup {Nobody}]

Init == holder = [k \in Keys |-> Nobody]

(* The guard of k is handed to t. *)
Acquire(k, t) ==
  /\ holder[k] = Nobody
  /\ holder' = [holder EXCEPT ![k] = t]

(* t drops the guard of k. *)
Release(k, t) ==
  /\ holder[k] = t
  /\ holder' = [holder EXCEPT ![k] = Nobody]

Next == \E k \in Keys, t \in Threads : Acquire(k, t) \/ Release(k, t)

Spec == Init /\ [][Next]_holder
=============================================================================
