---------------------------- MODULE ArchiveCache ----------------------------
(***************************************************************************)
(* What the archive cache promises: a place for each archive that changes  *)
(* in one step, to just the bytes somebody asks for, and calls that return *)
(* what is in a place where they have found the bytes they ask for.  It    *)
(* vouches for the bytes it has seen, with two exceptions: a download cut  *)
(* short, and what replaces the file of a call that has just found it.     *)
(* A set with at most one element stands for an optional value.            *)
(***************************************************************************)
CONSTANTS Keys, Requests, Contents, Announced, Short

VARIABLES
  held,     \* held[<<k, l>>]: what archive k's place l has
  kept,     \* kept[k]: what k's place in the cache has after a power failure
  asked,    \* asked[r]: the archive and checksum of r's call
  found,    \* found[r]: the place in which r has found what it asked for
  given,    \* given[r]: the bytes r is being served
  touched,  \* archives an operator or a fault has interfered with
  unseen,   \* archives whose place in the cache is taken on trust
  up

vars == <<held, kept, asked, found, given, touched, unseen, up>>

Paths == Keys \X {"bundled", "cache"}
Optional(S) == {{}} \cup {{x} : x \in S}

Init ==
  /\ held \in [Paths -> Optional(Contents \cup {Short})]
  /\ kept = [k \in Keys |-> held[<<k, "cache">>]]
  /\ asked = [r \in Requests |-> {}]
  /\ found = [r \in Requests |-> {}]
  /\ given = [r \in Requests |-> {}]
  /\ touched = {} /\ unseen = {} /\ up = TRUE

Ask(r, k, d) ==
  /\ up /\ asked[r] = {} /\ given[r] = {} /\ d \in Announced[k]
  /\ asked' = [asked EXCEPT ![r] = {<<k, d>>}]
  /\ UNCHANGED <<held, kept, found, given, touched, unseen, up>>

(* What r asks for is in this place now, or taken to be. *)
Find(r, l) ==
  /\ \E k \in Keys : \E d \in Announced[k] :
       /\ asked[r] = {<<k, d>>}
       /\ held[<<k, l>>] = {d} \/ (l = "cache" /\ k \in unseen)
  /\ found' = [found EXCEPT ![r] = {l}]
  /\ UNCHANGED <<held, kept, asked, given, touched, unseen, up>>

(* r has looked again and found something else. *)
Lose(r) ==
  /\ found' = [found EXCEPT ![r] = {}]
  /\ UNCHANGED <<held, kept, asked, given, touched, unseen, up>>

(* A download replaces what the cache has, at once and only if it differs; *)
(* when its last write was lost, by something nobody has seen.             *)
Store(r) ==
  /\ found[r] = {}
  /\ \E k \in Keys : \E d \in Announced[k] :
       /\ asked[r] = {<<k, d>>} /\ held[<<k, "cache">>] # {d}
       /\ \/ /\ held' = [held EXCEPT ![<<k, "cache">>] = {d}]
             /\ unseen' = unseen \ {k}
          \/ /\ held' = [held EXCEPT ![<<k, "cache">>] = {Short}]
             /\ unseen' = unseen \cup {k}
  /\ found' = [found EXCEPT ![r] = {"cache"}]
  /\ UNCHANGED <<kept, asked, given, touched, up>>

(* It is on the disk for good. *)
Keep(k) ==
  /\ kept' = [kept EXCEPT ![k] = held[<<k, "cache">>]]
  /\ UNCHANGED <<held, asked, found, given, touched, unseen, up>>

Give(r) ==
  /\ \E k \in Keys, l \in found[r] : \E d \in Announced[k] :
       /\ asked[r] = {<<k, d>>} /\ held[<<k, l>>] # {}
       /\ given' = [given EXCEPT ![r] = held[<<k, l>>]]
  /\ asked' = [asked EXCEPT ![r] = {}]
  /\ found' = [found EXCEPT ![r] = {}]
  /\ UNCHANGED <<held, kept, touched, unseen, up>>

(* The call ends: an error, a response that is complete, a client that has *)
(* gone.                                                                   *)
Done(r) ==
  /\ asked' = [asked EXCEPT ![r] = {}]
  /\ found' = [found EXCEPT ![r] = {}]
  /\ given' = [given EXCEPT ![r] = {}]
  /\ UNCHANGED <<held, kept, touched, unseen, up>>

(* Somebody else changes the place.  That goes unnoticed by a call that has *)
(* found its archive there and is about to vouch for it.                    *)
Interfere(k, what) ==
  /\ k \notin touched
  /\ \/ unseen' = unseen \ {k}
     \/ /\ what # {} /\ unseen' = unseen \cup {k}
        /\ \E r \in Requests : \E d \in Announced[k] :
             asked[r] = {<<k, d>>} /\ found[r] = {"cache"}
  /\ touched' = touched \cup {k}
  /\ held' = [held EXCEPT ![<<k, "cache">>] = what]
  /\ kept' = [kept EXCEPT ![k] = what]
  /\ UNCHANGED <<asked, found, given, up>>

(* The process or the machine stops.  The archives in `lost` have what was *)
(* kept of them, the others what they had: never something in between, and *)
(* what was taken on trust is so no more.                                  *)
Crash(lost) ==
  /\ up /\ up' = FALSE /\ unseen' = {}
  /\ held' = [p \in Paths |-> IF p \in lost \X {"cache"} THEN kept[p[1]] ELSE held[p]]
  /\ kept' = [k \in Keys |-> held'[<<k, "cache">>]]
  /\ asked' = [r \in Requests |-> {}]
  /\ found' = [r \in Requests |-> {}]
  /\ given' = [r \in Requests |-> {}]
  /\ UNCHANGED touched

Restart ==
  ~up /\ up' = TRUE /\ UNCHANGED <<held, kept, asked, found, given, touched, unseen>>

Next ==
  \/ \E r \in Requests :
       \/ \E k \in Keys : \E d \in Announced[k] : Ask(r, k, d)
       \/ \E l \in {"bundled", "cache"} : Find(r, l)
       \/ Lose(r) \/ Store(r) \/ Give(r) \/ Done(r)
  \/ \E k \in Keys : Keep(k) \/ \E what \in Optional(Contents) : Interfere(k, what)
  \/ \E lost \in SUBSET Keys : Crash(lost)
  \/ Restart

Spec == Init /\ [][Next]_vars
=============================================================================
