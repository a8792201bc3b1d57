-------------------------- MODULE Discovery_proofs --------------------------
(***************************************************************************)
(* Proofs about Discovery, for any number of callers, hosts and origins    *)
(* and any Ttl, Backoff and Timeout; and about Outbound, for any address   *)
(* and any chain of redirects.                                             *)
(***************************************************************************)
EXTENDS MCDiscovery, SequenceTheorems, WellFoundedInduction, TLAPS

Asking == {"ask", "answer"}

(* Whoever is past the lock of its host has it. *)
LockInv ==
  \A c \in Callers : pc[c] \in {"relook"} \cup Asking => holder[host[c]] = c

(* The cache remembers the last success and the last failure of a host.    *)
(* A failure the entry has no retry_at for was over before the success.    *)
CacheInv ==
  \A h \in Hosts :
    /\ succeeded[h] = None => cache[h].origin = None
    /\ succeeded[h] /= None => /\ cache[h].origin \in Origins
                               /\ cache[h].fetched_at = succeeded[h]
                               /\ succeeded[h] <= now
    /\ cache[h].retry_at /= None =>
         failed[h] /= None /\ cache[h].retry_at = failed[h] + Backoff
    /\ cache[h].retry_at = None /\ failed[h] /= None =>
         succeeded[h] /= None /\ succeeded[h] >= failed[h] + Backoff

(* A discovery under way was begun after Ttl and Backoff had passed. *)
AskInv ==
  \A c \in Callers : pc[c] \in Asking =>
    /\ asked[c] \in 0..now /\ now <= asked[c] + Timeout
    /\ succeeded[host[c]] /= None => asked[c] >= succeeded[host[c]] + Ttl
    /\ failed[host[c]] /= None => asked[c] >= failed[host[c]] + Backoff

(* What a document or the cache says was true when the request was sent:   *)
(* an origin was home since, or at most Timeout before it was fetched.     *)
HomeInv ==
  /\ \A h \in Hosts : left[h][home[h]] = now
  /\ \A h \in Hosts, o \in Origins : left[h][o] /= None => left[h][o] <= now
  /\ \A c \in Callers : pc[c] = "answer" =>
       /\ document[c] \in Origins
       /\ left[host[c]][document[c]] /= None
       /\ left[host[c]][document[c]] >= asked[c]
  /\ \A h \in Hosts : cache[h].origin /= None =>
       /\ left[h][cache[h].origin] /= None
       /\ cache[h].fetched_at <= left[h][cache[h].origin] + Timeout

IInv == TypeOK /\ LockInv /\ CacheInv /\ AskInv /\ HomeInv

-----------------------------------------------------------------------------
(* At the start nothing is cached, asked for or known to have failed. *)
LEMMA DiscoveryInit == Init => IInv
<1> SUFFICES ASSUME Init PROVE IInv
  OBVIOUS
<1> USE TimesAssumption
<1>1. TypeOK
  BY DEF Init, TypeOK, NoEntry, DiscoveryEntry, Ended, Stages, Locks!Init, Locks!TypeOK
<1>2. LockInv /\ AskInv
  BY DEF Init, LockInv, AskInv, Asking
<1>3. CacheInv
  BY DEF Init, CacheInv, NoEntry
<1>4. HomeInv
  BY DEF Init, HomeInv, NoEntry
<1> QED  BY <1>1, <1>2, <1>3, <1>4 DEF IInv

(* An entry of the cache, with the types the provers need. *)
LEMMA EntryTypes ==
  ASSUME TypeOK, NEW h \in Hosts
  PROVE  /\ cache[h] \in DiscoveryEntry
         /\ cache[h].origin \in Origins \cup {None}
         /\ cache[h].fetched_at \in 0..MaxNow
         /\ cache[h].retry_at \in 0..(MaxNow + Backoff) \cup {None}
<1> USE TimesAssumption
<1>1. NoEntry \in DiscoveryEntry
  BY DEF NoEntry, DiscoveryEntry
<1>2. cache[h] \in DiscoveryEntry
  BY <1>1 DEF TypeOK
<1> QED  BY <1>2 DEF DiscoveryEntry

(* Two discoveries of one host are never under way at once. *)
LEMMA OneAsks ==
  ASSUME LockInv, NEW c \in Callers, NEW d \in Callers, host[c] = host[d],
         pc[c] \in {"relook"} \cup Asking, pc[d] \in {"relook"} \cup Asking
  PROVE  c = d
  BY DEF LockInv

(* A call begins, or the look at the cache before the lock decides it, or  *)
(* the request to the origin ends: nothing shared changes.                 *)
LEMMA UnlockedKeeps ==
  ASSUME IInv, NEW c \in Callers, Origin(c) \/ Look(c) \/ Fetch(c)
  PROVE  IInv'
<1> USE TimesAssumption DEF IInv
<1>1. UNCHANGED <<cache, holder, now, home, moves, drops, left, succeeded, failed>>
  BY DEF Origin, Look, Fetch, worldVars, histVars
<1>2. /\ pc' \in [Callers -> Stages] /\ host' \in [Callers -> Hosts]
      /\ \A d \in Callers \ {c} : pc'[d] = pc[d] /\ host'[d] = host[d]
           /\ asked'[d] = asked[d] /\ document'[d] = document[d]
  <2>1. CASE Origin(c)
    BY <2>1 DEF TypeOK, Origin, Stages
  <2>2. CASE Look(c)
    BY <2>2 DEF TypeOK, Look, Return, Stages, Ended
  <2>3. CASE Fetch(c)
    BY <2>3 DEF TypeOK, Fetch, Stages, Ended
  <2> QED  BY <2>1, <2>2, <2>3
<1>3. pc'[c] \notin {"relook"} \cup Asking
  BY DEF TypeOK, Origin, Look, Fetch, Return, Asking
<1>4. TypeOK'
  <2>1. asked' \in [Callers -> 0..MaxNow \cup {None}] /\ document' \in [Callers -> Origins \cup {None}]
    BY DEF TypeOK, Origin, Look, Fetch, Return
  <2>2. url' \in [Callers -> Origins \cup {None}]
    BY EntryTypes DEF TypeOK, Origin, Look, Fetch, Return
  <2> QED  BY <1>1, <1>2, <2>1, <2>2 DEF TypeOK, Locks!TypeOK
<1>5. LockInv'
  BY <1>1, <1>2, <1>3 DEF LockInv
<1>6. CacheInv'
  BY <1>1 DEF CacheInv
<1>7. AskInv'
  BY <1>1, <1>2, <1>3 DEF AskInv
<1>8. HomeInv'
  BY <1>1, <1>2, <1>3 DEF HomeInv, Asking
<1> QED  BY <1>4, <1>5, <1>6, <1>7, <1>8

(* The lock is taken; what is cached is as before. *)
LEMMA LockKeeps ==
  ASSUME IInv, NEW c \in Callers, Lock(c)
  PROVE  IInv'
<1> USE TimesAssumption DEF IInv
<1>1. UNCHANGED <<cache, host, asked, document, url, now, home, moves, drops, left,
                  succeeded, failed>>
  BY DEF Lock, worldVars, histVars
<1>2. /\ host[c] \in Hosts /\ holder[host[c]] = None
      /\ holder' = [holder EXCEPT ![host[c]] = c] /\ pc' = [pc EXCEPT ![c] = "relook"]
  BY DEF TypeOK, Lock, Locks!Acquire
<1>3. TypeOK'
  BY <1>1, <1>2 DEF TypeOK, Locks!TypeOK, Stages
<1>4. LockInv'
  BY <1>1, <1>2 DEF TypeOK, Locks!TypeOK, LockInv, Asking
<1>5. CacheInv'
  BY <1>1 DEF CacheInv
<1>6. AskInv'
  BY <1>1, <1>2 DEF TypeOK, AskInv, Asking
<1>7. HomeInv'
  BY <1>1, <1>2 DEF TypeOK, HomeInv
<1> QED  BY <1>3, <1>4, <1>5, <1>6, <1>7

(* The second look: who goes on to ask does so late enough, because the    *)
(* cache says when the host last answered and last failed.                 *)
LEMMA RelookKeeps ==
  ASSUME IInv, NEW c \in Callers, Relook(c)
  PROVE  IInv'
<1> USE TimesAssumption DEF IInv
<1> DEFINE h == host[c]
<1>1. UNCHANGED <<cache, host, now, home, moves, drops, left, succeeded, failed>>
  BY DEF Relook, worldVars, histVars
<1>2. h \in Hosts /\ pc[c] = "relook" /\ holder[h] = c
  BY DEF TypeOK, Relook, LockInv
<1>3. CASE Decided(cache[h])
  <2>1. /\ Return(c, cache[h].origin) /\ holder' = [holder EXCEPT ![h] = None]
    BY <1>3 DEF Relook, Locks!Release
  <2>2. cache[h].origin \in Origins \cup {None}
    BY <1>2, EntryTypes
  <2>3. TypeOK'
    BY <1>1, <1>2, <2>1, <2>2 DEF TypeOK, Locks!TypeOK, Return, Stages, Ended
  <2>4. LockInv'
    BY <1>1, <1>2, <2>1 DEF TypeOK, Locks!TypeOK, LockInv, Return, Asking
  <2>5. CacheInv'
    BY <1>1 DEF CacheInv
  <2>6. AskInv'
    BY <1>1, <2>1 DEF TypeOK, AskInv, Return, Asking
  <2>7. HomeInv'
    BY <1>1, <2>1 DEF TypeOK, HomeInv, Return
  <2> QED  BY <2>3, <2>4, <2>5, <2>6, <2>7
<1>4. CASE ~Decided(cache[h])
  <2>1. /\ pc' = [pc EXCEPT ![c] = "ask"] /\ asked' = [asked EXCEPT ![c] = now]
        /\ UNCHANGED <<holder, document, url>>
    BY <1>4 DEF Relook
  <2>2. TypeOK'
    BY <1>1, <2>1 DEF TypeOK, Locks!TypeOK, Stages
  <2>3. LockInv'
    BY <1>1, <1>2, <2>1 DEF TypeOK, LockInv, Asking
  <2>4. CacheInv'
    BY <1>1 DEF CacheInv
  <2>5. AskInv'
    <3>1. /\ succeeded[h] /= None => now >= succeeded[h] + Ttl
          /\ failed[h] /= None => now >= failed[h] + Backoff
      <4>1. /\ succeeded[h] \in 0..MaxNow \cup {None} /\ failed[h] \in 0..MaxNow \cup {None}
            /\ now \in 0..MaxNow
        BY <1>2 DEF TypeOK
      <4> QED  BY <1>2, <1>4, <4>1, EntryTypes DEF CacheInv, Decided
    <3>2. ASSUME NEW d \in Callers \ {c} PROVE pc'[d] = pc[d] /\ asked'[d] = asked[d]
      BY <2>1 DEF TypeOK
    <3>3. pc'[c] = "ask" /\ asked'[c] = now /\ now \in Nat
      BY <2>1 DEF TypeOK
    <3> QED  BY <1>1, <3>1, <3>2, <3>3 DEF AskInv
  <2>6. HomeInv'
    BY <1>1, <2>1 DEF TypeOK, HomeInv
  <2> QED  BY <2>2, <2>3, <2>4, <2>5, <2>6
<1> QED  BY <1>3, <1>4

(* The document names the origin that is home when the host answers. *)
LEMMA AnswerKeeps ==
  ASSUME IInv, NEW c \in Callers, Answer(c)
  PROVE  IInv'
<1> USE TimesAssumption DEF IInv
<1>1. UNCHANGED <<cache, holder, host, asked, url, now, home, moves, drops, left, succeeded, failed>>
  BY DEF Answer, worldVars, histVars
<1>2. /\ pc[c] = "ask" /\ document' = [document EXCEPT ![c] = home[host[c]]]
      /\ pc' = [pc EXCEPT ![c] = "answer"] /\ host[c] \in Hosts /\ home[host[c]] \in Origins
  BY DEF Answer, TypeOK
<1>3. TypeOK'
  BY <1>1, <1>2 DEF TypeOK, Locks!TypeOK, Stages
<1>4. LockInv'
  BY <1>1, <1>2 DEF TypeOK, LockInv, Asking
<1>5. CacheInv'
  BY <1>1 DEF CacheInv
<1>6. AskInv'
  BY <1>1, <1>2 DEF TypeOK, AskInv, Asking
<1>7. HomeInv'
  <2>1. asked[c] \in 0..now /\ left[host[c]][home[host[c]]] = now /\ now \in Nat
    BY <1>2 DEF TypeOK, AskInv, HomeInv, Asking
  <2> QED  BY <1>1, <1>2, <2>1 DEF TypeOK, HomeInv
<1> QED  BY <1>3, <1>4, <1>5, <1>6, <1>7

(* Only the caller that asks changes the entry of its host, so the times   *)
(* other callers rely on stay what they are.                               *)
LEMMA DiscoveredKeeps ==
  ASSUME IInv, NEW c \in Callers, Discovered(c)
  PROVE  IInv'
<1> USE TimesAssumption DEF IInv
<1> DEFINE h == host[c]
           entry == [origin |-> document[c], fetched_at |-> now, retry_at |-> None]
<1>1. /\ UNCHANGED <<host, now, drops, failed, home, moves, left>>
      /\ pc[c] = "answer" /\ cache' = [cache EXCEPT ![h] = entry]
      /\ holder' = [holder EXCEPT ![h] = None] /\ succeeded' = [succeeded EXCEPT ![h] = now]
      /\ Return(c, document[c])
  BY DEF Discovered, worldVars, Locks!Release
<1>2. /\ h \in Hosts /\ holder[h] = c /\ now \in 0..MaxNow
      /\ document[c] \in Origins /\ document[c] /= None
  BY <1>1 DEF TypeOK, LockInv, HomeInv, Asking
<1>3. entry \in DiscoveryEntry
  BY <1>2 DEF DiscoveryEntry
<1>4. /\ pc' = [pc EXCEPT ![c] = "fetch"] /\ url' = [url EXCEPT ![c] = document[c]]
      /\ asked' = [asked EXCEPT ![c] = None] /\ document' = [document EXCEPT ![c] = None]
  BY <1>1, <1>2 DEF Return
<1>5. TypeOK'
  <2>1. cache' \in [Hosts -> DiscoveryEntry \cup {NoEntry}]
    BY <1>1, <1>2, <1>3 DEF TypeOK
  <2> QED  BY <1>1, <1>2, <1>4, <2>1 DEF TypeOK, Locks!TypeOK, Stages
<1>6. LockInv'
  BY <1>1, <1>2, <1>4 DEF TypeOK, Locks!TypeOK, LockInv, Asking
<1>7. asked[c] \in 0..now /\ now <= asked[c] + Timeout
      /\ (failed[h] /= None => asked[c] >= failed[h] + Backoff)
  BY <1>1, <1>2 DEF AskInv, Asking
<1>8. CacheInv'
  <2>1. cache'[h] = entry /\ succeeded'[h] = now /\ failed[h] \in 0..MaxNow \cup {None}
    BY <1>1, <1>2 DEF TypeOK
  <2>2. ASSUME NEW g \in Hosts \ {h} PROVE cache'[g] = cache[g] /\ succeeded'[g] = succeeded[g]
    BY <1>1 DEF TypeOK
  <2> QED  BY <1>1, <1>2, <1>7, <2>1, <2>2 DEF CacheInv
<1>9. AskInv'
  <2> SUFFICES ASSUME NEW d \in Callers, pc'[d] \in Asking
               PROVE  /\ asked'[d] \in 0..now' /\ now' <= asked'[d] + Timeout
                      /\ succeeded'[host'[d]] /= None => asked'[d] >= succeeded'[host'[d]] + Ttl
                      /\ failed'[host'[d]] /= None => asked'[d] >= failed'[host'[d]] + Backoff
    BY DEF AskInv
  <2>1. d /= c /\ pc[d] \in Asking /\ asked'[d] = asked[d]
    BY <1>4 DEF TypeOK, Asking
  <2>2. host[d] /= h
    BY <1>1, <2>1, OneAsks DEF Asking
  <2> QED  BY <1>1, <2>1, <2>2 DEF TypeOK, AskInv
<1>10. HomeInv'
  <2>1. \A d \in Callers : pc'[d] = "answer" => pc[d] = "answer" /\ document'[d] = document[d]
          /\ asked'[d] = asked[d]
    BY <1>4 DEF TypeOK
  <2>2. /\ left[h][document[c]] /= None /\ left[h][document[c]] >= asked[c]
        /\ left[h][document[c]] \in 0..MaxNow \cup {None}
    BY <1>1, <1>2 DEF TypeOK, HomeInv
  <2>3. cache'[h] = entry /\ \A g \in Hosts \ {h} : cache'[g] = cache[g]
    BY <1>1, <1>2 DEF TypeOK
  <2>4. now <= left[h][document[c]] + Timeout
    BY <1>2, <1>7, <2>2
  <2> QED  BY <1>1, <1>2, <2>1, <2>2, <2>3, <2>4 DEF HomeInv
<1> QED  BY <1>5, <1>6, <1>8, <1>9, <1>10

(* A failure keeps the origin and its age. *)
LEMMA UndiscoveredKeeps ==
  ASSUME IInv, NEW c \in Callers, Undiscovered(c)
  PROVE  IInv'
<1> USE TimesAssumption DEF IInv
<1> DEFINE h == host[c]
<1>1. /\ UNCHANGED <<host, now, drops, succeeded, home, moves, left>>
      /\ pc[c] \in Asking /\ cache' = [cache EXCEPT ![h] = BackedOff(cache[h])]
      /\ holder' = [holder EXCEPT ![h] = None] /\ failed' = [failed EXCEPT ![h] = now]
      /\ Return(c, cache[h].origin)
  BY DEF Undiscovered, worldVars, Locks!Release, Asking
<1>2. h \in Hosts /\ holder[h] = c /\ now \in 0..MaxNow
  BY <1>1 DEF TypeOK, LockInv
<1>3. /\ BackedOff(cache[h]) \in DiscoveryEntry
      /\ BackedOff(cache[h]).origin = cache[h].origin
      /\ cache[h].origin /= None => BackedOff(cache[h]).fetched_at = cache[h].fetched_at
      /\ BackedOff(cache[h]).retry_at = now + Backoff
  <2>1. cache[h] = NoEntry => cache[h].origin = None
    BY DEF NoEntry
  <2> QED  BY <1>2, <2>1, EntryTypes DEF BackedOff, DiscoveryEntry
<1>4. TypeOK'
  <2>1. cache' \in [Hosts -> DiscoveryEntry \cup {NoEntry}]
    BY <1>1, <1>2, <1>3 DEF TypeOK
  <2>2. cache[h].origin \in Origins \cup {None}
    BY <1>2, EntryTypes
  <2> QED  BY <1>1, <1>2, <2>1, <2>2 DEF TypeOK, Locks!TypeOK, Return, Stages, Ended
<1>5. /\ pc'[c] \notin {"relook"} \cup Asking
      /\ \A d \in Callers \ {c} : pc'[d] = pc[d] /\ asked'[d] = asked[d] /\ document'[d] = document[d]
  BY <1>1 DEF TypeOK, Return, Asking
<1>6. LockInv'
  BY <1>1, <1>2, <1>5 DEF TypeOK, Locks!TypeOK, LockInv
<1>7. CacheInv'
  <2>1. cache'[h] = BackedOff(cache[h]) /\ failed'[h] = now
    BY <1>1, <1>2 DEF TypeOK
  <2>2. \A g \in Hosts \ {h} : cache'[g] = cache[g] /\ failed'[g] = failed[g]
    BY <1>1 DEF TypeOK
  <2> QED  BY <1>1, <1>2, <1>3, <2>1, <2>2 DEF CacheInv
<1>8. AskInv'
  <2> SUFFICES ASSUME NEW d \in Callers, pc'[d] \in Asking
               PROVE  /\ asked'[d] \in 0..now' /\ now' <= asked'[d] + Timeout
                      /\ succeeded'[host'[d]] /= None => asked'[d] >= succeeded'[host'[d]] + Ttl
                      /\ failed'[host'[d]] /= None => asked'[d] >= failed'[host'[d]] + Backoff
    BY DEF AskInv
  <2>1. d /= c /\ pc[d] \in Asking /\ asked'[d] = asked[d]
    BY <1>5
  <2>2. host[d] /= h
    BY <1>1, <2>1, OneAsks
  <2> QED  BY <1>1, <2>1, <2>2 DEF TypeOK, AskInv
<1>9. HomeInv'
  <2>1. \A d \in Callers : pc'[d] = "answer" => pc[d] = "answer" /\ document'[d] = document[d]
          /\ asked'[d] = asked[d]
    BY <1>5 DEF Asking
  <2>2. \A g \in Hosts : cache'[g].origin = cache[g].origin
          /\ (cache[g].origin /= None => cache'[g].fetched_at = cache[g].fetched_at)
    BY <1>1, <1>2, <1>3 DEF TypeOK
  <2> QED  BY <1>1, <2>1, <2>2 DEF HomeInv
<1> QED  BY <1>4, <1>6, <1>7, <1>8, <1>9

(* A dropped caller leaves nothing but its lock. *)
LEMMA DropKeeps ==
  ASSUME IInv, NEW c \in Callers, Drop(c)
  PROVE  IInv'
<1> USE TimesAssumption DEF IInv
<1>1. /\ UNCHANGED <<cache, host, now, home, moves, left, succeeded, failed>>
      /\ pc' = [pc EXCEPT ![c] = "idle"] /\ drops' = drops + 1
      /\ holder' = [h \in Hosts |-> IF holder[h] = c THEN None ELSE holder[h]]
      /\ asked' = [asked EXCEPT ![c] = None] /\ document' = [document EXCEPT ![c] = None]
      /\ url' = [url EXCEPT ![c] = None]
  BY DEF Drop, worldVars, histVars
<1>2. TypeOK'
  BY <1>1 DEF TypeOK, Locks!TypeOK, Stages, Ended
<1>3. LockInv'
  BY <1>1 DEF TypeOK, LockInv, Asking
<1>4. CacheInv'
  BY <1>1 DEF CacheInv
<1>5. AskInv'
  BY <1>1 DEF TypeOK, AskInv, Asking
<1>6. HomeInv'
  BY <1>1 DEF TypeOK, HomeInv
<1> QED  BY <1>2, <1>3, <1>4, <1>5, <1>6

(* A move only makes the new place the one that was home last. *)
LEMMA MoveKeeps ==
  ASSUME IInv, NEW h \in Hosts, Move(h)
  PROVE  IInv'
<1> USE TimesAssumption DEF IInv
<1>1. UNCHANGED <<cache, holder, pc, host, asked, document, url, now, drops, succeeded, failed>>
  BY DEF Move, callVars, histVars
<1>2. PICK o \in Origins \ {home[h]} : /\ home' = [home EXCEPT ![h] = o]
                                       /\ left' = [left EXCEPT ![h][o] = now]
  BY DEF Move
<1>3. moves' = moves + 1 /\ now \in 0..MaxNow
  BY DEF Move, TypeOK
<1>4. TypeOK'
  BY <1>1, <1>2, <1>3 DEF TypeOK, Locks!TypeOK
<1>5. LockInv' /\ CacheInv' /\ AskInv'
  BY <1>1 DEF LockInv, CacheInv, AskInv
<1>6. \A g \in Hosts, q \in Origins :
        left'[g][q] = IF g = h /\ q = o THEN now ELSE left[g][q]
  BY <1>2 DEF TypeOK
<1>7. HomeInv'
  <2>1. \A g \in Hosts : left'[g][home'[g]] = now'
    BY <1>1, <1>2, <1>6 DEF TypeOK, HomeInv
  <2>2. \A g \in Hosts, q \in Origins : left'[g][q] /= None => left'[g][q] <= now'
    BY <1>1, <1>3, <1>6 DEF HomeInv
  <2>3. \A g \in Hosts, q \in Origins : left[g][q] /= None =>
          left'[g][q] /= None /\ left'[g][q] \in Nat /\ left[g][q] \in Nat /\ left[g][q] <= left'[g][q]
    <3>1. \A g \in Hosts, q \in Origins : left[g][q] \in 0..MaxNow \cup {None}
      BY DEF TypeOK
    <3> QED  BY <1>3, <1>6, <3>1 DEF HomeInv
  <2>4. ASSUME NEW c \in Callers, pc[c] = "answer"
        PROVE  left'[host[c]][document[c]] /= None /\ left'[host[c]][document[c]] >= asked[c]
    BY <2>3, <2>4 DEF HomeInv, AskInv, TypeOK, Asking
  <2>5. ASSUME NEW g \in Hosts, cache[g].origin /= None
        PROVE  /\ left'[g][cache[g].origin] /= None
               /\ cache[g].fetched_at <= left'[g][cache[g].origin] + Timeout
    BY <2>3, <2>5, EntryTypes DEF HomeInv
  <2> QED  BY <1>1, <2>1, <2>2, <2>4, <2>5 DEF HomeInv
<1> QED  BY <1>4, <1>5, <1>7

(* Time passes, for nobody longer than Timeout while a request is out. *)
LEMMA TickKeeps ==
  ASSUME IInv, Tick
  PROVE  IInv'
<1> USE TimesAssumption DEF IInv
<1>1. /\ UNCHANGED <<cache, holder, pc, host, asked, document, url, home, moves, drops,
                     succeeded, failed>>
      /\ now \in Nat /\ now < MaxNow /\ now' = now + 1
      /\ left' = [h \in Hosts |-> [left[h] EXCEPT ![home[h]] = now + 1]]
      /\ \A c \in Callers : pc[c] \in Asking => now < asked[c] + Timeout
  BY DEF Tick, callVars, histVars, Asking, TypeOK
<1>2. TypeOK'
  BY <1>1 DEF TypeOK, Locks!TypeOK
<1>3. LockInv'
  BY <1>1 DEF LockInv
<1>4. CacheInv'
  BY <1>1 DEF CacheInv, TypeOK
<1>5. AskInv'
  BY <1>1 DEF AskInv, TypeOK
<1>6. \A g \in Hosts, q \in Origins :
        left'[g][q] = IF q = home[g] THEN now + 1 ELSE left[g][q]
  BY <1>1 DEF TypeOK
<1>7. HomeInv'
  <2>1. \A g \in Hosts : left'[g][home'[g]] = now'
    BY <1>1, <1>6 DEF TypeOK
  <2>2. \A g \in Hosts, q \in Origins : left[g][q] /= None =>
          left'[g][q] /= None /\ left'[g][q] \in Nat /\ left[g][q] \in Nat /\ left[g][q] <= left'[g][q]
    BY <1>1, <1>6 DEF HomeInv, TypeOK
  <2>3. \A g \in Hosts, q \in Origins : left'[g][q] /= None => left'[g][q] <= now'
    BY <1>1, <1>6 DEF HomeInv, TypeOK
  <2>4. ASSUME NEW c \in Callers, pc[c] = "answer"
        PROVE  left'[host[c]][document[c]] /= None /\ left'[host[c]][document[c]] >= asked[c]
    BY <2>2, <2>4 DEF HomeInv, AskInv, TypeOK, Asking
  <2>5. ASSUME NEW g \in Hosts, cache[g].origin /= None
        PROVE  /\ left'[g][cache[g].origin] /= None
               /\ cache[g].fetched_at <= left'[g][cache[g].origin] + Timeout
    BY <2>2, <2>5, EntryTypes DEF HomeInv
  <2> QED  BY <1>1, <2>1, <2>3, <2>4, <2>5 DEF HomeInv
<1> QED  BY <1>2, <1>3, <1>4, <1>5, <1>7

LEMMA DiscoveryStep == IInv /\ [Next]_vars => IInv'
<1> SUFFICES ASSUME IInv, [Next]_vars PROVE IInv'
  OBVIOUS
<1>1. ASSUME NEW c \in Callers, Origin(c) \/ Work(c) \/ Lock(c) \/ Drop(c)
      PROVE  IInv'
  BY <1>1, UnlockedKeeps, LockKeeps, RelookKeeps, AnswerKeeps, DiscoveredKeeps,
     UndiscoveredKeeps, DropKeeps DEF Work
<1>2. CASE UNCHANGED vars
  BY <1>2 DEF vars, IInv, TypeOK, Locks!TypeOK, LockInv, CacheInv, AskInv, HomeInv
<1> QED  BY <1>1, <1>2, MoveKeeps, TickKeeps DEF Next

LEMMA DiscoveryInv == Spec => []IInv
  BY DiscoveryInit, DiscoveryStep, PTL DEF Spec

-----------------------------------------------------------------------------
(* Every variable of the registry client has its type. *)
THEOREM DiscoveryTypes == Spec => []TypeOK
<1>1. IInv => TypeOK
  BY DEF IInv
<1> QED  BY <1>1, DiscoveryInv, PTL

(* A host is asked by one caller at a time, and neither within Ttl of its  *)
(* last answer nor within Backoff of its last failure (DiscoverySpaced):   *)
(* the second look is made under the lock that every change of the entry   *)
(* is made under.                                                          *)
THEOREM AsksAreSpaced == Spec => DiscoverySpaced
<1> DEFINE Spaced ==
      \A c \in Callers : pc[c] /= "ask" /\ pc'[c] = "ask" =>
        LET h == host[c] IN
        /\ \A d \in Callers \ {c} : host[d] = h => pc[d] \notin {"ask", "answer"}
        /\ succeeded[h] /= None => now >= succeeded[h] + Ttl
        /\ failed[h] /= None => now >= failed[h] + Backoff
<1>1. IInv /\ IInv' /\ [Next]_vars => [Spaced]_vars
  <2> SUFFICES ASSUME IInv, IInv', Next, NEW c \in Callers, pc[c] /= "ask", pc'[c] = "ask"
               PROVE  LET h == host[c] IN
                      /\ \A d \in Callers \ {c} : host[d] = h => pc[d] \notin {"ask", "answer"}
                      /\ succeeded[h] /= None => now >= succeeded[h] + Ttl
                      /\ failed[h] /= None => now >= failed[h] + Backoff
    OBVIOUS
  <2>1. pc[c] = "relook" /\ asked'[c] = now
        /\ UNCHANGED <<host, now, succeeded, failed>>
    <3>1. PICK b \in Callers : Origin(b) \/ Work(b) \/ Lock(b) \/ Drop(b)
      BY DEF Next, Move, Tick, callVars
    <3>2. CASE b /= c
      BY <3>1, <3>2 DEF IInv, TypeOK, Origin, Work, Look, Lock, Relook, Answer, Discovered,
                        Undiscovered, Fetch, Drop, Return
    <3>3. CASE b = c
      BY <3>1, <3>3 DEF IInv, TypeOK, Origin, Work, Look, Lock, Relook, Answer, Discovered,
                        Undiscovered, Fetch, Drop, Return, histVars
    <3> QED  BY <3>2, <3>3
  <2>2. \A d \in Callers \ {c} : host[d] = host[c] => pc[d] \notin {"ask", "answer"}
    BY <2>1, OneAsks DEF IInv, Asking
  <2>3. /\ succeeded[host[c]] /= None => now >= succeeded[host[c]] + Ttl
        /\ failed[host[c]] /= None => now >= failed[host[c]] + Backoff
    BY <2>1 DEF IInv, AskInv, Asking
  <2> QED  BY <2>2, <2>3
<1> QED  BY <1>1, DiscoveryInv, PTL DEF Spec, DiscoverySpaced

(* Once an origin has been discovered, no later call of discover() answers *)
(* with an error (OriginKept).                                             *)
THEOREM OriginsAreKept == Spec => OriginKept
<1> DEFINE Kept ==
      \A c \in Callers : pc[c] /= "failed" /\ pc'[c] = "failed" => succeeded[host[c]] = None
<1>1. IInv /\ [Next]_vars => [Kept]_vars
  <2> SUFFICES ASSUME IInv, Next, NEW c \in Callers, pc[c] /= "failed", pc'[c] = "failed"
               PROVE  succeeded[host[c]] = None
    OBVIOUS
  <2>1. Look(c) \/ Relook(c) \/ Discovered(c) \/ Undiscovered(c)
    <3>1. PICK b \in Callers : Origin(b) \/ Work(b) \/ Lock(b) \/ Drop(b)
      BY DEF Next, Move, Tick, callVars
    <3> QED  BY <3>1 DEF IInv, TypeOK, Origin, Work, Look, Lock, Relook, Answer, Discovered,
                         Undiscovered, Fetch, Drop, Return
  <2>2. host[c] \in Hosts
    BY DEF IInv, TypeOK
  <2>3. ~Discovered(c)
    BY TimesAssumption DEF IInv, TypeOK, HomeInv, Discovered, Return
  <2>4. cache[host[c]].origin = None
    BY <2>1, <2>3 DEF IInv, TypeOK, Look, Relook, Undiscovered, Return
  <2> QED  BY <2>2, <2>4, TimesAssumption DEF IInv, CacheInv
<1> QED  BY <1>1, DiscoveryInv, PTL DEF Spec, OriginKept

(* A move is followed within Ttl + Timeout, unless discovery fails         *)
(* (MoveFollowed): the age of an origin counts from a moment at which it   *)
(* still was home.                                                         *)
THEOREM MovesAreFollowed == Spec => MoveFollowed
<1> DEFINE Followed ==
      \A c \in Callers : pc[c] /= "fetch" /\ pc'[c] = "fetch" =>
        LET h == host[c] IN
        \/ now < left[h][url'[c]] + Ttl + Timeout
        \/ failed'[h] /= None /\ now < failed'[h] + Backoff
<1>1. IInv /\ [Next]_vars => [Followed]_vars
  <2> SUFFICES ASSUME IInv, Next, NEW c \in Callers, pc[c] /= "fetch", pc'[c] = "fetch"
               PROVE  \/ now < left[host[c]][url'[c]] + Ttl + Timeout
                      \/ failed'[host[c]] /= None /\ now < failed'[host[c]] + Backoff
    OBVIOUS
  <2> DEFINE h == host[c]
             origin == cache[h].origin
  <2> USE TimesAssumption
  <2>1. Look(c) \/ Relook(c) \/ Discovered(c) \/ Undiscovered(c)
    <3>1. PICK b \in Callers : Origin(b) \/ Work(b) \/ Lock(b) \/ Drop(b)
      BY DEF Next, Move, Tick, callVars
    <3> QED  BY <3>1 DEF IInv, TypeOK, Origin, Work, Look, Lock, Relook, Answer, Discovered,
                         Undiscovered, Fetch, Drop, Return
  <2>2. h \in Hosts /\ now \in 0..MaxNow
    BY DEF IInv, TypeOK
  <2>3. CASE Look(c) \/ Relook(c)
    <3>1. Decided(cache[h]) /\ url'[c] = origin /\ failed' = failed /\ origin /= None
      BY <2>3 DEF IInv, TypeOK, Look, Relook, Return, histVars
    <3>2. /\ origin \in Origins /\ left[h][origin] /= None
          /\ cache[h].fetched_at <= left[h][origin] + Timeout
      BY <2>2, <3>1, EntryTypes DEF IInv, HomeInv
    <3>3. left[h][origin] \in Nat /\ cache[h].fetched_at \in Nat
      BY <2>2, <3>2, EntryTypes DEF IInv, TypeOK
    <3>4. CASE now - cache[h].fetched_at < Ttl
      BY <2>2, <3>1, <3>2, <3>3, <3>4
    <3>5. CASE cache[h].retry_at /= None /\ now < cache[h].retry_at
      BY <2>2, <3>1, <3>5 DEF IInv, CacheInv
    <3> QED  BY <3>1, <3>4, <3>5 DEF Decided
  <2>4. CASE Discovered(c)
    <3>1. pc[c] = "answer" /\ url'[c] = document[c]
      BY <2>4 DEF IInv, TypeOK, Discovered, Return
    <3>2. /\ asked[c] \in 0..now /\ now <= asked[c] + Timeout
          /\ left[h][document[c]] >= asked[c] /\ left[h][document[c]] \in Nat
      BY <2>2, <3>1 DEF IInv, TypeOK, AskInv, HomeInv, Asking
    <3>3. now < left[h][document[c]] + Ttl + Timeout
      BY <2>2, <3>2
    <3> QED  BY <3>1, <3>3
  <2>5. CASE Undiscovered(c)
    <3>1. failed'[h] = now
      BY <2>2, <2>5 DEF IInv, TypeOK, Undiscovered
    <3> QED  BY <2>2, <3>1
  <2> QED  BY <2>1, <2>3, <2>4, <2>5
<1> QED  BY <1>1, DiscoveryInv, PTL DEF Spec, MoveFollowed

-----------------------------------------------------------------------------
Segments == {n \in Nat : n < 65536}

(* is_public_ip takes an IPv4 address for public exactly when it lies in    *)
(* none of the reserved blocks, whatever its octets.                        *)
THEOREM PublicIpv4 ==
  \A a, b, c, d \in Octets :
    is_public_ip(<<a, b, c, d>>) <=>
      \A block \in Reserved4 : ~InBlock4(<<a, b, c, d>>, block)
<1> SUFFICES ASSUME NEW a \in Octets, NEW b \in Octets, NEW c \in Octets, NEW d \in Octets
             PROVE  is_public_ip(<<a, b, c, d>>) <=>
                      \A block \in Reserved4 : ~InBlock4(<<a, b, c, d>>, block)
  OBVIOUS
<1>1. is_public_ip(<<a, b, c, d>>) <=> is_public_ipv4(<<a, b, c, d>>)
  BY DEF is_public_ip
<1>2. is_public_ipv4(<<a, b, c, d>>) <=>
        \A block \in Reserved4 : ~InBlock4(<<a, b, c, d>>, block)
  BY DEF is_public_ipv4, is_private, is_loopback, is_link_local, Reserved4, InBlock4,
         Prefix, Octets
<1> QED  BY <1>1, <1>2

LEMMA SegmentBounds ==
  ASSUME NEW x \in Segments
  PROVE  x \in Nat /\ x < 65536
  BY DEF Segments

(* An IPv6 address has eight segments. *)
Ipv6 == {s \in Seq(Segments) : Len(s) = 8}

LEMMA FirstSix ==
  ASSUME NEW s \in Ipv6, NEW t \in Seq(Segments), Len(t) = 6
  PROVE  SubSeq(s, 1, 6) = t <=> Begins(s, t)
<1>0. s \in Seq(Segments) /\ Len(s) = 8
  BY DEF Ipv6
<1>1. \A i \in 1..6 : s[i] \in Segments
  <2>1. \A i \in 1..8 : s[i] \in Segments
    BY <1>0, ElementOfSeq
  <2> QED  BY <2>1
<1>2. PICK u : u = SubSeq(s, 1, 6)
  OBVIOUS
<1>3. /\ u \in Seq(Segments) /\ Len(u) = 6
      /\ \A i \in 1..6 : u[i] = s[i]
  <2>1. Len(u) = 6
    BY <1>0, <1>2
  <2>2. \A i \in 1..6 : u[i] = s[i]
    BY <1>0, <1>2
  <2>3. u \in Seq(Segments)
    BY <1>0, <1>1, <1>2, SubSeqProperties
  <2> QED  BY <2>1, <2>2, <2>3
<1>4. (\A i \in 1..6 : u[i] = t[i]) => u = t
  BY <1>3, SeqEqual
<1> QED  BY <1>2, <1>3, <1>4 DEF Begins

LEMMA TwoOctets ==
  ASSUME NEW a \in Octets, NEW b \in Octets
  PROVE  a * 256 + b \in Segments
<1>1. PICK x \in Nat : x = a * 256 + b /\ x < 65536
  BY DEF Octets
<1>2. x \in Segments
  BY <1>1 DEF Segments
<1> QED  BY <1>1, <1>2

(* The octets of two segments put together from them. *)
LEMMA OctetsBack ==
  ASSUME NEW a \in Octets, NEW b \in Octets, NEW c \in Octets, NEW d \in Octets
  PROVE  embedded_v4(a * 256 + b, c * 256 + d) = <<a, b, c, d>>
  BY DEF embedded_v4, Octets

LEMMA PrefixesTyped ==
  \A t \in Prefixes : t \in Seq(Segments) /\ Len(t) = 6
<1>1. 0 \in Segments /\ \hffff \in Segments /\ \h64 \in Segments /\ \hff9b \in Segments
  BY DEF Segments
<1>2. /\ <<0, 0, 0, 0, 0, 0>> \in Seq(Segments)
      /\ Len(<<0, 0, 0, 0, 0, 0>>) = 6
  BY <1>1
<1>3. /\ <<0, 0, 0, 0, 0, \hffff>> \in Seq(Segments)
      /\ Len(<<0, 0, 0, 0, 0, \hffff>>) = 6
  BY <1>1
<1>4. /\ <<\h64, \hff9b, 0, 0, 0, 0>> \in Seq(Segments)
      /\ Len(<<\h64, \hff9b, 0, 0, 0, 0>>) = 6
  BY <1>1
<1> SUFFICES ASSUME NEW t \in Prefixes
             PROVE  t \in Seq(Segments) /\ Len(t) = 6
  OBVIOUS
<1>5. \/ t = <<0, 0, 0, 0, 0, 0>>
      \/ t = <<0, 0, 0, 0, 0, \hffff>>
      \/ t = <<\h64, \hff9b, 0, 0, 0, 0>>
  BY DEF Prefixes
<1>6. CASE t = <<0, 0, 0, 0, 0, 0>>
  BY <1>2, <1>6
<1>7. CASE t = <<0, 0, 0, 0, 0, \hffff>>
  BY <1>3, <1>7
<1>8. CASE t = <<\h64, \hff9b, 0, 0, 0, 0>>
  BY <1>4, <1>8
<1> QED  BY <1>5, <1>6, <1>7, <1>8

LEMMA MappedOrNot ==
  ASSUME NEW s \in Ipv6
  PROVE  /\ to_ipv4(s) = IF \/ Begins(s, <<0, 0, 0, 0, 0, 0>>)
                            \/ Begins(s, <<0, 0, 0, 0, 0, \hffff>>)
                         THEN {embedded_v4(s[7], s[8])} ELSE {}
         /\ SubSeq(s, 1, 6) = <<\h64, \hff9b, 0, 0, 0, 0>> <=>
              Begins(s, <<\h64, \hff9b, 0, 0, 0, 0>>)
<1>1. \A t \in Prefixes : SubSeq(s, 1, 6) = t <=> Begins(s, t)
  BY PrefixesTyped, FirstSix
<1>2. /\ SubSeq(s, 1, 6) = <<0, 0, 0, 0, 0, 0>> <=> Begins(s, <<0, 0, 0, 0, 0, 0>>)
      /\ SubSeq(s, 1, 6) = <<0, 0, 0, 0, 0, \hffff>> <=>
           Begins(s, <<0, 0, 0, 0, 0, \hffff>>)
      /\ SubSeq(s, 1, 6) = <<\h64, \hff9b, 0, 0, 0, 0>> <=>
           Begins(s, <<\h64, \hff9b, 0, 0, 0, 0>>)
  BY <1>1 DEF Prefixes
<1> QED  BY <1>2 DEF to_ipv4

(* An IPv6 address that carries an IPv4 address is judged by that one; any  *)
(* other by the reserved blocks.                                            *)
LEMMA JudgedByForm ==
  \A s \in Ipv6 :
    is_public_ip(s) <=>
      IF InTail(s) THEN is_public_ip(embedded_v4(s[7], s[8]))
      ELSE IF s[1] = \h2002 THEN is_public_ip(embedded_v4(s[2], s[3]))
      ELSE \A block \in Reserved6 : ~InBlock6(s, block)
<1> SUFFICES ASSUME NEW s \in Ipv6
             PROVE  is_public_ip(s) <=>
                      IF InTail(s) THEN is_public_ip(embedded_v4(s[7], s[8]))
                      ELSE IF s[1] = \h2002 THEN is_public_ip(embedded_v4(s[2], s[3]))
                      ELSE \A block \in Reserved6 : ~InBlock6(s, block)
  OBVIOUS
<1>0. s \in Seq(Segments) /\ Len(s) = 8
  BY DEF Ipv6
<1>1. is_public_ip(s) <=> is_public_ipv6(s)
  <2>1. Len(s) # 4
    BY <1>0
  <2> QED  BY <2>1, Zenon DEF is_public_ip
<1>2. \A high, low : is_public_ip(embedded_v4(high, low)) <=>
        is_public_ipv4(embedded_v4(high, low))
  BY DEF is_public_ip, embedded_v4
<1>3. InTail(s) <=> to_ipv4(s) # {} \/ SubSeq(s, 1, 6) = <<\h64, \hff9b, 0, 0, 0, 0>>
  BY MappedOrNot DEF InTail, Prefixes
<1>4. to_ipv4(s) # {} => to_ipv4(s) = {embedded_v4(s[7], s[8])}
  BY MappedOrNot
<1>5. s[1] \in Segments /\ s[2] \in Segments
  <2>1. \A i \in 1..8 : s[i] \in Segments
    BY <1>0, ElementOfSeq
  <2> QED  BY <2>1
<1>6. CASE InTail(s)
  BY <1>1, <1>2, <1>3, <1>4, <1>6 DEF is_public_ipv6
<1>7. CASE ~InTail(s) /\ s[1] = \h2002
  BY <1>1, <1>2, <1>3, <1>7 DEF is_public_ipv6
<1>8. CASE ~InTail(s) /\ s[1] # \h2002
  <2>1. is_public_ipv6(s) <=>
          /\ s[1] < \hff00
          /\ s[1] \div 512 /= \hfc00 \div 512
          /\ s[1] \div 64 /= \hfe80 \div 64
          /\ s[1] \div 64 /= \hfec0 \div 64
          /\ ~(s[1] = \h2001 /\ s[2] = \hdb8)
    BY <1>3, <1>8 DEF is_public_ipv6
  <2>2. is_public_ipv6(s) <=> \A block \in Reserved6 : ~InBlock6(s, block)
    <3>1. PICK a \in Nat, b \in Nat : a = s[1] /\ b = s[2] /\ a < 65536
      BY <1>5, SegmentBounds
    <3>2. (\A block \in Reserved6 : ~InBlock6(s, block)) <=>
            /\ ~InBlock6(s, <<<<\hfc00, 0>>, 7>>)
            /\ ~InBlock6(s, <<<<\hfe80, 0>>, 10>>)
            /\ ~InBlock6(s, <<<<\hfec0, 0>>, 10>>)
            /\ ~InBlock6(s, <<<<\hff00, 0>>, 8>>)
            /\ ~InBlock6(s, <<<<\h2001, \hdb8>>, 32>>)
      BY DEF Reserved6
    <3>3. InBlock6(s, <<<<\hfc00, 0>>, 7>>) <=> a \div 512 = \hfc00 \div 512
      BY <3>1 DEF InBlock6
    <3>4. InBlock6(s, <<<<\hfe80, 0>>, 10>>) <=> a \div 64 = \hfe80 \div 64
      BY <3>1 DEF InBlock6
    <3>5. InBlock6(s, <<<<\hfec0, 0>>, 10>>) <=> a \div 64 = \hfec0 \div 64
      BY <3>1 DEF InBlock6
    <3>6. InBlock6(s, <<<<\hff00, 0>>, 8>>) <=> ~(a < \hff00)
      <4>1. InBlock6(s, <<<<\hff00, 0>>, 8>>) <=> a \div 256 = \hff00 \div 256
        BY <3>1 DEF InBlock6
      <4>2. a \div 256 = \hff00 \div 256 <=> ~(a < \hff00)
        BY <3>1
      <4> QED  BY <4>1, <4>2
    <3>7. InBlock6(s, <<<<\h2001, \hdb8>>, 32>>) <=> a = \h2001 /\ b = \hdb8
      BY <3>1 DEF InBlock6
    <3> QED  BY <2>1, <3>1, <3>2, <3>3, <3>4, <3>5, <3>6, <3>7
  <2> QED  BY <1>1, <1>8, <2>2
<1> QED  BY <1>6, <1>7, <1>8

LEMMA EmbeddedOctets ==
  ASSUME NEW high \in Segments, NEW low \in Segments
  PROVE  \E a, b, c, d \in Octets : embedded_v4(high, low) = <<a, b, c, d>>
<1>1. \A x \in Segments : x \div 256 \in Octets /\ x % 256 \in Octets
  BY DEF Segments, Octets
<1> QED  BY <1>1 DEF embedded_v4

(* is_public_ip takes an IPv6 address for public exactly when it lies in    *)
(* none of the reserved blocks, nor carries an IPv4 address that does       *)
(* (mapped, compatible, NAT64 and 6to4 addresses), whatever its segments.   *)
THEOREM PublicIpv6 ==
  \A s \in Ipv6 : is_public_ip(s) <=> OnInternet(s)
<1> SUFFICES ASSUME NEW s \in Ipv6
             PROVE  is_public_ip(s) <=> OnInternet(s)
  OBVIOUS
<1>1. ASSUME NEW high \in Segments, NEW low \in Segments
      PROVE  is_public_ip(embedded_v4(high, low)) <=> Unreserved4(embedded_v4(high, low))
  <2>1. PICK a \in Octets, b \in Octets, c \in Octets, d \in Octets :
          embedded_v4(high, low) = <<a, b, c, d>>
    BY EmbeddedOctets
  <2> QED  BY <2>1, PublicIpv4 DEF Unreserved4
<1>2. \A i \in 1..8 : s[i] \in Segments
  BY ElementOfSeq DEF Ipv6
<1>3. s[2] \in Segments /\ s[3] \in Segments /\ s[7] \in Segments /\ s[8] \in Segments
  BY <1>2
<1>4. Len(s) = 8
  BY DEF Ipv6
<1>5. Len(s) # 4
  BY <1>4
<1> QED  BY <1>1, <1>3, <1>5, JudgedByForm DEF OnInternet

(* An address written in octets is judged alike in every IPv6 form that     *)
(* carries it, with any interface behind a 6to4 prefix.                     *)
THEOREM CarriedIpv4 ==
  \A a, b, c, d \in Octets :
    /\ \A t \in Prefixes :
         is_public_ip(t \o <<a * 256 + b, c * 256 + d>>) <=> is_public_ip(<<a, b, c, d>>)
    /\ \A s \in Ipv6 :
         s[1] = \h2002 /\ s[2] = a * 256 + b /\ s[3] = c * 256 + d =>
           (is_public_ip(s) <=> is_public_ip(<<a, b, c, d>>))
<1> SUFFICES ASSUME NEW a \in Octets, NEW b \in Octets, NEW c \in Octets, NEW d \in Octets
             PROVE  /\ \A t \in Prefixes :
                         is_public_ip(t \o <<a * 256 + b, c * 256 + d>>) <=>
                           is_public_ip(<<a, b, c, d>>)
                    /\ \A s \in Ipv6 :
                         s[1] = \h2002 /\ s[2] = a * 256 + b /\ s[3] = c * 256 + d =>
                           (is_public_ip(s) <=> is_public_ip(<<a, b, c, d>>))
  OBVIOUS
<1>1. PICK high, low : high = a * 256 + b /\ low = c * 256 + d
  OBVIOUS
<1>2. embedded_v4(high, low) = <<a, b, c, d>>
  BY <1>1, OctetsBack, SMTT(30)
<1>3. high \in Segments /\ low \in Segments
  BY <1>1, TwoOctets
<1>4. ASSUME NEW t \in Prefixes
      PROVE  is_public_ip(t \o <<high, low>>) <=> is_public_ip(<<a, b, c, d>>)
  <2>1. t \in Seq(Segments) /\ Len(t) = 6
    BY PrefixesTyped
  <2>2. PICK s : s = t \o <<high, low>>
    OBVIOUS
  <2>3. <<high, low>> \in Seq(Segments) /\ Len(<<high, low>>) = 2
    BY <1>3
  <2>4. /\ s \in Seq(Segments)
        /\ Len(s) = Len(t) + Len(<<high, low>>)
        /\ \A i \in 1 .. Len(t) + Len(<<high, low>>) :
             s[i] = IF i <= Len(t) THEN t[i] ELSE <<high, low>>[i - Len(t)]
    BY <2>1, <2>2, <2>3, ConcatProperties, Zenon
  <2>5. s \in Seq(Segments) /\ Len(s) = 8
    BY <2>1, <2>3, <2>4
  <2>6. s[7] = high /\ s[8] = low /\ \A i \in 1..6 : s[i] = t[i]
    BY <2>1, <2>3, <2>4
  <2>7. s \in Ipv6 /\ InTail(s)
    BY <2>5, <2>6 DEF Ipv6, InTail, Begins
  <2>8. is_public_ip(s) <=> is_public_ip(embedded_v4(s[7], s[8]))
    BY <2>7, JudgedByForm
  <2> QED  BY <1>2, <2>2, <2>6, <2>8
<1>5. ASSUME NEW s \in Ipv6, s[1] = \h2002, s[2] = high, s[3] = low
      PROVE  is_public_ip(s) <=> is_public_ip(<<a, b, c, d>>)
  <2>1. ~InTail(s)
    BY <1>5 DEF InTail, Prefixes, Begins
  <2>2. is_public_ip(s) <=> is_public_ip(embedded_v4(s[2], s[3]))
    BY <1>5, <2>1, JudgedByForm
  <2> QED  BY <1>2, <1>5, <2>2
<1> QED  BY <1>1, <1>4, <1>5

-----------------------------------------------------------------------------
(* A set of numbers with 0 and every successor has all of them. *)
LEMMA AllNumbers ==
  ASSUME NEW T, 0 \in T, \A n \in Nat : n \in T => n + 1 \in T
  PROVE  \A n \in Nat : n \in T
<1> DEFINE Missing == {n \in Nat : n \notin T}
<1> SUFFICES ASSUME Missing # {} PROVE FALSE
  OBVIOUS
<1>1. IsWellFoundedOn(OpToRel(<, Nat), Nat)
  BY NatLessThanWellFounded, Zenon
<1>2. Missing \subseteq Nat
  OBVIOUS
<1>3. \E m \in Missing : \A n \in Missing : ~(<<n, m>> \in OpToRel(<, Nat))
  <2> HIDE DEF Missing
  <2> QED  BY <1>1, <1>2, WFMin, Zenon
<1>4. \A m, n \in Nat : n < m => <<n, m>> \in OpToRel(<, Nat)
  BY Zenon DEF OpToRel
<1>5. \E m \in Missing : \A n \in Missing : ~(n < m)
  BY <1>2, <1>3, <1>4, Zenon
<1>6. PICK m \in Missing : \A n \in Missing : ~(n < m)
  BY <1>5
<1>7. m \in Nat /\ m # 0 /\ m \notin T
  OBVIOUS
<1>8. m - 1 \in Nat /\ m - 1 < m /\ (m - 1) + 1 = m
  BY <1>7
<1>9. m - 1 \in T
  BY <1>6, <1>8
<1> QED  BY <1>7, <1>8, <1>9

(* The same below a number. *)
LEMMA AllBelow ==
  ASSUME NEW M \in Nat, NEW T, M \in T, \A n \in 0..M : n # M /\ n + 1 \in T => n \in T
  PROVE  \A n \in 0..M : n \in T
<1> DEFINE D == {k \in Nat : k <= M => M - k \in T}
<1>1. 0 \in D
  OBVIOUS
<1>2. ASSUME NEW k \in Nat, k \in D PROVE k + 1 \in D
  <2> SUFFICES ASSUME k + 1 <= M PROVE M - (k + 1) \in T
    OBVIOUS
  <2>1. PICK n \in 0..M : n = M - (k + 1) /\ n + 1 = M - k /\ n # M
    OBVIOUS
  <2> QED  BY <1>2, <2>1
<1>3. \A k \in Nat : k \in D
  <2> HIDE DEF D
  <2> QED  BY <1>1, <1>2, AllNumbers
<1>4. ASSUME NEW n \in 0..M PROVE n \in T
  <2>1. PICK k \in Nat : k = M - n /\ k <= M /\ M - k = n
    OBVIOUS
  <2>2. k \in D
    BY <1>3
  <2> QED  BY <2>1, <2>2
<1> QED  BY <1>4

(* The servers a client may be sent to.  A redirect leads to one of them,   *)
(* and a host is an address literal or a name, not both.                    *)
Addresses == {<<a, b, c, d>> : a, b, c, d \in Octets} \cup Ipv6
ClosedWeb(web) ==
  \A u \in DOMAIN web :
    /\ web[u].kind \in {"ok", "lost", "down", "redirect"}
    /\ web[u].kind = "redirect" => web[u].to \in DOMAIN web
ClosedNet(net, web) ==
  \A u \in DOMAIN web :
    /\ net.literal[u.host] \cup net.dns[u.host] \subseteq Addresses
    /\ net.literal[u.host] = {} \/ net.dns[u.host] = {}
AnyClient(client) ==
  /\ client.mode \in {"direct", "proxy"}
  /\ client.allow_http \in BOOLEAN /\ client.allow_non_public_ips \in BOOLEAN

Allowed(client, net, u) == validate_url(client, net, u) /\ Connects(client, net, u)

LEMMA JudgedAlike ==
  ASSUME NEW ip \in Addresses
  PROVE  is_public_ip(ip) <=> OnInternet(ip)
<1>1. CASE ip \in Ipv6
  BY <1>1, PublicIpv6
<1>2. CASE ip \notin Ipv6
  <2>1. PICK a \in Octets, b \in Octets, c \in Octets, d \in Octets : ip = <<a, b, c, d>>
    BY <1>2 DEF Addresses
  <2>2. Len(ip) = 4
    BY <2>1
  <2> QED  BY <2>1, <2>2, PublicIpv4 DEF OnInternet, Unreserved4
<1> QED  BY <1>1, <1>2

(* The policy lets exactly the permitted URLs through. *)
LEMMA AllowedIsPermitted ==
  ASSUME NEW client, AnyClient(client), NEW net, NEW web, ClosedNet(net, web),
         NEW u \in DOMAIN web
  PROVE  Allowed(client, net, u) <=> Permitted(client, net, u)
<1> DEFINE L == net.literal[u.host]
           D == net.dns[u.host]
<1>1. L \cup D \subseteq Addresses /\ (L = {} \/ D = {})
  BY DEF ClosedNet
<1>2. \A ip \in L \cup D : is_public_ip(ip) <=> OnInternet(ip)
  BY <1>1, JudgedAlike
<1>3. Permitted(client, net, u) <=>
        /\ u.host /= ""
        /\ u.scheme = "https" \/ (client.allow_http /\ u.scheme = "http")
        /\ client.mode = "direct" =>
             /\ L \cup D /= {}
             /\ client.allow_non_public_ips \/ \A ip \in L \cup D : OnInternet(ip)
  BY DEF Permitted, AnyClient
<1>4. Allowed(client, net, u) <=>
        /\ u.host /= ""
        /\ u.scheme = "https" \/ (client.allow_http /\ u.scheme = "http")
        /\ client.mode = "direct" /\ ~client.allow_non_public_ips => \A ip \in L : is_public_ip(ip)
        /\ client.mode = "direct" /\ L = {} =>
             /\ D /= {}
             /\ client.allow_non_public_ips \/ \A ip \in D : is_public_ip(ip)
  BY DEF Allowed, validate_url, Connects, resolve
<1> HIDE DEF L, D
<1>5. ASSUME L = {} PROVE L \cup D = D
  BY <1>5
<1>6. ASSUME D = {} PROVE L \cup D = L
  BY <1>6
<1> QED  BY <1>1, <1>2, <1>3, <1>4, <1>5, <1>6, Zenon

-----------------------------------------------------------------------------
(* A round of the redirect loop looks at no other round but the next one. *)
Rounds(web) == (0..MaxRedirects) \X DOMAIN web
NextRound(web, x) == <<x[1] + 1, web[x[2]].to>>

LEMMA RoundsFollow ==
  ASSUME NEW client, NEW net, NEW web, ClosedWeb(web), NEW x \in Rounds(web), NEW f, NEW g,
         NextRound(web, x) \in Rounds(web) => f[NextRound(web, x)] = g[NextRound(web, x)]
  PROVE  Follow(client, net, web, f, x) = Follow(client, net, web, g, x)
<1>1. x[1] \in 0..MaxRedirects /\ x[2] \in DOMAIN web
  BY DEF Rounds
<1>2. CASE NextRound(web, x) \in Rounds(web)
  BY <1>2 DEF Follow, NextRound
<1>3. CASE NextRound(web, x) \notin Rounds(web)
  <2>1. x[1] + 1 \notin 0..MaxRedirects \/ web[x[2]].to \notin DOMAIN web
    BY <1>3, Zenon DEF NextRound, Rounds
  <2>2. x[1] = MaxRedirects \/ web[x[2]].kind # "redirect"
    BY <1>1, <2>1, RedirectsAssumption DEF ClosedWeb
  <2> QED  BY <1>1, <2>2 DEF Follow, ClosedWeb
<1> QED  BY <1>2, <1>3

(* The redirect loop is defined by its rounds. *)
IsLoop(client, net, web, f) ==
  /\ DOMAIN f = Rounds(web)
  /\ \A x \in Rounds(web) : f[x] = Follow(client, net, web, f, x)

LEMMA LoopExists ==
  ASSUME NEW client, NEW net, NEW web, ClosedWeb(web)
  PROVE  \E f : f = [x \in Rounds(web) |-> Follow(client, net, web, f, x)]
<1> DEFINE F(f, x) == Follow(client, net, web, f, x)
           From(f, n) == \A x \in Rounds(web) : x[1] >= n => f[x] = F(f, x)
           T == {n \in 0..MaxRedirects : \E f : From(f, n)}
<1>0. MaxRedirects \in Nat
  BY RedirectsAssumption
<1>1. ASSUME NEW x \in Rounds(web)
      PROVE  /\ x[1] \in 0..MaxRedirects
             /\ NextRound(web, x)[1] = x[1] + 1
  BY DEF Rounds, NextRound
<1>2. MaxRedirects \in T
  <2> DEFINE g == [x \in Rounds(web) |-> F([y \in {} |-> y], x)]
  <2>1. ASSUME NEW x \in Rounds(web), x[1] >= MaxRedirects
        PROVE  g[x] = F(g, x)
    <3>1. NextRound(web, x) \notin Rounds(web)
      BY <1>0, <1>1, <2>1
    <3>2. F([y \in {} |-> y], x) = F(g, x)
      BY <3>1, RoundsFollow, Zenon
    <3> QED  BY <3>2
  <2> HIDE DEF g, F
  <2> QED  BY <1>0, <2>1
<1>3. ASSUME NEW n \in 0..MaxRedirects, n # MaxRedirects, n + 1 \in T
      PROVE  n \in T
  <2>1. PICK f : From(f, n + 1)
    BY <1>3
  <2> DEFINE g == [x \in Rounds(web) |-> F(f, x)]
  <2>2. \A x \in Rounds(web) : x[1] >= n + 1 => g[x] = f[x]
    BY <2>1
  <2>3. ASSUME NEW x \in Rounds(web), x[1] >= n
        PROVE  g[x] = F(g, x)
    <3> DEFINE y == NextRound(web, x)
    <3>1. y[1] >= n + 1
      BY <1>1, <2>3
    <3>2. y \in Rounds(web) => f[y] = g[y]
      BY <2>2, <3>1
    <3>3. F(f, x) = F(g, x)
      <4> HIDE DEF g
      <4> QED  BY <3>2, RoundsFollow
    <3> QED  BY <3>3
  <2> HIDE DEF g, F
  <2> QED  BY <2>3
<1>4. PICK f : From(f, 0)
  <2>1. \A n \in 0..MaxRedirects : n \in T
    <3> HIDE DEF T
    <3> QED  BY <1>0, <1>2, <1>3, AllBelow
  <2> QED  BY <1>0, <2>1
<1> DEFINE g == [x \in Rounds(web) |-> F(f, x)]
<1>5. ASSUME NEW x \in Rounds(web)
      PROVE  g[x] = F(g, x)
  <2>1. \A y \in Rounds(web) : g[y] = f[y]
    BY <1>1, <1>4
  <2>2. F(f, x) = F(g, x)
    <3> HIDE DEF g
    <3> QED  BY <2>1, RoundsFollow
  <2> QED  BY <2>2
<1>6. g = [x \in Rounds(web) |-> F(g, x)]
  <2> HIDE DEF F
  <2>1. \A x \in Rounds(web) : F(f, x) = F(g, x)
    BY <1>5
  <2> QED  BY <2>1
<1> QED  BY <1>6

LEMMA GetIsLoop ==
  ASSUME NEW client, NEW net, NEW web, ClosedWeb(web), NEW start \in DOMAIN web
  PROVE  \E f : IsLoop(client, net, web, f) /\ get(client, net, web, start) = f[<<0, start>>]
<1> DEFINE Fits(f) == f = [x \in Rounds(web) |-> Follow(client, net, web, f, x)]
           f == CHOOSE g : Fits(g)
<1>1. get(client, net, web, start) = f[<<0, start>>]
  BY Zenon DEF get, Rounds
<1>2. \E g : Fits(g)
  BY LoopExists
<1>3. Fits(f)
  <2> HIDE DEF Fits
  <2> QED  BY <1>2, Zenon
<1>4. f = [x \in Rounds(web) |-> Follow(client, net, web, f, x)]
  <2> HIDE DEF f
  <2> QED  BY <1>3
<1> HIDE DEF f
<1>5. IsLoop(client, net, web, f)
  BY <1>4 DEF IsLoop
<1> QED  BY <1>1, <1>5

-----------------------------------------------------------------------------
(* What a round may come to. *)
Results(web) ==
  [outcome : {"policy", "request", "response", "redirect"}, url : DOMAIN web,
   sent : SUBSET DOMAIN web]

Moves(client, net, web, n, u) ==
  n < MaxRedirects /\ web[u].kind = "redirect" /\ validate_url(client, net, web[u].to)

LEMMA RoundEnds ==
  ASSUME NEW client, NEW net, NEW web, ClosedWeb(web), NEW f, IsLoop(client, net, web, f),
         NEW n \in 0..MaxRedirects, NEW u \in DOMAIN web,
         ~(Allowed(client, net, u) /\ Moves(client, net, web, n, u))
  PROVE  /\ f[<<n, u>>] \in Results(web)
         /\ \A v \in f[<<n, u>>].sent : Allowed(client, net, v)
         /\ f[<<n, u>>].outcome = "response" <=> Allowed(client, net, u) /\ web[u].kind = "ok"
<1> DEFINE x == <<n, u>>
<1>1. x \in Rounds(web) /\ x[1] = n /\ x[2] = u
  BY DEF Rounds
<1>2. f[x] = Follow(client, net, web, f, x)
  BY <1>1 DEF IsLoop
<1>3. web[u].kind \in {"ok", "lost", "down", "redirect"} /\ MaxRedirects \in Nat
  BY RedirectsAssumption DEF ClosedWeb
<1>4. web[u].kind = "redirect" => web[u].to \in DOMAIN web
  BY DEF ClosedWeb
<1>5. CASE ~Allowed(client, net, u)
  <2>1. f[x] = [outcome |-> "policy", url |-> u, sent |-> {}]
    BY <1>1, <1>2, <1>5 DEF Follow, Allowed
  <2> QED  BY <1>5, <2>1 DEF Results
<1>6. CASE Allowed(client, net, u) /\ web[u].kind = "down"
  <2>1. f[x] = [outcome |-> "request", url |-> u, sent |-> {u}]
    BY <1>1, <1>2, <1>6 DEF Follow, Allowed
  <2> QED  BY <1>6, <2>1 DEF Results
<1>7. CASE Allowed(client, net, u) /\ web[u].kind = "ok"
  <2>1. f[x] = [outcome |-> "response", url |-> u, sent |-> {u}]
    BY <1>1, <1>2, <1>7 DEF Follow, Allowed
  <2> QED  BY <1>7, <2>1 DEF Results
<1>8. CASE /\ Allowed(client, net, u)
           /\ web[u].kind = "lost" \/ (web[u].kind = "redirect" /\ n = MaxRedirects)
  <2>1. f[x] = [outcome |-> "redirect", url |-> u, sent |-> {u}]
    BY <1>1, <1>2, <1>8 DEF Follow, Allowed
  <2> QED  BY <1>8, <2>1 DEF Results
<1>9. CASE /\ Allowed(client, net, u) /\ web[u].kind = "redirect" /\ n # MaxRedirects
           /\ ~validate_url(client, net, web[u].to)
  <2>1. f[x] = [outcome |-> "policy", url |-> web[u].to, sent |-> {u}]
    BY <1>1, <1>2, <1>9 DEF Follow, Allowed
  <2> QED  BY <1>4, <1>9, <2>1 DEF Results
<1>10. n < MaxRedirects <=> n # MaxRedirects
  BY <1>3
<1> QED  BY <1>3, <1>5, <1>6, <1>7, <1>8, <1>9, <1>10 DEF Moves

LEMMA RoundMoves ==
  ASSUME NEW client, NEW net, NEW web, ClosedWeb(web), NEW f, IsLoop(client, net, web, f),
         NEW n \in 0..MaxRedirects, NEW u \in DOMAIN web,
         Allowed(client, net, u), Moves(client, net, web, n, u),
         f[<<n + 1, web[u].to>>] \in Results(web)
  PROVE  /\ f[<<n, u>>] \in Results(web)
         /\ f[<<n, u>>].sent = f[<<n + 1, web[u].to>>].sent \cup {u}
         /\ f[<<n, u>>].outcome = f[<<n + 1, web[u].to>>].outcome
<1> DEFINE x == <<n, u>>
<1>1. x \in Rounds(web) /\ x[1] = n /\ x[2] = u
  BY DEF Rounds
<1>2. f[x] = Follow(client, net, web, f, x)
  BY <1>1 DEF IsLoop
<1>3. n # MaxRedirects /\ web[u].kind = "redirect"
  BY RedirectsAssumption DEF Moves
<1>4. f[x] = [f[<<n + 1, web[u].to>>] EXCEPT !.sent = @ \cup {u}]
  BY <1>1, <1>2, <1>3, Zenon DEF Follow, Allowed, Moves
<1> QED  BY <1>4 DEF Results

(* However it is redirected, the loop sends requests to allowed URLs only. *)
LEMMA LoopConfined ==
  ASSUME NEW client, NEW net, NEW web, ClosedWeb(web), NEW f, IsLoop(client, net, web, f)
  PROVE  \A n \in 0..MaxRedirects : \A u \in DOMAIN web :
           f[<<n, u>>] \in Results(web) /\ \A v \in f[<<n, u>>].sent : Allowed(client, net, v)
<1> DEFINE Good(n) == \A u \in DOMAIN web :
             f[<<n, u>>] \in Results(web) /\ \A v \in f[<<n, u>>].sent : Allowed(client, net, v)
           T == {n \in 0..MaxRedirects : Good(n)}
<1>0. MaxRedirects \in Nat
  BY RedirectsAssumption
<1>1. ASSUME NEW n \in 0..MaxRedirects, n < MaxRedirects => Good(n + 1)
      PROVE  Good(n)
  <2> SUFFICES ASSUME NEW u \in DOMAIN web
               PROVE  /\ f[<<n, u>>] \in Results(web)
                      /\ \A v \in f[<<n, u>>].sent : Allowed(client, net, v)
    OBVIOUS
  <2>1. CASE Allowed(client, net, u) /\ Moves(client, net, web, n, u)
    <3>1. web[u].to \in DOMAIN web /\ n < MaxRedirects
      BY <2>1 DEF ClosedWeb, Moves
    <3>2. /\ f[<<n + 1, web[u].to>>] \in Results(web)
          /\ \A v \in f[<<n + 1, web[u].to>>].sent : Allowed(client, net, v)
      BY <1>1, <3>1
    <3>3. /\ f[<<n, u>>] \in Results(web)
          /\ f[<<n, u>>].sent = f[<<n + 1, web[u].to>>].sent \cup {u}
      BY <2>1, <3>2, RoundMoves
    <3> QED  BY <2>1, <3>2, <3>3
  <2>2. CASE ~(Allowed(client, net, u) /\ Moves(client, net, web, n, u))
    BY <2>2, RoundEnds
  <2> QED  BY <2>1, <2>2
<1> HIDE DEF Good
<1>2. MaxRedirects \in T
  BY <1>0, <1>1
<1>3. \A n \in 0..MaxRedirects : n # MaxRedirects /\ n + 1 \in T => n \in T
  BY <1>0, <1>1
<1>4. \A n \in 0..MaxRedirects : n \in T
  <2> HIDE DEF T
  <2> QED  BY <1>0, <1>2, <1>3, AllBelow
<1> QED  BY <1>4 DEF Good

-----------------------------------------------------------------------------
(* The way from a URL, redirect by redirect. *)
Beyond(web, u) == IF web[u].kind = "redirect" THEN web[u].to ELSE u
IsWay(web, start, hop) ==
  hop[0] = start /\ \A n \in 1..MaxRedirects : hop[n] = Beyond(web, hop[n - 1])

IsHops(web, start, h) ==
  h = [n \in 0..MaxRedirects |-> IF n = 0 THEN start ELSE Beyond(web, h[n - 1])]

LEMMA WayExists ==
  ASSUME NEW web, NEW start
  PROVE  \E h : IsHops(web, start, h)
<1> DEFINE B(u) == Beyond(web, u)
           Upto(h, k) == \A n \in 0..k : h[n] = IF n = 0 THEN start ELSE B(h[n - 1])
           T == {k \in Nat : \E h : Upto(h, k)}
<1> HIDE DEF B
<1>0. MaxRedirects \in Nat
  BY RedirectsAssumption
<1>1. 0 \in T
  <2>1. Upto([n \in Nat |-> start], 0)
    OBVIOUS
  <2> QED  BY <2>1
<1>2. ASSUME NEW k \in Nat, k \in T PROVE k + 1 \in T
  <2>1. PICK h : Upto(h, k)
    BY <1>2
  <2> DEFINE g == [n \in 0..(k + 1) |-> IF n = k + 1 THEN B(h[k]) ELSE h[n]]
  <2>2. Upto(g, k + 1)
    BY <2>1
  <2> HIDE DEF g, Upto
  <2> QED  BY <2>2
<1>3. MaxRedirects \in T
  <2> HIDE DEF T
  <2> QED  BY <1>0, <1>1, <1>2, AllNumbers
<1>4. PICK h : Upto(h, MaxRedirects)
  BY <1>3
<1> DEFINE g == [n \in 0..MaxRedirects |-> h[n]]
<1>5. ASSUME NEW n \in 0..MaxRedirects PROVE g[n] = IF n = 0 THEN start ELSE B(g[n - 1])
  BY <1>0, <1>4
<1>6. g = [n \in 0..MaxRedirects |-> IF n = 0 THEN start ELSE B(g[n - 1])]
  <2>1. g = [n \in 0..MaxRedirects |-> g[n]]
    OBVIOUS
  <2> HIDE DEF g
  <2> QED  BY <1>5, <2>1
<1> QED  BY <1>6 DEF B, IsHops

LEMMA WayStays ==
  ASSUME NEW web, ClosedWeb(web), NEW start \in DOMAIN web, NEW hop, IsWay(web, start, hop)
  PROVE  \A n \in 0..MaxRedirects : hop[n] \in DOMAIN web
<1> DEFINE T == {n \in Nat : n <= MaxRedirects => hop[n] \in DOMAIN web}
<1>0. MaxRedirects \in Nat
  BY RedirectsAssumption
<1>1. 0 \in T
  BY DEF IsWay
<1>2. ASSUME NEW n \in Nat, n \in T PROVE n + 1 \in T
  <2> SUFFICES ASSUME n + 1 <= MaxRedirects PROVE hop[n + 1] \in DOMAIN web
    OBVIOUS
  <2>1. hop[n] \in DOMAIN web
    BY <1>0, <1>2
  <2>2. hop[n + 1] = Beyond(web, hop[n])
    <3>1. n + 1 \in 1..MaxRedirects /\ (n + 1) - 1 = n
      BY <1>0
    <3> QED  BY <3>1 DEF IsWay
  <2> QED  BY <2>1, <2>2 DEF ClosedWeb, Beyond
<1>3. \A n \in Nat : n \in T
  <2> HIDE DEF T
  <2> QED  BY <1>1, <1>2, AllNumbers
<1> QED  BY <1>0, <1>3

(* A round answers with a response exactly when the rest of the way leads   *)
(* through allowed URLs to one that answers.                                *)
LeadsOn(client, net, web, hop, n) ==
  /\ \A m \in n..MaxRedirects : Allowed(client, net, hop[m])
  /\ web[hop[MaxRedirects]].kind = "ok"

LEMMA LoopAnswers ==
  ASSUME NEW client, NEW net, NEW web, ClosedWeb(web), NEW f, IsLoop(client, net, web, f),
         NEW start \in DOMAIN web, NEW hop, IsWay(web, start, hop)
  PROVE  \A n \in 0..MaxRedirects :
           f[<<n, hop[n]>>].outcome = "response" <=> LeadsOn(client, net, web, hop, n)
<1> DEFINE A(u) == Allowed(client, net, u)
           Responds(n) == f[<<n, hop[n]>>].outcome = "response"
           Leads(n) == /\ \A m \in n..MaxRedirects : A(hop[m])
                       /\ web[hop[MaxRedirects]].kind = "ok"
           T == {n \in 0..MaxRedirects : Responds(n) <=> Leads(n)}
<1>0. MaxRedirects \in Nat
  BY RedirectsAssumption
<1>1. \A n \in 0..MaxRedirects : hop[n] \in DOMAIN web
  BY WayStays
<1>2. ASSUME NEW n \in 0..MaxRedirects, ~(A(hop[n]) /\ Moves(client, net, web, n, hop[n]))
      PROVE  Responds(n) <=> A(hop[n]) /\ web[hop[n]].kind = "ok"
  <2>1. PICK u \in DOMAIN web : u = hop[n]
    BY <1>1
  <2>2. ~(Allowed(client, net, u) /\ Moves(client, net, web, n, u))
    BY <1>2, <2>1
  <2>3. f[<<n, u>>].outcome = "response" <=> Allowed(client, net, u) /\ web[u].kind = "ok"
    BY <2>2, RoundEnds
  <2> QED  BY <2>1, <2>3
<1> HIDE DEF A
<1>3. MaxRedirects \in T
  <2>1. ~Moves(client, net, web, MaxRedirects, hop[MaxRedirects])
    BY <1>0 DEF Moves
  <2>2. Leads(MaxRedirects) <=> A(hop[MaxRedirects]) /\ web[hop[MaxRedirects]].kind = "ok"
    BY <1>0
  <2> QED  BY <1>0, <1>2, <2>1, <2>2
<1>4. ASSUME NEW n \in 0..MaxRedirects, n # MaxRedirects, Responds(n + 1) <=> Leads(n + 1)
      PROVE  Responds(n) <=> Leads(n)
  <2>1. /\ n + 1 \in 0..MaxRedirects /\ n < MaxRedirects /\ (n + 1) - 1 = n
        /\ n + 1 \in 1..MaxRedirects
    BY <1>0, <1>4
  <2>2. hop[n + 1] = Beyond(web, hop[n])
    BY <2>1 DEF IsWay
  <2>3. Leads(n) <=> A(hop[n]) /\ Leads(n + 1)
    BY <1>0, <2>1
  <2>4. Leads(n + 1) => A(hop[n + 1])
    BY <1>0, <2>1
  <2> HIDE DEF Leads
  <2>5. CASE A(hop[n]) /\ Moves(client, net, web, n, hop[n])
    <3>1. hop[n + 1] = web[hop[n]].to
      BY <2>2, <2>5 DEF Beyond, Moves
    <3>2. f[<<n + 1, hop[n + 1]>>] \in Results(web)
      BY <1>1, <2>1, LoopConfined
    <3>3. f[<<n, hop[n]>>].outcome = f[<<n + 1, hop[n + 1]>>].outcome
      BY <1>1, <2>5, <3>1, <3>2, RoundMoves DEF A
    <3> QED  BY <1>4, <2>3, <2>5, <3>3
  <2>6. CASE ~A(hop[n])
    BY <1>2, <2>3, <2>6
  <2>7. CASE A(hop[n]) /\ ~Moves(client, net, web, n, hop[n]) /\ web[hop[n]].kind = "redirect"
    <3>1. hop[n + 1] = web[hop[n]].to /\ ~validate_url(client, net, hop[n + 1])
      BY <2>1, <2>2, <2>7 DEF Beyond, Moves
    <3>2. ~A(hop[n + 1])
      BY <3>1 DEF A, Allowed
    <3> QED  BY <1>2, <2>3, <2>4, <2>7, <3>2
  <2>8. CASE A(hop[n]) /\ web[hop[n]].kind # "redirect"
    <3>1. hop[n + 1] = hop[n]
      BY <2>2, <2>8 DEF Beyond
    <3>2. \A m \in 0..MaxRedirects : ~Moves(client, net, web, m, hop[n])
      BY <2>8 DEF Moves
    <3>3. Responds(n) <=> web[hop[n]].kind = "ok"
      BY <1>2, <2>8, <3>2
    <3>4. Responds(n + 1) <=> web[hop[n]].kind = "ok"
      BY <1>2, <2>1, <2>8, <3>1, <3>2
    <3> QED  BY <1>4, <2>3, <2>8, <3>3, <3>4
  <2> QED  BY <2>5, <2>6, <2>7, <2>8
<1>5. \A n \in 0..MaxRedirects : n # MaxRedirects /\ n + 1 \in T => n \in T
  <2> HIDE DEF Responds, Leads
  <2> QED  BY <1>4
<1>6. \A n \in 0..MaxRedirects : n \in T
  <2> HIDE DEF T
  <2> QED  BY <1>0, <1>3, <1>5, AllBelow
<1> QED  BY <1>6 DEF A, LeadsOn

(* Whatever servers answer and whatever names stand for, get() sends        *)
(* requests to permitted URLs only, and returns a response exactly when one *)
(* is within MaxRedirects redirects, through permitted URLs.                *)
THEOREM RedirectsConfined ==
  ASSUME NEW client, AnyClient(client), NEW net, NEW web, ClosedWeb(web), ClosedNet(net, web),
         NEW start \in DOMAIN web
  PROVE  Confined(client, net, web, start)
<1> DEFINE hop == CHOOSE h : IsHops(web, start, h)
           result == get(client, net, web, start)
<1>0. MaxRedirects \in Nat
  BY RedirectsAssumption
<1>1. Confined(client, net, web, start) <=>
        /\ \A u \in result.sent : Permitted(client, net, u)
        /\ result.outcome = "response" <=>
             /\ \A n \in 0..MaxRedirects : Permitted(client, net, hop[n])
             /\ web[hop[MaxRedirects]].kind = "ok"
  BY Zenon DEF Confined, Beyond, IsHops
<1>2. IsHops(web, start, hop)
  BY WayExists, Zenon
<1>3. IsWay(web, start, hop)
  <2> HIDE DEF hop
  <2>1. \A n \in 0..MaxRedirects : hop[n] = IF n = 0 THEN start ELSE Beyond(web, hop[n - 1])
    BY <1>2 DEF IsHops
  <2> QED  BY <1>0, <2>1 DEF IsWay
<1> HIDE DEF hop, result
<1>4. PICK f : IsLoop(client, net, web, f) /\ result = f[<<0, start>>]
  BY GetIsLoop DEF result
<1>5. result \in Results(web) /\ \A v \in result.sent : Allowed(client, net, v)
  <2>1. /\ f[<<0, start>>] \in Results(web)
        /\ \A v \in f[<<0, start>>].sent : Allowed(client, net, v)
    <3>1. 0 \in 0..MaxRedirects
      BY <1>0
    <3> QED  BY <1>4, <3>1, LoopConfined
  <2> QED  BY <1>4, <2>1
<1>6. result.sent \subseteq DOMAIN web
  BY <1>5 DEF Results
<1>7. \A u \in result.sent : Permitted(client, net, u)
  BY <1>5, <1>6, AllowedIsPermitted
<1>8. result.outcome = "response" <=>
        /\ \A n \in 0..MaxRedirects : Allowed(client, net, hop[n])
        /\ web[hop[MaxRedirects]].kind = "ok"
  <2>1. hop[0] = start /\ 0 \in 0..MaxRedirects
    BY <1>0, <1>3 DEF IsWay
  <2>2. f[<<0, hop[0]>>].outcome = "response" <=> LeadsOn(client, net, web, hop, 0)
    BY <1>3, <1>4, <2>1, LoopAnswers
  <2> QED  BY <1>4, <2>1, <2>2 DEF LeadsOn
<1>9. \A n \in 0..MaxRedirects : Allowed(client, net, hop[n]) <=> Permitted(client, net, hop[n])
  BY <1>3, WayStays, AllowedIsPermitted
<1> QED  BY <1>1, <1>7, <1>8, <1>9

-----------------------------------------------------------------------------
(* The addresses and servers of RequestsConfined are among these. *)
LEMMA EdgesAreAddresses == Edges4 \cup Edges6 \subseteq Addresses
<1>1. ASSUME NEW ip \in Edges4 PROVE ip \in Addresses
  <2>1. PICK a \in Octets, b \in Second, c \in Third, d \in {1} : ip = <<a, b, c, d>>
    BY <1>1 DEF Edges4
  <2>2. a \in Octets /\ b \in Octets /\ c \in Octets /\ d \in Octets
    BY DEF Octets, Second, Third
  <2> QED  BY <2>1, <2>2 DEF Addresses
<1>2. ASSUME NEW ip \in Edges6 PROVE ip \in Addresses
  <2>1. PICK a, b : /\ a \in Segments /\ b \in Segments
                    /\ ip = <<a, b, 0, 0, 0, 0, \h808, \h808>>
    BY <1>2 DEF Edges6, Segments
  <2>2. 0 \in Segments /\ \h808 \in Segments
    BY DEF Segments
  <2>3. ip \in Seq(Segments) /\ Len(ip) = 8
    BY <2>1, <2>2
  <2> QED  BY <2>3 DEF Addresses, Ipv6
<1> QED  BY <1>1, <1>2

LEMMA EmbeddingsJudged ==
  ASSUME NEW a \in Octets, NEW b \in Octets, NEW c \in Octets, NEW d \in Octets,
         NEW s \in Embeddings(<<a, b, c, d>>)
  PROVE  is_public_ip(s) <=> is_public_ip(<<a, b, c, d>>)
<1>0. /\ \A t \in Prefixes :
           is_public_ip(t \o <<a * 256 + b, c * 256 + d>>) <=> is_public_ip(<<a, b, c, d>>)
      /\ \A x \in Ipv6 :
           x[1] = \h2002 /\ x[2] = a * 256 + b /\ x[3] = c * 256 + d =>
             (is_public_ip(x) <=> is_public_ip(<<a, b, c, d>>))
  BY CarriedIpv4
<1>1. PICK high, low : high = a * 256 + b /\ low = c * 256 + d
  OBVIOUS
<1>2. high \in Segments /\ low \in Segments
  BY <1>1, TwoOctets
<1>3. CASE s = <<\h2002, high, low, 0, 0, 0, 0, 1>>
  <2>1. s \in Seq(Segments) /\ Len(s) = 8
    BY <1>2, <1>3 DEF Segments
  <2>2. s \in Ipv6 /\ s[1] = \h2002 /\ s[2] = high /\ s[3] = low
    BY <1>3, <2>1 DEF Ipv6
  <2>3. s[2] = a * 256 + b /\ s[3] = c * 256 + d
    BY <1>1, <2>2
  <2> QED  BY <1>0, <2>2, <2>3
<1>4. CASE s # <<\h2002, high, low, 0, 0, 0, 0, 1>>
  <2>1. PICK t \in Prefixes : s = t \o <<high, low>>
    BY <1>1, <1>4 DEF Embeddings, Prefixes
  <2>2. t \o <<high, low>> = t \o <<a * 256 + b, c * 256 + d>>
    BY <1>1
  <2>3. is_public_ip(t \o <<a * 256 + b, c * 256 + d>>) <=> is_public_ip(<<a, b, c, d>>)
    BY <1>0, <2>1, SMTT(60)
  <2> QED  BY <2>1, <2>2, <2>3, Zenon
<1> QED  BY <1>3, <1>4

LEMMA AddressesAreJudged == AddressesJudged
<1>1. \A ip \in Edges4 \cup Edges6 : is_public_ip(ip) <=> OnInternet(ip)
  BY EdgesAreAddresses, JudgedAlike
<1>2. ASSUME NEW ip \in {<<8, 8, 8, 8>>, <<127, 0, 0, 1>>, <<10, 0, 0, 1>>,
                         <<192, 168, 1, 1>>, <<0, 0, 0, 1>>, <<203, 0, 113, 7>>},
             NEW s \in Embeddings(ip)
      PROVE  is_public_ip(s) <=> is_public_ip(ip)
  <2>1. {8, 127, 0, 1, 10, 192, 168, 203, 113, 7} \subseteq Octets
    BY DEF Octets
  <2>2. \A i, j, k, l \in Octets :
          ip = <<i, j, k, l>> => (is_public_ip(s) <=> is_public_ip(ip))
    <3> SUFFICES ASSUME NEW i \in Octets, NEW j \in Octets, NEW k \in Octets, NEW l \in Octets,
                        ip = <<i, j, k, l>>
                 PROVE  is_public_ip(s) <=> is_public_ip(ip)
      OBVIOUS
    <3>1. s \in Embeddings(<<i, j, k, l>>)
      OBVIOUS
    <3>2. is_public_ip(s) <=> is_public_ip(<<i, j, k, l>>)
      BY <3>1, EmbeddingsJudged, SMTT(30)
    <3> QED  BY <3>2
  <2>3. /\ 8 \in Octets /\ 127 \in Octets /\ 0 \in Octets /\ 1 \in Octets
        /\ 10 \in Octets /\ 192 \in Octets /\ 168 \in Octets /\ 203 \in Octets
        /\ 113 \in Octets /\ 7 \in Octets
    BY <2>1
  <2>4. CASE ip = <<8, 8, 8, 8>>
    BY <2>2, <2>3, <2>4
  <2>5. CASE ip = <<127, 0, 0, 1>>
    BY <2>2, <2>3, <2>5
  <2>6. CASE ip = <<10, 0, 0, 1>>
    BY <2>2, <2>3, <2>6
  <2>7. CASE ip = <<192, 168, 1, 1>>
    BY <2>2, <2>3, <2>7
  <2>8. CASE ip = <<0, 0, 0, 1>>
    BY <2>2, <2>3, <2>8
  <2>9. CASE ip = <<203, 0, 113, 7>>
    BY <2>2, <2>3, <2>9
  <2> QED  BY <2>4, <2>5, <2>6, <2>7, <2>8, <2>9
<1> QED  BY <1>1, <1>2 DEF AddressesJudged

LEMMA WebsAreClosed ==
  ASSUME NEW web \in Webs
  PROVE  DOMAIN web = Moving \cup Still /\ ClosedWeb(web) /\ ClosedNet(Net, web)
<1>1. PICK w \in [Moving -> Answers] :
        web = [u \in Moving \cup Still |->
                 IF u \in Moving THEN w[u] ELSE [kind |-> "ok", to |-> u]]
  BY DEF Webs
<1>2. DOMAIN web = Moving \cup Still
  BY <1>1
<1>3. ASSUME NEW u \in DOMAIN web
      PROVE  /\ web[u].kind \in {"ok", "lost", "down", "redirect"}
             /\ web[u].kind = "redirect" => web[u].to \in DOMAIN web
  <2>1. CASE u \in Moving
    <3>1. web[u] \in Answers
      BY <1>1, <1>2, <2>1
    <3> QED  BY <1>2, <3>1 DEF Answers
  <2>2. CASE u \notin Moving
    BY <1>1, <1>2, <2>2
  <2> QED  BY <2>1, <2>2
<1>4. ASSUME NEW u \in DOMAIN web
      PROVE  /\ Net.literal[u.host] \cup Net.dns[u.host] \subseteq Addresses
             /\ Net.literal[u.host] = {} \/ Net.dns[u.host] = {}
  <2>1. u.host \in {"name", "rebound", "public", "private", ""}
    <3>1. \A s, h : Url(s, h).host = h
      BY DEF Url
    <3>2. \E s, h : u = Url(s, h) /\ h \in {"name", "rebound", "public", "private", ""}
      BY <1>2, Zenon DEF Moving, Still
    <3> QED  BY <3>1, <3>2
  <2>2. {<<8, 8, 8, 8>>, <<10, 0, 0, 1>>, <<8, 8, 4, 4>>, <<127, 0, 0, 1>>} \subseteq Addresses
    BY DEF Addresses, Octets
  <2>3. \/ Net.literal[u.host] = {<<8, 8, 8, 8>>} /\ Net.dns[u.host] = {}
        \/ Net.literal[u.host] = {<<10, 0, 0, 1>>} /\ Net.dns[u.host] = {}
        \/ Net.literal[u.host] = {} /\ Net.dns[u.host] = {<<8, 8, 4, 4>>}
        \/ Net.literal[u.host] = {} /\ Net.dns[u.host] = {<<8, 8, 4, 4>>, <<127, 0, 0, 1>>}
        \/ Net.literal[u.host] = {} /\ Net.dns[u.host] = {}
    BY <2>1 DEF Net
  <2> QED  BY <2>2, <2>3
<1> QED  BY <1>2, <1>3, <1>4 DEF ClosedWeb, ClosedNet

(* Whenever the registry client sends a request, addresses are judged by   *)
(* the blocks they are in and get() goes to permitted URLs only, whichever *)
(* way it is redirected; this is RequestsConfined for every number of      *)
(* redirects, callers, hosts and times.                                    *)
THEOREM RequestsAreConfined == Spec => []RequestsConfined
<1>1. RedirectsFollowed
  <2>1. ASSUME NEW client \in Clients PROVE AnyClient(client)
    <3>1. PICK m \in {"direct", "proxy"}, test \in BOOLEAN : client = Client(m, test)
      BY Zenon DEF Clients
    <3> QED  BY <3>1 DEF Client, AnyClient
  <2> QED  BY <2>1, WebsAreClosed, RedirectsConfined DEF RedirectsFollowed
<1>2. RequestsConfined
  BY <1>1, AddressesAreJudged DEF RequestsConfined
<1> QED  BY <1>2, PTL
=============================================================================
