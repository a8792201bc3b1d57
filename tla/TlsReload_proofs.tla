-------------------------- MODULE TlsReload_proofs --------------------------
(***************************************************************************)
(* Proofs about TlsReload, for any number of handshakes and chains, any    *)
(* validity periods and any interval; and about CertTime and Calendar, for *)
(* any bytes and any date.                                                 *)
(***************************************************************************)
EXTENDS MCTlsReload, FiniteSetTheorems, FunctionTheorems, SequenceTheorems,
        WellFoundedInduction, TLAPS

(* The cached pair belongs together, and its chain has begun. *)
CacheInv ==
  /\ cached.pair.cert \in Chains /\ cached.pair.key = cached.pair.cert
  /\ cached.notAfter = Earliest(cached.pair.cert)
  /\ \A v \in Validity[cached.pair.cert] : v[1] <= now
  /\ cached.at <= now

(* The chain has begun, and had not ended when handshake h began. *)
UsableBy(h, chain) == \A v \in Validity[chain] : v[1] <= now /\ start[h] <= v[2]

(* What a load has found out about the files at each of its stages. *)
LoadInv ==
  \A h \in Handshakes :
    /\ start[h] <= now
    /\ pc[h] \in {"validate", "readkey", "install"} => inHand[h].cert \in Chains
    /\ pc[h] \in {"readkey", "install"} => UsableBy(h, inHand[h].cert)
    /\ pc[h] = "install" => inHand[h].key = inHand[h].cert

(* Until a load is slow, the time of the cache is that of the last claim,  *)
(* and loads under way that are not the last are an interval behind it.    *)
SpacingInv ==
  /\ claimed # None => claimed <= now
  /\ Interval > 0 /\ ~slow =>
       /\ claimed # None => cached.at = claimed
       /\ \A h \in Handshakes : pc[h] \in Loading =>
            claimed # None /\ (start[h] = claimed \/ start[h] + Interval <= claimed)

(* A load that began after the last change is under way, or has failed. *)
Pending ==
  \/ \E g \in Handshakes : pc[g] \in Loading /\ start[g] > changed
  \/ failedAt # None /\ failedAt > changed

(* A load that began after the last change has read the new files, and one *)
(* that is the reason for the time of the cache has installed them.        *)
RotationInv ==
  /\ changed <= now
  /\ \A h \in Handshakes :
       /\ pc[h] \in {"validate", "readkey", "install"} /\ start[h] > changed =>
            inHand[h].cert = certFile
       /\ pc[h] = "failed" => failedAt # None /\ failedAt >= start[h]
  /\ cached.at > changed => cached.pair.cert = certFile \/ Pending

IInv ==
  /\ TypeOK /\ CacheInv /\ LoadInv /\ ServedPairUsable /\ SpacingInv /\ RotationInv

-----------------------------------------------------------------------------
(* A finite set of numbers that is not empty has a least one. *)
LEMMA LeastExists ==
  ASSUME NEW S, S \subseteq Int, IsFiniteSet(S), S # {}
  PROVE  \E n \in S : \A m \in S : n <= m
<1> DEFINE HasLeast(T) == \E n \in T : \A m \in T : n <= m
           Bad == {T \in SUBSET S : T # {} /\ ~HasLeast(T)}
           R == {x \in (SUBSET S) \X (SUBSET S) : x[1] # x[2] /\ x[1] \subseteq x[2]}
<1> SUFFICES ASSUME Bad # {} PROVE FALSE
  OBVIOUS
<1>1. IsWellFoundedOn(R, SUBSET S)
  <2>1. IsWellFoundedOn(StrictSubsetOrdering(S), FiniteSubsetsOf(S))
    BY FS_StrictSubsetOrderingWellFounded
  <2>2. FiniteSubsetsOf(S) = SUBSET S
    BY FS_FiniteSubsetsOfFinite
  <2>3. StrictSubsetOrdering(S) = R
    BY DEF StrictSubsetOrdering
  <2> QED  BY <2>1, <2>2, <2>3
<1>2. PICK T \in Bad : \A U \in Bad : ~(<<U, T>> \in R)
  <2>1. Bad \subseteq SUBSET S
    OBVIOUS
  <2> HIDE DEF Bad, R
  <2> QED  BY <1>1, <2>1, WFMin
<1>3. PICK n \in T : TRUE
  OBVIOUS
<1>4. T \ {n} \notin Bad
  BY <1>2, <1>3
<1>5. CASE T = {n}
  BY <1>2, <1>3, <1>5
<1>6. CASE T # {n}
  <2>1. T \ {n} # {} /\ HasLeast(T \ {n})
    BY <1>3, <1>4, <1>6
  <2>2. PICK m \in T \ {n} : \A k \in T \ {n} : m <= k
    BY <2>1
  <2>3. n \in Int /\ m \in Int
    BY <1>3, <2>2
  <2>4. n <= m => \A k \in T : n <= k
    <3>1. ASSUME n <= m, NEW k \in T PROVE n <= k
      BY <2>2, <2>3, <3>1
    <3> QED  BY <3>1
  <2>5. m <= n => \A k \in T : m <= k
    BY <2>2
  <2> QED  BY <1>2, <1>3, <2>2, <2>3, <2>4, <2>5
<1> QED  BY <1>5, <1>6

(* A chain ends with the first of its certificates that does. *)
LEMMA EarliestIsLeast ==
  ASSUME NEW c \in Chains
  PROVE  /\ Earliest(c) \in Ends /\ Earliest(c) \in Int
         /\ \A v \in Validity[c] : Earliest(c) <= v[2]
         /\ \E v \in Validity[c] : Earliest(c) = v[2]
<1> DEFINE S == {v[2] : v \in Validity[c]}
<1>1. Validity[c] # {} /\ Validity[c] \subseteq Int \X Int /\ IsFiniteSet(Validity[c])
  BY TlsConstants
<1>2. S \subseteq Int /\ S # {}
  BY <1>1
<1>3. IsFiniteSet(S)
  <2> DEFINE end == [v \in Validity[c] |-> v[2]]
  <2>1. end \in Surjection(Validity[c], S)
    BY DEF Surjection
  <2> HIDE DEF end, S
  <2> QED  BY <1>1, <2>1, FS_Surjection
<1>4. \E n \in S : \A m \in S : n <= m
  BY <1>2, <1>3, LeastExists
<1>5. \E n \in S : \A v \in Validity[c] : n <= v[2]
  BY <1>4
<1>6. Earliest(c) \in S /\ \A v \in Validity[c] : Earliest(c) <= v[2]
  BY <1>5 DEF Earliest
<1> QED  BY <1>2, <1>6 DEF Ends

-----------------------------------------------------------------------------
(* The server starts with a pair it has loaded. *)
LEMMA TlsInit == Init => IInv
<1> SUFFICES ASSUME Init PROVE IInv
  OBVIOUS
<1> USE TlsConstants
<1>1. certFile \in Chains /\ Valid(certFile, 0) /\ keyFile = certFile
  BY DEF Init
<1>2. Earliest(certFile) \in Ends
  BY <1>1, EarliestIsLeast
<1>3. TypeOK
  <2>1. 0 \in Times /\ 0 \in 0..MaxWrites
    BY DEF Times
  <2>2. Nothing \in Pairs /\ [cert |-> certFile, key |-> keyFile] \in Pairs
    BY <1>1 DEF Nothing, Pairs
  <2>3. cached \in [pair : Pairs, notAfter : Ends, at : Times]
    BY <1>1, <1>2, <2>1, <2>2 DEF Init
  <2> QED  BY <1>1, <2>1, <2>2, <2>3 DEF Init, TypeOK, Stages
<1>4. CacheInv /\ RotationInv
  BY <1>1 DEF Init, CacheInv, RotationInv, Valid
<1>5. LoadInv /\ ServedPairUsable /\ SpacingInv
  BY DEF Init, LoadInv, ServedPairUsable, SpacingInv, Loading
<1> QED  BY <1>3, <1>4, <1>5 DEF IInv

(* A handshake begins now. *)
LEMMA HelloKeeps ==
  ASSUME IInv, NEW h \in Handshakes, Hello(h)
  PROVE  IInv'
<1> USE TlsConstants DEF IInv
<1>1. /\ pc[h] = "idle" /\ pc' = [pc EXCEPT ![h] = "look"] /\ start' = [start EXCEPT ![h] = now]
      /\ UNCHANGED <<now, certFile, keyFile, writes, changed, cached, inHand, claimed, failedAt, slow>>
  BY DEF Hello, Goto, files, history
<1>2. TypeOK'
  BY <1>1 DEF TypeOK, Stages
<1>3. CacheInv'
  BY <1>1 DEF CacheInv
<1>4. LoadInv'
  BY <1>1 DEF TypeOK, Times, LoadInv, UsableBy
<1>5. ServedPairUsable'
  BY <1>1 DEF TypeOK, ServedPairUsable
<1>6. \A g \in Handshakes : pc'[g] \in Loading \cup {"failed"} <=> pc[g] \in Loading \cup {"failed"}
  BY <1>1 DEF TypeOK, Loading
<1>7. \A g \in Handshakes : pc'[g] \in Loading \cup {"failed"} => pc'[g] = pc[g] /\ start'[g] = start[g]
  BY <1>1 DEF TypeOK, Loading
<1>8. SpacingInv'
  BY <1>1, <1>6, <1>7 DEF SpacingInv, Loading
<1>9. RotationInv'
  <2>1. Pending' <=> Pending
    BY <1>1 DEF TypeOK, Pending, Loading
  <2> QED  BY <1>1, <1>7, <2>1 DEF RotationInv, Loading
<1> QED  BY <1>2, <1>3, <1>4, <1>5, <1>8, <1>9

(* The answer is the cached pair, or nothing if it had expired. *)
LEMMA AnswerKeeps ==
  ASSUME IInv, NEW h \in Handshakes, pc[h] \in {"look", "claim", "failed"},
         Answer(h, FromCache(h)), UNCHANGED <<now, files, cached, start, history>>
  PROVE  IInv'
<1> USE TlsConstants DEF IInv
<1>1. /\ pc' = [pc EXCEPT ![h] = "done"] /\ inHand' = [inHand EXCEPT ![h] = FromCache(h)]
      /\ UNCHANGED <<now, certFile, keyFile, writes, changed, cached, start, claimed, failedAt, slow>>
  BY DEF Answer, Goto, files, history
<1>2. FromCache(h) \in Pairs
  BY DEF TypeOK, FromCache, Nothing, Pairs
<1>3. TypeOK'
  BY <1>1, <1>2 DEF TypeOK, Stages
<1>4. CacheInv'
  BY <1>1 DEF CacheInv
<1>5. \A g \in Handshakes : pc'[g] # "done" => pc'[g] = pc[g] /\ inHand'[g] = inHand[g]
  BY <1>1 DEF TypeOK
<1>6. LoadInv'
  BY <1>1, <1>5 DEF LoadInv, UsableBy
<1>7. ServedPairUsable'
  <2>1. FromCache(h) # Nothing =>
          /\ FromCache(h).cert = FromCache(h).key
          /\ \A v \in Validity[FromCache(h).cert] : v[1] <= now /\ start[h] <= v[2]
    <3> SUFFICES ASSUME FromCache(h) # Nothing
                 PROVE  /\ cached.pair.cert = cached.pair.key
                        /\ \A v \in Validity[cached.pair.cert] : v[1] <= now /\ start[h] <= v[2]
      BY DEF FromCache
    <3>1. start[h] <= Earliest(cached.pair.cert) /\ start[h] \in Int
      BY DEF FromCache, CacheInv, TypeOK, Times
    <3>2. \A v \in Validity[cached.pair.cert] : v[2] \in Int
      BY DEF CacheInv
    <3> QED  BY <3>1, <3>2, EarliestIsLeast DEF CacheInv
  <2>2. \A g \in Handshakes \ {h} : pc'[g] = pc[g] /\ inHand'[g] = inHand[g]
    BY <1>1 DEF TypeOK
  <2>3. inHand'[h] = FromCache(h)
    BY <1>1 DEF TypeOK
  <2> QED  BY <1>1, <2>1, <2>2, <2>3 DEF ServedPairUsable
<1>8. SpacingInv'
  BY <1>1, <1>5 DEF SpacingInv, Loading
<1>9. RotationInv'
  <2>1. Pending' <=> Pending
    BY <1>1 DEF TypeOK, Pending, Loading
  <2> QED  BY <1>1, <1>5, <2>1 DEF RotationInv
<1> QED  BY <1>3, <1>4, <1>6, <1>7, <1>8, <1>9

LEMMA LookKeeps ==
  ASSUME IInv, NEW h \in Handshakes, Look(h)
  PROVE  IInv'
<1> USE TlsConstants DEF IInv
<1>1. CASE Recent(h)
  BY <1>1, AnswerKeeps DEF Look
<1>2. CASE ~Recent(h)
  <2>1. /\ pc[h] = "look" /\ pc' = [pc EXCEPT ![h] = "claim"]
        /\ UNCHANGED <<now, certFile, keyFile, writes, changed, cached, start, inHand, claimed,
                       failedAt, slow>>
    BY <1>2 DEF Look, Goto, files, history
  <2>2. TypeOK' /\ CacheInv' /\ LoadInv' /\ ServedPairUsable'
    BY <2>1 DEF TypeOK, Stages, CacheInv, LoadInv, UsableBy, ServedPairUsable
  <2>3. SpacingInv'
    BY <2>1 DEF TypeOK, SpacingInv, Loading
  <2>4. Pending' <=> Pending
    BY <2>1 DEF TypeOK, Pending, Loading
  <2>5. RotationInv'
    BY <2>1, <2>4 DEF TypeOK, RotationInv
  <2> QED  BY <2>2, <2>3, <2>5
<1> QED  BY <1>1, <1>2

(* The reload is claimed: the cache looks checked before it is, but the    *)
(* load that makes up for it is under way.                                 *)
LEMMA ClaimKeeps ==
  ASSUME IInv, NEW h \in Handshakes, Claim(h)
  PROVE  IInv'
<1> USE TlsConstants DEF IInv
<1>1. CASE Recent(h)
  BY <1>1, AnswerKeeps DEF Claim, history
<1>2. CASE ~Recent(h)
  <2>1. /\ pc[h] = "claim" /\ pc' = [pc EXCEPT ![h] = "readcert"]
        /\ cached' = [cached EXCEPT !.at = start[h]] /\ claimed' = start[h]
        /\ UNCHANGED <<now, certFile, keyFile, writes, changed, start, inHand, failedAt, slow>>
    BY <1>2 DEF Claim, Goto, files
  <2>2. /\ cached'.pair = cached.pair /\ cached'.notAfter = cached.notAfter
        /\ cached'.at = start[h] /\ start[h] \in Times /\ start[h] <= now /\ now \in Nat
    BY <2>1 DEF TypeOK, LoadInv, Times
  <2>3. TypeOK'
    BY <2>1, <2>2 DEF TypeOK, Stages, Loading
  <2>4. CacheInv'
    BY <2>1, <2>2 DEF CacheInv
  <2>5. LoadInv' /\ ServedPairUsable'
    BY <2>1 DEF TypeOK, LoadInv, UsableBy, ServedPairUsable
  <2>6. SpacingInv'
    <3> SUFFICES ASSUME Interval > 0, ~slow, NEW g \in Handshakes, pc'[g] \in Loading, g # h
                 PROVE  start[g] = start[h] \/ start[g] + Interval <= start[h]
      BY <2>1, <2>2 DEF SpacingInv, TypeOK
    <3>1. pc[g] \in Loading
      BY <2>1 DEF TypeOK
    <3>2. /\ claimed # None /\ cached.at = claimed
          /\ start[g] = claimed \/ start[g] + Interval <= claimed
      BY <3>1 DEF SpacingInv
    <3>3. start[h] >= cached.at + Interval
      BY <1>2, <2>2 DEF Recent, Elapsed, TypeOK, Times
    <3> QED  BY <2>2, <3>2, <3>3 DEF TypeOK, Times
  <2>7. RotationInv'
    <3>1. start[h] > changed => Pending'
      BY <2>1 DEF TypeOK, Pending, Loading
    <3>2. \A g \in Handshakes : pc'[g] \in {"validate", "readkey", "install", "failed"} => pc'[g] = pc[g]
      BY <2>1 DEF TypeOK
    <3> QED  BY <2>1, <2>2, <3>1, <3>2 DEF RotationInv
  <2> QED  BY <2>3, <2>4, <2>5, <2>6, <2>7
<1> QED  BY <1>1, <1>2

(* A load has failed: its start is remembered. *)
LEMMA FailsKeeps ==
  ASSUME IInv, NEW h \in Handshakes, pc[h] \in {"readcert", "validate", "readkey"}, Fails(h),
         UNCHANGED <<now, files, cached, start, inHand, claimed, slow>>
  PROVE  IInv'
<1> USE TlsConstants DEF IInv
<1>1. /\ pc' = [pc EXCEPT ![h] = "failed"]
      /\ failedAt' = IF failedAt # None /\ failedAt > start[h] THEN failedAt ELSE start[h]
      /\ UNCHANGED <<now, certFile, keyFile, writes, changed, cached, start, inHand, claimed, slow>>
  BY DEF Fails, Goto, files
<1>2. /\ start[h] \in Times /\ failedAt \in Times \cup {None} /\ changed \in Times
      /\ Times \subseteq Int /\ None \notin Times
  BY DEF TypeOK, Times
<1>3. /\ failedAt' \in Times /\ failedAt' # None /\ failedAt' >= start[h]
      /\ failedAt # None => failedAt' >= failedAt
  <2>1. CASE failedAt # None /\ failedAt > start[h]
    <3>1. failedAt' = failedAt
      BY <1>1, <2>1
    <3>2. failedAt \in Times /\ failedAt \in Int /\ start[h] \in Int
      BY <1>2, <2>1
    <3> QED  BY <2>1, <3>1, <3>2
  <2>2. CASE ~(failedAt # None /\ failedAt > start[h])
    <3>1. failedAt' = start[h]
      BY <1>1, <2>2
    <3>2. start[h] \in Int /\ start[h] # None
      BY <1>2
    <3>3. ASSUME failedAt # None PROVE start[h] >= failedAt
      <4>1. failedAt \in Int /\ ~(failedAt > start[h])
        BY <1>2, <2>2, <3>3
      <4> QED  BY <3>2, <4>1
    <3> QED  BY <1>2, <3>1, <3>2, <3>3
  <2> QED  BY <2>1, <2>2
<1>4. TypeOK'
  BY <1>1, <1>3 DEF TypeOK, Stages
<1>5. CacheInv' /\ LoadInv' /\ ServedPairUsable'
  BY <1>1 DEF TypeOK, CacheInv, LoadInv, UsableBy, ServedPairUsable
<1>6. SpacingInv'
  BY <1>1 DEF TypeOK, SpacingInv, Loading
<1>7. RotationInv'
  <2>1. Pending => Pending'
    <3>1. ASSUME NEW g \in Handshakes, pc[g] \in Loading, start[g] > changed PROVE Pending'
      <4>1. CASE g = h
        <5>1. failedAt' > changed
          BY <1>2, <1>3, <3>1, <4>1
        <5> QED  BY <1>1, <1>3, <5>1 DEF Pending
      <4>2. CASE g # h
        BY <1>1, <3>1, <4>2 DEF TypeOK, Pending
      <4> QED  BY <4>1, <4>2
    <3>2. ASSUME failedAt # None, failedAt > changed PROVE Pending'
      BY <1>1, <1>2, <1>3, <3>2 DEF Pending
    <3> QED  BY <3>1, <3>2 DEF Pending
  <2>2. \A g \in Handshakes : pc'[g] = "failed" => failedAt' # None /\ failedAt' >= start[g]
    <3> SUFFICES ASSUME NEW g \in Handshakes, pc'[g] = "failed", g # h
                 PROVE  failedAt' >= start[g]
      BY <1>3
    <3>1. failedAt # None /\ failedAt >= start[g] /\ start[g] \in Times
      BY <1>1 DEF TypeOK, RotationInv
    <3>2. failedAt' >= failedAt /\ failedAt \in Int /\ failedAt' \in Int /\ start[g] \in Int
      BY <1>2, <1>3, <3>1
    <3> QED  BY <3>1, <3>2
  <2>3. \A g \in Handshakes : pc'[g] \in {"validate", "readkey", "install"} => pc'[g] = pc[g]
    BY <1>1 DEF TypeOK
  <2> QED  BY <1>1, <2>1, <2>2, <2>3 DEF RotationInv
<1> QED  BY <1>4, <1>5, <1>6, <1>7

(* A load goes on to its next stage: it is under way as before. *)
LEMMA PendingGoesOn ==
  ASSUME TypeOK, NEW h \in Handshakes, pc[h] \in Loading, NEW l \in Loading,
         pc' = [pc EXCEPT ![h] = l], UNCHANGED <<start, changed, failedAt>>
  PROVE  /\ \A g \in Handshakes : pc'[g] \in Loading <=> pc[g] \in Loading
         /\ Pending' <=> Pending
  BY DEF TypeOK, Pending

(* The chain is read: as long as no file has changed since the load began, *)
(* it is what the file holds.                                              *)
LEMMA ReadCertKeeps ==
  ASSUME IInv, NEW h \in Handshakes, ReadCert(h)
  PROVE  IInv'
<1> USE TlsConstants DEF IInv
<1>1. CASE certFile = Broken
  BY <1>1, FailsKeeps DEF ReadCert
<1>2. CASE certFile # Broken
  <2>1. /\ pc[h] = "readcert" /\ pc' = [pc EXCEPT ![h] = "validate"] /\ certFile \in Chains
        /\ inHand' = [inHand EXCEPT ![h].cert = certFile]
        /\ UNCHANGED <<now, certFile, keyFile, writes, changed, cached, start, claimed, failedAt, slow>>
    BY <1>2 DEF ReadCert, Goto, files, TypeOK
  <2>2. /\ inHand'[h] \in Pairs /\ inHand'[h].cert = certFile
        /\ \A g \in Handshakes \ {h} : inHand'[g] = inHand[g] /\ pc'[g] = pc[g]
    BY <2>1 DEF TypeOK, Pairs
  <2>3. TypeOK'
    <3>1. inHand' \in [Handshakes -> Pairs]
      BY <2>1, <2>2 DEF TypeOK
    <3> QED  BY <2>1, <3>1 DEF TypeOK, Stages, Loading
  <2>4. CacheInv'
    BY <2>1 DEF CacheInv
  <2>5. LoadInv' /\ ServedPairUsable'
    BY <2>1, <2>2 DEF TypeOK, LoadInv, UsableBy, ServedPairUsable
  <2>6. (\A g \in Handshakes : pc'[g] \in Loading <=> pc[g] \in Loading) /\ (Pending' <=> Pending)
    BY <2>1, PendingGoesOn DEF Loading
  <2>7. SpacingInv'
    BY <2>1, <2>6 DEF SpacingInv
  <2>8. RotationInv'
    BY <2>1, <2>2, <2>6 DEF TypeOK, RotationInv
  <2> QED  BY <2>3, <2>4, <2>5, <2>7, <2>8
<1> QED  BY <1>1, <1>2

(* The chain is valid now, and so it was not over when the load began. *)
LEMMA ValidateKeeps ==
  ASSUME IInv, NEW h \in Handshakes, Validate(h)
  PROVE  IInv'
<1> USE TlsConstants DEF IInv
<1>1. CASE ~Valid(inHand[h].cert, now)
  BY <1>1, FailsKeeps DEF Validate
<1>2. CASE Valid(inHand[h].cert, now)
  <2>1. /\ pc[h] = "validate" /\ pc' = [pc EXCEPT ![h] = "readkey"]
        /\ UNCHANGED <<now, certFile, keyFile, writes, changed, cached, start, inHand, claimed,
                       failedAt, slow>>
    BY <1>2 DEF Validate, Goto, files
  <2>2. TypeOK' /\ CacheInv' /\ ServedPairUsable'
    BY <2>1 DEF TypeOK, Stages, Loading, CacheInv, ServedPairUsable
  <2>3. UsableBy(h, inHand[h].cert)
    <3>1. /\ inHand[h].cert \in Chains /\ start[h] <= now /\ start[h] \in Int /\ now \in Int
      BY <2>1 DEF LoadInv, TypeOK, Times
    <3>2. \A v \in Validity[inHand[h].cert] : v[2] \in Int
      BY <3>1
    <3> QED  BY <1>2, <3>1, <3>2 DEF Valid, UsableBy
  <2>4. LoadInv'
    BY <2>1, <2>3 DEF TypeOK, LoadInv, UsableBy
  <2>5. (\A g \in Handshakes : pc'[g] \in Loading <=> pc[g] \in Loading) /\ (Pending' <=> Pending)
    BY <2>1, PendingGoesOn DEF Loading
  <2>6. SpacingInv'
    BY <2>1, <2>5 DEF SpacingInv
  <2>7. RotationInv'
    BY <2>1, <2>5 DEF TypeOK, RotationInv
  <2> QED  BY <2>2, <2>4, <2>6, <2>7
<1> QED  BY <1>1, <1>2

(* The key is read, and refused if it is not the chain's. *)
LEMMA ReadKeyKeeps ==
  ASSUME IInv, NEW h \in Handshakes, ReadKey(h)
  PROVE  IInv'
<1> USE TlsConstants DEF IInv
<1>1. CASE ~KeysMatch(inHand[h].cert, keyFile)
  BY <1>1, FailsKeeps DEF ReadKey
<1>2. CASE KeysMatch(inHand[h].cert, keyFile)
  <2>1. /\ pc[h] = "readkey" /\ pc' = [pc EXCEPT ![h] = "install"] /\ keyFile = inHand[h].cert
        /\ inHand' = [inHand EXCEPT ![h].key = keyFile]
        /\ UNCHANGED <<now, certFile, keyFile, writes, changed, cached, start, claimed, failedAt, slow>>
    BY <1>2 DEF ReadKey, Goto, files, KeysMatch
  <2>2. /\ keyFile \in Chains
        /\ inHand'[h] \in Pairs /\ inHand'[h].cert = inHand[h].cert /\ inHand'[h].key = inHand[h].cert
        /\ \A g \in Handshakes \ {h} : inHand'[g] = inHand[g] /\ pc'[g] = pc[g]
    BY <2>1 DEF TypeOK, Pairs, LoadInv
  <2>3. TypeOK'
    <3>1. inHand' \in [Handshakes -> Pairs]
      BY <2>1, <2>2 DEF TypeOK
    <3> QED  BY <2>1, <3>1 DEF TypeOK, Stages, Loading
  <2>4. CacheInv'
    BY <2>1 DEF CacheInv
  <2>5. LoadInv' /\ ServedPairUsable'
    BY <2>1, <2>2 DEF TypeOK, LoadInv, UsableBy, ServedPairUsable
  <2>6. (\A g \in Handshakes : pc'[g] \in Loading <=> pc[g] \in Loading) /\ (Pending' <=> Pending)
    BY <2>1, PendingGoesOn DEF Loading
  <2>7. SpacingInv'
    BY <2>1, <2>6 DEF SpacingInv
  <2>8. RotationInv'
    BY <2>1, <2>2, <2>6 DEF TypeOK, RotationInv
  <2> QED  BY <2>3, <2>4, <2>5, <2>7, <2>8
<1> QED  BY <1>1, <1>2

(* The pair is installed.  Unless the load was slow, no other handshake    *)
(* has claimed a reload since, and so the time of the cache stays.         *)
LEMMA InstallKeeps ==
  ASSUME IInv, NEW h \in Handshakes, Install(h)
  PROVE  IInv'
<1> USE TlsConstants DEF IInv
<1> DEFINE chain == inHand[h].cert
<1>1. /\ pc[h] = "install" /\ pc' = [pc EXCEPT ![h] = "done"]
      /\ cached' = [pair |-> inHand[h], notAfter |-> Earliest(chain), at |-> start[h]]
      /\ slow' = (slow \/ now - start[h] >= Interval)
      /\ UNCHANGED <<now, certFile, keyFile, writes, changed, start, inHand, claimed, failedAt>>
  BY DEF Install, Goto, files, Loaded
<1>2. /\ chain \in Chains /\ inHand[h].key = chain /\ UsableBy(h, chain) /\ inHand[h] \in Pairs
      /\ start[h] \in Times /\ start[h] <= now /\ now \in Times /\ Times \subseteq Int
  BY <1>1 DEF LoadInv, TypeOK, Times
<1>3. TypeOK'
  <2>1. cached' \in [pair : Pairs, notAfter : Ends, at : Times]
    BY <1>1, <1>2, EarliestIsLeast
  <2>2. slow' \in BOOLEAN
    BY <1>1
  <2> QED  BY <1>1, <2>1, <2>2 DEF TypeOK, Stages
<1>4. CacheInv'
  BY <1>1, <1>2 DEF CacheInv, UsableBy
<1>5. LoadInv'
  BY <1>1 DEF TypeOK, LoadInv, UsableBy
<1>6. ServedPairUsable'
  BY <1>1, <1>2 DEF TypeOK, ServedPairUsable, UsableBy
<1>7. \A g \in Handshakes : pc'[g] # "done" => pc'[g] = pc[g] /\ g # h
  BY <1>1 DEF TypeOK
<1>8. SpacingInv'
  <2> SUFFICES ASSUME Interval > 0, ~slow'
               PROVE  /\ claimed # None => start[h] = claimed
                      /\ \A g \in Handshakes : pc'[g] \in Loading =>
                           claimed # None /\ (start[g] = claimed \/ start[g] + Interval <= claimed)
    BY <1>1 DEF SpacingInv
  <2>1. ~slow /\ now - start[h] < Interval
    <3>1. ~slow /\ ~(now - start[h] >= Interval)
      BY <1>1
    <3>2. now \in Int /\ start[h] \in Int /\ Interval \in Int
      BY DEF TypeOK, Times
    <3>3. now - start[h] < Interval
      BY <3>1, <3>2
    <3> QED  BY <3>1, <3>3
  <2>2. claimed # None /\ claimed <= now /\ (start[h] = claimed \/ start[h] + Interval <= claimed)
    BY <1>1, <2>1 DEF SpacingInv, Loading
  <2>3. start[h] = claimed
    BY <1>2, <2>1, <2>2 DEF TypeOK
  <2>4. \A g \in Handshakes : pc'[g] \in Loading => pc[g] \in Loading
    BY <1>7 DEF Loading
  <2> QED  BY <2>1, <2>3, <2>4 DEF SpacingInv
<1>9. RotationInv'
  <2>1. start[h] > changed => chain = certFile
    BY <1>1 DEF RotationInv
  <2> QED  BY <1>1, <1>7, <2>1 DEF RotationInv
<1> QED  BY <1>3, <1>4, <1>5, <1>6, <1>8, <1>9

(* The handshake is over. *)
LEMMA FinishKeeps ==
  ASSUME IInv, NEW h \in Handshakes, Finish(h)
  PROVE  IInv'
<1> USE TlsConstants DEF IInv
<1>1. /\ pc[h] = "done" /\ pc' = [pc EXCEPT ![h] = "idle"]
      /\ inHand' = [inHand EXCEPT ![h] = Nothing] /\ start' = [start EXCEPT ![h] = 0]
      /\ UNCHANGED <<now, certFile, keyFile, writes, changed, cached, claimed, failedAt, slow>>
  BY DEF Finish, Goto, files, history
<1>2. \A g \in Handshakes : pc'[g] # "idle" =>
        pc'[g] = pc[g] /\ start'[g] = start[g] /\ inHand'[g] = inHand[g]
  BY <1>1 DEF TypeOK
<1>3. TypeOK'
  BY <1>1 DEF TypeOK, Stages, Nothing, Pairs, Times
<1>4. CacheInv'
  BY <1>1 DEF CacheInv
<1>5. LoadInv'
  BY <1>1, <1>2 DEF TypeOK, Times, LoadInv, UsableBy
<1>6. ServedPairUsable'
  BY <1>1, <1>2 DEF ServedPairUsable
<1>7. SpacingInv'
  BY <1>1, <1>2 DEF SpacingInv, Loading
<1>8. Pending' <=> Pending
  BY <1>1 DEF TypeOK, Pending, Loading
<1>9. RotationInv'
  BY <1>1, <1>2, <1>8 DEF RotationInv
<1> QED  BY <1>3, <1>4, <1>5, <1>6, <1>7, <1>9

(* A file is replaced: nothing that is under way began later. *)
LEMMA WriteKeeps ==
  ASSUME IInv, NEW cert \in Chains \cup {Broken}, NEW key \in Chains \cup {Broken}, Write(cert, key)
  PROVE  IInv'
<1> USE TlsConstants DEF IInv
<1>1. /\ certFile' = cert /\ keyFile' = key /\ changed' = now /\ writes < MaxWrites
      /\ writes' = writes + 1
      /\ UNCHANGED <<now, cached, pc, start, inHand, claimed, failedAt, slow>>
  BY DEF Write, history
<1>2. TypeOK'
  BY <1>1 DEF TypeOK
<1>3. CacheInv' /\ LoadInv' /\ ServedPairUsable' /\ SpacingInv'
  BY <1>1 DEF CacheInv, LoadInv, UsableBy, ServedPairUsable, SpacingInv
<1>4. ~(cached.at > now) /\ \A h \in Handshakes : ~(start[h] > now)
  BY DEF TypeOK, Times, CacheInv, LoadInv
<1>5. RotationInv'
  BY <1>1, <1>4 DEF RotationInv, TypeOK, Times
<1> QED  BY <1>2, <1>3, <1>5

LEMMA TickKeeps ==
  ASSUME IInv, Tick
  PROVE  IInv'
<1> USE TlsConstants DEF IInv
<1>1. /\ now < MaxNow /\ now' = now + 1 /\ now \in Times /\ Times \subseteq Int
      /\ UNCHANGED <<certFile, keyFile, writes, changed, cached, pc, start, inHand, claimed,
                     failedAt, slow>>
  BY DEF Tick, files, history, TypeOK, Times
<1>2. TypeOK'
  BY <1>1 DEF TypeOK, Times
<1> HIDE DEF IInv
<1>3. /\ cached.at \in Int /\ changed \in Int /\ now \in Int /\ now' \in Int
      /\ claimed # None => claimed \in Int
      /\ \A h \in Handshakes : start[h] \in Int
  BY <1>1 DEF IInv, TypeOK, Times
<1>4. \A c \in Chains : \A v \in Validity[c] : v[1] \in Int /\ (v[1] <= now => v[1] <= now')
  BY <1>1
<1>5. CacheInv'
  <2>1. cached.at <= now'
    BY <1>1, <1>3 DEF IInv, CacheInv
  <2> QED  BY <1>1, <1>4, <2>1 DEF IInv, CacheInv
<1>6. LoadInv'
  <2>1. \A h \in Handshakes : start[h] <= now'
    BY <1>1, <1>3 DEF IInv, LoadInv
  <2> QED  BY <1>1, <1>4, <2>1 DEF IInv, LoadInv, UsableBy
<1>7. ServedPairUsable'
  <2>1. ASSUME NEW h \in Handshakes, pc[h] = "done", inHand[h] # Nothing
        PROVE  inHand[h].cert \in Chains
    BY <2>1 DEF IInv, ServedPairUsable, TypeOK, Pairs, Nothing
  <2> QED  BY <1>1, <1>4, <2>1 DEF IInv, ServedPairUsable
<1>8. SpacingInv'
  <2>1. claimed # None => claimed <= now'
    BY <1>1, <1>3 DEF IInv, SpacingInv
  <2> QED  BY <1>1, <2>1 DEF IInv, SpacingInv
<1>9. RotationInv'
  <2>1. changed <= now'
    BY <1>1, <1>3 DEF IInv, RotationInv
  <2> QED  BY <1>1, <2>1 DEF IInv, RotationInv, Pending
<1> QED  BY <1>2, <1>5, <1>6, <1>7, <1>8, <1>9 DEF IInv

LEMMA TlsStep == IInv /\ [Next]_vars => IInv'
<1> SUFFICES ASSUME IInv, [Next]_vars PROVE IInv'
  OBVIOUS
<1>1. ASSUME NEW h \in Handshakes,
             \/ Hello(h) \/ Look(h) \/ Claim(h) \/ ReadCert(h) \/ Validate(h) \/ ReadKey(h)
             \/ IoError(h) \/ Install(h) \/ Fallback(h) \/ Finish(h)
      PROVE  IInv'
  <2>1. CASE IoError(h)
    BY <2>1, FailsKeeps DEF IoError
  <2>2. CASE Fallback(h)
    BY <2>2, AnswerKeeps DEF Fallback
  <2> QED  BY <1>1, <2>1, <2>2, HelloKeeps, LookKeeps, ClaimKeeps, ReadCertKeeps, ValidateKeeps,
              ReadKeyKeeps, InstallKeeps, FinishKeeps
<1>2. CASE UNCHANGED vars
  BY <1>2 DEF vars, files, history, IInv, TypeOK, CacheInv, LoadInv, UsableBy, ServedPairUsable,
              SpacingInv, RotationInv, Pending
<1> QED  BY <1>1, <1>2, WriteKeeps, TickKeeps DEF Next

LEMMA TlsInv == Spec => []IInv
  BY TlsInit, TlsStep, PTL DEF Spec

-----------------------------------------------------------------------------
(* Every variable of the resolver has its type. *)
THEOREM TlsTypes == Spec => []TypeOK
<1>1. IInv => TypeOK
  BY DEF IInv
<1> QED  BY <1>1, TlsInv, PTL

(* Whatever is rotated, and however handshakes interleave: the pair that   *)
(* is handed out belongs together, its chain has begun, and no certificate *)
(* of it had expired when the handshake began (ServedPairUsable).          *)
THEOREM PairsAreUsable == Spec => []ServedPairUsable
<1>1. IInv => ServedPairUsable
  BY DEF IInv
<1> QED  BY <1>1, TlsInv, PTL

(* As long as loads take less than the interval, the files are read once   *)
(* in an interval (QuickReadsSpaced).  The interval is that of the         *)
(* program, 5 seconds, or any other but zero: with zero there is nothing   *)
(* to keep apart.                                                          *)
THEOREM ReadsAreSpaced == Interval > 0 => (Spec => QuickReadsSpaced)
<1> SUFFICES ASSUME Interval > 0 PROVE Spec => QuickReadsSpaced
  OBVIOUS
<1> DEFINE Quick ==
      \A h \in Handshakes : pc[h] = "claim" /\ pc'[h] = "readcert" /\ ~slow => Spaced(h)
<1>1. IInv /\ [Next]_vars => [Quick]_vars
  <2> SUFFICES ASSUME IInv, Next, NEW h \in Handshakes, pc[h] = "claim", pc'[h] = "readcert", ~slow
               PROVE  Spaced(h)
    OBVIOUS
  <2>1. Claim(h) /\ ~Recent(h)
    <3>1. PICK g \in Handshakes :
             \/ Hello(g) \/ Look(g) \/ Claim(g) \/ ReadCert(g) \/ Validate(g) \/ ReadKey(g)
             \/ IoError(g) \/ Install(g) \/ Fallback(g) \/ Finish(g)
      BY DEF Next, Write, Tick
    <3>2. g = h
      BY <3>1 DEF IInv, TypeOK, Hello, Look, Claim, ReadCert, Validate, ReadKey, IoError, Install,
                  Fallback, Finish, Fails, Answer, Goto
    <3>3. Claim(h)
      BY <3>1, <3>2 DEF IInv, TypeOK, Hello, Look, ReadCert, Validate, ReadKey, IoError, Install,
                        Fallback, Finish, Fails, Answer, Goto
    <3> QED  BY <3>3 DEF IInv, TypeOK, Claim, Answer, Goto
  <2>2. claimed # None => cached.at = claimed
    BY DEF IInv, SpacingInv
  <2>3. start[h] \in Int /\ cached.at \in Int /\ Interval \in Int
    BY TlsConstants DEF IInv, TypeOK, Times
  <2>4. start[h] - cached.at >= Interval
    BY <2>1, <2>3 DEF Recent, Elapsed
  <2> QED  BY <2>2, <2>4 DEF Spaced
<1> QED  BY <1>1, TlsInv, PTL DEF Spec, QuickReadsSpaced

(* A rotation is noticed within the interval, unless a load that began     *)
(* after it is under way or has failed (RotationSeen): storing the start   *)
(* of the load, not its end, as the time of the check is what makes it so. *)
THEOREM RotationsAreSeen == Interval > 0 => (Spec => RotationSeen)
<1> SUFFICES ASSUME Interval > 0 PROVE Spec => RotationSeen
  OBVIOUS
<1> DEFINE Seen ==
      \A h \in Handshakes :
        /\ pc[h] # "done" /\ pc'[h] = "done" /\ Settled
        /\ start[h] >= changed + Interval /\ inHand'[h].cert # certFile
        => \/ \E g \in Handshakes : pc[g] \in Loading /\ start[g] > changed
           \/ failedAt # None /\ failedAt > changed
<1>1. IInv /\ [Next]_vars => [Seen]_vars
  <2> SUFFICES ASSUME IInv, Next, NEW h \in Handshakes, pc[h] # "done", pc'[h] = "done", Settled,
                      start[h] >= changed + Interval, inHand'[h].cert # certFile
               PROVE  Pending
    BY DEF Pending
  <2>1. /\ start[h] \in Int /\ changed \in Int /\ Interval \in Int /\ now \in Int
        /\ cached.at \in Int /\ start[h] > changed /\ start[h] <= now
    BY TlsConstants DEF IInv, TypeOK, Times, LoadInv
  <2>2. Look(h) \/ Claim(h) \/ Install(h) \/ Fallback(h)
    <3>1. PICK g \in Handshakes :
             \/ Hello(g) \/ Look(g) \/ Claim(g) \/ ReadCert(g) \/ Validate(g) \/ ReadKey(g)
             \/ IoError(g) \/ Install(g) \/ Fallback(g) \/ Finish(g)
      BY DEF Next, Write, Tick
    <3>2. g = h
      BY <3>1 DEF IInv, TypeOK, Hello, Look, Claim, ReadCert, Validate, ReadKey, IoError, Install,
                  Fallback, Finish, Fails, Answer, Goto
    <3> QED  BY <3>1, <3>2 DEF IInv, TypeOK, Hello, ReadCert, Validate, ReadKey, IoError, Finish,
                               Fails, Goto
  <2>3. CASE Install(h)
    BY <2>1, <2>3 DEF Install, Pending, Loading
  <2>4. CASE Fallback(h)
    <3>1. failedAt # None /\ failedAt >= start[h] /\ failedAt \in Int
      BY <2>4 DEF Fallback, IInv, RotationInv, TypeOK, Times
    <3>2. failedAt > changed
      BY <2>1, <3>1
    <3> QED  BY <3>1, <3>2 DEF Pending
  <2>5. CASE Look(h) \/ Claim(h)
    <3>1. Recent(h) /\ inHand'[h] = FromCache(h)
      BY <2>5 DEF Look, Claim, Answer, Goto, IInv, TypeOK
    <3>2. cached.at > changed
      BY <2>1, <3>1 DEF Recent, Elapsed
    <3>3. cached.pair.cert = certFile => start[h] <= cached.notAfter
      <4> SUFFICES ASSUME cached.pair.cert = certFile PROVE start[h] <= Earliest(certFile)
        BY DEF IInv, CacheInv
      <4>1. certFile \in Chains
        BY DEF IInv, CacheInv
      <4>2. PICK v \in Validity[certFile] : Earliest(certFile) = v[2]
        BY <4>1, EarliestIsLeast
      <4>3. now <= v[2] /\ v[2] \in Int
        BY <4>1, <4>2, EarliestIsLeast DEF Settled, Valid
      <4> QED  BY <2>1, <4>2, <4>3
    <3>4. cached.pair.cert # certFile
      BY <3>1, <3>3 DEF FromCache
    <3> QED  BY <3>2, <3>4 DEF IInv, RotationInv
  <2> QED  BY <2>2, <2>3, <2>4, <2>5
<1> QED  BY <1>1, TlsInv, PTL DEF Spec, RotationSeen

-----------------------------------------------------------------------------
(* The calendar: the number of the day that a certificate's date stands for. *)

(* A date counted in years that begin in March, so that a leap day is the   *)
(* last day of its year.                                                    *)
MarchYear(y, m) == IF m <= 2 THEN y - 1 ELSE y
MarchDay(m, d) == (153 * (IF m > 2 THEN m - 3 ELSE m + 9) + 2) \div 5 + d - 1
YearStart(Y) == 365 * Y + Y \div 4 - Y \div 100 + Y \div 400

EraStart(e, r) == e * 146097 + r * 365 + r \div 4 - r \div 100

(* Rust's division and the correction by 399 round down. *)
LEMMA Era ==
  ASSUME NEW Y \in Int
  PROVE  Quotient(IF Y >= 0 THEN Y ELSE Y - 399, 400) = Y \div 400
  BY DEF Quotient

(* The days before a year, era by era and counted at once. *)
LEMMA EraYears ==
  ASSUME NEW Y \in Int
  PROVE  EraStart(Y \div 400, Y - (Y \div 400) * 400) = YearStart(Y)
<1>1. PICK e \in Int : e = Y \div 400
  OBVIOUS
<1>2. PICK r \in 0..399 : r = Y - e * 400
  BY <1>1
<1>3. /\ Y \div 4 = e * 100 + r \div 4
      /\ Y \div 100 = e * 4 + r \div 100
  BY <1>2
<1>4. EraStart(e, r) = YearStart(Y)
  BY <1>1, <1>2, <1>3 DEF EraStart, YearStart
<1> QED  BY <1>1, <1>2, <1>4

(* days_from_civil from the year, the era, the month and the day. *)
EraOf(Y) == Quotient(IF Y >= 0 THEN Y ELSE Y - 399, 400)
FromEra(Y, e, day) == EraStart(e, Y - e * 400) + day - 719468

LEMMA ClosedForm ==
  ASSUME NEW y \in Int, NEW m \in 1..12, NEW d \in Int
  PROVE  days_from_civil(y, m, d) = YearStart(MarchYear(y, m)) + MarchDay(m, d) - 719468
<1>1. PICK Y \in Int : Y = MarchYear(y, m)
  BY DEF MarchYear
<1>2. days_from_civil(y, m, d) =
        FromEra(MarchYear(y, m), EraOf(MarchYear(y, m)), MarchDay(m, d))
  BY DEF days_from_civil, FromEra, EraStart, EraOf, MarchYear, MarchDay
<1>3. EraOf(Y) = Y \div 400
  BY Era, ZenonT(60) DEF EraOf
<1>4. PICK D \in Int : D = MarchDay(m, d)
  BY DEF MarchDay
<1>5. days_from_civil(y, m, d) = FromEra(Y, Y \div 400, D)
  BY <1>1, <1>2, <1>3, <1>4
<1>6. FromEra(Y, Y \div 400, D) = EraStart(Y \div 400, Y - (Y \div 400) * 400) + D - 719468
  BY DEF FromEra
<1>7. EraStart(Y \div 400, Y - (Y \div 400) * 400) = YearStart(Y)
  BY EraYears, ZenonT(60)
<1> QED  BY <1>1, <1>4, <1>5, <1>6, <1>7

LEMMA NextYear ==
  ASSUME NEW Y \in Int
  PROVE  YearStart(Y + 1) = YearStart(Y) + YearDays(Y + 1)
  BY DEF YearStart, YearDays, is_leap_year

LEMMA YearsGrow ==
  ASSUME NEW Y \in Int, NEW Z \in Int, Y <= Z
  PROVE  YearStart(Y) <= YearStart(Z)
<1>1. Y \div 4 <= Z \div 4 /\ Y \div 400 <= Z \div 400
  OBVIOUS
<1>2. Z \div 100 - Y \div 100 <= Z - Y
  OBVIOUS
<1> QED  BY <1>1, <1>2 DEF YearStart

(* A day lies within its year. *)
LEMMA DayBounds ==
  ASSUME NEW y \in Int, NEW m \in 1..12, NEW d \in 1..days_in_month(y, m)
  PROVE  /\ d \in Int /\ MarchDay(m, d) \in Int /\ MarchYear(y, m) \in Int
         /\ 0 <= MarchDay(m, d) /\ MarchDay(m, d) < YearDays(MarchYear(y, m) + 1)
  BY DEF MarchDay, MarchYear, days_in_month, YearDays

LEMMA MonthsGrow ==
  ASSUME NEW y \in Int, NEW m \in 1..12, NEW d \in 1..days_in_month(y, m),
         NEW n \in 1..12, NEW e \in 1..days_in_month(y, n),
         MarchYear(y, m) = MarchYear(y, n), m < n
  PROVE  MarchDay(m, d) < MarchDay(n, e)
  BY DEF MarchDay, MarchYear, days_in_month

(* The date after a date. *)
NextDate(y, m, d) ==
  IF d < days_in_month(y, m) THEN <<y, m, d + 1>>
  ELSE IF m < 12 THEN <<y, m + 1, 1>> ELSE <<y + 1, 1, 1>>
DayOf(date) == days_from_civil(date[1], date[2], date[3])

LEMMA DayAfterDay ==
  ASSUME NEW y \in Int, NEW m \in 1..12, NEW d \in 1..days_in_month(y, m)
  PROVE  DayOf(NextDate(y, m, d)) = DayOf(<<y, m, d>>) + 1
<1>0. d \in Int /\ d <= days_in_month(y, m) /\ days_in_month(y, m) \in Int
  BY DEF days_in_month
<1>1. DayOf(<<y, m, d>>) = YearStart(MarchYear(y, m)) + MarchDay(m, d) - 719468
  BY <1>0, ClosedForm DEF DayOf
<1>2. \A Y \in Int : YearStart(Y) \in Int
  BY DEF YearStart
<1>3. MarchYear(y, m) \in Int /\ MarchDay(m, d) \in Int
  BY <1>0 DEF MarchYear, MarchDay
<1>4. CASE d < days_in_month(y, m)
  <2>1. DayOf(NextDate(y, m, d)) = YearStart(MarchYear(y, m)) + MarchDay(m, d + 1) - 719468
    BY <1>0, <1>4, ClosedForm DEF DayOf, NextDate
  <2>2. MarchDay(m, d + 1) = MarchDay(m, d) + 1
    BY <1>0 DEF MarchDay
  <2> QED  BY <1>1, <1>2, <1>3, <2>1, <2>2
<1>5. CASE d = days_in_month(y, m) /\ m < 12
  <2>1. DayOf(NextDate(y, m, d)) =
          YearStart(MarchYear(y, m + 1)) + MarchDay(m + 1, 1) - 719468
    BY <1>0, <1>5, ClosedForm DEF DayOf, NextDate
  <2>2. CASE m # 2
    <3>1. MarchYear(y, m + 1) = MarchYear(y, m)
      BY <2>2 DEF MarchYear
    <3>2. MarchDay(m + 1, 1) = MarchDay(m, d) + 1
      BY <1>5, <2>2 DEF MarchDay, days_in_month
    <3> QED  BY <1>1, <1>2, <1>3, <2>1, <3>1, <3>2
  <2>3. CASE m = 2
    <3>1. MarchYear(y, m) = y - 1 /\ MarchYear(y, m + 1) = y
      BY <2>3 DEF MarchYear
    <3>2. MarchDay(m + 1, 1) = 0 /\ MarchDay(m, d) + 1 = YearDays(y)
      BY <1>5, <2>3 DEF MarchDay, days_in_month, YearDays
    <3>3. YearStart(y) = YearStart(y - 1) + YearDays(y)
      BY NextYear
    <3> QED  BY <1>1, <1>2, <1>3, <2>1, <3>1, <3>2, <3>3
  <2> QED  BY <2>2, <2>3
<1>6. CASE d = days_in_month(y, m) /\ m = 12
  <2>1. DayOf(NextDate(y, m, d)) = YearStart(MarchYear(y + 1, 1)) + MarchDay(1, 1) - 719468
    BY <1>0, <1>6, ClosedForm DEF DayOf, NextDate
  <2>2. MarchYear(y + 1, 1) = MarchYear(y, m) /\ MarchDay(1, 1) = MarchDay(m, d) + 1
    BY <1>6 DEF MarchYear, MarchDay, days_in_month
  <2> QED  BY <1>1, <1>2, <1>3, <2>1, <2>2
<1> QED  BY <1>0, <1>4, <1>5, <1>6

(* days_from_civil counts the days of the Gregorian calendar from           *)
(* 1970-01-01, without gap or repetition, in every year.                    *)
THEOREM DaysAreCounted ==
  /\ days_from_civil(1970, 1, 1) = 0
  /\ \A y \in Int, m \in 1..12 : \A d \in 1..days_in_month(y, m) :
       DayOf(NextDate(y, m, d)) = DayOf(<<y, m, d>>) + 1
<1>1. days_from_civil(1970, 1, 1) = 0
  BY DEF days_from_civil, Quotient
<1>2. ASSUME NEW y \in Int, NEW m \in 1..12, NEW d \in 1..days_in_month(y, m)
      PROVE  DayOf(NextDate(y, m, d)) = DayOf(<<y, m, d>>) + 1
  BY DayAfterDay
<1> QED  BY <1>1, <1>2 DEF DayOf

(* The days are in the order of the dates, so that the comparison of a      *)
(* certificate's times with each other and with the clock is the one of     *)
(* the dates.                                                               *)
THEOREM DatesKeepOrder ==
  \A y, z \in Int, m, n \in 1..12 :
    \A d \in 1..days_in_month(y, m), e \in 1..days_in_month(z, n) :
      (y < z \/ (y = z /\ m < n) \/ (y = z /\ m = n /\ d < e)) =>
        days_from_civil(y, m, d) < days_from_civil(z, n, e)
<1> SUFFICES ASSUME NEW y \in Int, NEW z \in Int, NEW m \in 1..12, NEW n \in 1..12,
                    NEW d \in 1..days_in_month(y, m), NEW e \in 1..days_in_month(z, n),
                    y < z \/ (y = z /\ m < n) \/ (y = z /\ m = n /\ d < e)
             PROVE  days_from_civil(y, m, d) < days_from_civil(z, n, e)
  OBVIOUS
<1>0. /\ d \in Int /\ MarchDay(m, d) \in Int /\ MarchYear(y, m) \in Int
      /\ 0 <= MarchDay(m, d) /\ MarchDay(m, d) < YearDays(MarchYear(y, m) + 1)
  BY DayBounds
<1>1. /\ e \in Int /\ MarchDay(n, e) \in Int /\ MarchYear(z, n) \in Int
      /\ 0 <= MarchDay(n, e) /\ MarchDay(n, e) < YearDays(MarchYear(z, n) + 1)
  BY DayBounds
<1>2. /\ days_from_civil(y, m, d) = YearStart(MarchYear(y, m)) + MarchDay(m, d) - 719468
      /\ days_from_civil(z, n, e) = YearStart(MarchYear(z, n)) + MarchDay(n, e) - 719468
  BY <1>0, <1>1, ClosedForm
<1>3. \A Y \in Int : YearStart(Y) \in Int /\ YearDays(Y) \in Int
  BY DEF YearStart, YearDays
<1>4. CASE MarchYear(y, m) < MarchYear(z, n)
  <2>1. YearStart(MarchYear(y, m) + 1) <= YearStart(MarchYear(z, n))
    BY <1>0, <1>1, <1>4, YearsGrow
  <2>2. YearStart(MarchYear(y, m) + 1) = YearStart(MarchYear(y, m)) + YearDays(MarchYear(y, m) + 1)
    BY <1>0, NextYear
  <2> QED  BY <1>0, <1>1, <1>2, <1>3, <2>1, <2>2
<1>5. CASE MarchYear(y, m) = MarchYear(z, n)
  <2>1. MarchDay(m, d) < MarchDay(n, e)
    <3>1. CASE y = z /\ m < n
      BY <1>5, <3>1, MonthsGrow
    <3>2. CASE y = z /\ m = n /\ d < e
      BY <1>0, <1>1, <3>2 DEF MarchDay
    <3>3. CASE y < z
      <4>1. m > 2 /\ n <= 2
        BY <1>5, <3>3 DEF MarchYear
      <4> QED  BY <1>5, <3>3, <4>1 DEF MarchDay, MarchYear, days_in_month
    <3> QED  BY <3>1, <3>2, <3>3
  <2> QED  BY <1>0, <1>1, <1>2, <1>3, <1>5, <2>1
<1>6. MarchYear(y, m) <= MarchYear(z, n)
  BY DEF MarchYear
<1> QED  BY <1>0, <1>1, <1>4, <1>5, <1>6

LEMMA YearAfterYear ==
  ASSUME NEW y \in Int
  PROVE  days_from_civil(y + 1, 1, 1) = days_from_civil(y, 1, 1) + YearDays(y)
<1>1. PICK z \in Int, x \in Int : z = y + 1 /\ x = y - 1 /\ x + 1 = y
  OBVIOUS
<1>2. /\ days_from_civil(z, 1, 1) = YearStart(MarchYear(z, 1)) + MarchDay(1, 1) - 719468
      /\ days_from_civil(y, 1, 1) = YearStart(MarchYear(y, 1)) + MarchDay(1, 1) - 719468
  BY ClosedForm
<1>3. MarchYear(z, 1) = y /\ MarchYear(y, 1) = x
  BY <1>1 DEF MarchYear
<1>4. YearStart(x + 1) = YearStart(x) + YearDays(x + 1)
  BY NextYear
<1>5. PICK a \in Int, b \in Int, c \in Int, e \in Int :
        a = YearStart(y) /\ b = YearStart(x) /\ c = YearDays(y) /\ e = MarchDay(1, 1)
  BY DEF YearStart, YearDays, MarchDay
<1>6. a = b + c
  BY <1>1, <1>4, <1>5
<1>7. days_from_civil(z, 1, 1) = a + e - 719468 /\ days_from_civil(y, 1, 1) = b + e - 719468
  BY <1>2, <1>3, <1>5
<1> QED  BY <1>1, <1>5, <1>6, <1>7

(* What CalendarCounts says: of the first day, of a year and of a month. *)
FirstDay == days_from_civil(1970, 1, 1) = 0
YearStep(y) == days_from_civil(y + 1, 1, 1) = days_from_civil(y, 1, 1) + YearDays(y)
MonthStep(y, m) ==
  /\ \A d \in 2..days_in_month(y, m) :
       days_from_civil(y, m, d) = days_from_civil(y, m, d - 1) + 1
  /\ m > 1 => days_from_civil(y, m, 1) =
                days_from_civil(y, m - 1, days_in_month(y, m - 1)) + 1
YearSteps == \A y \in 0..9998 : YearStep(y)
MonthSteps == \A y \in SampleYears, m \in 1..12 : MonthStep(y, m)

LEMMA CalendarIsCounted == CalendarCounts
<1>2. \A y \in SampleYears : y \in Int
  BY DEF SampleYears
<1>3. ASSUME NEW y \in SampleYears, NEW m \in 1..12, NEW d \in 2..days_in_month(y, m)
      PROVE  days_from_civil(y, m, d) = days_from_civil(y, m, d - 1) + 1
  <2>1. PICK e \in 1..days_in_month(y, m) : e = d - 1 /\ e < days_in_month(y, m) /\ e + 1 = d
    BY <1>2 DEF days_in_month
  <2>2. NextDate(y, m, e) = <<y, m, d>>
    BY <2>1 DEF NextDate
  <2>3. DayOf(NextDate(y, m, e)) = DayOf(<<y, m, e>>) + 1
    BY <1>2, DayAfterDay
  <2> QED  BY <2>1, <2>2, <2>3 DEF DayOf
<1>4. ASSUME NEW y \in SampleYears, NEW m \in 1..12, m > 1
      PROVE  days_from_civil(y, m, 1) =
               days_from_civil(y, m - 1, days_in_month(y, m - 1)) + 1
  <2>1. PICK n \in 1..12 : n = m - 1 /\ n < 12 /\ n + 1 = m
    BY <1>4
  <2>2. PICK d \in Nat : d = days_in_month(y, n) /\ d \in 1..days_in_month(y, n)
    BY DEF days_in_month
  <2>3. NextDate(y, n, d) = <<y, m, 1>>
    <3>1. ~(d < days_in_month(y, n))
      BY <2>2
    <3> QED  BY <2>1, <3>1 DEF NextDate
  <2>4. DayOf(NextDate(y, n, d)) = DayOf(<<y, n, d>>) + 1
    BY <1>2, <2>2, DayAfterDay
  <2> QED  BY <2>1, <2>2, <2>3, <2>4 DEF DayOf
<1>5. FirstDay
  BY DEF FirstDay, days_from_civil, Quotient
<1>6. \A y \in Int : YearStep(y)
  BY YearAfterYear DEF YearStep
<1>7. YearSteps
  BY <1>6 DEF YearSteps
<1>8. MonthSteps
  BY <1>3, <1>4 DEF MonthStep, MonthSteps
<1>9. CalendarCounts <=> FirstDay /\ YearSteps /\ MonthSteps
  BY DEF CalendarCounts, FirstDay, YearStep, MonthStep, YearSteps, MonthSteps
<1> QED  BY <1>5, <1>7, <1>8, <1>9

-----------------------------------------------------------------------------
(* Sequences and numbers: induction, recursion, concatenation and parts.    *)

(* A set of numbers with 0 and every successor has all of them. *)
LEMMA EveryNumber ==
  ASSUME NEW T, 0 \in T, \A n \in Nat : n \in T => n + 1 \in T
  PROVE  \A n \in Nat : n \in T
<1> DEFINE Missing == {n \in Nat : n \notin T}
<1> SUFFICES ASSUME Missing # {} PROVE FALSE
  OBVIOUS
<1>1. \A m, n \in Nat : n < m => <<n, m>> \in OpToRel(<, Nat)
  BY Zenon DEF OpToRel
<1>2. \E m \in Missing : \A n \in Missing : ~(<<n, m>> \in OpToRel(<, Nat))
  <2>1. Missing \subseteq Nat
    OBVIOUS
  <2> HIDE DEF Missing
  <2> QED  BY <2>1, NatLessThanWellFounded, WFMin, Zenon
<1>3. PICK m \in Missing : \A n \in Missing : ~(n < m)
  <2>1. Missing \subseteq Nat
    OBVIOUS
  <2> HIDE DEF Missing
  <2> QED  BY <1>1, <1>2, <2>1, Zenon
<1>4. m \in Nat /\ m # 0 /\ m \notin T
  OBVIOUS
<1>5. m - 1 \in Nat /\ m - 1 < m /\ (m - 1) + 1 = m
  BY <1>4
<1>6. m - 1 \in T
  BY <1>3, <1>5
<1> QED  BY <1>4, <1>5, <1>6

(* A function on 0..n that is defined by its first value and its steps. *)
Iterate(f, n, base, step) ==
  /\ f \in [0..n -> Nat]
  /\ f = [i \in 0..n |-> IF i = 0 THEN base ELSE step[<<i, f[i - 1]>>]]

LEMMA Iterates ==
  ASSUME NEW n \in Nat, NEW base \in Nat, NEW step \in [(1..n) \X Nat -> Nat]
  PROVE  \E f : Iterate(f, n, base, step)
<1> DEFINE Upto(f, k) == f[0] = base /\ \A i \in 1..k : f[i] = step[<<i, f[i - 1]>>]
           T == {k \in Nat : k <= n => \E f \in [0..k -> Nat] : Upto(f, k)}
<1>1. 0 \in T
  <2>1. [i \in 0..0 |-> base] \in [0..0 -> Nat] /\ Upto([i \in 0..0 |-> base], 0)
    OBVIOUS
  <2> QED  BY <2>1
<1>2. ASSUME NEW k \in Nat, k \in T PROVE k + 1 \in T
  <2> SUFFICES ASSUME k + 1 <= n PROVE \E f \in [0..(k + 1) -> Nat] : Upto(f, k + 1)
    BY SMTT(60)
  <2>1. PICK f \in [0..k -> Nat] : Upto(f, k)
    BY <1>2
  <2>2. f[k] \in Nat /\ <<k + 1, f[k]>> \in (1..n) \X Nat
    OBVIOUS
  <2>3. PICK last \in Nat : last = step[<<k + 1, f[k]>>]
    BY <2>2
  <2> DEFINE g == [i \in 0..(k + 1) |-> IF i = k + 1 THEN last ELSE f[i]]
  <2>4. g \in [0..(k + 1) -> Nat]
    OBVIOUS
  <2>5. \A i \in 0..k : g[i] = f[i]
    OBVIOUS
  <2>6. g[k + 1] = last
    OBVIOUS
  <2> HIDE DEF g
  <2>7. g[0] = base
    BY <2>1, <2>5
  <2>8. ASSUME NEW i \in 1..(k + 1) PROVE g[i] = step[<<i, g[i - 1]>>]
    <3>1. g[i - 1] = f[i - 1]
      BY <2>5
    <3>2. CASE i = k + 1
      BY <2>3, <2>6, <3>1, <3>2
    <3>3. CASE i # k + 1
      BY <2>1, <2>5, <3>1, <3>3
    <3> QED  BY <3>2, <3>3
  <2> QED  BY <2>4, <2>7, <2>8
<1>3. n \in T
  <2> HIDE DEF T
  <2> QED  BY <1>1, <1>2, EveryNumber
<1>4. PICK f \in [0..n -> Nat] : Upto(f, n)
  BY <1>3
<1>5. \A i \in 0..n : f[i] = IF i = 0 THEN base ELSE step[<<i, f[i - 1]>>]
  BY <1>4
<1>6. f = [i \in 0..n |-> IF i = 0 THEN base ELSE step[<<i, f[i - 1]>>]]
  BY <1>4, <1>5
<1> QED  BY <1>6 DEF Iterate

(* A concatenation is taken apart where it was put together. *)
LEMMA ConcatParts ==
  ASSUME NEW T, NEW s \in Seq(T), NEW t \in Seq(T)
  PROVE  /\ s \o t \in Seq(T) /\ Len(s \o t) = Len(s) + Len(t)
         /\ SubSeq(s \o t, 1, Len(s)) = s
         /\ SubSeq(s \o t, Len(s) + 1, Len(s) + Len(t)) = t
<1>1. /\ s \o t \in Seq(T) /\ Len(s \o t) = Len(s) + Len(t)
      /\ \A i \in 1 .. Len(s) + Len(t) :
           (s \o t)[i] = IF i <= Len(s) THEN s[i] ELSE t[i - Len(s)]
  BY ConcatProperties, Zenon
<1>2. PICK st \in Seq(T) : st = s \o t
  BY <1>1
<1>3. Len(s) \in Nat /\ Len(t) \in Nat /\ Len(st) = Len(s) + Len(t)
  BY <1>1, <1>2
<1>4. \A i \in 1..Len(s) : st[i] = s[i] /\ st[i] \in T
  BY <1>1, <1>2, <1>3, ElementOfSeq
<1>5. \A i \in (Len(s) + 1)..(Len(s) + Len(t)) : st[i] = t[i - Len(s)] /\ st[i] \in T
  BY <1>1, <1>2, <1>3, ElementOfSeq
<1>6. SubSeq(st, 1, Len(s)) = s
  <2>1. PICK u : u = SubSeq(st, 1, Len(s))
    OBVIOUS
  <2>2. u \in Seq(T) /\ Len(u) = Len(s) /\ \A i \in 1..Len(s) : u[i] = st[i]
    BY <1>3, <1>4, <2>1, SubSeqProperties
  <2>3. u = s
    BY <1>4, <2>2, SeqEqual
  <2> QED  BY <2>1, <2>3
<1>7. SubSeq(st, Len(s) + 1, Len(s) + Len(t)) = t
  <2>1. PICK u, m, n : u = SubSeq(st, m, n) /\ m = Len(s) + 1 /\ n = Len(s) + Len(t)
    OBVIOUS
  <2>2. u \in Seq(T) /\ Len(u) = Len(t) /\ \A i \in 1..Len(t) : u[i] = st[m + i - 1]
    BY <1>3, <1>5, <2>1, SubSeqProperties
  <2>3. ASSUME NEW i \in 1..Len(t) PROVE u[i] = t[i]
    <3>1. m + i - 1 \in (Len(s) + 1)..(Len(s) + Len(t)) /\ (m + i - 1) - Len(s) = i
      BY <1>3, <2>1
    <3>2. PICK j \in (Len(s) + 1)..(Len(s) + Len(t)) : j = m + i - 1 /\ j - Len(s) = i
      BY <3>1, Zenon
    <3> QED  BY <1>5, <2>2, <3>2, Zenon
  <2>4. u = t
    BY <2>2, <2>3, SeqEqual
  <2> QED  BY <2>1, <2>4
<1> QED  BY <1>1, <1>2, <1>6, <1>7

LEMMA Halves ==
  ASSUME NEW T, NEW s \in Seq(T), NEW k \in 0..Len(s)
  PROVE  SubSeq(s, 1, k) \o SubSeq(s, k + 1, Len(s)) = s
<1>1. 1 \in 1 .. Len(s) + 1 /\ k \in 1 - 1 .. Len(s) /\ Len(s) \in k .. Len(s)
  BY LenProperties
<1>2. SubSeq(s, 1, k) \o SubSeq(s, k + 1, Len(s)) = SubSeq(s, 1, Len(s))
  BY <1>1, ConcatAdjacentSubSeq
<1> QED  BY <1>2, SubSeqFull

IsConcat(u, s, t) ==
  /\ Len(u) = Len(s) + Len(t)
  /\ \A k \in 1..Len(s) : u[k] = s[k]
  /\ \A k \in 1..Len(t) : u[Len(s) + k] = t[k]

LEMMA ConcatAt ==
  ASSUME NEW T, NEW s \in Seq(T), NEW t \in Seq(T)
  PROVE  s \o t \in Seq(T) /\ IsConcat(s \o t, s, t)
<1>1. /\ s \o t \in Seq(T) /\ Len(s \o t) = Len(s) + Len(t)
      /\ \A i \in 1 .. Len(s) + Len(t) :
           (s \o t)[i] = IF i <= Len(s) THEN s[i] ELSE t[i - Len(s)]
  BY ConcatProperties, Zenon
<1>2. Len(s) \in Nat /\ Len(t) \in Nat
  BY LenProperties
<1>3. PICK u : u = s \o t
  OBVIOUS
<1>4. \A k \in 1..Len(s) : u[k] = s[k]
  BY <1>1, <1>2, <1>3
<1>5. ASSUME NEW k \in 1..Len(t) PROVE u[Len(s) + k] = t[k]
  <2>1. PICK i \in 1 .. Len(s) + Len(t) : i = Len(s) + k /\ ~(i <= Len(s)) /\ i - Len(s) = k
    BY <1>2
  <2> QED  BY <1>1, <1>3, <2>1
<1> QED  BY <1>1, <1>3, <1>4, <1>5 DEF IsConcat

-----------------------------------------------------------------------------
(* The digits of a number, and the number that parse_digits reads.          *)

Bytes == 0..255

(* What parse_digits adds up. *)
Adds(s, f) ==
  /\ f \in [0..Len(s) -> Nat] /\ f[0] = 0
  /\ \A i \in 1..Len(s) : f[i] = f[i - 1] * 10 + s[i] - 48

LEMMA DigitsAdded ==
  ASSUME NEW s \in Seq(Bytes), s # <<>>, \A i \in 1..Len(s) : IsDigit(s[i])
  PROVE  \E f : Adds(s, f) /\ parse_digits(s) = {f[Len(s)]}
<1> DEFINE n == Len(s)
           Fits(f) == f = [i \in 0..n |-> IF i = 0 THEN 0 ELSE f[i - 1] * 10 + s[i] - 48]
           read == CHOOSE f : Fits(f)
<1>1. n \in Nat /\ \A i \in 1..n : s[i] \in 48..57
  BY LenProperties DEF IsDigit
<1> DEFINE step == [x \in (1..n) \X Nat |-> x[2] * 10 + s[x[1]] - 48]
<1>0. \A i \in 1..n, m \in Nat : m * 10 + s[i] - 48 \in Nat
  BY <1>1, SMTT(60)
<1>2. step \in [(1..n) \X Nat -> Nat]
  <2>1. \A x \in (1..n) \X Nat : x[2] * 10 + s[x[1]] - 48 \in Nat
    <3>1. \A x \in (1..n) \X Nat : x[1] \in 1..n /\ x[2] \in Nat
      OBVIOUS
    <3> QED  BY <1>0, <3>1, Zenon
  <2> QED  BY <2>1
<1>3. \A i \in 1..n, m \in Nat : step[<<i, m>>] = m * 10 + s[i] - 48
  OBVIOUS
<1>4. PICK f : Iterate(f, n, 0, step)
  <2>1. n \in Nat /\ 0 \in Nat
    BY <1>1
  <2> HIDE DEF step, n
  <2> QED  BY <1>2, <2>1, Iterates
<1>5. \A i \in 0..n : f[i] = IF i = 0 THEN 0 ELSE f[i - 1] * 10 + s[i] - 48
  <2>1. \A i \in 0..n : f[i] \in Nat /\ f[i] = IF i = 0 THEN 0 ELSE step[<<i, f[i - 1]>>]
    <3> HIDE DEF step, n
    <3> QED  BY <1>4 DEF Iterate
  <2> HIDE DEF step
  <2>2. ASSUME NEW i \in 0..n, i # 0 PROVE f[i] = f[i - 1] * 10 + s[i] - 48
    <3>1. i \in 1..n /\ i - 1 \in 0..n
      BY <1>1, <2>2
    <3>2. f[i - 1] \in Nat
      BY <2>1, <3>1
    <3>3. f[i] = step[<<i, f[i - 1]>>]
      BY <2>1, <2>2
    <3> QED  BY <1>3, <3>1, <3>2, <3>3
  <2> QED  BY <2>1, <2>2
<1>6. Fits(f)
  <2> HIDE DEF step, n
  <2> QED  BY <1>4, <1>5 DEF Iterate
<1>7. Fits(read)
  <2> HIDE DEF Fits
  <2> QED  BY <1>6, Zenon
<1>8. parse_digits(s) = {read[n]}
  <2>1. DOMAIN s = 1..n
    BY LenProperties
  <2>2. ~(s = <<>> \/ \E i \in DOMAIN s : ~IsDigit(s[i]))
    BY <2>1
  <2> QED  BY <2>2, Zenon DEF parse_digits
<1> HIDE DEF read
<1>9. /\ DOMAIN read = 0..n /\ read[0] = 0
      /\ \A i \in 1..n : read[i] = read[i - 1] * 10 + s[i] - 48
  BY <1>1, <1>7
<1>10. \A i \in 0..n : read[i] \in Nat
  <2> DEFINE T == {i \in Nat : i <= n => read[i] \in Nat}
  <2>1. 0 \in T
    BY <1>9
  <2>2. ASSUME NEW i \in Nat, i \in T PROVE i + 1 \in T
    <3> SUFFICES ASSUME i + 1 <= n PROVE read[i + 1] \in Nat
      OBVIOUS
    <3>1. i + 1 \in 1..n /\ (i + 1) - 1 = i /\ read[i] \in Nat
      BY <1>1, <2>2
    <3>2. read[i + 1] = read[i] * 10 + s[i + 1] - 48
      BY <1>9, <3>1
    <3>3. read[i] * 10 + s[i + 1] - 48 \in Nat
      BY <1>0, <3>1
    <3> QED  BY <3>2, <3>3
  <2>3. \A i \in Nat : i \in T
    <3> HIDE DEF T
    <3> QED  BY <2>1, <2>2, EveryNumber
  <2> QED  BY <1>1, <2>3
<1>11. Adds(s, read)
  BY <1>7, <1>9, <1>10 DEF Adds
<1> QED  BY <1>8, <1>11

LEMMA NoDigits ==
  ASSUME NEW s \in Seq(Bytes), NEW i \in 1..Len(s), ~IsDigit(s[i])
  PROVE  parse_digits(s) = {}
<1>1. DOMAIN s = 1..Len(s)
  BY LenProperties
<1> QED  BY <1>1, Zenon DEF parse_digits

(* The digits of a number, and the number of digits. *)
Number2(d, e) == 10 * (d - 48) + (e - 48)
Number4(c, d, e, g) == 1000 * (c - 48) + 100 * (d - 48) + 10 * (e - 48) + (g - 48)

LEMMA TwoFacts ==
  ASSUME NEW n \in 0..99
  PROVE  /\ Digit(n \div 10) \in 48..57 /\ Digit(n) \in 48..57
         /\ n = Number2(Digit(n \div 10), Digit(n))
BY DEF Digit, Number2

HasTwoDigits(n, d, e) == n \in 0..99 /\ Digit(n \div 10) = d /\ Digit(n) = e

LEMMA TwoBack ==
  ASSUME NEW d \in 48..57, NEW e \in 48..57, NEW n, n = Number2(d, e)
  PROVE  HasTwoDigits(n, d, e)
<1>1. n = 10 * (d - 48) + (e - 48)
  BY DEF Number2
<1>2. n \in 0..99 /\ n \div 10 = d - 48 /\ n % 10 = e - 48
  BY <1>1
<1>3. (d - 48) % 10 = d - 48
  OBVIOUS
<1>4. Digit(n \div 10) = d /\ Digit(n) = e
  BY <1>2, <1>3 DEF Digit
<1> QED  BY <1>2, <1>4, Zenon DEF HasTwoDigits

AreDigits(c, d, e, g) == c \in 48..57 /\ d \in 48..57 /\ e \in 48..57 /\ g \in 48..57
IsYear(n) == n \in Nat /\ n <= 9999
HasDigits(n, c, d, e, g) ==
  /\ IsYear(n) /\ c = Digit(n \div 1000) /\ d = Digit(n \div 100)
  /\ e = Digit(n \div 10) /\ g = Digit(n)

LEMMA FourFacts ==
  ASSUME NEW n, NEW c, NEW d, NEW e, NEW g, HasDigits(n, c, d, e, g)
  PROVE  AreDigits(c, d, e, g) /\ n = Number4(c, d, e, g)
<1>0. n \in Nat /\ n <= 9999
  BY DEF HasDigits, IsYear
<1> DEFINE x == n \div 10
           y == n \div 100
           z == n \div 1000
<1>1. x \in 0..999 /\ n % 10 \in 0..9 /\ n = 10 * x + (n % 10)
  BY <1>0
<1>8. x \div 10 = y /\ y \div 10 = z /\ y \in Int /\ z \in Int
  BY <1>0
<1>9. ASSUME NEW k \in Nat PROVE k % 10 \in 0..9 /\ k \div 10 \in Nat /\ k = 10 * (k \div 10) + (k % 10)
  OBVIOUS
<1>2. y \in 0..99 /\ x % 10 \in 0..9 /\ x = 10 * y + (x % 10)
  <2> HIDE DEF x, y, z
  <2> QED  BY <1>1, <1>8, <1>9
<1>3. z \in 0..9 /\ y % 10 \in 0..9 /\ y = 10 * z + (y % 10)
  <2> HIDE DEF x, y, z
  <2> QED  BY <1>2, <1>8, <1>9
<1>4. z % 10 = z
  BY <1>3
<1>5. /\ Digit(z) = 48 + z /\ Digit(y) = 48 + (y % 10)
      /\ Digit(x) = 48 + (x % 10) /\ Digit(n) = 48 + (n % 10)
  BY <1>4 DEF Digit
<1> HIDE DEF x, y, z
<1>6. Digit(z) \in 48..57 /\ Digit(y) \in 48..57 /\ Digit(x) \in 48..57 /\ Digit(n) \in 48..57
  BY <1>1, <1>2, <1>3, <1>5
<1>7. n = Number4(Digit(z), Digit(y), Digit(x), Digit(n))
  BY <1>1, <1>2, <1>3, <1>5 DEF Number4
<1>10. Digit(z) = c /\ Digit(y) = d /\ Digit(x) = e /\ Digit(n) = g
  BY DEF HasDigits, x, y, z
<1> QED  BY <1>6, <1>7, <1>10 DEF AreDigits

FromFour(i, j, k, l) == 1000 * i + 100 * j + 10 * k + l

LEMMA FourInRange ==
  ASSUME NEW i \in 0..9, NEW j \in 0..9, NEW k \in 0..9, NEW l \in 0..9
  PROVE  IsYear(FromFour(i, j, k, l))
<1>1. PICK m : m = FromFour(i, j, k, l)
  OBVIOUS
<1>2. m = 1000 * i + 100 * j + 10 * k + l
  BY <1>1 DEF FromFour
<1>3. m \in Nat /\ m <= 9999
  BY <1>2
<1> QED  BY <1>1, <1>3 DEF IsYear

LEMMA DigitDown ==
  ASSUME NEW c \in 48..57
  PROVE  \E i \in 0..9 : i = c - 48
<1>1. c - 48 \in 0..9
  OBVIOUS
<1> QED  BY <1>1, Zenon

LEMMA FourBack ==
  ASSUME NEW c, NEW d, NEW e, NEW g, AreDigits(c, d, e, g), NEW n, n = Number4(c, d, e, g)
  PROVE  HasDigits(n, c, d, e, g)
<1>0. c \in 48..57 /\ d \in 48..57 /\ e \in 48..57 /\ g \in 48..57
  BY DEF AreDigits
<1>1. IsYear(n) /\ Digit(n) = g
  <2>1. n = 1000 * (c - 48) + 100 * (d - 48) + 10 * (e - 48) + (g - 48)
    BY DEF Number4
  <2>5. PICK i \in 0..9, j \in 0..9, k \in 0..9, l \in 0..9 :
          i = c - 48 /\ j = d - 48 /\ k = e - 48 /\ l = g - 48
    BY <1>0, DigitDown, Zenon
  <2>6. n = FromFour(i, j, k, l)
    BY <2>1, <2>5 DEF FromFour
  <2>2. IsYear(n)
    BY <2>6, FourInRange, Zenon
  <2>3. n = 10 * (100 * (c - 48) + 10 * (d - 48) + (e - 48)) + (g - 48)
    BY <1>0, <2>1
  <2>4. n % 10 = g - 48
    BY <1>0, <2>3
  <2>7. 48 + (n % 10) = g
    BY <1>0, <2>4
  <2> QED  BY <2>2, <2>7, Zenon DEF Digit
<1>2. PICK x : x = n \div 1000
  OBVIOUS
<1>3. x = c - 48
  BY <1>0, <1>2 DEF Number4
<1>4. PICK y : y = n \div 100
  OBVIOUS
<1>5. y = 10 * (c - 48) + (d - 48)
  BY <1>0, <1>4 DEF Number4
<1>6. PICK z : z = n \div 10
  OBVIOUS
<1>7. z = 100 * (c - 48) + 10 * (d - 48) + (e - 48)
  BY <1>0, <1>6 DEF Number4
<1>8. Digit(x) = c /\ Digit(y) = d /\ Digit(z) = e
  BY <1>0, <1>3, <1>5, <1>7 DEF Digit
<1>9. Digit(n \div 1000) = c /\ Digit(n \div 100) = d /\ Digit(n \div 10) = e
  BY <1>2, <1>4, <1>6, <1>8
<1> QED  BY <1>1, <1>9, Zenon DEF HasDigits

(* The numbers that a field of digits adds up to. *)
LEMMA TwoDigits ==
  ASSUME NEW s \in Seq(Bytes), Len(s) = 2, NEW n
  PROVE  n \in parse_digits(s) <=> n \in 0..99 /\ s = Two(n)
<1>0. \A i \in 1..Len(s) : i = 1 \/ i = 2
  OBVIOUS
<1>7. 1 \in 1..Len(s) /\ 2 \in 1..Len(s) /\ s = <<s[1], s[2]>> /\ s # <<>>
  OBVIOUS
<1>1. PICK d \in Bytes, e \in Bytes : s[1] = d /\ s[2] = e
  BY <1>7, ElementOfSeq, Zenon
<1>2. 1 \in 1..Len(s) /\ 2 \in 1..Len(s) /\ s = <<d, e>> /\ s # <<>>
  BY <1>1, <1>7, Zenon
<1>3. \A m : s = Two(m) <=> d = Digit(m \div 10) /\ e = Digit(m)
  BY <1>2 DEF Two
<1>4. ASSUME d \in 48..57, e \in 48..57
      PROVE  parse_digits(s) = {Number2(d, e)}
  <2>1. \A i \in 1..Len(s) : IsDigit(s[i])
    BY <1>0, <1>1, <1>4 DEF IsDigit
  <2>2. PICK f : Adds(s, f) /\ parse_digits(s) = {f[Len(s)]}
    BY <1>2, <2>1, DigitsAdded
  <2>3. PICK f1, f2 : f1 = f[1] /\ f2 = f[2]
    OBVIOUS
  <2>4. f1 \in Nat /\ f1 = 0 * 10 + d - 48 /\ f2 = f1 * 10 + e - 48
    BY <1>1, <2>2, <2>3 DEF Adds
  <2>5. f2 = Number2(d, e)
    BY <1>4, <2>4 DEF Number2
  <2> QED  BY <2>2, <2>3, <2>5
<1>5. ASSUME n \in parse_digits(s) PROVE n \in 0..99 /\ s = Two(n)
  <2>1. d \in 48..57 /\ e \in 48..57
    <3>1. IsDigit(d) /\ IsDigit(e)
      BY <1>1, <1>2, <1>5, NoDigits
    <3> QED  BY <3>1 DEF IsDigit
  <2>2. n = Number2(d, e)
    BY <1>4, <1>5, <2>1
  <2>3. HasTwoDigits(n, d, e)
    BY <2>1, <2>2, TwoBack, Zenon
  <2>4. n \in 0..99 /\ Digit(n \div 10) = d /\ Digit(n) = e
    BY <2>3, Zenon DEF HasTwoDigits
  <2> QED  BY <1>3, <2>4
<1>6. ASSUME n \in 0..99, s = Two(n) PROVE n \in parse_digits(s)
  <2>1. d = Digit(n \div 10) /\ e = Digit(n)
    BY <1>3, <1>6
  <2>2. d \in 48..57 /\ e \in 48..57 /\ n = Number2(d, e)
    BY <1>6, <2>1, TwoFacts
  <2> QED  BY <1>4, <2>2
<1> QED  BY <1>5, <1>6

LEMMA FourDigits ==
  ASSUME NEW s \in Seq(Bytes), Len(s) = 4, NEW n
  PROVE  n \in parse_digits(s) <=> IsYear(n) /\ s = Four(n)
<1>0. \A i \in 1..Len(s) : i = 1 \/ i = 2 \/ i = 3 \/ i = 4
  OBVIOUS
<1>7. /\ 1 \in 1..Len(s) /\ 2 \in 1..Len(s) /\ 3 \in 1..Len(s) /\ 4 \in 1..Len(s)
      /\ s = <<s[1], s[2], s[3], s[4]>> /\ s # <<>>
  OBVIOUS
<1>1. PICK c \in Bytes, d \in Bytes, e \in Bytes, g \in Bytes :
        s[1] = c /\ s[2] = d /\ s[3] = e /\ s[4] = g
  BY <1>7, ElementOfSeq, Zenon
<1>2. /\ 1 \in 1..Len(s) /\ 2 \in 1..Len(s) /\ 3 \in 1..Len(s) /\ 4 \in 1..Len(s)
      /\ s = <<c, d, e, g>> /\ s # <<>>
  BY <1>1, <1>7, Zenon
<1>3. \A m : (IsYear(m) /\ s = Four(m)) <=> HasDigits(m, c, d, e, g)
  BY <1>2 DEF Four, HasDigits
<1>4. ASSUME AreDigits(c, d, e, g)
      PROVE  parse_digits(s) = {Number4(c, d, e, g)}
  <2>0. c \in 48..57 /\ d \in 48..57 /\ e \in 48..57 /\ g \in 48..57
    BY <1>4 DEF AreDigits
  <2>1. \A i \in 1..Len(s) : IsDigit(s[i])
    BY <1>0, <1>1, <2>0 DEF IsDigit
  <2>2. PICK f : Adds(s, f) /\ parse_digits(s) = {f[Len(s)]}
    BY <1>2, <2>1, DigitsAdded
  <2>3. PICK f1, f2, f3, f4 : f1 = f[1] /\ f2 = f[2] /\ f3 = f[3] /\ f4 = f[4]
    OBVIOUS
  <2>4. /\ f1 = 0 * 10 + c - 48 /\ f2 = f1 * 10 + d - 48
        /\ f3 = f2 * 10 + e - 48 /\ f4 = f3 * 10 + g - 48
        /\ f1 \in Nat /\ f2 \in Nat /\ f3 \in Nat
    BY <1>1, <2>2, <2>3 DEF Adds
  <2>5. f4 = Number4(c, d, e, g)
    BY <2>0, <2>4 DEF Number4
  <2> QED  BY <2>2, <2>3, <2>5
<1>5. ASSUME n \in parse_digits(s) PROVE IsYear(n) /\ s = Four(n)
  <2>1. AreDigits(c, d, e, g)
    <3>1. IsDigit(c) /\ IsDigit(d) /\ IsDigit(e) /\ IsDigit(g)
      BY <1>1, <1>2, <1>5, NoDigits
    <3> QED  BY <3>1, Zenon DEF IsDigit, AreDigits
  <2>2. n = Number4(c, d, e, g)
    BY <1>4, <1>5, <2>1
  <2>3. HasDigits(n, c, d, e, g)
    BY <2>1, <2>2, FourBack, Zenon
  <2> QED  BY <1>3, <2>3, Zenon
<1>6. ASSUME IsYear(n), s = Four(n) PROVE n \in parse_digits(s)
  <2>1. HasDigits(n, c, d, e, g)
    BY <1>3, <1>6, Zenon
  <2>2. AreDigits(c, d, e, g) /\ n = Number4(c, d, e, g)
    BY <2>1, FourFacts
  <2> QED  BY <1>4, <2>2
<1> QED  BY <1>5, <1>6

(* A part of the bytes. *)
LEMMA Part ==
  ASSUME NEW s \in Seq(Bytes), NEW j \in Int, NEW k \in Int, 1 <= j, k <= Len(s)
  PROVE  /\ SubSeq(s, j, k) \in Seq(Bytes)
         /\ j <= k + 1 => Len(SubSeq(s, j, k)) = k - j + 1
<1>0. Len(s) \in Nat
  BY LenProperties
<1>1. \A i \in j..k : s[i] \in Bytes
  BY <1>0, ElementOfSeq
<1>2. PICK u : u = SubSeq(s, j, k)
  OBVIOUS
<1>3. u \in Seq(Bytes) /\ Len(u) = (IF j <= k THEN k - j + 1 ELSE 0)
  BY <1>1, <1>2, SubSeqProperties
<1> QED  BY <1>2, <1>3

LEMMA PartOfPart ==
  ASSUME NEW s \in Seq(Bytes), NEW i \in Nat, NEW j \in Nat, NEW m \in Nat, NEW n \in Nat,
         1 <= i, i <= j, j <= Len(s), 1 <= m, m <= n, n <= j - i + 1
  PROVE  SubSeq(SubSeq(s, i, j), m, n) = SubSeq(s, i + m - 1, i + n - 1)
<1>0. Len(s) \in Nat
  BY LenProperties
<1>1. i \in 1 .. Len(s) /\ j \in 1 .. Len(s) /\ m \in 1 .. j-i+1 /\ n \in 1 .. j-i+1
  BY <1>0
<1> QED  BY <1>1, SubSeqOfSubSeq

(* The first k of the bytes are these two parts. *)
Cuts(s, a, j, k1, k) ==
  j \in Nat /\ k \in Nat /\ j = Len(a) /\ k1 = j + 1 /\ j <= k /\ k <= Len(s)

JoinedAt(s, a, b, j, k1, k) ==
  SubSeq(s, 1, k) = a \o b <=> a = SubSeq(s, 1, j) /\ b = SubSeq(s, k1, k)

LEMMA Joined ==
  ASSUME NEW s \in Seq(Bytes), NEW a \in Seq(Bytes), NEW b \in Seq(Bytes),
         NEW j, NEW k1, NEW k, Cuts(s, a, j, k1, k)
  PROVE  JoinedAt(s, a, b, j, k1, k)
<1>1. /\ Len(s) \in Nat /\ j \in Nat /\ k \in Nat /\ j = Len(a)
      /\ k1 = j + 1 /\ j <= k /\ k <= Len(s)
  BY LenProperties DEF Cuts
<1>2. SubSeq(s, 1, k) = SubSeq(s, 1, j) \o SubSeq(s, j + 1, k)
  <2>1. 1 \in 1 .. Len(s)+1 /\ j \in 1-1 .. Len(s) /\ k \in j .. Len(s)
    BY <1>1
  <2> QED  BY <2>1, ConcatAdjacentSubSeq
<1>3. PICK p, q : p = SubSeq(s, 1, j) /\ q = SubSeq(s, k1, k)
  OBVIOUS
<1>4. p \in Seq(Bytes) /\ q \in Seq(Bytes) /\ Len(p) = j
  BY <1>1, <1>3, Part
<1>5. ASSUME a \o b = p \o q PROVE a = p /\ b = q
  <2>1. SubSeq(a \o b, 1, Len(a)) = a
    BY ConcatParts
  <2>4. SubSeq(p \o q, 1, Len(p)) = p
    BY <1>4, ConcatParts
  <2>2. a = p
    BY <1>1, <1>4, <1>5, <2>1, <2>4
  <2>3. a \o b = a \o q
    BY <1>5, <2>2
  <2> QED  BY <1>4, <2>2, <2>3, ConcatSimplifications
<1>6. SubSeq(s, 1, k) = p \o q
  BY <1>1, <1>2, <1>3
<1> QED  BY <1>3, <1>5, <1>6 DEF JoinedAt

LEMMA Concat ==
  ASSUME NEW a \in Seq(Bytes), NEW b \in Seq(Bytes)
  PROVE  a \o b \in Seq(Bytes) /\ Len(a \o b) = Len(a) + Len(b)
BY ConcatParts

Associates(a, b, c) == a \o (b \o c) = (a \o b) \o c

LEMMA Associate ==
  ASSUME NEW a \in Seq(Bytes), NEW b \in Seq(Bytes), NEW c \in Seq(Bytes)
  PROVE  Associates(a, b, c)
BY ConcatAssociative, SMTT(60) DEF Associates

LEMMA TwoBytes ==
  ASSUME NEW n \in Nat
  PROVE  Two(n) \in Seq(Bytes) /\ Len(Two(n)) = 2
<1>1. Digit(n \div 10) \in Bytes /\ Digit(n) \in Bytes
  BY DEF Digit, Bytes
<1> QED  BY <1>1 DEF Two

LEMMA FourBytes ==
  ASSUME NEW n \in Nat
  PROVE  Four(n) \in Seq(Bytes) /\ Len(Four(n)) = 4
<1>1. ASSUME NEW k \in Nat PROVE Digit(k) \in Bytes
  BY DEF Digit, Bytes
<1>2. PICK x \in Nat, y \in Nat, z \in Nat : x = n \div 1000 /\ y = n \div 100 /\ z = n \div 10
  OBVIOUS
<1>3. PICK c \in Bytes, d \in Bytes, e \in Bytes, g \in Bytes :
        c = Digit(x) /\ d = Digit(y) /\ e = Digit(z) /\ g = Digit(n)
  BY <1>1
<1>4. Four(n) = <<c, d, e, g>>
  BY <1>2, <1>3 DEF Four
<1> QED  BY <1>4

LEMMA ClockBytes ==
  ASSUME NEW m \in Nat, NEW d \in Nat, NEW h \in Nat, NEW i \in Nat, NEW s \in Nat
  PROVE  /\ Clock(m, d, h, i, s) \in Seq(Bytes) /\ Len(Clock(m, d, h, i, s)) = 10
         /\ Two(m) \o Two(d) \in Seq(Bytes) /\ Len(Two(m) \o Two(d)) = 4
         /\ Two(m) \o Two(d) \o Two(h) \in Seq(Bytes) /\ Len(Two(m) \o Two(d) \o Two(h)) = 6
         /\ Two(m) \o Two(d) \o Two(h) \o Two(i) \in Seq(Bytes)
         /\ Len(Two(m) \o Two(d) \o Two(h) \o Two(i)) = 8
<1>1. PICK u, v, w, x, y :
        /\ u = Two(m) /\ v = Two(d) /\ w = Two(h) /\ x = Two(i) /\ y = Two(s)
        /\ u \in Seq(Bytes) /\ v \in Seq(Bytes) /\ w \in Seq(Bytes) /\ x \in Seq(Bytes)
        /\ y \in Seq(Bytes) /\ Len(u) = 2 /\ Len(v) = 2 /\ Len(w) = 2 /\ Len(x) = 2 /\ Len(y) = 2
  BY TwoBytes
<1>2. u \o v \in Seq(Bytes) /\ Len(u \o v) = 4
  <2>1. u \in Seq(Bytes) /\ v \in Seq(Bytes) /\ Len(u) = 2 /\ Len(v) = 2
    BY <1>1
  <2>2. u \o v \in Seq(Bytes) /\ Len(u \o v) = Len(u) + Len(v)
    BY <2>1, Concat, Zenon
  <2> QED  BY <2>1, <2>2
<1>3. u \o v \o w \in Seq(Bytes) /\ Len(u \o v \o w) = 6
  BY <1>1, <1>2, Concat
<1>4. u \o v \o w \o x \in Seq(Bytes) /\ Len(u \o v \o w \o x) = 8
  BY <1>1, <1>3, Concat
<1>5. u \o v \o w \o x \o y \in Seq(Bytes) /\ Len(u \o v \o w \o x \o y) = 10
  BY <1>1, <1>4, Concat
<1> QED  BY <1>1, <1>2, <1>3, <1>4, <1>5 DEF Clock

FieldAt(s, j, k) ==
  \A n : n \in Field(s, j, k) <=> n \in 0..99 /\ Two(n) = SubSeq(s, j, k)

LEMMA FieldIs ==
  ASSUME NEW s \in Seq(Bytes), NEW j \in Nat, NEW k \in Nat, 1 <= j, k = j + 1, k <= Len(s)
  PROVE  FieldAt(s, j, k)
<1>1. SubSeq(s, j, k) \in Seq(Bytes) /\ Len(SubSeq(s, j, k)) = 2
  BY Part
<1> QED  BY <1>1, TwoDigits DEF Field, FieldAt

ClockAt(x, m, d, h, i, s) ==
  SubSeq(x, 1, 10) = Clock(m, d, h, i, s) <=>
    /\ Two(m) = SubSeq(x, 1, 2) /\ Two(d) = SubSeq(x, 3, 4) /\ Two(h) = SubSeq(x, 5, 6)
    /\ Two(i) = SubSeq(x, 7, 8) /\ Two(s) = SubSeq(x, 9, 10)

LEMMA ClockIs ==
  ASSUME NEW x \in Seq(Bytes), 10 <= Len(x),
         NEW m \in Nat, NEW d \in Nat, NEW h \in Nat, NEW i \in Nat, NEW s \in Nat
  PROVE  ClockAt(x, m, d, h, i, s)
<1>0. Len(x) \in Nat
  BY LenProperties
<1>1. PICK p \in Seq(Bytes), q \in Seq(Bytes), r \in Seq(Bytes), t \in Seq(Bytes), u \in Seq(Bytes) :
        p = Two(m) /\ q = Two(d) /\ r = Two(h) /\ t = Two(i) /\ u = Two(s)
  BY TwoBytes
<1>2. Len(p) = 2
  BY <1>1, TwoBytes
<1>3. PICK v \in Seq(Bytes) : v = p \o q
  BY Concat
<1>4. PICK w \in Seq(Bytes) : w = v \o r
  BY Concat
<1>5. PICK y \in Seq(Bytes) : y = w \o t
  BY Concat
<1>6. Len(v) = 4 /\ Len(w) = 6 /\ Len(y) = 8
  <2>1. Len(q) = 2 /\ Len(r) = 2 /\ Len(t) = 2
    BY <1>1, TwoBytes
  <2>2. Len(v) = Len(p) + Len(q) /\ Len(w) = Len(v) + Len(r) /\ Len(y) = Len(w) + Len(t)
    BY <1>3, <1>4, <1>5, Concat
  <2> QED  BY <1>2, <2>1, <2>2
<1>12. /\ Cuts(x, y, 8, 9, 10) /\ Cuts(x, w, 6, 7, 8)
       /\ Cuts(x, v, 4, 5, 6) /\ Cuts(x, p, 2, 3, 4)
  BY <1>0, <1>2, <1>6 DEF Cuts
<1>7. Clock(m, d, h, i, s) = y \o u
  BY <1>1, <1>3, <1>4, <1>5 DEF Clock
<1>8. /\ JoinedAt(x, y, u, 8, 9, 10) /\ JoinedAt(x, w, t, 6, 7, 8)
      /\ JoinedAt(x, v, r, 4, 5, 6) /\ JoinedAt(x, p, q, 2, 3, 4)
  BY <1>12, Joined
<1>9. /\ SubSeq(x, 1, 10) = y \o u <=> y = SubSeq(x, 1, 8) /\ u = SubSeq(x, 9, 10)
      /\ SubSeq(x, 1, 8) = w \o t <=> w = SubSeq(x, 1, 6) /\ t = SubSeq(x, 7, 8)
      /\ SubSeq(x, 1, 6) = v \o r <=> v = SubSeq(x, 1, 4) /\ r = SubSeq(x, 5, 6)
      /\ SubSeq(x, 1, 4) = p \o q <=> p = SubSeq(x, 1, 2) /\ q = SubSeq(x, 3, 4)
  BY <1>8 DEF JoinedAt
<1> QED  BY <1>1, <1>3, <1>4, <1>5, <1>7, <1>9 DEF ClockAt

(* What the five fields after the year are read as. *)
FieldsAre(x, m, d, h, i, s) ==
  /\ m \in Field(x, 1, 2) /\ d \in Field(x, 3, 4) /\ h \in Field(x, 5, 6)
  /\ i \in Field(x, 7, 8) /\ s \in Field(x, 9, 10)

InClock(m, d, h, i, s) == m \in 0..99 /\ d \in 0..99 /\ h \in 0..99 /\ i \in 0..99 /\ s \in 0..99

FieldsAt(x, m, d, h, i, s) ==
  FieldsAre(x, m, d, h, i, s) <=>
    InClock(m, d, h, i, s) /\ SubSeq(x, 1, 10) = Clock(m, d, h, i, s)

LEMMA FieldsAreParsed ==
  ASSUME NEW x \in Seq(Bytes), 10 <= Len(x), NEW m, NEW d, NEW h, NEW i, NEW s
  PROVE  FieldsAt(x, m, d, h, i, s)
<1>0. Len(x) \in Nat
  BY LenProperties
<1>1. FieldAt(x, 1, 2) /\ FieldAt(x, 3, 4) /\ FieldAt(x, 5, 6) /\ FieldAt(x, 7, 8) /\ FieldAt(x, 9, 10)
  BY <1>0, FieldIs
<1>2. \A n \in 0..99 : n \in Nat
  OBVIOUS
<1>3. ASSUME InClock(m, d, h, i, s)
      PROVE  ClockAt(x, m, d, h, i, s)
  <2>1. m \in Nat /\ d \in Nat /\ h \in Nat /\ i \in Nat /\ s \in Nat
    BY <1>3 DEF InClock
  <2> QED  BY <2>1, ClockIs
<1> QED  BY <1>1, <1>3 DEF FieldsAt, FieldsAre, InClock, FieldAt, ClockAt

-----------------------------------------------------------------------------
(* The two formats of a time: what parse_certificate_time reads.            *)

Instant(y, m, d, h, i, s) == <<days_from_civil(y, m, d), h * 3600 + i * 60 + s>>

(* The parts of a time that is read. *)
YearDigits(tag) == IF tag = \h17 THEN 2 ELSE 4
TextOf(value) == SubSeq(value, 1, Len(value) - 1)
FieldsOf(tag, value) == SubSeq(TextOf(value), YearDigits(tag) + 1, Len(TextOf(value)))
YearsOf(tag, value) ==
  {IF tag = \h18 THEN y ELSE IF y >= 50 THEN 1900 + y ELSE 2000 + y :
     y \in Field(TextOf(value), 1, YearDigits(tag))}

Refused(tag, value) ==
  \/ value = <<>> \/ value[Len(value)] /= 90
  \/ tag \notin {\h17, \h18}
  \/ tag = \h17 /\ Len(TextOf(value)) /= 12
  \/ tag = \h18 /\ Len(TextOf(value)) < 14
  \/ ~FractionOk(FieldsOf(tag, value))

Accepted(y, m, d, h, i, s) ==
  /\ m \in 1..12
  /\ d \in 1..days_in_month(y, m)
  /\ h <= 23 /\ i <= 59 /\ s <= 59

TimeParsed(tag, value, t) ==
  /\ ~Refused(tag, value)
  /\ \E y, m, d, h, i, s :
       /\ y \in YearsOf(tag, value) /\ FieldsAre(FieldsOf(tag, value), m, d, h, i, s)
       /\ Accepted(y, m, d, h, i, s) /\ t = Instant(y, m, d, h, i, s)

LEMMA ParsedTime ==
  ASSUME NEW tag, NEW value, NEW t
  PROVE  t \in parse_certificate_time(tag, value) <=> TimeParsed(tag, value, t)
<1> DEFINE x == FieldsOf(tag, value)
           All == YearsOf(tag, value) \X Field(x, 1, 2) \X Field(x, 3, 4)
                    \X Field(x, 5, 6) \X Field(x, 7, 8) \X Field(x, 9, 10)
           P(u) == Accepted(u[1], u[2], u[3], u[4], u[5], u[6])
           f(u) == Instant(u[1], u[2], u[3], u[4], u[5], u[6])
<1>1. parse_certificate_time(tag, value) =
        IF Refused(tag, value) THEN {} ELSE {f(u) : u \in {w \in All : P(w)}}
  BY DEF parse_certificate_time, Refused, YearsOf, FieldsOf, TextOf, YearDigits, Accepted, Instant
<1>2. ASSUME NEW u \in All, P(u), t = f(u)
      PROVE  \E y, m, d, h, i, s :
                /\ y \in YearsOf(tag, value) /\ FieldsAre(x, m, d, h, i, s)
                /\ Accepted(y, m, d, h, i, s) /\ t = Instant(y, m, d, h, i, s)
  <2>1. /\ u[1] \in YearsOf(tag, value) /\ u[2] \in Field(x, 1, 2) /\ u[3] \in Field(x, 3, 4)
        /\ u[4] \in Field(x, 5, 6) /\ u[5] \in Field(x, 7, 8) /\ u[6] \in Field(x, 9, 10)
    OBVIOUS
  <2>2. FieldsAre(x, u[2], u[3], u[4], u[5], u[6])
    BY <2>1, Zenon DEF FieldsAre
  <2> QED  BY <1>2, <2>1, <2>2, Zenon
<1>3. ASSUME NEW y \in YearsOf(tag, value), NEW m, NEW d, NEW h, NEW i, NEW s,
             FieldsAre(x, m, d, h, i, s), Accepted(y, m, d, h, i, s),
             t = Instant(y, m, d, h, i, s)
      PROVE  \E u \in All : P(u) /\ t = f(u)
  <2>1. PICK u : u = <<y, m, d, h, i, s>>
    OBVIOUS
  <2>2. u[1] = y /\ u[2] = m /\ u[3] = d /\ u[4] = h /\ u[5] = i /\ u[6] = s
    BY <2>1
  <2>3. u \in All
    BY <1>3, <2>1 DEF FieldsAre
  <2>4. P(u) /\ t = f(u)
    BY <1>3, <2>2, Zenon
  <2> QED  BY <2>3, <2>4, Zenon
<1> HIDE DEF All, P, f
<1> QED  BY <1>1, <1>2, <1>3, Zenon DEF TimeParsed

(* A sequence of bytes and its last byte. *)
LEMMA LastByte ==
  ASSUME NEW v \in Seq(Bytes), NEW x \in Seq(Bytes), NEW b \in Bytes
  PROVE  v = x \o <<b>> <=> v # <<>> /\ v[Len(v)] = b /\ x = SubSeq(v, 1, Len(v) - 1)
<1>0. Len(v) \in Nat /\ Len(x) \in Nat /\ <<b>> \in Seq(Bytes) /\ Len(<<b>>) = 1
  BY LenProperties
<1>1. ASSUME v = x \o <<b>>
      PROVE  v # <<>> /\ v[Len(v)] = b /\ x = SubSeq(v, 1, Len(v) - 1)
  <2>1. Len(x \o <<b>>) = Len(x) + Len(<<b>>) /\ SubSeq(x \o <<b>>, 1, Len(x)) = x
    BY <1>0, ConcatParts
  <2>2. (x \o <<b>>)[Len(x) + 1] = b
    <3>1. IsConcat(x \o <<b>>, x, <<b>>)
      BY <1>0, ConcatAt
    <3> QED  BY <1>0, <3>1 DEF IsConcat
  <2> QED  BY <1>0, <1>1, <2>1, <2>2
<1>2. ASSUME v # <<>>, v[Len(v)] = b, x = SubSeq(v, 1, Len(v) - 1)
      PROVE  v = x \o <<b>>
  <2>1. PICK n \in Nat : n = Len(v) - 1 /\ n + 1 = Len(v)
    BY <1>0, <1>2
  <2>2. SubSeq(v, 1, n) \o SubSeq(v, n + 1, Len(v)) = v
    BY <1>0, <2>1, Halves
  <2>3. PICK u : u = SubSeq(v, n + 1, Len(v))
    OBVIOUS
  <2>4. u = <<b>>
    <3>1. \A i \in (n + 1)..Len(v) : v[i] \in Bytes
      BY <2>1, ElementOfSeq
    <3>2. u \in Seq(Bytes) /\ Len(u) = 1 /\ u[1] = v[n + 1]
      <4>1. \A i \in (n + 1)..Len(v) : v[i] \in Bytes
        BY <3>1
      <4>2. n + 1 <= Len(v) /\ Len(v) - (n + 1) + 1 = 1 /\ (n + 1) + 1 - 1 = n + 1
        BY <1>0, <2>1
      <4>3. u \in Seq(Bytes) /\ Len(u) = Len(v) - (n + 1) + 1
        BY <1>0, <2>1, <2>3, <4>2, Part
      <4>4. \A i \in 1..(Len(v) - (n + 1) + 1) : u[i] = v[(n + 1) + i - 1]
        BY <1>0, <2>1, <2>3, <4>1, SubSeqProperties
      <4>5. 1 \in 1..(Len(v) - (n + 1) + 1)
        BY <4>2
      <4> QED  BY <4>2, <4>3, <4>4, <4>5
    <3> QED  BY <1>2, <2>1, <3>2
  <2> QED  BY <1>2, <2>1, <2>2, <2>3, <2>4
<1> QED  BY <1>1, <1>2

(* The parts of a time with a year of p digits. *)
Parts(v, a, c, f, p) ==
  LET text == SubSeq(v, 1, Len(v) - 1)
      fields == SubSeq(text, p + 1, Len(text))
  IN /\ v # <<>> /\ v[Len(v)] = 90 /\ p + 10 <= Len(text)
     /\ a = SubSeq(text, 1, p) /\ c = SubSeq(fields, 1, 10)
     /\ f = SubSeq(fields, 11, Len(fields))

TwoPartsAt(x, a, b, j, k) ==
  x = a \o b <=> j <= Len(x) /\ a = SubSeq(x, 1, j) /\ b = SubSeq(x, k, Len(x))

LEMMA TwoParts ==
  ASSUME NEW x \in Seq(Bytes), NEW a \in Seq(Bytes), NEW b \in Seq(Bytes),
         NEW j \in Nat, NEW k, k = j + 1, j = Len(a)
  PROVE  TwoPartsAt(x, a, b, j, k)
<1>0. Len(x) \in Nat /\ Len(b) \in Nat
  BY LenProperties
<1>1. ASSUME x = a \o b
      PROVE  j <= Len(x) /\ a = SubSeq(x, 1, j) /\ b = SubSeq(x, k, Len(x))
  <2>1. /\ Len(a \o b) = Len(a) + Len(b) /\ SubSeq(a \o b, 1, Len(a)) = a
        /\ SubSeq(a \o b, Len(a) + 1, Len(a) + Len(b)) = b
    BY ConcatParts
  <2>2. Len(x) = j + Len(b)
    BY <1>1, <2>1
  <2> QED  BY <1>0, <1>1, <2>1, <2>2
<1>2. ASSUME j <= Len(x), a = SubSeq(x, 1, j), b = SubSeq(x, k, Len(x))
      PROVE  x = a \o b
  <2>1. j \in 0..Len(x)
    BY <1>0, <1>2
  <2> QED  BY <1>2, <2>1, Halves
<1> QED  BY <1>1, <1>2 DEF TwoPartsAt

PartsAt(v, a, c, f, p) == v = a \o c \o f \o Zulu <=> Parts(v, a, c, f, p)

LEMMA TimeParts ==
  ASSUME NEW v \in Seq(Bytes), NEW a \in Seq(Bytes), NEW c \in Seq(Bytes),
         NEW f \in Seq(Bytes), NEW p \in Nat, p = Len(a), Len(c) = 10
  PROVE  PartsAt(v, a, c, f, p)
<1> DEFINE text == SubSeq(v, 1, Len(v) - 1)
           fields == SubSeq(text, p + 1, Len(text))
<1>0. PICK cf \in Seq(Bytes), whole \in Seq(Bytes) : cf = c \o f /\ whole = a \o cf
  BY Concat
<1>1. (a \o c) \o f = whole
  BY <1>0, ConcatAssociative, SMTT(60)
<1>3. 90 \in Bytes
  BY DEF Bytes
<1>4. v = whole \o Zulu <=> v # <<>> /\ v[Len(v)] = 90 /\ whole = text
  BY <1>3, LastByte, SMTT(60) DEF Zulu
<1>5. ASSUME v # <<>> PROVE text \in Seq(Bytes) /\ Len(text) \in Nat
  <2>1. Len(v) \in Nat /\ Len(v) - 1 \in Int /\ 1 \in Int /\ Len(v) - 1 <= Len(v) /\ 1 <= 1
    BY LenProperties
  <2>2. text \in Seq(Bytes)
    BY <2>1, Part
  <2> QED  BY <2>2, LenProperties
<1>6. ASSUME v # <<>>
      PROVE  text = whole <=> p <= Len(text) /\ a = SubSeq(text, 1, p) /\ cf = fields
  <2> HIDE DEF text
  <2>1. TwoPartsAt(text, a, cf, p, p + 1)
    BY <1>5, <1>6, TwoParts
  <2> QED  BY <1>0, <2>1, Zenon DEF TwoPartsAt
<1>7. ASSUME v # <<>>, p <= Len(text)
      PROVE  fields \in Seq(Bytes) /\ Len(fields) = Len(text) - p
  <2> HIDE DEF text
  <2>1. p + 1 \in Int /\ Len(text) \in Int /\ 1 <= p + 1 /\ p + 1 <= Len(text) + 1
    BY <1>5, <1>7
  <2>2. text \in Seq(Bytes) /\ Len(text) <= Len(text)
    BY <1>5, <1>7
  <2>3. fields \in Seq(Bytes) /\ Len(fields) = Len(text) - (p + 1) + 1
    BY <2>1, <2>2, Part
  <2> QED  BY <1>5, <1>7, <2>3
<1>8. ASSUME v # <<>>, p <= Len(text)
      PROVE  fields = cf <=> 10 <= Len(fields) /\ c = SubSeq(fields, 1, 10) /\ f = SubSeq(fields, 11, Len(fields))
  <2>1. PICK x \in Seq(Bytes) : x = fields
    BY <1>7, <1>8
  <2>3. 10 = Len(c) /\ 11 = 10 + 1 /\ 10 \in Nat
    OBVIOUS
  <2>2. TwoPartsAt(x, c, f, 10, 11)
    BY <2>3, TwoParts
  <2> QED  BY <1>0, <2>1, <2>2 DEF TwoPartsAt
<1>9. ASSUME v # <<>>, p <= Len(text) PROVE 10 <= Len(fields) <=> p + 10 <= Len(text)
  <2> HIDE DEF text, fields
  <2> QED  BY <1>5, <1>7, <1>9
<1>10. ASSUME v # <<>> PROVE p + 10 <= Len(text) => p <= Len(text)
  <2> HIDE DEF text
  <2> QED  BY <1>5, <1>10
<1>11. Parts(v, a, c, f, p) <=>
         /\ v # <<>> /\ v[Len(v)] = 90 /\ p + 10 <= Len(text)
         /\ a = SubSeq(text, 1, p) /\ c = SubSeq(fields, 1, 10)
         /\ f = SubSeq(fields, 11, Len(fields))
  BY Zenon DEF Parts
<1> HIDE DEF text, fields
<1>12. a \o c \o f \o Zulu = whole \o Zulu
  BY <1>1
<1> QED  BY <1>4, <1>6, <1>8, <1>9, <1>10, <1>11, <1>12, Zenon DEF PartsAt

IsFraction(f) ==
  f # <<>> => f[1] = 46 /\ Len(f) > 1 /\ \A i \in 2..Len(f) : IsDigit(f[i])

LEMMA FractionRead ==
  ASSUME NEW x \in Seq(Bytes), 10 <= Len(x)
  PROVE  /\ SubSeq(x, 11, Len(x)) \in Seq(Bytes)
         /\ SubSeq(x, 11, Len(x)) = <<>> <=> Len(x) = 10
         /\ FractionOk(x) <=> IsFraction(SubSeq(x, 11, Len(x)))
<1>0. Len(x) \in Nat
  BY LenProperties
<1>1. PICK f : f = SubSeq(x, 11, Len(x))
  OBVIOUS
<1>2. \A i \in 11..Len(x) : x[i] \in Bytes
  BY <1>0, ElementOfSeq
<1>3. /\ f \in Seq(Bytes) /\ Len(f) = (IF 11 <= Len(x) THEN Len(x) - 11 + 1 ELSE 0)
      /\ \A i \in 1 .. Len(x) - 11 + 1 : f[i] = x[11 + i - 1]
  BY <1>0, <1>1, <1>2, SubSeqProperties
<1>4. Len(f) = Len(x) - 10 /\ (f = <<>> <=> Len(x) = 10)
  <2>1. f = <<>> <=> Len(f) = 0
    BY <1>3, SMTT(60)
  <2>2. Len(f) = Len(x) - 10
    <3>1. CASE 11 <= Len(x)
      <4>1. Len(f) = Len(x) - 11 + 1
        BY <1>3, <3>1
      <4> QED  BY <1>0, <4>1
    <3>2. CASE ~(11 <= Len(x))
      <4>1. Len(f) = 0
        BY <1>3, <3>2
      <4>2. Len(x) = 10
        <5>1. PICK n \in Nat : n = Len(x)
          BY <1>0
        <5>2. 10 <= n /\ ~(11 <= n)
          BY <3>2, <5>1
        <5>3. n = 10
          BY <5>2
        <5> QED  BY <5>1, <5>3
      <4> QED  BY <4>1, <4>2
    <3> QED  BY <3>1, <3>2
  <2>3. Len(f) = 0 <=> Len(x) = 10
    BY <1>0, <2>2
  <2> QED  BY <2>1, <2>2, <2>3
<1>5. ASSUME Len(x) > 10
      PROVE  FractionOk(x) <=> IsFraction(f)
  <2>1. f[1] = x[11]
    BY <1>0, <1>3, <1>5
  <2>2. ASSUME \A i \in 2..Len(f) : IsDigit(f[i]), NEW i \in 12..Len(x)
        PROVE  IsDigit(x[i])
    <3>1. i - 10 \in 2..Len(f) /\ f[i - 10] = x[i]
      BY <1>0, <1>3, <1>4
    <3> QED  BY <2>2, <3>1
  <2>3. ASSUME \A i \in 12..Len(x) : IsDigit(x[i]), NEW i \in 2..Len(f)
        PROVE  IsDigit(f[i])
    <3>1. i + 10 \in 12..Len(x) /\ f[i] = x[i + 10]
      BY <1>0, <1>3, <1>4
    <3> QED  BY <2>3, <3>1
  <2>4. f # <<>> /\ (Len(f) > 1 <=> Len(x) > 11)
    BY <1>0, <1>4, <1>5
  <2> QED  BY <1>5, <2>1, <2>2, <2>3, <2>4, Zenon DEF FractionOk, IsFraction
<1>6. ASSUME Len(x) = 10 PROVE FractionOk(x) /\ IsFraction(f)
  BY <1>4, <1>6 DEF FractionOk, IsFraction
<1> QED  BY <1>0, <1>1, <1>3, <1>4, <1>5, <1>6

(* The years of a format, and their digits. *)
Short(y) == y \in 1950..2049
FullYear(k) == IF k >= 50 THEN 1900 + k ELSE 2000 + k
YearFits(tag, y) == IF tag = \h17 THEN Short(y) ELSE IsYear(y)
YearText(tag, y) == IF tag = \h17 THEN Two(y % 100) ELSE Four(y)

LEMMA ShortYear ==
  ASSUME NEW y, Short(y)
  PROVE  y % 100 \in 0..99 /\ y = FullYear(y % 100)
<1>1. CASE y < 2000
  BY <1>1 DEF Short, FullYear
<1>2. CASE ~(y < 2000)
  BY <1>2 DEF Short, FullYear
<1> QED  BY <1>1, <1>2

LEMMA FullIsShort ==
  ASSUME NEW k \in 0..99
  PROVE  Short(FullYear(k)) /\ FullYear(k) % 100 = k
BY DEF Short, FullYear

YearAt(tag, v, y) ==
  y \in YearsOf(tag, v) <=>
    YearFits(tag, y) /\ YearText(tag, y) = SubSeq(TextOf(v), 1, YearDigits(tag))

LEMMA YearsRead ==
  ASSUME NEW tag \in {\h17, \h18}, NEW v, TextOf(v) \in Seq(Bytes),
         Len(TextOf(v)) >= YearDigits(tag), NEW y
  PROVE  YearAt(tag, v, y)
<1> DEFINE p == YearDigits(tag)
           a == SubSeq(TextOf(v), 1, p)
<1>0. 1 # 0 /\ p \in Nat /\ p \in {2, 4}
  BY DEF YearDigits
<1>1. a \in Seq(Bytes) /\ Len(a) = p
  <2>1. PICK x \in Seq(Bytes) : x = TextOf(v) /\ Len(x) \in Nat
    BY LenProperties
  <2>2. 1 <= p + 1 /\ p <= Len(x)
    BY <1>0, <2>1
  <2> QED  BY <1>0, <2>1, <2>2, Part
<1>2. Field(TextOf(v), 1, p) = parse_digits(a)
  BY Zenon DEF Field
<1>3. CASE tag = \h17
  <2>1. p = 2 /\ tag # \h18
    BY <1>3 DEF YearDigits
  <2>2. \A k : k \in parse_digits(a) <=> k \in 0..99 /\ a = Two(k)
    BY <1>1, <2>1, TwoDigits
  <2>3. y \in YearsOf(tag, v) <=>
          \E k \in parse_digits(a) : y = FullYear(k)
    BY <1>2, <2>1 DEF YearsOf, FullYear
  <2>4. YearFits(tag, y) <=> Short(y)
    BY <1>3 DEF YearFits
  <2>5. YearText(tag, y) = Two(y % 100)
    BY <1>3 DEF YearText
  <2>6. ASSUME NEW k \in parse_digits(a), y = FullYear(k)
        PROVE  Short(y) /\ Two(y % 100) = a
    <3>1. k \in 0..99 /\ a = Two(k)
      BY <2>2
    <3>2. Short(y) /\ y % 100 = k
      BY <2>6, <3>1, FullIsShort
    <3> QED  BY <3>1, <3>2
  <2>7. ASSUME Short(y), Two(y % 100) = a
        PROVE  \E k \in parse_digits(a) : y = FullYear(k)
    <3>1. PICK k : k = y % 100
      OBVIOUS
    <3>2. k \in 0..99 /\ y = FullYear(k)
      BY <2>7, <3>1, ShortYear
    <3> QED  BY <2>2, <2>7, <3>1, <3>2
  <2> HIDE DEF a, p
  <2> QED  BY <2>3, <2>4, <2>5, <2>6, <2>7, Zenon DEF YearAt, a, p
<1>4. CASE tag = \h18
  <2>1. p = 4 /\ tag # \h17
    BY <1>4 DEF YearDigits
  <2>2. y \in parse_digits(a) <=> IsYear(y) /\ a = Four(y)
    BY <1>1, <2>1, FourDigits
  <2>3. y \in YearsOf(tag, v) <=> y \in parse_digits(a)
    BY <1>2, <1>4 DEF YearsOf
  <2> QED  BY <2>1, <2>2, <2>3 DEF YearAt, YearFits, YearText
<1> QED  BY <1>3, <1>4

(* How a time is written: its year, its other fields and its fraction. *)
Spelled(tag, v, y, m, d, h, i, s) ==
  \E f \in Seq(Bytes) :
    /\ IsFraction(f) /\ (tag = \h17 => f = <<>>)
    /\ v = YearText(tag, y) \o Clock(m, d, h, i, s) \o f \o Zulu

LEMMA YearTextBytes ==
  ASSUME NEW tag \in {\h17, \h18}, NEW y, YearFits(tag, y)
  PROVE  YearText(tag, y) \in Seq(Bytes) /\ Len(YearText(tag, y)) = YearDigits(tag)
<1>1. CASE tag = \h17
  <2>1. y % 100 \in Nat
    BY <1>1, ShortYear DEF YearFits
  <2> QED  BY <1>1, <2>1, TwoBytes DEF YearText, YearDigits
<1>2. CASE tag # \h17
  <2>3. IsYear(y)
    BY <1>2 DEF YearFits
  <2>1. y \in Nat
    BY <2>3 DEF IsYear
  <2> QED  BY <1>2, <2>1, FourBytes DEF YearText, YearDigits
<1> QED  BY <1>1, <1>2

LEMMA InClockBytes ==
  ASSUME NEW m, NEW d, NEW h, NEW i, NEW s, InClock(m, d, h, i, s)
  PROVE  Clock(m, d, h, i, s) \in Seq(Bytes) /\ Len(Clock(m, d, h, i, s)) = 10
<1>1. m \in Nat /\ d \in Nat /\ h \in Nat /\ i \in Nat /\ s \in Nat
  BY DEF InClock
<1> QED  BY <1>1, ClockBytes

(* What is left of a value that is not refused. *)
LEMMA TextParts ==
  ASSUME NEW v \in Seq(Bytes), v # <<>>, NEW tag,
         Len(TextOf(v)) >= YearDigits(tag)
  PROVE  /\ TextOf(v) \in Seq(Bytes) /\ Len(TextOf(v)) = Len(v) - 1
         /\ FieldsOf(tag, v) \in Seq(Bytes)
         /\ Len(FieldsOf(tag, v)) = Len(TextOf(v)) - YearDigits(tag)
<1>1. PICK n \in Nat : n = Len(v) - 1 /\ n + 1 = Len(v)
  BY LenProperties
<1>2. SubSeq(v, 1, n) \in Seq(Bytes) /\ Len(SubSeq(v, 1, n)) = n
  BY <1>1, Part
<1>3. TextOf(v) \in Seq(Bytes) /\ Len(TextOf(v)) = n
  BY <1>1, <1>2 DEF TextOf
<1>4. PICK x \in Seq(Bytes), p \in Nat : x = TextOf(v) /\ p = YearDigits(tag) /\ Len(x) = n
  BY <1>3 DEF YearDigits
<1>5. SubSeq(x, p + 1, n) \in Seq(Bytes) /\ Len(SubSeq(x, p + 1, n)) = n - p
  <2>1. p + 1 \in Int /\ n \in Int /\ 1 <= p + 1 /\ p + 1 <= n + 1 /\ n - (p + 1) + 1 = n - p
    BY <1>3, <1>4
  <2>2. n <= Len(x)
    BY <1>4
  <2>3. SubSeq(x, p + 1, n) \in Seq(Bytes) /\ Len(SubSeq(x, p + 1, n)) = n - (p + 1) + 1
    BY <2>1, <2>2, Part
  <2> QED  BY <2>1, <2>3
<1> QED  BY <1>1, <1>3, <1>4, <1>5 DEF FieldsOf

LEMMA ReadIsSpelled ==
  ASSUME NEW v \in Seq(Bytes), NEW tag, ~Refused(tag, v), NEW y \in YearsOf(tag, v),
         NEW m, NEW d, NEW h, NEW i, NEW s, FieldsAre(FieldsOf(tag, v), m, d, h, i, s)
  PROVE  /\ tag \in {\h17, \h18} /\ YearFits(tag, y) /\ InClock(m, d, h, i, s)
         /\ Spelled(tag, v, y, m, d, h, i, s)
<1>1. /\ v # <<>> /\ v[Len(v)] = 90 /\ tag \in {\h17, \h18}
      /\ tag = \h17 => Len(TextOf(v)) = 12
      /\ tag = \h18 => ~(Len(TextOf(v)) < 14)
      /\ FractionOk(FieldsOf(tag, v))
  BY DEF Refused
<1>2. PICK p \in Nat : p = YearDigits(tag) /\ (tag = \h17 => p = 2) /\ (tag = \h18 => p = 4)
  BY DEF YearDigits
<1>3. Len(TextOf(v)) \in Nat
  <2>1. Len(v) \in Nat /\ Len(v) - 1 \in Int /\ Len(v) - 1 <= Len(v)
    BY LenProperties
  <2>2. TextOf(v) \in Seq(Bytes)
    BY <2>1, Part DEF TextOf
  <2> QED  BY <2>2, LenProperties
<1>4. Len(TextOf(v)) >= p + 10 /\ Len(TextOf(v)) >= p /\ (tag = \h17 => Len(TextOf(v)) = p + 10)
  <2>1. PICK n \in Nat : n = Len(TextOf(v))
    BY <1>3
  <2>2. CASE tag = \h17
    <3>1. n = 12 /\ p = 2
      BY <1>1, <1>2, <2>1, <2>2
    <3> QED  BY <2>1, <3>1
  <2>3. CASE tag = \h18
    <3>1. ~(n < 14) /\ p = 4
      BY <1>1, <1>2, <2>1, <2>3
    <3> QED  BY <2>1, <2>3, <3>1
  <2> QED  BY <1>1, <2>2, <2>3
<1>5. PICK t \in Seq(Bytes), x \in Seq(Bytes) :
        /\ t = TextOf(v) /\ x = FieldsOf(tag, v) /\ Len(x) = Len(t) - p /\ Len(t) \in Nat
  BY <1>1, <1>2, <1>3, <1>4, TextParts
<1>6. Len(x) \in Nat /\ 10 <= Len(x) /\ (tag = \h17 => Len(x) = 10)
  BY <1>4, <1>5
<1>7. YearFits(tag, y) /\ YearText(tag, y) = SubSeq(t, 1, p)
  <2>1. YearAt(tag, v, y)
    BY <1>1, <1>2, <1>4, <1>5, YearsRead
  <2> QED  BY <1>2, <1>5, <2>1 DEF YearAt
<1>8. InClock(m, d, h, i, s) /\ SubSeq(x, 1, 10) = Clock(m, d, h, i, s)
  <2>1. FieldsAt(x, m, d, h, i, s)
    BY <1>6, FieldsAreParsed
  <2> QED  BY <1>5, <2>1 DEF FieldsAt
<1>9. PICK f \in Seq(Bytes) : /\ f = SubSeq(x, 11, Len(x)) /\ (f = <<>> <=> Len(x) = 10)
                              /\ FractionOk(x) <=> IsFraction(f)
  BY <1>6, FractionRead
<1>10. Parts(v, YearText(tag, y), Clock(m, d, h, i, s), f, p)
  <2>1. t = SubSeq(v, 1, Len(v) - 1)
    BY <1>5 DEF TextOf
  <2>2. x = SubSeq(t, p + 1, Len(t))
    BY <1>2, <1>5 DEF FieldsOf
  <2>3. p + 10 <= Len(t)
    BY <1>4, <1>5
  <2> QED  BY <1>1, <1>7, <1>8, <1>9, <2>1, <2>2, <2>3, Zenon DEF Parts
<1>11. v = YearText(tag, y) \o Clock(m, d, h, i, s) \o f \o Zulu
  <2>3. YearText(tag, y) \in Seq(Bytes) /\ Len(YearText(tag, y)) = YearDigits(tag)
    BY <1>1, <1>7, YearTextBytes
  <2>1. /\ YearText(tag, y) \in Seq(Bytes) /\ Len(YearText(tag, y)) = p
        /\ Clock(m, d, h, i, s) \in Seq(Bytes) /\ Len(Clock(m, d, h, i, s)) = 10
    BY <1>2, <1>8, <2>3, InClockBytes
  <2>2. PartsAt(v, YearText(tag, y), Clock(m, d, h, i, s), f, p)
    BY <2>1, TimeParts
  <2> QED  BY <1>10, <2>2 DEF PartsAt
<1>12. IsFraction(f) /\ (tag = \h17 => f = <<>>)
  BY <1>1, <1>5, <1>6, <1>9
<1> QED  BY <1>1, <1>7, <1>8, <1>11, <1>12 DEF Spelled

LEMMA SpelledIsRead ==
  ASSUME NEW v \in Seq(Bytes), NEW tag \in {\h17, \h18}, NEW y, YearFits(tag, y),
         NEW m, NEW d, NEW h, NEW i, NEW s, InClock(m, d, h, i, s),
         Spelled(tag, v, y, m, d, h, i, s)
  PROVE  ~Refused(tag, v) /\ y \in YearsOf(tag, v) /\ FieldsAre(FieldsOf(tag, v), m, d, h, i, s)
<1>1. PICK f \in Seq(Bytes) :
        /\ IsFraction(f) /\ (tag = \h17 => f = <<>>)
        /\ v = YearText(tag, y) \o Clock(m, d, h, i, s) \o f \o Zulu
  BY DEF Spelled
<1>2. PICK p \in Nat : p = YearDigits(tag) /\ (tag = \h17 => p = 2) /\ (tag = \h18 => p = 4)
  BY DEF YearDigits
<1>3. /\ YearText(tag, y) \in Seq(Bytes) /\ Len(YearText(tag, y)) = p
      /\ Clock(m, d, h, i, s) \in Seq(Bytes) /\ Len(Clock(m, d, h, i, s)) = 10
  BY <1>2, YearTextBytes, InClockBytes
<1>4. Parts(v, YearText(tag, y), Clock(m, d, h, i, s), f, p)
  <2>1. PartsAt(v, YearText(tag, y), Clock(m, d, h, i, s), f, p)
    BY <1>3, TimeParts
  <2> QED  BY <1>1, <2>1 DEF PartsAt
<1>5. PICK t, x : /\ t = SubSeq(v, 1, Len(v) - 1) /\ x = SubSeq(t, p + 1, Len(t))
                  /\ t = TextOf(v) /\ x = FieldsOf(tag, v)
  BY <1>2 DEF TextOf, FieldsOf
<1>6. /\ v # <<>> /\ v[Len(v)] = 90 /\ p + 10 <= Len(t)
      /\ YearText(tag, y) = SubSeq(t, 1, p) /\ Clock(m, d, h, i, s) = SubSeq(x, 1, 10)
      /\ f = SubSeq(x, 11, Len(x))
  BY <1>4, <1>5, Zenon DEF Parts
<1>7. t \in Seq(Bytes) /\ Len(t) \in Nat
  <2>1. Len(v) \in Nat /\ Len(v) - 1 \in Int /\ Len(v) - 1 <= Len(v)
    BY LenProperties
  <2>2. t \in Seq(Bytes)
    BY <1>5, <2>1, Part
  <2> QED  BY <2>2, LenProperties
<1>8. Len(t) >= p
  BY <1>6, <1>7
<1>9. x \in Seq(Bytes) /\ Len(x) = Len(t) - p
  <2>1. Len(TextOf(v)) >= YearDigits(tag)
    BY <1>2, <1>5, <1>8
  <2>2. /\ FieldsOf(tag, v) \in Seq(Bytes)
        /\ Len(FieldsOf(tag, v)) = Len(TextOf(v)) - YearDigits(tag)
    BY <1>6, <2>1, TextParts
  <2> QED  BY <1>2, <1>5, <2>2
<1>10. Len(x) \in Nat /\ 10 <= Len(x)
  BY <1>6, <1>7, <1>9
<1>11. y \in YearsOf(tag, v)
  <2>1. TextOf(v) \in Seq(Bytes) /\ Len(TextOf(v)) >= YearDigits(tag)
    BY <1>2, <1>5, <1>7, <1>8
  <2>2. YearAt(tag, v, y)
    BY <2>1, YearsRead
  <2> QED  BY <1>2, <1>5, <1>6, <2>2 DEF YearAt
<1>12. FieldsAre(x, m, d, h, i, s)
  <2>1. FieldsAt(x, m, d, h, i, s)
    BY <1>9, <1>10, FieldsAreParsed
  <2> QED  BY <1>6, <2>1 DEF FieldsAt
<1>13. FractionOk(x) /\ (f = <<>> <=> Len(x) = 10)
  BY <1>1, <1>6, <1>9, <1>10, FractionRead
<1>14. (tag = \h17 => Len(t) = 12) /\ (tag = \h18 => ~(Len(t) < 14))
  <2>1. PICK n \in Nat, k \in Nat : n = Len(t) /\ k = Len(x) /\ k = n - p
    BY <1>7, <1>9, <1>10
  <2>2. CASE tag = \h17
    <3>1. k = 10 /\ p = 2
      BY <1>1, <1>2, <1>13, <2>1, <2>2
    <3>3. k = n - p
      BY <2>1
    <3>2. n = 12
      BY <3>1, <3>3
    <3> QED  BY <2>1, <2>2, <3>2
  <2>3. CASE tag = \h18
    <3>1. k >= 10 /\ p = 4
      BY <1>2, <1>10, <2>1, <2>3
    <3>2. ~(n < 14)
      BY <2>1, <3>1
    <3> QED  BY <2>1, <2>3, <3>2
  <2> QED  BY <2>2, <2>3
<1>15. ~Refused(tag, v)
  BY <1>5, <1>6, <1>13, <1>14 DEF Refused
<1> QED  BY <1>5, <1>11, <1>12, <1>15

(* The instants that a text in this format states. *)
TimeWritten(tag, v, t) ==
  \E y, m, d, h, i, s :
    /\ tag \in {\h17, \h18} /\ YearFits(tag, y) /\ InClock(m, d, h, i, s)
    /\ Spelled(tag, v, y, m, d, h, i, s)
    /\ Accepted(y, m, d, h, i, s) /\ t = Instant(y, m, d, h, i, s)

(* parse_certificate_time reads a time exactly when it exists in the        *)
(* calendar and the bytes spell it in the format of the tag, as a UTCTime of *)
(* the years 1950 to 2049 or a GeneralizedTime with or without a fraction:  *)
(* no other text is a time, and a time is read as the instant it states.    *)
THEOREM TimesReadExactly ==
  ASSUME NEW v \in Seq(Bytes), NEW tag, NEW t
  PROVE  t \in parse_certificate_time(tag, v) <=> TimeWritten(tag, v, t)
<1>1. ASSUME t \in parse_certificate_time(tag, v)
      PROVE  TimeWritten(tag, v, t)
  <2>1. TimeParsed(tag, v, t)
    BY <1>1, ParsedTime, Zenon
  <2>2. ~Refused(tag, v)
    BY <2>1 DEF TimeParsed
  <2>3. PICK y, m, d, h, i, s :
          /\ y \in YearsOf(tag, v) /\ FieldsAre(FieldsOf(tag, v), m, d, h, i, s)
          /\ Accepted(y, m, d, h, i, s) /\ t = Instant(y, m, d, h, i, s)
    BY <2>1, Zenon DEF TimeParsed
  <2> QED  BY <2>2, <2>3, ReadIsSpelled, Zenon DEF TimeWritten
<1>2. ASSUME TimeWritten(tag, v, t)
      PROVE  t \in parse_certificate_time(tag, v)
  <2>1. PICK y, m, d, h, i, s :
          /\ tag \in {\h17, \h18} /\ YearFits(tag, y) /\ InClock(m, d, h, i, s)
          /\ Spelled(tag, v, y, m, d, h, i, s)
          /\ Accepted(y, m, d, h, i, s) /\ t = Instant(y, m, d, h, i, s)
    BY <1>2, Zenon DEF TimeWritten
  <2>2. ~Refused(tag, v) /\ y \in YearsOf(tag, v) /\ FieldsAre(FieldsOf(tag, v), m, d, h, i, s)
    BY <2>1, SpelledIsRead, Zenon
  <2>3. TimeParsed(tag, v, t)
    BY <2>1, <2>2, Zenon DEF TimeParsed
  <2> QED  BY <2>3, ParsedTime, Zenon
<1> QED  BY <1>1, <1>2, Zenon

-----------------------------------------------------------------------------
(* The length bytes of a value: what BigEndian reads.                       *)

LEMMA Quotients ==
  ASSUME NEW n \in Nat, NEW d \in Nat, d > 0
  PROVE  /\ n \div d \in Nat /\ n % d \in Nat /\ n % d < d /\ n = d * (n \div d) + (n % d)
OBVIOUS

LEMMA QuotientIs ==
  ASSUME NEW n \in Nat, NEW d \in Nat, d > 0, NEW p \in Nat, NEW t \in Nat, t < d, n = d * p + t
  PROVE  n \div d = p /\ n % d = t
OBVIOUS

LEMMA QuotientTwice ==
  ASSUME NEW n \in Nat, NEW c \in Nat, c > 0
  PROVE  (n \div c) \div 256 = n \div (256 * c)
OBVIOUS

LEMMA Capacities ==
  /\ Capacity[0] = 1
  /\ \A k \in 1..Wide : Capacity[k] = 256 * Capacity[k - 1]
  /\ \A k \in 0..Wide : Capacity[k] \in Nat /\ Capacity[k] > 0
<1> DEFINE Fits(f) == f = [k \in 0..Wide |-> IF k = 0 THEN 1 ELSE 256 * f[k - 1]]
           step == [x \in (1..Wide) \X Nat |-> 256 * x[2]]
<1>1. Wide \in Nat
  BY WideAssumption
<1>2. step \in [(1..Wide) \X Nat -> Nat]
  <2>1. \A x \in (1..Wide) \X Nat : x[2] \in Nat
    OBVIOUS
  <2>2. \A x \in (1..Wide) \X Nat : 256 * x[2] \in Nat
    BY <2>1
  <2> QED  BY <2>2
<1>3. \A i \in 1..Wide, m \in Nat : step[<<i, m>>] = 256 * m
  OBVIOUS
<1>4. PICK f : Iterate(f, Wide, 1, step)
  <2> HIDE DEF step
  <2> QED  BY <1>1, <1>2, Iterates
<1>5. \A k \in 0..Wide : f[k] \in Nat /\ f[k] = IF k = 0 THEN 1 ELSE step[<<k, f[k - 1]>>]
  <2> HIDE DEF step
  <2> QED  BY <1>4 DEF Iterate
<1>6. ASSUME NEW k \in 0..Wide, k # 0 PROVE f[k] = 256 * f[k - 1]
  <2>1. k \in 1..Wide /\ k - 1 \in 0..Wide
    BY <1>1, <1>6
  <2> HIDE DEF step
  <2>2. f[k - 1] \in Nat
    BY <1>5, <2>1
  <2>3. f[k] = step[<<k, f[k - 1]>>]
    BY <1>5, <1>6
  <2> QED  BY <1>3, <2>1, <2>2, <2>3
<1>7. Fits(f)
  <2>1. f = [i \in 0..Wide |-> IF i = 0 THEN 1 ELSE step[<<i, f[i - 1]>>]]
    <3> HIDE DEF step
    <3> QED  BY <1>4 DEF Iterate
  <2> HIDE DEF step
  <2>2. \A k \in 0..Wide : f[k] = IF k = 0 THEN 1 ELSE 256 * f[k - 1]
    BY <1>5, <1>6
  <2>3. DOMAIN f = 0..Wide /\ f = [k \in DOMAIN f |-> f[k]]
    BY <2>1
  <2> QED  BY <2>2, <2>3
<1>8. Fits(Capacity)
  <2> HIDE DEF Fits, step
  <2>1. Capacity = CHOOSE g : Fits(g)
    BY Zenon DEF Capacity, Fits
  <2> QED  BY <1>7, <2>1, Zenon
<1>9. Capacity[0] = 1
  BY <1>1, <1>8
<1>10. \A k \in 1..Wide : Capacity[k] = 256 * Capacity[k - 1]
  BY <1>1, <1>8
<1>11. \A k \in 0..Wide : Capacity[k] \in Nat /\ Capacity[k] > 0
  <2> HIDE DEF Fits
  <2> DEFINE T == {k \in Nat : k <= Wide => Capacity[k] \in Nat /\ Capacity[k] > 0}
  <2>1. 0 \in T
    BY <1>9
  <2>2. ASSUME NEW k \in Nat, k \in T PROVE k + 1 \in T
    <3> SUFFICES ASSUME k + 1 <= Wide PROVE Capacity[k + 1] \in Nat /\ Capacity[k + 1] > 0
      OBVIOUS
    <3>1. k + 1 \in 1..Wide /\ (k + 1) - 1 = k /\ k <= Wide
      BY <1>1
    <3>2. PICK c \in Nat : c = Capacity[k] /\ c > 0
      BY <2>2, <3>1
    <3>3. Capacity[k + 1] = 256 * c
      BY <1>10, <3>1, <3>2
    <3> QED  BY <3>2, <3>3
  <2>3. \A k \in Nat : k \in T
    <3> HIDE DEF T
    <3> QED  BY <2>1, <2>2, EveryNumber
  <2> QED  BY <1>1, <2>3
<1> QED  BY <1>9, <1>10, <1>11

LEMMA CapacityGrows ==
  ASSUME NEW k \in 0..Wide
  PROVE  Capacity[k] <= Capacity[Wide]
<1> DEFINE T == {j \in Nat : j <= Wide => Capacity[Wide - j] <= Capacity[Wide]}
<1>0. Wide \in Nat
  BY WideAssumption
<1>1. 0 \in T
  <2>1. Wide \in 0..Wide /\ Wide - 0 = Wide
    BY <1>0
  <2> QED  BY <2>1, Capacities
<1>2. ASSUME NEW j \in Nat, j \in T PROVE j + 1 \in T
  <2> SUFFICES ASSUME j + 1 <= Wide PROVE Capacity[Wide - (j + 1)] <= Capacity[Wide]
    OBVIOUS
  <2>1. /\ Wide - j \in 1..Wide /\ (Wide - j) - 1 = Wide - (j + 1) /\ Wide - (j + 1) \in 0..Wide
        /\ Wide \in 0..Wide /\ j <= Wide
    BY <1>0
  <2>2. PICK c \in Nat, w \in Nat, e \in Nat : c = Capacity[Wide - (j + 1)] /\ w = Capacity[Wide] /\ e = Capacity[Wide - j]
    BY <2>1, Capacities
  <2>3. e = 256 * c /\ e <= w
    BY <1>2, <2>1, <2>2, Capacities
  <2>4. c <= w
    BY <2>3
  <2> QED  BY <2>2, <2>4
<1>3. \A j \in Nat : j \in T
  <2> HIDE DEF T
  <2> QED  BY <1>1, <1>2, EveryNumber
<1>4. Wide - k \in Nat /\ Wide - k <= Wide /\ Wide - (Wide - k) = k
  BY <1>0
<1> QED  BY <1>3, <1>4

(* What BigEndian adds up, without what the shifts drop. *)
Sums(b, f) ==
  /\ f \in [0..Len(b) -> Nat] /\ f[0] = 0
  /\ \A i \in 1..Len(b) : f[i] = f[i - 1] * 256 + b[i]

LEMMA SumsOnce ==
  ASSUME NEW b \in Seq(Bytes), NEW f, NEW g, Sums(b, f), Sums(b, g)
  PROVE  f[Len(b)] = g[Len(b)]
<1> DEFINE T == {i \in Nat : i <= Len(b) => f[i] = g[i]}
<1>0. Len(b) \in Nat
  BY LenProperties
<1>1. 0 \in T
  BY DEF Sums
<1>2. ASSUME NEW i \in Nat, i \in T PROVE i + 1 \in T
  <2> SUFFICES ASSUME i + 1 <= Len(b) PROVE f[i + 1] = g[i + 1]
    OBVIOUS
  <2>1. i + 1 \in 1..Len(b) /\ (i + 1) - 1 = i /\ i <= Len(b)
    BY <1>0
  <2>2. f[i + 1] = f[i] * 256 + b[i + 1] /\ g[i + 1] = g[i] * 256 + b[i + 1]
    BY <2>1 DEF Sums
  <2> QED  BY <1>2, <2>1, <2>2
<1>3. \A i \in Nat : i \in T
  <2> HIDE DEF T
  <2> QED  BY <1>1, <1>2, EveryNumber
<1> QED  BY <1>0, <1>3

LEMMA BigEndianSums ==
  ASSUME NEW b \in Seq(Bytes), Len(b) <= Wide
  PROVE  \E f : Sums(b, f) /\ BigEndian(b) = f[Len(b)] /\ f[Len(b)] < Capacity[Len(b)]
<1> DEFINE n == Len(b)
           Fits(f) == f = [i \in 0..n |->
                             IF i = 0 THEN 0 ELSE ((f[i - 1] * 256) % Capacity[Wide]) + b[i]]
           read == CHOOSE f : Fits(f)
<1>1. n \in Nat /\ Wide \in Nat /\ n <= Wide /\ \A i \in 1..n : b[i] \in 0..255
  BY LenProperties, ElementOfSeq, WideAssumption DEF Bytes
<1>0. PICK w \in Nat : w = Capacity[Wide] /\ w > 0
  BY <1>1, Capacities
<1> DEFINE step == [x \in (1..n) \X Nat |-> ((x[2] * 256) % w) + b[x[1]]]
<1>13. \A i \in 1..n, m \in Nat : ((m * 256) % w) + b[i] \in Nat
  <2> SUFFICES ASSUME NEW i \in 1..n, NEW m \in Nat PROVE ((m * 256) % w) + b[i] \in Nat
    OBVIOUS
  <2>1. PICK r \in Nat : r = (m * 256) % w
    <3>1. m * 256 \in Nat
      OBVIOUS
    <3> QED  BY <1>0, <3>1, Quotients
  <2>2. PICK c \in 0..255 : c = b[i]
    BY <1>1
  <2>4. r \in Nat /\ c \in Nat
    OBVIOUS
  <2>3. r + c \in Nat
    BY <2>4
  <2> QED  BY <2>1, <2>2, <2>3, Zenon
<1>2. step \in [(1..n) \X Nat -> Nat]
  <2>1. \A x \in (1..n) \X Nat : x[1] \in 1..n /\ x[2] \in Nat
    OBVIOUS
  <2>2. \A x \in (1..n) \X Nat : ((x[2] * 256) % w) + b[x[1]] \in Nat
    BY <1>13, <2>1, ZenonT(60)
  <2> QED  BY <2>2
<1>3. \A i \in 1..n, m \in Nat : step[<<i, m>>] = ((m * 256) % w) + b[i]
  OBVIOUS
<1>4. PICK f : Iterate(f, n, 0, step)
  <2>1. n \in Nat /\ 0 \in Nat
    BY <1>1
  <2> HIDE DEF step, n
  <2> QED  BY <1>2, <2>1, Iterates
<1>5. \A i \in 0..n : f[i] \in Nat /\ f[i] = IF i = 0 THEN 0 ELSE step[<<i, f[i - 1]>>]
  <2> HIDE DEF step, n
  <2> QED  BY <1>4 DEF Iterate
<1>6. ASSUME NEW i \in 0..n, i # 0 PROVE f[i] = ((f[i - 1] * 256) % w) + b[i]
  <2>1. i \in 1..n /\ i - 1 \in 0..n
    BY <1>1, <1>6
  <2> HIDE DEF step, n
  <2>2. f[i - 1] \in Nat
    BY <1>5, <2>1
  <2>3. f[i] = step[<<i, f[i - 1]>>]
    BY <1>5, <1>6
  <2> QED  BY <1>3, <2>1, <2>2, <2>3, Zenon
<1>7. Fits(f)
  <2>1. f = [i \in 0..n |-> IF i = 0 THEN 0 ELSE step[<<i, f[i - 1]>>]]
    <3> HIDE DEF step, n
    <3> QED  BY <1>4 DEF Iterate
  <2> HIDE DEF step, n
  <2>2. \A i \in 0..n : f[i] = IF i = 0 THEN 0 ELSE ((f[i - 1] * 256) % w) + b[i]
    <3> SUFFICES ASSUME NEW i \in 0..n
                 PROVE  f[i] = IF i = 0 THEN 0 ELSE ((f[i - 1] * 256) % w) + b[i]
      BY Zenon
    <3>1. CASE i = 0
      <4>1. f[i] = 0
        BY <1>5, <3>1
      <4> QED  BY <3>1, <4>1
    <3>2. CASE i # 0
      BY <1>6, <3>2, Zenon
    <3> QED  BY <3>1, <3>2
  <2>3. DOMAIN f = 0..n /\ f = [i \in DOMAIN f |-> f[i]]
    BY <2>1
  <2> QED  BY <1>0, <2>2, <2>3, ZenonT(60)
<1>8. Fits(read)
  <2> HIDE DEF Fits
  <2> QED  BY <1>7, Zenon
<1>9. BigEndian(b) = read[n]
  BY Zenon DEF BigEndian
<1> HIDE DEF read
<1>10. /\ DOMAIN read = 0..n /\ read[0] = 0
       /\ \A i \in 1..n : read[i] = ((read[i - 1] * 256) % w) + b[i]
  <2>1. DOMAIN read = 0..n
    BY <1>8
  <2>2. read[0] = 0
    BY <1>1, <1>8
  <2>3. ASSUME NEW i \in 1..n PROVE read[i] = ((read[i - 1] * 256) % w) + b[i]
    <3>1. i \in 0..n /\ i # 0
      BY <1>1
    <3>2. read[i] = IF i = 0 THEN 0 ELSE ((read[i - 1] * 256) % Capacity[Wide]) + b[i]
      BY <1>8, <3>1, Zenon
    <3> QED  BY <1>0, <3>1, <3>2, Zenon
  <2> QED  BY <2>1, <2>2, <2>3
<1>11. \A i \in 0..n : /\ read[i] \in Nat /\ read[i] < Capacity[i]
                       /\ i # 0 => read[i] = read[i - 1] * 256 + b[i]
  <2> HIDE DEF Fits
  <2> DEFINE Fine(i) == read[i] \in Nat /\ read[i] < Capacity[i]
                          /\ (i # 0 => read[i] = read[i - 1] * 256 + b[i])
             T == {i \in Nat : i <= n => Fine(i)}
  <2>1. 0 \in T
    BY <1>1, <1>10, Capacities
  <2>2. ASSUME NEW i \in Nat, i \in T PROVE i + 1 \in T
    <3> SUFFICES ASSUME i + 1 <= n PROVE Fine(i + 1)
      OBVIOUS
    <3>1. /\ i + 1 \in 1..n /\ (i + 1) - 1 = i /\ i <= n /\ i \in 0..Wide
          /\ i + 1 \in 1..Wide /\ i + 1 \in 0..Wide
      BY <1>1
    <3>2. PICK x \in Nat, c \in Nat, e \in Nat, d \in Bytes :
            /\ x = read[i] /\ c = Capacity[i] /\ e = Capacity[i + 1] /\ d = b[i + 1] /\ x < c
      <4>1. read[i] \in Nat /\ read[i] < Capacity[i]
        BY <2>2, <3>1
      <4>2. b[i + 1] \in Bytes
        BY <3>1, ElementOfSeq
      <4>3. Capacity[i] \in Nat /\ Capacity[i + 1] \in Nat
        BY <3>1, Capacities
      <4> QED  BY <4>1, <4>2, <4>3
    <3>3. e = 256 * c
      BY <3>1, <3>2, Capacities
    <3>4. e <= w
      BY <1>0, <3>1, <3>2, CapacityGrows
    <3>5. d \in 0..255
      BY DEF Bytes
    <3>6. x * 256 \in Nat /\ x * 256 < w
      <4>1. w \in Nat /\ 256 * c <= w
        BY <1>0, <3>3, <3>4
      <4>2. x * 256 < 256 * c /\ x * 256 \in Nat /\ 256 * c \in Nat
        BY <3>2, SMTT(60)
      <4> QED  BY <4>1, <4>2
    <3>7. (x * 256) % w = x * 256
      <4>1. PICK y \in Nat : y = x * 256
        BY <3>6
      <4>2. y = w * 0 + y
        OBVIOUS
      <4>3. y % w = y
        <5>1. y < w
          BY <3>6, <4>1
        <5> QED  BY <1>0, <4>2, <5>1, QuotientIs
      <4> QED  BY <4>1, <4>3
    <3>8. read[i + 1] = ((read[(i + 1) - 1] * 256) % w) + b[i + 1]
      BY <1>10, <3>1, Zenon
    <3>9. read[i + 1] = x * 256 + d
      BY <3>1, <3>2, <3>7, <3>8
    <3>10. x * 256 + d \in Nat /\ x * 256 + d < e
      <4>1. x \in Nat /\ c \in Nat /\ x < c /\ e = 256 * c /\ d \in 0..255
      BY <3>2, <3>3, <3>5
    <4> QED  BY <4>1
    <3>11. read[i + 1] = read[(i + 1) - 1] * 256 + b[i + 1]
      BY <3>1, <3>2, <3>9
    <3> QED  BY <3>2, <3>9, <3>10, <3>11
  <2>3. \A i \in Nat : i \in T
    <3> HIDE DEF T
    <3> QED  BY <2>1, <2>2, EveryNumber
  <2> QED  BY <1>1, <2>3
<1>12. Sums(b, read)
  <2>1. read \in [0..n -> Nat]
    BY <1>8, <1>10, <1>11
  <2> QED  BY <1>1, <1>10, <1>11, <2>1 DEF Sums
<1>14. read[n] < Capacity[n]
  BY <1>1, <1>11
<1> QED  BY <1>9, <1>12, <1>14

(* The k bytes of n, as LongLength writes them. *)
LongBytes(n, k) == [i \in 1..k |-> Byte(n, k - i)]

(* n without its last j bytes. *)
Above(n, j) == n \div Capacity[j]

LEMMA AboveFacts ==
  ASSUME NEW n \in Nat, NEW j \in 0..Wide
  PROVE  /\ Above(n, j) \in Nat /\ Byte(n, j) = Above(n, j) % 256 /\ Byte(n, j) \in Bytes
         /\ Above(n, 0) = n /\ (n < Capacity[j] => Above(n, j) = 0)
<1>1. PICK c \in Nat : c = Capacity[j] /\ c > 0
  BY Capacities
<1>2. PICK q \in Nat : q = Above(n, j)
  <2>1. n \div c \in Nat
    BY <1>1, Quotients
  <2> QED  BY <1>1, <2>1 DEF Above
<1>3. Byte(n, j) = q % 256
  BY <1>2 DEF Byte, Above
<1>4. q % 256 \in Bytes
  BY DEF Bytes
<1>5. Above(n, 0) = n
  <2>1. Above(n, 0) = n \div 1
    BY Capacities DEF Above
  <2>2. n \div 1 = n
    OBVIOUS
  <2> QED  BY <2>1, <2>2
<1>6. ASSUME n < Capacity[j] PROVE Above(n, j) = 0
  <2>1. n < c /\ n = c * 0 + n
    BY <1>1, <1>6
  <2>2. n \div c = 0
    BY <1>1, <2>1, QuotientIs
  <2> QED  BY <1>1, <2>2 DEF Above
<1> QED  BY <1>2, <1>3, <1>4, <1>5, <1>6

LEMMA AboveStep ==
  ASSUME NEW n \in Nat, NEW j \in 0..Wide, NEW k \in 0..Wide, k = j + 1
  PROVE  Above(n, j) = Above(n, k) * 256 + Byte(n, j) /\ Above(n, k) = Above(n, j) \div 256
<1>1. PICK c \in Nat, e \in Nat : c = Capacity[j] /\ e = Capacity[k] /\ c > 0 /\ e = 256 * c
  <2>1. k \in 1..Wide /\ k - 1 = j
    BY WideAssumption
  <2>2. Capacity[k] = 256 * Capacity[j]
    BY <2>1, Capacities
  <2> QED  BY <2>2, Capacities
<1>2. (n \div c) \div 256 = n \div e
  BY <1>1, QuotientTwice
<1>3. PICK q \in Nat, p \in Nat : q = Above(n, j) /\ p = Above(n, k)
  BY AboveFacts
<1>4. p = q \div 256
  BY <1>1, <1>2, <1>3 DEF Above
<1>5. Byte(n, j) = q % 256
  BY <1>3, AboveFacts
<1>6. q = (q \div 256) * 256 + (q % 256)
  OBVIOUS
<1> QED  BY <1>3, <1>4, <1>5, <1>6

LEMMA BytesSum ==
  ASSUME NEW n \in Nat, NEW k \in 0..Wide, n < Capacity[k]
  PROVE  /\ LongBytes(n, k) \in Seq(Bytes) /\ Len(LongBytes(n, k)) = k
         /\ \E f : Sums(LongBytes(n, k), f) /\ f[k] = n
<1> DEFINE b == LongBytes(n, k)
           f == [i \in 0..k |-> Above(n, k - i)]
<1>0. k \in Nat /\ Wide \in Nat /\ k <= Wide
  BY WideAssumption
<1>1. \A i \in 0..k : k - i \in 0..Wide
  BY <1>0
<1>2. \A i \in 1..k : Byte(n, k - i) \in Bytes
  <2> SUFFICES ASSUME NEW i \in 1..k PROVE Byte(n, k - i) \in Bytes
    OBVIOUS
  <2>1. k - i \in 0..Wide
    BY <1>0
  <2> QED  BY <2>1, AboveFacts
<1>3. b \in Seq(Bytes) /\ Len(b) = k
  BY <1>0, <1>2 DEF LongBytes
<1>4. f \in [0..k -> Nat]
  <2>1. \A i \in 0..k : Above(n, k - i) \in Nat
    BY <1>1, AboveFacts
  <2> QED  BY <2>1
<1>5. f[0] = 0
  <2>1. f[0] = Above(n, k)
    BY <1>0
  <2> QED  BY <2>1, AboveFacts
<1>6. f[k] = n
  <2>1. f[k] = Above(n, 0)
    BY <1>0
  <2>2. 0 \in 0..Wide
    BY <1>0
  <2> QED  BY <2>1, <2>2, AboveFacts
<1>7. ASSUME NEW i \in 1..k PROVE f[i] = f[i - 1] * 256 + b[i]
  <2>1. PICK j \in 0..Wide, m \in 0..Wide : j = k - i /\ m = k - (i - 1) /\ m = j + 1
    BY <1>0
  <2>2. f[i] = Above(n, j) /\ f[i - 1] = Above(n, m)
    BY <1>0, <2>1
  <2>3. b[i] = Byte(n, j)
    BY <2>1 DEF LongBytes
  <2>4. Above(n, j) = Above(n, m) * 256 + Byte(n, j)
    BY <2>1, AboveStep
  <2> QED  BY <2>2, <2>3, <2>4
<1>8. Sums(b, f)
  <2> HIDE DEF b, f
  <2> QED  BY <1>3, <1>4, <1>5, <1>7 DEF Sums
<1> QED  BY <1>3, <1>6, <1>8

LEMMA SumsHasBytes ==
  ASSUME NEW b \in Seq(Bytes), Len(b) <= Wide, NEW f, Sums(b, f)
  PROVE  b = LongBytes(f[Len(b)], Len(b))
<1>0. PICK k \in 0..Wide : k = Len(b)
  BY WideAssumption, LenProperties
<1>1. k \in Nat /\ Wide \in Nat /\ k <= Wide
  BY WideAssumption
<1>2. PICK n \in Nat : n = f[k]
  BY <1>0, <1>1 DEF Sums
<1>3. ASSUME NEW i \in 1..k
      PROVE f[i] \in Nat /\ f[i - 1] \in Nat /\ f[i - 1] = f[i] \div 256 /\ b[i] = f[i] % 256
  <2>1. PICK x \in Nat, y \in Nat, d \in Bytes : x = f[i] /\ y = f[i - 1] /\ d = b[i]
    <3>1. i \in 0..k /\ i - 1 \in 0..k
      BY <1>1
    <3> QED  BY <1>0, <3>1, ElementOfSeq, SMTT(60) DEF Sums
  <2>2. x = y * 256 + d
    BY <1>0, <2>1 DEF Sums
  <2>3. d \in 0..255
    BY DEF Bytes
  <2>4. y = x \div 256 /\ d = x % 256
    BY <2>2, <2>3
  <2> QED  BY <2>1, <2>4
<1> DEFINE T == {j \in Nat : j <= k => f[k - j] = Above(n, j)}
<1>4. 0 \in T
  <2>1. 0 \in 0..Wide /\ k - 0 = k
    BY <1>1
  <2> QED  BY <1>2, <2>1, AboveFacts
<1>5. ASSUME NEW j \in Nat, j \in T PROVE j + 1 \in T
  <2> SUFFICES ASSUME j + 1 <= k PROVE f[k - (j + 1)] = Above(n, j + 1)
    OBVIOUS
  <2>1. /\ k - j \in 1..k /\ (k - j) - 1 = k - (j + 1) /\ j <= k
        /\ j \in 0..Wide /\ j + 1 \in 0..Wide
    BY <1>1
  <2>2. f[k - (j + 1)] = f[k - j] \div 256
    BY <1>3, <2>1
  <2>3. f[k - j] = Above(n, j)
    BY <1>5, <2>1
  <2>4. Above(n, j + 1) = Above(n, j) \div 256
    BY <2>1, AboveStep
  <2> QED  BY <2>2, <2>3, <2>4
<1>6. \A j \in Nat : j \in T
  <2> HIDE DEF T
  <2> QED  BY <1>4, <1>5, EveryNumber
<1>7. ASSUME NEW i \in 1..k PROVE b[i] = LongBytes(n, k)[i]
  <2>1. k - i \in Nat /\ k - i <= k /\ k - (k - i) = i /\ k - i \in 0..Wide
    BY <1>1
  <2>2. f[i] = Above(n, k - i)
    BY <1>6, <2>1
  <2>3. b[i] = Above(n, k - i) % 256
    BY <1>3, <2>2
  <2>4. Byte(n, k - i) = Above(n, k - i) % 256
    BY <2>1, AboveFacts
  <2>5. LongBytes(n, k)[i] = Byte(n, k - i)
    BY DEF LongBytes
  <2> QED  BY <2>3, <2>4, <2>5
<1>8. b = [i \in 1..k |-> b[i]]
  BY <1>0, LenProperties
<1>9. LongBytes(n, k) = [i \in 1..k |-> LongBytes(n, k)[i]]
  BY DEF LongBytes
<1>10. b = LongBytes(n, k)
  BY <1>7, <1>8, <1>9, Zenon
<1> QED  BY <1>0, <1>2, <1>10

(* A length is read as the number whose bytes it is, and nothing else is. *)
LEMMA LengthRead ==
  ASSUME NEW b \in Seq(Bytes), NEW k \in 0..Wide, Len(b) = k
  PROVE  /\ BigEndian(b) \in Nat
         /\ \A n \in Nat : BigEndian(b) = n <=> n < Capacity[k] /\ b = LongBytes(n, k)
<1>1. Len(b) <= Wide /\ k \in Nat
  BY WideAssumption
<1>2. PICK f : Sums(b, f) /\ BigEndian(b) = f[Len(b)] /\ f[Len(b)] < Capacity[Len(b)]
  BY <1>1, BigEndianSums
<1>3. f[k] \in Nat
  BY <1>1, <1>2 DEF Sums
<1>4. b = LongBytes(f[k], k)
  BY <1>1, <1>2, SumsHasBytes
<1>5. ASSUME NEW n \in Nat, n < Capacity[k], b = LongBytes(n, k)
      PROVE  f[k] = n
  <2>1. PICK g : Sums(b, g) /\ g[k] = n
    BY <1>5, BytesSum
  <2> QED  BY <1>2, <2>1, SumsOnce
<1> QED  BY <1>2, <1>3, <1>4, <1>5

-----------------------------------------------------------------------------
(* Values with a tag and a length: what read_der_tlv reads.                 *)

TlvRecord(tag, value, rest) == [tag |-> tag, value |-> value, rest |-> rest]

LEMMA Pair ==
  ASSUME NEW a \in Bytes, NEW b \in Bytes
  PROVE  <<a>> \o <<b>> = <<a, b>>
<1>1. <<a>> \in Seq(Bytes) /\ <<b>> \in Seq(Bytes) /\ Len(<<a>>) = 1 /\ Len(<<b>>) = 1
  OBVIOUS
<1>2. PICK u \in Seq(Bytes) : u = <<a>> \o <<b>> /\ IsConcat(u, <<a>>, <<b>>)
  BY <1>1, ConcatAt
<1>3. Len(u) = 2 /\ u[1] = a /\ u[2] = b
  BY <1>1, <1>2 DEF IsConcat
<1>4. u = <<u[1], u[2]>>
  <2>1. Len(u) = 2
    BY <1>3
  <2> QED  BY <2>1
<1> QED  BY <1>2, <1>3, <1>4

(* A tag, two bytes on, the bytes e of the length, the value and the rest. *)
Laid(s, tag, f, e, value, rest) ==
  LET head == 2 + Len(e)
      end == head + Len(value)
  IN /\ end <= Len(s) /\ s[1] = tag /\ s[2] = f
     /\ e = SubSeq(s, 3, head) /\ value = SubSeq(s, head + 1, end)
     /\ rest = SubSeq(s, end + 1, Len(s))
LaidAt(s, tag, f, e, value, rest) ==
  s = <<tag>> \o <<f>> \o e \o value \o rest <=> Laid(s, tag, f, e, value, rest)

LEMMA Layout ==
  ASSUME NEW s \in Seq(Bytes), NEW tag \in Bytes, NEW f \in Bytes, NEW e \in Seq(Bytes),
         NEW value \in Seq(Bytes), NEW rest \in Seq(Bytes)
  PROVE  LaidAt(s, tag, f, e, value, rest)
<1>1. PICK a \in Seq(Bytes) : a = <<tag>> \o <<f>> /\ a = <<tag, f>> /\ Len(a) = 2
  <2>1. <<tag>> \o <<f>> = <<tag, f>>
    BY Pair
  <2>2. <<tag, f>> \in Seq(Bytes) /\ Len(<<tag, f>>) = 2
    OBVIOUS
  <2> QED  BY <2>1, <2>2, Zenon
<1>2. PICK k \in Nat, n \in Nat, m \in Nat, p \in Nat, q \in Nat :
        k = Len(e) /\ n = Len(value) /\ m = Len(s) /\ p = 2 + k /\ q = p + n
  BY LenProperties
<1>3. PICK b \in Seq(Bytes) : b = a \o e /\ Len(b) = p
  <2>1. a \o e \in Seq(Bytes) /\ Len(a \o e) = Len(a) + Len(e)
    BY Concat
  <2> QED  BY <1>1, <1>2, <2>1
<1>4. PICK c \in Seq(Bytes) : c = b \o value /\ Len(c) = q
  <2>1. b \o value \in Seq(Bytes) /\ Len(b \o value) = Len(b) + Len(value)
    BY Concat
  <2> QED  BY <1>2, <1>3, <2>1
<1>5. s = c \o rest <=> q <= m /\ c = SubSeq(s, 1, q) /\ rest = SubSeq(s, q + 1, m)
  <2>1. TwoPartsAt(s, c, rest, q, q + 1)
    BY <1>4, TwoParts
  <2> QED  BY <1>2, <2>1 DEF TwoPartsAt
<1>6. ASSUME q <= m
      PROVE  c = SubSeq(s, 1, q) <=>
               s[1] = tag /\ s[2] = f /\ e = SubSeq(s, 3, p) /\ value = SubSeq(s, p + 1, q)
  <2>1. Cuts(s, b, p, p + 1, q)
    BY <1>2, <1>3, <1>6 DEF Cuts
  <2>2. Cuts(s, a, 2, 3, p)
    <3>1. p <= m /\ 2 <= p
      BY <1>2, <1>6
    <3> QED  BY <1>1, <1>2, <3>1 DEF Cuts
  <2>3. JoinedAt(s, b, value, p, p + 1, q) /\ JoinedAt(s, a, e, 2, 3, p)
    BY <2>1, <2>2, Joined
  <2>4. SubSeq(s, 1, q) = c <=> b = SubSeq(s, 1, p) /\ value = SubSeq(s, p + 1, q)
    BY <1>4, <2>3 DEF JoinedAt
  <2>5. SubSeq(s, 1, p) = b <=> a = SubSeq(s, 1, 2) /\ e = SubSeq(s, 3, p)
    BY <1>3, <2>3 DEF JoinedAt
  <2>6. a = SubSeq(s, 1, 2) <=> s[1] = tag /\ s[2] = f
    <3>1. 2 <= m
      BY <1>2, <1>6
    <3>2. PICK u : u = SubSeq(s, 1, 2)
      OBVIOUS
    <3>3. \A i \in 1..2 : s[i] \in Bytes
      BY <1>2, <3>1, ElementOfSeq
    <3>4. u \in Seq(Bytes) /\ Len(u) = 2 /\ u[1] = s[1] /\ u[2] = s[2]
      BY <3>2, <3>3, SubSeqProperties
    <3>5. a = u <=> u[1] = tag /\ u[2] = f
      BY <1>1, <3>4
    <3> QED  BY <3>2, <3>4, <3>5
  <2> QED  BY <2>4, <2>5, <2>6
<1>7. Laid(s, tag, f, e, value, rest) <=>
        /\ q <= m /\ s[1] = tag /\ s[2] = f /\ e = SubSeq(s, 3, p)
        /\ value = SubSeq(s, p + 1, q) /\ rest = SubSeq(s, q + 1, m)
  BY <1>2 DEF Laid
<1>8. <<tag>> \o <<f>> \o e \o value \o rest = c \o rest
  BY <1>1, <1>3, <1>4
<1> QED  BY <1>5, <1>6, <1>7, <1>8, Zenon DEF LaidAt

(* The two ways to write a length: its first byte and the others. *)
Sized(n, f, e) ==
  \/ n < 128 /\ f = n /\ e = <<>>
  \/ \E k \in 1..Wide : n < Capacity[k] /\ f = 128 + k /\ e = LongBytes(n, k)

LEMMA SizedBytes ==
  ASSUME NEW n \in Nat, NEW f, NEW e, Sized(n, f, e)
  PROVE  f \in Bytes /\ e \in Seq(Bytes)
<1>1. CASE n < 128 /\ f = n /\ e = <<>>
  BY <1>1 DEF Bytes
<1>2. ASSUME NEW k \in 1..Wide, n < Capacity[k], f = 128 + k, e = LongBytes(n, k)
      PROVE  f \in Bytes /\ e \in Seq(Bytes)
  <2>1. k \in 0..Wide /\ k \in 1..127
    BY WideAssumption
  <2>2. f \in Bytes
    BY <1>2, <2>1 DEF Bytes
  <2> QED  BY <1>2, <2>1, <2>2, BytesSum
<1> QED  BY <1>1, <1>2 DEF Sized

SpeltAs(s, tag, value, n) ==
  \E f, e : Sized(n, f, e) /\ s = <<tag>> \o (<<f>> \o e) \o value

LEMMA Written ==
  ASSUME NEW tag, NEW value, NEW s, Len(value) \in Nat
  PROVE  s \in Spellings(tag, value) <=> SpeltAs(s, tag, value, Len(value))
<1> DEFINE n == Len(value)
<1>1. ASSUME NEW f, NEW e, Sized(n, f, e), s = <<tag>> \o (<<f>> \o e) \o value
      PROVE  s \in Spellings(tag, value)
  <2>1. CASE n < 128 /\ f = n /\ e = <<>>
    <3>1. <<f>> \o e = <<n>>
      BY <2>1
    <3> QED  BY <1>1, <2>1, <3>1 DEF Spellings
  <2>2. CASE \E k \in 1..Wide : n < Capacity[k] /\ f = 128 + k /\ e = LongBytes(n, k)
    <3>1. PICK k \in 1..Wide : n < Capacity[k] /\ f = 128 + k /\ e = LongBytes(n, k)
      BY <2>2
    <3>2. <<f>> \o e = LongLength(n, k)
      BY <3>1 DEF LongLength, LongBytes
    <3> QED  BY <1>1, <3>1, <3>2 DEF Spellings
  <2> QED  BY <1>1, <2>1, <2>2 DEF Sized
<1>2. ASSUME s \in Spellings(tag, value)
      PROVE  \E f, e : Sized(n, f, e) /\ s = <<tag>> \o (<<f>> \o e) \o value
  <2>1. PICK l : /\ s = <<tag>> \o l \o value
                 /\ (n < 128 /\ l = <<n>>) \/ \E k \in 1..Wide : n < Capacity[k] /\ l = LongLength(n, k)
    BY <1>2 DEF Spellings
  <2>2. CASE n < 128 /\ l = <<n>>
    <3>1. l = <<n>> \o <<>> /\ Sized(n, n, <<>>)
      BY <2>2 DEF Sized
    <3> QED  BY <2>1, <3>1
  <2>3. CASE \E k \in 1..Wide : n < Capacity[k] /\ l = LongLength(n, k)
    <3>1. PICK k \in 1..Wide : n < Capacity[k] /\ l = LongLength(n, k)
      BY <2>3
    <3>2. l = <<128 + k>> \o LongBytes(n, k) /\ Sized(n, 128 + k, LongBytes(n, k))
      BY <3>1 DEF LongLength, LongBytes, Sized
    <3> QED  BY <2>1, <3>2
  <2> QED  BY <2>1, <2>2, <2>3
<1> HIDE DEF n
<1> QED  BY <1>1, <1>2, Zenon DEF SpeltAs, n

(* What the bytes s are written as. *)
Found(s, tag, value, rest) ==
  /\ tag \in Bytes /\ value \in Seq(Bytes) /\ rest \in Seq(Bytes)
  /\ \E f, e : Sized(Len(value), f, e) /\ Laid(s, tag, f, e, value, rest)

LEMMA TlvFound ==
  ASSUME NEW s \in Seq(Bytes), NEW x \in read_der_tlv(s)
  PROVE  \E tag, value, rest : x = TlvRecord(tag, value, rest) /\ Found(s, tag, value, rest)
<1> DEFINE first == s[2]
           more == first - 128
           head == IF first < 128 THEN 2 ELSE 2 + more
           length == IF first < 128 THEN first ELSE BigEndian(SubSeq(s, 3, 2 + more))
<1>1. /\ ~(Len(s) < 2)
      /\ ~(first >= 128 /\ (more = 0 \/ more > Wide \/ more > Len(s) - 2))
      /\ ~(length > Len(s) - head)
      /\ x = [tag |-> s[1], value |-> SubSeq(s, head + 1, head + length),
              rest |-> SubSeq(s, head + length + 1, Len(s))]
  BY Zenon DEF read_der_tlv
<1>2. PICK m \in Nat : m = Len(s) /\ m >= 2
  BY <1>1, LenProperties
<1>3. PICK tag \in Bytes, f \in Bytes : tag = s[1] /\ f = s[2]
  <2>1. 1 \in 1..Len(s) /\ 2 \in 1..Len(s)
    BY <1>2
  <2> QED  BY <2>1, ElementOfSeq
<1>4. f \in 0..255
  BY DEF Bytes
<1>5. \E k \in Nat, n \in Nat, e \in Seq(Bytes) :
        /\ head = 2 + k /\ length = n /\ e = SubSeq(s, 3, 2 + k) /\ Len(e) = k
        /\ Sized(n, f, e) /\ 2 + k + n <= m
  <2>1. CASE f < 128
    <3>1. head = 2 /\ length = f
      BY <1>3, <2>1
    <3>2. SubSeq(s, 3, 2 + 0) = <<>>
      BY SubSeqEmpty
    <3>3. Sized(f, f, <<>>)
      BY <2>1 DEF Sized
    <3>4. f \in Nat /\ 2 + 0 + f <= m
      <4>1. ~(f > m - 2)
        BY <1>1, <1>2, <3>1
      <4> QED  BY <1>2, <1>4, <4>1
    <3>5. head = 2 + 0 /\ <<>> \in Seq(Bytes) /\ Len(<<>>) = 0 /\ 0 \in Nat
      BY <3>1
    <3> HIDE DEF head, length
    <3> QED  BY <3>1, <3>2, <3>3, <3>4, <3>5, Zenon
  <2>2. CASE ~(f < 128)
    <3>1. PICK k \in 1..Wide : k = f - 128 /\ f = 128 + k /\ 2 + k <= m
      <4>1. ~(f - 128 = 0) /\ ~(f - 128 > Wide) /\ ~(f - 128 > m - 2)
        <5>1. f >= 128
          BY <1>4, <2>2
        <5> QED  BY <1>1, <1>2, <1>3, <5>1
      <4>2. Wide \in Nat
        BY WideAssumption
      <4>3. f - 128 \in 1..Wide /\ 2 + (f - 128) <= m /\ f = 128 + (f - 128)
        BY <1>2, <1>4, <2>2, <4>1, <4>2
      <4> QED  BY <4>3
    <3>2. k \in Nat /\ k \in 0..Wide
      BY WideAssumption
    <3>3. PICK e : e = SubSeq(s, 3, 2 + k)
      OBVIOUS
    <3>4. e \in Seq(Bytes) /\ Len(e) = k
      <4>1. 3 \in Int /\ 2 + k \in Int /\ 1 <= 3 /\ 2 + k <= Len(s) /\ 3 <= (2 + k) + 1
        BY <1>2, <3>1, <3>2
      <4>2. SubSeq(s, 3, 2 + k) \in Seq(Bytes) /\ Len(SubSeq(s, 3, 2 + k)) = (2 + k) - 3 + 1
        BY <4>1, Part
      <4>3. (2 + k) - 3 + 1 = k
        BY <3>2
      <4> QED  BY <3>3, <4>2, <4>3
    <3>5. PICK n \in Nat : n = BigEndian(e)
      BY <3>2, <3>4, LengthRead
    <3>6. n < Capacity[k] /\ e = LongBytes(n, k)
      BY <3>2, <3>4, <3>5, LengthRead
    <3>7. Sized(n, f, e)
      BY <3>1, <3>6 DEF Sized
    <3>8. head = 2 + k /\ length = n
      BY <1>3, <2>2, <3>1, <3>3, <3>5
    <3>9. 2 + k + n <= m
      <4>1. ~(n > m - (2 + k))
        BY <1>1, <1>2, <3>8
      <4> QED  BY <1>2, <3>2, <3>5, <4>1
    <3> HIDE DEF head, length
    <3> QED  BY <3>2, <3>3, <3>4, <3>7, <3>8, <3>9, Zenon
  <2> QED  BY <2>1, <2>2
<1> HIDE DEF head, length
<1>6. PICK k \in Nat, n \in Nat, e \in Seq(Bytes) :
        /\ head = 2 + k /\ length = n /\ e = SubSeq(s, 3, 2 + k) /\ Len(e) = k
        /\ Sized(n, f, e) /\ 2 + k + n <= m
  BY <1>5
<1>7. PICK p \in Nat, q \in Nat : p = 2 + k /\ q = p + n /\ q <= m
  BY <1>6
<1>8. PICK value, rest : value = SubSeq(s, p + 1, q) /\ rest = SubSeq(s, q + 1, m)
  OBVIOUS
<1>9. value \in Seq(Bytes) /\ Len(value) = n
  <2>1. p + 1 \in Int /\ q \in Int /\ 1 <= p + 1 /\ q <= Len(s) /\ p + 1 <= q + 1 /\ q - (p + 1) + 1 = n
    BY <1>2, <1>6, <1>7
  <2>2. SubSeq(s, p + 1, q) \in Seq(Bytes) /\ Len(SubSeq(s, p + 1, q)) = q - (p + 1) + 1
    BY <2>1, Part
  <2> QED  BY <1>8, <2>1, <2>2
<1>10. rest \in Seq(Bytes)
  <2>1. q + 1 \in Int /\ m \in Int /\ 1 <= q + 1 /\ m <= Len(s)
    BY <1>2, <1>7
  <2> QED  BY <1>8, <2>1, Part
<1>11. x = TlvRecord(tag, value, rest)
  <2>1. head + 1 = p + 1 /\ head + length = q /\ head + length + 1 = q + 1
    BY <1>6, <1>7
  <2> QED  BY <1>1, <1>2, <1>3, <1>8, <2>1 DEF TlvRecord
<1>12. Laid(s, tag, f, e, value, rest)
  BY <1>2, <1>3, <1>6, <1>7, <1>8, <1>9 DEF Laid
<1>13. Sized(Len(value), f, e)
  BY <1>6, <1>9
<1> QED  BY <1>9, <1>10, <1>11, <1>12, <1>13 DEF Found

LEMMA FoundIsRead ==
  ASSUME NEW s \in Seq(Bytes), NEW tag, NEW value, NEW rest, Found(s, tag, value, rest)
  PROVE  read_der_tlv(s) = {TlvRecord(tag, value, rest)}
<1> DEFINE first == s[2]
           more == first - 128
           head == IF first < 128 THEN 2 ELSE 2 + more
           length == IF first < 128 THEN first ELSE BigEndian(SubSeq(s, 3, 2 + more))
<1>1. PICK f, e : Sized(Len(value), f, e) /\ Laid(s, tag, f, e, value, rest)
  BY DEF Found
<1>2. PICK n \in Nat, m \in Nat : n = Len(value) /\ m = Len(s)
  BY LenProperties DEF Found
<1>3. f \in Bytes /\ e \in Seq(Bytes)
  BY <1>1, <1>2, SizedBytes
<1>4. PICK k \in Nat : k = Len(e)
  BY <1>3, LenProperties
<1>5. PICK p \in Nat, q \in Nat : p = 2 + k /\ q = p + n
  OBVIOUS
<1>6. /\ q <= m /\ s[1] = tag /\ s[2] = f /\ e = SubSeq(s, 3, p)
      /\ value = SubSeq(s, p + 1, q) /\ rest = SubSeq(s, q + 1, m)
  BY <1>1, <1>2, <1>4, <1>5 DEF Laid
<1>7. /\ head = p /\ length = n
      /\ ~(first >= 128 /\ (more = 0 \/ more > Wide \/ more > m - 2))
  <2>1. CASE n < 128 /\ f = n /\ e = <<>>
    <3>1. first < 128 /\ ~(first >= 128)
      BY <1>6, <2>1
    <3>2. k = 0 /\ p = 2
      BY <1>4, <1>5, <2>1
    <3> QED  BY <1>6, <2>1, <3>1, <3>2
  <2>2. ASSUME NEW j \in 1..Wide, n < Capacity[j], f = 128 + j, e = LongBytes(n, j)
        PROVE  /\ head = p /\ length = n
               /\ ~(first >= 128 /\ (more = 0 \/ more > Wide \/ more > m - 2))
    <3>1. j \in Nat /\ Wide \in Nat /\ j \in 0..Wide
      BY WideAssumption
    <3>2. k = j
      BY <1>4, <2>2, <3>1, BytesSum
    <3>3. ~(first < 128) /\ more = k
      BY <1>6, <2>2, <3>1, <3>2
    <3>4. head = p
      BY <1>5, <3>3
    <3>5. SubSeq(s, 3, 2 + more) = e
      BY <1>5, <1>6, <3>3
    <3>6. BigEndian(e) = n
      BY <1>3, <1>4, <2>2, <3>1, <3>2, LengthRead
    <3>7. length = n
      BY <3>3, <3>5, <3>6
    <3>8. ~(k = 0) /\ ~(k > Wide) /\ ~(k > m - 2)
      BY <1>5, <1>6, <3>1, <3>2
    <3> HIDE DEF head, length
    <3> QED  BY <3>3, <3>4, <3>7, <3>8
  <2> HIDE DEF head, length
  <2> QED  BY <1>1, <1>2, <2>1, <2>2, Zenon DEF Sized
<1>8. ~(m < 2) /\ ~(n > m - p) /\ p + n = q
  BY <1>5, <1>6
<1>9. /\ head + 1 = p + 1 /\ head + length = q /\ head + length + 1 = q + 1
  <2> HIDE DEF head, length
  <2> QED  BY <1>5, <1>7
<1>10. read_der_tlv(s) =
         IF \/ Len(s) < 2
            \/ first >= 128 /\ (more = 0 \/ more > Wide \/ more > Len(s) - 2)
            \/ length > Len(s) - head
         THEN {}
         ELSE {[tag |-> s[1], value |-> SubSeq(s, head + 1, head + length),
                rest |-> SubSeq(s, head + length + 1, Len(s))]}
  BY Zenon DEF read_der_tlv
<1> HIDE DEF first, more, head, length
<1>11. read_der_tlv(s) = {[tag |-> s[1], value |-> SubSeq(s, head + 1, head + length),
                           rest |-> SubSeq(s, head + length + 1, Len(s))]}
  <2>1. ~(Len(s) < 2) /\ ~(length > Len(s) - head)
    BY <1>2, <1>7, <1>8
  <2>2. ~(first >= 128 /\ (more = 0 \/ more > Wide \/ more > Len(s) - 2))
    BY <1>2, <1>7
  <2> QED  BY <1>10, <2>1, <2>2, Zenon
<1> QED  BY <1>2, <1>6, <1>9, <1>11, Zenon DEF TlvRecord

(* The bytes that are read are the spellings and what follows them. *)
Begins(s, tag, value, rest) == \E w \in Spellings(tag, value) : s = w \o rest

LEMMA FoundIsSpelled ==
  ASSUME NEW s \in Seq(Bytes), NEW tag \in Bytes, NEW value \in Seq(Bytes), NEW rest \in Seq(Bytes)
  PROVE  Found(s, tag, value, rest) <=> Begins(s, tag, value, rest)
<1>1. PICK n \in Nat : n = Len(value)
  BY LenProperties
<1>2. \A w : w \in Spellings(tag, value) <=> SpeltAs(w, tag, value, n)
  BY <1>1, Written
<1>3. ASSUME NEW f, NEW e, Sized(n, f, e)
      PROVE  Laid(s, tag, f, e, value, rest) <=> s = (<<tag>> \o (<<f>> \o e) \o value) \o rest
  <2>1. f \in Bytes /\ e \in Seq(Bytes)
    BY <1>3, SizedBytes
  <2>2. LaidAt(s, tag, f, e, value, rest)
    BY <2>1, Layout
  <2>3. <<tag>> \in Seq(Bytes) /\ <<f>> \in Seq(Bytes)
    BY <2>1
  <2>4. (<<tag>> \o <<f>>) \o e = <<tag>> \o (<<f>> \o e)
    BY <2>1, <2>3, ConcatAssociative
  <2> QED  BY <2>2, <2>4, Zenon DEF LaidAt
<1>4. ASSUME Found(s, tag, value, rest)
      PROVE  \E w \in Spellings(tag, value) : s = w \o rest
  <2>1. PICK f, e : Sized(n, f, e) /\ Laid(s, tag, f, e, value, rest)
    BY <1>1, <1>4 DEF Found
  <2>2. PICK w : w = <<tag>> \o (<<f>> \o e) \o value
    OBVIOUS
  <2>3. s = w \o rest
    BY <1>3, <2>1, <2>2
  <2>4. SpeltAs(w, tag, value, n)
    BY <2>1, <2>2, Zenon DEF SpeltAs
  <2> QED  BY <1>2, <2>3, <2>4, Zenon
<1>5. ASSUME NEW w \in Spellings(tag, value), s = w \o rest
      PROVE  Found(s, tag, value, rest)
  <2>1. PICK f, e : Sized(n, f, e) /\ w = <<tag>> \o (<<f>> \o e) \o value
    BY <1>2, Zenon DEF SpeltAs
  <2>2. Laid(s, tag, f, e, value, rest)
    BY <1>3, <1>5, <2>1, Zenon
  <2> QED  BY <1>1, <2>1, <2>2 DEF Found
<1> QED  BY <1>4, <1>5, Zenon DEF Begins

(* x is a value with its tag, whose spelling s begins with.                 *)
IsWritten(s, x) ==
  /\ x \in [tag : Bytes, value : Seq(Bytes), rest : Seq(Bytes)]
  /\ Begins(s, x.tag, x.value, x.rest)

(* read_der_tlv reads a value exactly when the bytes begin with a spelling  *)
(* of it, its length in one byte or in several, with or without leading     *)
(* zeros; what it leaves is what follows; and it reads one value only.      *)
THEOREM DerReadsExactly ==
  ASSUME NEW s \in Seq(Bytes)
  PROVE  /\ \A x : x \in read_der_tlv(s) <=> IsWritten(s, x)
         /\ \A x, y \in read_der_tlv(s) : x = y
<1>1. ASSUME NEW x \in read_der_tlv(s) PROVE IsWritten(s, x) /\ read_der_tlv(s) = {x}
  <2>1. PICK tag, value, rest : x = TlvRecord(tag, value, rest) /\ Found(s, tag, value, rest)
    BY TlvFound
  <2>2. tag \in Bytes /\ value \in Seq(Bytes) /\ rest \in Seq(Bytes)
    BY <2>1 DEF Found
  <2>3. Begins(s, tag, value, rest)
    BY <2>1, <2>2, FoundIsSpelled, Zenon
  <2>4. /\ x.tag = tag /\ x.value = value /\ x.rest = rest
        /\ x \in [tag : Bytes, value : Seq(Bytes), rest : Seq(Bytes)]
    BY <2>1, <2>2 DEF TlvRecord
  <2>5. read_der_tlv(s) = {TlvRecord(tag, value, rest)}
    BY <2>1, FoundIsRead
  <2> QED  BY <2>1, <2>3, <2>4, <2>5, Zenon DEF IsWritten
<1>2. ASSUME NEW x, IsWritten(s, x) PROVE x \in read_der_tlv(s)
  <2>1. PICK tag \in Bytes, value \in Seq(Bytes), rest \in Seq(Bytes) :
          /\ x.tag = tag /\ x.value = value /\ x.rest = rest /\ x = TlvRecord(tag, value, rest)
    BY <1>2 DEF IsWritten, TlvRecord
  <2>3. Begins(s, tag, value, rest)
    BY <1>2, <2>1, Zenon DEF IsWritten
  <2>2. Found(s, tag, value, rest)
    BY <2>3, FoundIsSpelled, Zenon
  <2>4. read_der_tlv(s) = {TlvRecord(tag, value, rest)}
    BY <2>2, FoundIsRead
  <2> QED  BY <2>1, <2>4, Zenon
<1> QED  BY <1>1, <1>2, Zenon

LEMMA SpellingBytes ==
  ASSUME NEW tag \in Bytes, NEW value \in Seq(Bytes), NEW w \in Spellings(tag, value)
  PROVE  w \in Seq(Bytes)
<1>1. PICK n \in Nat : n = Len(value)
  BY LenProperties
<1>2. PICK f, e : Sized(n, f, e) /\ w = <<tag>> \o (<<f>> \o e) \o value
  <2>1. SpeltAs(w, tag, value, n)
    BY <1>1, Written
  <2> QED  BY <2>1, Zenon DEF SpeltAs
<1>3. f \in Bytes /\ e \in Seq(Bytes)
  BY <1>2, SizedBytes
<1>4. <<tag>> \in Seq(Bytes) /\ <<f>> \in Seq(Bytes)
  BY <1>3
<1>5. <<f>> \o e \in Seq(Bytes)
  BY <1>3, <1>4, Concat
<1>6. <<tag>> \o (<<f>> \o e) \in Seq(Bytes)
  BY <1>4, <1>5, Concat
<1> QED  BY <1>2, <1>6, Concat

LEMMA SpellingIsRead ==
  ASSUME NEW tag \in Bytes, NEW value \in Seq(Bytes), NEW rest \in Seq(Bytes),
         NEW w \in Spellings(tag, value)
  PROVE  read_der_tlv(w \o rest) = {[tag |-> tag, value |-> value, rest |-> rest]}
<1>1. PICK s \in Seq(Bytes) : s = w \o rest
  BY SpellingBytes, Concat
<1>2. Begins(s, tag, value, rest)
  BY <1>1 DEF Begins
<1>3. Found(s, tag, value, rest)
  BY <1>2, FoundIsSpelled
<1>4. read_der_tlv(s) = {TlvRecord(tag, value, rest)}
  BY <1>3, FoundIsRead
<1> QED  BY <1>1, <1>4 DEF TlvRecord

(* Where a value in s may end. *)
EndsAt(s) ==
  {i \in 0..Len(s) : \E j \in 0..i :
     s # <<>> /\ SubSeq(s, 1, i) \in Spellings(s[1], SubSeq(s, j + 1, i))}

LEMMA EndIsRead ==
  ASSUME NEW s \in Seq(Bytes), NEW i \in EndsAt(s)
  PROVE  \E x \in read_der_tlv(s) : i = Len(s) - Len(x.rest)
<1>1. PICK m \in Nat : m = Len(s)
  BY LenProperties
<1>2. i \in 0..m /\ s # <<>>
  BY <1>1 DEF EndsAt
<1>3. PICK j \in 0..i : SubSeq(s, 1, i) \in Spellings(s[1], SubSeq(s, j + 1, i))
  BY DEF EndsAt
<1>4. PICK tag \in Bytes : tag = s[1]
  <2>1. 1 \in 1..Len(s)
    BY <1>1, <1>2
  <2> QED  BY <2>1, ElementOfSeq
<1>5. PICK value \in Seq(Bytes) : value = SubSeq(s, j + 1, i)
  <2>1. j + 1 \in Int /\ i \in Int /\ 1 <= j + 1 /\ i <= Len(s)
    BY <1>1, <1>2
  <2> QED  BY <2>1, Part
<1>6. PICK rest \in Seq(Bytes) : rest = SubSeq(s, i + 1, m) /\ Len(rest) = m - i
  <2>1. i + 1 \in Int /\ m \in Int /\ 1 <= i + 1 /\ m <= Len(s) /\ i + 1 <= m + 1 /\ m - (i + 1) + 1 = m - i
    BY <1>1, <1>2
  <2>2. SubSeq(s, i + 1, m) \in Seq(Bytes) /\ Len(SubSeq(s, i + 1, m)) = m - (i + 1) + 1
    BY <2>1, Part
  <2> QED  BY <2>1, <2>2
<1>7. s = SubSeq(s, 1, i) \o rest
  BY <1>1, <1>2, <1>6, Halves
<1>8. read_der_tlv(s) = {[tag |-> tag, value |-> value, rest |-> rest]}
  <2>1. PICK w : w \in Spellings(tag, value) /\ s = w \o rest
    BY <1>3, <1>4, <1>5, <1>7
  <2> QED  BY <2>1, SpellingIsRead
<1>9. i = m - Len(rest)
  BY <1>1, <1>2, <1>6
<1> QED  BY <1>1, <1>8, <1>9

LEMMA ReadHasEnd ==
  ASSUME NEW s \in Seq(Bytes), NEW x \in read_der_tlv(s)
  PROVE  Len(s) - Len(x.rest) \in EndsAt(s)
<1>0. PICK tag \in Bytes, value \in Seq(Bytes), rest \in Seq(Bytes) :
        \E w \in Spellings(tag, value) : x.rest = rest /\ s = w \o rest
  <2>1. IsWritten(s, x)
    BY DerReadsExactly
  <2>2. PICK tag \in Bytes, value \in Seq(Bytes), rest \in Seq(Bytes) :
          x.tag = tag /\ x.value = value /\ x.rest = rest
    BY <2>1 DEF IsWritten
  <2>3. Begins(s, tag, value, rest)
    BY <2>1, <2>2 DEF IsWritten
  <2> QED  BY <2>2, <2>3 DEF Begins
<1>1. PICK w \in Spellings(tag, value) : x.rest = rest /\ s = w \o rest
  BY <1>0
<1>2. PICK m \in Nat, n \in Nat, r \in Nat : m = Len(s) /\ n = Len(value) /\ r = Len(rest)
  BY LenProperties
<1>3. PICK f, e : Sized(n, f, e) /\ w = <<tag>> \o (<<f>> \o e) \o value
  <2>1. SpeltAs(w, tag, value, n)
    BY <1>1, <1>2, Written
  <2> QED  BY <2>1, Zenon DEF SpeltAs
<1>4. f \in Bytes /\ e \in Seq(Bytes)
  BY <1>3, SizedBytes
<1>5. PICK a \in Seq(Bytes) : a = <<tag>> \o (<<f>> \o e)
  <2>1. <<tag>> \in Seq(Bytes) /\ <<f>> \in Seq(Bytes)
    BY <1>4
  <2>2. <<f>> \o e \in Seq(Bytes)
    BY <1>4, <2>1, Concat
  <2> QED  BY <2>1, <2>2, Concat
<1>6. PICK k \in Nat : k = Len(a)
  BY LenProperties
<1>7. w \in Seq(Bytes) /\ w = a \o value /\ Len(w) = k + n
  <2>1. a \o value \in Seq(Bytes) /\ Len(a \o value) = Len(a) + Len(value)
    BY Concat
  <2> QED  BY <1>2, <1>3, <1>5, <1>6, <2>1
<1>8. PICK i \in Nat : i = k + n /\ m = i + r
  <2>1. Len(w \o rest) = Len(w) + Len(rest)
    BY <1>7, Concat
  <2>2. m = (k + n) + r
    BY <1>1, <1>2, <1>7, <2>1
  <2> QED  BY <2>2
<1>9. SubSeq(s, 1, i) = w
  BY <1>1, <1>7, <1>8, ConcatParts
<1>10. value = SubSeq(w, k + 1, i)
  <2>1. SubSeq(a \o value, Len(a) + 1, Len(a) + Len(value)) = value
    BY ConcatParts
  <2> QED  BY <1>2, <1>6, <1>7, <1>8, <2>1
<1>11. SubSeq(w, k + 1, i) = SubSeq(s, k + 1, i)
  <2>1. CASE n = 0
    <3>1. i < k + 1
      BY <1>8, <2>1
    <3> QED  BY <1>6, <1>8, <3>1, SubSeqEmpty
  <2>2. CASE n # 0
    <3>1. 1 <= 1 /\ 1 <= i /\ i <= Len(s) /\ 1 <= k + 1 /\ k + 1 <= i /\ i <= i - 1 + 1 /\ k + 1 \in Nat /\ 1 \in Nat
      BY <1>2, <1>8, <2>2
    <3>2. SubSeq(SubSeq(s, 1, i), k + 1, i) = SubSeq(s, 1 + (k + 1) - 1, 1 + i - 1)
      BY <3>1, PartOfPart
    <3>3. 1 + (k + 1) - 1 = k + 1 /\ 1 + i - 1 = i
      BY <3>1
    <3> QED  BY <1>9, <3>2, <3>3
  <2> QED  BY <2>1, <2>2
<1>12. s # <<>> /\ s[1] = tag
  <2>1. LaidAt(s, tag, f, e, value, rest)
    BY <1>4, Layout
  <2>2. <<tag>> \o <<f>> \o e = a
    <3>1. <<tag>> \in Seq(Bytes) /\ <<f>> \in Seq(Bytes)
      BY <1>4
    <3> QED  BY <1>4, <1>5, <3>1, ConcatAssociative
  <2>3. Laid(s, tag, f, e, value, rest)
    BY <1>1, <1>7, <2>1, <2>2 DEF LaidAt
  <2>4. Len(e) \in Nat
    BY <1>4, LenProperties
  <2>5. s[1] = tag /\ 2 + Len(e) + Len(value) <= Len(s)
    BY <2>3, Zenon DEF Laid
  <2>6. m # 0
    BY <1>2, <2>4, <2>5
  <2> QED  BY <1>2, <2>5, <2>6
<1>13. i \in 0..Len(s) /\ k \in 0..i
  BY <1>2, <1>8
<1>14. SubSeq(s, 1, i) \in Spellings(s[1], SubSeq(s, k + 1, i))
  BY <1>1, <1>9, <1>10, <1>11, <1>12
<1>15. i = Len(s) - Len(x.rest)
  BY <1>1, <1>2, <1>8
<1> QED  BY <1>12, <1>13, <1>14, <1>15 DEF EndsAt

LEMMA DerIsReadExactly == DerReadExactly
<1>1. ASSUME NEW n \in {0, 1, 127, 128, 255, 256, 300}, NEW s \in Spellings(48, [i \in 1..n |-> 7])
      PROVE  read_der_tlv(s \o <<9>>) = {[tag |-> 48, value |-> [i \in 1..n |-> 7], rest |-> <<9>>]}
  <2>1. 48 \in Bytes /\ 7 \in Bytes /\ 9 \in Bytes /\ n \in Nat
    BY DEF Bytes
  <2>2. <<9>> \in Seq(Bytes) /\ [i \in 1..n |-> 7] \in Seq(Bytes)
    BY <2>1
  <2>3. PICK value \in Seq(Bytes), rest \in Seq(Bytes) : value = [i \in 1..n |-> 7] /\ rest = <<9>>
    BY <2>2
  <2>4. read_der_tlv(s \o rest) = {[tag |-> 48, value |-> value, rest |-> rest]}
    <3>1. PICK tag \in Bytes : tag = 48 /\ s \in Spellings(tag, value)
      BY <2>1, <2>3
    <3>2. read_der_tlv(s \o rest) = {[tag |-> tag, value |-> value, rest |-> rest]}
      BY <3>1, SpellingIsRead
    <3> QED  BY <3>1, <3>2
  <2> QED  BY <2>3, <2>4
<1>2. ASSUME NEW s \in Strings({0, 1, 2, 128, 129, 130, 131}, 5)
      PROVE  /\ read_der_tlv(s) = {} <=> EndsAt(s) = {}
             /\ \A x \in read_der_tlv(s) : EndsAt(s) = {Len(s) - Len(x.rest)}
  <2>1. s \in Seq(Bytes)
    <3>1. PICK k \in 0..5 : s \in [1..k -> {0, 1, 2, 128, 129, 130, 131}]
      BY DEF Strings
    <3>2. {0, 1, 2, 128, 129, 130, 131} \subseteq Bytes
      BY DEF Bytes
    <3>3. s \in [1..k -> Bytes] /\ k \in Nat
      BY <3>1, <3>2
    <3> QED  BY <3>3
  <2>2. \A i \in EndsAt(s) : \E x \in read_der_tlv(s) : i = Len(s) - Len(x.rest)
    BY <2>1, EndIsRead
  <2>3. \A x \in read_der_tlv(s) : Len(s) - Len(x.rest) \in EndsAt(s)
    BY <2>1, ReadHasEnd
  <2>4. \A x, y \in read_der_tlv(s) : x = y
    BY <2>1, DerReadsExactly
  <2> QED  BY <2>2, <2>3, <2>4, ZenonT(60)
<1> QED  BY <1>1, <1>2, Zenon DEF DerReadExactly, EndsAt

-----------------------------------------------------------------------------
(* The times that TimesRead names, and the texts it damages.                *)

LEMMA OneField ==
  ASSUME NEW x, NEW j, NEW k, NEW a \in Field(x, j, k), NEW b \in Field(x, j, k)
  PROVE  a = b
BY Zenon DEF Field, parse_digits

(* A text that is written as a time is read as that time only. *)
LEMMA OneTime ==
  ASSUME NEW v \in Seq(Bytes), NEW tag \in {\h17, \h18}, NEW y, YearFits(tag, y),
         NEW m, NEW d, NEW h, NEW i, NEW s, InClock(m, d, h, i, s),
         Spelled(tag, v, y, m, d, h, i, s)
  PROVE  parse_certificate_time(tag, v) =
           IF Accepted(y, m, d, h, i, s) THEN {Instant(y, m, d, h, i, s)} ELSE {}
<1>1. ~Refused(tag, v) /\ y \in YearsOf(tag, v) /\ FieldsAre(FieldsOf(tag, v), m, d, h, i, s)
  BY SpelledIsRead, Zenon
<1>2. \A z \in YearsOf(tag, v) : z = y
  <2>1. PICK w, p : w = TextOf(v) /\ p = YearDigits(tag)
    OBVIOUS
  <2>2. \A a, b \in Field(w, 1, p) : a = b
    BY OneField
  <2>3. y \in YearsOf(tag, v)
    BY <1>1
  <2> QED  BY <2>1, <2>2, <2>3 DEF YearsOf
<1>3. ASSUME NEW a, NEW b, NEW c, NEW e, NEW g, FieldsAre(FieldsOf(tag, v), a, b, c, e, g)
      PROVE  a = m /\ b = d /\ c = h /\ e = i /\ g = s
  <2>1. PICK x : x = FieldsOf(tag, v) /\ FieldsAre(x, a, b, c, e, g) /\ FieldsAre(x, m, d, h, i, s)
    BY <1>1, <1>3
  <2>2. \A j, k : \A n, q \in Field(x, j, k) : n = q
    BY OneField
  <2> QED  BY <2>1, <2>2 DEF FieldsAre
<1>4. ASSUME NEW t
      PROVE  TimeParsed(tag, v, t) <=>
               Accepted(y, m, d, h, i, s) /\ t = Instant(y, m, d, h, i, s)
  <2>1. ASSUME TimeParsed(tag, v, t)
        PROVE  Accepted(y, m, d, h, i, s) /\ t = Instant(y, m, d, h, i, s)
    <3>1. PICK z, a, b, c, e, g :
            /\ z \in YearsOf(tag, v) /\ FieldsAre(FieldsOf(tag, v), a, b, c, e, g)
            /\ Accepted(z, a, b, c, e, g) /\ t = Instant(z, a, b, c, e, g)
      BY <2>1, Zenon DEF TimeParsed
    <3>2. z = y /\ a = m /\ b = d /\ c = h /\ e = i /\ g = s
      <4>1. z = y
        BY <1>2, <3>1
      <4>2. FieldsAre(FieldsOf(tag, v), a, b, c, e, g)
        BY <3>1
      <4> QED  BY <1>3, <4>1, <4>2
    <3> QED  BY <3>1, <3>2, Zenon
  <2>2. ASSUME Accepted(y, m, d, h, i, s), t = Instant(y, m, d, h, i, s)
        PROVE  TimeParsed(tag, v, t)
    BY <1>1, <2>2, Zenon DEF TimeParsed
  <2> QED  BY <2>1, <2>2, Zenon
<1>5. ASSUME NEW t
      PROVE  t \in parse_certificate_time(tag, v) <=>
               Accepted(y, m, d, h, i, s) /\ t = Instant(y, m, d, h, i, s)
  BY <1>4, ParsedTime, Zenon
<1> QED  BY <1>5, Zenon

(* The bytes of a text that is read as a time. *)
LEMMA FieldDigits ==
  ASSUME NEW x \in Seq(Bytes), NEW j \in Nat, NEW k \in Nat, 1 <= j, k <= Len(x),
         Field(x, j, k) # {}, NEW i \in j..k
  PROVE  IsDigit(x[i])
<1>1. PICK u : u = SubSeq(x, j, k)
  OBVIOUS
<1>2. \A l \in j..k : x[l] \in Bytes
  <2>1. Len(x) \in Nat
    BY LenProperties
  <2> QED  BY <2>1, ElementOfSeq
<1>3. u \in Seq(Bytes) /\ Len(u) = k - j + 1 /\ \A l \in 1..(k - j + 1) : u[l] = x[j + l - 1]
  BY <1>1, <1>2, SubSeqProperties
<1>4. i - j + 1 \in 1..Len(u) /\ u[i - j + 1] = x[i]
  <2>1. PICK l \in 1..(k - j + 1) : l = i - j + 1 /\ j + l - 1 = i
    OBVIOUS
  <2> QED  BY <1>3, <2>1
<1> QED  BY <1>1, <1>3, <1>4, NoDigits, Zenon DEF Field

Shaped(tag, v, p) ==
  /\ tag \in {\h17, \h18} /\ p = YearDigits(tag)
  /\ v[Len(v)] = 90 /\ Len(v) >= p + 11 /\ Len(v) # p + 12
  /\ tag = \h17 => Len(v) = p + 11
  /\ \A i \in 1..(p + 10) : IsDigit(v[i])

LEMMA ReadShape ==
  ASSUME NEW v \in Seq(Bytes), NEW tag, parse_certificate_time(tag, v) # {}
  PROVE  Shaped(tag, v, YearDigits(tag))
<1>1. PICK t : TimeParsed(tag, v, t)
  BY ParsedTime, Zenon
<1>2. PICK y, m, d, h, i, s :
        y \in YearsOf(tag, v) /\ FieldsAre(FieldsOf(tag, v), m, d, h, i, s)
  BY <1>1, Zenon DEF TimeParsed
<1>3. /\ v # <<>> /\ v[Len(v)] = 90 /\ tag \in {\h17, \h18}
      /\ tag = \h17 => Len(TextOf(v)) = 12
      /\ tag = \h18 => ~(Len(TextOf(v)) < 14)
      /\ FractionOk(FieldsOf(tag, v))
  BY <1>1 DEF TimeParsed, Refused
<1>4. PICK p \in Nat : p = YearDigits(tag) /\ (tag = \h17 => p = 2) /\ (tag = \h18 => p = 4)
  BY DEF YearDigits
<1>5. PICK n \in Nat : n = Len(v) - 1 /\ n + 1 = Len(v)
  BY <1>3, LenProperties
<1>6. PICK w \in Seq(Bytes) : w = TextOf(v) /\ w = SubSeq(v, 1, n) /\ Len(w) = n
  <2>1. SubSeq(v, 1, n) \in Seq(Bytes) /\ Len(SubSeq(v, 1, n)) = n
    BY <1>5, Part
  <2> QED  BY <1>5, <2>1 DEF TextOf
<1>7. n >= p + 10 /\ (tag = \h17 => n = p + 10)
  <2>1. CASE tag = \h17
    <3>1. n = 12 /\ p = 2
      BY <1>3, <1>4, <1>6, <2>1
    <3> QED  BY <3>1
  <2>2. CASE tag = \h18
    <3>1. ~(n < 14) /\ p = 4
      BY <1>3, <1>4, <1>6, <2>2
    <3> QED  BY <2>2, <3>1
  <2> QED  BY <1>3, <2>1, <2>2
<1>8. PICK x \in Seq(Bytes) : x = FieldsOf(tag, v) /\ x = SubSeq(w, p + 1, n) /\ Len(x) = n - p
  <2>1. Len(TextOf(v)) >= YearDigits(tag)
    BY <1>4, <1>6, <1>7
  <2>2. FieldsOf(tag, v) \in Seq(Bytes) /\ Len(FieldsOf(tag, v)) = Len(TextOf(v)) - YearDigits(tag)
    BY <1>3, <2>1, TextParts
  <2> QED  BY <1>4, <1>6, <2>2 DEF FieldsOf
<1>9. n # p + 11
  <2> SUFFICES ASSUME n = p + 11 PROVE FALSE
    OBVIOUS
  <2>1. Len(x) = 11
    BY <1>8
  <2> QED  BY <1>3, <1>8, <2>1 DEF FractionOk
<1>10. \A k \in 1..n : w[k] = v[k]
  <2>1. \A k \in 1..n : v[k] \in Bytes
    BY <1>5, ElementOfSeq
  <2>2. \A k \in 1..(n - 1 + 1) : w[k] = v[1 + k - 1]
    BY <1>6, <2>1, SubSeqProperties
  <2> QED  BY <2>2
<1>11. \A k \in 1..(n - p) : x[k] = w[p + k]
  <2>1. \A k \in (p + 1)..n : w[k] \in Bytes
    BY <1>6, ElementOfSeq
  <2>2. \A k \in 1..(n - (p + 1) + 1) : x[k] = w[(p + 1) + k - 1]
    BY <1>8, <2>1, SubSeqProperties
  <2>3. ASSUME NEW k \in 1..(n - p) PROVE x[k] = w[p + k]
    <3>1. k \in 1..(n - (p + 1) + 1) /\ (p + 1) + k - 1 = p + k
      OBVIOUS
    <3> QED  BY <2>2, <3>1
  <2> QED  BY <2>3
<1>12. \A k \in 1..p : IsDigit(w[k])
  <2>1. Field(w, 1, p) # {}
    BY <1>2, <1>4, <1>6 DEF YearsOf
  <2>2. p <= Len(w)
    BY <1>6, <1>7
  <2> QED  BY <2>1, <2>2, FieldDigits, SMTT(60)
<1>13. \A k \in 1..10 : IsDigit(x[k])
  <2>1. /\ Field(x, 1, 2) # {} /\ Field(x, 3, 4) # {} /\ Field(x, 5, 6) # {}
        /\ Field(x, 7, 8) # {} /\ Field(x, 9, 10) # {}
    BY <1>2, <1>8, Zenon DEF FieldsAre
  <2>2. 10 <= Len(x)
    BY <1>7, <1>8
  <2>3. /\ \A k \in 1..2 : IsDigit(x[k])
        /\ \A k \in 3..4 : IsDigit(x[k])
        /\ \A k \in 5..6 : IsDigit(x[k])
        /\ \A k \in 7..8 : IsDigit(x[k])
        /\ \A k \in 9..10 : IsDigit(x[k])
    <3>1. /\ 1 \in Nat /\ 2 \in Nat /\ 3 \in Nat /\ 4 \in Nat /\ 5 \in Nat /\ 6 \in Nat
          /\ 7 \in Nat /\ 8 \in Nat /\ 9 \in Nat /\ 10 \in Nat
          /\ 1 <= 1 /\ 1 <= 3 /\ 1 <= 5 /\ 1 <= 7 /\ 1 <= 9
          /\ 2 <= Len(x) /\ 4 <= Len(x) /\ 6 <= Len(x) /\ 8 <= Len(x) /\ 10 <= Len(x)
      BY <1>8, <2>2
    <3> QED  BY <2>1, <3>1, FieldDigits, Zenon
  <2>4. \A k \in 1..10 : k \in 1..2 \/ k \in 3..4 \/ k \in 5..6 \/ k \in 7..8 \/ k \in 9..10
    OBVIOUS
  <2> QED  BY <2>3, <2>4, Zenon
<1>14. ASSUME NEW k \in 1..(p + 10) PROVE IsDigit(v[k])
  <2>1. k \in 1..n
    BY <1>7
  <2>2. CASE k <= p
    <3>1. k \in 1..p
      BY <2>2
    <3> QED  BY <1>10, <1>12, <2>1, <3>1
  <2>3. CASE ~(k <= p)
    <3>1. PICK l \in 1..10 : l = k - p /\ p + l = k /\ l \in 1..(n - p)
      BY <1>7, <2>3
    <3>2. w[k] = x[l] /\ w[k] = v[k]
      BY <1>10, <1>11, <2>1, <3>1
    <3> QED  BY <1>13, <3>1, <3>2
  <2> QED  BY <2>2, <2>3
<1>15. Len(v) >= p + 11 /\ Len(v) # p + 12 /\ (tag = \h17 => Len(v) = p + 11)
  BY <1>5, <1>7, <1>9
<1> QED  BY <1>3, <1>4, <1>14, <1>15 DEF Shaped

(* The times of the first part of TimesRead. *)
Stamp(y, m, d, t) == <<days_from_civil(y, m, d), t[1] * 3600 + t[2] * 60 + t[3]>>
StatedAs(tag, v, y, m, d, t) ==
  parse_certificate_time(tag, v) =
    IF IsTime(y, m, d, t[1], t[2], t[3]) THEN {Stamp(y, m, d, t)} ELSE {}

Clocks == {<<0, 0, 0>>, <<23, 59, 59>>, <<24, 0, 0>>, <<0, 60, 0>>, <<0, 0, 60>>}

LEMMA Stated ==
  ASSUME NEW tag \in {\h17, \h18}, NEW v, NEW y \in Nat, YearFits(tag, y),
         NEW m \in 0..99, NEW d \in 0..99, NEW t \in Clocks, NEW f \in Seq(Bytes),
         IsFraction(f), tag = \h17 => f = <<>>,
         v = YearText(tag, y) \o Clock(m, d, t[1], t[2], t[3]) \o f \o Zulu
  PROVE  StatedAs(tag, v, y, m, d, t)
<1>1. PICK h \in 0..99, i \in 0..99, s \in 0..99 : h = t[1] /\ i = t[2] /\ s = t[3]
  <2>1. t[1] \in 0..99 /\ t[2] \in 0..99 /\ t[3] \in 0..99
    BY DEF Clocks
  <2> QED  BY <2>1
<1>2. InClock(m, d, h, i, s)
  BY DEF InClock
<1>3. Spelled(tag, v, y, m, d, h, i, s)
  BY <1>1, Zenon DEF Spelled
<1>4. v \in Seq(Bytes)
  <2>1. PICK a \in Seq(Bytes), c \in Seq(Bytes) :
          a = YearText(tag, y) /\ c = Clock(m, d, h, i, s)
    BY <1>2, YearTextBytes, InClockBytes
  <2>2. Zulu \in Seq(Bytes)
    <3>1. 90 \in Bytes
      BY DEF Bytes
    <3> QED  BY <3>1 DEF Zulu
  <2>3. a \o c \in Seq(Bytes)
    BY Concat
  <2>4. a \o c \o f \in Seq(Bytes)
    BY <2>3, Concat
  <2>5. a \o c \o f \o Zulu \in Seq(Bytes)
    BY <2>2, <2>4, Concat
  <2> QED  BY <1>1, <2>1, <2>5
<1>5. parse_certificate_time(tag, v) =
        IF Accepted(y, m, d, h, i, s) THEN {Instant(y, m, d, h, i, s)} ELSE {}
  BY <1>2, <1>3, <1>4, OneTime
<1>6. IsTime(y, m, d, h, i, s) <=> Accepted(y, m, d, h, i, s)
  <2>1. PICK n \in Nat : n = days_in_month(y, m)
    BY DEF days_in_month
  <2>2. d \in 1..n <=> d >= 1 /\ d <= n
    OBVIOUS
  <2>3. h < 24 /\ i < 60 /\ s < 60 <=> h <= 23 /\ i <= 59 /\ s <= 59
    OBVIOUS
  <2> QED  BY <2>1, <2>2, <2>3, Zenon DEF IsTime, Accepted
<1>7. IsTime(y, m, d, t[1], t[2], t[3]) <=> Accepted(y, m, d, h, i, s)
  BY <1>1, <1>6
<1>8. Instant(y, m, d, h, i, s) = Stamp(y, m, d, t)
  BY <1>1 DEF Instant, Stamp
<1> QED  BY <1>5, <1>7, <1>8, Zenon DEF StatedAs

TestYears == {1949, 1950, 2000, 2023, 2049, 2050}

LEMMA TextsStated ==
  ASSUME NEW y \in TestYears, NEW m \in {0, 1, 2, 4, 12, 13},
         NEW d \in {0, 1, 28, 29, 30, 31, 32}, NEW t \in Clocks
  PROVE  LET rest == Clock(m, d, t[1], t[2], t[3])
         IN /\ StatedAs(\h18, Four(y) \o rest \o Zulu, y, m, d, t)
            /\ StatedAs(\h18, Four(y) \o rest \o <<46, 53>> \o Zulu, y, m, d, t)
            /\ Short(y) => StatedAs(\h17, Two(y % 100) \o rest \o Zulu, y, m, d, t)
<1> DEFINE rest == Clock(m, d, t[1], t[2], t[3])
<1>0. y \in Nat /\ m \in 0..99 /\ d \in 0..99
  BY DEF TestYears
<1>1. PICK c \in Seq(Bytes) : c = rest
  <2>1. t[1] \in Nat /\ t[2] \in Nat /\ t[3] \in Nat
    BY DEF Clocks
  <2>2. m \in Nat /\ d \in Nat
    OBVIOUS
  <2>3. rest \in Seq(Bytes)
    BY <2>1, <2>2, ClockBytes, Zenon
  <2> QED  BY <2>3, Zenon
<1>2. <<>> \in Seq(Bytes) /\ IsFraction(<<>>)
  BY DEF IsFraction
<1>3. <<46, 53>> \in Seq(Bytes) /\ IsFraction(<<46, 53>>)
  <2>1. 46 \in Bytes /\ 53 \in Bytes
    BY DEF Bytes
  <2>2. <<46, 53>> \in Seq(Bytes)
    BY <2>1
  <2>3. PICK f : f = <<46, 53>>
    OBVIOUS
  <2>4. f \in Seq(Bytes) /\ Len(f) = 2 /\ f[1] = 46 /\ f[2] = 53 /\ f # <<>>
    BY <2>2, <2>3
  <2>5. \A i \in 2..Len(f) : i = 2
    BY <2>4
  <2>6. IsDigit(53)
    BY DEF IsDigit
  <2>7. Len(f) > 1
    BY <2>4
  <2> QED  BY <2>3, <2>4, <2>5, <2>6, <2>7 DEF IsFraction
<1>4. YearFits(\h18, y) /\ YearText(\h18, y) = Four(y)
  <2>1. \h18 # \h17
    OBVIOUS
  <2>2. IsYear(y)
    BY SMT DEF IsYear, TestYears
  <2> QED  BY <2>1, <2>2 DEF YearFits, YearText
<1>5. Four(y) \in Seq(Bytes) /\ Two(y % 100) \in Seq(Bytes)
  <2>1. y % 100 \in Nat
    BY <1>0
  <2> QED  BY <1>0, <2>1, FourBytes, TwoBytes
<1>6. Four(y) \o c \o <<>> = Four(y) \o c /\ Two(y % 100) \o c \o <<>> = Two(y % 100) \o c
  <2>1. Four(y) \o c \in Seq(Bytes) /\ Two(y % 100) \o c \in Seq(Bytes)
    BY <1>5, Concat
  <2> QED  BY <2>1, ConcatEmptySeq
<1> HIDE DEF rest
<1>7. StatedAs(\h18, Four(y) \o rest \o Zulu, y, m, d, t)
  <2>1. Four(y) \o rest \o Zulu = YearText(\h18, y) \o Clock(m, d, t[1], t[2], t[3]) \o <<>> \o Zulu
    BY <1>1, <1>4, <1>6 DEF rest
  <2>2. \h18 \in {\h17, \h18} /\ (\h18 = \h17 => <<>> = <<>>)
    OBVIOUS
  <2> HIDE DEF rest
  <2>3. PICK v : v = Four(y) \o rest \o Zulu
    OBVIOUS
  <2>4. PICK f \in Seq(Bytes) : f = <<>> /\ IsFraction(f)
    BY <1>2, Zenon
  <2>5. v = YearText(\h18, y) \o Clock(m, d, t[1], t[2], t[3]) \o f \o Zulu
    BY <2>1, <2>3, <2>4, Zenon
  <2>6. StatedAs(\h18, v, y, m, d, t)
    BY <1>0, <1>4, <2>2, <2>4, <2>5, Stated, Zenon
  <2> QED  BY <2>3, <2>6
<1>8. StatedAs(\h18, Four(y) \o rest \o <<46, 53>> \o Zulu, y, m, d, t)
  <2>1. PICK f \in Seq(Bytes) : f = <<46, 53>> /\ IsFraction(f)
    BY <1>3, Zenon
  <2>2. Four(y) \o rest \o f \o Zulu = YearText(\h18, y) \o Clock(m, d, t[1], t[2], t[3]) \o f \o Zulu
    BY <1>4 DEF rest
  <2>3. \h18 \in {\h17, \h18} /\ (\h18 = \h17 => f = <<>>)
    OBVIOUS
  <2>4. StatedAs(\h18, Four(y) \o rest \o f \o Zulu, y, m, d, t)
    BY <1>0, <1>4, <2>1, <2>2, <2>3, Stated, Zenon
  <2> QED  BY <2>1, <2>4
<1>9. ASSUME Short(y)
      PROVE  StatedAs(\h17, Two(y % 100) \o rest \o Zulu, y, m, d, t)
  <2>1. YearFits(\h17, y) /\ YearText(\h17, y) = Two(y % 100)
    BY <1>9 DEF YearFits, YearText
  <2>2. Two(y % 100) \o rest \o Zulu = YearText(\h17, y) \o Clock(m, d, t[1], t[2], t[3]) \o <<>> \o Zulu
    BY <1>1, <1>6, <2>1 DEF rest
  <2>3. \h17 \in {\h17, \h18}
    OBVIOUS
  <2>4. PICK v : v = Two(y % 100) \o rest \o Zulu
    OBVIOUS
  <2>5. v = YearText(\h17, y) \o Clock(m, d, t[1], t[2], t[3]) \o <<>> \o Zulu
    BY <2>2, <2>4
  <2>6. StatedAs(\h17, v, y, m, d, t)
    BY <1>0, <1>2, <2>1, <2>3, <2>5, Stated, Zenon
  <2> QED  BY <2>4, <2>6
<1> QED  BY <1>7, <1>8, <1>9 DEF rest

(* Noon in February 2026, and what is not read as it. *)
IsNoon(tag, text) ==
  tag \in {\h17, \h18} /\ \E y : YearFits(tag, y) /\ text = YearText(tag, y) \o Noon

LEMMA NoonBytes == /\ Noon \in Seq(Bytes) /\ Len(Noon) = 11
                   /\ Noon = Clock(2, 28, 12, 0, 1) \o <<>> \o Zulu
<1>1. PICK c \in Seq(Bytes) : c = Clock(2, 28, 12, 0, 1) /\ Len(c) = 10
  BY ClockBytes
<1>2. Zulu \in Seq(Bytes) /\ Len(Zulu) = 1
  <2>1. 90 \in Bytes
    BY DEF Bytes
  <2> QED  BY <2>1 DEF Zulu
<1>3. c \o Zulu \in Seq(Bytes) /\ Len(c \o Zulu) = Len(c) + Len(Zulu)
  BY <1>2, Concat
<1>4. c \o <<>> = c
  BY ConcatEmptySeq
<1>5. Noon = c \o Zulu
  BY <1>1 DEF Noon
<1>6. Len(Noon) = 11
  <2>1. 10 \in Nat /\ 1 \in Nat /\ 11 = 10 + 1
    OBVIOUS
  <2>3. Len(c) = 10
    BY <1>1
  <2>2. Len(c \o Zulu) = 11
    BY <1>2, <1>3, <2>3
  <2> QED  BY <1>5, <2>2, Zenon
<1> QED  BY <1>1, <1>3, <1>4, <1>5, <1>6, Zenon

NoonOf(y) == <<days_from_civil(y, 2, 28), 43201>>

LEMMA NoonRead ==
  ASSUME NEW tag \in {\h17, \h18}, NEW y, YearFits(tag, y)
  PROVE  /\ YearText(tag, y) \o Noon \in Seq(Bytes)
         /\ Len(YearText(tag, y) \o Noon) = YearDigits(tag) + 11
         /\ parse_certificate_time(tag, YearText(tag, y) \o Noon) =
              {NoonOf(y)}
<1>1. PICK a \in Seq(Bytes) : a = YearText(tag, y) /\ Len(a) = YearDigits(tag)
  BY YearTextBytes
<1>2. a \o Noon \in Seq(Bytes) /\ Len(a \o Noon) = YearDigits(tag) + 11
  <2>1. a \o Noon \in Seq(Bytes) /\ Len(a \o Noon) = Len(a) + Len(Noon)
    BY NoonBytes, Concat
  <2> QED  BY <1>1, <2>1, NoonBytes
<1>3. PICK c \in Seq(Bytes) : c = Clock(2, 28, 12, 0, 1)
  BY ClockBytes
<1>4. a \o Noon = a \o c \o <<>> \o Zulu
  <2>1. 90 \in Bytes
    BY DEF Bytes
  <2>2. Zulu \in Seq(Bytes) /\ a \o c \in Seq(Bytes)
    BY <2>1, Concat DEF Zulu
  <2>3. a \o (c \o Zulu) = (a \o c) \o Zulu
    <3>1. Associates(a, c, Zulu)
      BY <2>2, Associate
    <3> QED  BY <3>1, Zenon DEF Associates
  <2>4. (a \o c) \o <<>> = a \o c
    BY <2>2, ConcatEmptySeq
  <2> QED  BY <1>3, <2>3, <2>4 DEF Noon
<1>5. InClock(2, 28, 12, 0, 1)
  BY DEF InClock
<1>6. Spelled(tag, a \o Noon, y, 2, 28, 12, 0, 1)
  <2>1. <<>> \in Seq(Bytes) /\ IsFraction(<<>>)
    BY DEF IsFraction
  <2> QED  BY <1>1, <1>3, <1>4, <2>1, Zenon DEF Spelled
<1>7. parse_certificate_time(tag, a \o Noon) =
        IF Accepted(y, 2, 28, 12, 0, 1) THEN {Instant(y, 2, 28, 12, 0, 1)} ELSE {}
  <2>1. PICK v, m, d, h, i, s :
          v = a \o Noon /\ m = 2 /\ d = 28 /\ h = 12 /\ i = 0 /\ s = 1
    OBVIOUS
  <2>2. v \in Seq(Bytes) /\ InClock(m, d, h, i, s) /\ Spelled(tag, v, y, m, d, h, i, s)
    BY <1>2, <1>5, <1>6, <2>1
  <2>3. parse_certificate_time(tag, v) =
          IF Accepted(y, m, d, h, i, s) THEN {Instant(y, m, d, h, i, s)} ELSE {}
    BY <2>2, OneTime, Zenon
  <2> QED  BY <2>1, <2>3
<1>8. Accepted(y, 2, 28, 12, 0, 1)
  BY DEF Accepted, days_in_month
<1>9. Instant(y, 2, 28, 12, 0, 1) = NoonOf(y)
  BY DEF Instant, NoonOf
<1> QED  BY <1>1, <1>2, <1>7, <1>8, <1>9

(* A text that is not shaped as a time is refused. *)
LEMMA NotRead ==
  ASSUME NEW v \in Seq(Bytes), NEW tag \in {\h17, \h18}, NEW n, n = YearDigits(tag) + 11,
         \/ Len(v) < n \/ Len(v) = n + 1
         \/ Len(v) = n /\ \E i \in 1..n : v[i] = 47
  PROVE  parse_certificate_time(tag, v) = {}
<1> SUFFICES ASSUME parse_certificate_time(tag, v) # {} PROVE FALSE
  OBVIOUS
<1>1. PICK p \in Nat : p = YearDigits(tag) /\ n = p + 11
  BY DEF YearDigits
<1>2. Shaped(tag, v, p)
  BY <1>1, ReadShape
<1>3. /\ v[Len(v)] = 90 /\ Len(v) >= p + 11 /\ Len(v) # p + 12
      /\ \A i \in 1..(p + 10) : IsDigit(v[i])
  BY <1>2 DEF Shaped
<1>4. PICK l \in Nat : l = Len(v)
  BY LenProperties
<1>5. l = n /\ \E i \in 1..n : v[i] = 47
  BY <1>1, <1>3, <1>4
<1>6. PICK i \in 1..n : v[i] = 47
  BY <1>5
<1>7. i # n
  BY <1>3, <1>4, <1>5, <1>6
<1>8. i \in 1..(p + 10)
  BY <1>1, <1>7
<1>9. ~IsDigit(47)
  BY DEF IsDigit
<1> QED  BY <1>3, <1>6, <1>8, <1>9

DamagedAt(v, i, b) ==
  /\ Inserted(v, i, b) \in Seq(Bytes) /\ Len(Inserted(v, i, b)) = Len(v) + 1
  /\ i \in 1..Len(v) => /\ Without(v, i) \in Seq(Bytes)
                        /\ Len(Without(v, i)) = Len(v) - 1
                        /\ [v EXCEPT ![i] = b] \in Seq(Bytes)
                        /\ Len([v EXCEPT ![i] = b]) = Len(v)
                        /\ [v EXCEPT ![i] = b][i] = b

LEMMA DamagedBytes ==
  ASSUME NEW v \in Seq(Bytes), NEW i \in 1..(Len(v) + 1), NEW b \in Bytes
  PROVE  DamagedAt(v, i, b)
<1>1. PICK n \in Nat : n = Len(v)
  BY LenProperties
<1>2. PICK a \in Seq(Bytes) : a = SubSeq(v, 1, i - 1) /\ Len(a) = i - 1
  <2>1. 1 \in Int /\ i - 1 \in Int /\ 1 <= 1 /\ i - 1 <= Len(v) /\ 1 <= (i - 1) + 1 /\ (i - 1) - 1 + 1 = i - 1
    BY <1>1
  <2>2. SubSeq(v, 1, i - 1) \in Seq(Bytes) /\ Len(SubSeq(v, 1, i - 1)) = (i - 1) - 1 + 1
    BY <2>1, Part
  <2> QED  BY <2>1, <2>2
<1>3. Inserted(v, i, b) \in Seq(Bytes) /\ Len(Inserted(v, i, b)) = Len(v) + 1
  <2>1. PICK c \in Seq(Bytes) : c = SubSeq(v, i, n) /\ Len(c) = n - i + 1
    <3>1. i \in Int /\ n \in Int /\ 1 <= i /\ n <= Len(v) /\ i <= n + 1
      BY <1>1
    <3> QED  BY <3>1, Part
  <2>2. <<b>> \in Seq(Bytes) /\ Len(<<b>>) = 1
    OBVIOUS
  <2>3. a \o <<b>> \in Seq(Bytes) /\ Len(a \o <<b>>) = i
    <3>1. a \o <<b>> \in Seq(Bytes) /\ Len(a \o <<b>>) = Len(a) + Len(<<b>>)
      BY <2>2, Concat
    <3> QED  BY <1>1, <1>2, <2>2, <3>1
  <2>4. (a \o <<b>>) \o c \in Seq(Bytes) /\ Len((a \o <<b>>) \o c) = Len(a \o <<b>>) + Len(c)
    BY <2>3, Concat
  <2>5. Len((a \o <<b>>) \o c) = n + 1
    <3>1. Len(c) = n - i + 1 /\ Len(a \o <<b>>) = i
      BY <2>1, <2>3
    <3> QED  BY <2>4, <3>1
  <2> QED  BY <1>1, <1>2, <2>1, <2>4, <2>5 DEF Inserted
<1>4. ASSUME i \in 1..Len(v)
      PROVE  /\ Without(v, i) \in Seq(Bytes) /\ Len(Without(v, i)) = Len(v) - 1
             /\ [v EXCEPT ![i] = b] \in Seq(Bytes) /\ Len([v EXCEPT ![i] = b]) = Len(v)
             /\ [v EXCEPT ![i] = b][i] = b
  <2>1. PICK c \in Seq(Bytes) : c = SubSeq(v, i + 1, n) /\ Len(c) = n - i
    <3>1. i + 1 \in Int /\ n \in Int /\ 1 <= i + 1 /\ n <= Len(v) /\ i + 1 <= n + 1 /\ n - (i + 1) + 1 = n - i
      BY <1>1, <1>4
    <3>2. SubSeq(v, i + 1, n) \in Seq(Bytes) /\ Len(SubSeq(v, i + 1, n)) = n - (i + 1) + 1
      BY <3>1, Part
    <3> QED  BY <3>1, <3>2
  <2>2. a \o c \in Seq(Bytes) /\ Len(a \o c) = Len(a) + Len(c)
    BY Concat
  <2>3. Len(a \o c) = n - 1
    <3>1. Len(c) = n - i /\ Len(a) = i - 1
      BY <1>2, <2>1
    <3> QED  BY <2>2, <3>1
  <2>4. [v EXCEPT ![i] = b] \in Seq(Bytes) /\ Len([v EXCEPT ![i] = b]) = Len(v)
    BY ExceptSeq, <1>4
  <2>5. [v EXCEPT ![i] = b][i] = b
    BY <1>4
  <2> QED  BY <1>1, <1>2, <2>1, <2>2, <2>3, <2>4, <2>5 DEF Without
<1> QED  BY <1>3, <1>4, Zenon DEF DamagedAt

LEMMA NoonsRead ==
  ASSUME NEW tag, NEW text, IsNoon(tag, text)
  PROVE  /\ parse_certificate_time(tag, text) /= {}
         /\ \A i \in DOMAIN text : /\ parse_certificate_time(tag, Without(text, i)) = {}
                                   /\ parse_certificate_time(tag, [text EXCEPT ![i] = 47]) = {}
         /\ \A i \in 1..(Len(text) + 1) : parse_certificate_time(tag, Inserted(text, i, 46)) = {}
         /\ parse_certificate_time(\h16, text) = {}
<1>0. tag \in {\h17, \h18}
  BY DEF IsNoon
<1>1. text \in Seq(Bytes) /\ Len(text) = YearDigits(tag) + 11 /\ parse_certificate_time(tag, text) # {}
  <2>0. PICK y : YearFits(tag, y) /\ text = YearText(tag, y) \o Noon
    BY DEF IsNoon
  <2>1. text \in Seq(Bytes) /\ Len(text) = YearDigits(tag) + 11
    BY <1>0, <2>0, NoonRead
  <2>2. parse_certificate_time(tag, text) = {NoonOf(y)}
    BY <1>0, <2>0, NoonRead
  <2>3. parse_certificate_time(tag, text) # {}
    BY <2>2, Zenon
  <2> QED  BY <2>1, <2>3, Zenon
<1>2. PICK n \in Nat : n = Len(text) /\ n = YearDigits(tag) + 11
  BY <1>1, LenProperties
<1>3. DOMAIN text = 1..n
  BY <1>1, <1>2, LenProperties
<1>4. 46 \in Bytes /\ 47 \in Bytes
  BY DEF Bytes
<1>5. ASSUME NEW i \in 1..n
      PROVE  /\ parse_certificate_time(tag, Without(text, i)) = {}
             /\ parse_certificate_time(tag, [text EXCEPT ![i] = 47]) = {}
  <2>1. i \in 1..(Len(text) + 1) /\ i \in 1..Len(text)
    BY <1>2
  <2>2. /\ Without(text, i) \in Seq(Bytes) /\ Len(Without(text, i)) = n - 1
        /\ [text EXCEPT ![i] = 47] \in Seq(Bytes) /\ Len([text EXCEPT ![i] = 47]) = n
        /\ [text EXCEPT ![i] = 47][i] = 47
    <3>1. PICK b \in Bytes : b = 47
      BY <1>4
    <3>2. /\ Without(text, i) \in Seq(Bytes) /\ Len(Without(text, i)) = Len(text) - 1
          /\ [text EXCEPT ![i] = b] \in Seq(Bytes) /\ Len([text EXCEPT ![i] = b]) = Len(text)
          /\ [text EXCEPT ![i] = b][i] = b
      <4>1. DamagedAt(text, i, b)
        BY <1>1, <2>1, DamagedBytes
      <4> QED  BY <2>1, <4>1, Zenon DEF DamagedAt
    <3> QED  BY <1>2, <3>1, <3>2
  <2>3. PICK u, w : u = Without(text, i) /\ w = [text EXCEPT ![i] = 47]
    OBVIOUS
  <2>6. /\ u \in Seq(Bytes) /\ Len(u) < n /\ w \in Seq(Bytes) /\ Len(w) = n /\ w[i] = 47
    <3>1. n - 1 < n
      OBVIOUS
    <3> QED  BY <2>2, <2>3, <3>1, Zenon
  <2>4. parse_certificate_time(tag, u) = {}
    BY <1>0, <1>2, <2>6, NotRead
  <2>5. parse_certificate_time(tag, w) = {}
    BY <1>0, <1>2, <2>6, NotRead
  <2> QED  BY <2>3, <2>4, <2>5
<1>6. ASSUME NEW i \in 1..(Len(text) + 1)
      PROVE  parse_certificate_time(tag, Inserted(text, i, 46)) = {}
  <2>1. Inserted(text, i, 46) \in Seq(Bytes) /\ Len(Inserted(text, i, 46)) = n + 1
    <3>1. PICK b \in Bytes : b = 46
      BY <1>4
    <3>2. Inserted(text, i, b) \in Seq(Bytes) /\ Len(Inserted(text, i, b)) = Len(text) + 1
      <4>1. DamagedAt(text, i, b)
        BY <1>1, DamagedBytes
      <4> QED  BY <4>1, Zenon DEF DamagedAt
    <3> QED  BY <1>2, <3>1, <3>2
  <2> QED  BY <1>0, <1>2, <2>1, NotRead
<1>7. parse_certificate_time(\h16, text) = {}
  <2>1. \h16 \notin {\h17, \h18}
    OBVIOUS
  <2> QED  BY <1>1, <2>1, ReadShape DEF Shaped
<1> QED  BY <1>1, <1>2, <1>3, <1>5, <1>6, <1>7

TimesStatedBy(y, m, d, t) ==
  LET rest == Clock(m, d, t[1], t[2], t[3])
      expected == IF IsTime(y, m, d, t[1], t[2], t[3])
                  THEN {<<days_from_civil(y, m, d), t[1] * 3600 + t[2] * 60 + t[3]>>} ELSE {}
  IN /\ parse_certificate_time(\h18, Four(y) \o rest \o Zulu) = expected
     /\ parse_certificate_time(\h18, Four(y) \o rest \o <<46, 53>> \o Zulu) = expected
     /\ Short(y) => parse_certificate_time(\h17, Two(y % 100) \o rest \o Zulu) = expected
OnlyRead(tag, text) ==
  /\ parse_certificate_time(tag, text) /= {}
  /\ \A i \in DOMAIN text : /\ parse_certificate_time(tag, Without(text, i)) = {}
                            /\ parse_certificate_time(tag, [text EXCEPT ![i] = 47]) = {}
  /\ \A i \in 1..(Len(text) + 1) : parse_certificate_time(tag, Inserted(text, i, 46)) = {}
  /\ parse_certificate_time(\h16, text) = {}

LEMMA TimesAreRead == TimesRead
<1>1. \A y \in TestYears, m \in {0, 1, 2, 4, 12, 13},
         d \in {0, 1, 28, 29, 30, 31, 32}, t \in Clocks :
        LET rest == Clock(m, d, t[1], t[2], t[3])
        IN /\ StatedAs(\h18, Four(y) \o rest \o Zulu, y, m, d, t)
           /\ StatedAs(\h18, Four(y) \o rest \o <<46, 53>> \o Zulu, y, m, d, t)
           /\ Short(y) => StatedAs(\h17, Two(y % 100) \o rest \o Zulu, y, m, d, t)
  BY TextsStated
<1>2. ASSUME NEW tag, NEW text, IsNoon(tag, text)
      PROVE  OnlyRead(tag, text)
  BY <1>2, NoonsRead, Zenon DEF OnlyRead
<1>3. IsNoon(\h17, Two(26) \o Noon) /\ IsNoon(\h18, Four(2026) \o Noon)
  <2>1. PICK y : y = 2026
    OBVIOUS
  <2>2. /\ YearFits(\h17, y) /\ YearText(\h17, y) = Two(26)
        /\ YearFits(\h18, y) /\ YearText(\h18, y) = Four(y)
    <3>1. \h18 # \h17 /\ y % 100 = 26
      BY <2>1
    <3>2. Short(y)
      BY <2>1 DEF Short
    <3>3. IsYear(y)
      BY <2>1, SMT DEF IsYear
    <3> QED  BY <3>1, <3>2, <3>3 DEF YearFits, YearText
  <2>3. \h17 \in {\h17, \h18} /\ \h18 \in {\h17, \h18}
    OBVIOUS
  <2>4. IsNoon(\h17, Two(26) \o Noon) /\ IsNoon(\h18, Four(y) \o Noon)
    BY <2>2, <2>3, Zenon DEF IsNoon
  <2> QED  BY <2>1, <2>4
<1>4. ASSUME NEW x \in {<<\h17, Two(26) \o Noon>>, <<\h18, Four(2026) \o Noon>>}
      PROVE  OnlyRead(x[1], x[2])
  <2>0. \A tag, text : IsNoon(tag, text) => OnlyRead(tag, text)
    BY <1>2
  <2>1. CASE x = <<\h17, Two(26) \o Noon>>
    BY <1>3, <2>0, <2>1
  <2>2. CASE x = <<\h18, Four(2026) \o Noon>>
    BY <1>3, <2>0, <2>2
  <2> QED  BY <2>1, <2>2
<1>5. \A y \in TestYears, m \in {0, 1, 2, 4, 12, 13}, d \in {0, 1, 28, 29, 30, 31, 32}, t \in Clocks :
        TimesStatedBy(y, m, d, t)
  <2>1. ASSUME NEW y \in TestYears, NEW m \in {0, 1, 2, 4, 12, 13},
               NEW d \in {0, 1, 28, 29, 30, 31, 32}, NEW t \in Clocks
        PROVE  TimesStatedBy(y, m, d, t)
    <3> DEFINE rest == Clock(m, d, t[1], t[2], t[3])
    <3>1. /\ StatedAs(\h18, Four(y) \o rest \o Zulu, y, m, d, t)
          /\ StatedAs(\h18, Four(y) \o rest \o <<46, 53>> \o Zulu, y, m, d, t)
          /\ Short(y) => StatedAs(\h17, Two(y % 100) \o rest \o Zulu, y, m, d, t)
      BY <1>1
    <3> QED  BY <3>1 DEF StatedAs, TimesStatedBy, Stamp
  <2> QED  BY <2>1, Zenon
<1>7. TimesRead <=>
        /\ \A y \in TestYears, m \in {0, 1, 2, 4, 12, 13}, d \in {0, 1, 28, 29, 30, 31, 32},
              t \in Clocks : TimesStatedBy(y, m, d, t)
        /\ \A x \in {<<\h17, Two(26) \o Noon>>, <<\h18, Four(2026) \o Noon>>} : OnlyRead(x[1], x[2])
  BY SMT DEF TimesRead, Clocks, TestYears, Short, TimesStatedBy, OnlyRead
<1> QED  BY <1>4, <1>5, <1>7

-----------------------------------------------------------------------------
(* The certificates that ValidityFound names.                               *)

LEMMA Below ==
  ASSUME NEW k \in Nat, k < 128
  PROVE  k \in 0..127
  OBVIOUS

(* A value with a short length is read, and what follows it is its rest. *)
ShortRead(tag, value, rest) ==
  /\ Tlv(tag, value) \in Seq(Bytes) /\ Len(Tlv(tag, value)) = Len(value) + 2
  /\ read_der_tlv(Tlv(tag, value) \o rest) = {TlvRecord(tag, value, rest)}

LEMMA ShortIsRead ==
  ASSUME NEW tag \in Bytes, NEW value \in Seq(Bytes), NEW rest \in Seq(Bytes), Len(value) < 128
  PROVE  ShortRead(tag, value, rest)
<1>0. Len(value) \in 0..127
  <2>1. PICK k \in Nat : k = Len(value)
    BY LenProperties
  <2>2. k < 128
    BY <2>1
  <2>3. k \in 0..127
    BY <2>2, Below
  <2> QED  BY <2>1, <2>3
<1>1. PICK n \in 0..127 : n = Len(value)
  BY <1>0, Zenon
<1>2. n \in Bytes /\ <<tag, n>> \in Seq(Bytes) /\ Len(<<tag, n>>) = 2
  <2>1. n \in Bytes
    BY DEF Bytes
  <2> QED  BY <2>1
<1>3. Tlv(tag, value) = <<tag, n>> \o value
  BY <1>1 DEF Tlv
<1>4. Tlv(tag, value) \in Seq(Bytes) /\ Len(Tlv(tag, value)) = Len(value) + 2
  <2>1. PICK a \in Seq(Bytes) : a = <<tag, n>> /\ Len(a) = 2
    BY <1>2, Zenon
  <2>2. a \o value \in Seq(Bytes) /\ Len(a \o value) = Len(a) + Len(value)
    BY Concat
  <2>3. Len(a) + Len(value) = Len(value) + 2
    BY <1>1, <2>1
  <2> QED  BY <1>3, <2>1, <2>2, <2>3
<1>5. Tlv(tag, value) \in Spellings(tag, value)
  <2>1. Sized(n, n, <<>>)
    BY <1>1 DEF Sized
  <2>2. <<tag, n>> = <<tag>> \o (<<n>> \o <<>>)
    <3>1. <<n>> \o <<>> = <<n>>
      OBVIOUS
    <3>2. <<tag>> \o <<n>> = <<tag, n>>
      BY <1>2, Pair
    <3> QED  BY <3>1, <3>2
  <2>3. SpeltAs(Tlv(tag, value), tag, value, n)
    BY <1>3, <2>1, <2>2, Zenon DEF SpeltAs
  <2> QED  BY <1>1, <2>3, Written
<1>6. read_der_tlv(Tlv(tag, value) \o rest) = {[tag |-> tag, value |-> value, rest |-> rest]}
  BY <1>5, SpellingIsRead
<1> QED  BY <1>4, <1>6, Zenon DEF ShortRead, TlvRecord

LEMMA TlvParts ==
  ASSUME NEW tag, NEW value, NEW rest, NEW x, x = TlvRecord(tag, value, rest)
  PROVE  x.tag = tag /\ x.value = value /\ x.rest = rest
BY DEF TlvRecord

AfterAt(tag, value, rest) ==
  /\ read_der_value(Tlv(tag, value) \o rest, tag) = {TlvRecord(tag, value, rest)}
  /\ After({Tlv(tag, value) \o rest}, tag) = {rest}

LEMMA AfterShort ==
  ASSUME NEW tag \in Bytes, NEW value \in Seq(Bytes), NEW rest \in Seq(Bytes), Len(value) < 128
  PROVE  AfterAt(tag, value, rest)
<1>1. read_der_tlv(Tlv(tag, value) \o rest) = {TlvRecord(tag, value, rest)}
  BY ShortIsRead DEF ShortRead
<1>2. PICK x : x = TlvRecord(tag, value, rest)
  OBVIOUS
<1>3. x.tag = tag /\ x.rest = rest
  BY <1>2, TlvParts
<1>4. read_der_value(Tlv(tag, value) \o rest, tag) = {x}
  BY <1>1, <1>2, <1>3, Zenon DEF read_der_value
<1>5. After({Tlv(tag, value) \o rest}, tag) = {rest}
  <2>1. PICK input : input = Tlv(tag, value) \o rest
    OBVIOUS
  <2>2. \A e : e \in After({input}, tag) <=> \E y \in read_der_value(input, tag) : e = y.rest
    BY DEF After
  <2>3. read_der_value(input, tag) = {x}
    BY <1>4, <2>1
  <2>4. \A e : e \in After({input}, tag) <=> e = rest
    BY <1>3, <2>2, <2>3
  <2> QED  BY <2>1, <2>4
<1> QED  BY <1>2, <1>4, <1>5, Zenon DEF AfterAt

(* A value cut short is not read. *)
LEMMA CutShort ==
  ASSUME NEW tag \in Bytes, NEW value \in Seq(Bytes), Len(value) < 128,
         NEW i \in 1..(Len(value) + 2)
  PROVE  read_der_tlv(SubSeq(Tlv(tag, value), 1, i - 1)) = {}
<1>0. Len(value) \in 0..127
  <2>1. PICK k \in Nat : k = Len(value)
    BY LenProperties
  <2>2. k < 128
    BY <2>1
  <2>3. k \in 0..127
    BY <2>2, Below
  <2> QED  BY <2>1, <2>3
<1>1. PICK n \in 0..127 : n = Len(value)
  BY <1>0, Zenon
<1>2. PICK s \in Seq(Bytes) : s = Tlv(tag, value) /\ Len(s) = n + 2 /\ s[2] = n
  <2>1. <<>> \in Seq(Bytes)
    OBVIOUS
  <2>2. Tlv(tag, value) \in Seq(Bytes) /\ Len(Tlv(tag, value)) = n + 2
    BY <1>1, <2>1, ShortIsRead DEF ShortRead
  <2>3. PICK a \in Seq(Bytes) : a = <<tag, n>> /\ Len(a) = 2 /\ a[2] = n
    <3>1. n \in Bytes /\ <<tag, n>> \in Seq(Bytes)
      <4>1. n \in Bytes
        BY DEF Bytes
      <4> QED  BY <4>1
    <3>2. Len(<<tag, n>>) = 2 /\ <<tag, n>>[2] = n
      OBVIOUS
    <3> QED  BY <3>1, <3>2, Zenon
  <2>4. IsConcat(a \o value, a, value)
    BY ConcatAt
  <2>5. (a \o value)[2] = n
    BY <2>3, <2>4 DEF IsConcat
  <2> QED  BY <1>1, <2>2, <2>3, <2>5 DEF Tlv
<1>3. PICK u : u = SubSeq(s, 1, i - 1)
  OBVIOUS
<1>4. \A k \in 1..(i - 1) : s[k] \in Bytes
  BY <1>1, <1>2, ElementOfSeq
<1>5. u \in Seq(Bytes) /\ Len(u) = i - 1 /\ \A k \in 1..(i - 1) : u[k] = s[k]
  <2>1. 1 \in Int /\ i - 1 \in Int /\ 1 <= 1 /\ i - 1 <= Len(s) /\ 1 <= (i - 1) + 1
    BY <1>1, <1>2
  <2>2. u \in Seq(Bytes) /\ Len(u) = (i - 1) - 1 + 1
    BY <1>2, <1>3, <2>1, Part
  <2>3. \A k \in 1..((i - 1) - 1 + 1) : u[k] = s[1 + k - 1]
    BY <1>3, <1>4, SubSeqProperties
  <2>4. (i - 1) - 1 + 1 = i - 1 /\ \A k \in 1..(i - 1) : 1 + k - 1 = k
    BY <2>1
  <2> QED  BY <2>2, <2>3, <2>4
<1>6. Len(u) < 2 \/ (~(Len(u) < 2) /\ u[2] < 128 /\ u[2] > Len(u) - 2)
  <2> SUFFICES ASSUME ~(Len(u) < 2) PROVE u[2] < 128 /\ u[2] > Len(u) - 2
    OBVIOUS
  <2>1. 2 \in 1..(i - 1) /\ i - 1 < n + 2
    BY <1>1, <1>5
  <2>2. u[2] = n
    BY <1>2, <1>5, <2>1
  <2> QED  BY <1>1, <1>5, <2>1, <2>2
<1> DEFINE first == u[2]
           more == first - 128
           head == IF first < 128 THEN 2 ELSE 2 + more
           length == IF first < 128 THEN first ELSE BigEndian(SubSeq(u, 3, 2 + more))
<1>7. read_der_tlv(u) =
        IF \/ Len(u) < 2
           \/ first >= 128 /\ (more = 0 \/ more > Wide \/ more > Len(u) - 2)
           \/ length > Len(u) - head
        THEN {}
        ELSE {[tag |-> u[1], value |-> SubSeq(u, head + 1, head + length),
               rest |-> SubSeq(u, head + length + 1, Len(u))]}
  BY Zenon DEF read_der_tlv
<1>8. Len(u) < 2 \/ length > Len(u) - head
  BY <1>6
<1> HIDE DEF first, more, head, length
<1>9. read_der_tlv(u) = {}
  BY <1>7, <1>8, Zenon
<1> QED  BY <1>2, <1>3, <1>9

AllAssociate(a, b, c, d, e, f) ==
  a \o b \o c \o d \o e \o f = a \o (b \o (c \o (d \o (e \o f))))

LEMMA AssociateAll ==
  ASSUME NEW a \in Seq(Bytes), NEW b \in Seq(Bytes), NEW c \in Seq(Bytes),
         NEW d \in Seq(Bytes), NEW e \in Seq(Bytes), NEW f \in Seq(Bytes)
  PROVE  AllAssociate(a, b, c, d, e, f)
<1>1. PICK ef \in Seq(Bytes) : ef = e \o f
  BY Concat
<1>2. PICK def \in Seq(Bytes) : def = d \o ef
  BY Concat
<1>3. PICK cdef \in Seq(Bytes) : cdef = c \o def
  BY Concat
<1>4. PICK ab \in Seq(Bytes) : ab = a \o b
  BY Concat
<1>5. PICK abc \in Seq(Bytes) : abc = ab \o c
  BY Concat
<1>6. PICK abcd \in Seq(Bytes) : abcd = abc \o d
  BY Concat
<1>7. /\ Associates(abcd, e, f) /\ Associates(abc, d, ef)
      /\ Associates(ab, c, def) /\ Associates(a, b, cdef)
  BY Associate
<1>8. a \o b \o c \o d \o e \o f = abcd \o ef
  BY <1>1, <1>4, <1>5, <1>6, <1>7, Zenon DEF Associates
<1>9. abcd \o ef = abc \o def
  BY <1>2, <1>6, <1>7, Zenon DEF Associates
<1>10. abc \o def = ab \o cdef
  BY <1>3, <1>5, <1>7, Zenon DEF Associates
<1>11. ab \o cdef = a \o (b \o cdef)
  BY <1>4, <1>7, Zenon DEF Associates
<1> QED  BY <1>1, <1>2, <1>3, <1>8, <1>9, <1>10, <1>11, Zenon DEF AllAssociate

(* The body of a certificate with this validity. *)
Null == <<5, 0>>
Fields(validity) ==
  Tlv(2, <<1>>) \o (Tlv(\h30, <<>>) \o (Tlv(\h30, <<>>) \o (Tlv(\h30, validity) \o Null)))
Body(version, validity) ==
  version \o Tlv(2, <<1>>) \o Tlv(\h30, <<>>) \o Tlv(\h30, <<>>)
    \o Tlv(\h30, validity) \o <<5, 0>>
Versions == {<<>>, Tlv(\ha0, <<2, 1, 2>>)}

LEMMA SmallBytes ==
  /\ 0 \in Bytes /\ 1 \in Bytes /\ 2 \in Bytes /\ 3 \in Bytes /\ 5 \in Bytes
  /\ \h30 \in Bytes /\ \ha0 \in Bytes /\ \h18 \in Bytes
  /\ <<>> \in Seq(Bytes) /\ Len(<<>>) = 0
  /\ <<0>> \in Seq(Bytes) /\ Len(<<0>>) = 1
  /\ <<1>> \in Seq(Bytes) /\ Len(<<1>>) = 1
  /\ <<2, 1, 2>> \in Seq(Bytes) /\ Len(<<2, 1, 2>>) = 3
  /\ Null \in Seq(Bytes) /\ Len(Null) = 2
<1>1. /\ 0 \in Bytes /\ 1 \in Bytes /\ 2 \in Bytes /\ 3 \in Bytes /\ 5 \in Bytes
      /\ \h30 \in Bytes /\ \ha0 \in Bytes /\ \h18 \in Bytes
  BY DEF Bytes
<1>2. <<>> \in Seq(Bytes) /\ Len(<<>>) = 0
  OBVIOUS
<1>3. <<0>> \in Seq(Bytes) /\ Len(<<0>>) = 1 /\ <<1>> \in Seq(Bytes) /\ Len(<<1>>) = 1
  BY <1>1
<1>4. <<2, 1, 2>> \in Seq(Bytes) /\ Len(<<2, 1, 2>>) = 3
  BY <1>1
<1>5. Null \in Seq(Bytes) /\ Len(Null) = 2
  BY <1>1 DEF Null
<1> QED  BY <1>1, <1>2, <1>3, <1>4, <1>5

LEMMA TlvBytes ==
  ASSUME NEW tag \in Bytes, NEW value \in Seq(Bytes), NEW n \in Nat, Len(value) = n, n < 128
  PROVE  Tlv(tag, value) \in Seq(Bytes) /\ Len(Tlv(tag, value)) = n + 2
<1>1. ShortRead(tag, value, <<>>)
  BY SmallBytes, ShortIsRead
<1> QED  BY <1>1 DEF ShortRead

(* The first byte of what is read is its tag. *)
FirstIs(s, tag) == s # <<>> /\ s[1] = tag

LEMMA FirstByte ==
  ASSUME NEW tag \in Bytes, NEW value \in Seq(Bytes), NEW rest \in Seq(Bytes), Len(value) < 128,
         NEW s, s = Tlv(tag, value) \o rest
  PROVE  FirstIs(s, tag)
<1>1. read_der_tlv(s) = {TlvRecord(tag, value, rest)}
  BY ShortIsRead, Zenon DEF ShortRead
<1>2. PICK x : x = TlvRecord(tag, value, rest)
  OBVIOUS
<1>3. x.tag = tag /\ x \in read_der_tlv(s)
  BY <1>1, <1>2, TlvParts
<1>4. \A y \in read_der_tlv(s) : y.tag = s[1]
  BY DEF read_der_tlv
<1>5. s # <<>>
  <2> SUFFICES ASSUME s = <<>> PROVE FALSE
    OBVIOUS
  <2>1. Len(s) < 2
    OBVIOUS
  <2>2. read_der_tlv(s) = {}
    BY <2>1, Zenon DEF read_der_tlv
  <2> QED  BY <1>3, <2>2
<1> QED  BY <1>3, <1>4, <1>5 DEF FirstIs

(* A sequence of n bytes that starts with a value with this tag. *)
Starts(s, tag, value, rest, n) ==
  /\ s = Tlv(tag, value) \o rest /\ s \in Seq(Bytes) /\ Len(s) = n
  /\ read_der_tlv(s) = {TlvRecord(tag, value, rest)}
  /\ read_der_value(s, tag) = {TlvRecord(tag, value, rest)}
  /\ After({s}, tag) = {rest} /\ FirstIs(s, tag)

LEMMA StartsWith ==
  ASSUME NEW tag \in Bytes, NEW value \in Seq(Bytes), NEW rest \in Seq(Bytes),
         NEW n \in Nat, NEW k \in Nat, NEW m, Len(value) = n, Len(rest) = k, n < 128, m = n + k + 2
  PROVE  Starts(Tlv(tag, value) \o rest, tag, value, rest, m)
<1>1. PICK a \in Seq(Bytes) : a = Tlv(tag, value) /\ Len(a) = n + 2
  BY TlvBytes
<1>2. a \o rest \in Seq(Bytes) /\ Len(a \o rest) = Len(a) + Len(rest)
  BY Concat
<1>3. Len(a \o rest) = m
  BY <1>1, <1>2
<1>4. Len(value) < 128
  OBVIOUS
<1>5. /\ read_der_value(Tlv(tag, value) \o rest, tag) = {TlvRecord(tag, value, rest)}
      /\ After({Tlv(tag, value) \o rest}, tag) = {rest}
  <2>1. AfterAt(tag, value, rest)
    BY <1>4, AfterShort
  <2> QED  BY <2>1, Zenon DEF AfterAt
<1>6. FirstIs(Tlv(tag, value) \o rest, tag)
  BY <1>4, FirstByte
<1>7. read_der_tlv(Tlv(tag, value) \o rest) = {TlvRecord(tag, value, rest)}
  <2>1. ShortRead(tag, value, rest)
    BY <1>4, ShortIsRead
  <2> QED  BY <2>1, Zenon DEF ShortRead
<1> QED  BY <1>1, <1>2, <1>3, <1>5, <1>6, <1>7 DEF Starts

FieldsSized(validity, n) ==
  /\ Fields(validity) \in Seq(Bytes) /\ Len(Fields(validity)) = n + 11
  /\ After(After(After({Fields(validity)}, \h02), \h30), \h30) = {Tlv(\h30, validity) \o Null}
  /\ Fields(validity)[1] = 2

LEMMA FieldsAreRead ==
  ASSUME NEW validity \in Seq(Bytes), NEW n \in Nat, Len(validity) = n, n < 128
  PROVE  FieldsSized(validity, n)
<1>1. PICK none \in Seq(Bytes), one \in Seq(Bytes), null \in Seq(Bytes), t \in Bytes, u \in Bytes :
        /\ none = <<>> /\ one = <<1>> /\ null = Null /\ t = \h30 /\ u = \h02
        /\ Len(none) = 0 /\ Len(one) = 1 /\ Len(null) = 2
  BY SmallBytes, Zenon
<1>2. PICK d \in Seq(Bytes) : Starts(d, t, validity, null, n + 4)
  <2>1. PICK k \in Nat, m \in Nat : k = 2 /\ m = n + 4 /\ m = n + k + 2
    OBVIOUS
  <2>2. Len(null) = k
    BY <1>1, <2>1
  <2>3. Starts(Tlv(t, validity) \o null, t, validity, null, m)
    BY <2>1, <2>2, StartsWith
  <2> QED  BY <2>1, <2>3 DEF Starts
<1>3. PICK c \in Seq(Bytes) : Starts(c, t, none, d, n + 6)
  <2>1. PICK z \in Nat, k \in Nat, m \in Nat :
          z = 0 /\ k = n + 4 /\ m = n + 6 /\ m = z + k + 2 /\ z < 128
    OBVIOUS
  <2>2. Len(d) = k
    BY <1>2, <2>1 DEF Starts
  <2>4. Len(none) = z
    BY <1>1, <2>1
  <2>3. Starts(Tlv(t, none) \o d, t, none, d, m)
    BY <2>1, <2>2, <2>4, StartsWith
  <2> QED  BY <2>1, <2>3 DEF Starts
<1>4. PICK b \in Seq(Bytes) : Starts(b, t, none, c, n + 8)
  <2>1. PICK z \in Nat, k \in Nat, m \in Nat :
          z = 0 /\ k = n + 6 /\ m = n + 8 /\ m = z + k + 2 /\ z < 128
    OBVIOUS
  <2>2. Len(c) = k
    BY <1>3, <2>1 DEF Starts
  <2>4. Len(none) = z
    BY <1>1, <2>1
  <2>3. Starts(Tlv(t, none) \o c, t, none, c, m)
    BY <2>1, <2>2, <2>4, StartsWith
  <2> QED  BY <2>1, <2>3 DEF Starts
<1>5. PICK a \in Seq(Bytes) : Starts(a, u, one, b, n + 11)
  <2>1. n + 11 = 1 + (n + 8) + 2 /\ 1 \in Nat /\ n + 8 \in Nat /\ 1 < 128
    OBVIOUS
  <2>2. Len(b) = n + 8
    BY <1>4 DEF Starts
  <2>3. Starts(Tlv(u, one) \o b, u, one, b, n + 11)
    BY <1>1, <2>1, <2>2, StartsWith
  <2> QED  BY <2>3 DEF Starts
<1>6. a = Fields(validity)
  <2>1. a = Tlv(u, one) \o b /\ b = Tlv(t, none) \o c /\ c = Tlv(t, none) \o d /\ d = Tlv(t, validity) \o null
    BY <1>2, <1>3, <1>4, <1>5 DEF Starts
  <2>2. \h02 = 2
    OBVIOUS
  <2> QED  BY <1>1, <2>1, <2>2 DEF Fields
<1>7. After({a}, u) = {b} /\ After({b}, t) = {c} /\ After({c}, t) = {d}
  BY <1>3, <1>4, <1>5 DEF Starts
<1>8. After(After(After({a}, u), t), t) = {d}
  BY <1>7, Zenon
<1>9. a[1] = 2
  BY <1>1, <1>5 DEF Starts, FirstIs
<1>10. d = Tlv(t, validity) \o null /\ a \in Seq(Bytes) /\ Len(a) = n + 11
  BY <1>2, <1>5 DEF Starts
<1>11. After(After(After({a}, \h02), \h30), \h30) = {Tlv(\h30, validity) \o Null}
  BY <1>1, <1>8, <1>10, Zenon
<1> QED  BY <1>6, <1>9, <1>10, <1>11, Zenon DEF FieldsSized

(* The validity after these three fields, and the one of a body. *)
ValidityAfter(fields) ==
  UNION {{x.value : x \in read_der_value(i, \h30)} :
           i \in After(After(After(fields, \h02), \h30), \h30)}

LEMMA ValidityIn ==
  ASSUME NEW validity \in Seq(Bytes), NEW n \in Nat, Len(validity) = n, n < 128
  PROVE  ValidityAfter({Fields(validity)}) = {validity}
<1>1. PICK null \in Seq(Bytes), t \in Bytes : null = Null /\ t = \h30 /\ Len(null) = 2
  BY SmallBytes, Zenon
<1> DEFINE m == n + 2 + 2
<1>2. PICK d : Starts(d, t, validity, null, m)
  <2>0. PICK k \in Nat : k = 2 /\ m = n + k + 2
    OBVIOUS
  <2>1. Len(null) = k
    BY <1>1, <2>0
  <2> HIDE DEF m
  <2>2. Starts(Tlv(t, validity) \o null, t, validity, null, m)
    BY <2>0, <2>1, StartsWith
  <2> QED  BY <2>2
<1>3. read_der_value(d, t) = {TlvRecord(t, validity, null)} /\ d = Tlv(t, validity) \o null
  BY <1>2 DEF Starts
<1>4. FieldsSized(validity, n)
  BY FieldsAreRead
<1>5. After(After(After({Fields(validity)}, \h02), \h30), \h30) = {d}
  BY <1>1, <1>3, <1>4, Zenon DEF FieldsSized
<1>6. ValidityAfter({Fields(validity)}) = UNION {{x.value : x \in read_der_value(i, t)} : i \in {d}}
  BY <1>1, <1>5, Zenon DEF ValidityAfter
<1>7. PICK x : x = TlvRecord(t, validity, null) /\ x.value = validity
  BY TlvParts
<1>8. {y.value : y \in read_der_value(d, t)} = {validity}
  BY <1>3, <1>7
<1>9. \A e : e \in UNION {{y.value : y \in read_der_value(i, t)} : i \in {d}}
             <=> e \in {y.value : y \in read_der_value(d, t)}
  OBVIOUS
<1> QED  BY <1>6, <1>8, <1>9, Zenon

LEMMA BodyOfFields ==
  ASSUME NEW version \in Seq(Bytes), NEW validity \in Seq(Bytes), NEW n \in Nat,
         Len(validity) = n, n < 128
  PROVE  Body(version, validity) = version \o Fields(validity)
<1>1. PICK none \in Seq(Bytes), one \in Seq(Bytes), null \in Seq(Bytes), t \in Bytes, u \in Bytes :
        /\ none = <<>> /\ one = <<1>> /\ null = Null /\ t = \h30 /\ u = 2
        /\ Len(none) = 0 /\ Len(one) = 1
  BY SmallBytes, Zenon
<1>2. PICK b \in Seq(Bytes) : b = Tlv(u, one)
  <2>1. PICK j \in Nat : Len(one) = j /\ j < 128
    BY <1>1
  <2> QED  BY <2>1, TlvBytes
<1>3. PICK c \in Seq(Bytes) : c = Tlv(t, none)
  <2>1. PICK j \in Nat : Len(none) = j /\ j < 128
    BY <1>1
  <2> QED  BY <2>1, TlvBytes
<1>4. PICK d \in Seq(Bytes) : d = Tlv(t, validity)
  BY TlvBytes
<1>5. version \o b \o c \o c \o d \o null = version \o (b \o (c \o (c \o (d \o null))))
  <2>1. AllAssociate(version, b, c, c, d, null)
    BY AssociateAll
  <2> QED  BY <2>1, Zenon DEF AllAssociate
<1>6. Body(version, validity) = version \o b \o c \o c \o d \o null
  BY <1>1, <1>2, <1>3, <1>4, Zenon DEF Body, Null
<1>7. Fields(validity) = b \o (c \o (c \o (d \o null)))
  BY <1>1, <1>2, <1>3, <1>4, Zenon DEF Fields
<1> QED  BY <1>5, <1>6, <1>7

BodySized(version, validity, n) ==
  /\ Body(version, validity) \in Seq(Bytes)
  /\ Len(Body(version, validity)) \in Nat
  /\ Len(Body(version, validity)) <= n + 16
  /\ ValidityOf(Body(version, validity)) = {validity}

LEMMA BodyRead ==
  ASSUME NEW version \in Versions, NEW validity \in Seq(Bytes), NEW n \in Nat,
         Len(validity) = n, n < 128
  PROVE  BodySized(version, validity, n)
<1>0. FieldsSized(validity, n)
  BY FieldsAreRead
<1>1. PICK f \in Seq(Bytes) : f = Fields(validity) /\ Len(f) = n + 11 /\ f[1] = 2
  BY <1>0 DEF FieldsSized
<1>2. ValidityAfter({f}) = {validity}
  BY <1>1, ValidityIn
<1>3. ASSUME NEW s
      PROVE  /\ FirstIs(s, \ha0) => ValidityOf(s) = ValidityAfter(After({s}, \ha0))
             /\ s[1] # \ha0 => ValidityOf(s) = ValidityAfter({s})
  BY Zenon DEF ValidityOf, ValidityAfter, FirstIs
<1>4. CASE version = <<>>
  <2>1. <<>> \in Seq(Bytes) /\ <<>> \o f = f
    BY <1>1, ConcatEmptySeq
  <2>2. Body(version, validity) = f
    BY <1>1, <1>4, <2>1, BodyOfFields
  <2>5. f[1] # \ha0
    BY <1>1
  <2>3. ValidityOf(f) = {validity}
    BY <1>2, <1>3, <2>5, Zenon
  <2>4. Len(f) \in Nat /\ Len(f) <= n + 16
    BY <1>1
  <2> QED  BY <1>1, <2>2, <2>3, <2>4 DEF BodySized
<1>5. CASE version = Tlv(\ha0, <<2, 1, 2>>)
  <2>0. PICK w \in Seq(Bytes), a \in Bytes : w = <<2, 1, 2>> /\ a = \ha0 /\ Len(w) = 3
    BY SmallBytes, Zenon
  <2>1. PICK j \in Nat, k \in Nat, m \in Nat : j = 3 /\ k = n + 11 /\ m = j + k + 2
    OBVIOUS
  <2>2. Len(f) = k /\ Len(w) = j /\ j < 128 /\ m = n + 16
    BY <1>1, <2>0, <2>1
  <2>3. Starts(Tlv(a, w) \o f, a, w, f, m)
    BY <2>1, <2>2, StartsWith
  <2>4. PICK s \in Seq(Bytes) : Starts(s, a, w, f, m) /\ s = Tlv(a, w) \o f
    BY <2>3 DEF Starts
  <2>5. version = Tlv(a, w) /\ version \in Seq(Bytes)
    BY <1>5, <2>0, <2>2, TlvBytes
  <2>6. Body(version, validity) = s
    BY <1>1, <2>4, <2>5, BodyOfFields
  <2>7. FirstIs(s, \ha0) /\ After({s}, \ha0) = {f}
    BY <2>0, <2>4 DEF Starts
  <2>10. ValidityOf(s) = ValidityAfter(After({s}, \ha0))
    BY <1>3, <2>7, Zenon
  <2>11. ValidityOf(s) = ValidityAfter({f})
    BY <2>7, <2>10
  <2>8. ValidityOf(s) = {validity}
    BY <1>2, <2>11, Zenon
  <2>9. Len(s) \in Nat /\ Len(s) <= n + 16
    BY <2>2, <2>4 DEF Starts
  <2> QED  BY <2>6, <2>8, <2>9, Zenon DEF BodySized
<1> QED  BY <1>4, <1>5 DEF Versions

(* The two times of the test certificates. *)
Years == {2025, 2026}
NoonText(y) == Four(y) \o Noon
NoonTlv(y) == /\ NoonText(y) \in Seq(Bytes) /\ Len(NoonText(y)) = 15
              /\ TimeTlv(y) = Tlv(\h18, NoonText(y))
              /\ TimeTlv(y) \in Seq(Bytes) /\ Len(TimeTlv(y)) = 17
              /\ parse_certificate_time(\h18, NoonText(y)) = {NoonOf(y)}

LEMMA NoonIsTlv ==
  ASSUME NEW y \in Years
  PROVE  NoonTlv(y)
<1>1. PICK t \in Bytes : t = \h18 /\ t # \h17
  BY SmallBytes
<1>2. t \in {\h17, \h18} /\ YearFits(t, y) /\ YearText(t, y) = Four(y) /\ YearDigits(t) = 4
  <2>1. t \in {\h17, \h18}
    BY <1>1
  <2>2. IsYear(y)
    BY SMT DEF IsYear, Years
  <2> QED  BY <1>1, <2>1, <2>2 DEF YearFits, YearText, YearDigits
<1>3. PICK x \in Seq(Bytes) : x = NoonText(y) /\ Len(x) = 4 + 11 /\ parse_certificate_time(t, x) = {NoonOf(y)}
  BY <1>2, NoonRead DEF NoonText
<1>4. PICK n \in Nat : n = 15 /\ Len(x) = n /\ n < 128 /\ n + 2 = 17
  BY <1>3
<1>5. Tlv(t, x) \in Seq(Bytes) /\ Len(Tlv(t, x)) = n + 2
  BY <1>4, TlvBytes
<1>6. TimeTlv(y) = Tlv(t, x)
  BY <1>1, <1>3, Zenon DEF TimeTlv, NoonText
<1> QED  BY <1>1, <1>3, <1>4, <1>5, <1>6 DEF NoonTlv

LEMMA NoonsInOrder ==
  ASSUME NEW s \in Years, NEW t \in Years
  PROVE  NotLater(NoonOf(s), NoonOf(t)) <=> s <= t
<1>1. PICK d, e : d = days_from_civil(2025, 2, 28) /\ e = days_from_civil(2026, 2, 28)
  OBVIOUS
<1>5. d \in Int /\ e = d + 365
  BY <1>1, SMT DEF days_from_civil, Quotient
<1>2. CASE s = t
  BY <1>1, <1>2, <1>5 DEF NotLater, NoonOf, Years
<1>3. CASE s = 2025 /\ t = 2026
  BY <1>1, <1>3, <1>5 DEF NotLater, NoonOf
<1>4. CASE s = 2026 /\ t = 2025
  BY <1>1, <1>4, <1>5 DEF NotLater, NoonOf
<1> QED  BY <1>2, <1>3, <1>4 DEF Years

Parsed(x) == parse_certificate_time(x.tag, x.value)

(* A validity of two times. *)
Noons(s, t, tail) == TimeTlv(s) \o TimeTlv(t) \o tail
TimesAreIn(s, t, tail, k) ==
  /\ Noons(s, t, tail) \in Seq(Bytes) /\ Len(Noons(s, t, tail)) = 34 + k
  /\ tail # <<>> => TimesOf(Noons(s, t, tail)) = {}
  /\ tail = <<>> =>
       TimesOf(Noons(s, t, tail)) = IF s <= t THEN {<<NoonOf(s), NoonOf(t)>>} ELSE {}

LEMMA TimesIn ==
  ASSUME NEW s \in Years, NEW t \in Years, NEW tail \in Seq(Bytes), NEW k \in Nat, Len(tail) = k
  PROVE  TimesAreIn(s, t, tail, k)
<1>1. NoonTlv(s) /\ NoonTlv(t)
  BY NoonIsTlv
<1>2. PICK g \in Bytes, x \in Seq(Bytes), y \in Seq(Bytes) :
        g = \h18 /\ x = NoonText(s) /\ y = NoonText(t)
  BY <1>1, SmallBytes, Zenon DEF NoonTlv
<1>3. /\ Len(x) = 15 /\ TimeTlv(s) = Tlv(g, x) /\ Tlv(g, x) \in Seq(Bytes)
      /\ Len(y) = 15 /\ TimeTlv(t) = Tlv(g, y) /\ Tlv(g, y) \in Seq(Bytes)
  BY <1>1, <1>2, Zenon DEF NoonTlv
<1>4. parse_certificate_time(g, x) = {NoonOf(s)} /\ parse_certificate_time(g, y) = {NoonOf(t)}
  BY <1>1, <1>2, Zenon DEF NoonTlv
<1>5. PICK n \in Nat, j \in Nat, m \in Nat :
        n = 15 /\ n < 128 /\ j = n + k + 2 /\ m = n + j + 2 /\ m = 34 + k
  <2>1. 15 + k + 2 \in Nat /\ 15 + (15 + k + 2) + 2 = 34 + k
    OBVIOUS
  <2> QED  BY <2>1
<1>6. PICK r \in Seq(Bytes) : r = Tlv(g, y) \o tail /\ Starts(r, g, y, tail, j)
  <2>1. Len(y) = n
    BY <1>3, <1>5
  <2>2. Starts(Tlv(g, y) \o tail, g, y, tail, j)
    BY <1>5, <2>1, StartsWith
  <2> QED  BY <2>2 DEF Starts
<1>7. PICK v \in Seq(Bytes) : v = Tlv(g, x) \o r /\ Starts(v, g, x, r, m)
  <2>1. Len(x) = n /\ Len(r) = j
    BY <1>3, <1>5, <1>6 DEF Starts
  <2>2. Starts(Tlv(g, x) \o r, g, x, r, m)
    BY <1>5, <2>1, StartsWith
  <2> QED  BY <2>2 DEF Starts
<1>8. v = Noons(s, t, tail)
  <2>1. Associates(Tlv(g, x), Tlv(g, y), tail)
    BY <1>3, Associate
  <2> QED  BY <1>3, <1>6, <1>7, <2>1, Zenon DEF Associates, Noons
<1>9. PICK b, a : b = TlvRecord(g, x, r) /\ a = TlvRecord(g, y, tail)
  OBVIOUS
<1>10. b.rest = r /\ a.rest = tail /\ Parsed(b) = {NoonOf(s)} /\ Parsed(a) = {NoonOf(t)}
  <2>1. b.tag = g /\ b.value = x /\ b.rest = r
    BY <1>9, TlvParts
  <2>2. a.tag = g /\ a.value = y /\ a.rest = tail
    BY <1>9, TlvParts
  <2> QED  BY <1>4, <2>1, <2>2, Zenon DEF Parsed
<1>11. read_der_tlv(v) = {b} /\ read_der_tlv(r) = {a}
  BY <1>6, <1>7, <1>9, Zenon DEF Starts
<1>12. \A p : p \in TimesOf(v) <=>
         /\ NotLater(p[1], p[2])
         /\ \E c \in read_der_tlv(v) : \E e \in read_der_tlv(c.rest) :
              e.rest = <<>> /\ p \in Parsed(c) \X Parsed(e)
  <2> DEFINE PairsOf(c) == UNION {Parsed(c) \X Parsed(e) : e \in {f \in read_der_tlv(c.rest) : f.rest = <<>>}}
             AllPairs == UNION {PairsOf(c) : c \in read_der_tlv(v)}
  <2>1. \A c, p : p \in PairsOf(c) <=>
          \E e \in read_der_tlv(c.rest) : e.rest = <<>> /\ p \in Parsed(c) \X Parsed(e)
    BY Zenon
  <2>2. TimesOf(v) = {p \in AllPairs : NotLater(p[1], p[2])}
    BY Zenon DEF TimesOf, Parsed
  <2> HIDE DEF PairsOf
  <2>3. \A p : p \in AllPairs <=> \E c \in read_der_tlv(v) : p \in PairsOf(c)
    BY Zenon
  <2> HIDE DEF AllPairs
  <2> QED  BY <2>1, <2>2, <2>3, Zenon
<1>13. \A p : p \in TimesOf(v) <=>
         NotLater(p[1], p[2]) /\ tail = <<>> /\ p \in {NoonOf(s)} \X {NoonOf(t)}
  BY <1>10, <1>11, <1>12, Zenon
<1>14. ASSUME tail # <<>> PROVE TimesOf(v) = {}
  BY <1>13, <1>14, Zenon
<1>15. ASSUME tail = <<>>
       PROVE  TimesOf(v) = IF s <= t THEN {<<NoonOf(s), NoonOf(t)>>} ELSE {}
  <2>1. \A p : p \in {NoonOf(s)} \X {NoonOf(t)} <=> p = <<NoonOf(s), NoonOf(t)>>
    OBVIOUS
  <2>2. \A p : p = <<NoonOf(s), NoonOf(t)>> => p[1] = NoonOf(s) /\ p[2] = NoonOf(t)
    OBVIOUS
  <2>3. \A p : p \in TimesOf(v) <=> s <= t /\ p = <<NoonOf(s), NoonOf(t)>>
    BY <1>13, <1>15, <2>1, <2>2, NoonsInOrder, Zenon
  <2> QED  BY <2>3, Zenon
<1>16. Len(v) = 34 + k
  BY <1>5, <1>7 DEF Starts
<1> QED  BY <1>8, <1>14, <1>15, <1>16, Zenon DEF TimesAreIn

(* The certificates of these bytes, and the bodies in them. *)
Certificates(der) == {x.value : x \in {y \in read_der_value(der, \h30) : y.rest = <<>>}}
Bodies(certificates) ==
  {x.value : x \in {y \in UNION {read_der_value(c, \h30) : c \in certificates} :
                      After(After({y.rest}, \h30), \h03) = {<<>>}}}
TimesInBodies(bodies) == UNION {TimesOf(v) : v \in UNION {ValidityOf(b) : b \in bodies}}

LEMMA ParseIs ==
  ASSUME NEW der
  PROVE  parse_certificate_validity(der) = TimesInBodies(Bodies(Certificates(der)))
BY Zenon DEF parse_certificate_validity, TimesInBodies, Bodies, Certificates

LEMMA NoBodies == TimesInBodies(Bodies({})) = {}
<1>1. Bodies({}) = {}
  BY Zenon DEF Bodies
<1> QED  BY <1>1, Zenon DEF TimesInBodies

LEMMA Unread ==
  ASSUME NEW der, \A x \in read_der_value(der, \h30) : x.rest # <<>>
  PROVE  parse_certificate_validity(der) = {}
<1>1. Certificates(der) = {}
  BY Zenon DEF Certificates
<1> QED  BY <1>1, ParseIs, NoBodies, Zenon

LEMMA OneCertificate ==
  ASSUME NEW der, NEW x, read_der_value(der, \h30) = {x}, x.rest = <<>>
  PROVE  Certificates(der) = {x.value}
BY Zenon DEF Certificates

LEMMA OneBody ==
  ASSUME NEW c, NEW y, read_der_value(c, \h30) = {y}, After(After({y.rest}, \h30), \h03) = {<<>>}
  PROVE  Bodies({c}) = {y.value}
<1> DEFINE all == UNION {read_der_value(e, \h30) : e \in {c}}
<1>1. \A e : e \in all <=> e = y
  BY Zenon
<1>2. all = {y}
  BY <1>1, Zenon
<1>3. Bodies({c}) = {x.value : x \in {e \in all : After(After({e.rest}, \h30), \h03) = {<<>>}}}
  BY Zenon DEF Bodies
<1> HIDE DEF all
<1>4. {e \in all : After(After({e.rest}, \h30), \h03) = {<<>>}} = {y}
  BY <1>2, Zenon
<1>5. {x.value : x \in {y}} = {y.value}
  BY Zenon
<1> QED  BY <1>3, <1>4, <1>5, Zenon

LEMMA OneValidity ==
  ASSUME NEW b, NEW v, ValidityOf(b) = {v}
  PROVE  TimesInBodies({b}) = TimesOf(v)
<1>1. \A e : e \in UNION {ValidityOf(c) : c \in {b}} <=> e = v
  BY Zenon
<1>2. UNION {ValidityOf(c) : c \in {b}} = {v}
  BY <1>1, Zenon
<1>3. TimesInBodies({b}) = UNION {TimesOf(e) : e \in {v}}
  BY <1>2, Zenon DEF TimesInBodies
<1>4. \A p : p \in UNION {TimesOf(e) : e \in {v}} <=> p \in TimesOf(v)
  BY Zenon
<1> QED  BY <1>3, <1>4, Zenon

(* What follows the body in a certificate. *)
Signature == Tlv(\h30, <<>>) \o Tlv(3, <<0>>)

LEMMA SignatureRead ==
  /\ Signature \in Seq(Bytes) /\ Len(Signature) = 5
  /\ After(After({Signature}, \h30), \h03) = {<<>>}
<1>1. PICK none \in Seq(Bytes), zero \in Seq(Bytes), t \in Bytes, u \in Bytes :
        /\ none = <<>> /\ zero = <<0>> /\ t = \h30 /\ u = 3 /\ Len(none) = 0 /\ Len(zero) = 1
  BY SmallBytes, Zenon
<1>2. PICK a \in Nat, b \in Nat, c \in Nat, d \in Nat :
        /\ a = 0 /\ b = 1 /\ a < 128 /\ b < 128 /\ c = b + a + 2 /\ d = a + c + 2 /\ d = 5
  <2>1. 0 \in Nat /\ 1 \in Nat /\ 3 \in Nat /\ 5 \in Nat /\ 0 < 128 /\ 1 < 128 /\ 3 = 1 + 0 + 2 /\ 5 = 0 + 3 + 2
    OBVIOUS
  <2> QED  BY <2>1, Zenon
<1>3. Len(none) = a /\ Len(zero) = b
  BY <1>1, <1>2
<1>4. PICK r \in Seq(Bytes) : r = Tlv(u, zero) \o none /\ Starts(r, u, zero, none, c)
  <2>1. Starts(Tlv(u, zero) \o none, u, zero, none, c)
    BY <1>2, <1>3, StartsWith
  <2> QED  BY <2>1 DEF Starts
<1>5. PICK s \in Seq(Bytes) : s = Tlv(t, none) \o r /\ Starts(s, t, none, r, d)
  <2>1. Len(r) = c
    BY <1>4 DEF Starts
  <2>2. Starts(Tlv(t, none) \o r, t, none, r, d)
    BY <1>2, <1>3, <2>1, StartsWith
  <2> QED  BY <2>2 DEF Starts
<1>6. r = Tlv(u, zero)
  <2>1. Tlv(u, zero) \in Seq(Bytes)
    BY <1>2, <1>3, TlvBytes
  <2>2. Tlv(u, zero) \o <<>> = Tlv(u, zero)
    BY <2>1, ConcatEmptySeq
  <2> QED  BY <1>1, <1>4, <2>2
<1>7. s = Signature
  BY <1>1, <1>5, <1>6, Zenon DEF Signature
<1>8. After({s}, t) = {r} /\ After({r}, u) = {none} /\ Len(s) = d
  BY <1>4, <1>5, Zenon DEF Starts
<1>9. \h03 = 3
  OBVIOUS
<1> QED  BY <1>1, <1>2, <1>7, <1>8, <1>9, Zenon

(* The bytes of a certificate with these two times, and how it is read. *)
Contents(version, s, t, tail) ==
  Tlv(\h30, Body(version, Noons(s, t, tail))) \o Signature

CertificateWritten(version, s, t, tail) ==
  Certificate(version, s, t, tail) = Tlv(\h30, Contents(version, s, t, tail))

LEMMA CertificateIs ==
  ASSUME NEW version \in Seq(Bytes), NEW s, NEW t, NEW tail,
         Tlv(\h30, Body(version, Noons(s, t, tail))) \in Seq(Bytes)
  PROVE  CertificateWritten(version, s, t, tail)
<1>1. PICK a \in Seq(Bytes) : a = Tlv(\h30, Body(version, Noons(s, t, tail)))
  OBVIOUS
<1>2. PICK none \in Seq(Bytes), zero \in Seq(Bytes), g \in Bytes, u \in Bytes, j \in Nat, k \in Nat :
        /\ none = <<>> /\ zero = <<0>> /\ g = \h30 /\ u = 3 /\ Len(none) = j /\ Len(zero) = k
        /\ j = 0 /\ k = 1
  <2>1. 0 \in Nat /\ 1 \in Nat
    OBVIOUS
  <2> QED  BY <2>1, SmallBytes, Zenon
<1>3. PICK b \in Seq(Bytes) : b = Tlv(g, none)
  <2>1. j < 128
    BY <1>2
  <2> QED  BY <1>2, <2>1, TlvBytes
<1>4. PICK c \in Seq(Bytes) : c = Tlv(u, zero)
  <2>1. k < 128
    BY <1>2
  <2> QED  BY <1>2, <2>1, TlvBytes
<1>5. Associates(a, b, c)
  BY Associate
<1>6. Certificate(version, s, t, tail) = Tlv(\h30, a \o b \o c)
  BY <1>1, <1>2, <1>3, <1>4, Zenon DEF Certificate, Tbs, Body, Noons
<1>7. Contents(version, s, t, tail) = a \o (b \o c)
  BY <1>1, <1>2, <1>3, <1>4, Zenon DEF Contents, Signature
<1> QED  BY <1>5, <1>6, <1>7, Zenon DEF Associates, CertificateWritten

Tails == {<<>>, Null}

ContentsRead(version, s, t, tail, c) ==
  /\ Certificate(version, s, t, tail) = Tlv(\h30, c) /\ c \in Seq(Bytes) /\ Len(c) < 128
  /\ TimesInBodies(Bodies({c})) = TimesOf(Noons(s, t, tail))

LEMMA ContentsAreRead ==
  ASSUME NEW version \in Versions, NEW s \in Years, NEW t \in Years, NEW tail \in Tails
  PROVE  ContentsRead(version, s, t, tail, Contents(version, s, t, tail))
<1>1. tail \in Seq(Bytes) /\ Len(tail) \in 0..2
  <2>1. CASE tail = <<>>
    <3>1. Len(tail) = 0 /\ tail \in Seq(Bytes)
      BY <2>1
    <3> QED  BY <3>1
  <2>2. CASE tail = Null
    <3>1. Len(tail) = 2 /\ tail \in Seq(Bytes)
      BY <2>2, SmallBytes, Zenon
    <3> QED  BY <3>1
  <2> QED  BY <2>1, <2>2 DEF Tails
<1>2. PICK k \in 0..2 : Len(tail) = k
  BY <1>1, Zenon
<1>3. TimesAreIn(s, t, tail, k)
  <2>1. k \in Nat
    OBVIOUS
  <2> QED  BY <1>1, <1>2, <2>1, TimesIn
<1>4. PICK v \in Seq(Bytes) : v = Noons(s, t, tail) /\ Len(v) = 34 + k
  BY <1>3 DEF TimesAreIn
<1>5. PICK n \in Nat : n = 34 + k /\ n < 128 /\ n + 16 <= 52
  <2>1. 34 + k \in Nat /\ 34 + k < 128 /\ 34 + k + 16 <= 52
    OBVIOUS
  <2> QED  BY <2>1
<1>6. BodySized(version, v, n)
  BY <1>4, <1>5, BodyRead
<1>7. PICK b \in Seq(Bytes) : b = Body(version, v) /\ ValidityOf(b) = {v} /\ Len(b) <= n + 16
  BY <1>6 DEF BodySized
<1>8. PICK l \in Nat : l = Len(b) /\ l <= 52
  <2>1. Len(b) \in Nat
    BY <1>7, LenProperties
  <2> QED  BY <1>5, <1>7, <2>1
<1>9. PICK g \in Bytes, q \in Seq(Bytes) : g = \h30 /\ q = Signature /\ Len(q) = 5
  BY SmallBytes, SignatureRead, Zenon
<1>10. PICK m \in Nat, j \in Nat : j = 5 /\ m = l + j + 2 /\ l < 128 /\ m < 128
  <2>1. l + 5 + 2 \in Nat /\ l + 5 + 2 < 128 /\ l < 128 /\ 5 \in Nat
    BY <1>8
  <2> QED  BY <2>1
<1>11. PICK c \in Seq(Bytes) : c = Tlv(g, b) \o q /\ Starts(c, g, b, q, m)
  <2>1. Len(b) = l /\ Len(q) = j
    BY <1>8, <1>9, <1>10
  <2>2. Starts(Tlv(g, b) \o q, g, b, q, m)
    BY <1>10, <2>1, StartsWith
  <2> QED  BY <2>2 DEF Starts
<1>12. c = Contents(version, s, t, tail)
  BY <1>4, <1>7, <1>9, <1>11, Zenon DEF Contents
<1>13. Certificate(version, s, t, tail) = Tlv(\h30, c)
  <2>1. Tlv(g, b) \in Seq(Bytes)
    BY <1>8, <1>10, TlvBytes
  <2>2. version \in Seq(Bytes)
    <3>1. CASE version = <<>>
      BY <3>1, SmallBytes, Zenon
    <3>2. CASE version = Tlv(\ha0, <<2, 1, 2>>)
      <4>1. PICK w \in Seq(Bytes), a \in Bytes : w = <<2, 1, 2>> /\ a = \ha0 /\ Len(w) = 3
        BY SmallBytes, Zenon
      <4>2. PICK i \in Nat : i = 3 /\ i < 128
        OBVIOUS
      <4>3. Len(w) = i
        BY <4>1, <4>2
      <4> QED  BY <3>2, <4>1, <4>2, <4>3, TlvBytes
    <3> QED  BY <3>1, <3>2 DEF Versions
  <2>3. Tlv(\h30, Body(version, Noons(s, t, tail))) \in Seq(Bytes)
    BY <1>4, <1>7, <1>9, <2>1, Zenon
  <2>4. CertificateWritten(version, s, t, tail)
    BY <2>2, <2>3, CertificateIs
  <2> QED  BY <1>12, <2>4, Zenon DEF CertificateWritten
<1>14. PICK y : y = TlvRecord(g, b, q) /\ y.value = b /\ y.rest = q
  BY TlvParts
<1>15. Bodies({c}) = {b}
  <2>1. read_der_value(c, \h30) = {y}
    BY <1>9, <1>11, <1>14, Zenon DEF Starts
  <2>2. After(After({y.rest}, \h30), \h03) = {<<>>}
    BY <1>9, <1>14, SignatureRead, Zenon
  <2>3. Bodies({c}) = {y.value}
    BY <2>1, <2>2, OneBody, Zenon
  <2> QED  BY <1>14, <2>3, Zenon
<1>16. TimesInBodies(Bodies({c})) = TimesOf(v)
  BY <1>7, <1>15, OneValidity, Zenon
<1>17. Len(c) < 128
  BY <1>10, <1>11 DEF Starts
<1> QED  BY <1>4, <1>12, <1>13, <1>16, <1>17, Zenon DEF ContentsRead

FoundIn(der, longer, s, t) ==
  /\ parse_certificate_validity(der) = IF s <= t THEN {<<NoonOf(s), NoonOf(t)>>} ELSE {}
  /\ \A i \in DOMAIN der : parse_certificate_validity(SubSeq(der, 1, i - 1)) = {}
  /\ parse_certificate_validity(der \o <<0>>) = {}
  /\ parse_certificate_validity(longer) = {}

LEMMA CertificatesFound ==
  ASSUME NEW version \in Versions, NEW s \in Years, NEW t \in Years
  PROVE  FoundIn(Certificate(version, s, t, <<>>), Certificate(version, s, t, <<5, 0>>), s, t)
<1>0. PICK g \in Bytes, none \in Seq(Bytes) : g = \h30 /\ none = <<>>
  BY SmallBytes, Zenon
<1>13. PICK null \in Seq(Bytes), zero \in Seq(Bytes) :
        null = Null /\ zero = <<0>> /\ Len(null) = 2 /\ Len(zero) = 1
  BY SmallBytes, Zenon
<1>1. /\ g = \h30 /\ none = <<>>
      /\ null = Null /\ zero = <<0>> /\ Len(null) = 2 /\ Len(zero) = 1
  BY <1>0, <1>13, Zenon
<1>2. none \in Tails /\ null \in Tails /\ null # <<>> /\ zero # <<>>
  <2>1. none \in Tails /\ null \in Tails
    BY <1>1, Zenon DEF Tails
  <2>2. \A x : Len(x) # 0 => x # <<>>
    OBVIOUS
  <2>3. Len(null) # 0 /\ Len(zero) # 0
    BY <1>13
  <2> QED  BY <2>1, <2>2, <2>3
<1>3. PICK c \in Seq(Bytes) : ContentsRead(version, s, t, none, c)
  <2>1. ContentsRead(version, s, t, none, Contents(version, s, t, none))
    BY <1>2, ContentsAreRead
  <2> QED  BY <2>1 DEF ContentsRead
<1>4. PICK d \in Seq(Bytes) : ContentsRead(version, s, t, null, d)
  <2>1. ContentsRead(version, s, t, null, Contents(version, s, t, null))
    BY <1>2, ContentsAreRead
  <2> QED  BY <2>1 DEF ContentsRead
<1>5. TimesAreIn(s, t, none, 0) /\ TimesAreIn(s, t, null, 2)
  <2>1. Len(none) = 0
    BY <1>1
  <2> QED  BY <1>1, <2>1, TimesIn
<1>6. ASSUME NEW e \in Seq(Bytes), Len(e) < 128, NEW f \in Seq(Bytes)
      PROVE  /\ f # <<>> => parse_certificate_validity(Tlv(g, e) \o f) = {}
             /\ f = <<>> => parse_certificate_validity(Tlv(g, e) \o f) = TimesInBodies(Bodies({e}))
  <2>1. PICK x : x = TlvRecord(g, e, f) /\ x.value = e /\ x.rest = f
    BY TlvParts
  <2>2. PICK der : der = Tlv(g, e) \o f
    OBVIOUS
  <2>3. read_der_value(der, \h30) = {x}
    <3>1. AfterAt(g, e, f)
      BY <1>6, AfterShort
    <3> QED  BY <1>1, <2>1, <2>2, <3>1, Zenon DEF AfterAt
  <2>4. ASSUME f # <<>> PROVE parse_certificate_validity(der) = {}
    BY <2>1, <2>3, <2>4, Unread, Zenon
  <2>5. ASSUME f = <<>> PROVE parse_certificate_validity(der) = TimesInBodies(Bodies({e}))
    BY <2>1, <2>3, <2>5, OneCertificate, ParseIs, Zenon
  <2> QED  BY <2>2, <2>4, <2>5
<1>7. ASSUME NEW e \in Seq(Bytes), Len(e) < 128
      PROVE  Tlv(g, e) \o none = Tlv(g, e)
  <2>1. PICK n \in Nat : Len(e) = n
    BY LenProperties
  <2>2. n < 128
    BY <1>7, <2>1
  <2>3. Tlv(g, e) \in Seq(Bytes)
    BY <2>1, <2>2, TlvBytes
  <2> QED  BY <1>1, <2>3, ConcatEmptySeq
<1>8. PICK der : der = Certificate(version, s, t, <<>>) /\ der = Tlv(g, c) /\ Len(c) < 128
  BY <1>1, <1>3, Zenon DEF ContentsRead
<1>9. parse_certificate_validity(der) = IF s <= t THEN {<<NoonOf(s), NoonOf(t)>>} ELSE {}
  <2>1. parse_certificate_validity(der) = TimesInBodies(Bodies({c}))
    BY <1>1, <1>6, <1>7, <1>8, Zenon
  <2>2. TimesInBodies(Bodies({c})) = TimesOf(Noons(s, t, none))
    BY <1>3 DEF ContentsRead
  <2>3. TimesOf(Noons(s, t, none)) = IF s <= t THEN {<<NoonOf(s), NoonOf(t)>>} ELSE {}
    BY <1>1, <1>5, Zenon DEF TimesAreIn
  <2> QED  BY <2>1, <2>2, <2>3, Zenon
<1>10. ASSUME NEW i \in DOMAIN der PROVE parse_certificate_validity(SubSeq(der, 1, i - 1)) = {}
  <2>1. PICK n \in Nat : n = Len(c) /\ n < 128
    BY <1>8, LenProperties
  <2>2. Tlv(g, c) \in Seq(Bytes) /\ Len(Tlv(g, c)) = n + 2
    BY <2>1, TlvBytes
  <2>3. DOMAIN der = 1..(n + 2)
    BY <1>8, <2>2, LenProperties
  <2>4. i \in 1..(Len(c) + 2)
    BY <1>10, <2>1, <2>3
  <2>5. read_der_tlv(SubSeq(der, 1, i - 1)) = {}
    BY <1>8, <2>4, CutShort
  <2>6. read_der_value(SubSeq(der, 1, i - 1), \h30) = {}
    BY <2>5, Zenon DEF read_der_value
  <2> QED  BY <2>6, Unread, Zenon
<1>11. parse_certificate_validity(der \o <<0>>) = {}
  BY <1>1, <1>2, <1>6, <1>8, Zenon
<1>12. parse_certificate_validity(Certificate(version, s, t, <<5, 0>>)) = {}
  <2>1. Certificate(version, s, t, null) = Tlv(g, d) /\ Len(d) < 128
    BY <1>1, <1>4, Zenon DEF ContentsRead
  <2>2. parse_certificate_validity(Tlv(g, d)) = TimesInBodies(Bodies({d}))
    BY <1>1, <1>6, <1>7, <2>1, Zenon
  <2>3. TimesInBodies(Bodies({d})) = TimesOf(Noons(s, t, null))
    BY <1>4 DEF ContentsRead
  <2>4. TimesOf(Noons(s, t, null)) = {}
    BY <1>2, <1>5, Zenon DEF TimesAreIn
  <2> QED  BY <1>1, <2>1, <2>2, <2>3, <2>4, Zenon DEF Null
<1> QED  BY <1>8, <1>9, <1>10, <1>11, <1>12, Zenon DEF FoundIn

LEMMA ValidityIsFound == ValidityFound
<1>1. \A version \in Versions, s, t \in Years :
        FoundIn(Certificate(version, s, t, <<>>), Certificate(version, s, t, <<5, 0>>), s, t)
  BY CertificatesFound
<1>2. ValidityFound <=>
        \A version \in Versions, s, t \in Years :
          FoundIn(Certificate(version, s, t, <<>>), Certificate(version, s, t, <<5, 0>>), s, t)
  BY SMT DEF ValidityFound, FoundIn, Versions, Years, NoonOf
<1> QED  BY <1>1, <1>2

-----------------------------------------------------------------------------
(* Whenever a load checks a chain, parse_certificate_validity has read the  *)
(* validity that the bytes state: a DER value however its length is spelled *)
(* and nothing else, the two time formats, every date of the calendar, and  *)
(* the validity of a certificate that is neither cut short nor followed by  *)
(* other bytes.                                                             *)
THEOREM ValidityIsReadExactly == Spec => []ValidityReadExactly
<1>1. ValidityReadExactly
  BY DerIsReadExactly, CalendarIsCounted, TimesAreRead, ValidityIsFound DEF ValidityReadExactly
<1> QED  BY <1>1, PTL

=============================================================================
