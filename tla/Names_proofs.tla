---------------------------- MODULE Names_proofs ----------------------------
(***************************************************************************)
(* What the names of archives promise, for every type and every name: what *)
(* provider.rs reads from a file name, which names are told apart, and     *)
(* that the archive store takes what the metadata store lets through.      *)
(***************************************************************************)
EXTENDS MCMetadataCache, SequenceTheorems, TLAPS

(* A concatenation is taken apart where it was put together. *)
LEMMA ConcatParts ==
  ASSUME NEW T, NEW s \in Seq(T), NEW t \in Seq(T)
  PROVE  /\ s \o t \in Seq(T) /\ Len(s \o t) = Len(s) + Len(t)
         /\ SubSeq(s \o t, 1, Len(s)) = s
         /\ SubSeq(s \o t, Len(s) + 1, Len(s) + Len(t)) = t
<1>1. /\ s \o t \in Seq(T) /\ Len(s \o t) = Len(s) + Len(t)
      /\ \A i \in 1 .. Len(s) + Len(t) :
           (s \o t)[i] = IF i <= Len(s) THEN s[i] ELSE t[i - Len(s)]
  BY ConcatProperties, Zenon
<1>2. PICK st \in Seq(T) : st = s \o t
  BY <1>1
<1>3. Len(s) \in Nat /\ Len(t) \in Nat /\ Len(st) = Len(s) + Len(t)
  BY <1>1, <1>2
<1>4. \A i \in 1..Len(s) : st[i] = s[i] /\ st[i] \in T
  BY <1>1, <1>2, <1>3, ElementOfSeq
<1>5. \A i \in (Len(s) + 1)..(Len(s) + Len(t)) : st[i] = t[i - Len(s)] /\ st[i] \in T
  BY <1>1, <1>2, <1>3, ElementOfSeq
<1>6. SubSeq(st, 1, Len(s)) = s
  <2>1. PICK u : u = SubSeq(st, 1, Len(s))
    OBVIOUS
  <2>2. u \in Seq(T) /\ Len(u) = Len(s) /\ \A i \in 1..Len(s) : u[i] = st[i]
    BY <1>3, <1>4, <2>1, SubSeqProperties
  <2>3. u = s
    BY <1>4, <2>2, SeqEqual
  <2> QED  BY <2>1, <2>3
<1>7. SubSeq(st, Len(s) + 1, Len(s) + Len(t)) = t
  <2>1. PICK u, m, n : u = SubSeq(st, m, n) /\ m = Len(s) + 1 /\ n = Len(s) + Len(t)
    OBVIOUS
  <2>2. u \in Seq(T) /\ Len(u) = Len(t) /\ \A i \in 1..Len(t) : u[i] = st[m + i - 1]
    BY <1>3, <1>5, <2>1, SubSeqProperties
  <2>3. ASSUME NEW i \in 1..Len(t) PROVE u[i] = t[i]
    <3>1. m + i - 1 \in (Len(s) + 1)..(Len(s) + Len(t)) /\ (m + i - 1) - Len(s) = i
      BY <1>3, <2>1
    <3>2. PICK j \in (Len(s) + 1)..(Len(s) + Len(t)) : j = m + i - 1 /\ j - Len(s) = i
      BY <3>1, Zenon
    <3> QED  BY <1>5, <2>2, <3>2, Zenon
  <2>4. u = t
    BY <2>2, <2>3, SeqEqual
  <2> QED  BY <2>1, <2>4
<1> QED  BY <1>1, <1>2, <1>6, <1>7

LEMMA Halves ==
  ASSUME NEW T, NEW s \in Seq(T), NEW k \in 0..Len(s)
  PROVE  SubSeq(s, 1, k) \o SubSeq(s, k + 1, Len(s)) = s
<1>1. 1 \in 1 .. Len(s) + 1 /\ k \in 1 - 1 .. Len(s) /\ Len(s) \in k .. Len(s)
  BY LenProperties
<1>2. SubSeq(s, 1, k) \o SubSeq(s, k + 1, Len(s)) = SubSeq(s, 1, Len(s))
  BY <1>1, ConcatAdjacentSubSeq
<1> QED  BY <1>2, SubSeqFull

(* strip_prefix and strip_suffix. *)
LEMMA PrefixStripped ==
  ASSUME NEW T, NEW prefix \in Seq(T), NEW s \in Seq(T), NEW r
  PROVE  r \in StripPrefix(prefix, s) <=> r \in Seq(T) /\ s = prefix \o r
<1>0. Len(prefix) \in Nat /\ Len(s) \in Nat
  BY LenProperties
<1>1. ASSUME r \in StripPrefix(prefix, s)
      PROVE  r \in Seq(T) /\ s = prefix \o r
  <2>1. /\ Len(prefix) <= Len(s) /\ SubSeq(s, 1, Len(prefix)) = prefix
        /\ r = SubSeq(s, Len(prefix) + 1, Len(s))
    BY <1>1 DEF StripPrefix
  <2>2. Len(prefix) \in 0..Len(s)
    BY <1>0, <2>1
  <2>3. SubSeq(s, 1, Len(prefix)) \o SubSeq(s, Len(prefix) + 1, Len(s)) = s
    BY <2>2, Halves
  <2>4. \A i \in (Len(prefix) + 1)..Len(s) : s[i] \in T
    BY <1>0, ElementOfSeq
  <2>5. SubSeq(s, Len(prefix) + 1, Len(s)) \in Seq(T)
    BY <1>0, <2>4, SubSeqProperties
  <2> QED  BY <2>1, <2>3, <2>5
<1>2. ASSUME r \in Seq(T), s = prefix \o r
      PROVE  r \in StripPrefix(prefix, s)
  <2>1. /\ Len(s) = Len(prefix) + Len(r) /\ Len(r) \in Nat
        /\ SubSeq(s, 1, Len(prefix)) = prefix
        /\ SubSeq(s, Len(prefix) + 1, Len(s)) = r
    BY <1>2, ConcatParts, LenProperties
  <2> QED  BY <1>0, <2>1 DEF StripPrefix
<1> QED  BY <1>1, <1>2

LEMMA SuffixStripped ==
  ASSUME NEW T, NEW suffix \in Seq(T), NEW s \in Seq(T), NEW r
  PROVE  r \in StripSuffix(suffix, s) <=> r \in Seq(T) /\ s = r \o suffix
<1>0. Len(suffix) \in Nat /\ Len(s) \in Nat
  BY LenProperties
<1>1. ASSUME r \in StripSuffix(suffix, s)
      PROVE  r \in Seq(T) /\ s = r \o suffix
  <2>1. PICK k : k = Len(s) - Len(suffix)
    OBVIOUS
  <2>2. k \in 0..Len(s) /\ SubSeq(s, k + 1, Len(s)) = suffix /\ r = SubSeq(s, 1, k)
    BY <1>0, <1>1, <2>1 DEF StripSuffix
  <2>3. SubSeq(s, 1, k) \o SubSeq(s, k + 1, Len(s)) = s
    BY <2>2, Halves
  <2>5. \A i \in 1..k : s[i] \in T
    BY <1>0, <2>2, ElementOfSeq
  <2>6. SubSeq(s, 1, k) \in Seq(T)
    BY <1>0, <2>2, <2>5, SubSeqProperties
  <2> QED  BY <2>2, <2>3, <2>6
<1>2. ASSUME r \in Seq(T), s = r \o suffix
      PROVE  r \in StripSuffix(suffix, s)
  <2>1. /\ Len(s) = Len(r) + Len(suffix) /\ Len(r) \in Nat
        /\ SubSeq(s, 1, Len(r)) = r
        /\ SubSeq(s, Len(r) + 1, Len(r) + Len(suffix)) = suffix
    BY <1>2, ConcatParts, LenProperties
  <2>2. Len(s) - Len(suffix) = Len(r) /\ Len(suffix) <= Len(s)
    BY <1>0, <2>1
  <2> QED  BY <2>1, <2>2 DEF StripSuffix
<1> QED  BY <1>1, <1>2

(* A sequence cut at one of its elements. *)
LEMMA Cut ==
  ASSUME NEW T, NEW s \in Seq(T), NEW n \in 0..Len(s), NEW i \in 1..n
  PROVE  SubSeq(s, 1, n) = (SubSeq(s, 1, i - 1) \o <<s[i]>>) \o SubSeq(s, i + 1, n)
<1>0. Len(s) \in Nat
  BY LenProperties
<1>1. 1 \in 1 .. Len(s) + 1 /\ i - 1 \in 1 - 1 .. Len(s) /\ n \in i - 1 .. Len(s)
  BY <1>0
<1>2. SubSeq(s, 1, i - 1) \o SubSeq(s, (i - 1) + 1, n) = SubSeq(s, 1, n)
  BY <1>1, ConcatAdjacentSubSeq
<1>3. i \in 1 .. Len(s) /\ n \in i .. Len(s) /\ (i - 1) + 1 = i
  BY <1>0
<1>4. SubSeq(s, i, n) = <<s[i]>> \o SubSeq(s, i + 1, n)
  BY <1>3, SubSeqRecursiveFirst
<1>5. \A k \in 1..Len(s) : s[k] \in T
  BY ElementOfSeq
<1>6. PICK u : u = SubSeq(s, 1, i - 1)
  OBVIOUS
<1>7. PICK w : w = SubSeq(s, i + 1, n)
  OBVIOUS
<1>8. \A k \in 1..(i - 1) : s[k] \in T
  BY <1>0, <1>5
<1>9. \A k \in (i + 1)..n : s[k] \in T
  BY <1>0, <1>5
<1>10. u \in Seq(T)
  BY <1>0, <1>6, <1>8, SubSeqProperties
<1>11. w \in Seq(T)
  BY <1>0, <1>7, <1>9, SubSeqProperties
<1>12. <<s[i]>> \in Seq(T)
  BY <1>3, <1>5
<1>13. (u \o <<s[i]>>) \o w = u \o (<<s[i]>> \o w)
  BY <1>10, <1>11, <1>12, ConcatAssociative
<1>14. SubSeq(s, 1, n) = u \o (<<s[i]>> \o w)
  BY <1>2, <1>3, <1>4, <1>6, <1>7
<1> QED  BY <1>6, <1>7, <1>13, <1>14

LEMMA SubSeqIs ==
  ASSUME NEW T, NEW s \in Seq(T), NEW t \in Seq(T), NEW m \in Nat, NEW n \in Nat,
         m >= 1, n = m + Len(t) - 1, n <= Len(s),
         \A k \in 1..Len(t) : s[m + k - 1] = t[k]
  PROVE  SubSeq(s, m, n) = t
<1>0. Len(t) \in Nat /\ Len(s) \in Nat
  BY LenProperties
<1>2. \A k \in m..n : s[k] \in T
  BY <1>0, ElementOfSeq
<1>3. PICK u : u = SubSeq(s, m, n)
  OBVIOUS
<1>4. u \in Seq(T) /\ Len(u) = Len(t) /\ \A k \in 1..Len(t) : u[k] = s[m + k - 1]
  BY <1>0, <1>2, <1>3, SubSeqProperties
<1>5. u = t
  BY <1>4, SeqEqual
<1> QED  BY <1>3, <1>5

IsConcat(u, s, t) ==
  /\ Len(u) = Len(s) + Len(t)
  /\ \A k \in 1..Len(s) : u[k] = s[k]
  /\ \A k \in 1..Len(t) : u[Len(s) + k] = t[k]

LEMMA ConcatAt ==
  ASSUME NEW T, NEW s \in Seq(T), NEW t \in Seq(T)
  PROVE  s \o t \in Seq(T) /\ IsConcat(s \o t, s, t)
<1>1. /\ s \o t \in Seq(T) /\ Len(s \o t) = Len(s) + Len(t)
      /\ \A i \in 1 .. Len(s) + Len(t) :
           (s \o t)[i] = IF i <= Len(s) THEN s[i] ELSE t[i - Len(s)]
  BY ConcatProperties, Zenon
<1>2. Len(s) \in Nat /\ Len(t) \in Nat
  BY LenProperties
<1>3. PICK u : u = s \o t
  OBVIOUS
<1>4. \A k \in 1..Len(s) : u[k] = s[k]
  BY <1>1, <1>2, <1>3
<1>5. ASSUME NEW k \in 1..Len(t) PROVE u[Len(s) + k] = t[k]
  <2>1. PICK i \in 1 .. Len(s) + Len(t) : i = Len(s) + k /\ ~(i <= Len(s)) /\ i - Len(s) = k
    BY <1>2
  <2> QED  BY <1>1, <1>3, <2>1
<1> QED  BY <1>1, <1>3, <1>4, <1>5 DEF IsConcat

(* Three fields and the separators between them. *)
Fields(T) == [version : Seq(T), os : Seq(T), arch : Seq(T)]
Joined(x, separator) ==
  (((x.version \o <<separator>>) \o x.os) \o <<separator>>) \o x.arch
Free(s, separator) == \A i \in 1..Len(s) : s[i] # separator

Places(s, x, sep, i, j) ==
  /\ i = Len(x.version) + 1 /\ j = i + Len(x.os) + 1 /\ Len(s) = j + Len(x.arch)
  /\ s[i] = sep /\ s[j] = sep
  /\ \A k \in 1..Len(x.version) : s[k] = x.version[k]
  /\ \A k \in 1..Len(x.os) : s[i + k] = x.os[k]
  /\ \A k \in 1..Len(x.arch) : s[j + k] = x.arch[k]

LEMMA JoinedAt ==
  ASSUME NEW T, NEW x \in Fields(T), NEW sep \in T, NEW s, s = Joined(x, sep)
  PROVE  s \in Seq(T) /\ \E i, j \in 1..Len(s) : Places(s, x, sep, i, j)
<1> DEFINE v == x.version
           o == x.os
           a == x.arch
<1>0. v \in Seq(T) /\ o \in Seq(T) /\ a \in Seq(T) /\ <<sep>> \in Seq(T)
  BY DEF Fields
<1> HIDE DEF v, o, a
<1>1. Len(v) \in Nat /\ Len(o) \in Nat /\ Len(a) \in Nat /\ Len(<<sep>>) = 1 /\ <<sep>>[1] = sep
  BY <1>0, LenProperties
<1>2. PICK m \in Nat, n \in Nat, l \in Nat : m = Len(v) /\ n = Len(o) /\ l = Len(a)
  BY <1>1
<1>3. PICK s1 : s1 = v \o <<sep>>
  OBVIOUS
<1>4. s1 \in Seq(T) /\ IsConcat(s1, v, <<sep>>)
  BY <1>0, <1>3, ConcatAt
<1>5. PICK s2 : s2 = s1 \o o
  OBVIOUS
<1>6. s2 \in Seq(T) /\ IsConcat(s2, s1, o)
  BY <1>0, <1>4, <1>5, ConcatAt
<1>7. PICK s3 : s3 = s2 \o <<sep>>
  OBVIOUS
<1>8. s3 \in Seq(T) /\ IsConcat(s3, s2, <<sep>>)
  BY <1>0, <1>6, <1>7, ConcatAt
<1>9. s = s3 \o a
  BY <1>3, <1>5, <1>7 DEF Joined, v, o, a
<1>10. s \in Seq(T) /\ IsConcat(s, s3, a)
  BY <1>0, <1>8, <1>9, ConcatAt
<1>16. Len(s1) = m + 1 /\ s1[m + 1] = sep /\ \A k \in 1..m : s1[k] = v[k]
  BY <1>1, <1>2, <1>4 DEF IsConcat
<1>17. /\ Len(s2) = m + 1 + n
       /\ \A k \in 1 .. m + 1 : s2[k] = s1[k]
       /\ \A k \in 1..n : s2[m + 1 + k] = o[k]
  BY <1>2, <1>6, <1>16 DEF IsConcat
<1>18. /\ Len(s3) = m + 1 + n + 1 /\ s3[m + 1 + n + 1] = sep
       /\ \A k \in 1 .. m + 1 + n : s3[k] = s2[k]
  BY <1>1, <1>2, <1>8, <1>17 DEF IsConcat
<1>19. /\ Len(s) = m + 1 + n + 1 + l
       /\ \A k \in 1 .. m + 1 + n + 1 : s[k] = s3[k]
       /\ \A k \in 1..l : s[m + 1 + n + 1 + k] = a[k]
  BY <1>2, <1>10, <1>18 DEF IsConcat
<1>11. PICK i \in 1..Len(s), j \in 1..Len(s) : i = m + 1 /\ j = m + 1 + n + 1
  <2>1. m + 1 \in 1..Len(s) /\ m + 1 + n + 1 \in 1..Len(s)
    BY <1>2, <1>19
  <2> QED  BY <2>1, Zenon
<1>12. s[j] = sep /\ \A k \in 1..l : s[j + k] = a[k]
  BY <1>2, <1>18, <1>19, <1>11
<1>13. s[i] = sep /\ \A k \in 1..m : s[k] = v[k]
  BY <1>2, <1>16, <1>17, <1>18, <1>19, <1>11
<1>14. ASSUME NEW k \in 1..n PROVE s[i + k] = o[k]
  BY <1>2, <1>17, <1>18, <1>19, <1>11
<1>15. Len(v) + 1 = i /\ i + Len(o) + 1 = j /\ j + Len(a) = Len(s)
  BY <1>2, <1>19, <1>11
<1>20. Places(s, x, sep, i, j)
  BY <1>2, <1>12, <1>13, <1>14, <1>15 DEF v, o, a, Places
<1> QED  BY <1>10, <1>20

Laid(s, v, o, a, sep, i, j) ==
  /\ i = Len(v) + 1 /\ j = i + Len(o) + 1 /\ Len(s) = j + Len(a)
  /\ s[i] = sep /\ s[j] = sep
  /\ \A k \in 1..Len(v) : s[k] = v[k]
  /\ \A k \in 1..Len(o) : s[i + k] = o[k]
  /\ \A k \in 1..Len(a) : s[j + k] = a[k]

Parted(s, v, o, a, sep, i, j) ==
  /\ SubSeq(s, 1, i - 1) = v /\ SubSeq(s, i + 1, j - 1) = o /\ SubSeq(s, j + 1, Len(s)) = a
  /\ i < j /\ \A k \in (i + 1)..Len(s) : s[k] = sep => k = j

LEMMA LaidParts ==
  ASSUME NEW T, NEW s \in Seq(T), NEW v \in Seq(T), NEW o \in Seq(T), NEW a \in Seq(T),
         NEW sep, NEW i, NEW j, Laid(s, v, o, a, sep, i, j), Free(o, sep), Free(a, sep)
  PROVE  Parted(s, v, o, a, sep, i, j)
<1>1. Len(v) \in Nat /\ Len(o) \in Nat /\ Len(a) \in Nat
  BY LenProperties
<1>2. i = Len(v) + 1 /\ j = i + Len(o) + 1 /\ Len(s) = j + Len(a)
  BY DEF Laid
<1>3. /\ \A k \in 1..Len(v) : s[k] = v[k]
      /\ \A k \in 1..Len(o) : s[i + k] = o[k]
      /\ \A k \in 1..Len(a) : s[j + k] = a[k]
  BY DEF Laid
<1>4. i \in Nat /\ j \in Nat /\ i < j
  BY <1>1, <1>2
<1>5. SubSeq(s, 1, i - 1) = v
  <2>1. /\ 1 \in Nat /\ 1 >= 1 /\ i - 1 \in Nat /\ i - 1 = 1 + Len(v) - 1
        /\ i - 1 <= Len(s)
    BY <1>1, <1>2
  <2>2. PICK m \in Nat, n \in Nat : m = 1 /\ n = i - 1 /\ m >= 1 /\ n = m + Len(v) - 1 /\ n <= Len(s)
    BY <2>1, Zenon
  <2>3. \A k \in 1..Len(v) : s[m + k - 1] = v[k]
    BY <1>1, <1>3, <1>4, <2>2
  <2>4. SubSeq(s, m, n) = v
    BY <2>2, <2>3, SubSeqIs
  <2> QED  BY <2>2, <2>4, Zenon
<1>6. SubSeq(s, i + 1, j - 1) = o
  <2>1. /\ i + 1 \in Nat /\ i + 1 >= 1 /\ j - 1 \in Nat /\ j - 1 = i + 1 + Len(o) - 1
        /\ j - 1 <= Len(s)
    BY <1>1, <1>2
  <2>2. PICK m \in Nat, n \in Nat : m = i + 1 /\ n = j - 1 /\ m >= 1 /\ n = m + Len(o) - 1 /\ n <= Len(s)
    BY <2>1, Zenon
  <2>3. \A k \in 1..Len(o) : s[m + k - 1] = o[k]
    BY <1>1, <1>3, <1>4, <2>2
  <2>4. SubSeq(s, m, n) = o
    BY <2>2, <2>3, SubSeqIs
  <2> QED  BY <2>2, <2>4, Zenon
<1>7. SubSeq(s, j + 1, Len(s)) = a
  <2>1. /\ j + 1 \in Nat /\ j + 1 >= 1 /\ Len(s) \in Nat /\ Len(s) = j + 1 + Len(a) - 1
        /\ Len(s) <= Len(s)
    BY <1>1, <1>2
  <2>2. PICK m \in Nat, n \in Nat : m = j + 1 /\ n = Len(s) /\ m >= 1 /\ n = m + Len(a) - 1 /\ n <= Len(s)
    BY <2>1, Zenon
  <2>3. \A k \in 1..Len(a) : s[m + k - 1] = a[k]
    BY <1>1, <1>3, <1>4, <2>2
  <2>4. SubSeq(s, m, n) = a
    BY <2>2, <2>3, SubSeqIs
  <2> QED  BY <2>2, <2>4, Zenon
<1>8. ASSUME NEW k \in (i + 1)..Len(s), s[k] = sep PROVE k = j
  <2>1. CASE k < j
    <3>0. k - i \in 1..Len(o) /\ i + (k - i) = k
      BY <1>1, <1>2, <2>1
    <3>1. PICK n \in 1..Len(o) : i + n = k
      BY <3>0, Zenon
    <3>2. s[k] = o[n] /\ o[n] # sep
      BY <1>3, <3>1 DEF Free
    <3> QED  BY <1>8, <3>2
  <2>2. CASE k > j
    <3>0. k - j \in 1..Len(a) /\ j + (k - j) = k
      BY <1>1, <1>2, <2>2
    <3>1. PICK n \in 1..Len(a) : j + n = k
      BY <3>0, Zenon
    <3>2. s[k] = a[n] /\ a[n] # sep
      BY <1>3, <3>1 DEF Free
    <3> QED  BY <1>8, <3>2
  <2> QED  BY <1>1, <1>2, <2>1, <2>2
<1> QED  BY <1>4, <1>5, <1>6, <1>7, <1>8 DEF Parted

(* rsplitn(3, separator) finds the one way to join three fields of which    *)
(* the last two have no separator in them.                                  *)
LEMMA SplitExactly ==
  ASSUME NEW T, NEW s \in Seq(T), NEW sep \in T, NEW x
  PROVE  x \in rsplit3(s, sep) <=>
           /\ x \in Fields(T) /\ s = Joined(x, sep)
           /\ Free(x.os, sep) /\ Free(x.arch, sep)
<1>0. Len(s) \in Nat /\ \A k \in 1..Len(s) : s[k] \in T
  BY LenProperties, ElementOfSeq
<1>1. ASSUME x \in rsplit3(s, sep)
      PROVE  /\ x \in Fields(T) /\ s = Joined(x, sep)
             /\ Free(x.os, sep) /\ Free(x.arch, sep)
  <2>1. PICK i \in 1..Len(s), j \in 1..Len(s) :
          /\ i < j /\ s[i] = sep /\ s[j] = sep
          /\ \A k \in (i + 1)..Len(s) : s[k] = sep => k = j
          /\ x = [version |-> SubSeq(s, 1, i - 1), os |-> SubSeq(s, i + 1, j - 1),
                  arch |-> SubSeq(s, j + 1, Len(s))]
    BY <1>1 DEF rsplit3
  <2>2. /\ x.version = SubSeq(s, 1, i - 1) /\ x.os = SubSeq(s, i + 1, j - 1)
        /\ x.arch = SubSeq(s, j + 1, Len(s))
    BY <2>1
  <2>3. j - 1 \in 0..Len(s) /\ i \in 1..(j - 1) /\ Len(s) \in 0..Len(s) /\ j \in 1..Len(s)
    BY <1>0, <2>1
  <2>4. SubSeq(s, 1, j - 1) = (SubSeq(s, 1, i - 1) \o <<s[i]>>) \o SubSeq(s, i + 1, j - 1)
    BY <2>3, Cut
  <2>5. SubSeq(s, 1, Len(s)) = (SubSeq(s, 1, j - 1) \o <<s[j]>>) \o SubSeq(s, j + 1, Len(s))
    BY <2>3, Cut
  <2>6. s = Joined(x, sep)
    BY <2>1, <2>2, <2>4, <2>5, SubSeqFull, Zenon DEF Joined
  <2>7. \A k \in 1..(i - 1) : s[k] \in T
    BY <1>0
  <2>8. x.version \in Seq(T)
    BY <1>0, <2>2, <2>7, SubSeqProperties
  <2>9. \A k \in (i + 1)..(j - 1) : s[k] \in T
    BY <1>0
  <2>10. /\ SubSeq(s, i + 1, j - 1) \in Seq(T)
         /\ Len(SubSeq(s, i + 1, j - 1)) = IF i + 1 <= j - 1 THEN (j - 1) - (i + 1) + 1 ELSE 0
         /\ \A k \in 1 .. (j - 1) - (i + 1) + 1 : SubSeq(s, i + 1, j - 1)[k] = s[(i + 1) + k - 1]
    BY <1>0, <2>9, SubSeqProperties
  <2>11. x.os \in Seq(T) /\ Len(x.os) = j - 1 - i /\ \A k \in 1..(j - 1 - i) : x.os[k] = s[i + k]
    BY <1>0, <2>1, <2>2, <2>10
  <2>12. \A k \in (j + 1)..Len(s) : s[k] \in T
    BY <1>0
  <2>13. /\ SubSeq(s, j + 1, Len(s)) \in Seq(T)
         /\ Len(SubSeq(s, j + 1, Len(s))) =
              IF j + 1 <= Len(s) THEN Len(s) - (j + 1) + 1 ELSE 0
         /\ \A k \in 1 .. Len(s) - (j + 1) + 1 : SubSeq(s, j + 1, Len(s))[k] = s[(j + 1) + k - 1]
    BY <1>0, <2>12, SubSeqProperties
  <2>14. x.arch \in Seq(T) /\ Len(x.arch) = Len(s) - j /\ \A k \in 1..(Len(s) - j) : x.arch[k] = s[j + k]
    BY <1>0, <2>1, <2>2, <2>13
  <2>15. x \in Fields(T)
    BY <2>1, <2>2, <2>8, <2>11, <2>14 DEF Fields
  <2>16. ASSUME NEW k \in 1..Len(x.os) PROVE x.os[k] # sep
    <3>1. PICK n \in (i + 1)..Len(s) : n = i + k /\ n # j /\ x.os[k] = s[n]
      BY <1>0, <2>11
    <3> QED  BY <2>1, <3>1
  <2>17. ASSUME NEW k \in 1..Len(x.arch) PROVE x.arch[k] # sep
    <3>1. PICK n \in (i + 1)..Len(s) : n = j + k /\ n # j /\ x.arch[k] = s[n]
      BY <1>0, <2>1, <2>14
    <3> QED  BY <2>1, <3>1
  <2> QED  BY <2>6, <2>15, <2>16, <2>17 DEF Free
<1>2. ASSUME x \in Fields(T), s = Joined(x, sep), Free(x.os, sep), Free(x.arch, sep)
      PROVE  x \in rsplit3(s, sep)
  <2>1. PICK v \in Seq(T), o \in Seq(T), a \in Seq(T) :
          x = [version |-> v, os |-> o, arch |-> a]
    BY <1>2 DEF Fields
  <2>2. x.version = v /\ x.os = o /\ x.arch = a
    BY <2>1
  <2>3. PICK i \in 1..Len(s), j \in 1..Len(s) : Places(s, x, sep, i, j)
    BY <1>2, JoinedAt
  <2>4. Laid(s, v, o, a, sep, i, j)
    BY <2>2, <2>3 DEF Places, Laid
  <2>5. Free(o, sep) /\ Free(a, sep)
    BY <1>2, <2>2
  <2>6. Parted(s, v, o, a, sep, i, j)
    BY <2>4, <2>5, LaidParts
  <2>7. s[i] = sep /\ s[j] = sep
    BY <2>4 DEF Laid
  <2>8. <<i, j>> \in {q \in (1..Len(s)) \X (1..Len(s)) :
              /\ q[1] < q[2] /\ s[q[1]] = sep /\ s[q[2]] = sep
              /\ \A k \in (q[1] + 1)..Len(s) : s[k] = sep => k = q[2]}
    BY <2>6, <2>7 DEF Parted
  <2>9. x = [version |-> SubSeq(s, 1, i - 1), os |-> SubSeq(s, i + 1, j - 1),
             arch |-> SubSeq(s, j + 1, Len(s))]
    BY <2>1, <2>6 DEF Parted
  <2> QED  BY <2>8, <2>9 DEF rsplit3
<1> QED  BY <1>1, <1>2

LEMMA OneSplit ==
  ASSUME NEW T, NEW s \in Seq(T), NEW sep, NEW x \in rsplit3(s, sep), NEW y \in rsplit3(s, sep)
  PROVE  x = y
<1>0. Len(s) \in Nat
  BY LenProperties
<1>1. PICK i \in 1..Len(s), j \in 1..Len(s) :
        /\ i < j /\ s[i] = sep /\ s[j] = sep
        /\ \A k \in (i + 1)..Len(s) : s[k] = sep => k = j
        /\ x = [version |-> SubSeq(s, 1, i - 1), os |-> SubSeq(s, i + 1, j - 1),
                arch |-> SubSeq(s, j + 1, Len(s))]
  BY DEF rsplit3
<1>2. PICK m \in 1..Len(s), n \in 1..Len(s) :
        /\ m < n /\ s[m] = sep /\ s[n] = sep
        /\ \A k \in (m + 1)..Len(s) : s[k] = sep => k = n
        /\ y = [version |-> SubSeq(s, 1, m - 1), os |-> SubSeq(s, m + 1, n - 1),
                arch |-> SubSeq(s, n + 1, Len(s))]
  BY DEF rsplit3
<1>3. ~(i < m)
  <2> SUFFICES ASSUME i < m PROVE FALSE
    OBVIOUS
  <2>1. m \in (i + 1)..Len(s) /\ n \in (i + 1)..Len(s)
    BY <1>0, <1>2
  <2>2. m = j /\ n = j
    BY <1>1, <1>2, <2>1
  <2> QED  BY <1>0, <1>2, <2>2
<1>4. ~(m < i)
  <2> SUFFICES ASSUME m < i PROVE FALSE
    OBVIOUS
  <2>1. i \in (m + 1)..Len(s) /\ j \in (m + 1)..Len(s)
    BY <1>0, <1>1
  <2>2. i = n /\ j = n
    BY <1>1, <1>2, <2>1
  <2> QED  BY <1>0, <1>1, <2>2
<1>5. i = m
  BY <1>0, <1>3, <1>4
<1>6. j = n
  <2>1. n \in (i + 1)..Len(s)
    BY <1>0, <1>2, <1>5
  <2> QED  BY <1>1, <1>2, <2>1
<1> QED  BY <1>1, <1>2, <1>5, <1>6

-----------------------------------------------------------------------------
(* Every token a name is made of. *)
Tokens == Words \cup Separators \cup {"terraform-provider-"}

(* What a semantic version looks like, and what from_parts makes of it. *)
LEMMA SemverTokens ==
  ASSUME NEW s \in Seq(Tokens), IsSemver(s)
  PROVE  /\ s # <<>> /\ s[1] = "1"
         /\ \A i \in 1..Len(s) : s[i] \in Words \cup {".", "-", "+"}
<1>0. Len(s) \in Nat /\ Len(s) >= 5
  BY LenProperties DEF IsSemver
<1>1. \A i \in 1..Len(s) : s[i] \in Tokens
  BY ElementOfSeq
<1>2. \A i \in 1..5 : SubSeq(s, 1, 5)[i] = s[i]
  <2>1. \A i \in 1..5 : s[i] \in Tokens
    BY <1>0, <1>1
  <2>2. \A i \in 1..5 - 1 + 1 : SubSeq(s, 1, 5)[i] = s[1 + i - 1]
    BY <2>1, SubSeqProperties
  <2> QED  BY <2>2
<1>3. SubSeq(s, 1, 5) = <<"1", ".", "1", ".", "1">>
  BY DEF IsSemver
<1>4. s[1] = "1" /\ s[2] = "." /\ s[3] = "1" /\ s[4] = "." /\ s[5] = "1"
  <2>1. PICK u : u = SubSeq(s, 1, 5)
    OBVIOUS
  <2>2. u[1] = s[1] /\ u[2] = s[2] /\ u[3] = s[3] /\ u[4] = s[4] /\ u[5] = s[5]
    BY <1>2, <2>1
  <2>3. u = <<"1", ".", "1", ".", "1">>
    BY <1>3, <2>1
  <2> QED  BY <2>2, <2>3
<1>5. ASSUME NEW i \in 1..Len(s) PROVE s[i] \in Words \cup {".", "-", "+"}
  <2>1. CASE i <= 5
    <3>1. i = 1 \/ i = 2 \/ i = 3 \/ i = 4 \/ i = 5
      BY <2>1
    <3> QED  BY <1>4, <3>1 DEF Words, DigitWords
  <2>2. CASE i = 6
    BY <1>0, <2>2 DEF IsSemver
  <2>3. CASE i > 6
    <3>1. Len(s) > 5 /\ Made(SubSeq(s, 7, Len(s)), Words \cup {"-"})
      BY <1>0, <2>3 DEF IsSemver
    <3>2. \A k \in 7..Len(s) : s[k] \in Tokens
      BY <1>0, <1>1
    <3>3. /\ SubSeq(s, 7, Len(s)) \in Seq(Tokens)
          /\ Len(SubSeq(s, 7, Len(s))) = IF 7 <= Len(s) THEN Len(s) - 7 + 1 ELSE 0
          /\ \A k \in 1 .. Len(s) - 7 + 1 : SubSeq(s, 7, Len(s))[k] = s[7 + k - 1]
      BY <1>0, <3>2, SubSeqProperties
    <3>4. PICK k \in 1 .. Len(s) - 7 + 1 : 7 + k - 1 = i
      <4>1. i - 6 \in 1 .. Len(s) - 7 + 1 /\ 7 + (i - 6) - 1 = i
        BY <1>0, <2>3
      <4> QED  BY <4>1, Zenon
    <3>5. k \in DOMAIN SubSeq(s, 7, Len(s))
      BY <1>0, <2>3, <3>3
    <3> QED  BY <3>1, <3>3, <3>4, <3>5 DEF Made
  <2> QED  BY <1>0, <2>1, <2>2, <2>3
<1>6. s # <<>>
  BY <1>0
<1> QED  BY <1>4, <1>5, <1>6

WellFormed(p) ==
  /\ p \in Fields(Tokens) /\ IsSemver(p.version)
  /\ Made(p.os, LowerWords) /\ Made(p.arch, DigitWords)

LEMMA Normalized ==
  ASSUME NEW s \in Seq(Tokens), NEW t \in Seq(Tokens), IsSemver(t)
  PROVE  t = normalize_version(s) <=> s = t \/ s = <<"v">> \o t
<1>1. t # <<>> /\ t[1] = "1"
  BY SemverTokens
<1>2. CASE s = <<>>
  <2>1. normalize_version(s) = <<>>
    BY <1>2 DEF normalize_version
  <2>2. PICK w : w = <<"v">> \o t
    OBVIOUS
  <2>3. Len(w) = 1 + Len(t) /\ Len(t) \in Nat
    BY <2>2, ConcatParts, LenProperties
  <2>4. w # <<>>
    BY <2>3
  <2> QED  BY <1>1, <1>2, <2>1, <2>2, <2>4
<1>3. CASE s # <<>> /\ s[1] # "v"
  <2>1. normalize_version(s) = s
    BY <1>3 DEF normalize_version
  <2>2. s # <<"v">> \o t
    <3>1. (<<"v">> \o t)[1] = "v"
      OBVIOUS
    <3> QED  BY <1>3, <3>1
  <2> QED  BY <2>1, <2>2
<1>4. CASE s # <<>> /\ s[1] = "v"
  <2>1. normalize_version(s) = Tail(s)
    BY <1>4 DEF normalize_version
  <2>2. s # t
    BY <1>1, <1>4
  <2>3. Tail(s) = t => s = <<"v">> \o t
    <3>1. Len(s) \in Nat /\ 1 \in 1..Len(s) /\ Len(s) \in 1..Len(s)
      BY <1>4, EmptySeq, LenProperties
    <3>2. SubSeq(s, 1, Len(s)) = <<s[1]>> \o SubSeq(s, 1 + 1, Len(s))
      BY <3>1, SubSeqRecursiveFirst
    <3>3. SubSeq(s, 1, Len(s)) = s /\ Tail(s) = SubSeq(s, 2, Len(s)) /\ 1 + 1 = 2
      BY <1>4, SubSeqFull, TailIsSubSeq
    <3> QED  BY <1>4, <3>2, <3>3
  <2>4. s = <<"v">> \o t => Tail(s) = t
    <3> SUFFICES ASSUME s = <<"v">> \o t PROVE Tail(s) = t
      OBVIOUS
    <3>1. Len(t) \in Nat /\ <<"v">> \in Seq(Tokens) /\ Len(<<"v">>) = 1
      BY LenProperties
    <3>2. /\ Len(s) = 1 + Len(t)
          /\ SubSeq(s, 1 + 1, 1 + Len(t)) = t
      BY <3>1, ConcatParts
    <3>3. Tail(s) = SubSeq(s, 2, Len(s)) /\ 1 + 1 = 2
      BY <1>4, TailIsSubSeq
    <3> QED  BY <3>2, <3>3
  <2> QED  BY <2>1, <2>2, <2>3, <2>4
<1> QED  BY <1>2, <1>3, <1>4

(* from_parts takes the three fields as they are, but for the "v". *)
LEMMA FromParts ==
  ASSUME NEW x \in Fields(Tokens), NEW p
  PROVE  p \in from_parts(x) <=>
           /\ WellFormed(p) /\ p.os = x.os /\ p.arch = x.arch
           /\ x.version = p.version \/ x.version = <<"v">> \o p.version
<1>1. PICK v \in Seq(Tokens), o \in Seq(Tokens), a \in Seq(Tokens) :
        x = [version |-> v, os |-> o, arch |-> a]
  BY DEF Fields
<1>2. PICK n : n = normalize_version(v)
  OBVIOUS
<1>3. n \in Seq(Tokens)
  <2>1. CASE v # <<>> /\ v[1] = "v"
    <3>1. v \in Seq(Tokens) /\ v # <<>> /\ n = Tail(v)
      BY <1>1, <1>2, <2>1 DEF normalize_version
    <3>2. Tail(v) \in Seq(Tokens)
      BY <3>1, HeadTailProperties
    <3> QED  BY <3>1, <3>2
  <2>2. CASE ~(v # <<>> /\ v[1] = "v")
    BY <1>1, <1>2, <2>2 DEF normalize_version
  <2> QED  BY <2>1, <2>2
<1>4. p \in from_parts(x) <=> /\ p = [version |-> n, os |-> o, arch |-> a]
                             /\ Made(o, LowerWords) /\ Made(a, DigitWords) /\ IsSemver(n)
  BY <1>1, <1>2 DEF from_parts
<1>5. ASSUME p \in from_parts(x)
      PROVE  /\ WellFormed(p) /\ p.os = x.os /\ p.arch = x.arch
             /\ x.version = p.version \/ x.version = <<"v">> \o p.version
  <2>1. v = n \/ v = <<"v">> \o n
    BY <1>2, <1>3, <1>4, <1>5, Normalized
  <2>2. p \in Fields(Tokens)
    BY <1>3, <1>4, <1>5 DEF Fields
  <2> QED  BY <1>1, <1>4, <1>5, <2>1, <2>2 DEF WellFormed
<1>6. ASSUME WellFormed(p), p.os = x.os, p.arch = x.arch,
             x.version = p.version \/ x.version = <<"v">> \o p.version
      PROVE  p \in from_parts(x)
  <2>1. PICK w \in Seq(Tokens) : p = [version |-> w, os |-> o, arch |-> a]
    BY <1>1, <1>6 DEF WellFormed, Fields
  <2>2. v = w \/ v = <<"v">> \o w
    BY <1>1, <1>6, <2>1
  <2>3. IsSemver(w) /\ Made(o, LowerWords) /\ Made(a, DigitWords)
    BY <1>6, <2>1 DEF WellFormed
  <2>4. w = n
    BY <1>2, <2>2, <2>3, Normalized
  <2> QED  BY <1>4, <2>1, <2>3, <2>4
<1> QED  BY <1>5, <1>6

(* Words are not separators. *)
LEMMA WordsAreFree ==
  ASSUME NEW p, WellFormed(p)
  PROVE  /\ Free(p.os, "_") /\ Free(p.arch, "_") /\ Free(p.os, "-") /\ Free(p.arch, "-")
         /\ p.version \in Seq(Tokens) /\ p.os \in Seq(Tokens) /\ p.arch \in Seq(Tokens)
<1>1. p.version \in Seq(Tokens) /\ p.os \in Seq(Tokens) /\ p.arch \in Seq(Tokens)
  BY DEF WellFormed, Fields
<1>2. DOMAIN p.os = 1..Len(p.os) /\ DOMAIN p.arch = 1..Len(p.arch)
  BY <1>1, LenProperties
<1>3. \A t \in DigitWords : t # "_" /\ t # "-"
  BY DEF DigitWords, LowerWords
<1>4. LowerWords \subseteq DigitWords
  BY DEF DigitWords
<1>5. /\ \A i \in 1..Len(p.os) : p.os[i] \in DigitWords
      /\ \A i \in 1..Len(p.arch) : p.arch[i] \in DigitWords
  BY <1>2, <1>4 DEF WellFormed, Made
<1> QED  BY <1>1, <1>3, <1>5 DEF Free

(* Concatenation associates; as an operator, so that a step can ask for one *)
(* instance of it.                                                          *)
Associates(s, t, u) == (s \o t) \o u = s \o (t \o u)

LEMMA Regrouped ==
  ASSUME NEW T, NEW s \in Seq(T), NEW t \in Seq(T), NEW u \in Seq(T)
  PROVE  Associates(s, t, u)
BY ConcatAssociative DEF Associates

LEMMA ConcatIn ==
  ASSUME NEW T, NEW s \in Seq(T), NEW t \in Seq(T)
  PROVE  s \o t \in Seq(T)
BY ConcatProperties

(* The literals of the names. *)
LEMMA PairsJoined ==
  ASSUME NEW a, NEW b, NEW c, NEW d
  PROVE  <<a, b>> \o <<c, d>> = <<a, b, c, d>>
<1>0. PICK T : a \in T /\ b \in T /\ c \in T /\ d \in T
  <2>1. a \in {a, b, c, d} /\ b \in {a, b, c, d} /\ c \in {a, b, c, d} /\ d \in {a, b, c, d}
    OBVIOUS
  <2> QED  BY <2>1, Zenon
<1>1. PICK u \in Seq(T) : u = <<a, b, c, d>>
  <2>1. <<a, b, c, d>> \in Seq(T)
    BY <1>0
  <2> QED  BY <2>1
<1>2. PICK w : w = <<a, b>> \o <<c, d>>
  OBVIOUS
<1>3. PICK s \in Seq(T), t \in Seq(T) : s = <<a, b>> /\ t = <<c, d>>
  <2>1. <<a, b>> \in Seq(T)
    BY <1>0
  <2>2. <<c, d>> \in Seq(T)
    BY <1>0
  <2> QED  BY <2>1, <2>2, Zenon
<1>4. /\ w \in Seq(T) /\ Len(w) = Len(s) + Len(t)
      /\ \A i \in 1 .. Len(s) + Len(t) : w[i] = IF i <= Len(s) THEN s[i] ELSE t[i - Len(s)]
  BY <1>2, <1>3, ConcatProperties
<1>5. Len(s) = 2 /\ Len(t) = 2 /\ Len(u) = 4
  BY <1>1, <1>3
<1>6. s[1] = a /\ s[2] = b /\ t[1] = c /\ t[2] = d
  BY <1>3
<1>7. u[1] = a /\ u[2] = b /\ u[3] = c /\ u[4] = d
  BY <1>1
<1>8. ASSUME NEW i \in 1..4 PROVE w[i] = u[i]
  <2>1. i = 1 \/ i = 2 \/ i = 3 \/ i = 4
    OBVIOUS
  <2> QED  BY <1>4, <1>5, <1>6, <1>7, <2>1
<1>9. Len(w) = 4
  BY <1>4, <1>5
<1>10. u = w
  BY <1>4, <1>5, <1>8, <1>9, SeqEqual
<1> QED  BY <1>1, <1>2, <1>10

LEMMA Literals ==
  /\ "_" \in Tokens /\ "-" \in Tokens /\ "v" \in Tokens
  /\ <<"terraform-provider-">> \in Seq(Tokens) /\ <<"_">> \in Seq(Tokens) /\ <<"-">> \in Seq(Tokens)
  /\ <<"v">> \in Seq(Tokens) /\ <<".", "zip">> \in Seq(Tokens) /\ <<"-", "bin">> \in Seq(Tokens)
  /\ <<"-", "bin">> \o <<".", "zip">> = <<"-", "bin", ".", "zip">>
<1>1. /\ "_" \in Tokens /\ "-" \in Tokens /\ "v" \in Tokens /\ "." \in Tokens /\ "zip" \in Tokens
      /\ "bin" \in Tokens /\ "terraform-provider-" \in Tokens
  BY DEF Tokens, Separators, Words, DigitWords, LowerWords
<1>2. <<"-", "bin">> \o <<".", "zip">> = <<"-", "bin", ".", "zip">>
  BY PairsJoined, Zenon
<1>3. ASSUME NEW T, NEW a \in T PROVE <<a>> \in Seq(T)
  OBVIOUS
<1>4. ASSUME NEW T, NEW a \in T, NEW b \in T PROVE <<a, b>> \in Seq(T)
  OBVIOUS
<1>5. /\ <<"terraform-provider-">> \in Seq(Tokens) /\ <<"_">> \in Seq(Tokens)
      /\ <<"-">> \in Seq(Tokens) /\ <<"v">> \in Seq(Tokens)
  BY <1>1, <1>3
<1>6. <<".", "zip">> \in Seq(Tokens) /\ <<"-", "bin">> \in Seq(Tokens)
  BY <1>1, <1>4
<1> QED  BY <1>1, <1>2, <1>5, <1>6, Zenon

(* Three fields joined after a prefix. *)
LEMMA JoinedAfter ==
  ASSUME NEW T, NEW h \in Seq(T), NEW x \in Fields(T), NEW sep \in T
  PROVE  /\ Joined(x, sep) \in Seq(T)
         /\ h \o Joined(x, sep)
              = ((((h \o x.version) \o <<sep>>) \o x.os) \o <<sep>>) \o x.arch
<1> DEFINE v == x.version
           o == x.os
           a == x.arch
           u == <<sep>>
<1>0. v \in Seq(T) /\ o \in Seq(T) /\ a \in Seq(T) /\ u \in Seq(T)
  BY DEF Fields
<1>j. Joined(x, sep) = (((v \o u) \o o) \o u) \o a
  BY DEF Joined
<1> HIDE DEF v, o, a, u
<1>1. v \o u \in Seq(T)
  BY <1>0, ConcatIn
<1>2. (v \o u) \o o \in Seq(T)
  BY <1>0, <1>1, ConcatIn
<1>3. ((v \o u) \o o) \o u \in Seq(T)
  BY <1>0, <1>2, ConcatIn
<1>8. (((v \o u) \o o) \o u) \o a \in Seq(T)
  BY <1>0, <1>3, ConcatIn
<1>4. Associates(h, v, u)
  BY <1>0, Regrouped
<1>5. Associates(h, v \o u, o)
  BY <1>0, <1>1, Regrouped
<1>6. Associates(h, (v \o u) \o o, u)
  BY <1>0, <1>2, Regrouped
<1>7. Associates(h, ((v \o u) \o o) \o u, a)
  BY <1>0, <1>3, Regrouped
<1>9. h \o ((((v \o u) \o o) \o u) \o a) = ((((h \o v) \o u) \o o) \o u) \o a
  BY <1>4, <1>5, <1>6, <1>7, Zenon DEF Associates
<1> QED  BY <1>j, <1>8, <1>9, Zenon DEF v, o, a, u

(* The two ways to write the fields x of a provider of this type, each      *)
(* bracketed as it is taken apart and as it is put together.                *)
Stem(type) == <<"terraform-provider-">> \o type
Underscored(type, x) ==
  (((((Stem(type) \o <<"_">>) \o x.version) \o <<"_">>) \o x.os) \o <<"_">>) \o x.arch
     \o <<".", "zip">>
Dashed(type, x) ==
  (((((Stem(type) \o <<"-">>) \o x.version) \o <<"-">>) \o x.os) \o <<"-">>) \o x.arch
     \o <<"-", "bin", ".", "zip">>

Brackets(h, u, q, z) == h \o ((u \o q) \o z) = ((h \o u) \o q) \o z

LEMMA Bracketed ==
  ASSUME NEW T, NEW h \in Seq(T), NEW u \in Seq(T), NEW q \in Seq(T), NEW z \in Seq(T)
  PROVE  Brackets(h, u, q, z)
<1>1. u \o q \in Seq(T)
  BY ConcatIn
<1>2. Associates(h, u, q)
  BY Regrouped
<1>3. Associates(h, u \o q, z)
  BY <1>1, Regrouped
<1> QED  BY <1>2, <1>3, Zenon DEF Associates, Brackets

LEMMA UnderscoredIs ==
  ASSUME NEW type \in Seq(Tokens), NEW x \in Fields(Tokens)
  PROVE  /\ Joined(x, "_") \in Seq(Tokens)
         /\ <<"_">> \o Joined(x, "_") \in Seq(Tokens)
         /\ (<<"_">> \o Joined(x, "_")) \o <<".", "zip">> \in Seq(Tokens)
         /\ Underscored(type, x) = Stem(type) \o ((<<"_">> \o Joined(x, "_")) \o <<".", "zip">>)
<1>1. /\ <<"terraform-provider-">> \in Seq(Tokens) /\ <<"_">> \in Seq(Tokens)
      /\ <<".", "zip">> \in Seq(Tokens) /\ "_" \in Tokens
  BY Literals
<1>2. Stem(type) \in Seq(Tokens)
  BY <1>1, ConcatIn DEF Stem
<1>3. Stem(type) \o <<"_">> \in Seq(Tokens)
  BY <1>1, <1>2, ConcatIn
<1>4. /\ Joined(x, "_") \in Seq(Tokens)
      /\ (Stem(type) \o <<"_">>) \o Joined(x, "_")
           = (((((Stem(type) \o <<"_">>) \o x.version) \o <<"_">>) \o x.os) \o <<"_">>) \o x.arch
  BY <1>1, <1>3, JoinedAfter, ZenonT(60)
<1>5. <<"_">> \o Joined(x, "_") \in Seq(Tokens)
  BY <1>1, <1>4, ConcatIn
<1>6. (<<"_">> \o Joined(x, "_")) \o <<".", "zip">> \in Seq(Tokens)
  BY <1>1, <1>5, ConcatIn
<1>7. Brackets(Stem(type), <<"_">>, Joined(x, "_"), <<".", "zip">>)
  BY <1>1, <1>2, <1>4, Bracketed
<1> QED  BY <1>4, <1>5, <1>6, <1>7, Zenon DEF Underscored, Brackets

LEMMA DashedIs ==
  ASSUME NEW type \in Seq(Tokens), NEW x \in Fields(Tokens)
  PROVE  /\ Joined(x, "-") \in Seq(Tokens)
         /\ Joined(x, "-") \o <<"-", "bin">> \in Seq(Tokens)
         /\ <<"-">> \o (Joined(x, "-") \o <<"-", "bin">>) \in Seq(Tokens)
         /\ (<<"-">> \o (Joined(x, "-") \o <<"-", "bin">>)) \o <<".", "zip">> \in Seq(Tokens)
         /\ Dashed(type, x)
              = Stem(type) \o ((<<"-">> \o (Joined(x, "-") \o <<"-", "bin">>)) \o <<".", "zip">>)
<1>1. /\ <<"terraform-provider-">> \in Seq(Tokens) /\ <<"-">> \in Seq(Tokens)
      /\ <<".", "zip">> \in Seq(Tokens) /\ <<"-", "bin">> \in Seq(Tokens) /\ "-" \in Tokens
  BY Literals
<1>2. Stem(type) \in Seq(Tokens)
  BY <1>1, ConcatIn DEF Stem
<1>3. Stem(type) \o <<"-">> \in Seq(Tokens)
  BY <1>1, <1>2, ConcatIn
<1>4. /\ Joined(x, "-") \in Seq(Tokens)
      /\ (Stem(type) \o <<"-">>) \o Joined(x, "-")
           = (((((Stem(type) \o <<"-">>) \o x.version) \o <<"-">>) \o x.os) \o <<"-">>) \o x.arch
  BY <1>1, <1>3, JoinedAfter, ZenonT(60)
<1>5. Joined(x, "-") \o <<"-", "bin">> \in Seq(Tokens)
  BY <1>1, <1>4, ConcatIn
<1>6. <<"-">> \o (Joined(x, "-") \o <<"-", "bin">>) \in Seq(Tokens)
  BY <1>1, <1>5, ConcatIn
<1>11. (<<"-">> \o (Joined(x, "-") \o <<"-", "bin">>)) \o <<".", "zip">> \in Seq(Tokens)
  BY <1>1, <1>6, ConcatIn
<1>12. Brackets(Stem(type), <<"-">>, Joined(x, "-") \o <<"-", "bin">>, <<".", "zip">>)
  BY <1>1, <1>2, <1>5, Bracketed
<1>7. Associates(Stem(type) \o <<"-">>, Joined(x, "-"), <<"-", "bin">>)
  BY <1>1, <1>3, <1>4, Regrouped
<1>8. (Stem(type) \o <<"-">>) \o Joined(x, "-") \in Seq(Tokens)
  BY <1>3, <1>4, ConcatIn
<1>9. Associates((Stem(type) \o <<"-">>) \o Joined(x, "-"), <<"-", "bin">>, <<".", "zip">>)
  BY <1>1, <1>8, Regrouped
<1>10. <<"-", "bin">> \o <<".", "zip">> = <<"-", "bin", ".", "zip">>
  BY Literals
<1> QED  BY <1>4, <1>5, <1>6, <1>7, <1>9, <1>10, <1>11, <1>12, Zenon DEF Dashed, Associates, Brackets
(* The steps of parse(), by name. *)
Remainder(type, name) ==
  UNION {StripSuffix(<<".", "zip">>, r) :
           r \in StripPrefix(<<"terraform-provider-">> \o type, name)}
UnderscoredFields(type, name) ==
  UNION {rsplit3(r, "_") : r \in UNION {StripPrefix(<<"_">>, u) : u \in Remainder(type, name)}}
DashedFields(type, name) ==
  UNION {rsplit3(r, "-") :
           r \in UNION {StripSuffix(<<"-", "bin">>, u) :
                          u \in UNION {StripPrefix(<<"-">>, w) : w \in Remainder(type, name)}}}

LEMMA ParseSteps ==
  ASSUME NEW type, NEW name, NEW p
  PROVE  p \in parse(type, name) <=>
           \E x \in UnderscoredFields(type, name) \cup DashedFields(type, name) : p \in from_parts(x)
BY DEF parse, Remainder, UnderscoredFields, DashedFields

LEMMA RemainderIs ==
  ASSUME NEW type \in Seq(Tokens), NEW name \in Seq(Tokens), NEW r
  PROVE  r \in Remainder(type, name) <=>
           r \in Seq(Tokens) /\ name = Stem(type) \o (r \o <<".", "zip">>)
<1>1. Stem(type) \in Seq(Tokens) /\ <<".", "zip">> \in Seq(Tokens)
  <2>1. <<"terraform-provider-">> \in Seq(Tokens) /\ <<".", "zip">> \in Seq(Tokens)
    BY Literals, Zenon
  <2> QED  BY <2>1, ConcatIn DEF Stem
<1>2. ASSUME r \in Remainder(type, name)
      PROVE  r \in Seq(Tokens) /\ name = Stem(type) \o (r \o <<".", "zip">>)
  <2>1. PICK u \in StripPrefix(Stem(type), name) : r \in StripSuffix(<<".", "zip">>, u)
    BY <1>2, Zenon DEF Remainder, Stem
  <2>2. u \in Seq(Tokens) /\ name = Stem(type) \o u
    BY <1>1, <2>1, PrefixStripped
  <2>3. r \in Seq(Tokens) /\ u = r \o <<".", "zip">>
    BY <1>1, <2>1, <2>2, SuffixStripped
  <2> QED  BY <2>2, <2>3, Zenon
<1>3. ASSUME r \in Seq(Tokens), name = Stem(type) \o (r \o <<".", "zip">>)
      PROVE  r \in Remainder(type, name)
  <2>1. PICK u : u = r \o <<".", "zip">>
    OBVIOUS
  <2>2. u \in Seq(Tokens) /\ name = Stem(type) \o u
    BY <1>1, <1>3, <2>1, ConcatIn
  <2>3. u \in StripPrefix(Stem(type), name)
    BY <1>1, <2>2, PrefixStripped
  <2>4. r \in StripSuffix(<<".", "zip">>, u)
    BY <1>1, <1>3, <2>1, <2>2, SuffixStripped, ZenonT(60)
  <2> QED  BY <2>3, <2>4, Zenon DEF Remainder, Stem
<1> QED  BY <1>2, <1>3, Zenon

LEMMA UnderscoredExactly ==
  ASSUME NEW type \in Seq(Tokens), NEW name \in Seq(Tokens), NEW x
  PROVE  x \in UnderscoredFields(type, name) <=>
           /\ x \in Fields(Tokens) /\ name = Underscored(type, x)
           /\ Free(x.os, "_") /\ Free(x.arch, "_")
<1>1. "_" \in Tokens /\ <<"_">> \in Seq(Tokens) /\ <<".", "zip">> \in Seq(Tokens)
  BY Literals, Zenon
<1>2. ASSUME x \in UnderscoredFields(type, name)
      PROVE  /\ x \in Fields(Tokens) /\ name = Underscored(type, x)
             /\ Free(x.os, "_") /\ Free(x.arch, "_")
  <2>1. PICK r, q : /\ r \in Remainder(type, name) /\ q \in StripPrefix(<<"_">>, r)
                    /\ x \in rsplit3(q, "_")
    BY <1>2, Zenon DEF UnderscoredFields
  <2>2. r \in Seq(Tokens) /\ name = Stem(type) \o (r \o <<".", "zip">>)
    BY <2>1, RemainderIs
  <2>3. q \in Seq(Tokens) /\ r = <<"_">> \o q
    BY <1>1, <2>1, <2>2, PrefixStripped
  <2>4. /\ x \in Fields(Tokens) /\ q = Joined(x, "_")
        /\ Free(x.os, "_") /\ Free(x.arch, "_")
    BY <1>1, <2>1, <2>3, SplitExactly
  <2>5. Underscored(type, x) = Stem(type) \o ((<<"_">> \o Joined(x, "_")) \o <<".", "zip">>)
    BY <2>4, UnderscoredIs
  <2> QED  BY <2>2, <2>3, <2>4, <2>5, Zenon
<1>3. ASSUME x \in Fields(Tokens), name = Underscored(type, x),
             Free(x.os, "_"), Free(x.arch, "_")
      PROVE  x \in UnderscoredFields(type, name)
  <2>1. /\ Joined(x, "_") \in Seq(Tokens)
        /\ <<"_">> \o Joined(x, "_") \in Seq(Tokens)
        /\ (<<"_">> \o Joined(x, "_")) \o <<".", "zip">> \in Seq(Tokens)
        /\ Underscored(type, x) = Stem(type) \o ((<<"_">> \o Joined(x, "_")) \o <<".", "zip">>)
    BY <1>3, UnderscoredIs
  <2>2. PICK q \in Seq(Tokens) : q = Joined(x, "_")
    BY <2>1, Zenon
  <2>3. PICK r \in Seq(Tokens) : r = <<"_">> \o q
    BY <2>1, <2>2, Zenon
  <2>4. r \in Remainder(type, name)
    BY <1>3, <2>1, <2>2, <2>3, RemainderIs, Zenon
  <2>5. q \in StripPrefix(<<"_">>, r)
    BY <1>1, <2>3, PrefixStripped
  <2>6. x \in rsplit3(q, "_")
    BY <1>1, <1>3, <2>2, SplitExactly
  <2> QED  BY <2>4, <2>5, <2>6, Zenon DEF UnderscoredFields
<1> QED  BY <1>2, <1>3, Zenon

LEMMA DashedExactly ==
  ASSUME NEW type \in Seq(Tokens), NEW name \in Seq(Tokens), NEW x
  PROVE  x \in DashedFields(type, name) <=>
           /\ x \in Fields(Tokens) /\ name = Dashed(type, x)
           /\ Free(x.os, "-") /\ Free(x.arch, "-")
<1>1. /\ "-" \in Tokens /\ <<"-">> \in Seq(Tokens) /\ <<".", "zip">> \in Seq(Tokens)
      /\ <<"-", "bin">> \in Seq(Tokens)
  BY Literals, Zenon
<1>2. ASSUME x \in DashedFields(type, name)
      PROVE  /\ x \in Fields(Tokens) /\ name = Dashed(type, x)
             /\ Free(x.os, "-") /\ Free(x.arch, "-")
  <2>1. PICK r, w, q : /\ r \in Remainder(type, name) /\ w \in StripPrefix(<<"-">>, r)
                       /\ q \in StripSuffix(<<"-", "bin">>, w) /\ x \in rsplit3(q, "-")
    <3>1. PICK q : /\ q \in UNION {StripSuffix(<<"-", "bin">>, u) :
                                 u \in UNION {StripPrefix(<<"-">>, w) : w \in Remainder(type, name)}}
                   /\ x \in rsplit3(q, "-")
      BY <1>2, Zenon DEF DashedFields
    <3>2. PICK u : /\ u \in UNION {StripPrefix(<<"-">>, w) : w \in Remainder(type, name)}
                   /\ q \in StripSuffix(<<"-", "bin">>, u)
      BY <3>1, Zenon
    <3> QED  BY <3>1, <3>2, Zenon
  <2>2. r \in Seq(Tokens) /\ name = Stem(type) \o (r \o <<".", "zip">>)
    BY <2>1, RemainderIs
  <2>3. w \in Seq(Tokens) /\ r = <<"-">> \o w
    BY <1>1, <2>1, <2>2, PrefixStripped
  <2>4. q \in Seq(Tokens) /\ w = q \o <<"-", "bin">>
    BY <1>1, <2>1, <2>3, SuffixStripped
  <2>5. /\ x \in Fields(Tokens) /\ q = Joined(x, "-")
        /\ Free(x.os, "-") /\ Free(x.arch, "-")
    BY <1>1, <2>1, <2>4, SplitExactly
  <2>6. Dashed(type, x)
          = Stem(type) \o ((<<"-">> \o (Joined(x, "-") \o <<"-", "bin">>)) \o <<".", "zip">>)
    BY <2>5, DashedIs
  <2> QED  BY <2>2, <2>3, <2>4, <2>5, <2>6, Zenon
<1>3. ASSUME x \in Fields(Tokens), name = Dashed(type, x),
             Free(x.os, "-"), Free(x.arch, "-")
      PROVE  x \in DashedFields(type, name)
  <2>1. /\ Joined(x, "-") \in Seq(Tokens)
        /\ Joined(x, "-") \o <<"-", "bin">> \in Seq(Tokens)
        /\ <<"-">> \o (Joined(x, "-") \o <<"-", "bin">>) \in Seq(Tokens)
        /\ Dashed(type, x)
             = Stem(type) \o ((<<"-">> \o (Joined(x, "-") \o <<"-", "bin">>)) \o <<".", "zip">>)
    BY <1>3, DashedIs
  <2>2. PICK q \in Seq(Tokens) : q = Joined(x, "-")
    BY <2>1, Zenon
  <2>3. PICK w \in Seq(Tokens) : w = q \o <<"-", "bin">>
    BY <2>1, <2>2, Zenon
  <2>7. PICK r \in Seq(Tokens) : r = <<"-">> \o w
    BY <2>1, <2>2, <2>3, Zenon
  <2>4. r \in Remainder(type, name)
    BY <1>3, <2>1, <2>2, <2>3, <2>7, RemainderIs, Zenon
  <2>5. w \in StripPrefix(<<"-">>, r)
    BY <1>1, <2>7, PrefixStripped
  <2>8. q \in StripSuffix(<<"-", "bin">>, w)
    BY <1>1, <2>3, SuffixStripped, ZenonT(60)
  <2>6. x \in rsplit3(q, "-")
    BY <1>1, <1>3, <2>2, SplitExactly
  <2> QED  BY <2>4, <2>5, <2>6, <2>8, Zenon DEF DashedFields
<1> QED  BY <1>2, <1>3, Zenon

(* Spellings lists the two forms, with and without the "v". *)
LEMMA SpellingsAre ==
  ASSUME NEW type, NEW p, NEW name
  PROVE  name \in Spellings(type, p) <=>
           \E v \in {p.version, <<"v">> \o p.version} :
              \/ name = Underscored(type, [version |-> v, os |-> p.os, arch |-> p.arch])
              \/ name = Dashed(type, [version |-> v, os |-> p.os, arch |-> p.arch])
<1> DEFINE x(v) == [version |-> v, os |-> p.os, arch |-> p.arch]
<1>1. \A v : x(v).version = v /\ x(v).os = p.os /\ x(v).arch = p.arch
  OBVIOUS
<1>2. \A v :
        /\ Underscored(type, x(v))
             = <<"terraform-provider-">> \o type \o <<"_">> \o v \o <<"_">> \o p.os
                 \o <<"_">> \o p.arch \o <<".", "zip">>
        /\ Dashed(type, x(v))
             = <<"terraform-provider-">> \o type \o <<"-">> \o v \o <<"-">> \o p.os
                 \o <<"-">> \o p.arch \o <<"-", "bin", ".", "zip">>
  BY <1>1, Zenon DEF Underscored, Dashed, Stem
<1> HIDE DEF x
<1>3. name \in Spellings(type, p) <=>
        \E v \in {p.version, <<"v">> \o p.version} :
           name = Underscored(type, x(v)) \/ name = Dashed(type, x(v))
  BY <1>2, ZenonT(60) DEF Spellings
<1> QED  BY <1>3, Zenon DEF x

(* ArchiveName::parse (provider.rs) reads p from a file name exactly when p *)
(* is what from_parts accepts and the name is one of its spellings: nothing *)
(* else is read, and no spelling is refused.                                *)
THEOREM NamesExact ==
  \A type, name \in Seq(Tokens) : \A p :
    p \in parse(type, name) <=> WellFormed(p) /\ name \in Spellings(type, p)
<1> SUFFICES ASSUME NEW type \in Seq(Tokens), NEW name \in Seq(Tokens), NEW p
             PROVE  p \in parse(type, name) <=> WellFormed(p) /\ name \in Spellings(type, p)
  OBVIOUS
<1>1. ASSUME p \in parse(type, name)
      PROVE  WellFormed(p) /\ name \in Spellings(type, p)
  <2>1. PICK x \in UnderscoredFields(type, name) \cup DashedFields(type, name) : p \in from_parts(x)
    BY <1>1, ParseSteps
  <2>2. x \in Fields(Tokens) /\ (name = Underscored(type, x) \/ name = Dashed(type, x))
    BY <2>1, UnderscoredExactly, DashedExactly
  <2>3. /\ WellFormed(p) /\ p.os = x.os /\ p.arch = x.arch
        /\ x.version = p.version \/ x.version = <<"v">> \o p.version
    BY <2>1, <2>2, FromParts
  <2>4. x = [version |-> x.version, os |-> p.os, arch |-> p.arch]
    BY <2>2, <2>3 DEF Fields
  <2>5. x.version \in {p.version, <<"v">> \o p.version}
    BY <2>3
  <2> QED  BY <2>2, <2>3, <2>4, <2>5, SpellingsAre, Zenon
<1>2. ASSUME WellFormed(p), name \in Spellings(type, p)
      PROVE  p \in parse(type, name)
  <2>1. PICK v \in {p.version, <<"v">> \o p.version} :
          \/ name = Underscored(type, [version |-> v, os |-> p.os, arch |-> p.arch])
          \/ name = Dashed(type, [version |-> v, os |-> p.os, arch |-> p.arch])
    BY <1>2, SpellingsAre
  <2>2. PICK x : x = [version |-> v, os |-> p.os, arch |-> p.arch]
    OBVIOUS
  <2>3. x.version = v /\ x.os = p.os /\ x.arch = p.arch
    BY <2>2
  <2>4. /\ Free(p.os, "_") /\ Free(p.arch, "_") /\ Free(p.os, "-") /\ Free(p.arch, "-")
        /\ p.version \in Seq(Tokens) /\ p.os \in Seq(Tokens) /\ p.arch \in Seq(Tokens)
    BY <1>2, WordsAreFree
  <2>5. v \in Seq(Tokens)
    <3>1. <<"v">> \in Seq(Tokens)
      BY Literals, Zenon
    <3>2. <<"v">> \o p.version \in Seq(Tokens)
      BY <2>4, <3>1, ConcatIn
    <3> QED  BY <2>1, <2>4, <3>2
  <2>6. x \in Fields(Tokens)
    BY <2>2, <2>4, <2>5 DEF Fields
  <2>7. p \in from_parts(x)
    BY <1>2, <2>1, <2>3, <2>6, FromParts
  <2>8. x \in UnderscoredFields(type, name) \cup DashedFields(type, name)
    <3>1. CASE name = Underscored(type, x)
      <4>1. x \in UnderscoredFields(type, name)
        BY <2>3, <2>4, <2>6, <3>1, UnderscoredExactly
      <4> QED  BY <4>1
    <3>2. CASE name = Dashed(type, x)
      <4>1. x \in DashedFields(type, name)
        BY <2>3, <2>4, <2>6, <3>2, DashedExactly
      <4> QED  BY <4>1
    <3> QED  BY <2>1, <2>2, <3>1, <3>2
  <2> QED  BY <2>7, <2>8, ParseSteps, Zenon
<1> QED  BY <1>1, <1>2

(* Concatenation cancels, when the lengths of one side are the same. *)
Apart(s, t) ==
  /\ Len(s \o t) = Len(s) + Len(t) /\ SubSeq(s \o t, 1, Len(s)) = s
  /\ SubSeq(s \o t, Len(s) + 1, Len(s) + Len(t)) = t

LEMMA Comes ==
  ASSUME NEW T, NEW s \in Seq(T), NEW t \in Seq(T)
  PROVE  Apart(s, t) /\ Len(s) \in Nat /\ Len(t) \in Nat
<1>1. Len(s) \in Nat /\ Len(t) \in Nat
  BY LenProperties
<1>2. /\ Len(s \o t) = Len(s) + Len(t) /\ SubSeq(s \o t, 1, Len(s)) = s
      /\ SubSeq(s \o t, Len(s) + 1, Len(s) + Len(t)) = t
  BY ConcatParts
<1> QED  BY <1>1, <1>2, Zenon DEF Apart

LEMMA SameSum ==
  ASSUME NEW k \in Nat, NEW l \in Nat, NEW m \in Nat, NEW n \in Nat,
         k + l = m + n, k = m \/ l = n
  PROVE  k = m /\ l = n
OBVIOUS

Agree(s, t, u, w) == s \o t = u \o w

LEMMA Cancelled ==
  ASSUME NEW T, NEW s \in Seq(T), NEW t \in Seq(T), NEW u \in Seq(T), NEW w \in Seq(T),
         Agree(s, t, u, w), Len(s) = Len(u) \/ Len(t) = Len(w)
  PROVE  s = u /\ t = w
<1>1. Apart(s, t) /\ Len(s) \in Nat /\ Len(t) \in Nat
  BY Comes
<1>2. Apart(u, w) /\ Len(u) \in Nat /\ Len(w) \in Nat
  BY Comes
<1>3. PICK c : c = s \o t /\ c = u \o w
  BY Zenon DEF Agree
<1>4. /\ Len(c) = Len(s) + Len(t) /\ SubSeq(c, 1, Len(s)) = s
      /\ SubSeq(c, Len(s) + 1, Len(s) + Len(t)) = t
  BY <1>1, <1>3, Zenon DEF Apart
<1>5. /\ Len(c) = Len(u) + Len(w) /\ SubSeq(c, 1, Len(u)) = u
      /\ SubSeq(c, Len(u) + 1, Len(u) + Len(w)) = w
  BY <1>2, <1>3, Zenon DEF Apart
<1>6. Len(s) = Len(u) /\ Len(t) = Len(w)
  <2>1. PICK k \in Nat, l \in Nat, m \in Nat, n \in Nat :
          k = Len(s) /\ l = Len(t) /\ m = Len(u) /\ n = Len(w)
    BY <1>1, <1>2
  <2>2. k + l = m + n
    BY <1>4, <1>5, <2>1, Zenon
  <2>3. k = m \/ l = n
    BY <2>1, Zenon
  <2>4. k = m /\ l = n
    BY <2>2, <2>3, SameSum
  <2> QED  BY <2>1, <2>4, Zenon
<1> QED  BY <1>4, <1>5, <1>6, Zenon

(* Underscores: what stands before the last three of them is the type. *)
Plain(s) == \A i, j \in 1..Len(s) : s[i] = "-" /\ j = i + 1 => s[j] \notin {"1", "v"}

(* The fields before the ending, the type being part of the first. *)
Whole(type, x, sep) ==
  [version |-> (Stem(type) \o <<sep>>) \o x.version, os |-> x.os, arch |-> x.arch]

LEMMA WholeIs ==
  ASSUME NEW type \in Seq(Tokens), NEW x \in Fields(Tokens), NEW sep \in Tokens
  PROVE  /\ Whole(type, x, sep) \in Fields(Tokens)
         /\ Joined(Whole(type, x, sep), sep) \in Seq(Tokens)
         /\ Joined(Whole(type, x, sep), sep)
              = (((((Stem(type) \o <<sep>>) \o x.version) \o <<sep>>) \o x.os) \o <<sep>>) \o x.arch
<1>1. /\ <<"terraform-provider-">> \in Seq(Tokens) /\ <<sep>> \in Seq(Tokens)
      /\ x.version \in Seq(Tokens) /\ x.os \in Seq(Tokens) /\ x.arch \in Seq(Tokens)
  <2>1. <<"terraform-provider-">> \in Seq(Tokens)
    BY Literals, Zenon
  <2> QED  BY <2>1 DEF Fields
<1>2. Stem(type) \in Seq(Tokens)
  BY <1>1, ConcatIn DEF Stem
<1>3. Stem(type) \o <<sep>> \in Seq(Tokens)
  BY <1>1, <1>2, ConcatIn
<1>4. (Stem(type) \o <<sep>>) \o x.version \in Seq(Tokens)
  BY <1>1, <1>3, ConcatIn
<1>5. Whole(type, x, sep) \in Fields(Tokens)
  BY <1>1, <1>4 DEF Whole, Fields
<1>6. /\ Whole(type, x, sep).version = (Stem(type) \o <<sep>>) \o x.version
      /\ Whole(type, x, sep).os = x.os /\ Whole(type, x, sep).arch = x.arch
  BY DEF Whole
<1>7. Joined(Whole(type, x, sep), sep) \in Seq(Tokens)
  BY <1>5, JoinedAt
<1> QED  BY <1>5, <1>6, <1>7, Zenon DEF Joined

(* Two names of the same form that are equal have the same last two fields, *)
(* and the same type and version together.                                  *)
SameWhole(t1, x, t2, y, sep) == Joined(Whole(t1, x, sep), sep) = Joined(Whole(t2, y, sep), sep)
SameParts(t1, x, t2, y, sep) ==
  /\ x.os = y.os /\ x.arch = y.arch
  /\ (Stem(t1) \o <<sep>>) \o x.version = (Stem(t2) \o <<sep>>) \o y.version

LEMMA SameForm ==
  ASSUME NEW t1 \in Seq(Tokens), NEW t2 \in Seq(Tokens), NEW sep \in Tokens,
         NEW x \in Fields(Tokens), NEW y \in Fields(Tokens),
         Free(x.os, sep), Free(x.arch, sep), Free(y.os, sep), Free(y.arch, sep),
         SameWhole(t1, x, t2, y, sep)
  PROVE  SameParts(t1, x, t2, y, sep)
<1>1. PICK s \in Seq(Tokens) :
        s = Joined(Whole(t1, x, sep), sep) /\ s = Joined(Whole(t2, y, sep), sep)
  <2>1. Joined(Whole(t1, x, sep), sep) \in Seq(Tokens)
    BY WholeIs
  <2> QED  BY <2>1, Zenon DEF SameWhole
<1>2. Whole(t1, x, sep) \in Fields(Tokens) /\ Whole(t2, y, sep) \in Fields(Tokens)
  BY WholeIs
<1>3. /\ Whole(t1, x, sep).version = (Stem(t1) \o <<sep>>) \o x.version
      /\ Whole(t1, x, sep).os = x.os /\ Whole(t1, x, sep).arch = x.arch
      /\ Whole(t2, y, sep).version = (Stem(t2) \o <<sep>>) \o y.version
      /\ Whole(t2, y, sep).os = y.os /\ Whole(t2, y, sep).arch = y.arch
  BY DEF Whole
<1>4. Whole(t1, x, sep) \in rsplit3(s, sep)
  BY <1>1, <1>2, <1>3, SplitExactly
<1>5. Whole(t2, y, sep) \in rsplit3(s, sep)
  BY <1>1, <1>2, <1>3, SplitExactly
<1>6. Whole(t1, x, sep) = Whole(t2, y, sep)
  BY <1>4, <1>5, OneSplit
<1> QED  BY <1>3, <1>6, Zenon DEF SameParts

(* What follows the last underscore, and what is before it. *)
LEMMA LastSeparator ==
  ASSUME NEW T, NEW sep \in T, NEW h \in Seq(T), NEW k \in Seq(T), NEW v \in Seq(T), NEW w \in Seq(T),
         Free(v, sep), Free(w, sep), (h \o <<sep>>) \o v = (k \o <<sep>>) \o w
  PROVE  h = k /\ v = w
<1>0. <<>> \in Seq(T) /\ <<sep>> \in Seq(T) /\ Free(<<>>, sep)
  BY DEF Free
<1>1. PICK x, y : /\ x = [version |-> h, os |-> v, arch |-> <<>>]
                  /\ y = [version |-> k, os |-> w, arch |-> <<>>]
  OBVIOUS
<1>2. /\ x.version = h /\ x.os = v /\ x.arch = <<>>
      /\ y.version = k /\ y.os = w /\ y.arch = <<>>
  BY <1>1
<1>3. x \in Fields(T) /\ y \in Fields(T)
  BY <1>0, <1>1 DEF Fields
<1>4. Joined(x, sep) = Joined(y, sep)
  BY <1>2, Zenon DEF Joined
<1>5. PICK s \in Seq(T) : s = Joined(x, sep)
  BY <1>3, JoinedAt
<1>9. /\ s = Joined(x, sep) /\ Free(x.os, sep) /\ Free(x.arch, sep)
      /\ s = Joined(y, sep) /\ Free(y.os, sep) /\ Free(y.arch, sep)
  BY <1>0, <1>2, <1>4, <1>5, Zenon
<1>6. x \in rsplit3(s, sep)
  BY <1>3, <1>9, SplitExactly
<1>7. y \in rsplit3(s, sep)
  BY <1>3, <1>9, SplitExactly
<1>8. x = y
  BY <1>6, <1>7, OneSplit
<1> QED  BY <1>2, <1>8

(* Three parts, by position. *)
At(s, h, sep, v) ==
  /\ Len(s) = Len(h) + 1 + Len(v) /\ s[Len(h) + 1] = sep
  /\ \A i \in 1..Len(h) : s[i] = h[i]
  /\ \A i \in 1..Len(v) : s[Len(h) + 1 + i] = v[i]

LEMMA ThreeParts ==
  ASSUME NEW T, NEW sep \in T, NEW h \in Seq(T), NEW v \in Seq(T)
  PROVE  At((h \o <<sep>>) \o v, h, sep, v)
<1>1. <<sep>> \in Seq(T) /\ Len(<<sep>>) = 1 /\ <<sep>>[1] = sep
  OBVIOUS
<1>2. PICK u : u = h \o <<sep>>
  OBVIOUS
<1>3. u \in Seq(T) /\ IsConcat(u, h, <<sep>>)
  BY <1>1, <1>2, ConcatAt
<1>4. PICK s : s = u \o v
  OBVIOUS
<1>5. IsConcat(s, u, v)
  BY <1>3, <1>4, ConcatAt
<1>6. PICK m \in Nat, n \in Nat : m = Len(h) /\ n = Len(v)
  BY LenProperties
<1>7. Len(u) = m + 1 /\ u[m + 1] = sep /\ \A i \in 1..m : u[i] = h[i]
  BY <1>1, <1>3, <1>6 DEF IsConcat
<1>8. /\ Len(s) = m + 1 + n /\ \A i \in 1 .. m + 1 : s[i] = u[i]
      /\ \A i \in 1..n : s[m + 1 + i] = v[i]
  BY <1>5, <1>6, <1>7 DEF IsConcat
<1>9. At(s, h, sep, v)
  BY <1>6, <1>7, <1>8 DEF At
<1> QED  BY <1>2, <1>4, <1>9, Zenon

LEMMA StemAt ==
  ASSUME NEW type \in Seq(Tokens)
  PROVE  /\ Stem(type) \in Seq(Tokens) /\ Len(Stem(type)) = 1 + Len(type)
         /\ Len(type) \in Nat /\ \A i \in 1..Len(type) : Stem(type)[1 + i] = type[i]
<1>1. <<"terraform-provider-">> \in Seq(Tokens)
  BY Literals, Zenon
<1>2. PICK k \in Seq(Tokens) : k = <<"terraform-provider-">> /\ Len(k) = 1
  BY <1>1
<1>3. k \o type \in Seq(Tokens) /\ IsConcat(k \o type, k, type)
  BY ConcatAt
<1>4. Stem(type) \in Seq(Tokens) /\ IsConcat(Stem(type), k, type)
  BY <1>2, <1>3, Zenon DEF Stem
<1>5. Len(type) \in Nat
  BY LenProperties
<1> QED  BY <1>2, <1>4, <1>5 DEF IsConcat

(* A version begins with a digit, or with "v" and a digit. *)
Begins(v) == Len(v) >= 1 /\ v[1] \in {"1", "v"}

LEMMA NotLonger ==
  ASSUME NEW t1 \in Seq(Tokens), NEW t2 \in Seq(Tokens), NEW v \in Seq(Tokens), NEW w \in Seq(Tokens),
         Plain(t2), Begins(v),
         NEW g, NEW h, Len(g) = 1 + Len(t1), Len(h) = 1 + Len(t2),
         \A i \in 1..Len(t2) : h[1 + i] = t2[i],
         NEW s, At(s, g, "-", v), At(s, h, "-", w)
  PROVE  ~(Len(t1) < Len(t2))
<1> SUFFICES ASSUME Len(t1) < Len(t2) PROVE FALSE
  OBVIOUS
<1>2. PICK m \in Nat, n \in Nat, k \in Nat, l \in Nat :
        m = Len(t1) /\ n = Len(t2) /\ k = Len(v) /\ l = Len(w)
  BY LenProperties
<1>3. Len(g) = 1 + m /\ Len(h) = 1 + n /\ \A i \in 1..n : h[1 + i] = t2[i]
  BY <1>2
<1>8. Len(s) = m + 2 + k /\ s[m + 2] = "-" /\ \A i \in 1..k : s[m + 2 + i] = v[i]
  BY <1>2, <1>3 DEF At
<1>9. Len(s) = n + 2 + l /\ s[n + 2] = "-" /\ \A i \in 1 .. n + 1 : s[i] = h[i]
  <2>1. /\ Len(s) = Len(h) + 1 + Len(w) /\ s[Len(h) + 1] = "-"
        /\ \A i \in 1..Len(h) : s[i] = h[i]
    BY DEF At
  <2>2. 1 + n + 1 + l = n + 2 + l /\ 1 + n + 1 = n + 2 /\ 1 + n = n + 1
    BY <1>2
  <2> QED  BY <1>2, <1>3, <2>1, <2>2, Zenon
<1>10. m < n /\ k >= 1 /\ v[1] \in {"1", "v"}
  BY <1>2 DEF Begins
<1>11. s[m + 3] \in {"1", "v"}
  <2>1. 1 \in 1..k /\ m + 2 + 1 = m + 3
    BY <1>10
  <2> QED  BY <1>8, <1>10, <2>1
<1>12. PICK i \in 1..n : i = m + 1
  BY <1>2, <1>10
<1>13. t2[i] = "-"
  <2>1. PICK j \in 1 .. n + 1 : j = m + 2 /\ j = 1 + i
    <3>1. m + 2 \in 1 .. n + 1 /\ m + 2 = 1 + i
      BY <1>2, <1>10, <1>12
    <3> QED  BY <3>1, Zenon
  <2>2. s[j] = "-" /\ s[j] = h[j]
    BY <1>8, <1>9, <2>1
  <2>3. h[j] = t2[i]
    BY <1>3, <1>12, <2>1
  <2> QED  BY <2>2, <2>3
<1>14. CASE m + 1 = n
  BY <1>2, <1>9, <1>11, <1>14
<1>15. CASE m + 2 <= n
  <2>1. PICK j \in 1..n : j = i + 1 /\ j = m + 2
    BY <1>2, <1>12, <1>15
  <2>2. t2[j] \in {"1", "v"}
    <3>1. PICK o \in 1 .. n + 1 : o = m + 3 /\ o = 1 + j
      BY <1>2, <1>15, <2>1
    <3>2. s[o] \in {"1", "v"} /\ s[o] = h[o]
      BY <1>9, <1>11, <3>1
    <3>3. h[o] = t2[j]
      BY <1>3, <2>1, <3>1
    <3> QED  BY <3>2, <3>3
  <2> QED  BY <1>2, <1>13, <2>1, <2>2 DEF Plain
<1> QED  BY <1>2, <1>10, <1>14, <1>15

(* No name of one form is one of the other: an architecture holds no dash.  *)
LEMMA FormsDiffer ==
  ASSUME NEW h \in Seq(Tokens), NEW q \in Seq(Tokens), NEW arch \in Seq(Tokens),
         \A i \in 1..Len(arch) : arch[i] \in DigitWords,
         NEW z, Len(z) = 2, z[1] = "-", z[2] = "bin",
         NEW sep, sep # "-", sep # "bin",
         NEW s, At(s, h, sep, arch), IsConcat(s, q, z)
  PROVE  FALSE
<1>6. PICK m \in Nat, n \in Nat, l \in Nat : m = Len(h) /\ n = Len(arch) /\ l = Len(q)
  BY LenProperties
<1>7. /\ Len(s) = m + 1 + n /\ s[m + 1] = sep /\ \A i \in 1..n : s[m + 1 + i] = arch[i]
  BY <1>6 DEF At
<1>8. Len(s) = l + 2 /\ s[l + 1] = "-" /\ s[l + 2] = "bin"
  BY <1>6 DEF IsConcat
<1>9. m + n = l + 1
  BY <1>6, <1>7, <1>8
<1>10. CASE n = 0
  BY <1>6, <1>7, <1>8, <1>9, <1>10
<1>11. CASE n = 1
  BY <1>6, <1>7, <1>8, <1>9, <1>11
<1>12. CASE n >= 2
  <2>1. PICK i \in 1..n : m + 1 + i = l + 1
    <3>1. n - 1 \in 1..n /\ m + 1 + (n - 1) = l + 1
      BY <1>6, <1>9, <1>12
    <3> QED  BY <3>1, Zenon
  <2>2. arch[i] = "-"
    BY <1>7, <1>8, <2>1
  <2>3. arch[i] \in DigitWords
    BY <1>6, <2>1
  <2> QED  BY <2>2, <2>3 DEF DigitWords, LowerWords
<1> QED  BY <1>6, <1>10, <1>11, <1>12

(* The version in a name, with or without its "v". *)
LEMMA VersionInName ==
  ASSUME NEW p, WellFormed(p), NEW v, v = p.version \/ v = <<"v">> \o p.version
  PROVE  v \in Seq(Tokens) /\ Free(v, "_") /\ Begins(v) /\ p.version = normalize_version(v)
<1>1. p.version \in Seq(Tokens) /\ IsSemver(p.version)
  BY DEF WellFormed, Fields
<1>2. PICK w \in Seq(Tokens) : w = p.version
  BY <1>1
<1>3. /\ w # <<>> /\ w[1] = "1"
      /\ \A i \in 1..Len(w) : w[i] \in Words \cup {".", "-", "+"}
  BY <1>1, <1>2, SemverTokens
<1>4. Len(w) \in Nat /\ Len(w) >= 1
  BY <1>3, LenProperties, EmptySeq
<1>5. \A c \in Words \cup {".", "-", "+", "v"} : c # "_"
  BY DEF Words, DigitWords, LowerWords
<1>6. <<"v">> \in Seq(Tokens)
  BY Literals, Zenon
<1>7. CASE v = w
  <2>1. Free(v, "_") /\ Begins(v)
    BY <1>3, <1>4, <1>5, <1>7 DEF Free, Begins
  <2>2. p.version = normalize_version(v)
    BY <1>1, <1>2, <1>7, Normalized
  <2> QED  BY <1>7, <2>1, <2>2
<1>8. CASE v = <<"v">> \o w
  <2>1. PICK u \in Seq(Tokens) : u = <<"v">> /\ Len(u) = 1 /\ u[1] = "v"
    BY <1>6
  <2>2. u \o w \in Seq(Tokens) /\ IsConcat(u \o w, u, w)
    BY ConcatAt
  <2>3. v \in Seq(Tokens) /\ IsConcat(v, u, w)
    BY <1>8, <2>1, <2>2, Zenon
  <2>4. /\ Len(v) = 1 + Len(w) /\ v[1] = "v"
        /\ \A i \in 1..Len(w) : v[1 + i] = w[i]
    BY <2>1, <2>3 DEF IsConcat
  <2>5. ASSUME NEW i \in 1..Len(v) PROVE v[i] \in Words \cup {".", "-", "+", "v"}
    <3>1. CASE i = 1
      BY <2>4, <3>1
    <3>2. CASE i # 1
      <4>1. i - 1 \in 1..Len(w) /\ 1 + (i - 1) = i
        BY <1>4, <2>4, <3>2
      <4>2. PICK j \in 1..Len(w) : 1 + j = i
        BY <4>1, Zenon
      <4> QED  BY <1>3, <2>4, <4>2
    <3> QED  BY <3>1, <3>2
  <2>6. Free(v, "_")
    BY <1>5, <2>5 DEF Free
  <2>7. Begins(v)
    BY <1>4, <2>4 DEF Begins
  <2>8. p.version = normalize_version(v)
    BY <1>1, <1>2, <1>8, <2>3, Normalized
  <2> QED  BY <2>3, <2>6, <2>7, <2>8
<1> QED  BY <1>2, <1>7, <1>8

LEMMA SameFields ==
  ASSUME NEW T, NEW x \in Fields(T), NEW y \in Fields(T),
         x.version = y.version, x.os = y.os, x.arch = y.arch
  PROVE  x = y
BY DEF Fields

LEMMA SameUnderscored ==
  ASSUME NEW t1 \in Seq(Tokens), NEW t2 \in Seq(Tokens),
         NEW x \in Fields(Tokens), NEW y \in Fields(Tokens),
         Free(x.version, "_"), Free(x.os, "_"), Free(x.arch, "_"),
         Free(y.version, "_"), Free(y.os, "_"), Free(y.arch, "_"),
         Underscored(t1, x) = Underscored(t2, y)
  PROVE  t1 = t2 /\ x = y
<1>0. /\ "_" \in Tokens /\ <<"_">> \in Seq(Tokens) /\ <<".", "zip">> \in Seq(Tokens)
      /\ <<"terraform-provider-">> \in Seq(Tokens)
  BY Literals, Zenon
<1>1. /\ Joined(Whole(t1, x, "_"), "_") \in Seq(Tokens)
      /\ Joined(Whole(t2, y, "_"), "_") \in Seq(Tokens)
      /\ Joined(Whole(t1, x, "_"), "_") \o <<".", "zip">>
           = Joined(Whole(t2, y, "_"), "_") \o <<".", "zip">>
  <2>1. /\ Joined(Whole(t1, x, "_"), "_") \in Seq(Tokens)
        /\ Joined(Whole(t1, x, "_"), "_")
             = (((((Stem(t1) \o <<"_">>) \o x.version) \o <<"_">>) \o x.os) \o <<"_">>) \o x.arch
    BY <1>0, WholeIs
  <2>2. /\ Joined(Whole(t2, y, "_"), "_") \in Seq(Tokens)
        /\ Joined(Whole(t2, y, "_"), "_")
             = (((((Stem(t2) \o <<"_">>) \o y.version) \o <<"_">>) \o y.os) \o <<"_">>) \o y.arch
    BY <1>0, WholeIs
  <2> QED  BY <2>1, <2>2, Zenon DEF Underscored
<1>2. SameWhole(t1, x, t2, y, "_")
  <2>1. Agree(Joined(Whole(t1, x, "_"), "_"), <<".", "zip">>, Joined(Whole(t2, y, "_"), "_"), <<".", "zip">>)
    BY <1>1, Zenon DEF Agree
  <2>2. Joined(Whole(t1, x, "_"), "_") = Joined(Whole(t2, y, "_"), "_")
    BY <1>0, <1>1, <2>1, Cancelled
  <2> QED  BY <2>2, Zenon DEF SameWhole
<1>3. /\ x.os = y.os /\ x.arch = y.arch
      /\ (Stem(t1) \o <<"_">>) \o x.version = (Stem(t2) \o <<"_">>) \o y.version
  <2>1. PICK sep \in Tokens : sep = "_"
    BY <1>0, Zenon
  <2>2. /\ SameWhole(t1, x, t2, y, sep)
        /\ Free(x.os, sep) /\ Free(x.arch, sep) /\ Free(y.os, sep) /\ Free(y.arch, sep)
    BY <1>2, <2>1, Zenon
  <2>3. SameParts(t1, x, t2, y, sep)
    BY <2>2, SameForm
  <2> QED  BY <2>1, <2>3, Zenon DEF SameParts
<1>4. /\ Stem(t1) \in Seq(Tokens) /\ Stem(t2) \in Seq(Tokens)
      /\ x.version \in Seq(Tokens) /\ y.version \in Seq(Tokens)
  BY StemAt DEF Fields
<1>5. Stem(t1) = Stem(t2) /\ x.version = y.version
  BY <1>0, <1>3, <1>4, LastSeparator
<1>6. Agree(<<"terraform-provider-">>, t1, <<"terraform-provider-">>, t2)
  BY <1>5, Zenon DEF Stem, Agree
<1>7. t1 = t2
  BY <1>0, <1>6, Cancelled
<1> QED  BY <1>3, <1>5, <1>7, SameFields

LEMMA SameDashed ==
  ASSUME NEW t1 \in Seq(Tokens), NEW t2 \in Seq(Tokens),
         NEW x \in Fields(Tokens), NEW y \in Fields(Tokens),
         Begins(x.version), Free(x.os, "-"), Free(x.arch, "-"),
         Begins(y.version), Free(y.os, "-"), Free(y.arch, "-"),
         t1 = t2 \/ (Plain(t1) /\ Plain(t2)),
         Dashed(t1, x) = Dashed(t2, y)
  PROVE  t1 = t2 /\ x = y
<1>0. /\ "-" \in Tokens /\ <<"-">> \in Seq(Tokens) /\ <<"-", "bin", ".", "zip">> \in Seq(Tokens)
      /\ <<"terraform-provider-">> \in Seq(Tokens)
  <2>1. /\ "-" \in Tokens /\ <<"-">> \in Seq(Tokens) /\ <<"-", "bin">> \in Seq(Tokens)
        /\ <<".", "zip">> \in Seq(Tokens) /\ <<"terraform-provider-">> \in Seq(Tokens)
        /\ <<"-", "bin">> \o <<".", "zip">> = <<"-", "bin", ".", "zip">>
    BY Literals, Zenon
  <2>2. <<"-", "bin">> \o <<".", "zip">> \in Seq(Tokens)
    BY <2>1, ConcatIn
  <2> QED  BY <2>1, <2>2, Zenon
<1>1. /\ Joined(Whole(t1, x, "-"), "-") \in Seq(Tokens)
      /\ Joined(Whole(t2, y, "-"), "-") \in Seq(Tokens)
      /\ Joined(Whole(t1, x, "-"), "-") \o <<"-", "bin", ".", "zip">>
           = Joined(Whole(t2, y, "-"), "-") \o <<"-", "bin", ".", "zip">>
  <2>1. /\ Joined(Whole(t1, x, "-"), "-") \in Seq(Tokens)
        /\ Joined(Whole(t1, x, "-"), "-")
             = (((((Stem(t1) \o <<"-">>) \o x.version) \o <<"-">>) \o x.os) \o <<"-">>) \o x.arch
    BY <1>0, WholeIs
  <2>2. /\ Joined(Whole(t2, y, "-"), "-") \in Seq(Tokens)
        /\ Joined(Whole(t2, y, "-"), "-")
             = (((((Stem(t2) \o <<"-">>) \o y.version) \o <<"-">>) \o y.os) \o <<"-">>) \o y.arch
    BY <1>0, WholeIs
  <2> QED  BY <2>1, <2>2, Zenon DEF Dashed
<1>2. SameWhole(t1, x, t2, y, "-")
  <2>1. Agree(Joined(Whole(t1, x, "-"), "-"), <<"-", "bin", ".", "zip">>, Joined(Whole(t2, y, "-"), "-"), <<"-", "bin", ".", "zip">>)
    BY <1>1, Zenon DEF Agree
  <2>2. Joined(Whole(t1, x, "-"), "-") = Joined(Whole(t2, y, "-"), "-")
    BY <1>0, <1>1, <2>1, Cancelled
  <2> QED  BY <2>2, Zenon DEF SameWhole
<1>3. /\ x.os = y.os /\ x.arch = y.arch
      /\ (Stem(t1) \o <<"-">>) \o x.version = (Stem(t2) \o <<"-">>) \o y.version
  <2>1. PICK sep \in Tokens : sep = "-"
    BY <1>0, Zenon
  <2>2. /\ SameWhole(t1, x, t2, y, sep)
        /\ Free(x.os, sep) /\ Free(x.arch, sep) /\ Free(y.os, sep) /\ Free(y.arch, sep)
    BY <1>2, <2>1, Zenon
  <2>3. SameParts(t1, x, t2, y, sep)
    BY <2>2, SameForm
  <2> QED  BY <2>1, <2>3, Zenon DEF SameParts
<1>4. x.version \in Seq(Tokens) /\ y.version \in Seq(Tokens)
  BY DEF Fields
<1>5. PICK g, h : g = Stem(t1) /\ h = Stem(t2)
  OBVIOUS
<1>6. /\ g \in Seq(Tokens) /\ Len(g) = 1 + Len(t1) /\ \A i \in 1..Len(t1) : g[1 + i] = t1[i]
      /\ h \in Seq(Tokens) /\ Len(h) = 1 + Len(t2) /\ \A i \in 1..Len(t2) : h[1 + i] = t2[i]
  BY <1>5, StemAt
<1>7. PICK s : s = (g \o <<"-">>) \o x.version /\ s = (h \o <<"-">>) \o y.version
  BY <1>3, <1>5, Zenon
<1>8. At(s, g, "-", x.version) /\ At(s, h, "-", y.version)
  BY <1>0, <1>4, <1>6, <1>7, ThreeParts
<1>9. Len(t1) = Len(t2)
  <2>1. CASE Plain(t1) /\ Plain(t2)
    <3>1. ~(Len(t1) < Len(t2))
      BY <1>4, <1>6, <1>8, <2>1, NotLonger
    <3>2. ~(Len(t2) < Len(t1))
      BY <1>4, <1>6, <1>8, <2>1, NotLonger
    <3> QED  BY <3>1, <3>2, LenProperties
  <2> QED  BY <2>1
<1>10. Len(g) = Len(h)
  BY <1>6, <1>9
<1>11. g \o <<"-">> \in Seq(Tokens) /\ h \o <<"-">> \in Seq(Tokens)
  BY <1>0, <1>6, ConcatIn
<1>12. Agree(g, <<"-">> \o x.version, h, <<"-">> \o y.version)
  <2>1. Associates(g, <<"-">>, x.version) /\ Associates(h, <<"-">>, y.version)
    BY <1>0, <1>4, <1>6, Regrouped
  <2> QED  BY <1>7, <2>1, Zenon DEF Associates, Agree
<1>13. <<"-">> \o x.version \in Seq(Tokens) /\ <<"-">> \o y.version \in Seq(Tokens)
  BY <1>0, <1>4, ConcatIn
<1>14. g = h /\ <<"-">> \o x.version = <<"-">> \o y.version
  BY <1>6, <1>10, <1>12, <1>13, Cancelled
<1>15. x.version = y.version
  <2>1. Agree(<<"-">>, x.version, <<"-">>, y.version)
    BY <1>14, Zenon DEF Agree
  <2> QED  BY <1>0, <1>4, <2>1, Cancelled
<1>16. Agree(<<"terraform-provider-">>, t1, <<"terraform-provider-">>, t2)
  BY <1>5, <1>14, Zenon DEF Stem, Agree
<1>17. t1 = t2
  BY <1>0, <1>16, Cancelled
<1> QED  BY <1>3, <1>15, <1>17, SameFields

LEMMA NotBothForms ==
  ASSUME NEW t1 \in Seq(Tokens), NEW t2 \in Seq(Tokens),
         NEW x \in Fields(Tokens), NEW y \in Fields(Tokens), Made(x.arch, DigitWords)
  PROVE  Underscored(t1, x) # Dashed(t2, y)
<1> SUFFICES ASSUME Underscored(t1, x) = Dashed(t2, y) PROVE FALSE
  OBVIOUS
<1>0. /\ "_" \in Tokens /\ "-" \in Tokens /\ <<"_">> \in Seq(Tokens) /\ <<"-", "bin">> \in Seq(Tokens)
      /\ <<".", "zip">> \in Seq(Tokens)
      /\ <<"-", "bin">> \o <<".", "zip">> = <<"-", "bin", ".", "zip">>
  BY Literals, Zenon
<1>1. PICK q \in Seq(Tokens) :
        Dashed(t2, y) = (q \o <<"-", "bin">>) \o <<".", "zip">>
  <2>1. /\ Joined(Whole(t2, y, "-"), "-") \in Seq(Tokens)
        /\ Joined(Whole(t2, y, "-"), "-")
             = (((((Stem(t2) \o <<"-">>) \o y.version) \o <<"-">>) \o y.os) \o <<"-">>) \o y.arch
    BY <1>0, WholeIs
  <2>2. Associates(Joined(Whole(t2, y, "-"), "-"), <<"-", "bin">>, <<".", "zip">>)
    BY <1>0, <2>1, Regrouped
  <2>3. Dashed(t2, y) = (Joined(Whole(t2, y, "-"), "-") \o <<"-", "bin">>) \o <<".", "zip">>
    BY <1>0, <2>1, <2>2, Zenon DEF Dashed, Associates
  <2> QED  BY <2>1, <2>3, Zenon
<1>2. PICK h \in Seq(Tokens) : Underscored(t1, x) = ((h \o <<"_">>) \o x.arch) \o <<".", "zip">>
  <2>1. x.version \in Seq(Tokens) /\ x.os \in Seq(Tokens) /\ Stem(t1) \in Seq(Tokens)
    BY StemAt DEF Fields
  <2>2. Stem(t1) \o <<"_">> \in Seq(Tokens)
    BY <1>0, <2>1, ConcatIn
  <2>3. (Stem(t1) \o <<"_">>) \o x.version \in Seq(Tokens)
    BY <2>1, <2>2, ConcatIn
  <2>4. ((Stem(t1) \o <<"_">>) \o x.version) \o <<"_">> \in Seq(Tokens)
    BY <1>0, <2>3, ConcatIn
  <2>5. (((Stem(t1) \o <<"_">>) \o x.version) \o <<"_">>) \o x.os \in Seq(Tokens)
    BY <2>1, <2>4, ConcatIn
  <2> QED  BY <2>5, Zenon DEF Underscored
<1>3. x.arch \in Seq(Tokens)
  BY DEF Fields
<1>4. h \o <<"_">> \in Seq(Tokens)
  BY <1>0, ConcatIn
<1>5. (h \o <<"_">>) \o x.arch \in Seq(Tokens) /\ q \o <<"-", "bin">> \in Seq(Tokens)
  BY <1>0, <1>3, <1>4, ConcatIn
<1>6. (h \o <<"_">>) \o x.arch = q \o <<"-", "bin">>
  <2>1. Agree((h \o <<"_">>) \o x.arch, <<".", "zip">>, q \o <<"-", "bin">>, <<".", "zip">>)
    BY <1>1, <1>2, Zenon DEF Agree
  <2> QED  BY <1>0, <1>5, <2>1, Cancelled
<1>7. PICK s : s = (h \o <<"_">>) \o x.arch /\ s = q \o <<"-", "bin">>
  BY <1>6, Zenon
<1>8. PICK z \in Seq(Tokens) : z = <<"-", "bin">> /\ Len(z) = 2 /\ z[1] = "-" /\ z[2] = "bin"
  <2>1. Len(<<"-", "bin">>) = 2 /\ <<"-", "bin">>[1] = "-" /\ <<"-", "bin">>[2] = "bin"
    OBVIOUS
  <2> QED  BY <1>0, <2>1, Zenon
<1>9. PICK sep \in Tokens : sep = "_" /\ sep # "-" /\ sep # "bin"
  BY <1>0
<1>10. At(s, h, sep, x.arch)
  BY <1>3, <1>7, <1>9, ThreeParts, Zenon
<1>11. IsConcat(s, q, z)
  BY <1>7, <1>8, ConcatAt, Zenon
<1>12. \A i \in 1..Len(x.arch) : x.arch[i] \in DigitWords
  BY <1>3, LenProperties DEF Made
<1> QED  BY <1>3, <1>8, <1>9, <1>10, <1>11, <1>12, FormsDiffer

(* The types whose names cannot be taken for each other.  A type that holds *)
(* "-" and then the start of a version is left out: the code too reads      *)
(* terraform-provider-a-1.0.0-x-1.0.0-linux-amd64-bin.zip as 1.0.0-x-1.0.0  *)
(* of type a and as 1.0.0 of type a-1.0.0-x.                                *)
Comparable(t1, t2) == t1 = t2 \/ (Plain(t1) /\ Plain(t2))

(* ArchiveName::parse reads a name in one way, and as an archive of one     *)
(* type: a name with underscores because neither an operating system nor an *)
(* architecture holds one, a name with dashes because no version starts     *)
(* within a plain type, and no name is of both forms.                       *)
THEOREM NamesToldApart ==
  \A t1, t2, name \in Seq(Tokens) : Comparable(t1, t2) =>
    \A p \in parse(t1, name), q \in parse(t2, name) : t1 = t2 /\ p = q
<1> SUFFICES ASSUME NEW t1 \in Seq(Tokens), NEW t2 \in Seq(Tokens), NEW name \in Seq(Tokens),
                    NEW p, NEW q, p \in parse(t1, name), q \in parse(t2, name),
                    t1 = t2 \/ (Plain(t1) /\ Plain(t2))
             PROVE  t1 = t2 /\ p = q
  BY DEF Comparable
<1>1. PICK x \in UnderscoredFields(t1, name) \cup DashedFields(t1, name) : p \in from_parts(x)
  BY ParseSteps
<1>2. PICK y \in UnderscoredFields(t2, name) \cup DashedFields(t2, name) : q \in from_parts(y)
  BY ParseSteps
<1>3. x \in Fields(Tokens) /\ y \in Fields(Tokens)
  BY <1>1, <1>2, UnderscoredExactly, DashedExactly
<1>4. /\ WellFormed(p) /\ p.os = x.os /\ p.arch = x.arch
      /\ x.version = p.version \/ x.version = <<"v">> \o p.version
  BY <1>1, <1>3, FromParts
<1>5. /\ WellFormed(q) /\ q.os = y.os /\ q.arch = y.arch
      /\ y.version = q.version \/ y.version = <<"v">> \o q.version
  BY <1>2, <1>3, FromParts
<1>6. /\ Free(x.version, "_") /\ Begins(x.version) /\ p.version = normalize_version(x.version)
      /\ Free(y.version, "_") /\ Begins(y.version) /\ q.version = normalize_version(y.version)
  BY <1>4, <1>5, VersionInName
<1>7. /\ Free(x.os, "_") /\ Free(x.arch, "_") /\ Free(x.os, "-") /\ Free(x.arch, "-")
      /\ Free(y.os, "_") /\ Free(y.arch, "_") /\ Free(y.os, "-") /\ Free(y.arch, "-")
  BY <1>4, <1>5, WordsAreFree
<1>8. Made(x.arch, DigitWords) /\ Made(y.arch, DigitWords)
  BY <1>4, <1>5 DEF WellFormed
<1>9. t1 = t2 /\ x = y
  <2>1. CASE name = Underscored(t1, x) /\ name = Underscored(t2, y)
    BY <1>3, <1>6, <1>7, <2>1, SameUnderscored, ZenonT(60)
  <2>2. CASE name = Dashed(t1, x) /\ name = Dashed(t2, y)
    BY <1>3, <1>6, <1>7, <2>2, SameDashed
  <2>3. CASE name = Underscored(t1, x) /\ name = Dashed(t2, y)
    BY <1>3, <1>8, <2>3, NotBothForms
  <2>4. CASE name = Dashed(t1, x) /\ name = Underscored(t2, y)
    BY <1>3, <1>8, <2>4, NotBothForms
  <2>5. name = Underscored(t1, x) \/ name = Dashed(t1, x)
    BY <1>1, UnderscoredExactly, DashedExactly
  <2>6. name = Underscored(t2, y) \/ name = Dashed(t2, y)
    BY <1>2, UnderscoredExactly, DashedExactly
  <2> QED  BY <2>1, <2>2, <2>3, <2>4, <2>5, <2>6
<1>10. p.version = q.version /\ p.os = q.os /\ p.arch = q.arch
  BY <1>4, <1>5, <1>6, <1>9, Zenon
<1>11. p \in Fields(Tokens) /\ q \in Fields(Tokens)
  BY <1>4, <1>5 DEF WellFormed
<1> QED  BY <1>9, <1>10, <1>11, SameFields

-----------------------------------------------------------------------------
(* The tokens of the names. *)
LEMMA MadeOf ==
  ASSUME NEW S, NEW T, NEW s \in Seq(S)
  PROVE  Made(s, T) <=> s \in Seq(T)
<1>1. Len(s) \in Nat /\ DOMAIN s = 1..Len(s) /\ s \in [1..Len(s) -> S]
  BY LenProperties
<1>2. ASSUME Made(s, T) PROVE s \in Seq(T)
  <2>1. s \in [1..Len(s) -> T]
    BY <1>1, <1>2 DEF Made
  <2> QED  BY <1>1, <2>1, SeqDef
<1>3. ASSUME s \in Seq(T) PROVE Made(s, T)
  BY <1>1, <1>3, ElementOfSeq DEF Made
<1> QED  BY <1>2, <1>3

Literal(T) ==
  /\ "terraform-provider-" \in T /\ "_" \in T /\ "-" \in T /\ "." \in T /\ "zip" \in T
  /\ "bin" \in T /\ "v" \in T

LEMMA NamesIn ==
  ASSUME NEW T, Literal(T), NEW type \in Seq(T), NEW x, NEW v \in Seq(T), NEW o \in Seq(T), NEW a \in Seq(T),
         x.version = v, x.os = o, x.arch = a
  PROVE  Underscored(type, x) \in Seq(T) /\ Dashed(type, x) \in Seq(T)
<1>1. /\ <<"terraform-provider-">> \in Seq(T) /\ <<"_">> \in Seq(T) /\ <<"-">> \in Seq(T)
      /\ <<".", "zip">> \in Seq(T) /\ <<"-", "bin", ".", "zip">> \in Seq(T)
  <2>1. ASSUME NEW c \in T PROVE <<c>> \in Seq(T)
    OBVIOUS
  <2>2. ASSUME NEW c \in T, NEW d \in T PROVE <<c, d>> \in Seq(T)
    OBVIOUS
  <2>3. ASSUME NEW c \in T, NEW d \in T, NEW e \in T, NEW f \in T PROVE <<c, d, e, f>> \in Seq(T)
    OBVIOUS
  <2>4. /\ "terraform-provider-" \in T /\ "_" \in T /\ "-" \in T /\ "." \in T /\ "zip" \in T
        /\ "bin" \in T
    BY DEF Literal
  <2> QED  BY <2>1, <2>2, <2>3, <2>4, Zenon
<1>2. Stem(type) \in Seq(T)
  BY <1>1, ConcatIn DEF Stem
<1>3. ASSUME NEW u \in Seq(T), NEW z \in Seq(T)
      PROVE  ((((((Stem(type) \o u) \o v) \o u) \o o) \o u) \o a) \o z \in Seq(T)
  <2>1. Stem(type) \o u \in Seq(T)
    BY <1>2, ConcatIn
  <2>2. (Stem(type) \o u) \o v \in Seq(T)
    BY <2>1, ConcatIn
  <2>3. ((Stem(type) \o u) \o v) \o u \in Seq(T)
    BY <2>2, ConcatIn
  <2>4. (((Stem(type) \o u) \o v) \o u) \o o \in Seq(T)
    BY <2>3, ConcatIn
  <2>5. ((((Stem(type) \o u) \o v) \o u) \o o) \o u \in Seq(T)
    BY <2>4, ConcatIn
  <2>6. (((((Stem(type) \o u) \o v) \o u) \o o) \o u) \o a \in Seq(T)
    BY <2>5, ConcatIn
  <2> QED  BY <2>6, ConcatIn
<1>4. Underscored(type, x) \in Seq(T)
  BY <1>1, <1>3, Zenon DEF Underscored
<1>5. Dashed(type, x) \in Seq(T)
  BY <1>1, <1>3, Zenon DEF Dashed
<1> QED  BY <1>4, <1>5

(* A spelling of a well-formed archive is made of what its parts are made of. *)
LEMMA SpelledIn ==
  ASSUME NEW T, Literal(T), NEW type \in Seq(T), NEW p,
         p.version \in Seq(T), p.os \in Seq(T), p.arch \in Seq(T), NEW name \in Spellings(type, p)
  PROVE  name \in Seq(T)
<1>1. PICK v \in {p.version, <<"v">> \o p.version} :
        \/ name = Underscored(type, [version |-> v, os |-> p.os, arch |-> p.arch])
        \/ name = Dashed(type, [version |-> v, os |-> p.os, arch |-> p.arch])
  BY SpellingsAre
<1>2. v \in Seq(T)
  <2>1. ASSUME NEW c \in T PROVE <<c>> \in Seq(T)
    OBVIOUS
  <2>2. <<"v">> \in Seq(T)
    BY <2>1 DEF Literal
  <2>3. <<"v">> \o p.version \in Seq(T)
    BY <2>2, ConcatIn
  <2> QED  BY <1>1, <2>3
<1>3. PICK x : x = [version |-> v, os |-> p.os, arch |-> p.arch]
  OBVIOUS
<1>4. PICK o \in Seq(T), a \in Seq(T) : x.version = v /\ x.os = o /\ x.arch = a
  BY <1>3
<1>5. Underscored(type, x) \in Seq(T) /\ Dashed(type, x) \in Seq(T)
  BY <1>2, <1>4, NamesIn
<1> QED  BY <1>1, <1>3, <1>5

(* The tokens validate_key allows in the name of a file. *)
FileTokens == Words \cup {"terraform-provider-"} \cup (Separators \ {"/"})

(* What ArchiveName::parse accepts the other checks accept: its version     *)
(* passes validate_version (metadata.rs) and is looked up unchanged, and    *)
(* validate_key (storage.rs) takes the name unless the type has a dot.      *)
THEOREM ParsedIsServable ==
  \A type, name \in Seq(Tokens) : \A p \in parse(type, name) :
    /\ normalize_version(p.version) = p.version /\ validate_version(p.version)
    /\ valid_component(type) =>
         (validate_key(type, name) <=> ~\E i \in DOMAIN type : type[i] = ".")
<1> SUFFICES ASSUME NEW type \in Seq(Tokens), NEW name \in Seq(Tokens), NEW p \in parse(type, name)
             PROVE  /\ normalize_version(p.version) = p.version /\ validate_version(p.version)
                    /\ valid_component(type) =>
                         (validate_key(type, name) <=> ~\E i \in DOMAIN type : type[i] = ".")
  OBVIOUS
<1>1. WellFormed(p) /\ name \in Spellings(type, p)
  BY NamesExact
<1>2. PICK w \in Seq(Tokens) : w = p.version /\ IsSemver(w)
  BY <1>1 DEF WellFormed, Fields
<1>3. /\ w # <<>> /\ w[1] = "1"
      /\ \A i \in 1..Len(w) : w[i] \in Words \cup {".", "-", "+"}
  BY <1>2, SemverTokens
<1>4. normalize_version(p.version) = p.version
  BY <1>1, VersionInName
<1>5. DOMAIN w = 1..Len(w)
  BY LenProperties
<1>6. Made(w, Words \cup {".", "-", "+"})
  BY <1>3, <1>5 DEF Made
<1>7. w \notin {<<".">>, <<".", ".">>}
  BY <1>3
<1>8. validate_version(p.version)
  BY <1>2, <1>3, <1>4, <1>6, <1>7, Zenon DEF validate_version, valid_version
<1>9. ASSUME valid_component(type)
      PROVE  validate_key(type, name) <=> ~\E i \in DOMAIN type : type[i] = "."
  <2>1. type # <<>> /\ \A i \in DOMAIN type : type[i] \in Words \cup {"-", "_", "."}
    BY <1>9 DEF valid_component, Made
  <2>2. \A c \in Words \cup {"-", "_", "."} : c \in Words \cup {"-", "_"} <=> c # "."
    BY DEF Words, DigitWords, LowerWords
  <2>3. storage_valid_component(type) <=> ~\E i \in DOMAIN type : type[i] = "."
    BY <2>1, <2>2 DEF storage_valid_component, Made
  <2>4. Literal(FileTokens)
    BY DEF Literal, FileTokens, Separators, Words, DigitWords, LowerWords
  <2>5. /\ \A c \in Words \cup {"-", "_", "."} : c \in FileTokens
        /\ \A c \in Words \cup {".", "-", "+"} : c \in FileTokens
        /\ LowerWords \subseteq FileTokens /\ DigitWords \subseteq FileTokens
    BY DEF FileTokens, Separators, Words, DigitWords
  <2>6. type \in Seq(FileTokens)
    <3>1. Made(type, FileTokens)
      BY <2>1, <2>5 DEF Made
    <3> QED  BY <3>1, MadeOf
  <2>7. p.version \in Seq(FileTokens)
    <3>1. Made(w, FileTokens)
      BY <1>6, <2>5 DEF Made
    <3>2. w \in Seq(FileTokens)
      BY <3>1, MadeOf
    <3> QED  BY <1>2, <3>2
  <2>8. p.os \in Seq(FileTokens) /\ p.arch \in Seq(FileTokens)
    <3>1. p.os \in Seq(Tokens) /\ p.arch \in Seq(Tokens)
      BY <1>1 DEF WellFormed, Fields
    <3>2. Made(p.os, FileTokens) /\ Made(p.arch, FileTokens)
      BY <1>1, <2>5 DEF WellFormed, Made
    <3> QED  BY <3>1, <3>2, MadeOf
  <2>9. name \in Seq(FileTokens)
    BY <1>1, <2>4, <2>6, <2>7, <2>8, SpelledIn
  <2>10. Made(name, FileTokens)
    BY <2>9, MadeOf
  <2> QED  BY <2>3, <2>10 DEF validate_key, FileTokens
<1> QED  BY <1>4, <1>8, <1>9

-----------------------------------------------------------------------------
(* The names the runs try are among those. *)
LEMMA Singles ==
  ASSUME NEW T, NEW c \in T
  PROVE  <<c>> \in Seq(T) /\ Len(<<c>>) = 1 /\ <<c>>[1] = c
OBVIOUS

SomeVersion(v) == v \in Seq(Tokens) /\ IsSemver(v)

LEMMA SemverFrom ==
  ASSUME NEW w \in Seq(Tokens), Len(w) >= 2, w[1] \in {"-", "+"},
         \A i \in 2..Len(w) : w[i] \in Words \cup {"-"}
  PROVE  SomeVersion(Versions3 \o w)
<1>1. PICK v \in Seq(Tokens) : v = Versions3 /\ Len(v) = 5
  <2>1. "1" \in Tokens /\ "." \in Tokens
    BY DEF Tokens, Separators, Words, DigitWords
  <2>2. <<"1", ".", "1", ".", "1">> \in Seq(Tokens) /\ Len(<<"1", ".", "1", ".", "1">>) = 5
    BY <2>1
  <2> QED  BY <2>2, Zenon DEF Versions3
<1>2. PICK s : s = v \o w
  OBVIOUS
<1>3. s \in Seq(Tokens) /\ IsConcat(s, v, w)
  BY <1>2, ConcatAt
<1>4. Apart(v, w) /\ Len(w) \in Nat
  BY Comes
<1>5. SubSeq(s, 1, 5) = <<"1", ".", "1", ".", "1">>
  BY <1>1, <1>2, <1>4, Zenon DEF Apart, Versions3
<1>6. Len(s) = 5 + Len(w) /\ \A k \in 1..Len(w) : s[5 + k] = w[k]
  BY <1>1, <1>3 DEF IsConcat
<1>7. s[6] \in {"-", "+"}
  <2>1. 1 \in 1..Len(w) /\ 5 + 1 = 6
    BY <1>4
  <2>2. s[5 + 1] = w[1]
    BY <1>6, <2>1
  <2> QED  BY <2>1, <2>2
<1>8. Made(SubSeq(s, 7, Len(s)), Words \cup {"-"})
  <2>1. \A k \in 7..Len(s) : s[k] \in Tokens
    BY <1>3, <1>4, <1>6, ElementOfSeq
  <2>2. PICK u : u = SubSeq(s, 7, Len(s))
    OBVIOUS
  <2>3. u \in Seq(Tokens) /\ Len(u) = Len(w) - 1 /\ \A k \in 1 .. Len(w) - 1 : u[k] = s[7 + k - 1]
    BY <1>4, <1>6, <2>1, <2>2, SubSeqProperties
  <2>4. ASSUME NEW k \in 1 .. Len(w) - 1 PROVE u[k] \in Words \cup {"-"}
    <3>1. PICK j \in 2..Len(w) : j = k + 1 /\ 5 + j = 7 + k - 1 /\ j \in 1..Len(w)
      BY <1>4
    <3> QED  BY <1>6, <2>3, <3>1
  <2>5. DOMAIN u = 1 .. Len(w) - 1
    BY <2>3, LenProperties
  <2> QED  BY <2>2, <2>4, <2>5 DEF Made
<1>9. Len(s) >= 5 /\ Len(s) > 6
  BY <1>4, <1>6
<1>10. IsSemver(s)
  BY <1>5, <1>7, <1>8, <1>9 DEF IsSemver
<1> QED  BY <1>1, <1>2, <1>3, <1>10, Zenon DEF SomeVersion

LEMMA SomeSemvers == \A v \in SomeVersions : v \in Seq(Tokens) /\ IsSemver(v)
<1>1. /\ "1" \in Tokens /\ "." \in Tokens /\ "-" \in Tokens /\ "+" \in Tokens
      /\ "rc" \in Tokens /\ "b" \in Tokens
  BY DEF Tokens, Separators, Words, DigitWords, LowerWords
<1>2. "rc" \in Words /\ "1" \in Words /\ "b" \in Words
  BY DEF Words, DigitWords, LowerWords
<1>3. Versions3 \in Seq(Tokens) /\ IsSemver(Versions3)
  <2>1. PICK s \in Seq(Tokens) : s = Versions3 /\ Len(s) = 5
    <3>1. /\ <<"1", ".", "1", ".", "1">> \in Seq(Tokens)
          /\ Len(<<"1", ".", "1", ".", "1">>) = 5
      BY <1>1
    <3> QED  BY <3>1, Zenon DEF Versions3
  <2>2. SubSeq(s, 1, Len(s)) = s
    BY SubSeqFull
  <2>3. IsSemver(s)
    BY <2>1, <2>2 DEF IsSemver, Versions3
  <2> QED  BY <2>1, <2>3
<1>4. /\ Versions3 \o <<"-", "rc">> \in Seq(Tokens)
      /\ IsSemver(Versions3 \o <<"-", "rc">>)
  <2>1. PICK w \in Seq(Tokens) : w = <<"-", "rc">> /\ Len(w) = 2 /\ w[1] = "-" /\ w[2] = "rc"
    <3>1. /\ <<"-", "rc">> \in Seq(Tokens) /\ Len(<<"-", "rc">>) = 2
          /\ <<"-", "rc">>[1] = "-" /\ <<"-", "rc">>[2] = "rc"
      BY <1>1
    <3> QED  BY <3>1, Zenon
  <2>2. Len(w) >= 2 /\ w[1] \in {"-", "+"} /\ \A i \in 2..Len(w) : w[i] \in Words \cup {"-"}
    BY <1>2, <2>1
  <2>3. SomeVersion(Versions3 \o w)
    BY <2>2, SemverFrom
  <2> QED  BY <2>1, <2>3, Zenon DEF SomeVersion
<1>5. /\ Versions3 \o <<"+", "b">> \in Seq(Tokens)
      /\ IsSemver(Versions3 \o <<"+", "b">>)
  <2>1. PICK w \in Seq(Tokens) : w = <<"+", "b">> /\ Len(w) = 2 /\ w[1] = "+" /\ w[2] = "b"
    <3>1. /\ <<"+", "b">> \in Seq(Tokens) /\ Len(<<"+", "b">>) = 2
          /\ <<"+", "b">>[1] = "+" /\ <<"+", "b">>[2] = "b"
      BY <1>1
    <3> QED  BY <3>1, Zenon
  <2>2. Len(w) >= 2 /\ w[1] \in {"-", "+"} /\ \A i \in 2..Len(w) : w[i] \in Words \cup {"-"}
    BY <1>2, <2>1
  <2>3. SomeVersion(Versions3 \o w)
    BY <2>2, SemverFrom
  <2> QED  BY <2>1, <2>3, Zenon DEF SomeVersion
<1>6. /\ Versions3 \o <<"-", "rc", "-", "1">> \in Seq(Tokens)
      /\ IsSemver(Versions3 \o <<"-", "rc", "-", "1">>)
  <2>1. PICK w \in Seq(Tokens) : /\ w = <<"-", "rc", "-", "1">> /\ Len(w) = 4
                                 /\ w[1] = "-" /\ w[2] = "rc" /\ w[3] = "-" /\ w[4] = "1"
    <3>1. /\ <<"-", "rc", "-", "1">> \in Seq(Tokens) /\ Len(<<"-", "rc", "-", "1">>) = 4
          /\ <<"-", "rc", "-", "1">>[1] = "-" /\ <<"-", "rc", "-", "1">>[2] = "rc"
          /\ <<"-", "rc", "-", "1">>[3] = "-" /\ <<"-", "rc", "-", "1">>[4] = "1"
      BY <1>1
    <3> QED  BY <3>1, Zenon
  <2>2. ASSUME NEW i \in 2..Len(w) PROVE w[i] \in Words \cup {"-"}
    <3>1. i = 2 \/ i = 3 \/ i = 4
      BY <2>1
    <3> QED  BY <1>2, <2>1, <3>1
  <2>4. /\ Len(w) >= 2 /\ w[1] \in {"-", "+"}
        /\ \A i \in 2..Len(w) : w[i] \in Words \cup {"-"}
    BY <2>1, <2>2
  <2>3. SomeVersion(Versions3 \o w)
    BY <2>4, SemverFrom
  <2> QED  BY <2>1, <2>3, Zenon DEF SomeVersion
<1> QED  BY <1>3, <1>4, <1>5, <1>6, Zenon DEF SomeVersions

LEMMA SomeParts == \A p \in Parts : WellFormed(p)
<1> SUFFICES ASSUME NEW p \in Parts PROVE WellFormed(p)
  OBVIOUS
<1>1. /\ p.version \in SomeVersions /\ p.os \in {<<"linux">>, <<"b">>} /\ p.arch \in {<<"amd64">>, <<"a">>}
      /\ p = [version |-> p.version, os |-> p.os, arch |-> p.arch]
  BY DEF Parts
<1>2. /\ "linux" \in Tokens /\ "b" \in Tokens /\ "amd64" \in Tokens /\ "a" \in Tokens
  BY DEF Tokens, Words, DigitWords, LowerWords
<1>3. p.os \in Seq(Tokens) /\ p.arch \in Seq(Tokens)
  BY <1>1, <1>2, Singles, Zenon
<1>4. Made(p.os, LowerWords) /\ Made(p.arch, DigitWords)
  BY <1>1 DEF Made, LowerWords, DigitWords
<1>5. p.version \in Seq(Tokens) /\ IsSemver(p.version)
  BY <1>1, SomeSemvers
<1>6. p \in Fields(Tokens)
  BY <1>1, <1>3, <1>5 DEF Fields
<1> QED  BY <1>4, <1>5, <1>6 DEF WellFormed

LEMMA PlainTriple ==
  ASSUME NEW T, NEW c \in T, NEW d \in T, NEW e \in T,
         d \notin {"1", "v"}, e \notin {"1", "v"}
  PROVE  <<c, d, e>> \in Seq(T) /\ Plain(<<c, d, e>>)
<1>1. PICK t \in Seq(T) : t = <<c, d, e>> /\ Len(t) = 3 /\ t[2] = d /\ t[3] = e
  <2>1. /\ <<c, d, e>> \in Seq(T) /\ Len(<<c, d, e>>) = 3
        /\ <<c, d, e>>[2] = d /\ <<c, d, e>>[3] = e
    OBVIOUS
  <2> QED  BY <2>1, Zenon
<1>2. ASSUME NEW i \in 1..3, NEW j \in 1..3, j = i + 1 PROVE t[j] \notin {"1", "v"}
  <2>1. j = 2 \/ j = 3
    BY <1>2
  <2> QED  BY <1>1, <2>1
<1>3. Plain(t)
  BY <1>1, <1>2 DEF Plain
<1> QED  BY <1>1, <1>3, Zenon

LEMMA SomeTypes == \A t \in Types : t \in Seq(Tokens) /\ Plain(t)
<1>1. /\ "a" \in Tokens /\ "b" \in Tokens /\ "-" \in Tokens /\ "_" \in Tokens /\ "." \in Tokens
      /\ \A c \in {"-", "_", ".", "b"} : c \notin {"1", "v"}
  BY DEF Tokens, Separators, Words, DigitWords, LowerWords
<1>2. ASSUME NEW c \in Tokens, c \notin {"1", "v"}
      PROVE  <<"a", c, "b">> \in Seq(Tokens) /\ Plain(<<"a", c, "b">>)
  BY <1>1, <1>2, PlainTriple
<1>3. <<"a">> \in Seq(Tokens) /\ Plain(<<"a">>)
  <2>1. PICK t \in Seq(Tokens) : t = <<"a">> /\ Len(t) = 1
    BY <1>1, Singles, Zenon
  <2>2. Plain(t)
    BY <2>1 DEF Plain
  <2> QED  BY <2>1, <2>2, Zenon
<1> QED  BY <1>1, <1>2, <1>3, Zenon DEF Types

LEMMA NearIn ==
  ASSUME NEW good \in Seq(Tokens), NEW name \in NearNames(good)
  PROVE  name \in Seq(Tokens)
<1>1. /\ Len(good) \in Nat /\ DOMAIN good = 1..Len(good) /\ good \in [1..Len(good) -> Tokens]
  BY LenProperties
<1>2. CASE name \in Dropped(good)
  <2>1. PICK i \in 1..Len(good) : name = SubSeq(good, 1, i - 1) \o SubSeq(good, i + 1, Len(good))
    BY <1>1, <1>2 DEF Dropped
  <2>2. \A k \in 1 .. i - 1 : good[k] \in Tokens
    BY <1>1, <2>1
  <2>3. SubSeq(good, 1, i - 1) \in Seq(Tokens)
    BY <1>1, <2>2, SubSeqProperties
  <2>4. \A k \in i + 1 .. Len(good) : good[k] \in Tokens
    BY <1>1, <2>1
  <2>5. SubSeq(good, i + 1, Len(good)) \in Seq(Tokens)
    BY <1>1, <2>4, SubSeqProperties
  <2> QED  BY <2>1, <2>3, <2>5, ConcatIn
<1>3. CASE name \in Replaced(good)
  <2>1. \A t \in {"-", "_", "/", "v", "1", "Linux"} : t \in Tokens
    BY DEF Tokens, Separators, Words, DigitWords, LowerWords
  <2>2. PICK i \in DOMAIN good, t \in Tokens : name = [good EXCEPT ![i] = t]
    <3>1. PICK i \in DOMAIN good :
            name \in {[good EXCEPT ![i] = t] : t \in {"-", "_", "/", "v", "1", "Linux"}}
      BY <1>3, Zenon DEF Replaced
    <3>2. PICK t \in {"-", "_", "/", "v", "1", "Linux"} : name = [good EXCEPT ![i] = t]
      BY <3>1, Zenon
    <3> QED  BY <2>1, <3>2, Zenon
  <2>3. name \in [1..Len(good) -> Tokens]
    BY <1>1, <2>2
  <2> QED  BY <1>1, <2>3, SeqDef
<1> QED  BY <1>2, <1>3 DEF NearNames

(* parse() and the reference agree. *)
LEMMA OneReading ==
  ASSUME NEW type \in Seq(Tokens), NEW name \in Seq(Tokens),
         NEW p \in parse(type, name), NEW q \in parse(type, name)
  PROVE  q = p
<1>1. Comparable(type, type)
  BY Zenon DEF Comparable
<1> QED  BY <1>1, NamesToldApart

LEMMA NamesOf ==
  ASSUME NEW type \in Types, NEW p \in Parts, NEW name \in Spellings(type, p)
  PROVE  /\ name \in Seq(Tokens) /\ p \in parse(type, name)
         /\ \A q \in parse(type, name) : q = p
<1>1. type \in Seq(Tokens) /\ WellFormed(p)
  BY SomeTypes, SomeParts
<1>2. p.version \in Seq(Tokens) /\ p.os \in Seq(Tokens) /\ p.arch \in Seq(Tokens)
  BY <1>1 DEF WellFormed, Fields
<1>3. Literal(Tokens)
  BY DEF Literal, Tokens, Separators, Words, DigitWords, LowerWords
<1>4. name \in Seq(Tokens)
  BY <1>1, <1>2, <1>3, SpelledIn
<1>5. p \in parse(type, name)
  BY <1>1, <1>4, NamesExact
<1>6. ASSUME NEW q \in parse(type, name) PROVE q = p
  BY <1>1, <1>4, <1>5, OneReading, Zenon
<1> QED  BY <1>4, <1>5, <1>6

LEMMA ArchivesExact == ArchiveNamesExact
<1>1. ASSUME NEW type \in Types, NEW p \in Parts, NEW name \in Spellings(type, p), NEW other \in Types
      PROVE  parse(other, name) = IF other = type THEN {p} ELSE {}
  <2>1. name \in Seq(Tokens) /\ p \in parse(type, name)
    BY <1>1, NamesOf
  <2>2. /\ type \in Seq(Tokens) /\ Plain(type) /\ other \in Seq(Tokens) /\ Plain(other)
    BY SomeTypes
  <2>3. Comparable(type, other)
    BY <2>2 DEF Comparable
  <2>4. \A q \in parse(other, name) : other = type /\ q = p
    BY <2>1, <2>2, <2>3, NamesToldApart
  <2> QED  BY <2>1, <2>4
<1>2. ASSUME NEW type \in {<<"a">>, <<"a", "-", "b">>}, NEW good \in GoodNames(<<"a">>),
             NEW name \in NearNames(good), NEW p \in parse(type, name)
      PROVE  /\ IsSemver(p.version) /\ Made(p.os, LowerWords) /\ Made(p.arch, DigitWords)
             /\ name \in Spellings(type, p)
  <2>1. PICK o \in Parts : good \in Spellings(<<"a">>, o)
    BY Zenon DEF GoodNames
  <2>2. <<"a">> \in Types /\ type \in Types
    BY DEF Types
  <2>3. good \in Seq(Tokens) /\ type \in Seq(Tokens)
    BY <2>1, <2>2, NamesOf, SomeTypes
  <2>4. name \in Seq(Tokens)
    BY <2>3, NearIn
  <2> QED  BY <2>3, <2>4, NamesExact DEF WellFormed
<1> QED  BY <1>1, <1>2, Zenon DEF ArchiveNamesExact

LEMMA PackagesAreServable == PackagesServable
<1> SUFFICES ASSUME NEW type \in Types, NEW v \in SomeVersions \cup {<<"v">> \o Versions3, <<"1", ".", "1">>},
                    NEW p \in Parts, NEW name \in Spellings(type, p)
             PROVE  LET key == [type |-> type, version |-> normalize_version(v)]
                        requested == [os |-> p.os, arch |-> p.arch]
                        package == [os |-> p.os, arch |-> p.arch, filename |-> name,
                                    shasum_ok |-> TRUE, url_ok |-> TRUE]
                    IN /\ validate_package(key, requested, package) <=> p.version = key.version
                       /\ valid_component(type) /\ validate_version(v)
                            /\ validate_package(key, requested, package) =>
                            /\ \A a \in parse(type, name) :
                                 validate_version(a.version) /\ normalize_version(a.version) = key.version
                            /\ validate_key(type, name) <=> ~\E i \in DOMAIN type : type[i] = "."
  BY Zenon DEF PackagesServable
<1>1. name \in Seq(Tokens) /\ p \in parse(type, name) /\ type \in Seq(Tokens)
  BY NamesOf, SomeTypes
<1>2. \A q \in parse(type, name) : q = p
  BY NamesOf
<1> DEFINE key == [type |-> type, version |-> normalize_version(v)]
           requested == [os |-> p.os, arch |-> p.arch]
           package == [os |-> p.os, arch |-> p.arch, filename |-> name,
                       shasum_ok |-> TRUE, url_ok |-> TRUE]
<1>3. /\ normalize_version(p.version) = p.version /\ validate_version(p.version)
      /\ valid_component(type) =>
           (validate_key(type, name) <=> ~\E i \in DOMAIN type : type[i] = ".")
  BY <1>1, ParsedIsServable
<1>4. validate_package(key, requested, package) <=> p.version = key.version
  BY <1>1, <1>2 DEF validate_package
<1> HIDE DEF key, requested, package
<1>5. ASSUME valid_component(type), validate_package(key, requested, package)
      PROVE  /\ \A a \in parse(type, name) :
                  validate_version(a.version) /\ normalize_version(a.version) = key.version
             /\ validate_key(type, name) <=> ~\E i \in DOMAIN type : type[i] = "."
  BY <1>2, <1>3, <1>4, <1>5
<1> QED  BY <1>4, <1>5, Zenon DEF key, requested, package

(* Whenever packages of a version are fetched, the names that pass         *)
(* validation are the ones a download is found and stored by: a special    *)
(* case of the facts above, so it holds in every state.                    *)
THEOREM NamesAlwaysAgree == Spec => []NamesAgree
<1>1. NamesAgree
  BY ArchivesExact, PackagesAreServable, Zenon DEF NamesAgree
<1> QED  BY <1>1, PTL
=============================================================================
