--------------------------- MODULE HttpApi_proofs ---------------------------
(* Proofs about HttpApi for every number of requests, every limit and every *)
(* clock.                                                                   *)
EXTENDS HttpApi, TLAPS

Probes == {"open", "sync", "remove"}

(* Requests at work on a probe have names of their own, all of this         *)
(* process and all given out by its counter; so has every file that is not  *)
(* left over.  A file is there from Open to Remove, and before Open only    *)
(* if it is left over.                                                      *)
NamesDistinct ==
  /\ \A r \in Requests : pc[r] \in Probes => probe[r][1] = pid /\ probe[r][2] < sequence
  /\ \A r, s \in Requests :
       r # s /\ pc[r] \in Probes /\ pc[s] \in Probes => probe[r] # probe[s]
FilesNamed == \A f \in files : f \in stale \/ (f[1] = pid /\ f[2] < sequence)
FilesThere ==
  \A r \in Requests :
    /\ pc[r] = "open" /\ probe[r] \in files => probe[r] \in stale
    /\ pc[r] \in {"sync", "remove"} => probe[r] \in files

ProbeInv == NamesDistinct /\ FilesNamed /\ FilesThere /\ ReadyExplained

-----------------------------------------------------------------------------
(* The types hold initially. *)
LEMMA TypesInit == Init => TypeOK
  BY ApiAssumption DEF Init, TypeOK, Stages, Answered, Names

(* What a request finds in the bucket lies between nothing and the burst. *)
LEMMA RefilledRange ==
  ASSUME TypeOK, NEW r \in Requests
  PROVE  Refilled(r) \in 0..(Burst * Scale)
<1> DEFINE gap == Saturating(arrived[r] - last_refill)
           cap == Burst * Scale
<1>1. gap \in Nat
  BY DEF TypeOK, Saturating
<1>2. Rate * gap \in Nat /\ cap \in Nat
  BY <1>1, ApiAssumption
<1>3. tokens \in 0..cap
  BY DEF TypeOK
<1> HIDE DEF gap, cap
<1>4. Least(tokens + Rate * gap, cap) \in 0..cap
  BY <1>2, <1>3 DEF Least
<1> QED  BY <1>4 DEF Refilled, gap, cap

(* Every step keeps the types: the bucket never holds more than the burst, *)
(* and its clock is never ahead of the process's.                          *)
LEMMA TypesKept == TypeOK /\ [Next]_vars => TypeOK'
<1> SUFFICES ASSUME TypeOK, [Next]_vars PROVE TypeOK'
  OBVIOUS
<1> USE ApiAssumption DEF Goto, Stages, Answered, bucketVars, diskVars, processVars
<1>1. ASSUME NEW r \in Requests, Redirect(r) \/ livez(r) \/ Arrive(r) PROVE TypeOK'
  BY <1>1 DEF TypeOK, Redirect, livez, Arrive
<1>2. ASSUME NEW r \in Requests, try_acquire(r) PROVE TypeOK'
  <2>1. Refilled(r) \in 0..(Burst * Scale)
    BY RefilledRange
  <2>2. Burst * Scale \in Nat /\ Scale \in Nat
    OBVIOUS
  <2>3. tokens' \in 0..(Burst * Scale)
    BY <1>2, <2>1, <2>2 DEF try_acquire
  <2>4. last_refill' \in started'..now' /\ rewound' \in Nat /\ admitted' \in Nat
    BY <1>2 DEF TypeOK, try_acquire, Saturating
  <2> QED  BY <1>2, <2>3, <2>4 DEF TypeOK, try_acquire
<1>3. ASSUME NEW r \in Requests, readyz(r) PROVE TypeOK'
  BY <1>3 DEF TypeOK, readyz, Names
<1>4. ASSUME NEW r \in Requests, Fault(r) \/ Open(r) \/ Sync(r) \/ Remove(r) PROVE TypeOK'
  BY <1>4 DEF TypeOK, Fault, Open, Sync, Remove
<1>5. ASSUME NEW r \in Requests, Disconnect(r) PROVE TypeOK'
  BY <1>5 DEF TypeOK, Disconnect
<1>6. CASE Restart
  BY <1>6 DEF TypeOK, Restart
<1>7. CASE Tick
  BY <1>7 DEF TypeOK, Tick
<1>8. CASE UNCHANGED vars
  BY <1>8 DEF TypeOK, vars
<1> QED  BY <1>1, <1>2, <1>3, <1>4, <1>5, <1>6, <1>7, <1>8 DEF Next, Probing

(* The request path is type correct: the bucket holds at most its burst and *)
(* its clock stays between the start of the process and the present.        *)
THEOREM ApiTypes == Spec => []TypeOK
<1>1. TypeOK /\ [Next]_vars => TypeOK'
  BY TypesKept
<1> QED  BY TypesInit, <1>1, PTL DEF Spec

-----------------------------------------------------------------------------
(* The tokens a request finds are at most those that were there and the     *)
(* yield of the time since last_refill; that time and the way back          *)
(* (rewound) balance, whichever of the two instants is the later one.       *)
LEMMA AcquireBounded ==
  ASSUME TypeOK, AdmissionBounded, NEW r \in Requests, try_acquire(r)
  PROVE  AdmissionBounded'
<1> DEFINE gap == Saturating(arrived[r] - last_refill)
           span == last_refill - started + rewound
           cap == Burst * Scale
<1>1. gap \in Nat /\ span \in Nat /\ cap \in Nat
  BY ApiAssumption DEF TypeOK, Saturating
<1>2. (last_refill - started + rewound)' = span + gap
  BY DEF TypeOK, try_acquire, Saturating, processVars
<1>3. Rate * (span + gap) = Rate * span + Rate * gap
  BY <1>1, ApiAssumption
<1>4. Rate * span \in Nat /\ Rate * gap \in Nat /\ Scale \in Nat /\ tokens \in Nat
  BY <1>1, ApiAssumption DEF TypeOK
<1>5. Refilled(r) <= tokens + Rate * gap /\ Refilled(r) \in Int
  BY <1>1, <1>4 DEF Refilled, Least
<1>6. Scale * admitted + tokens <= cap + Rate * span
  BY DEF AdmissionBounded
<1>7. admitted \in Nat /\ Scale * admitted \in Nat
  BY <1>4, ApiAssumption DEF TypeOK
<1>8. Scale * (admitted + 1) = Scale * admitted + Scale
  BY <1>4, <1>7
<1>9. Scale * admitted' + tokens' <= Scale * admitted + Refilled(r)
  BY <1>4, <1>5, <1>7, <1>8 DEF try_acquire
<1> HIDE DEF gap, span, cap
<1>10. admitted' \in Nat /\ tokens' \in Int /\ Scale * admitted' \in Int
  BY <1>4, <1>5, <1>7 DEF try_acquire
<1>11. Scale * admitted' + tokens' <= cap + Rate * (span + gap)
  BY <1>1, <1>3, <1>4, <1>5, <1>6, <1>7, <1>9, <1>10
<1> QED  BY <1>2, <1>11 DEF AdmissionBounded, cap

(* The limiter admits no more than burst, rate and the time it              *)
(* credits twice allow, however requests wait for its lock.                 *)
THEOREM LimiterBounds == Spec => []AdmissionBounded
<1>1. Init => AdmissionBounded
  BY ApiAssumption DEF Init, AdmissionBounded
<1>2. TypeOK /\ AdmissionBounded /\ [Next]_vars => AdmissionBounded'
  <2> SUFFICES ASSUME TypeOK, AdmissionBounded, [Next]_vars PROVE AdmissionBounded'
    OBVIOUS
  <2>1. CASE \E r \in Requests : try_acquire(r)
    BY <2>1, AcquireBounded
  <2>2. CASE Restart
    BY <2>2, ApiAssumption DEF Restart, AdmissionBounded, TypeOK
  <2>3. CASE UNCHANGED <<bucketVars, started>>
    BY <2>3 DEF AdmissionBounded, bucketVars
  <2>4. ASSUME NEW r \in Requests, Redirect(r) \/ livez(r) \/ Arrive(r) \/ Probing(r)
        PROVE  UNCHANGED <<bucketVars, started>>
    BY <2>4 DEF Redirect, livez, Arrive, Probing, readyz, Fault, Open, Sync, Remove,
                Disconnect, processVars
  <2>5. Tick \/ UNCHANGED vars => UNCHANGED <<bucketVars, started>>
    BY DEF Tick, vars, processVars
  <2> QED  BY <2>1, <2>2, <2>3, <2>4, <2>5 DEF Next
<1> QED  BY <1>1, <1>2, ApiTypes, PTL DEF Spec

-----------------------------------------------------------------------------
(* Steps that touch no probe keep everything about probes. *)
LEMMA OthersKeepProbes ==
  ASSUME TypeOK, ProbeInv, NEW r \in Requests,
         Redirect(r) \/ livez(r) \/ Arrive(r) \/ try_acquire(r)
  PROVE  ProbeInv'
<1>1. /\ UNCHANGED <<files, stale, faulty, probe, pid, sequence>>
      /\ \A s \in Requests : s # r => pc'[s] = pc[s]
      /\ pc'[r] \notin Probes \cup {"unavailable"}
  BY DEF TypeOK, Redirect, livez, Arrive, try_acquire, Goto, Probes, diskVars, processVars
<1> QED
  BY <1>1 DEF ProbeInv, NamesDistinct, FilesNamed, FilesThere, ReadyExplained, Probes

(* A new probe has a name nobody uses, and no file unless one is left over. *)
LEMMA ReadyzKeepsProbes ==
  ASSUME TypeOK, ProbeInv, NEW r \in Requests, readyz(r)
  PROVE  ProbeInv'
<1>1. /\ sequence \in Nat /\ sequence' = sequence + 1
      /\ UNCHANGED <<files, stale, pid>>
      /\ probe'[r] = <<pid, sequence>> /\ pc'[r] = "open"
      /\ \A s \in Requests : s # r => pc'[s] = pc[s] /\ probe'[s] = probe[s]
      /\ \A s \in Requests : s # r => (s \in faulty' <=> s \in faulty)
  BY ApiAssumption DEF TypeOK, readyz, Goto, processVars
<1>2. probe'[r][1] = pid /\ probe'[r][2] = sequence
  BY <1>1
<1>3. \A s \in Requests : probe[s][2] \in Nat
  BY ApiAssumption DEF TypeOK, Names
<1>4. \A f \in files : f[2] \in Nat
  BY ApiAssumption DEF TypeOK, Names
<1>5. NamesDistinct'
  BY <1>1, <1>2, <1>3 DEF ProbeInv, NamesDistinct, Probes
<1>6. FilesNamed'
  BY <1>1, <1>4 DEF ProbeInv, FilesNamed
<1>7. FilesThere'
  BY <1>1, <1>2, <1>4 DEF ProbeInv, FilesThere, FilesNamed
<1>8. ReadyExplained'
  BY <1>1 DEF ProbeInv, ReadyExplained
<1> QED  BY <1>5, <1>6, <1>7, <1>8 DEF ProbeInv

(* A step of a probe changes its own file only, which is nobody else's. *)
LEMMA DiskKeepsProbes ==
  ASSUME TypeOK, ProbeInv, NEW r \in Requests,
         Fault(r) \/ Open(r) \/ Sync(r) \/ Remove(r) \/ Disconnect(r)
  PROVE  ProbeInv'
<1>1. /\ UNCHANGED <<stale, pid, sequence, probe>>
      /\ pc[r] \in Probes
      /\ \A s \in Requests : s # r => pc'[s] = pc[s] /\ (s \in faulty' <=> s \in faulty)
      /\ \A f \in files' : f \in files \/ f = probe[r]
      /\ \A f \in files : f \in files' \/ f = probe[r]
  BY DEF TypeOK, Fault, Open, Sync, Remove, Disconnect, Goto, Probes, diskVars, processVars
<1>2. /\ pc'[r] # "open"
      /\ pc'[r] \in {"sync", "remove"} => probe[r] \in files'
      /\ pc'[r] = "unavailable" => r \in faulty' \/ probe[r] \in stale
  BY DEF TypeOK, Fault, Open, Sync, Remove, Disconnect, Goto, ProbeInv, FilesThere, diskVars,
         processVars
<1>3. NamesDistinct'
  BY <1>1 DEF ProbeInv, NamesDistinct
<1>4. FilesNamed'
  BY <1>1 DEF ProbeInv, NamesDistinct, FilesNamed
<1>5. ASSUME NEW s \in Requests, s # r, pc[s] \in Probes
      PROVE  probe[s] \in files' <=> probe[s] \in files
  BY <1>1, <1>5 DEF ProbeInv, NamesDistinct
<1>6. FilesThere'
  BY <1>1, <1>2, <1>5 DEF ProbeInv, FilesThere, Probes
<1>7. ReadyExplained'
  BY <1>1, <1>2 DEF ProbeInv, ReadyExplained
<1> QED  BY <1>3, <1>4, <1>6, <1>7 DEF ProbeInv

(* A probe is unavailable only for a fault or for a left-over file          *)
(* of an earlier process with the same id, however many probes run at once. *)
THEOREM ReadinessExplained == Spec => []ReadyExplained
<1>1. Init => ProbeInv
  BY DEF Init, ProbeInv, NamesDistinct, FilesNamed, FilesThere, ReadyExplained, Probes
<1>2. TypeOK /\ ProbeInv /\ [Next]_vars => ProbeInv'
  <2> SUFFICES ASSUME TypeOK, ProbeInv, [Next]_vars PROVE ProbeInv'
    OBVIOUS
  <2>1. CASE Restart
    BY <2>1 DEF Restart, TypeOK, ProbeInv, NamesDistinct, FilesNamed, FilesThere,
                ReadyExplained, Probes
  <2>2. CASE UNCHANGED <<files, stale, faulty, probe, pid, sequence, pc>>
    BY <2>2 DEF ProbeInv, NamesDistinct, FilesNamed, FilesThere, ReadyExplained
  <2>3. Tick \/ UNCHANGED vars => UNCHANGED <<files, stale, faulty, probe, pid, sequence, pc>>
    BY DEF Tick, vars, diskVars, processVars
  <2> QED
    BY <2>1, <2>2, <2>3, OthersKeepProbes, ReadyzKeepsProbes, DiskKeepsProbes DEF Next, Probing
<1>3. ProbeInv => ReadyExplained
  BY DEF ProbeInv
<1> QED  BY <1>1, <1>2, <1>3, ApiTypes, PTL DEF Spec
=============================================================================
