----------------------------- MODULE TlsReload -----------------------------
(***************************************************************************)
(* Certificate reload (tls_reload.rs).  Every TLS handshake asks the       *)
(* resolver for a certificate, on whatever thread it runs.  The first one  *)
(* that finds the cached pair older than the interval claims the reload    *)
(* under the lock, reads the two files without it and installs the pair;   *)
(* the others go on with the cached pair.                                  *)
(*                                                                         *)
(* A chain is the set of the validity periods of its certificates, and is  *)
(* named like the private key it belongs to.  One clock stands for Instant *)
(* and SystemTime.  An operator rewrites the files, one at a time.         *)
(***************************************************************************)
EXTENDS Integers, FiniteSets

CONSTANTS
  Handshakes,    \* concurrent handshakes
  Chains,        \* certificate chains, and their private keys
  Validity,      \* Validity[c]: <<not_before, not_after>> of c's certificates
  Interval,      \* reload_interval
  MaxNow, MaxWrites,   \* bounds
  Broken,        \* a file that is missing or cannot be parsed
  None

Times == 0..MaxNow

ASSUME TlsConstants ==
  /\ Interval \in Nat /\ MaxNow \in Nat /\ MaxWrites \in Nat
  /\ Validity \in [Chains -> (SUBSET (Int \X Int)) \ {{}}]
  /\ \A c \in Chains : IsFiniteSet(Validity[c]) /\ \A v \in Validity[c] : v[1] <= v[2]
  /\ Broken \notin Chains /\ None \notin Chains \cup Times

VARIABLES
  now,
  certFile, keyFile, writes,   \* the two files, and how often they changed
  cached,      \* cached_key: the pair, not_after, and when it was checked
  pc, start,   \* the handshakes, and the time each took when it began
  inHand,      \* what a load has read so far, later the pair of the answer
  changed,     \* history: when a file was last written
  claimed,     \* history: the start of the last handshake that read the files
  failedAt,    \* history: the latest start of a load that failed
  slow         \* history: has a load outlasted the interval?

files == <<certFile, keyFile, writes, changed>>
history == <<claimed, failedAt, slow>>
vars == <<now, files, cached, pc, start, inHand, history>>

Loading == {"readcert", "validate", "readkey", "install"}
Stages == {"idle", "look", "claim", "failed", "done"} \cup Loading
Pairs == [cert : Chains \cup {None}, key : Chains \cup {None}]
Nothing == [cert |-> None, key |-> None]
Ends == UNION {{v[2] : v \in Validity[c]} : c \in Chains}

TypeOK ==
  /\ now \in Times /\ writes \in 0..MaxWrites
  /\ certFile \in Chains \cup {Broken} /\ keyFile \in Chains \cup {Broken}
  /\ cached \in [pair : Pairs, notAfter : Ends, at : Times]
  /\ pc \in [Handshakes -> Stages] /\ start \in [Handshakes -> Times]
  /\ inHand \in [Handshakes -> Pairs]
  /\ changed \in Times /\ claimed \in Times \cup {None} /\ failedAt \in Times \cup {None}
  /\ slow \in BOOLEAN

(* Mutated Earliest: the minimum is never taken, i64::MAX remains. *)
EarliestUnset(c) == 1 + MaxNow + CHOOSE n \in Ends : \A m \in Ends : m <= n

(* validate_certificate_validity: both bounds are inclusive, and the chain  *)
(* ends with the first certificate that does.                               *)
Valid(c, t) == \A v \in Validity[c] : v[1] <= t /\ t <= v[2]
Earliest(c) == CHOOSE t \in {v[2] : v \in Validity[c]} : \A v \in Validity[c] : t <= v[2]

Init ==
  /\ now = 0
  /\ certFile \in {c \in Chains : Valid(c, 0)} /\ keyFile = certFile /\ writes = 0
  /\ cached = [pair |-> [cert |-> certFile, key |-> keyFile],
                notAfter |-> Earliest(certFile), at |-> 0]
  /\ pc = [h \in Handshakes |-> "idle"] /\ start = [h \in Handshakes |-> 0]
  /\ inHand = [h \in Handshakes |-> Nothing]
  /\ changed = 0 /\ claimed = None /\ failedAt = None /\ slow = FALSE

Goto(h, l) == pc' = [pc EXCEPT ![h] = l]
Answer(h, p) == Goto(h, "done") /\ inHand' = [inHand EXCEPT ![h] = p]

(* Instant::duration_since saturates at zero. *)
Elapsed(h) == IF start[h] > cached.at THEN start[h] - cached.at ELSE 0
Recent(h) == Elapsed(h) < Interval

(* The cached pair, unless it had expired when the handshake began. *)
FromCache(h) == IF start[h] <= cached.notAfter THEN cached.pair ELSE Nothing
-----------------------------------------------------------------------------
Hello(h) ==
  /\ pc[h] = "idle" /\ Goto(h, "look")
  /\ start' = [start EXCEPT ![h] = now]
  /\ UNCHANGED <<now, files, cached, inHand, history>>

(* Under the read lock. *)
Look(h) ==
  /\ pc[h] = "look"
  /\ \/ Recent(h) /\ Answer(h, FromCache(h))
     \/ ~Recent(h) /\ Goto(h, "claim") /\ UNCHANGED inHand
  /\ UNCHANGED <<now, files, cached, start, history>>

(* Mutated Claim: the second look is forgotten. *)
ClaimUnchecked(h) ==
  /\ pc[h] = "claim" /\ Goto(h, "readcert")
  /\ cached' = [cached EXCEPT !.at = start[h]] /\ claimed' = start[h]
  /\ UNCHANGED <<now, files, start, inHand, failedAt, slow>>

(* Under the write lock: look again, then claim the reload. *)
Claim(h) ==
  /\ pc[h] = "claim"
  /\ \/ Recent(h) /\ Answer(h, FromCache(h)) /\ UNCHANGED <<cached, claimed>>
     \/ /\ ~Recent(h) /\ Goto(h, "readcert")
        /\ cached' = [cached EXCEPT !.at = start[h]] /\ claimed' = start[h]
        /\ UNCHANGED inHand
  /\ UNCHANGED <<now, files, start, failedAt, slow>>

Fails(h) ==
  /\ Goto(h, "failed")
  /\ failedAt' = IF failedAt # None /\ failedAt > start[h] THEN failedAt ELSE start[h]

(* load_certified_key: the chain, its validity as of now, and the key,      *)
(* which has to be the chain's (build_certified_key).                       *)
ReadCert(h) ==
  /\ pc[h] = "readcert"
  /\ IF certFile = Broken
     THEN Fails(h) /\ UNCHANGED inHand
     ELSE /\ Goto(h, "validate") /\ inHand' = [inHand EXCEPT ![h].cert = certFile]
          /\ UNCHANGED failedAt
  /\ UNCHANGED <<now, files, cached, start, claimed, slow>>

Validate(h) ==
  /\ pc[h] = "validate"
  /\ IF Valid(inHand[h].cert, now) THEN Goto(h, "readkey") /\ UNCHANGED failedAt ELSE Fails(h)
  /\ UNCHANGED <<now, files, cached, start, inHand, claimed, slow>>

(* Mutated KeysMatch: any key will do. *)
KeysMatchAny(c, k) == k # Broken

KeysMatch(c, k) == k = c

ReadKey(h) ==
  /\ pc[h] = "readkey"
  /\ IF KeysMatch(inHand[h].cert, keyFile)
     THEN /\ Goto(h, "install") /\ inHand' = [inHand EXCEPT ![h].key = keyFile]
          /\ UNCHANGED failedAt
     ELSE Fails(h) /\ UNCHANGED inHand
  /\ UNCHANGED <<now, files, cached, start, claimed, slow>>

(* A file cannot be opened or read. *)
IoError(h) ==
  /\ pc[h] \in {"readcert", "readkey"} /\ Fails(h)
  /\ UNCHANGED <<now, files, cached, start, inHand, claimed, slow>>

(* Mutated Loaded: the pair counts as checked when it is installed. *)
LoadedNow(h) == [pair |-> inHand[h], notAfter |-> Earliest(inHand[h].cert), at |-> now]

(* The pair counts as checked when the handshake began. *)
Loaded(h) == [pair |-> inHand[h], notAfter |-> Earliest(inHand[h].cert), at |-> start[h]]

(* Under the write lock again, whatever is cached by now. *)
Install(h) ==
  /\ pc[h] = "install" /\ Goto(h, "done")
  /\ cached' = Loaded(h)
  /\ slow' = (slow \/ now - start[h] >= Interval)
  /\ UNCHANGED <<now, files, start, inHand, claimed, failedAt>>

(* The load has failed: the cached pair, if it has not expired. *)
Fallback(h) ==
  /\ pc[h] = "failed" /\ Answer(h, FromCache(h))
  /\ UNCHANGED <<now, files, cached, start, history>>

(* rustls goes on with the pair, or refuses the connection. *)
Finish(h) ==
  /\ pc[h] = "done" /\ Goto(h, "idle")
  /\ inHand' = [inHand EXCEPT ![h] = Nothing] /\ start' = [start EXCEPT ![h] = 0]
  /\ UNCHANGED <<now, files, cached, history>>

(* The operator, or cert-manager, replaces one of the files. *)
Write(cert, key) ==
  /\ writes < MaxWrites /\ writes' = writes + 1
  /\ <<cert, key>> # <<certFile, keyFile>> /\ (cert = certFile \/ key = keyFile)
  /\ certFile' = cert /\ keyFile' = key /\ changed' = now
  /\ UNCHANGED <<now, cached, pc, start, inHand, history>>

Tick ==
  /\ now < MaxNow /\ now' = now + 1
  /\ UNCHANGED <<files, cached, pc, start, inHand, history>>

Next ==
  \/ \E h \in Handshakes :
       \/ Hello(h) \/ Look(h) \/ Claim(h) \/ ReadCert(h) \/ Validate(h) \/ ReadKey(h)
       \/ IoError(h) \/ Install(h) \/ Fallback(h) \/ Finish(h)
  \/ \E cert, key \in Chains \cup {Broken} : Write(cert, key)
  \/ Tick

Spec == Init /\ [][Next]_vars
-----------------------------------------------------------------------------
(* A handshake is given a certificate with its own private key, although    *)
(* the two files are rotated one after the other while they are read, and   *)
(* no certificate of the chain had expired when the handshake began.        *)
ServedPairUsable ==
  \A h \in Handshakes : pc[h] = "done" /\ inHand[h] # Nothing =>
    /\ inHand[h].cert = inHand[h].key
    /\ \A v \in Validity[inHand[h].cert] : v[1] <= now /\ start[h] <= v[2]

(* The files hold a pair that can be loaded now. *)
Settled == certFile = keyFile /\ certFile # Broken /\ Valid(certFile, now)

(* A rotation is noticed: a handshake that begins an interval or more after *)
(* the files were last changed is not given an older pair, unless a load    *)
(* that began after the change is under way or has failed; in particular a  *)
(* slow load of the old pair that is installed late does no lasting harm.   *)
RotationSeen ==
  [][\A h \in Handshakes :
       /\ pc[h] # "done" /\ pc'[h] = "done" /\ Settled
       /\ start[h] >= changed + Interval /\ inHand'[h].cert # certFile
       => \/ \E g \in Handshakes : pc[g] \in Loading /\ start[g] > changed
          \/ failedAt # None /\ failedAt > changed]_vars

(* Handshake h reads the files an interval or more after the one before.    *)
Spaced(h) == claimed = None \/ start[h] - claimed >= Interval

(* Certificate and key are read again at most once in reload_interval, on   *)
(* however many handshakes at the same time, as long as no load takes       *)
(* longer than the interval.                                                *)
QuickReadsSpaced ==
  [][\A h \in Handshakes :
       pc[h] = "claim" /\ pc'[h] = "readcert" /\ ~slow => Spaced(h)]_vars
=============================================================================
