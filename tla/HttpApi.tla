------------------------------ MODULE HttpApi ------------------------------
(***************************************************************************)
(* What happens to a request before a provider handler sees it             *)
(* (src/src/http_api.rs, src/src/main.rs): the redirect of the plain       *)
(* listener to HTTPS, the token bucket that all listeners share, and the   *)
(* readiness probe, which writes a file of its own to the data directory.  *)
(* Tokens are counted in units, Scale of them to a token; the rounding of  *)
(* the code's f64 is left out.  What the handlers do with an admitted      *)
(* request is MetadataCache and ArchiveStore.                              *)
(***************************************************************************)
EXTENDS Integers, FiniteSets

CONSTANTS Requests,     \* the tasks of requests
          Pids,         \* the process ids the program may run under
          Burst,        \* conn_burst.max(1), in tokens
          Rate,         \* conn_qps.max(1), in units per tick
          Scale,        \* the units of a token
          MaxNow,       \* bound of the clock
          MaxSequence,  \* bound of READY_SEQUENCE
          MaxFaults,    \* bound of the failures of the disk
          MaxRestarts   \* bound of the restarts

ASSUME ApiAssumption ==
  /\ {Burst, Rate, Scale} \subseteq Nat \ {0}
  /\ {MaxNow, MaxSequence, MaxFaults, MaxRestarts} \subseteq Nat

VARIABLES now, pid,
          tokens, last_refill,     \* BucketState
          sequence,                \* READY_SEQUENCE
          files,                   \* the probe files in the data directory
          pc,                      \* where a request is, or its answer
          arrived,                 \* `now` in its try_acquire
          probe,                   \* the name of its probe file
          faults, restarts,
          started,                 \* history: when this process began
          admitted,                \* history: the requests it let through
          rewound,                 \* history: how far last_refill went back
          faulty,                  \* history: the requests the disk failed
          stale                    \* history: files of earlier processes

bucketVars == <<tokens, last_refill, admitted, rewound>>
diskVars == <<sequence, files, faults, faulty>>
processVars == <<pid, restarts, started, stale>>
vars == <<now, bucketVars, diskVars, processVars, pc, arrived, probe>>

Answered == {"idle", "livez", "bad_request", "found", "too_many_requests",
             "admitted", "ready", "unavailable"}
Stages == Answered \cup {"acquire", "open", "sync", "remove"}
Names == Pids \X (0..MaxSequence)

Init ==
  /\ now = 0 /\ started = 0
  /\ pid \in Pids
  /\ tokens = Burst * Scale /\ last_refill = 0
  /\ sequence = 0 /\ files = {}
  /\ pc = [r \in Requests |-> "idle"]
  /\ arrived = [r \in Requests |-> 0]
  /\ probe = [r \in Requests |-> <<pid, 0>>]
  /\ faults = 0 /\ restarts = 0
  /\ admitted = 0 /\ rewound = 0
  /\ faulty = {} /\ stale = {}

Goto(r, stage) == pc' = [pc EXCEPT ![r] = stage]

-----------------------------------------------------------------------------
(* redirect_http_to_https answers every request but a probe by itself: it  *)
(* never reaches the limiter.  A method other than GET or HEAD, and a      *)
(* missing or malformed Host, is refused.                                  *)
Redirect(r) ==
  /\ pc[r] \in Answered
  /\ \E answer \in {"found", "bad_request"} : Goto(r, answer)
  /\ UNCHANGED <<now, bucketVars, diskVars, processVars, arrived, probe>>

livez(r) ==
  /\ pc[r] \in Answered
  /\ Goto(r, "livez")
  /\ UNCHANGED <<now, bucketVars, diskVars, processVars, arrived, probe>>

(* try_acquire reads the clock before it waits for the bucket's lock. *)
Arrive(r) ==
  /\ pc[r] \in Answered
  /\ Goto(r, "acquire")
  /\ arrived' = [arrived EXCEPT ![r] = now]
  /\ UNCHANGED <<now, bucketVars, diskVars, processVars, probe>>

Least(a, b) == IF a < b THEN a ELSE b
Saturating(a) == IF a < 0 THEN 0 ELSE a

RefilledUncapped(r) == tokens + Rate * Saturating(arrived[r] - last_refill)

(* duration_since is zero for an earlier instant. *)
Refilled(r) ==
  Least(tokens + Rate * Saturating(arrived[r] - last_refill), Burst * Scale)

try_acquireRefusesEarly(r) ==
  /\ pc[r] = "acquire"
  /\ \/ /\ Refilled(r) < Scale
        /\ tokens' = Refilled(r)
        /\ Goto(r, "too_many_requests")
        /\ UNCHANGED <<last_refill, admitted, rewound>>
     \/ /\ Refilled(r) >= Scale
        /\ tokens' = Refilled(r) - Scale
        /\ last_refill' = arrived[r]
        /\ rewound' = rewound + Saturating(last_refill - arrived[r])
        /\ admitted' = admitted + 1
        /\ Goto(r, "admitted")
  /\ UNCHANGED <<now, diskVars, processVars, arrived, probe>>

(* try_acquire under the lock, and enforce_rate_limit's answer. *)
try_acquire(r) ==
  /\ pc[r] = "acquire"
  /\ last_refill' = arrived[r]
  /\ rewound' = rewound + Saturating(last_refill - arrived[r])
  /\ \/ /\ Refilled(r) < Scale
        /\ tokens' = Refilled(r)
        /\ Goto(r, "too_many_requests")
        /\ UNCHANGED admitted
     \/ /\ Refilled(r) >= Scale
        /\ tokens' = Refilled(r) - Scale
        /\ admitted' = admitted + 1
        /\ Goto(r, "admitted")
  /\ UNCHANGED <<now, diskVars, processVars, arrived, probe>>

-----------------------------------------------------------------------------
readyzOneName(r) ==
  /\ pc[r] \in Answered
  /\ sequence < MaxSequence
  /\ probe' = [probe EXCEPT ![r] = <<pid, sequence>>]
  /\ faulty' = faulty \ {r}
  /\ Goto(r, "open")
  /\ UNCHANGED <<now, bucketVars, processVars, sequence, files, faults, arrived>>

(* readyz names its file after the process and a counter. *)
readyz(r) ==
  /\ pc[r] \in Answered
  /\ sequence < MaxSequence
  /\ sequence' = sequence + 1
  /\ probe' = [probe EXCEPT ![r] = <<pid, sequence>>]
  /\ faulty' = faulty \ {r}
  /\ Goto(r, "open")
  /\ UNCHANGED <<now, bucketVars, processVars, files, faults, arrived>>

(* Each operation on the disk succeeds, or fails with a fault, at which    *)
(* readyz returns and leaves its file where it is.                         *)
Fault(r) ==
  /\ pc[r] \in {"open", "sync", "remove"}
  /\ faults < MaxFaults
  /\ faults' = faults + 1
  /\ faulty' = faulty \cup {r}
  /\ Goto(r, "unavailable")
  /\ UNCHANGED <<now, bucketVars, processVars, sequence, files, arrived, probe>>

(* create_new: an existing file is an error too. *)
Open(r) ==
  /\ pc[r] = "open"
  /\ \/ probe[r] \notin files /\ Goto(r, "sync")
     \/ probe[r] \in files /\ Goto(r, "unavailable")
  /\ files' = files \cup {probe[r]}
  /\ UNCHANGED <<now, bucketVars, processVars, sequence, faults, faulty, arrived, probe>>

Sync(r) ==
  /\ pc[r] = "sync"
  /\ Goto(r, "remove")
  /\ UNCHANGED <<now, bucketVars, diskVars, processVars, arrived, probe>>

(* remove_file, of a file that is there. *)
Remove(r) ==
  /\ pc[r] = "remove"
  /\ \/ probe[r] \in files /\ Goto(r, "ready")
     \/ probe[r] \notin files /\ Goto(r, "unavailable")
  /\ files' = files \ {probe[r]}
  /\ UNCHANGED <<now, bucketVars, processVars, sequence, faults, faulty, arrived, probe>>

(* The client disconnects and the handler is dropped.  The operation it    *)
(* waits for runs on in the blocking pool, nothing after it does.          *)
Disconnect(r) ==
  /\ \/ pc[r] = "open" /\ files' = files \cup {probe[r]}
     \/ pc[r] = "sync" /\ files' = files
     \/ pc[r] = "remove" /\ files' = files \ {probe[r]}
  /\ Goto(r, "idle")
  /\ UNCHANGED <<now, bucketVars, processVars, sequence, faults, faulty, arrived, probe>>

-----------------------------------------------------------------------------
(* The process dies; the next one may get the same id, as it always does   *)
(* in a container.  Probe files are not among the temporary files that the *)
(* start sweeps.                                                           *)
Restart ==
  /\ restarts < MaxRestarts
  /\ restarts' = restarts + 1
  /\ pid' \in Pids
  /\ started' = now /\ last_refill' = now
  /\ tokens' = Burst * Scale
  /\ sequence' = 0
  /\ pc' = [r \in Requests |-> "idle"]
  /\ arrived' = [r \in Requests |-> now]
  /\ admitted' = 0 /\ rewound' = 0 /\ faulty' = {}
  /\ stale' = files
  /\ UNCHANGED <<now, files, faults, probe>>

Tick ==
  /\ now < MaxNow
  /\ now' = now + 1
  /\ UNCHANGED <<bucketVars, diskVars, processVars, pc, arrived, probe>>

Probing(r) == readyz(r) \/ Fault(r) \/ Open(r) \/ Sync(r) \/ Remove(r) \/ Disconnect(r)

Next ==
  \/ Restart \/ Tick
  \/ \E r \in Requests : Redirect(r) \/ livez(r) \/ Arrive(r) \/ try_acquire(r) \/ Probing(r)

Spec == Init /\ [][Next]_vars

-----------------------------------------------------------------------------
TypeOK ==
  /\ pid \in Pids
  /\ now \in 0..MaxNow /\ started \in 0..now /\ last_refill \in started..now
  /\ tokens \in 0..(Burst * Scale)
  /\ sequence \in 0..MaxSequence
  /\ files \subseteq Names /\ stale \subseteq Names
  /\ pc \in [Requests -> Stages]
  /\ arrived \in [Requests -> started..now]
  /\ probe \in [Requests -> Names]
  /\ admitted \in Nat /\ rewound \in Nat /\ faulty \subseteq Requests

(* The limiter never lets more through than the burst and what the rate    *)
(* yields in the time since the start, plus the time it credits twice when *)
(* a request that read the clock early gets the lock late.                 *)
AdmissionBounded ==
  Scale * admitted + tokens <= Burst * Scale + Rate * (last_refill - started + rewound)

(* The probe says "unavailable" only when the disk failed it, or a process *)
(* with the same id died with the same probe half done: probes of this     *)
(* process, finished, failed or dropped, never fail one another.           *)
ReadyExplained ==
  \A r \in Requests : pc[r] = "unavailable" => r \in faulty \/ probe[r] \in stale
=============================================================================
