------------------------ MODULE MetadataCache_proofs ------------------------
(***************************************************************************)
(* Proofs about MetadataCache, for any number of callers, providers,       *)
(* versions and platforms, any times and any size of the failure maps.     *)
(***************************************************************************)
EXTENDS MetadataCache, FiniteSetTheorems, TLAPS

WithIndexLock == {"loadindex", "missed"} \cup Refreshing
Writing == {"writeindex", "syncindex"}
Merging == {"writeversion", "syncversion"}

(* The stages a call of each operation goes through, by what it wants the  *)
(* index for.                                                              *)
OnRoute(op, why, stage) ==
  \/ op = "list" /\ why = "load" /\ stage \in {"idle", "done", "index", "indexlock", "loadindex"}
                                                \cup Refreshing
  \/ op = "version" /\ why = "load" /\ stage \in
       {"version", "versionlock", "loadversion", "index", "indexlock", "loadindex", "find",
        "packages", "versionfailed"} \cup Refreshing \cup Merging
  \/ op = "version" /\ why = "miss" /\ stage \in {"indexlock", "missed"} \cup Refreshing
  \/ op = "sync" /\ why = "sync" /\ stage \in {"nextprovider", "indexlock"} \cup Refreshing

(* Where a call is, and what it has in hand there. *)
CallInv(c) ==
  /\ OnRoute(call[c].op, call[c].why, pc[c])
  /\ pc[c] \in Writing => call[c].entry \in IndexEntry
  /\ pc[c] \in Merging => call[c].entry \in VersionEntry
  /\ pc[c] \in {"packages"} \cup Merging => call[c].ver \in DOMAIN call[c].index
CallsInv == \A c \in Callers : CallInv(c)

HoldsVersion(c) == call[c].op = "version" /\ pc[c] \notin {"version", "versionlock"}

(* The locks protect what their users think. *)
LockInv ==
  /\ \A c \in Callers : pc[c] \in WithIndexLock => indexHolder[Prov(c)] = c
  /\ \A c \in Callers : HoldsVersion(c) => versionHolder[Key(c)] = c
  /\ \A c \in Callers, k \in Keys : versionHolder[k] = c => HoldsVersion(c) /\ Key(c) = k

(* No index is from the future, none that is on its way to the disk is     *)
(* older than the one in memory, and until the directory is synced the     *)
(* file is the one that was renamed, or a dropped caller's, or cut short.  *)
PersistInv ==
  /\ \A p \in Providers :
       /\ indices[p] # None => indices[p].at <= now
       /\ Read(indexFile[p]) # None => indexFile[p].at <= now
  /\ \A x \in late : x[1] \in Providers =>
       x[1] \in abandoned /\ (x[2] # Junk => x[2].at <= now)
  /\ \A c \in Callers : pc[c] \in Writing =>
       /\ call[c].entry.at <= now
       /\ indices[Prov(c)] # None => indices[Prov(c)].at <= call[c].entry.at
  /\ \A c \in Callers : pc[c] = "syncindex" /\ Prov(c) \notin cutShort =>
       /\ Read(indexFile[Prov(c)]) # None
       /\ Prov(c) \notin abandoned => indexFile[Prov(c)] = call[c].entry

Persisted == PersistInv /\ KnownIsPersisted

(* SharedRefresh, in terms of the stages. *)
SharedInv ==
  \A c \in Callers :
    /\ pc[c] \in Refreshing /\ call[c].why = "load" => ~Fresh(indices[Prov(c)])
    /\ HoldsVersion(c) /\ pc[c] # "loadversion" => ~Fresh(versions[Key(c)])

(* The entries of a map of failures are those of failures that happened. *)
Follows(failures, history, S) ==
  \A k \in S : /\ failures[k] # 0 => history[k] # None /\ failures[k] = history[k] + Backoff
               /\ history[k] # None => history[k] <= now
Remembers(failures, history, k) == Recent(history[k]) => failures[k] = history[k] + Backoff

(* Can the map of failed indexes never be too small for provider p? *)
Roomy(p) == Cardinality(Providers) < MaxFailures \/ Providers = {p}

(* No recent failure is forgotten, except where a full map forces it. *)
IndexBackoff ==
  /\ Follows(indexRetry, lastFail, Providers)
  /\ \A p \in Providers : Roomy(p) => Remembers(indexRetry, lastFail, p)
MissBackoff ==
  /\ Follows(missRetry, lastMiss, Providers)
  /\ Cardinality(Providers) <= MaxFailures =>
       \A p \in Providers : Remembers(missRetry, lastMiss, p)
Excused(k) == ~Recent(lastFail[k]) \/ CrowdedOut(k)
VersionBackoff ==
  /\ Follows(versionRetry, lastFail, Keys)
  /\ \A k \in Keys : Remembers(versionRetry, lastFail, k) \/ CrowdedOut(k)
  /\ \A c \in Callers : HoldsVersion(c) /\ pc[c] # "loadversion" =>
       versionRetry[Key(c)] <= now /\ Excused(Key(c))

SyncCalls == {c \in Callers : call[c].op = "sync" /\ pc[c] # "done"}
SyncInv == IF syncing THEN \E c \in Callers : SyncCalls = {c} ELSE SyncCalls = {}

IInv ==
  /\ TypeOK /\ CallsInv /\ LockInv /\ Persisted /\ SharedInv
  /\ PlatformsKept /\ IndexBackoff /\ MissBackoff /\ VersionBackoff /\ SyncInv

-----------------------------------------------------------------------------
(* Facts about the constants and the records the model is built from. *)
LEMMA NumberTypes ==
  /\ Times \subseteq Nat /\ 0 \in Times /\ RetryTimes \subseteq Nat /\ 0 \in RetryTimes
  /\ {Freshness, Backoff, MaxFailures, MaxNow, MaxFaults, MaxDisconnects, MaxRestarts} \subseteq Nat
  /\ Backoff > 0 /\ None \notin Nat
  BY MetadataConstants, NoneAssumption DEF Times, RetryTimes

LEMMA IndexEntryFields ==
  ASSUME NEW e \in IndexEntry
  PROVE  e.at \in Times /\ e.at \in Nat /\ e.complete = TRUE /\ e.list \in Index /\ e # None /\ e # Junk
<1>1. e # None /\ e # Junk
  BY NoneAssumption
<1> QED  BY <1>1, NumberTypes DEF IndexEntry

LEMMA VersionEntryFields ==
  ASSUME NEW e \in VersionEntry
  PROVE  /\ e.at \in Nat /\ e.complete \in BOOLEAN /\ e.platforms \subseteq Platforms
         /\ e # None /\ e # Junk
<1>1. e # None /\ e # Junk
  BY NoneAssumption
<1> QED  BY <1>1, NumberTypes DEF VersionEntry

LEMMA NoCallType ==
  /\ NoCall \in Calls /\ NoCall.op = "list" /\ NoCall.why = "load" /\ NoCall.result = "none"
  /\ NoVersions \in Index
<1>1. NoVersions \in Index
  <2>1. NoVersions \in [{} -> Listings]
    BY DEF NoVersions
  <2> QED  BY <2>1 DEF Index
<1>2. (CHOOSE p \in Providers : TRUE) \in Providers /\ (CHOOSE v \in Versions : TRUE) \in Versions
  BY MetadataConstants
<1> QED  BY <1>1, <1>2 DEF NoCall, Calls, Ops

USE DEF Errors

CallTypes == pc \in [Callers -> Stages] /\ call \in [Callers -> Calls]
Results == {"none", "ok", "conflict"} \cup Errors

(* The fields of a call. *)
LEMMA CallFields ==
  ASSUME CallTypes, NEW c \in Callers
  PROVE  /\ call[c].op \in Ops /\ call[c].prov \in Providers /\ call[c].ver \in Versions
         /\ Prov(c) \in Providers /\ Key(c) \in Keys /\ Key(c) = <<Prov(c), call[c].ver>>
         /\ call[c].index \in Index /\ call[c].why \in {"load", "miss", "sync"}
         /\ call[c].todo \subseteq Providers /\ call[c].result \in Results
         /\ call[c].entry \in IndexEntry \cup VersionEntry \cup {None}
<1>1. call[c] \in Calls
  BY DEF CallTypes
<1>2. /\ call[c].op \in Ops /\ call[c].prov \in Providers /\ call[c].ver \in Versions
      /\ call[c].index \in Index /\ call[c].why \in {"load", "miss", "sync"}
      /\ call[c].todo \subseteq Providers /\ call[c].result \in Results
      /\ call[c].entry \in IndexEntry \cup VersionEntry \cup {None}
  BY <1>1 DEF Calls, Results
<1> QED  BY <1>2 DEF Prov, Key, Keys

LEMMA IndexValue ==
  ASSUME NEW value \in Index, NEW v \in DOMAIN value
  PROVE  value[v] \in Listings /\ value[v] \subseteq Platforms
<1>1. PICK S \in SUBSET Versions : value \in [S -> Listings]
  BY DEF Index
<1> QED  BY <1>1, MetadataConstants

-----------------------------------------------------------------------------
(* What the building blocks of the actions do to the calls. *)
Others(c) == \A d \in Callers \ {c} : pc'[d] = pc[d] /\ call'[d] = call[d]
SameAddress(c) ==
  /\ call'[c].op = call[c].op /\ call'[c].prov = call[c].prov /\ call'[c].ver = call[c].ver
  /\ Prov(c)' = Prov(c) /\ Key(c)' = Key(c)
Moves(c, l) == CallTypes' /\ Others(c) /\ pc'[c] = l
EndsCall(c) == call'[c].op = "list" /\ call'[c].why = "load"

LEMMA ProceedEffect ==
  ASSUME CallTypes, NEW c \in Callers, NEW l \in Stages, Proceed(c, l)
  PROVE  Moves(c, l) /\ SameAddress(c) /\ call' = call
  BY DEF CallTypes, Proceed, Goto, Moves, Others, SameAddress, Prov, Key

LEMMA ReturnEffect ==
  ASSUME CallTypes, NEW c \in Callers, NEW r \in Results, Return(c, r)
  PROVE  Moves(c, "done") /\ EndsCall(c) /\ call'[c].result = r
<1>1. [NoCall EXCEPT !.result = r] \in Calls
  BY NoCallType DEF Calls, Results
<1>2. /\ [NoCall EXCEPT !.result = r].op = "list" /\ [NoCall EXCEPT !.result = r].why = "load"
      /\ [NoCall EXCEPT !.result = r].result = r
  BY NoCallType DEF Calls, Results
<1>3. call'[c] = [NoCall EXCEPT !.result = r] /\ call' \in [Callers -> Calls]
  BY <1>1 DEF CallTypes, Return
<1>4. pc' \in [Callers -> Stages] /\ pc'[c] = "done" /\ Others(c)
  BY DEF CallTypes, Return, Goto, Others, Stages
<1> QED  BY <1>2, <1>3, <1>4 DEF Moves, EndsCall, CallTypes

LEMMA AbandonEffect ==
  ASSUME CallTypes, NEW c \in Callers, NEW error \in Results, Abandon(c, error)
  PROVE  /\ Moves(c, "versionfailed") /\ SameAddress(c)
         /\ call'[c].why = "load" /\ call'[c].result = error
<1>1. call[c] \in Calls
  BY DEF CallTypes
<1>2. call'[c] = [call[c] EXCEPT !.index = NoVersions, !.entry = None, !.why = "load",
                                 !.result = error]
  BY DEF CallTypes, Abandon
<1>3. call'[c] \in Calls
  BY <1>1, <1>2, NoCallType DEF Calls, Results
<1>4. call' \in [Callers -> Calls]
  BY <1>3 DEF CallTypes, Abandon
<1>5. pc' \in [Callers -> Stages] /\ pc'[c] = "versionfailed" /\ Others(c)
  BY DEF CallTypes, Abandon, Goto, Others, Stages
<1>6. SameAddress(c) /\ call'[c].why = "load" /\ call'[c].result = error
  BY <1>1, <1>2 DEF Calls, SameAddress, Prov, Key
<1> QED  BY <1>4, <1>5, <1>6 DEF Moves, CallTypes

LEMMA HaveIndexEffect ==
  ASSUME CallTypes, NEW c \in Callers, NEW value \in Index, HaveIndex(c, value)
  PROVE  \/ call[c].op = "list" /\ Moves(c, "done") /\ EndsCall(c) /\ call'[c].result = "ok"
         \/ /\ call[c].op = "version" /\ Moves(c, "find") /\ SameAddress(c)
            /\ call'[c].why = call[c].why /\ call'[c].result = call[c].result
<1>1. CASE call[c].op = "list"
  BY <1>1, ReturnEffect DEF HaveIndex, Results
<1>2. CASE call[c].op = "version"
  <2>1. call[c] \in Calls
    BY DEF CallTypes
  <2>2. call'[c] = [call[c] EXCEPT !.index = value, !.entry = None]
    BY <1>2 DEF CallTypes, HaveIndex
  <2>3. call'[c] \in Calls
    BY <2>1, <2>2 DEF Calls
  <2>4. call' \in [Callers -> Calls]
    BY <1>2, <2>3 DEF CallTypes, HaveIndex
  <2>5. pc' \in [Callers -> Stages] /\ pc'[c] = "find" /\ Others(c)
    BY <1>2 DEF CallTypes, HaveIndex, Goto, Others, Stages
  <2>6. SameAddress(c) /\ call'[c].why = call[c].why /\ call'[c].result = call[c].result
    BY <2>1, <2>2 DEF Calls, SameAddress, Prov, Key
  <2> QED  BY <1>2, <2>4, <2>5, <2>6 DEF Moves, CallTypes
<1> QED  BY <1>1, <1>2 DEF HaveIndex

LEMMA IndexErrorEffect ==
  ASSUME CallTypes, NEW c \in Callers, NEW error \in Results, IndexError(c, error)
  PROVE  \/ call[c].op = "list" /\ Moves(c, "done") /\ EndsCall(c) /\ call'[c].result = error
         \/ /\ call[c].op = "version" /\ Moves(c, "versionfailed") /\ SameAddress(c)
            /\ call'[c].why = "load" /\ call'[c].result = error
<1>1. CASE call[c].op = "list"
  BY <1>1, ReturnEffect DEF IndexError
<1>2. CASE call[c].op = "version"
  BY <1>2, AbandonEffect DEF IndexError
<1> QED  BY <1>1, <1>2 DEF IndexError

LEMMA ChooseEffect ==
  ASSUME CallTypes, NEW c \in Callers, NEW value \in Index, Choose(c, value)
  PROVE  \/ /\ Moves(c, "packages") /\ SameAddress(c) /\ call'[c].why = "load"
            /\ call'[c].result = call[c].result /\ call'[c].ver \in DOMAIN call'[c].index
         \/ /\ call[c].ver \notin DOMAIN value /\ Moves(c, "versionfailed") /\ SameAddress(c)
            /\ call'[c].why = "load"
<1>1. CASE call[c].ver \in DOMAIN value
  <2>1. call[c] \in Calls
    BY DEF CallTypes
  <2>2. call'[c] = [call[c] EXCEPT !.index = value, !.why = "load", !.entry = None]
    BY <1>1 DEF CallTypes, Choose
  <2>3. call'[c] \in Calls
    BY <2>1, <2>2 DEF Calls
  <2>4. call' \in [Callers -> Calls]
    BY <1>1, <2>3 DEF CallTypes, Choose
  <2>5. pc' \in [Callers -> Stages] /\ pc'[c] = "packages" /\ Others(c)
    BY <1>1 DEF CallTypes, Choose, Goto, Others, Stages
  <2>6. /\ SameAddress(c) /\ call'[c].why = "load" /\ call'[c].result = call[c].result
        /\ call'[c].index = value /\ call'[c].ver = call[c].ver
    BY <2>1, <2>2 DEF Calls, SameAddress, Prov, Key
  <2> QED  BY <1>1, <2>4, <2>5, <2>6 DEF Moves, CallTypes
<1>2. CASE call[c].ver \notin DOMAIN value
  BY <1>2, AbandonEffect DEF Choose, Results
<1> QED  BY <1>1, <1>2

-----------------------------------------------------------------------------
(* Calls stay on their routes. *)
LEMMA OthersStay ==
  ASSUME CallsInv, NEW c \in Callers, Others(c), CallInv(c)'
  PROVE  CallsInv'
<1>1. \A d \in Callers \ {c} : CallInv(d)'
  BY DEF CallsInv, CallInv, Others
<1> QED  BY <1>1 DEF CallsInv

LEMMA EndedInv ==
  ASSUME NEW c \in Callers, pc'[c] \in {"idle", "done"}, EndsCall(c)
  PROVE  CallInv(c)'
  BY DEF EndsCall, CallInv, OnRoute, Writing, Merging

-----------------------------------------------------------------------------
(* What the type invariant says of what a call looks up. *)
LEMMA TypeFacts ==
  ASSUME TypeOK
  PROVE  /\ CallTypes /\ now \in Nat
         /\ \A p \in Providers :
              /\ indices[p] \in IndexEntry \cup {None}
              /\ indexFile[p] \in IndexEntry \cup {None, Junk}
              /\ indexRetry[p] \in Nat /\ missRetry[p] \in Nat
         /\ \A k \in Keys :
              /\ versions[k] \in VersionEntry \cup {None}
              /\ versionFile[k] \in VersionEntry \cup {None, Junk}
              /\ versionRetry[k] \in Nat
  BY NumberTypes DEF TypeOK, CallTypes

LEMMA OnHandIndex ==
  ASSUME TypeOK, NEW p \in Providers
  PROVE  /\ OnHand(indices[p], indexFile[p]) \in IndexEntry \cup {None}
         /\ indices[p] # None => OnHand(indices[p], indexFile[p]) = indices[p]
  BY TypeFacts DEF OnHand, Read

LEMMA OnHandVersion ==
  ASSUME TypeOK, NEW k \in Keys
  PROVE  /\ OnHand(versions[k], versionFile[k]) \in VersionEntry \cup {None}
         /\ versions[k] # None => OnHand(versions[k], versionFile[k]) = versions[k]
  BY TypeFacts DEF OnHand, Read

(* A step of a call takes it on, with its address, or ends it. *)
Continues(c, S) == Others(c) /\ pc'[c] \in S /\ SameAddress(c)
Ends(c) == Others(c) /\ pc'[c] \in {"idle", "done"} /\ EndsCall(c)
KeepsRoutes == CallTypes' /\ CallsInv'
Quiet(c) == call'[c].result = "missing" => call[c].result = "missing"

LEMMA ProceedShape ==
  ASSUME CallTypes, CallsInv, NEW c \in Callers, NEW l \in Stages, Proceed(c, l),
         OnRoute(call[c].op, call[c].why, l),
         l \in Writing => call[c].entry \in IndexEntry,
         l \in Merging => call[c].entry \in VersionEntry,
         l \in {"packages"} \cup Merging => call[c].ver \in DOMAIN call[c].index
  PROVE  KeepsRoutes /\ Continues(c, {l}) /\ Quiet(c) /\ call' = call
<1>1. Moves(c, l) /\ SameAddress(c) /\ call' = call
  BY ProceedEffect
<1>2. CallInv(c)'
  BY <1>1 DEF CallInv, Moves
<1> QED  BY <1>1, <1>2, OthersStay DEF Moves, KeepsRoutes, Continues, Quiet

LEMMA ReturnShape ==
  ASSUME CallTypes, CallsInv, NEW c \in Callers, NEW r \in Results, Return(c, r)
  PROVE  KeepsRoutes /\ Ends(c) /\ call'[c].result = r /\ pc'[c] = "done"
<1>1. Moves(c, "done") /\ EndsCall(c) /\ call'[c].result = r
  BY ReturnEffect
<1>2. CallInv(c)'
  BY <1>1, EndedInv DEF Moves
<1> QED  BY <1>1, <1>2, OthersStay DEF Moves, KeepsRoutes, Ends

(* The call goes on to a stage at which it has nothing special in hand. *)
LEMMA MovesShape ==
  ASSUME CallTypes, CallsInv, NEW c \in Callers, NEW l \in Stages \ (Writing \cup Merging),
         Moves(c, l), SameAddress(c), OnRoute(call[c].op, call'[c].why, l),
         l = "packages" => call'[c].ver \in DOMAIN call'[c].index
  PROVE  KeepsRoutes /\ Continues(c, {l})
<1>1. CallInv(c)'
  BY DEF CallInv, Moves, SameAddress
<1> QED  BY <1>1, OthersStay DEF Moves, KeepsRoutes, Continues

-----------------------------------------------------------------------------
(* The steps of load_version. *)
LEMMA VersionShapes ==
  ASSUME TypeOK, CallsInv, NEW c \in Callers
  PROVE  /\ LookVersion(c) => /\ KeepsRoutes /\ Quiet(c)
                              /\ Ends(c) \/ Continues(c, {"versionlock"})
         /\ TakeVersionLock(c) => /\ KeepsRoutes /\ Quiet(c) /\ call' = call
                                  /\ Continues(c, {"loadversion"})
         /\ LoadVersion(c) => /\ KeepsRoutes /\ Quiet(c)
                              /\ \/ Ends(c)
                                 \/ Continues(c, {"index"}) /\ call' = call
         /\ VersionUnreadable(c) => KeepsRoutes /\ Quiet(c) /\ Ends(c)
<1>1. CallTypes /\ CallInv(c)
  BY TypeFacts DEF CallsInv
<1>2. ASSUME NEW r \in {"ok", "transient"}, Return(c, r) PROVE KeepsRoutes /\ Quiet(c) /\ Ends(c)
  BY <1>1, <1>2, ReturnShape DEF Quiet, Results
<1>3. ASSUME LookVersion(c) PROVE KeepsRoutes /\ Quiet(c) /\ (Ends(c) \/ Continues(c, {"versionlock"}))
  <2>1. pc[c] = "version" /\ (Return(c, "ok") \/ Proceed(c, "versionlock"))
    BY <1>3 DEF LookVersion
  <2>2. OnRoute(call[c].op, call[c].why, "versionlock") /\ "versionlock" \in Stages
    BY <1>1, <2>1 DEF CallInv, OnRoute, Stages, Refreshing
  <2>3. "versionlock" \notin Writing \cup Merging \cup {"packages"}
    BY DEF Writing, Merging
  <2> QED  BY <1>1, <1>2, <2>1, <2>2, <2>3, ProceedShape
<1>4. ASSUME TakeVersionLock(c)
      PROVE  KeepsRoutes /\ Quiet(c) /\ call' = call /\ Continues(c, {"loadversion"})
  <2>1. pc[c] = "versionlock" /\ Proceed(c, "loadversion")
    BY <1>4 DEF TakeVersionLock
  <2>2. OnRoute(call[c].op, call[c].why, "loadversion") /\ "loadversion" \in Stages
    BY <1>1, <2>1 DEF CallInv, OnRoute, Stages, Refreshing
  <2>3. "loadversion" \notin Writing \cup Merging \cup {"packages"}
    BY DEF Writing, Merging
  <2> QED  BY <1>1, <2>1, <2>2, <2>3, ProceedShape
<1>5. ASSUME LoadVersion(c)
      PROVE  KeepsRoutes /\ Quiet(c) /\ (Ends(c) \/ (Continues(c, {"index"}) /\ call' = call))
  <2>1. pc[c] = "loadversion" /\ (Return(c, "ok") \/ Return(c, "transient") \/ Proceed(c, "index"))
    BY <1>5 DEF LoadVersion
  <2>2. OnRoute(call[c].op, call[c].why, "index") /\ "index" \in Stages
    BY <1>1, <2>1 DEF CallInv, OnRoute, Stages, Refreshing
  <2>3. "index" \notin Writing \cup Merging \cup {"packages"}
    BY DEF Writing, Merging
  <2> QED  BY <1>1, <1>2, <2>1, <2>2, <2>3, ProceedShape
<1>6. ASSUME VersionUnreadable(c) PROVE KeepsRoutes /\ Quiet(c) /\ Ends(c)
  BY <1>2, <1>6 DEF VersionUnreadable
<1> QED  BY <1>3, <1>4, <1>5, <1>6

(* What the caller of load_index does with its answer. *)
LEMMA AnswerShapes ==
  ASSUME CallTypes, CallsInv, NEW c \in Callers, call[c].why = "load"
  PROVE  /\ \A value \in Index : HaveIndex(c, value) =>
              /\ KeepsRoutes /\ Quiet(c)
              /\ \/ Ends(c) /\ call[c].op = "list" /\ call'[c].result = "ok"
                 \/ Continues(c, {"find"})
         /\ \A error \in Errors : IndexError(c, error) =>
              /\ KeepsRoutes /\ (error # "missing" => Quiet(c))
              /\ \/ Ends(c) /\ call[c].op = "list"
                 \/ Continues(c, {"versionfailed"})
<1>1. OnRoute("version", "load", "find") /\ "find" \in Stages \ (Writing \cup Merging)
  BY DEF OnRoute, Stages, Writing, Merging
<1>2. /\ OnRoute("version", "load", "versionfailed")
      /\ "versionfailed" \in Stages \ (Writing \cup Merging)
  BY DEF OnRoute, Stages, Writing, Merging
<1>3. ASSUME NEW value \in Index, HaveIndex(c, value)
      PROVE  /\ KeepsRoutes /\ Quiet(c)
             /\ \/ Ends(c) /\ call[c].op = "list" /\ call'[c].result = "ok"
                \/ Continues(c, {"find"})
  <2>1. CASE call[c].op = "list"
    BY <1>3, <2>1, ReturnShape DEF HaveIndex, Quiet, Results
  <2>2. CASE call[c].op # "list"
    <3>1. /\ call[c].op = "version" /\ Moves(c, "find") /\ SameAddress(c)
          /\ call'[c].why = "load" /\ call'[c].result = call[c].result
      BY <1>3, <2>2, HaveIndexEffect
    <3> QED  BY <1>1, <3>1, MovesShape DEF Quiet
  <2> QED  BY <2>1, <2>2
<1>4. ASSUME NEW error \in Errors, IndexError(c, error)
      PROVE  /\ KeepsRoutes /\ (error # "missing" => Quiet(c))
             /\ \/ Ends(c) /\ call[c].op = "list"
                \/ Continues(c, {"versionfailed"})
  <2>0. error \in Results
    BY DEF Results
  <2>1. CASE call[c].op = "list"
    BY <1>4, <2>0, <2>1, ReturnShape DEF IndexError, Quiet
  <2>2. CASE call[c].op # "list"
    <3>1. /\ call[c].op = "version" /\ Moves(c, "versionfailed") /\ SameAddress(c)
          /\ call'[c].why = "load" /\ call'[c].result = error
      BY <1>4, <2>0, <2>2, IndexErrorEffect
    <3> QED  BY <1>2, <2>0, <3>1, MovesShape DEF Quiet
  <2> QED  BY <2>1, <2>2
<1> QED  BY <1>3, <1>4

-----------------------------------------------------------------------------
(* The steps of load_index, up to the request to the registry. *)
LEMMA LookIndexShape ==
  ASSUME TypeOK, CallsInv, NEW c \in Callers, LookIndex(c)
  PROVE  /\ KeepsRoutes /\ Quiet(c)
         /\ \/ Ends(c) /\ call[c].op = "list" /\ call'[c].result = "ok"
            \/ Continues(c, {"find", "indexlock"})
<1>1. CallTypes /\ CallInv(c) /\ pc[c] = "index"
  BY TypeFacts DEF CallsInv, LookIndex
<1>2. call[c].why = "load" /\ OnRoute(call[c].op, call[c].why, "indexlock") /\ "indexlock" \in Stages
  BY <1>1 DEF CallInv, OnRoute, Stages, Refreshing
<1>3. CASE Proceed(c, "indexlock")
  <2>1. "indexlock" \notin Writing \cup Merging \cup {"packages"}
    BY DEF Writing, Merging
  <2> QED  BY <1>1, <1>2, <1>3, <2>1, ProceedShape DEF Continues
<1>4. CASE Fresh(indices[Prov(c)]) /\ HaveIndex(c, indices[Prov(c)].list)
  <2>1. indices[Prov(c)] # None
    BY <1>4 DEF Fresh
  <2>2. indices[Prov(c)].list \in Index
    BY <1>1, <2>1, CallFields, TypeFacts, IndexEntryFields
  <2> QED  BY <1>1, <1>2, <1>4, <2>2, AnswerShapes DEF Continues
<1> QED  BY <1>3, <1>4 DEF LookIndex

LEMMA TakeIndexLockShape ==
  ASSUME TypeOK, CallsInv, NEW c \in Callers, TakeIndexLock(c)
  PROVE  /\ KeepsRoutes /\ Quiet(c) /\ call' = call
         /\ \/ call[c].why = "load" /\ Continues(c, {"loadindex"})
            \/ call[c].why = "miss" /\ Continues(c, {"missed"})
            \/ call[c].why = "sync" /\ Continues(c, {"fetchindex"})
<1>1. CallTypes /\ CallInv(c) /\ pc[c] = "indexlock"
  BY TypeFacts DEF CallsInv, TakeIndexLock
<1>2. \/ call[c].why = "load" /\ Proceed(c, "loadindex")
      \/ call[c].why = "miss" /\ Proceed(c, "missed")
      \/ call[c].why = "sync" /\ Proceed(c, "fetchindex")
  BY <1>1, CallFields DEF TakeIndexLock
<1>3. /\ call[c].why = "load" => OnRoute(call[c].op, call[c].why, "loadindex")
      /\ call[c].why = "miss" => OnRoute(call[c].op, call[c].why, "missed")
      /\ call[c].why = "sync" => OnRoute(call[c].op, call[c].why, "fetchindex")
  BY <1>1 DEF CallInv, OnRoute, Refreshing, Merging
<1>4. /\ {"loadindex", "missed", "fetchindex"} \subseteq Stages
      /\ {"loadindex", "missed", "fetchindex"} \cap (Writing \cup Merging \cup {"packages"}) = {}
  BY DEF Stages, Writing, Merging, Refreshing
<1>5. CASE call[c].why = "load"
  BY <1>1, <1>2, <1>3, <1>4, <1>5, ProceedShape
<1>6. CASE call[c].why = "miss"
  BY <1>1, <1>2, <1>3, <1>4, <1>6, ProceedShape
<1>7. CASE call[c].why = "sync"
  BY <1>1, <1>2, <1>3, <1>4, <1>7, ProceedShape
<1> QED  BY <1>1, <1>5, <1>6, <1>7, CallFields

LEMMA LoadIndexShape ==
  ASSUME TypeOK, CallsInv, NEW c \in Callers, LoadIndex(c)
  PROVE  /\ KeepsRoutes /\ Quiet(c)
         /\ \/ Ends(c) /\ call[c].op = "list"
            \/ Continues(c, {"find", "versionfailed"})
            \/ Continues(c, {"fetchindex"}) /\ call' = call
<1> DEFINE e == OnHand(indices[Prov(c)], indexFile[Prov(c)])
<1>1. CallTypes /\ CallInv(c) /\ pc[c] = "loadindex" /\ Prov(c) \in Providers
  BY TypeFacts, CallFields DEF CallsInv, LoadIndex
<1>2. /\ call[c].why = "load" /\ OnRoute(call[c].op, call[c].why, "fetchindex")
      /\ "fetchindex" \in Stages /\ "fetchindex" \notin Writing \cup Merging \cup {"packages"}
  BY <1>1 DEF CallInv, OnRoute, Stages, Refreshing, Writing, Merging
<1>3. CASE Proceed(c, "fetchindex")
  BY <1>1, <1>2, <1>3, ProceedShape
<1>4. CASE IndexError(c, "transient")
  BY <1>1, <1>2, <1>4, AnswerShapes DEF Continues
<1>5. CASE e # None /\ HaveIndex(c, e.list)
  <2>1. e.list \in Index
    BY <1>1, <1>5, OnHandIndex, IndexEntryFields
  <2> QED  BY <1>1, <1>2, <1>5, <2>1, AnswerShapes DEF Continues
<1> QED  BY <1>3, <1>4, <1>5 DEF LoadIndex, Fresh

LEMMA IndexUnreadableShape ==
  ASSUME TypeOK, CallsInv, NEW c \in Callers, IndexUnreadable(c)
  PROVE  /\ KeepsRoutes /\ Quiet(c)
         /\ \/ Ends(c) /\ call[c].op = "list"
            \/ Continues(c, {"versionfailed"})
<1>1. CallTypes /\ CallInv(c) /\ pc[c] = "loadindex" /\ IndexError(c, "transient")
  BY TypeFacts DEF CallsInv, IndexUnreadable
<1>2. call[c].why = "load"
  BY <1>1 DEF CallInv, OnRoute, Refreshing, Merging
<1> QED  BY <1>1, <1>2, AnswerShapes

(* refresh_index_unlocked *)
LEMMA FetchIndexShape ==
  ASSUME TypeOK, CallsInv, NEW c \in Callers, NEW value \in Index, FetchIndex(c, value)
  PROVE  /\ KeepsRoutes /\ Quiet(c) /\ Continues(c, {"writeindex"})
         /\ call'[c].why = call[c].why /\ call'[c].entry \in IndexEntry /\ call'[c].entry.at = now
<1> DEFINE e == [at |-> now, complete |-> TRUE, list |-> value]
<1>1. CallTypes /\ CallInv(c) /\ pc[c] = "fetchindex" /\ call[c] \in Calls
  BY TypeFacts DEF CallsInv, FetchIndex, CallTypes
<1>2. e \in IndexEntry /\ e.at = now
  BY DEF TypeOK, IndexEntry
<1>3. call' = [call EXCEPT ![c].entry = e] /\ Goto(c, "writeindex")
  BY DEF FetchIndex
<1> HIDE DEF e
<1>4. call'[c] = [call[c] EXCEPT !.entry = e]
  BY <1>1, <1>3 DEF CallTypes
<1>5. call'[c] \in Calls /\ call'[c].entry = e /\ call'[c].why = call[c].why
  BY <1>1, <1>2, <1>4 DEF Calls
<1>6. SameAddress(c) /\ call'[c].result = call[c].result
  BY <1>1, <1>4 DEF Calls, SameAddress, Prov, Key
<1>7. Others(c) /\ pc'[c] = "writeindex" /\ CallTypes'
  BY <1>1, <1>3, <1>5 DEF CallTypes, Goto, Others, Stages, Refreshing
<1>8. OnRoute(call[c].op, call[c].why, "writeindex")
  BY <1>1 DEF CallInv, OnRoute, Refreshing, Merging
<1>9. CallInv(c)'
  BY <1>2, <1>5, <1>6, <1>7, <1>8 DEF CallInv, SameAddress, Merging
<1> QED  BY <1>2, <1>5, <1>6, <1>7, <1>9, OthersStay DEF KeepsRoutes, Quiet, Continues

LEMMA WriteIndexShape ==
  ASSUME TypeOK, CallsInv, NEW c \in Callers, WriteIndex(c)
  PROVE  KeepsRoutes /\ Quiet(c) /\ Continues(c, {"syncindex"}) /\ call' = call
<1>1. CallTypes /\ CallInv(c) /\ pc[c] = "writeindex" /\ Proceed(c, "syncindex")
  BY TypeFacts DEF CallsInv, WriteIndex
<1>2. /\ OnRoute(call[c].op, call[c].why, "syncindex") /\ "syncindex" \in Stages
      /\ call[c].entry \in IndexEntry /\ "syncindex" \notin Merging \cup {"packages"}
  BY <1>1 DEF CallInv, OnRoute, Stages, Refreshing, Writing, Merging
<1> QED  BY <1>1, <1>2, ProceedShape

LEMMA ChooseShape ==
  ASSUME CallTypes, CallsInv, NEW c \in Callers, NEW value \in Index,
         call[c].op = "version", Choose(c, value)
  PROVE  /\ KeepsRoutes /\ Continues(c, {"packages", "versionfailed"})
         /\ call[c].ver \in DOMAIN value => Quiet(c)
<1>1. /\ OnRoute("version", "load", "packages") /\ OnRoute("version", "load", "versionfailed")
      /\ {"packages", "versionfailed"} \subseteq Stages \ (Writing \cup Merging)
  BY DEF OnRoute, Stages, Writing, Merging
<1>2. CASE /\ Moves(c, "packages") /\ SameAddress(c) /\ call'[c].why = "load"
           /\ call'[c].result = call[c].result /\ call'[c].ver \in DOMAIN call'[c].index
  BY <1>1, <1>2, MovesShape DEF Quiet, Continues
<1>3. CASE /\ call[c].ver \notin DOMAIN value /\ Moves(c, "versionfailed") /\ SameAddress(c)
           /\ call'[c].why = "load"
  BY <1>1, <1>3, MovesShape DEF Continues
<1> QED  BY <1>2, <1>3, ChooseEffect

(* A call of sync_known has done with an index. *)
LEMMA SyncedShape ==
  ASSUME CallTypes, CallsInv, NEW c \in Callers, call[c].why = "sync", call[c].op = "sync",
         Goto(c, "nextprovider"), NEW r \in Results,
         call' = [call EXCEPT ![c].entry = None, ![c].result = r]
  PROVE  KeepsRoutes /\ Continues(c, {"nextprovider"}) /\ call'[c].result = r
<1>1. call[c] \in Calls /\ call'[c] = [call[c] EXCEPT !.entry = None, !.result = r]
  BY DEF CallTypes
<1> DEFINE half == [call[c] EXCEPT !.entry = None]
<1>2. /\ call'[c] \in Calls /\ call'[c].result = r /\ call'[c].why = call[c].why
      /\ call'[c].op = call[c].op /\ call'[c].prov = call[c].prov /\ call'[c].ver = call[c].ver
  <2>1. /\ half \in Calls /\ half.why = call[c].why
        /\ half.op = call[c].op /\ half.prov = call[c].prov /\ half.ver = call[c].ver
    BY <1>1 DEF Calls
  <2>2. call'[c] = [half EXCEPT !.result = r]
    BY <1>1
  <2> HIDE DEF half
  <2>3. [half EXCEPT !.result = r] \in Calls
    BY <2>1 DEF Calls, Results
  <2>4. /\ call'[c].result = r /\ call'[c].why = half.why
        /\ call'[c].op = half.op /\ call'[c].prov = half.prov /\ call'[c].ver = half.ver
    BY <2>1, <2>2 DEF Calls
  <2> QED  BY <2>1, <2>2, <2>3, <2>4
<1>3. SameAddress(c)
  BY <1>2 DEF SameAddress, Prov, Key
<1>4. Others(c) /\ pc'[c] = "nextprovider" /\ CallTypes'
  BY <1>2 DEF CallTypes, Goto, Others, Stages
<1>5. /\ OnRoute("sync", "sync", "nextprovider")
      /\ "nextprovider" \in Stages \ (Writing \cup Merging \cup {"packages"})
  BY DEF OnRoute, Stages, Writing, Merging
<1> QED  BY <1>2, <1>3, <1>4, <1>5, MovesShape DEF Moves

LEMMA StoreIndexShape ==
  ASSUME TypeOK, CallsInv, NEW c \in Callers, StoreIndex(c)
  PROVE  /\ KeepsRoutes
         /\ \/ Ends(c) /\ call[c].op = "list" /\ call'[c].result = "ok"
            \/ Continues(c, {"find", "packages", "versionfailed", "nextprovider"})
<1>1. CallTypes /\ CallInv(c) /\ pc[c] = "syncindex" /\ call[c].result \in Results
  BY TypeFacts, CallFields DEF CallsInv, StoreIndex
<1>2. call[c].entry.list \in Index
  BY <1>1, IndexEntryFields DEF CallInv, Writing
<1>3. (call[c].why = "sync" => call[c].op = "sync") /\ (call[c].why = "miss" => call[c].op = "version")
  BY <1>1 DEF CallInv, OnRoute
<1>4. CASE call[c].why = "load" /\ HaveIndex(c, call[c].entry.list)
  BY <1>1, <1>2, <1>4, AnswerShapes DEF Continues
<1>5. CASE call[c].why = "miss" /\ Choose(c, call[c].entry.list)
  BY <1>1, <1>2, <1>3, <1>5, ChooseShape DEF Continues
<1>6. CASE /\ call[c].why = "sync" /\ Goto(c, "nextprovider")
           /\ call' = [call EXCEPT ![c].entry = None]
  <2>1. call[c] \in Calls
    BY <1>1 DEF CallTypes
  <2>2. [call[c] EXCEPT !.entry = None] = [call[c] EXCEPT !.entry = None, !.result = call[c].result]
    BY <2>1 DEF Calls
  <2>3. call' = [call EXCEPT ![c].entry = None, ![c].result = call[c].result]
    BY <1>1, <1>6, <2>1, <2>2 DEF CallTypes
  <2> QED  BY <1>1, <1>3, <1>6, <2>3, SyncedShape DEF Continues
<1> QED  BY <1>4, <1>5, <1>6 DEF StoreIndex

LEMMA FailIndexShape ==
  ASSUME TypeOK, CallsInv, NEW c \in Callers, NEW error \in Errors,
         FailIndex(c, error)
  PROVE  /\ KeepsRoutes /\ (error # "missing" => Quiet(c))
         /\ \/ Ends(c) /\ call[c].op = "list"
            \/ Continues(c, {"find", "versionfailed", "nextprovider"})
<1>1. CallTypes /\ CallInv(c) /\ pc[c] \in Refreshing /\ error \in Results
  BY TypeFacts DEF CallsInv, FailIndex, Results
<1>2. (call[c].why = "sync" => call[c].op = "sync") /\ (call[c].why = "miss" => call[c].op = "version")
  BY <1>1 DEF CallInv, OnRoute
<1>3. CASE call[c].why = "load" /\ indices[Prov(c)] # None /\ HaveIndex(c, indices[Prov(c)].list)
  <2>1. indices[Prov(c)].list \in Index
    BY <1>1, <1>3, CallFields, TypeFacts, IndexEntryFields
  <2> QED  BY <1>1, <1>3, <2>1, AnswerShapes DEF Continues
<1>4. CASE call[c].why = "load" /\ indices[Prov(c)] = None /\ IndexError(c, error)
  BY <1>1, <1>4, AnswerShapes DEF Continues
<1>5. CASE call[c].why = "miss" /\ IndexError(c, error)
  <2>1. Moves(c, "versionfailed") /\ SameAddress(c) /\ call'[c].why = "load" /\ call'[c].result = error
    BY <1>1, <1>2, <1>5, IndexErrorEffect
  <2>2. /\ OnRoute("version", "load", "versionfailed")
        /\ "versionfailed" \in Stages \ (Writing \cup Merging \cup {"packages"})
    BY DEF OnRoute, Stages, Writing, Merging
  <2> QED  BY <1>1, <1>2, <1>5, <2>1, <2>2, MovesShape DEF Quiet, Continues
<1>6. CASE /\ call[c].why = "sync" /\ Goto(c, "nextprovider")
           /\ call' = [call EXCEPT ![c].entry = None, ![c].result = "transient"]
  <2>1. "transient" \in Results
    BY DEF Results
  <2>2. KeepsRoutes /\ Continues(c, {"nextprovider"}) /\ call'[c].result = "transient"
    BY <1>1, <1>2, <1>6, <2>1, SyncedShape
  <2>3. Quiet(c)
    BY <2>2 DEF Quiet
  <2> QED  BY <2>2, <2>3 DEF Continues
<1> QED  BY <1>3, <1>4, <1>5, <1>6 DEF FailIndex

-----------------------------------------------------------------------------
(* The steps of refresh_version. *)
LEMMA FindVersionShape ==
  ASSUME TypeOK, CallsInv, NEW c \in Callers, FindVersion(c)
  PROVE  KeepsRoutes /\ Continues(c, {"indexlock", "packages", "versionfailed"})
<1>1. CallTypes /\ CallInv(c) /\ pc[c] = "find" /\ call[c] \in Calls
  BY TypeFacts DEF CallsInv, FindVersion, CallTypes
<1>2. call[c].op = "version" /\ call[c].index \in Index
  BY <1>1, CallFields DEF CallInv, OnRoute, Refreshing, Merging
<1>3. CASE Choose(c, call[c].index)
  BY <1>1, <1>2, <1>3, ChooseShape DEF Continues
<1>4. CASE Goto(c, "indexlock") /\ call' = [call EXCEPT ![c].why = "miss"]
  <2>1. call'[c] = [call[c] EXCEPT !.why = "miss"]
    BY <1>1, <1>4 DEF CallTypes
  <2>2. call'[c] \in Calls /\ call'[c].why = "miss"
    BY <1>1, <2>1 DEF Calls
  <2>3. SameAddress(c)
    BY <1>1, <2>1 DEF Calls, SameAddress, Prov, Key
  <2>4. Moves(c, "indexlock")
    BY <1>1, <1>4, <2>2 DEF Moves, CallTypes, Goto, Others, Stages
  <2>5. /\ OnRoute("version", "miss", "indexlock")
        /\ "indexlock" \in Stages \ (Writing \cup Merging \cup {"packages"})
    BY DEF OnRoute, Stages, Writing, Merging
  <2> QED  BY <1>1, <1>2, <2>2, <2>3, <2>4, <2>5, MovesShape DEF Continues
<1> QED  BY <1>3, <1>4 DEF FindVersion

(* The index that Missed looks its version up in. *)
Latest(c) == IF indices[Prov(c)] = None THEN call[c].index ELSE indices[Prov(c)].list

LEMMA MissedShape ==
  ASSUME TypeOK, CallsInv, NEW c \in Callers, Missed(c)
  PROVE  /\ KeepsRoutes
         /\ \/ NeedsRefresh(c, Latest(c)) /\ Continues(c, {"fetchindex"}) /\ call' = call
            \/ /\ ~NeedsRefresh(c, Latest(c)) /\ Continues(c, {"packages", "versionfailed"})
               /\ call[c].ver \in DOMAIN Latest(c) => Quiet(c)
<1>1. CallTypes /\ CallInv(c) /\ pc[c] = "missed" /\ Prov(c) \in Providers /\ call[c].index \in Index
  BY TypeFacts, CallFields DEF CallsInv, Missed
<1>2. /\ call[c].op = "version" /\ OnRoute(call[c].op, call[c].why, "fetchindex")
      /\ "fetchindex" \in Stages /\ "fetchindex" \notin Writing \cup Merging \cup {"packages"}
  BY <1>1 DEF CallInv, OnRoute, Stages, Refreshing, Writing, Merging
<1>3. Latest(c) \in Index
  BY <1>1, TypeFacts, IndexEntryFields DEF Latest
<1>4. CASE NeedsRefresh(c, Latest(c)) /\ Proceed(c, "fetchindex")
  BY <1>1, <1>2, <1>4, ProceedShape
<1>5. CASE ~NeedsRefresh(c, Latest(c)) /\ Choose(c, Latest(c))
  BY <1>1, <1>2, <1>3, <1>5, ChooseShape
<1> QED  BY <1>4, <1>5 DEF Missed, Latest

(* No package arrives, and none is in memory. *)
NoPackage(c, good) == good # call[c].index[call[c].ver] /\ Merged(c, good) = {}

LEMMA FetchPackagesShape ==
  ASSUME TypeOK, CallsInv, NEW c \in Callers, NEW good \in SUBSET Platforms,
         NEW error \in Errors, FetchPackages(c, good, error)
  PROVE  /\ KeepsRoutes
         /\ error # "missing" \/ ~NoPackage(c, good) => Quiet(c)
         /\ \/ Continues(c, {"versionfailed"})
            \/ /\ Continues(c, {"writeversion"}) /\ call'[c].index = call[c].index
               /\ call'[c].entry.platforms = Merged(c, good)
               /\ call'[c].entry.complete = (good = call[c].index[call[c].ver])
<1>1. CallTypes /\ CallInv(c) /\ pc[c] = "packages" /\ call[c] \in Calls /\ Key(c) \in Keys
  BY TypeFacts, CallFields DEF CallsInv, FetchPackages, CallTypes
<1>2. call[c].op = "version" /\ call[c].why = "load" /\ call[c].ver \in DOMAIN call[c].index
  BY <1>1 DEF CallInv, OnRoute, Refreshing, Merging
<1>3. CASE Abandon(c, error)
  <2>1. error \in Results
    BY DEF Results
  <2>2. /\ Moves(c, "versionfailed") /\ SameAddress(c)
        /\ call'[c].why = "load" /\ call'[c].result = error
    BY <1>1, <1>3, <2>1, AbandonEffect
  <2>3. /\ OnRoute("version", "load", "versionfailed")
        /\ "versionfailed" \in Stages \ (Writing \cup Merging \cup {"packages"})
    BY DEF OnRoute, Stages, Writing, Merging
  <2>4. KeepsRoutes /\ Continues(c, {"versionfailed"})
    BY <1>1, <1>2, <2>2, <2>3, MovesShape
  <2>5. ~Goto(c, "writeversion")
    BY <1>1, <2>2 DEF Moves, Goto, CallTypes
  <2>6. NoPackage(c, good)
    BY <2>5 DEF FetchPackages, NoPackage
  <2>7. error # "missing" => Quiet(c)
    BY <2>2 DEF Quiet
  <2> QED  BY <2>4, <2>6, <2>7
<1>4. CASE ~Abandon(c, error)
  <2> DEFINE all == good = call[c].index[call[c].ver]
             e == [at |-> now, complete |-> all, platforms |-> Merged(c, good)]
  <2>1. call' = [call EXCEPT ![c].entry = e] /\ Goto(c, "writeversion")
    BY <1>4 DEF FetchPackages
  <2>2. Merged(c, good) \subseteq Platforms
    <3>1. call[c].index[call[c].ver] \subseteq Platforms
      BY <1>1, <1>2, CallFields, IndexValue
    <3> QED  BY <3>1 DEF Merged
  <2>3. all \in BOOLEAN
    OBVIOUS
  <2>4. now \in Times
    BY DEF TypeOK
  <2> HIDE DEF all
  <2>5. e \in VersionEntry /\ e.platforms = Merged(c, good) /\ e.complete = all
    BY <2>2, <2>3, <2>4 DEF VersionEntry
  <2> HIDE DEF e
  <2>6. call'[c] = [call[c] EXCEPT !.entry = e]
    BY <1>1, <2>1 DEF CallTypes
  <2>7. /\ call'[c] \in Calls /\ call'[c].entry = e /\ call'[c].why = call[c].why
        /\ call'[c].index = call[c].index
    BY <1>1, <2>5, <2>6 DEF Calls
  <2>8. SameAddress(c) /\ call'[c].result = call[c].result
    BY <1>1, <2>6 DEF Calls, SameAddress, Prov, Key
  <2>9. Others(c) /\ pc'[c] = "writeversion" /\ CallTypes'
    BY <1>1, <2>1, <2>7 DEF CallTypes, Goto, Others, Stages
  <2>10. OnRoute("version", "load", "writeversion") /\ "writeversion" \notin Writing
    BY DEF OnRoute, Merging, Writing
  <2>11. CallInv(c)'
    BY <1>2, <2>5, <2>7, <2>8, <2>9, <2>10 DEF CallInv, SameAddress
  <2>12. KeepsRoutes /\ Continues(c, {"writeversion"}) /\ Quiet(c)
    BY <2>8, <2>9, <2>11, OthersStay DEF KeepsRoutes, Quiet, Continues
  <2> QED  BY <2>5, <2>7, <2>12 DEF all
<1> QED  BY <1>3, <1>4

LEMMA WriteVersionShape ==
  ASSUME TypeOK, CallsInv, NEW c \in Callers, WriteVersion(c)
  PROVE  KeepsRoutes /\ Quiet(c) /\ Continues(c, {"syncversion"}) /\ call' = call
<1>1. CallTypes /\ CallInv(c) /\ pc[c] = "writeversion" /\ Proceed(c, "syncversion")
  BY TypeFacts DEF CallsInv, WriteVersion
<1>2. /\ OnRoute(call[c].op, call[c].why, "syncversion") /\ "syncversion" \in Stages
      /\ call[c].entry \in VersionEntry /\ "syncversion" \notin Writing
      /\ call[c].ver \in DOMAIN call[c].index
  BY <1>1 DEF CallInv, OnRoute, Stages, Refreshing, Writing, Merging
<1> QED  BY <1>1, <1>2, ProceedShape

LEMMA VersionNotWrittenShape ==
  ASSUME TypeOK, CallsInv, NEW c \in Callers, VersionNotWritten(c)
  PROVE  KeepsRoutes /\ Quiet(c) /\ Continues(c, {"versionfailed"})
<1>1. CallTypes /\ CallInv(c) /\ pc[c] \in Merging /\ Abandon(c, "transient")
  BY TypeFacts DEF CallsInv, VersionNotWritten, Merging
<1>2. call[c].op = "version"
  BY <1>1 DEF CallInv, OnRoute, Refreshing, Merging
<1>3. "transient" \in Results
  BY DEF Results
<1>4. /\ Moves(c, "versionfailed") /\ SameAddress(c)
      /\ call'[c].why = "load" /\ call'[c].result = "transient"
  BY <1>1, <1>3, AbandonEffect
<1>5. /\ OnRoute("version", "load", "versionfailed")
      /\ "versionfailed" \in Stages \ (Writing \cup Merging \cup {"packages"})
  BY DEF OnRoute, Stages, Writing, Merging
<1> QED  BY <1>1, <1>2, <1>4, <1>5, MovesShape DEF Quiet

(* The steps that end a call. *)
LEMMA EndShapes ==
  ASSUME TypeOK, CallsInv, NEW c \in Callers,
         StoreVersion(c) \/ FailVersion(c) \/ Reply(c) \/ Disconnect(c)
  PROVE  KeepsRoutes /\ Quiet(c) /\ Ends(c)
<1>1. CallTypes
  BY TypeFacts
<1>2. CASE StoreVersion(c)
  BY <1>1, <1>2, ReturnShape DEF StoreVersion, Quiet, Results
<1>3. CASE FailVersion(c)
  <2> DEFINE r == IF versions[Key(c)] = None THEN call[c].result ELSE "ok"
  <2>1. r \in Results /\ (r = "missing" => call[c].result = "missing")
    BY <1>1, CallFields DEF Results
  <2>2. Return(c, r)
    BY <1>3 DEF FailVersion
  <2> HIDE DEF r
  <2> QED  BY <1>1, <2>1, <2>2, ReturnShape DEF Quiet
<1>4. CASE Reply(c) \/ Disconnect(c)
  <2>1. Goto(c, "idle") /\ call' = [call EXCEPT ![c] = NoCall]
    BY <1>4 DEF Reply, Disconnect
  <2>2. call'[c] = NoCall /\ CallTypes' /\ pc'[c] = "idle" /\ Others(c)
    BY <1>1, <2>1, NoCallType DEF CallTypes, Goto, Others, Stages
  <2>3. EndsCall(c) /\ call'[c].result = "none"
    BY <2>2, NoCallType DEF EndsCall
  <2> QED  BY <2>2, <2>3, EndedInv, OthersStay DEF KeepsRoutes, Quiet, Ends
<1> QED  BY <1>2, <1>3, <1>4

-----------------------------------------------------------------------------
(* The beginning of a call, and of each round of sync_known.               *)
Begins(c) ==
  /\ KeepsRoutes /\ Quiet(c) /\ Others(c)
  /\ pc'[c] \in {"index", "version", "nextprovider", "indexlock", "done"}
  /\ call'[c].op = "version" => pc'[c] = "version"

LEMMA BeginCalls ==
  ASSUME CallTypes, CallsInv, NEW c \in Callers,
         \/ \E p \in Providers : List(c, p)
         \/ \E k \in Keys : GetVersion(c, k)
         \/ Refuse(c) \/ Sync(c) \/ NextProvider(c)
  PROVE  Begins(c)
<1> USE DEF CallTypes
<1>1. call[c] \in Calls /\ CallInv(c)
  BY DEF CallsInv
<1>2. ASSUME NEW p \in Providers, List(c, p) PROVE Begins(c)
  <2>1. call'[c] = [call[c] EXCEPT !.prov = p] /\ pc'[c] = "index" /\ pc[c] = "idle" /\ Others(c)
    BY <1>2 DEF List, Goto, Others
  <2>2. /\ call'[c] \in Calls /\ call'[c].op = call[c].op /\ call'[c].why = call[c].why
        /\ call'[c].result = call[c].result
    BY <1>1, <2>1 DEF Calls
  <2>3. CallInv(c)'
    BY <1>1, <2>1, <2>2 DEF CallInv, OnRoute, Writing, Merging, Refreshing
  <2>4. call' \in [Callers -> Calls]
    BY <1>2, <2>2 DEF List
  <2>5. call[c].op = "list" /\ pc' \in [Callers -> Stages]
    BY <1>1, <1>2, <2>1 DEF CallInv, OnRoute, Merging, Refreshing, List, Goto, Stages
  <2> QED  BY <2>1, <2>2, <2>3, <2>4, <2>5, OthersStay DEF Begins, KeepsRoutes, Quiet
<1>3. ASSUME NEW k \in Keys, GetVersion(c, k) PROVE Begins(c)
  <2>1. /\ call'[c] = [call[c] EXCEPT !.op = "version", !.prov = k[1], !.ver = k[2]]
        /\ pc'[c] = "version" /\ pc[c] = "idle" /\ Others(c)
    BY <1>3 DEF GetVersion, Goto, Others
  <2>2. /\ call'[c] \in Calls /\ call'[c].op = "version" /\ call'[c].why = call[c].why
        /\ call'[c].result = call[c].result
    BY <1>1, <2>1 DEF Calls, Ops, Keys
  <2>3. CallInv(c)'
    BY <1>1, <2>1, <2>2 DEF CallInv, OnRoute, Writing, Merging, Refreshing
  <2>4. call' \in [Callers -> Calls]
    BY <1>3, <2>2 DEF GetVersion
  <2>5. pc' \in [Callers -> Stages]
    BY <1>3 DEF GetVersion, Goto, Stages
  <2> QED  BY <2>1, <2>2, <2>3, <2>4, <2>5, OthersStay DEF Begins, KeepsRoutes, Quiet
<1>4. ASSUME NEW r \in Results, Return(c, r), r = "missing" => call[c].result = "missing"
      PROVE  Begins(c)
  BY <1>4, ReturnShape DEF Begins, Quiet, Ends, EndsCall
<1>5. CASE Sync(c) /\ ~syncing
  <2> DEFINE known == {p \in Providers : indices[p] # None}
  <2>1. /\ call' = [call EXCEPT ![c].op = "sync", ![c].why = "sync", ![c].todo = known]
        /\ pc'[c] = "nextprovider" /\ pc' \in [Callers -> Stages] /\ Others(c)
    BY <1>5 DEF Sync, Goto, Others, Stages
  <2>2. known \subseteq Providers
    OBVIOUS
  <2> HIDE DEF known
  <2>3. call'[c] = [call[c] EXCEPT !.op = "sync", !.why = "sync", !.todo = known]
    BY <2>1
  <2>4. /\ call'[c] \in Calls /\ call'[c].op = "sync" /\ call'[c].why = "sync"
        /\ call'[c].result = call[c].result
    <3>1. [call[c] EXCEPT !.op = "sync"] \in Calls
      BY <1>1 DEF Calls, Ops
    <3>2. [[call[c] EXCEPT !.op = "sync"] EXCEPT !.why = "sync"] \in Calls
      BY <3>1 DEF Calls
    <3>3. [[[call[c] EXCEPT !.op = "sync"] EXCEPT !.why = "sync"] EXCEPT !.todo = known] \in Calls
      BY <3>2, <2>2 DEF Calls
    <3>4. call'[c].op = "sync" /\ call'[c].why = "sync" /\ call'[c].result = call[c].result
      BY <1>1, <2>3 DEF Calls
    <3> QED  BY <2>3, <3>3, <3>4
  <2>5. CallInv(c)'
    BY <2>1, <2>4 DEF CallInv, OnRoute, Writing, Merging
  <2>6. call' \in [Callers -> Calls]
    BY <2>1, <2>4
  <2> QED  BY <2>1, <2>4, <2>5, <2>6, OthersStay DEF Begins, KeepsRoutes, Quiet
<1>6. CASE NextProvider(c) /\ call[c].todo # {}
  <2>1. PICK p \in call[c].todo : /\ call' = [call EXCEPT ![c].prov = p, ![c].todo = @ \ {p}]
                                  /\ Goto(c, "indexlock")
    BY <1>6 DEF NextProvider
  <2>2. /\ call'[c] = [call[c] EXCEPT !.prov = p, !.todo = @ \ {p}]
        /\ pc[c] = "nextprovider" /\ pc'[c] = "indexlock" /\ pc' \in [Callers -> Stages] /\ Others(c)
    BY <1>6, <2>1 DEF NextProvider, Goto, Others, Stages
  <2>3. p \in Providers
    BY <2>1, CallFields
  <2>4. /\ call'[c] \in Calls /\ call'[c].op = call[c].op /\ call'[c].why = call[c].why
        /\ call'[c].result = call[c].result
    BY <1>1, <2>2, <2>3, ZenonT(60) DEF Calls
  <2>5. CallInv(c)'
    BY <1>1, <2>2, <2>4 DEF CallInv, OnRoute, Writing, Merging, Refreshing
  <2>6. call' \in [Callers -> Calls]
    BY <2>1, <2>4
  <2>7. call[c].op = "sync"
    BY <1>1, <2>2 DEF CallInv, OnRoute, Merging, Refreshing
  <2> QED  BY <2>2, <2>4, <2>5, <2>6, <2>7, OthersStay DEF Begins, KeepsRoutes, Quiet
<1>7. CASE NextProvider(c) /\ call[c].todo = {}
  <2> DEFINE r == IF call[c].result = "none" THEN "ok" ELSE call[c].result
  <2>1. r \in Results /\ (r = "missing" => call[c].result = "missing") /\ Return(c, r)
    BY <1>7, CallFields DEF Results, NextProvider
  <2> HIDE DEF r
  <2> QED  BY <1>4, <2>1
<1>8. CASE Refuse(c) \/ (Sync(c) /\ syncing)
  BY <1>4, <1>8 DEF Refuse, Sync, Results
<1> QED  BY <1>2, <1>3, <1>5, <1>6, <1>7, <1>8 DEF Sync, NextProvider

-----------------------------------------------------------------------------
(* record_refresh_failure keeps every live entry but the one the new one    *)
(* takes the place of, an oldest of a full map.                             *)
LEMMA RecordedFacts ==
  ASSUME NEW S, None \notin S, IsFiniteSet(S), NEW failures \in [S -> RetryTimes], now \in Times,
         NEW k \in S, NEW f \in Recorded(failures, k)
  PROVE  /\ f \in [S -> RetryTimes] /\ f[k] = now + Backoff
         /\ \A j \in S \ {k} : f[j] = failures[j] \/ f[j] = 0
         /\ \A j \in S \ {k} : failures[j] > now /\ f[j] # failures[j] =>
              /\ Cardinality({i \in S : failures[i] > now}) >= MaxFailures
              /\ \A i \in S : failures[i] > now => failures[j] <= failures[i]
<1> DEFINE live == {j \in S : failures[j] > now}
           full == ~(Cardinality(live) < MaxFailures)
           oldest == IF ~full THEN {None}
                     ELSE {j \in live : \A i \in live : failures[j] <= failures[i]}
<1>1. S = DOMAIN failures
  OBVIOUS
<1>2. PICK o \in oldest : f = [j \in S |-> IF j = k THEN now + Backoff
                                           ELSE IF j \in live \ {o} THEN failures[j] ELSE 0]
  BY <1>1 DEF Recorded
<1>3. now + Backoff \in RetryTimes /\ 0 \in RetryTimes
  BY NumberTypes DEF Times, RetryTimes
<1>4. f \in [S -> RetryTimes] /\ f[k] = now + Backoff
  BY <1>2, <1>3
<1>5. \A j \in S \ {k} : f[j] = failures[j] \/ f[j] = 0
  BY <1>2
<1>6. ASSUME NEW j \in S \ {k}, failures[j] > now, f[j] # failures[j]
      PROVE  full /\ \A i \in live : failures[j] <= failures[i]
  <2>1. o = j
    BY <1>2, <1>6
  <2>2. o # None
    BY <2>1
  <2> QED  BY <2>1, <2>2
<1>7. full => Cardinality(live) >= MaxFailures
  <2>0. live \subseteq S
    OBVIOUS
  <2> HIDE DEF live
  <2>1. MaxFailures \in Nat
    BY NumberTypes
  <2>2. Cardinality(live) \in Nat
    BY <2>0, FS_Subset, FS_CardinalityType
  <2> QED  BY <2>1, <2>2
<1> QED  BY <1>4, <1>5, <1>6, <1>7

LEMMA KeySets ==
  /\ IsFiniteSet(Providers) /\ IsFiniteSet(Keys) /\ IsFiniteSet(Callers)
  /\ None \notin Providers /\ None \notin Keys /\ Providers \cap Keys = {}
<1>1. IsFiniteSet(Keys)
  BY MetadataConstants, FS_Product DEF Keys
<1> QED  BY <1>1, MetadataConstants, NoneAssumption DEF Keys

(* What a failure leaves in a map. *)
LEMMA NotedType ==
  ASSUME NEW S, None \notin S, IsFiniteSet(S), NEW failures \in [S -> RetryTimes], now \in Times,
         NEW k \in S, NEW error, NEW f \in Noted(failures, k, error)
  PROVE  f \in [S -> RetryTimes]
<1>1. CASE error = "transient"
  BY <1>1, RecordedFacts DEF Noted
<1>2. CASE error # "transient"
  BY <1>2 DEF Noted
<1> QED  BY <1>1, <1>2

-----------------------------------------------------------------------------
(* The types of everything but the calls. *)
Renames == (Providers \X (IndexEntry \cup {Junk})) \cup (Keys \X (VersionEntry \cup {Junk}))
DataTypes ==
  /\ now \in Times /\ pubAt \in [Keys -> Times \cup {None}]
  /\ indices \in [Providers -> IndexEntry \cup {None}]
  /\ versions \in [Keys -> VersionEntry \cup {None}]
  /\ indexFile \in [Providers -> IndexEntry \cup {None, Junk}]
  /\ versionFile \in [Keys -> VersionEntry \cup {None, Junk}]
  /\ late \subseteq Renames
  /\ cutShort \subseteq Providers
  /\ indexHolder \in [Providers -> Callers \cup {Nobody}]
  /\ versionHolder \in [Keys -> Callers \cup {Nobody}]
  /\ indexRetry \in [Providers -> RetryTimes] /\ missRetry \in [Providers -> RetryTimes]
  /\ versionRetry \in [Keys -> RetryTimes]
  /\ syncing \in BOOLEAN
  /\ failed \in 0..MaxFaults /\ disconnects \in 0..MaxDisconnects /\ restarts \in 0..MaxRestarts
  /\ lastMiss \in [Providers -> Times \cup {None}]
  /\ lastFail \in [Providers \cup Keys -> Times \cup {None}]
  /\ abandoned \subseteq Providers

LEMMA TypesSplit == TypeOK <=> CallTypes /\ DataTypes
  BY DEF TypeOK, CallTypes, DataTypes, Renames, ILock!TypeOK, VLock!TypeOK

LEMMA TypesJoin == CallTypes' /\ DataTypes' => TypeOK'
  BY DEF TypeOK, CallTypes, DataTypes, Renames, ILock!TypeOK, VLock!TypeOK

(* Everything but the calls, the flag and the count of faults stays. *)
Still ==
  UNCHANGED <<time, memory, disk, locks, retries, lastMiss, lastFail, disconnects, restarts,
              abandoned>>

LEMMA StillTypes ==
  ASSUME DataTypes, Still, syncing' \in BOOLEAN, failed' \in 0..MaxFaults
  PROVE  DataTypes'
  BY DEF DataTypes, Still, time, memory, disk, locks, retries

LEMMA FaultCount ==
  ASSUME DataTypes
  PROVE  /\ Fault => /\ failed' \in 0..MaxFaults
                     /\ UNCHANGED <<disconnects, restarts, abandoned>>
         /\ UNCHANGED faults => /\ failed' \in 0..MaxFaults
                                /\ UNCHANGED <<disconnects, restarts, abandoned>>
<1>1. failed \in 0..MaxFaults /\ MaxFaults \in Nat
  BY NumberTypes DEF DataTypes
<1>2. Fault => failed' \in 0..MaxFaults
  BY <1>1 DEF Fault
<1> QED  BY <1>1, <1>2 DEF Fault, faults

(* The steps that only move a call. *)
StillStep(c) ==
  \/ \E p \in Providers : List(c, p)
  \/ \E k \in Keys : GetVersion(c, k)
  \/ Refuse(c) \/ Sync(c) \/ NextProvider(c) \/ LookVersion(c) \/ LookIndex(c)
  \/ \E value \in Index : FetchIndex(c, value)
  \/ FindVersion(c)
  \/ \E good \in SUBSET Platforms, error \in Errors : FetchPackages(c, good, error)
  \/ VersionNotWritten(c) \/ Reply(c)

LEMMA StillSteps ==
  ASSUME DataTypes, NEW c \in Callers, StillStep(c)
  PROVE  Still /\ syncing' \in BOOLEAN /\ failed' \in 0..MaxFaults
<1>1. syncing \in BOOLEAN
  BY DEF DataTypes
<1>2. CASE UNCHANGED <<time, memory, disk, locks, retries, syncing, faults, lastMiss, lastFail>>
  BY <1>1, <1>2, FaultCount DEF Still, faults
<1>3. CASE Sync(c) \/ NextProvider(c)
  BY <1>1, <1>3, FaultCount DEF Still, faults, Sync, NextProvider
<1>4. CASE VersionNotWritten(c)
  BY <1>1, <1>4, FaultCount DEF Still, VersionNotWritten
<1>5. ASSUME NEW good \in SUBSET Platforms, NEW error \in Errors,
             FetchPackages(c, good, error)
      PROVE  Still /\ syncing' \in BOOLEAN /\ failed' \in 0..MaxFaults
  BY <1>1, <1>5, FaultCount DEF Still, FetchPackages
<1>6. CASE \/ \E p \in Providers : List(c, p)
           \/ \E k \in Keys : GetVersion(c, k)
           \/ Refuse(c) \/ LookVersion(c) \/ LookIndex(c)
           \/ \E value \in Index : FetchIndex(c, value)
           \/ FindVersion(c) \/ Reply(c)
  BY <1>2, <1>6 DEF List, GetVersion, Refuse, LookVersion, LookIndex, FetchIndex, FindVersion, Reply
<1> QED  BY <1>3, <1>4, <1>5, <1>6 DEF StillStep

(* The steps that change memory, disk, locks or the maps of failures. *)
DataStep(c) ==
  \/ TakeVersionLock(c) \/ LoadVersion(c) \/ VersionUnreadable(c) \/ TakeIndexLock(c)
  \/ LoadIndex(c) \/ IndexUnreadable(c) \/ WriteIndex(c) \/ StoreIndex(c)
  \/ \E error \in Errors : FailIndex(c, error)
  \/ Missed(c) \/ WriteVersion(c) \/ StoreVersion(c) \/ FailVersion(c)

LEMMA LockTypes ==
  ASSUME DataTypes, NEW c \in Callers, NEW p \in Providers, NEW k \in Keys
  PROVE  /\ ILock!Acquire(p, c) \/ ILock!Release(p, c) =>
              indexHolder' \in [Providers -> Callers \cup {Nobody}]
         /\ VLock!Acquire(k, c) \/ VLock!Release(k, c) =>
              versionHolder' \in [Keys -> Callers \cup {Nobody}]
  BY DEF DataTypes, ILock!Acquire, ILock!Release, VLock!Acquire, VLock!Release

LEMMA DataStepTypes ==
  ASSUME TypeOK, CallsInv, NEW c \in Callers, DataStep(c)
  PROVE  DataTypes'
<1>1. /\ CallTypes /\ DataTypes /\ CallInv(c) /\ Prov(c) \in Providers /\ Key(c) \in Keys
      /\ now \in Times
  BY TypesSplit, CallFields DEF CallsInv, DataTypes
<1> USE DEF time, memory, disk, locks, retries
<1>2. CASE TakeVersionLock(c) \/ TakeIndexLock(c)
  <2>1. UNCHANGED <<time, memory, disk, retries, syncing, faults, lastMiss, lastFail>>
    BY <1>2 DEF TakeVersionLock, TakeIndexLock
  <2>2. /\ indexHolder' \in [Providers -> Callers \cup {Nobody}]
        /\ versionHolder' \in [Keys -> Callers \cup {Nobody}]
    BY <1>1, <1>2, LockTypes DEF TakeVersionLock, TakeIndexLock, DataTypes
  <2> QED  BY <1>1, <2>1, <2>2, FaultCount DEF DataTypes
<1>3. CASE LoadVersion(c)
  <2>1. /\ UNCHANGED <<time, indices, disk, retries, syncing, faults, lastMiss, lastFail>>
        /\ indexHolder' \in [Providers -> Callers \cup {Nobody}]
        /\ versionHolder' \in [Keys -> Callers \cup {Nobody}]
    BY <1>1, <1>3, LockTypes DEF LoadVersion, DataTypes
  <2>2. versions' \in [Keys -> VersionEntry \cup {None}]
    BY <1>1, <1>3, OnHandVersion DEF LoadVersion, DataTypes
  <2> QED  BY <1>1, <2>1, <2>2, FaultCount DEF DataTypes
<1>4. CASE VersionUnreadable(c) \/ IndexUnreadable(c)
  <2>1. /\ UNCHANGED <<time, memory, disk, retries, syncing, lastMiss, lastFail>> /\ Fault
        /\ indexHolder' \in [Providers -> Callers \cup {Nobody}]
        /\ versionHolder' \in [Keys -> Callers \cup {Nobody}]
    BY <1>1, <1>4, LockTypes DEF VersionUnreadable, IndexUnreadable, DataTypes
  <2> QED  BY <1>1, <2>1, FaultCount DEF DataTypes
<1>5. CASE LoadIndex(c)
  <2>1. /\ UNCHANGED <<time, versions, disk, retries, syncing, faults, lastMiss, lastFail>>
        /\ indexHolder' \in [Providers -> Callers \cup {Nobody}]
        /\ versionHolder' \in [Keys -> Callers \cup {Nobody}]
    BY <1>1, <1>5, LockTypes DEF LoadIndex, DataTypes
  <2>2. indices' \in [Providers -> IndexEntry \cup {None}]
    BY <1>1, <1>5, OnHandIndex DEF LoadIndex, DataTypes
  <2> QED  BY <1>1, <2>1, <2>2, FaultCount DEF DataTypes
<1>6. CASE WriteIndex(c)
  <2>1. call[c].entry \in IndexEntry
    BY <1>1, <1>6 DEF WriteIndex, CallInv, Writing
  <2>2. PICK content \in Contents(c) :
          /\ Fault \/ UNCHANGED faults
          /\ indexFile' = [indexFile EXCEPT ![Prov(c)] = content] /\ CutShort(Prov(c), content)
    BY <1>6 DEF WriteIndex
  <2>3. UNCHANGED <<time, memory, versionFile, late, locks, retries, syncing, lastMiss, lastFail>>
    BY <1>6 DEF WriteIndex
  <2>4. indexFile' \in [Providers -> IndexEntry \cup {None, Junk}] /\ cutShort' \subseteq Providers
    BY <1>1, <2>1, <2>2 DEF DataTypes, Contents, CutShort
  <2> QED  BY <1>1, <2>2, <2>3, <2>4, FaultCount DEF DataTypes
<1>7. CASE StoreIndex(c)
  <2>1. call[c].entry \in IndexEntry
    BY <1>1, <1>7 DEF StoreIndex, CallInv, Writing
  <2>2. /\ UNCHANGED <<time, versions, disk, versionHolder, versionRetry, missRetry, syncing, faults,
                       lastMiss>>
        /\ indexHolder' \in [Providers -> Callers \cup {Nobody}]
    BY <1>1, <1>7, LockTypes DEF StoreIndex
  <2>3. /\ indices' \in [Providers -> IndexEntry \cup {None}]
        /\ indexRetry' \in [Providers -> RetryTimes]
        /\ lastFail' \in [Providers \cup Keys -> Times \cup {None}]
    BY <1>1, <1>7, <2>1, NumberTypes DEF StoreIndex, DataTypes, Cleared
  <2> QED  BY <1>1, <2>2, <2>3, FaultCount DEF DataTypes
<1>8. ASSUME NEW error \in Errors, FailIndex(c, error) PROVE DataTypes'
  <2>1. /\ UNCHANGED <<time, memory, disk, versionHolder, versionRetry, missRetry, syncing,
                       lastMiss>>
        /\ indexHolder' \in [Providers -> Callers \cup {Nobody}] /\ Fault
    BY <1>1, <1>8, LockTypes DEF FailIndex
  <2>2. indexRetry \in [Providers -> RetryTimes] /\ indexRetry' \in Noted(indexRetry, Prov(c), error)
    BY <1>1, <1>8 DEF FailIndex, DataTypes
  <2>3. indexRetry' \in [Providers -> RetryTimes]
    BY <1>1, <2>2, KeySets, NotedType
  <2>4. lastFail' \in [Providers \cup Keys -> Times \cup {None}]
    BY <1>1, <1>8 DEF FailIndex, DataTypes
  <2> QED  BY <1>1, <2>1, <2>3, <2>4, FaultCount DEF DataTypes
<1>9. CASE Missed(c)
  <2>1. /\ UNCHANGED <<time, memory, disk, versionHolder, indexRetry, versionRetry, syncing, faults,
                       lastFail>>
        /\ indexHolder' \in [Providers -> Callers \cup {Nobody}]
    BY <1>1, <1>9, LockTypes DEF Missed, DataTypes
  <2>2. missRetry \in [Providers -> RetryTimes] /\ lastMiss \in [Providers -> Times \cup {None}]
    BY <1>1 DEF DataTypes
  <2>3. \/ UNCHANGED <<missRetry, lastMiss>>
        \/ missRetry' \in Recorded(missRetry, Prov(c)) /\ lastMiss' = [lastMiss EXCEPT ![Prov(c)] = now]
    BY <1>9 DEF Missed
  <2>4. missRetry' \in [Providers -> RetryTimes]
    BY <1>1, <2>2, <2>3, KeySets, RecordedFacts
  <2>5. lastMiss' \in [Providers -> Times \cup {None}]
    BY <1>1, <2>2, <2>3
  <2> QED  BY <1>1, <2>1, <2>4, <2>5, FaultCount DEF DataTypes
<1>10. CASE WriteVersion(c)
  <2>1. call[c].entry \in VersionEntry
    BY <1>1, <1>10 DEF WriteVersion, CallInv, Merging
  <2>2. PICK content \in Contents(c) :
          /\ Fault \/ UNCHANGED faults
          /\ versionFile' = [versionFile EXCEPT ![Key(c)] = content]
    BY <1>10 DEF WriteVersion
  <2>3. UNCHANGED <<time, memory, indexFile, late, cutShort, locks, retries, syncing, lastMiss,
                    lastFail>>
    BY <1>10 DEF WriteVersion
  <2>4. versionFile' \in [Keys -> VersionEntry \cup {None, Junk}]
    BY <1>1, <2>1, <2>2 DEF DataTypes, Contents
  <2> QED  BY <1>1, <2>2, <2>3, <2>4, FaultCount DEF DataTypes
<1>11. CASE StoreVersion(c)
  <2>1. call[c].entry \in VersionEntry
    BY <1>1, <1>11 DEF StoreVersion, CallInv, Merging
  <2>2. /\ UNCHANGED <<time, indices, disk, indexHolder, indexRetry, missRetry, syncing, faults,
                       lastMiss, lastFail>>
        /\ versionHolder' \in [Keys -> Callers \cup {Nobody}]
    BY <1>1, <1>11, LockTypes DEF StoreVersion
  <2>3. /\ versions' \in [Keys -> VersionEntry \cup {None}]
        /\ versionRetry' \in [Keys -> RetryTimes]
    BY <1>1, <1>11, <2>1, NumberTypes DEF StoreVersion, DataTypes, Cleared
  <2> QED  BY <1>1, <2>2, <2>3, FaultCount DEF DataTypes
<1>12. CASE FailVersion(c)
  <2>1. /\ UNCHANGED <<time, memory, disk, indexHolder, indexRetry, missRetry, syncing, faults,
                       lastMiss>>
        /\ versionHolder' \in [Keys -> Callers \cup {Nobody}]
    BY <1>1, <1>12, LockTypes DEF FailVersion
  <2>2. /\ versionRetry \in [Keys -> RetryTimes]
        /\ versionRetry' \in Noted(versionRetry, Key(c), call[c].result)
    BY <1>1, <1>12 DEF FailVersion, DataTypes
  <2>3. versionRetry' \in [Keys -> RetryTimes]
    BY <1>1, <2>2, KeySets, NotedType
  <2>4. lastFail' \in [Providers \cup Keys -> Times \cup {None}]
    BY <1>1, <1>12 DEF FailVersion, DataTypes
  <2> QED  BY <1>1, <2>1, <2>3, <2>4, FaultCount DEF DataTypes
<1> QED  BY <1>2, <1>3, <1>4, <1>5, <1>6, <1>7, <1>8, <1>9, <1>10, <1>11, <1>12 DEF DataStep

LEMMA OtherStepTypes ==
  ASSUME TypeOK, CallsInv,
         \/ \E c \in Callers : Disconnect(c)
         \/ \E x \in late : LateRename(x[1], x[2])
         \/ Restart \/ Tick \/ \E k \in Keys : Publish(k)
  PROVE  DataTypes'
<1>1. CallTypes /\ DataTypes /\ now \in Times
  BY TypesSplit DEF DataTypes
<1> USE DEF time, memory, disk, locks, retries
<1>2. ASSUME NEW c \in Callers, Disconnect(c) PROVE DataTypes'
  <2>1. /\ UNCHANGED <<time, memory, indexFile, versionFile, cutShort, retries, restarts, lastMiss,
                       lastFail>>
        /\ indexHolder' \in [Providers -> Callers \cup {Nobody}]
        /\ versionHolder' \in [Keys -> Callers \cup {Nobody}]
    BY <1>1, <1>2 DEF Disconnect, DataTypes
  <2>2. disconnects' \in 0..MaxDisconnects
    <3>1. disconnects \in 0..MaxDisconnects /\ MaxDisconnects \in Nat
      BY <1>1, NumberTypes DEF DataTypes
    <3> QED  BY <1>2, <3>1 DEF Disconnect
  <2>3. syncing' \in BOOLEAN
    BY <1>2 DEF Disconnect, Reset
  <2>4. Prov(c) \in Providers /\ Key(c) \in Keys /\ CallInv(c)
    BY <1>1, CallFields DEF CallsInv
  <2>5. failed' \in 0..MaxFaults
    <3>1. failed \in 0..MaxFaults /\ MaxFaults \in Nat
      BY <1>1, NumberTypes DEF DataTypes
    <3>2. UNCHANGED failed \/ (failed < MaxFaults /\ failed' = failed + 1)
      BY <1>2 DEF Disconnect
    <3> QED  BY <3>1, <3>2
  <2>6. /\ late' \subseteq Renames
        /\ abandoned' \subseteq Providers
    <3>1. CASE UNCHANGED <<late, abandoned>>
      BY <1>1, <3>1 DEF DataTypes
    <3>2. ASSUME NEW content \in Contents(c), pc[c] = "writeindex",
                 late' = late \cup {<<Prov(c), content>>}, abandoned' = abandoned \cup {Prov(c)}
          PROVE  late' \subseteq Renames /\ abandoned' \subseteq Providers
      <4>1. content \in IndexEntry \cup {Junk}
        BY <2>4, <3>2 DEF CallInv, Writing, Contents
      <4> QED  BY <1>1, <2>4, <3>2, <4>1 DEF DataTypes, Renames
    <3>3. ASSUME NEW content \in Contents(c), pc[c] = "writeversion",
                 late' = late \cup {<<Key(c), content>>}, UNCHANGED abandoned
          PROVE  late' \subseteq Renames /\ abandoned' \subseteq Providers
      <4>1. content \in VersionEntry \cup {Junk}
        BY <2>4, <3>3 DEF CallInv, Merging, Contents
      <4> QED  BY <1>1, <2>4, <3>3, <4>1 DEF DataTypes, Renames
    <3> QED  BY <1>2, <3>1, <3>2, <3>3 DEF Disconnect
  <2> QED  BY <1>1, <2>1, <2>2, <2>3, <2>5, <2>6 DEF DataTypes
<1>3. ASSUME NEW x \in late, LateRename(x[1], x[2]) PROVE DataTypes'
  <2>1. /\ UNCHANGED <<time, memory, locks, retries, syncing, faults, lastMiss, lastFail>>
        /\ late' \subseteq late
    BY <1>3 DEF LateRename
  <2>2. /\ x[1] \in Providers => x[2] \in IndexEntry \cup {Junk}
        /\ x[1] \in Keys => x[2] \in VersionEntry \cup {Junk}
    BY <1>1, KeySets DEF DataTypes, Renames
  <2>3. /\ indexFile' \in [Providers -> IndexEntry \cup {None, Junk}]
        /\ versionFile' \in [Keys -> VersionEntry \cup {None, Junk}]
    BY <1>1, <1>3, <2>2 DEF LateRename, DataTypes
  <2>4. cutShort' \subseteq Providers
    BY <1>1, <1>3 DEF LateRename, CutShort, DataTypes
  <2> QED  BY <1>1, <2>1, <2>3, <2>4, FaultCount DEF DataTypes
<1>4. CASE Restart
  <2>1. restarts' \in 0..MaxRestarts
    <3>1. restarts \in 0..MaxRestarts /\ MaxRestarts \in Nat
      BY <1>1, NumberTypes DEF DataTypes
    <3> QED  BY <1>4, <3>1 DEF Restart
  <2>2. indices' \in [Providers -> IndexEntry \cup {None}]
    BY <1>1, <1>4 DEF Restart, DataTypes, Read
  <2>3. /\ UNCHANGED <<time, indexFile, versionFile, cutShort, failed, disconnects, abandoned>>
        /\ versions' \in [Keys -> VersionEntry \cup {None}] /\ late' = {}
        /\ indexHolder' \in [Providers -> Callers \cup {Nobody}]
        /\ versionHolder' \in [Keys -> Callers \cup {Nobody}]
        /\ syncing' \in BOOLEAN
    BY <1>4 DEF Restart
  <2>4. /\ indexRetry' \in [Providers -> RetryTimes] /\ missRetry' \in [Providers -> RetryTimes]
        /\ versionRetry' \in [Keys -> RetryTimes]
        /\ lastMiss' \in [Providers -> Times \cup {None}]
        /\ lastFail' \in [Providers \cup Keys -> Times \cup {None}]
    BY <1>4, NumberTypes DEF Restart
  <2> QED  BY <1>1, <2>1, <2>2, <2>3, <2>4 DEF DataTypes
<1>5. CASE Tick
  <2>1. now' \in Times
    BY <1>1, <1>5, NumberTypes DEF Tick, Times
  <2> QED  BY <1>1, <1>5, <2>1, FaultCount DEF DataTypes, Tick
<1>6. ASSUME NEW k \in Keys, Publish(k) PROVE DataTypes'
  <2>1. pubAt' \in [Keys -> Times \cup {None}]
    BY <1>1, <1>6 DEF DataTypes, Publish
  <2> QED  BY <1>1, <1>6, <2>1, FaultCount DEF DataTypes, Publish
<1> QED  BY <1>2, <1>3, <1>4, <1>5, <1>6

(* The steps of the specification, by what they change. *)
LEMMA NextSplit ==
  ASSUME Next
  PROVE  \/ \E c \in Callers : StillStep(c) \/ DataStep(c) \/ Disconnect(c)
         \/ \E x \in late : LateRename(x[1], x[2])
         \/ Restart \/ Tick \/ \E k \in Keys : Publish(k)
  BY DEF Next, Step, StillStep, DataStep

LEMMA StillStepCalls ==
  ASSUME TypeOK, CallsInv, NEW c \in Callers, StillStep(c)
  PROVE  KeepsRoutes /\ Others(c)
<1>1. CallTypes
  BY TypeFacts
<1>2. CASE \/ \E p \in Providers : List(c, p)
           \/ \E k \in Keys : GetVersion(c, k)
           \/ Refuse(c) \/ Sync(c) \/ NextProvider(c)
  BY <1>1, <1>2, BeginCalls DEF Begins
<1>3. CASE LookVersion(c) \/ LookIndex(c)
  BY <1>3, VersionShapes, LookIndexShape DEF Ends, Continues
<1>4. CASE \E value \in Index : FetchIndex(c, value)
  BY <1>4, FetchIndexShape DEF Continues
<1>5. CASE FindVersion(c)
  BY <1>5, FindVersionShape DEF Continues
<1>6. CASE \E good \in SUBSET Platforms, error \in Errors :
             FetchPackages(c, good, error)
  BY <1>6, FetchPackagesShape DEF Continues
<1>7. CASE VersionNotWritten(c) \/ Reply(c)
  BY <1>7, VersionNotWrittenShape, EndShapes DEF Ends, Continues
<1> QED  BY <1>2, <1>3, <1>4, <1>5, <1>6, <1>7 DEF StillStep

LEMMA DataStepCalls ==
  ASSUME TypeOK, CallsInv, NEW c \in Callers, DataStep(c) \/ Disconnect(c)
  PROVE  KeepsRoutes /\ Others(c)
<1>1. CASE TakeVersionLock(c) \/ LoadVersion(c) \/ VersionUnreadable(c)
  BY <1>1, VersionShapes DEF Ends, Continues
<1>2. CASE TakeIndexLock(c)
  BY <1>2, TakeIndexLockShape DEF Continues
<1>3. CASE LoadIndex(c) \/ IndexUnreadable(c)
  BY <1>3, LoadIndexShape, IndexUnreadableShape DEF Ends, Continues
<1>4. CASE WriteIndex(c) \/ StoreIndex(c)
  BY <1>4, WriteIndexShape, StoreIndexShape DEF Ends, Continues
<1>5. CASE \E error \in Errors : FailIndex(c, error)
  BY <1>5, FailIndexShape DEF Ends, Continues
<1>6. CASE Missed(c) \/ WriteVersion(c)
  BY <1>6, MissedShape, WriteVersionShape DEF Continues
<1>7. CASE StoreVersion(c) \/ FailVersion(c) \/ Disconnect(c)
  BY <1>7, EndShapes DEF Ends
<1> QED  BY <1>1, <1>2, <1>3, <1>4, <1>5, <1>6, <1>7 DEF DataStep

LEMMA RestartCalls ==
  ASSUME Restart
  PROVE  KeepsRoutes
<1>1. CallTypes'
  BY NoCallType DEF Restart, CallTypes, Stages
<1>2. \A c \in Callers : pc'[c] = "idle" /\ call'[c] = NoCall
  BY DEF Restart
<1>3. \A c \in Callers : CallInv(c)'
  BY <1>2, NoCallType, EndedInv DEF EndsCall
<1> QED  BY <1>1, <1>3 DEF KeepsRoutes, CallsInv

(* TypeOK and CallsInv are inductive together. *)
LEMMA TypesStep ==
  ASSUME TypeOK, CallsInv, [Next]_vars
  PROVE  TypeOK' /\ CallsInv'
<1>1. CallTypes /\ DataTypes
  BY TypesSplit
<1>2. CASE Next
  <2>1. ASSUME NEW c \in Callers, StillStep(c) PROVE CallTypes' /\ DataTypes' /\ CallsInv'
    BY <1>1, <2>1, StillSteps, StillTypes, StillStepCalls DEF KeepsRoutes
  <2>2. ASSUME NEW c \in Callers, DataStep(c) PROVE CallTypes' /\ DataTypes' /\ CallsInv'
    BY <2>2, DataStepTypes, DataStepCalls DEF KeepsRoutes
  <2>3. ASSUME NEW c \in Callers, Disconnect(c) PROVE CallTypes' /\ DataTypes' /\ CallsInv'
    BY <2>3, OtherStepTypes, DataStepCalls DEF KeepsRoutes
  <2>4. CASE Restart
    BY <2>4, OtherStepTypes, RestartCalls, TypesJoin DEF KeepsRoutes
  <2>5. CASE \E x \in late : LateRename(x[1], x[2])
    <3>1. UNCHANGED <<pc, call>>
      BY <2>5 DEF LateRename
    <3> QED  BY <1>1, <2>5, <3>1, OtherStepTypes, TypesJoin DEF CallTypes, CallsInv, CallInv
  <2>6. CASE Tick \/ \E k \in Keys : Publish(k)
    <3>1. UNCHANGED <<pc, call>>
      BY <2>6 DEF Tick, Publish
    <3> QED  BY <1>1, <2>6, <3>1, OtherStepTypes, TypesJoin DEF CallTypes, CallsInv, CallInv
  <2> QED  BY <1>2, <2>1, <2>2, <2>3, <2>4, <2>5, <2>6, NextSplit, TypesJoin
<1>3. CASE UNCHANGED vars
  <2>1. UNCHANGED <<pc, call>>
    BY <1>3 DEF vars
  <2>2. DataTypes'
    BY <1>1, <1>3 DEF vars, time, memory, disk, locks, retries, faults, DataTypes
  <2> QED  BY <1>1, <2>1, <2>2, TypesJoin DEF CallTypes, CallsInv, CallInv
<1> QED  BY <1>2, <1>3

LEMMA TypesInit ==
  ASSUME Init
  PROVE  TypeOK /\ CallsInv
<1>1. CallTypes /\ CallsInv
  <2>1. \A c \in Callers : pc[c] = "idle" /\ call[c] = NoCall
    BY DEF Init
  <2>2. CallTypes
    BY NoCallType DEF Init, CallTypes, Stages
  <2> QED  BY <2>1, <2>2, NoCallType DEF CallsInv, CallInv, OnRoute, Writing, Merging
<1>2. DataTypes
  <2>1. now \in Times /\ pubAt \in [Keys -> Times \cup {None}]
    BY NumberTypes DEF Init
  <2>2. /\ indexFile \in [Providers -> IndexEntry \cup {None, Junk}]
        /\ versionFile \in [Keys -> VersionEntry \cup {None, Junk}]
    <3>1. [at : {0}, complete : {TRUE}, list : Index] \subseteq IndexEntry
      BY NumberTypes DEF IndexEntry
    <3>2. [at : {0}, complete : BOOLEAN, platforms : SUBSET Platforms] \subseteq VersionEntry
      BY NumberTypes DEF VersionEntry
    <3>3. /\ indexFile \in [Providers -> [at : {0}, complete : {TRUE}, list : Index] \cup {None, Junk}]
          /\ versionFile \in [Keys -> [at : {0}, complete : BOOLEAN, platforms : SUBSET Platforms]
                                      \cup {None, Junk}]
      BY DEF Init
    <3> QED  BY <3>1, <3>2, <3>3
  <2>3. /\ indices \in [Providers -> IndexEntry \cup {None}]
        /\ versions \in [Keys -> VersionEntry \cup {None}]
    BY <2>2 DEF Init, Read
  <2>4. /\ indexHolder \in [Providers -> Callers \cup {Nobody}]
        /\ versionHolder \in [Keys -> Callers \cup {Nobody}] /\ late = {}
    BY DEF Init, ILock!Init, VLock!Init
  <2>5. /\ indexRetry \in [Providers -> RetryTimes] /\ missRetry \in [Providers -> RetryTimes]
        /\ versionRetry \in [Keys -> RetryTimes] /\ syncing \in BOOLEAN
        /\ lastMiss \in [Providers -> Times \cup {None}]
        /\ lastFail \in [Providers \cup Keys -> Times \cup {None}] /\ abandoned = {} /\ cutShort = {}
    BY NumberTypes DEF Init
  <2>6. failed \in 0..MaxFaults /\ disconnects \in 0..MaxDisconnects /\ restarts \in 0..MaxRestarts
    BY NumberTypes DEF Init
  <2> QED  BY <2>1, <2>2, <2>3, <2>4, <2>5, <2>6 DEF DataTypes
<1> QED  BY <1>1, <1>2, TypesSplit

-----------------------------------------------------------------------------
(* What a step of a call may do to the lock of its version, and to that of  *)
(* its index.                                                               *)
VersionLockKept(c) ==
  /\ UNCHANGED versionHolder /\ (HoldsVersion(c)' <=> HoldsVersion(c))
  /\ HoldsVersion(c) => Key(c)' = Key(c)
VersionLockTaken(c) ==
  VLock!Acquire(Key(c), c) /\ ~HoldsVersion(c) /\ HoldsVersion(c)' /\ Key(c)' = Key(c)
VersionLockDropped(c) == VLock!Release(Key(c), c) /\ ~HoldsVersion(c)'
IndexLockKept(c) ==
  /\ UNCHANGED indexHolder
  /\ pc'[c] \in WithIndexLock => pc[c] \in WithIndexLock /\ Prov(c)' = Prov(c)
IndexLockTaken(c) == ILock!Acquire(Prov(c), c) /\ Prov(c)' = Prov(c)
IndexLockDropped(c) == ILock!Release(Prov(c), c) /\ pc'[c] \notin WithIndexLock

LEMMA LocksKept ==
  ASSUME TypeOK, LockInv, NEW c \in Callers, Others(c),
         VersionLockKept(c) \/ VersionLockTaken(c) \/ VersionLockDropped(c),
         IndexLockKept(c) \/ IndexLockTaken(c) \/ IndexLockDropped(c)
  PROVE  LockInv'
<1>1. /\ CallTypes /\ indexHolder \in [Providers -> Callers \cup {Nobody}]
      /\ versionHolder \in [Keys -> Callers \cup {Nobody}] /\ Nobody \notin Callers
  BY TypesSplit, MetadataConstants DEF DataTypes
<1>2. \A d \in Callers : Prov(d) \in Providers /\ Key(d) \in Keys
  BY <1>1, CallFields
<1>3. \A d \in Callers \ {c} : /\ Prov(d)' = Prov(d) /\ Key(d)' = Key(d) /\ pc'[d] = pc[d]
                               /\ HoldsVersion(d)' = HoldsVersion(d)
  BY DEF Others, Prov, Key, HoldsVersion
<1>4. /\ \A d \in Callers : pc[d] \in WithIndexLock => indexHolder[Prov(d)] = d
      /\ \A d \in Callers : HoldsVersion(d) => versionHolder[Key(d)] = d
      /\ \A d \in Callers, k \in Keys : versionHolder[k] = d => HoldsVersion(d) /\ Key(d) = k
  BY DEF LockInv
<1>5. ASSUME NEW d \in Callers PROVE pc'[d] \in WithIndexLock => indexHolder'[Prov(d)'] = d
  <2>1. CASE IndexLockKept(c)
    BY <1>2, <1>3, <1>4, <2>1 DEF IndexLockKept
  <2>2. CASE IndexLockTaken(c)
    BY <1>1, <1>2, <1>3, <1>4, <2>2 DEF IndexLockTaken, ILock!Acquire
  <2>3. CASE IndexLockDropped(c)
    BY <1>1, <1>2, <1>3, <1>4, <2>3 DEF IndexLockDropped, ILock!Release
  <2> QED  BY <2>1, <2>2, <2>3
<1>6. ASSUME NEW d \in Callers
      PROVE  /\ HoldsVersion(d)' => versionHolder'[Key(d)'] = d
             /\ \A k \in Keys : versionHolder'[k] = d => HoldsVersion(d)' /\ Key(d)' = k
  <2>1. CASE VersionLockKept(c)
    BY <1>2, <1>3, <1>4, <2>1 DEF VersionLockKept
  <2>2. CASE VersionLockTaken(c)
    BY <1>1, <1>2, <1>3, <1>4, <2>2 DEF VersionLockTaken, VLock!Acquire
  <2>3. CASE VersionLockDropped(c)
    BY <1>1, <1>2, <1>3, <1>4, <2>3 DEF VersionLockDropped, VLock!Release
  <2> QED  BY <2>1, <2>2, <2>3
<1> QED  BY <1>5, <1>6 DEF LockInv

(* A call that goes on keeps the lock of its version. *)
LEMMA ContinuesHolding ==
  ASSUME CallsInv, NEW c \in Callers, NEW S, Continues(c, S), S \cap {"version", "versionlock"} = {},
         pc[c] \notin {"version", "versionlock"}
  PROVE  HoldsVersion(c)' = HoldsVersion(c) /\ Key(c)' = Key(c) /\ Prov(c)' = Prov(c)
  BY DEF Continues, SameAddress, HoldsVersion

LEMMA EndsFree ==
  ASSUME NEW c \in Callers, Ends(c)
  PROVE  ~HoldsVersion(c)' /\ pc'[c] \notin WithIndexLock
  BY DEF Ends, EndsCall, HoldsVersion, WithIndexLock, Refreshing

(* The steps that leave the locks alone. *)
LEMMA StillStepLocks ==
  ASSUME TypeOK, CallsInv, LockInv, NEW c \in Callers, StillStep(c)
  PROVE  LockInv'
<1>1. CallTypes /\ CallInv(c) /\ UNCHANGED <<indexHolder, versionHolder>> /\ Others(c)
  BY TypesSplit, StillSteps, StillStepCalls DEF CallsInv, Still, locks
<1>2. CASE VersionLockKept(c) /\ IndexLockKept(c)
  BY <1>1, <1>2, LocksKept
<1>3. CASE \/ \E p \in Providers : List(c, p)
           \/ \E k \in Keys : GetVersion(c, k)
           \/ Refuse(c) \/ Sync(c) \/ NextProvider(c)
  <2>1. pc[c] \in {"idle", "nextprovider"}
    BY <1>3 DEF List, GetVersion, Refuse, Sync, NextProvider
  <2>2. ~HoldsVersion(c)
    BY <1>1, <2>1 DEF HoldsVersion, CallInv, OnRoute, Refreshing, Merging
  <2>3. ~HoldsVersion(c)' /\ pc'[c] \notin WithIndexLock
    BY <1>1, <1>3, BeginCalls DEF Begins, HoldsVersion, WithIndexLock, Refreshing
  <2> QED  BY <1>1, <1>2, <2>2, <2>3 DEF VersionLockKept, IndexLockKept
<1>4. CASE LookVersion(c)
  <2>1. ~HoldsVersion(c)
    BY <1>4 DEF LookVersion, HoldsVersion
  <2>2. Ends(c) \/ Continues(c, {"versionlock"})
    BY <1>4, VersionShapes
  <2>3. ~HoldsVersion(c)' /\ pc'[c] \notin WithIndexLock
    BY <2>2, EndsFree DEF Continues, HoldsVersion, WithIndexLock, Refreshing
  <2> QED  BY <1>1, <1>2, <2>1, <2>3 DEF VersionLockKept, IndexLockKept
<1>5. CASE LookIndex(c)
  <2>1. CASE Ends(c) /\ call[c].op = "list"
    BY <1>1, <1>2, <2>1, EndsFree DEF VersionLockKept, IndexLockKept, HoldsVersion
  <2>2. CASE Continues(c, {"find", "indexlock"})
    <3>1. pc'[c] \notin WithIndexLock
      BY <2>2 DEF Continues, WithIndexLock, Refreshing
    <3> QED  BY <1>1, <1>2, <1>5, <2>2, <3>1, ContinuesHolding
             DEF VersionLockKept, IndexLockKept, LookIndex
  <2> QED  BY <1>5, <2>1, <2>2, LookIndexShape
<1>6. ASSUME NEW value \in Index, FetchIndex(c, value) PROVE LockInv'
  <2>1. pc[c] = "fetchindex" /\ pc[c] \in WithIndexLock /\ Continues(c, {"writeindex"})
    BY <1>6, FetchIndexShape DEF FetchIndex, WithIndexLock, Refreshing
  <2> QED  BY <1>1, <1>2, <2>1, ContinuesHolding DEF VersionLockKept, IndexLockKept
<1>7. CASE \/ FindVersion(c) \/ VersionNotWritten(c)
           \/ \E good \in SUBSET Platforms, error \in Errors :
                FetchPackages(c, good, error)
  <2>1. pc[c] \in {"find", "packages", "writeversion", "syncversion"}
    BY <1>7 DEF FindVersion, VersionNotWritten, FetchPackages
  <2>2. Continues(c, {"indexlock", "packages", "versionfailed", "writeversion"})
    BY <1>7, FindVersionShape, VersionNotWrittenShape, FetchPackagesShape DEF Continues
  <2>3. pc'[c] \notin WithIndexLock
    BY <2>2 DEF Continues, WithIndexLock, Refreshing
  <2> QED  BY <1>1, <1>2, <2>1, <2>2, <2>3, ContinuesHolding DEF VersionLockKept, IndexLockKept
<1>8. CASE Reply(c)
  <2>1. ~HoldsVersion(c)
    BY <1>1, <1>8 DEF Reply, HoldsVersion, CallInv, OnRoute, Refreshing, Merging
  <2> QED  BY <1>1, <1>2, <1>8, <2>1, EndShapes, EndsFree DEF VersionLockKept, IndexLockKept
<1> QED  BY <1>3, <1>4, <1>5, <1>6, <1>7, <1>8 DEF StillStep

LEMMA DataStepLocks ==
  ASSUME TypeOK, CallsInv, LockInv, NEW c \in Callers, DataStep(c)
  PROVE  LockInv'
<1>1. CallTypes /\ CallInv(c) /\ Others(c)
  BY TypesSplit, DataStepCalls DEF CallsInv
<1>2. CASE /\ VersionLockKept(c) \/ VersionLockTaken(c) \/ VersionLockDropped(c)
           /\ IndexLockKept(c) \/ IndexLockTaken(c) \/ IndexLockDropped(c)
  BY <1>1, <1>2, LocksKept
<1>3. CASE TakeVersionLock(c)
  <2>1. call[c].op = "version" /\ pc[c] = "versionlock"
    BY <1>1, <1>3 DEF TakeVersionLock, CallInv, OnRoute, Refreshing, Merging
  <2>2. Continues(c, {"loadversion"})
    BY <1>3, VersionShapes
  <2>3. VersionLockTaken(c)
    BY <1>3, <2>1, <2>2
       DEF VersionLockTaken, TakeVersionLock, Continues, SameAddress, HoldsVersion
  <2>4. IndexLockKept(c)
    BY <1>3, <2>2 DEF IndexLockKept, TakeVersionLock, Continues, WithIndexLock, Refreshing
  <2> QED  BY <1>2, <2>3, <2>4
<1>4. CASE LoadVersion(c)
  <2>1. CASE Ends(c)
    <3>1. VLock!Release(Key(c), c) /\ UNCHANGED indexHolder
      BY <1>4, <2>1 DEF LoadVersion, Proceed, Goto, Ends, CallTypes, TypeOK
    <3> QED  BY <1>2, <2>1, <3>1, EndsFree DEF VersionLockDropped, IndexLockKept
  <2>2. CASE Continues(c, {"index"})
    <3>1. UNCHANGED <<indexHolder, versionHolder>> /\ pc[c] = "loadversion"
      BY <1>4, <2>2 DEF LoadVersion, Return, Goto, Continues, TypeOK
    <3>2. pc'[c] \notin WithIndexLock
      BY <2>2 DEF Continues, WithIndexLock, Refreshing
    <3> QED  BY <1>2, <2>2, <3>1, <3>2, ContinuesHolding DEF VersionLockKept, IndexLockKept
  <2> QED  BY <1>4, <2>1, <2>2, VersionShapes
<1>5. CASE VersionUnreadable(c) \/ StoreVersion(c) \/ FailVersion(c)
  <2>1. Ends(c)
    BY <1>5, VersionShapes, EndShapes
  <2>2. VLock!Release(Key(c), c) /\ UNCHANGED indexHolder
    BY <1>5 DEF VersionUnreadable, StoreVersion, FailVersion
  <2> QED  BY <1>2, <2>1, <2>2, EndsFree DEF VersionLockDropped, IndexLockKept
<1>6. CASE TakeIndexLock(c)
  <2>1. Continues(c, {"loadindex", "missed", "fetchindex"}) /\ pc[c] = "indexlock"
    BY <1>6, TakeIndexLockShape DEF Continues, TakeIndexLock
  <2>2. IndexLockTaken(c) /\ UNCHANGED versionHolder
    BY <1>6, <2>1, ContinuesHolding DEF IndexLockTaken, TakeIndexLock
  <2> QED  BY <1>2, <2>1, <2>2, ContinuesHolding DEF VersionLockKept
<1>7. CASE /\ ILock!Release(Prov(c), c) /\ UNCHANGED versionHolder
           /\ pc[c] \in {"loadindex", "missed"} \cup Refreshing
           /\ \/ Ends(c) /\ call[c].op = "list"
              \/ Continues(c, {"find", "packages", "versionfailed", "nextprovider"})
  <2>1. pc'[c] \notin WithIndexLock
    BY <1>7 DEF Ends, Continues, WithIndexLock, Refreshing
  <2>2. CASE Ends(c) /\ call[c].op = "list"
    BY <1>2, <1>7, <2>1, <2>2, EndsFree DEF VersionLockKept, HoldsVersion, IndexLockDropped
  <2>3. CASE Continues(c, {"find", "packages", "versionfailed", "nextprovider"})
    BY <1>2, <1>7, <2>1, <2>3, ContinuesHolding DEF VersionLockKept, IndexLockDropped, Refreshing
  <2> QED  BY <1>7, <2>2, <2>3
<1>8. CASE /\ UNCHANGED <<versionHolder, indexHolder>> /\ pc[c] \in WithIndexLock
           /\ Continues(c, {"fetchindex", "syncindex"})
  BY <1>2, <1>8, ContinuesHolding DEF VersionLockKept, IndexLockKept, WithIndexLock, Refreshing
<1>9. CASE LoadIndex(c)
  <2>1. pc[c] = "loadindex" /\ UNCHANGED versionHolder /\ pc[c] \in WithIndexLock
    BY <1>9 DEF LoadIndex, WithIndexLock
  <2>2. CASE Proceed(c, "fetchindex") /\ UNCHANGED indexHolder
    <3>1. pc'[c] = "fetchindex"
      BY <2>2 DEF Proceed, Goto, TypeOK
    <3>2. Continues(c, {"fetchindex", "syncindex"})
      BY <1>9, <3>1, LoadIndexShape DEF Continues, Ends
    <3> QED  BY <1>8, <2>1, <2>2, <3>2
  <2>3. CASE ~(Proceed(c, "fetchindex") /\ UNCHANGED indexHolder)
    <3>1. ILock!Release(Prov(c), c) /\ pc'[c] # "fetchindex"
      BY <1>9, <2>3 DEF LoadIndex, HaveIndex, IndexError, Return, Abandon, Goto, TypeOK
    <3>2. \/ Ends(c) /\ call[c].op = "list"
          \/ Continues(c, {"find", "packages", "versionfailed", "nextprovider"})
      BY <1>9, <3>1, LoadIndexShape DEF Continues
    <3> QED  BY <1>7, <2>1, <3>1, <3>2
  <2> QED  BY <2>2, <2>3
<1>10. CASE IndexUnreadable(c) \/ StoreIndex(c) \/ \E error \in Errors : FailIndex(c, error)
  <2>1. /\ ILock!Release(Prov(c), c) /\ UNCHANGED versionHolder
        /\ pc[c] \in {"loadindex", "missed"} \cup Refreshing
    BY <1>10 DEF IndexUnreadable, StoreIndex, FailIndex, Refreshing
  <2>2. \/ Ends(c) /\ call[c].op = "list"
        \/ Continues(c, {"find", "packages", "versionfailed", "nextprovider"})
    BY <1>10, IndexUnreadableShape, StoreIndexShape, FailIndexShape DEF Continues
  <2> QED  BY <1>7, <2>1, <2>2
<1>11. CASE Missed(c)
  <2>1. pc[c] = "missed" /\ UNCHANGED versionHolder /\ pc[c] \in WithIndexLock
    BY <1>11 DEF Missed, WithIndexLock
  <2>2. CASE NeedsRefresh(c, Latest(c))
    BY <1>8, <1>11, <2>1, <2>2, MissedShape DEF Continues, Missed, Latest
  <2>3. CASE ~NeedsRefresh(c, Latest(c))
    BY <1>7, <1>11, <2>1, <2>3, MissedShape DEF Continues, Missed, Latest
  <2> QED  BY <2>2, <2>3
<1>12. CASE WriteIndex(c)
  BY <1>8, <1>12, WriteIndexShape DEF WriteIndex, locks, WithIndexLock, Refreshing, Continues
<1>13. CASE WriteVersion(c)
  <2>1. Continues(c, {"syncversion"}) /\ UNCHANGED <<versionHolder, indexHolder>>
    BY <1>13, WriteVersionShape DEF WriteVersion, locks
  <2>2. pc'[c] \notin WithIndexLock
    BY <2>1 DEF Continues, WithIndexLock, Refreshing
  <2> QED  BY <1>2, <1>13, <2>1, <2>2, ContinuesHolding DEF VersionLockKept, IndexLockKept, WriteVersion
<1> QED  BY <1>3, <1>4, <1>5, <1>6, <1>9, <1>10, <1>11, <1>12, <1>13 DEF DataStep

LEMMA LockStep ==
  ASSUME TypeOK, CallsInv, LockInv, [Next]_vars
  PROVE  LockInv'
<1>1. ASSUME UNCHANGED <<pc, call, indexHolder, versionHolder>> PROVE LockInv'
  BY <1>1 DEF LockInv, HoldsVersion, Prov, Key
<1>2. ASSUME NEW c \in Callers, Disconnect(c) PROVE LockInv'
  <2>1. Ends(c) /\ Others(c) /\ CallTypes
    BY <1>2, EndShapes, TypesSplit DEF Ends
  <2>2. /\ indexHolder' = [p \in Providers |-> IF indexHolder[p] = c THEN Nobody ELSE indexHolder[p]]
        /\ versionHolder' = [k \in Keys |-> IF versionHolder[k] = c THEN Nobody ELSE versionHolder[k]]
    BY <1>2 DEF Disconnect
  <2>3. \A d \in Callers : Prov(d) \in Providers /\ Key(d) \in Keys
    BY <2>1, CallFields
  <2>4. \A d \in Callers \ {c} : /\ Prov(d)' = Prov(d) /\ Key(d)' = Key(d) /\ pc'[d] = pc[d]
                                 /\ HoldsVersion(d)' = HoldsVersion(d)
    BY <2>1 DEF Others, Prov, Key, HoldsVersion
  <2>5. ~HoldsVersion(c)' /\ pc'[c] \notin WithIndexLock /\ Nobody \notin Callers
    BY <2>1, EndsFree, MetadataConstants
  <2>6. \A d \in Callers : pc'[d] \in WithIndexLock => indexHolder'[Prov(d)'] = d
    BY <2>2, <2>3, <2>4, <2>5 DEF LockInv
  <2>7. \A d \in Callers : HoldsVersion(d)' => versionHolder'[Key(d)'] = d
    BY <2>2, <2>3, <2>4, <2>5 DEF LockInv
  <2>8. \A d \in Callers, k \in Keys : versionHolder'[k] = d => HoldsVersion(d)' /\ Key(d)' = k
    BY <2>2, <2>3, <2>4, <2>5 DEF LockInv
  <2> QED  BY <2>6, <2>7, <2>8 DEF LockInv
<1>3. CASE Restart
  <2>1. /\ \A d \in Callers : pc'[d] = "idle" /\ call'[d] = NoCall
        /\ \A k \in Keys : versionHolder'[k] = Nobody
    BY <1>3 DEF Restart
  <2>2. \A d \in Callers : ~HoldsVersion(d)' /\ pc'[d] \notin WithIndexLock
    BY <2>1, NoCallType DEF HoldsVersion, WithIndexLock, Refreshing
  <2> QED  BY <2>1, <2>2, MetadataConstants DEF LockInv
<1>4. CASE \/ \E x \in late : LateRename(x[1], x[2])
           \/ Tick \/ \E k \in Keys : Publish(k)
  BY <1>1, <1>4 DEF LateRename, Tick, Publish, locks
<1>5. CASE UNCHANGED vars
  BY <1>1, <1>5 DEF vars, locks
<1> QED  BY <1>2, <1>3, <1>4, <1>5, NextSplit, StillStepLocks, DataStepLocks

-----------------------------------------------------------------------------
(* A provider's index is served only after it is on the disk. *)
LEMMA PersistFrame ==
  ASSUME Persisted, NEW c \in Callers, Others(c), pc'[c] \notin Writing,
         UNCHANGED <<now, indices, indexFile, late, cutShort, abandoned>>
  PROVE  Persisted'
<1>1. \A d \in Callers : pc'[d] \in Writing \/ pc'[d] = "syncindex" =>
        pc[d] = pc'[d] /\ call'[d] = call[d] /\ Prov(d)' = Prov(d)
  BY DEF Others, Writing, Prov
<1> QED  BY <1>1 DEF Persisted, PersistInv, KnownIsPersisted, Read

(* The steps that do not touch an index, in memory or on the disk. *)
LEMMA PersistCalls ==
  ASSUME TypeOK, CallsInv, NEW c \in Callers,
         \/ StillStep(c) /\ ~\E value \in Index : FetchIndex(c, value)
         \/ TakeVersionLock(c) \/ LoadVersion(c) \/ VersionUnreadable(c) \/ TakeIndexLock(c)
         \/ IndexUnreadable(c) \/ \E error \in Errors : FailIndex(c, error)
         \/ Missed(c) \/ WriteVersion(c) \/ StoreVersion(c) \/ FailVersion(c)
  PROVE  /\ UNCHANGED <<now, indices, indexFile, late, cutShort, abandoned, restarts>> /\ Others(c)
         /\ pc'[c] \notin Writing
<1>1. CallTypes /\ DataTypes
  BY TypesSplit
<1>2. UNCHANGED <<now, indices, indexFile, late, cutShort, abandoned, restarts>> /\ Others(c)
  <2>1. CASE StillStep(c)
    BY <1>1, <2>1, StillSteps, StillStepCalls DEF Still, time, memory, disk
  <2>2. CASE ~StillStep(c)
    <3>1. Others(c)
      BY <2>2, DataStepCalls DEF DataStep
    <3> QED  BY <2>2, <3>1 DEF TakeVersionLock, LoadVersion, VersionUnreadable, TakeIndexLock,
                 IndexUnreadable, FailIndex, Missed, WriteVersion, StoreVersion, FailVersion, Fault,
                 time, memory, disk, faults
  <2> QED  BY <2>1, <2>2
<1>3. pc'[c] \notin Writing
  <2>1. CASE Ends(c)
    BY <2>1 DEF Ends, Writing
  <2>2. CASE Begins(c)
    BY <2>2 DEF Begins, Writing
  <2>3. CASE Continues(c, Stages \ Writing)
    BY <2>3 DEF Continues
  <2>4. {"versionlock", "loadversion", "index", "find", "indexlock", "packages", "versionfailed",
         "writeversion", "loadindex", "missed", "fetchindex", "nextprovider", "syncversion"}
          \subseteq Stages \ Writing
    BY DEF Stages, Writing, Refreshing
  <2>5. CASE StillStep(c) /\ ~\E value \in Index : FetchIndex(c, value)
    <3>1. CASE \/ \E p \in Providers : List(c, p)
               \/ \E k \in Keys : GetVersion(c, k)
               \/ Refuse(c) \/ Sync(c) \/ NextProvider(c)
      BY <1>1, <2>2, <3>1, BeginCalls
    <3>2. CASE LookVersion(c) \/ LookIndex(c)
      BY <2>1, <2>3, <2>4, <3>2, VersionShapes, LookIndexShape DEF Continues
    <3>3. CASE FindVersion(c) \/ VersionNotWritten(c)
      BY <2>3, <2>4, <3>3, FindVersionShape, VersionNotWrittenShape DEF Continues
    <3>4. CASE \E good \in SUBSET Platforms, error \in Errors :
                 FetchPackages(c, good, error)
      BY <2>3, <2>4, <3>4, FetchPackagesShape DEF Continues
    <3>5. CASE Reply(c)
      BY <2>1, <3>5, EndShapes
    <3> QED  BY <2>5, <3>1, <3>2, <3>3, <3>4, <3>5 DEF StillStep
  <2>6. CASE TakeVersionLock(c) \/ LoadVersion(c) \/ VersionUnreadable(c)
    BY <2>1, <2>3, <2>4, <2>6, VersionShapes DEF Continues
  <2>7. CASE TakeIndexLock(c) \/ IndexUnreadable(c)
    BY <2>1, <2>3, <2>4, <2>7, TakeIndexLockShape, IndexUnreadableShape DEF Continues
  <2>8. CASE \E error \in Errors : FailIndex(c, error)
    BY <2>1, <2>3, <2>4, <2>8, FailIndexShape DEF Continues
  <2>9. CASE Missed(c) \/ WriteVersion(c)
    BY <2>3, <2>4, <2>9, MissedShape, WriteVersionShape DEF Continues
  <2>10. CASE StoreVersion(c) \/ FailVersion(c)
    BY <2>1, <2>10, EndShapes
  <2> QED  BY <2>5, <2>6, <2>7, <2>8, <2>9, <2>10
<1> QED  BY <1>2, <1>3

LEMMA PersistTypes ==
  ASSUME TypeOK
  PROVE  /\ now \in Nat
         /\ \A p \in Providers : indices[p] # None => indices[p] \in IndexEntry /\ indices[p].at \in Nat
         /\ \A p \in Providers : Read(indexFile[p]) # None =>
              indexFile[p] \in IndexEntry /\ indexFile[p].at \in Nat
         /\ \A x \in late : x[1] \in Providers /\ x[2] # Junk =>
              x[2] \in IndexEntry /\ x[2].at \in Nat
<1>1. \A x \in late : x[1] \in Providers /\ x[2] # Junk => x[2] \in IndexEntry
  BY TypesSplit, KeySets DEF DataTypes, Renames
<1> QED  BY <1>1, TypeFacts, IndexEntryFields DEF Read

(* Whoever writes or loads an index is alone with it. *)
LEMMA AloneWithIndex ==
  ASSUME LockInv, NEW c \in Callers, NEW d \in Callers \ {c}, pc[c] \in WithIndexLock,
         pc[d] \in Writing
  PROVE  Prov(d) # Prov(c)
  BY DEF LockInv, WithIndexLock, Writing, Refreshing

LEMMA FetchIndexPersists ==
  ASSUME TypeOK, CallsInv, Persisted, NEW c \in Callers, NEW value \in Index, FetchIndex(c, value)
  PROVE  Persisted'
<1>1. /\ Continues(c, {"writeindex"}) /\ call'[c].entry.at = now
  BY FetchIndexShape
<1>2. UNCHANGED <<now, indices, indexFile, late, cutShort, abandoned>> /\ Prov(c) \in Providers
  BY TypeFacts, CallFields DEF FetchIndex, time, memory, disk, faults
<1>3. \A d \in Callers \ {c} : pc[d] = pc'[d] /\ call'[d] = call[d] /\ Prov(d)' = Prov(d)
  BY <1>1 DEF Continues, Others, Prov
<1>4. now \in Nat /\ (indices[Prov(c)] # None => indices[Prov(c)].at <= now)
  BY <1>2, TypeFacts DEF Persisted, PersistInv
<1>5. pc'[c] = "writeindex" /\ Prov(c)' = Prov(c)
  BY <1>1 DEF Continues, SameAddress
<1>6. \A d \in Callers : pc'[d] \in Writing =>
       /\ call'[d].entry.at <= now'
       /\ indices'[Prov(d)'] # None => indices'[Prov(d)'].at <= call'[d].entry.at
  BY <1>1, <1>2, <1>3, <1>4, <1>5 DEF Persisted, PersistInv
<1>7. \A d \in Callers : pc'[d] = "syncindex" /\ Prov(d)' \notin cutShort' =>
       /\ Read(indexFile'[Prov(d)']) # None
       /\ Prov(d)' \notin abandoned' => indexFile'[Prov(d)'] = call'[d].entry
  BY <1>2, <1>3, <1>5 DEF Persisted, PersistInv
<1> QED  BY <1>2, <1>6, <1>7 DEF Persisted, PersistInv, KnownIsPersisted, Read

LEMMA WriteIndexPersists ==
  ASSUME TypeOK, CallsInv, LockInv, Persisted, NEW c \in Callers, WriteIndex(c)
  PROVE  Persisted'
<1> DEFINE p == Prov(c)
           e == call[c].entry
<1>1. /\ p \in Providers /\ e \in IndexEntry /\ e.at \in Nat /\ Read(e) # None /\ now \in Nat
      /\ pc[c] = "writeindex" /\ e # Junk
  BY TypeFacts, CallFields, IndexEntryFields DEF WriteIndex, CallsInv, CallInv, Writing, Read
<1>2. PICK content \in {e, Junk} : /\ indexFile' = [indexFile EXCEPT ![p] = content]
                                   /\ CutShort(p, content) /\ abandoned' = abandoned
  BY DEF WriteIndex, Contents, Fault, faults
<1>3. call' = call /\ UNCHANGED <<now, indices, late>>
  BY WriteIndexShape DEF WriteIndex, time, memory
<1>4. /\ \A d \in Callers \ {c} : pc[d] = pc'[d] /\ Prov(d)' = Prov(d)
      /\ pc'[c] = "syncindex" /\ Prov(c)' = Prov(c)
  BY WriteIndexShape DEF Continues, Others, Prov, SameAddress
<1>5. /\ \A q \in Providers : indexFile'[q] = IF q = p THEN content ELSE indexFile[q]
      /\ p \notin cutShort' => content = e
      /\ \A q \in Providers \ {p} : q \notin cutShort' => q \notin cutShort
  BY <1>1, <1>2, TypesSplit DEF DataTypes, CutShort
<1>6. \A d \in Callers \ {c} : pc[d] \in Writing => Prov(d) # p
  BY <1>1, AloneWithIndex DEF WithIndexLock, Refreshing
<1>7. e.at <= now /\ (indices[p] # None => indices[p].at <= e.at)
  BY <1>1 DEF Persisted, PersistInv, Writing
<1>8. \A d \in Callers : Prov(d) \in Providers /\ Prov(d)' = Prov(d)
  BY <1>4, TypeFacts, CallFields
<1> HIDE DEF p, e
<1>9. \A q \in Providers : /\ indices[q] # None => indices[q].at <= now
                           /\ Read(indexFile'[q]) # None => indexFile'[q].at <= now
  <2> SUFFICES ASSUME NEW q \in Providers
               PROVE  /\ indices[q] # None => indices[q].at <= now
                      /\ Read(indexFile'[q]) # None => indexFile'[q].at <= now
    OBVIOUS
  <2>1. CASE q = p /\ content = Junk
    BY <1>5, <2>1 DEF Persisted, PersistInv, Read
  <2>2. CASE q = p /\ content = e
    BY <1>5, <1>7, <2>2 DEF Persisted, PersistInv
  <2>3. CASE q # p
    BY <1>5, <2>3 DEF Persisted, PersistInv
  <2> QED  BY <1>2, <2>1, <2>2, <2>3
<1>10. \A d \in Callers : pc'[d] \in Writing =>
       /\ call[d].entry.at <= now
       /\ indices[Prov(d)] # None => indices[Prov(d)].at <= call[d].entry.at
  BY <1>4, <1>7 DEF Persisted, PersistInv, e, p
<1>11. \A d \in Callers : pc'[d] = "syncindex" /\ Prov(d) \notin cutShort' =>
       /\ Read(indexFile'[Prov(d)]) # None
       /\ Prov(d) \notin abandoned => indexFile'[Prov(d)] = call[d].entry
  <2> SUFFICES ASSUME NEW d \in Callers, pc'[d] = "syncindex", Prov(d) \notin cutShort'
               PROVE  /\ Read(indexFile'[Prov(d)]) # None
                      /\ Prov(d) \notin abandoned => indexFile'[Prov(d)] = call[d].entry
    OBVIOUS
  <2>1. CASE d = c
    BY <1>1, <1>5, <2>1 DEF p, e
  <2>2. CASE d # c
    <3>1. pc[d] = "syncindex" /\ Prov(d) # p
      BY <1>4, <1>6, <2>2 DEF Writing
    <3> QED  BY <1>5, <1>8, <3>1 DEF Persisted, PersistInv
  <2> QED  BY <2>1, <2>2
<1>12. \A q \in Providers : indices[q] # None /\ q \notin cutShort' =>
         /\ Read(indexFile'[q]) # None
         /\ q \notin abandoned => indexFile'[q].at >= indices[q].at
  <2> SUFFICES ASSUME NEW q \in Providers, indices[q] # None, q \notin cutShort'
               PROVE  /\ Read(indexFile'[q]) # None
                      /\ q \notin abandoned => indexFile'[q].at >= indices[q].at
    OBVIOUS
  <2>1. CASE q = p
    <3>1. indices[q].at \in Nat
      BY PersistTypes
    <3> QED  BY <1>1, <1>5, <1>7, <2>1, <3>1
  <2>2. CASE q # p
    BY <1>5, <2>2 DEF Persisted, KnownIsPersisted
  <2> QED  BY <2>1, <2>2
<1>13. \A x \in late : x[1] \in Providers => x[1] \in abandoned /\ (x[2] # Junk => x[2].at <= now)
  BY DEF Persisted, PersistInv
<1> QED  BY <1>2, <1>3, <1>8, <1>9, <1>10, <1>11, <1>12, <1>13
         DEF Persisted, PersistInv, KnownIsPersisted, Read

(* An index that comes to memory is as old as its file at least. *)
LEMMA IndexComesToMemory ==
  ASSUME TypeOK, CallsInv, LockInv, Persisted, NEW c \in Callers, pc[c] \in WithIndexLock,
         Others(c), pc'[c] \notin Writing, UNCHANGED <<now, indexFile, late, cutShort, abandoned>>,
         NEW e, indices' = [indices EXCEPT ![Prov(c)] = e],
         e # None => e.at <= now,
         e # None /\ Prov(c) \notin cutShort =>
           /\ Read(indexFile[Prov(c)]) # None
           /\ Prov(c) \notin abandoned => indexFile[Prov(c)].at >= e.at
  PROVE  Persisted'
<1>1. \A d \in Callers : pc'[d] \in Writing \/ pc'[d] = "syncindex" =>
        pc[d] = pc'[d] /\ call'[d] = call[d] /\ Prov(d)' = Prov(d) /\ d # c
  BY DEF Others, Writing, Prov
<1>2. \A d \in Callers : Prov(d) \in Providers
  BY TypeFacts, CallFields
<1>3. \A q \in Providers : indices'[q] = IF q = Prov(c) THEN e ELSE indices[q]
  BY <1>2, TypesSplit DEF DataTypes
<1>4. \A d \in Callers : pc'[d] \in Writing => indices'[Prov(d)] = indices[Prov(d)]
  BY <1>1, <1>2, <1>3, AloneWithIndex
<1>5. \A q \in Providers : indices'[q] # None =>
        /\ indices'[q].at <= now
        /\ q \notin cutShort => Read(indexFile[q]) # None
        /\ q \notin cutShort \cup abandoned => indexFile[q].at >= indices'[q].at
  BY <1>3 DEF Persisted, PersistInv, KnownIsPersisted
<1>6. \A d \in Callers : pc'[d] \in Writing =>
       /\ call'[d].entry.at <= now
       /\ indices'[Prov(d)'] # None => indices'[Prov(d)'].at <= call'[d].entry.at
  BY <1>1, <1>4 DEF Persisted, PersistInv
<1>7. \A d \in Callers : pc'[d] = "syncindex" /\ Prov(d)' \notin cutShort =>
       /\ Read(indexFile[Prov(d)']) # None
       /\ Prov(d)' \notin abandoned => indexFile[Prov(d)'] = call'[d].entry
  BY <1>1 DEF Persisted, PersistInv
<1> QED  BY <1>5, <1>6, <1>7 DEF Persisted, PersistInv, KnownIsPersisted, Read

LEMMA StoreIndexPersists ==
  ASSUME TypeOK, CallsInv, LockInv, Persisted, NEW c \in Callers, StoreIndex(c)
  PROVE  Persisted'
<1>1. /\ pc[c] = "syncindex" /\ pc[c] \in WithIndexLock /\ Prov(c) \in Providers
      /\ indices' = [indices EXCEPT ![Prov(c)] = call[c].entry]
      /\ UNCHANGED <<now, indexFile, late, cutShort, abandoned>>
  BY TypeFacts, CallFields DEF StoreIndex, WithIndexLock, Refreshing, time, disk, faults
<1>2. Others(c) /\ pc'[c] \notin Writing
  BY StoreIndexShape DEF Ends, Continues, Writing
<1>3. call[c].entry.at \in Nat
  BY <1>1, IndexEntryFields DEF CallsInv, CallInv, Writing
<1>4. /\ call[c].entry.at <= now
      /\ Prov(c) \notin cutShort =>
           /\ Read(indexFile[Prov(c)]) # None
           /\ Prov(c) \notin abandoned => indexFile[Prov(c)] = call[c].entry
  BY <1>1 DEF Persisted, PersistInv, Writing
<1>5. Prov(c) \notin cutShort \cup abandoned => indexFile[Prov(c)].at >= call[c].entry.at
  BY <1>3, <1>4
<1> QED  BY <1>1, <1>2, <1>4, <1>5, IndexComesToMemory

LEMMA LoadIndexPersists ==
  ASSUME TypeOK, CallsInv, LockInv, Persisted, NEW c \in Callers, LoadIndex(c)
  PROVE  Persisted'
<1> DEFINE e == OnHand(indices[Prov(c)], indexFile[Prov(c)])
<1>1. /\ pc[c] \in WithIndexLock /\ Prov(c) \in Providers
      /\ indices' = [indices EXCEPT ![Prov(c)] = e]
      /\ UNCHANGED <<now, indexFile, late, cutShort, abandoned>>
  BY TypeFacts, CallFields DEF LoadIndex, WithIndexLock, time, disk, faults
<1>2. Others(c) /\ pc'[c] \notin Writing
  BY LoadIndexShape DEF Ends, Continues, Writing
<1>3. e # None =>
        /\ e.at <= now
        /\ Prov(c) \notin cutShort =>
             /\ Read(indexFile[Prov(c)]) # None
             /\ Prov(c) \notin abandoned => indexFile[Prov(c)].at >= e.at
  <2>1. CASE indices[Prov(c)] # None
    BY <1>1, <2>1 DEF OnHand, Persisted, PersistInv, KnownIsPersisted
  <2>2. CASE indices[Prov(c)] = None /\ e # None
    <3>1. e = indexFile[Prov(c)] /\ Read(indexFile[Prov(c)]) # None
      BY <2>2 DEF OnHand, Read
    <3>2. e.at \in Nat
      BY <1>1, <3>1, PersistTypes
    <3> QED  BY <1>1, <3>1, <3>2 DEF Persisted, PersistInv
  <2> QED  BY <2>1, <2>2
<1> HIDE DEF e
<1> QED  BY <1>1, <1>2, <1>3, IndexComesToMemory

(* A dropped caller is written down before its rename can happen. *)
LEMMA DisconnectPersists ==
  ASSUME TypeOK, CallsInv, Persisted, NEW c \in Callers, Disconnect(c)
  PROVE  Persisted'
<1>1. UNCHANGED <<now, indices, indexFile, cutShort>> /\ abandoned \subseteq abandoned'
  BY DEF Disconnect, time, memory
<1>2. Others(c) /\ pc'[c] \notin Writing /\ Key(c) \notin Providers /\ Prov(c) \in Providers
  BY EndShapes, TypeFacts, CallFields, KeySets DEF Ends, Writing
<1>3. \A d \in Callers : pc'[d] \in Writing \/ pc'[d] = "syncindex" =>
        pc[d] = pc'[d] /\ call'[d] = call[d] /\ Prov(d)' = Prov(d)
  BY <1>2 DEF Others, Writing, Prov
<1>4. \A x \in late' : x[1] \in Providers =>
        x[1] \in abandoned' /\ (x[2] # Junk => x[2].at <= now)
  <2> DEFINE Dated(S) == \A x \in S : x[1] \in Providers =>
                           x[1] \in abandoned' /\ (x[2] # Junk => x[2].at <= now)
  <2>1. Dated(late)
    BY <1>1 DEF Persisted, PersistInv
  <2>2. CASE UNCHANGED late
    BY <2>1, <2>2
  <2>3. ASSUME NEW content \in Contents(c), pc[c] = "writeindex",
               late' = late \cup {<<Prov(c), content>>}, abandoned' = abandoned \cup {Prov(c)}
        PROVE  Dated(late')
    <3>1. content # Junk => content.at <= now
      BY <2>3 DEF Persisted, PersistInv, Writing, Contents
    <3> QED  BY <2>1, <2>3, <3>1
  <2>4. ASSUME NEW content \in Contents(c), late' = late \cup {<<Key(c), content>>}
        PROVE  Dated(late')
    BY <1>2, <2>1, <2>4
  <2> QED  BY <2>2, <2>3, <2>4 DEF Disconnect
<1> QED  BY <1>1, <1>3, <1>4 DEF Persisted, PersistInv, KnownIsPersisted, Read

LEMMA LateRenamePersists ==
  ASSUME TypeOK, CallsInv, Persisted, NEW x \in late, LateRename(x[1], x[2])
  PROVE  Persisted'
<1>1. UNCHANGED <<now, indices, abandoned, pc, call>> /\ late' \subseteq late
  BY DEF LateRename, time, memory, faults
<1>2. \A d \in Callers : Prov(d)' = Prov(d) /\ Prov(d) \in Providers
  BY <1>1, TypeFacts, CallFields DEF Prov
<1>3. CASE UNCHANGED <<indexFile, cutShort>>
  BY <1>1, <1>2, <1>3 DEF Persisted, PersistInv, KnownIsPersisted, Read
<1>4. CASE /\ x[1] \in Providers /\ indexFile' = [indexFile EXCEPT ![x[1]] = x[2]]
           /\ CutShort(x[1], x[2])
  <2>1. \A q \in Providers : indexFile'[q] = IF q = x[1] THEN x[2] ELSE indexFile[q]
    BY <1>4, TypesSplit DEF DataTypes
  <2>2. \A q \in Providers : q \notin cutShort' => IF q = x[1] THEN x[2] # Junk ELSE q \notin cutShort
    BY <1>4 DEF CutShort
  <2>3. x[1] \in abandoned /\ (x[2] # Junk => x[2].at <= now /\ Read(x[2]) # None)
    <3>1. x[2] # Junk => x[2] \in IndexEntry
      BY <1>4, PersistTypes
    <3> QED  BY <1>4, <3>1, IndexEntryFields DEF Persisted, PersistInv, Read
  <2>4. \A q \in Providers : /\ indices[q] # None => indices[q].at <= now
                             /\ Read(indexFile'[q]) # None => indexFile'[q].at <= now
    BY <2>1, <2>3 DEF Persisted, PersistInv, Read
  <2>5. \A d \in Callers : pc[d] = "syncindex" /\ Prov(d) \notin cutShort' =>
         /\ Read(indexFile'[Prov(d)]) # None
         /\ Prov(d) \notin abandoned => indexFile'[Prov(d)] = call[d].entry
    BY <1>2, <2>1, <2>2, <2>3 DEF Persisted, PersistInv
  <2>6. \A q \in Providers : indices[q] # None /\ q \notin cutShort' =>
           /\ Read(indexFile'[q]) # None
           /\ q \notin abandoned => indexFile'[q].at >= indices[q].at
    BY <2>1, <2>2, <2>3 DEF Persisted, KnownIsPersisted
  <2> QED  BY <1>1, <1>2, <2>4, <2>5, <2>6 DEF Persisted, PersistInv, KnownIsPersisted, Read
<1> QED  BY <1>3, <1>4 DEF LateRename

LEMMA OtherStepPersists ==
  ASSUME TypeOK, CallsInv, Persisted,
         Restart \/ Tick \/ (\E k \in Keys : Publish(k)) \/ UNCHANGED vars
  PROVE  Persisted'
<1>1. CASE Restart
  <2>1. /\ \A q \in Providers : indices'[q] = Read(indexFile[q])
        /\ UNCHANGED <<now, indexFile, cutShort, abandoned>> /\ late' = {}
        /\ \A d \in Callers : pc'[d] = "idle"
    BY <1>1 DEF Restart, time
  <2>2. \A q \in Providers : Read(indexFile[q]) # None =>
          Read(indexFile[q]) = indexFile[q] /\ indexFile[q].at \in Nat
    BY PersistTypes DEF Read
  <2>3. \A q \in Providers : Read(indexFile[q]) # None => indexFile[q].at <= now
    BY DEF Persisted, PersistInv
  <2>4. \A q \in Providers : indices'[q] # None =>
          /\ indices'[q].at <= now /\ Read(indexFile[q]) # None
          /\ indexFile[q].at >= indices'[q].at
    BY <2>1, <2>2, <2>3
  <2> QED  BY <2>1, <2>3, <2>4 DEF Persisted, PersistInv, KnownIsPersisted, Read, Writing
<1>2. CASE Tick
  <2>1. /\ UNCHANGED <<indices, indexFile, late, cutShort, abandoned, pc, call>> /\ now' = now + 1
    BY <1>2 DEF Tick, memory, disk, faults
  <2>2. \A d \in Callers : Prov(d)' = Prov(d)
    BY <2>1 DEF Prov
  <2>3. \A t \in Nat : t <= now => t <= now'
    BY <2>1, TypeFacts
  <2>4. \A d \in Callers : pc[d] \in Writing => call[d].entry.at \in Nat
    BY IndexEntryFields DEF CallsInv, CallInv
  <2>5. /\ \A q \in Providers : /\ indices[q] # None => indices[q].at <= now'
                                /\ Read(indexFile[q]) # None => indexFile[q].at <= now'
        /\ \A x \in late : x[1] \in Providers =>
             x[1] \in abandoned /\ (x[2] # Junk => x[2].at <= now')
        /\ \A d \in Callers : pc[d] \in Writing => call[d].entry.at <= now'
    BY <2>3, <2>4, PersistTypes DEF Persisted, PersistInv
  <2> QED  BY <2>1, <2>2, <2>5 DEF Persisted, PersistInv, KnownIsPersisted, Read
<1>3. CASE (\E k \in Keys : Publish(k)) \/ UNCHANGED vars
  <2>1. /\ UNCHANGED <<now, indices, indexFile, late, cutShort, abandoned, pc, call>>
    BY <1>3 DEF Publish, vars, time, memory, disk, faults
  <2>2. \A d \in Callers : Prov(d)' = Prov(d)
    BY <2>1 DEF Prov
  <2> QED  BY <2>1, <2>2 DEF Persisted, PersistInv, KnownIsPersisted, Read
<1> QED  BY <1>1, <1>2, <1>3

LEMMA PersistStep ==
  ASSUME TypeOK, CallsInv, LockInv, Persisted, [Next]_vars
  PROVE  Persisted'
<1>1. ASSUME NEW c \in Callers, StillStep(c) \/ DataStep(c) PROVE Persisted'
  <2>1. CASE \E value \in Index : FetchIndex(c, value)
    BY <2>1, FetchIndexPersists
  <2>2. CASE WriteIndex(c) \/ StoreIndex(c) \/ LoadIndex(c)
    BY <2>2, WriteIndexPersists, StoreIndexPersists, LoadIndexPersists
  <2>3. CASE ~\/ \E value \in Index : FetchIndex(c, value)
              \/ WriteIndex(c) \/ StoreIndex(c) \/ LoadIndex(c)
    BY <1>1, <2>3, PersistCalls, PersistFrame DEF DataStep
  <2> QED  BY <2>1, <2>2, <2>3
<1> QED  BY <1>1, NextSplit, DisconnectPersists, LateRenamePersists, OtherStepPersists

LEMMA PersistInit ==
  ASSUME Init
  PROVE  Persisted
<1>1. TypeOK
  BY TypesInit
<1>2. \A q \in Providers : indexFile[q] \in [at : {0}, complete : {TRUE}, list : Index] \cup {None, Junk}
  BY DEF Init
<1>3. \A q \in Providers : Read(indexFile[q]) # None =>
        Read(indexFile[q]) = indexFile[q] /\ indexFile[q].at = 0
  BY <1>2 DEF Read
<1>4. /\ now = 0 /\ \A q \in Providers : indices[q] = Read(indexFile[q])
      /\ late = {} /\ \A d \in Callers : pc[d] = "idle"
  BY DEF Init
<1>5. \A q \in Providers : indices[q] # None => indices[q].at = 0 /\ indexFile[q].at = 0
  BY <1>3, <1>4
<1>6. \A q \in Providers : indices[q] # None => indices[q].at <= now /\ indexFile[q].at >= indices[q].at
  BY <1>4, <1>5
<1>7. \A q \in Providers : Read(indexFile[q]) # None => indexFile[q].at <= now
  BY <1>3, <1>4
<1> QED  BY <1>3, <1>4, <1>6, <1>7 DEF Persisted, PersistInv, KnownIsPersisted, Writing

(* The index of a provider is replaced by newer ones only. *)
LEMMA ForwardStep ==
  ASSUME TypeOK, CallsInv, Persisted, [Next]_vars, NEW p \in Providers, indices[p] # None,
         restarts' = restarts
  PROVE  indices'[p] # None /\ indices'[p].at >= indices[p].at
<1>1. indices[p].at \in Nat /\ indices \in [Providers -> IndexEntry \cup {None}] /\ restarts \in Nat
  BY PersistTypes, TypesSplit DEF DataTypes
<1>2. CASE UNCHANGED indices
  BY <1>1, <1>2
<1>3. ASSUME NEW c \in Callers, LoadIndex(c) PROVE indices'[p] # None /\ indices'[p].at >= indices[p].at
  <2>1. indices'[p] = indices[p]
    BY <1>1, <1>3 DEF LoadIndex, OnHand
  <2> QED  BY <1>1, <2>1
<1>4. ASSUME NEW c \in Callers, StoreIndex(c)
      PROVE  indices'[p] # None /\ indices'[p].at >= indices[p].at
  <2>1. pc[c] \in Writing /\ indices' = [indices EXCEPT ![Prov(c)] = call[c].entry]
    BY <1>4 DEF StoreIndex, Writing
  <2>2. CASE p = Prov(c)
    <3>1. call[c].entry # None /\ call[c].entry.at \in Nat /\ indices'[p] = call[c].entry
      BY <1>1, <2>1, <2>2, IndexEntryFields DEF CallsInv, CallInv
    <3>2. indices[p].at <= call[c].entry.at
      BY <2>1, <2>2 DEF Persisted, PersistInv
    <3> QED  BY <1>1, <3>1, <3>2
  <2>3. CASE p # Prov(c)
    BY <1>1, <2>1, <2>3
  <2> QED  BY <2>2, <2>3
<1>5. ~Restart
  BY <1>1 DEF Restart
<1>6. ASSUME NEW c \in Callers, StillStep(c) \/ DataStep(c), ~LoadIndex(c), ~StoreIndex(c)
      PROVE  UNCHANGED indices
  <2>1. CASE StillStep(c)
    BY <2>1, TypesSplit, StillSteps DEF Still, memory
  <2>2. CASE WriteIndex(c)
    BY <2>2 DEF WriteIndex, memory
  <2>3. CASE DataStep(c) /\ ~WriteIndex(c)
    BY <1>6, <2>3, PersistCalls DEF DataStep
  <2> QED  BY <1>6, <2>1, <2>2, <2>3
<1>7. ASSUME \/ \E c \in Callers : Disconnect(c)
             \/ \E x \in late : LateRename(x[1], x[2])
             \/ Tick \/ (\E k \in Keys : Publish(k)) \/ UNCHANGED vars
      PROVE  UNCHANGED indices
  BY <1>7 DEF Disconnect, LateRename, Tick, Publish, vars, memory
<1> QED  BY <1>2, <1>3, <1>4, <1>5, <1>6, <1>7, NextSplit

-----------------------------------------------------------------------------
(* How a call comes to ask the registry for an index, to hold the lock of a *)
(* version, and to write the metadata of one.                               *)
AsksAsBefore(c) ==
  pc'[c] \in Refreshing /\ call'[c].why = "load" =>
    pc[c] \in Refreshing /\ call[c].why = "load" /\ Prov(c)' = Prov(c)
HoldsAsBefore(c) ==
  HoldsVersion(c)' /\ pc'[c] # "loadversion" =>
    HoldsVersion(c) /\ pc[c] # "loadversion" /\ Key(c)' = Key(c)
WritesAsBefore(c) ==
  pc'[c] \in Merging => pc[c] \in Merging /\ call'[c] = call[c] /\ Key(c)' = Key(c)

LEMMA StepFrame ==
  ASSUME TypeOK, CallsInv, NEW c \in Callers, StillStep(c) \/ DataStep(c) \/ Disconnect(c)
  PROVE  /\ ~LoadIndex(c) => AsksAsBefore(c)
         /\ ~LoadVersion(c) => HoldsAsBefore(c)
         /\ (\A good \in SUBSET Platforms, error \in Errors :
               ~FetchPackages(c, good, error)) => WritesAsBefore(c)
<1> DEFINE All == AsksAsBefore(c) /\ HoldsAsBefore(c) /\ WritesAsBefore(c)
<1>1. CallTypes /\ CallInv(c)
  BY TypeFacts DEF CallsInv
<1>2. CASE Ends(c)
  BY <1>2, EndsFree
     DEF Ends, Refreshing, Merging, AsksAsBefore, HoldsAsBefore, WritesAsBefore
<1>3. CASE Begins(c)
  BY <1>3
     DEF Begins, HoldsVersion, Refreshing, Merging, AsksAsBefore, HoldsAsBefore, WritesAsBefore
<1>4. ASSUME NEW S, Continues(c, S), S \cap ({"version", "versionlock"} \cup Refreshing \cup Merging) = {},
             pc[c] \notin {"version", "versionlock", "loadversion"}
      PROVE  All
  <2>1. pc'[c] \notin Refreshing \cup Merging
    BY <1>4 DEF Continues
  <2>2. HoldsVersion(c)' = HoldsVersion(c) /\ Key(c)' = Key(c)
    BY <1>4, ContinuesHolding
  <2> QED  BY <1>4, <2>1, <2>2 DEF AsksAsBefore, HoldsAsBefore, WritesAsBefore
<1>5. {"index", "find", "indexlock", "packages", "versionfailed", "loadindex", "missed", "nextprovider"}
        \cap ({"version", "versionlock"} \cup Refreshing \cup Merging) = {}
  BY DEF Refreshing, Merging
<1>6. CASE \/ \E p \in Providers : List(c, p)
           \/ \E k \in Keys : GetVersion(c, k)
           \/ Refuse(c) \/ Sync(c) \/ NextProvider(c)
  BY <1>1, <1>3, <1>6, BeginCalls
<1>7. CASE LookVersion(c) \/ TakeVersionLock(c)
  <2>1. Ends(c) \/ Continues(c, {"versionlock", "loadversion"})
    BY <1>7, VersionShapes DEF Continues
  <2>2. CASE Continues(c, {"versionlock", "loadversion"})
    BY <2>2 DEF Continues, HoldsVersion, Refreshing, Merging, AsksAsBefore, HoldsAsBefore, WritesAsBefore
  <2> QED  BY <1>2, <2>1, <2>2
<1>8. CASE LoadVersion(c)
  <2>1. Ends(c) \/ Continues(c, {"index"})
    BY <1>8, VersionShapes
  <2>2. CASE Continues(c, {"index"})
    BY <1>8, <2>2 DEF Continues, Refreshing, Merging, AsksAsBefore, WritesAsBefore
  <2> QED  BY <1>2, <1>8, <2>1, <2>2
<1>9. CASE LookIndex(c) \/ IndexUnreadable(c)
  <2>1. Ends(c) \/ Continues(c, {"find", "indexlock", "versionfailed"})
    BY <1>9, LookIndexShape, IndexUnreadableShape DEF Continues
  <2>2. pc[c] \notin {"version", "versionlock", "loadversion"}
    BY <1>9 DEF LookIndex, IndexUnreadable
  <2> QED  BY <1>2, <1>4, <1>5, <2>1, <2>2
<1>10. CASE TakeIndexLock(c)
  <2>1. pc[c] = "indexlock"
    BY <1>10 DEF TakeIndexLock
  <2>2. CASE Continues(c, {"loadindex", "missed"})
    BY <1>4, <1>5, <2>1, <2>2
  <2>3. CASE call[c].why = "sync" /\ call' = call /\ Continues(c, {"fetchindex"})
    <3>1. AsksAsBefore(c) /\ WritesAsBefore(c)
      BY <2>3 DEF Continues, AsksAsBefore, WritesAsBefore, Merging
    <3> QED  BY <2>1, <2>3, <3>1, ContinuesHolding DEF HoldsAsBefore
  <2> QED  BY <1>10, <2>2, <2>3, TakeIndexLockShape DEF Continues
<1>11. CASE LoadIndex(c)
  <2>1. pc[c] = "loadindex"
    BY <1>11 DEF LoadIndex
  <2>2. CASE Continues(c, {"find", "versionfailed", "fetchindex"})
    <3>1. pc'[c] \notin Merging
      BY <2>2 DEF Continues, Merging
    <3> QED  BY <1>11, <2>1, <2>2, <3>1, ContinuesHolding DEF HoldsAsBefore, WritesAsBefore
  <2> QED  BY <1>2, <1>11, <2>2, LoadIndexShape DEF Continues
<1>12. CASE \/ \E value \in Index : FetchIndex(c, value)
            \/ WriteIndex(c)
  <2>1. Continues(c, {"writeindex", "syncindex"}) /\ call'[c].why = call[c].why
    BY <1>12, FetchIndexShape, WriteIndexShape DEF Continues
  <2>2. pc[c] \in {"fetchindex", "writeindex"}
    BY <1>12 DEF FetchIndex, WriteIndex
  <2>3. pc'[c] \notin Merging /\ pc[c] \in Refreshing
    BY <2>1, <2>2 DEF Continues, Merging, Refreshing
  <2> QED  BY <2>1, <2>2, <2>3, ContinuesHolding DEF AsksAsBefore, HoldsAsBefore, WritesAsBefore
<1>13. CASE \/ StoreIndex(c) \/ \E error \in Errors : FailIndex(c, error)
  <2>1. Ends(c) \/ Continues(c, {"find", "packages", "versionfailed", "nextprovider"})
    BY <1>13, StoreIndexShape, FailIndexShape DEF Continues
  <2>2. pc[c] \notin {"version", "versionlock", "loadversion"}
    BY <1>13 DEF StoreIndex, FailIndex, Refreshing
  <2> QED  BY <1>2, <1>4, <1>5, <2>1, <2>2
<1>14. CASE FindVersion(c) \/ VersionNotWritten(c)
  <2>1. Continues(c, {"indexlock", "packages", "versionfailed"})
    BY <1>14, FindVersionShape, VersionNotWrittenShape DEF Continues
  <2>2. pc[c] \notin {"version", "versionlock", "loadversion"}
    BY <1>14 DEF FindVersion, VersionNotWritten
  <2> QED  BY <1>4, <1>5, <2>1, <2>2
<1>15. CASE Missed(c)
  <2>1. pc[c] = "missed" /\ call[c].why = "miss"
    BY <1>1, <1>15 DEF Missed, CallInv, OnRoute, Refreshing, Merging
  <2>2. CASE Continues(c, {"packages", "versionfailed"})
    BY <1>4, <1>5, <2>1, <2>2
  <2>3. CASE Continues(c, {"fetchindex"}) /\ call' = call
    <3>1. AsksAsBefore(c) /\ WritesAsBefore(c)
      BY <2>1, <2>3 DEF Continues, AsksAsBefore, WritesAsBefore, Merging
    <3> QED  BY <2>1, <2>3, <3>1, ContinuesHolding DEF HoldsAsBefore
  <2> QED  BY <1>15, <2>2, <2>3, MissedShape
<1>16. ASSUME NEW good \in SUBSET Platforms, NEW error \in Errors,
              FetchPackages(c, good, error)
       PROVE  AsksAsBefore(c) /\ HoldsAsBefore(c)
  <2>1. Continues(c, {"versionfailed", "writeversion"}) /\ pc[c] = "packages"
    BY <1>16, FetchPackagesShape DEF Continues, FetchPackages
  <2> QED  BY <2>1, ContinuesHolding DEF Continues, Refreshing, AsksAsBefore, HoldsAsBefore
<1>17. CASE WriteVersion(c)
  <2>1. Continues(c, {"syncversion"}) /\ pc[c] = "writeversion" /\ call' = call
    BY <1>17, WriteVersionShape DEF WriteVersion
  <2> QED  BY <2>1, ContinuesHolding
           DEF Continues, SameAddress, Refreshing, Merging, AsksAsBefore, HoldsAsBefore, WritesAsBefore
<1>18. CASE VersionUnreadable(c) \/ StoreVersion(c) \/ FailVersion(c) \/ Reply(c) \/ Disconnect(c)
  BY <1>2, <1>18, VersionShapes, EndShapes
<1> QED  BY <1>6, <1>7, <1>8, <1>9, <1>10, <1>11, <1>12, <1>13, <1>14, <1>15, <1>16, <1>17, <1>18
         DEF StillStep, DataStep

(* Where memory changes. *)
LEMMA MemorySteps ==
  ASSUME TypeOK, NEW c \in Callers, StillStep(c) \/ DataStep(c) \/ Disconnect(c)
  PROVE  /\ UNCHANGED <<now, pubAt, restarts>>
         /\ ~LoadIndex(c) /\ ~StoreIndex(c) => UNCHANGED indices
         /\ ~LoadVersion(c) /\ ~StoreVersion(c) => UNCHANGED versions
<1>1. CASE StillStep(c)
  BY <1>1, TypesSplit, StillSteps DEF Still, time, memory
<1>2. CASE DataStep(c)
  BY <1>2 DEF DataStep, TakeVersionLock, LoadVersion, VersionUnreadable, TakeIndexLock, LoadIndex,
       IndexUnreadable, WriteIndex, StoreIndex, FailIndex, Missed, WriteVersion, StoreVersion,
       FailVersion, Fault, time, memory, faults
<1>3. CASE Disconnect(c)
  BY <1>3 DEF Disconnect, time, memory
<1> QED  BY <1>1, <1>2, <1>3

-----------------------------------------------------------------------------
LEMMA SharedMeaning ==
  ASSUME TypeOK, LockInv
  PROVE  SharedInv => SharedRefresh
<1>1. \A c \in Callers : Key(c) \in Keys
  BY TypeFacts, CallFields
<1>2. \A c \in Callers : versionHolder[Key(c)] = c => HoldsVersion(c)
  BY <1>1 DEF LockInv
<1> QED  BY <1>2 DEF SharedInv, SharedRefresh

(* Two calls do not refresh the same index, or the same version. *)
LEMMA AloneRefreshing ==
  ASSUME LockInv, NEW c \in Callers, NEW d \in Callers \ {c}
  PROVE  /\ pc[c] \in WithIndexLock /\ pc[d] \in Refreshing => Prov(d) # Prov(c)
         /\ HoldsVersion(c) /\ HoldsVersion(d) => Key(d) # Key(c)
  BY DEF LockInv, WithIndexLock

LEMMA VersionsStay ==
  ASSUME TypeOK, CallsInv, LockInv, NEW c \in Callers, StillStep(c) \/ DataStep(c) \/ Disconnect(c)
  PROVE  /\ \A d \in Callers \ {c} : HoldsVersion(d) => versions'[Key(d)] = versions[Key(d)]
         /\ ~LoadVersion(c) /\ HoldsVersion(c)' => UNCHANGED versions
<1>0. \A d \in Callers : Key(d) \in Keys
  BY TypeFacts, CallFields
<1>1. CASE LoadVersion(c) \/ StoreVersion(c)
  <2>1. HoldsVersion(c)
    BY <1>1 DEF LoadVersion, StoreVersion, HoldsVersion, CallsInv, CallInv, OnRoute, Refreshing, Merging
  <2>2. \A k \in Keys : k # Key(c) => versions'[k] = versions[k]
    BY <1>1, TypesSplit DEF LoadVersion, StoreVersion, DataTypes
  <2>3. StoreVersion(c) => ~HoldsVersion(c)'
    BY EndShapes, EndsFree
  <2> QED  BY <1>0, <1>1, <2>1, <2>2, <2>3, AloneRefreshing
<1>2. CASE ~LoadVersion(c) /\ ~StoreVersion(c)
  BY <1>2, MemorySteps
<1> QED  BY <1>1, <1>2

LEMMA SharedStep ==
  ASSUME TypeOK, CallsInv, LockInv, SharedInv, [Next]_vars
  PROVE  SharedInv'
<1>1. \A d \in Callers : Prov(d) \in Providers /\ Key(d) \in Keys
  BY TypeFacts, CallFields
<1>2. ASSUME NEW c \in Callers, StillStep(c) \/ DataStep(c) \/ Disconnect(c) PROVE SharedInv'
  <2>1. Others(c) /\ UNCHANGED now
    BY <1>2, StillStepCalls, DataStepCalls, MemorySteps
  <2>2. \A d \in Callers \ {c} : /\ pc'[d] = pc[d] /\ call'[d] = call[d] /\ Prov(d)' = Prov(d)
                                 /\ Key(d)' = Key(d) /\ HoldsVersion(d)' = HoldsVersion(d)
    BY <2>1 DEF Others, Prov, Key, HoldsVersion
  <2>3. /\ \A d \in Callers \ {c} : pc[d] \in Refreshing => indices'[Prov(d)] = indices[Prov(d)]
        /\ ~LoadIndex(c) /\ pc'[c] \in Refreshing => UNCHANGED indices
    <3>1. CASE LoadIndex(c) \/ StoreIndex(c)
      <4>1. pc[c] \in WithIndexLock
        BY <3>1 DEF LoadIndex, StoreIndex, WithIndexLock, Refreshing
      <4>2. \A q \in Providers : q # Prov(c) => indices'[q] = indices[q]
        BY <3>1, TypesSplit DEF LoadIndex, StoreIndex, DataTypes
      <4>3. StoreIndex(c) => pc'[c] \notin Refreshing
        BY StoreIndexShape DEF Ends, Continues, Refreshing
      <4> QED  BY <1>1, <3>1, <4>1, <4>2, <4>3, AloneRefreshing
    <3>2. CASE ~LoadIndex(c) /\ ~StoreIndex(c)
      BY <1>2, <3>2, MemorySteps
    <3> QED  BY <3>1, <3>2
  <2>4. /\ \A d \in Callers \ {c} : HoldsVersion(d) => versions'[Key(d)] = versions[Key(d)]
        /\ ~LoadVersion(c) /\ HoldsVersion(c)' => UNCHANGED versions
    BY <1>2, VersionsStay
  <2>5. \A d \in Callers \ {c} :
          /\ pc'[d] \in Refreshing /\ call'[d].why = "load" => ~Fresh(indices[Prov(d)])'
          /\ HoldsVersion(d)' /\ pc'[d] # "loadversion" => ~Fresh(versions[Key(d)])'
    BY <2>1, <2>2, <2>3, <2>4 DEF SharedInv, Fresh
  <2>6. pc'[c] \in Refreshing /\ call'[c].why = "load" => ~Fresh(indices[Prov(c)])'
    <3>1. CASE LoadIndex(c)
      <4> DEFINE e == OnHand(indices[Prov(c)], indexFile[Prov(c)])
      <4> SUFFICES ASSUME pc'[c] \in Refreshing PROVE ~Fresh(indices[Prov(c)])'
        OBVIOUS
      <4>1. Continues(c, {"fetchindex"}) /\ call' = call
        BY <3>1, LoadIndexShape DEF Ends, Continues, Refreshing
      <4>2. pc'[c] = "fetchindex" /\ Prov(c)' = Prov(c)
        BY <4>1 DEF Continues, SameAddress
      <4>3. ~Fresh(e)
        BY <3>1, <4>2 DEF LoadIndex, HaveIndex, IndexError, Return, Abandon, Goto, TypeOK
      <4>4. indices'[Prov(c)] = e
        BY <1>1, <3>1, TypesSplit DEF LoadIndex, DataTypes
      <4> QED  BY <2>1, <4>2, <4>3, <4>4 DEF Fresh
    <3>2. CASE ~LoadIndex(c)
      BY <1>2, <2>1, <2>3, <3>2, StepFrame DEF AsksAsBefore, SharedInv, Fresh
    <3> QED  BY <3>1, <3>2
  <2>7. HoldsVersion(c)' /\ pc'[c] # "loadversion" => ~Fresh(versions[Key(c)])'
    <3>1. CASE LoadVersion(c)
      <4> DEFINE e == OnHand(versions[Key(c)], versionFile[Key(c)])
      <4> SUFFICES ASSUME HoldsVersion(c)' PROVE ~Fresh(versions[Key(c)])'
        OBVIOUS
      <4>1. Continues(c, {"index"})
        BY <3>1, VersionShapes, EndsFree
      <4>2. pc'[c] = "index" /\ Key(c)' = Key(c)
        BY <4>1 DEF Continues, SameAddress
      <4>3. ~Fresh(e)
        BY <3>1, <4>2 DEF LoadVersion, Return, Goto, TypeOK
      <4>4. versions'[Key(c)] = e
        BY <1>1, <3>1, TypesSplit DEF LoadVersion, DataTypes
      <4> QED  BY <2>1, <4>2, <4>3, <4>4 DEF Fresh
    <3>2. CASE ~LoadVersion(c)
      BY <1>2, <2>1, <2>4, <3>2, StepFrame DEF HoldsAsBefore, SharedInv, Fresh
    <3> QED  BY <3>1, <3>2
  <2> QED  BY <2>5, <2>6, <2>7 DEF SharedInv
<1>3. CASE Restart
  <2>1. \A d \in Callers : pc'[d] = "idle" /\ call'[d] = NoCall
    BY <1>3 DEF Restart
  <2>2. \A d \in Callers : ~HoldsVersion(d)' /\ pc'[d] \notin Refreshing
    BY <2>1, NoCallType DEF HoldsVersion, Refreshing
  <2> QED  BY <2>2 DEF SharedInv
<1>4. CASE Tick
  <2>1. UNCHANGED <<memory, pc, call>> /\ now' = now + 1 /\ now \in Nat
    BY <1>4, TypeFacts DEF Tick
  <2>2. ASSUME NEW e \in IndexEntry \cup VersionEntry \cup {None}, ~Fresh(e) PROVE ~Fresh(e)'
    <3>1. e # None => e.at \in Nat
      BY IndexEntryFields, VersionEntryFields
    <3>2. Freshness \in Nat /\ Backoff \in Nat
      BY NumberTypes
    <3>3. CASE e # None /\ e.complete
      BY <2>1, <2>2, <3>1, <3>2, <3>3 DEF Fresh
    <3>4. CASE e # None /\ ~e.complete
      BY <2>1, <2>2, <3>1, <3>2, <3>4 DEF Fresh
    <3> QED  BY <3>3, <3>4 DEF Fresh
  <2>3. \A d \in Callers : /\ pc'[d] = pc[d] /\ call'[d] = call[d] /\ Prov(d)' = Prov(d)
                           /\ Key(d)' = Key(d) /\ HoldsVersion(d)' = HoldsVersion(d)
    BY <2>1 DEF Prov, Key, HoldsVersion
  <2>4. \A d \in Callers : /\ indices[Prov(d)] \in IndexEntry \cup VersionEntry \cup {None}
                           /\ versions[Key(d)] \in IndexEntry \cup VersionEntry \cup {None}
    BY <1>1, TypeFacts
  <2>5. \A d \in Callers : /\ ~Fresh(indices[Prov(d)]) => ~Fresh(indices[Prov(d)])'
                           /\ ~Fresh(versions[Key(d)]) => ~Fresh(versions[Key(d)])'
    BY <2>1, <2>2, <2>3, <2>4 DEF Fresh, memory
  <2> QED  BY <2>3, <2>5 DEF SharedInv
<1>5. CASE \/ \E x \in late : LateRename(x[1], x[2])
           \/ (\E k \in Keys : Publish(k)) \/ UNCHANGED vars
  <2>1. UNCHANGED <<now, indices, versions, pc, call>>
    BY <1>5 DEF LateRename, Publish, vars, time, memory
  <2> QED  BY <2>1 DEF SharedInv, HoldsVersion, Prov, Key, Fresh
<1> QED  BY <1>2, <1>3, <1>4, <1>5, NextSplit

-----------------------------------------------------------------------------
(* What is written of a version has what memory has of it. *)
LEMMA PlatformsStep ==
  ASSUME TypeOK, CallsInv, LockInv, PlatformsKept, [Next]_vars
  PROVE  PlatformsKept'
<1> DEFINE Kept(c) ==
      LET listed == call[c].index[call[c].ver]
          cached == versions[Key(c)]
      IN /\ call[c].entry.platforms \subseteq listed
         /\ call[c].entry.complete => call[c].entry.platforms = listed
         /\ cached # None => listed \cap cached.platforms \subseteq call[c].entry.platforms
<1>1. PlatformsKept <=> \A c \in Callers : pc[c] \in Merging => Kept(c)
  BY DEF PlatformsKept, Merging
<1>2. SUFFICES \A c \in Callers : pc'[c] \in Merging => Kept(c)'
  BY DEF PlatformsKept, Merging
<1>3. \A d \in Callers : pc[d] \in Merging => HoldsVersion(d)
  BY DEF CallsInv, CallInv, OnRoute, Refreshing, Merging, HoldsVersion
<1>4. ASSUME NEW c \in Callers, StillStep(c) \/ DataStep(c) \/ Disconnect(c),
             NEW d \in Callers, pc'[d] \in Merging
      PROVE  Kept(d)'
  <2>1. Others(c) /\ KeepsRoutes
    BY <1>4, StillStepCalls, DataStepCalls
  <2>2. CASE d # c
    <3>1. pc[d] \in Merging /\ call'[d] = call[d] /\ Key(d)' = Key(d)
      BY <1>4, <2>1, <2>2 DEF Others, Key
    <3>2. versions'[Key(d)] = versions[Key(d)]
      BY <1>3, <1>4, <2>2, <3>1, VersionsStay
    <3> QED  BY <1>1, <3>1, <3>2
  <2>3. ASSUME d = c, NEW good \in SUBSET Platforms, NEW error \in Errors,
               FetchPackages(c, good, error)
        PROVE  Kept(d)'
    <3> DEFINE listed == call[c].index[call[c].ver]
               cached == versions[Key(c)]
    <3>1. /\ Continues(c, {"writeversion"}) /\ call'[c].index = call[c].index
          /\ call'[c].entry.platforms = Merged(c, good)
          /\ call'[c].entry.complete = (good = listed)
      BY <1>4, <2>3, FetchPackagesShape DEF Continues, Merging
    <3>2. Key(c)' = Key(c) /\ call'[c].ver = call[c].ver /\ good \subseteq listed
      BY <2>3, <3>1 DEF Continues, SameAddress, FetchPackages
    <3>3. UNCHANGED versions
      BY <2>3 DEF FetchPackages, memory
    <3>4. Merged(c, good) = good \cup (IF cached = None THEN {} ELSE listed \cap cached.platforms)
      BY DEF Merged
    <3>5. /\ Merged(c, good) \subseteq listed /\ (good = listed => Merged(c, good) = listed)
          /\ cached # None => listed \cap cached.platforms \subseteq Merged(c, good)
      BY <3>2, <3>4
    <3> QED  BY <2>3, <3>1, <3>2, <3>3, <3>5
  <2>4. CASE /\ d = c
             /\ \A good \in SUBSET Platforms, error \in Errors :
                  ~FetchPackages(c, good, error)
    <3>1. pc[c] \in Merging /\ call'[c] = call[c] /\ Key(c)' = Key(c)
      BY <1>4, <2>4, StepFrame DEF WritesAsBefore
    <3>2. HoldsVersion(c)' /\ ~LoadVersion(c)
      <4>1. CallInv(c)'
        BY <2>1 DEF KeepsRoutes, CallsInv
      <4>2. HoldsVersion(c)'
        BY <1>4, <2>4, <4>1 DEF CallInv, OnRoute, Refreshing, Merging, HoldsVersion
      <4> QED  BY <3>1, <4>2 DEF LoadVersion, Merging
    <3>3. UNCHANGED versions
      BY <1>4, <3>2, VersionsStay
    <3> QED  BY <1>1, <2>4, <3>1, <3>3
  <2> QED  BY <2>2, <2>3, <2>4
<1>5. CASE Restart
  BY <1>5 DEF Restart, Merging
<1>6. CASE \/ \E x \in late : LateRename(x[1], x[2])
           \/ Tick \/ (\E k \in Keys : Publish(k)) \/ UNCHANGED vars
  <2>1. UNCHANGED <<versions, pc, call>>
    BY <1>6 DEF LateRename, Tick, Publish, vars, memory
  <2>2. \A d \in Callers : Key(d)' = Key(d)
    BY <2>1 DEF Key
  <2> QED  BY <1>1, <2>1, <2>2
<1> QED  BY <1>4, <1>5, <1>6, NextSplit

-----------------------------------------------------------------------------
(* The maps of failures.  An entry j may have to go when the map is full.   *)
MayGo(failures, S, j) ==
  /\ Cardinality({i \in S : failures[i] > now}) >= MaxFailures
  /\ failures[j] > now /\ \A i \in S : failures[i] > now => failures[j] <= failures[i]

LEMMA RecordedFollows ==
  ASSUME NEW S, None \notin S, IsFiniteSet(S), NEW f \in [S -> RetryTimes], now \in Times,
         NEW h, Follows(f, h, S), NEW k \in S, NEW f2 \in Recorded(f, k),
         NEW h2, h2[k] = now, \A j \in S \ {k} : h2[j] = h[j]
  PROVE  /\ Follows(f2, h2, S) /\ Remembers(f2, h2, k)
         /\ \A j \in S \ {k} : Remembers(f, h, j) => Remembers(f2, h2, j) \/ MayGo(f, S, j)
<1>1. /\ f2 \in [S -> RetryTimes] /\ f2[k] = now + Backoff
      /\ \A j \in S \ {k} : f2[j] = f[j] \/ f2[j] = 0
      /\ \A j \in S \ {k} : f[j] > now /\ f2[j] # f[j] =>
              /\ Cardinality({i \in S : f[i] > now}) >= MaxFailures
              /\ \A i \in S : f[i] > now => f[j] <= f[i]
  BY RecordedFacts
<1>2. now \in Nat /\ now # None /\ now <= now
  BY NumberTypes
<1>3. Follows(f2, h2, S)
  <2>1. f2[k] # 0 => h2[k] # None /\ f2[k] = h2[k] + Backoff
    BY <1>1, <1>2
  <2>2. \A j \in S \ {k} : f2[j] # 0 => h2[j] # None /\ f2[j] = h2[j] + Backoff
    BY <1>1 DEF Follows
  <2>3. \A j \in S : h2[j] # None => h2[j] <= now
    BY <1>2 DEF Follows
  <2> QED  BY <2>1, <2>2, <2>3 DEF Follows
<1>4. Remembers(f2, h2, k)
  BY <1>1 DEF Remembers
<1>5. ASSUME NEW j \in S \ {k}, Remembers(f, h, j), ~Remembers(f2, h2, j)
      PROVE  MayGo(f, S, j)
  <2>1. Recent(h[j]) /\ f[j] = h[j] + Backoff /\ f2[j] # f[j]
    BY <1>5 DEF Remembers
  <2>2. now < f[j]
    BY <2>1 DEF Recent
  <2>3. f[j] > now
    BY <1>2, <2>2, NumberTypes
  <2> QED  BY <1>1, <2>1, <2>3 DEF MayGo
<1> QED  BY <1>3, <1>4, <1>5

(* Forgetting an entry with its failure. *)
LEMMA FollowsLess ==
  ASSUME NEW S, NEW f \in [S -> RetryTimes], NEW h, Follows(f, h, S), NEW k \in S,
         NEW h2, h2[k] = h[k] \/ h2[k] = None, \A j \in S \ {k} : h2[j] = h[j]
  PROVE  Follows(Cleared(f, k), h2, S)
  BY DEF Follows, Cleared

LEMMA RecentLater ==
  ASSUME now \in Nat, now' = now + 1, NEW t \in Times \cup {None}
  PROVE  (Recent(t)' => Recent(t)) /\ (t # None /\ t <= now => t <= now')
  BY NumberTypes DEF Recent

(* Where the maps of failures change. *)
LEMMA RetrySteps ==
  ASSUME TypeOK, NEW c \in Callers, StillStep(c) \/ DataStep(c) \/ Disconnect(c)
  PROVE  /\ ~Missed(c) => UNCHANGED <<missRetry, lastMiss>>
         /\ ~StoreIndex(c) /\ ~(\E error \in Errors : FailIndex(c, error)) =>
              UNCHANGED indexRetry /\ \A p \in Providers : lastFail'[p] = lastFail[p]
         /\ ~FailVersion(c) => /\ ~StoreVersion(c) => UNCHANGED versionRetry
                               /\ \A k \in Keys : lastFail'[k] = lastFail[k]
<1>1. CASE StillStep(c)
  BY <1>1, TypesSplit, StillSteps DEF Still, retries
<1>2. CASE Disconnect(c)
  BY <1>2 DEF Disconnect, retries
<1>3. /\ lastFail \in [Providers \cup Keys -> Times \cup {None}] /\ Providers \cap Keys = {}
      /\ Prov(c) \in Providers /\ Key(c) \in Keys
  BY TypesSplit, KeySets, CallFields DEF DataTypes
<1>4. CASE FailVersion(c)
  BY <1>3, <1>4 DEF FailVersion
<1>5. CASE StoreIndex(c)
  BY <1>3, <1>5 DEF StoreIndex
<1>6. CASE \E error \in Errors : FailIndex(c, error)
  BY <1>3, <1>6 DEF FailIndex
<1>7. CASE Missed(c) \/ StoreVersion(c)
  BY <1>7 DEF Missed, StoreVersion
<1>8. CASE \/ TakeVersionLock(c) \/ LoadVersion(c) \/ VersionUnreadable(c) \/ TakeIndexLock(c)
           \/ LoadIndex(c) \/ IndexUnreadable(c) \/ WriteIndex(c) \/ WriteVersion(c)
  BY <1>8 DEF TakeVersionLock, LoadVersion, VersionUnreadable, TakeIndexLock, LoadIndex,
       IndexUnreadable, WriteIndex, WriteVersion, retries
<1> QED  BY <1>1, <1>2, <1>4, <1>5, <1>6, <1>7, <1>8 DEF DataStep

LEMMA RetryTypes ==
  ASSUME TypeOK
  PROVE  /\ indexRetry \in [Providers -> RetryTimes] /\ missRetry \in [Providers -> RetryTimes]
         /\ versionRetry \in [Keys -> RetryTimes] /\ now \in Times /\ now \in Nat
         /\ \A p \in Providers : lastMiss[p] \in Times \cup {None} /\ lastFail[p] \in Times \cup {None}
         /\ \A k \in Keys : lastFail[k] \in Times \cup {None}
  BY TypesSplit, TypeFacts DEF DataTypes

LEMMA LiveProviders ==
  ASSUME NEW f, NEW p \in Providers
  PROVE  LET live == {q \in Providers : f[q] > now}
         IN /\ Cardinality(live) \in Nat /\ Cardinality(Providers) \in Nat
            /\ Cardinality(live) <= Cardinality(Providers)
            /\ p \notin live => Cardinality(live) < Cardinality(Providers)
<1> DEFINE live == {q \in Providers : f[q] > now}
<1>1. live \subseteq Providers /\ IsFiniteSet(Providers)
  BY KeySets
<1> HIDE DEF live
<1>2. /\ Cardinality(live) \in Nat /\ Cardinality(Providers) \in Nat
      /\ Cardinality(live) <= Cardinality(Providers)
  BY <1>1, FS_Subset, FS_CardinalityType
<1>3. p \notin live => Cardinality(live) < Cardinality(Providers)
  BY <1>1, <1>2, FS_Subset
<1> QED  BY <1>2, <1>3 DEF live

LEMMA IndexBackoffStep ==
  ASSUME TypeOK, CallsInv, IndexBackoff, [Next]_vars
  PROVE  IndexBackoff'
<1>1. \A d \in Callers : Prov(d) \in Providers
  BY TypeFacts, CallFields
<1>2. ASSUME UNCHANGED <<now, indexRetry>>, \A p \in Providers : lastFail'[p] = lastFail[p]
      PROVE  IndexBackoff'
  BY <1>2 DEF IndexBackoff, Follows, Remembers, Recent, Roomy
<1>3. ASSUME NEW c \in Callers, StoreIndex(c) PROVE IndexBackoff'
  <2>1. /\ indexRetry' = Cleared(indexRetry, Prov(c)) /\ lastFail' = [lastFail EXCEPT ![Prov(c)] = None]
        /\ UNCHANGED now
    BY <1>3 DEF StoreIndex, time
  <2>2. lastFail'[Prov(c)] = None /\ \A p \in Providers \ {Prov(c)} : lastFail'[p] = lastFail[p]
    BY <1>1, <2>1, TypesSplit DEF DataTypes
  <2>3. Follows(indexRetry', lastFail', Providers)
    BY <1>1, <2>1, <2>2, RetryTypes, FollowsLess DEF IndexBackoff
  <2>4. \A p \in Providers : Roomy(p) => Remembers(indexRetry', lastFail', p)
    BY <1>1, <2>1, <2>2, RetryTypes DEF IndexBackoff, Remembers, Recent, Cleared
  <2> QED  BY <2>1, <2>3, <2>4 DEF IndexBackoff, Follows, Remembers, Recent, Roomy
<1>4. ASSUME NEW c \in Callers, NEW error \in Errors, FailIndex(c, error)
      PROVE  IndexBackoff'
  <2>1. UNCHANGED now
    BY <1>4 DEF FailIndex, time
  <2>2. CASE error # "transient"
    BY <1>2, <1>4, <2>1, <2>2 DEF FailIndex, Noted
  <2>3. CASE error = "transient"
    <3>1. /\ indexRetry' \in Recorded(indexRetry, Prov(c))
          /\ lastFail' = [lastFail EXCEPT ![Prov(c)] = now]
      BY <1>4, <2>3 DEF FailIndex, Noted
    <3>2. lastFail'[Prov(c)] = now /\ \A p \in Providers \ {Prov(c)} : lastFail'[p] = lastFail[p]
      BY <1>1, <3>1, TypesSplit DEF DataTypes
    <3>3. /\ Follows(indexRetry', lastFail', Providers) /\ Remembers(indexRetry', lastFail', Prov(c))
          /\ \A p \in Providers \ {Prov(c)} : Remembers(indexRetry, lastFail, p) =>
               Remembers(indexRetry', lastFail', p) \/ MayGo(indexRetry, Providers, p)
      <4>1. /\ indexRetry \in [Providers -> RetryTimes] /\ now \in Times
            /\ Follows(indexRetry, lastFail, Providers) /\ Prov(c) \in Providers
        BY <1>1, RetryTypes DEF IndexBackoff
      <4>2. None \notin Providers /\ IsFiniteSet(Providers)
        BY KeySets
      <4> QED  BY <3>1, <3>2, <4>1, <4>2, RecordedFollows, ZenonT(60)
    <3>4. ASSUME NEW p \in Providers, Roomy(p) PROVE Remembers(indexRetry', lastFail', p)
      <4>1. CASE p = Prov(c)
        BY <3>3, <4>1
      <4>2. CASE p # Prov(c)
        <5>1. Cardinality(Providers) < MaxFailures
          BY <1>1, <3>4, <4>2 DEF Roomy
        <5>2. ~MayGo(indexRetry, Providers, p)
          BY <5>1, LiveProviders, NumberTypes DEF MayGo
        <5> QED  BY <3>3, <3>4, <4>2, <5>2 DEF IndexBackoff
      <4> QED  BY <4>1, <4>2
    <3> QED  BY <2>1, <3>3, <3>4 DEF IndexBackoff, Follows, Remembers, Recent, Roomy
  <2> QED  BY <2>2, <2>3
<1>5. ASSUME NEW c \in Callers, StillStep(c) \/ DataStep(c) \/ Disconnect(c) PROVE IndexBackoff'
  BY <1>2, <1>3, <1>4, <1>5, RetrySteps, MemorySteps
<1>6. CASE Restart
  <2>1. \A p \in Providers : indexRetry'[p] = 0 /\ lastFail'[p] = None
    BY <1>6 DEF Restart
  <2> QED  BY <2>1 DEF IndexBackoff, Follows, Remembers, Recent
<1>7. CASE Tick
  <2>1. UNCHANGED <<indexRetry, lastFail>> /\ now' = now + 1
    BY <1>7 DEF Tick, retries
  <2>2. \A p \in Providers : /\ lastFail[p] # None => lastFail[p] <= now'
                             /\ Remembers(indexRetry, lastFail, p) => Remembers(indexRetry, lastFail, p)'
    BY <2>1, RetryTypes, RecentLater DEF IndexBackoff, Follows, Remembers
  <2> QED  BY <2>1, <2>2 DEF IndexBackoff, Follows, Roomy
<1>8. CASE \/ \E x \in late : LateRename(x[1], x[2])
           \/ (\E k \in Keys : Publish(k)) \/ UNCHANGED vars
  BY <1>2, <1>8 DEF LateRename, Publish, vars, time, retries
<1> QED  BY <1>5, <1>6, <1>7, <1>8, NextSplit

LEMMA MissBackoffStep ==
  ASSUME TypeOK, CallsInv, MissBackoff, [Next]_vars
  PROVE  MissBackoff'
<1>1. ASSUME UNCHANGED <<now, missRetry, lastMiss>> PROVE MissBackoff'
  BY <1>1 DEF MissBackoff, Follows, Remembers, Recent
<1>2. ASSUME NEW c \in Callers, Missed(c), NeedsRefresh(c, Latest(c)) PROVE MissBackoff'
  <2>1. /\ missRetry' \in Recorded(missRetry, Prov(c)) /\ now >= missRetry[Prov(c)]
        /\ lastMiss' = [lastMiss EXCEPT ![Prov(c)] = now] /\ UNCHANGED now
    BY <1>2 DEF Missed, Latest, NeedsRefresh, Allowed, time
  <2>2. /\ missRetry \in [Providers -> RetryTimes] /\ now \in Times /\ now \in Nat
        /\ Follows(missRetry, lastMiss, Providers) /\ Prov(c) \in Providers
    BY RetryTypes, TypeFacts, CallFields DEF MissBackoff
  <2>3. None \notin Providers /\ IsFiniteSet(Providers)
    BY KeySets
  <2>4. lastMiss'[Prov(c)] = now /\ \A p \in Providers \ {Prov(c)} : lastMiss'[p] = lastMiss[p]
    BY <2>1, <2>2, TypesSplit DEF DataTypes
  <2>5. /\ Follows(missRetry', lastMiss', Providers) /\ Remembers(missRetry', lastMiss', Prov(c))
        /\ \A p \in Providers \ {Prov(c)} : Remembers(missRetry, lastMiss, p) =>
             Remembers(missRetry', lastMiss', p) \/ MayGo(missRetry, Providers, p)
    BY <2>1, <2>2, <2>3, <2>4, RecordedFollows, ZenonT(60)
  <2>6. ASSUME NEW p \in Providers, Cardinality(Providers) <= MaxFailures
        PROVE  Remembers(missRetry', lastMiss', p)
    <3>1. CASE p = Prov(c)
      BY <2>5, <3>1
    <3>2. CASE p # Prov(c)
      <4> DEFINE live == {q \in Providers : missRetry[q] > now}
      <4>1. Prov(c) \notin live
        <5>1. missRetry[Prov(c)] \in Nat
          BY <2>2, NumberTypes
        <5> QED  BY <2>1, <2>2, <5>1
      <4>2. Cardinality(live) < Cardinality(Providers) /\ Cardinality(live) \in Nat
            /\ Cardinality(Providers) \in Nat
        BY <2>2, <4>1, LiveProviders
      <4>3. ~MayGo(missRetry, Providers, p)
        BY <2>6, <4>2, NumberTypes DEF MayGo
      <4> QED  BY <2>5, <2>6, <3>2, <4>3 DEF MissBackoff
    <3> QED  BY <3>1, <3>2
  <2> QED  BY <2>1, <2>5, <2>6 DEF MissBackoff, Follows, Remembers, Recent
<1>3. ASSUME NEW c \in Callers, StillStep(c) \/ DataStep(c) \/ Disconnect(c) PROVE MissBackoff'
  <2>1. CASE Missed(c) /\ NeedsRefresh(c, Latest(c))
    BY <1>2, <2>1
  <2>2. CASE ~(Missed(c) /\ NeedsRefresh(c, Latest(c)))
    <3>1. UNCHANGED <<missRetry, lastMiss>>
      BY <1>3, <2>2, RetrySteps DEF Missed, Latest
    <3> QED  BY <1>1, <1>3, <3>1, MemorySteps
  <2> QED  BY <2>1, <2>2
<1>4. CASE Restart
  <2>1. \A p \in Providers : missRetry'[p] = 0 /\ lastMiss'[p] = None
    BY <1>4 DEF Restart
  <2> QED  BY <2>1 DEF MissBackoff, Follows, Remembers, Recent
<1>5. CASE Tick
  <2>1. UNCHANGED <<missRetry, lastMiss>> /\ now' = now + 1
    BY <1>5 DEF Tick, retries
  <2>2. \A p \in Providers : /\ lastMiss[p] # None => lastMiss[p] <= now'
                             /\ Remembers(missRetry, lastMiss, p) => Remembers(missRetry, lastMiss, p)'
    BY <2>1, RetryTypes, RecentLater DEF MissBackoff, Follows, Remembers
  <2> QED  BY <2>1, <2>2 DEF MissBackoff, Follows
<1>6. CASE \/ \E x \in late : LateRename(x[1], x[2])
           \/ (\E k \in Keys : Publish(k)) \/ UNCHANGED vars
  BY <1>1, <1>6 DEF LateRename, Publish, vars, time, retries
<1> QED  BY <1>3, <1>4, <1>5, <1>6, NextSplit

-----------------------------------------------------------------------------
(* The failures of versions: one that is forgotten too early has been       *)
(* crowded out by later ones.                                               *)
Crowd(k) == {j \in Keys \ {k} : Recent(lastFail[j]) /\ lastFail[j] >= lastFail[k]}

LEMMA CrowdFinite ==
  ASSUME NEW k \in Keys
  PROVE  IsFiniteSet(Crowd(k)) /\ Cardinality(Crowd(k)) \in Nat /\ Crowd(k) \subseteq Keys \ {k}
<1>1. Crowd(k) \subseteq Keys \ {k} /\ Crowd(k) \subseteq Keys
  BY DEF Crowd
<1> QED  BY <1>1, KeySets, FS_Subset, FS_CardinalityType

(* A larger crowd is a crowd. *)
LEMMA CrowdGrows ==
  ASSUME NEW k \in Keys, Crowd(k) \subseteq Crowd(k)', CrowdedOut(k)
  PROVE  CrowdedOut(k)'
<1>1. Crowd(k)' \subseteq Keys
  BY DEF Crowd
<1>2. IsFiniteSet(Crowd(k)')
  BY <1>1, KeySets, FS_Subset
<1>3. Cardinality(Crowd(k)) <= Cardinality(Crowd(k)') /\ Cardinality(Crowd(k)') \in Nat
  BY <1>2, FS_Subset, FS_CardinalityType
<1>4. Cardinality(Crowd(k)) >= MaxFailures
  BY DEF CrowdedOut, Crowd
<1>5. Cardinality(Crowd(k)') >= MaxFailures
  BY <1>3, <1>4, CrowdFinite, NumberTypes
<1> QED  BY <1>5 DEF CrowdedOut, Crowd

(* An entry that has to go for that of k has been crowded out. *)
LEMMA GoneIsCrowdedOut ==
  ASSUME TypeOK, Follows(versionRetry, lastFail, Keys), UNCHANGED now,
         NEW k \in Keys, versionRetry[k] <= now, lastFail'[k] = now,
         \A j \in Keys \ {k} : lastFail'[j] = lastFail[j],
         NEW j \in Keys \ {k}, MayGo(versionRetry, Keys, j)
  PROVE  CrowdedOut(j)'
<1> DEFINE live == {i \in Keys : versionRetry[i] > now}
           crowd == (live \ {j}) \cup {k}
<1>1. /\ now \in Nat /\ Backoff \in Nat /\ Backoff > 0 /\ MaxFailures \in Nat /\ now # None
      /\ \A i \in Keys : versionRetry[i] \in Nat /\ lastFail[i] \in Nat \cup {None}
  BY RetryTypes, NumberTypes
<1>2. live \subseteq Keys /\ IsFiniteSet(Keys) /\ j \in live /\ k \notin live
  BY <1>1, KeySets DEF MayGo
<1>3. \A i \in live : /\ lastFail[i] \in Nat /\ versionRetry[i] = lastFail[i] + Backoff
                      /\ lastFail[i] >= lastFail[j] /\ Recent(lastFail[i])
  <2>1. \A i \in live : lastFail[i] # None /\ versionRetry[i] = lastFail[i] + Backoff
    BY <1>1 DEF Follows
  <2>2. \A i \in live : lastFail[i] \in Nat
    BY <1>1, <2>1
  <2>3. \A i \in live : versionRetry[j] <= versionRetry[i]
    BY DEF MayGo
  <2>4. \A i \in live : lastFail[i] >= lastFail[j]
    BY <1>1, <1>2, <2>1, <2>2, <2>3
  <2>5. \A i \in live : Recent(lastFail[i])
    BY <1>1, <2>1, <2>2 DEF Recent
  <2> QED  BY <2>1, <2>2, <2>4, <2>5
<1>4. crowd \subseteq Crowd(j)'
  <2>1. ASSUME NEW i \in live \ {j} PROVE i \in Crowd(j)'
    BY <1>2, <1>3 DEF Crowd, Recent
  <2>2. k \in Crowd(j)'
    <3>1. lastFail[j] <= now
      <4>1. lastFail[j] # None
        BY <1>2, <1>3, NumberTypes
      <4> QED  BY <4>1 DEF Follows
    <3>2. Recent(now)'
      BY <1>1 DEF Recent
    <3>3. Recent(lastFail[k])'
      BY <1>1 DEF Recent
    <3> QED  BY <1>1, <1>2, <1>3, <3>1, <3>3 DEF Crowd
  <2> QED  BY <2>1, <2>2
<1>5. Crowd(j)' \subseteq Keys
  BY DEF Crowd
<1> HIDE DEF live
<1>6. IsFiniteSet(live) /\ Cardinality(live) \in Nat
  BY <1>2, FS_Subset, FS_CardinalityType
<1>7. Cardinality(live) >= MaxFailures
  BY DEF MayGo, live
<1>8. /\ Cardinality(live \ {j}) = Cardinality(live) - 1 /\ IsFiniteSet(live \ {j})
  BY <1>2, <1>6, FS_RemoveElement
<1>9. Cardinality(crowd) = Cardinality(live \ {j}) + 1
  BY <1>2, <1>8, FS_AddElement
<1> HIDE DEF crowd
<1>10. IsFiniteSet(Crowd(j)')
  BY <1>2, <1>5, FS_Subset
<1>11. Cardinality(crowd) <= Cardinality(Crowd(j)') /\ Cardinality(Crowd(j)') \in Nat
  BY <1>4, <1>10, FS_Subset, FS_CardinalityType
<1>12. Cardinality(Crowd(j)') >= MaxFailures
  BY <1>1, <1>6, <1>7, <1>8, <1>9, <1>11
<1> QED  BY <1>12 DEF CrowdedOut, Crowd

(* The failures of versions stay as they are. *)
LEMMA VersionBackoffFrame ==
  ASSUME TypeOK, LockInv, VersionBackoff, NEW c \in Callers, Others(c), UNCHANGED <<now, versionRetry>>,
         \A k \in Keys : lastFail'[k] = lastFail[k],
         HoldsVersion(c)' /\ pc'[c] # "loadversion" =>
           Key(c)' = Key(c) /\ versionRetry[Key(c)] <= now /\ Excused(Key(c))
  PROVE  VersionBackoff'
<1>0. \A d \in Callers : Key(d) \in Keys
  BY TypeFacts, CallFields
<1>1. \A k \in Keys : Recent(lastFail[k])' = Recent(lastFail[k])
  BY DEF Recent
<1>2. \A k \in Keys : Crowd(k)' = Crowd(k)
  BY <1>1 DEF Crowd
<1>3. \A k \in Keys : CrowdedOut(k)' = CrowdedOut(k)
  BY <1>2 DEF CrowdedOut, Crowd
<1>4. Follows(versionRetry, lastFail, Keys)'
  BY DEF VersionBackoff, Follows
<1>5. \A k \in Keys : Remembers(versionRetry, lastFail, k)' \/ CrowdedOut(k)'
  BY <1>1, <1>3 DEF VersionBackoff, Remembers
<1>6. ASSUME NEW d \in Callers, HoldsVersion(d)', pc'[d] # "loadversion"
      PROVE  Key(d)' = Key(d) /\ versionRetry[Key(d)] <= now /\ Excused(Key(d))
  <2>1. CASE d # c
    <3>1. HoldsVersion(d) /\ pc[d] # "loadversion" /\ Key(d)' = Key(d)
      BY <1>6, <2>1 DEF Others, HoldsVersion, Key
    <3> QED  BY <3>1 DEF VersionBackoff
  <2> QED  BY <1>6, <2>1
<1>7. \A d \in Callers : HoldsVersion(d)' /\ pc'[d] # "loadversion" =>
        versionRetry'[Key(d)'] <= now' /\ Excused(Key(d))'
  BY <1>0, <1>1, <1>3, <1>6 DEF Excused
<1> QED  BY <1>4, <1>5, <1>7 DEF VersionBackoff

LEMMA StoreVersionBackoff ==
  ASSUME TypeOK, CallsInv, LockInv, VersionBackoff, NEW c \in Callers, StoreVersion(c)
  PROVE  VersionBackoff'
<1>0. \A d \in Callers : Key(d) \in Keys
  BY TypeFacts, CallFields
<1>1. PICK k \in Keys : k = Key(c)
  BY <1>0
<1>2. versionRetry' = Cleared(versionRetry, k) /\ UNCHANGED <<now, lastFail>>
  BY <1>1 DEF StoreVersion, time
<1>3. Others(c) /\ ~HoldsVersion(c)'
  BY EndShapes, EndsFree DEF Ends
<1>4. HoldsVersion(c) /\ pc[c] # "loadversion"
  BY DEF StoreVersion, HoldsVersion, CallsInv, CallInv, OnRoute, Refreshing, Merging
<1>5. versionRetry \in [Keys -> RetryTimes] /\ Excused(k)
  BY <1>1, <1>4, RetryTypes DEF VersionBackoff
<1>6. versionRetry'[k] = 0 /\ \A j \in Keys \ {k} : versionRetry'[j] = versionRetry[j]
  BY <1>1, <1>2, <1>5 DEF Cleared
<1>7. \A j \in Keys : /\ Recent(lastFail[j])' = Recent(lastFail[j])
                      /\ CrowdedOut(j)' = CrowdedOut(j)
  BY <1>2 DEF Recent, CrowdedOut
<1>8. Follows(versionRetry', lastFail, Keys)
  BY <1>1, <1>2, <1>5, FollowsLess DEF VersionBackoff
<1>9. \A j \in Keys : Remembers(versionRetry, lastFail, j)' \/ CrowdedOut(j)'
  <2>1. \A j \in Keys \ {k} : Remembers(versionRetry, lastFail, j)' \/ CrowdedOut(j)'
    BY <1>2, <1>6, <1>7 DEF VersionBackoff, Remembers
  <2>2. Remembers(versionRetry, lastFail, k)' \/ CrowdedOut(k)'
    BY <1>1, <1>2, <1>5, <1>7 DEF Excused, Remembers
  <2> QED  BY <2>1, <2>2
<1>10. ASSUME NEW d \in Callers, HoldsVersion(d)', pc'[d] # "loadversion"
       PROVE  versionRetry'[Key(d)'] <= now' /\ Excused(Key(d))'
  <2>1. d # c
    BY <1>3, <1>10
  <2>2. HoldsVersion(d) /\ pc[d] # "loadversion" /\ Key(d)' = Key(d)
    BY <1>3, <1>10, <2>1 DEF Others, HoldsVersion, Key
  <2>3. Key(d) # k
    BY <1>0, <1>1, <1>4, <2>1, <2>2, AloneRefreshing
  <2>4. versionRetry[Key(d)] <= now /\ Excused(Key(d))
    BY <2>2 DEF VersionBackoff
  <2> QED  BY <1>0, <1>2, <1>6, <1>7, <2>2, <2>3, <2>4 DEF Excused
<1>11. Follows(versionRetry, lastFail, Keys)'
  BY <1>2, <1>8 DEF Follows
<1> QED  BY <1>9, <1>10, <1>11 DEF VersionBackoff

LEMMA FailVersionBackoff ==
  ASSUME TypeOK, CallsInv, LockInv, VersionBackoff, NEW c \in Callers, FailVersion(c),
         call[c].result = "transient"
  PROVE  VersionBackoff'
<1>0. \A d \in Callers : Key(d) \in Keys
  BY TypeFacts, CallFields
<1>1. PICK k \in Keys : k = Key(c)
  BY <1>0
<1>2. /\ versionRetry' \in Recorded(versionRetry, k) /\ UNCHANGED now
      /\ lastFail' = [lastFail EXCEPT ![k] = now]
  BY <1>1 DEF FailVersion, time, Noted
<1>3. Others(c) /\ ~HoldsVersion(c)'
  BY EndShapes, EndsFree DEF Ends
<1>4. HoldsVersion(c) /\ pc[c] # "loadversion"
  BY DEF FailVersion, HoldsVersion, CallsInv, CallInv, OnRoute, Refreshing, Merging
<1>5. /\ versionRetry \in [Keys -> RetryTimes] /\ now \in Times /\ now \in Nat
      /\ versionRetry[k] <= now /\ Follows(versionRetry, lastFail, Keys)
  BY <1>1, <1>4, RetryTypes DEF VersionBackoff
<1>6. lastFail'[k] = now /\ \A j \in Keys \ {k} : lastFail'[j] = lastFail[j]
  BY <1>1, <1>2, TypesSplit DEF DataTypes
<1>7. None \notin Keys /\ IsFiniteSet(Keys)
  BY KeySets
<1>8. /\ Follows(versionRetry', lastFail', Keys) /\ Remembers(versionRetry', lastFail', k)
      /\ \A j \in Keys \ {k} : Remembers(versionRetry, lastFail, j) =>
           Remembers(versionRetry', lastFail', j) \/ MayGo(versionRetry, Keys, j)
  <2>1. /\ versionRetry \in [Keys -> RetryTimes] /\ now \in Times
        /\ Follows(versionRetry, lastFail, Keys) /\ k \in Keys
    BY <1>5
  <2>2. versionRetry' \in Recorded(versionRetry, k)
    BY <1>2
  <2> QED  BY <1>6, <1>7, <2>1, <2>2, RecordedFollows
<1>9. ASSUME NEW j \in Keys \ {k}, CrowdedOut(j), Recent(lastFail[j]) PROVE CrowdedOut(j)'
  <2>1. \A i \in Keys \ {k} : Recent(lastFail[i])' = Recent(lastFail[i])
    BY <1>2, <1>6 DEF Recent
  <2>2. Recent(lastFail[k])' /\ lastFail'[k] >= lastFail'[j]
    <3>1. lastFail[j] # None /\ lastFail[j] \in Nat /\ now # None
      BY <1>5, <1>9, RetryTypes, NumberTypes DEF Recent
    <3>2. lastFail[j] <= now
      BY <1>5, <3>1 DEF Follows
    <3>3. now < now + Backoff
      BY <1>5, NumberTypes
    <3> QED  BY <1>2, <1>5, <1>6, <3>1, <3>2, <3>3 DEF Recent
  <2>3. Crowd(j) \subseteq Crowd(j)'
    BY <1>1, <1>6, <2>1, <2>2 DEF Crowd
  <2> QED  BY <1>9, <2>3, CrowdGrows
<1>10. ASSUME NEW j \in Keys \ {k} PROVE Recent(lastFail[j])' = Recent(lastFail[j])
  BY <1>2, <1>6 DEF Recent
<1>11. ASSUME NEW j \in Keys PROVE Remembers(versionRetry', lastFail', j) \/ CrowdedOut(j)'
  <2>1. CASE j = k
    BY <1>8, <2>1
  <2>2. CASE j # k /\ Remembers(versionRetry, lastFail, j)
    BY <1>1, <1>2, <1>5, <1>6, <1>8, <2>2, GoneIsCrowdedOut
  <2>3. CASE j # k /\ ~Remembers(versionRetry, lastFail, j)
    <3>1. Recent(lastFail[j]) /\ CrowdedOut(j)
      BY <2>3 DEF VersionBackoff, Remembers
    <3> QED  BY <1>9, <2>3, <3>1
  <2> QED  BY <2>1, <2>2, <2>3
<1>12. ASSUME NEW d \in Callers, HoldsVersion(d)', pc'[d] # "loadversion"
       PROVE  versionRetry'[Key(d)'] <= now' /\ Excused(Key(d))'
  <2>1. d # c
    BY <1>3, <1>12
  <2>2. HoldsVersion(d) /\ pc[d] # "loadversion" /\ Key(d)' = Key(d)
    BY <1>3, <1>12, <2>1 DEF Others, HoldsVersion, Key
  <2>3. Key(d) \in Keys \ {k}
    BY <1>0, <1>1, <1>4, <2>1, <2>2, AloneRefreshing
  <2>4. versionRetry[Key(d)] <= now /\ Excused(Key(d))
    BY <2>2 DEF VersionBackoff
  <2>5. versionRetry'[Key(d)] = versionRetry[Key(d)] \/ versionRetry'[Key(d)] = 0
    BY <1>1, <1>2, <1>5, <1>7, <2>3, RecordedFacts
  <2>6. versionRetry'[Key(d)] <= now
    BY <1>5, <2>4, <2>5
  <2>7. Excused(Key(d))'
    BY <1>9, <1>10, <2>2, <2>3, <2>4 DEF Excused
  <2> QED  BY <1>2, <2>2, <2>6, <2>7
<1>13. Follows(versionRetry, lastFail, Keys)' /\ \A j \in Keys :
         Remembers(versionRetry, lastFail, j)' \/ CrowdedOut(j)'
  BY <1>2, <1>8, <1>11 DEF Follows, Remembers, Recent
<1> QED  BY <1>12, <1>13 DEF VersionBackoff

LEMMA VersionBackoffStep ==
  ASSUME TypeOK, CallsInv, LockInv, VersionBackoff, [Next]_vars
  PROVE  VersionBackoff'
<1>0. \A d \in Callers : Key(d) \in Keys
  BY TypeFacts, CallFields
<1>1. ASSUME NEW c \in Callers, StillStep(c) \/ DataStep(c) \/ Disconnect(c) PROVE VersionBackoff'
  <2>1. Others(c) /\ UNCHANGED now
    BY <1>1, StillStepCalls, DataStepCalls, MemorySteps
  <2>2. CASE LoadVersion(c)
    <3>1. UNCHANGED <<versionRetry, lastFail>>
      BY <2>2 DEF LoadVersion, retries
    <3>2. ASSUME HoldsVersion(c)'
          PROVE  Key(c)' = Key(c) /\ versionRetry[Key(c)] <= now /\ Excused(Key(c))
      <4>1. Continues(c, {"index"})
        BY <2>2, <3>2, VersionShapes, EndsFree
      <4>2. pc'[c] = "index" /\ Key(c)' = Key(c)
        BY <4>1 DEF Continues, SameAddress
      <4>3. now >= versionRetry[Key(c)]
        BY <2>2, <4>2 DEF LoadVersion, Return, Goto, TypeOK, Allowed
      <4>4. now \in Nat /\ versionRetry[Key(c)] \in Nat
        BY <1>0, TypeFacts
      <4>5. versionRetry[Key(c)] <= now /\ ~(now < versionRetry[Key(c)])
        BY <4>3, <4>4
      <4>6. Remembers(versionRetry, lastFail, Key(c)) \/ CrowdedOut(Key(c))
        BY <1>0 DEF VersionBackoff
      <4>7. Excused(Key(c))
        BY <4>5, <4>6 DEF Excused, Remembers, Recent
      <4> QED  BY <4>2, <4>5, <4>7
    <3> QED  BY <2>1, <3>1, <3>2, VersionBackoffFrame
  <2>3. ASSUME UNCHANGED versionRetry, \A k \in Keys : lastFail'[k] = lastFail[k], ~LoadVersion(c)
        PROVE  VersionBackoff'
    <3>1. HoldsVersion(c)' /\ pc'[c] # "loadversion" =>
            Key(c)' = Key(c) /\ versionRetry[Key(c)] <= now /\ Excused(Key(c))
      BY <1>1, <2>3, StepFrame DEF HoldsAsBefore, VersionBackoff
    <3> QED  BY <2>1, <2>3, <3>1, VersionBackoffFrame
  <2>4. CASE FailVersion(c)
    <3>1. CASE call[c].result # "transient"
      <4>1. UNCHANGED <<versionRetry, lastFail>> /\ ~LoadVersion(c)
        BY <2>4, <3>1 DEF FailVersion, Noted, LoadVersion
      <4> QED  BY <2>3, <4>1
    <3> QED  BY <2>4, <3>1, FailVersionBackoff
  <2>5. CASE StoreVersion(c)
    BY <2>5, StoreVersionBackoff
  <2> QED  BY <1>1, <2>2, <2>3, <2>4, <2>5, RetrySteps
<1>2. CASE Restart
  <2>1. \A k \in Keys : versionRetry'[k] = 0 /\ lastFail'[k] = None
    BY <1>2 DEF Restart
  <2>2. \A d \in Callers : pc'[d] = "idle" /\ call'[d] = NoCall
    BY <1>2 DEF Restart
  <2>3. \A d \in Callers : ~HoldsVersion(d)'
    BY <2>2, NoCallType DEF HoldsVersion
  <2> QED  BY <2>1, <2>3 DEF VersionBackoff, Follows, Remembers, Recent
<1>3. CASE Tick
  <2>1. UNCHANGED <<versionRetry, lastFail, pc, call>> /\ now' = now + 1 /\ now \in Nat
    BY <1>3, TypeFacts DEF Tick, retries
  <2>2. \A k \in Keys : /\ lastFail[k] # None => lastFail[k] <= now'
                        /\ Recent(lastFail[k])' => Recent(lastFail[k])
    BY <2>1, RetryTypes, RecentLater DEF VersionBackoff, Follows
  <2>3. ASSUME NEW k \in Keys, Recent(lastFail[k])', CrowdedOut(k) PROVE CrowdedOut(k)'
    <3>1. ASSUME NEW j \in Crowd(k) PROVE j \in Crowd(k)'
      <4>1. j \in Keys \ {k} /\ Recent(lastFail[j]) /\ lastFail[j] >= lastFail[k]
        BY <3>1 DEF Crowd
      <4>2. lastFail[j] # None /\ lastFail[k] # None /\ now' < lastFail[k] + Backoff
        BY <2>1, <2>3, <4>1 DEF Recent
      <4>3. lastFail[j] \in Nat /\ lastFail[k] \in Nat /\ Backoff \in Nat
        BY <4>1, <4>2, RetryTypes, NumberTypes
      <4>4. now' < lastFail[j] + Backoff
        BY <2>1, <4>1, <4>2, <4>3
      <4> QED  BY <2>1, <4>1, <4>2, <4>4 DEF Crowd, Recent
    <3> QED  BY <2>3, <3>1, CrowdGrows
  <2>4. \A k \in Keys : Excused(k) => Excused(k)'
    BY <2>1, <2>2, <2>3 DEF Excused
  <2>5. \A k \in Keys : Remembers(versionRetry, lastFail, k)' \/ CrowdedOut(k)'
    BY <2>1, <2>2, <2>3 DEF VersionBackoff, Remembers
  <2>6. ASSUME NEW d \in Callers, HoldsVersion(d)', pc'[d] # "loadversion"
        PROVE  versionRetry'[Key(d)'] <= now' /\ Excused(Key(d))'
    <3>1. HoldsVersion(d) /\ pc[d] # "loadversion" /\ Key(d)' = Key(d)
      BY <2>1, <2>6 DEF HoldsVersion, Key
    <3>2. versionRetry[Key(d)] <= now /\ Excused(Key(d)) /\ versionRetry[Key(d)] \in Nat
      BY <1>0, <3>1, TypeFacts DEF VersionBackoff
    <3>3. versionRetry[Key(d)] <= now'
      BY <2>1, <3>2
    <3>4. PICK k \in Keys : k = Key(d)
      BY <1>0
    <3>5. Excused(k)'
      BY <2>4, <3>2, <3>4
    <3> QED  BY <2>1, <3>1, <3>3, <3>4, <3>5
  <2>7. Follows(versionRetry, lastFail, Keys)'
    BY <2>1, <2>2 DEF VersionBackoff, Follows
  <2> QED  BY <2>5, <2>6, <2>7 DEF VersionBackoff
<1>4. CASE \/ \E x \in late : LateRename(x[1], x[2])
           \/ (\E k \in Keys : Publish(k)) \/ UNCHANGED vars
  <2>1. UNCHANGED <<now, versionRetry, lastFail, pc, call>>
    BY <1>4 DEF LateRename, Publish, vars, time, retries
  <2> QED  BY <2>1 DEF VersionBackoff, Follows, Remembers, Recent, Excused, CrowdedOut, HoldsVersion, Key
<1> QED  BY <1>1, <1>2, <1>3, <1>4, NextSplit

-----------------------------------------------------------------------------
(* The flag of sync_known. *)
SyncAsBefore(c) ==
  /\ UNCHANGED syncing
  /\ (call'[c].op = "sync" /\ pc'[c] # "done") <=> (call[c].op = "sync" /\ pc[c] # "done")
SyncStarts(c) == ~syncing /\ syncing' /\ call'[c].op = "sync" /\ pc'[c] # "done"
SyncStops(c) ==
  /\ ~syncing' /\ call[c].op = "sync" /\ pc[c] # "done"
  /\ ~(call'[c].op = "sync" /\ pc'[c] # "done")

LEMMA SyncSteps ==
  ASSUME TypeOK, CallsInv, NEW c \in Callers, StillStep(c) \/ DataStep(c) \/ Disconnect(c)
  PROVE  SyncAsBefore(c) \/ SyncStarts(c) \/ SyncStops(c)
<1>1. CallTypes /\ CallInv(c) /\ call[c] \in Calls /\ syncing \in BOOLEAN
  BY TypesSplit DEF CallsInv, CallTypes, DataTypes
<1>2. call[c].op = "sync" => pc[c] \in {"nextprovider", "indexlock"} \cup Refreshing
  BY <1>1 DEF CallInv, OnRoute
<1>3. pc[c] = "idle" => call[c].op = "list"
  BY <1>1 DEF CallInv, OnRoute, Refreshing, Merging
<1>4. ASSUME UNCHANGED syncing, Ends(c), call[c].op # "sync" PROVE SyncAsBefore(c)
  BY <1>4 DEF SyncAsBefore, Ends, EndsCall
<1>5. ASSUME UNCHANGED syncing, NEW S, Continues(c, S), "done" \notin S, pc[c] # "done"
      PROVE  SyncAsBefore(c)
  BY <1>5 DEF SyncAsBefore, Continues, SameAddress
<1>6. CASE \/ \E p \in Providers : List(c, p)
           \/ \E k \in Keys : GetVersion(c, k)
           \/ Refuse(c)
  <2>1. pc[c] = "idle" /\ UNCHANGED syncing
    BY <1>6 DEF List, GetVersion, Refuse
  <2>2. call'[c].op # "sync"
    <3>1. CASE Refuse(c)
      BY <1>1, <3>1, ReturnShape DEF Refuse, Results, Ends, EndsCall
    <3>2. CASE \E p \in Providers : List(c, p)
      <4>1. PICK p \in Providers : List(c, p)
        BY <3>2
      <4>2. call'[c] = [call[c] EXCEPT !.prov = p]
        BY <1>1, <4>1 DEF List, CallTypes
      <4> QED  BY <1>1, <1>3, <2>1, <4>2 DEF Calls
    <3>3. CASE \E k \in Keys : GetVersion(c, k)
      <4>1. PICK k \in Keys : GetVersion(c, k)
        BY <3>3
      <4>2. call'[c] = [call[c] EXCEPT !.op = "version", !.prov = k[1], !.ver = k[2]]
        BY <1>1, <4>1 DEF GetVersion, CallTypes
      <4> QED  BY <1>1, <4>2 DEF Calls
    <3> QED  BY <1>6, <3>1, <3>2, <3>3
  <2> QED  BY <1>3, <2>1, <2>2 DEF SyncAsBefore
<1>7. CASE Sync(c)
  <2>1. pc[c] = "idle"
    BY <1>7 DEF Sync
  <2>2. CASE syncing
    <3>1. Ends(c) /\ UNCHANGED syncing
      BY <1>1, <1>7, <2>2, ReturnShape DEF Sync, Results
    <3> QED  BY <1>3, <1>4, <2>1, <3>1
  <2>3. CASE ~syncing
    <3> DEFINE known == {p \in Providers : indices[p] # None}
    <3>1. /\ syncing' = TRUE /\ Goto(c, "nextprovider")
          /\ call' = [call EXCEPT ![c].op = "sync", ![c].why = "sync", ![c].todo = known]
      BY <1>7, <2>3 DEF Sync
    <3> HIDE DEF known
    <3>2. call'[c] = [call[c] EXCEPT !.op = "sync", !.why = "sync", !.todo = known]
      BY <1>1, <3>1 DEF CallTypes
    <3>3. call'[c].op = "sync" /\ pc'[c] = "nextprovider"
      BY <1>1, <3>1, <3>2 DEF Calls, Goto, CallTypes
    <3> QED  BY <2>3, <3>1, <3>3 DEF SyncStarts
  <2> QED  BY <2>2, <2>3
<1>8. CASE NextProvider(c)
  <2>1. pc[c] = "nextprovider" /\ call[c].op = "sync"
    BY <1>1, <1>8 DEF NextProvider, CallInv, OnRoute, Refreshing, Merging
  <2>2. CASE call[c].todo = {}
    <3> DEFINE r == IF call[c].result = "none" THEN "ok" ELSE call[c].result
    <3>1. Return(c, r) /\ syncing' = FALSE
      BY <1>8, <2>2 DEF NextProvider
    <3>2. r \in Results
      BY <1>1, CallFields DEF Results
    <3> HIDE DEF r
    <3>3. Ends(c)
      BY <1>1, <3>1, <3>2, ReturnShape
    <3> QED  BY <2>1, <3>1, <3>3 DEF SyncStops, Ends, EndsCall
  <2>3. CASE call[c].todo # {}
    <3>1. PICK p \in call[c].todo : /\ call' = [call EXCEPT ![c].prov = p, ![c].todo = @ \ {p}]
                                    /\ Goto(c, "indexlock") /\ UNCHANGED syncing
      BY <1>8, <2>3 DEF NextProvider
    <3>2. call'[c] = [call[c] EXCEPT !.prov = p, !.todo = @ \ {p}]
      BY <1>1, <3>1 DEF CallTypes
    <3>3. call'[c].op = call[c].op /\ pc'[c] = "indexlock"
      BY <1>1, <3>1, <3>2 DEF Calls, Goto, CallTypes
    <3> QED  BY <2>1, <3>1, <3>3 DEF SyncAsBefore
  <2> QED  BY <2>2, <2>3
<1>9. CASE LookVersion(c) \/ TakeVersionLock(c) \/ LoadVersion(c) \/ VersionUnreadable(c)
  <2>1. UNCHANGED syncing /\ call[c].op # "sync" /\ pc[c] # "done"
    BY <1>2, <1>9 DEF LookVersion, TakeVersionLock, LoadVersion, VersionUnreadable, Refreshing
  <2> QED  BY <1>4, <1>5, <1>9, <2>1, VersionShapes
<1>10. CASE LookIndex(c) \/ LoadIndex(c) \/ IndexUnreadable(c)
  <2>1. UNCHANGED syncing /\ call[c].op # "sync" /\ pc[c] # "done"
    BY <1>2, <1>10 DEF LookIndex, LoadIndex, IndexUnreadable, Refreshing
  <2> QED  BY <1>4, <1>5, <1>10, <2>1, LookIndexShape, LoadIndexShape, IndexUnreadableShape
<1>11. CASE TakeIndexLock(c) \/ WriteIndex(c) \/ \E value \in Index : FetchIndex(c, value)
  <2>1. UNCHANGED syncing /\ pc[c] # "done"
    BY <1>11 DEF TakeIndexLock, WriteIndex, FetchIndex
  <2> QED  BY <1>5, <1>11, <2>1, TakeIndexLockShape, WriteIndexShape, FetchIndexShape
<1>12. CASE StoreIndex(c) \/ \E error \in Errors : FailIndex(c, error)
  <2>1. UNCHANGED syncing /\ pc[c] # "done"
    BY <1>12 DEF StoreIndex, FailIndex, Refreshing
  <2> QED  BY <1>4, <1>5, <1>12, <2>1, StoreIndexShape, FailIndexShape
<1>13. CASE FindVersion(c) \/ Missed(c) \/ WriteVersion(c) \/ VersionNotWritten(c)
  <2>1. UNCHANGED syncing /\ pc[c] # "done"
    BY <1>13 DEF FindVersion, Missed, WriteVersion, VersionNotWritten
  <2> QED  BY <1>5, <1>13, <2>1, FindVersionShape, MissedShape, WriteVersionShape,
              VersionNotWrittenShape
<1>14. CASE \E good \in SUBSET Platforms, error \in Errors :
              FetchPackages(c, good, error)
  <2>1. UNCHANGED syncing /\ pc[c] # "done"
    BY <1>14 DEF FetchPackages
  <2> QED  BY <1>5, <1>14, <2>1, FetchPackagesShape
<1>15. CASE StoreVersion(c) \/ FailVersion(c) \/ Reply(c)
  <2>1. UNCHANGED syncing /\ call[c].op # "sync"
    BY <1>2, <1>15 DEF StoreVersion, FailVersion, Reply, Refreshing
  <2> QED  BY <1>4, <1>15, <2>1, EndShapes
<1>16. CASE Disconnect(c)
  <2>1. syncing' = (syncing /\ ~(call[c].op = "sync" /\ pc[c] # "done")) /\ call'[c].op # "sync"
    BY <1>16, EndShapes DEF Disconnect, Reset, Ends, EndsCall
  <2> QED  BY <1>1, <2>1 DEF SyncAsBefore, SyncStops
<1> QED  BY <1>6, <1>7, <1>8, <1>9, <1>10, <1>11, <1>12, <1>13, <1>14, <1>15, <1>16
         DEF StillStep, DataStep

LEMMA SyncStep ==
  ASSUME TypeOK, CallsInv, SyncInv, [Next]_vars
  PROVE  SyncInv'
<1>1. ASSUME NEW c \in Callers, StillStep(c) \/ DataStep(c) \/ Disconnect(c) PROVE SyncInv'
  <2>1. \A d \in Callers \ {c} : d \in SyncCalls' <=> d \in SyncCalls
    BY <1>1, StillStepCalls, DataStepCalls DEF Others, SyncCalls
  <2>2. SyncCalls \subseteq Callers /\ SyncCalls' \subseteq Callers
    BY DEF SyncCalls
  <2>3. CASE SyncAsBefore(c)
    <3>1. SyncCalls' = SyncCalls
      BY <2>1, <2>2, <2>3 DEF SyncAsBefore, SyncCalls
    <3> QED  BY <2>3, <3>1 DEF SyncAsBefore, SyncInv
  <2>4. CASE SyncStarts(c)
    <3>1. SyncCalls = {} /\ c \in SyncCalls'
      BY <2>4 DEF SyncStarts, SyncInv, SyncCalls
    <3>2. SyncCalls' = {c}
      BY <2>1, <2>2, <3>1
    <3> QED  BY <2>4, <3>2 DEF SyncStarts, SyncInv
  <2>5. CASE SyncStops(c)
    <3>1. c \in SyncCalls /\ c \notin SyncCalls'
      BY <2>5 DEF SyncStops, SyncCalls
    <3>2. SyncCalls = {c}
      BY <3>1 DEF SyncInv
    <3>3. SyncCalls' = {}
      BY <2>1, <2>2, <3>1, <3>2
    <3> QED  BY <2>5, <3>3 DEF SyncStops, SyncInv
  <2> QED  BY <1>1, <2>3, <2>4, <2>5, SyncSteps
<1>2. CASE Restart
  <2>1. syncing' = FALSE /\ \A d \in Callers : call'[d].op = "list"
    BY <1>2, NoCallType DEF Restart
  <2> QED  BY <2>1 DEF SyncInv, SyncCalls
<1>3. CASE \/ \E x \in late : LateRename(x[1], x[2])
           \/ Tick \/ (\E k \in Keys : Publish(k)) \/ UNCHANGED vars
  <2>1. UNCHANGED <<syncing, pc, call>>
    BY <1>3 DEF LateRename, Tick, Publish, vars
  <2> QED  BY <2>1 DEF SyncInv, SyncCalls
<1> QED  BY <1>1, <1>2, <1>3, NextSplit

-----------------------------------------------------------------------------
(* The inductive invariant. *)
LEMMA InvInit ==
  ASSUME Init
  PROVE  IInv
<1>1. TypeOK /\ CallsInv /\ Persisted
  BY TypesInit, PersistInit
<1>2. \A c \in Callers : pc[c] = "idle" /\ call[c] = NoCall
  BY DEF Init
<1>3. \A c \in Callers : ~HoldsVersion(c) /\ pc[c] \notin WithIndexLock \cup Refreshing \cup Merging
  BY <1>2, NoCallType DEF HoldsVersion, WithIndexLock, Refreshing, Merging
<1>4. LockInv
  <2>1. \A k \in Keys : versionHolder[k] = Nobody
    BY DEF Init, VLock!Init
  <2> QED  BY <1>3, <2>1, MetadataConstants DEF LockInv
<1>5. SharedInv /\ PlatformsKept
  BY <1>3 DEF SharedInv, PlatformsKept, Merging
<1>6. IndexBackoff /\ MissBackoff /\ VersionBackoff
  <2>1. /\ \A p \in Providers : /\ indexRetry[p] = 0 /\ missRetry[p] = 0 /\ lastMiss[p] = None
                                /\ lastFail[p] = None
        /\ \A k \in Keys : versionRetry[k] = 0 /\ lastFail[k] = None
    BY DEF Init
  <2> QED  BY <1>3, <2>1 DEF IndexBackoff, MissBackoff, VersionBackoff, Follows, Remembers, Recent
<1>7. SyncInv
  <2>1. SyncCalls = {} /\ ~syncing
    BY <1>2, NoCallType DEF Init, SyncCalls
  <2> QED  BY <2>1 DEF SyncInv
<1> QED  BY <1>1, <1>4, <1>5, <1>6, <1>7 DEF IInv

LEMMA InvStep ==
  ASSUME IInv, [Next]_vars
  PROVE  IInv'
<1>1. TypeOK' /\ CallsInv'
  BY TypesStep DEF IInv
<1>2. LockInv' /\ Persisted' /\ SharedInv' /\ PlatformsKept'
  BY LockStep, PersistStep, SharedStep, PlatformsStep DEF IInv
<1>3. IndexBackoff' /\ MissBackoff' /\ VersionBackoff' /\ SyncInv'
  BY IndexBackoffStep, MissBackoffStep, VersionBackoffStep, SyncStep DEF IInv
<1> QED  BY <1>1, <1>2, <1>3 DEF IInv

LEMMA Invariant == Spec => []IInv
<1>1. Init => IInv
  BY InvInit
<1>2. IInv /\ [Next]_vars => IInv'
  BY InvStep
<1> QED  BY <1>1, <1>2, PTL DEF Spec

(* Every variable keeps its type, however many requests, providers and      *)
(* versions there are and whatever fails, disconnects or is restarted.      *)
THEOREM MetadataTypes == Spec => []TypeOK
<1>1. IInv => TypeOK
  BY DEF IInv
<1> QED  BY <1>1, Invariant, PTL

(* The flag of sync_known is up exactly while one call of it runs.          *)
THEOREM OneSyncRuns == Spec => []OneSync
<1>1. IInv => OneSync
  <2> SUFFICES ASSUME SyncInv PROVE OneSync
    BY DEF IInv
  <2>1. CASE syncing
    <3>1. PICK c \in Callers : SyncCalls = {c}
      BY <2>1 DEF SyncInv
    <3>2. Cardinality(SyncCalls) = 1
      BY <3>1, FS_Singleton
    <3> QED  BY <2>1, <3>2 DEF OneSync, SyncCalls
  <2>2. CASE ~syncing
    <3>1. Cardinality(SyncCalls) = 0
      BY <2>2, FS_EmptySet DEF SyncInv
    <3> QED  BY <2>2, <3>1 DEF OneSync, SyncCalls
  <2> QED  BY <2>1, <2>2
<1> QED  BY <1>1, Invariant, PTL

(* A restart finds every provider that was known, with an index as recent   *)
(* as the one that was served: memory is updated after the disk.            *)
THEOREM KnownProvidersPersist == Spec => []KnownIsPersisted
<1>1. IInv => KnownIsPersisted
  BY DEF IInv, Persisted
<1> QED  BY <1>1, Invariant, PTL

(* Callers that waited for a lock look again and share what was fetched.    *)
THEOREM RefreshesAreShared == Spec => []SharedRefresh
<1>1. IInv => SharedRefresh
  BY SharedMeaning DEF IInv
<1> QED  BY <1>1, Invariant, PTL

(* A refresh in which some packages fail loses no platform that is listed.  *)
THEOREM PlatformsAreKept == Spec => []PlatformsKept
<1>1. IInv => PlatformsKept
  BY DEF IInv
<1> QED  BY <1>1, Invariant, PTL

(* The index in memory is replaced by newer ones only, until a restart.     *)
THEOREM IndexesMoveForward == Spec => IndexMovesForward
<1>1. IInv /\ [Next]_vars =>
        \A p \in Providers : indices[p] # None /\ restarts' = restarts =>
          indices'[p] # None /\ indices'[p].at >= indices[p].at
  BY ForwardStep DEF IInv
<1> QED  BY <1>1, Invariant, PTL DEF Spec, IndexMovesForward

-----------------------------------------------------------------------------
(* Whose step moved a call. *)
LEMMA Mover ==
  ASSUME TypeOK, CallsInv, [Next]_vars, NEW c \in Callers,
         pc'[c] # pc[c] \/ call'[c] # call[c]
  PROVE  \/ StillStep(c) \/ DataStep(c) \/ Disconnect(c)
         \/ pc'[c] = "idle" /\ call'[c].result = "none"
<1>1. ASSUME NEW d \in Callers, StillStep(d) \/ DataStep(d) \/ Disconnect(d)
      PROVE  StillStep(c) \/ DataStep(c) \/ Disconnect(c)
  <2>1. Others(d)
    BY <1>1, StillStepCalls, DataStepCalls
  <2>2. d = c
    BY <2>1 DEF Others
  <2> QED  BY <1>1, <2>2
<1>2. CASE Restart
  BY <1>2, NoCallType DEF Restart
<1>3. ~\/ \E x \in late : LateRename(x[1], x[2])
       \/ Tick \/ (\E k \in Keys : Publish(k)) \/ UNCHANGED vars
  BY DEF LateRename, Tick, Publish, vars
<1> QED  BY <1>1, <1>2, <1>3, NextSplit

(* Where the registry is asked for an index. *)
LEMMA ToFetch ==
  ASSUME TypeOK, CallsInv, [Next]_vars, NEW c \in Callers, pc[c] # "fetchindex",
         pc'[c] = "fetchindex"
  PROVE  TakeIndexLock(c) \/ LoadIndex(c) \/ Missed(c)
<1>1. StillStep(c) \/ DataStep(c) \/ Disconnect(c)
  BY Mover
<1>2. ~Ends(c) /\ ~Begins(c)
  BY DEF Ends, Begins
<1>3. ASSUME NEW S, "fetchindex" \notin S, Continues(c, S) PROVE FALSE
  BY <1>3 DEF Continues
<1>4. CallTypes
  BY TypeFacts
<1>5. ~\/ \E p \in Providers : List(c, p)
       \/ \E k \in Keys : GetVersion(c, k)
       \/ Refuse(c) \/ Sync(c) \/ NextProvider(c)
  BY <1>2, <1>4, BeginCalls
<1>6. ~(LookVersion(c) \/ TakeVersionLock(c) \/ LoadVersion(c) \/ VersionUnreadable(c))
  BY <1>2, <1>3, VersionShapes
<1>7. ~(LookIndex(c) \/ IndexUnreadable(c) \/ WriteIndex(c) \/ StoreIndex(c))
  BY <1>2, <1>3, LookIndexShape, IndexUnreadableShape, WriteIndexShape, StoreIndexShape
<1>8. ~\E value \in Index : FetchIndex(c, value)
  BY <1>3, FetchIndexShape
<1>9. ~\E error \in Errors : FailIndex(c, error)
  BY <1>2, <1>3, FailIndexShape
<1>10. ~(FindVersion(c) \/ WriteVersion(c) \/ VersionNotWritten(c))
  BY <1>3, FindVersionShape, WriteVersionShape, VersionNotWrittenShape
<1>11. ~\E good \in SUBSET Platforms, error \in Errors : FetchPackages(c, good, error)
  BY <1>3, FetchPackagesShape
<1>12. ~(StoreVersion(c) \/ FailVersion(c) \/ Reply(c) \/ Disconnect(c))
  BY <1>2, EndShapes
<1> QED  BY <1>1, <1>5, <1>6, <1>7, <1>8, <1>9, <1>10, <1>11, <1>12 DEF StillStep, DataStep

(* What it means that a refresh is allowed. *)
LEMMA AllowedMeans ==
  ASSUME now \in Nat, NEW f, NEW h, NEW k, f[k] \in Nat, Allowed(f, k), Remembers(f, h, k)
  PROVE  ~Recent(h[k])
  BY DEF Allowed, Remembers, Recent

LEMMA ForbiddenMeans ==
  ASSUME now \in Nat, NEW S, NEW f, NEW h, NEW k \in S, f[k] \in Nat, Follows(f, h, S), ~Allowed(f, k)
  PROVE  Recent(h[k])
<1>1. now < f[k] /\ f[k] # 0
  BY DEF Allowed
<1> QED  BY <1>1 DEF Follows, Recent

LEMMA IndexAskedInTime ==
  ASSUME IInv, [Next]_vars, NEW c \in Callers, pc[c] # "fetchindex", pc'[c] = "fetchindex",
         call[c].why # "sync"
  PROVE  \/ ~Recent(lastFail[Prov(c)])
         \/ Cardinality(Providers) >= MaxFailures /\ Providers # {Prov(c)}
<1>1. TypeOK /\ CallsInv /\ IndexBackoff /\ Prov(c) \in Providers
  BY TypeFacts, CallFields DEF IInv
<1>2. now \in Nat /\ indexRetry[Prov(c)] \in Nat
  BY <1>1, TypeFacts
<1>3. Allowed(indexRetry, Prov(c))
  <2>1. CASE TakeIndexLock(c)
    BY <1>1, <2>1, TakeIndexLockShape DEF Continues
  <2>2. CASE Missed(c)
    BY <1>1, <2>2, MissedShape DEF Continues, NeedsRefresh
  <2>3. CASE LoadIndex(c)
    <3>1. CASE Proceed(c, "fetchindex")
      BY <2>3, <3>1 DEF LoadIndex, Proceed, Goto, HaveIndex, IndexError, Return, Abandon, TypeOK
    <3>2. CASE ~Proceed(c, "fetchindex")
      <4>1. pc' \in {[pc EXCEPT ![c] = "done"], [pc EXCEPT ![c] = "find"],
                     [pc EXCEPT ![c] = "versionfailed"]}
        BY <2>3, <3>2 DEF LoadIndex, HaveIndex, IndexError, Return, Abandon, Goto
      <4>2. pc \in [Callers -> Stages]
        BY <1>1 DEF TypeOK
      <4> QED  BY <4>1, <4>2
    <3> QED  BY <3>1, <3>2
  <2> QED  BY <1>1, <2>1, <2>2, <2>3, ToFetch
<1>4. CASE Roomy(Prov(c))
  <2>1. Remembers(indexRetry, lastFail, Prov(c))
    BY <1>1, <1>4 DEF IndexBackoff
  <2> QED  BY <1>2, <1>3, <2>1, AllowedMeans
<1>5. CASE ~Roomy(Prov(c))
  <2>1. Cardinality(Providers) \in Nat /\ MaxFailures \in Nat
    BY <1>1, LiveProviders, NumberTypes
  <2> QED  BY <1>5, <2>1 DEF Roomy
<1> QED  BY <1>4, <1>5

LEMMA VersionAskedInTime ==
  ASSUME IInv, [Next]_vars, NEW c \in Callers, pc[c] = "loadversion", pc'[c] = "index"
  PROVE  Excused(Key(c))
<1>1. TypeOK /\ CallsInv
  BY DEF IInv
<1>2. LoadVersion(c)
  <2>1. StillStep(c) \/ DataStep(c) \/ Disconnect(c)
    BY <1>1, Mover
  <2>2. ~(VersionUnreadable(c) \/ Disconnect(c))
    <3>1. pc \in [Callers -> Stages]
      BY <1>1 DEF TypeOK
    <3> QED  BY <3>1 DEF VersionUnreadable, Disconnect, Return, Goto
  <2> QED  BY <2>1, <2>2 DEF StillStep, DataStep, List, GetVersion, Refuse, Sync, NextProvider,
             LookVersion, TakeVersionLock, LookIndex, TakeIndexLock, LoadIndex, IndexUnreadable,
             FetchIndex, WriteIndex, StoreIndex, FailIndex, FindVersion, Missed, FetchPackages,
             WriteVersion, StoreVersion, VersionNotWritten, FailVersion, Reply, Refreshing
<1>3. now \in Nat /\ Key(c) \in Keys /\ versionRetry[Key(c)] \in Nat
  BY <1>1, TypeFacts, CallFields
<1>4. Allowed(versionRetry, Key(c))
  BY <1>1, <1>2 DEF LoadVersion, Return, Goto, TypeOK
<1>5. Remembers(versionRetry, lastFail, Key(c)) \/ CrowdedOut(Key(c))
  BY <1>3 DEF IInv, VersionBackoff
<1> QED  BY <1>3, <1>4, <1>5, AllowedMeans DEF Excused

(* After a failure the registry is left alone for refresh_backoff, except   *)
(* by sync_known and where the map of failures is too small to remember it. *)
THEOREM BackoffIsHonoured == Spec => BackoffHonoured
<1>1. IInv /\ [Next]_vars =>
        \A c \in Callers :
          /\ pc[c] # "fetchindex" /\ pc'[c] = "fetchindex" /\ call[c].why # "sync" =>
               \/ ~Recent(lastFail[Prov(c)])
               \/ Cardinality(Providers) >= MaxFailures /\ Providers # {Prov(c)}
          /\ pc[c] = "loadversion" /\ pc'[c] = "index" =>
               ~Recent(lastFail[Key(c)]) \/ CrowdedOut(Key(c))
  BY IndexAskedInTime, VersionAskedInTime DEF Excused
<1> QED  BY <1>1, Invariant, PTL DEF Spec, BackoffHonoured

LEMMA MissAskedInTime ==
  ASSUME IInv, [Next]_vars, NEW c \in Callers, pc[c] = "missed", pc'[c] = "fetchindex"
  PROVE  ~Recent(lastMiss[Prov(c)]) \/ Cardinality(Providers) > MaxFailures
<1>1. TypeOK /\ CallsInv /\ MissBackoff /\ Prov(c) \in Providers
  BY TypeFacts, CallFields DEF IInv
<1>2. now \in Nat /\ missRetry[Prov(c)] \in Nat
  BY <1>1, TypeFacts
<1>3. Missed(c)
  BY <1>1, ToFetch DEF TakeIndexLock, LoadIndex
<1>4. Allowed(missRetry, Prov(c))
  BY <1>1, <1>3, MissedShape DEF Continues, NeedsRefresh
<1>5. CASE Cardinality(Providers) <= MaxFailures
  <2>1. Remembers(missRetry, lastMiss, Prov(c))
    BY <1>1, <1>5 DEF MissBackoff
  <2> QED  BY <1>2, <1>4, <2>1, AllowedMeans
<1>6. Cardinality(Providers) \in Nat /\ MaxFailures \in Nat
  BY <1>1, LiveProviders, NumberTypes
<1> QED  BY <1>5, <1>6

(* Requests for missing versions ask for an index once in refresh_backoff,  *)
(* however many there are: each looks at the map again under the lock.      *)
THEOREM MissRefreshesAreSpaced == Spec => MissRefreshSpaced
<1>1. IInv /\ [Next]_vars =>
        \A c \in Callers : pc[c] = "missed" /\ pc'[c] = "fetchindex" =>
          ~Recent(lastMiss[Prov(c)]) \/ Cardinality(Providers) > MaxFailures
  BY MissAskedInTime
<1> QED  BY <1>1, Invariant, PTL DEF Spec, MissRefreshSpaced

(* Which steps may tell a caller that its version does not exist. *)
LEMMA QuietSteps ==
  ASSUME TypeOK, CallsInv, [Next]_vars, NEW c \in Callers, ~Quiet(c)
  PROVE  \/ StoreIndex(c) \/ FindVersion(c) \/ Missed(c)
         \/ FailIndex(c, "missing")
         \/ \E good \in SUBSET Platforms : FetchPackages(c, good, "missing") /\ NoPackage(c, good)
<1>1. call'[c] # call[c] /\ call'[c].result = "missing"
  BY DEF Quiet
<1>2. StillStep(c) \/ DataStep(c) \/ Disconnect(c)
  BY <1>1, Mover
<1>3. CallTypes
  BY TypeFacts
<1>4. ~Begins(c)
  BY DEF Begins
<1>5. ~\/ \E p \in Providers : List(c, p)
       \/ \E k \in Keys : GetVersion(c, k)
       \/ Refuse(c) \/ Sync(c) \/ NextProvider(c)
  BY <1>3, <1>4, BeginCalls
<1>6. ~(LookVersion(c) \/ TakeVersionLock(c) \/ LoadVersion(c) \/ VersionUnreadable(c))
  BY VersionShapes
<1>7. ~(LookIndex(c) \/ TakeIndexLock(c) \/ LoadIndex(c) \/ IndexUnreadable(c) \/ WriteIndex(c))
  BY LookIndexShape, TakeIndexLockShape, LoadIndexShape, IndexUnreadableShape, WriteIndexShape
<1>8. ~\E value \in Index : FetchIndex(c, value)
  BY FetchIndexShape
<1>9. ~\E error \in Errors \ {"missing"} : FailIndex(c, error)
  BY FailIndexShape
<1>10. ~(WriteVersion(c) \/ VersionNotWritten(c))
  BY WriteVersionShape, VersionNotWrittenShape
<1>11. ~\E good \in SUBSET Platforms, error \in Errors :
            /\ FetchPackages(c, good, error)
            /\ error # "missing" \/ ~NoPackage(c, good)
  BY FetchPackagesShape
<1>12. ~(StoreVersion(c) \/ FailVersion(c) \/ Reply(c) \/ Disconnect(c))
  BY EndShapes
<1> QED  BY <1>2, <1>5, <1>6, <1>7, <1>8, <1>9, <1>10, <1>11, <1>12 DEF StillStep, DataStep

LEMMA MissingReported ==
  ASSUME IInv, [Next]_vars, NEW c \in Callers, ToldMissing(c)
  PROVE  \/ RegistrySaid(c)
         \/ Recent(lastMiss[Prov(c)]) \/ Recent(lastFail[Prov(c)])
<1>1. TypeOK /\ CallsInv /\ CallTypes /\ Prov(c) \in Providers /\ ~Quiet(c)
  BY TypeFacts, CallFields DEF IInv, ToldMissing, Quiet
<1>2. now \in Nat /\ missRetry[Prov(c)] \in Nat /\ indexRetry[Prov(c)] \in Nat
  BY <1>1, TypeFacts
<1>3. Follows(missRetry, lastMiss, Providers) /\ Follows(indexRetry, lastFail, Providers)
  BY DEF IInv, MissBackoff, IndexBackoff
<1>4. ASSUME NEW value, ~NeedsRefresh(c, value), call[c].ver \notin DOMAIN value
      PROVE  Recent(lastMiss[Prov(c)]) \/ Recent(lastFail[Prov(c)])
  <2>1. ~Allowed(missRetry, Prov(c)) \/ ~Allowed(indexRetry, Prov(c))
    BY <1>4 DEF NeedsRefresh
  <2> QED  BY <1>1, <1>2, <1>3, <2>1, ForbiddenMeans
<1>5. CASE StoreIndex(c)
  BY <1>5 DEF StoreIndex, RegistrySaid
<1>6. CASE Missed(c)
  BY <1>1, <1>4, <1>6, MissedShape DEF Quiet
<1>7. CASE FindVersion(c)
  <2>1. CASE NeedsRefresh(c, call[c].index)
    <3>1. call[c] \in Calls /\ call'[c] = [call[c] EXCEPT !.why = "miss"]
      BY <1>1, <1>7, <2>1 DEF FindVersion, CallTypes
    <3>2. call'[c].result = call[c].result
      BY <3>1 DEF Calls
    <3> QED  BY <1>1, <3>2 DEF Quiet
  <2>2. CASE ~NeedsRefresh(c, call[c].index)
    <3>1. Choose(c, call[c].index) /\ pc[c] = "find" /\ CallInv(c)
      BY <1>1, <1>7, <2>2 DEF FindVersion, CallsInv
    <3>2. call[c].op = "version" /\ call[c].index \in Index
      BY <1>1, <3>1, CallFields DEF CallInv, OnRoute, Refreshing, Merging
    <3>3. call[c].ver \notin DOMAIN call[c].index
      BY <1>1, <3>1, <3>2, ChooseShape
    <3> QED  BY <1>4, <2>2, <3>3
  <2> QED  BY <2>1, <2>2
<1>8. CASE FailIndex(c, "missing")
  BY <1>8 DEF FailIndex, RegistrySaid
<1>9. ASSUME NEW good \in SUBSET Platforms, FetchPackages(c, good, "missing"), NoPackage(c, good)
      PROVE  RegistrySaid(c)
  <2>1. pc[c] = "packages" /\ good \subseteq call[c].index[call[c].ver]
    BY <1>9 DEF FetchPackages
  <2>2. call[c].index[call[c].ver] # {}
    BY <1>9, <2>1 DEF NoPackage
  <2>3. versions[Key(c)] # None => call[c].index[call[c].ver] \cap versions[Key(c)].platforms = {}
    BY <1>9 DEF NoPackage, Merged
  <2> QED  BY <2>1, <2>2, <2>3 DEF RegistrySaid
<1> QED  BY <1>1, <1>5, <1>6, <1>7, <1>8, <1>9, QuietSteps

(* Nothing is called missing unless the registry has said so to this very   *)
(* request, or was asked for a missing version, or has failed, a short time *)
(* ago.                                                                     *)
THEOREM MissingIsExplained == Spec => MissingExplained
<1>1. IInv /\ [Next]_vars =>
        \A c \in Callers : ToldMissing(c) =>
          RegistrySaid(c) \/ Recent(lastMiss[Prov(c)]) \/ Recent(lastFail[Prov(c)])
  BY MissingReported
<1> QED  BY <1>1, Invariant, PTL DEF Spec, MissingExplained

-----------------------------------------------------------------------------
(* What may be left in memory for a call that ends with an error. *)
NothingToServe(c) ==
  \/ call[c].op = "sync"
  \/ call[c].op = "list" /\ indices'[Prov(c)] = None
  \/ call[c].op = "version" /\ versions'[Key(c)] = None

LEMMA LastResort ==
  ASSUME TypeOK, CallsInv, [Next]_vars, NEW c \in Callers, pc[c] \notin {"idle", "done"},
         pc'[c] = "done", call'[c].result # "ok"
  PROVE  NothingToServe(c)
<1>1. StillStep(c) \/ DataStep(c) \/ Disconnect(c)
  BY Mover
<1>2. /\ CallTypes /\ CallInv(c) /\ Prov(c) \in Providers /\ Key(c) \in Keys
      /\ call[c] \in Calls
  BY TypeFacts, CallFields DEF CallsInv, CallTypes
<1>3. indices \in [Providers -> IndexEntry \cup {None}] /\ versions \in [Keys -> VersionEntry \cup {None}]
  BY DEF TypeOK
<1>4. ASSUME NEW S, "done" \notin S, Continues(c, S) PROVE FALSE
  BY <1>4 DEF Continues
<1>5. ASSUME NEW r \in Results, Return(c, r) PROVE call'[c].result = r
  BY <1>2, <1>5, ReturnEffect
<1>6. "ok" \in Results /\ "transient" \in Results
  BY DEF Results
<1>7. pc[c] = "nextprovider" => NothingToServe(c)
  BY <1>2 DEF NothingToServe, CallInv, OnRoute, Refreshing, Merging
<1>8. CASE \/ \E p \in Providers : List(c, p)
           \/ \E k \in Keys : GetVersion(c, k)
           \/ Refuse(c) \/ Sync(c) \/ NextProvider(c)
  BY <1>7, <1>8 DEF List, GetVersion, Refuse, Sync, NextProvider
<1>9. CASE LookVersion(c) \/ LookIndex(c) \/ StoreIndex(c)
  <2>1. ~LookVersion(c)
    <3>1. ~Return(c, "ok") /\ ~Proceed(c, "versionlock")
      BY <1>2, <1>5, <1>6 DEF Proceed, Goto, CallTypes
    <3> QED  BY <3>1 DEF LookVersion
  <2> QED  BY <1>4, <1>9, <2>1, LookIndexShape, StoreIndexShape
<1>10. CASE \/ TakeVersionLock(c) \/ TakeIndexLock(c) \/ WriteIndex(c) \/ FindVersion(c) \/ Missed(c)
            \/ WriteVersion(c) \/ VersionNotWritten(c) \/ \E value \in Index : FetchIndex(c, value)
  <2>1. ~(TakeVersionLock(c) \/ TakeIndexLock(c))
    BY <1>4, VersionShapes, TakeIndexLockShape
  <2>2. ~(WriteIndex(c) \/ FindVersion(c) \/ Missed(c))
    BY <1>4, WriteIndexShape, FindVersionShape, MissedShape
  <2>3. ~(WriteVersion(c) \/ VersionNotWritten(c) \/ \E value \in Index : FetchIndex(c, value))
    BY <1>4, WriteVersionShape, VersionNotWrittenShape, FetchIndexShape
  <2> QED  BY <1>10, <2>1, <2>2, <2>3
<1>11. CASE \E good \in SUBSET Platforms, error \in Errors : FetchPackages(c, good, error)
  BY <1>4, <1>11, FetchPackagesShape
<1>12. CASE Reply(c) \/ Disconnect(c)
  BY <1>2, <1>12 DEF Reply, Disconnect, Goto, CallTypes
<1>13. CASE LoadVersion(c)
  <2>1. call[c].op = "version"
    BY <1>2, <1>13 DEF LoadVersion, CallInv, OnRoute, Refreshing, Merging
  <2>2. ~Return(c, "ok") /\ ~Proceed(c, "index")
    BY <1>2, <1>5, <1>6 DEF Proceed, Goto, CallTypes
  <2>3. versions'[Key(c)] = None
    BY <1>2, <1>3, <1>13, <2>2 DEF LoadVersion
  <2> QED  BY <2>1, <2>3 DEF NothingToServe
<1>14. CASE VersionUnreadable(c)
  <2>1. call[c].op = "version"
    BY <1>2, <1>14 DEF VersionUnreadable, CallInv, OnRoute, Refreshing, Merging
  <2> QED  BY <1>14, <2>1 DEF NothingToServe, VersionUnreadable, memory
<1>15. CASE StoreVersion(c)
  BY <1>5, <1>6, <1>15 DEF StoreVersion
<1>16. CASE FailVersion(c)
  <2>1. call[c].op = "version"
    BY <1>2, <1>16 DEF FailVersion, CallInv, OnRoute, Refreshing, Merging
  <2>2. versions[Key(c)] = None
    BY <1>5, <1>6, <1>16 DEF FailVersion
  <2> QED  BY <1>16, <2>1, <2>2 DEF NothingToServe, FailVersion, memory
<1>17. ASSUME NEW value, HaveIndex(c, value) PROVE FALSE
  BY <1>2, <1>5, <1>6, <1>17 DEF HaveIndex, Goto, CallTypes
<1>18. CASE LoadIndex(c)
  <2>1. call[c].op = "list"
    BY <1>4, <1>18, LoadIndexShape
  <2>2. ~Proceed(c, "fetchindex")
    BY <1>2 DEF Proceed, Goto, CallTypes
  <2>3. indices'[Prov(c)] = None
    BY <1>2, <1>3, <1>17, <1>18, <2>2 DEF LoadIndex
  <2> QED  BY <2>1, <2>3 DEF NothingToServe
<1>19. CASE IndexUnreadable(c)
  <2>1. call[c].op = "list"
    BY <1>4, <1>19, IndexUnreadableShape
  <2> QED  BY <1>19, <2>1 DEF NothingToServe, IndexUnreadable, memory
<1>20. CASE \E error \in Errors : FailIndex(c, error)
  <2>1. call[c].op = "list"
    BY <1>4, <1>20, FailIndexShape
  <2>2. call[c].why = "load"
    BY <1>2, <2>1 DEF CallInv, OnRoute
  <2>3. indices[Prov(c)] = None /\ UNCHANGED indices
    BY <1>17, <1>20, <2>2 DEF FailIndex, memory
  <2> QED  BY <2>1, <2>3 DEF NothingToServe
<1> QED  BY <1>1, <1>8, <1>9, <1>10, <1>11, <1>12, <1>13, <1>14, <1>15, <1>16, <1>18, <1>19,
            <1>20 DEF StillStep, DataStep

(* Stale metadata is served while the registry is down: a call ends with an *)
(* error only if memory has nothing for it.                                 *)
THEOREM StaleIsServed == Spec => StaleServed
<1>1. IInv /\ [Next]_vars =>
        \A c \in Callers :
          pc[c] \notin {"idle", "done"} /\ pc'[c] = "done" /\ call'[c].result # "ok" =>
            \/ call[c].op = "sync"
            \/ call[c].op = "list" /\ indices'[Prov(c)] = None
            \/ call[c].op = "version" /\ versions'[Key(c)] = None
  BY LastResort DEF IInv, NothingToServe
<1> QED  BY <1>1, Invariant, PTL DEF Spec, StaleServed

=============================================================================
