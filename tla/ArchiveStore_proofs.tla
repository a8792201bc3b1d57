------------------------ MODULE ArchiveStore_proofs ------------------------
(***************************************************************************)
(* Safety of the archive cache for every number of requests, archives,     *)
(* files and crashes, lost writes and replacements at the worst moment     *)
(* included: `trusted` names the files that may then be wrong.             *)
(***************************************************************************)
EXTENDS ArchiveStore, FiniteSetTheorems, TLAPS

(* What a file holds once its download has written it. *)
Complete == Contents \cup {Short}

(* Files that do not exist yet have no content; flushed ones are complete,  *)
(* and only flushed ones have a name outside the temp files.                *)
DiskInv ==
  /\ \A f \in Files : f > born => body[f] = Unused
  /\ \A f \in synced : body[f] \in Complete
  /\ \A p \in Paths : file[p] # NoFile => file[p] \in synced
  /\ \A k \in Keys : durable[k] # NoFile => durable[k] \in synced
  /\ \A f \in temps : f <= born

(* Files that are taken on trust: only such as were cut short, where nobody *)
(* interferes, and none in the bundled mirror.                              *)
TrustInv ==
  /\ \A f \in trusted : body[f] \in Complete
  /\ \A k \in Keys : file[<<k, "bundled">>] \notin trusted
  /\ \A k \in Keys \ tampered : file[Dest(k)] \in trusted => body[file[Dest(k)]] = Short

(* What a request may take a file for. *)
Vouched(r, f) == f \in Files /\ (body[f] = want[r] \/ f \in trusted)

(* A lock's holder is a task that works on its key, and a task that is      *)
(* about to download or downloads has the lock.                             *)
LockInv ==
  /\ \A k \in Keys : holder[k] \in Requests =>
       /\ key[holder[k]] = k
       /\ pc[holder[k]] \in Checking \cup {"permit"} \cup Downloading
  /\ \A r \in Requests : pc[r] \in {"permit"} \cup Downloading => Locked(r)

(* A download has written its temp file, in full or cut short. *)
Written(r) ==
  \/ body[temp[r]] = want[r] /\ temp[r] \notin trusted
  \/ body[temp[r]] = Short /\ temp[r] \in trusted

(* Nothing runs while the server is down, and what a download has in its    *)
(* temp file, stage by stage.                                               *)
TempInv ==
  \A r \in Requests :
    /\ pc[r] # "idle" \/ attached[r] => up
    /\ temp[r] \notin stale
    /\ temp[r] # NoFile <=> pc[r] \in {"fetch", "sync", "rename"}
    /\ pc[r] = "fetch" => body[temp[r]] = Partial
    /\ pc[r] \in {"sync", "rename"} => Written(r)
    /\ pc[r] = "rename" => temp[r] \in synced
    /\ \A q \in Requests : temp[q] = temp[r] /\ temp[r] # NoFile => q = r

(* What a request knows of the file it has seen. *)
SeenInv ==
  \A r \in Requests :
    /\ pc[r] \in {"syncdir", "restat", "record", "open"} => Vouched(r, seen[r])
    /\ pc[r] \in {"syncdir", "restat"} =>
         file[Dest(key[r])] \in {seen[r], NoFile} \cup trusted

(* A hash taken under the lock is still about the file in the cache, unless *)
(* the file was replaced by bytes nobody asks for.                          *)
HashInv ==
  \A r \in Requests :
    /\ pc[r] = "note" /\ Locked(r) /\ place[r] = "cache"
    /\ Readable(Dest(key[r])) /\ body[file[Dest(key[r])]] = want[r]
    => Matches(r)

IInv ==
  /\ TypeOK /\ DiskInv /\ TrustInv /\ LockInv /\ TempInv /\ SeenInv
  /\ HashInv /\ MemoSound /\ NoRedundantDownload /\ PermitsConserved /\ TempsOwned

(* The permit count follows a request into and out of its download. *)
LEMMA PermitStep ==
  ASSUME TypeOK, PermitsConserved, NEW r \in Requests, NEW l \in Stages,
         pc' = [pc EXCEPT ![r] = l],
         pc[r] \in Downloading /\ l \notin Downloading => permits' = permits + 1,
         pc[r] \notin Downloading /\ l \in Downloading => permits' = permits - 1,
         (pc[r] \in Downloading <=> l \in Downloading) => permits' = permits
  PROVE  PermitsConserved' /\ (permits' >= 0 => permits' \in 0..MaxDownloads)
<1> DEFINE D == {q \in Requests : pc[q] \in Downloading}
           E == {q \in Requests : pc'[q] \in Downloading}
<1>1. IsFiniteSet(D) /\ IsFiniteSet(E)
  BY FS_Subset, StoreConstants
<1>2. Cardinality(D) \in Nat /\ Cardinality(E) \in Nat
  BY <1>1, FS_CardinalityType
<1>3. MaxDownloads \in Nat /\ permits \in Int
  BY StoreConstants DEF TypeOK
<1>4. permits + Cardinality(D) = MaxDownloads
  BY DEF PermitsConserved
<1>5. \A q \in Requests : pc'[q] = IF q = r THEN l ELSE pc[q]
  BY DEF TypeOK
<1>6. CASE pc[r] \in Downloading /\ l \notin Downloading
  <2>1. E = D \ {r} /\ r \in D
    BY <1>5, <1>6
  <2>2. Cardinality(E) = Cardinality(D) - 1
    BY <1>1, <2>1, FS_RemoveElement
  <2> QED BY <1>2, <1>3, <1>4, <1>6, <2>2 DEF PermitsConserved
<1>7. CASE pc[r] \notin Downloading /\ l \in Downloading
  <2>1. E = D \cup {r} /\ r \notin D
    BY <1>5, <1>7
  <2>2. Cardinality(E) = Cardinality(D) + 1
    BY <1>1, <2>1, FS_AddElement
  <2> QED BY <1>2, <1>3, <1>4, <1>7, <2>2 DEF PermitsConserved
<1>8. CASE pc[r] \in Downloading <=> l \in Downloading
  <2>1. E = D
    BY <1>5, <1>8
  <2> QED BY <1>2, <1>3, <1>4, <1>8, <2>1 DEF PermitsConserved
<1> QED BY <1>6, <1>7, <1>8

(* The paths of a request and of a key. *)
LEMMA PathFacts ==
  ASSUME TypeOK
  PROVE  /\ \A r \in Requests : Path(r) \in Paths
         /\ \A k \in Keys : Dest(k) \in Paths
         /\ \A j, k \in Keys : Dest(j) = Dest(k) => j = k
         /\ \A r \in Requests : place[r] = "cache" => Path(r) = Dest(key[r])
BY DEF TypeOK, Path, Dest, Paths, Places

(* The checksums a request may ask for are contents. *)
LEMMA WantFacts ==
  ASSUME TypeOK, NEW r \in Requests
  PROVE  /\ key[r] \in Keys /\ want[r] \in Announced[key[r]] /\ want[r] \in Sums
         /\ want[r] \in Contents /\ want[r] \notin Foreign
BY StoreConstants DEF TypeOK, Sums

(* The locals of a request that is not running. *)
LEMMA IdleFacts ==
  AnyKey \in Keys /\ AnySum(AnyKey) \in Announced[AnyKey] /\ AnySum(AnyKey) \in Sums
<1>1. AnyKey \in Keys
  BY StoreConstants DEF AnyKey
<1>2. \E d : d \in Announced[AnyKey]
  BY <1>1, StoreConstants
<1>3. AnySum(AnyKey) \in Announced[AnyKey]
  BY <1>2 DEF AnySum
<1> QED BY <1>1, <1>3 DEF Sums

(* record_verified keeps the memory sound when it is told the truth. *)
LEMMA RecordedFacts ==
  ASSUME TypeOK, MemoSound, NEW p \in Paths, NEW f \in Files, NEW d \in Sums,
         body[f] = d \/ f \in trusted, verified' = Recorded(p, f, d), UNCHANGED <<body, trusted>>
  PROVE  verified' \in [Paths -> Entries \cup {NoEntry}] /\ MemoSound'
<1> DEFINE e == [id |-> f, sum |-> d]
<1>1. e \in Entries /\ e.id = f /\ e.sum = d
  BY DEF Entries
<1> DEFINE Full == Cardinality({q \in Paths : verified[q] # NoEntry}) >= MaxVerified
           base == IF Full /\ verified[p] = NoEntry THEN [q \in Paths |-> NoEntry]
                                                    ELSE verified
<1>2. /\ verified' = [base EXCEPT ![p] = e]
      /\ base \in [Paths -> Entries \cup {NoEntry}]
      /\ \A q \in Paths : base[q] \in {verified[q], NoEntry}
  BY DEF Recorded, TypeOK
<1> HIDE DEF base, e
<1>3. \A q \in Paths : verified'[q] = IF q = p THEN e ELSE base[q]
  BY <1>2
<1>4. verified' \in [Paths -> Entries \cup {NoEntry}]
  BY <1>1, <1>2
<1>5. MemoSound'
  BY <1>1, <1>2, <1>3 DEF MemoSound
<1> QED BY <1>4, <1>5

(* The task of r ends, with a result that holds of the file it has seen. *)
LEMMA TaskEnds ==
  ASSUME IInv, NEW r \in Requests, Locked(r),
         NEW result \in {"open", "ended"}, FinishTask(r, result),
         result = "open" => Vouched(r, seen[r]),
         \/ UNCHANGED seen
         \/ result = "ended" /\ seen' = [seen EXCEPT ![r] = NoFile],
         verified' \in [Paths -> Entries \cup {NoEntry}], MemoSound',
         UNCHANGED <<file, durable, body, synced, stale, born, env, key, want, place, attached>>
  PROVE  IInv'
<1> USE PathFacts, WantFacts, StoreConstants
     DEF IInv, Stages, Checking, Downloading, Answering, Goto, disk, local, env,
         Vouched, Written
<1>1. PICK l \in {"open", "ended"} :
        pc' = [pc EXCEPT ![r] = l] /\ (l = "open" => result = "open")
  BY DEF FinishTask
<1>2. pc[r] \in Checking \cup {"permit"} \cup Downloading
  BY DEF LockInv, Locked
<1>3. PermitsConserved' /\ permits' \in 0..MaxDownloads
  <2>1. permits' = (IF pc[r] \in Downloading THEN permits + 1 ELSE permits) /\ permits' >= 0
    BY DEF FinishTask, TypeOK
  <2>2. l \in Stages /\ l \notin Downloading
    OBVIOUS
  <2> QED BY <1>1, <2>1, <2>2, PermitStep
<1>4. temp[r] \notin stale
  BY DEF TempInv
<1>5. TypeOK'
  <2>1. TypeOK /\ key[r] \in Keys
    BY DEF TypeOK
  <2> HIDE DEF IInv
  <2>2. /\ temps' \subseteq Files /\ stale' \subseteq temps'
        /\ temp' \in [Requests -> Files \cup {NoFile}]
    BY <1>4, <2>1 DEF FinishTask, TypeOK
  <2>3. pc' \in [Requests -> Stages]
    BY <1>1, <2>1 DEF TypeOK
  <2>4. Lock!TypeOK'
    BY <2>1 DEF FinishTask, TypeOK, Lock!Release, Lock!TypeOK
  <2>5. seen' \in [Requests -> Files \cup {NoFile}]
    BY <2>1 DEF TypeOK
  <2> QED BY <1>3, <2>1, <2>2, <2>3, <2>4, <2>5 DEF TypeOK
<1>6. DiskInv' /\ TrustInv'
  BY DEF FinishTask, DiskInv, TrustInv, Dest
<1>7. TempInv'
  <2>1. temp' = [temp EXCEPT ![r] = NoFile]
    BY DEF FinishTask
  <2> SUFFICES ASSUME NEW q \in Requests
               PROVE  /\ pc'[q] # "idle" \/ attached[q] => up
                      /\ temp'[q] \notin stale
                      /\ temp'[q] # NoFile <=> pc'[q] \in {"fetch", "sync", "rename"}
                      /\ pc'[q] = "fetch" => body[temp'[q]] = Partial
                      /\ pc'[q] \in {"sync", "rename"} => Written(q)'
                      /\ pc'[q] = "rename" => temp'[q] \in synced
                      /\ \A t \in Requests : temp'[t] = temp'[q] /\ temp'[q] # NoFile => t = q
    BY DEF TempInv
  <2>2. NoFile \notin stale
    BY DEF TypeOK, Files
  <2>3. up
    BY <1>2 DEF TempInv
  <2> QED BY <1>1, <2>1, <2>2, <2>3 DEF TypeOK, TempInv, Written
<1>8. TempsOwned'
  BY <1>4 DEF FinishTask, TypeOK, TempInv, TempsOwned, Owned
<1>9. LockInv'
  BY <1>1 DEF FinishTask, TypeOK, LockInv, Locked, Lock!Release, Lock!TypeOK
<1>10. SeenInv'
  BY <1>1 DEF FinishTask, TypeOK, SeenInv, Vouched, Dest
<1>11. HashInv' /\ NoRedundantDownload'
  <2>1. \A q \in Requests : q # r /\ holder'[key[q]] = q => holder[key[q]] = q
    BY DEF FinishTask, TypeOK, Lock!Release, Lock!TypeOK
  <2> QED BY <1>1, <2>1 DEF TypeOK, HashInv, NoRedundantDownload, Locked, Readable, Matches
<1> QED BY <1>3, <1>5, <1>6, <1>7, <1>8, <1>9, <1>10, <1>11

(* A check says no; under the lock and at the cache path, rightly. *)
LEMMA CheckGoesOn ==
  ASSUME IInv, NEW r \in Requests, pc[r] \in Checking, CheckFails(r),
         Locked(r) /\ place[r] = "cache" =>
           ~(Readable(Dest(key[r])) /\ body[file[Dest(key[r])]] = want[r]),
         verified' \in [Paths -> Entries \cup {NoEntry}], MemoSound',
         UNCHANGED <<file, durable, body, synced, stale, born, env, key, want, attached>>
  PROVE  IInv'
<1> USE PathFacts, WantFacts, StoreConstants
     DEF IInv, Stages, Checking, Downloading, Answering, Goto, disk, local, env,
         Vouched, Written
<1>0. CASE Locked(r) /\ FinishTask(r, "ended")
  <2>1. CASE UNCHANGED place
    <3>1. seen' = [seen EXCEPT ![r] = NoFile]
      BY DEF CheckFails
    <3> QED BY <1>0, <2>1, <3>1, TaskEnds
  <2>2. CASE place' = [place EXCEPT ![r] = "cache"] /\ Goto(r, "stat") /\ place[r] = "bundled"
    <3>1. pc'[r] = "stat" /\ pc'[r] \in {"ended"}
      BY <1>0, <2>2 DEF FinishTask, TypeOK
    <3> QED BY <3>1
  <2> QED BY <2>1, <2>2 DEF CheckFails
<1> SUFFICES ASSUME ~(Locked(r) /\ FinishTask(r, "ended")) PROVE IInv'
  BY <1>0
<1>2. /\ UNCHANGED <<temps, temp, permits, holder>>
      /\ seen' = [seen EXCEPT ![r] = NoFile]
      /\ place' \in [Requests -> Places]
      /\ \A q \in Requests : q # r => place'[q] = place[q]
  BY DEF CheckFails, Download, TypeOK, Places
<1>1. PICK l \in {"stat", "permit", "lock"} :
        /\ pc' = [pc EXCEPT ![r] = l]
        /\ l = "permit" => place[r] = "cache" /\ Locked(r)
        /\ l = "lock" => ~Locked(r)
  BY DEF CheckFails, Download, TypeOK, Places
<1>3. PermitsConserved'
  BY <1>1, <1>2, PermitStep
<1>4. TypeOK'
  BY <1>1, <1>2 DEF TypeOK, Lock!TypeOK
<1>5. DiskInv' /\ TrustInv' /\ TempInv' /\ TempsOwned'
  BY <1>1, <1>2 DEF TypeOK, DiskInv, TrustInv, TempInv, TempsOwned, Owned
<1>6. LockInv'
  BY <1>1, <1>2 DEF TypeOK, LockInv, Locked, Lock!TypeOK
<1>7. SeenInv'
  BY <1>1, <1>2 DEF TypeOK, SeenInv
<1>8. HashInv'
  BY <1>1, <1>2 DEF TypeOK, HashInv, Readable, Matches, Locked
<1>9. NoRedundantDownload'
  BY <1>1, <1>2 DEF TypeOK, NoRedundantDownload, Readable
<1> QED BY <1>3, <1>4, <1>5, <1>6, <1>7, <1>8, <1>9

(* Only the stage of a request changes, not into or out of the stages that  *)
(* the invariant speaks of.                                                 *)
LEMMA StageMoves ==
  ASSUME IInv, NEW r \in Requests, NEW l \in {"memo", "hash", "open", "ended", "served"},
         pc' = [pc EXCEPT ![r] = l],
         pc[r] \in Checking \cup Answering \cup {"idle"},
         up, l \notin Checking => ~Locked(r),
         seen' \in [Requests -> Files \cup {NoFile}],
         \A q \in Requests : q # r => seen'[q] = seen[q],
         l = "open" => Vouched(r, seen'[r]),
         attached' \in [Requests -> BOOLEAN],
         verified' \in [Paths -> Entries \cup {NoEntry}], MemoSound',
         UNCHANGED <<disk, holder, permits, env, key, want, place, temp>>
  PROVE  IInv'
<1> USE PathFacts, WantFacts, StoreConstants
     DEF IInv, Stages, Checking, Downloading, Answering, Goto, disk, local, env,
         Vouched, Written
<1>1. PermitsConserved'
  BY PermitStep
<1>2. TypeOK'
  BY DEF TypeOK, Lock!TypeOK
<1>3. DiskInv' /\ TrustInv' /\ TempInv' /\ TempsOwned'
  BY DEF TypeOK, DiskInv, TrustInv, TempInv, TempsOwned, Owned
<1>4. LockInv'
  BY DEF TypeOK, LockInv, Locked, Lock!TypeOK
<1>5. SeenInv'
  BY DEF TypeOK, SeenInv
<1>6. HashInv' /\ NoRedundantDownload'
  BY DEF TypeOK, HashInv, NoRedundantDownload, Readable, Matches, Locked
<1> QED BY <1>1, <1>2, <1>3, <1>4, <1>5, <1>6

(* load_or_fetch is called. *)
LEMMA StartKeeps ==
  ASSUME IInv, NEW r \in Requests, NEW k \in Keys, NEW d \in Announced[k], Start(r, k, d)
  PROVE  IInv'
<1> USE PathFacts, WantFacts, StoreConstants
     DEF IInv, Stages, Checking, Downloading, Answering, Goto, disk, local, env,
         Vouched, Written
<1>1. PermitsConserved'
  BY PermitStep DEF Start
<1>2. d \in Sums /\ FirstPlace \in Places
  BY DEF Sums, FirstPlace, Places
<1>3. TypeOK'
  BY <1>2 DEF Start, TypeOK, Lock!TypeOK
<1>4. DiskInv' /\ TrustInv' /\ TempInv' /\ TempsOwned'
  BY DEF Start, TypeOK, DiskInv, TrustInv, TempInv, TempsOwned, Owned
<1>5. LockInv'
  BY DEF Start, TypeOK, LockInv, Locked, Lock!TypeOK
<1>6. SeenInv' /\ MemoSound'
  BY DEF Start, TypeOK, SeenInv, MemoSound
<1>7. HashInv' /\ NoRedundantDownload'
  BY DEF Start, TypeOK, HashInv, NoRedundantDownload, Readable, Matches, Locked
<1> QED BY <1>1, <1>3, <1>4, <1>5, <1>6, <1>7

(* A call is refused. *)
LEMMA RefuseKeeps ==
  ASSUME IInv, NEW r \in Requests, Refuse(r)
  PROVE  IInv'
<1> USE PathFacts, WantFacts, StoreConstants
     DEF IInv, Stages, Checking, Downloading, Answering, Goto, disk, local, env,
         Vouched, Written
<1>1. ~Locked(r)
  BY SMTT(30) DEF Refuse, LockInv, Locked, TypeOK
<1>2. MemoSound'
  BY DEF Refuse, MemoSound
<1> QED BY <1>1, <1>2, StageMoves DEF Refuse, TypeOK, TempInv

(* A check looks at its path. *)
LEMMA StatKeeps ==
  ASSUME IInv, NEW r \in Requests, Stat(r)
  PROVE  IInv'
<1> USE PathFacts, WantFacts, StoreConstants
     DEF IInv, Stages, Checking, Downloading, Answering, Goto, disk, local, env,
         Vouched, Written
<1>1. MemoSound'
  BY DEF Stat, MemoSound
<1>2. CASE Readable(Path(r))
  BY <1>1, <1>2, StageMoves, SMTT(30) DEF Stat, TypeOK, Readable, TempInv
<1>3. CASE ~Readable(Path(r))
  BY <1>1, <1>3, CheckGoesOn DEF Stat, TypeOK
<1> QED BY <1>2, <1>3

(* A check consults the memory of verified files. *)
LEMMA MemoKeeps ==
  ASSUME IInv, NEW r \in Requests, Memo(r)
  PROVE  IInv'
<1> USE PathFacts, WantFacts, StoreConstants
     DEF IInv, Stages, Checking, Downloading, Answering, Goto, disk, local, env,
         Vouched, Written
<1>1. MemoSound'
  BY DEF Memo, MemoSound
<1>2. CASE MemoHit(r)
  <2>1. verified[Path(r)] = [id |-> seen[r], sum |-> want[r]]
    BY <1>2 DEF MemoHit
  <2>2. verified[Path(r)].id = seen[r] /\ verified[Path(r)].sum = want[r]
    BY <2>1
  <2>3. verified[Path(r)] # NoEntry
    BY <2>1, NoEntryAssumption DEF TypeOK
  <2>4. Vouched(r, seen[r])
    BY <2>2, <2>3 DEF MemoSound, TypeOK, Entries
  <2>5. CASE Locked(r)
    BY <1>1, <1>2, <2>4, <2>5, TaskEnds DEF Memo, CheckSucceeds, TypeOK
  <2>6. CASE ~Locked(r)
    BY <1>1, <1>2, <2>4, <2>6, StageMoves DEF Memo, CheckSucceeds, TypeOK, TempInv
  <2> QED BY <2>5, <2>6
<1>3. CASE ~MemoHit(r)
  BY <1>1, <1>3, StageMoves DEF Memo, TypeOK, TempInv
<1> QED BY <1>2, <1>3

(* A check hashes its file. *)
LEMMA HashKeeps ==
  ASSUME IInv, NEW r \in Requests, Hash(r)
  PROVE  IInv'
<1> USE PathFacts, WantFacts, StoreConstants
     DEF IInv, Stages, Checking, Downloading, Answering, Goto, disk, local, env,
         Vouched, Written
<1>1. PermitsConserved'
  BY PermitStep DEF Hash
<1>2. TypeOK'
  BY DEF Hash, TypeOK, Lock!TypeOK
<1>3. DiskInv' /\ TrustInv' /\ TempInv' /\ TempsOwned'
  BY DEF Hash, TypeOK, DiskInv, TrustInv, TempInv, TempsOwned, Owned
<1>4. LockInv'
  BY DEF Hash, TypeOK, LockInv, Locked, Lock!TypeOK
<1>5. SeenInv' /\ MemoSound'
  BY DEF Hash, TypeOK, SeenInv, MemoSound
<1>6. HashInv'
  <2>1. \A q \in Requests : q # r => pc'[q] = pc[q] /\ seen'[q] = seen[q]
    BY DEF Hash, TypeOK
  <2>2. UNCHANGED <<file, body, holder, key, want, place>>
    BY DEF Hash
  <2>3. Readable(Dest(key[r])) /\ place[r] = "cache" => seen'[r] = file[Dest(key[r])]
    BY DEF Hash, TypeOK
  <2> QED BY <2>1, <2>2, <2>3 DEF HashInv, Readable, Matches, Locked
<1>7. NoRedundantDownload'
  BY DEF Hash, TypeOK, NoRedundantDownload, Readable
<1> QED BY <1>1, <1>2, <1>3, <1>4, <1>5, <1>6, <1>7

(* A check notes what it has hashed. *)
LEMMA NoteKeeps ==
  ASSUME IInv, NEW r \in Requests, Note(r)
  PROVE  IInv'
<1> USE PathFacts, WantFacts, StoreConstants
     DEF IInv, Stages, Checking, Downloading, Answering, Goto, disk, local, env,
         Vouched, Written
<1>1. CASE Matches(r)
  <2>1. Vouched(r, seen[r])
    BY <1>1 DEF Matches, TypeOK
  <2>2. verified' \in [Paths -> Entries \cup {NoEntry}] /\ MemoSound'
    BY <1>1, <2>1, RecordedFacts DEF Note
  <2>3. CASE Locked(r)
    BY <1>1, <2>1, <2>2, <2>3, TaskEnds DEF Note, CheckSucceeds
  <2>4. CASE ~Locked(r)
    BY <1>1, <2>1, <2>2, <2>4, StageMoves, SMTT(30) DEF Note, CheckSucceeds, TypeOK, TempInv
  <2> QED BY <2>3, <2>4
<1>2. CASE ~Matches(r)
  <2>1. verified' \in [Paths -> Entries \cup {NoEntry}] /\ MemoSound'
    BY <1>2 DEF Note, MemoSound, TypeOK
  <2>2. Locked(r) /\ place[r] = "cache" =>
          ~(Readable(Dest(key[r])) /\ body[file[Dest(key[r])]] = want[r])
    BY <1>2 DEF Note, HashInv
  <2> QED BY <1>2, <2>1, <2>2, CheckGoesOn DEF Note
<1> QED BY <1>1, <1>2

(* A task gets its lock. *)
LEMMA TakeLockKeeps ==
  ASSUME IInv, NEW r \in Requests, TakeLock(r)
  PROVE  IInv'
<1> USE PathFacts, WantFacts, StoreConstants
     DEF IInv, Stages, Checking, Downloading, Answering, Goto, disk, local, env,
         Vouched, Written
<1>1. PermitsConserved'
  BY PermitStep DEF TakeLock
<1>2. TypeOK'
  BY DEF TakeLock, TypeOK, Lock!Acquire, Lock!TypeOK, FirstPlace, Places
<1>3. DiskInv' /\ TrustInv' /\ TempInv' /\ TempsOwned'
  BY DEF TakeLock, TypeOK, DiskInv, TrustInv, TempInv, TempsOwned, Owned
<1>4. LockInv'
  BY DEF TakeLock, TypeOK, LockInv, Locked, Lock!Acquire, Lock!TypeOK
<1>5. SeenInv' /\ MemoSound'
  BY DEF TakeLock, TypeOK, SeenInv, MemoSound
<1>6. HashInv' /\ NoRedundantDownload'
  BY DEF TakeLock, TypeOK, HashInv, NoRedundantDownload, Readable, Matches, Locked,
         Lock!Acquire, Lock!TypeOK
<1> QED BY <1>1, <1>2, <1>3, <1>4, <1>5, <1>6

(* A download gets its permit. *)
LEMMA TakePermitKeeps ==
  ASSUME IInv, NEW r \in Requests, TakePermit(r)
  PROVE  IInv'
<1> USE PathFacts, WantFacts, StoreConstants
     DEF IInv, Stages, Checking, Downloading, Answering, Goto, disk, local, env,
         Vouched, Written
<1>1. permits' = permits - 1 /\ permits' >= 0
  BY DEF TakePermit, TypeOK
<1>2. PermitsConserved' /\ permits' \in 0..MaxDownloads
  BY <1>1, PermitStep DEF TakePermit
<1>3. TypeOK'
  BY <1>2 DEF TakePermit, TypeOK, Lock!TypeOK
<1>4. DiskInv' /\ TrustInv' /\ TempInv' /\ TempsOwned'
  BY DEF TakePermit, TypeOK, DiskInv, TrustInv, TempInv, TempsOwned, Owned
<1>5. LockInv' /\ SeenInv' /\ MemoSound'
  BY DEF TakePermit, TypeOK, LockInv, Locked, Lock!TypeOK, SeenInv, MemoSound
<1>6. HashInv' /\ NoRedundantDownload'
  BY DEF TakePermit, TypeOK, HashInv, NoRedundantDownload, Readable, Matches, Locked
<1> QED BY <1>2, <1>3, <1>4, <1>5, <1>6

(* A download creates its temp file, which nothing refers to yet. *)
LEMMA CreateTempKeeps ==
  ASSUME IInv, NEW r \in Requests, CreateTemp(r)
  PROVE  IInv'
<1> USE PathFacts, WantFacts, StoreConstants
     DEF IInv, Stages, Checking, Downloading, Answering, Goto, disk, local, env,
         Vouched, Written
<1> DEFINE n == born + 1
<1>1. /\ n \in Files /\ born' = n /\ pc[r] = "create"
      /\ body' = [body EXCEPT ![n] = Partial]
      /\ temps' = temps \cup {n} /\ temp' = [temp EXCEPT ![r] = n]
      /\ pc' = [pc EXCEPT ![r] = "fetch"]
      /\ UNCHANGED <<file, durable, synced, stale, verified, holder, permits, env, local,
                     attached>>
  BY DEF CreateTemp, NewFile, TypeOK, Files
<1>2. body[n] = Unused /\ n \notin synced /\ n \notin temps
  <2>1. n > born /\ ~(n <= born)
    BY DEF TypeOK
  <2>2. body[n] = Unused /\ n \notin temps
    BY <1>1, <2>1 DEF DiskInv
  <2> QED BY <2>2 DEF DiskInv, Complete
<1>3. \A q \in Requests : temp[q] # n
  <2> SUFFICES ASSUME NEW q \in Requests, temp[q] = n PROVE FALSE
    OBVIOUS
  <2>1. temp[q] # NoFile
    BY <1>1 DEF Files
  <2> QED BY <1>2, <2>1 DEF TempInv
<1> HIDE DEF n
<1>4. PermitsConserved'
  BY <1>1, PermitStep
<1>5. TypeOK'
  <2>1. n \in 0..MaxFiles
    BY <1>1 DEF Files
  <2> QED BY <1>1, <2>1 DEF TypeOK, Lock!TypeOK
<1>6. DiskInv' /\ TrustInv'
  <2>1. \A f \in Files : f > n => body'[f] = Unused
    BY <1>1 DEF DiskInv, TrustInv, TypeOK, n, Files
  <2>2. \A f \in synced : body'[f] \in Complete
    BY <1>1, <1>2 DEF DiskInv, TypeOK, Complete
  <2>3. \A f \in temps' : f <= n
    BY <1>1 DEF DiskInv, TypeOK, n, Files
  <2>4. n \notin trusted /\ \A k \in Keys : file[Dest(k)] # n
    <3>1. Unused \notin Complete /\ n # NoFile
      BY <1>1 DEF Complete, Files
    <3>2. \A k \in Keys : Dest(k) \in Paths
      OBVIOUS
    <3> QED BY <1>2, <3>1, <3>2 DEF DiskInv, TrustInv
  <2>5. TrustInv'
    BY <1>1, <2>4 DEF TrustInv, TypeOK
  <2> QED BY <1>1, <2>1, <2>2, <2>3, <2>5 DEF DiskInv
<1>7. TempInv'
  <2>1. \A f \in Files : f # n => body'[f] = body[f]
    BY <1>1 DEF TypeOK
  <2>2. body'[n] = Partial /\ n # NoFile /\ n \notin stale
    BY <1>1, <1>2 DEF TypeOK, Files
  <2>3. \A q \in Requests : pc'[q] = (IF q = r THEN "fetch" ELSE pc[q])
                          /\ temp'[q] = (IF q = r THEN n ELSE temp[q])
    BY <1>1 DEF TypeOK
  <2> QED BY <1>1, <1>3, <2>1, <2>2, <2>3 DEF TempInv, TypeOK
<1>8. TempsOwned'
  <2>1. Owned' = Owned \cup {n}
    <3>1. temp[r] = NoFile /\ n # NoFile
      BY <1>1 DEF TempInv, Files
    <3> QED BY <1>1, <3>1 DEF Owned, TypeOK
  <2> QED BY <1>1, <2>1 DEF TempsOwned
<1>9. LockInv'
  BY <1>1 DEF TypeOK, LockInv, Locked, Lock!TypeOK
<1>10. SeenInv' /\ MemoSound'
  <2>1. \A f \in Files : body[f] \in Contents => body'[f] = body[f]
    BY <1>1, <1>2 DEF TypeOK
  <2>2. \A p \in Paths : verified[p] # NoEntry =>
          verified[p].id \in Files /\ verified[p].sum \in Contents
    BY DEF TypeOK, Entries, Sums
  <2> QED BY <1>1, <2>1, <2>2 DEF TypeOK, SeenInv, MemoSound
<1>11. HashInv' /\ NoRedundantDownload'
  <2>1. \A k \in Keys : file[Dest(k)] # NoFile => body'[file[Dest(k)]] = body[file[Dest(k)]]
    BY <1>1, <1>2 DEF DiskInv, TypeOK
  <2>2. \A f \in Files : body'[f] = body[f] \/ body[f] = Unused
    BY <1>1, <1>2 DEF TypeOK
  <2> QED BY <1>1, <2>1, <2>2 DEF TypeOK, HashInv, NoRedundantDownload, Readable, Matches, Locked
<1> QED BY <1>4, <1>5, <1>6, <1>7, <1>8, <1>9, <1>10, <1>11

(* A download's temp file name is taken. *)
LEMMA TempNameTakenKeeps ==
  ASSUME IInv, NEW r \in Requests, NEW f \in Files, TempNameTaken(r, f)
  PROVE  IInv'
<1> USE PathFacts, WantFacts, StoreConstants
     DEF IInv, Stages, Checking, Downloading, Answering, Goto, disk, local, env,
         Vouched, Written
<1>1. permits' = permits + 1 /\ permits' >= 0 /\ Locked(r)
  BY DEF TempNameTaken, TypeOK, LockInv
<1>2. PermitsConserved' /\ permits' \in 0..MaxDownloads
  BY <1>1, PermitStep DEF TempNameTaken
<1>3. TypeOK'
  BY <1>2 DEF TempNameTaken, TypeOK, Lock!Release, Lock!TypeOK
<1>4. DiskInv' /\ TrustInv' /\ TempInv'
  BY DEF TempNameTaken, TypeOK, DiskInv, TrustInv, TempInv
<1>5. TempsOwned'
  BY DEF TempNameTaken, TempInv, TempsOwned, Owned
<1>6. LockInv'
  BY <1>1 DEF TempNameTaken, TypeOK, LockInv, Locked, Lock!Release, Lock!TypeOK
<1>7. SeenInv' /\ MemoSound'
  BY DEF TempNameTaken, TypeOK, SeenInv, MemoSound
<1>8. HashInv' /\ NoRedundantDownload'
  <2>1. \A q \in Requests : q # r /\ holder'[key[q]] = q => holder[key[q]] = q
    BY DEF TempNameTaken, TypeOK, Lock!Release, Lock!TypeOK
  <2> QED BY <2>1 DEF TempNameTaken, TypeOK, HashInv, NoRedundantDownload, Readable, Matches,
             Locked
<1> QED BY <1>2, <1>3, <1>4, <1>5, <1>6, <1>7, <1>8

(* A download receives the expected bytes; only its own file changes. *)
LEMMA FetchKeeps ==
  ASSUME IInv, NEW r \in Requests, NEW c \in Contents, Fetch(r, c)
  PROVE  IInv'
<1> USE PathFacts, WantFacts, StoreConstants
     DEF IInv, Stages, Checking, Downloading, Answering, Goto, disk, local, env,
         Vouched, Written
<1>1. /\ pc[r] = "fetch" /\ c = want[r]
      /\ pc' = [pc EXCEPT ![r] = "sync"]
      /\ UNCHANGED <<file, durable, synced, temps, stale, born, verified, holder, permits,
                     up, crashes, tampered, local, attached, temp>>
  BY DEF Fetch, Accepts
<1>2. temp[r] \in Files /\ body[temp[r]] = Partial /\ temp[r] \notin trusted
  BY <1>1 DEF TempInv, TypeOK, TrustInv, Complete
<1>3. PICK b \in {c, Short} :
        /\ \A f \in Files : body'[f] = IF f = temp[r] THEN b ELSE body[f]
        /\ body' \in [Files -> Contents \cup {Partial, Short, Unused}]
        /\ b = c => trusted' = trusted
        /\ b = Short => trusted' = trusted \cup {temp[r]}
  <2>1. CASE body' = [body EXCEPT ![temp[r]] = c] /\ UNCHANGED trusted
    BY <1>2, <2>1 DEF TypeOK
  <2>2. CASE body' = [body EXCEPT ![temp[r]] = Short] /\ trusted' = trusted \cup {temp[r]}
    BY <1>2, <2>2 DEF TypeOK
  <2> QED BY <2>1, <2>2 DEF Fetch
<1>4. PermitsConserved'
  BY <1>1, PermitStep
<1>5. TypeOK'
  BY <1>1, <1>2, <1>3 DEF TypeOK, Lock!TypeOK
<1>6. \A p \in Paths : file[p] \notin {temp[r]} \cup (trusted' \ trusted)
  <2>1. trusted' \subseteq trusted \cup {temp[r]} /\ Partial \notin Complete
    BY <1>3 DEF Complete
  <2>2. temp[r] \notin synced /\ temp[r] # NoFile
    BY <1>2, <2>1 DEF DiskInv, Files
  <2> QED BY <2>1, <2>2 DEF DiskInv
<1>7. \A k \in Keys : Dest(k) \in Paths /\ <<k, "bundled">> \in Paths
  BY DEF Dest, Paths, Places
<1>8. DiskInv' /\ TrustInv'
  <2>1. DiskInv'
    BY <1>1, <1>2, <1>3 DEF DiskInv, TypeOK, Complete
  <2>2. \A f \in trusted' : body'[f] \in Complete
    BY <1>1, <1>2, <1>3 DEF TrustInv, TypeOK, Complete
  <2>3. \A p \in Paths : file[p] \in trusted' => file[p] \in trusted /\ body'[file[p]] = body[file[p]]
    BY <1>3, <1>6 DEF TypeOK
  <2> QED BY <1>1, <1>7, <2>1, <2>2, <2>3 DEF TrustInv
<1>9. TempInv'
  BY <1>1, <1>2, <1>3 DEF TempInv, TypeOK
<1>10. TempsOwned' /\ LockInv'
  BY <1>1 DEF TempsOwned, Owned, TypeOK, LockInv, Locked, Lock!TypeOK
<1>11. SeenInv' /\ MemoSound'
  <2>1. \A f \in Files : body[f] \in Contents => body'[f] = body[f]
    BY <1>2, <1>3
  <2>2. \A p \in Paths : verified[p] # NoEntry =>
          verified[p].id \in Files /\ verified[p].sum \in Contents
    BY DEF TypeOK, Entries, Sums
  <2>3. trusted \subseteq trusted'
    BY <1>3
  <2> QED BY <1>1, <2>1, <2>2, <2>3 DEF TypeOK, SeenInv, MemoSound
<1>12. HashInv' /\ NoRedundantDownload'
  <2>1. \A k \in Keys : file[Dest(k)] # NoFile => body'[file[Dest(k)]] = body[file[Dest(k)]]
    BY <1>3, <1>6, <1>7 DEF TypeOK
  <2>2. \A f \in Files : body'[f] = body[f] \/ body[f] = Partial
    BY <1>2, <1>3
  <2> QED BY <1>1, <2>1, <2>2 DEF TypeOK, HashInv, NoRedundantDownload, Readable, Matches, Locked
<1> QED BY <1>4, <1>5, <1>8, <1>9, <1>10, <1>11, <1>12

(* A download flushes its temp file. *)
LEMMA SyncTempKeeps ==
  ASSUME IInv, NEW r \in Requests, SyncTemp(r)
  PROVE  IInv'
<1> USE PathFacts, WantFacts, StoreConstants
     DEF IInv, Stages, Checking, Downloading, Answering, Goto, disk, local, env,
         Vouched, Written
<1>1. /\ pc[r] = "sync" /\ pc' = [pc EXCEPT ![r] = "rename"]
      /\ synced' = synced \cup {temp[r]}
      /\ UNCHANGED <<file, durable, body, temps, stale, born, verified, holder, permits, env,
                     local, attached, temp>>
  BY DEF SyncTemp
<1>2. temp[r] \in Files /\ body[temp[r]] \in Complete
  BY <1>1 DEF TempInv, TypeOK, Complete
<1>3. PermitsConserved'
  BY <1>1, PermitStep
<1>4. TypeOK'
  BY <1>1, <1>2 DEF TypeOK, Lock!TypeOK
<1>5. DiskInv' /\ TrustInv'
  BY <1>1, <1>2 DEF DiskInv, TrustInv
<1>6. TempInv' /\ TempsOwned'
  BY <1>1, <1>2 DEF TempInv, TypeOK, TempsOwned, Owned
<1>7. LockInv' /\ SeenInv' /\ MemoSound'
  BY <1>1 DEF TypeOK, LockInv, Locked, Lock!TypeOK, SeenInv, MemoSound
<1>8. HashInv' /\ NoRedundantDownload'
  BY <1>1 DEF TypeOK, HashInv, NoRedundantDownload, Readable, Matches, Locked
<1> QED BY <1>3, <1>4, <1>5, <1>6, <1>7, <1>8

(* A download is published; the lock keeps every other task off its path. *)
LEMMA RenameKeeps ==
  ASSUME IInv, NEW r \in Requests, Rename(r)
  PROVE  IInv'
<1> USE PathFacts, WantFacts, StoreConstants
     DEF IInv, Stages, Checking, Downloading, Answering, Goto, disk, local, env,
         Vouched, Written
<1>1. /\ pc[r] = "rename" /\ pc' = [pc EXCEPT ![r] = "syncdir"]
      /\ file' = [file EXCEPT ![Dest(key[r])] = temp[r]]
      /\ temps' = temps \ {temp[r]} /\ temp' = [temp EXCEPT ![r] = NoFile]
      /\ seen' = [seen EXCEPT ![r] = temp[r]]
      /\ UNCHANGED <<durable, body, synced, stale, born, verified, holder, permits, env,
                     key, want, place, attached>>
  BY DEF Rename
<1>2. temp[r] \in Files /\ Written(r) /\ temp[r] \in synced /\ temp[r] \notin stale
  BY <1>1 DEF TempInv, TypeOK
<1>3. Locked(r)
  BY <1>1 DEF LockInv
<1>4. \A q \in Requests : q # r /\ Locked(q) => file'[Dest(key[q])] = file[Dest(key[q])]
  BY <1>1, <1>3 DEF Locked, TypeOK
<1>5. PermitsConserved'
  BY <1>1, PermitStep
<1>6. TypeOK'
  BY <1>1, <1>2 DEF TypeOK, Lock!TypeOK
<1>7. DiskInv' /\ TrustInv'
  <2>1. \A p \in Paths : file'[p] \in {file[p], temp[r]}
    BY <1>1 DEF TypeOK
  <2>2. DiskInv'
    BY <1>1, <1>2, <2>1 DEF DiskInv
  <2>3. /\ \A k \in Keys : file'[<<k, "bundled">>] = file[<<k, "bundled">>]
        /\ \A k \in Keys : file'[Dest(k)] \in {file[Dest(k)], temp[r]}
    BY <1>1, <2>1 DEF TypeOK, Dest, Paths, Places
  <2>4. TrustInv'
    BY <1>1, <1>2, <2>3 DEF TrustInv
  <2> QED BY <2>2, <2>4
<1>8. TempInv'
  <2>1. NoFile \notin stale
    BY DEF TypeOK, Files
  <2> QED BY <1>1, <2>1 DEF TempInv, TypeOK
<1>9. TempsOwned'
  <2>1. Owned' = Owned \ {temp[r]}
    BY <1>1, <1>2 DEF Owned, TypeOK, TempInv
  <2> QED BY <1>1, <1>2, <2>1 DEF TempsOwned
<1>10. LockInv'
  BY <1>1 DEF TypeOK, LockInv, Locked, Lock!TypeOK
<1>11. SeenInv' /\ MemoSound'
  <2>1. file'[Dest(key[r])] = temp[r] /\ seen'[r] = temp[r]
    BY <1>1 DEF TypeOK
  <2>2. \A q \in Requests : pc[q] \in {"syncdir", "restat"} => Locked(q)
    BY DEF LockInv
  <2> QED BY <1>1, <1>2, <1>4, <2>1, <2>2 DEF TypeOK, SeenInv, MemoSound
<1>12. HashInv'
  BY <1>1, <1>4 DEF TypeOK, HashInv, Readable, Matches, Locked
<1>13. NoRedundantDownload'
  <2>1. \A q \in Requests :
          pc[q] \in {"permit", "create", "fetch", "sync", "rename"} => Locked(q)
    BY DEF LockInv
  <2> QED BY <1>1, <1>4, <2>1 DEF TypeOK, NoRedundantDownload, Readable
<1> QED BY <1>5, <1>6, <1>7, <1>8, <1>9, <1>10, <1>11, <1>12, <1>13

(* The directory is flushed. *)
LEMMA SyncParentKeeps ==
  ASSUME IInv, NEW r \in Requests, SyncParent(r)
  PROVE  IInv'
<1> USE PathFacts, WantFacts, StoreConstants
     DEF IInv, Stages, Checking, Downloading, Answering, Goto, disk, local, env,
         Vouched, Written
<1>1. PermitsConserved'
  BY PermitStep DEF SyncParent
<1>2. TypeOK' /\ DiskInv' /\ TrustInv'
  BY DEF SyncParent, TypeOK, Lock!TypeOK, DiskInv, TrustInv
<1>3. TempInv' /\ TempsOwned' /\ LockInv'
  BY DEF SyncParent, TypeOK, TempInv, TempsOwned, Owned, LockInv, Locked, Lock!TypeOK
<1>4. SeenInv' /\ MemoSound'
  BY DEF SyncParent, TypeOK, SeenInv, MemoSound
<1>5. HashInv' /\ NoRedundantDownload'
  BY DEF SyncParent, TypeOK, HashInv, NoRedundantDownload, Readable, Matches, Locked
<1> QED BY <1>1, <1>2, <1>3, <1>4, <1>5

(* A download looks at what it has published. *)
LEMMA RestatKeeps ==
  ASSUME IInv, NEW r \in Requests, Restat(r)
  PROVE  IInv'
<1> USE PathFacts, WantFacts, StoreConstants
     DEF IInv, Stages, Checking, Downloading, Answering, Goto, disk, local, env,
         Vouched, Written
<1>1. pc[r] = "restat" /\ Vouched(r, seen[r]) /\ Locked(r)
  BY DEF Restat, SeenInv, LockInv
<1>2. MemoSound' /\ verified' = verified
  BY DEF Restat, MemoSound
<1>3. CASE FinishTask(r, "open") /\ UNCHANGED seen
  BY <1>1, <1>2, <1>3, TaskEnds DEF Restat, TypeOK
<1>4. CASE /\ file[Dest(key[r])] # NoFile /\ Goto(r, "record")
           /\ seen' = [seen EXCEPT ![r] = file[Dest(key[r])]]
           /\ UNCHANGED <<temps, temp, permits, holder>>
  <2>1. file[Dest(key[r])] = seen[r] \/ file[Dest(key[r])] \in trusted
    BY <1>1, <1>4 DEF SeenInv
  <2>2. /\ seen' \in [Requests -> Files \cup {NoFile}] /\ Vouched(r, seen'[r])
        /\ \A q \in Requests : q # r => seen'[q] = seen[q]
    BY <1>1, <1>4, <2>1 DEF TypeOK
  <2>3. PermitsConserved'
    BY <1>1, <1>4, PermitStep
  <2>4. TypeOK' /\ DiskInv' /\ TrustInv'
    BY <1>1, <1>2, <1>4, <2>2 DEF Restat, TypeOK, Lock!TypeOK, DiskInv, TrustInv
  <2>5. TempInv' /\ TempsOwned' /\ LockInv'
    BY <1>1, <1>4 DEF Restat, TypeOK, TempInv, TempsOwned, Owned, LockInv, Locked, Lock!TypeOK
  <2>6. SeenInv'
    BY <1>1, <1>4, <2>2 DEF Restat, TypeOK, SeenInv
  <2>7. HashInv' /\ NoRedundantDownload'
    BY <1>1, <1>4, <2>2 DEF Restat, TypeOK, HashInv, NoRedundantDownload, Readable, Matches,
       Locked
  <2> QED BY <1>2, <2>3, <2>4, <2>5, <2>6, <2>7
<1> QED BY <1>3, <1>4 DEF Restat

(* A download is remembered as verified. *)
LEMMA RecordKeeps ==
  ASSUME IInv, NEW r \in Requests, Record(r)
  PROVE  IInv'
<1> USE PathFacts, WantFacts, StoreConstants
     DEF IInv, Stages, Checking, Downloading, Answering, Goto, disk, local, env,
         Vouched, Written
<1>1. Vouched(r, seen[r]) /\ Locked(r)
  BY DEF Record, SeenInv, LockInv
<1>2. verified' \in [Paths -> Entries \cup {NoEntry}] /\ MemoSound'
  BY <1>1, RecordedFacts DEF Record
<1> QED BY <1>1, <1>2, TaskEnds DEF Record

(* A step fails. *)
LEMMA IoErrorKeeps ==
  ASSUME IInv, NEW r \in Requests, IoError(r)
  PROVE  IInv'
<1> USE PathFacts, WantFacts, StoreConstants
     DEF IInv, Stages, Checking, Downloading, Answering, Goto, disk, local, env,
         Vouched, Written
<1>1. MemoSound' /\ verified' \in [Paths -> Entries \cup {NoEntry}]
  BY DEF IoError, MemoSound, TypeOK
<1>2. CASE Locked(r)
  BY <1>1, <1>2, TaskEnds DEF IoError
<1>3. CASE ~Locked(r)
  BY <1>1, <1>3, StageMoves DEF IoError, TypeOK, TempInv
<1> QED BY <1>2, <1>3

(* The handler opens the file. *)
LEMMA OpenKeeps ==
  ASSUME IInv, NEW r \in Requests, Open(r)
  PROVE  IInv'
<1> USE PathFacts, WantFacts, StoreConstants
     DEF IInv, Stages, Checking, Downloading, Answering, Goto, disk, local, env,
         Vouched, Written
<1>1. MemoSound' /\ ~Locked(r)
  BY DEF Open, MemoSound, LockInv, Locked, TypeOK
<1> QED BY <1>1, StageMoves, SMTT(30) DEF Open, TypeOK, TempInv

(* A request ends. *)
LEMMA ReplyKeeps ==
  ASSUME IInv, NEW r \in Requests, Reply(r)
  PROVE  IInv'
<1> USE PathFacts, WantFacts, StoreConstants
     DEF IInv, Stages, Checking, Downloading, Answering, Goto, disk, local, env,
         Vouched, Written
<1>1. AnyKey \in Keys /\ AnySum(AnyKey) \in Announced[AnyKey] /\ AnySum(AnyKey) \in Sums
  BY IdleFacts
<1>2. PermitsConserved'
  BY PermitStep DEF Reply
<1>3. TypeOK'
  BY <1>1 DEF Reply, TypeOK, Lock!TypeOK, Places
<1>4. DiskInv' /\ TrustInv' /\ TempInv' /\ TempsOwned'
  BY DEF Reply, TypeOK, DiskInv, TrustInv, TempInv, TempsOwned, Owned
<1>5. LockInv'
  BY DEF Reply, TypeOK, LockInv, Locked, Lock!TypeOK
<1>6. SeenInv' /\ MemoSound'
  BY DEF Reply, TypeOK, SeenInv, MemoSound
<1>7. HashInv' /\ NoRedundantDownload'
  BY DEF Reply, TypeOK, HashInv, NoRedundantDownload, Readable, Matches, Locked
<1> QED BY <1>2, <1>3, <1>4, <1>5, <1>6, <1>7

(* A client goes away. *)
LEMMA DisconnectKeeps ==
  ASSUME IInv, NEW r \in Requests, Disconnect(r)
  PROVE  IInv'
<1> USE PathFacts, WantFacts, StoreConstants
     DEF IInv, Stages, Checking, Downloading, Answering, Goto, disk, local, env,
         Vouched, Written
<1>1. MemoSound'
  BY DEF Disconnect, MemoSound
<1>2. CASE Locked(r) \/ pc[r] = "lock"
  <2>1. UNCHANGED <<disk, verified, holder, permits, env, pc, local, temp>>
    BY <1>2 DEF Disconnect
  <2>2. TypeOK' /\ PermitsConserved'
    BY <2>1 DEF Disconnect, TypeOK, Lock!TypeOK, PermitsConserved
  <2>3. \A q \in Requests : attached'[q] => attached[q]
    BY DEF Disconnect, TypeOK
  <2>4. TempInv'
    BY <2>1, <2>3 DEF TempInv
  <2> QED BY <1>1, <2>1, <2>2, <2>4 DEF DiskInv, TrustInv, TempsOwned, Owned, LockInv, Locked, SeenInv,
             HashInv, NoRedundantDownload, Readable, Matches, Dest
<1>3. CASE ~Locked(r) /\ pc[r] # "lock"
  <2>1. pc[r] \in Checking \cup Answering \cup {"idle"}
    BY <1>3 DEF TypeOK, LockInv
  <2> QED BY <1>1, <1>3, <2>1, StageMoves DEF Disconnect, TypeOK, TempInv
<1> QED BY <1>2, <1>3

(* A cached file is replaced; in the window of a download, it is trusted. *)
LEMMA ReplaceKeeps ==
  ASSUME IInv, NEW k \in Keys, NEW c \in Contents, Replace(k, c)
  PROVE  IInv'
<1> USE PathFacts, WantFacts, StoreConstants
     DEF IInv, Stages, Checking, Downloading, Answering, Goto, disk, local, env,
         Vouched, Written
<1> DEFINE n == born + 1
<1>1. /\ n \in Files /\ born' = n /\ c \in Foreign
      /\ body' = [body EXCEPT ![n] = c]
      /\ file' = [file EXCEPT ![Dest(k)] = n] /\ durable' = [durable EXCEPT ![k] = n]
      /\ synced' = synced \cup {n} /\ tampered' = tampered \cup {k}
      /\ UNCHANGED <<temps, stale, verified, holder, permits, up, crashes, pc, attached,
                     local, temp>>
  BY DEF Replace, NewFile, TypeOK, Files
<1>2. /\ trusted \subseteq trusted' /\ trusted' \subseteq trusted \cup {n}
      /\ \A r \in Requests : key[r] = k /\ pc[r] \in {"syncdir", "restat"} => n \in trusted'
  BY <1>1 DEF Replace, InWindow
<1>3. body[n] = Unused /\ n \notin synced /\ n \in 0..MaxFiles
  BY <1>1, SMTT(30) DEF DiskInv, TypeOK, Files, Complete
<1>4. \A f \in Files : f > n => body[f] = Unused
  BY DEF DiskInv, TrustInv, TypeOK, Files
<1>5. \A f \in temps : f <= n
  BY DEF DiskInv, TrustInv, TypeOK, Files
<1> HIDE DEF n
<1>6. PermitsConserved'
  BY <1>1 DEF PermitsConserved
<1>7. TypeOK'
  BY <1>1, <1>2, <1>3 DEF TypeOK, Lock!TypeOK
<1>8. \A f \in Files : body'[f] = IF f = n THEN c ELSE body[f]
  BY <1>1 DEF TypeOK
<1>9. DiskInv' /\ TrustInv'
  <2>1. \A f \in Files : f > n => body'[f] = Unused
    BY <1>1, <1>4, <1>8 DEF Files
  <2>2. \A f \in synced' : body'[f] \in Complete
    BY <1>1, <1>8 DEF DiskInv, TypeOK, Complete
  <2>3. /\ \A p \in Paths : file'[p] # NoFile => file'[p] \in synced'
        /\ \A j \in Keys : durable'[j] # NoFile => durable'[j] \in synced'
    BY <1>1 DEF DiskInv, TypeOK
  <2>4. \A f \in trusted' : body'[f] \in Complete
    BY <1>1, <1>2, <1>8 DEF TrustInv, TypeOK, Complete
  <2>5. n # NoFile /\ \A p \in Paths : file[p] # n
    BY <1>1, <1>3 DEF DiskInv, Files
  <2>6. \A j \in Keys : /\ <<j, "bundled">> \in Paths /\ <<j, "bundled">> # Dest(k)
                       /\ j # k => Dest(j) # Dest(k)
    BY DEF Paths, Places, Dest
  <2>7. \A p \in Paths : p # Dest(k) => file'[p] = file[p] /\ file'[p] # n
    BY <1>1, <2>5 DEF TypeOK
  <2>8. \A p \in Paths : p # Dest(k) /\ file'[p] \in trusted' =>
          file[p] \in trusted /\ body'[file[p]] = body[file[p]]
    BY <1>2, <1>8, <2>7 DEF TypeOK
  <2>9. \A j \in Keys : file'[<<j, "bundled">>] \notin trusted'
    <3> SUFFICES ASSUME NEW j \in Keys, file'[<<j, "bundled">>] \in trusted' PROVE FALSE
      OBVIOUS
    <3>1. <<j, "bundled">> \in Paths /\ <<j, "bundled">> # Dest(k)
      BY DEF Paths, Places, Dest
    <3>2. file[<<j, "bundled">>] \in trusted
      BY <2>8, <3>1
    <3> QED BY <3>2 DEF TrustInv
  <2>10. \A j \in Keys \ tampered' : file'[Dest(j)] \in trusted' => body'[file'[Dest(j)]] = Short
    BY <1>1, <2>6, <2>7, <2>8 DEF TrustInv
  <2> QED BY <1>1, <1>5, <2>1, <2>2, <2>3, <2>4, <2>9, <2>10 DEF DiskInv, TrustInv
<1>10. TempInv' /\ TempsOwned'
  <2>1. \A r \in Requests : temp[r] # n
    BY <1>1, <1>3 DEF TempInv, Files, Complete, DiskInv
  <2>2. \A r \in Requests : temp[r] \in Files =>
          body'[temp[r]] = body[temp[r]] /\ (temp[r] \in trusted' <=> temp[r] \in trusted)
    BY <1>2, <1>8, <2>1
  <2>3. \A r \in Requests : pc[r] \in {"fetch", "sync", "rename"} => temp[r] \in Files
    BY DEF TempInv, TypeOK
  <2>4. TempInv'
    BY <1>1, <2>2, <2>3 DEF TempInv
  <2> QED BY <1>1, <2>4 DEF TempsOwned, Owned
<1>11. LockInv'
  BY <1>1 DEF LockInv, Locked
<1>12. \A p \in Paths : verified[p] # NoEntry =>
         verified[p].id \in Files /\ verified[p].sum \in Contents
  BY DEF TypeOK, Entries, Sums
<1>13. SeenInv' /\ MemoSound'
  <2>1. Unused \notin Contents
    OBVIOUS
  <2>2. \A f \in Files, d \in Contents : body[f] = d => body'[f] = d
    BY <1>3, <1>8, <2>1
  <2>3. MemoSound'
    BY <1>1, <1>2, <1>12, <2>2 DEF MemoSound
  <2>4. \A r \in Requests : Vouched(r, seen[r]) => Vouched(r, seen[r])'
    BY <1>1, <1>2, <2>2
  <2>5. \A r \in Requests : pc[r] \in {"syncdir", "restat"} =>
          file'[Dest(key[r])] \in {seen[r], NoFile} \cup trusted'
    <3> SUFFICES ASSUME NEW r \in Requests, pc[r] \in {"syncdir", "restat"}
                 PROVE  file'[Dest(key[r])] \in {seen[r], NoFile} \cup trusted'
      OBVIOUS
    <3>1. CASE key[r] = k
      BY <1>1, <1>2, <3>1 DEF TypeOK
    <3>2. CASE key[r] # k
      <4>1. file'[Dest(key[r])] = file[Dest(key[r])]
        BY <1>1, <3>2 DEF TypeOK
      <4> QED BY <1>2, <4>1 DEF SeenInv
    <3> QED BY <3>1, <3>2
  <2>6. UNCHANGED <<pc, key, want, seen>>
    BY <1>1
  <2> HIDE DEF Vouched
  <2> QED BY <2>3, <2>4, <2>5, <2>6 DEF SeenInv
<1>14. \A j \in Keys :
         \/ j = k /\ body'[file'[Dest(j)]] \in Foreign
         \/ /\ file'[Dest(j)] = file[Dest(j)]
            /\ file[Dest(j)] # NoFile => body'[file[Dest(j)]] = body[file[Dest(j)]]
  BY <1>1, <1>3, <1>8 DEF TypeOK, DiskInv, TrustInv
<1>15. \A r \in Requests : Matches(r) => Matches(r)'
  BY <1>1, <1>3, <1>8 DEF Matches, TypeOK
<1>16. HashInv'
  BY <1>1, <1>14, <1>15 DEF HashInv, Readable, Locked
<1>17. NoRedundantDownload'
  BY <1>1, <1>14 DEF NoRedundantDownload, Readable
<1> QED BY <1>6, <1>7, <1>9, <1>10, <1>11, <1>13, <1>16, <1>17

(* A cached file is deleted. *)
LEMMA DeleteKeeps ==
  ASSUME IInv, NEW k \in Keys, Delete(k)
  PROVE  IInv'
<1> USE PathFacts, WantFacts, StoreConstants
     DEF IInv, Stages, Checking, Downloading, Answering, Goto, disk, local, env,
         Vouched, Written
<1>1. PermitsConserved' /\ TypeOK'
  BY DEF Delete, TypeOK, Lock!TypeOK, PermitsConserved
<1>2. DiskInv' /\ TempInv' /\ TempsOwned' /\ LockInv'
  BY DEF Delete, TypeOK, DiskInv, TempInv, TempsOwned, Owned, LockInv, Locked
<1>5. TrustInv'
  <2>1. \A p \in Paths : file'[p] \in {file[p], NoFile}
    BY DEF Delete, TypeOK
  <2>2. NoFile \notin trusted
    BY DEF TypeOK, Files
  <2>3. \A j \in Keys : <<j, "bundled">> \in Paths
    BY DEF Paths, Places
  <2> QED BY <2>1, <2>2, <2>3 DEF Delete, TrustInv
<1>3. SeenInv' /\ MemoSound'
  BY DEF Delete, TypeOK, SeenInv, MemoSound
<1>4. HashInv' /\ NoRedundantDownload'
  BY DEF Delete, TypeOK, HashInv, NoRedundantDownload, Readable, Matches, Locked
<1> QED BY <1>1, <1>2, <1>3, <1>4, <1>5

(* The process or the machine dies; what was flushed stays. *)
LEMMA CrashKeeps ==
  ASSUME IInv, NEW power \in BOOLEAN, NEW lost \in SUBSET Keys, Crash(power, lost)
  PROVE  IInv'
<1> USE PathFacts, WantFacts, StoreConstants
     DEF IInv, Stages, Checking, Downloading, Answering, Goto, disk, local, env,
         Vouched, Written
<1> USE DEF Crash
<1>1. PermitsConserved'
  <2>1. {r \in Requests : pc'[r] \in Downloading} = {}
    OBVIOUS
  <2>2. Cardinality({r \in Requests : pc'[r] \in Downloading}) = 0
    BY <2>1, FS_EmptySet
  <2>3. permits' = MaxDownloads /\ MaxDownloads \in Nat
    OBVIOUS
  <2> QED BY <2>2, <2>3 DEF PermitsConserved
<1>2. \A p \in Paths : file'[p] = file[p] \/ \E k \in Keys : file'[p] = durable[k]
  BY DEF Paths
<1>3. temps' \subseteq Files /\ \A f \in temps' : f \in temps \/ f \in synced
  BY DEF TypeOK, DiskInv, TrustInv
<1>4. TypeOK'
  <2>1. /\ file' \in [Paths -> Files \cup {NoFile}]
        /\ durable' \in [Keys -> Files \cup {NoFile}]
    BY DEF TypeOK, Paths
  <2>2. body' \in [Files -> Contents \cup {Partial, Short, Unused}]
    BY DEF TypeOK
  <2>3. synced' \subseteq Files /\ temps' \subseteq Files /\ stale' \subseteq temps'
    BY <1>3 DEF TypeOK
  <2>4. /\ verified' \in [Paths -> Entries \cup {NoEntry}]
        /\ holder' \in [Keys -> Requests \cup {Nobody}]
        /\ born' \in 0..MaxFiles /\ tampered' \subseteq Keys /\ up' \in BOOLEAN
        /\ trusted' \subseteq Files
    BY DEF TypeOK
  <2>7. permits' \in 0..MaxDownloads /\ crashes' \in 0..MaxCrashes
    BY DEF TypeOK
  <2>5. /\ pc' \in [Requests -> Stages] /\ attached' \in [Requests -> BOOLEAN]
        /\ seen' \in [Requests -> Files \cup {NoFile}]
        /\ temp' \in [Requests -> Files \cup {NoFile}]
        /\ place' \in [Requests -> Places]
    BY DEF Places
  <2>6. /\ key' \in [Requests -> Keys] /\ want' \in [Requests -> Sums]
        /\ \A r \in Requests : want'[r] \in Announced[key'[r]]
    BY IdleFacts
  <2> QED BY <2>1, <2>2, <2>3, <2>4, <2>5, <2>6, <2>7 DEF TypeOK, Lock!TypeOK
<1>5. DiskInv' /\ TrustInv'
  <2>1. \A f \in synced : f <= born /\ body'[f] = body[f]
    BY DEF DiskInv, TypeOK, Files, Complete
  <2>2. \A f \in Files : f > born => body'[f] = Unused
    BY DEF DiskInv, TrustInv, TypeOK, Files
  <2>3. \A p \in Paths : file'[p] # NoFile => file'[p] \in synced
    BY <1>2 DEF DiskInv, TrustInv
  <2>4. \A k \in Keys : durable'[k] # NoFile => durable'[k] \in synced
    BY <2>3 DEF TypeOK
  <2>5. \A f \in temps' : f <= born
    BY <1>3, <2>1 DEF DiskInv, TrustInv
  <2> QED BY <2>1, <2>2, <2>3, <2>4, <2>5 DEF DiskInv, TrustInv
<1>6. TempInv'
  BY <1>3 DEF TempInv, Files
<1>7. TempsOwned'
  <2>1. Owned' = {}
    BY DEF Owned
  <2> QED BY <2>1 DEF TempsOwned
<1>8. LockInv' /\ SeenInv' /\ HashInv' /\ MemoSound' /\ NoRedundantDownload'
  BY DEF LockInv, SeenInv, HashInv, MemoSound, NoRedundantDownload
<1> QED BY <1>1, <1>4, <1>5, <1>6, <1>7, <1>8

(* The server starts again and sweeps its temp files. *)
LEMMA RestartKeeps ==
  ASSUME IInv, NEW left \in SUBSET temps, Restart(left)
  PROVE  IInv'
<1> USE PathFacts, WantFacts, StoreConstants
     DEF IInv, Stages, Checking, Downloading, Answering, Goto, disk, local, env,
         Vouched, Written
<1>1. PermitsConserved' /\ TypeOK' /\ DiskInv' /\ TrustInv'
  BY DEF Restart, TypeOK, Lock!TypeOK, PermitsConserved, DiskInv, TrustInv
<1>2. \A r \in Requests : temp[r] = NoFile
  BY DEF Restart, TempInv
<1>6. \A r \in Requests : pc[r] = "idle" /\ ~attached[r]
  BY DEF Restart, TempInv
<1>7. NoFile \notin left
  BY DEF TypeOK, Files
<1>8. /\ stale' = left
      /\ UNCHANGED <<pc, attached, temp, body, want, synced, trusted>>
  BY DEF Restart
<1>3. TempInv'
  BY <1>2, <1>6, <1>7, <1>8 DEF TempInv
<1>5. TempsOwned'
  <2>1. Owned' = {}
    BY <1>2 DEF Restart, Owned
  <2> QED BY <2>1 DEF Restart, TempsOwned
<1>4. LockInv' /\ SeenInv' /\ MemoSound' /\ HashInv' /\ NoRedundantDownload'
  BY DEF Restart, LockInv, Locked, SeenInv, MemoSound, HashInv, NoRedundantDownload, Readable,
     Matches
<1> QED BY <1>1, <1>3, <1>4, <1>5

-----------------------------------------------------------------------------
(* A server that has just started, whatever its cache directory holds. *)
LEMMA InitIInv ==
  ASSUME Init
  PROVE  IInv
<1> USE StoreConstants DEF Init, Lock!Init
<1>1. /\ \A p \in Paths : file[p] # NoFile => file[p] \in 1..born
      /\ born \in 0..MaxFiles /\ 1..born \subseteq Files
  BY DEF Files
<1>2. \A k \in Keys : Dest(k) \in Paths
  BY DEF Dest, Paths, Places
<1>3. TypeOK
  <2>1. /\ file \in [Paths -> Files \cup {NoFile}]
        /\ durable \in [Keys -> Files \cup {NoFile}]
    BY <1>1, <1>2
  <2>2. /\ body \in [Files -> Contents \cup {Partial, Short, Unused}]
        /\ synced \subseteq Files /\ temps \subseteq Files /\ stale \subseteq temps
        /\ verified \in [Paths -> Entries \cup {NoEntry}]
    BY <1>1
  <2>3. /\ holder \in [Keys -> Requests \cup {Nobody}]
        /\ permits \in 0..MaxDownloads /\ crashes \in 0..MaxCrashes
    OBVIOUS
  <2>4. /\ pc \in [Requests -> Stages] /\ place \in [Requests -> Places]
        /\ attached \in [Requests -> BOOLEAN]
        /\ seen \in [Requests -> Files \cup {NoFile}]
        /\ temp \in [Requests -> Files \cup {NoFile}]
    BY DEF Stages, Places
  <2>5. /\ key \in [Requests -> Keys] /\ want \in [Requests -> Sums]
        /\ \A r \in Requests : want[r] \in Announced[key[r]]
    BY IdleFacts
  <2> QED BY <1>1, <2>1, <2>2, <2>3, <2>4, <2>5 DEF TypeOK, Lock!TypeOK
<1>4. DiskInv
  <2>1. \A f \in Files : f > born => body[f] = Unused
    OBVIOUS
  <2>2. \A f \in synced : body[f] \in Complete
    BY <1>1, SMTT(30) DEF Files, Complete
  <2>3. \A k \in Keys : durable[k] # NoFile => durable[k] \in synced
    BY <1>1, <1>2
  <2> QED BY <1>1, <2>1, <2>2, <2>3 DEF DiskInv
<1>5. LockInv /\ TempInv /\ TrustInv /\ SeenInv /\ HashInv /\ NoRedundantDownload
  BY DEF LockInv, TrustInv, TempInv, SeenInv, HashInv, NoRedundantDownload, Downloading, Checking
<1>6. MemoSound
  BY DEF MemoSound
<1>7. PermitsConserved
  <2>1. {r \in Requests : pc[r] \in Downloading} = {}
    BY DEF Downloading
  <2>2. Cardinality({r \in Requests : pc[r] \in Downloading}) = 0
    BY <2>1, FS_EmptySet, Zenon
  <2>3. permits = MaxDownloads /\ MaxDownloads \in Nat
    OBVIOUS
  <2> QED BY <2>2, <2>3 DEF PermitsConserved
<1>8. TempsOwned
  <2>1. Owned = {}
    BY DEF Owned
  <2> QED BY <2>1 DEF TempsOwned
<1> QED BY <1>3, <1>4, <1>5, <1>6, <1>7, <1>8 DEF IInv

(* A step that changes nothing. *)
LEMMA StutterKeeps ==
  ASSUME IInv, UNCHANGED vars
  PROVE  IInv'
<1> USE DEF vars, disk, local, env,
         Vouched, Written
<1>1. TypeOK' /\ DiskInv' /\ TrustInv' /\ PermitsConserved' /\ TempsOwned' /\ MemoSound'
  BY DEF IInv, TypeOK, Lock!TypeOK, DiskInv, TrustInv, PermitsConserved, TempsOwned, Owned, MemoSound
<1>2. LockInv' /\ TempInv' /\ SeenInv'
  BY DEF IInv, LockInv, Locked, TempInv, SeenInv, Dest, Vouched, Written
<1>3. HashInv' /\ NoRedundantDownload'
  BY DEF IInv, HashInv, Locked, Readable, Matches, NoRedundantDownload, Dest
<1> QED BY <1>1, <1>2, <1>3 DEF IInv

(* Every step of the server and of its environment keeps the invariant. *)
LEMMA NextIInv ==
  ASSUME IInv, [Next]_vars
  PROVE  IInv'
<1>1. ASSUME NEW r \in Requests, Step(r)
      PROVE  IInv'
  <2>1. CASE Stat(r)
    BY <2>1, StatKeeps
  <2>2. CASE Memo(r)
    BY <2>2, MemoKeeps
  <2>3. CASE Hash(r)
    BY <2>3, HashKeeps
  <2>4. CASE Note(r)
    BY <2>4, NoteKeeps
  <2>5. CASE TakeLock(r)
    BY <2>5, TakeLockKeeps
  <2>6. CASE TakePermit(r)
    BY <2>6, TakePermitKeeps
  <2>7. CASE CreateTemp(r)
    BY <2>7, CreateTempKeeps
  <2>8. CASE SyncTemp(r)
    BY <2>8, SyncTempKeeps
  <2>9. CASE Rename(r)
    BY <2>9, RenameKeeps
  <2>10. CASE SyncParent(r)
    BY <2>10, SyncParentKeeps
  <2>11. CASE Restat(r)
    BY <2>11, RestatKeeps
  <2>12. CASE Record(r)
    BY <2>12, RecordKeeps
  <2>13. CASE IoError(r)
    BY <2>13, IoErrorKeeps
  <2>14. CASE Open(r)
    BY <2>14, OpenKeeps
  <2>15. CASE Reply(r)
    BY <2>15, ReplyKeeps
  <2>16. ASSUME NEW f \in Files, TempNameTaken(r, f)
        PROVE  IInv'
    BY <2>16, TempNameTakenKeeps
  <2>17. ASSUME NEW c \in Contents, Fetch(r, c)
        PROVE  IInv'
    BY <2>17, FetchKeeps
  <2> QED BY <1>1, <2>1, <2>2, <2>3, <2>4, <2>5, <2>6, <2>7, <2>8, <2>9, <2>10, <2>11, <2>12, <2>13, <2>14, <2>15, <2>16, <2>17 DEF Step
<1>2. ASSUME NEW r \in Requests, NEW k \in Keys, NEW d \in Announced[k], Start(r, k, d)
      PROVE  IInv'
  BY <1>2, StartKeeps
<1>3. ASSUME NEW r \in Requests, Refuse(r)
      PROVE  IInv'
  BY <1>3, RefuseKeeps
<1>4. ASSUME NEW r \in Requests, Disconnect(r)
      PROVE  IInv'
  BY <1>4, DisconnectKeeps
<1>5. ASSUME NEW k \in Keys, NEW c \in Contents, Replace(k, c)
      PROVE  IInv'
  BY <1>5, ReplaceKeeps
<1>6. ASSUME NEW k \in Keys, Delete(k)
      PROVE  IInv'
  BY <1>6, DeleteKeeps
<1>7. ASSUME NEW power \in BOOLEAN, NEW lost \in SUBSET Keys, Crash(power, lost)
      PROVE  IInv'
  BY <1>7, CrashKeeps
<1>8. ASSUME NEW left \in SUBSET temps, Restart(left)
      PROVE  IInv'
  BY <1>8, RestartKeeps
<1>9. CASE UNCHANGED vars
  BY <1>9, StutterKeeps
<1> QED BY <1>1, <1>2, <1>3, <1>4, <1>5, <1>6, <1>7, <1>8, <1>9 DEF Next
-----------------------------------------------------------------------------
(* The inductive invariant, and with it the types, holds in every state of  *)
(* the archive cache, whatever its environment does.                        *)
THEOREM StoreInvariant == Spec => []IInv
<1>1. Init => IInv
  BY InitIInv
<1>2. IInv /\ [Next]_vars => IInv'
  BY NextIInv
<1> QED BY <1>1, <1>2, PTL DEF Spec

(* Every state is well typed: in particular the semaphore never holds more  *)
(* permits than MAX_CONCURRENT_DOWNLOADS.                                   *)
THEOREM StoreTypes == Spec => []TypeOK
<1>1. IInv => TypeOK
  BY DEF IInv
<1> QED BY <1>1, StoreInvariant, PTL

(* An entry of the memory of verified files is true of the file it names,   *)
(* but for files cut short by a lost write and files put in place between a *)
(* download's rename and its look at the path.                              *)
THEOREM MemoIsSound == Spec => []MemoSound
<1>1. IInv => MemoSound
  BY DEF IInv
<1> QED BY <1>1, StoreInvariant, PTL

(* load_or_fetch only answers with a path at which it has seen the bytes    *)
(* that were asked for, or a file of those two kinds.                       *)
THEOREM AnswersAreVerified == Spec => []ReturnedFileVerified
<1>1. IInv => ReturnedFileVerified
  BY DEF IInv, SeenInv, Vouched, ReturnedFileVerified
<1> QED BY <1>1, StoreInvariant, PTL

(* No download starts or goes on while the cache has what it would fetch.   *)
THEOREM DownloadsOnce == Spec => []NoRedundantDownload
<1>1. IInv => NoRedundantDownload
  BY DEF IInv
<1> QED BY <1>1, StoreInvariant, PTL

(* What is in the cache was written to its end and is on the disk, and      *)
(* stays so across crashes and power failures at any point of a download.   *)
THEOREM CacheSurvives == Spec => []CacheDurable
<1>1. IInv => CacheDurable
  <2>1. ASSUME IInv, NEW k \in Keys, NEW f \in {file[Dest(k)], durable[k]} \ {NoFile}
        PROVE  f \in synced /\ body[f] # Partial
    <3>1. Dest(k) \in Paths
      BY DEF Dest, Paths, Places
    <3>2. f \in synced
      BY <2>1, <3>1 DEF IInv, DiskInv
    <3>3. body[f] \in Complete
      BY <2>1, <3>2 DEF IInv, DiskInv
    <3> QED BY <3>2, <3>3, StoreConstants DEF Complete
  <2> QED BY <2>1 DEF CacheDurable
<1> QED BY <1>1, StoreInvariant, PTL

(* Download permits are neither lost nor made up on any exit. *)
THEOREM PermitsBalance == Spec => []PermitsConserved
<1>1. IInv => PermitsConserved
  BY DEF IInv
<1> QED BY <1>1, StoreInvariant, PTL

(* No temp file is left behind by this process. *)
THEOREM TempsAreOwned == Spec => []TempsOwned
<1>1. IInv => TempsOwned
  BY DEF IInv
<1> QED BY <1>1, StoreInvariant, PTL

-----------------------------------------------------------------------------
(* What a request may find at its path when it opens it.  A file that was   *)
(* checked is still there, or a download has put announced bytes in its     *)
(* place, all of them but for a lost write of this process; StillHonest is  *)
(* the same after a step.                                                   *)
Honest(k, f) == body[f] \in Announced[k] \/ (body[f] = Short /\ f \in trusted)
StillHonest(k, f) == body'[f] \in Announced[k] \/ (body'[f] = Short /\ f \in trusted')
Fine(r) == file[Path(r)] # NoFile /\ Honest(key[r], file[Path(r)])

AtCache(r) == pc[r] \in {"permit"} \cup Downloading => place[r] = "cache"
Serves(r) ==
  key[r] \notin tampered =>
    /\ pc[r] \in {"memo", "note"} => seen[r] \in {file[Path(r)], NoFile} \/ Fine(r)
    /\ pc[r] \in {"syncdir", "restat", "record", "open"} => Fine(r)
    /\ pc[r] = "served" => seen[r] \in Files /\ Honest(key[r], seen[r])
ServeInv == \A r \in Requests : AtCache(r) /\ Serves(r)

(* A step other than a crash changes no content that is complete, and puts  *)
(* only announced bytes, or what is left of them, where nobody interferes.  *)
KeepsFiles ==
  /\ tampered \subseteq tampered'
  /\ trusted \subseteq trusted' /\ (synced \cup {NoFile}) \cap trusted' \subseteq trusted
  /\ \A f \in Files : body[f] \in Complete => body'[f] = body[f]
  /\ \A k \in Keys, l \in Places : k \notin tampered' =>
       \/ file'[<<k, l>>] = file[<<k, l>>]
       \/ file'[<<k, l>>] # NoFile /\ StillHonest(k, file'[<<k, l>>])

LEMMA NamedFiles ==
  ASSUME IInv, NEW p \in Paths, file[p] # NoFile
  PROVE  file[p] \in Files /\ body[file[p]] \in Complete
  BY DEF IInv, TypeOK, DiskInv

LEMMA SameFiles ==
  ASSUME UNCHANGED <<file, body, tampered, trusted>>
  PROVE  KeepsFiles
  BY DEF KeepsFiles

LEMMA NewFileKeeps ==
  ASSUME IInv, NEW c, NewFile(c)
  PROVE  \A f \in Files : body[f] \in Complete => body'[f] = body[f]
<1>1. born + 1 \in Files /\ body[born + 1] = Unused
  BY StoreConstants DEF IInv, TypeOK, DiskInv, NewFile, Files
<1>2. Unused \notin Complete
  BY StoreConstants DEF Complete
<1> QED BY <1>1, <1>2 DEF NewFile, IInv, TypeOK

(* Whose files a step changes. *)
LEMMA RenameFiles ==
  ASSUME IInv, NEW r \in Requests, Rename(r)
  PROVE  /\ KeepsFiles /\ file'[Dest(key[r])] = temp[r] /\ temp[r] # NoFile
         /\ StillHonest(key[r], file'[Dest(key[r])])
<1>1. temp[r] # NoFile /\ Written(r) /\ UNCHANGED <<body, tampered, trusted>>
  BY DEF IInv, TempInv, Rename, env
<1>2. want[r] \in Announced[key[r]] /\ Dest(key[r]) \in Paths
  BY WantFacts, PathFacts DEF IInv
<1>3. file' = [file EXCEPT ![Dest(key[r])] = temp[r]] /\ file \in [Paths -> Files \cup {NoFile}]
  BY DEF Rename, IInv, TypeOK
<1>4. \A p \in Paths : file'[p] = IF p = Dest(key[r]) THEN temp[r] ELSE file[p]
  BY <1>3
<1>5. \/ body'[temp[r]] \in Announced[key[r]]
      \/ body'[temp[r]] = Short /\ temp[r] \in trusted'
  BY <1>1, <1>2 DEF Written
<1>6. \A k \in Keys, l \in Places :
        \/ file'[<<k, l>>] = file[<<k, l>>]
        \/ file'[<<k, l>>] # NoFile /\ StillHonest(k, file'[<<k, l>>])
  <2> SUFFICES ASSUME NEW k \in Keys, NEW l \in Places, <<k, l>> = Dest(key[r])
               PROVE  file'[<<k, l>>] # NoFile /\ StillHonest(k, file'[<<k, l>>])
    BY <1>4 DEF Paths
  <2>1. k = key[r]
    BY DEF Dest
  <2>2. file'[<<k, l>>] = temp[r]
    BY <1>2, <1>4
  <2> QED BY <1>1, <1>5, <2>1, <2>2 DEF StillHonest
<1>7. StillHonest(key[r], file'[Dest(key[r])])
  BY <1>2, <1>4, <1>5 DEF StillHonest
<1> QED BY <1>1, <1>2, <1>4, <1>6, <1>7 DEF KeepsFiles

LEMMA TamperingFiles ==
  ASSUME IInv, NEW k \in Keys, (\E c \in Contents : Replace(k, c)) \/ Delete(k)
  PROVE  KeepsFiles
<1>1. /\ tampered' = tampered \cup {k} /\ Dest(k) \in Paths
      /\ \E f : file' = [file EXCEPT ![Dest(k)] = f]
      /\ file \in [Paths -> Files \cup {NoFile}]
  BY PathFacts DEF Replace, Delete, IInv, TypeOK
<1>2. \A f \in Files : body[f] \in Complete => body'[f] = body[f]
  BY NewFileKeeps DEF Replace, Delete
<1>4. trusted \subseteq trusted' /\ (synced \cup {NoFile}) \cap trusted' \subseteq trusted
  <2>1. CASE Delete(k)
    BY <2>1 DEF Delete
  <2>2. CASE \E c \in Contents : Replace(k, c)
    <3>1. born' \notin synced \cup {NoFile}
      <4>1. born' \in Files /\ body[born'] = Unused
        BY <2>2, StoreConstants DEF Replace, NewFile, IInv, TypeOK, DiskInv, Files
      <4> QED BY <4>1, StoreConstants DEF IInv, DiskInv, Complete, Files
    <3> QED BY <2>2, <3>1 DEF Replace
  <2> QED BY <2>1, <2>2
<1>3. \A j \in Keys, l \in Places : j \notin tampered' => file'[<<j, l>>] = file[<<j, l>>]
  BY <1>1 DEF Dest, Paths
<1> QED BY <1>1, <1>2, <1>3, <1>4 DEF KeepsFiles

LEMMA StepFiles ==
  ASSUME IInv, NEW r \in Requests, Step(r)
  PROVE  KeepsFiles
<1> USE DEF disk, env
<1>1. CASE Rename(r)
  BY <1>1, RenameFiles
<1>2. CASE \E c \in Contents : Fetch(r, c)
  <2>1. temp[r] \in Files /\ body[temp[r]] = Partial /\ Partial \notin Complete
    BY <1>2, StoreConstants DEF Fetch, IInv, TempInv, TypeOK, Complete
  <2>2. UNCHANGED <<file, tampered>> /\ trusted \subseteq trusted' /\ temp[r] \notin synced
    BY <1>2, <2>1 DEF Fetch, IInv, DiskInv
  <2>4. (synced \cup {NoFile}) \cap trusted' \subseteq trusted
    BY <1>2, <2>1, <2>2, StoreConstants DEF Fetch, Files
  <2>3. \A f \in Files : body[f] \in Complete => body'[f] = body[f]
    BY <1>2, <2>1 DEF Fetch, IInv, TypeOK
  <2> QED BY <2>2, <2>3, <2>4 DEF KeepsFiles
<1>3. CASE CreateTemp(r)
  <2>1. UNCHANGED <<file, tampered, trusted>> /\ NewFile(Partial)
    BY <1>3 DEF CreateTemp
  <2> QED BY <2>1, NewFileKeeps DEF KeepsFiles
<1>4. CASE \/ Stat(r) \/ Memo(r) \/ Hash(r) \/ Note(r) \/ TakeLock(r) \/ TakePermit(r)
  <2>1. UNCHANGED <<file, body, tampered, trusted>>
    BY <1>4 DEF Stat, Memo, Hash, Note, TakeLock, TakePermit
  <2> QED BY <2>1, SameFiles
<1>5. CASE \/ \E f \in Files : TempNameTaken(r, f)
           \/ SyncTemp(r) \/ SyncParent(r) \/ Restat(r) \/ Record(r)
  <2>1. UNCHANGED <<file, body, tampered, trusted>>
    BY <1>5 DEF TempNameTaken, SyncTemp, SyncParent, Restat, Record
  <2> QED BY <2>1, SameFiles
<1>6. CASE IoError(r) \/ Open(r) \/ Reply(r)
  <2>1. UNCHANGED <<file, body, tampered, trusted>>
    BY <1>6 DEF IoError, Open, Reply
  <2> QED BY <2>1, SameFiles
<1> QED BY <1>1, <1>2, <1>3, <1>4, <1>5, <1>6 DEF Step

(* What was fine stays fine. *)
LEMMA StaysFine ==
  ASSUME IInv, KeepsFiles, NEW r \in Requests, key'[r] = key[r], place'[r] = place[r],
         key[r] \notin tampered'
  PROVE  /\ key[r] \notin tampered
         /\ Fine(r) => Fine(r)'
         /\ file'[Path(r)] = file[Path(r)] \/ Fine(r)'
<1>1. key[r] \in Keys /\ place[r] \in Places /\ Path(r) \in Paths /\ Path(r)' = Path(r)
  BY PathFacts DEF IInv, TypeOK, Path
<1>2. \/ file'[Path(r)] = file[Path(r)]
      \/ Fine(r)'
  <2>1. \/ file'[Path(r)] = file[Path(r)]
        \/ file'[Path(r)] # NoFile /\ StillHonest(key[r], file'[<<key[r], place[r]>>])
    BY <1>1 DEF KeepsFiles, Path
  <2> QED BY <1>1, <2>1 DEF Fine, Honest, StillHonest, Path
<1>3. file[Path(r)] # NoFile => body'[file[Path(r)]] = body[file[Path(r)]]
  BY <1>1, NamedFiles DEF KeepsFiles
<1> QED BY <1>1, <1>2, <1>3 DEF Fine, Honest, KeepsFiles

(* The requests that do not move. *)
LEMMA WaitingServes ==
  ASSUME IInv, KeepsFiles, NEW r \in Requests, AtCache(r), Serves(r),
         pc'[r] = pc[r], key'[r] = key[r], place'[r] = place[r], seen'[r] = seen[r]
  PROVE  AtCache(r)' /\ Serves(r)'
<1>1. AtCache(r)'
  BY DEF AtCache
<1>2. ASSUME key[r] \notin tampered' PROVE Serves(r)'
  <2>1. /\ key[r] \notin tampered /\ (Fine(r) => Fine(r)')
        /\ file'[Path(r)] = file[Path(r)] \/ Fine(r)'
    BY <1>2, StaysFine
  <2>2. Path(r)' = Path(r)
    BY DEF Path
  <2>3. pc[r] \in {"memo", "note"} => seen'[r] \in {file'[Path(r)'], NoFile} \/ Fine(r)'
    BY <2>1, <2>2 DEF Serves
  <2>4. pc[r] = "served" => seen[r] \in Files /\ Honest(key[r], seen[r])'
    <3>1. Announced[key[r]] \subseteq Complete /\ Short \in Complete
      BY WantFacts, StoreConstants DEF IInv, Complete
    <3> QED BY <2>1, <3>1 DEF Serves, Honest, KeepsFiles
  <2> QED BY <2>1, <2>3, <2>4 DEF Serves
<1> QED BY <1>1, <1>2 DEF Serves

(* The stages at which nothing is asked of what a request has seen. *)
Careless == {"idle", "lock", "stat", "hash", "ended"}

LEMMA CarelessServes ==
  ASSUME NEW r \in Requests, pc'[r] \in Careless
  PROVE  AtCache(r)' /\ Serves(r)'
  BY DEF Careless, AtCache, Serves, Downloading

(* A file that was checked is fine. *)
LEMMA CheckedIsFine ==
  ASSUME IInv, NEW r \in Requests, Serves(r), pc[r] \in {"memo", "note"},
         Vouched(r, seen[r]), key[r] \notin tampered
  PROVE  Fine(r)
<1>1. seen[r] # NoFile /\ want[r] \in Announced[key[r]]
  BY StoreConstants, WantFacts DEF IInv, Files, Vouched
<1>2. ASSUME seen[r] = file[Path(r)], seen[r] \in trusted
      PROVE  body[seen[r]] = Short
  <2>1. place[r] \in {"bundled", "cache"} /\ key[r] \in Keys
    BY DEF IInv, TypeOK, Places
  <2> QED BY <1>2, <2>1 DEF IInv, TrustInv, Path, Dest
<1>3. CASE seen[r] = file[Path(r)]
  BY <1>1, <1>2, <1>3 DEF Fine, Honest, Vouched
<1> QED BY <1>1, <1>3 DEF Serves

(* A task that ends leaves its request's path alone. *)
LEMMA FinishedStage ==
  ASSUME TypeOK, NEW r \in Requests, NEW result, FinishTask(r, result)
  PROVE  pc'[r] \in {result, "ended"}
  BY DEF FinishTask, Goto, TypeOK

(* A request moves on. *)
LEMMA CheckServes ==
  ASSUME IInv, IInv', NEW r \in Requests, AtCache(r), Serves(r), KeepsFiles,
         Stat(r) \/ Memo(r) \/ Hash(r) \/ Note(r)
  PROVE  AtCache(r)' /\ Serves(r)'
<1>1. TypeOK /\ UNCHANGED <<file, body, tampered, trusted, key, want>>
  BY DEF IInv, Stat, Memo, Hash, Note, disk, env, local
<1>2. ASSUME CheckFails(r) PROVE AtCache(r)' /\ Serves(r)'
  <2>1. CASE pc'[r] \in Careless
    BY <2>1, CarelessServes
  <2>2. CASE pc'[r] \notin Careless
    <3>1. pc'[r] = "permit" /\ place[r] # "bundled" /\ UNCHANGED place
      BY <1>1, <1>2, <2>2, FinishedStage DEF CheckFails, Download, Goto, TypeOK, Careless
    <3>2. place'[r] = "cache"
      BY <1>1, <3>1 DEF TypeOK, Places
    <3> QED BY <3>1, <3>2 DEF AtCache, Serves
  <2> QED BY <2>1, <2>2
<1>3. ASSUME CheckSucceeds(r), UNCHANGED <<place, seen>>, pc[r] \in {"memo", "note"}
      PROVE  AtCache(r)' /\ Serves(r)'
  <2>1. pc'[r] \in {"open", "ended"}
    BY <1>1, <1>3, FinishedStage DEF CheckSucceeds, Goto, TypeOK
  <2>2. CASE pc'[r] = "open"
    <3>1. Vouched(r, seen[r])
      BY <1>1, <1>3, <2>2 DEF IInv, SeenInv, Vouched
    <3>2. key[r] \notin tampered => Fine(r)
      BY <1>3, <3>1, CheckedIsFine
    <3>3. Fine(r) => Fine(r)'
      BY <1>1, <1>3 DEF Fine, Honest, Path
    <3> QED BY <1>1, <2>2, <3>2, <3>3 DEF AtCache, Serves, Downloading
  <2>3. CASE pc'[r] = "ended"
    BY <2>3, CarelessServes DEF Careless
  <2> QED BY <2>1, <2>2, <2>3
<1>4. ASSUME pc'[r] \in {"memo", "note"}, place' = place, seen'[r] \in {file[Path(r)], NoFile}
      PROVE  AtCache(r)' /\ Serves(r)'
  <2>1. Path(r)' = Path(r)
    BY <1>1, <1>4 DEF Path
  <2> QED BY <1>1, <1>4, <2>1 DEF AtCache, Serves, Fine, Honest, Downloading
<1>5. CASE Stat(r)
  <2>1. CASE Readable(Path(r))
    BY <1>1, <1>4, <1>5, <2>1 DEF Stat, Goto, TypeOK
  <2>2. CASE ~Readable(Path(r))
    BY <1>2, <1>5, <2>2 DEF Stat
  <2> QED BY <2>1, <2>2
<1>6. CASE Memo(r)
  <2>1. CASE MemoHit(r)
    BY <1>3, <1>6, <2>1 DEF Memo, local
  <2>2. CASE ~MemoHit(r)
    <3>1. pc'[r] = "hash"
      BY <1>1, <1>6, <2>2 DEF Memo, Goto, TypeOK
    <3> QED BY <3>1, CarelessServes DEF Careless
  <2> QED BY <2>1, <2>2
<1>7. CASE Hash(r)
  <2>1. seen'[r] \in {file[Path(r)], NoFile} /\ pc'[r] = "note" /\ place' = place
    BY <1>1, <1>7 DEF Hash, Goto, TypeOK
  <2> QED BY <1>4, <2>1
<1>8. CASE Note(r)
  BY <1>2, <1>3, <1>8 DEF Note
<1> QED BY <1>5, <1>6, <1>7, <1>8

LEMMA DownloadServes ==
  ASSUME IInv, IInv', NEW r \in Requests, AtCache(r), Serves(r), KeepsFiles,
         \/ TakePermit(r) \/ CreateTemp(r) \/ \E c \in Contents : Fetch(r, c)
         \/ SyncTemp(r) \/ Rename(r) \/ SyncParent(r) \/ Restat(r) \/ Record(r)
  PROVE  AtCache(r)' /\ Serves(r)'
<1> USE DEF local, env
<1>1. TypeOK /\ key[r] \in Keys /\ UNCHANGED <<key, want, place>>
  BY DEF IInv, TypeOK, TakePermit, CreateTemp, Fetch, SyncTemp, Rename, SyncParent, Restat, Record
<1>2. place[r] = "cache"
  BY DEF AtCache, Downloading, TakePermit, CreateTemp, Fetch, SyncTemp, Rename, SyncParent,
         Restat, Record
<1>3. AtCache(r)'
  BY <1>1, <1>2 DEF AtCache
<1>4. Path(r) = Dest(key[r]) /\ Path(r)' = Path(r)
  BY <1>1, <1>2 DEF Path, Dest
<1>5. CASE TakePermit(r) \/ CreateTemp(r) \/ (\E c \in Contents : Fetch(r, c)) \/ SyncTemp(r)
  <2>1. pc'[r] \in {"create", "fetch", "sync", "rename"}
    BY <1>1, <1>5 DEF TakePermit, CreateTemp, Fetch, SyncTemp, Goto, TypeOK
  <2> QED BY <1>3, <2>1 DEF Serves
<1>6. CASE Rename(r)
  <2>1. pc'[r] = "syncdir"
    BY <1>1, <1>6 DEF Rename, Goto, TypeOK
  <2>2. want[r] \in Announced[key[r]]
    BY <1>1, WantFacts
  <2>3. Fine(r)'
    BY <1>1, <1>4, <1>6, <2>2, RenameFiles DEF Fine, Honest, StillHonest
  <2> QED BY <1>3, <2>1, <2>3 DEF Serves
<1>7. CASE SyncParent(r) \/ Restat(r) \/ Record(r)
  <2>1. pc'[r] \in {"restat", "record", "open", "ended"} /\ pc[r] \in {"syncdir", "restat", "record"}
    BY <1>1, <1>7, FinishedStage DEF SyncParent, Restat, Record, Goto, TypeOK
  <2>2. key[r] \notin tampered' => Fine(r)'
    BY <1>1, <2>1, StaysFine DEF Serves
  <2> QED BY <1>1, <1>3, <2>1, <2>2 DEF Serves
<1> QED BY <1>5, <1>6, <1>7

LEMMA AnswerServes ==
  ASSUME IInv, IInv', NEW r \in Requests, AtCache(r), Serves(r), KeepsFiles,
         \/ TakeLock(r) \/ \E f \in Files : TempNameTaken(r, f)
         \/ IoError(r) \/ Open(r) \/ Reply(r) \/ Refuse(r)
         \/ \E k \in Keys : \E d \in Announced[k] : Start(r, k, d)
  PROVE  AtCache(r)' /\ Serves(r)'
<1>1. TypeOK
  BY DEF IInv
<1>2. CASE pc'[r] \in Careless
  BY <1>2, CarelessServes
<1>3. CASE pc'[r] \notin Careless
  <2>1. Open(r) /\ pc'[r] = "served"
    BY <1>1, <1>3, FinishedStage DEF TakeLock, TempNameTaken, IoError, Open, Reply, Refuse, Start,
       Goto, TypeOK, Careless
  <2>2. /\ file[Path(r)] # NoFile /\ seen'[r] = file[Path(r)] /\ pc[r] = "open"
        /\ UNCHANGED <<body, key, tampered, trusted>>
    BY <1>1, <2>1 DEF Open, Goto, TypeOK, disk, env
  <2>3. Path(r) \in Paths
    BY <1>1, PathFacts
  <2>4. seen'[r] \in Files
    BY <2>2, <2>3, NamedFiles
  <2> QED BY <2>1, <2>2, <2>4 DEF AtCache, Serves, Fine, Honest, Downloading
<1> QED BY <1>2, <1>3

(* A client goes away. *)
LEMMA DisconnectServes ==
  ASSUME IInv, NEW r \in Requests, AtCache(r), Serves(r), KeepsFiles, Disconnect(r)
  PROVE  AtCache(r)' /\ Serves(r)'
<1>1. CASE UNCHANGED pc
  BY <1>1, WaitingServes DEF Disconnect, local
<1>2. CASE Goto(r, "ended")
  <2>1. pc'[r] = "ended"
    BY <1>2 DEF Goto, IInv, TypeOK
  <2> QED BY <2>1, CarelessServes DEF Careless
<1> QED BY <1>1, <1>2 DEF Disconnect

Bystanders(r) ==
  \A q \in Requests \ {r} :
    /\ pc'[q] = pc[q] /\ key'[q] = key[q] /\ want'[q] = want[q]
    /\ place'[q] = place[q] /\ seen'[q] = seen[q]

LEMMA OneMoves ==
  ASSUME TypeOK, NEW r \in Requests,
         \/ \E k \in Keys : \E d \in Announced[k] : Start(r, k, d)
         \/ Refuse(r) \/ Step(r) \/ Disconnect(r)
  PROVE  Bystanders(r)
<1> USE DEF Bystanders, TypeOK, Goto, local
<1>1. CASE \/ \E k \in Keys : \E d \in Announced[k] : Start(r, k, d)
           \/ Refuse(r) \/ Disconnect(r)
  BY <1>1 DEF Start, Refuse, Disconnect
<1>2. CASE Stat(r) \/ Memo(r) \/ Hash(r) \/ Note(r)
  BY <1>2 DEF Stat, Memo, Hash, Note, CheckFails, CheckSucceeds, FinishTask, Download
<1>3. CASE \/ TakeLock(r) \/ TakePermit(r) \/ CreateTemp(r) \/ \E f \in Files : TempNameTaken(r, f)
  BY <1>3 DEF TakeLock, TakePermit, CreateTemp, TempNameTaken
<1>4. CASE (\E c \in Contents : Fetch(r, c)) \/ SyncTemp(r) \/ Rename(r) \/ SyncParent(r)
  BY <1>4 DEF Fetch, SyncTemp, Rename, SyncParent
<1>5. CASE Restat(r) \/ Record(r) \/ IoError(r) \/ Open(r) \/ Reply(r)
  BY <1>5 DEF Restat, Record, IoError, Open, Reply, FinishTask
<1> QED BY <1>1, <1>2, <1>3, <1>4, <1>5 DEF Step

LEMMA ServeStep ==
  ASSUME IInv, IInv', ServeInv, [Next]_vars
  PROVE  ServeInv'
<1>0. TypeOK
  BY DEF IInv
<1>1. ASSUME NEW r \in Requests, KeepsFiles, Bystanders(r), AtCache(r)' /\ Serves(r)'
      PROVE  ServeInv'
  <2>1. \A q \in Requests \ {r} : AtCache(q)' /\ Serves(q)'
    BY <1>1, WaitingServes DEF ServeInv, Bystanders
  <2> QED BY <1>1, <2>1 DEF ServeInv
<1>2. ASSUME NEW r \in Requests, Step(r)
      PROVE  ServeInv'
  <2>1. KeepsFiles /\ Bystanders(r) /\ AtCache(r) /\ Serves(r)
    BY <1>0, <1>2, StepFiles, OneMoves DEF ServeInv
  <2>2. AtCache(r)' /\ Serves(r)'
    BY <1>2, <2>1, CheckServes, DownloadServes, AnswerServes DEF Step
  <2> QED BY <1>1, <2>1, <2>2
<1>3. ASSUME NEW r \in Requests,
             \/ \E k \in Keys : \E d \in Announced[k] : Start(r, k, d)
             \/ Refuse(r) \/ Disconnect(r)
      PROVE  ServeInv'
  <2>1. UNCHANGED <<file, body, tampered, trusted>>
    BY <1>3 DEF Start, Refuse, Disconnect, disk, env
  <2>2. KeepsFiles /\ Bystanders(r) /\ AtCache(r) /\ Serves(r)
    BY <1>0, <1>3, <2>1, SameFiles, OneMoves DEF ServeInv
  <2>3. AtCache(r)' /\ Serves(r)'
    BY <1>3, <2>2, AnswerServes, DisconnectServes
  <2> QED BY <1>1, <2>2, <2>3
<1>4. ASSUME KeepsFiles, UNCHANGED <<pc, key, place, seen>>
      PROVE  ServeInv'
  BY <1>4, WaitingServes DEF ServeInv
<1>5. ASSUME NEW k \in Keys, (\E c \in Contents : Replace(k, c)) \/ Delete(k)
      PROVE  ServeInv'
  <2>1. UNCHANGED <<pc, key, place, seen>>
    BY <1>5 DEF Replace, Delete, local
  <2> QED BY <1>4, <1>5, <2>1, TamperingFiles
<1>6. ASSUME NEW power \in BOOLEAN, NEW lost \in SUBSET Keys, Crash(power, lost)
      PROVE  ServeInv'
  <2>1. \A q \in Requests : pc'[q] = "idle"
    BY <1>6 DEF Crash
  <2> QED BY <2>1, CarelessServes DEF ServeInv, Careless
<1>7. CASE (\E left \in SUBSET temps : Restart(left)) \/ UNCHANGED vars
  <2>1. UNCHANGED <<pc, key, place, seen, file, body, tampered, trusted>>
    BY <1>7 DEF Restart, vars, disk, local, env
  <2> QED BY <1>4, <2>1, SameFiles
<1> QED BY <1>2, <1>3, <1>5, <1>6, <1>7 DEF Next

(* An archive nobody interferes with is served with announced bytes only,   *)
(* or with what a lost write of this process left of them, although the     *)
(* file may change between the check and the open: only a download of the   *)
(* same archive, checked like the first, can replace it.                    *)
THEOREM ServedBytesAreAnnounced == Spec => []ServedBytesAnnounced
<1>1. Init => ServeInv
  BY DEF Init, ServeInv, AtCache, Serves, Downloading
<1>2. IInv /\ IInv' /\ ServeInv /\ [Next]_vars => ServeInv'
  BY ServeStep
<1>3. ServeInv => ServedBytesAnnounced
  BY DEF ServeInv, Serves, Honest, ServedBytesAnnounced
<1> QED BY <1>1, <1>2, <1>3, StoreInvariant, PTL DEF Spec

-----------------------------------------------------------------------------
(* The files that requests have seen have all their bytes, and a stream is  *)
(* only accepted within the cap.                                            *)
LookInv ==
  \A r \in Requests :
    /\ seen[r] \in synced \cup {NoFile}
    /\ pc[r] = "served" => seen[r] # NoFile
    /\ pc[r] \in {"sync", "rename"} => want[r] \notin Oversize

(* Files that are complete keep their content, and whether they are taken   *)
(* on trust.                                                                *)
BytesStay == \A f \in synced : body'[f] = body[f]
TrustStays == \A f \in synced \cup {NoFile} : f \in trusted' <=> f \in trusted

LEMMA SyncedStays ==
  ASSUME IInv, KeepsFiles
  PROVE  BytesStay /\ TrustStays
  BY DEF IInv, TypeOK, DiskInv, KeepsFiles, BytesStay, TrustStays

(* What the paths have, where they keep their files. *)
LEMMA PathsStay ==
  ASSUME IInv, BytesStay
  PROVE  /\ \A p \in Paths : file'[p] = file[p] => Bytes(file[p])' = Bytes(file[p])
         /\ \A k \in Keys : durable'[k] = durable[k] => Bytes(durable[k])' = Bytes(durable[k])
         /\ UNCHANGED file => Held' = Held
         /\ UNCHANGED durable => Kept' = Kept
<1>1. \A p \in Paths : file'[p] = file[p] => Bytes(file[p])' = Bytes(file[p])
  BY DEF IInv, DiskInv, BytesStay, Bytes
<1>2. \A k \in Keys : durable'[k] = durable[k] => Bytes(durable[k])' = Bytes(durable[k])
  BY DEF IInv, DiskInv, BytesStay, Bytes
<1> QED BY <1>1, <1>2 DEF Held, Kept

LEMMA UnseenStays ==
  ASSUME IInv, TrustStays, UNCHANGED file
  PROVE  Unseen' = Unseen
<1>1. \A k \in Keys : file[Dest(k)] \in trusted' <=> file[Dest(k)] \in trusted
  <2>1. \A k \in Keys : Dest(k) \in Paths /\ file[Dest(k)] \in Files \cup {NoFile}
    BY PathFacts DEF IInv, TypeOK
  <2>2. NoFile \notin trusted /\ NoFile \notin trusted'
    BY StoreConstants DEF IInv, TypeOK, Files, TrustStays
  <2> QED BY <2>1, <2>2 DEF IInv, DiskInv, TrustStays
<1> QED BY <1>1 DEF Unseen, Dest

(* The abstract cache does not notice the requests that do not move. *)
Onlooker(q) == Asked'[q] = Asked[q] /\ Found'[q] = Found[q] /\ Given'[q] = Given[q]

LEMMA OnlookersStay ==
  ASSUME LookInv, BytesStay, TrustStays, NEW q \in Requests, pc'[q] = pc[q], key'[q] = key[q],
         want'[q] = want[q], place'[q] = place[q], seen'[q] = seen[q]
  PROVE  Onlooker(q)
<1>1. seen[q] # NoFile => body'[seen[q]] = body[seen[q]]
  BY DEF LookInv, BytesStay
<1>2. pc[q] = "served" => seen[q] # NoFile
  BY DEF LookInv
<1>3. Asked'[q] = Asked[q]
  BY DEF Asked
<1>4. Found'[q] = Found[q]
  <2>1. CASE pc[q] \in Looked /\ seen[q] # NoFile
    <3>1. Good(q)' <=> Good(q)
      BY <1>1, <2>1 DEF Good, LookInv, TrustStays
    <3> QED BY <3>1 DEF Found
  <2>2. CASE ~(pc[q] \in Looked /\ seen[q] # NoFile)
    BY <2>2 DEF Found, Good
  <2> QED BY <2>1, <2>2
<1>5. Given'[q] = Given[q]
  BY <1>1, <1>2 DEF Given
<1> QED BY <1>3, <1>4, <1>5 DEF Onlooker

LEMMA NobodyMoves ==
  ASSUME LookInv, BytesStay, TrustStays, UNCHANGED <<pc, key, want, place, seen>>
  PROVE  UNCHANGED <<Asked, Found, Given>>
<1>1. \A q \in Requests : Onlooker(q)
  BY OnlookersStay
<1> QED BY <1>1 DEF Onlooker, Asked, Found, Given

(* A request's step changes what the abstract cache knows of it only. *)
LEMMA OneCallMoves ==
  ASSUME LookInv, BytesStay, TrustStays, NEW r \in Requests, Bystanders(r)
  PROVE  /\ Asked' = [Asked EXCEPT ![r] = Asked'[r]]
         /\ Found' = [Found EXCEPT ![r] = Found'[r]]
         /\ Given' = [Given EXCEPT ![r] = Given'[r]]
<1>1. \A q \in Requests \ {r} : Onlooker(q)
  BY OnlookersStay DEF Bystanders
<1>2. \A q \in Requests \ {r} :
        Asked'[q] = Asked[q] /\ Found'[q] = Found[q] /\ Given'[q] = Given[q]
  BY <1>1 DEF Onlooker
<1>3. Asked' = [Asked EXCEPT ![r] = Asked'[r]]
  <2>1. Asked = [q \in Requests |-> Asked[q]] /\ Asked' = [q \in Requests |-> Asked'[q]]
    BY DEF Asked
  <2> QED BY <1>2, <2>1, Zenon
<1>4. Found' = [Found EXCEPT ![r] = Found'[r]]
  <2>1. Found = [q \in Requests |-> Found[q]] /\ Found' = [q \in Requests |-> Found'[q]]
    BY DEF Found
  <2> QED BY <1>2, <2>1, Zenon
<1>5. Given' = [Given EXCEPT ![r] = Given'[r]]
  <2>1. Given = [q \in Requests |-> Given[q]] /\ Given' = [q \in Requests |-> Given'[q]]
    BY DEF Given
  <2> QED BY <1>2, <2>1, Zenon
<1> QED BY <1>3, <1>4, <1>5

(* A call ends, or goes on. *)
Over(r) == Asked'[r] = {} /\ Found'[r] = {} /\ Given'[r] = {}
GoesOn(r) == Asked'[r] = Asked[r] /\ Given'[r] = Given[r]

LEMMA CallOver ==
  ASSUME NEW r \in Requests, pc'[r] \in {"idle", "ended"}
  PROVE  Over(r)
  BY DEF Over, Asked, Found, Given, Calling, Looked

LEMMA CallGoesOn ==
  ASSUME NEW r \in Requests, pc[r] \in Calling, pc'[r] \in Calling,
         key'[r] = key[r], want'[r] = want[r]
  PROVE  GoesOn(r)
  BY DEF GoesOn, Asked, Given, Calling

(* The steps of a call that leave the places alone. *)
Notices(r) ==
  \/ Over(r)
  \/ /\ GoesOn(r)
     /\ \/ Found'[r] \in {Found[r], {}}
        \/ \E l \in {"bundled", "cache"} :
             /\ Found'[r] = {l}
             /\ Asked[r] = {<<key[r], want[r]>>}
             /\ Held[<<key[r], l>>] = {want[r]} \/ (l = "cache" /\ key[r] \in Unseen)

LEMMA CallMaps ==
  ASSUME IInv, LookInv, BytesStay, TrustStays, UNCHANGED <<file, durable, up, tampered>>,
         NEW r \in Requests, Bystanders(r), Notices(r)
  PROVE  [Cache!Next]_(Cache!vars)
<1>1. Held' = Held /\ Kept' = Kept /\ Unseen' = Unseen
  BY PathsStay, UnseenStays
<1>2. /\ Asked' = [Asked EXCEPT ![r] = Asked'[r]]
      /\ Found' = [Found EXCEPT ![r] = Found'[r]]
      /\ Given' = [Given EXCEPT ![r] = Given'[r]]
  BY OneCallMoves
<1>3. /\ Asked = [q \in Requests |-> Asked[q]] /\ Given = [q \in Requests |-> Given[q]]
      /\ Found = [q \in Requests |-> Found[q]]
  BY DEF Asked, Given, Found
<1>4. key[r] \in Keys /\ want[r] \in Announced[key[r]]
  BY WantFacts DEF IInv
<1>5. CASE Over(r)
  <2>1. Cache!Done(r)
    BY <1>1, <1>2, <1>5 DEF Cache!Done, Over
  <2> QED BY <2>1 DEF Cache!Next
<1>6. CASE GoesOn(r)
  <2>1. Asked' = Asked /\ Given' = Given
    BY <1>2, <1>3, <1>6 DEF GoesOn
  <2>2. CASE Found'[r] = Found[r]
    <3>1. Found' = Found
      BY <1>2, <1>3, <2>2
    <3> QED BY <1>1, <2>1, <3>1 DEF Cache!vars
  <2>3. CASE Found'[r] = {}
    <3>1. Cache!Lose(r)
      BY <1>1, <1>2, <2>1, <2>3 DEF Cache!Lose
    <3> QED BY <3>1 DEF Cache!Next
  <2>4. CASE \E l \in {"bundled", "cache"} :
               /\ Found'[r] = {l}
               /\ Asked[r] = {<<key[r], want[r]>>}
               /\ Held[<<key[r], l>>] = {want[r]} \/ (l = "cache" /\ key[r] \in Unseen)
    <3>1. PICK l \in {"bundled", "cache"} :
               /\ Found'[r] = {l}
               /\ Asked[r] = {<<key[r], want[r]>>}
               /\ Held[<<key[r], l>>] = {want[r]} \/ (l = "cache" /\ key[r] \in Unseen)
      BY <2>4
    <3>2. Cache!Find(r, l)
      BY <1>1, <1>2, <1>4, <2>1, <3>1 DEF Cache!Find
    <3> QED BY <3>1, <3>2 DEF Cache!Next
  <2> QED BY <1>5, <2>2, <2>3, <2>4 DEF Notices
<1> QED BY <1>5, <1>6 DEF Notices

(* The stages of a call whose paths are left alone. *)
LEMMA CheckNotices ==
  ASSUME IInv, NEW r \in Requests, Stat(r) \/ Memo(r) \/ Hash(r) \/ Note(r)
  PROVE  Notices(r)
<1>1. TypeOK /\ UNCHANGED <<file, body, trusted, key, want>> /\ pc[r] \in Checking
  BY DEF IInv, Stat, Memo, Hash, Note, disk, env, local, Checking
<1>2. pc[r] \in Calling
  BY <1>1 DEF Calling, Stages, Checking
<1>3. ASSUME CheckFails(r) PROVE Notices(r)
  <2>1. pc'[r] \in {"stat", "lock", "permit", "ended"}
    BY <1>1, <1>3, FinishedStage DEF CheckFails, Download, Goto, TypeOK
  <2>2. CASE pc'[r] = "ended"
    BY <2>2, CallOver DEF Notices
  <2>3. CASE pc'[r] # "ended"
    <3>1. pc'[r] \in Calling /\ Found'[r] = {}
      BY <2>1, <2>3 DEF Calling, Stages, Checking, Found, Looked
    <3> QED BY <1>1, <1>2, <3>1, CallGoesOn DEF Notices
  <2> QED BY <2>2, <2>3
<1>4. ASSUME CheckSucceeds(r), UNCHANGED <<place, seen>>, pc[r] \in {"memo", "note"}
      PROVE  Notices(r)
  <2>1. pc'[r] \in {"open", "ended"}
    BY <1>1, <1>4, FinishedStage DEF CheckSucceeds, Goto, TypeOK
  <2>2. CASE pc'[r] = "open"
    <3>1. GoesOn(r)
      BY <1>1, <1>2, <2>2, CallGoesOn DEF Calling, Stages, Answering
    <3>2. Found'[r] = Found[r]
      BY <1>1, <1>4, <2>2 DEF Found, Good, Looked
    <3> QED BY <3>1, <3>2 DEF Notices
  <2>3. CASE pc'[r] = "ended"
    BY <2>3, CallOver DEF Notices
  <2> QED BY <2>1, <2>2, <2>3
<1>5. ASSUME pc'[r] \in {"memo", "note"}, place' = place, seen'[r] \in {file[Path(r)], NoFile}
      PROVE  Notices(r)
  <2>1. GoesOn(r)
    BY <1>1, <1>2, <1>5, CallGoesOn DEF Calling, Stages, Checking
  <2>2. Found'[r] = IF Good(r)' THEN {place[r]} ELSE {}
    BY <1>5 DEF Found, Looked
  <2>3. CASE Good(r)'
    <3>1. Path(r) \in Paths /\ Path(r) = <<key[r], place[r]>> /\ place[r] \in {"bundled", "cache"}
      BY <1>1, PathFacts DEF Path, TypeOK, Places
    <3>2. /\ file[Path(r)] # NoFile
          /\ body[file[Path(r)]] = want[r] \/ file[Path(r)] \in trusted
      BY <1>1, <1>5, <2>3 DEF Good
    <3>3. Held[Path(r)] = {want[r]} \/ (place[r] = "cache" /\ key[r] \in Unseen)
      <4>1. CASE body[file[Path(r)]] = want[r]
        BY <3>1, <3>2, <4>1 DEF Held, Bytes
      <4>2. CASE file[Path(r)] \in trusted
        <5>1. key[r] \in Keys
          BY <1>1 DEF TypeOK
        <5> QED BY <3>1, <4>2, <5>1 DEF IInv, TrustInv, Unseen, Dest
      <4> QED BY <3>2, <4>1, <4>2
    <3>4. Asked[r] = {<<key[r], want[r]>>}
      BY <1>2 DEF Asked
    <3> QED BY <2>1, <2>2, <2>3, <3>1, <3>3, <3>4 DEF Notices
  <2>4. CASE ~Good(r)'
    BY <2>1, <2>2, <2>4 DEF Notices
  <2> QED BY <2>3, <2>4
<1>6. CASE Stat(r)
  <2>1. CASE Readable(Path(r))
    BY <1>1, <1>5, <1>6, <2>1 DEF Stat, Goto, TypeOK
  <2>2. CASE ~Readable(Path(r))
    BY <1>3, <1>6, <2>2 DEF Stat
  <2> QED BY <2>1, <2>2
<1>7. CASE Memo(r)
  <2>1. CASE MemoHit(r)
    BY <1>4, <1>7, <2>1 DEF Memo, local
  <2>2. CASE ~MemoHit(r)
    <3>1. pc'[r] = "hash" /\ pc[r] = "memo" /\ UNCHANGED <<place, seen>>
      BY <1>1, <1>7, <2>2 DEF Memo, Goto, TypeOK, local
    <3>2. Found'[r] = Found[r]
      BY <1>1, <3>1 DEF Found, Good, Looked
    <3> QED BY <1>1, <1>2, <3>1, <3>2, CallGoesOn DEF Notices, Calling, Stages, Checking
  <2> QED BY <2>1, <2>2
<1>8. CASE Hash(r)
  <2>1. seen'[r] \in {file[Path(r)], NoFile} /\ pc'[r] = "note" /\ place' = place
    BY <1>1, <1>8 DEF Hash, Goto, TypeOK
  <2> QED BY <1>5, <2>1
<1>9. CASE Note(r)
  BY <1>3, <1>4, <1>9 DEF Note
<1> QED BY <1>6, <1>7, <1>8, <1>9

LEMMA DownloadNotices ==
  ASSUME IInv, BytesStay, TrustStays, NEW r \in Requests,
         \/ TakeLock(r) \/ TakePermit(r) \/ CreateTemp(r) \/ \E f \in Files : TempNameTaken(r, f)
         \/ \E c \in Contents : Fetch(r, c)
         \/ SyncTemp(r) \/ Restat(r) \/ Record(r) \/ IoError(r)
  PROVE  Notices(r)
<1>1. TypeOK /\ UNCHANGED <<file, key, want>>
  BY DEF IInv, TakeLock, TakePermit, CreateTemp, TempNameTaken, Fetch, SyncTemp, Restat, Record,
     IoError, disk, local
<1>2. CASE TakeLock(r) \/ TakePermit(r) \/ CreateTemp(r) \/ (\E c \in Contents : Fetch(r, c)) \/ SyncTemp(r)
  <2>1. /\ pc[r] \in {"lock", "permit", "create", "fetch", "sync"}
        /\ pc'[r] \in {"stat", "create", "fetch", "sync", "rename"}
    BY <1>1, <1>2 DEF TakeLock, TakePermit, CreateTemp, Fetch, SyncTemp, Goto, TypeOK
  <2>2. GoesOn(r)
    BY <1>1, <2>1, CallGoesOn DEF Calling, Stages, Checking, Downloading
  <2>3. Found'[r] = {}
    BY <2>1 DEF Found, Looked
  <2> QED BY <2>2, <2>3 DEF Notices
<1>3. CASE (\E f \in Files : TempNameTaken(r, f)) \/ IoError(r)
  <2>1. pc'[r] = "ended"
    BY <1>1, <1>3, FinishedStage DEF TempNameTaken, IoError, Goto, TypeOK
  <2> QED BY <2>1, CallOver DEF Notices
<1>4. CASE Restat(r) \/ Record(r)
  <2>1. pc[r] \in {"restat", "record"} /\ pc'[r] \in {"record", "open", "ended"}
    BY <1>1, <1>4, FinishedStage DEF Restat, Record, Goto, TypeOK
  <2>2. UNCHANGED <<place, body, trusted>>
    BY <1>4 DEF Restat, Record, local, env
  <2>5. Good(r) /\ (pc'[r] # "ended" => Good(r)')
    <3>1. Vouched(r, seen[r]) /\ NoFile \notin Files
      BY <2>1, StoreConstants DEF IInv, SeenInv, Files
    <3>2. pc[r] = "restat" => file[Dest(key[r])] \in {seen[r], NoFile} \cup trusted
      BY DEF IInv, SeenInv
    <3>3. seen'[r] = seen[r] \/ (seen'[r] # NoFile /\ seen'[r] \in {seen[r]} \cup trusted)
      BY <1>1, <1>4, <3>2 DEF Restat, Record, TypeOK, local
    <3>4. seen[r] # NoFile
      BY <3>1 DEF Vouched
    <3> QED BY <1>1, <2>2, <3>1, <3>3, <3>4 DEF Good, Vouched
  <2>3. CASE pc'[r] = "ended"
    BY <2>3, CallOver DEF Notices
  <2>4. CASE pc'[r] # "ended"
    <3>1. GoesOn(r)
      BY <1>1, <2>1, <2>4, CallGoesOn DEF Calling, Stages, Downloading, Answering
    <3>2. Found'[r] = Found[r]
      BY <2>1, <2>2, <2>4, <2>5 DEF Found, Looked
    <3> QED BY <3>1, <3>2 DEF Notices
  <2> QED BY <2>3, <2>4
<1> QED BY <1>2, <1>3, <1>4

LEMMA DisconnectNotices ==
  ASSUME IInv, NEW r \in Requests, Disconnect(r)
  PROVE  Notices(r)
<1>1. CASE UNCHANGED pc
  <2>1. GoesOn(r) /\ Found'[r] = Found[r]
    BY <1>1 DEF Disconnect, GoesOn, Asked, Found, Good, Given, local, disk, env
  <2> QED BY <2>1 DEF Notices
<1>2. CASE Goto(r, "ended")
  <2>1. pc'[r] = "ended"
    BY <1>2 DEF Goto, IInv, TypeOK
  <2> QED BY <2>1, CallOver DEF Notices
<1> QED BY <1>1, <1>2 DEF Disconnect

(* A call begins, gets its bytes, or replaces what the cache has. *)
LEMMA StartMaps ==
  ASSUME IInv, LookInv, BytesStay, TrustStays, NEW r \in Requests, NEW k \in Keys, NEW d \in Announced[k],
         Start(r, k, d)
  PROVE  Cache!Ask(r, k, d)
<1>1. TypeOK /\ Bystanders(r)
  BY OneMoves DEF IInv
<1>2. pc[r] = "idle" /\ pc'[r] = "stat" /\ key'[r] = k /\ want'[r] = d
  BY <1>1 DEF Start, Goto, TypeOK
<1>3. Asked[r] = {} /\ Asked'[r] = {<<k, d>>} /\ Given[r] = {}
  BY <1>2 DEF Asked, Given, Calling, Stages, Checking
<1>4. Found'[r] = Found[r] /\ Given'[r] = Given[r]
  BY <1>2 DEF Found, Given, Looked
<1>5. Asked' = [Asked EXCEPT ![r] = {<<k, d>>}] /\ Found' = Found /\ Given' = Given
  <2>1. /\ Asked' = [Asked EXCEPT ![r] = Asked'[r]]
        /\ Found' = [Found EXCEPT ![r] = Found'[r]]
        /\ Given' = [Given EXCEPT ![r] = Given'[r]]
    BY <1>1, OneCallMoves
  <2>2. Given = [q \in Requests |-> Given[q]] /\ Found = [q \in Requests |-> Found[q]]
    BY DEF Given, Found
  <2> QED BY <1>3, <1>4, <2>1, <2>2
<1>6. Held' = Held /\ Kept' = Kept /\ Unseen' = Unseen /\ up /\ UNCHANGED <<tampered, up>>
  BY PathsStay, UnseenStays DEF Start, disk, env
<1> QED BY <1>3, <1>5, <1>6 DEF Cache!Ask

LEMMA OpenMaps ==
  ASSUME IInv, LookInv, BytesStay, TrustStays, NEW r \in Requests, Open(r)
  PROVE  Cache!Give(r) \/ Cache!Done(r)
<1>1. TypeOK /\ Bystanders(r)
  BY OneMoves DEF IInv, Step
<1>2. /\ Asked' = [Asked EXCEPT ![r] = Asked'[r]]
      /\ Found' = [Found EXCEPT ![r] = Found'[r]]
      /\ Given' = [Given EXCEPT ![r] = Given'[r]]
  BY <1>1, OneCallMoves
<1>3. Held' = Held /\ Kept' = Kept /\ Unseen' = Unseen /\ UNCHANGED <<body, tampered, up>>
  BY PathsStay, UnseenStays DEF Open, disk, env
<1>4. CASE pc'[r] = "ended"
  <2>1. Over(r)
    BY <1>4, CallOver
  <2> QED BY <1>2, <1>3, <2>1 DEF Cache!Done, Over
<1>5. CASE pc'[r] # "ended"
  <2>1. /\ pc[r] = "open" /\ pc'[r] = "served"
        /\ file[Path(r)] # NoFile /\ seen'[r] = file[Path(r)]
    BY <1>1, <1>5 DEF Open, Goto, TypeOK
  <2>2. Asked'[r] = {} /\ Found'[r] = {} /\ Given'[r] = {body[file[Path(r)]]}
    BY <1>3, <2>1 DEF Asked, Found, Given, Calling, Looked
  <2>3. Asked[r] = {<<key[r], want[r]>>}
    BY <2>1 DEF Asked, Calling, Stages, Answering
  <2>4. Found[r] = {place[r]}
    <3>1. Vouched(r, seen[r]) /\ NoFile \notin Files
      BY <2>1, StoreConstants DEF IInv, SeenInv, Files
    <3> QED BY <2>1, <3>1 DEF Found, Good, Vouched, Looked
  <2>5. Path(r) = <<key[r], place[r]>> /\ Path(r) \in Paths
    BY <1>1, PathFacts DEF Path
  <2>6. Held[<<key[r], place[r]>>] = {body[file[Path(r)]]}
    BY <2>1, <2>5 DEF Held, Bytes
  <2>7. key[r] \in Keys /\ want[r] \in Announced[key[r]]
    BY <1>1, WantFacts
  <2>8. /\ Asked' = [Asked EXCEPT ![r] = {}] /\ Found' = [Found EXCEPT ![r] = {}]
        /\ Given' = [Given EXCEPT ![r] = Held[<<key[r], place[r]>>]]
    BY <1>2, <2>2, <2>6
  <2>9. \E k \in Keys, l \in Found[r] : \E d \in Announced[k] :
          /\ Asked[r] = {<<k, d>>} /\ Held[<<k, l>>] # {}
          /\ Given' = [Given EXCEPT ![r] = Held[<<k, l>>]]
    BY <2>3, <2>4, <2>6, <2>7, <2>8
  <2> QED BY <1>3, <2>8, <2>9 DEF Cache!Give
<1> QED BY <1>4, <1>5

LEMMA RenameMaps ==
  ASSUME IInv, LookInv, BytesStay, TrustStays, NEW r \in Requests, AtCache(r), Rename(r)
  PROVE  Cache!Store(r)
<1>1. TypeOK /\ Bystanders(r)
  BY OneMoves DEF IInv, Step
<1>2. /\ Asked' = [Asked EXCEPT ![r] = Asked'[r]]
      /\ Found' = [Found EXCEPT ![r] = Found'[r]]
      /\ Given' = [Given EXCEPT ![r] = Given'[r]]
  BY <1>1, OneCallMoves
<1>3. /\ pc[r] = "rename" /\ pc'[r] = "syncdir" /\ seen'[r] = temp[r] /\ place[r] = "cache"
      /\ UNCHANGED <<key, want, place, body, durable, tampered, trusted, up>>
      /\ file' = [file EXCEPT ![Dest(key[r])] = temp[r]]
  BY <1>1 DEF Rename, Goto, TypeOK, AtCache, Downloading, env
<1>4. temp[r] # NoFile /\ Written(r)
  BY <1>3 DEF IInv, TempInv
<1>5. /\ Asked[r] = {<<key[r], want[r]>>} /\ Found[r] = {} /\ Given[r] = {}
      /\ Asked'[r] = {<<key[r], want[r]>>} /\ Found'[r] = {"cache"} /\ Given'[r] = {}
  BY <1>3, <1>4 DEF Asked, Found, Good, Written, Given, Calling, Looked, Stages, Downloading
<1>6. Asked' = Asked /\ Found' = [Found EXCEPT ![r] = {"cache"}] /\ Given' = Given
  <2>1. Given = [q \in Requests |-> Given[q]] /\ Asked = [q \in Requests |-> Asked[q]]
    BY DEF Given, Asked
  <2> QED BY <1>2, <1>5, <2>1
<1>7. key[r] \in Keys /\ want[r] \in Announced[key[r]] /\ Dest(key[r]) \in Paths
  BY <1>1, WantFacts, PathFacts
<1>8. Held[Dest(key[r])] # {want[r]}
  <2>1. ~(Readable(Dest(key[r])) /\ body[file[Dest(key[r])]] = want[r]) /\ want[r] \notin Oversize
    BY <1>3 DEF IInv, NoRedundantDownload, LookInv
  <2> QED BY <1>7, <2>1 DEF Held, Bytes, Readable
<1>9. Held' = [Held EXCEPT ![Dest(key[r])] = {body[temp[r]]}]
  BY <1>1, <1>3, <1>4, <1>7 DEF Held, Bytes, TypeOK
<1>10. Kept' = Kept
  BY <1>3, PathsStay
<1>11. \A k \in Keys : file'[Dest(k)] = IF k = key[r] THEN temp[r] ELSE file[Dest(k)]
  BY <1>1, <1>3, PathFacts DEF TypeOK
<1>12. Unseen' = IF temp[r] \in trusted THEN Unseen \cup {key[r]} ELSE Unseen \ {key[r]}
  BY <1>3, <1>7, <1>11 DEF Unseen, Dest
<1>13. \/ /\ Held' = [Held EXCEPT ![Dest(key[r])] = {want[r]}]
          /\ Unseen' = Unseen \ {key[r]}
       \/ /\ Held' = [Held EXCEPT ![Dest(key[r])] = {Short}]
          /\ Unseen' = Unseen \cup {key[r]}
  BY <1>4, <1>9, <1>12 DEF Written
<1> QED BY <1>3, <1>5, <1>6, <1>7, <1>8, <1>10, <1>13 DEF Cache!Store, Dest

LEMMA SyncParentMaps ==
  ASSUME IInv, LookInv, BytesStay, TrustStays, NEW r \in Requests, SyncParent(r)
  PROVE  Cache!Keep(key[r])
<1>1. TypeOK /\ Bystanders(r)
  BY OneMoves DEF IInv, Step
<1>2. /\ pc[r] = "syncdir" /\ pc'[r] = "restat"
      /\ UNCHANGED <<key, want, place, seen, body, file, tampered, trusted, up>>
      /\ durable' = [durable EXCEPT ![key[r]] = file[Dest(key[r])]]
  BY <1>1 DEF SyncParent, Goto, TypeOK, local, env
<1>3. Asked'[r] = Asked[r] /\ Found'[r] = Found[r] /\ Given'[r] = Given[r]
  BY <1>2 DEF Asked, Found, Good, Given, Calling, Looked, Stages, Downloading
<1>4. Asked' = Asked /\ Found' = Found /\ Given' = Given
  <2>1. \A q \in Requests : Onlooker(q)
    BY <1>1, <1>3, OnlookersStay DEF Bystanders, Onlooker
  <2> QED BY <2>1 DEF Onlooker, Asked, Found, Given
<1>5. key[r] \in Keys /\ Dest(key[r]) \in Paths
  BY <1>1, PathFacts DEF TypeOK
<1>6. Held' = Held /\ Unseen' = Unseen
  BY <1>2, PathsStay, UnseenStays
<1>7. Kept' = [Kept EXCEPT ![key[r]] = Held[Dest(key[r])]]
  BY <1>1, <1>2, <1>5 DEF Kept, Held, Bytes, TypeOK
<1> QED BY <1>2, <1>4, <1>6, <1>7 DEF Cache!Keep, Dest

(* An operator or a fault, and a crash. *)
LEMMA TamperingMaps ==
  ASSUME IInv, LookInv, BytesStay, TrustStays, \A r \in Requests : AtCache(r),
         NEW k \in Keys, (\E c \in Contents : Replace(k, c)) \/ Delete(k)
  PROVE  \E what \in Cache!Optional(Contents) : Cache!Interfere(k, what)
<1>1. /\ TypeOK /\ Dest(k) \in Paths /\ k \notin tampered
      /\ UNCHANGED <<pc, key, want, place, seen, up>> /\ tampered' = tampered \cup {k}
  BY PathFacts DEF IInv, Replace, Delete, local
<1>2. UNCHANGED <<Asked, Found, Given>>
  BY <1>1, NobodyMoves
<1>3. PICK f : /\ file' = [file EXCEPT ![Dest(k)] = f] /\ durable' = [durable EXCEPT ![k] = f]
               /\ f # NoFile => body'[f] \in Contents
  <2>1. CASE Delete(k)
    BY <2>1 DEF Delete
  <2>2. CASE \E c \in Contents : Replace(k, c)
    <3>1. PICK c \in Contents : Replace(k, c)
      BY <2>2
    <3>2. born' \in Files /\ body'[born'] = c
      BY <1>1, <3>1, StoreConstants DEF Replace, NewFile, TypeOK, Files
    <3>3. born' # NoFile
      BY <3>2, StoreConstants DEF Files
    <3> QED BY <3>1, <3>2, <3>3 DEF Replace
  <2> QED BY <2>1, <2>2
<1> DEFINE what == Bytes(f)'
<1>4. what \in Cache!Optional(Contents)
  BY <1>3 DEF Bytes, Cache!Optional
<1>5. Held' = [Held EXCEPT ![Dest(k)] = what]
  <2>1. \A p \in Paths : Held'[p] = IF p = Dest(k) THEN what ELSE Held[p]
    BY <1>1, <1>3, PathsStay DEF Held, TypeOK
  <2> QED BY <1>1, <2>1 DEF Held
<1>6. Kept' = [Kept EXCEPT ![k] = what]
  <2>1. \A j \in Keys : Kept'[j] = IF j = k THEN what ELSE Kept[j]
    BY <1>1, <1>3, PathsStay DEF Kept, TypeOK
  <2> QED BY <1>1, <2>1 DEF Kept
<1>7. \A j \in Keys : j # k => (j \in Unseen' <=> j \in Unseen)
  <2>1. \A j \in Keys : Dest(j) \in Paths
    BY <1>1, PathFacts
  <2>2. \A j \in Keys : j # k => file'[Dest(j)] = file[Dest(j)]
    BY <1>1, <1>3, <2>1 DEF TypeOK, Dest
  <2>3. NoFile \notin trusted /\ NoFile \notin trusted'
    <3>1. NoFile \notin Files /\ NoFile \notin trusted
      BY <1>1, StoreConstants DEF TypeOK, Files
    <3> QED BY <1>1, <3>1, StoreConstants DEF Replace, Delete, NewFile, TypeOK, Files
  <2> QED BY <2>1, <2>2, <2>3 DEF Unseen, TrustStays, IInv, DiskInv, Dest
<1>8. CASE k \notin Unseen'
  <2>1. Unseen' = Unseen \ {k}
    BY <1>7, <1>8 DEF Unseen
  <2>2. Cache!Interfere(k, what)
    BY <1>1, <1>2, <1>5, <1>6, <2>1 DEF Cache!Interfere, Dest
  <2> QED BY <1>4, <2>2
<1>9. CASE k \in Unseen'
  <2>1. Unseen' = Unseen \cup {k}
    BY <1>7, <1>9 DEF Unseen
  <2>2. f \in trusted' /\ f # NoFile
    <3>1. NoFile \notin Files /\ NoFile \notin trusted
      BY <1>1, StoreConstants DEF TypeOK, Files
    <3>2. NoFile \notin trusted'
      BY <1>1, <3>1, StoreConstants DEF Replace, Delete, NewFile, TypeOK, Files
    <3> QED BY <1>1, <1>3, <1>9, <3>2 DEF Unseen, TypeOK
  <2>3. what # {}
    BY <2>2 DEF Bytes
  <2>4. PICK r \in Requests : key[r] = k /\ pc[r] \in {"syncdir", "restat"}
    <3>1. PICK c \in Contents : Replace(k, c)
      <4>1. ~Delete(k)
        BY <1>1, <1>3, <2>2 DEF Delete, TypeOK
      <4> QED BY <4>1
    <3>2. f = born' /\ born' \in Files /\ body[born'] = Unused
      BY <1>1, <1>3, <3>1, StoreConstants DEF Replace, NewFile, TypeOK, IInv, DiskInv, Files
    <3>3. born' \notin trusted
      BY <3>2, StoreConstants DEF IInv, TrustInv, Complete
    <3> QED BY <2>2, <3>1, <3>2, <3>3 DEF Replace, InWindow
  <2>5. Asked[r] = {<<k, want[r]>>} /\ want[r] \in Announced[k]
    BY <1>1, <2>4, WantFacts DEF Asked, Calling, Stages, Downloading
  <2>6. Found[r] = {"cache"}
    <3>1. Vouched(r, seen[r]) /\ NoFile \notin Files /\ place[r] = "cache"
      BY <2>4, StoreConstants DEF IInv, SeenInv, Files, AtCache, Downloading
    <3> QED BY <2>4, <3>1 DEF Found, Good, Vouched, Looked
  <2>7. Cache!Interfere(k, what)
    BY <1>1, <1>2, <1>5, <1>6, <2>1, <2>3, <2>5, <2>6 DEF Cache!Interfere, Dest
  <2> QED BY <1>4, <2>7
<1> QED BY <1>8, <1>9

LEMMA CrashMaps ==
  ASSUME IInv, NEW power \in BOOLEAN, NEW lost \in SUBSET Keys, Crash(power, lost)
  PROVE  BytesStay /\ Cache!Crash(lost)
<1>1. TypeOK /\ up /\ up' = FALSE /\ UNCHANGED tampered
  BY DEF IInv, Crash
<1>2. BytesStay
  BY <1>1 DEF Crash, BytesStay, TypeOK
<1>3. Asked' = [r \in Requests |-> {}] /\ Found' = [r \in Requests |-> {}]
      /\ Given' = [r \in Requests |-> {}]
  <2>1. \A r \in Requests : pc'[r] = "idle"
    BY DEF Crash
  <2> QED BY <2>1 DEF Asked, Found, Given, Calling, Looked
<1>4. ASSUME NEW p \in Paths
      PROVE  Held'[p] = IF p \in lost \X {"cache"} THEN Kept[p[1]] ELSE Held[p]
  <2>1. /\ p[1] \in Keys /\ p[2] \in {"bundled", "cache"} /\ p = <<p[1], p[2]>>
        /\ p[2] = "cache" => p = Dest(p[1])
    BY DEF Paths, Places, Dest
  <2>2. CASE p[2] = "cache" /\ p[1] \in lost /\ file[p] # durable[p[1]]
    <3>1. file'[p] = durable[p[1]]
      BY <2>1, <2>2 DEF Crash
    <3>2. Held'[p] = Kept[p[1]]
      BY <1>2, <2>1, <3>1 DEF Held, Kept, IInv, DiskInv, BytesStay, Bytes
    <3> QED BY <2>1, <2>2, <3>2
  <2>3. CASE ~(p[2] = "cache" /\ p[1] \in lost /\ file[p] # durable[p[1]])
    <3>1. file'[p] = file[p]
      BY <2>1, <2>3 DEF Crash
    <3>2. Held'[p] = Held[p]
      BY <1>2, <3>1 DEF Held, IInv, DiskInv, BytesStay, Bytes
    <3>3. p[2] = "cache" /\ p[1] \in lost => Kept[p[1]] = Held[p]
      BY <2>1, <2>3 DEF Held, Kept
    <3> QED BY <2>1, <3>2, <3>3
  <2> QED BY <2>2, <2>3
<1>5. Held' = [p \in Cache!Paths |-> IF p \in lost \X {"cache"} THEN Kept[p[1]] ELSE Held[p]]
  <2>1. Cache!Paths = Paths /\ Held' = [p \in Paths |-> Held'[p]]
    BY DEF Cache!Paths, Paths, Places, Held
  <2> QED BY <1>4, <2>1
<1>6. Kept' = [k \in Keys |-> Held'[<<k, "cache">>]]
  <2>1. \A k \in Keys : Kept'[k] = Held'[<<k, "cache">>]
    BY DEF Crash, Kept, Held, Dest, Paths, Places, Bytes
  <2> QED BY <2>1 DEF Kept
<1>7. Unseen' = {}
  BY DEF Crash, Unseen
<1> QED BY <1>1, <1>2, <1>3, <1>5, <1>6, <1>7 DEF Cache!Crash

(* What requests have seen, step by step. *)
LEMMA LookStays ==
  ASSUME LookInv, synced \subseteq synced', NEW Q \in SUBSET Requests,
         \A q \in Q : pc'[q] = pc[q] /\ want'[q] = want[q] /\ seen'[q] = seen[q]
  PROVE  \A q \in Q : /\ seen'[q] \in synced' \cup {NoFile}
                      /\ pc'[q] = "served" => seen'[q] # NoFile
                      /\ pc'[q] \in {"sync", "rename"} => want'[q] \notin Oversize
  BY DEF LookInv

LEMMA CallLooks ==
  ASSUME IInv, LookInv, NEW r \in Requests,
         \/ \E k \in Keys : \E d \in Announced[k] : Start(r, k, d)
         \/ Refuse(r) \/ Step(r) \/ Disconnect(r)
  PROVE  LookInv'
<1>1. TypeOK /\ Bystanders(r) /\ Path(r) \in Paths /\ Dest(key[r]) \in Paths
  BY OneMoves, PathFacts DEF IInv, TypeOK
<1>2. \A p \in Paths : file[p] \in synced \cup {NoFile}
  BY DEF IInv, DiskInv
<1>3. ASSUME synced \subseteq synced', seen'[r] \in synced' \cup {NoFile},
             pc'[r] = "served" => seen'[r] # NoFile,
             pc'[r] \in {"sync", "rename"} => want'[r] \notin Oversize
      PROVE  LookInv'
  <2>1. \A q \in Requests \ {r} :
          /\ seen'[q] \in synced' \cup {NoFile}
          /\ pc'[q] = "served" => seen'[q] # NoFile
          /\ pc'[q] \in {"sync", "rename"} => want'[q] \notin Oversize
    BY <1>1, <1>3, LookStays DEF Bystanders
  <2> QED BY <1>3, <2>1 DEF LookInv
<1>4. seen[r] \in synced \cup {NoFile}
  BY DEF LookInv
<1>5. CASE (\E k \in Keys : \E d \in Announced[k] : Start(r, k, d)) \/ Refuse(r)
  <2>1. UNCHANGED <<synced, seen>> /\ pc'[r] \in {"stat", "ended"}
    BY <1>1, <1>5 DEF Start, Refuse, disk, local, Goto, TypeOK
  <2> QED BY <1>3, <1>4, <2>1
<1>6. CASE Disconnect(r)
  <2>1. UNCHANGED <<synced, seen, want>> /\ pc'[r] \in {pc[r], "ended"}
    BY <1>1, <1>6 DEF Disconnect, disk, local, Goto, TypeOK
  <2>2. pc[r] = "served" => seen[r] # NoFile
    BY DEF LookInv
  <2>3. pc[r] \in {"sync", "rename"} => want[r] \notin Oversize
    BY DEF LookInv
  <2> QED BY <1>3, <1>4, <2>1, <2>2, <2>3
<1>7. CASE Stat(r) \/ Memo(r) \/ Hash(r) \/ Note(r)
  <2>1. UNCHANGED synced /\ seen'[r] \in {seen[r], file[Path(r)], NoFile}
    BY <1>1, <1>7 DEF Stat, Memo, Hash, Note, CheckFails, local, disk, TypeOK
  <2>2. pc'[r] \in {"memo", "hash", "note", "open", "ended", "stat", "permit", "lock"}
    BY <1>1, <1>7, FinishedStage DEF Stat, Memo, Hash, Note, CheckFails, Download, CheckSucceeds,
       Goto, TypeOK
  <2> QED BY <1>1, <1>2, <1>3, <1>4, <2>1, <2>2
<1>8. CASE TakeLock(r) \/ TakePermit(r) \/ CreateTemp(r) \/ \E f \in Files : TempNameTaken(r, f)
  <2>1. UNCHANGED <<synced, seen>> /\ pc'[r] \in {"stat", "create", "fetch", "ended"}
    BY <1>1, <1>8 DEF TakeLock, TakePermit, CreateTemp, TempNameTaken, disk, local, Goto, TypeOK
  <2> QED BY <1>3, <1>4, <2>1
<1>9. CASE \E c \in Contents : Fetch(r, c)
  <2>1. UNCHANGED <<synced, seen>> /\ pc'[r] = "sync" /\ want'[r] \notin Oversize
    BY <1>1, <1>9 DEF Fetch, Accepts, local, Goto, TypeOK
  <2> QED BY <1>3, <1>4, <2>1
<1>10. CASE SyncTemp(r)
  <2>1. /\ UNCHANGED <<seen, want>> /\ synced \subseteq synced'
        /\ pc[r] = "sync" /\ pc'[r] = "rename"
    BY <1>1, <1>10 DEF SyncTemp, local, Goto, TypeOK
  <2>2. want[r] \notin Oversize
    BY <2>1 DEF LookInv
  <2> QED BY <1>3, <1>4, <2>1, <2>2
<1>11. CASE Rename(r)
  <2>1. UNCHANGED synced /\ seen'[r] = temp[r] /\ pc'[r] = "syncdir" /\ pc[r] = "rename"
    BY <1>1, <1>11 DEF Rename, Goto, TypeOK
  <2>2. temp[r] \in synced
    BY <2>1 DEF IInv, TempInv
  <2> QED BY <1>3, <2>1, <2>2
<1>12. CASE SyncParent(r) \/ Restat(r) \/ Record(r) \/ IoError(r)
  <2>1. UNCHANGED synced /\ seen'[r] \in {seen[r], file[Dest(key[r])]}
    BY <1>1, <1>12 DEF SyncParent, Restat, Record, IoError, local, TypeOK
  <2>2. pc'[r] \in {"restat", "record", "open", "ended"}
    BY <1>1, <1>12, FinishedStage DEF SyncParent, Restat, Record, IoError, Goto, TypeOK
  <2> QED BY <1>1, <1>2, <1>3, <1>4, <2>1, <2>2
<1>13. CASE Open(r)
  <2>1. /\ UNCHANGED synced /\ pc'[r] \in {"served", "ended"}
        /\ seen'[r] \in {seen[r], file[Path(r)]} /\ (pc'[r] = "served" => seen'[r] # NoFile)
    BY <1>1, <1>13 DEF Open, disk, Goto, TypeOK
  <2> QED BY <1>1, <1>2, <1>3, <1>4, <2>1
<1>14. CASE Reply(r)
  <2>1. UNCHANGED synced /\ pc'[r] = "idle" /\ seen'[r] = NoFile
    BY <1>1, <1>14 DEF Reply, disk, Goto, TypeOK
  <2> QED BY <1>3, <2>1
<1> QED BY <1>5, <1>6, <1>7, <1>8, <1>9, <1>10, <1>11, <1>12, <1>13, <1>14 DEF Step

LEMMA LookStep ==
  ASSUME IInv, LookInv, [Next]_vars
  PROVE  LookInv'
<1>1. ASSUME synced \subseteq synced', UNCHANGED <<pc, want, seen>>
      PROVE  LookInv'
  BY <1>1 DEF LookInv
<1>2. ASSUME NEW r \in Requests,
             \/ \E k \in Keys : \E d \in Announced[k] : Start(r, k, d)
             \/ Refuse(r) \/ Step(r) \/ Disconnect(r)
      PROVE  LookInv'
  BY <1>2, CallLooks
<1>3. ASSUME NEW k \in Keys, (\E c \in Contents : Replace(k, c)) \/ Delete(k)
      PROVE  LookInv'
  BY <1>1, <1>3 DEF Replace, Delete, local
<1>4. ASSUME NEW power \in BOOLEAN, NEW lost \in SUBSET Keys, Crash(power, lost)
      PROVE  LookInv'
  BY <1>4 DEF LookInv, Crash
<1>5. CASE (\E left \in SUBSET temps : Restart(left)) \/ UNCHANGED vars
  BY <1>1, <1>5 DEF Restart, vars, disk, local
<1> QED BY <1>2, <1>3, <1>4, <1>5 DEF Next

(* Every step of the store is a step of the abstract cache, or none. *)
LEMMA StepMaps ==
  ASSUME IInv, ServeInv, LookInv, NEW r \in Requests, Step(r)
  PROVE  [Cache!Next]_(Cache!vars)
<1>1. TypeOK /\ Bystanders(r) /\ BytesStay /\ TrustStays /\ AtCache(r)
  BY OneMoves, StepFiles, SyncedStays DEF IInv, ServeInv
<1>2. CASE Rename(r)
  BY <1>1, <1>2, RenameMaps DEF Cache!Next
<1>3. CASE SyncParent(r)
  BY <1>1, <1>3, SyncParentMaps DEF Cache!Next, TypeOK
<1>4. CASE Open(r)
  BY <1>1, <1>4, OpenMaps DEF Cache!Next
<1>5. CASE Reply(r)
  <2>1. Notices(r)
    BY <1>1, <1>5, CallOver DEF Reply, Goto, TypeOK, Notices
  <2> QED BY <1>1, <1>5, <2>1, CallMaps DEF Reply, disk, env
<1>6. CASE Stat(r) \/ Memo(r) \/ Hash(r) \/ Note(r)
  <2>1. UNCHANGED <<file, durable, up, tampered>>
    BY <1>6 DEF Stat, Memo, Hash, Note, disk, env
  <2> QED BY <1>1, <1>6, <2>1, CheckNotices, CallMaps
<1>7. CASE \/ TakeLock(r) \/ TakePermit(r) \/ CreateTemp(r) \/ \E f \in Files : TempNameTaken(r, f)
           \/ \E c \in Contents : Fetch(r, c)
           \/ SyncTemp(r) \/ Restat(r) \/ Record(r) \/ IoError(r)
  <2>1. UNCHANGED <<file, durable, up, tampered>>
    BY <1>7 DEF TakeLock, TakePermit, CreateTemp, TempNameTaken, Fetch, SyncTemp, Restat, Record,
       IoError, disk, env
  <2> QED BY <1>1, <1>7, <2>1, DownloadNotices, CallMaps
<1> QED BY <1>2, <1>3, <1>4, <1>5, <1>6, <1>7 DEF Step

LEMMA NextMaps ==
  ASSUME IInv, ServeInv, LookInv, [Next]_vars
  PROVE  [Cache!Next]_(Cache!vars)
<1>1. ASSUME NEW r \in Requests, Step(r) PROVE [Cache!Next]_(Cache!vars)
  BY <1>1, StepMaps
<1>2. ASSUME NEW r \in Requests, NEW k \in Keys, NEW d \in Announced[k], Start(r, k, d)
      PROVE  [Cache!Next]_(Cache!vars)
  <2>1. BytesStay /\ TrustStays
    BY <1>2 DEF Start, disk, env, BytesStay, TrustStays
  <2> QED BY <1>2, <2>1, StartMaps DEF Cache!Next
<1>3. ASSUME NEW r \in Requests, Refuse(r) \/ Disconnect(r)
      PROVE  [Cache!Next]_(Cache!vars)
  <2>1. Notices(r)
    BY <1>3, CallOver, DisconnectNotices DEF Refuse, Goto, IInv, TypeOK, Notices
  <2>2. UNCHANGED <<file, durable, body, up, tampered, trusted>> /\ Bystanders(r)
    BY <1>3, OneMoves DEF Refuse, Disconnect, disk, env, IInv
  <2>3. BytesStay /\ TrustStays
    BY <2>2 DEF BytesStay, TrustStays
  <2> QED BY <2>1, <2>2, <2>3, CallMaps
<1>4. ASSUME NEW k \in Keys, (\E c \in Contents : Replace(k, c)) \/ Delete(k)
      PROVE  [Cache!Next]_(Cache!vars)
  BY <1>4, TamperingFiles, SyncedStays, TamperingMaps DEF ServeInv, Cache!Next
<1>5. ASSUME NEW power \in BOOLEAN, NEW lost \in SUBSET Keys, Crash(power, lost)
      PROVE  [Cache!Next]_(Cache!vars)
  BY <1>5, CrashMaps DEF Cache!Next
<1>6. CASE (\E left \in SUBSET temps : Restart(left)) \/ UNCHANGED vars
  <2>1. /\ UNCHANGED <<file, durable, body, tampered, trusted, pc, key, want, place, seen>>
        /\ up' = up \/ (~up /\ up' = TRUE)
    BY <1>6 DEF Restart, vars, disk, local, env
  <2>2. UNCHANGED <<Held, Kept, Asked, Found, Given, Unseen>>
    BY <2>1, PathsStay, UnseenStays, NobodyMoves DEF BytesStay, TrustStays
  <2> QED BY <2>1, <2>2 DEF Cache!Next, Cache!Restart, Cache!vars
<1> QED BY <1>1, <1>2, <1>3, <1>4, <1>5, <1>6 DEF Next

LEMMA InitMaps ==
  ASSUME Init
  PROVE  LookInv /\ Cache!Init
<1>1. IInv
  BY InitIInv
<1>2. \A r \in Requests : pc[r] = "idle" /\ seen[r] = NoFile
  BY DEF Init
<1>3. LookInv
  BY <1>2 DEF LookInv
<1>4. Cache!Paths = Paths
  BY DEF Cache!Paths, Paths, Places
<1>5. \A p \in Paths : Held[p] \in Cache!Optional(Contents \cup {Short})
  BY <1>1, NamedFiles DEF Held, Bytes, Complete, Cache!Optional
<1>6. Held \in [Cache!Paths -> Cache!Optional(Contents \cup {Short})]
  BY <1>4, <1>5 DEF Held
<1>7. Kept = [k \in Keys |-> Held[<<k, "cache">>]]
  <2>1. \A k \in Keys : Dest(k) \in Paths /\ durable[k] = file[Dest(k)]
    BY <1>1, PathFacts DEF Init, IInv
  <2> QED BY <2>1 DEF Kept, Held, Dest
<1>8. /\ Asked = [r \in Requests |-> {}] /\ Found = [r \in Requests |-> {}]
      /\ Given = [r \in Requests |-> {}]
  BY <1>2 DEF Asked, Found, Given, Calling, Looked
<1>9. Unseen = {}
  BY DEF Init, Unseen
<1> QED BY <1>3, <1>6, <1>7, <1>8, <1>9 DEF Init, Cache!Init

(* The store implements the abstract cache: however its requests, crashes   *)
(* and the faults around them interleave, an archive's place changes at     *)
(* once, to bytes that were asked for or are taken on trust, a power        *)
(* failure brings back a state that was kept, and calls are served from     *)
(* where they found their bytes, or trusted that they were.                 *)
THEOREM StoreImplementsCache == Spec => ImplementsArchiveCache
<1>1. Init => ServeInv
  BY DEF Init, ServeInv, AtCache, Serves, Downloading
<1>2. IInv /\ IInv' /\ ServeInv /\ [Next]_vars => ServeInv'
  BY ServeStep
<1>3. Init => LookInv /\ Cache!Init
  BY InitMaps
<1>4. IInv /\ LookInv /\ [Next]_vars => LookInv'
  BY LookStep
<1>5. IInv /\ ServeInv /\ LookInv /\ [Next]_vars => [Cache!Next]_(Cache!vars)
  BY NextMaps
<1> QED BY <1>1, <1>2, <1>3, <1>4, <1>5, StoreInvariant, PTL DEF Spec, ImplementsArchiveCache, Cache!Spec
=============================================================================
