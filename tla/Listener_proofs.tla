-------------------------- MODULE Listener_proofs --------------------------
(* Proofs about Listener for every number of connections and permits. *)
EXTENDS Listener, FiniteSetTheorems, TLAPS

LiveStages == {"greet", "detect", "idle", "request", "reply"}

(* The permits are counted over a finite set of connections. *)
LEMMA LiveFinite == IsFiniteSet(Live) /\ Cardinality(Live) \in Nat
  BY ConnectionsAssumption, FS_Subset, FS_CardinalityType DEF Live

(* The listener starts with every permit and no connection. *)
LEMMA ListenerInit == Init => TypeOK /\ PermitsConserved
<1> SUFFICES ASSUME Init PROVE TypeOK /\ PermitsConserved
  OBVIOUS
<1>1. TypeOK
  BY ConnectionsAssumption DEF Init, TypeOK, Accepting, Stages
<1>2. Live = {}
  BY DEF Init, Live
<1>3. Cardinality(Live) = 0
  BY <1>2, FS_EmptySet
<1> QED  BY <1>1, <1>3, ConnectionsAssumption DEF Init, PermitsConserved

(* The task of a connection gives back exactly the permit it holds. *)
LEMMA EndBalances ==
  ASSUME TypeOK, PermitsConserved, NEW c \in Live, NEW stage \in {"closed", "gone"},
         EndAs(c, stage)
  PROVE  TypeOK' /\ PermitsConserved'
<1>1. c \in Clients /\ conn[c] \in LiveStages
  BY DEF Live, LiveStages
<1>2. TypeOK'
  BY <1>1 DEF TypeOK, EndAs, Become, Stages
<1>3. Live' = Live \ {c}
  BY <1>1 DEF TypeOK, EndAs, Become, Live
<1>4. Cardinality(Live') = Cardinality(Live) - 1
  BY <1>3, LiveFinite, FS_RemoveElement
<1>5. Cardinality(Live) > 0
  BY LiveFinite, FS_EmptySet
<1> QED
  BY <1>2, <1>4, <1>5, LiveFinite, ConnectionsAssumption DEF PermitsConserved, EndAs, TypeOK

(* A connection that stays what it was to the permits: live, or not. *)
LEMMA MoveBalances ==
  ASSUME TypeOK, PermitsConserved, NEW c \in Clients, NEW stage \in Stages, Become(c, stage),
         c \in Live <=> stage \in LiveStages, UNCHANGED <<loop, permits, held>>
  PROVE  PermitsConserved'
<1>1. Live' = Live
  BY DEF TypeOK, Become, Live, LiveStages
<1> QED  BY <1>1 DEF PermitsConserved

(* Every step of the loop, of a connection or of a client keeps the sum. *)
LEMMA ListenerStep == TypeOK /\ PermitsConserved /\ [Next]_vars => TypeOK' /\ PermitsConserved'
<1> SUFFICES ASSUME TypeOK, PermitsConserved, [Next]_vars
             PROVE  TypeOK' /\ PermitsConserved'
  OBVIOUS
<1> USE ConnectionsAssumption
<1>1. CASE AcquirePermit \/ AcceptFails \/ Retry \/ Break \/ GraceEnds
  <2>1. Live' = Live
    BY <1>1 DEF AcquirePermit, AcceptFails, Retry, Break, GraceEnds, Live
  <2>2. TypeOK'
    <3>1. permits' \in Nat
      BY <1>1 DEF TypeOK, AcquirePermit, AcceptFails, Retry, Break, GraceEnds
    <3>2. loop' \in Accepting \cup {"drain", "abort", "returned"}
      BY <1>1 DEF TypeOK, Accepting, AcquirePermit, AcceptFails, Retry, Break, GraceEnds
    <3>3. held' \in BOOLEAN /\ UNCHANGED <<tls, conn, silent, shutdown>>
      BY <1>1 DEF TypeOK, AcquirePermit, AcceptFails, Retry, Break, GraceEnds
    <3> QED  BY <3>1, <3>2, <3>3 DEF TypeOK
  <2>3. PermitsConserved'
    BY <1>1, <2>1, LiveFinite DEF TypeOK, PermitsConserved, Accepting, AcquirePermit, AcceptFails,
                                  Retry, Break, GraceEnds
  <2> QED  BY <2>2, <2>3
<1>2. CASE Return
  <2>1. Live = {} /\ Live' = {}
    BY <1>2 DEF Return, Live, TypeOK
  <2>2. Cardinality(Live) = 0 /\ Cardinality(Live') = 0
    BY <2>1, FS_EmptySet
  <2>3. TypeOK'
    BY <1>2 DEF Return, TypeOK, Stages
  <2> QED  BY <1>2, <2>2, <2>3 DEF Return, PermitsConserved, TypeOK
<1>3. ASSUME NEW c \in Clients, Accept(c) PROVE TypeOK' /\ PermitsConserved'
  <2>1. Live' = Live \cup {c} /\ c \notin Live
    BY <1>3 DEF Accept, Become, Live, TypeOK
  <2>2. Cardinality(Live') = Cardinality(Live) + 1
    BY <2>1, LiveFinite, FS_AddElement
  <2>3. TypeOK'
    BY <1>3 DEF Accept, Become, TypeOK, Stages, Accepting
  <2> QED  BY <1>3, <2>2, <2>3, LiveFinite DEF Accept, PermitsConserved, TypeOK
<1>4. ASSUME NEW c \in Clients, Timeouts(c) \/ Finish(c) \/ GracefulShutdown(c) \/ Reset(c)
      PROVE  TypeOK' /\ PermitsConserved'
  <2>1. c \in Live /\ (EndAs(c, "closed") \/ EndAs(c, "gone"))
    BY <1>4 DEF Timeouts, GreetTimeout, GreetCancelled, IdleTimeout, Aborted, Finish,
                GracefulShutdown, Reset, End, Live
  <2> QED  BY <2>1, EndBalances
<1>5. ASSUME NEW c \in Clients,
             Greeted(c) \/ FirstBytes(c) \/ Request(c) \/ Respond(c) \/ Keep(c)
               \/ Connect(c) \/ ResetUnaccepted(c)
      PROVE  TypeOK' /\ PermitsConserved'
  <2>1. PICK stage \in Stages : Become(c, stage) /\ (c \in Live <=> stage \in LiveStages)
    BY <1>5 DEF Greeted, FirstBytes, Request, Respond, Keep, Connect, ResetUnaccepted, Live,
                LiveStages, Stages
  <2>2. UNCHANGED <<tls, loop, permits, held, silent, shutdown>>
    BY <1>5 DEF Greeted, FirstBytes, Request, Respond, Keep, Connect, ResetUnaccepted
  <2>3. TypeOK'
    BY <2>1, <2>2 DEF Become, TypeOK
  <2> QED  BY <2>1, <2>2, <2>3, MoveBalances
<1>6. ASSUME NEW c \in Clients, FallSilent(c) PROVE TypeOK' /\ PermitsConserved'
  BY <1>6 DEF FallSilent, TypeOK, PermitsConserved, Live
<1>7. CASE Signal
  BY <1>7 DEF Signal, TypeOK, PermitsConserved, Live
<1>8. CASE UNCHANGED vars
  BY <1>8 DEF vars, TypeOK, PermitsConserved, Live
<1> QED
  BY <1>1, <1>2, <1>3, <1>4, <1>5, <1>6, <1>7, <1>8 DEF Next, Loop, Task, Client

(* No accept error, time-out, abort, reset or shutdown loses a permit or    *)
(* gives one back twice: never more than MaxConnections are served.         *)
THEOREM PermitsBalanced == Spec => []PermitsConserved
<1>1. TypeOK /\ PermitsConserved /\ [Next]_vars => (TypeOK /\ PermitsConserved)'
  BY ListenerStep
<1> QED  BY ListenerInit, <1>1, PTL DEF Spec
=============================================================================
