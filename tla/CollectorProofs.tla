--------------------------- MODULE CollectorProofs ---------------------------
(***************************************************************************)
(* Proofs about Collector for any number of connections, any limit and any *)
(* capacity of the queue.                                                  *)
(***************************************************************************)
EXTENDS Collector, FiniteSetTheorems, TLAPS

(***************************************************************************)
(* The accept handler has a connection from its call until it calls        *)
(* start() again; the Session is made in between, and its chains are       *)
(* started one after the other.                                            *)
(***************************************************************************)
AcceptShape ==
  /\ accept = "armed" <=> accepting = NoConn
  /\ accept \in {"check", "create"} => accepting \notin created
  /\ accept \in {"start_timeout", "start_read"} => accepting \in created
  /\ accept = "start_timeout" => pc[<<accepting, "timer">>] = "none"
  /\ accept # "armed" => pc[<<accepting, "read">>] = "none"

(***************************************************************************)
(* A connection of the backlog has no Session yet; a Session has a read    *)
(* chain as soon as the accept handler is done with it, and that chain     *)
(* ends only after cleanup.                                                *)
(***************************************************************************)
SessionShape ==
  \A c \in Conns :
    /\ sock[c] \in {"none", "backlog"} => c \notin created /\ c # accepting
    /\ c \notin created =>
         pc[<<c, "read">>] = "none" /\ pc[<<c, "timer">>] = "none" /\ c \notin cleaned_up_
    /\ c \in created /\ c # accepting => pc[<<c, "read">>] # "none"
    /\ pc[<<c, "read">>] \in {"done", "fetch_sub"} => c \in cleaned_up_

Shape == TypeOK /\ AcceptShape /\ SessionShape

-----------------------------------------------------------------------------
LEMMA InitShape == Init => Shape
BY CollectorAssumption
DEF Init, Shape, TypeOK, AcceptShape, SessionShape, Labels, Handlers, Chains, queued

(* A step of the accept chain, the sessions' chains left alone. *)
LEMMA HandlerPairs ==
  /\ \A c \in Conns, k \in Chains : <<c, k>> \in Handlers
  /\ \A h \in Handlers : h[1] \in Conns /\ h[2] \in Chains /\ h = <<h[1], h[2]>>
  /\ Chains = {"read", "timer"}
BY DEF Handlers, Chains

(* The clients. *)
LEMMA ClientShape ==
  ASSUME Shape, NEW c \in Conns, Connect(c) \/ Send(c) \/ Disconnect(c)
  PROVE  Shape'
<1>1. CASE Connect(c)
  BY <1>1 DEF Connect, Shape, TypeOK, AcceptShape, SessionShape, listen, count, events, queued
<1>2. CASE Send(c)
  <2>1. wire' \in [Conns -> Seq({"H", "X", "B"})] /\ parts' \in [Conns -> 0..(2 * MaxFrames)]
    BY <1>2, CollectorAssumption DEF Send, Shape, TypeOK
  <2> QED
    BY <1>2, <2>1 DEF Send, Shape, TypeOK, AcceptShape, SessionShape, listen, count, events, queued
<1>3. CASE Disconnect(c)
  BY <1>3 DEF Disconnect, Shape, TypeOK, AcceptShape, SessionShape, listen, count, events, queued
<1> QED
  BY <1>1, <1>2, <1>3

(* The consumers of the queue and Collector::stop. *)
LEMMA OtherShape ==
  ASSUME Shape, Consume \/ stop
  PROVE  Shape'
<1>1. CASE Consume
  BY <1>1, CollectorAssumption
  DEF Consume, Shape, TypeOK, AcceptShape, SessionShape, listen, net, count, queued
<1>2. CASE stop
  BY <1>2 DEF stop, Shape, TypeOK, AcceptShape, SessionShape, count, events, queued
<1> QED
  BY <1>1, <1>2

(* The accept handler. *)
LEMMA AcceptHandlerShape ==
  ASSUME Shape, AcceptHandler
  PROVE  Shape'
<1> USE CollectorAssumption, HandlerPairs
<1>0. accept # "armed" => accepting \in Conns
  BY DEF Shape, TypeOK, AcceptShape
<1>1. ASSUME NEW c \in Conns, Accepted(c)
      PROVE  Shape'
  <2>1. TypeOK'
    BY <1>1 DEF Accepted, AcceptIf, AcceptStep, Shape, TypeOK, count, events, queued
  <2>2. AcceptShape'
    BY <1>1 DEF Accepted, AcceptIf, AcceptStep, Shape, TypeOK, AcceptShape, SessionShape, count
  <2>3. SessionShape'
    BY <1>1 DEF Accepted, AcceptIf, AcceptStep, Shape, TypeOK, AcceptShape, SessionShape, count
  <2> QED
    BY <2>1, <2>2, <2>3 DEF Shape
<1>2. CASE CheckConnections
  <2>1. \/ Refuse
        \/ AcceptStep("create", accepting) /\ UNCHANGED sock
    BY <1>2 DEF CheckConnections, CheckWith
  <2>2. UNCHANGED <<acceptor_, gone, wire, parts, pc, count, events>> /\ accept = "check"
    BY <1>2 DEF CheckConnections, CheckWith
  <2>3. CASE Refuse
    BY <1>0, <2>2, <2>3
    DEF Refuse, AcceptStep, Shape, TypeOK, AcceptShape, SessionShape, count, events, queued
  <2>4. CASE AcceptStep("create", accepting) /\ UNCHANGED sock
    BY <1>0, <2>2, <2>4
    DEF AcceptStep, Shape, TypeOK, AcceptShape, SessionShape, count, events, queued
  <2> QED
    BY <2>1, <2>3, <2>4
<1>3. CASE CreateSession
  <2>1. TypeOK'
    <3>1. UNCHANGED <<acceptor_, sock, gone, wire, parts, pc, cleaned_up_, got, pushed, popped, total_queue_drop>>
      BY <1>3 DEF CreateSession, net, events
    <3>2. accept' = "start_timeout" /\ accepting' = accepting /\ accepting \in Conns
      BY <1>0, <1>3 DEF CreateSession, AcceptStep
    <3>3. active_count_' \in Int /\ created' \subseteq Conns
      BY <1>3, <3>2 DEF CreateSession, Shape, TypeOK
    <3>4. TypeOK
      BY DEF Shape
    <3> QED
      BY ONLY <3>1, <3>2, <3>3, <3>4 DEF TypeOK, queued
  <2>2. AcceptShape' /\ SessionShape'
    BY <1>0, <1>3
    DEF CreateSession, AcceptStep, Shape, TypeOK, AcceptShape, SessionShape, net
  <2> QED
    BY <2>1, <2>2 DEF Shape
<1>4. CASE start_timeout
  BY <1>0, <1>4
  DEF start_timeout, AcceptStep, Goto, Shape, TypeOK, AcceptShape, SessionShape, net, count, events,
      queued, Labels
<1>5. CASE StartRead
  BY <1>0, <1>5
  DEF StartRead, AcceptStep, Goto, Shape, TypeOK, AcceptShape, SessionShape, net, count, events,
      queued, Labels
<1> QED
  BY <1>1, <1>2, <1>3, <1>4, <1>5 DEF AcceptHandler

(* Closing a socket leaves a prefix of the wire. *)
LEMMA CloseTyped ==
  ASSUME TypeOK, NEW c \in Conns, Close(c)
  PROVE  /\ wire' \in [Conns -> Seq({"H", "X", "B"})]
         /\ sock' = [sock EXCEPT ![c] = "closed"]
<1>1. PICK n \in {0, 1} : /\ wire' = [wire EXCEPT ![c] = SubSeq(wire[c], 1, n)]
                          /\ n = 1 => wire[c] # <<>>
  <2>1. CASE Reading(c) /\ wire[c] # <<>>
    BY <2>1 DEF Close
  <2>2. CASE ~(Reading(c) /\ wire[c] # <<>>)
    <3>1. wire' = [wire EXCEPT ![c] = SubSeq(wire[c], 1, 0)]
      BY <2>2 DEF Close
    <3> QED
      BY <3>1
  <2> QED
    BY <2>1, <2>2
<1>2. SubSeq(wire[c], 1, n) \in Seq({"H", "X", "B"})
  BY <1>1 DEF TypeOK
<1> QED
  BY <1>1, <1>2 DEF Close, TypeOK

(* The chains of a session. *)
LEMMA SessionHandlerShape ==
  ASSUME Shape, NEW c \in Conns, ReadHandler(c) \/ Expire(c) \/ on_timeout(c)
  PROVE  Shape'
<1> USE HandlerPairs
<1>1. ASSUME NEW k \in Chains, NEW l \in Labels \ {"none", "done", "fetch_sub"},
             pc[<<c, k>>] \notin {"none", "done", "fetch_sub"}, Goto(<<c, k>>, l),
             UNCHANGED <<listen, gone, parts, count>>,
             sock' \in {sock, [sock EXCEPT ![c] = "closed"]},
             wire' \in [Conns -> Seq({"H", "X", "B"})],
             got' \in [Conns -> Nat], pushed' \in Nat, popped' \in Nat, queued' \in 0..Capacity,
             total_queue_drop' \in Nat
      PROVE  Shape'
  <2>1. /\ sock' \in [Conns -> {"none", "backlog", "open", "closed"}]
        /\ pc' \in [Handlers -> Labels]
    BY <1>1 DEF Goto, Shape, TypeOK
  <2>2. TypeOK'
    BY <1>1, <2>1 DEF Shape, TypeOK, listen, count
  <2>3. AcceptShape'
    BY <1>1 DEF Goto, Shape, TypeOK, AcceptShape, listen, count
  <2>4. SessionShape'
    <3>1. ASSUME NEW b \in Conns
          PROVE  /\ sock'[b] \in {"none", "backlog"} => sock[b] \in {"none", "backlog"}
                 /\ pc'[<<b, "read">>] = pc[<<b, "read">>]
                      \/ (b = c /\ k = "read" /\ pc'[<<b, "read">>] = l)
                 /\ pc'[<<b, "timer">>] = pc[<<b, "timer">>]
                      \/ (b = c /\ k = "timer" /\ pc'[<<b, "timer">>] = l)
      BY <1>1 DEF Goto, Shape, TypeOK
    <3>2. UNCHANGED <<created, accepting, cleaned_up_>> /\ SessionShape
      BY <1>1 DEF Shape, listen, count
    <3>3. c \in created
      BY <1>1, <3>2 DEF SessionShape
    <3>4. ASSUME NEW b \in Conns
          PROVE  /\ sock'[b] \in {"none", "backlog"} => b \notin created /\ b # accepting
                 /\ b \notin created =>
                      /\ pc'[<<b, "read">>] = "none" /\ pc'[<<b, "timer">>] = "none"
                      /\ b \notin cleaned_up_
                 /\ b \in created /\ b # accepting => pc'[<<b, "read">>] # "none"
                 /\ pc'[<<b, "read">>] \in {"done", "fetch_sub"} => b \in cleaned_up_
      <4>1. l \notin {"none", "done", "fetch_sub"}
        OBVIOUS
      <4>2. CASE b = c
        BY <3>1, <3>2, <3>3, <4>1, <4>2 DEF SessionShape
      <4>3. CASE b # c
        <5>1. pc'[<<b, "read">>] = pc[<<b, "read">>] /\ pc'[<<b, "timer">>] = pc[<<b, "timer">>]
          BY <3>1, <4>3
        <5> QED
          BY <3>1, <3>2, <5>1 DEF SessionShape
      <4> QED
        BY <4>2, <4>3
    <3> QED
      BY <3>2, <3>4 DEF SessionShape
  <2> QED
    BY <2>2, <2>3, <2>4 DEF Shape
<1>2. CASE HeaderRead(c)
  <2>1. wire' \in [Conns -> Seq({"H", "X", "B"})]
    BY <1>2 DEF HeaderRead, CanRead, Shape, TypeOK
  <2> QED
    BY <1>1, <1>2, <2>1 DEF HeaderRead, CanRead, Shape, TypeOK, Labels, count, events, queued
<1>3. CASE InvalidLength(c)
  BY <1>1, <1>3, CloseTyped
  DEF InvalidLength, BadLength, CanRead, Shape, TypeOK, Labels, events, queued
<1>4. CASE ReadFails(c)
  BY <1>1, <1>4 DEF ReadFails, ReadError, Reading, Shape, TypeOK, Labels, net, events, queued
<1>5. CASE BodyRead(c)
  <2>1. wire' \in [Conns -> Seq({"H", "X", "B"})] /\ got' \in [Conns -> Nat]
    <3>0. wire[c] \in Seq({"H", "X", "B"}) /\ wire[c] # <<>> /\ got[c] \in Nat
      BY <1>5 DEF BodyRead, CanRead, Shape, TypeOK
    <3>1. Tail(wire[c]) \in Seq({"H", "X", "B"}) /\ got[c] + 1 \in Nat
      BY ONLY <3>0
    <3>2. wire' \in [Conns -> Seq({"H", "X", "B"})]
      BY <1>5, <3>1 DEF BodyRead, Shape, TypeOK
    <3>3. got' \in [Conns -> Nat]
      BY <1>5, <3>1 DEF BodyRead, Shape, TypeOK
    <3> QED
      BY <3>2, <3>3
  <2> QED
    BY <1>5, <2>1
    DEF BodyRead, CanRead, Shape, TypeOK, AcceptShape, SessionShape, Labels, listen, count, queued
<1>6. CASE Push(c)
  <2>1. pushed' \in Nat /\ popped' \in Nat /\ queued' \in 0..Capacity /\ total_queue_drop' \in Nat
    <3>1. /\ pushed \in Nat /\ popped \in Nat /\ pushed - popped \in 0..Capacity
          /\ total_queue_drop \in Nat /\ popped' = popped
      BY <1>6 DEF Push, PushWith, Shape, TypeOK, queued
    <3>2. \/ pushed - popped < Capacity /\ pushed' = pushed + 1 /\ UNCHANGED total_queue_drop
          \/ total_queue_drop' = total_queue_drop + 1 /\ UNCHANGED pushed
      BY <1>6, <3>1, CollectorAssumption DEF Push, PushWith, queued
    <3> QED
      BY <3>1, <3>2, CollectorAssumption DEF queued
  <2> QED
    BY <1>1, <1>6, <2>1 DEF Push, PushWith, Shape, TypeOK, Labels, net
<1>7. CASE Expire(c)
  BY <1>1, <1>7 DEF Expire, Shape, TypeOK, Labels, net, events, queued
<1>8. CASE on_timeout(c)
  BY <1>1, <1>8, CloseTyped DEF on_timeout, Shape, TypeOK, Labels, events, queued
<1> QED
  BY <1>2, <1>3, <1>4, <1>5, <1>6, <1>7, <1>8 DEF ReadHandler

LEMMA CleanupShape ==
  ASSUME Shape, NEW h \in Handlers, Cleanup(h)
  PROVE  Shape'
<1>1. PICK c \in Conns, k \in Chains : h = <<c, k>>
  BY HandlerPairs
<1>2. CASE cleanup(h)
  BY <1>1, <1>2, HandlerPairs
  DEF cleanup, CleanupWith, Goto, Shape, TypeOK, AcceptShape, SessionShape, Labels, listen, net,
      events, queued
<1>3. CASE FetchSub(h)
  <2>1. active_count_' \in Int /\ pc' \in [Handlers -> Labels]
    BY <1>3 DEF FetchSub, Goto, Shape, TypeOK, Labels
  <2>2. TypeOK'
    BY <1>3, <2>1 DEF FetchSub, Shape, TypeOK, listen, net, events, queued
  <2>3. AcceptShape' /\ SessionShape'
    BY <1>1, <1>3, HandlerPairs
    DEF FetchSub, Goto, Shape, TypeOK, AcceptShape, SessionShape, listen, net
  <2> QED
    BY <2>2, <2>3 DEF Shape
<1> QED
  BY <1>2, <1>3 DEF Cleanup

LEMMA StutterShape ==
  ASSUME Shape, UNCHANGED vars
  PROVE  Shape'
BY DEF vars, listen, net, count, events, Shape, TypeOK, AcceptShape, SessionShape, queued

LEMMA NextShape == Shape /\ [Next]_vars => Shape'
<1> SUFFICES ASSUME Shape, [Next]_vars
             PROVE  Shape'
  OBVIOUS
<1> QED
  BY ClientShape, OtherShape, AcceptHandlerShape, SessionHandlerShape, CleanupShape, StutterShape
  DEF Next, AcceptFails

LEMMA ShapeHolds == Spec => []Shape
BY InitShape, NextShape, PTL DEF Spec

-----------------------------------------------------------------------------
(* The handlers that have taken cleaned_up_ and not yet subtracted. *)
Subtracting == {h \in Handlers : pc[h] = "fetch_sub"}

(***************************************************************************)
(* Only the accept handler adds to active_count_, so what it tested still  *)
(* holds when it adds: others can only have subtracted.                    *)
(***************************************************************************)
CountInv ==
  /\ ActiveCountExact
  /\ WithinMaxConnections
  /\ accept = "create" => active_count_ < MAX_CONNECTIONS

LEMMA CountsFinite ==
  ASSUME Shape
  PROVE  /\ IsFiniteSet(created \ cleaned_up_) /\ Cardinality(created \ cleaned_up_) \in Nat
         /\ IsFiniteSet(Subtracting) /\ Cardinality(Subtracting) \in Nat
<1>1. IsFiniteSet(Chains)
  <2>1. IsFiniteSet({"read"}) /\ Chains = {"read"} \cup {"timer"}
    BY FS_Singleton DEF Chains
  <2> QED
    BY <2>1, FS_AddElement
<1>2. IsFiniteSet(Handlers)
  BY <1>1, CollectorAssumption, FS_Product DEF Handlers
<1>3. Subtracting \in SUBSET Handlers /\ created \ cleaned_up_ \in SUBSET Conns
  BY DEF Subtracting, Shape, TypeOK
<1> QED
  BY <1>2, <1>3, CollectorAssumption, FS_Subset, FS_CardinalityType

(* Steps that neither make nor clean up a session. *)
LEMMA SameCount ==
  ASSUME CountInv, UNCHANGED count,
         \A h \in Handlers : pc'[h] = "fetch_sub" <=> pc[h] = "fetch_sub",
         accept' = "create" => accept = "create" \/ active_count_ < MAX_CONNECTIONS
  PROVE  CountInv'
<1>1. {h \in Handlers : pc'[h] = "fetch_sub"} = {h \in Handlers : pc[h] = "fetch_sub"}
  OBVIOUS
<1> QED
  BY <1>1 DEF CountInv, ActiveCountExact, WithinMaxConnections, count

(* The constructor of Session takes a slot. *)
LEMMA CreateCount ==
  ASSUME Shape, CountInv, CreateSession
  PROVE  CountInv'
<1>1. /\ accepting \in Conns /\ accepting \notin created /\ accepting \notin cleaned_up_
      /\ active_count_ \in Int
  BY DEF Shape, TypeOK, AcceptShape, SessionShape, CreateSession
<1>2. /\ created' \ cleaned_up_' = (created \ cleaned_up_) \cup {accepting}
      /\ accepting \notin created \ cleaned_up_
      /\ UNCHANGED pc /\ accept' = "start_timeout" /\ active_count_' = active_count_ + 1
      /\ active_count_ < MAX_CONNECTIONS
  BY <1>1 DEF CreateSession, AcceptStep, CountInv
<1>3. Cardinality(created' \ cleaned_up_') = Cardinality(created \ cleaned_up_) + 1
  BY <1>2, CountsFinite, FS_AddElement
<1> QED
  BY <1>1, <1>2, <1>3, CountsFinite, CollectorAssumption
  DEF CountInv, ActiveCountExact, WithinMaxConnections, Subtracting

(* cleanup takes the flag once per session, and FetchSub gives a slot back. *)
LEMMA CleanupCount ==
  ASSUME Shape, CountInv, NEW h \in Handlers, Cleanup(h)
  PROVE  CountInv'
<1>0. accept' = accept /\ active_count_ \in Int /\ created' = created
  BY DEF Cleanup, cleanup, CleanupWith, FetchSub, listen, Shape, TypeOK
<1>1. CASE cleanup(h) /\ h[1] \in cleaned_up_
  <2>1. UNCHANGED count
    BY <1>1 DEF cleanup, CleanupWith, count
  <2>2. \A g \in Handlers : pc'[g] = "fetch_sub" <=> pc[g] = "fetch_sub"
    BY <1>1 DEF cleanup, CleanupWith, Goto, Shape, TypeOK
  <2> QED
    BY <1>0, <2>1, <2>2, SameCount
<1>2. CASE cleanup(h) /\ h[1] \notin cleaned_up_
  <2>1. h[1] \in created
    <3>1. PICK c \in Conns, k \in Chains : h = <<c, k>>
      BY HandlerPairs
    <3> QED
      BY <1>2, <3>1 DEF cleanup, CleanupWith, Shape, SessionShape, Chains
  <2>2. /\ created' \ cleaned_up_' = (created \ cleaned_up_) \ {h[1]}
        /\ h[1] \in created \ cleaned_up_ /\ active_count_' = active_count_
    BY <1>0, <1>2, <2>1 DEF cleanup, CleanupWith
  <2>3. Subtracting' = Subtracting \cup {h} /\ h \notin Subtracting
    BY <1>2 DEF cleanup, CleanupWith, Goto, Subtracting, Shape, TypeOK
  <2>4. /\ Cardinality(created' \ cleaned_up_') = Cardinality(created \ cleaned_up_) - 1
        /\ Cardinality(Subtracting') = Cardinality(Subtracting) + 1
    <3>1. Cardinality(created' \ cleaned_up_') = Cardinality(created \ cleaned_up_) - 1
      <4>1. IsFiniteSet(created \ cleaned_up_)
        BY CountsFinite
      <4>2. Cardinality((created \ cleaned_up_) \ {h[1]}) = Cardinality(created \ cleaned_up_) - 1
        BY ONLY <2>2, <4>1, FS_RemoveElement
      <4> QED
        BY <2>2, <4>2
    <3>2. Cardinality(Subtracting') = Cardinality(Subtracting) + 1
      BY <2>3, CountsFinite, FS_AddElement
    <3> QED
      BY <3>1, <3>2
  <2> QED
    BY <1>0, <2>2, <2>4, CountsFinite
    DEF CountInv, ActiveCountExact, WithinMaxConnections, Subtracting
<1>3. CASE FetchSub(h)
  <2>1. /\ UNCHANGED <<created, cleaned_up_>> /\ active_count_' = active_count_ - 1
        /\ Subtracting' = Subtracting \ {h} /\ h \in Subtracting
    BY <1>3 DEF FetchSub, Goto, Subtracting, Shape, TypeOK
  <2>2. Cardinality(Subtracting') = Cardinality(Subtracting) - 1
    BY <2>1, CountsFinite, FS_RemoveElement
  <2> QED
    BY <1>0, <2>1, <2>2, CountsFinite, CollectorAssumption
    DEF CountInv, ActiveCountExact, WithinMaxConnections, Subtracting
<1> QED
  BY <1>1, <1>2, <1>3 DEF Cleanup

LEMMA InitCount == Init => CountInv
<1> SUFFICES ASSUME Init PROVE CountInv
  OBVIOUS
<1>1. created \ cleaned_up_ = {} /\ {h \in Handlers : pc[h] = "fetch_sub"} = {}
  BY DEF Init
<1> QED
  BY <1>1, FS_EmptySet, CollectorAssumption
  DEF Init, CountInv, ActiveCountExact, WithinMaxConnections

LEMMA NextCount == Shape /\ CountInv /\ [Next]_vars => CountInv'
<1> SUFFICES ASSUME Shape, CountInv, [Next]_vars
             PROVE  CountInv'
  OBVIOUS
<1> USE HandlerPairs
<1>1. ASSUME UNCHANGED <<pc, count, accept>>
      PROVE  CountInv'
  BY <1>1, SameCount
<1>2. ASSUME NEW c \in Conns, NEW k \in Chains, NEW l, l # "fetch_sub",
             pc[<<c, k>>] # "fetch_sub", Goto(<<c, k>>, l), UNCHANGED count, accept' # "create"
      PROVE  CountInv'
  <2>1. \A h \in Handlers : pc'[h] = "fetch_sub" <=> pc[h] = "fetch_sub"
    BY <1>2 DEF Goto, Shape, TypeOK
  <2> QED
    BY <1>2, <2>1, SameCount
<1>3. ASSUME NEW c \in Conns, Connect(c) \/ Send(c) \/ Disconnect(c)
      PROVE  CountInv'
  BY <1>1, <1>3 DEF Connect, Send, Disconnect, listen
<1>4. CASE Consume \/ stop \/ AcceptFails \/ UNCHANGED vars
  BY <1>1, <1>4 DEF Consume, stop, AcceptFails, vars, listen
<1>5. ASSUME NEW c \in Conns, Accepted(c)
      PROVE  CountInv'
  BY <1>5, SameCount DEF Accepted, AcceptIf, AcceptStep
<1>6. CASE CheckConnections
  <2>1. UNCHANGED <<pc, count>> /\ (accept' = "create" => active_count_ < MAX_CONNECTIONS)
    BY <1>6, CollectorAssumption
    DEF CheckConnections, CheckWith, Refuse, AcceptStep, Shape, TypeOK
  <2> QED
    BY <2>1, SameCount
<1>7. CASE start_timeout \/ StartRead
  <2>1. accepting \in Conns /\ (accept = "start_timeout" => pc[<<accepting, "timer">>] = "none")
        /\ pc[<<accepting, "read">>] = "none"
    BY <1>7 DEF start_timeout, StartRead, Shape, TypeOK, AcceptShape
  <2>2. UNCHANGED count /\ accept' # "create"
    BY <1>7 DEF start_timeout, StartRead, AcceptStep
  <2>3. \A h \in Handlers : pc'[h] = "fetch_sub" <=> pc[h] = "fetch_sub"
    BY <1>7, <2>1 DEF start_timeout, StartRead, Goto, Shape, TypeOK
  <2> QED
    BY <2>2, <2>3, SameCount
<1>8. ASSUME NEW c \in Conns, ReadHandler(c) \/ Expire(c) \/ on_timeout(c)
      PROVE  CountInv'
  <2>1. UNCHANGED <<count, accept>>
    BY <1>8
    DEF ReadHandler, HeaderRead, InvalidLength, BadLength, ReadFails, ReadError, BodyRead, Push,
        PushWith, Expire, on_timeout, listen
  <2>2. ASSUME HeaderRead(c) \/ InvalidLength(c) \/ ReadFails(c) \/ Push(c) \/ Expire(c)
                 \/ on_timeout(c)
        PROVE  \A h \in Handlers : pc'[h] = "fetch_sub" <=> pc[h] = "fetch_sub"
    <3>1. PICK k \in Chains, l \in Labels \ {"fetch_sub"} :
            pc[<<c, k>>] # "fetch_sub" /\ Goto(<<c, k>>, l)
      <4>1. CASE HeaderRead(c)
        BY <4>1 DEF HeaderRead, CanRead, Chains, Labels
      <4>2. CASE InvalidLength(c)
        BY <4>2 DEF InvalidLength, BadLength, CanRead, Chains, Labels
      <4>3. CASE ReadFails(c)
        BY <4>3 DEF ReadFails, ReadError, Reading, Chains, Labels
      <4>4. CASE Push(c)
        BY <4>4 DEF Push, PushWith, Chains, Labels
      <4>5. CASE Expire(c)
        BY <4>5 DEF Expire, Chains, Labels
      <4>6. CASE on_timeout(c)
        BY <4>6 DEF on_timeout, Chains, Labels
      <4> QED
        BY <2>2, <4>1, <4>2, <4>3, <4>4, <4>5, <4>6
    <3>2. pc \in [Handlers -> Labels] /\ <<c, k>> \in Handlers
      BY HandlerPairs DEF Shape, TypeOK
    <3> QED
      BY <3>1, <3>2 DEF Goto
  <2>3. ASSUME BodyRead(c)
        PROVE  \A h \in Handlers : pc'[h] = "fetch_sub" <=> pc[h] = "fetch_sub"
    BY <2>3 DEF BodyRead, CanRead, Shape, TypeOK
  <2> QED
    BY <1>8, <2>1, <2>2, <2>3, SameCount DEF ReadHandler
<1> QED
  BY <1>3, <1>4, <1>5, <1>6, <1>7, <1>8, CreateCount, CleanupCount DEF Next, AcceptHandler

-----------------------------------------------------------------------------
(* The sessions that have read an event and not yet tried to push it. *)
Pushing == {c \in Conns : pc[<<c, "read">>] = "push"}

EventInv == IsFiniteSet(EventsRead) /\ EventsAccounted

(* Steps that touch no event. *)
LEMMA SameEvents ==
  ASSUME EventInv, UNCHANGED <<got, pushed, total_queue_drop>>,
         \A c \in Conns : pc'[<<c, "read">>] = "push" <=> pc[<<c, "read">>] = "push"
  PROVE  EventInv'
<1>1. {c \in Conns : pc'[<<c, "read">>] = "push"} = {c \in Conns : pc[<<c, "read">>] = "push"}
  OBVIOUS
<1> QED
  BY <1>1 DEF EventInv, EventsAccounted, EventsRead

LEMMA PushingFinite == IsFiniteSet(Pushing) /\ Cardinality(Pushing) \in Nat
<1>1. Pushing \in SUBSET Conns
  BY DEF Pushing
<1> QED
  BY <1>1, CollectorAssumption, FS_Subset, FS_CardinalityType

LEMMA BodyReadEvents ==
  ASSUME Shape, EventInv, NEW c \in Conns, BodyRead(c)
  PROVE  EventInv'
<1>1. /\ UNCHANGED <<pushed, total_queue_drop>> /\ got[c] \in Nat
      /\ got' = [got EXCEPT ![c] = got[c] + 1] /\ got \in [Conns -> Nat]
      /\ pushed \in Nat /\ total_queue_drop \in Nat
  BY DEF BodyRead, Shape, TypeOK
<1>2. EventsRead' = EventsRead \cup {<<c, got[c] + 1>>}
  <2>1. \A d \in Conns : 1..got'[d] = (1..got[d]) \cup (IF d = c THEN {got[c] + 1} ELSE {})
    BY <1>1
  <2> QED
    BY <1>1, <2>1 DEF EventsRead
<1>3. <<c, got[c] + 1>> \notin EventsRead
  BY <1>1 DEF EventsRead
<1>4. Pushing' = Pushing \cup {c} /\ c \notin Pushing
  BY HandlerPairs DEF BodyRead, CanRead, Pushing, Shape, TypeOK
<1>5. /\ IsFiniteSet(EventsRead') /\ Cardinality(EventsRead') = Cardinality(EventsRead) + 1
      /\ Cardinality(Pushing') = Cardinality(Pushing) + 1
  BY <1>2, <1>3, <1>4, PushingFinite, FS_AddElement DEF EventInv
<1> QED
  BY <1>1, <1>5, PushingFinite DEF EventInv, EventsAccounted, Pushing

LEMMA PushEvents ==
  ASSUME Shape, EventInv, NEW c \in Conns, Push(c)
  PROVE  EventInv'
<1>1. /\ EventsRead' = EventsRead /\ pushed \in Nat /\ total_queue_drop \in Nat
      /\ \/ pushed' = pushed + 1 /\ UNCHANGED total_queue_drop
         \/ total_queue_drop' = total_queue_drop + 1 /\ UNCHANGED pushed
  BY DEF Push, PushWith, EventsRead, Shape, TypeOK
<1>2. Pushing' = Pushing \ {c} /\ c \in Pushing
  BY HandlerPairs DEF Push, PushWith, Goto, Pushing, Shape, TypeOK
<1>3. Cardinality(Pushing') = Cardinality(Pushing) - 1
  BY <1>2, PushingFinite, FS_RemoveElement
<1> QED
  BY <1>1, <1>3, PushingFinite DEF EventInv, EventsAccounted, Pushing

LEMMA InitEvents == Init => EventInv
<1> SUFFICES ASSUME Init PROVE EventInv
  OBVIOUS
<1>1. \A c \in Conns : 1..got[c] = {}
  BY DEF Init
<1>2. EventsRead = {} /\ Pushing = {}
  BY <1>1, HandlerPairs DEF Init, EventsRead, Pushing
<1> QED
  <2>1. pushed = 0 /\ total_queue_drop = 0
    BY DEF Init
  <2>2. IsFiniteSet(EventsRead) /\ Cardinality(EventsRead) = 0 /\ Cardinality(Pushing) = 0
    BY <1>2, FS_EmptySet
  <2> QED
    BY <2>1, <2>2 DEF EventInv, EventsAccounted, Pushing

LEMMA NextEvents == Shape /\ EventInv /\ [Next]_vars => EventInv'
<1> SUFFICES ASSUME Shape, EventInv, [Next]_vars
             PROVE  EventInv'
  OBVIOUS
<1> USE HandlerPairs
<1>1. ASSUME NEW c \in Conns, Connect(c) \/ Send(c) \/ Disconnect(c) \/ Accepted(c)
      PROVE  EventInv'
  BY <1>1, SameEvents DEF Connect, Send, Disconnect, Accepted, AcceptIf, events
<1>2. CASE Consume \/ stop \/ AcceptFails \/ UNCHANGED vars \/ CheckConnections \/ CreateSession
  BY <1>2, SameEvents
  DEF Consume, stop, AcceptFails, vars, CheckConnections, CheckWith, CreateSession, events
<1>3. CASE start_timeout \/ StartRead
  <2>1. accepting \in Conns /\ pc[<<accepting, "read">>] = "none"
    BY <1>3 DEF start_timeout, StartRead, Shape, TypeOK, AcceptShape
  <2>2. \A c \in Conns : pc'[<<c, "read">>] = "push" <=> pc[<<c, "read">>] = "push"
    BY <1>3, <2>1 DEF start_timeout, StartRead, Goto, Shape, TypeOK
  <2> QED
    BY <1>3, <2>2, SameEvents DEF start_timeout, StartRead, events
<1>4. ASSUME NEW c \in Conns,
             HeaderRead(c) \/ InvalidLength(c) \/ ReadFails(c) \/ Expire(c) \/ on_timeout(c)
      PROVE  EventInv'
  <2>1. UNCHANGED events
    BY <1>4
    DEF HeaderRead, InvalidLength, BadLength, ReadFails, ReadError, Expire, on_timeout
  <2>2. \A d \in Conns : pc'[<<d, "read">>] = "push" <=> pc[<<d, "read">>] = "push"
    BY <1>4
    DEF HeaderRead, InvalidLength, BadLength, ReadFails, ReadError, Reading, CanRead, Expire,
        on_timeout, Goto, Shape, TypeOK
  <2> QED
    BY <2>1, <2>2, SameEvents DEF events
<1>5. ASSUME NEW h \in Handlers, Cleanup(h)
      PROVE  EventInv'
  <2>1. \A d \in Conns : pc'[<<d, "read">>] = "push" <=> pc[<<d, "read">>] = "push"
    BY <1>5 DEF Cleanup, cleanup, CleanupWith, FetchSub, Goto, Shape, TypeOK
  <2> QED
    BY <1>5, <2>1, SameEvents DEF Cleanup, cleanup, CleanupWith, FetchSub, events
<1> QED
  BY <1>1, <1>2, <1>3, <1>4, <1>5, BodyReadEvents, PushEvents
  DEF Next, AcceptHandler, ReadHandler

LEMMA CountsHold == Spec => [](CountInv /\ EventInv)
BY InitShape, NextShape, InitCount, NextCount, InitEvents, NextEvents, PTL DEF Spec

-----------------------------------------------------------------------------
(***************************************************************************)
(* The variables of the accept chain and of the sessions keep their types, *)
(* and the queue stays within its capacity.                                *)
(***************************************************************************)
THEOREM TypeCorrect == Spec => []TypeOK
<1>1. Shape => TypeOK
  BY DEF Shape
<1> QED
  BY <1>1, ShapeHolds, PTL

(***************************************************************************)
(* active_count_ is exact: cleanup subtracts each session once, whichever  *)
(* of its two handlers comes first, for any number of sessions.            *)
(***************************************************************************)
THEOREM CountIsExact == Spec => []ActiveCountExact
<1>1. CountInv => ActiveCountExact
  BY DEF CountInv
<1> QED
  BY <1>1, CountsHold, PTL

(***************************************************************************)
(* There are never more sessions than MAX_CONNECTIONS, although the accept *)
(* handler tests and adds in two steps.                                    *)
(***************************************************************************)
THEOREM LimitRespected == Spec => []WithinMaxConnections
<1>1. CountInv => WithinMaxConnections
  BY DEF CountInv
<1> QED
  BY <1>1, CountsHold, PTL

(***************************************************************************)
(* No slot leaks: a session that nothing refers to has been cleaned up.    *)
(***************************************************************************)
THEOREM NoSlotLeaks == Spec => []ReleasedIsCleanedUp
<1>1. Shape => ReleasedIsCleanedUp
  <2> SUFFICES ASSUME Shape, NEW c \in created, ~Alive(c)
               PROVE  c \in cleaned_up_
    BY DEF ReleasedIsCleanedUp
  <2>1. c \in Conns /\ c # accepting /\ pc[<<c, "read">>] \in {"none", "done"}
    BY DEF Alive, Chains, Shape, TypeOK
  <2> QED
    BY <2>1 DEF Shape, SessionShape
<1> QED
  BY <1>1, ShapeHolds, PTL

(***************************************************************************)
(* Each event read from a socket was queued or counted in total_queue_drop.*)
(***************************************************************************)
THEOREM NoEventUncounted == Spec => []EventsAccounted
<1>1. EventInv => EventsAccounted
  BY DEF EventInv
<1> QED
  BY <1>1, CountsHold, PTL
==============================================================================
