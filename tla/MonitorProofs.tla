---------------------------- MODULE MonitorProofs ----------------------------
(***************************************************************************)
(* Proofs about Monitor for any number of events, of events in hand and of *)
(* scrapers: what a torn response of /metrics still guarantees.            *)
(***************************************************************************)
EXTENDS Monitor, FiniteSetTheorems, TLAPS

(* The events at stage s. *)
AtStage(s) == {e \in Events : stage[e] = s}

ServiceTyped ==
  /\ stage \in [Events -> L!Stages]
  /\ count \in [L!Counted -> Nat]

(***************************************************************************)
(* The counters of the service explain each other at every moment, up to   *)
(* the events in hand.                                                     *)
(***************************************************************************)
Balanced ==
  /\ count["received"] = count["parsed"] + count["parse_fail"] + Cardinality(AtStage("received"))
  /\ count["parsed"] = count["valid"] + count["invalid"] + Cardinality(AtStage("parsed"))
  /\ Cardinality(L!Busy) <= MaxBusy

(* Counter x, the i-th to be loaded: as loaded for c, or its present value. *)
Now(c, i) == IF i <= Len(seen[c]) THEN seen[c][i] ELSE count[Loads[i]]

(***************************************************************************)
(* NoPhantomBacklog for a response that is still being put together: what  *)
(* is not loaded yet can only be larger when it is.                        *)
(***************************************************************************)
PartialResponse ==
  \A c \in Conns :
    /\ 1 <= Len(seen[c]) => seen[c][1] <= Now(c, 2) + Now(c, 5) + MaxBusy
    /\ 2 <= Len(seen[c]) => seen[c][2] <= Now(c, 3) + Now(c, 4) + MaxBusy

SeenTyped == seen \in [Conns -> Seq(Nat)] /\ \A c \in Conns : Len(seen[c]) <= 6

Inv == ServiceTyped /\ Balanced /\ SeenTyped /\ PartialResponse

-----------------------------------------------------------------------------
(* The instance counts as this module does. *)
LEMMA SameCardinality == \A S : L!Cardinality(S) = Cardinality(S)
BY DEF L!Cardinality, Cardinality

LEMMA LoadOrder ==
  /\ Loads \in Seq(L!Counted) /\ Len(Loads) = 6
  /\ Loads[1] = "received" /\ Loads[2] = "parsed" /\ Loads[3] = "valid"
  /\ Loads[4] = "invalid" /\ Loads[5] = "parse_fail" /\ Loads[6] = "rate_limited"
BY DEF Loads, L!Counted

LEMMA StagesFinite ==
  ASSUME NEW s
  PROVE  IsFiniteSet(AtStage(s)) /\ Cardinality(AtStage(s)) \in Nat
<1>1. AtStage(s) \in SUBSET Events
  BY DEF AtStage
<1> QED
  BY <1>1, MonitorAssumption, FS_Subset, FS_CardinalityType

LEMMA BusyFinite == IsFiniteSet(L!Busy) /\ Cardinality(L!Busy) \in Nat
<1>1. L!Busy \in SUBSET Events
  BY DEF L!Busy
<1> QED
  BY <1>1, MonitorAssumption, FS_Subset, FS_CardinalityType

(* The ways an event can move. *)
LEMMA Moves ==
  ASSUME NEW e \in Events, NEW s \in L!Stages, stage[e] \in L!Stages, L!Move(e, s)
  PROVE  \/ stage[e] = "new" /\ s = "queued"
         \/ stage[e] = "queued" /\ s = "taken"
         \/ stage[e] = "taken" /\ s = "received"
         \/ stage[e] = "received" /\ s \in {"parsed", "parse_fail"}
         \/ stage[e] = "parsed" /\ s \in {"valid", "invalid"}
         \/ stage[e] = "valid" /\ s \in {"rate_limited", "sunk"}
BY DEF L!Move, L!After, L!Stages, L!Counted

(* A move changes the number of events at the two stages and at no other. *)
LEMMA MoveCounts ==
  ASSUME ServiceTyped, NEW e \in Events, NEW s \in L!Stages, L!Move(e, s), NEW x
  PROVE  Cardinality(AtStage(x)') =
           Cardinality(AtStage(x)) + (IF x = s THEN 1 ELSE 0) - (IF x = stage[e] THEN 1 ELSE 0)
<1>1. stage[e] # s
  BY Moves DEF ServiceTyped
<1>2. IsFiniteSet(AtStage(x)) /\ Cardinality(AtStage(x)) \in Nat
  BY StagesFinite
<1>3. CASE x = s
  <2>1. AtStage(x)' = AtStage(x) \cup {e} /\ e \notin AtStage(x)
    BY <1>1, <1>3 DEF AtStage, L!Move, ServiceTyped
  <2>2. Cardinality(AtStage(x) \cup {e}) = Cardinality(AtStage(x)) + 1
    BY <1>2, <2>1, FS_AddElement
  <2> QED
    BY <1>1, <1>2, <1>3, <2>1, <2>2
<1>4. CASE x = stage[e]
  <2>1. AtStage(x)' = AtStage(x) \ {e} /\ e \in AtStage(x)
    BY <1>1, <1>4 DEF AtStage, L!Move, ServiceTyped
  <2>2. Cardinality(AtStage(x) \ {e}) = Cardinality(AtStage(x)) - 1
    BY ONLY <1>2, <2>1, FS_RemoveElement
  <2>3. x # s
    BY <1>1, <1>4
  <2> QED
    BY <1>2, <1>4, <2>1, <2>2, <2>3
<1>5. CASE x # s /\ x # stage[e]
  <2>1. AtStage(x)' = AtStage(x)
    BY <1>5 DEF AtStage, L!Move, ServiceTyped
  <2> QED
    BY <1>2, <1>5, <2>1
<1> QED
  BY <1>3, <1>4, <1>5

(* The counters never decrease, and the service stays balanced. *)
LEMMA ServiceStep ==
  ASSUME ServiceTyped, Balanced, L!Next
  PROVE  /\ ServiceTyped' /\ Balanced'
         /\ \A x \in L!Counted : count[x] <= count'[x]
<1>1. PICK e \in Events, s \in L!Stages : L!Move(e, s)
  BY DEF L!Next
<1>2. /\ stage[e] \in L!Stages
      /\ stage' = [stage EXCEPT ![e] = s]
      /\ count' = [c \in L!Counted |-> count[c] + (IF c = s THEN 1 ELSE 0)]
      /\ s = "taken" => Cardinality(L!Busy) < MaxBusy
  <2>1. stage[e] \in L!Stages
    BY DEF ServiceTyped
  <2>2. stage' = [stage EXCEPT ![e] = s]
    BY <1>1 DEF L!Move
  <2>3. count' = [c \in L!Counted |-> count[c] + (IF c = s THEN 1 ELSE 0)]
    BY <1>1 DEF L!Move
  <2>4. s = "taken" => Cardinality(L!Busy) < MaxBusy
    BY <1>1, SameCardinality DEF L!Move
  <2> QED
    BY <2>1, <2>2, <2>3, <2>4
<1>3. ServiceTyped' /\ \A x \in L!Counted : count[x] <= count'[x]
  BY <1>2 DEF ServiceTyped
<1>4. \A x \in {"received", "parsed", "parse_fail", "valid", "invalid"} :
        count[x] \in Nat /\ count'[x] = count[x] + (IF x = s THEN 1 ELSE 0)
  BY <1>2 DEF ServiceTyped, L!Counted
<1>5. \A x \in {"received", "parsed"} :
        /\ Cardinality(AtStage(x)) \in Nat
        /\ Cardinality(AtStage(x)') =
             Cardinality(AtStage(x)) + (IF x = s THEN 1 ELSE 0) - (IF x = stage[e] THEN 1 ELSE 0)
  BY <1>1, MoveCounts, StagesFinite
<1>6. \/ stage[e] = "new" /\ s = "queued"
      \/ stage[e] = "queued" /\ s = "taken"
      \/ stage[e] = "taken" /\ s = "received"
      \/ stage[e] = "received" /\ s \in {"parsed", "parse_fail"}
      \/ stage[e] = "parsed" /\ s \in {"valid", "invalid"}
      \/ stage[e] = "valid" /\ s \in {"rate_limited", "sunk"}
  BY <1>1, <1>2, Moves
<1>7. count'["received"] = count'["parsed"] + count'["parse_fail"] + Cardinality(AtStage("received")')
  BY <1>4, <1>5, <1>6 DEF Balanced
<1>8. count'["parsed"] = count'["valid"] + count'["invalid"] + Cardinality(AtStage("parsed")')
  BY <1>4, <1>5, <1>6 DEF Balanced
<1>9. Cardinality(L!Busy') <= MaxBusy
  <2>1. IsFiniteSet(L!Busy) /\ Cardinality(L!Busy) \in Nat /\ Cardinality(L!Busy) <= MaxBusy
    BY BusyFinite DEF Balanced
  <2>2. CASE s = "taken"
    <3>1. L!Busy' = L!Busy \cup {e}
      BY <1>2, <2>2 DEF L!Busy, ServiceTyped
    <3>0. e \notin L!Busy
      BY <1>6, <2>2 DEF L!Busy
    <3>2. Cardinality(L!Busy \cup {e}) = Cardinality(L!Busy) + 1
      BY <2>1, <3>0, FS_AddElement
    <3>3. Cardinality(L!Busy) < MaxBusy
      BY <1>2, <2>2
    <3> QED
      BY <2>1, <3>1, <3>2, <3>3, MonitorAssumption
  <2>3. CASE s # "taken"
    <3>1. L!Busy' \in SUBSET L!Busy
      BY <1>2, <1>6, <2>3 DEF L!Busy, ServiceTyped
    <3>2. Cardinality(L!Busy') \in Nat /\ Cardinality(L!Busy') <= Cardinality(L!Busy)
      BY <2>1, <3>1, FS_Subset, FS_CardinalityType
    <3> QED
      BY <2>1, <3>2, MonitorAssumption
  <2> QED
    BY <2>2, <2>3
<1> QED
  BY <1>3, <1>7, <1>8, <1>9 DEF Balanced

(* No counter is ahead of the next stage by more than the events in hand. *)
LEMMA Backlog ==
  ASSUME ServiceTyped, Balanced
  PROVE  /\ count["received"] <= count["parsed"] + count["parse_fail"] + MaxBusy
         /\ count["parsed"] <= count["valid"] + count["invalid"] + MaxBusy
<1>1. \A x \in {"received", "parsed"} :
        Cardinality(AtStage(x)) \in Nat /\ Cardinality(AtStage(x)) <= Cardinality(L!Busy)
  <2>1. \A x \in {"received", "parsed"} : AtStage(x) \in SUBSET L!Busy
    BY DEF AtStage, L!Busy
  <2> QED
    BY <2>1, BusyFinite, StagesFinite, FS_Subset
<1>2. \A x \in {"received", "parsed", "parse_fail", "valid", "invalid"} : count[x] \in Nat
  BY DEF ServiceTyped, L!Counted
<1> QED
  BY <1>1, <1>2, BusyFinite, MonitorAssumption DEF Balanced

-----------------------------------------------------------------------------
LEMMA InitInv == Init => Inv
<1> SUFFICES ASSUME Init PROVE Inv
  OBVIOUS
<1>1. ServiceTyped
  BY DEF Init, L!Init, ServiceTyped, L!Stages, L!Counted
<1>2. AtStage("received") = {} /\ AtStage("parsed") = {} /\ L!Busy = {}
  BY DEF Init, L!Init, AtStage, L!Busy
<1>3. Balanced
  <2>1. \A x \in {"received", "parsed", "parse_fail", "valid", "invalid"} : count[x] = 0
    BY DEF Init, L!Init, L!Counted
  <2> QED
    BY <1>2, <2>1, FS_EmptySet, MonitorAssumption DEF Balanced
<1>4. SeenTyped /\ PartialResponse
  BY DEF Init, SeenTyped, PartialResponse
<1> QED
  BY <1>1, <1>3, <1>4 DEF Inv

(* The present value of a counter, or the one loaded, is a number. *)
LEMMA NowTyped ==
  ASSUME ServiceTyped, SeenTyped, NEW c \in Conns, NEW i \in 1..6
  PROVE  Now(c, i) \in Nat
<1>1. Loads[i] \in L!Counted
  BY LoadOrder DEF L!Counted
<1> QED
  BY <1>1 DEF Now, ServiceTyped, SeenTyped

LEMMA NextInv == Inv /\ [Next]_vars => Inv'
<1> SUFFICES ASSUME Inv, [Next]_vars
             PROVE  Inv'
  OBVIOUS
<1>0. \A c \in Conns, i \in 1..6 : Now(c, i) \in Nat
  BY NowTyped DEF Inv
<1>1. CASE Service
  <2>1. ServiceTyped' /\ Balanced' /\ \A x \in L!Counted : count[x] <= count'[x]
    BY <1>1, ServiceStep DEF Service, Inv
  <2>2. UNCHANGED seen
    BY <1>1 DEF Service
  <2>3. SeenTyped'
    BY <2>2 DEF Inv, SeenTyped
  <2>4. \A c \in Conns, i \in 1..6 : Now(c, i) <= Now(c, i)' /\ Now(c, i)' \in Nat
    <3> SUFFICES ASSUME NEW c \in Conns, NEW i \in 1..6
                 PROVE  Now(c, i) <= Now(c, i)' /\ Now(c, i)' \in Nat
      OBVIOUS
    <3>1. Loads[i] \in L!Counted
      BY LoadOrder DEF L!Counted
    <3>2. count[Loads[i]] <= count'[Loads[i]] /\ count'[Loads[i]] \in Nat
      BY <2>1, <3>1 DEF ServiceTyped
    <3>3. UNCHANGED Loads
      BY DEF Loads
    <3> QED
      BY <1>0, <2>2, <3>2, <3>3 DEF Now
  <2>5. PartialResponse'
    <3> SUFFICES ASSUME NEW c \in Conns
                 PROVE  /\ 1 <= Len(seen[c]) => seen[c][1] <= Now(c, 2)' + Now(c, 5)' + MaxBusy
                        /\ 2 <= Len(seen[c]) => seen[c][2] <= Now(c, 3)' + Now(c, 4)' + MaxBusy
      BY <2>2 DEF PartialResponse
    <3>1. /\ Now(c, 2) <= Now(c, 2)' /\ Now(c, 5) <= Now(c, 5)'
          /\ Now(c, 3) <= Now(c, 3)' /\ Now(c, 4) <= Now(c, 4)'
          /\ Now(c, 2)' \in Nat /\ Now(c, 3)' \in Nat /\ Now(c, 4)' \in Nat /\ Now(c, 5)' \in Nat
          /\ Now(c, 2) \in Nat /\ Now(c, 3) \in Nat /\ Now(c, 4) \in Nat /\ Now(c, 5) \in Nat
      BY <1>0, <2>4
    <3>2. /\ 1 <= Len(seen[c]) => seen[c][1] \in Nat /\ seen[c][1] <= Now(c, 2) + Now(c, 5) + MaxBusy
          /\ 2 <= Len(seen[c]) => seen[c][2] \in Nat /\ seen[c][2] <= Now(c, 3) + Now(c, 4) + MaxBusy
      BY DEF Inv, SeenTyped, PartialResponse
    <3>3. \A v, a, b, x, y, m \in Nat : v <= a + b + m /\ a <= x /\ b <= y => v <= x + y + m
      OBVIOUS
    <3>4. ASSUME 1 <= Len(seen[c])
          PROVE  seen[c][1] <= Now(c, 2)' + Now(c, 5)' + MaxBusy
      BY <3>1, <3>2, <3>3, <3>4, MonitorAssumption, Zenon
    <3>5. ASSUME 2 <= Len(seen[c])
          PROVE  seen[c][2] <= Now(c, 3)' + Now(c, 4)' + MaxBusy
      BY <3>1, <3>2, <3>3, <3>5, MonitorAssumption, Zenon
    <3> QED
      BY <3>4, <3>5
  <2> QED
    BY <2>1, <2>3, <2>5 DEF Inv
<1>2. ASSUME UNCHANGED service, NEW c \in Conns, SeenTyped',
             \A d \in Conns \ {c} : seen'[d] = seen[d],
             /\ 1 <= Len(seen'[c]) => seen'[c][1] <= Now(c, 2)' + Now(c, 5)' + MaxBusy
             /\ 2 <= Len(seen'[c]) => seen'[c][2] <= Now(c, 3)' + Now(c, 4)' + MaxBusy
      PROVE  Inv'
  <2>1. ServiceTyped' /\ Balanced'
    BY <1>2 DEF service, Inv, ServiceTyped, Balanced, AtStage, L!Busy
  <2>2. \A d \in Conns \ {c}, i \in 1..6 : Now(d, i)' = Now(d, i)
    BY <1>2 DEF Now, service, Loads
  <2>3. PartialResponse'
    BY <1>2, <2>2 DEF PartialResponse, Inv
  <2> QED
    BY <1>2, <2>1, <2>3 DEF Inv
<1>3. ASSUME NEW c \in Conns, Load(c)
      PROVE  Inv'
  <2>1. PICK n \in 1..6 :
          /\ n = Len(seen[c]) + 1
          /\ seen' = [seen EXCEPT ![c] = Append(seen[c], count[Loads[n]])]
          /\ UNCHANGED service
    <3>1. Len(seen[c]) + 1 \in 1..6
      BY <1>3, LoadOrder DEF Load, Inv, SeenTyped
    <3> QED
      BY <1>3, <3>1 DEF Load
  <2>2. seen[c] \in Seq(Nat) /\ count[Loads[n]] \in Nat
    <3>1. seen[c] \in Seq(Nat)
      BY DEF Inv, SeenTyped
    <3>2. Loads[n] \in L!Counted
      <4>1. n \in {1, 2, 3, 4, 5, 6}
        OBVIOUS
      <4> QED
        BY ONLY <4>1, LoadOrder DEF L!Counted
    <3>3. count[Loads[n]] \in Nat
      BY <3>2 DEF Inv, ServiceTyped
    <3> QED
      BY <3>1, <3>3
  <2>3. /\ seen'[c] \in Seq(Nat) /\ Len(seen'[c]) = n
        /\ seen'[c][n] = count[Loads[n]]
        /\ \A i \in 1..(n - 1) : seen'[c][i] = seen[c][i]
    BY <2>1, <2>2 DEF Inv, SeenTyped
  <2>4. \A i \in 1..6 : Now(c, i)' = Now(c, i)
    BY <2>1, <2>3 DEF Now, service, Loads
  <2>5. SeenTyped'
    BY <2>1, <2>3 DEF Inv, SeenTyped
  <2>6. seen'[c][1] <= Now(c, 2)' + Now(c, 5)' + MaxBusy
    <3>1. CASE n = 1
      <4>1. Now(c, 2) = count["parsed"] /\ Now(c, 5) = count["parse_fail"]
        BY <2>1, <3>1, LoadOrder DEF Now
      <4> QED
        BY <2>3, <2>4, <3>1, <4>1, LoadOrder, Backlog DEF Inv
    <3>2. CASE n # 1
      BY <2>1, <2>3, <2>4, <3>2 DEF Inv, PartialResponse
    <3> QED
      BY <3>1, <3>2
  <2>7. 2 <= n => seen'[c][2] <= Now(c, 3)' + Now(c, 4)' + MaxBusy
    <3>1. CASE n = 2
      <4>1. Now(c, 3) = count["valid"] /\ Now(c, 4) = count["invalid"]
        BY <2>1, <3>1, LoadOrder DEF Now
      <4> QED
        BY <2>3, <2>4, <3>1, <4>1, LoadOrder, Backlog DEF Inv
    <3>2. CASE n > 2
      BY <2>1, <2>3, <2>4, <3>2 DEF Inv, PartialResponse
    <3> QED
      BY <3>1, <3>2
  <2>8. \A d \in Conns \ {c} : seen'[d] = seen[d]
    BY <2>1 DEF Inv, SeenTyped
  <2> QED
    BY <1>2, <2>1, <2>3, <2>5, <2>6, <2>7, <2>8
<1>4. ASSUME NEW c \in Conns, Write(c)
      PROVE  Inv'
  <2>1. /\ seen' = [seen EXCEPT ![c] = <<>>] /\ UNCHANGED service
    BY <1>4 DEF Write
  <2>2. seen'[c] = <<>> /\ SeenTyped' /\ \A d \in Conns \ {c} : seen'[d] = seen[d]
    BY <2>1 DEF Inv, SeenTyped
  <2> QED
    BY <1>2, <2>1, <2>2
<1>5. ASSUME UNCHANGED <<service, seen>>
      PROVE  Inv'
  <2>1. \A d \in Conns, i \in 1..6 : Now(d, i)' = Now(d, i)
    BY <1>5 DEF Now, service, Loads
  <2> QED
    BY <1>5, <2>1
    DEF service, Inv, ServiceTyped, Balanced, AtStage, L!Busy, SeenTyped, PartialResponse
<1>6. ASSUME NEW c \in Conns,
             Connect(c) \/ Request(c) \/ Hangup(c) \/ Accepted(c) \/ ReadSome(c) \/ ReadFails(c)
      PROVE  Inv'
  BY <1>5, <1>6 DEF Connect, Request, Hangup, Accepted, AcceptIf, ReadSome, ReadFails
<1>7. CASE AcceptFails \/ UNCHANGED vars
  BY <1>5, <1>7 DEF AcceptFails, vars
<1> QED
  BY <1>1, <1>3, <1>4, <1>6, <1>7 DEF Next, Handler

LEMMA InvHolds == Spec => []Inv
BY InitInv, NextInv, PTL DEF Spec

-----------------------------------------------------------------------------
(* Where Loaded finds the values that NoPhantomBacklog compares. *)
LEMMA LoadedAt ==
  ASSUME NEW c \in Conns, NEW k \in 1..6
  PROVE  Loaded(c, Loads[k]) = seen[c][k]
<1>1. \A i \in 1..6 : Loads[i] = Loads[k] => i = k
  BY DEF Loads
<1> QED
  BY <1>1, LoadOrder DEF Loaded

(***************************************************************************)
(* A response of /metrics never shows a backlog that the service did not   *)
(* have, because build_prometheus_text loads every counter before the ones *)
(* downstream of it.                                                       *)
(***************************************************************************)
THEOREM BacklogIsReal == Spec => []NoPhantomBacklog
<1>1. Inv => NoPhantomBacklog
  <2> SUFFICES ASSUME Inv, NEW c \in Conns, Len(seen[c]) = 6
               PROVE  /\ Loaded(c, "received") <= Loaded(c, "parsed") + Loaded(c, "parse_fail") + MaxBusy
                      /\ Loaded(c, "parsed") <= Loaded(c, "valid") + Loaded(c, "invalid") + MaxBusy
    BY LoadOrder DEF NoPhantomBacklog
  <2>1. /\ Loaded(c, "received") = seen[c][1] /\ Loaded(c, "parsed") = seen[c][2]
        /\ Loaded(c, "valid") = seen[c][3] /\ Loaded(c, "invalid") = seen[c][4]
        /\ Loaded(c, "parse_fail") = seen[c][5]
    BY LoadedAt, LoadOrder
  <2> QED
    BY <2>1 DEF Inv, PartialResponse, Now
<1> QED
  BY <1>1, InvHolds, PTL

(***************************************************************************)
(* At no moment is a counter of the service ahead of the next ones by more *)
(* than the events in hand, and never are more than MaxBusy in hand.       *)
(***************************************************************************)
THEOREM CountersBalanced == Spec => []Balanced
<1>1. Inv => Balanced
  BY DEF Inv
<1> QED
  BY <1>1, InvHolds, PTL
==============================================================================
