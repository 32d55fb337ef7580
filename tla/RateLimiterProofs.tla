-------------------------- MODULE RateLimiterProofs --------------------------
(***************************************************************************)
(* Proofs about RateLimiter for every limit and window and any number of   *)
(* workers and users.                                                      *)
(***************************************************************************)
EXTENDS RateLimiter, TLAPS

TypeOK ==
  /\ cnt \in [Users -> 0..MaxCount]
  /\ ttl \in [Users -> 0..WINDOW_SECS]
  /\ hung \in BOOLEAN
  /\ conn \in Workers \cup {NoOne}
  /\ pc \in [Workers -> {"idle", "acquire", "sent", "replied"}]
  /\ user \in [Workers -> Users \cup {NoOne}]
  /\ reply \in [Workers -> 0..MaxCount]
  /\ verdict \in [Workers -> {"none", "pass", "refuse"}]
  /\ recent \in [Users -> [Window -> Nat]]
  /\ used \in [Workers -> Nat]
  /\ \A w \in Workers : pc[w] # "idle" => user[w] \in Users /\ verdict[w] = "none"

(* What was admitted since i ticks ago grows with i. *)
Cumulative ==
  \A u \in Users : \A i, j \in Window : i <= j => recent[u][i] <= recent[u][j]

(* The events that the present key of u has admitted. *)
OfThisKey(u) == recent[u][WINDOW_SECS - ttl[u]]

(***************************************************************************)
(* Why twice the limit is the bound: a key that exists expires, and has    *)
(* admitted as many events since it was made as it counts, up to the       *)
(* limit; whatever else was admitted over the last WINDOW_SECS was         *)
(* admitted by one earlier key.  Without a key nothing has been admitted   *)
(* in this tick.                                                           *)
(***************************************************************************)
TwoKeys ==
  \A u \in Users :
    /\ cnt[u] = 0 => ttl[u] = 0 /\ recent[u][0] = 0 /\ Admitted(u) <= limit_per_min_
    /\ cnt[u] > 0 =>
         /\ ttl[u] > 0
         /\ OfThisKey(u) = IF cnt[u] < limit_per_min_ THEN cnt[u] ELSE limit_per_min_
         /\ Admitted(u) <= OfThisKey(u) + limit_per_min_

(* A count over the limit comes from a user who had used up the limit. *)
CountsExplained ==
  \A w \in Workers :
    /\ pc[w] = "replied" /\ reply[w] > limit_per_min_ => used[w] >= limit_per_min_
    /\ verdict[w] = "refuse" => used[w] >= limit_per_min_

Inv == TypeOK /\ Cumulative /\ TwoKeys /\ CountsExplained

-----------------------------------------------------------------------------
LEMMA WindowEnds == 0 \in Window /\ WINDOW_SECS - 1 \in Window
BY RateLimiterAssumption DEF Window

LEMMA InitInv == Init => Inv
<1> SUFFICES ASSUME Init PROVE Inv
  OBVIOUS
<1>1. TypeOK /\ Cumulative
  <2>1. recent \in [Users -> [Window -> Nat]] /\ Cumulative
    BY DEF Init, Cumulative
  <2>2. cnt \in [Users -> 0..MaxCount] /\ ttl \in [Users -> 0..WINDOW_SECS]
        /\ reply \in [Workers -> 0..MaxCount] /\ used \in [Workers -> Nat]
    BY RateLimiterAssumption DEF Init
  <2> QED
    BY <2>1, <2>2 DEF Init, TypeOK
<1>2. TwoKeys
  BY WindowEnds, RateLimiterAssumption DEF Init, TwoKeys, Admitted
<1>3. CountsExplained
  BY DEF Init, CountsExplained
<1> QED
  BY <1>1, <1>2, <1>3 DEF Inv

(* A step that leaves Redis and the history of admissions alone. *)
LEMMA SameWindow ==
  ASSUME Cumulative, TwoKeys, UNCHANGED <<cnt, ttl, recent>>
  PROVE  Cumulative' /\ TwoKeys'
BY DEF Cumulative, TwoKeys, OfThisKey, Admitted

(* The step in which Redis runs the script. *)
LEMMA EvalInv ==
  ASSUME Inv, NEW w \in Workers, Eval(w)
  PROVE  Inv'
<1>u. PICK u \in Users : u = user[w]
  BY DEF Inv, TypeOK, Eval
<1> DEFINE n == IF cnt[u] < MaxCount THEN cnt[u] + 1 ELSE MaxCount
           one == IF n <= limit_per_min_ THEN 1 ELSE 0
<1>1. n \in 1..MaxCount /\ one \in {0, 1} /\ verdict[w] = "none"
  BY <1>u, RateLimiterAssumption DEF Inv, TypeOK, Eval
<1>2. /\ cnt' = [cnt EXCEPT ![u] = n]
      /\ ttl' = IF n = 1 THEN [ttl EXCEPT ![u] = WINDOW_SECS] ELSE ttl
      /\ reply' = [reply EXCEPT ![w] = n]
      /\ used' = [used EXCEPT ![w] = Admitted(u)]
      /\ recent' = [recent EXCEPT ![u] = [i \in Window |-> recent[u][i] + one]]
  BY <1>u, <1>1 DEF Eval, Script, ScriptOn, WithinLimit, Inv, TypeOK
<1>0. /\ n = IF cnt[u] < MaxCount THEN cnt[u] + 1 ELSE MaxCount
      /\ one = IF n <= limit_per_min_ THEN 1 ELSE 0
      /\ pc[w] = "sent"
  BY DEF Eval
<1> HIDE DEF n, one
<1>3. \A i \in Window : recent'[u][i] = recent[u][i] + one /\ recent[u][i] \in Nat
  BY <1>1, <1>2 DEF Inv, TypeOK
<1>4. recent' \in [Users -> [Window -> Nat]] /\ \A v \in Users \ {u} : recent'[v] = recent[v]
  BY <1>1, <1>2, <1>3 DEF Inv, TypeOK
<1>5. TypeOK'
  <2>1. /\ cnt' \in [Users -> 0..MaxCount] /\ ttl' \in [Users -> 0..WINDOW_SECS]
        /\ reply' \in [Workers -> 0..MaxCount]
    BY <1>1, <1>2, RateLimiterAssumption DEF Inv, TypeOK
  <2>2. used' \in [Workers -> Nat]
    BY <1>1, <1>2, WindowEnds DEF Inv, TypeOK, Admitted
  <2> QED
    <3>1. TypeOK /\ pc' = [pc EXCEPT ![w] = "replied"] /\ UNCHANGED <<hung, conn, user, verdict>>
      BY DEF Inv, Eval, Goto
    <3>2. pc' \in [Workers -> {"idle", "acquire", "sent", "replied"}]
      BY <3>1 DEF TypeOK
    <3>3. \A v \in Workers : pc'[v] # "idle" => user'[v] \in Users /\ verdict'[v] = "none"
      BY <1>0, <3>1 DEF TypeOK
    <3> QED
      BY <1>4, <2>1, <2>2, <3>1, <3>2, <3>3 DEF TypeOK
<1>6. Cumulative'
  BY <1>1, <1>3, <1>4 DEF Inv, Cumulative
<1>7. TwoKeys'
  <2> SUFFICES ASSUME NEW v \in Users
               PROVE  /\ cnt'[v] > 0
                      /\ ttl'[v] > 0
                      /\ OfThisKey(v)' = IF cnt'[v] < limit_per_min_ THEN cnt'[v]
                                                                     ELSE limit_per_min_
                      /\ Admitted(v)' <= OfThisKey(v)' + limit_per_min_
                      \/ v # u
    BY <1>1, <1>2, <1>4 DEF Inv, TypeOK, TwoKeys, OfThisKey, Admitted
  <2>1. ASSUME v = u
        PROVE  /\ cnt'[v] > 0
               /\ ttl'[v] > 0
               /\ OfThisKey(v)' = IF cnt'[v] < limit_per_min_ THEN cnt'[v] ELSE limit_per_min_
               /\ Admitted(v)' <= OfThisKey(v)' + limit_per_min_
    <3>1. cnt'[u] = n /\ Admitted(u)' = Admitted(u) + one /\ Admitted(u) \in Nat
      BY <1>0, <1>1, <1>2, <1>3, WindowEnds DEF Inv, TypeOK, Admitted
    <3>2. CASE cnt[u] = 0
      <4>1. n = 1 /\ ttl'[u] = WINDOW_SECS /\ recent[u][0] = 0 /\ Admitted(u) <= limit_per_min_
        BY <1>0, <1>1, <1>2, <3>2, RateLimiterAssumption DEF Inv, TypeOK, TwoKeys
      <4>2. OfThisKey(u)' = one
        <5>1. WINDOW_SECS - ttl'[u] = 0
          BY <4>1, RateLimiterAssumption
        <5>2. recent'[u][0] = one
          BY <1>1, <1>3, <4>1, WindowEnds
        <5> QED
          BY <5>1, <5>2 DEF OfThisKey
      <4> QED
        BY <1>0, <1>1, <2>1, <3>1, <4>1, <4>2, RateLimiterAssumption
    <3>3. CASE cnt[u] > 0
      <4>1. n # 1 /\ ttl'[u] = ttl[u] /\ ttl[u] \in 1..WINDOW_SECS
        BY <1>0, <1>1, <1>2, <3>3, RateLimiterAssumption DEF Inv, TypeOK, TwoKeys
      <4>2. WINDOW_SECS - ttl[u] \in Window
        BY <4>1, RateLimiterAssumption DEF Window
      <4>3. OfThisKey(u)' = OfThisKey(u) + one /\ OfThisKey(u) \in Nat
        BY <1>0, <1>1, <1>3, <4>1, <4>2 DEF OfThisKey
      <4>4. /\ OfThisKey(u) = IF cnt[u] < limit_per_min_ THEN cnt[u] ELSE limit_per_min_
            /\ Admitted(u) <= OfThisKey(u) + limit_per_min_
            /\ cnt[u] \in 1..MaxCount
        BY <1>0, <1>1, <3>3 DEF Inv, TypeOK, TwoKeys
      <4> QED
        BY <1>0, <1>1, <2>1, <3>1, <4>1, <4>3, <4>4, RateLimiterAssumption
    <3> QED
      BY <1>0, <1>1, <3>2, <3>3 DEF Inv, TypeOK
  <2> QED
    BY <2>1
<1>8. CountsExplained'
  <2>1. n > limit_per_min_ => Admitted(u) >= limit_per_min_
    <3> SUFFICES ASSUME n > limit_per_min_ PROVE Admitted(u) >= limit_per_min_
      OBVIOUS
    <3>1. Admitted(u) \in Nat /\ cnt[u] \in 0..MaxCount
      BY <1>0, <1>1, WindowEnds DEF Inv, TypeOK, Admitted
    <3>2. CASE cnt[u] = 0
      BY <1>0, <1>1, <3>1, <3>2, RateLimiterAssumption
    <3>3. CASE cnt[u] > 0
      <4>1. OfThisKey(u) = limit_per_min_ /\ ttl[u] \in 1..WINDOW_SECS
        BY <1>0, <1>1, <3>1, <3>3, RateLimiterAssumption DEF Inv, TypeOK, TwoKeys
      <4>2. WINDOW_SECS - ttl[u] \in Window /\ WINDOW_SECS - ttl[u] <= WINDOW_SECS - 1
        BY <4>1, RateLimiterAssumption DEF Window
      <4> QED
        BY <1>0, <1>1, <3>1, <4>1, <4>2, WindowEnds, RateLimiterAssumption
        DEF Inv, TypeOK, Cumulative, OfThisKey, Admitted
    <3> QED
      BY <3>1, <3>2, <3>3
  <2> QED
    BY <1>0, <1>1, <1>2, <2>1 DEF Inv, TypeOK, CountsExplained, Eval, Goto
<1> QED
  BY <1>5, <1>6, <1>7, <1>8 DEF Inv

(* Time passes: the history moves by a tick and keys expire. *)
LEMMA TickInv ==
  ASSUME Inv, Tick
  PROVE  Inv'
<1>1. ASSUME NEW u \in Users
      PROVE  /\ recent'[u][0] = 0
             /\ \A i \in Window \ {0} : i - 1 \in Window /\ recent'[u][i] = recent[u][i - 1]
             /\ \A i \in Window : recent[u][i] \in Nat /\ recent'[u][i] \in Nat
  BY <1>1, WindowEnds, RateLimiterAssumption DEF Tick, Inv, TypeOK, Window
<1>2. TypeOK'
  <2>1. recent' \in [Users -> [Window -> Nat]]
    BY <1>1 DEF Tick
  <2> QED
    BY <2>1, RateLimiterAssumption DEF Tick, Inv, TypeOK, calls
<1>3. Cumulative'
  <2> SUFFICES ASSUME NEW u \in Users, NEW i \in Window, NEW j \in Window, i <= j
               PROVE  recent'[u][i] <= recent'[u][j]
    BY DEF Cumulative
  <2>1. CASE i = 0
    BY <1>1, <2>1
  <2>2. CASE i # 0
    <3>1. i \in Window \ {0} /\ j \in Window \ {0} /\ i - 1 <= j - 1
      BY <2>2, RateLimiterAssumption DEF Window
    <3> QED
      BY <1>1, <3>1 DEF Inv, Cumulative
  <2> QED
    BY <2>1, <2>2
<1>4. ASSUME NEW u \in Users
      PROVE  Admitted(u)' <= Admitted(u) /\ Admitted(u) \in Nat /\ Admitted(u)' \in Nat
  <2>1. CASE WINDOW_SECS = 1
    BY <1>1, <2>1, WindowEnds DEF Admitted
  <2>2. CASE WINDOW_SECS # 1
    <3>1. WINDOW_SECS - 1 \in Window \ {0} /\ (WINDOW_SECS - 1) - 1 <= WINDOW_SECS - 1
      BY <2>2, RateLimiterAssumption DEF Window
    <3> QED
      BY <1>1, <3>1, WindowEnds DEF Inv, Cumulative, Admitted
  <2> QED
    BY <2>1, <2>2
<1>5. TwoKeys'
  <2> SUFFICES ASSUME NEW u \in Users
               PROVE  /\ cnt'[u] = 0 =>
                           ttl'[u] = 0 /\ recent'[u][0] = 0 /\ Admitted(u)' <= limit_per_min_
                      /\ cnt'[u] > 0 =>
                           /\ ttl'[u] > 0
                           /\ OfThisKey(u)' = IF cnt'[u] < limit_per_min_ THEN cnt'[u]
                                                                          ELSE limit_per_min_
                           /\ Admitted(u)' <= OfThisKey(u)' + limit_per_min_
    BY DEF TwoKeys
  <2>0. cnt[u] \in 0..MaxCount /\ ttl[u] \in 0..WINDOW_SECS
    BY DEF Inv, TypeOK
  <2>1. CASE cnt[u] = 0
    <3>1. ttl[u] = 0 /\ Admitted(u) <= limit_per_min_ /\ cnt'[u] = 0 /\ ttl'[u] = 0
      BY <2>1 DEF Inv, TwoKeys, Tick
    <3> QED
      BY <1>1, <1>4, <3>1, RateLimiterAssumption
  <2>2. CASE cnt[u] > 0 /\ ttl[u] = 1
    <3>1. cnt'[u] = 0 /\ ttl'[u] = 0
      BY <2>2 DEF Tick
    <3>2. Admitted(u) <= limit_per_min_
      <4>1. OfThisKey(u) = Admitted(u)
        BY <2>2 DEF OfThisKey, Admitted
      <4> QED
        BY <2>0, <2>2, <4>1, RateLimiterAssumption DEF Inv, TwoKeys
    <3> QED
      BY <1>1, <1>4, <3>1, <3>2, RateLimiterAssumption
  <2>3. CASE cnt[u] > 0 /\ ttl[u] > 1
    <3>1. cnt'[u] = cnt[u] /\ ttl'[u] = ttl[u] - 1
      BY <2>0, <2>3 DEF Tick
    <3>2. OfThisKey(u)' = OfThisKey(u) /\ OfThisKey(u) \in Nat
      <4>1. /\ WINDOW_SECS - (ttl[u] - 1) \in Window \ {0}
            /\ (WINDOW_SECS - (ttl[u] - 1)) - 1 = WINDOW_SECS - ttl[u]
            /\ WINDOW_SECS - ttl[u] \in Window
        BY <2>0, <2>3, RateLimiterAssumption DEF Window
      <4> QED
        BY <1>1, <3>1, <4>1 DEF OfThisKey
    <3>3. /\ OfThisKey(u) = IF cnt[u] < limit_per_min_ THEN cnt[u] ELSE limit_per_min_
          /\ Admitted(u) <= OfThisKey(u) + limit_per_min_
      BY <2>3 DEF Inv, TwoKeys
    <3> QED
      BY <1>4, <2>0, <2>3, <3>1, <3>2, <3>3, RateLimiterAssumption
  <2>4. cnt[u] > 0 => ttl[u] > 0
    BY DEF Inv, TwoKeys
  <2> QED
    BY <2>0, <2>1, <2>2, <2>3, <2>4
<1>6. CountsExplained'
  BY DEF Inv, CountsExplained, Tick, calls
<1> QED
  BY <1>2, <1>3, <1>5, <1>6 DEF Inv

LEMMA NextInv == Inv /\ [Next]_vars => Inv'
<1> SUFFICES ASSUME Inv, [Next]_vars
             PROVE  Inv'
  OBVIOUS
<1> USE DEF Inv
<1>1. ASSUME NEW w \in Workers, NEW u \in Users, Call(w, u)
      PROVE  Inv'
  <2>1. UNCHANGED <<cnt, ttl, hung, recent, conn, reply>>
    BY <1>1 DEF Call, redis
  <2>2. TypeOK'
    BY <1>1, <2>1 DEF Call, Goto, TypeOK
  <2>3. CountsExplained'
    BY <1>1, <2>1 DEF Call, Goto, TypeOK, CountsExplained
  <2> QED
    BY <2>1, <2>2, <2>3, SameWindow
<1>2. ASSUME NEW w \in Workers, Acquire(w)
      PROVE  Inv'
  <2>1. UNCHANGED <<cnt, ttl, hung, recent, used, user, reply, verdict>>
    BY <1>2 DEF Acquire, redis, hist
  <2>2. TypeOK' /\ CountsExplained'
    BY <1>2, <2>1 DEF Acquire, Goto, TypeOK, CountsExplained
  <2> QED
    BY <2>1, <2>2, SameWindow
<1>3. ASSUME NEW w \in Workers, Eval(w)
      PROVE  Inv'
  BY <1>3, EvalInv
<1>4. ASSUME NEW w \in Workers, NEW v \in {"pass", "refuse"}, pc[w] \in {"sent", "replied"},
             v = "refuse" => pc[w] = "replied" /\ reply[w] > limit_per_min_, Return(w, v)
      PROVE  Inv'
  <2>1. UNCHANGED <<cnt, ttl, hung, recent, used, user, reply>>
    BY <1>4 DEF Return, redis, hist
  <2>2. TypeOK' /\ CountsExplained'
    BY <1>4, <2>1 DEF Return, Goto, TypeOK, CountsExplained
  <2> QED
    BY <2>1, <2>2, SameWindow
<1>5. ASSUME NEW w \in Workers, Answer(w)
      PROVE  Inv'
  BY <1>4, <1>5, RateLimiterAssumption DEF Answer, WithinLimit, TypeOK
<1>6. ASSUME NEW w \in Workers, Throws(w)
      PROVE  Inv'
  BY <1>4, <1>6 DEF Throws, CanThrow
<1>7. CASE Hangs
  <2>1. UNCHANGED <<cnt, ttl, recent, used, conn, pc, user, reply, verdict>> /\ hung' \in BOOLEAN
    BY <1>7 DEF Hangs, calls, hist, TypeOK
  <2> QED
    BY <2>1, SameWindow DEF TypeOK, CountsExplained
<1>8. CASE Tick
  BY <1>8, TickInv
<1>9. CASE UNCHANGED vars
  BY <1>9, SameWindow DEF vars, redis, calls, hist, TypeOK, CountsExplained
<1> QED
  BY <1>1, <1>2, <1>3, <1>5, <1>6, <1>7, <1>8, <1>9 DEF Next, AllowStep

LEMMA InvHolds == Spec => []Inv
BY InitInv, NextInv, PTL DEF Spec

-----------------------------------------------------------------------------
(***************************************************************************)
(* Over any WINDOW_SECS the counter of rate_limiter.cpp admits at most     *)
(* twice the limit of a user's events, whatever the workers, the failures  *)
(* of Redis and the expiry of keys do, as long as no key is evicted before *)
(* it expires.                                                             *)
(***************************************************************************)
THEOREM AtMostTwice == Spec => []TwiceTheLimit
<1>1. Inv => TwiceTheLimit
  <2> SUFFICES ASSUME Inv, NEW u \in Users
               PROVE  Admitted(u) <= 2 * limit_per_min_
    BY DEF TwiceTheLimit
  <2>1. cnt[u] \in 0..MaxCount /\ Admitted(u) \in Nat
    BY WindowEnds DEF Inv, TypeOK, Admitted
  <2>2. CASE cnt[u] = 0
    BY <2>1, <2>2, RateLimiterAssumption DEF Inv, TwoKeys
  <2>3. CASE cnt[u] > 0
    BY <2>1, <2>3, RateLimiterAssumption DEF Inv, TwoKeys
  <2> QED
    BY <2>1, <2>2, <2>3
<1> QED
  BY <1>1, InvHolds, PTL

(***************************************************************************)
(* allow refuses an event only if that user's own events had used up the   *)
(* limit over the last WINDOW_SECS when Redis counted it.                  *)
(***************************************************************************)
THEOREM RefusalsAreEarned == Spec => []RefusedOnlyWhenUsedUp
<1>1. Inv => RefusedOnlyWhenUsedUp
  BY DEF Inv, CountsExplained, RefusedOnlyWhenUsedUp
<1> QED
  BY <1>1, InvHolds, PTL
==============================================================================
