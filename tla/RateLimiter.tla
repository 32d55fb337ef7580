----------------------------- MODULE RateLimiter -----------------------------
(***************************************************************************)
(* src/processor/rate_limiter.cpp: the workers call allow, which counts    *)
(* the user's events of the current window in Redis.                       *)
(*                                                                         *)
(* Redis and redis++ are external, modelled from the options the           *)
(* constructor sets and leaves alone: a pool of one connection for which   *)
(* the callers wait without a bound, no connect or socket timeout, and a   *)
(* Lua script that Redis runs as one step.  A call throws when the         *)
(* connection is refused or breaks, before or after the script ran.  Redis *)
(* may also hang: it neither answers nor breaks the connection.            *)
(*                                                                         *)
(* A key lives until it expires.  That is an assumption on how Redis is    *)
(* run: docker-compose.yml sets no maxmemory, but perf_report.md:70        *)
(* measures one that evicts keys (allkeys-lru), and an evicted counter     *)
(* starts again from 0.                                                    *)
(*                                                                         *)
(* Time passes in ticks, WINDOW_SECS of them to a window.                  *)
(***************************************************************************)
EXTENDS Naturals

CONSTANTS
  Workers,          \* threads that call allow
  Users,            \* user ids
  NoOne,            \* no user, no worker
  limit_per_min_,
  WINDOW_SECS,
  MaxCount          \* bound: a key stops counting here, above the limit and 1

ASSUME RateLimiterAssumption ==
  /\ NoOne \notin Workers \cup Users
  /\ limit_per_min_ \in Nat
  /\ WINDOW_SECS \in Nat \ {0}
  /\ MaxCount \in Nat /\ MaxCount > limit_per_min_ /\ MaxCount > 1

VARIABLES
  cnt,              \* Redis: the counter under "rl:" + user, 0 if there is no key
  ttl,              \* Redis: ticks until the key expires, 0 if it never does
  hung,             \* Redis does not answer
  conn,             \* the worker that holds the connection
  pc,               \* where each worker is in allow
  user,             \* user_id of the call
  reply,            \* what the script returned to the worker
  verdict,          \* what allow returned last
  recent,           \* history: recent[u][i], events admitted since i ticks ago
  used              \* history: events of the user recently admitted when the
                    \* worker's script ran

redis == <<cnt, ttl, hung>>
calls == <<conn, pc, user, reply, verdict>>
hist == <<recent, used>>
vars == <<redis, calls, hist>>

Window == 0..(WINDOW_SECS - 1)

Init ==
  /\ cnt = [u \in Users |-> 0] /\ ttl = [u \in Users |-> 0]
  /\ hung = FALSE
  /\ conn = NoOne
  /\ pc = [w \in Workers |-> "idle"]
  /\ user = [w \in Workers |-> NoOne]
  /\ reply = [w \in Workers |-> 0]
  /\ verdict = [w \in Workers |-> "none"]
  /\ recent = [u \in Users |-> [i \in Window |-> 0]]
  /\ used = [w \in Workers |-> 0]

(* The events of u that the counter admitted over the last WINDOW_SECS. *)
Admitted(u) == recent[u][WINDOW_SECS - 1]

Goto(w, l) == pc' = [pc EXCEPT ![w] = l]

(* allow(u) is called by a worker for an event that is valid. *)
Call(w, u) ==
  /\ pc[w] = "idle"
  /\ user' = [user EXCEPT ![w] = u]
  /\ verdict' = [verdict EXCEPT ![w] = "none"]
  /\ used' = [used EXCEPT ![w] = 0]
  /\ Goto(w, "acquire")
  /\ UNCHANGED <<redis, conn, reply, recent>>

(* eval takes the connection out of the pool. *)
Acquire(w) ==
  /\ pc[w] = "acquire"
  /\ conn = NoOne
  /\ conn' = w
  /\ Goto(w, "sent")
  /\ UNCHANGED <<redis, user, reply, verdict, hist>>

(* The script, for a call about user u; it sets the expiry when INCR gives *)
(* one of the values in first.                                             *)
ScriptOn(w, u, first) ==
  LET n == IF cnt[u] < MaxCount THEN cnt[u] + 1 ELSE MaxCount
  IN  /\ cnt' = [cnt EXCEPT ![u] = n]
      /\ ttl' = IF n \in first THEN [ttl EXCEPT ![u] = WINDOW_SECS] ELSE ttl
      /\ reply' = [reply EXCEPT ![w] = n]
      /\ used' = [used EXCEPT ![w] = Admitted(u)]

(* Mutant of Script: the expiry is renewed by every call. *)
ExpireRenewed(w, u) == ScriptOn(w, u, 1..MaxCount)

(* INCR, then EXPIRE if the key is new. *)
Script(w, u) == ScriptOn(w, u, {1})

(* Mutant of WithinLimit: one event too many. *)
LimitOffByOne(n) == n <= limit_per_min_ + 1

(* cnt <= limit_per_min_ *)
WithinLimit(n) == n <= limit_per_min_

(* Redis runs the script. *)
Eval(w) ==
  /\ pc[w] = "sent"
  /\ ~hung
  /\ Script(w, user[w])
  /\ recent' = [recent EXCEPT ![user[w]] =
                  [i \in Window |-> @[i] + (IF WithinLimit(reply'[w]) THEN 1 ELSE 0)]]
  /\ Goto(w, "replied")
  /\ UNCHANGED <<hung, conn, user, verdict>>

(* allow returns v, the connection goes back to the pool. *)
Return(w, v) ==
  /\ verdict' = [verdict EXCEPT ![w] = v]
  /\ conn' = NoOne
  /\ Goto(w, "idle")
  /\ UNCHANGED <<redis, user, reply, hist>>

(* The reply arrives: return cnt <= limit_per_min_. *)
Answer(w) ==
  /\ pc[w] = "replied"
  /\ ~hung
  /\ Return(w, IF WithinLimit(reply[w]) THEN "pass" ELSE "refuse")

(* eval can throw: the connection is refused or breaks. *)
CanThrow(w) == pc[w] \in {"sent", "replied"} /\ ~hung

(* Mutant of Throws: fails closed. *)
FailsClosed(w) == CanThrow(w) /\ Return(w, "refuse")

(* Mutant of Throws: tries again until Redis answers. *)
RetriesForEver(w) ==
  /\ CanThrow(w)
  /\ Goto(w, "sent")
  /\ UNCHANGED <<redis, conn, user, reply, verdict, hist>>

(* The catch block: the event passes. *)
Throws(w) == CanThrow(w) /\ Return(w, "pass")

-----------------------------------------------------------------------------
(* Redis by itself.                                                        *)

Hangs ==
  /\ hung' = ~hung
  /\ UNCHANGED <<cnt, ttl, calls, hist>>

(* A tick: keys whose time has come expire; no key goes before its time. *)
Tick ==
  /\ cnt' = [u \in Users |-> IF ttl[u] = 1 THEN 0 ELSE cnt[u]]
  /\ ttl' = [u \in Users |-> IF ttl[u] > 0 THEN ttl[u] - 1 ELSE 0]
  /\ recent' = [u \in Users |-> [i \in Window |-> IF i = 0 THEN 0 ELSE recent[u][i - 1]]]
  /\ UNCHANGED <<hung, calls, used>>

-----------------------------------------------------------------------------
AllowStep(w) == Acquire(w) \/ Eval(w) \/ Answer(w) \/ Throws(w)

Next ==
  \/ \E w \in Workers : AllowStep(w) \/ \E u \in Users : Call(w, u)
  \/ Hangs
  \/ Tick

Spec == Init /\ [][Next]_vars

(* A worker is scheduled and time passes; Redis need not come back. *)
Fairness == WF_vars(Tick) /\ \A w \in Workers : WF_vars(AllowStep(w))

FairSpec == Spec /\ Fairness

-----------------------------------------------------------------------------
(***************************************************************************)
(* Over any WINDOW_SECS the counter admits at most twice the limit of a    *)
(* user's events: the end of one fixed window and the start of the next.   *)
(* What passes because Redis failed (fail-open) comes on top.  Keys that   *)
(* are evicted before they expire, which the model excludes, would break   *)
(* the bound.                                                              *)
(***************************************************************************)
TwiceTheLimit == \A u \in Users : Admitted(u) <= 2 * limit_per_min_

(***************************************************************************)
(* allow refuses an event only if that user's own events had used up the   *)
(* limit within the last WINDOW_SECS when Redis counted it: neither other  *)
(* users, nor refused attempts, nor a failing Redis can cause a refusal.   *)
(***************************************************************************)
RefusedOnlyWhenUsedUp ==
  \A w \in Workers : verdict[w] = "refuse" => used[w] >= limit_per_min_

(***************************************************************************)
(* A user over the limit is let in again, even if it never stops sending:  *)
(* every key expires.                                                      *)
(***************************************************************************)
LimitLifts == \A u \in Users : cnt[u] > limit_per_min_ ~> cnt[u] = 0

(***************************************************************************)
(* The only connection comes back, by an answer or by an exception, unless *)
(* Redis hangs: then the worker that holds it, and every other worker that *)
(* calls allow, waits as long as Redis hangs, since no timeout is set.     *)
(***************************************************************************)
ConnectionReturned == \A w \in Workers : conn = w ~> conn # w \/ hung
===============================================================================
