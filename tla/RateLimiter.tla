---------------------------- MODULE RateLimiter ----------------------------
(***************************************************************************)
(* Token buckets in front of every route: RateLimitMiddleware picks a       *)
(* limiter and a key, TokenBucketLimiter.check refills the bucket by the    *)
(* clock and takes a token.                                                 *)
(*                                                                         *)
(* check runs without suspending on the API's event loop: one action.  (The *)
(* lock would serialize threads too, but the clock is read before it.)      *)
(* A token is PerSeconds units, so that a second refills a whole number.    *)
(***************************************************************************)
EXTENDS Integers, FiniteSetsExt, SequencesExt

CONSTANTS
  Requests,     \* [path, tenant, merchant, ip]
  Rate,         \* Rate[limiter], also its capacity
  PerSeconds,
  PruneAfter,   \* older_than
  MaxClock,     \* bound: clock
  MaxChecks,    \* bound: requests
  Absent        \* no tenant, no merchant, no bucket

ASSUME LimiterAssumption ==
  /\ DOMAIN Rate = {"login", "auth", "general"}
  /\ \A l \in DOMAIN Rate : Rate[l] \in Nat \ {0}
  /\ {PerSeconds, PruneAfter, MaxClock, MaxChecks} \subseteq Nat
  /\ \A r \in Requests : r.path \in DOMAIN Rate
  /\ Absent \notin [tokens : Nat, updated : Nat]
  \* A bucket that is dropped would have been full.
  /\ \A l \in DOMAIN Rate : Rate[l] * PruneAfter >= Rate[l] * PerSeconds

VARIABLES
  clock,
  bucket,       \* bucket[k]: [tokens, updated], or Absent
  checks        \* history: checks[k]: [at, ok] of the checks of key k

limiterVars == <<clock, bucket, checks>>

-----------------------------------------------------------------------------
(* _select: the limiter, which also names the scope.                        *)
Limiter(request) == request.path

(* dispatch and bucket_key: the tenant, else the merchant, else the         *)
(* address; sign-in routes always by address.                               *)
Key(request) ==
  [limiter |-> Limiter(request),
   principal |-> IF Limiter(request) # "general" THEN request.ip
                 ELSE IF request.tenant # Absent THEN request.tenant
                 ELSE IF request.merchant # Absent THEN request.merchant
                 ELSE request.ip]

Keys == {Key(r) : r \in Requests}

Capacity(k) == Rate[k.limiter] * PerSeconds

LimiterInit ==
  /\ clock = 0
  /\ bucket = [k \in Keys |-> Absent]
  /\ checks = [k \in Keys |-> <<>>]

(* Variant of Refilled: the bucket may hold more than its capacity.         *)
RefilledUncapped(k) ==
  IF bucket[k] = Absent THEN Capacity(k)
  ELSE bucket[k].tokens + Max({0, clock - bucket[k].updated}) * Rate[k.limiter]

(* What the bucket holds by now.                                            *)
Refilled(k) ==
  IF bucket[k] = Absent THEN Capacity(k)
  ELSE Min({Capacity(k),
            bucket[k].tokens + Max({0, clock - bucket[k].updated}) * Rate[k.limiter]})

(* check, for one token. *)
Check(request) ==
  LET k == Key(request)
      tokens == Refilled(k)
      ok == tokens >= PerSeconds
  IN /\ FoldFunction(LAMBDA s, n : Len(s) + n, 0, checks) < MaxChecks
     /\ bucket' = [bucket EXCEPT ![k] = [tokens |-> IF ok THEN tokens - PerSeconds ELSE tokens,
                                         updated |-> clock]]
     /\ checks' = [checks EXCEPT ![k] = Append(@, [at |-> clock, ok |-> ok])]
     /\ UNCHANGED clock

(* reset: the promise starts over for the key.                              *)
Reset(k) ==
  /\ bucket' = [bucket EXCEPT ![k] = Absent]
  /\ checks' = [checks EXCEPT ![k] = <<>>]
  /\ UNCHANGED clock

(* prune: buckets nobody touched for PruneAfter are dropped.                *)
Prune ==
  LET stale == {k \in Keys : bucket[k] # Absent /\ bucket[k].updated < clock - PruneAfter}
  IN /\ stale # {}
     /\ bucket' = [k \in Keys |-> IF k \in stale THEN Absent ELSE bucket[k]]
     /\ UNCHANGED <<clock, checks>>

LimiterTick ==
  /\ clock < MaxClock
  /\ clock' = clock + 1
  /\ UNCHANGED <<bucket, checks>>

LimiterNext ==
  \/ \E r \in Requests : Check(r)
  \/ \E k \in Keys : Reset(k)
  \/ Prune
  \/ LimiterTick

LimiterSpec == LimiterInit /\ [][LimiterNext]_limiterVars

-----------------------------------------------------------------------------
LimiterTypeOK ==
  /\ clock \in 0..MaxClock
  /\ \A k \in Keys : bucket[k] # Absent =>
       bucket[k].tokens \in 0..Capacity(k) /\ bucket[k].updated <= clock

(* Checks that were let through from time a on, among the first n of key k. *)
Passed(k, a, n) == Cardinality({i \in 1..n : checks[k][i].ok /\ checks[k][i].at >= a})

(* "The rate holds over every interval, while still allowing a short burst  *)
(* up to capacity", and nobody under it is turned away: a check passes just *)
(* when, with it, no interval that ends now holds more than the capacity    *)
(* and what the interval refilled; refusals, pruning and other keys change  *)
(* nothing.                                                                 *)
RateHoldsOverEveryInterval ==
  \A k \in Keys :
    \A n \in DOMAIN checks[k] :
      LET t == checks[k][n].at
      IN checks[k][n].ok <=>
           \A a \in {checks[k][i].at : i \in 1..n} :
             (Passed(k, a, n - 1) + 1) * PerSeconds <= Capacity(k) + Rate[k.limiter] * (t - a)
=============================================================================
