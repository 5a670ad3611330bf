---------------------------- MODULE TokenBucket ----------------------------
(***************************************************************************)
(* pkg/throttling/token_bucket.go: the per-resource rate limiter in front  *)
(* of every server-side apply.  `buckets' is the map of the Go type (a key *)
(* that is not in its domain has no entry), `now' is the monotonic clock,  *)
(* and every method is one action, because every method runs under tb.mu.  *)
(***************************************************************************)
EXTENDS Integers, Functions

CONSTANTS Keys,      \* resource keys
          Capacity,  \* DefaultCapacity: burst of updates allowed
          Window,    \* DefaultWindow: time in which a whole burst refills
          TTL,       \* DefaultTTL: idle time after which an entry is dropped
          MaxTime,   \* bound of the clock in a model
          MaxResets  \* bound of the resets inside one observed interval

(***************************************************************************)
(* NewTokenBucket uses 10 updates, one minute and one hour (nanoseconds).  *)
(* A window shorter than the capacity would make tokenDuration zero: the   *)
(* code then never refills, and none of the bounds below would be meant.   *)
(***************************************************************************)
ASSUME BucketAssumption ==
    /\ Capacity \in Nat \ {0}
    /\ Window \in Nat /\ Capacity <= Window
    /\ TTL \in Nat /\ Window <= TTL
    /\ MaxTime \in Nat /\ MaxResets \in Nat

VARIABLES now, buckets,
          answer,       \* what the last Allow for a key returned
          \* History variables: an observer that may start counting the
          \* updates granted to a key at any moment.
          winStart,     \* winStart[k]: when the observer started
          winGrants,    \* updates granted to k since then
          winBudget,    \* Capacity, plus Capacity for each Reset since then
          deniedSince   \* first refusal since the last grant to k, or -1

hist == <<winStart, winGrants, winBudget, deniedSince>>
vars == <<now, buckets, answer, winStart, winGrants, winBudget, deniedSince>>

Bucket == [tokens : Int, lastFill : Nat, lastAccessed : Nat]

tokenDuration == Window \div Capacity

Init ==
    /\ now = 0
    /\ buckets = [k \in {} |-> [tokens |-> 0, lastFill |-> 0, lastAccessed |-> 0]]
    /\ answer = [k \in Keys |-> "none"]
    /\ winStart = [k \in Keys |-> 0]
    /\ winGrants = [k \in Keys |-> 0]
    /\ winBudget = [k \in Keys |-> Capacity]
    /\ deniedSince = [k \in Keys |-> -1]

-----------------------------------------------------------------------------
(* Helpers *)

Capped(n) == IF n > Capacity THEN Capacity ELSE n

\* Whole tokens earned by b since its last fill.
Earned(b) == IF tokenDuration > 0 THEN (now - b.lastFill) \div tokenDuration ELSE 0

\* A refill that restarts the clock at every call and so loses the fraction.
Refilled_DropsFraction(b) ==
    [tokens |-> Capped(b.tokens + Earned(b)), lastFill |-> now, lastAccessed |-> now]

\* A refill without the cap at the bucket's capacity.
Refilled_Uncapped(b) ==
    [tokens |-> b.tokens + Earned(b),
     lastFill |-> b.lastFill + Earned(b) * tokenDuration,
     lastAccessed |-> now]

\* The bucket as Allow finds it: lastAccessed refreshed, whole tokens added,
\* and lastFill advanced only by the time that produced them.
Refilled(b) ==
    [tokens |-> Capped(b.tokens + Earned(b)),
     lastFill |-> b.lastFill + Earned(b) * tokenDuration,
     lastAccessed |-> now]

\* GetTokens: what a caller could take right now.
GetTokens(k) ==
    IF k \in DOMAIN buckets
    THEN Capped(buckets[k].tokens + Earned(buckets[k]))
    ELSE Capacity

Store(k, b) == [x \in DOMAIN buckets \cup {k} |-> IF x = k THEN b ELSE buckets[x]]

Granted(k) ==
    /\ answer' = [answer EXCEPT ![k] = "granted"]
    /\ winGrants' = [winGrants EXCEPT ![k] = @ + 1]
    /\ deniedSince' = [deniedSince EXCEPT ![k] = -1]
    /\ UNCHANGED <<now, winStart, winBudget>>

-----------------------------------------------------------------------------
(* Allow, in its three outcomes *)

\* First request for the key: a full bucket, one token already consumed.
AllowFirst(k) ==
    /\ k \notin DOMAIN buckets
    /\ buckets' = Store(k, [tokens |-> Capacity - 1, lastFill |-> now, lastAccessed |-> now])
    /\ Granted(k)

AllowTake(k) ==
    /\ k \in DOMAIN buckets
    /\ LET b == Refilled(buckets[k]) IN
         /\ b.tokens > 0
         /\ buckets' = Store(k, [b EXCEPT !.tokens = @ - 1])
    /\ Granted(k)

\* Throttled: the refreshed bucket is kept all the same.
AllowRefuse(k) ==
    /\ k \in DOMAIN buckets
    /\ LET b == Refilled(buckets[k]) IN
         /\ b.tokens <= 0
         /\ buckets' = Store(k, b)
    /\ answer' = [answer EXCEPT ![k] = "throttled"]
    /\ deniedSince' = [deniedSince EXCEPT ![k] = IF @ = -1 THEN now ELSE @]
    /\ UNCHANGED <<now, winStart, winGrants, winBudget>>

Allow(k) == AllowFirst(k) \/ AllowTake(k) \/ AllowRefuse(k)

-----------------------------------------------------------------------------
(* Forgetting keys *)

Forget(K) == Restrict(buckets, DOMAIN buckets \ K)

\* Reset (K a single key) and ResetAll (K every key).
Reset(K) ==
    /\ \A k \in K : winBudget[k] <= MaxResets * Capacity
    /\ buckets' = Forget(K)
    /\ winBudget' = [k \in Keys |-> IF k \in K \cap DOMAIN buckets
                                    THEN winBudget[k] + Capacity ELSE winBudget[k]]
    /\ deniedSince' = [k \in Keys |-> IF k \in K THEN -1 ELSE deniedSince[k]]
    /\ UNCHANGED <<now, answer, winStart, winGrants>>

\* Drops every entry that was not used in this very instant.
Stale_NoTTL == {k \in DOMAIN buckets : now - buckets[k].lastAccessed > 0}

Stale == {k \in DOMAIN buckets : now - buckets[k].lastAccessed > TTL}

CleanupStale ==
    /\ Stale # {}
    /\ buckets' = Forget(Stale)
    /\ deniedSince' = [k \in Keys |-> IF k \in Stale THEN -1 ELSE deniedSince[k]]
    /\ UNCHANGED <<now, answer, winStart, winGrants, winBudget>>

-----------------------------------------------------------------------------
(* The environment: time passes, and the observer starts to count *)

Tick ==
    /\ now < MaxTime
    /\ now' = now + 1
    /\ UNCHANGED <<buckets, answer, hist>>

Observe(k) ==
    /\ winStart' = [winStart EXCEPT ![k] = now]
    /\ winGrants' = [winGrants EXCEPT ![k] = 0]
    /\ winBudget' = [winBudget EXCEPT ![k] = Capacity]
    /\ UNCHANGED <<now, buckets, answer, deniedSince>>

Next ==
    \/ \E k \in Keys : Allow(k)
    \/ \E k \in Keys : Reset({k})
    \/ Reset(Keys)
    \/ CleanupStale
    \/ Tick
    \/ \E k \in Keys : Observe(k)

Spec == Init /\ [][Next]_vars

-----------------------------------------------------------------------------
(* Properties *)

\* Every entry holds between zero and Capacity tokens and its time stamps
\* are ordered: lastFill never runs ahead of the last access, nor that of now.
TypeOK ==
    /\ now \in Nat
    /\ DOMAIN buckets \subseteq Keys
    /\ \A k \in DOMAIN buckets :
         /\ buckets[k] \in Bucket
         /\ 0 <= buckets[k].tokens /\ buckets[k].tokens <= Capacity
         /\ buckets[k].lastFill <= buckets[k].lastAccessed
         /\ buckets[k].lastAccessed <= now
    /\ answer \in [Keys -> {"none", "granted", "throttled"}]
    /\ winStart \in [Keys -> Nat] /\ \A k \in Keys : winStart[k] <= now
    /\ winGrants \in [Keys -> Nat]
    /\ winBudget \in [Keys -> Nat] /\ \A k \in Keys : winBudget[k] >= Capacity
    /\ deniedSince \in [Keys -> Nat \cup {-1}]

\* Whenever one starts to count, the updates granted to a key are at most one
\* full burst, one burst per Reset, and one update per elapsed tokenDuration,
\* plus the one whose fraction was already running.  CleanupStale adds nothing
\* to this bound although it hands the key a full bucket (token_bucket.go
\* lines 76-82 after lines 180-185).
RateBound ==
    \A k \in Keys :
        winGrants[k] <= winBudget[k] + (now - winStart[k]) \div tokenDuration + 1

\* A caller that keeps calling while throttled is never refused for as long as
\* a tokenDuration: refused calls refresh lastAccessed but do not push the next
\* token away (lines 85-104).
RefusalIsShort ==
    \A k \in DOMAIN buckets :
        deniedSince[k] # -1 => buckets[k].lastAccessed - deniedSince[k] < tokenDuration

\* CleanupStale is not observable: an entry it drops had refilled completely, so
\* that its key has as many updates left without the entry as with it (lines
\* 152-155 and 180-185).
CleanupUnobservable ==
    [][CleanupStale => \A k \in Keys : GetTokens(k)' = GetTokens(k)]_vars

\* The bucket implements the clock-free limiter, GetTokens being the number of
\* updates left: a call is granted exactly when that number is positive, a grant
\* uses up exactly one, and nothing else takes updates away.
Limiter == INSTANCE RateLimiter WITH level <- [k \in Keys |-> GetTokens(k)]

ImplementsLimiter == Limiter!Spec
=============================================================================
