------------------------- MODULE TokenBucketProofs -------------------------
(***************************************************************************)
(* For every capacity, window and TTL: the bucket is well formed, grants   *)
(* at a bounded rate, refuses for less than a tokenDuration, and implements*)
(* the clock-free RateLimiter.                                             *)
(***************************************************************************)
EXTENDS TokenBucket, TLAPS

\* The last access falls less than a tokenDuration after the last fill.
FillInv ==
    \A k \in DOMAIN buckets : buckets[k].lastAccessed < buckets[k].lastFill + tokenDuration

\* A refused key has had no token since before it was first refused.
DenyInv ==
    \A k \in DOMAIN buckets :
        deniedSince[k] # -1 => buckets[k].lastFill <= deniedSince[k]

\* The balance of a key in an observed interval, in units of time: what was
\* granted and what is left, beyond the budget, was earned since winStart.
RateInv ==
    \A k \in Keys :
        \/ winGrants[k] = 0
        \/ /\ k \in DOMAIN buckets
           /\ (winGrants[k] + buckets[k].tokens - winBudget[k]) * tokenDuration
                <= buckets[k].lastFill + tokenDuration - winStart[k]
        \/ /\ k \notin DOMAIN buckets
           /\ (winGrants[k] + Capacity - winBudget[k]) * tokenDuration
                <= now + tokenDuration - winStart[k]

IInv == TypeOK /\ FillInv /\ DenyInv /\ RateInv

-----------------------------------------------------------------------------
(* Arithmetic *)

\* Integer division leaves a remainder smaller than the divisor.
LEMMA DivBounds ==
    ASSUME NEW a \in Nat, NEW d \in Nat \ {0}
    PROVE  /\ a \div d \in Nat
           /\ (a \div d) * d <= a
           /\ a < (a \div d) * d + d
  BY SMT

\* Multiplication by a natural number preserves the order.
LEMMA MulMono ==
    ASSUME NEW x \in Int, NEW y \in Int, NEW d \in Nat, x <= y
    PROVE  x * d <= y * d
  BY SMT

\* A multiple below a bounds the quotient of a from below.
LEMMA DivLower ==
    ASSUME NEW q \in Int, NEW a \in Nat, NEW d \in Nat \ {0}, q * d <= a
    PROVE  q <= a \div d
  <1> DEFINE n == a \div d
  <1>1. n \in Nat /\ a < n * d + d
    BY DivBounds
  <1>2. SUFFICES ASSUME n + 1 <= q PROVE FALSE
    BY <1>1, SMT
  <1>3. (n + 1) * d <= q * d
    BY <1>1, <1>2, MulMono, SMT
  <1>4. (n + 1) * d = n * d + d
    BY <1>1, SMT
  <1> QED
    BY <1>1, <1>3, <1>4, SMT

\* The time one token takes is positive, and a whole burst fits in the window.
LEMMA TokenDuration ==
    /\ tokenDuration \in Nat \ {0}
    /\ Capacity * tokenDuration <= Window
  <1>1. Window \in Nat /\ Capacity \in Nat \ {0} /\ Capacity <= Window
    BY BucketAssumption
  <1>2. tokenDuration \in Nat /\ tokenDuration * Capacity <= Window
    BY <1>1, DivBounds DEF tokenDuration
  <1>3. 1 <= Window \div Capacity
    BY <1>1, DivLower, SMT
  <1> QED
    BY <1>1, <1>2, <1>3, SMT DEF tokenDuration

-----------------------------------------------------------------------------
(* What a refill does to one bucket *)

\* Refilling adds the whole tokens earned, up to the capacity, and leaves
\* less than a tokenDuration between lastFill and now.
LEMMA RefilledFacts ==
    ASSUME TypeOK, NEW k \in DOMAIN buckets
    PROVE  /\ Earned(buckets[k]) \in Nat
           /\ Refilled(buckets[k]) \in Bucket
           /\ Refilled(buckets[k]).lastAccessed = now
           /\ Refilled(buckets[k]).lastFill
                = buckets[k].lastFill + Earned(buckets[k]) * tokenDuration
           /\ buckets[k].lastFill <= Refilled(buckets[k]).lastFill
           /\ Refilled(buckets[k]).lastFill <= now
           /\ now < Refilled(buckets[k]).lastFill + tokenDuration
           /\ Refilled(buckets[k]).tokens = Capped(buckets[k].tokens + Earned(buckets[k]))
           /\ 0 <= Refilled(buckets[k]).tokens
           /\ Refilled(buckets[k]).tokens <= Capacity
           /\ Refilled(buckets[k]).tokens <= buckets[k].tokens + Earned(buckets[k])
  <1> DEFINE b == buckets[k]
             n == Earned(b)
  <1>1. /\ b \in Bucket /\ now \in Nat /\ Capacity \in Nat \ {0}
        /\ b.tokens \in Int /\ b.lastFill \in Nat /\ b.lastAccessed \in Nat
        /\ 0 <= b.tokens /\ b.tokens <= Capacity /\ b.lastFill <= now
    BY BucketAssumption DEF TypeOK, Bucket
  <1>2. tokenDuration \in Nat \ {0}
    BY TokenDuration
  <1>3. n = (now - b.lastFill) \div tokenDuration
    BY <1>2 DEF Earned
  <1>4. now - b.lastFill \in Nat
    BY <1>1
  <1>5. /\ n \in Nat
        /\ n * tokenDuration <= now - b.lastFill
        /\ now - b.lastFill < n * tokenDuration + tokenDuration
    BY <1>2, <1>3, <1>4, DivBounds
  <1>6. n * tokenDuration \in Nat
    BY <1>2, <1>5
  <1>7. Capped(b.tokens + n) \in Int /\ 0 <= Capped(b.tokens + n)
        /\ Capped(b.tokens + n) <= Capacity /\ Capped(b.tokens + n) <= b.tokens + n
    BY <1>1, <1>5 DEF Capped
  <1> HIDE DEF b, n
  <1>8. /\ Refilled(b).tokens = Capped(b.tokens + n)
        /\ Refilled(b).lastFill = b.lastFill + n * tokenDuration
        /\ Refilled(b).lastAccessed = now
        /\ Refilled(b) \in Bucket
    BY <1>1, <1>5, <1>6, <1>7 DEF Refilled, Bucket, n
  <1> QED
    BY <1>1, <1>2, <1>5, <1>6, <1>7, <1>8 DEF b, n

-----------------------------------------------------------------------------
(* The steps of one key *)

\* Writing one entry of the map leaves the others alone.
LEMMA StoreFacts ==
    ASSUME NEW k, NEW b, buckets' = Store(k, b)
    PROVE  /\ DOMAIN buckets' = DOMAIN buckets \cup {k}
           /\ buckets'[k] = b
           /\ \A x \in DOMAIN buckets' : x # k => x \in DOMAIN buckets /\ buckets'[x] = buckets[x]
           /\ \A x \in DOMAIN buckets : x \in DOMAIN buckets'
  BY DEF Store

\* Dropping entries leaves the others alone.
LEMMA ForgetFacts ==
    ASSUME NEW K, buckets' = Forget(K)
    PROVE  /\ DOMAIN buckets' = DOMAIN buckets \ K
           /\ \A x \in DOMAIN buckets' : x \in DOMAIN buckets /\ buckets'[x] = buckets[x]
  BY DEF Forget, Restrict

\* Multiplication distributes over a sum (used to move the tokens of one key
\* between both sides of RateInv).
LEMMA MulAdd ==
    ASSUME NEW x \in Int, NEW y \in Int, NEW d \in Nat
    PROVE  (x + y) * d = x * d + y * d
  BY SMT

\* The initial state satisfies the inductive invariant.
LEMMA InitIInv == Init => IInv
  BY BucketAssumption, SMT DEF Init, IInv, TypeOK, FillInv, DenyInv, RateInv, Bucket

\* The first request for a key preserves the inductive invariant.
LEMMA FirstIInv ==
    ASSUME IInv, NEW k \in Keys, AllowFirst(k)
    PROVE  IInv'
  <1> DEFINE b == [tokens |-> Capacity - 1, lastFill |-> now, lastAccessed |-> now]
  <1>1. /\ Capacity \in Nat \ {0} /\ tokenDuration \in Nat \ {0} /\ now \in Nat
    BY BucketAssumption, TokenDuration DEF IInv, TypeOK
  <1>2. /\ DOMAIN buckets' = DOMAIN buckets \cup {k} /\ buckets'[k] = b
        /\ \A x \in DOMAIN buckets' : x # k => x \in DOMAIN buckets /\ buckets'[x] = buckets[x]
    <2>1. buckets' = Store(k, b) BY DEF AllowFirst
    <2> QED BY <2>1, StoreFacts
  <1>3. /\ b \in Bucket /\ b.tokens = Capacity - 1 /\ b.lastFill = now /\ b.lastAccessed = now
    BY <1>1 DEF Bucket
  <1> HIDE DEF b
  <1>4. TypeOK'
    BY <1>1, <1>2, <1>3, SMT DEF IInv, TypeOK, AllowFirst, Granted
  <1>5. FillInv'
    BY <1>1, <1>2, <1>3, SMT DEF IInv, FillInv, AllowFirst, Granted, tokenDuration
  <1>6. DenyInv'
    BY <1>1, <1>2, <1>3, SMT DEF IInv, DenyInv, TypeOK, AllowFirst, Granted
  <1>7. RateInv'
    <2> SUFFICES ASSUME NEW x \in Keys, x = k
                 PROVE  (winGrants'[x] + buckets'[x].tokens - winBudget'[x]) * tokenDuration
                          <= buckets'[x].lastFill + tokenDuration - winStart'[x]
      BY <1>2, SMT DEF IInv, RateInv, TypeOK, AllowFirst, Granted, tokenDuration
    <2>1. /\ winGrants[k] \in Nat /\ winBudget[k] \in Nat /\ winStart[k] \in Nat
          /\ winStart[k] <= now /\ Capacity <= winBudget[k]
      BY <1>1 DEF IInv, TypeOK
    <2>2. /\ winGrants'[k] = winGrants[k] + 1 /\ winBudget'[k] = winBudget[k]
          /\ winStart'[k] = winStart[k]
      BY DEF IInv, TypeOK, AllowFirst, Granted
    <2>3. winGrants'[k] + buckets'[k].tokens - winBudget'[k]
            = winGrants[k] + Capacity - winBudget[k]
      BY <1>1, <1>2, <1>3, <2>1, <2>2
    <2>4. (winGrants[k] + Capacity - winBudget[k]) * tokenDuration
            <= now + tokenDuration - winStart[k]
      <3>1. CASE winGrants[k] = 0
        <4>1. winGrants[k] + Capacity - winBudget[k] <= 0 BY <1>1, <2>1, <3>1
        <4>2. (winGrants[k] + Capacity - winBudget[k]) * tokenDuration <= 0 * tokenDuration
          BY <4>1, <1>1, <2>1, MulMono, SMT
        <4> QED BY <4>2, <1>1, <2>1, SMT
      <3>2. CASE winGrants[k] # 0
        BY <3>2 DEF IInv, RateInv, AllowFirst
      <3> QED BY <3>1, <3>2
    <2> QED BY <2>2, <2>3, <2>4, <1>2, <1>3
  <1> QED BY <1>4, <1>5, <1>6, <1>7 DEF IInv

\* Refilling a bucket keeps its balance: the tokens added are paid for by the
\* advance of lastFill.
LEMMA RefillBalance ==
    ASSUME IInv, NEW k \in DOMAIN buckets
    PROVE  (winGrants[k] + Refilled(buckets[k]).tokens - winBudget[k]) * tokenDuration
             <= Refilled(buckets[k]).lastFill + tokenDuration - winStart[k]
  <1> DEFINE b == buckets[k]
             r == Refilled(b)
             n == Earned(b)
             g == winGrants[k]
             w == winBudget[k]
             D == tokenDuration
  <1>1. /\ D \in Nat \ {0} /\ now \in Nat /\ g \in Nat /\ w \in Nat /\ Capacity \in Nat
        /\ winStart[k] \in Nat /\ winStart[k] <= now /\ Capacity <= w /\ k \in Keys
        /\ b.tokens \in Int /\ b.lastFill \in Nat
    BY BucketAssumption, TokenDuration DEF IInv, TypeOK, Bucket
  <1>2. /\ n \in Nat /\ r.tokens \in Int /\ r.lastFill \in Nat
        /\ r.lastFill = b.lastFill + n * D /\ now < r.lastFill + D
        /\ r.tokens <= Capacity /\ r.tokens <= b.tokens + n
    <2>1. TypeOK BY DEF IInv
    <2> QED BY <2>1, RefilledFacts DEF Bucket
  <1>3. g # 0 => (g + b.tokens - w) * D <= b.lastFill + D - winStart[k]
    BY DEF IInv, RateInv, TypeOK
  <1> HIDE DEF b, r, n, g, w, D
  <1>4. CASE g = 0
    <2>1. g + r.tokens - w <= 0 BY <1>1, <1>2, <1>4
    <2>2. (g + r.tokens - w) * D <= 0 * D BY <2>1, <1>1, <1>2, MulMono, SMT
    <2>3. (g + r.tokens - w) * D \in Int BY <1>1, <1>2, SMT
    <2>4. (g + r.tokens - w) * D <= r.lastFill + D - winStart[k]
      BY <2>2, <2>3, <1>1, <1>2, SMT
    <2> QED BY <2>4 DEF b, r, g, w, D
  <1>5. CASE g # 0
    <2>1. g + r.tokens - w <= (g + b.tokens - w) + n BY <1>1, <1>2
    <2>2. (g + r.tokens - w) * D <= ((g + b.tokens - w) + n) * D
      BY <2>1, <1>1, <1>2, MulMono, SMT
    <2>3. ((g + b.tokens - w) + n) * D = (g + b.tokens - w) * D + n * D
      BY <1>1, <1>2, MulAdd, SMT
    <2>4. (g + r.tokens - w) * D \in Int /\ (g + b.tokens - w) * D \in Int /\ n * D \in Int
      BY <1>1, <1>2, SMT
    <2>5. (g + r.tokens - w) * D <= r.lastFill + D - winStart[k]
      BY <2>2, <2>3, <2>4, <1>1, <1>2, <1>3, <1>5, SMT
    <2> QED BY <2>5 DEF b, r, g, w, D
  <1> QED BY <1>4, <1>5

\* Taking a token preserves the inductive invariant.
LEMMA TakeIInv ==
    ASSUME IInv, NEW k \in Keys, AllowTake(k)
    PROVE  IInv'
  <1> DEFINE r == Refilled(buckets[k])
             b == [r EXCEPT !.tokens = @ - 1]
  <1>1. /\ Capacity \in Nat \ {0} /\ tokenDuration \in Nat \ {0} /\ now \in Nat
        /\ TypeOK /\ k \in DOMAIN buckets
    BY BucketAssumption, TokenDuration DEF IInv, TypeOK, AllowTake
  <1>2. /\ DOMAIN buckets' = DOMAIN buckets /\ buckets'[k] = b
        /\ \A x \in DOMAIN buckets' : x # k => x \in DOMAIN buckets /\ buckets'[x] = buckets[x]
    <2>1. buckets' = Store(k, b) BY DEF AllowTake
    <2> QED BY <1>1, <2>1, StoreFacts
  <1>3. /\ r \in Bucket /\ r.lastFill <= now /\ now < r.lastFill + tokenDuration
        /\ r.lastAccessed = now /\ r.tokens <= Capacity /\ r.tokens > 0
    BY <1>1, RefilledFacts DEF AllowTake
  <1>4. (winGrants[k] + r.tokens - winBudget[k]) * tokenDuration
          <= r.lastFill + tokenDuration - winStart[k]
    BY <1>1, RefillBalance
  <1> HIDE DEF r
  <1>5. /\ b \in Bucket /\ b.tokens = r.tokens - 1 /\ b.lastFill = r.lastFill
        /\ b.lastAccessed = now /\ 0 <= b.tokens /\ b.tokens <= Capacity
    BY <1>1, <1>3 DEF Bucket
  <1> HIDE DEF b
  <1>6. TypeOK'
    BY <1>1, <1>2, <1>3, <1>5, SMT DEF TypeOK, AllowTake, Granted
  <1>7. FillInv'
    BY <1>1, <1>2, <1>3, <1>5, SMT DEF IInv, FillInv, AllowTake, Granted, tokenDuration
  <1>8. DenyInv'
    BY <1>1, <1>2, <1>5, SMT DEF IInv, DenyInv, TypeOK, AllowTake, Granted
  <1>9. RateInv'
    <2> SUFFICES ASSUME NEW x \in Keys, x = k
                 PROVE  (winGrants'[x] + buckets'[x].tokens - winBudget'[x]) * tokenDuration
                          <= buckets'[x].lastFill + tokenDuration - winStart'[x]
      BY <1>1, <1>2, SMT DEF IInv, RateInv, TypeOK, AllowTake, Granted, tokenDuration
    <2>1. /\ winGrants[k] \in Nat /\ winBudget[k] \in Nat /\ winGrants'[k] = winGrants[k] + 1
          /\ winBudget'[k] = winBudget[k] /\ winStart'[k] = winStart[k]
      BY <1>1 DEF TypeOK, AllowTake, Granted
    <2>2. winGrants'[k] + buckets'[k].tokens - winBudget'[k]
            = winGrants[k] + r.tokens - winBudget[k]
      BY <1>2, <1>3, <1>5, <2>1 DEF Bucket
    <2> QED BY <2>1, <2>2, <1>2, <1>4, <1>5
  <1> QED BY <1>6, <1>7, <1>8, <1>9 DEF IInv

\* Refusing preserves it: no whole token was earned, so lastFill stands still.
LEMMA RefuseIInv ==
    ASSUME IInv, NEW k \in Keys, AllowRefuse(k)
    PROVE  IInv'
  <1> DEFINE r == Refilled(buckets[k])
  <1>1. /\ Capacity \in Nat \ {0} /\ tokenDuration \in Nat \ {0} /\ now \in Nat
        /\ TypeOK /\ k \in DOMAIN buckets
    BY BucketAssumption, TokenDuration DEF IInv, TypeOK, AllowRefuse
  <1>2. /\ DOMAIN buckets' = DOMAIN buckets /\ buckets'[k] = r
        /\ \A x \in DOMAIN buckets' : x # k => x \in DOMAIN buckets /\ buckets'[x] = buckets[x]
    <2>1. buckets' = Store(k, r) BY DEF AllowRefuse
    <2> QED BY <1>1, <2>1, StoreFacts
  <1>3. /\ r \in Bucket /\ r.lastFill <= now /\ now < r.lastFill + tokenDuration
        /\ r.lastAccessed = now /\ 0 <= r.tokens /\ r.tokens <= Capacity
    BY <1>1, RefilledFacts
  <1>4. r.lastFill = buckets[k].lastFill
    <2>1. /\ Earned(buckets[k]) \in Nat /\ Capped(buckets[k].tokens + Earned(buckets[k])) <= 0
          /\ r.lastFill = buckets[k].lastFill + Earned(buckets[k]) * tokenDuration
      BY <1>1, RefilledFacts DEF AllowRefuse
    <2>2. buckets[k].tokens \in Nat /\ buckets[k].lastFill \in Nat
      BY <1>1 DEF TypeOK, Bucket
    <2>3. Earned(buckets[k]) = 0
      BY <1>1, <2>1, <2>2, SMT DEF Capped
    <2> QED BY <1>1, <2>1, <2>2, <2>3
  <1>5. (winGrants[k] + r.tokens - winBudget[k]) * tokenDuration
          <= r.lastFill + tokenDuration - winStart[k]
    BY <1>1, RefillBalance
  <1> HIDE DEF r
  <1>6. TypeOK'
    BY <1>1, <1>2, <1>3, SMT DEF TypeOK, AllowRefuse
  <1>7. FillInv'
    BY <1>1, <1>2, <1>3, SMT DEF IInv, FillInv, AllowRefuse, tokenDuration
  <1>8. DenyInv'
    BY <1>1, <1>2, <1>3, <1>4, SMT DEF IInv, DenyInv, TypeOK, AllowRefuse
  <1>9. RateInv'
    BY <1>1, <1>2, <1>5, SMT DEF IInv, RateInv, TypeOK, AllowRefuse, tokenDuration
  <1> QED BY <1>6, <1>7, <1>8, <1>9 DEF IInv

-----------------------------------------------------------------------------
(* Forgetting keys, time and the observer *)

\* A reset hands out at most one burst, which the budget accounts for.
LEMMA ResetIInv ==
    ASSUME IInv, NEW K \in SUBSET Keys, Reset(K)
    PROVE  IInv'
  <1>1. /\ Capacity \in Nat \ {0} /\ tokenDuration \in Nat \ {0} /\ now \in Nat /\ TypeOK
    BY BucketAssumption, TokenDuration DEF IInv, TypeOK
  <1>2. /\ DOMAIN buckets' = DOMAIN buckets \ K
        /\ \A x \in DOMAIN buckets' : x \in DOMAIN buckets /\ buckets'[x] = buckets[x]
    <2>1. buckets' = Forget(K) BY DEF Reset
    <2> QED BY <2>1, ForgetFacts
  <1>3. TypeOK'
    BY <1>1, <1>2, SMT DEF TypeOK, Reset
  <1>4. FillInv'
    BY <1>1, <1>2, SMT DEF IInv, FillInv, Reset, tokenDuration
  <1>5. DenyInv'
    BY <1>1, <1>2, SMT DEF IInv, DenyInv, TypeOK, Reset
  <1>6. RateInv'
    <2>1. ASSUME NEW x \in K \cap DOMAIN buckets, winGrants[x] # 0
          PROVE  (winGrants[x] + Capacity - (winBudget[x] + Capacity)) * tokenDuration
                   <= now + tokenDuration - winStart[x]
      <3>1. /\ winGrants[x] \in Nat /\ winBudget[x] \in Nat /\ winStart[x] \in Nat
            /\ buckets[x].tokens \in Nat /\ buckets[x].lastFill \in Nat
            /\ buckets[x].lastFill <= now
        BY <1>1, SMT DEF TypeOK, Bucket
      <3>2. (winGrants[x] + buckets[x].tokens - winBudget[x]) * tokenDuration
              <= buckets[x].lastFill + tokenDuration - winStart[x]
        BY <2>1, SMT DEF IInv, RateInv, TypeOK
      <3>3. winGrants[x] + Capacity - (winBudget[x] + Capacity)
              <= winGrants[x] + buckets[x].tokens - winBudget[x]
        BY <1>1, <3>1
      <3>4. (winGrants[x] + Capacity - (winBudget[x] + Capacity)) * tokenDuration
              <= (winGrants[x] + buckets[x].tokens - winBudget[x]) * tokenDuration
        BY <1>1, <3>1, <3>3, MulMono, SMT
      <3>5. /\ (winGrants[x] + Capacity - (winBudget[x] + Capacity)) * tokenDuration \in Int
            /\ (winGrants[x] + buckets[x].tokens - winBudget[x]) * tokenDuration \in Int
        BY <1>1, <3>1, SMT
      <3> HIDE DEF tokenDuration
      <3> QED BY <1>1, <3>1, <3>2, <3>4, <3>5, SMT
    <2>2. ASSUME NEW x \in Keys, x \notin K \/ x \notin DOMAIN buckets
          PROVE  /\ winBudget'[x] = winBudget[x]
                 /\ x \in DOMAIN buckets' <=> x \in DOMAIN buckets
                 /\ x \in DOMAIN buckets => buckets'[x] = buckets[x]
      BY <1>2, <2>2, SMT DEF Reset
    <2>3. ASSUME NEW x \in K \cap DOMAIN buckets
          PROVE  winBudget'[x] = winBudget[x] + Capacity /\ x \notin DOMAIN buckets'
      BY <1>2, <2>3, SMT DEF Reset
    <2>4. UNCHANGED <<now, winGrants, winStart>> /\ tokenDuration' = tokenDuration
      BY DEF Reset, tokenDuration
    <2> SUFFICES ASSUME NEW x \in Keys, winGrants[x] # 0
                 PROVE  \/ /\ x \in DOMAIN buckets'
                           /\ (winGrants[x] + buckets'[x].tokens - winBudget'[x]) * tokenDuration
                                <= buckets'[x].lastFill + tokenDuration - winStart[x]
                        \/ /\ x \notin DOMAIN buckets'
                           /\ (winGrants[x] + Capacity - winBudget'[x]) * tokenDuration
                                <= now + tokenDuration - winStart[x]
      BY <2>4 DEF RateInv
    <2>5. CASE x \in K \cap DOMAIN buckets
      BY <2>1, <2>3, <2>5
    <2>6. CASE x \notin K \/ x \notin DOMAIN buckets
      BY <2>2, <2>6 DEF IInv, RateInv
    <2> QED BY <2>5, <2>6
  <1> QED BY <1>3, <1>4, <1>5, <1>6 DEF IInv

\* An entry dropped for being stale had refilled completely, because a whole
\* burst takes no longer than the TTL: dropping it gives the key nothing.
LEMMA CleanupIInv ==
    ASSUME IInv, CleanupStale
    PROVE  IInv'
  <1>1. /\ Capacity \in Nat \ {0} /\ tokenDuration \in Nat \ {0} /\ now \in Nat /\ TypeOK
        /\ Capacity * tokenDuration <= TTL /\ TTL \in Nat
    <2>1. Window \in Nat /\ TTL \in Nat /\ Window <= TTL /\ Capacity \in Nat \ {0}
      BY BucketAssumption
    <2>2. tokenDuration \in Nat \ {0} /\ Capacity * tokenDuration <= Window
      BY TokenDuration
    <2>3. Capacity * tokenDuration \in Nat
      BY <2>1, <2>2
    <2> QED BY <2>1, <2>2, <2>3 DEF IInv, TypeOK
  <1>2. /\ DOMAIN buckets' = DOMAIN buckets \ Stale
        /\ \A x \in DOMAIN buckets' : x \in DOMAIN buckets /\ buckets'[x] = buckets[x]
    <2>1. buckets' = Forget(Stale) BY DEF CleanupStale
    <2> QED BY <2>1, ForgetFacts
  <1>3. TypeOK'
    BY <1>1, <1>2, SMT DEF TypeOK, CleanupStale
  <1>4. FillInv'
    BY <1>1, <1>2, SMT DEF IInv, FillInv, CleanupStale, tokenDuration
  <1>5. DenyInv'
    BY <1>1, <1>2, SMT DEF IInv, DenyInv, TypeOK, CleanupStale
  <1>6. RateInv'
    <2>1. ASSUME NEW x \in Stale, winGrants[x] # 0
          PROVE  (winGrants[x] + Capacity - winBudget[x]) * tokenDuration
                   <= now + tokenDuration - winStart[x]
      <3>1. /\ winGrants[x] \in Nat /\ winBudget[x] \in Nat /\ winStart[x] \in Nat
            /\ buckets[x].tokens \in Nat /\ buckets[x].lastFill \in Nat
            /\ buckets[x].lastFill + TTL < now
        BY <1>1, SMT DEF TypeOK, Bucket, Stale
      <3>2. (winGrants[x] + buckets[x].tokens - winBudget[x]) * tokenDuration
              <= buckets[x].lastFill + tokenDuration - winStart[x]
        BY <2>1, SMT DEF IInv, RateInv, TypeOK, Stale
      <3>3. winGrants[x] + Capacity - winBudget[x]
              <= (winGrants[x] + buckets[x].tokens - winBudget[x]) + Capacity
        BY <1>1, <3>1
      <3>4. (winGrants[x] + Capacity - winBudget[x]) * tokenDuration
              <= ((winGrants[x] + buckets[x].tokens - winBudget[x]) + Capacity) * tokenDuration
        BY <1>1, <3>1, <3>3, MulMono, SMT
      <3>5. ((winGrants[x] + buckets[x].tokens - winBudget[x]) + Capacity) * tokenDuration
              = (winGrants[x] + buckets[x].tokens - winBudget[x]) * tokenDuration
                  + Capacity * tokenDuration
        BY <1>1, <3>1, MulAdd, SMT
      <3>6. /\ (winGrants[x] + Capacity - winBudget[x]) * tokenDuration \in Int
            /\ (winGrants[x] + buckets[x].tokens - winBudget[x]) * tokenDuration \in Int
            /\ Capacity * tokenDuration \in Int
        BY <1>1, <3>1, SMT
      <3> QED BY <1>1, <3>1, <3>2, <3>4, <3>5, <3>6, SMT
    <2>2. \A x \in Keys : x \in DOMAIN buckets' <=> x \in DOMAIN buckets /\ x \notin Stale
      BY <1>2
    <2>3. /\ UNCHANGED <<now, winGrants, winStart, winBudget>> /\ tokenDuration' = tokenDuration
          /\ Stale \subseteq DOMAIN buckets
      BY DEF CleanupStale, tokenDuration, Stale
    <2> SUFFICES ASSUME NEW x \in Keys, winGrants[x] # 0
                 PROVE  \/ /\ x \in DOMAIN buckets'
                           /\ (winGrants[x] + buckets'[x].tokens - winBudget[x]) * tokenDuration
                                <= buckets'[x].lastFill + tokenDuration - winStart[x]
                        \/ /\ x \notin DOMAIN buckets'
                           /\ (winGrants[x] + Capacity - winBudget[x]) * tokenDuration
                                <= now + tokenDuration - winStart[x]
      BY <2>3 DEF RateInv
    <2>4. CASE x \in Stale
      BY <2>1, <2>2, <2>4
    <2>5. CASE x \notin Stale
      BY <1>2, <2>2, <2>5 DEF IInv, RateInv
    <2> QED BY <2>4, <2>5
  <1> QED BY <1>3, <1>4, <1>5, <1>6 DEF IInv

\* The passing of time preserves the inductive invariant.
LEMMA TickIInv ==
    ASSUME IInv, Tick
    PROVE  IInv'
  <1>1. now \in Nat /\ now' = now + 1 /\ UNCHANGED <<buckets, answer, hist>>
    BY DEF IInv, TypeOK, Tick
  <1>2. TypeOK'
    BY <1>1, SMT DEF IInv, TypeOK, hist, Bucket
  <1>3. FillInv' /\ DenyInv'
    BY <1>1 DEF IInv, FillInv, DenyInv, hist, tokenDuration
  <1>4. RateInv'
    <2>1. tokenDuration \in Nat /\ Capacity \in Nat
      BY TokenDuration, BucketAssumption
    <2>2. ASSUME NEW k \in Keys,
                 (winGrants[k] + Capacity - winBudget[k]) * tokenDuration
                    <= now + tokenDuration - winStart[k]
          PROVE  (winGrants[k] + Capacity - winBudget[k]) * tokenDuration
                    <= now' + tokenDuration - winStart[k]
      <3>1. /\ winStart[k] \in Nat
            /\ (winGrants[k] + Capacity - winBudget[k]) * tokenDuration \in Int
        BY <2>1, SMT DEF IInv, TypeOK
      <3> QED BY <1>1, <2>1, <2>2, <3>1, SMT
    <2> QED BY <1>1, <2>2 DEF IInv, RateInv, hist, tokenDuration
  <1> QED BY <1>2, <1>3, <1>4 DEF IInv

\* Starting to observe preserves the inductive invariant.
LEMMA ObserveIInv ==
    ASSUME IInv, NEW k \in Keys, Observe(k)
    PROVE  IInv'
  <1>1. Capacity \in Nat \ {0} BY BucketAssumption
  <1>2. TypeOK' BY <1>1, SMT DEF IInv, TypeOK, Observe, Bucket
  <1>3. FillInv' /\ DenyInv' BY DEF IInv, FillInv, DenyInv, Observe, tokenDuration
  <1>4. RateInv' BY SMT DEF IInv, TypeOK, RateInv, Observe, tokenDuration
  <1> QED BY <1>2, <1>3, <1>4 DEF IInv

\* Every step preserves the inductive invariant.
LEMMA NextIInv == IInv /\ [Next]_vars => IInv'
  <1> SUFFICES ASSUME IInv, [Next]_vars PROVE IInv'
    OBVIOUS
  <1>1. ASSUME NEW k \in Keys, Allow(k) PROVE IInv'
    BY <1>1, FirstIInv, TakeIInv, RefuseIInv DEF Allow
  <1>2. ASSUME NEW k \in Keys, Reset({k}) PROVE IInv'
    BY <1>2, ResetIInv
  <1>3. CASE Reset(Keys)
    BY <1>3, ResetIInv
  <1>4. CASE CleanupStale
    BY <1>4, CleanupIInv
  <1>5. CASE Tick
    BY <1>5, TickIInv
  <1>6. ASSUME NEW k \in Keys, Observe(k) PROVE IInv'
    BY <1>6, ObserveIInv
  <1>7. CASE UNCHANGED vars
    BY <1>7 DEF vars, IInv, TypeOK, FillInv, DenyInv, RateInv, tokenDuration, Bucket
  <1> QED BY <1>1, <1>2, <1>3, <1>4, <1>5, <1>6, <1>7 DEF Next

-----------------------------------------------------------------------------
(* Theorems *)

\* The inductive invariant holds in every reachable state.
LEMMA Invariance == Spec => []IInv
  BY InitIInv, NextIInv, PTL DEF Spec

\* token_bucket.go never stores a bucket with fewer than zero or more than
\* Capacity tokens, nor a lastFill in the future, for any settings.
THEOREM TypeCorrect == Spec => []TypeOK
  <1>1. IInv => TypeOK BY DEF IInv
  <1> QED BY <1>1, Invariance, PTL

\* Whatever the settings and however Allow, Reset, ResetAll and CleanupStale
\* interleave, the updates granted from any moment on stay below the rate bound.
THEOREM RateBounded == Spec => []RateBound
  <1>1. IInv => RateBound
    <2> SUFFICES ASSUME IInv, NEW k \in Keys
                 PROVE winGrants[k] <= winBudget[k] + (now - winStart[k]) \div tokenDuration + 1
      BY DEF RateBound
    <2> DEFINE D == tokenDuration
               g == winGrants[k]
               w == winBudget[k]
               a == now - winStart[k]
    <2>1. /\ D \in Nat \ {0} /\ g \in Nat /\ w \in Nat /\ a \in Nat /\ Capacity \in Nat
          /\ now \in Nat /\ winStart[k] \in Nat
      BY TokenDuration, BucketAssumption DEF IInv, TypeOK
    <2>2. a \div D \in Nat
      BY <2>1, DivBounds
    <2>3. ASSUME NEW t \in Nat, NEW f \in Nat, f <= now,
                 (g + t - w) * D <= f + D - winStart[k]
          PROVE  g - w - 1 <= a \div D
      <3>1. g - w - 1 <= (g + t - w) - 1 /\ (g + t - w) - 1 \in Int /\ (g + t - w) \in Int
        BY <2>1
      <3>2. (g - w - 1) * D <= ((g + t - w) + (-1)) * D
        BY <2>1, <3>1, MulMono, SMT
      <3>3. ((g + t - w) + (-1)) * D = (g + t - w) * D + (-1) * D
        BY <2>1, <3>1, MulAdd, SMT
      <3>4. (g - w - 1) * D \in Int /\ (g + t - w) * D \in Int /\ (-1) * D = -D
        BY <2>1, SMT
      <3> HIDE DEF D, g, w
      <3>5. (g - w - 1) * D <= a
        BY <2>1, <2>3, <3>2, <3>3, <3>4, SMT
      <3> HIDE DEF a
      <3> QED BY <2>1, <3>5, DivLower, SMT
    <2>4. g = 0 \/ g - w - 1 <= a \div D
      <3>1. CASE k \in DOMAIN buckets
        <4>1. buckets[k].tokens \in Nat /\ buckets[k].lastFill \in Nat /\ buckets[k].lastFill <= now
          BY <2>1, <3>1, SMT DEF IInv, TypeOK, Bucket
        <4> QED BY <2>3, <3>1, <4>1 DEF IInv, RateInv
      <3>2. CASE k \notin DOMAIN buckets
        BY <2>1, <2>3, <3>2, SMT DEF IInv, RateInv
      <3> QED BY <3>1, <3>2
    <2> HIDE DEF D, g, w, a
    <2>5. g <= w + a \div D + 1
      BY <2>1, <2>2, <2>4, SMT
    <2> QED BY <2>5 DEF D, g, w, a
  <1> QED BY <1>1, Invariance, PTL

\* For any settings, a caller that keeps trying is refused for less than a
\* tokenDuration.
THEOREM RefusalBounded == Spec => []RefusalIsShort
  <1>1. IInv => RefusalIsShort
    <2> SUFFICES ASSUME IInv, NEW k \in DOMAIN buckets, deniedSince[k] # -1
                 PROVE  buckets[k].lastAccessed - deniedSince[k] < tokenDuration
      BY DEF RefusalIsShort
    <2>1. /\ buckets[k].lastAccessed \in Nat /\ buckets[k].lastFill \in Nat
          /\ deniedSince[k] \in Nat /\ tokenDuration \in Nat
      BY TokenDuration DEF IInv, TypeOK, Bucket
    <2>2. /\ buckets[k].lastAccessed < buckets[k].lastFill + tokenDuration
          /\ buckets[k].lastFill <= deniedSince[k]
      BY DEF IInv, FillInv, DenyInv
    <2> HIDE DEF tokenDuration
    <2> QED BY <2>1, <2>2, SMT
  <1> QED BY <1>1, Invariance, PTL

-----------------------------------------------------------------------------
(* TokenBucket implements RateLimiter *)

\* What GetTokens returns for an entry, and that it is a level of the limiter.
LEMMA LevelType ==
    ASSUME IInv, NEW k \in Keys
    PROVE  /\ GetTokens(k) \in 0 .. Capacity
           /\ k \in DOMAIN buckets => GetTokens(k) = Refilled(buckets[k]).tokens
           /\ k \notin DOMAIN buckets => GetTokens(k) = Capacity
  <1>1. TypeOK /\ Capacity \in Nat BY BucketAssumption DEF IInv
  <1>2. CASE k \in DOMAIN buckets
    <2>1. /\ Refilled(buckets[k]).tokens = Capped(buckets[k].tokens + Earned(buckets[k]))
          /\ Refilled(buckets[k]).tokens \in Int
          /\ 0 <= Refilled(buckets[k]).tokens /\ Refilled(buckets[k]).tokens <= Capacity
      BY <1>1, <1>2, RefilledFacts DEF Bucket
    <2> QED BY <1>1, <1>2, <2>1 DEF GetTokens
  <1>3. CASE k \notin DOMAIN buckets
    BY <1>1, <1>3 DEF GetTokens
  <1> QED BY <1>2, <1>3

\* A bucket filled less than a tokenDuration ago has earned nothing more.
LEMMA FreshLevel ==
    ASSUME TypeOK', NEW k \in Keys, k \in DOMAIN buckets',
           now' < buckets'[k].lastFill + tokenDuration
    PROVE  GetTokens(k)' = buckets'[k].tokens
  <1>1. /\ tokenDuration \in Nat \ {0} /\ Capacity \in Nat /\ now' \in Nat
        /\ buckets'[k].tokens \in Int /\ 0 <= buckets'[k].tokens /\ buckets'[k].tokens <= Capacity
        /\ buckets'[k].lastFill \in Nat /\ buckets'[k].lastFill <= now'
    BY TokenDuration, BucketAssumption, SMT DEF TypeOK, Bucket
  <1> DEFINE a == now' - buckets'[k].lastFill
  <1>2. a \in Nat /\ a < tokenDuration
    BY <1>1
  <1>3. a \div tokenDuration = 0
    <2> HIDE DEF a
    <2>1. \A x \in Nat, d \in Nat \ {0} : x < d => x \div d = 0 BY SMT
    <2> QED BY <1>1, <1>2, <2>1
  <1>4. Earned(buckets[k])' = 0
    BY <1>1, <1>3 DEF Earned, tokenDuration
  <1>5. GetTokens(k)' = Capped(buckets'[k].tokens + 0)
    BY <1>4 DEF GetTokens, Capped
  <1> QED BY <1>1, <1>5, SMT DEF Capped

\* The level of a key whose entry did not change is unchanged within an instant.
LEMMA SameLevel ==
    ASSUME NEW k \in Keys, now' = now,
           \/ k \in DOMAIN buckets' /\ k \in DOMAIN buckets /\ buckets'[k] = buckets[k]
           \/ k \notin DOMAIN buckets' /\ k \notin DOMAIN buckets
    PROVE  GetTokens(k)' = GetTokens(k)
  BY DEF GetTokens, Capped, Earned, tokenDuration

\* Time only adds to the level of a key.
LEMMA TickLevel ==
    ASSUME IInv, IInv', Tick, NEW k \in Keys
    PROVE  GetTokens(k) <= GetTokens(k)' /\ GetTokens(k)' \in 0 .. Capacity
  <1>1. /\ now \in Nat /\ now' = now + 1 /\ buckets' = buckets
        /\ Capacity \in Nat /\ tokenDuration \in Nat \ {0} /\ TypeOK
    BY TokenDuration, BucketAssumption DEF IInv, TypeOK, Tick
  <1>2. CASE k \in DOMAIN buckets
    <2> DEFINE f == buckets[k].lastFill
               n == (now - f) \div tokenDuration
               m == (now' - f) \div tokenDuration
    <2>1. f \in Nat /\ f <= now /\ buckets[k].tokens \in Nat
      BY <1>1, <1>2, SMT DEF TypeOK, Bucket
    <2>2. now - f \in Nat /\ now' - f \in Nat /\ now - f <= now' - f
      BY <1>1, <2>1
    <2>3. n \in Nat /\ n * tokenDuration <= now - f /\ m \in Nat
      BY <1>1, <2>2, DivBounds
    <2>4. n * tokenDuration <= now' - f
      BY <1>1, <2>2, <2>3
    <2>5. n <= m
      <3> HIDE DEF n
      <3> QED BY <1>1, <2>2, <2>3, <2>4, DivLower
    <2>6. Earned(buckets[k]) = n /\ Earned(buckets[k])' = m
      BY <1>1 DEF Earned, tokenDuration
    <2> HIDE DEF n, m
    <2>7. GetTokens(k) = Capped(buckets[k].tokens + n) /\ GetTokens(k)' = Capped(buckets[k].tokens + m)
      BY <1>1, <1>2, <2>6 DEF GetTokens, Capped
    <2> QED BY <1>1, <2>1, <2>3, <2>5, <2>7, SMT DEF Capped
  <1>3. CASE k \notin DOMAIN buckets
    BY <1>1, <1>3 DEF GetTokens
  <1> QED BY <1>2, <1>3

\* A stale entry has a full level before it is dropped.
LEMMA StaleLevel ==
    ASSUME IInv, NEW k \in Stale
    PROVE  GetTokens(k) = Capacity
  <1>1. /\ now \in Nat /\ TypeOK /\ TTL \in Nat /\ Capacity \in Nat \ {0}
        /\ Window \in Nat /\ Window <= TTL
        /\ tokenDuration \in Nat \ {0} /\ Capacity * tokenDuration <= Window
    BY TokenDuration, BucketAssumption DEF IInv, TypeOK
  <1> DEFINE b == buckets[k]
             n == (now - b.lastFill) \div tokenDuration
  <1>2. /\ k \in DOMAIN buckets /\ k \in Keys /\ b.lastFill \in Nat /\ b.tokens \in Nat
        /\ TTL < now - b.lastFill
    BY <1>1, SMT DEF TypeOK, Bucket, Stale
  <1>3. now - b.lastFill \in Nat /\ Capacity * tokenDuration \in Nat
    BY <1>1, <1>2
  <1>4. Capacity * tokenDuration <= now - b.lastFill
    BY <1>1, <1>2, <1>3
  <1>5. Capacity <= n
    BY <1>1, <1>3, <1>4, DivLower
  <1>6. n \in Nat
    BY <1>1, <1>3, DivBounds
  <1>7. Earned(b) = n
    BY <1>1 DEF Earned
  <1> HIDE DEF n
  <1>8. Capped(b.tokens + n) = Capacity
    BY <1>1, <1>2, <1>5, <1>6, SMT DEF Capped
  <1> QED BY <1>2, <1>7, <1>8 DEF GetTokens

\* The refinement mapping's level.
Level == [k \in Keys |-> GetTokens(k)]

\* A granted request is a Grant of the limiter.
LEMMA GrantRefines ==
    ASSUME IInv, IInv', NEW k \in Keys, AllowFirst(k) \/ AllowTake(k)
    PROVE  Limiter!Grant(k)
  <1>1. /\ now' = now /\ now \in Nat /\ Capacity \in Nat \ {0} /\ tokenDuration \in Nat \ {0}
        /\ TypeOK /\ TypeOK'
    BY TokenDuration, BucketAssumption DEF IInv, TypeOK, AllowFirst, AllowTake, Granted
  <1>2. \A x \in Keys : x # k => GetTokens(x)' = GetTokens(x)
    <2>1. PICK b : buckets' = Store(k, b) BY DEF AllowFirst, AllowTake
    <2>2. SUFFICES ASSUME NEW x \in Keys, x # k PROVE GetTokens(x)' = GetTokens(x)
      OBVIOUS
    <2>3. \/ x \in DOMAIN buckets' /\ x \in DOMAIN buckets /\ buckets'[x] = buckets[x]
          \/ x \notin DOMAIN buckets' /\ x \notin DOMAIN buckets
      BY <2>1, <2>2, StoreFacts
    <2>4. now' = now BY <1>1
    <2> QED BY <2>3, <2>4, SameLevel
  <1>3. GetTokens(k) > 0 /\ GetTokens(k)' = GetTokens(k) - 1
    <2>1. CASE AllowFirst(k)
      <3>1. k \in DOMAIN buckets' /\ buckets'[k].tokens = Capacity - 1 /\ buckets'[k].lastFill = now
        BY <2>1 DEF AllowFirst, Store
      <3>2. now' < buckets'[k].lastFill + tokenDuration
        BY <1>1, <3>1
      <3>3. GetTokens(k)' = Capacity - 1
        BY <1>1, <3>1, <3>2, FreshLevel
      <3>4. GetTokens(k) = Capacity
        BY <2>1 DEF AllowFirst, GetTokens
      <3> QED BY <1>1, <3>3, <3>4
    <2>2. CASE AllowTake(k)
      <3> DEFINE r == Refilled(buckets[k])
      <3>1. /\ k \in DOMAIN buckets /\ r.tokens > 0 /\ r \in Bucket
            /\ now < r.lastFill + tokenDuration
        BY <1>1, <2>2, RefilledFacts DEF AllowTake
      <3>2. buckets' = Store(k, [r EXCEPT !.tokens = @ - 1])
        BY <2>2 DEF AllowTake
      <3> HIDE DEF r
      <3>3. k \in DOMAIN buckets' /\ buckets'[k].tokens = r.tokens - 1 /\ buckets'[k].lastFill = r.lastFill
        BY <3>1, <3>2 DEF Store, Bucket
      <3>4. GetTokens(k)' = r.tokens - 1
        BY <1>1, <3>1, <3>3, FreshLevel
      <3>5. GetTokens(k) = r.tokens
        BY <3>1, LevelType DEF r
      <3> QED BY <3>1, <3>4, <3>5
    <2> QED BY <2>1, <2>2
  <1>4. answer' = [answer EXCEPT ![k] = "granted"]
    BY DEF AllowFirst, AllowTake, Granted
  <1>5. Level[k] > 0 /\ Level' = [Level EXCEPT ![k] = @ - 1]
    BY <1>2, <1>3 DEF Level
  <1> QED BY <1>4, <1>5 DEF Limiter!Grant, Level

\* A refused request is a Throttle of the limiter.
LEMMA ThrottleRefines ==
    ASSUME IInv, IInv', NEW k \in Keys, AllowRefuse(k)
    PROVE  Limiter!Throttle(k)
  <1> DEFINE r == Refilled(buckets[k])
  <1>1. /\ now' = now /\ TypeOK /\ TypeOK' /\ k \in DOMAIN buckets
        /\ buckets' = Store(k, r) /\ r.tokens <= 0
    BY DEF IInv, AllowRefuse
  <1>2. now < r.lastFill + tokenDuration
    BY <1>1, RefilledFacts
  <1>3. GetTokens(k) = r.tokens /\ GetTokens(k) \in 0 .. Capacity
    BY <1>1, LevelType
  <1> HIDE DEF r
  <1>4. k \in DOMAIN buckets' /\ buckets'[k] = r
    BY <1>1, StoreFacts
  <1>5. GetTokens(k)' = r.tokens
    BY <1>1, <1>2, <1>4, FreshLevel
  <1>6. ASSUME NEW x \in Keys, x # k PROVE GetTokens(x)' = GetTokens(x)
    <2>1. \/ x \in DOMAIN buckets' /\ x \in DOMAIN buckets /\ buckets'[x] = buckets[x]
          \/ x \notin DOMAIN buckets' /\ x \notin DOMAIN buckets
      BY <1>1, <1>6, StoreFacts
    <2>2. now' = now BY <1>1
    <2> QED BY <2>1, <2>2, SameLevel
  <1>7. Level[k] = 0 /\ Level' = Level
    BY <1>1, <1>3, <1>5, <1>6, BucketAssumption DEF Level
  <1>8. answer' = [answer EXCEPT ![k] = "throttled"]
    BY DEF AllowRefuse
  <1> QED BY <1>7, <1>8 DEF Limiter!Throttle, Level

\* A reset of the bucket is a Reset of the limiter.
LEMMA ResetRefines ==
    ASSUME IInv, NEW K \in SUBSET Keys, Reset(K)
    PROVE  Limiter!Reset(K)
  <1>1. now' = now /\ buckets' = Forget(K) /\ answer' = answer
    BY DEF Reset
  <1>2. /\ DOMAIN buckets' = DOMAIN buckets \ K
        /\ \A x \in DOMAIN buckets' : buckets'[x] = buckets[x]
    BY <1>1, ForgetFacts
  <1>3. \A x \in Keys : x \in K => GetTokens(x)' = Capacity
    BY <1>2 DEF GetTokens
  <1>4. \A x \in Keys : x \notin K => GetTokens(x)' = GetTokens(x)
    BY <1>1, <1>2, SameLevel
  <1>5. Level' = [k \in Keys |-> IF k \in K THEN Capacity ELSE Level[k]]
    BY <1>3, <1>4 DEF Level
  <1> QED BY <1>1, <1>5 DEF Limiter!Reset, Level

\* CleanupStale leaves every level alone.
LEMMA CleanupLevel ==
    ASSUME IInv, CleanupStale
    PROVE  \A x \in Keys : GetTokens(x)' = GetTokens(x)
  <1>1. now' = now /\ buckets' = Forget(Stale)
    BY DEF CleanupStale
  <1>2. /\ DOMAIN buckets' = DOMAIN buckets \ Stale
        /\ \A x \in DOMAIN buckets' : buckets'[x] = buckets[x]
    BY <1>1, ForgetFacts
  <1>3. \A x \in Keys : x \in Stale => GetTokens(x)' = Capacity
    BY <1>2 DEF GetTokens
  <1>4. \A x \in Keys : x \notin Stale => GetTokens(x)' = GetTokens(x)
    BY <1>1, <1>2, SameLevel
  <1> QED BY <1>3, <1>4, StaleLevel

\* For any settings with a TTL of at least one window, dropping idle entries
\* changes for no key how many updates it has left.
THEOREM CleanupNotObserved == Spec => CleanupUnobservable
  <1>1. IInv => [CleanupStale => \A k \in Keys : GetTokens(k)' = GetTokens(k)]_vars
    BY CleanupLevel
  <1> QED BY <1>1, Invariance, PTL DEF Spec, CleanupUnobservable

\* CleanupStale is a stutter of the limiter.
LEMMA CleanupRefines ==
    ASSUME IInv, CleanupStale
    PROVE  UNCHANGED Limiter!vars
  <1>1. answer' = answer BY DEF CleanupStale
  <1>2. Level' = Level BY CleanupLevel DEF Level
  <1> QED BY <1>1, <1>2 DEF Limiter!vars, Level

\* Every step of the bucket is a step or a stutter of the limiter.
LEMMA StepRefines == IInv /\ IInv' /\ [Next]_vars => [Limiter!Next]_(Limiter!vars)
  <1> SUFFICES ASSUME IInv, IInv', [Next]_vars PROVE [Limiter!Next]_(Limiter!vars)
    OBVIOUS
  <1>1. ASSUME NEW k \in Keys, Allow(k) PROVE Limiter!Next
    BY <1>1, GrantRefines, ThrottleRefines DEF Allow, Limiter!Next
  <1>2. ASSUME NEW k \in Keys, Reset({k}) PROVE Limiter!Next
    <2>1. {k} \in SUBSET Keys OBVIOUS
    <2> QED BY <1>2, <2>1, ResetRefines DEF Limiter!Next
  <1>3. CASE Reset(Keys)
    <2>1. Keys \in SUBSET Keys OBVIOUS
    <2> QED BY <1>3, <2>1, ResetRefines DEF Limiter!Next
  <1>4. CASE CleanupStale
    BY <1>4, CleanupRefines
  <1>5. CASE Tick
    <2>1. \A k \in Keys : GetTokens(k)' \in 0 .. Capacity
      BY <1>5, TickLevel
    <2>2. \A k \in Keys : GetTokens(k)' >= GetTokens(k)
      BY <1>5, TickLevel, <2>1, LevelType
    <2>3. Level' \in [Keys -> 0 .. Capacity] /\ (\A k \in Keys : Level'[k] >= Level[k])
      BY <2>1, <2>2 DEF Level
    <2>4. answer' = answer BY <1>5 DEF Tick
    <2> QED BY <2>3, <2>4 DEF Limiter!Next, Limiter!Refill, Level
  <1>6. ASSUME NEW k \in Keys, Observe(k) PROVE UNCHANGED Limiter!vars
    <2>1. buckets' = buckets /\ now' = now /\ answer' = answer
      BY <1>6 DEF Observe
    <2>2. Level' = Level BY <2>1, SameLevel DEF Level
    <2> QED BY <2>1, <2>2 DEF Limiter!vars, Level
  <1>7. CASE UNCHANGED vars
    <2>1. buckets' = buckets /\ now' = now /\ answer' = answer
      BY <1>7 DEF vars
    <2>2. Level' = Level BY <2>1, SameLevel DEF Level
    <2> QED BY <2>1, <2>2 DEF Limiter!vars, Level
  <1> QED BY <1>1, <1>2, <1>3, <1>4, <1>5, <1>6, <1>7 DEF Next

\* For any settings, the token bucket behaves like the clock-free limiter that
\* the patcher is modelled against.
THEOREM LimiterImplemented == Spec => ImplementsLimiter
  <1>1. Init => Limiter!Init
    BY DEF Init, Limiter!Init, GetTokens
  <1> QED BY <1>1, Invariance, StepRefines, PTL DEF Spec, ImplementsLimiter, Limiter!Spec
=============================================================================
