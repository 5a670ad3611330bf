---------------------------- MODULE RateLimiter ----------------------------
(***************************************************************************)
(* What throttling.TokenBucket promises its caller, without clocks or map  *)
(* entries: every key has a number of updates left, a call is granted      *)
(* exactly when that number is positive and uses one up, time may only     *)
(* give updates back (never above the capacity), and a reset gives all of  *)
(* them back.  When time does so is left open, so that forgetting an idle  *)
(* key too early is not excluded here (TokenBucket!CleanupUnobservable is  *)
(* about that).  The patcher is modelled against this specification;       *)
(* TokenBucket is shown to implement it.                                   *)
(***************************************************************************)
EXTENDS Integers

CONSTANTS Keys,      \* the resource keys of MakeResourceKey
          Capacity   \* updates a full bucket holds (DefaultCapacity)

VARIABLES level,     \* level[k]: updates k has left
          answer     \* answer[k]: what the last call for k was told

vars == <<level, answer>>

Answers == {"none", "granted", "throttled"}

Init ==
    /\ level = [k \in Keys |-> Capacity]
    /\ answer = [k \in Keys |-> "none"]

Grant(k) ==
    /\ level[k] > 0
    /\ level' = [level EXCEPT ![k] = @ - 1]
    /\ answer' = [answer EXCEPT ![k] = "granted"]

Throttle(k) ==
    /\ level[k] = 0
    /\ level' = level
    /\ answer' = [answer EXCEPT ![k] = "throttled"]

Refill ==
    /\ level' \in [Keys -> 0 .. Capacity]
    /\ \A k \in Keys : level'[k] >= level[k]
    /\ answer' = answer

Reset(K) ==
    /\ level' = [k \in Keys |-> IF k \in K THEN Capacity ELSE level[k]]
    /\ answer' = answer

Next ==
    \/ \E k \in Keys : Grant(k) \/ Throttle(k)
    \/ \E K \in SUBSET Keys : Reset(K)
    \/ Refill

Spec == Init /\ [][Next]_vars
=============================================================================
