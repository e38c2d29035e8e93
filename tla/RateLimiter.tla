----------------------------- MODULE RateLimiter -----------------------------
(***************************************************************************)
(* The gateway's rate limiter: a fixed window per client that opens with   *)
(* the client's first request after the last one has ended.  allow runs    *)
(* under a mutex and is one step.  The buckets live in memory: a restart   *)
(* of the gateway empties them.                                            *)
(***************************************************************************)
EXTENDS Naturals, FiniteSets, Sequences

CONSTANTS Clients,  \* what clientKey may return
          Limit,    \* GATEWAY_RATE_LIMIT_REQUESTS
          Window,   \* GATEWAY_RATE_LIMIT_WINDOW, in ticks of the clock
          MaxTime   \* bound: the clock

ASSUME LimiterAssumption ==
    /\ Limit \in Nat \ {0}
    /\ Window \in Nat \ {0}
    /\ MaxTime \in Nat

VARIABLES clock,     \* the time
          requests,  \* [Clients -> bucket]: the limiter's map
          passed     \* [Clients -> Seq(time)]: when this process let requests through

limiter == <<clock, requests, passed>>

\* A key that is not in the map reads as the zero bucket.
ZeroBucket == [count |-> 0, windowEnd |-> 0]

\* New: an empty map.
EmptyLimiter(map, history) ==
    /\ map = [c \in Clients |-> ZeroBucket]
    /\ history = [c \in Clients |-> <<>>]

LimiterInit == clock = 0 /\ EmptyLimiter(requests, passed)

-----------------------------------------------------------------------------
\* The count grows with every request, refused ones too; above the limit one
\* value is like another, so the model stops counting there.
counted(count) == IF count > Limit THEN count ELSE count + 1

\* Slip: every request, also a refused one, opens a new window.
bucketSliding(c) ==
    [count |-> IF clock >= requests[c].windowEnd THEN 1 ELSE counted(requests[c].count),
     windowEnd |-> clock + Window]

\* Slip: the window ends one tick early.
bucketEarly(c) ==
    IF clock + 1 >= requests[c].windowEnd
    THEN [count |-> 1, windowEnd |-> clock + Window]
    ELSE [requests[c] EXCEPT !.count = counted(@)]

\* The client's bucket after one more request at this time.
bucket(c) ==
    IF clock >= requests[c].windowEnd
    THEN [count |-> 1, windowEnd |-> clock + Window]
    ELSE [requests[c] EXCEPT !.count = counted(@)]

allowed(c) == bucket(c).count <= Limit

\* allow: the bucket is stored whether the request is let through or not.
allow(c) ==
    /\ requests' = [requests EXCEPT ![c] = bucket(c)]
    /\ passed' = IF allowed(c) THEN [passed EXCEPT ![c] = Append(@, clock)] ELSE passed
    /\ UNCHANGED clock

LimiterTick ==
    /\ clock < MaxTime
    /\ clock' = clock + 1
    /\ UNCHANGED <<requests, passed>>

LimiterNext == LimiterTick \/ \E c \in Clients : allow(c)

LimiterSpec == LimiterInit /\ [][LimiterNext]_limiter

-----------------------------------------------------------------------------
\* A fixed window lets more than Limit requests through around its boundary
\* (limiter.go:52-66), but never twice as many: any window's span meets at most
\* two buckets, and it misses the request that opened the first of them or those
\* of the second.  Of 2 * Limit requests in a row the first and the last are a
\* window apart.
LessThanTwiceLimit ==
    \A c \in Clients : \A i, k \in DOMAIN passed[c] :
        k = i + 2 * Limit - 1 => passed[c][k] >= passed[c][i] + Window

\* 429 is only for a client that has used up its limit (limiter.go:41-45): a
\* request that would be refused now comes after Limit requests of the same
\* client that were let through less than a window ago, however many were
\* refused since.
RefusedOnlyWhenExhausted ==
    \A c \in Clients : ~allowed(c) =>
        /\ Len(passed[c]) >= Limit
        /\ passed[c][Len(passed[c]) - Limit + 1] + Window > clock
=============================================================================
