---------------------------- MODULE GatewayProofs ----------------------------
(***************************************************************************)
(* Proofs about the gateway and its rate limiter, for any clients, limit,  *)
(* window, requests, routes and tokens, and any number of requests at once *)
(* and of stops.                                                           *)
(***************************************************************************)
EXTENDS Gateway, TLAPS

(***************************************************************************)
(* The limiter.  The last requests that were let through are those of the  *)
(* client's bucket: they are as many as it has counted, up to the limit,   *)
(* and the first of them opened the window.                                *)
(***************************************************************************)
LimiterTypes ==
    /\ clock \in Nat
    /\ requests \in [Clients -> [count: Nat, windowEnd: Nat]]
    /\ passed \in [Clients -> Seq(Nat)]

\* The requests of the bucket that were let through.
InBucket(c) == IF requests[c].count <= Limit THEN requests[c].count ELSE Limit

\* Where the window begins in the history.
Opened(c) == Len(passed[c]) - InBucket(c) + 1

\* The bucket is the end of the history; whatever comes Limit requests before its
\* opening is a window older.
BucketIsLast(c) ==
    /\ InBucket(c) <= Len(passed[c])
    /\ requests[c].windowEnd <= clock + Window
    /\ \A i \in DOMAIN passed[c] : passed[c][i] <= clock
    /\ requests[c].count = 0 => passed[c] = <<>> /\ requests[c].windowEnd = 0
    /\ requests[c].count > 0 => passed[c][Opened(c)] + Window = requests[c].windowEnd
    /\ \A i \in DOMAIN passed[c] : i <= Opened(c) => passed[c][i] + Window <= requests[c].windowEnd
    /\ \A i \in DOMAIN passed[c] :
         i <= Opened(c) - Limit => passed[c][i] + 2 * Window <= requests[c].windowEnd

Apart(c) ==
    \A i, k \in DOMAIN passed[c] :
        k = i + 2 * Limit - 1 => passed[c][k] >= passed[c][i] + Window

LimiterInv ==
    /\ LimiterTypes
    /\ \A c \in Clients : BucketIsLast(c) /\ Apart(c)

(***************************************************************************)
(* The requests.  What the service replied and what the client got agree   *)
(* with the effect of the handler, and a request that was answered without *)
(* giving up on the service is not under way any more.                     *)
(***************************************************************************)
Refusals == {400, 401, 404, 405, 429}

SlotTypes ==
    /\ gateway \in [Slots -> {"free", "proxying", "answered"}]
    /\ upstream \in [Slots -> {"none", "arrived", "working", "replied", "gone"}]
    /\ effect \in [Slots -> BOOLEAN]
    /\ DOMAIN reply = Slots /\ DOMAIN code = Slots
    /\ reply = [i \in Slots |-> reply[i]] /\ code = [i \in Slots |-> code[i]]

SlotInv(i) ==
    /\ gateway[i] = "free" => upstream[i] = "none"
    /\ upstream[i] \in {"none", "arrived"} => ~effect[i]
    /\ upstream[i] = "replied" =>
         /\ reply[i] = 200 => effect[i]
         /\ reply[i] \in Refusals => ~effect[i]
    /\ gateway[i] = "answered" =>
         /\ code[i] = 200 => effect[i]
         /\ code[i] \in Refusals => ~effect[i]
         /\ code[i] \in Refusals \cup {200} => upstream[i] \notin {"arrived", "working"}

AnswerInv == SlotTypes /\ \A i \in Slots : SlotInv(i)

-----------------------------------------------------------------------------
\* The limiter starts with no bucket and no history.
LEMMA InitLimiter ==
    ASSUME clock \in Nat, EmptyLimiter(requests, passed)
    PROVE  LimiterInv
BY LimiterAssumption
   DEF EmptyLimiter, ZeroBucket, LimiterInv, LimiterTypes, BucketIsLast, Apart, InBucket, Opened

\* The same after a restart of the gateway.
LEMMA RestartLimiter ==
    ASSUME clock \in Nat, EmptyLimiter(requests', passed'), clock' = clock
    PROVE  LimiterInv'
BY LimiterAssumption
   DEF EmptyLimiter, ZeroBucket, LimiterInv, LimiterTypes, BucketIsLast, Apart, InBucket, Opened

\* Time passes.
LEMMA TickLimiter ==
    ASSUME LimiterInv, LimiterTick
    PROVE  LimiterInv'
<1>1. LimiterTypes'
  BY DEF LimiterInv, LimiterTypes, LimiterTick
<1>2. ASSUME NEW c \in Clients PROVE BucketIsLast(c)' /\ Apart(c)'
  <2>1. /\ requests'[c] = requests[c] /\ passed'[c] = passed[c] /\ clock' = clock + 1
        /\ requests[c].windowEnd \in Nat /\ clock \in Nat /\ Window \in Nat
        /\ passed[c] \in Seq(Nat)
    BY LimiterAssumption DEF LimiterInv, LimiterTypes, LimiterTick
  <2>2. InBucket(c)' = InBucket(c) /\ Opened(c)' = Opened(c)
    BY <2>1 DEF InBucket, Opened
  <2>3. BucketIsLast(c) /\ Apart(c)
    BY DEF LimiterInv
  <2>4. Apart(c)'
    BY <2>1, <2>3 DEF Apart
  <2>5. /\ requests[c].windowEnd <= clock' + Window
        /\ \A i \in DOMAIN passed[c] : passed[c][i] <= clock'
    BY <2>1, <2>3 DEF BucketIsLast
  <2> QED
    BY <2>1, <2>2, <2>3, <2>4, <2>5 DEF BucketIsLast
<1> QED
  BY <1>1, <1>2 DEF LimiterInv

\* What a client does leaves the others' buckets alone.
LEMMA OtherClients ==
    ASSUME LimiterInv, LimiterTypes', NEW c \in Clients, clock' = clock,
           \A d \in Clients \ {c} : requests'[d] = requests[d] /\ passed'[d] = passed[d],
           BucketIsLast(c)', Apart(c)'
    PROVE  LimiterInv'
<1>1. ASSUME NEW d \in Clients \ {c} PROVE BucketIsLast(d)' /\ Apart(d)'
  BY <1>1 DEF LimiterInv, BucketIsLast, Apart, InBucket, Opened
<1> QED
  BY <1>1 DEF LimiterInv

\* What the history looks like with one more request.
LEMMA LongerHistory ==
    ASSUME NEW h \in Seq(Nat), NEW t \in Nat
    PROVE  /\ Append(h, t) \in Seq(Nat)
           /\ Len(h) \in Nat /\ DOMAIN h = 1..Len(h) /\ \A i \in 1..Len(h) : h[i] \in Nat
           /\ Len(Append(h, t)) = Len(h) + 1 /\ DOMAIN Append(h, t) = 1..(Len(h) + 1)
           /\ \A i \in 1..Len(h) : Append(h, t)[i] = h[i]
           /\ Append(h, t)[Len(h) + 1] = t
           /\ \A i \in 1..(Len(h) + 1) : i \in 1..Len(h) \/ i = Len(h) + 1
OBVIOUS

\* A request that opens a window.
LEMMA OpensWindow ==
    ASSUME LimiterInv, NEW c \in Clients, clock >= requests[c].windowEnd,
           LimiterTypes', clock' = clock,
           requests'[c] = [count |-> 1, windowEnd |-> clock + Window],
           passed'[c] = Append(passed[c], clock)
    PROVE  BucketIsLast(c)' /\ Apart(c)'
<1> DEFINE h == passed[c]
           g == passed'[c]
           n == Len(h)
           w == requests[c].windowEnd
<1>1. /\ Limit \in Nat /\ Limit >= 1 /\ Window \in Nat /\ clock \in Nat /\ w \in Nat
      /\ InBucket(c) \in 0..Limit /\ InBucket(c) \in Nat
  BY LimiterAssumption DEF LimiterInv, LimiterTypes, InBucket
<1>2. /\ g \in Seq(Nat) /\ n \in Nat /\ DOMAIN h = 1..n /\ \A i \in 1..n : h[i] \in Nat
      /\ Len(g) = n + 1 /\ DOMAIN g = 1..(n + 1)
      /\ \A i \in 1..n : g[i] = h[i]
      /\ g[n + 1] = clock
      /\ \A i \in 1..(n + 1) : i \in 1..n \/ i = n + 1
  <2>1. h \in Seq(Nat)
    BY DEF LimiterInv, LimiterTypes
  <2> QED
    BY <1>1, <2>1, LongerHistory
<1>3. InBucket(c)' = 1 /\ Opened(c)' = n + 1 /\ Opened(c) = n - InBucket(c) + 1
  BY <1>1, <1>2 DEF InBucket, Opened
<1>4. /\ \A i \in 1..n : h[i] <= clock
      /\ \A i \in 1..n : i <= Opened(c) => h[i] + Window <= w
      /\ \A i, k \in 1..n : k = i + 2 * Limit - 1 => h[k] >= h[i] + Window
  BY <1>2 DEF LimiterInv, BucketIsLast, Apart
<1> HIDE DEF h, g, n, w
<1>5. \A i \in 1..(n + 1) : g[i] <= clock /\ g[i] + Window <= clock + Window
  BY <1>1, <1>2, <1>4
<1>6. \A i \in 1..(n + 1) : i <= Opened(c)' - Limit => g[i] + 2 * Window <= clock + Window
  <2> SUFFICES ASSUME NEW i \in 1..(n + 1), i <= Opened(c)' - Limit
               PROVE  g[i] + 2 * Window <= clock + Window
    OBVIOUS
  <2>1. i \in 1..n /\ i <= Opened(c)
    <3>1. /\ n \in Nat /\ Limit \in Nat /\ Limit >= 1
          /\ InBucket(c) \in Nat /\ InBucket(c) <= Limit
      BY <1>1, <1>2
    <3>2. i \in 1..n /\ i <= n + 1 - Limit
      BY <1>3, <3>1
    <3> QED
      BY <1>3, <3>1, <3>2
  <2>2. g[i] = h[i] /\ h[i] \in Nat /\ h[i] + Window <= w /\ w <= clock
    BY <1>2, <1>4, <2>1 DEF w
  <2> QED
    BY <1>1, <2>2
<1>7. \A i, k \in 1..(n + 1) : k = i + 2 * Limit - 1 => g[k] >= g[i] + Window
  <2> SUFFICES ASSUME NEW i \in 1..(n + 1), NEW k \in 1..(n + 1), k = i + 2 * Limit - 1
               PROVE  g[k] >= g[i] + Window
    OBVIOUS
  <2>1. CASE k \in 1..n
    <3>1. i \in 1..n
      BY <1>1, <1>2, <2>1
    <3> QED
      BY <1>2, <1>4, <2>1, <3>1
  <2>2. CASE k = n + 1
    <3>1. i \in 1..n /\ i <= Opened(c)
      BY <1>1, <1>2, <1>3, <2>2
    <3>2. g[i] = h[i] /\ h[i] \in Nat /\ h[i] + Window <= w /\ w <= clock /\ g[k] = clock
      BY <1>2, <1>4, <2>2, <3>1 DEF w
    <3> QED
      BY <1>1, <3>2
  <2> QED
    BY <1>2, <2>1, <2>2
<1>8. BucketIsLast(c)'
  <2>1. /\ requests'[c].count = 1 /\ requests'[c].windowEnd = clock + Window
        /\ passed'[c] = g /\ g[n + 1] + Window = clock + Window
        /\ 1 <= n + 1 /\ clock + Window <= clock + Window
    BY <1>1, <1>2 DEF g
  <2>2. InBucket(c)' <= Len(passed'[c]) /\ requests'[c].windowEnd <= clock' + Window
    BY <1>2, <1>3, <2>1
  <2>3. passed'[c][Opened(c)'] + Window = requests'[c].windowEnd /\ requests'[c].count # 0
    BY <1>3, <2>1
  <2>4. \A i \in DOMAIN passed'[c] :
          /\ passed'[c][i] <= clock'
          /\ i <= Opened(c)' => passed'[c][i] + Window <= requests'[c].windowEnd
    BY <1>2, <1>5, <2>1
  <2>5. \A i \in DOMAIN passed'[c] :
          i <= Opened(c)' - Limit => passed'[c][i] + 2 * Window <= requests'[c].windowEnd
    <3>1. DOMAIN passed'[c] = 1..(n + 1)
      BY <1>2, <2>1
    <3>2. requests'[c].windowEnd = clock + Window /\ passed'[c] = g
      BY <2>1
    <3> QED
      BY <3>1, <3>2, <1>6
  <2> QED
    BY <2>2, <2>3, <2>4, <2>5 DEF BucketIsLast
<1>9. Apart(c)'
  BY <1>2, <1>7 DEF Apart, g
<1> QED
  BY <1>8, <1>9

\* A request within the window that is let through.
LEMMA WithinWindow ==
    ASSUME LimiterInv, NEW c \in Clients, clock < requests[c].windowEnd,
           LimiterTypes', clock' = clock,
           requests[c].count < Limit,
           requests'[c].count = requests[c].count + 1,
           requests'[c].windowEnd = requests[c].windowEnd,
           passed'[c] = Append(passed[c], clock)
    PROVE  BucketIsLast(c)' /\ Apart(c)'
<1> DEFINE h == passed[c]
           g == passed'[c]
           n == Len(h)
           w == requests[c].windowEnd
           b == requests[c].count
<1>1. /\ Limit \in Nat /\ Limit >= 1 /\ Window \in Nat /\ clock \in Nat /\ w \in Nat /\ b \in Nat
      /\ InBucket(c) = b
      /\ requests'[c].windowEnd = w /\ requests'[c].count = b + 1
  BY LimiterAssumption DEF LimiterInv, LimiterTypes, InBucket
<1>2. /\ g \in Seq(Nat) /\ n \in Nat /\ DOMAIN h = 1..n /\ \A i \in 1..n : h[i] \in Nat
      /\ Len(g) = n + 1 /\ DOMAIN g = 1..(n + 1)
      /\ \A i \in 1..n : g[i] = h[i]
      /\ g[n + 1] = clock
      /\ \A i \in 1..(n + 1) : i \in 1..n \/ i = n + 1
  <2>1. h \in Seq(Nat)
    BY DEF LimiterInv, LimiterTypes
  <2> QED
    BY <1>1, <2>1, LongerHistory
<1>3. /\ InBucket(c)' = b + 1 /\ Opened(c)' = n - b + 1 /\ Opened(c) = n - b + 1
  <2>1. b < Limit /\ b + 1 <= Limit
    BY <1>1
  <2>2. InBucket(c)' = b + 1
    BY <1>1, <2>1 DEF InBucket
  <2>3. Opened(c)' = (n + 1) - (b + 1) + 1 /\ Opened(c) = n - b + 1
    BY <1>1, <1>2, <2>2 DEF Opened
  <2>4. \A x, y \in Nat : (x + 1) - (y + 1) + 1 = x - y + 1
    OBVIOUS
  <2>5. n \in Nat /\ b \in Nat
    BY <1>1, <1>2
  <2> HIDE DEF n, b
  <2> QED
    BY <2>2, <2>3, <2>4, <2>5
<1>4. /\ b <= n /\ w <= clock + Window /\ b # 0
      /\ h[n - b + 1] + Window = w
      /\ \A i \in 1..n : h[i] <= clock
      /\ \A i \in 1..n : i <= n - b + 1 => h[i] + Window <= w
      /\ \A i \in 1..n : i <= n - b + 1 - Limit => h[i] + 2 * Window <= w
      /\ \A i, k \in 1..n : k = i + 2 * Limit - 1 => h[k] >= h[i] + Window
  <2>1. BucketIsLast(c) /\ Apart(c)
    BY DEF LimiterInv
  <2>2. b # 0
    BY <1>1, <2>1 DEF BucketIsLast
  <2>3. b > 0
    BY <1>1, <2>2
  <2>4. /\ b <= n /\ w <= clock + Window /\ h[n - b + 1] + Window = w
    BY <1>1, <1>3, <2>1, <2>3 DEF BucketIsLast
  <2>5. /\ \A i \in 1..n : h[i] <= clock
        /\ \A i \in 1..n : i <= n - b + 1 => h[i] + Window <= w
        /\ \A i \in 1..n : i <= n - b + 1 - Limit => h[i] + 2 * Window <= w
    <3>1. /\ \A i \in DOMAIN h : h[i] <= clock
          /\ \A i \in DOMAIN h : i <= Opened(c) => h[i] + Window <= w
          /\ \A i \in DOMAIN h : i <= Opened(c) - Limit => h[i] + 2 * Window <= w
      BY <2>1 DEF BucketIsLast
    <3>2. DOMAIN h = 1..n /\ Opened(c) = n - b + 1
      BY <1>2, <1>3
    <3>3. n \in Nat /\ b \in Nat /\ Limit \in Nat
      BY <1>1, <1>2
    <3> HIDE DEF h, n, b, w
    <3>4. \A i \in 1..n : i <= n - b + 1 - Limit => i <= Opened(c) - Limit
      BY <3>2, <3>3
    <3> QED
      BY <3>1, <3>2, <3>4
  <2>6. \A i, k \in 1..n : k = i + 2 * Limit - 1 => h[k] >= h[i] + Window
    BY <1>2, <2>1 DEF Apart
  <2> QED
    BY <2>2, <2>4, <2>5, <2>6
<1> HIDE DEF h, g, n, w, b
<1>5. n - b + 1 \in 1..n /\ g[n - b + 1] + Window = w
  BY <1>1, <1>2, <1>4
<1>6. \A i \in 1..n :
        /\ g[i] \in Nat /\ g[i] <= clock
        /\ i <= n - b + 1 => g[i] + Window <= w
        /\ i <= n - b + 1 - Limit => g[i] + 2 * Window <= w
  BY <1>2, <1>4
<1>7. /\ ~(n + 1 <= n - b + 1) /\ ~(n + 1 <= n - b + 1 - Limit) /\ clock <= clock
      /\ Opened(c)' = n - b + 1 /\ Opened(c)' - Limit = n - b + 1 - Limit
      /\ b + 1 > 0 /\ b + 1 # 0 /\ b + 1 <= n + 1
  <2>1. b \in Nat /\ n \in Nat /\ b <= n /\ b # 0 /\ Limit \in Nat /\ clock \in Nat
    BY <1>1, <1>2, <1>4
  <2> QED
    BY <1>3, <2>1
<1>8. \A i \in 1..(n + 1) :
        /\ g[i] <= clock
        /\ i <= Opened(c)' => g[i] + Window <= w
        /\ i <= Opened(c)' - Limit => g[i] + 2 * Window <= w
  BY <1>2, <1>6, <1>7
<1>9. \A i, k \in 1..(n + 1) : k = i + 2 * Limit - 1 => g[k] >= g[i] + Window
  <2> SUFFICES ASSUME NEW i \in 1..(n + 1), NEW k \in 1..(n + 1), k = i + 2 * Limit - 1
               PROVE  g[k] >= g[i] + Window
    OBVIOUS
  <2>1. CASE k \in 1..n
    <3>1. i \in 1..n
      BY <1>1, <1>2, <2>1
    <3> QED
      BY <1>2, <1>4, <2>1, <3>1
  <2>2. CASE k = n + 1
    <3>1. i \in 1..n /\ i <= n - b + 1 - Limit
      <4>1. i \in Nat /\ i >= 1 /\ i + 2 * Limit - 1 = n + 1 /\ b <= n /\ b # 0 /\ n \in Nat
        BY <1>2, <1>4, <2>2
      <4>2. b < Limit
        BY DEF b
      <4> QED
        BY <1>1, <4>1, <4>2
    <3>2. g[i] = h[i] /\ h[i] \in Nat /\ h[i] + 2 * Window <= w /\ g[k] = clock
      BY <1>2, <1>4, <2>2, <3>1
    <3> QED
      BY <1>1, <1>4, <3>2
  <2> QED
    BY <1>2, <2>1, <2>2
<1>10. BucketIsLast(c)'
  <2>1. passed'[c] = g
    BY DEF g
  <2>2. InBucket(c)' <= Len(passed'[c]) /\ requests'[c].windowEnd <= clock' + Window
    BY <1>1, <1>2, <1>3, <1>4, <1>7, <2>1
  <2>3. passed'[c][Opened(c)'] + Window = requests'[c].windowEnd /\ requests'[c].count # 0
    BY <1>1, <1>3, <1>5, <1>7, <2>1
  <2>4. \A i \in DOMAIN passed'[c] :
          /\ passed'[c][i] <= clock'
          /\ i <= Opened(c)' => passed'[c][i] + Window <= requests'[c].windowEnd
          /\ i <= Opened(c)' - Limit => passed'[c][i] + 2 * Window <= requests'[c].windowEnd
    <3>1. DOMAIN passed'[c] = 1..(n + 1)
      BY <1>2, <2>1
    <3>2. requests'[c].windowEnd = w
      BY <1>1
    <3> QED
      BY <3>1, <3>2, <1>8, <2>1
  <2> QED
    BY <2>2, <2>3, <2>4 DEF BucketIsLast
<1>11. Apart(c)'
  BY <1>2, <1>9 DEF Apart, g
<1> QED
  BY <1>10, <1>11

\* A request that is refused.
LEMMA RefusedInWindow ==
    ASSUME LimiterInv, NEW c \in Clients, LimiterTypes', clock' = clock,
           requests[c].count >= Limit, requests'[c].count >= Limit,
           requests'[c].windowEnd = requests[c].windowEnd,
           passed'[c] = passed[c]
    PROVE  BucketIsLast(c)' /\ Apart(c)'
<1>1. /\ Limit \in Nat /\ Limit >= 1 /\ requests[c].count \in Nat /\ requests'[c].count \in Nat
  BY LimiterAssumption DEF LimiterInv, LimiterTypes
<1>2. InBucket(c) = Limit /\ InBucket(c)' = Limit /\ Opened(c)' = Opened(c)
  BY <1>1 DEF InBucket, Opened
<1>3. BucketIsLast(c) /\ Apart(c) /\ requests[c].count > 0 /\ requests'[c].count > 0
  BY <1>1 DEF LimiterInv
<1>4. Apart(c)'
  BY <1>3 DEF Apart
<1> QED
  BY <1>1, <1>2, <1>3, <1>4 DEF BucketIsLast

\* One request of a client.
LEMMA AllowKeeps ==
    ASSUME LimiterInv, NEW c \in Clients, allow(c)
    PROVE  LimiterInv'
<1>1. /\ Limit \in Nat /\ Limit >= 1 /\ Window \in Nat /\ clock \in Nat /\ clock' = clock
      /\ requests[c] \in [count: Nat, windowEnd: Nat] /\ passed[c] \in Seq(Nat)
  BY LimiterAssumption DEF LimiterInv, LimiterTypes, allow
<1>2. bucket(c) \in [count: Nat, windowEnd: Nat]
  BY <1>1 DEF bucket, counted
<1>3. /\ requests' = [requests EXCEPT ![c] = bucket(c)]
      /\ passed' = passed \/ passed' = [passed EXCEPT ![c] = Append(passed[c], clock)]
  BY DEF allow
<1>4. Append(passed[c], clock) \in Seq(Nat)
  BY <1>1
<1>5. LimiterTypes'
  BY <1>1, <1>2, <1>3, <1>4 DEF LimiterInv, LimiterTypes
<1>6. \A d \in Clients \ {c} : requests'[d] = requests[d] /\ passed'[d] = passed[d]
  BY <1>3 DEF LimiterInv, LimiterTypes
<1>7. /\ requests'[c] = bucket(c)
      /\ allowed(c) => passed'[c] = Append(passed[c], clock)
      /\ ~allowed(c) => passed'[c] = passed[c]
  BY DEF allow, LimiterInv, LimiterTypes
<1>8. BucketIsLast(c)' /\ Apart(c)'
  <2>1. CASE clock >= requests[c].windowEnd
    <3>1. bucket(c) = [count |-> 1, windowEnd |-> clock + Window] /\ allowed(c)
      BY <1>1, <2>1 DEF bucket, allowed
    <3> QED
      BY <1>1, <1>5, <1>7, <2>1, <3>1, OpensWindow
  <2>2. CASE clock < requests[c].windowEnd /\ requests[c].count < Limit
    <3>1. /\ bucket(c).count = requests[c].count + 1
          /\ bucket(c).windowEnd = requests[c].windowEnd /\ allowed(c)
      BY <1>1, <2>2 DEF bucket, counted, allowed
    <3> QED
      BY <1>1, <1>5, <1>7, <2>2, <3>1, WithinWindow
  <2>3. CASE clock < requests[c].windowEnd /\ requests[c].count >= Limit
    <3>1. /\ bucket(c).count >= Limit /\ bucket(c).windowEnd = requests[c].windowEnd
          /\ ~allowed(c)
      BY <1>1, <2>3 DEF bucket, counted, allowed
    <3> QED
      BY <1>1, <1>5, <1>7, <2>3, <3>1, RefusedInWindow
  <2> QED
    BY <1>1, <2>1, <2>2, <2>3
<1> QED
  BY <1>1, <1>5, <1>6, <1>8, OtherClients

\* Every step of the gateway leaves the limiter alone, is a tick, a request of a
\* client or a restart.
LEMMA LimiterForms ==
    ASSUME [Next]_vars
    PROVE  \/ UNCHANGED limiter
           \/ LimiterTick
           \/ \E c \in Clients : allow(c)
           \/ EmptyLimiter(requests', passed') /\ clock' = clock
<1>1. CASE UNCHANGED vars
  BY <1>1 DEF vars
<1>2. ASSUME NEW i \in Slots, NEW k \in RequestKinds,
             Unauthorised(i, k) \/ RateLimited(i, k) \/ NoRoute(i, k) \/ Forward(i, k)
      PROVE  UNCHANGED limiter \/ \E c \in Clients : allow(c)
  BY <1>2, GatewayAssumption DEF Unauthorised, RateLimited, NoRoute, Forward
<1>3. ASSUME NEW i \in Slots,
             \/ Deliver(i) \/ Route(i) \/ HandlerCommits(i) \/ HandlerEnds(i)
             \/ Relay(i) \/ BadGateway(i) \/ Forget(i)
      PROVE  UNCHANGED limiter
  BY <1>3 DEF Deliver, Route, HandlerCommits, HandlerEnds, Relay, BadGateway, Forget
<1>4. ASSUME NEW x \in Processes, Sigterm(x) \/ ShutdownEnds(x) \/ Crash(x)
      PROVE  UNCHANGED limiter
  BY <1>4 DEF Sigterm, ShutdownEnds, Crash, Exit
<1>5. ASSUME NEW x \in Processes, Start(x)
      PROVE  UNCHANGED limiter \/ (EmptyLimiter(requests', passed') /\ clock' = clock)
  BY <1>5 DEF Start, limiter
<1> QED
  BY <1>1, <1>2, <1>3, <1>4, <1>5 DEF Next, Tick

\* The limiter's invariant holds in every behaviour.
LEMMA AlwaysLimiterInv == Spec => []LimiterInv
<1>1. Init => LimiterInv
  BY InitLimiter DEF Init, LimiterInit
<1>2. ASSUME LimiterInv, [Next]_vars PROVE LimiterInv'
  <2>1. CASE UNCHANGED limiter
    BY <1>2, <2>1 DEF limiter, LimiterInv, LimiterTypes, BucketIsLast, Apart, InBucket, Opened
  <2>2. clock \in Nat
    BY <1>2 DEF LimiterInv, LimiterTypes
  <2> QED
    BY <1>2, <2>1, <2>2, LimiterForms, TickLimiter, AllowKeeps, RestartLimiter
<1> QED
  BY <1>1, <1>2, PTL DEF Spec

\* The fixed window lets fewer than twice the limit through in any span of a
\* window, however a client times its requests (limiter.go:52-66).
THEOREM TwiceLimitNever == Spec => []LessThanTwiceLimit
<1>1. LimiterInv => LessThanTwiceLimit
  BY DEF LimiterInv, Apart, LessThanTwiceLimit
<1> QED
  BY <1>1, AlwaysLimiterInv, PTL

\* A client is refused only when it has used up its limit within the last window,
\* however many of its requests were refused since (limiter.go:41-66).
THEOREM RefusalEarned == Spec => []RefusedOnlyWhenExhausted
<1>1. ASSUME LimiterInv, NEW c \in Clients, ~allowed(c)
      PROVE  /\ Len(passed[c]) >= Limit
             /\ passed[c][Len(passed[c]) - Limit + 1] + Window > clock
  <2>1. /\ Limit \in Nat /\ Limit >= 1 /\ clock \in Nat /\ Len(passed[c]) \in Nat
        /\ requests[c] \in [count: Nat, windowEnd: Nat]
    BY <1>1, LimiterAssumption DEF LimiterInv, LimiterTypes
  <2>2. clock < requests[c].windowEnd /\ requests[c].count >= Limit
    BY <1>1, <2>1 DEF allowed, bucket, counted
  <2>3. InBucket(c) = Limit /\ Opened(c) = Len(passed[c]) - Limit + 1 /\ requests[c].count > 0
    BY <2>1, <2>2 DEF InBucket, Opened
  <2> QED
    BY <1>1, <2>1, <2>2, <2>3 DEF LimiterInv, BucketIsLast
<1>2. LimiterInv => RefusedOnlyWhenExhausted
  BY <1>1 DEF RefusedOnlyWhenExhausted
<1> QED
  BY <1>2, AlwaysLimiterInv, PTL

-----------------------------------------------------------------------------
(***************************************************************************)
(* The requests.                                                           *)
(***************************************************************************)
\* A step of one slot.
OneSlot(i) ==
    \A j \in Slots \ {i} :
        /\ gateway'[j] = gateway[j] /\ upstream'[j] = upstream[j] /\ reply'[j] = reply[j]
        /\ code'[j] = code[j] /\ effect'[j] = effect[j]

\* A step of one slot keeps the invariant if it keeps that slot's.
LEMMA OneSlotKeeps ==
    ASSUME AnswerInv, SlotTypes', NEW i \in Slots, OneSlot(i), SlotInv(i)'
    PROVE  AnswerInv'
<1>1. ASSUME NEW j \in Slots \ {i} PROVE SlotInv(j)'
  BY <1>1 DEF AnswerInv, OneSlot, SlotInv
<1> QED
  BY <1>1 DEF AnswerInv

\* A request the gateway answers itself, or forwards.
LEMMA ArrivalKeeps ==
    ASSUME AnswerInv, NEW i \in Slots, NEW k \in RequestKinds,
           Unauthorised(i, k) \/ RateLimited(i, k) \/ NoRoute(i, k) \/ Forward(i, k)
    PROVE  AnswerInv'
<1>1. /\ gateway[i] = "free" /\ UNCHANGED <<upstream, reply, effect>>
      /\ \/ gateway' = [gateway EXCEPT ![i] = "proxying"] /\ code' = code
         \/ \E status : /\ status \in {401, 404, 429}
                        /\ gateway' = [gateway EXCEPT ![i] = "answered"]
                        /\ code' = [code EXCEPT ![i] = status]
  BY DEF Unauthorised, RateLimited, NoRoute, Forward, Arrive, AnswerAtOnce
<1>2. SlotTypes'
  BY <1>1 DEF AnswerInv, SlotTypes
<1>3. OneSlot(i)
  BY <1>1 DEF AnswerInv, SlotTypes, OneSlot
<1>4. upstream[i] = "none" /\ ~effect[i]
  BY <1>1 DEF AnswerInv, SlotInv
<1>5. gateway'[i] = "proxying" \/ (gateway'[i] = "answered" /\ code'[i] \in {401, 404, 429})
  BY <1>1 DEF AnswerInv, SlotTypes
<1>6. SlotInv(i)'
  BY <1>1, <1>4, <1>5 DEF SlotInv
<1> QED
  BY <1>2, <1>3, <1>6, OneSlotKeeps

\* What the service's router answers itself is a refusal.
LEMMA RoutedRefuses ==
    ASSUME NEW service, NEW method, NEW path, Routed(service, method, path) # 200
    PROVE  Routed(service, method, path) \in {401, 404, 405}
BY DEF Routed

\* The service's side of a request.
LEMMA ServiceKeeps ==
    ASSUME AnswerInv, NEW i \in Slots,
           Deliver(i) \/ Route(i) \/ HandlerCommits(i) \/ HandlerEnds(i)
    PROVE  AnswerInv'
<1>1. UNCHANGED <<gateway, code>>
  BY DEF Deliver, Route, HandlerCommits, HandlerEnds
<1>2. CASE Deliver(i)
  <2>1. SlotTypes' /\ OneSlot(i)
    BY <1>2 DEF Deliver, AnswerInv, SlotTypes, OneSlot
  <2>2. /\ gateway[i] = "proxying" /\ upstream[i] = "none" /\ upstream'[i] = "arrived"
        /\ UNCHANGED <<gateway, code, reply, effect>>
    BY <1>2 DEF Deliver, AnswerInv, SlotTypes
  <2>3. SlotInv(i)'
    BY <2>2 DEF AnswerInv, SlotInv
  <2> QED
    BY <2>1, <2>3, OneSlotKeeps
<1>3. CASE Route(i)
  <2> DEFINE status == Routed(ServiceOf(i), request[i].method, ForwardedPath(request[i].path))
  <2>1. status # 200 => status \in {401, 404, 405}
    BY RoutedRefuses
  <2> HIDE DEF status
  <2>2. /\ upstream[i] = "arrived" /\ UNCHANGED <<gateway, code, effect>>
        /\ \/ upstream' = [upstream EXCEPT ![i] = "working"] /\ reply' = reply
           \/ /\ status # 200
              /\ upstream' = [upstream EXCEPT ![i] = "replied"]
              /\ reply' = [reply EXCEPT ![i] = status]
    BY <1>3 DEF Route, status
  <2>3. SlotTypes' /\ OneSlot(i)
    BY <2>2 DEF AnswerInv, SlotTypes, OneSlot
  <2>4. \/ upstream'[i] = "working"
        \/ upstream'[i] = "replied" /\ reply'[i] \in {401, 404, 405}
    BY <2>1, <2>2 DEF AnswerInv, SlotTypes
  <2>5. SlotInv(i)'
    BY <2>2, <2>4 DEF AnswerInv, SlotInv
  <2> QED
    BY <2>3, <2>5, OneSlotKeeps
<1>4. CASE HandlerCommits(i)
  <2>1. SlotTypes' /\ OneSlot(i)
    BY <1>4 DEF HandlerCommits, AnswerInv, SlotTypes, OneSlot
  <2>2. /\ upstream[i] = "working" /\ upstream'[i] = "working" /\ effect'[i] = TRUE
        /\ UNCHANGED <<gateway, code>>
    BY <1>4 DEF HandlerCommits, AnswerInv, SlotTypes
  <2>3. SlotInv(i)'
    BY <2>2 DEF AnswerInv, SlotInv
  <2> QED
    BY <2>1, <2>3, OneSlotKeeps
<1>5. CASE HandlerEnds(i)
  <2>1. PICK o \in Outcomes : o[2] = effect[i] /\ reply' = [reply EXCEPT ![i] = o[1]]
    BY <1>5 DEF HandlerEnds
  <2>2. /\ upstream[i] = "working" /\ upstream' = [upstream EXCEPT ![i] = "replied"]
        /\ UNCHANGED <<gateway, code, effect>>
    BY <1>5 DEF HandlerEnds
  <2>3. (o[1] = 200 => o[2]) /\ (o[1] \in Refusals => ~o[2])
    <3>1. o = <<200, TRUE>> \/ o = <<400, FALSE>> \/ o = <<500, FALSE>> \/ o = <<500, TRUE>>
      BY DEF Outcomes
    <3>2. CASE o = <<200, TRUE>>
      BY <3>2 DEF Refusals
    <3>3. CASE o = <<400, FALSE>>
      BY <3>3 DEF Refusals
    <3>4. CASE o = <<500, FALSE>>
      BY <3>4 DEF Refusals
    <3>5. CASE o = <<500, TRUE>>
      BY <3>5 DEF Refusals
    <3> QED
      BY <3>1, <3>2, <3>3, <3>4, <3>5
  <2>4. SlotTypes' /\ OneSlot(i)
    BY <2>1, <2>2 DEF AnswerInv, SlotTypes, OneSlot
  <2>5. upstream'[i] = "replied" /\ reply'[i] = o[1] /\ effect'[i] = o[2]
    BY <2>1, <2>2 DEF AnswerInv, SlotTypes
  <2>6. ~(gateway[i] = "free") /\ (gateway[i] = "answered" => code[i] \notin Refusals \cup {200})
    BY <2>2 DEF AnswerInv, SlotInv
  <2>7. SlotInv(i)'
    BY <2>2, <2>3, <2>5, <2>6 DEF SlotInv
  <2> QED
    BY <2>4, <2>7, OneSlotKeeps
<1> QED
  BY <1>2, <1>3, <1>4, <1>5

\* The proxy's end of a request.
LEMMA ProxyKeeps ==
    ASSUME AnswerInv, NEW i \in Slots, Relay(i) \/ BadGateway(i) \/ Forget(i)
    PROVE  AnswerInv'
<1>1. SlotTypes' /\ OneSlot(i)
  <2>1. CASE Relay(i) \/ BadGateway(i)
    BY <2>1 DEF Relay, BadGateway, AnswerInv, SlotTypes, OneSlot
  <2>2. CASE Forget(i)
    BY <2>2 DEF Forget, AnswerInv, SlotTypes, OneSlot
  <2> QED
    BY <2>1, <2>2
<1>2. CASE Relay(i)
  <2>1. /\ upstream[i] = "replied" /\ gateway'[i] = "answered" /\ code'[i] = reply[i]
        /\ UNCHANGED <<upstream, reply, effect>>
    BY <1>2 DEF Relay, AnswerInv, SlotTypes
  <2>2. SlotInv(i)'
    BY <2>1 DEF AnswerInv, SlotInv
  <2> QED
    BY <1>1, <2>2, OneSlotKeeps
<1>3. CASE BadGateway(i)
  <2>1. /\ gateway'[i] = "answered" /\ code'[i] = 502
        /\ UNCHANGED <<upstream, reply, effect>>
    BY <1>3 DEF BadGateway, AnswerInv, SlotTypes
  <2>2. SlotInv(i)'
    BY <2>1 DEF AnswerInv, SlotInv, Refusals
  <2> QED
    BY <1>1, <2>2, OneSlotKeeps
<1>4. CASE Forget(i)
  <2>1. gateway'[i] = "free" /\ upstream'[i] = "none" /\ ~effect'[i]
    BY <1>4 DEF Forget, AnswerInv, SlotTypes
  <2>2. SlotInv(i)'
    BY <2>1 DEF SlotInv
  <2> QED
    BY <1>1, <2>2, OneSlotKeeps
<1> QED
  BY <1>2, <1>3, <1>4

\* A process ends: the gateway cuts connections, a service its handlers.
LEMMA ExitKeeps ==
    ASSUME AnswerInv, NEW x \in Processes, Exit(x)
    PROVE  AnswerInv'
<1>1. UNCHANGED <<reply, effect>>
  BY DEF Exit
<1>2. CASE x = "gateway"
  <2>1. /\ upstream' = upstream
        /\ gateway' = [i \in Slots |-> IF i \in InFlight(x) THEN "answered" ELSE gateway[i]]
        /\ code' = [i \in Slots |-> IF i \in InFlight(x) THEN 0 ELSE code[i]]
    BY <1>2 DEF Exit, Reset
  <2>2. SlotTypes'
    BY <1>1, <2>1 DEF AnswerInv, SlotTypes
  <2>3. ASSUME NEW i \in Slots PROVE SlotInv(i)'
    <3>1. \/ gateway'[i] = "answered" /\ code'[i] = 0
          \/ gateway'[i] = gateway[i] /\ code'[i] = code[i]
      BY <2>1
    <3> QED
      BY <1>1, <2>1, <3>1 DEF AnswerInv, SlotInv, Refusals
  <2> QED
    BY <2>2, <2>3 DEF AnswerInv
<1>3. CASE x # "gateway"
  <2>1. /\ UNCHANGED <<gateway, code>>
        /\ upstream' = [i \in Slots |-> IF i \in InFlight(x) THEN "gone" ELSE upstream[i]]
    BY <1>3 DEF Exit
  <2>2. SlotTypes'
    BY <1>1, <2>1 DEF AnswerInv, SlotTypes
  <2>3. ASSUME NEW i \in Slots PROVE SlotInv(i)'
    <3>1. \/ upstream'[i] = "gone" /\ upstream[i] \in {"arrived", "working"}
          \/ upstream'[i] = upstream[i]
      BY <1>3, <2>1 DEF InFlight
    <3> QED
      BY <1>1, <2>1, <3>1 DEF AnswerInv, SlotInv
  <2> QED
    BY <2>2, <2>3 DEF AnswerInv
<1> QED
  BY <1>2, <1>3

\* The invariant of the answers holds in every behaviour.
LEMMA AlwaysAnswerInv == Spec => []AnswerInv
<1>1. Init => AnswerInv
  BY DEF Init, AnswerInv, SlotTypes, SlotInv
<1>2. ASSUME AnswerInv, [Next]_vars PROVE AnswerInv'
  <2>1. CASE UNCHANGED slots
    BY <1>2, <2>1 DEF slots, AnswerInv, SlotTypes, SlotInv
  <2>2. ASSUME NEW x \in Processes, Sigterm(x) \/ Start(x) PROVE UNCHANGED slots
    BY <2>2 DEF Sigterm, Start
  <2>3. ASSUME NEW x \in Processes, ShutdownEnds(x) \/ Crash(x) PROVE AnswerInv'
    BY <1>2, <2>3, ExitKeeps DEF ShutdownEnds, Crash
  <2> QED
    BY <1>2, <2>1, <2>2, <2>3, ArrivalKeeps, ServiceKeeps, ProxyKeeps DEF Next, Tick, vars
<1> QED
  BY <1>1, <1>2, PTL DEF Spec

\* An answer tells the truth about what the service did: 200 that it is done, a
\* refusal that it is not and will not be, also when the gateway has given up on a
\* service that goes on, or a process ends in between (proxy.go:27-46,
\* main.go:102-110).
THEOREM HonestAnswers == Spec => []AnswersAreHonest
<1>1. AnswerInv => AnswersAreHonest
  BY DEF AnswerInv, SlotInv, Refusals, AnswersAreHonest
<1> QED
  BY <1>1, AlwaysAnswerInv, PTL
=============================================================================
