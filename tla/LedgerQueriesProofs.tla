-------------------------- MODULE LedgerQueriesProofs --------------------------
(***************************************************************************)
(* What TLAPS proves of the ledger's read side, for any number of          *)
(* consumers, partitions, payments and faults: balances and entries are    *)
(* those of whole movements, each payment counted once.                    *)
(***************************************************************************)
EXTENDS LedgerQueries, LedgerConsumerProofs, FiniteSetTheorems

(***************************************************************************)
(* Sums.  SumFunction is defined by recursion over the subsets of a finite *)
(* set, taking away the element that CHOOSE finds.  The subsets of a       *)
(* finite set are well-founded, which gives an induction to show that the  *)
(* recursion has a solution, that it has one only, and that the element    *)
(* taken away does not matter.  What the proofs below need of all that is  *)
(* SumType and SumGrows.                                                   *)
(***************************************************************************)
FirstOf(s) == CHOOSE x \in s : TRUE

\* g adds up f over every subset of S, in the order in which FirstOf takes them.
AddsUp(f, g, S) ==
    g = [s \in SUBSET S |-> IF s = {} THEN 0 ELSE f[FirstOf(s)] + g[s \ {FirstOf(s)}]]

\* The elements of S may be added in any order.
AnyOrder(f, g, S) == \A s \in SUBSET S : \A x \in s : g[s] = f[x] + g[s \ {x}]

Total(f, g, S) ==
    IsFiniteSet(S) /\ f \in [S -> Int] /\ g \in [SUBSET S -> Int] /\ AddsUp(f, g, S)

\* The subsets of a finite set are well-founded.
LEMMA SubsetsWellFounded ==
    ASSUME NEW S, IsFiniteSet(S)
    PROVE  IsWellFoundedOn(StrictSubsetOrdering(S), SUBSET S)
<1>1. FiniteSubsetsOf(S) = SUBSET S
  BY FS_FiniteSubsetsOfFinite
<1> QED
  BY <1>1, FS_StrictSubsetOrderingWellFounded

\* Induction over the subsets of a finite set.
LEMMA SubsetInduction ==
    ASSUME NEW S, IsFiniteSet(S), NEW Good,
           \A s \in SUBSET S : (\A t \in SUBSET s : t # s => t \in Good) => s \in Good
    PROVE  \A s \in SUBSET S : s \in Good
<1> DEFINE Bad == (SUBSET S) \ Good
<1> SUFFICES ASSUME Bad # {} PROVE FALSE
  OBVIOUS
<1>1. IsWellFoundedOn(StrictSubsetOrdering(S), SUBSET S)
  BY SubsetsWellFounded
<1>2. Bad \subseteq SUBSET S
  OBVIOUS
<1> HIDE DEF Bad
<1>3. PICK s \in Bad : \A t \in Bad : <<t, s>> \notin StrictSubsetOrdering(S)
  BY <1>1, <1>2, WFMin
<1>4. \A t \in SUBSET s : t # s => t \notin Bad
  BY <1>2, <1>3 DEF StrictSubsetOrdering
<1> QED
  BY <1>3, <1>4 DEF Bad

\* The element that is taken first is one of them.
LEMMA FirstIn == \A s : s # {} => FirstOf(s) \in s
BY DEF FirstOf

\* Two ways of adding up agree where their functions do.
LEMMA AddsUpUnique ==
    ASSUME NEW S, IsFiniteSet(S), NEW T, S \subseteq T, NEW f, NEW g, NEW h, NEW k,
           \A x \in S : f[x] = h[x], AddsUp(f, g, S), AddsUp(h, k, T)
    PROVE  \A s \in SUBSET S : g[s] = k[s]
<1> DEFINE Good == {s \in SUBSET S : g[s] = k[s]}
<1>1. ASSUME NEW s \in SUBSET S, \A t \in SUBSET s : t # s => t \in Good
      PROVE  s \in Good
  <2>1. /\ g[s] = IF s = {} THEN 0 ELSE f[FirstOf(s)] + g[s \ {FirstOf(s)}]
        /\ k[s] = IF s = {} THEN 0 ELSE h[FirstOf(s)] + k[s \ {FirstOf(s)}]
    BY DEF AddsUp
  <2>2. s # {} => FirstOf(s) \in s /\ s \ {FirstOf(s)} \in Good
    BY <1>1, FirstIn
  <2> QED
    BY <2>1, <2>2
<1> HIDE DEF Good
<1>2. \A s \in SUBSET S : s \in Good
  BY <1>1, SubsetInduction
<1> QED
  BY <1>2 DEF Good

\* Any element may be taken first.
LEMMA AnyFirst ==
    ASSUME NEW f, NEW g, NEW S, Total(f, g, S)
    PROVE  AnyOrder(f, g, S)
<1> USE DEF Total
<1> DEFINE Good == {s \in SUBSET S : \A x \in s : g[s] = f[x] + g[s \ {x}]}
<1>1. ASSUME NEW s \in SUBSET S, \A t \in SUBSET s : t # s => t \in Good
      PROVE  s \in Good
  <2> SUFFICES ASSUME NEW x \in s PROVE g[s] = f[x] + g[s \ {x}]
    OBVIOUS
  <2> DEFINE c == FirstOf(s)
  <2>1. c \in s /\ g[s] = f[c] + g[s \ {c}]
    BY FirstIn DEF AddsUp
  <2> HIDE DEF c
  <2>2. CASE c # x
    <3>1. s \ {c} \in Good /\ s \ {x} \in Good /\ x \in s \ {c} /\ c \in s \ {x}
      BY <1>1, <2>1, <2>2
    <3>2. g[s \ {c}] = f[x] + g[(s \ {c}) \ {x}] /\ g[s \ {x}] = f[c] + g[(s \ {x}) \ {c}]
      BY <3>1
    <3>3. PICK rest \in SUBSET S : rest = (s \ {c}) \ {x} /\ rest = (s \ {x}) \ {c}
      OBVIOUS
    <3>4. f[x] \in Int /\ f[c] \in Int /\ g[rest] \in Int
      BY <2>1
    <3>5. g[s] = f[c] + (f[x] + g[rest]) /\ g[s \ {x}] = f[c] + g[rest]
      BY <2>1, <3>2, <3>3
    <3> HIDE DEF Good
    <3> QED
      BY <3>4, <3>5
  <2> QED
    BY <2>1, <2>2
<1> HIDE DEF Good
<1>2. \A s \in SUBSET S : s \in Good
  BY <1>1, SubsetInduction
<1> QED
  BY <1>2 DEF Good, AnyOrder

\* One more element.
LEMMA AddsUpMore ==
    ASSUME NEW s, IsFiniteSet(s), NEW c \in s, NEW r, r = s \ {c}, NEW f \in [s -> Int],
           NEW e, NEW g, Total(e, g, r), \A x \in r : e[x] = f[x]
    PROVE  \E k : Total(f, k, s)
<1>1. g \in [SUBSET r -> Int]
  BY DEF Total
<1>2. \A t \in SUBSET r : \A x \in t : g[t] = f[x] + g[t \ {x}]
  <2>1. AnyOrder(e, g, r)
    BY AnyFirst
  <2> QED
    BY <2>1 DEF AnyOrder
<1> DEFINE k == [t \in SUBSET s |-> IF c \in t THEN f[c] + g[t \ {c}] ELSE g[t]]
<1>3. /\ \A t \in SUBSET s : k[t] = IF c \in t THEN f[c] + g[t \ {c}] ELSE g[t]
      /\ DOMAIN k = SUBSET s /\ k = [t \in SUBSET s |-> k[t]]
  OBVIOUS
<1> HIDE DEF k
<1>4. k \in [SUBSET s -> Int]
  <2>1. \A t \in SUBSET s : t \ {c} \in SUBSET r /\ (c \notin t => t \in SUBSET r)
    OBVIOUS
  <2>2. f[c] \in Int /\ \A t \in SUBSET r : g[t] \in Int
    BY <1>1
  <2>3. ASSUME NEW t \in SUBSET s PROVE k[t] \in Int
    <3>1. CASE c \in t
      <4>1. g[t \ {c}] \in Int /\ k[t] = f[c] + g[t \ {c}]
        BY <3>1, <2>1, <2>2, <1>3
      <4> QED
        BY <4>1, <2>2
    <3>2. CASE c \notin t
      BY <3>2, <2>1, <2>2, <1>3
    <3> QED
      BY <3>1, <3>2
  <2> QED
    BY <2>3, <1>3
<1>5. ASSUME NEW t \in SUBSET s, NEW d \in t
      PROVE  k[t] = f[d] + k[t \ {d}]
  <2>1. f[c] \in Int /\ f[d] \in Int /\ t \ {d} \in SUBSET s
    OBVIOUS
  <2>2. CASE d = c
    BY <1>3, <2>1, <2>2
  <2>3. CASE d # c /\ c \in t
    <3>1. g[t \ {c}] = f[d] + g[(t \ {c}) \ {d}]
      <4>1. t \ {c} \in SUBSET r /\ d \in t \ {c}
        BY <2>3
      <4> QED
        BY <4>1, <1>2
    <3>2. PICK rest \in SUBSET r : rest = (t \ {c}) \ {d} /\ rest = (t \ {d}) \ {c}
      OBVIOUS
    <3>3. g[rest] \in Int /\ c \in t \ {d}
      BY <1>1, <2>3
    <3>4. k[t] = f[c] + g[t \ {c}] /\ k[t \ {d}] = f[c] + g[(t \ {d}) \ {c}]
      BY <1>3, <2>1, <2>3, <3>3
    <3>5. k[t] = f[c] + (f[d] + g[rest]) /\ k[t \ {d}] = f[c] + g[rest]
      BY <3>1, <3>2, <3>4
    <3> QED
      BY <2>1, <3>3, <3>5
  <2>4. CASE c \notin t
    <3>1. t \in SUBSET r /\ c \notin t \ {d}
      BY <2>4
    <3>2. g[t] = f[d] + g[t \ {d}]
      BY <3>1, <1>2
    <3>3. k[t] = g[t] /\ k[t \ {d}] = g[t \ {d}]
      BY <1>3, <2>1, <2>4
    <3> QED
      BY <3>2, <3>3
  <2> QED
    BY <2>2, <2>3, <2>4
<1>6. k[{}] = 0
  <2>1. g[{}] = 0
    BY DEF Total, AddsUp
  <2> QED
    BY <1>3, <2>1
<1>7. \A t \in SUBSET s : k[t] = IF t = {} THEN 0 ELSE f[FirstOf(t)] + k[t \ {FirstOf(t)}]
  BY <1>5, <1>6, FirstIn
<1>8. AddsUp(f, k, s)
  BY <1>3, <1>7 DEF AddsUp
<1> QED
  BY <1>4, <1>8 DEF Total

\* Every finite sum has a value.
LEMMA TotalExists ==
    ASSUME NEW S, IsFiniteSet(S), NEW f \in [S -> Int]
    PROVE  \E g : Total(f, g, S)
<1> DEFINE On(s) == [x \in s |-> f[x]]
           Good == {s \in SUBSET S : \E g : Total(On(s), g, s)}
<1>1. ASSUME NEW s \in SUBSET S, \A t \in SUBSET s : t # s => t \in Good
      PROVE  s \in Good
  <2>1. IsFiniteSet(s) /\ On(s) \in [s -> Int]
    BY FS_Subset
  <2>2. CASE s = {}
    <3>1. AddsUp(On({}), [t \in SUBSET {} |-> 0], {})
      BY DEF AddsUp
    <3> QED
      BY <2>1, <2>2, <3>1 DEF Total
  <2>3. CASE s # {}
    <3>1. PICK c \in s : TRUE
      BY <2>3
    <3>2. s \ {c} \in Good
      BY <1>1, <3>1
    <3>3. PICK g : Total(On(s \ {c}), g, s \ {c})
      BY <3>2
    <3>4. \A x \in s \ {c} : On(s \ {c})[x] = On(s)[x]
      OBVIOUS
    <3> HIDE DEF On, Good
    <3>5. \E k : Total(On(s), k, s)
      BY <2>1, <3>3, <3>4, AddsUpMore
    <3> QED
      BY <3>5 DEF Good
  <2> QED
    BY <2>2, <2>3
<1> HIDE DEF Good
<1>2. S \in Good
  BY <1>1, SubsetInduction
<1>3. On(S) = f
  OBVIOUS
<1> HIDE DEF On
<1> QED
  BY <1>2, <1>3 DEF Good

\* What SumFunction computes.
LEMMA SumIsTotal ==
    ASSUME NEW S, IsFiniteSet(S), NEW f \in [S -> Int]
    PROVE  \E g : Total(f, g, S) /\ SumFunction(f) = g[S]
<1> DEFINE h == CHOOSE h : AddsUp(f, h, S)
<1>1. PICK g : Total(f, g, S)
  BY TotalExists
<1>2. AddsUp(f, h, S)
  BY <1>1 DEF Total
<1>3. SumFunction(f) = h[S]
  BY DEF SumFunction, SumFunctionOnSet, FoldFunctionOnSet, MapThenFoldSet, AddsUp, FirstOf
<1> HIDE DEF h
<1>4. \A s \in SUBSET S : g[s] = h[s]
  BY <1>1, <1>2, AddsUpUnique DEF Total
<1> QED
  BY <1>1, <1>3, <1>4

\* A sum of integers is one, and a sum of nothing is 0.
LEMMA SumType ==
    ASSUME NEW S, IsFiniteSet(S), NEW f \in [S -> Int]
    PROVE  SumFunction(f) \in Int /\ (S = {} => SumFunction(f) = 0)
<1>1. PICK g : Total(f, g, S) /\ SumFunction(f) = g[S]
  BY SumIsTotal
<1>2. g[S] \in Int /\ g[{}] = 0
  BY <1>1 DEF Total, AddsUp
<1> QED
  BY <1>1, <1>2

\* With one more element a sum grows by what the element counts.
LEMMA SumGrows ==
    ASSUME NEW S, IsFiniteSet(S), NEW x, x \notin S, NEW f \in [S -> Int],
           NEW h \in [S \cup {x} -> Int], \A y \in S : h[y] = f[y]
    PROVE  SumFunction(h) = SumFunction(f) + h[x]
<1>1. PICK T : T = S \cup {x}
  OBVIOUS
<1>2. T \ {x} = S /\ x \in T /\ S \subseteq T /\ IsFiniteSet(T) /\ h \in [T -> Int]
  BY <1>1, FS_AddElement
<1>3. PICK g : Total(f, g, S) /\ SumFunction(f) = g[S]
  BY SumIsTotal
<1>4. PICK k : Total(h, k, T) /\ SumFunction(h) = k[T]
  BY <1>2, SumIsTotal
<1>5. AnyOrder(h, k, T)
  BY <1>4, AnyFirst
<1>6. k[T] = h[x] + k[S]
  <2>1. k[T] = h[x] + k[T \ {x}]
    BY <1>2, <1>5 DEF AnyOrder
  <2> QED
    BY <1>2, <2>1
<1>7. g[S] = k[S]
  <2>1. \A s \in SUBSET S : g[s] = k[s]
    BY <1>2, <1>3, <1>4, AddsUpUnique DEF Total
  <2> QED
    BY <2>1
<1>8. h[x] \in Int /\ g[S] \in Int
  BY <1>2, <1>3 DEF Total
<1>9. SumFunction(h) = h[x] + SumFunction(f) /\ SumFunction(f) \in Int
  BY <1>3, <1>4, <1>6, <1>7, <1>8
<1> QED
  BY <1>8, <1>9

-----------------------------------------------------------------------------
(***************************************************************************)
(* The rows of an account and the messages that were booked in a currency  *)
(* grow together: a commit adds one row to either account of the message's *)
(* currency and one message, both of the same amount.  That needs the      *)
(* topic to hold no second message of the event (TopicUnique); a copy that *)
(* is put on the topic later adds no message.                              *)
(***************************************************************************)
AccountNames == {"cash", "merchant_payable"}

OnTopic == UNION {{topic[k][i] : i \in DOMAIN topic[k]} : k \in Partitions}

TopicUnique ==
    \A m, n \in OnTopic :
        (Bookable(m) /\ Bookable(n) /\ (m.event = n.event \/ m.payment = n.payment)) => m = n

Rows(account) == {r \in EntryRows : r.entry.account = account}

BookedMessages(currency) ==
    {n \in OnTopic : n.event \in consumed /\ Bookable(n) /\ n.payload.currency = currency}

Balance(account) == SumFunction([row \in Rows(account) |-> Signed(account, row.entry)])

RowsBooked ==
    \A i \in DOMAIN journal : \E m \in OnTopic : Bookable(m) /\ journal[i] = Booked(m)

FiniteReads ==
    \A currency \in Currencies :
        /\ IsFiniteSet(BookedMessages(currency))
        /\ \A name \in AccountNames : IsFiniteSet(Rows(<<name, currency>>))

BalancesAgree ==
    \A currency \in Currencies : \A name \in AccountNames :
        Balance(<<name, currency>>) = BookedAmount(currency)

ReadInv == RowsBooked /\ FiniteReads /\ BalancesAgree

-----------------------------------------------------------------------------
\* Amounts can be added and subtracted.
LEMMA AmountsAreNumbers == \A a \in Amounts : a \in Int /\ -a \in Int
BY AmountsAssumption

\* A row is an entry of a transaction and counts for an amount.
LEMMA RowType ==
    ASSUME TypeOK, NEW row \in EntryRows, NEW account
    PROVE  /\ row = [transaction |-> row.transaction, entry |-> row.entry]
           /\ row.transaction \in DOMAIN journal
           /\ row.entry \in journal[row.transaction].entries
           /\ Signed(account, row.entry) \in Int
<1>1. PICK i \in DOMAIN journal :
        \E x \in journal[i].entries : row = [transaction |-> i, entry |-> x]
  BY DEF EntryRows
<1>2. PICK x \in journal[i].entries : row = [transaction |-> i, entry |-> x]
  BY <1>1
<1>3. x.amount \in Int /\ -x.amount \in Int
  <2>1. journal[i] \in Transactions
    BY DEF TypeOK
  <2>2. x.amount \in Amounts
    BY <2>1 DEF Transactions, Entries
  <2> QED
    BY <2>2, AmountsAreNumbers
<1> QED
  BY <1>2, <1>3 DEF Signed

\* A message on the topic is one that consumers can read.
LEMMA OnTopicType ==
    ASSUME TypeOK
    PROVE  OnTopic \subseteq ConsumerMessages
BY DEF TypeOK, OnTopic

\* The event of a booked message is that of a transaction and the other way round.
LEMMA ConsumedOnTopic ==
    ASSUME BookInv, RowsBooked, NEW e \in consumed
    PROVE  \E m \in OnTopic : Bookable(m) /\ m.event = e
<1>1. PICK i \in DOMAIN journal : journal[i].event = e
  BY DEF BookInv, ConsumedIffBooked
<1>2. PICK m \in OnTopic : Bookable(m) /\ journal[i] = Booked(m)
  BY DEF RowsBooked
<1> QED
  BY <1>1, <1>2 DEF Booked

\* The amounts that are added up are numbers.
LEMMA SumsTyped ==
    ASSUME TypeOK, NEW currency
    PROVE  /\ [m \in BookedMessages(currency) |-> m.payload.amount]
                \in [BookedMessages(currency) -> Int]
           /\ \A account :
                [row \in Rows(account) |-> Signed(account, row.entry)] \in [Rows(account) -> Int]
<1>1. ASSUME NEW m \in BookedMessages(currency) PROVE m.payload.amount \in Int
  <2>1. m \in ConsumerMessages /\ Bookable(m)
    BY OnTopicType DEF BookedMessages
  <2> QED
    BY <2>1, BookableType, AmountsAreNumbers
<1>2. ASSUME NEW account, NEW row \in Rows(account) PROVE Signed(account, row.entry) \in Int
  BY RowType DEF Rows
<1> QED
  BY <1>1, <1>2

\* A copy on the topic of what is there, or of what nobody has consumed, changes
\* no sum.
LEMMA ReadsKept ==
    ASSUME BookInv, ReadInv, UNCHANGED <<consumed, journal>>, OnTopic \subseteq OnTopic',
           TopicUnique'
    PROVE  ReadInv'
<1>1. \A account : Rows(account)' = Rows(account)
  BY DEF Rows, EntryRows
<1>2. ASSUME NEW currency PROVE BookedMessages(currency)' = BookedMessages(currency)
  <2>1. ASSUME NEW n \in OnTopic', Bookable(n), n.event \in consumed PROVE n \in OnTopic
    <3>1. PICK m \in OnTopic : Bookable(m) /\ m.event = n.event
      BY <2>1, ConsumedOnTopic DEF ReadInv
    <3> QED
      BY <2>1, <3>1 DEF TopicUnique, Bookable
  <2> QED
    BY <2>1 DEF BookedMessages, Bookable
<1>3. RowsBooked'
  BY DEF ReadInv, RowsBooked, Booked, buildPaymentMovement, Bookable
<1>4. FiniteReads'
  BY <1>1, <1>2 DEF ReadInv, FiniteReads
<1>5. \A account : Balance(account)' = Balance(account)
  BY <1>1 DEF Balance, Signed, normalBalance
<1>6. \A currency : BookedAmount(currency) =
        SumFunction([m \in BookedMessages(currency) |-> m.payload.amount])
  BY DEF BookedAmount, BookedMessages, OnTopic
<1>7. \A currency : BookedAmount(currency)' =
        SumFunction([m \in BookedMessages(currency)' |-> m.payload.amount])
  BY DEF BookedAmount, BookedMessages, OnTopic
<1>8. BalancesAgree'
  BY <1>2, <1>5, <1>6, <1>7 DEF ReadInv, BalancesAgree
<1> QED
  BY <1>3, <1>4, <1>8 DEF ReadInv

-----------------------------------------------------------------------------
(***************************************************************************)
(* The commit of a booking.                                                *)
(***************************************************************************)
EntryFor(name, m) ==
    [account |-> <<name, m.payload.currency>>,
     direction |-> IF name = "cash" THEN "debit" ELSE "credit",
     amount |-> m.payload.amount]

\* A movement has one entry for either account.
LEMMA MovementEntries ==
    ASSUME NEW m
    PROVE  /\ buildPaymentMovement(m) = {EntryFor("cash", m), EntryFor("merchant_payable", m)}
           /\ EntryFor("cash", m) # EntryFor("merchant_payable", m)
           /\ \A name \in AccountNames :
                /\ EntryFor(name, m) \in buildPaymentMovement(m)
                /\ Signed(<<name, m.payload.currency>>, EntryFor(name, m)) = m.payload.amount
<1>1. buildPaymentMovement(m) = {EntryFor("cash", m), EntryFor("merchant_payable", m)}
  BY DEF buildPaymentMovement, EntryFor
<1>2. EntryFor("cash", m).direction = "debit" /\ EntryFor("merchant_payable", m).direction = "credit"
  BY DEF EntryFor
<1>3. ASSUME NEW name \in AccountNames
      PROVE  Signed(<<name, m.payload.currency>>, EntryFor(name, m)) = m.payload.amount
  <2>1. <<name, m.payload.currency>>[1] = name
    OBVIOUS
  <2>2. EntryFor(name, m).direction = normalBalance(<<name, m.payload.currency>>)
    BY <2>1 DEF EntryFor, normalBalance, AccountNames
  <2>3. EntryFor(name, m).amount = m.payload.amount
    BY DEF EntryFor
  <2> QED
    BY <2>2, <2>3 DEF Signed
<1> QED
  BY <1>1, <1>2, <1>3 DEF AccountNames

\* What a commit finds and leaves: the message in hand is on the topic, its event
\* is new, and the journal ends with its movement.
LEMMA CommitFacts ==
    ASSUME HandInv, BookInv, NEW c \in Consumers, pc[c] = "in_tx", Book(c)
    PROVE  /\ InHand(c) \in OnTopic /\ Bookable(InHand(c)) /\ InHand(c).event \notin consumed
           /\ InHand(c).payload.currency \in Currencies
           /\ consumed' = consumed \cup {InHand(c).event}
           /\ DOMAIN journal' = DOMAIN journal \cup {Len(journal) + 1}
           /\ Len(journal) + 1 \notin DOMAIN journal
           /\ journal'[Len(journal) + 1] = Booked(InHand(c))
           /\ \A i \in DOMAIN journal : journal'[i] = journal[i]
<1>1. InHand(c) \in ConsumerMessages /\ Bookable(InHand(c)) /\ work[c] \in Works
  BY InHandType DEF HandInv, BookingBookable, Booking, Busy
<1>2. InHand(c) \in OnTopic
  BY <1>1 DEF HandInv, WorkExists, Busy, Booking, Works, OnTopic, InHand, MessageAt
<1>3. InHand(c).event \notin consumed
  BY DEF BookInv, TxExclusive
<1>4. journal \in Seq(Transactions) /\ Booked(InHand(c)) \in Transactions
  BY BookFacts DEF HandInv, TypeOK
<1>5. journal' = Append(journal, Booked(InHand(c))) /\ consumed' = consumed \cup {InHand(c).event}
  BY DEF Book
<1>6. /\ DOMAIN journal' = DOMAIN journal \cup {Len(journal) + 1}
      /\ Len(journal) + 1 \notin DOMAIN journal
      /\ journal'[Len(journal) + 1] = Booked(InHand(c))
      /\ \A i \in DOMAIN journal : journal'[i] = journal[i]
  BY <1>4, <1>5
<1> QED
  BY <1>1, <1>2, <1>3, <1>5, <1>6, BookableType

\* A commit adds a row to either account of its currency, and none to another.
LEMMA RowsAdded ==
    ASSUME NEW m, NEW n, n \notin DOMAIN journal,
           DOMAIN journal' = DOMAIN journal \cup {n}, journal'[n] = Booked(m),
           \A i \in DOMAIN journal : journal'[i] = journal[i],
           NEW name \in AccountNames, NEW currency
    PROVE  /\ currency # m.payload.currency =>
                Rows(<<name, currency>>)' = Rows(<<name, currency>>)
           /\ currency = m.payload.currency =>
                /\ [transaction |-> n, entry |-> EntryFor(name, m)] \notin Rows(<<name, currency>>)
                /\ Rows(<<name, currency>>)' = Rows(<<name, currency>>)
                     \cup {[transaction |-> n, entry |-> EntryFor(name, m)]}
<1>1. EntryRows' = EntryRows \cup {[transaction |-> n, entry |-> EntryFor("cash", m)],
                                   [transaction |-> n, entry |-> EntryFor("merchant_payable", m)]}
  <2> DEFINE Added == {[transaction |-> n, entry |-> x] : x \in journal'[n].entries}
  <2>1. EntryRows' = UNION {{[transaction |-> i, entry |-> x] : x \in journal'[i].entries} :
                              i \in DOMAIN journal'}
    BY DEF EntryRows
  <2>2. EntryRows' = EntryRows \cup Added
    BY <2>1 DEF EntryRows
  <2>3. journal'[n].entries = {EntryFor("cash", m), EntryFor("merchant_payable", m)}
    BY MovementEntries DEF Booked
  <2> QED
    BY <2>2, <2>3
<1>2. \A row \in EntryRows : row.transaction # n
  BY DEF EntryRows
<1>3. \A other \in AccountNames :
        EntryFor(other, m).account = <<name, currency>> <=>
            (other = name /\ m.payload.currency = currency)
  BY DEF EntryFor
<1>4. \A other : /\ [transaction |-> n, entry |-> EntryFor(other, m)].entry = EntryFor(other, m)
                 /\ [transaction |-> n, entry |-> EntryFor(other, m)].transaction = n
  OBVIOUS
<1>5. /\ Rows(<<name, currency>>)' = {r \in EntryRows' : r.entry.account = <<name, currency>>}
      /\ Rows(<<name, currency>>) = {r \in EntryRows : r.entry.account = <<name, currency>>}
  BY DEF Rows
<1>6. CASE currency # m.payload.currency
  BY <1>1, <1>3, <1>4, <1>5, <1>6 DEF AccountNames
<1>7. CASE currency = m.payload.currency
  BY <1>1, <1>2, <1>3, <1>4, <1>5, <1>7 DEF AccountNames
<1> QED
  BY <1>6, <1>7

\* What the two sums of a currency are made of.
LEMMA SumsOf ==
    /\ \A currency : BookedAmount(currency) =
         SumFunction([m \in BookedMessages(currency) |-> m.payload.amount])
    /\ \A currency : BookedAmount(currency)' =
         SumFunction([m \in BookedMessages(currency)' |-> m.payload.amount])
    /\ \A account : Balance(account) =
         SumFunction([row \in Rows(account) |-> Signed(account, row.entry)])
    /\ \A account : Balance(account)' =
         SumFunction([row \in Rows(account)' |-> Signed(account, row.entry)])
BY DEF BookedAmount, BookedMessages, OnTopic, Balance, Signed, normalBalance

\* A movement adds its amount to the balance of either account of its currency.
LEMMA BalanceAdded ==
    ASSUME TypeOK, NEW m, m.payload.amount \in Int, NEW n, n \notin DOMAIN journal,
           DOMAIN journal' = DOMAIN journal \cup {n}, journal'[n] = Booked(m),
           \A i \in DOMAIN journal : journal'[i] = journal[i],
           NEW name \in AccountNames, NEW currency, IsFiniteSet(Rows(<<name, currency>>))
    PROVE  /\ IsFiniteSet(Rows(<<name, currency>>)')
           /\ currency # m.payload.currency =>
                Balance(<<name, currency>>)' = Balance(<<name, currency>>)
           /\ currency = m.payload.currency =>
                Balance(<<name, currency>>)' = Balance(<<name, currency>>) + m.payload.amount
<1> DEFINE account == <<name, currency>>
           row == [transaction |-> n, entry |-> EntryFor(name, m)]
           before == [r \in Rows(account) |-> Signed(account, r.entry)]
           after == [r \in Rows(account)' |-> Signed(account, r.entry)]
<1>1. /\ SumFunction(before) = Balance(account) /\ SumFunction(after) = Balance(account)'
      /\ IsFiniteSet(Rows(account))
  BY SumsOf
<1>2. CASE currency # m.payload.currency
  <2>1. Rows(account)' = Rows(account)
    BY <1>2, RowsAdded
  <2> QED
    BY <1>1, <1>2, <2>1
<1>3. CASE currency = m.payload.currency
  <2>1. row \notin Rows(account) /\ Rows(account)' = Rows(account) \cup {row}
    BY <1>3, RowsAdded
  <2>2. before \in [Rows(account) -> Int]
    BY SumsTyped
  <2>3. after[row] = m.payload.amount
    BY <1>3, <2>1, MovementEntries
  <2>4. \A r \in Rows(account) : after[r] = before[r]
    BY <2>1
  <2>5. after = [r \in Rows(account)' |-> after[r]]
    OBVIOUS
  <2> HIDE DEF account, row, before, after
  <2>6. IsFiniteSet(Rows(account) \cup {row})
    BY <1>1, FS_AddElement
  <2>7. \A r \in Rows(account) \cup {row} : after[r] \in Int
    BY <2>2, <2>3, <2>4
  <2>8. after \in [Rows(account) \cup {row} -> Int]
    BY <2>1, <2>5, <2>7
  <2>9. SumFunction(after) = SumFunction(before) + after[row]
    <3>1. /\ IsFiniteSet(Rows(account)) /\ row \notin Rows(account)
          /\ before \in [Rows(account) -> Int]
          /\ \A r \in Rows(account) : after[r] = before[r]
      BY <1>1, <2>1, <2>2, <2>4
    <3> QED
      BY <2>8, <3>1, SumGrows
  <2> QED
    BY <1>1, <1>3, <2>1, <2>3, <2>6, <2>9 DEF account
<1> QED
  BY <1>2, <1>3

\* A commit adds the message in hand to the booked ones of its currency, and no
\* other: the topic holds no other message of the event.
LEMMA MessageAdded ==
    ASSUME TopicUnique, topic' = topic, NEW m \in OnTopic, Bookable(m), m.event \notin consumed,
           consumed' = consumed \cup {m.event}, NEW currency
    PROVE  /\ currency # m.payload.currency =>
                BookedMessages(currency)' = BookedMessages(currency)
           /\ currency = m.payload.currency =>
                /\ m \notin BookedMessages(currency)
                /\ BookedMessages(currency)' = BookedMessages(currency) \cup {m}
<1>1. OnTopic' = OnTopic
  BY DEF OnTopic
<1>2. \A n \in OnTopic : (Bookable(n) /\ n.event = m.event) => n = m
  BY DEF TopicUnique
<1>3. BookedMessages(currency)' =
        {n \in OnTopic : (n.event \in consumed \/ n.event = m.event) /\ Bookable(n)
                           /\ n.payload.currency = currency}
  BY <1>1 DEF BookedMessages, Bookable
<1> QED
  BY <1>2, <1>3 DEF BookedMessages

\* The message counts for its amount.
LEMMA AmountAdded ==
    ASSUME TypeOK, TopicUnique, topic' = topic, NEW m \in OnTopic, Bookable(m),
           m.event \notin consumed, consumed' = consumed \cup {m.event},
           m.payload.amount \in Int, NEW currency, IsFiniteSet(BookedMessages(currency))
    PROVE  /\ IsFiniteSet(BookedMessages(currency)')
           /\ currency # m.payload.currency => BookedAmount(currency)' = BookedAmount(currency)
           /\ currency = m.payload.currency =>
                BookedAmount(currency)' = BookedAmount(currency) + m.payload.amount
<1> DEFINE before == [x \in BookedMessages(currency) |-> x.payload.amount]
           after == [x \in BookedMessages(currency)' |-> x.payload.amount]
<1>1. SumFunction(before) = BookedAmount(currency) /\ SumFunction(after) = BookedAmount(currency)'
  BY SumsOf
<1>2. CASE currency # m.payload.currency
  <2>1. BookedMessages(currency)' = BookedMessages(currency)
    BY <1>2, MessageAdded
  <2> QED
    BY <1>1, <1>2, <2>1
<1>3. CASE currency = m.payload.currency
  <2>1. /\ m \notin BookedMessages(currency)
        /\ BookedMessages(currency)' = BookedMessages(currency) \cup {m}
    BY <1>3, MessageAdded
  <2>2. IsFiniteSet(BookedMessages(currency) \cup {m})
    BY FS_AddElement
  <2>3. before \in [BookedMessages(currency) -> Int]
    BY SumsTyped
  <2>4. after[m] = m.payload.amount /\ \A x \in BookedMessages(currency) : after[x] = before[x]
    BY <2>1
  <2>5. after = [x \in BookedMessages(currency)' |-> after[x]]
    OBVIOUS
  <2> HIDE DEF before, after
  <2>6. \A x \in BookedMessages(currency) \cup {m} : after[x] \in Int
    BY <2>3, <2>4
  <2>7. after \in [BookedMessages(currency) \cup {m} -> Int]
    BY <2>1, <2>5, <2>6
  <2>8. SumFunction(after) = SumFunction(before) + after[m]
    BY <2>1, <2>3, <2>4, <2>7, SumGrows
  <2> QED
    BY <1>1, <1>3, <2>1, <2>2, <2>4, <2>8
<1> QED
  BY <1>2, <1>3

\* A commit keeps the balances equal to what was booked.
LEMMA CommitReads ==
    ASSUME HandInv, BookInv, ReadInv, TopicUnique, topic' = topic,
           NEW c \in Consumers, pc[c] = "in_tx", Book(c)
    PROVE  ReadInv'
<1> DEFINE m == InHand(c)
           n == Len(journal) + 1
<1>1. /\ m \in OnTopic /\ Bookable(m) /\ m.event \notin consumed
      /\ consumed' = consumed \cup {m.event}
      /\ DOMAIN journal' = DOMAIN journal \cup {n} /\ n \notin DOMAIN journal
      /\ journal'[n] = Booked(m)
      /\ \A i \in DOMAIN journal : journal'[i] = journal[i]
  BY CommitFacts
<1> HIDE DEF m, n
<1>2. TypeOK /\ m.payload.amount \in Int
  <2>1. m \in ConsumerMessages
    BY <1>1, OnTopicType DEF HandInv
  <2> QED
    BY <1>1, <2>1, BookableType, AmountsAreNumbers DEF HandInv
<1>3. RowsBooked'
  <2>1. OnTopic' = OnTopic
    BY DEF OnTopic
  <2> QED
    BY <1>1, <2>1 DEF ReadInv, RowsBooked, Bookable, Booked, buildPaymentMovement
<1>4. ASSUME NEW currency \in Currencies
      PROVE  /\ IsFiniteSet(BookedMessages(currency)')
             /\ currency # m.payload.currency => BookedAmount(currency)' = BookedAmount(currency)
             /\ currency = m.payload.currency =>
                  BookedAmount(currency)' = BookedAmount(currency) + m.payload.amount
  <2>1. IsFiniteSet(BookedMessages(currency))
    BY DEF ReadInv, FiniteReads
  <2> QED
    BY <1>1, <1>2, <2>1, AmountAdded
<1>5. ASSUME NEW currency \in Currencies, NEW name \in AccountNames
      PROVE  /\ IsFiniteSet(Rows(<<name, currency>>)')
             /\ currency # m.payload.currency =>
                  Balance(<<name, currency>>)' = Balance(<<name, currency>>)
             /\ currency = m.payload.currency =>
                  Balance(<<name, currency>>)' = Balance(<<name, currency>>) + m.payload.amount
  <2>1. IsFiniteSet(Rows(<<name, currency>>))
    BY DEF ReadInv, FiniteReads
  <2> QED
    BY <1>1, <1>2, <2>1, BalanceAdded
<1>6. FiniteReads'
  BY <1>4, <1>5 DEF FiniteReads
<1>7. BalancesAgree'
  BY <1>4, <1>5 DEF ReadInv, BalancesAgree
<1> QED
  BY <1>3, <1>6, <1>7 DEF ReadInv

-----------------------------------------------------------------------------
\* The entries of a payment are those of one movement.
LEMMA EntriesWhole ==
    ASSUME HandInv, BookInv, RowsBooked, TopicUnique, NEW p
    PROVE  ListEntriesByReference(p) = {} \/ OneMovement(ListEntriesByReference(p))
<1> DEFINE rows == ListEntriesByReference(p)
<1> SUFFICES ASSUME NEW row \in rows PROVE OneMovement(rows)
  OBVIOUS
<1> DEFINE i == row.transaction
<1>1. row \in EntryRows /\ i \in DOMAIN journal /\ journal[i].payment = p
  BY RowType DEF ListEntriesByReference, HandInv
<1>2. PICK m \in OnTopic : Bookable(m) /\ journal[i] = Booked(m)
  BY <1>1 DEF RowsBooked
<1>3. ASSUME NEW j \in DOMAIN journal, journal[j].payment = p PROVE j = i
  <2>1. PICK n \in OnTopic : Bookable(n) /\ journal[j] = Booked(n)
    BY DEF RowsBooked
  <2>2. m.payment = p /\ n.payment = p
    BY <1>1, <1>2, <1>3, <2>1 DEF Booked
  <2>3. m = n
    BY <1>2, <2>1, <2>2 DEF TopicUnique
  <2>4. journal[i].event = journal[j].event
    BY <1>2, <2>1, <2>3
  <2> QED
    BY <1>1, <2>4 DEF BookInv, BookedAtMostOnce
<1> DEFINE d == [transaction |-> i, entry |-> EntryFor("cash", m)]
           e == [transaction |-> i, entry |-> EntryFor("merchant_payable", m)]
<1>4. journal[i].entries = {EntryFor("cash", m), EntryFor("merchant_payable", m)}
  BY <1>2, MovementEntries DEF Booked
<1>5. rows = {x \in EntryRows : x.transaction = i}
  <2>1. \A x \in EntryRows : x.transaction \in DOMAIN journal
    BY RowType DEF HandInv
  <2> QED
    BY <1>1, <1>3, <2>1 DEF ListEntriesByReference
<1>6. rows = {d, e}
  <2>1. \A x \in EntryRows : x.transaction = i => x = d \/ x = e
    <3> SUFFICES ASSUME NEW x \in EntryRows, x.transaction = i PROVE x = d \/ x = e
      OBVIOUS
    <3>1. x = [transaction |-> x.transaction, entry |-> x.entry] /\ x.entry \in journal[i].entries
      BY RowType DEF HandInv
    <3> QED
      BY <1>4, <3>1
  <2>2. d \in EntryRows /\ e \in EntryRows
    BY <1>1, <1>4 DEF EntryRows
  <2>3. d.transaction = i /\ e.transaction = i
    OBVIOUS
  <2> HIDE DEF d, e, i
  <2> QED
    BY <1>5, <2>1, <2>2, <2>3
<1>7. /\ d.transaction = e.transaction
      /\ d.entry.direction = "debit" /\ e.entry.direction = "credit"
      /\ d.entry.amount = e.entry.amount
      /\ d.entry.account[2] = e.entry.account[2]
  BY DEF EntryFor
<1> HIDE DEF d, e, rows
<1> QED
  BY <1>6, <1>7 DEF OneMovement

\* What the invariant says of the two queries.
LEMMA ReadsFromInv ==
    ASSUME HandInv, BookInv, ReadInv, TopicUnique
    PROVE  ReadsAreWhole
<1>1. ASSUME NEW name \in AccountNames, NEW currency \in Currencies
      PROVE  (IF <<name, currency>> \in accounts THEN ListBalances[<<name, currency>>] ELSE 0)
                 = BookedAmount(currency)
  <2> DEFINE account == <<name, currency>>
  <2>1. Balance(account) = BookedAmount(currency) /\ IsFiniteSet(Rows(account))
    BY DEF ReadInv, BalancesAgree, FiniteReads
  <2>2. CASE account \in accounts
    BY <2>1, <2>2 DEF ListBalances, Balance, Rows
  <2>3. CASE account \notin accounts
    <3>1. \A row \in EntryRows : row.entry.account \in accounts
      BY RowType DEF HandInv, BookInv, ConsumedIffBooked
    <3>2. Rows(account) = {}
      BY <2>3, <3>1 DEF Rows
    <3>3. Balance(account) = 0
      BY <2>1, <3>2, SumsOf, SumsTyped, SumType DEF HandInv
    <3> QED
      BY <2>1, <2>3, <3>3
  <2> QED
    BY <2>2, <2>3
<1> QED
  BY <1>1, EntriesWhole DEF ReadsAreWhole, ReadInv, AccountNames

\* At the start there is nothing to read.
LEMMA InitReads == Init => ReadInv
<1> SUFFICES ASSUME Init PROVE ReadInv
  OBVIOUS
<1>1. journal = <<>> /\ consumed = {}
  BY DEF Init
<1>2. \A account : Rows(account) = {}
  BY <1>1 DEF Rows, EntryRows
<1>3. \A currency : BookedMessages(currency) = {}
  BY <1>1 DEF BookedMessages
<1>4. IsFiniteSet({})
  BY FS_EmptySet
<1>5. ASSUME NEW f, DOMAIN f = {}, f = [x \in {} |-> f[x]] PROVE SumFunction(f) = 0
  BY <1>4, <1>5, SumType
<1>6. BalancesAgree
  <2> SUFFICES ASSUME NEW currency \in Currencies, NEW name \in AccountNames
               PROVE  Balance(<<name, currency>>) = BookedAmount(currency)
    BY DEF BalancesAgree
  <2>1. Balance(<<name, currency>>) = 0
    BY <1>2, <1>5, SumsOf
  <2>2. BookedAmount(currency) = 0
    BY <1>3, <1>5, SumsOf
  <2> QED
    BY <2>1, <2>2
<1>7. RowsBooked
  BY <1>1 DEF RowsBooked
<1>8. FiniteReads
  BY <1>2, <1>3, <1>4 DEF FiniteReads
<1> QED
  BY <1>6, <1>7, <1>8 DEF ReadInv

\* Of the consumers' steps only a commit writes what is read.
LEMMA OnlyCommitsWrite ==
    ASSUME HandInv, [Next]_vars
    PROVE  \/ UNCHANGED <<consumed, journal>>
           \/ /\ topic' = topic
              /\ \E c \in Consumers : pc[c] = "in_tx" /\ Book(c)
<1>1. CASE \E c \in Consumers : TxCommit(c) \/ TxCommitLost(c)
  BY <1>1 DEF TxCommit, TxCommitLost, kafka
<1>2. CASE \/ UNCHANGED vars
           \/ \E m \in Incoming : Produce(m)
           \/ \E k \in Partitions, c \in Consumers : Assign(k, c) \/ FetchMessage(c, k)
           \/ \E c \in Consumers : FetchWaits(c)
  BY <1>2 DEF vars, ledger, Produce, Assign, FetchMessage, FetchWaits
<1>3. ASSUME NEW c \in Consumers,
             \/ HandleRejects(c) \/ HandleIgnores(c) \/ HandleInvalid(c) \/ HandleBookable(c)
             \/ EnsureAccount(c, "cash", "cash", "payable")
             \/ EnsureAccount(c, "payable", "merchant_payable", "insert")
             \/ InsertConsumed(c) \/ InsertDuplicate(c) \/ PublishDeadLetter(c)
             \/ CommitMessages(c) \/ Restart(c) \/ DbFails(c) \/ DeadLetterRetries(c)
             \/ DeadLetterFails(c) \/ CommitFails(c) \/ Stop(c)
      PROVE  UNCHANGED <<consumed, journal>>
  BY <1>3 DEF HandleRejects, HandleIgnores, HandleInvalid, HandleBookable, EnsureAccount,
              InsertConsumed, InsertDuplicate, PublishDeadLetter, CommitMessages, Restart,
              DbFails, DeadLetterRetries, DeadLetterFails, CommitFails, Stop, ledger
<1> QED
  BY <1>1, <1>2, <1>3 DEF Next, Handle, Fault

\* Every step keeps what the queries rest on, as long as the topic holds one
\* message per payment.
LEMMA NextReads ==
    HandInv /\ BookInv /\ ReadInv /\ TopicUnique /\ TopicUnique' /\ [Next]_vars => ReadInv'
<1> SUFFICES ASSUME HandInv, BookInv, ReadInv, TopicUnique, TopicUnique', [Next]_vars
             PROVE  ReadInv'
  OBVIOUS
<1>1. OnTopic \subseteq OnTopic'
  BY StepGrows DEF OnTopic
<1> QED
  BY <1>1, OnlyCommitsWrite, ReadsKept, CommitReads

\* What is on the topic was put there by a producer.
TopicIncoming == OnTopic \subseteq Incoming

\* Nobody else writes to the topic.
LEMMA NextIncoming == HandInv /\ TopicIncoming /\ [Next]_vars => TopicIncoming'
<1> SUFFICES ASSUME HandInv, TopicIncoming, [Next]_vars PROVE TopicIncoming'
  OBVIOUS
<1>1. ASSUME NEW m \in Incoming, Produce(m) PROVE TopicIncoming'
  <2> DEFINE k == PartitionOf[m.payment]
  <2>1. m \in ConsumerMessages /\ k \in Partitions
    BY ConsumerAssumption DEF ConsumerMessages
  <2>2. topic' = [topic EXCEPT ![k] = Append(topic[k], m)]
    BY <1>1 DEF Produce
  <2> HIDE DEF k
  <2>3. \A j \in Partitions : \A i \in DOMAIN topic'[j] :
          topic'[j][i] = m \/ (i \in DOMAIN topic[j] /\ topic'[j][i] = topic[j][i])
    BY <2>1, <2>2 DEF HandInv, TypeOK
  <2> QED
    BY <2>3 DEF TopicIncoming, OnTopic
<1>2. CASE topic' = topic
  BY <1>2 DEF TopicIncoming, OnTopic
<1>3. ASSUME NEW c \in Consumers, Handle(c) \/ Fault(c) PROVE topic' = topic
  BY <1>3 DEF Handle, Fault, HandleRejects, HandleIgnores, HandleInvalid, HandleBookable,
              EnsureAccount, InsertConsumed, InsertDuplicate, TxCommit, TxCommitLost,
              PublishDeadLetter, CommitMessages, Restart, DbFails, DeadLetterRetries,
              DeadLetterFails, CommitFails, Stop, kafka
<1> QED
  BY <1>1, <1>2, <1>3 DEF Next, Assign, FetchMessage, FetchWaits, vars, kafka

\* If a payment has one event and an event one message, then whoever reads in the
\* middle of retries, rebalances and repeated deliveries sees whole movements: the
\* balances are the sums of the consumed payments, each counted once, and the
\* entries of a payment are none or one debit and one credit of the same money
\* (postgres_ledger_repository.go:105-186).
THEOREM ReadsWhole == OneMessagePerPayment => (Spec => []ReadsAreWhole)
<1> SUFFICES ASSUME OneMessagePerPayment PROVE Spec => []ReadsAreWhole
  OBVIOUS
<1>1. Init => TopicIncoming
  BY DEF Init, TopicIncoming, OnTopic
<1>2. TopicIncoming => TopicUnique
  BY DEF OneMessagePerPayment, TopicIncoming, TopicUnique
<1>3. TopicIncoming' => TopicUnique'
  BY DEF OneMessagePerPayment, TopicIncoming, TopicUnique, Bookable
<1>4. Spec => []TopicIncoming
  BY <1>1, NextIncoming, AlwaysHandInv, PTL DEF Spec
<1>5. Spec => []ReadInv
  BY <1>2, <1>3, <1>4, InitReads, NextReads, AlwaysHandInv, AlwaysBookInv, PTL DEF Spec
<1>6. HandInv /\ BookInv /\ ReadInv /\ TopicUnique => ReadsAreWhole
  BY ReadsFromInv
<1> QED
  BY <1>2, <1>4, <1>5, <1>6, AlwaysHandInv, AlwaysBookInv, PTL
=============================================================================
