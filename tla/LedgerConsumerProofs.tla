------------------------- MODULE LedgerConsumerProofs -------------------------
(***************************************************************************)
(* What TLAPS proves of the ledger consumers, for any number of consumers, *)
(* partitions, messages, attempts and faults.                              *)
(***************************************************************************)
EXTENDS LedgerConsumer, TLAPS

Booking == {"cash", "payable", "insert", "in_tx"}
Busy == Booking \cup {"handling", "exhausted", "committing"}

(***************************************************************************)
(* A busy consumer has a message of the topic in hand, and one that it is  *)
(* about to book can be booked.                                            *)
(***************************************************************************)
WorkExists ==
    \A c \in Consumers : pc[c] \in Busy =>
        work[c] \in Works /\ work[c].offset \in DOMAIN topic[work[c].partition]

BookingBookable == \A c \in Consumers : pc[c] \in Booking => Bookable(InHand(c))

HandInv == TypeOK /\ WorkExists /\ BookingBookable

-----------------------------------------------------------------------------
\* Nobody has a message in hand at the start.
LEMMA InitHandInv == Init => HandInv
BY ConsumerAssumption
   DEF Init, HandInv, TypeOK, Places, Faults, WorkExists, BookingBookable, Busy, Booking

\* What a busy consumer has in hand is a message.
LEMMA InHandType ==
    ASSUME HandInv, NEW c \in Consumers, pc[c] \in Busy
    PROVE  InHand(c) \in ConsumerMessages /\ work[c] \in Works
BY DEF HandInv, TypeOK, WorkExists, InHand, MessageAt, Works

\* A bookable message has an event, a payment and money.
LEMMA BookableType ==
    ASSUME NEW m \in ConsumerMessages, Bookable(m)
    PROVE  /\ m.event \in EventIds /\ m.payment \in EventIds
           /\ m.payload.amount \in Amounts /\ m.payload.currency \in Currencies
BY DEF ConsumerMessages, Bookable, Money

\* The counters of faults stay within their bounds.
LEMMA FaultsBounded ==
    ASSUME TypeOK,
           \/ faults' = faults
           \/ faults.stop < MaxStops /\ faults' = [faults EXCEPT !.stop = @ + 1]
           \/ faults.rebalance < MaxRebalances /\ faults' = [faults EXCEPT !.rebalance = @ + 1]
           \/ faults.db < MaxDbErrors /\ faults' = [faults EXCEPT !.db = @ + 1]
           \/ faults.kafka < MaxKafkaErrors /\ faults' = [faults EXCEPT !.kafka = @ + 1]
    PROVE  faults' \in Faults
<1>1. /\ faults \in Faults
      /\ faults.stop \in 0..MaxStops /\ faults.rebalance \in 0..MaxRebalances
      /\ faults.db \in 0..MaxDbErrors /\ faults.kafka \in 0..MaxKafkaErrors
  BY DEF TypeOK, Faults
<1>2. \A bound \in Nat : \A n \in 0..bound : n < bound => n + 1 \in 0..bound
  OBVIOUS
<1>3. /\ faults.stop < MaxStops => faults.stop + 1 \in 0..MaxStops
      /\ faults.rebalance < MaxRebalances => faults.rebalance + 1 \in 0..MaxRebalances
      /\ faults.db < MaxDbErrors => faults.db + 1 \in 0..MaxDbErrors
      /\ faults.kafka < MaxKafkaErrors => faults.kafka + 1 \in 0..MaxKafkaErrors
  BY <1>1, <1>2, ConsumerAssumption
<1> QED
  BY <1>1, <1>3 DEF Faults

\* The messages in hand stay where they are while the topic grows.
LEMMA ProduceFacts ==
    ASSUME TypeOK, NEW m \in Incoming, Produce(m)
    PROVE  /\ topic' \in [Partitions -> Seq(ConsumerMessages)]
           /\ \A k \in Partitions : \A i \in DOMAIN topic[k] :
                i \in DOMAIN topic'[k] /\ topic'[k][i] = topic[k][i]
           /\ \A k \in Partitions : Len(topic[k]) <= Len(topic'[k])
<1> DEFINE k == PartitionOf[m.payment]
<1>1. m \in ConsumerMessages /\ k \in Partitions
  BY ConsumerAssumption DEF ConsumerMessages
<1>2. topic' = [topic EXCEPT ![k] = Append(topic[k], m)]
  BY DEF Produce
<1> HIDE DEF k
<1> QED
  BY <1>1, <1>2 DEF TypeOK

\* A new message, on top of what is there.
LEMMA ProduceHand ==
    ASSUME HandInv, NEW m \in Incoming, Produce(m)
    PROVE  HandInv'
<1>1. UNCHANGED <<committed, owner, position, pc, work, attempt, accounts, consumed, journal,
                  deadLetters, faults>>
  BY DEF Produce, ledger
<1>2. TypeOK'
  BY <1>1, ProduceFacts DEF HandInv, TypeOK
<1>3. WorkExists' /\ BookingBookable'
  BY <1>1, ProduceFacts DEF HandInv, WorkExists, BookingBookable, InHand, MessageAt, Works, Busy
<1> QED
  BY <1>2, <1>3 DEF HandInv

\* The coordinator does not touch what consumers have in hand.
LEMMA AssignHand ==
    ASSUME HandInv, NEW k \in Partitions, NEW c \in Consumers, Assign(k, c)
    PROVE  HandInv'
<1>1. UNCHANGED <<topic, committed, pc, work, attempt, accounts, consumed, journal, deadLetters>>
  BY DEF Assign, ledger
<1>2. owner' \in [Partitions -> Consumers \cup {None}] /\ position' \in [Partitions -> Nat]
  BY DEF Assign, HandInv, TypeOK
<1>3. faults' \in Faults
  BY FaultsBounded DEF Assign, HandInv
<1> QED
  BY <1>1, <1>2, <1>3 DEF HandInv, TypeOK, WorkExists, BookingBookable, InHand, MessageAt

\* A fetched message is on the topic.
LEMMA FetchHand ==
    ASSUME HandInv, NEW k \in Partitions, NEW c \in Consumers, FetchMessage(c, k)
    PROVE  HandInv'
<1> DEFINE w == [partition |-> k, offset |-> position[k] + 1]
<1>1. UNCHANGED <<topic, committed, owner, accounts, consumed, journal, deadLetters, faults>>
  BY DEF FetchMessage, ledger
<1>2. w \in Works /\ w.offset \in DOMAIN topic[w.partition]
  BY DEF FetchMessage, HandInv, TypeOK, Works
<1>3. /\ position' \in [Partitions -> Nat]
      /\ work' = [work EXCEPT ![c] = w]
      /\ attempt' = [attempt EXCEPT ![c] = 1]
      /\ pc' = [pc EXCEPT ![c] = "handling"]
  BY DEF FetchMessage, Goto, HandInv, TypeOK
<1> HIDE DEF w
<1>4. TypeOK'
  BY <1>1, <1>2, <1>3, ConsumerAssumption DEF HandInv, TypeOK, Places
<1>5. WorkExists' /\ BookingBookable'
  BY <1>1, <1>2, <1>3
     DEF HandInv, TypeOK, WorkExists, BookingBookable, InHand, MessageAt, Booking, Busy
<1> QED
  BY <1>4, <1>5 DEF HandInv

-----------------------------------------------------------------------------
(***************************************************************************)
(* The steps of one consumer.                                              *)
(***************************************************************************)

\* A consumer that moves on, or that drops its message, leaves the others alone.
LEMMA MoveHand ==
    ASSUME HandInv, NEW c \in Consumers, NEW place \in Places,
           topic' = topic, Goto(c, place),
           \/ work' = work
           \/ work' = [work EXCEPT ![c] = None] /\ place \notin Busy,
           place \in Busy => pc[c] \in Busy,
           place \in Booking => Bookable(InHand(c))
    PROVE  /\ pc' \in [Consumers -> Places]
           /\ work' \in [Consumers -> Works \cup {None}]
           /\ WorkExists' /\ BookingBookable'
<1>1. \A d \in Consumers \ {c} : pc'[d] = pc[d] /\ work'[d] = work[d]
  BY DEF Goto, HandInv, TypeOK
<1>2. pc'[c] = place /\ (place \in Busy => work'[c] = work[c])
  BY DEF Goto, HandInv, TypeOK
<1>3. pc' \in [Consumers -> Places] /\ work' \in [Consumers -> Works \cup {None}]
  BY DEF Goto, HandInv, TypeOK
<1>4. WorkExists'
  BY <1>1, <1>2 DEF HandInv, WorkExists
<1>5. BookingBookable'
  BY <1>1, <1>2 DEF HandInv, BookingBookable, InHand, MessageAt, Busy
<1> QED
  BY <1>3, <1>4, <1>5

\* handleWithRetry keeps the attempt within its limit.
LEMMA RetryFacts ==
    ASSUME TypeOK, NEW c \in Consumers, RetryOrGiveUp(c)
    PROVE  /\ attempt' \in [Consumers -> 0..MaxAttempts]
           /\ Goto(c, "handling") \/ Goto(c, "exhausted")
<1>1. attempt[c] < MaxAttempts => attempt[c] + 1 \in 0..MaxAttempts
  BY ConsumerAssumption DEF TypeOK
<1> QED
  BY <1>1 DEF TypeOK, RetryOrGiveUp

\* A booking is a transaction of the journal.
LEMMA BookFacts ==
    ASSUME HandInv, NEW c \in Consumers, pc[c] = "in_tx", Book(c)
    PROVE  /\ consumed' \subseteq EventIds /\ journal' \in Seq(Transactions)
           /\ Booked(InHand(c)) \in Transactions
           /\ InHand(c).event \in EventIds
           /\ UNCHANGED accounts
<1> DEFINE m == InHand(c)
<1>1. m \in ConsumerMessages /\ Bookable(m)
  BY InHandType DEF HandInv, BookingBookable, Booking, Busy
<1>2. /\ m.event \in EventIds /\ m.payment \in EventIds
      /\ m.payload.amount \in Amounts /\ m.payload.currency \in Currencies
  BY <1>1, BookableType
<1>3. buildPaymentMovement(m) \subseteq Entries
  BY <1>2 DEF buildPaymentMovement, Entries, Accounts
<1>4. Booked(m) \in Transactions
  BY <1>2, <1>3 DEF Booked, Transactions
<1>5. /\ consumed' = consumed \cup {m.event} /\ journal' = Append(journal, Booked(m))
      /\ UNCHANGED accounts
  BY DEF Book
<1> HIDE DEF m
<1> QED
  BY <1>2, <1>4, <1>5 DEF HandInv, TypeOK, m

\* The record of a message that is given up.
LEMMA DeadLetterType ==
    ASSUME HandInv, NEW c \in Consumers, pc[c] = "exhausted"
    PROVE  DeadLetter(c) \in DeadLetterRecords
<1>1. InHand(c) \in ConsumerMessages /\ work[c] \in Works
  BY InHandType DEF Busy
<1> QED
  BY <1>1, ConsumerAssumption DEF DeadLetter, DeadLetterRecords, HandInv, TypeOK, Works

\* A process that ends holds nothing.
LEMMA ExitFacts ==
    ASSUME HandInv, NEW c \in Consumers, Exit(c)
    PROVE  /\ owner' \in [Partitions -> Consumers \cup {None}]
           /\ work' = [work EXCEPT ![c] = None]
           /\ attempt' \in [Consumers -> 0..MaxAttempts]
           /\ Goto(c, "down")
BY ConsumerAssumption DEF Exit, HandInv, TypeOK

\* Every step of a consumer keeps the types and what is in hand.
LEMMA ConsumerHand ==
    ASSUME HandInv, NEW c \in Consumers, Handle(c) \/ Fault(c)
    PROVE  HandInv'
<1> USE DEF HandInv
<1>1. CASE HandleRejects(c) \/ HandleIgnores(c) \/ InsertConsumed(c) \/ InsertDuplicate(c)
  <2>1. UNCHANGED <<topic, committed, owner, position, work, attempt, accounts, consumed,
                    journal, deadLetters, faults>>
    BY <1>1 DEF HandleRejects, HandleIgnores, InsertConsumed, InsertDuplicate, kafka, ledger
  <2>2. PICK place \in {"exhausted", "committing", "in_tx"} :
          Goto(c, place) /\ pc[c] \in Busy /\ (place = "in_tx" => pc[c] = "insert")
    BY <1>1 DEF HandleRejects, HandleIgnores, InsertConsumed, InsertDuplicate, Busy, Booking
  <2>3. place = "in_tx" => Bookable(InHand(c))
    BY <2>2 DEF BookingBookable, Booking
  <2> QED
    BY <2>1, <2>2, <2>3, MoveHand DEF TypeOK, Places, Busy, Booking
<1>2. CASE HandleBookable(c) \/ Restart(c)
  <2>1. UNCHANGED <<topic, committed, owner, position, work, attempt, accounts, consumed,
                    journal, deadLetters, faults>>
    BY <1>2 DEF HandleBookable, Restart, kafka, ledger
  <2>2. \/ Goto(c, "cash") /\ pc[c] \in Busy /\ Bookable(InHand(c))
        \/ Goto(c, "fetching")
    BY <1>2 DEF HandleBookable, Restart, Busy
  <2> QED
    BY <2>1, <2>2, MoveHand DEF TypeOK, Places, Busy, Booking
<1>3. CASE HandleInvalid(c) \/ DbFails(c)
  <2>1. UNCHANGED <<topic, committed, owner, position, work, accounts, consumed, journal,
                    deadLetters>>
    BY <1>3 DEF HandleInvalid, DbFails, kafka, ledger
  <2>2. RetryOrGiveUp(c) /\ pc[c] \in Busy
    BY <1>3 DEF HandleInvalid, DbFails, Busy, Booking
  <2>3. faults' \in Faults
    BY <1>3, FaultsBounded DEF HandleInvalid, DbFails
  <2> QED
    BY <2>1, <2>2, <2>3, RetryFacts, MoveHand DEF TypeOK, Places, Busy, Booking
<1>4. ASSUME NEW here, NEW name \in {"cash", "merchant_payable"}, NEW next,
             EnsureAccount(c, here, name, next), here \in Booking, next \in {"payable", "insert"}
      PROVE  HandInv'
  <2>1. UNCHANGED <<topic, committed, owner, position, work, attempt, consumed, journal,
                    deadLetters, faults>>
    BY <1>4 DEF EnsureAccount, kafka
  <2>2. pc[c] \in Booking /\ Goto(c, next)
    BY <1>4 DEF EnsureAccount
  <2>3. InHand(c) \in ConsumerMessages /\ Bookable(InHand(c))
    BY <2>2, InHandType DEF BookingBookable, Busy
  <2>4. accounts' \subseteq Accounts
    BY <1>4, <2>3, BookableType DEF EnsureAccount, Accounts, TypeOK
  <2> QED
    BY <1>4, <2>1, <2>2, <2>3, <2>4, MoveHand DEF TypeOK, Places, Busy, Booking
<1>5. CASE TxCommit(c) \/ TxCommitLost(c)
  <2>1. UNCHANGED <<topic, committed, owner, position, work, deadLetters>>
    BY <1>5 DEF TxCommit, TxCommitLost, kafka
  <2>2. Book(c) /\ pc[c] = "in_tx"
    BY <1>5 DEF TxCommit, TxCommitLost
  <2>3. faults' \in Faults
    BY <1>5, FaultsBounded DEF TxCommit, TxCommitLost
  <2>4. \/ Goto(c, "committing") /\ UNCHANGED attempt
        \/ RetryOrGiveUp(c)
    BY <1>5 DEF TxCommit, TxCommitLost
  <2>5. /\ attempt' \in [Consumers -> 0..MaxAttempts]
        /\ Goto(c, "committing") \/ Goto(c, "handling") \/ Goto(c, "exhausted")
    BY <2>4, RetryFacts DEF TypeOK
  <2>6. /\ consumed' \subseteq EventIds /\ journal' \in Seq(Transactions) /\ UNCHANGED accounts
    BY <2>2, BookFacts
  <2> QED
    BY <2>1, <2>2, <2>3, <2>5, <2>6, MoveHand DEF TypeOK, Places, Busy, Booking
<1>6. CASE PublishDeadLetter(c)
  <2>1. UNCHANGED <<topic, committed, owner, position, work, attempt, accounts, consumed,
                    journal, faults>>
    BY <1>6 DEF PublishDeadLetter, kafka, ledger
  <2>2. /\ pc[c] = "exhausted" /\ Goto(c, "committing")
        /\ deadLetters' = Append(deadLetters, DeadLetter(c))
    BY <1>6 DEF PublishDeadLetter
  <2>3. deadLetters' \in Seq(DeadLetterRecords)
    BY <2>2, DeadLetterType DEF TypeOK
  <2> QED
    BY <2>1, <2>2, <2>3, MoveHand DEF TypeOK, Places, Busy, Booking
<1>7. CASE CommitMessages(c)
  <2>1. UNCHANGED <<topic, owner, position, accounts, consumed, journal, deadLetters, faults>>
    BY <1>7 DEF CommitMessages, ledger
  <2>2. /\ pc[c] = "committing" /\ Goto(c, "fetching") /\ work' = [work EXCEPT ![c] = None]
        /\ attempt' = [attempt EXCEPT ![c] = 0]
        /\ committed' = [committed EXCEPT ![work[c].partition] = work[c].offset]
    BY <1>7 DEF CommitMessages
  <2>3. work[c] \in Works
    BY <2>2 DEF WorkExists, Busy
  <2>4. committed' \in [Partitions -> Nat] /\ attempt' \in [Consumers -> 0..MaxAttempts]
    BY <2>2, <2>3, ConsumerAssumption DEF TypeOK, Works
  <2> QED
    BY <2>1, <2>2, <2>4, MoveHand DEF TypeOK, Places, Busy, Booking
<1>8. CASE DeadLetterFails(c) \/ CommitFails(c) \/ Stop(c)
  <2>1. UNCHANGED <<topic, position, accounts, consumed, journal>> /\ Exit(c)
    BY <1>8 DEF DeadLetterFails, CommitFails, Stop, ledger
  <2>2. faults' \in Faults
    BY <1>8, FaultsBounded DEF DeadLetterFails, CommitFails, Stop
  <2>3. deadLetters' \in Seq(DeadLetterRecords)
    <3>1. \/ deadLetters' = deadLetters
          \/ pc[c] = "exhausted" /\ deadLetters' = Append(deadLetters, DeadLetter(c))
      BY <1>8 DEF DeadLetterFails, CommitFails, Stop
    <3>2. CASE deadLetters' = deadLetters
      BY <3>2 DEF TypeOK
    <3>3. CASE pc[c] = "exhausted" /\ deadLetters' = Append(deadLetters, DeadLetter(c))
      <4>1. DeadLetter(c) \in DeadLetterRecords
        BY <3>3, DeadLetterType
      <4> QED
        BY <3>3, <4>1 DEF TypeOK
    <3> QED
      BY <3>1, <3>2, <3>3
  <2>4. committed' \in [Partitions -> Nat]
    <3>1. \/ committed' = committed
          \/ /\ pc[c] = "committing"
             /\ committed' = [committed EXCEPT ![work[c].partition] = work[c].offset]
      BY <1>8 DEF DeadLetterFails, CommitFails, Stop
    <3> QED
      BY <3>1 DEF TypeOK, WorkExists, Busy, Works
  <2> QED
    BY <2>1, <2>2, <2>3, <2>4, ExitFacts, MoveHand DEF TypeOK, Places, Busy, Booking
<1>9. CASE DeadLetterRetries(c)
  <2>1. /\ UNCHANGED <<topic, committed, owner, position, work, attempt, accounts, consumed,
                       journal>>
        /\ pc[c] = "exhausted" /\ pc' = pc
        /\ deadLetters' = Append(deadLetters, DeadLetter(c))
    BY <1>9 DEF DeadLetterRetries, kafka, ledger
  <2>2. faults' \in Faults
    BY <1>9, FaultsBounded DEF DeadLetterRetries
  <2>3. deadLetters' \in Seq(DeadLetterRecords)
    BY <2>1, DeadLetterType DEF TypeOK
  <2>4. Goto(c, "exhausted")
    BY <2>1 DEF Goto, TypeOK
  <2> QED
    BY <2>1, <2>2, <2>3, <2>4, MoveHand DEF TypeOK, Places, Busy, Booking
<1> QED
  BY <1>1, <1>2, <1>3, <1>4, <1>5, <1>6, <1>7, <1>8, <1>9 DEF Handle, Fault, Booking

\* Every step keeps the types and what is in hand.
LEMMA NextHandInv == HandInv /\ [Next]_vars => HandInv'
<1> SUFFICES ASSUME HandInv, [Next]_vars PROVE HandInv'
  OBVIOUS
<1>1. CASE UNCHANGED vars
  BY <1>1 DEF vars, kafka, ledger, HandInv, TypeOK, WorkExists, BookingBookable, InHand, MessageAt
<1>2. CASE \E c \in Consumers : FetchWaits(c)
  BY <1>1, <1>2 DEF FetchWaits
<1> QED
  BY <1>1, <1>2, ProduceHand, AssignHand, FetchHand, ConsumerHand DEF Next

\* It therefore holds in every reachable state.
LEMMA AlwaysHandInv == Spec => []HandInv
BY InitHandInv, NextHandInv, PTL DEF Spec

\* Topic, offsets, assignment, ledger and dead letters keep their types.
THEOREM TypeCorrect == Spec => []TypeOK
BY AlwaysHandInv, PTL DEF HandInv

-----------------------------------------------------------------------------
(***************************************************************************)
(* Booking.  BookedAtMostOnce and ConsumedIffBooked are kept by a commit   *)
(* only because the event of an open transaction is not consumed yet and   *)
(* is in no other open transaction (TxExclusive: the unique index makes    *)
(* the second insert wait), and because both accounts were ensured before  *)
(* (AccountsReady).                                                        *)
(***************************************************************************)
TxExclusive ==
    \A c \in Consumers : pc[c] = "in_tx" =>
        /\ InHand(c).event \notin consumed
        /\ \A d \in Consumers : (pc[d] = "in_tx" /\ InHand(d).event = InHand(c).event) => d = c

AccountsReady ==
    \A c \in Consumers :
        /\ pc[c] \in {"payable", "insert", "in_tx"} =>
             <<"cash", InHand(c).payload.currency>> \in accounts
        /\ pc[c] \in {"insert", "in_tx"} =>
             <<"merchant_payable", InHand(c).payload.currency>> \in accounts

BookInv == TxExclusive /\ AccountsReady /\ BookedAtMostOnce /\ ConsumedIffBooked

\* At the start the journal is empty.
LEMMA InitBookInv == Init => BookInv
BY DEF Init, BookInv, TxExclusive, AccountsReady, BookedAtMostOnce, ConsumedIffBooked

\* A step that writes nothing to the ledger and brings no consumer further with
\* a booking keeps the invariant.
LEMMA BookKept ==
    ASSUME BookInv, UNCHANGED <<accounts, consumed, journal>>,
           \A d \in Consumers : pc'[d] \in {"payable", "insert", "in_tx"} =>
               pc'[d] = pc[d] /\ InHand(d)' = InHand(d)
    PROVE  BookInv'
<1>1. TxExclusive'
  BY DEF BookInv, TxExclusive
<1>2. AccountsReady'
  BY DEF BookInv, AccountsReady
<1>3. BookedAtMostOnce' /\ ConsumedIffBooked'
  BY DEF BookInv, BookedAtMostOnce, ConsumedIffBooked
<1> QED
  BY <1>1, <1>2, <1>3 DEF BookInv

\* Messages in hand are not changed by what others do.
LEMMA SameInHand ==
    ASSUME HandInv, topic' = topic, NEW d \in Consumers, work'[d] = work[d]
    PROVE  InHand(d)' = InHand(d)
BY DEF InHand, MessageAt

\* The accounts are ensured one after the other.
LEMMA EnsureBook ==
    ASSUME HandInv, BookInv, NEW c \in Consumers,
           \/ EnsureAccount(c, "cash", "cash", "payable")
           \/ EnsureAccount(c, "payable", "merchant_payable", "insert")
    PROVE  BookInv'
<1>1. UNCHANGED <<topic, work, consumed, journal>> /\ accounts \subseteq accounts'
  BY DEF EnsureAccount, kafka
<1>2. \A d \in Consumers : InHand(d)' = InHand(d)
  BY <1>1, SameInHand
<1>3. \A d \in Consumers \ {c} : pc'[d] = pc[d]
  BY DEF EnsureAccount, Goto, HandInv, TypeOK
<1>4. \/ /\ pc'[c] = "payable"
         /\ <<"cash", InHand(c).payload.currency>> \in accounts'
      \/ /\ pc[c] = "payable" /\ pc'[c] = "insert"
         /\ <<"merchant_payable", InHand(c).payload.currency>> \in accounts'
  BY DEF EnsureAccount, Goto, HandInv, TypeOK
<1>5. TxExclusive'
  BY <1>1, <1>2, <1>3, <1>4 DEF BookInv, TxExclusive
<1>6. AccountsReady'
  BY <1>1, <1>2, <1>3, <1>4 DEF BookInv, AccountsReady
<1>7. BookedAtMostOnce' /\ ConsumedIffBooked'
  BY <1>1 DEF BookInv, BookedAtMostOnce, ConsumedIffBooked
<1> QED
  BY <1>5, <1>6, <1>7 DEF BookInv

\* The insert takes effect for an event that is neither consumed nor in another
\* open transaction.
LEMMA InsertBook ==
    ASSUME HandInv, BookInv, NEW c \in Consumers, InsertConsumed(c)
    PROVE  BookInv'
<1>1. UNCHANGED <<topic, work, accounts, consumed, journal>>
  BY DEF InsertConsumed, kafka, ledger
<1>2. \A d \in Consumers : InHand(d)' = InHand(d)
  BY <1>1, SameInHand
<1>3. /\ \A d \in Consumers \ {c} : pc'[d] = pc[d]
      /\ pc[c] = "insert" /\ pc'[c] = "in_tx"
  BY DEF InsertConsumed, Goto, HandInv, TypeOK
<1>4. /\ InHand(c).event \notin consumed
      /\ \A d \in Consumers \ {c} : ~(pc[d] = "in_tx" /\ InHand(d).event = InHand(c).event)
  BY DEF InsertConsumed, EventLocked
<1>5. TxExclusive'
  BY <1>1, <1>2, <1>3, <1>4 DEF BookInv, TxExclusive
<1>6. AccountsReady'
  BY <1>1, <1>2, <1>3 DEF BookInv, AccountsReady
<1>7. BookedAtMostOnce' /\ ConsumedIffBooked'
  BY <1>1 DEF BookInv, BookedAtMostOnce, ConsumedIffBooked
<1> QED
  BY <1>5, <1>6, <1>7 DEF BookInv

\* The commit books an event that was not booked, on accounts that exist.
LEMMA CommitBook ==
    ASSUME HandInv, BookInv, NEW c \in Consumers, TxCommit(c) \/ TxCommitLost(c)
    PROVE  BookInv'
<1> DEFINE m == InHand(c)
<1>1. UNCHANGED <<topic, work>> /\ pc[c] = "in_tx" /\ Book(c)
  BY DEF TxCommit, TxCommitLost, kafka
<1>2. /\ \A d \in Consumers \ {c} : pc'[d] = pc[d]
      /\ pc'[c] \in {"committing", "handling", "exhausted"}
  <2>1. Goto(c, "committing") \/ Goto(c, "handling") \/ Goto(c, "exhausted")
    BY RetryFacts DEF TxCommit, TxCommitLost, HandInv
  <2> QED
    BY <2>1 DEF Goto, HandInv, TypeOK
<1>3. \A d \in Consumers : InHand(d)' = InHand(d)
  BY <1>1, SameInHand
<1>4. /\ consumed' = consumed \cup {m.event} /\ journal' = Append(journal, Booked(m))
      /\ accounts' = accounts
  BY <1>1 DEF Book
<1>5. /\ journal \in Seq(Transactions) /\ Booked(m) \in Transactions
      /\ Booked(m).event = m.event
      /\ Booked(m).entries = buildPaymentMovement(m)
  BY <1>1, BookFacts DEF HandInv, TypeOK, Booked
<1>6. m.event \notin consumed
  BY <1>1 DEF BookInv, TxExclusive
<1>7. \A entry \in buildPaymentMovement(m) : entry.account \in accounts
  <2>1. /\ <<"cash", m.payload.currency>> \in accounts
        /\ <<"merchant_payable", m.payload.currency>> \in accounts
    BY <1>1 DEF BookInv, AccountsReady
  <2>2. \A entry \in buildPaymentMovement(m) :
          entry.account \in {<<"cash", m.payload.currency>>,
                            <<"merchant_payable", m.payload.currency>>}
    BY DEF buildPaymentMovement
  <2> QED
    BY <2>1, <2>2
<1>8. TxExclusive'
  BY <1>1, <1>2, <1>3, <1>4 DEF BookInv, TxExclusive
<1>9. AccountsReady'
  BY <1>2, <1>3, <1>4 DEF BookInv, AccountsReady
<1> HIDE DEF m
<1>10. /\ DOMAIN journal' = DOMAIN journal \cup {Len(journal) + 1}
       /\ Len(journal) + 1 \notin DOMAIN journal
       /\ journal'[Len(journal) + 1] = Booked(m)
       /\ \A i \in DOMAIN journal : journal'[i] = journal[i]
  BY <1>4, <1>5
<1>11. \A i \in DOMAIN journal : journal[i].event \in consumed
  BY DEF BookInv, ConsumedIffBooked
<1>12. BookedAtMostOnce'
  BY <1>5, <1>6, <1>10, <1>11 DEF BookInv, BookedAtMostOnce
<1>13. consumed' = {journal'[i].event : i \in DOMAIN journal'}
  BY <1>4, <1>5, <1>10 DEF BookInv, ConsumedIffBooked
<1>14. \A i \in DOMAIN journal' : \A entry \in journal'[i].entries : entry.account \in accounts'
  BY <1>4, <1>5, <1>7, <1>10 DEF BookInv, ConsumedIffBooked
<1> QED
  BY <1>8, <1>9, <1>12, <1>13, <1>14 DEF BookInv, ConsumedIffBooked

\* Every step keeps the booking invariant.
LEMMA NextBookInv == HandInv /\ BookInv /\ [Next]_vars => BookInv'
<1> SUFFICES ASSUME HandInv, BookInv, [Next]_vars PROVE BookInv'
  OBVIOUS
<1>1. CASE UNCHANGED vars
  BY <1>1, BookKept DEF vars, kafka, ledger, InHand, MessageAt
<1>2. ASSUME NEW n \in Incoming, Produce(n) PROVE BookInv'
  <2>1. UNCHANGED <<accounts, consumed, journal, pc, work>>
    BY <1>2 DEF Produce, ledger
  <2>2. \A d \in Consumers : pc[d] \in Busy => InHand(d)' = InHand(d)
    BY <1>2, <2>1, ProduceFacts DEF HandInv, WorkExists, InHand, MessageAt, Works
  <2> QED
    BY <2>1, <2>2, BookKept DEF Busy, Booking
<1>3. ASSUME NEW k \in Partitions, NEW c \in Consumers, Assign(k, c) PROVE BookInv'
  BY <1>3, BookKept DEF Assign, ledger, InHand, MessageAt
<1>4. ASSUME NEW c \in Consumers, topic' = topic, UNCHANGED <<accounts, consumed, journal>>,
             NEW place, place \notin {"payable", "insert", "in_tx"}, Goto(c, place),
             \A d \in Consumers \ {c} : work'[d] = work[d]
      PROVE  BookInv'
  <2>1. \A d \in Consumers : pc'[d] \in {"payable", "insert", "in_tx"} =>
          pc'[d] = pc[d] /\ work'[d] = work[d]
    BY <1>4 DEF Goto, HandInv, TypeOK
  <2> QED
    BY <1>4, <2>1, BookKept, SameInHand
<1>5. ASSUME NEW k \in Partitions, NEW c \in Consumers, FetchMessage(c, k) PROVE BookInv'
  <2>1. /\ topic' = topic /\ UNCHANGED <<accounts, consumed, journal>> /\ Goto(c, "handling")
        /\ \A d \in Consumers \ {c} : work'[d] = work[d]
    BY <1>5 DEF FetchMessage, ledger, HandInv, TypeOK
  <2> QED
    BY <2>1, <1>4
<1>6. ASSUME NEW c \in Consumers, Handle(c) \/ Fault(c) PROVE BookInv'
  <2>1. CASE HandleRejects(c) \/ HandleIgnores(c) \/ HandleBookable(c) \/ Restart(c)
             \/ InsertDuplicate(c)
    <3>1. /\ topic' = topic /\ UNCHANGED <<accounts, consumed, journal, work>>
          /\ \E place \in {"exhausted", "committing", "cash", "fetching"} : Goto(c, place)
      BY <2>1 DEF HandleRejects, HandleIgnores, HandleBookable, Restart, InsertDuplicate, kafka,
                  ledger
    <3> QED
      BY <3>1, <1>4
  <2>2. CASE HandleInvalid(c) \/ DbFails(c)
    <3>1. /\ topic' = topic /\ UNCHANGED <<accounts, consumed, journal, work>>
          /\ Goto(c, "handling") \/ Goto(c, "exhausted")
      BY <2>2, RetryFacts DEF HandleInvalid, DbFails, kafka, ledger, HandInv
    <3> QED
      BY <3>1, <1>4
  <2>3. CASE PublishDeadLetter(c) \/ CommitMessages(c)
    <3>1. /\ topic' = topic /\ UNCHANGED <<accounts, consumed, journal>>
          /\ Goto(c, "committing") \/ Goto(c, "fetching")
          /\ work' = work \/ work' = [work EXCEPT ![c] = None]
      BY <2>3 DEF PublishDeadLetter, CommitMessages, kafka, ledger
    <3>2. \A d \in Consumers \ {c} : work'[d] = work[d]
      BY <3>1 DEF HandInv, TypeOK
    <3> QED
      BY <3>1, <3>2, <1>4
  <2>4. CASE DeadLetterFails(c) \/ CommitFails(c) \/ Stop(c)
    <3>1. /\ topic' = topic /\ UNCHANGED <<accounts, consumed, journal>>
          /\ Goto(c, "down") /\ work' = [work EXCEPT ![c] = None]
      BY <2>4 DEF DeadLetterFails, CommitFails, Stop, Exit, ledger
    <3>2. \A d \in Consumers \ {c} : work'[d] = work[d]
      BY <3>1 DEF HandInv, TypeOK
    <3> QED
      BY <3>1, <3>2, <1>4
  <2>5. CASE DeadLetterRetries(c)
    <3>1. /\ topic' = topic /\ UNCHANGED <<accounts, consumed, journal, work>>
          /\ Goto(c, "exhausted")
      BY <2>5 DEF DeadLetterRetries, kafka, ledger, Goto, HandInv, TypeOK
    <3> QED
      BY <3>1, <1>4
  <2> QED
    BY <1>6, <2>1, <2>2, <2>3, <2>4, <2>5, EnsureBook, InsertBook, CommitBook DEF Handle, Fault
<1>7. CASE \E c \in Consumers : FetchWaits(c)
  BY <1>1, <1>7 DEF FetchWaits
<1> QED
  BY <1>1, <1>2, <1>3, <1>5, <1>6, <1>7 DEF Next

\* It therefore holds in every reachable state.
LEMMA AlwaysBookInv == Spec => []BookInv
BY InitBookInv, NextBookInv, AlwaysHandInv, PTL DEF Spec

\* However often an event is delivered and whoever handles it, it is booked once
\* (CreateTransactionOnce, postgres_ledger_repository.go:66-103).
THEOREM BookedOnce == Spec => []BookedAtMostOnce
BY AlwaysBookInv, PTL DEF BookInv

\* An event is recorded as consumed exactly when its entries are in the ledger, on
\* accounts that exist: the rollback and the commit of CreateTransactionOnce leave
\* no half of it behind.
THEOREM BookingAtomic == Spec => []ConsumedIffBooked
BY AlwaysBookInv, PTL DEF BookInv

-----------------------------------------------------------------------------
(***************************************************************************)
(* No silent loss.  A commit covers every offset up to its own, also when  *)
(* a late consumer commits a partition that has been given to another one, *)
(* so NoSilentLoss needs more than the message in hand being done:         *)
(*   - everything before a message in hand is done (BeforeHandDone),       *)
(*   - a message is done when its consumer is about to commit it           *)
(*     (CommittingDone),                                                   *)
(*   - of what the owner of a partition has fetched, only the message it   *)
(*     still has in hand is not done (FetchedDone): it fetches one message *)
(*     at a time and resumes at the committed offset.                      *)
(***************************************************************************)
Done(k, i) == i \in DOMAIN topic[k] /\ Settled(k, i)

BeforeHandDone ==
    \A c \in Consumers : pc[c] \in Busy =>
        \A i \in 1..(work[c].offset - 1) : Done(work[c].partition, i)

CommittingDone ==
    \A c \in Consumers : pc[c] = "committing" => Done(work[c].partition, work[c].offset)

FetchedDone ==
    \A k \in Partitions : owner[k] # None =>
        \A i \in 1..position[k] :
            \/ Done(k, i)
            \/ pc[owner[k]] \in Busy /\ work[owner[k]] = [partition |-> k, offset |-> i]

LossInv == BeforeHandDone /\ CommittingDone /\ FetchedDone /\ NoSilentLoss

-----------------------------------------------------------------------------
\* The topic, the consumed events and the dead letters only grow.
LEMMA StepGrows ==
    ASSUME HandInv, [Next]_vars
    PROVE  /\ \A k \in Partitions : \A i \in DOMAIN topic[k] :
                i \in DOMAIN topic'[k] /\ topic'[k][i] = topic[k][i]
           /\ consumed \subseteq consumed'
           /\ \A j \in DOMAIN deadLetters :
                j \in DOMAIN deadLetters' /\ deadLetters'[j] = deadLetters[j]
<1>1. CASE \E m \in Incoming : Produce(m)
  <2>1. UNCHANGED <<consumed, deadLetters>>
    BY <1>1 DEF Produce, ledger
  <2> QED
    BY <1>1, <2>1, ProduceFacts DEF HandInv
<1>2. CASE \/ UNCHANGED vars
           \/ \E k \in Partitions, c \in Consumers : Assign(k, c) \/ FetchMessage(c, k)
           \/ \E c \in Consumers : FetchWaits(c)
  BY <1>2 DEF vars, kafka, ledger, Assign, FetchMessage, FetchWaits
<1>3. ASSUME NEW c \in Consumers, Handle(c) \/ Fault(c)
      PROVE  /\ topic' = topic
             /\ consumed \subseteq consumed'
             /\ \A j \in DOMAIN deadLetters :
                  j \in DOMAIN deadLetters' /\ deadLetters'[j] = deadLetters[j]
  <2>1. CASE TxCommit(c) \/ TxCommitLost(c)
    BY <2>1 DEF TxCommit, TxCommitLost, Book, kafka
  <2>2. CASE PublishDeadLetter(c) \/ DeadLetterRetries(c) \/ DeadLetterFails(c)
    <3>1. /\ topic' = topic /\ consumed' = consumed
          /\ \/ deadLetters' = deadLetters
             \/ deadLetters' = Append(deadLetters, DeadLetter(c))
      BY <2>2 DEF PublishDeadLetter, DeadLetterRetries, DeadLetterFails, kafka, ledger
    <3>2. deadLetters \in Seq(DeadLetterRecords) /\ DeadLetter(c) \in DeadLetterRecords
      BY <2>2, DeadLetterType
         DEF HandInv, TypeOK, PublishDeadLetter, DeadLetterRetries, DeadLetterFails
    <3> QED
      BY <3>1, <3>2
  <2>3. CASE HandleRejects(c) \/ HandleIgnores(c) \/ HandleInvalid(c) \/ HandleBookable(c)
             \/ EnsureAccount(c, "cash", "cash", "payable")
             \/ EnsureAccount(c, "payable", "merchant_payable", "insert")
             \/ InsertConsumed(c) \/ InsertDuplicate(c) \/ CommitMessages(c) \/ Restart(c)
             \/ DbFails(c) \/ CommitFails(c) \/ Stop(c)
    BY <2>3 DEF HandleRejects, HandleIgnores, HandleInvalid, HandleBookable, EnsureAccount,
                InsertConsumed, InsertDuplicate, CommitMessages, Restart, DbFails, CommitFails,
                Stop, kafka, ledger
  <2> QED
    BY <1>3, <2>1, <2>2, <2>3 DEF Handle, Fault
<1> QED
  BY <1>1, <1>2, <1>3 DEF Next

\* A message that is done stays done.
LEMMA DoneStays ==
    ASSUME HandInv, [Next]_vars, NEW k \in Partitions, NEW i, Done(k, i)
    PROVE  Done(k, i)'
BY StepGrows DEF Done, Settled, Ignored

\* At the start nothing is fetched or committed.
LEMMA InitLossInv == Init => LossInv
BY DEF Init, LossInv, BeforeHandDone, CommittingDone, FetchedDone, NoSilentLoss, Busy, Booking

\* A consumer that goes on with the message in hand, or comes back with none.
LEMMA MoveLoss ==
    ASSUME HandInv, LossInv, NEW c \in Consumers, NEW place, Goto(c, place),
           UNCHANGED <<committed, owner, position, work>>,
           \A k \in Partitions : \A i \in Nat : Done(k, i) => Done(k, i)',
           place \in Busy <=> pc[c] \in Busy,
           place = "committing" => Done(work[c].partition, work[c].offset)'
    PROVE  LossInv'
<1> USE DEF LossInv
<1>1. /\ \A d \in Consumers \ {c} : pc'[d] = pc[d]
      /\ pc'[c] = place
  BY DEF Goto, HandInv, TypeOK
<1>2. \A d \in Consumers : pc'[d] \in Busy <=> pc[d] \in Busy
  BY <1>1
<1>3. \A d \in Consumers : pc[d] \in Busy =>
        work[d].partition \in Partitions /\ work[d].offset \in Nat \ {0}
  BY DEF HandInv, WorkExists, Works
<1>4. BeforeHandDone'
  BY <1>2, <1>3 DEF BeforeHandDone
<1>5. CommittingDone'
  BY <1>1, <1>3 DEF CommittingDone, Busy
<1>6. FetchedDone'
  BY <1>2 DEF FetchedDone, HandInv, TypeOK
<1>7. NoSilentLoss'
  BY DEF NoSilentLoss, Done, HandInv, TypeOK
<1> QED
  BY <1>4, <1>5, <1>6, <1>7

\* A consumer that commits its message, or ends with or without doing so.
LEMMA DropLoss ==
    ASSUME HandInv, LossInv, NEW c \in Consumers, NEW place \in {"fetching", "down"},
           Goto(c, place), work' = [work EXCEPT ![c] = None], UNCHANGED position,
           \A k \in Partitions : \A i \in Nat : Done(k, i) => Done(k, i)',
           \/ committed' = committed
           \/ /\ pc[c] = "committing"
              /\ committed' = [committed EXCEPT ![work[c].partition] = work[c].offset],
           \/ owner' = owner /\ pc[c] = "committing"
           \/ owner' = [k \in Partitions |-> IF owner[k] = c THEN None ELSE owner[k]]
    PROVE  LossInv'
<1> USE DEF LossInv
<1>1. /\ \A d \in Consumers \ {c} : pc'[d] = pc[d] /\ work'[d] = work[d]
      /\ pc'[c] \notin Busy
  BY DEF Goto, HandInv, TypeOK, Busy, Booking
<1>2. \A d \in Consumers : pc[d] \in Busy =>
        work[d].partition \in Partitions /\ work[d].offset \in Nat \ {0}
  BY DEF HandInv, WorkExists, Works
<1>3. BeforeHandDone' /\ CommittingDone'
  BY <1>1, <1>2 DEF BeforeHandDone, CommittingDone, Busy
<1>4. pc[c] = "committing" =>
        \A i \in 1..work[c].offset : Done(work[c].partition, i)
  BY <1>2 DEF BeforeHandDone, CommittingDone, Busy
<1>5. ASSUME NEW k \in Partitions, owner'[k] # None, NEW i \in 1..position[k]
      PROVE  \/ Done(k, i)'
             \/ pc'[owner'[k]] \in Busy /\ work'[owner'[k]] = [partition |-> k, offset |-> i]
  <2>1. owner'[k] = owner[k] /\ owner[k] \in Consumers
    BY <1>5 DEF HandInv, TypeOK
  <2>2. \/ Done(k, i)
        \/ pc[owner[k]] \in Busy /\ work[owner[k]] = [partition |-> k, offset |-> i]
    BY <1>5, <2>1 DEF FetchedDone
  <2>3. i \in Nat
    BY <1>5 DEF HandInv, TypeOK
  <2>4. CASE owner[k] # c
    BY <1>1, <2>1, <2>2, <2>3, <2>4
  <2>5. CASE owner[k] = c
    <3>1. pc[c] = "committing"
      BY <1>5, <2>1, <2>5, ConsumerAssumption
    <3>2. work[c] = [partition |-> k, offset |-> i] => Done(k, i)
      BY <3>1 DEF CommittingDone
    <3> QED
      BY <2>2, <2>3, <2>5, <3>2
  <2> QED
    BY <2>4, <2>5
<1>6. FetchedDone'
  BY <1>5 DEF FetchedDone
<1>7. ASSUME NEW k \in Partitions, NEW i \in 1..committed'[k] PROVE Done(k, i)'
  <2>1. CASE committed'[k] = committed[k]
    <3>1. i \in 1..committed[k] /\ i \in Nat
      BY <1>7, <2>1 DEF HandInv, TypeOK
    <3>2. Done(k, i)
      BY <3>1 DEF NoSilentLoss, Done
    <3> QED
      BY <3>1, <3>2
  <2>2. CASE committed'[k] # committed[k]
    <3>1. pc[c] = "committing" /\ k = work[c].partition /\ committed'[k] = work[c].offset
      BY <2>2 DEF HandInv, TypeOK
    <3>2. Done(k, i) /\ i \in Nat
      BY <1>2, <1>4, <1>7, <3>1 DEF Busy
    <3> QED
      BY <3>2
  <2> QED
    BY <2>1, <2>2
<1>8. NoSilentLoss'
  BY <1>7 DEF NoSilentLoss, Done
<1> QED
  BY <1>3, <1>6, <1>8

\* The new owner of a partition resumes at the committed offset.
LEMMA AssignLoss ==
    ASSUME HandInv, LossInv, NEW k \in Partitions, NEW c \in Consumers, Assign(k, c)
    PROVE  LossInv'
<1> USE DEF LossInv
<1>1. /\ UNCHANGED <<topic, committed, pc, work, consumed, deadLetters>>
      /\ owner' = [owner EXCEPT ![k] = c]
      /\ position' = [position EXCEPT ![k] = committed[k]]
  BY DEF Assign, ledger
<1>2. \A l, i : Done(l, i)' <=> Done(l, i)
  BY <1>1 DEF Done, Settled
<1>3. BeforeHandDone' /\ CommittingDone' /\ NoSilentLoss'
  BY <1>1, <1>2 DEF BeforeHandDone, CommittingDone, NoSilentLoss, Done
<1>4. \A i \in 1..position'[k] : Done(k, i)
  BY <1>1 DEF NoSilentLoss, Done, HandInv, TypeOK
<1>5. \A l \in Partitions \ {k} : owner'[l] = owner[l] /\ position'[l] = position[l]
  BY <1>1 DEF HandInv, TypeOK
<1>6. FetchedDone'
  BY <1>1, <1>2, <1>4, <1>5 DEF FetchedDone
<1> QED
  BY <1>3, <1>6

\* When its owner fetches the next message of a partition, it has nothing in hand:
\* all it fetched before is done.
LEMMA FetchLoss ==
    ASSUME HandInv, LossInv, NEW k \in Partitions, NEW c \in Consumers, FetchMessage(c, k)
    PROVE  LossInv'
<1> USE DEF LossInv
<1> DEFINE w == [partition |-> k, offset |-> position[k] + 1]
<1>1. /\ UNCHANGED <<topic, committed, owner, consumed, deadLetters>>
      /\ position' = [position EXCEPT ![k] = position[k] + 1]
      /\ work' = [work EXCEPT ![c] = w]
      /\ pc[c] = "fetching" /\ owner[k] = c
      /\ pc' = [pc EXCEPT ![c] = "handling"]
  BY DEF FetchMessage, ledger, Goto
<1>2. \A l, i : Done(l, i)' <=> Done(l, i)
  BY <1>1 DEF Done, Settled
<1>3. /\ \A d \in Consumers \ {c} : pc'[d] = pc[d] /\ work'[d] = work[d]
      /\ pc'[c] = "handling" /\ work'[c] = w /\ w.partition = k /\ w.offset = position[k] + 1
      /\ position[k] \in Nat
  BY <1>1 DEF HandInv, TypeOK
<1>4. pc[c] \notin Busy /\ "handling" \in Busy
  BY <1>1 DEF Busy, Booking
<1>5. \A l \in Partitions : owner[l] = c => \A i \in 1..position[l] : Done(l, i)
  BY <1>4, ConsumerAssumption DEF FetchedDone
<1>6. BeforeHandDone'
  <2>1. \A i \in 1..(w.offset - 1) : Done(k, i)
    BY <1>1, <1>3, <1>5
  <2> QED
    BY <1>2, <1>3, <2>1 DEF BeforeHandDone
<1>7. CommittingDone' /\ NoSilentLoss'
  BY <1>1, <1>2, <1>3 DEF CommittingDone, NoSilentLoss, Done
<1>8. FetchedDone'
  <2>1. ASSUME NEW l \in Partitions, owner[l] # None, NEW i \in 1..position'[l]
        PROVE  \/ Done(l, i)
               \/ pc'[owner[l]] \in Busy /\ work'[owner[l]] = [partition |-> l, offset |-> i]
    <3>1. CASE l = k
      <4>1. position'[l] = position[k] + 1
        BY <1>1, <3>1 DEF HandInv, TypeOK
      <4>2. i \in 1..position[k] \/ i = position[k] + 1
        BY <1>3, <2>1, <4>1
      <4> QED
        BY <1>1, <1>3, <1>4, <1>5, <3>1, <4>2
    <3>2. CASE l # k /\ owner[l] = c
      BY <1>1, <1>5, <2>1, <3>2 DEF HandInv, TypeOK
    <3>3. CASE l # k /\ owner[l] # c
      BY <1>1, <1>3, <2>1, <3>3 DEF FetchedDone, HandInv, TypeOK
    <3> QED
      BY <3>1, <3>2, <3>3
  <2> QED
    BY <1>1, <1>2, <2>1 DEF FetchedDone
<1> QED
  BY <1>6, <1>7, <1>8

\* A consumer reaches its commit only with a message that is done: ignored, already
\* consumed, booked by it or dead-lettered by it.
LEMMA ConsumerLoss ==
    ASSUME HandInv, LossInv, NEW c \in Consumers, Handle(c) \/ Fault(c)
    PROVE  LossInv'
<1>1. \A k \in Partitions : \A i \in Nat : Done(k, i) => Done(k, i)'
  BY DoneStays DEF Next
<1>2. pc[c] \in Busy =>
        /\ work[c] \in Works /\ work[c].partition \in Partitions /\ work[c].offset \in Nat
        /\ work[c].offset \in DOMAIN topic[work[c].partition]
        /\ InHand(c) = topic[work[c].partition][work[c].offset]
  BY DEF HandInv, WorkExists, Works, InHand, MessageAt
<1>3. CASE HandleRejects(c) \/ HandleBookable(c) \/ InsertConsumed(c) \/ Restart(c)
           \/ EnsureAccount(c, "cash", "cash", "payable")
           \/ EnsureAccount(c, "payable", "merchant_payable", "insert")
  <2>1. /\ UNCHANGED <<committed, owner, position, work>>
        /\ \E place \in {"exhausted", "cash", "payable", "insert", "in_tx", "fetching"} :
             Goto(c, place) /\ (place \in Busy <=> pc[c] \in Busy)
    BY <1>3 DEF HandleRejects, HandleBookable, InsertConsumed, Restart, EnsureAccount, kafka,
                Busy, Booking
  <2> QED
    BY <1>1, <2>1, MoveLoss
<1>4. CASE HandleInvalid(c) \/ DbFails(c) \/ TxCommitLost(c)
  <2>1. /\ UNCHANGED <<committed, owner, position, work>> /\ pc[c] \in Busy
        /\ Goto(c, "handling") \/ Goto(c, "exhausted")
    BY <1>4, RetryFacts DEF HandleInvalid, DbFails, TxCommitLost, kafka, HandInv, Busy, Booking
  <2> QED
    BY <1>1, <2>1, MoveLoss DEF Busy
<1>5. CASE HandleIgnores(c) \/ InsertDuplicate(c) \/ TxCommit(c) \/ PublishDeadLetter(c)
  <2>1. UNCHANGED <<topic, committed, owner, position, work>> /\ pc[c] \in Busy
        /\ Goto(c, "committing")
    BY <1>5 DEF HandleIgnores, InsertDuplicate, TxCommit, PublishDeadLetter, kafka, Busy, Booking
  <2>2. \/ Ignored(InHand(c))
        \/ InHand(c).event \in consumed'
        \/ pc[c] = "exhausted" /\ deadLetters' = Append(deadLetters, DeadLetter(c))
    BY <1>5 DEF HandleIgnores, InsertDuplicate, TxCommit, PublishDeadLetter, Book, ledger
  <2>3. Done(work[c].partition, work[c].offset)'
    <3>1. CASE Ignored(InHand(c)) \/ InHand(c).event \in consumed'
      BY <1>2, <2>1, <3>1 DEF Done, Settled
    <3>2. CASE pc[c] = "exhausted" /\ deadLetters' = Append(deadLetters, DeadLetter(c))
      <4>1. /\ DeadLetter(c).partition = work[c].partition
            /\ DeadLetter(c).offset = work[c].offset
        BY DEF DeadLetter
      <4>2. deadLetters \in Seq(DeadLetterRecords) /\ DeadLetter(c) \in DeadLetterRecords
        BY <3>2, DeadLetterType DEF HandInv, TypeOK
      <4>3. /\ Len(deadLetters) + 1 \in DOMAIN deadLetters'
            /\ deadLetters'[Len(deadLetters) + 1] = DeadLetter(c)
        BY <3>2, <4>2
      <4> QED
        BY <1>2, <2>1, <4>1, <4>3 DEF Done, Settled
    <3> QED
      BY <2>2, <3>1, <3>2
  <2> QED
    BY <1>1, <2>1, <2>3, MoveLoss DEF Busy
<1>6. CASE CommitMessages(c)
  BY <1>1, <1>6, DropLoss DEF CommitMessages
<1>7. CASE DeadLetterFails(c) \/ CommitFails(c) \/ Stop(c)
  <2>1. /\ Exit(c) /\ UNCHANGED position
        /\ \/ committed' = committed
           \/ /\ pc[c] = "committing"
              /\ committed' = [committed EXCEPT ![work[c].partition] = work[c].offset]
    BY <1>7 DEF DeadLetterFails, CommitFails, Stop
  <2> QED
    BY <1>1, <2>1, DropLoss DEF Exit
<1>8. CASE DeadLetterRetries(c)
  <2>1. /\ UNCHANGED <<committed, owner, position, work>> /\ Goto(c, "exhausted")
        /\ pc[c] = "exhausted"
    BY <1>8 DEF DeadLetterRetries, kafka, Goto, HandInv, TypeOK
  <2> QED
    BY <1>1, <2>1, MoveLoss DEF Busy
<1> QED
  BY <1>3, <1>4, <1>5, <1>6, <1>7, <1>8 DEF Handle, Fault

\* Every step keeps the invariant.
LEMMA NextLossInv == HandInv /\ LossInv /\ [Next]_vars => LossInv'
<1> SUFFICES ASSUME HandInv, LossInv, [Next]_vars PROVE LossInv'
  OBVIOUS
<1>1. CASE UNCHANGED <<committed, owner, position, pc, work>>
  <2>1. \A k \in Partitions : \A i : Done(k, i) => Done(k, i)'
    BY DoneStays
  <2>2. \A d \in Consumers : pc[d] \in Busy => work[d].partition \in Partitions
    BY DEF HandInv, WorkExists, Works
  <2>3. BeforeHandDone' /\ CommittingDone'
    BY <1>1, <2>1, <2>2 DEF LossInv, BeforeHandDone, CommittingDone, Busy
  <2>4. FetchedDone' /\ NoSilentLoss'
    BY <1>1, <2>1 DEF LossInv, FetchedDone, NoSilentLoss, Done
  <2> QED
    BY <2>3, <2>4 DEF LossInv
<1>2. CASE UNCHANGED vars \/ (\E m \in Incoming : Produce(m)) \/ \E c \in Consumers : FetchWaits(c)
  BY <1>1, <1>2 DEF vars, kafka, Produce, FetchWaits
<1> QED
  BY <1>2, AssignLoss, FetchLoss, ConsumerLoss DEF Next

\* More messages on the topic, whoever wrote them, keep the three invariants.
LEMMA TopicGrows ==
    ASSUME HandInv, BookInv, LossInv, topic' \in [Partitions -> Seq(ConsumerMessages)],
           \A k \in Partitions : \A i \in DOMAIN topic[k] :
               i \in DOMAIN topic'[k] /\ topic'[k][i] = topic[k][i],
           UNCHANGED <<committed, owner, position, pc, work, attempt, accounts, consumed, journal,
                       deadLetters, faults>>
    PROVE  HandInv' /\ BookInv' /\ LossInv'
<1>1. \A d \in Consumers : pc[d] \in Busy =>
        /\ InHand(d)' = InHand(d) /\ work[d].partition \in Partitions
        /\ work[d].offset \in DOMAIN topic'[work[d].partition]
  BY DEF HandInv, WorkExists, Works, InHand, MessageAt
<1>2. HandInv'
  BY <1>1 DEF HandInv, TypeOK, WorkExists, BookingBookable, Busy
<1>3. BookInv'
  BY <1>1, BookKept DEF Busy, Booking
<1>4. \A k \in Partitions : \A i : Done(k, i) => Done(k, i)'
  BY DEF Done, Settled, Ignored
<1>5. BeforeHandDone' /\ CommittingDone'
  BY <1>1, <1>4 DEF LossInv, BeforeHandDone, CommittingDone, Busy
<1>6. FetchedDone' /\ NoSilentLoss'
  BY <1>4 DEF LossInv, FetchedDone, NoSilentLoss, Done
<1> QED
  BY <1>2, <1>3, <1>5, <1>6 DEF LossInv

\* An offset is committed only when every message before it has been booked,
\* dead-lettered or deliberately ignored, whatever late owners, rewound offsets,
\* lost answers and stops do (Run commits last, payment_consumer.go:116-131).
THEOREM NothingLost == Spec => []NoSilentLoss
<1>1. Spec => []LossInv
  BY InitLossInv, NextLossInv, AlwaysHandInv, PTL DEF Spec
<1> QED
  BY <1>1, PTL DEF LossInv

-----------------------------------------------------------------------------
(***************************************************************************)
(* The attempts on a dead letter.  A permanent error is met on the first   *)
(* attempt, because no attempt on such a message is ever repeated.         *)
(***************************************************************************)
AttemptsOf(m) == IF Rejected(m) THEN 1 ELSE MaxAttempts

HandlingFirst ==
    \A c \in Consumers : (pc[c] = "handling" /\ Rejected(InHand(c))) => attempt[c] = 1

ExhaustedAttempts ==
    \A c \in Consumers : pc[c] = "exhausted" => attempt[c] = AttemptsOf(InHand(c))

AttemptInv == HandlingFirst /\ ExhaustedAttempts /\ DeadLetteredAfterAttempts

\* A message that can be booked, or whose movement is invalid, is not rejected.
LEMMA RetriedNotRejected ==
    ASSUME NEW m,
           \/ Bookable(m)
           \/ m.event # None /\ m.payload = [error |-> "invalid"]
    PROVE  ~Rejected(m)
<1>1. [error |-> "malformed"] \notin Money
  <2>1. \A money \in Money : DOMAIN money = {"amount", "currency"}
    BY DEF Money
  <2>2. DOMAIN [error |-> "malformed"] = {"error"}
    OBVIOUS
  <2> QED
    BY <2>1, <2>2
<1>2. [error |-> "malformed"] # [error |-> "invalid"]
  <2>1. [error |-> "malformed"].error # [error |-> "invalid"].error
    OBVIOUS
  <2> QED
    BY <2>1
<1> QED
  BY <1>1, <1>2 DEF Bookable, Rejected

\* At the start nothing has been given up.
LEMMA InitAttemptInv == Init => AttemptInv
BY DEF Init, AttemptInv, HandlingFirst, ExhaustedAttempts, DeadLetteredAfterAttempts

\* A consumer that is neither handling nor giving up, or that arrives there as the
\* invariant wants, keeps it.
LEMMA MoveAttempt ==
    ASSUME HandInv, AttemptInv, NEW c \in Consumers, topic' = topic,
           \A d \in Consumers \ {c} :
               pc'[d] = pc[d] /\ work'[d] = work[d] /\ attempt'[d] = attempt[d],
           pc'[c] = "handling" => (Rejected(InHand(c)') => attempt'[c] = 1),
           pc'[c] = "exhausted" => attempt'[c] = AttemptsOf(InHand(c)'),
           \/ deadLetters' = deadLetters
           \/ pc[c] = "exhausted" /\ deadLetters' = Append(deadLetters, DeadLetter(c))
    PROVE  AttemptInv'
<1> USE DEF AttemptInv
<1>1. \A d \in Consumers \ {c} : InHand(d)' = InHand(d)
  BY SameInHand
<1>2. HandlingFirst'
  BY <1>1 DEF HandlingFirst, Rejected
<1>3. ExhaustedAttempts'
  BY <1>1 DEF ExhaustedAttempts, AttemptsOf, Rejected
<1>4. CASE deadLetters' = deadLetters
  BY <1>4, <1>2, <1>3 DEF DeadLetteredAfterAttempts, Rejected
<1>5. CASE pc[c] = "exhausted" /\ deadLetters' = Append(deadLetters, DeadLetter(c))
  <2>1. deadLetters \in Seq(DeadLetterRecords) /\ DeadLetter(c) \in DeadLetterRecords
    BY <1>5, DeadLetterType DEF HandInv, TypeOK
  <2>2. /\ DeadLetter(c).attempts = AttemptsOf(DeadLetter(c).message)
    BY <1>5 DEF ExhaustedAttempts, DeadLetter
  <2>3. \A j \in DOMAIN deadLetters' :
          \/ j \in DOMAIN deadLetters /\ deadLetters'[j] = deadLetters[j]
          \/ deadLetters'[j] = DeadLetter(c)
    BY <1>5, <2>1
  <2>4. DeadLetteredAfterAttempts'
    BY <2>2, <2>3 DEF DeadLetteredAfterAttempts, AttemptsOf, Rejected
  <2> QED
    BY <1>2, <1>3, <2>4
<1> QED
  BY <1>4, <1>5

\* Every step keeps the invariant.
LEMMA NextAttemptInv == HandInv /\ AttemptInv /\ [Next]_vars => AttemptInv'
<1> SUFFICES ASSUME HandInv, AttemptInv, [Next]_vars PROVE AttemptInv'
  OBVIOUS
<1>1. CASE UNCHANGED vars \/ (\E c \in Consumers : FetchWaits(c))
           \/ (\E k \in Partitions, c \in Consumers : Assign(k, c))
  <2>1. UNCHANGED <<topic, pc, work, attempt, deadLetters>>
    BY <1>1 DEF vars, kafka, FetchWaits, Assign
  <2> QED
    BY <2>1 DEF AttemptInv, HandlingFirst, ExhaustedAttempts, DeadLetteredAfterAttempts,
                AttemptsOf, Rejected, InHand, MessageAt
<1>2. ASSUME NEW m \in Incoming, Produce(m) PROVE AttemptInv'
  <2>1. UNCHANGED <<pc, work, attempt, deadLetters>>
    BY <1>2 DEF Produce
  <2>2. \A d \in Consumers : pc[d] \in Busy => InHand(d)' = InHand(d)
    BY <1>2, <2>1, ProduceFacts DEF HandInv, WorkExists, InHand, MessageAt, Works
  <2> QED
    BY <2>1, <2>2 DEF AttemptInv, HandlingFirst, ExhaustedAttempts, DeadLetteredAfterAttempts,
                      AttemptsOf, Rejected, Busy
<1>3. ASSUME NEW k \in Partitions, NEW c \in Consumers, FetchMessage(c, k) PROVE AttemptInv'
  BY <1>3, MoveAttempt DEF FetchMessage, Goto, HandInv, TypeOK
<1>4. ASSUME NEW c \in Consumers, Handle(c) \/ Fault(c) PROVE AttemptInv'
  <2>1. CASE HandleRejects(c)
    <3>1. /\ UNCHANGED <<topic, work, attempt, deadLetters>> /\ Goto(c, "exhausted")
          /\ pc[c] = "handling" /\ Rejected(InHand(c))
      BY <2>1 DEF HandleRejects, kafka
    <3>2. attempt'[c] = AttemptsOf(InHand(c)')
      BY <3>1, SameInHand DEF AttemptInv, HandlingFirst, AttemptsOf
    <3> QED
      BY <3>1, <3>2, MoveAttempt DEF Goto, HandInv, TypeOK
  <2>2. CASE HandleInvalid(c) \/ DbFails(c) \/ TxCommitLost(c)
    <3>1. UNCHANGED <<topic, work, deadLetters>> /\ RetryOrGiveUp(c)
      BY <2>2 DEF HandleInvalid, DbFails, TxCommitLost, kafka
    <3>2. ~Rejected(InHand(c))
      BY <2>2, RetriedNotRejected
         DEF HandleInvalid, DbFails, TxCommitLost, HandInv, BookingBookable, Booking
    <3>3. InHand(c)' = InHand(c)
      BY <3>1, SameInHand
    <3>4. /\ \A d \in Consumers \ {c} : pc'[d] = pc[d] /\ attempt'[d] = attempt[d]
          /\ \/ pc'[c] = "handling"
             \/ pc'[c] = "exhausted" /\ attempt'[c] = MaxAttempts
      BY <3>1, ConsumerAssumption DEF RetryOrGiveUp, Goto, HandInv, TypeOK
    <3> QED
      BY <3>1, <3>2, <3>3, <3>4, MoveAttempt DEF AttemptsOf
  <2>3. CASE HandleIgnores(c) \/ HandleBookable(c) \/ InsertConsumed(c) \/ InsertDuplicate(c)
             \/ EnsureAccount(c, "cash", "cash", "payable") \/ TxCommit(c) \/ Restart(c)
             \/ EnsureAccount(c, "payable", "merchant_payable", "insert") \/ PublishDeadLetter(c)
    <3>1. /\ UNCHANGED <<topic, work, attempt>>
          /\ \E place \in Places \ {"handling", "exhausted"} : Goto(c, place)
          /\ \/ deadLetters' = deadLetters
             \/ pc[c] = "exhausted" /\ deadLetters' = Append(deadLetters, DeadLetter(c))
      BY <2>3 DEF HandleIgnores, HandleBookable, InsertConsumed, InsertDuplicate, EnsureAccount,
                  TxCommit, Restart, PublishDeadLetter, kafka, Places
    <3> QED
      BY <3>1, MoveAttempt DEF Goto, HandInv, TypeOK
  <2>4. CASE CommitMessages(c) \/ DeadLetterFails(c) \/ CommitFails(c) \/ Stop(c)
    <3>1. /\ topic' = topic
          /\ work' = [work EXCEPT ![c] = None] /\ attempt' = [attempt EXCEPT ![c] = 0]
          /\ Goto(c, "fetching") \/ Goto(c, "down")
          /\ \/ deadLetters' = deadLetters
             \/ pc[c] = "exhausted" /\ deadLetters' = Append(deadLetters, DeadLetter(c))
      BY <2>4 DEF CommitMessages, DeadLetterFails, CommitFails, Stop, Exit
    <3> QED
      BY <3>1, MoveAttempt DEF Goto, HandInv, TypeOK
  <2>5. CASE DeadLetterRetries(c)
    <3>1. /\ UNCHANGED <<topic, work, attempt>> /\ pc[c] = "exhausted" /\ pc' = pc
          /\ deadLetters' = Append(deadLetters, DeadLetter(c))
      BY <2>5 DEF DeadLetterRetries, kafka
    <3>2. attempt'[c] = AttemptsOf(InHand(c)')
      BY <3>1, SameInHand DEF AttemptInv, ExhaustedAttempts
    <3> QED
      BY <3>1, <3>2, MoveAttempt DEF Goto, HandInv, TypeOK
  <2> QED
    BY <1>4, <2>1, <2>2, <2>3, <2>4, <2>5 DEF Handle, Fault
<1> QED
  BY <1>1, <1>2, <1>3, <1>4 DEF Next

\* handleWithRetry gives up on a message with a permanent error after the first
\* attempt and on any other only after all its attempts, and the dead letter says
\* so (payment_consumer.go:135-161).
THEOREM GivenUpAfterAttempts == Spec => []DeadLetteredAfterAttempts
<1>1. Spec => []AttemptInv
  BY InitAttemptInv, NextAttemptInv, AlwaysHandInv, PTL DEF Spec
<1> QED
  BY <1>1, PTL DEF AttemptInv
=============================================================================
