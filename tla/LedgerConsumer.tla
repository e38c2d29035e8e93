---------------------------- MODULE LedgerConsumer ----------------------------
(***************************************************************************)
(* The payment consumers of the ledger service: members of one Kafka       *)
(* consumer group that read the payment events topic, book each            *)
(* payment.created event as one balanced ledger transaction, dead-letter   *)
(* what they cannot book, and commit the offset last.                      *)
(*                                                                         *)
(* Delivery is at least once: the topic may hold an event twice, an offset *)
(* may be handed out again after a rebalance while its former owner still  *)
(* works on it, and a process may stop between any two calls.  Offsets     *)
(* count from 1; committed[k] = i says the first i messages are done.      *)
(***************************************************************************)
EXTENDS PaymentEvents, FiniteSets, Sequences

CONSTANTS Consumers,      \* consumer processes of the group
          Partitions,     \* partitions of the payment events topic
          PartitionOf,    \* the producer's hash balancer: payment -> partition
          Incoming,       \* the messages producers may put on the topic
          MaxMessages,    \* bound: messages on the topic
          MaxAttempts,    \* maxAttempts of handleWithRetry
          MaxStops,       \* bound: process stops (SIGTERM or crash)
          MaxRebalances,  \* bound: partitions taken from a live owner
          MaxDbErrors,    \* bound: failing database calls
          MaxKafkaErrors  \* bound: failing tries of dead-letter writes and offset commits

(***************************************************************************)
(* What may arrive: besides what the outbox publisher writes, messages     *)
(* without an event_id header, of another type, with a payload that is not *)
(* JSON, and ones RecordPaymentMovementOnce rejects (an event_id that is   *)
(* no uuid, a movement that fails validation).                             *)
(***************************************************************************)
ConsumerMessages ==
    [event: EventIds \cup {None}, type: EventTypes \cup {"other"},
     payment: EventIds, payload: Payloads \cup [error: {"malformed", "invalid"}]]

ASSUME ConsumerAssumption ==
    /\ PartitionOf \in [EventIds -> Partitions]
    /\ Incoming \subseteq ConsumerMessages
    /\ MaxMessages \in Nat
    /\ MaxAttempts \in Nat \ {0}
    /\ MaxStops \in Nat /\ MaxRebalances \in Nat
    /\ MaxDbErrors \in Nat /\ MaxKafkaErrors \in Nat
    /\ None \notin Consumers

VARIABLES topic,        \* [Partitions -> Seq(ConsumerMessages)]
          committed,    \* [Partitions -> Nat]: the group's committed offsets
          owner,        \* [Partitions -> Consumers or None]: the assignment
          position,     \* [Partitions -> Nat]: what the owner has fetched
          pc,           \* [Consumers -> where the consumer stands]
          work,         \* [Consumers -> the message in hand or None]
          attempt,      \* [Consumers -> attempt of handleWithRetry]
          accounts,     \* the table ledger_accounts
          consumed,     \* the table consumed_ledger_events
          journal,      \* Seq: the transactions of the table ledger_entries
          deadLetters,  \* Seq: the dead-letter topic
          faults        \* how many faults of each kind have happened

kafka == <<topic, committed, owner, position>>
ledger == <<accounts, consumed, journal>>
vars == <<kafka, pc, work, attempt, ledger, deadLetters, faults>>

Works == [partition: Partitions, offset: Nat \ {0}]

Places == {"down", "fetching", "handling", "cash", "payable", "insert",
           "in_tx", "exhausted", "committing"}

Accounts == {"cash", "merchant_payable"} \X Currencies

Entries == [account: Accounts, direction: {"debit", "credit"}, amount: Amounts]

Transactions == [event: EventIds, payment: EventIds, entries: SUBSET Entries]

DeadLetterRecords ==
    [message: ConsumerMessages, attempts: Nat, partition: Partitions, offset: Nat \ {0}]

Faults == [stop: 0..MaxStops, rebalance: 0..MaxRebalances,
           db: 0..MaxDbErrors, kafka: 0..MaxKafkaErrors]

TypeOK ==
    /\ topic \in [Partitions -> Seq(ConsumerMessages)]
    /\ committed \in [Partitions -> Nat]
    /\ owner \in [Partitions -> Consumers \cup {None}]
    /\ position \in [Partitions -> Nat]
    /\ pc \in [Consumers -> Places]
    /\ work \in [Consumers -> Works \cup {None}]
    /\ attempt \in [Consumers -> 0..MaxAttempts]
    /\ accounts \subseteq Accounts
    /\ consumed \subseteq EventIds
    /\ journal \in Seq(Transactions)
    /\ deadLetters \in Seq(DeadLetterRecords)
    /\ faults \in Faults

Init ==
    /\ topic = [k \in Partitions |-> <<>>]
    /\ committed = [k \in Partitions |-> 0]
    /\ owner = [k \in Partitions |-> None]
    /\ position = [k \in Partitions |-> 0]
    /\ pc = [c \in Consumers |-> "fetching"]
    /\ work = [c \in Consumers |-> None]
    /\ attempt = [c \in Consumers |-> 0]
    /\ accounts = {}
    /\ consumed = {}
    /\ journal = <<>>
    /\ deadLetters = <<>>
    /\ faults = [stop |-> 0, rebalance |-> 0, db |-> 0, kafka |-> 0]

MessageAt(w) == topic[w.partition][w.offset]
InHand(c) == MessageAt(work[c])

Goto(c, place) == pc' = [pc EXCEPT ![c] = place]

-----------------------------------------------------------------------------
(***************************************************************************)
(* The topic and the group coordinator.                                    *)
(***************************************************************************)

\* A producer (the outbox publisher, or a replay) appends a message, possibly
\* one that is already there.
Produce(m) ==
    LET k == PartitionOf[m.payment]
    IN  /\ Cardinality(UNION {{j} \X DOMAIN topic[j] : j \in Partitions}) < MaxMessages
        /\ topic' = [topic EXCEPT ![k] = Append(@, m)]
        /\ UNCHANGED <<committed, owner, position, pc, work, attempt, ledger,
                       deadLetters, faults>>

\* The coordinator gives partition k to a live consumer, which resumes at the
\* committed offset.  It may take k from an owner that is alive but late, and
\* give it back to the same one: the former owner keeps its message in hand.
Assign(k, c) ==
    /\ pc[c] # "down"
    /\ IF owner[k] = None
       THEN UNCHANGED faults
       ELSE /\ faults.rebalance < MaxRebalances
            /\ faults' = [faults EXCEPT !.rebalance = @ + 1]
    /\ owner' = [owner EXCEPT ![k] = c]
    /\ position' = [position EXCEPT ![k] = committed[k]]
    /\ UNCHANGED <<topic, committed, pc, work, attempt, ledger, deadLetters>>

-----------------------------------------------------------------------------
(***************************************************************************)
(* Run: fetch, handle with retry, dead-letter, commit.                     *)
(***************************************************************************)
FetchMessage(c, k) ==
    /\ pc[c] = "fetching"
    /\ owner[k] = c
    /\ position[k] < Len(topic[k])
    /\ position' = [position EXCEPT ![k] = @ + 1]
    /\ work' = [work EXCEPT ![c] = [partition |-> k, offset |-> position[k] + 1]]
    /\ attempt' = [attempt EXCEPT ![c] = 1]
    /\ Goto(c, "handling")
    /\ UNCHANGED <<topic, committed, owner, ledger, deadLetters, faults>>

\* Nothing to fetch, or an error of the fetch: wait and try again.
FetchWaits(c) ==
    /\ pc[c] = "fetching"
    /\ UNCHANGED vars

Rejected(m) ==
    \/ m.event = None
    \/ m.type = PaymentCreatedEvent /\ m.payload = [error |-> "malformed"]

Ignored(m) == m.event # None /\ m.type # PaymentCreatedEvent

Bookable(m) == m.event # None /\ m.type = PaymentCreatedEvent /\ m.payload \in Money

\* A permanent error ends the attempts at once.
HandleRejects(c) ==
    /\ pc[c] = "handling"
    /\ Rejected(InHand(c))
    /\ Goto(c, "exhausted")
    /\ UNCHANGED <<kafka, work, attempt, ledger, deadLetters, faults>>

HandleIgnores(c) ==
    /\ pc[c] = "handling"
    /\ Ignored(InHand(c))
    /\ Goto(c, "committing")
    /\ UNCHANGED <<kafka, work, attempt, ledger, deadLetters, faults>>

\* Slip: one attempt too many.
RetryOnceMore(c) ==
    IF attempt[c] <= MaxAttempts
    THEN Goto(c, "handling") /\ attempt' = [attempt EXCEPT ![c] = @ + 1]
    ELSE Goto(c, "exhausted") /\ UNCHANGED attempt

\* Slip: every error is taken for a permanent one.
RetryNever(c) == Goto(c, "exhausted") /\ UNCHANGED attempt

\* Slip: the attempts are not counted.
RetryForever(c) == Goto(c, "handling") /\ UNCHANGED attempt

\* handleWithRetry after an error that is not permanent: the next attempt
\* follows a backoff, the last one gives up.
RetryOrGiveUp(c) ==
    IF attempt[c] < MaxAttempts
    THEN Goto(c, "handling") /\ attempt' = [attempt EXCEPT ![c] = @ + 1]
    ELSE Goto(c, "exhausted") /\ UNCHANGED attempt

\* ErrValidation is not marked permanent: it is retried like a database error.
HandleInvalid(c) ==
    /\ pc[c] = "handling"
    /\ InHand(c).event # None
    /\ InHand(c).type = PaymentCreatedEvent
    /\ InHand(c).payload = [error |-> "invalid"]
    /\ RetryOrGiveUp(c)
    /\ UNCHANGED <<kafka, work, ledger, deadLetters, faults>>

HandleBookable(c) ==
    /\ pc[c] = "handling"
    /\ Bookable(InHand(c))
    /\ Goto(c, "cash")
    /\ UNCHANGED <<kafka, work, attempt, ledger, deadLetters, faults>>

-----------------------------------------------------------------------------
(***************************************************************************)
(* RecordPaymentMovementOnce: both accounts are ensured, each in a         *)
(* statement that commits by itself, and then one transaction records the  *)
(* event as consumed and inserts the two entries.                          *)
(***************************************************************************)
buildPaymentMovement(m) ==
    {[account |-> <<"cash", m.payload.currency>>, direction |-> "debit",
      amount |-> m.payload.amount],
     [account |-> <<"merchant_payable", m.payload.currency>>, direction |-> "credit",
      amount |-> m.payload.amount]}

EnsureAccount(c, here, name, next) ==
    /\ pc[c] = here
    /\ accounts' = accounts \cup {<<name, InHand(c).payload.currency>>}
    /\ Goto(c, next)
    /\ UNCHANGED <<kafka, work, attempt, consumed, journal, deadLetters, faults>>

\* Slip: no unique index on event_id, so nothing waits.
EventNeverLocked(c) == FALSE

\* Another transaction that inserted the same event_id and has not ended makes
\* the insert wait.
EventLocked(c) ==
    \E d \in Consumers \ {c} : pc[d] = "in_tx" /\ InHand(d).event = InHand(c).event

\* Slip: the event is recorded outside the transaction that books it.
InsertConsumedApart(c) ==
    /\ pc[c] = "insert"
    /\ ~EventLocked(c)
    /\ InHand(c).event \notin consumed
    /\ consumed' = consumed \cup {InHand(c).event}
    /\ Goto(c, "in_tx")
    /\ UNCHANGED <<kafka, work, attempt, accounts, journal, deadLetters, faults>>

InsertConsumed(c) ==
    /\ pc[c] = "insert"
    /\ ~EventLocked(c)
    /\ InHand(c).event \notin consumed
    /\ Goto(c, "in_tx")
    /\ UNCHANGED <<kafka, work, attempt, ledger, deadLetters, faults>>

\* ON CONFLICT DO NOTHING affected no row: a duplicate, handled successfully.
InsertDuplicate(c) ==
    /\ pc[c] = "insert"
    /\ ~EventLocked(c)
    /\ InHand(c).event \in consumed
    /\ Goto(c, "committing")
    /\ UNCHANGED <<kafka, work, attempt, ledger, deadLetters, faults>>

Booked(m) ==
    [event |-> m.event, payment |-> m.payment, entries |-> buildPaymentMovement(m)]

Book(c) ==
    /\ consumed' = consumed \cup {InHand(c).event}
    /\ journal' = Append(journal, Booked(InHand(c)))
    /\ UNCHANGED accounts

TxCommit(c) ==
    /\ pc[c] = "in_tx"
    /\ Book(c)
    /\ Goto(c, "committing")
    /\ UNCHANGED <<kafka, work, attempt, deadLetters, faults>>

\* The commit took effect but its answer was lost: an error for the caller.
TxCommitLost(c) ==
    /\ pc[c] = "in_tx"
    /\ faults.db < MaxDbErrors
    /\ faults' = [faults EXCEPT !.db = @ + 1]
    /\ Book(c)
    /\ RetryOrGiveUp(c)
    /\ UNCHANGED <<kafka, work, deadLetters>>

\* Any other database error, at whichever call: an open transaction rolls back.
DbFails(c) ==
    /\ pc[c] \in {"cash", "payable", "insert", "in_tx"}
    /\ faults.db < MaxDbErrors
    /\ faults' = [faults EXCEPT !.db = @ + 1]
    /\ RetryOrGiveUp(c)
    /\ UNCHANGED <<kafka, work, ledger, deadLetters>>

-----------------------------------------------------------------------------
DeadLetter(c) ==
    [message |-> InHand(c), attempts |-> attempt[c],
     partition |-> work[c].partition, offset |-> work[c].offset]

\* Slip: the message is given up without a dead letter.
DropDeadLetter(c) ==
    /\ pc[c] = "exhausted"
    /\ Goto(c, "committing")
    /\ UNCHANGED <<kafka, work, attempt, ledger, deadLetters, faults>>

PublishDeadLetter(c) ==
    /\ pc[c] = "exhausted"
    /\ deadLetters' = Append(deadLetters, DeadLetter(c))
    /\ Goto(c, "committing")
    /\ UNCHANGED <<kafka, work, attempt, ledger, faults>>

\* Within the call the client writes the record again when the acknowledgement
\* of a try is lost.
DeadLetterRetries(c) ==
    /\ pc[c] = "exhausted"
    /\ faults.kafka < MaxKafkaErrors
    /\ faults' = [faults EXCEPT !.kafka = @ + 1]
    /\ deadLetters' = Append(deadLetters, DeadLetter(c))
    /\ UNCHANGED <<kafka, pc, work, attempt, ledger>>

\* The message in hand is done: its offset becomes the committed one, also when
\* the partition has been given to another consumer meanwhile.
CommitMessages(c) ==
    /\ pc[c] = "committing"
    /\ committed' = [committed EXCEPT ![work[c].partition] = work[c].offset]
    /\ work' = [work EXCEPT ![c] = None]
    /\ attempt' = [attempt EXCEPT ![c] = 0]
    /\ Goto(c, "fetching")
    /\ UNCHANGED <<topic, owner, position, ledger, deadLetters, faults>>

\* The process ends and leaves the group.
Exit(c) ==
    /\ owner' = [k \in Partitions |-> IF owner[k] = c THEN None ELSE owner[k]]
    /\ work' = [work EXCEPT ![c] = None]
    /\ attempt' = [attempt EXCEPT ![c] = 0]
    /\ Goto(c, "down")

\* The dead-letter write returns an error (the record may be there all the
\* same): Run returns without committing.
DeadLetterFails(c) ==
    /\ pc[c] = "exhausted"
    /\ faults.kafka < MaxKafkaErrors
    /\ faults' = [faults EXCEPT !.kafka = @ + 1]
    /\ \/ UNCHANGED deadLetters
       \/ deadLetters' = Append(deadLetters, DeadLetter(c))
    /\ Exit(c)
    /\ UNCHANGED <<topic, committed, position, ledger>>

\* The commit returns an error, with or without effect: Run returns.
CommitFails(c) ==
    /\ pc[c] = "committing"
    /\ faults.kafka < MaxKafkaErrors
    /\ faults' = [faults EXCEPT !.kafka = @ + 1]
    /\ \/ UNCHANGED committed
       \/ committed' = [committed EXCEPT ![work[c].partition] = work[c].offset]
    /\ Exit(c)
    /\ UNCHANGED <<topic, position, ledger, deadLetters>>

\* A crash, or a cancelled context: no dead letter, no commit.
Stop(c) ==
    /\ pc[c] # "down"
    /\ faults.stop < MaxStops
    /\ faults' = [faults EXCEPT !.stop = @ + 1]
    /\ Exit(c)
    /\ UNCHANGED <<topic, committed, position, ledger, deadLetters>>

Restart(c) ==
    /\ pc[c] = "down"
    /\ Goto(c, "fetching")
    /\ UNCHANGED <<kafka, work, attempt, ledger, deadLetters, faults>>

-----------------------------------------------------------------------------
Handle(c) ==
    \/ HandleRejects(c) \/ HandleIgnores(c) \/ HandleInvalid(c) \/ HandleBookable(c)
    \/ EnsureAccount(c, "cash", "cash", "payable")
    \/ EnsureAccount(c, "payable", "merchant_payable", "insert")
    \/ InsertConsumed(c) \/ InsertDuplicate(c) \/ TxCommit(c)
    \/ PublishDeadLetter(c) \/ CommitMessages(c) \/ Restart(c)

Fault(c) ==
    \/ TxCommitLost(c) \/ DbFails(c) \/ DeadLetterRetries(c) \/ DeadLetterFails(c)
    \/ CommitFails(c) \/ Stop(c)

Next ==
    \/ \E m \in Incoming : Produce(m)
    \/ \E k \in Partitions, c \in Consumers : Assign(k, c) \/ FetchMessage(c, k)
    \/ \E c \in Consumers : FetchWaits(c) \/ Handle(c) \/ Fault(c)

Spec == Init /\ [][Next]_vars

(***************************************************************************)
(* A consumer goes on with the message in hand and is restarted when it    *)
(* ends; an unowned partition is eventually assigned; an owner eventually  *)
(* fetches from each of its partitions, however often it serves the others *)
(* (hence SF: fetching alternates with handling).                          *)
(***************************************************************************)
FairSpec ==
    /\ Spec
    /\ \A c \in Consumers : WF_vars(Handle(c))
    /\ \A k \in Partitions : WF_vars(owner[k] = None /\ \E c \in Consumers : Assign(k, c))
    /\ \A k \in Partitions, c \in Consumers : SF_vars(FetchMessage(c, k))

-----------------------------------------------------------------------------
Settled(k, i) ==
    \/ Ignored(topic[k][i])
    \/ topic[k][i].event \in consumed
    \/ \E j \in DOMAIN deadLetters : deadLetters[j].partition = k /\ deadLetters[j].offset = i

\* However often an event is delivered (published twice, fetched again after a
\* rebalance or a restart, retried after a commit whose answer was lost, handled
\* by two consumers at once), it is booked once: CreateTransactionOnce,
\* postgres_ledger_repository.go:66-103.
BookedAtMostOnce ==
    \A i, j \in DOMAIN journal : journal[i].event = journal[j].event => i = j

\* The transaction is all or nothing: an event is recorded as consumed exactly
\* when its entries exist, and the accounts they refer to exist.
ConsumedIffBooked ==
    /\ consumed = {journal[i].event : i \in DOMAIN journal}
    /\ \A i \in DOMAIN journal : \A entry \in journal[i].entries : entry.account \in accounts

\* An offset is committed only when every message before it has been booked,
\* dead-lettered or deliberately ignored (Run commits last,
\* payment_consumer.go:116-131), whatever zombies, rewinds and stops do.
NoSilentLoss ==
    \A k \in Partitions : \A i \in 1..committed[k] : i \in DOMAIN topic[k] /\ Settled(k, i)

\* handleWithRetry gives up on a message that could be booked only after all
\* its attempts, and on one with a permanent error after the first.
DeadLetteredAfterAttempts ==
    \A j \in DOMAIN deadLetters :
        deadLetters[j].attempts =
            (IF Rejected(deadLetters[j].message) THEN 1 ELSE MaxAttempts)

\* Every message on the topic is eventually settled: no poisoned message, wait
\* for another transaction, stop, rebalance or rewound offset blocks a partition
\* for good.
EventuallySettled ==
    \A k \in Partitions : \A i \in 1..MaxMessages :
        (i \in DOMAIN topic[k]) ~> (i \in DOMAIN topic[k] /\ Settled(k, i))

\* While the database fails less often than a message has attempts, every
\* payment.created event that can be booked is eventually booked.
EventuallyBooked ==
    \A e \in EventIds :
        (\E k \in Partitions : \E i \in DOMAIN topic[k] :
            Bookable(topic[k][i]) /\ topic[k][i].event = e) ~> (e \in consumed)
=============================================================================
