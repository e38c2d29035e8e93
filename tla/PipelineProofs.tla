---------------------------- MODULE PipelineProofs ----------------------------
(***************************************************************************)
(* What TLAPS proves of the composition, for any number of processes,      *)
(* payments, partitions, days and faults, and for all retention periods    *)
(* and windows that satisfy WindowsAssumption.                             *)
(*                                                                         *)
(* The components' own invariants are reused: Pub and Con instantiate the  *)
(* modules that prove them.  Con reads, instead of the table               *)
(* consumed_ledger_events, which retention empties, the events that were   *)
(* ever booked.  A consumer step of the pipeline is a step of that         *)
(* consumer only if the table still has every event a copy of which can    *)
(* arrive; that is what the retention periods have to achieve, and         *)
(* TimeInv says why they do.                                               *)
(***************************************************************************)
EXTENDS Pipeline, FiniteSetTheorems, TLAPS

Ever == {journal[i].event : i \in DOMAIN journal}

Pub == INSTANCE OutboxPublisherProofs WITH
    pc <- pubPc, faults <- pubFaults, Unwritable <- {}, MaxRefusals <- 0,
    MaxStops <- 0, MaxClaimErrors <- 0, MaxDbErrors <- 0

Con == INSTANCE LedgerQueriesProofs WITH
    pc <- conPc, faults <- conFaults, consumed <- Ever, Incoming <- {}, MaxMessages <- 0,
    MaxStops <- 0, MaxDbErrors <- MaxLedgerDbErrors, MaxKafkaErrors <- 0

(***************************************************************************)
(* What flows: there is one message per payment, in the outbox row, on the *)
(* topic, among the dead letters and, as a transaction, in the journal.    *)
(***************************************************************************)
Accepted == [money: Money, status: PaymentStatuses]

CreatedMessage(e) == MessageOf(e, NewPaymentCreated(e, payments[e].money))

IsCreated(m) == \E e \in EventIds : payments[e] # None /\ m = CreatedMessage(e)

FlowInv ==
    /\ payments \in [EventIds -> Accepted \cup {None}]
    /\ \A e \in EventIds : outbox[e] # None =>
         payments[e] # None /\ MessageOf(e, outbox[e]) = CreatedMessage(e)
    /\ \A k \in Partitions : \A i \in DOMAIN topic[k] : IsCreated(topic[k][i])
    /\ \A i \in DOMAIN deadLetters : IsCreated(deadLetters[i].message)
    /\ \A i \in DOMAIN journal : \E e \in EventIds :
         payments[e] # None /\ journal[i] = Con!Booked(CreatedMessage(e))

\* A payment's event is on the topic, or its row is not published yet.
HandedOn ==
    \A p \in EventIds : payments[p] # None =>
        (outbox[p] # None /\ outbox[p].status # "published") \/ Pub!Delivered(p)

(***************************************************************************)
(* The replays: a run at work has claimed its event, alone, and its dead   *)
(* letter is within the replay window.                                     *)
(***************************************************************************)
Working == {"start"} \cup Replay!Active

\* The runs that have written, or may have.
Spent == {r \in Replays : repPc[r] \in
            {"write", "finish_succeeded", "finish_failed", "ok", "republish_failed"}}

ReplayInv ==
    /\ audit \in [EventIds -> Replay!AuditStatuses]
    /\ republished \in Seq(EventIds)
    /\ repPc \in [Replays -> Replay!Places]
    /\ repEvent \in [Replays -> EventIds \cup {None}]
    /\ \A r \in Replays : repPc[r] \in Working \cup {"ok"} => repEvent[r] \in EventIds
    /\ \A r \in Replays : repPc[r] \in Working => WithinReplayWindow(repEvent[r])
    /\ \A r \in Replays : repPc[r] \in Replay!Active => audit[repEvent[r]] = "started"
    /\ \A r, s \in Replays :
         (repPc[r] \in Replay!Active /\ repPc[s] \in Replay!Active /\ repEvent[r] = repEvent[s])
             => r = s

(***************************************************************************)
(* Time.                                                                   *)
(***************************************************************************)
StampsOK ==
    /\ clock \in Nat
    /\ writtenAt \in [Partitions -> Seq(Nat)]
    /\ \A k \in Partitions : Len(writtenAt[k]) = Len(topic[k])
    /\ \A k \in Partitions : \A i \in DOMAIN topic[k] : writtenAt[k][i] <= clock
    /\ deadLetteredAt \in Seq(Nat)
    /\ Len(deadLetteredAt) = Len(deadLetters)
    /\ consumedAt \in [EventIds -> Nat] /\ completedAt \in [EventIds -> Nat]

\* How long after its first copy an event can be written, after n replays.
Reach(n) == IncidentWindow + n * (ReplayWindow + TopicRetention)

\* A message older than the topic's retention is behind the group.
ExpiredPassed ==
    \A k \in Partitions : \A i \in DOMAIN topic[k] :
        clock > writtenAt[k][i] + TopicRetention =>
            /\ i <= committed[k]
            /\ owner[k] # None => i <= position[k]
            /\ \A c \in Consumers :
                 (conPc[c] \in Con!Busy /\ work[c].partition = k) => i < work[c].offset

\* The publisher is through with an event one incident window after its first copy.
PublishedInTime ==
    \A e \in EventIds : \A k \in Partitions : \A i \in DOMAIN topic[k] :
        (topic[k][i].event = e /\ clock > writtenAt[k][i] + IncidentWindow) =>
            (outbox[e] # None => outbox[e].status = "published")

\* No copy is written later after another one than the spent replays allow.
CopiesClose ==
    \A k, l \in Partitions : \A i \in DOMAIN topic[k] : \A j \in DOMAIN topic[l] :
        topic[k][i].event = topic[l][j].event =>
            writtenAt[k][i] <= writtenAt[l][j] + Reach(Cardinality(Spent))

\* No copy of the event was written longer ago than n replays reach.
Near(e, n) ==
    \A k \in Partitions : \A i \in DOMAIN topic[k] :
        topic[k][i].event = e => clock <= writtenAt[k][i] + Reach(n)

\* However often a run at work writes, it does so close to the copies there are.
WritersNear ==
    \A r \in Replays : repPc[r] = "write" => Near(repEvent[r], Cardinality(Spent))

\* A dead letter is a message of the topic that was not older than its retention.
LettersFresh ==
    \A j \in DOMAIN deadLetters :
        LET k == deadLetters[j].partition
            i == deadLetters[j].offset
        IN  /\ k \in Partitions /\ i \in DOMAIN topic[k]
            /\ topic[k][i] = deadLetters[j].message
            /\ deadLetteredAt[j] <= writtenAt[k][i] + TopicRetention

ConsumedLater ==
    \A e \in consumed : \E k \in Partitions : \E i \in DOMAIN topic[k] :
        topic[k][i].event = e /\ writtenAt[k][i] <= consumedAt[e]

\* A booked event is in the table, or too old for any copy to be left.
Forgettable(e) ==
    \E k \in Partitions : \E i \in DOMAIN topic[k] :
        /\ topic[k][i].event = e
        /\ clock > writtenAt[k][i] + Reach(Cardinality(Replays)) + TopicRetention

BookedKnown == \A e \in Ever : e \in consumed \/ Forgettable(e)

TimeInv ==
    /\ StampsOK
    /\ ExpiredPassed
    /\ PublishedInTime
    /\ CopiesClose
    /\ WritersNear
    /\ LettersFresh
    /\ consumed \subseteq Ever
    /\ ConsumedLater
    /\ BookedKnown

(***************************************************************************)
(* A successful replay: its audit row says so, or is gone and no copy of   *)
(* the event can be dead-lettered and replayed any more.  In both cases    *)
(* the copies are at most an incident window younger than the replay.      *)
(***************************************************************************)
Around(e, day) ==
    /\ \E k \in Partitions : \E i \in DOMAIN topic[k] :
         topic[k][i].event = e /\ writtenAt[k][i] <= day
    /\ \A k \in Partitions : \A i \in DOMAIN topic[k] :
         topic[k][i].event = e => writtenAt[k][i] <= day + IncidentWindow

ReplayOver(e) ==
    \E day \in 0..clock : /\ Around(e, day)
                          /\ clock > day + IncidentWindow + TopicRetention + ReplayWindow

SuccessKept ==
    \A r \in Replays : repPc[r] = "ok" =>
        \/ audit[repEvent[r]] = "succeeded" /\ Around(repEvent[r], completedAt[repEvent[r]])
        \/ ReplayOver(repEvent[r])

PipeInv ==
    /\ Pub!IInv
    /\ Con!HandInv /\ Con!BookInv /\ Con!LossInv
    /\ FlowInv
    /\ HandedOn
    /\ ReplayInv
    /\ TimeInv
    /\ SuccessKept
    /\ ReplayedOnce

-----------------------------------------------------------------------------
(***************************************************************************)
(* The components' lemmas, for the constants of the composition.           *)
(***************************************************************************)

\* What the publishers assume of their constants.
LEMMA PubAssumptions ==
    /\ EventIds \subseteq Nat /\ Amounts \subseteq Nat \ {0}
    /\ None \notin Pub!OutboxRows /\ None \notin EventIds
    /\ BatchSize \in Nat \ {0} /\ WriteAttempts \in Nat \ {0}
    /\ PartitionOf \in [EventIds -> Partitions] /\ {} \subseteq EventIds
    /\ 0 \in Nat /\ MaxWriteErrors \in Nat
<1>1. None \notin Pub!OutboxRows
  BY NoneAssumption
     DEF Pub!OutboxRows, OutboxRows, Pub!EventTypes, EventTypes, Pub!Payloads, Payloads,
         Pub!OutboxStatuses, OutboxStatuses, Pub!Money, Money, Pub!TerminalStatuses,
         TerminalStatuses, Pub!PaymentCreatedEvent, PaymentCreatedEvent,
         Pub!PaymentStatusChangedEvent, PaymentStatusChangedEvent
<1> QED
  BY <1>1, EventIdsAssumption, AmountsAssumption, NoneAssumption, ComponentsAssumption

\* The publishers' invariant holds at the start and is kept by their steps.
LEMMA PubKept ==
    /\ Pub!Init => Pub!IInv
    /\ Pub!IInv /\ [Pub!Next]_(Pub!vars) => Pub!IInv'
<1>1. Pub!Init => Pub!IInv
  BY PubAssumptions, Pub!InitIInv
<1> QED
  BY <1>1, PubAssumptions, Pub!NextIInv

\* What the consumers assume of their constants.
LEMMA ConAssumptions ==
    /\ EventIds \subseteq Nat /\ Amounts \subseteq Nat \ {0}
    /\ None \notin Con!OutboxRows /\ None \notin EventIds
    /\ PartitionOf \in [EventIds -> Partitions] /\ {} \subseteq Con!ConsumerMessages
    /\ 0 \in Nat /\ MaxAttempts \in Nat \ {0}
    /\ MaxRebalances \in Nat /\ MaxLedgerDbErrors \in Nat /\ None \notin Consumers
<1>1. None \notin Con!OutboxRows
  BY NoneAssumption
     DEF Con!OutboxRows, OutboxRows, Con!EventTypes, EventTypes, Con!Payloads, Payloads,
         Con!OutboxStatuses, OutboxStatuses, Con!Money, Money, Con!TerminalStatuses,
         TerminalStatuses, Con!PaymentCreatedEvent, PaymentCreatedEvent,
         Con!PaymentStatusChangedEvent, PaymentStatusChangedEvent
<1> QED
  BY <1>1, EventIdsAssumption, AmountsAssumption, NoneAssumption, ComponentsAssumption

\* The consumers' invariants hold at the start and are kept by their steps.
LEMMA ConKept ==
    /\ Con!Init => Con!HandInv /\ Con!BookInv /\ Con!LossInv
    /\ Con!HandInv /\ Con!BookInv /\ Con!LossInv /\ [Con!Next]_(Con!vars) =>
         Con!HandInv' /\ Con!BookInv' /\ Con!LossInv'
<1>1. Con!Init => Con!HandInv
  BY ConAssumptions, Con!InitHandInv
<1>2. Con!Init => Con!BookInv
  BY ConAssumptions, Con!InitBookInv
<1>3. Con!Init => Con!LossInv
  BY ConAssumptions, Con!InitLossInv
<1>4. Con!HandInv /\ [Con!Next]_(Con!vars) => Con!HandInv'
  BY ConAssumptions, Con!NextHandInv
<1>5. Con!HandInv /\ Con!BookInv /\ [Con!Next]_(Con!vars) => Con!BookInv'
  BY ConAssumptions, Con!NextBookInv
<1>6. Con!HandInv /\ Con!LossInv /\ [Con!Next]_(Con!vars) => Con!LossInv'
  BY ConAssumptions, Con!NextLossInv
<1> QED
  BY <1>1, <1>2, <1>3, <1>4, <1>5, <1>6

\* The instances share the vocabulary of the composition.
LEMMA Vocabulary ==
    /\ Pub!OutboxRows = OutboxRows
    /\ Pub!Messages = Messages
    /\ \A e, row : Pub!MessageOf(e, row) = MessageOf(e, row)
    /\ Messages \subseteq Con!ConsumerMessages
    /\ Con!Money = Money
    /\ Con!PaymentCreatedEvent = PaymentCreatedEvent
<1> USE DEF Pub!EventTypes, Con!EventTypes, EventTypes, Pub!Payloads, Con!Payloads, Payloads,
         Pub!Money, Con!Money, Money, Pub!PaymentCreatedEvent, Con!PaymentCreatedEvent,
         PaymentCreatedEvent, Pub!PaymentStatusChangedEvent, Con!PaymentStatusChangedEvent,
         PaymentStatusChangedEvent, Pub!TerminalStatuses, Con!TerminalStatuses, TerminalStatuses
<1>1. Pub!OutboxRows = OutboxRows
  BY DEF Pub!OutboxRows, OutboxRows, Pub!OutboxStatuses, OutboxStatuses
<1>2. Pub!Messages = Messages
  BY DEF Pub!Messages, Messages
<1>3. \A e, row : Pub!MessageOf(e, row) = MessageOf(e, row)
  BY DEF Pub!MessageOf, MessageOf
<1>4. Messages \subseteq Con!ConsumerMessages
  BY DEF Con!ConsumerMessages, Messages
<1> QED
  BY <1>1, <1>2, <1>3, <1>4

-----------------------------------------------------------------------------
(***************************************************************************)
(* The publishers.                                                         *)
(***************************************************************************)

\* The composition's publisher steps are steps of the publishers.
LEMMA PublisherIsPub ==
    ASSUME NEW p \in Publishers, PublisherStep(p)
    PROVE  /\ Pub!Work(p) \/ Pub!Fault(p)
           /\ Pub!Next
<1>1. CASE Publisher!ClaimSelect(p)
  <2>1. Pub!ClaimSelect(p)
    <3>1. Publisher!Candidates = Pub!Candidates
      BY DEF Publisher!Candidates, Pub!Candidates, Publisher!Claimable, Pub!Claimable,
             Publisher!Locked, Pub!Locked
    <3>2. \A S : Publisher!Oldest(S, BatchSize) = Pub!Oldest(S, BatchSize)
      BY DEF Publisher!Oldest, Pub!Oldest, Publisher!Cardinality, Pub!Cardinality
    <3> QED
      BY <1>1, <3>1, <3>2 DEF Publisher!ClaimSelect, Pub!ClaimSelect
  <2> QED
    BY <2>1 DEF Pub!Next, Pub!Work
<1>2. CASE Publisher!ClaimCommit(p)
  <2>1. Pub!ClaimCommit(p)
    BY <1>2 DEF Publisher!ClaimCommit, Pub!ClaimCommit, Publisher!AfterClaim, Pub!AfterClaim,
                Publisher!Claimed, Pub!Claimed, Publisher!Counted, Pub!Counted
  <2> QED
    BY <2>1 DEF Pub!Next, Pub!Work
<1>3. CASE \E e \in EventIds :
             \/ Publisher!WriteRetries(p, e)
             \/ Publisher!WriteAcked(p, e)
             \/ Publisher!WriteFails(p, e)
  <2>1. \E e \in EventIds : Pub!WriteRetries(p, e) \/ Pub!WriteAcked(p, e) \/ Pub!WriteFails(p, e)
    BY <1>3 DEF Publisher!WriteRetries, Pub!WriteRetries, Publisher!WriteAcked, Pub!WriteAcked,
                Publisher!WriteFails, Pub!WriteFails, Publisher!Writing, Pub!Writing,
                Publisher!WriteError, Pub!WriteError, Publisher!Append1, Pub!Append1,
                Publisher!MessageOf, Pub!MessageOf
  <2> QED
    BY <2>1 DEF Pub!Next, Pub!Work, Pub!Fault
<1>4. CASE Publisher!MarkPublished(p) \/ Publisher!MarkFailed(p)
  <2>1. Pub!MarkPublished(p) \/ Pub!MarkFailed(p)
    BY <1>4 DEF Publisher!MarkPublished, Pub!MarkPublished, Publisher!MarkFailed,
                Pub!MarkFailed, Publisher!NextRow, Pub!NextRow
  <2> QED
    BY <2>1 DEF Pub!Next, Pub!Work
<1> QED
  BY <1>1, <1>2, <1>3, <1>4 DEF PublisherStep

\* The message of a payment is appended to the payment's partition.
Wrote(e) ==
    topic' = [topic EXCEPT ![PartitionOf[e]] = Append(topic[PartitionOf[e]], CreatedMessage(e))]

\* Publishers neither create nor delete rows, leave published rows alone, keep the
\* message of a row, and write the message of a row they have claimed.
LEMMA PublisherFacts ==
    ASSUME Pub!IInv, FlowInv, NEW p \in Publishers, PublisherStep(p)
    PROVE  /\ Pub!IInv'
           /\ \A e \in EventIds : outbox'[e] # None <=> outbox[e] # None
           /\ \A e \in EventIds : outbox[e] # None =>
                /\ MessageOf(e, outbox'[e]) = MessageOf(e, outbox[e])
                /\ outbox[e].status = "published" => outbox'[e] = outbox[e]
           /\ \/ topic' = topic
              \/ \E e \in EventIds :
                   outbox[e] # None /\ outbox[e].status # "published" /\ Wrote(e)
<1> DEFINE Rows == /\ \A e \in EventIds : outbox'[e] # None <=> outbox[e] # None
                   /\ \A e \in EventIds : outbox[e] # None =>
                        MessageOf(e, outbox'[e]) = MessageOf(e, outbox[e])
           Topic == \/ topic' = topic
                    \/ \E e \in EventIds :
                         outbox[e] # None /\ outbox[e].status # "published" /\ Wrote(e)
<1>1. Pub!IInv' /\ Pub!Next
  BY PublisherIsPub, PubKept
<1>2. /\ outbox \in [EventIds -> OutboxRows \cup {None}]
      /\ None \notin OutboxRows
      /\ batch \in [Publishers -> SUBSET EventIds]
  BY Vocabulary, NoneAssumption DEF Pub!IInv, Pub!TypeOK
<1>3. ASSUME NEW e \in EventIds, outbox[e] # None, outbox[e].status = "published"
      PROVE  outbox'[e] = outbox[e]
  <2>1. \A q \in Publishers : e \notin batch[q]
    BY <1>3, PubAssumptions, Pub!PublishedUnheld DEF Pub!HasStatus
  <2> QED
    BY <1>1, <1>3, <2>1, PubAssumptions, Pub!UnheldRow
<1>4. CASE Publisher!ClaimSelect(p)
  BY <1>1, <1>3, <1>4 DEF Publisher!ClaimSelect
<1>5. CASE Publisher!ClaimCommit(p)
  <2>1. /\ topic' = topic
        /\ outbox' = [e \in EventIds |-> IF e \in batch[p]
                        THEN [outbox[e] EXCEPT !.status = "publishing",
                                               !.attempts = outbox[e].attempts + 1]
                        ELSE outbox[e]]
    BY <1>5 DEF Publisher!ClaimCommit, Publisher!AfterClaim, Publisher!Claimed,
                Publisher!Counted
  <2>2. \A e \in batch[p] : e \in EventIds /\ outbox[e] # None
    BY <1>2, <1>5 DEF Publisher!ClaimCommit, Pub!IInv, Pub!ClaimInv, Pub!LockedClaimable,
                      Pub!HasStatus
  <2>3. ASSUME NEW row \in OutboxRows
        PROVE  LET claimed == [row EXCEPT !.status = "publishing", !.attempts = row.attempts + 1]
               IN  /\ claimed \in OutboxRows
                   /\ \A e : MessageOf(e, claimed) = MessageOf(e, row)
    <3>1. row.attempts + 1 \in Nat
      BY DEF OutboxRows
    <3> QED
      BY <3>1 DEF OutboxRows, OutboxStatuses, MessageOf
  <2>4. Rows
    BY <1>2, <2>1, <2>2, <2>3
  <2> QED
    BY <1>1, <1>3, <2>1, <2>4
<1>6. CASE \E e \in EventIds :
             \/ Publisher!WriteRetries(p, e)
             \/ Publisher!WriteAcked(p, e)
             \/ Publisher!WriteFails(p, e)
  <2>1. PICK e \in EventIds :
          \/ Publisher!WriteRetries(p, e)
          \/ Publisher!WriteAcked(p, e)
          \/ Publisher!WriteFails(p, e)
    BY <1>6
  <2>2. /\ outbox' = outbox /\ pubPc[p] \in {"publishing", "writing"} /\ e \in batch[p]
        /\ topic' = topic \/ topic' = Publisher!Append1(e)
    BY <2>1 DEF Publisher!WriteRetries, Publisher!WriteAcked, Publisher!WriteFails,
                Publisher!Writing, Pub!IInv, Pub!ClaimInv, Pub!CurrentHeld
  <2>3. outbox[e] # None /\ outbox[e].status = "publishing"
    BY <2>2 DEF Pub!IInv, Pub!ClaimInv, Pub!HeldPublishing, Pub!HasStatus, Pub!Holding
  <2>4. MessageOf(e, outbox[e]) = CreatedMessage(e) /\ outbox[e].payment = e
    BY <2>3 DEF FlowInv, CreatedMessage, MessageOf, NewPaymentCreated, newPaymentEvent
  <2>5. topic' = Publisher!Append1(e) => Wrote(e)
    BY <2>4 DEF Publisher!Append1, Publisher!MessageOf, MessageOf, Wrote
  <2> QED
    BY <1>1, <1>3, <2>2, <2>3, <2>5
<1>7. CASE Publisher!MarkPublished(p) \/ Publisher!MarkFailed(p)
  <2>1. /\ topic' = topic /\ pubPc[p] \in {"written", "refused"}
        /\ \/ outbox' = [outbox EXCEPT ![current[p]].status = "published"]
           \/ outbox' = [outbox EXCEPT ![current[p]].status = "failed"]
    BY <1>7 DEF Publisher!MarkPublished, Publisher!MarkFailed
  <2>2. current[p] \in EventIds /\ outbox[current[p]] \in OutboxRows
    BY <1>2, <2>1 DEF Pub!IInv, Pub!ClaimInv, Pub!CurrentHeld, Pub!HeldPublishing, Pub!Holding,
                      Pub!HasStatus
  <2>3. ASSUME NEW row \in OutboxRows, NEW status \in {"published", "failed"}
        PROVE  LET marked == [row EXCEPT !.status = status]
               IN  /\ marked \in OutboxRows
                   /\ \A e : MessageOf(e, marked) = MessageOf(e, row)
    BY DEF OutboxRows, OutboxStatuses, MessageOf
  <2>4. Rows
    BY <1>2, <2>1, <2>2, <2>3
  <2> QED
    BY <1>1, <1>3, <2>1, <2>4
<1> QED
  BY <1>4, <1>5, <1>6, <1>7, <1>1, <1>3 DEF PublisherStep

-----------------------------------------------------------------------------
(***************************************************************************)
(* Distances in time.                                                      *)
(***************************************************************************)

\* Every replay reaches one replay window and one topic retention further.
LEMMA ReachFacts ==
    /\ \A n \in Nat : Reach(n) \in Nat /\ Reach(n) >= IncidentWindow
    /\ \A n \in Nat : Reach(n + 1) = Reach(n) + ReplayWindow + TopicRetention
    /\ \A m, n \in Nat : m <= n => Reach(m) <= Reach(n)
<1> DEFINE d == ReplayWindow + TopicRetention
<1>1. d \in Nat /\ IncidentWindow \in Nat
  BY WindowsAssumption
<1>2. \A n : Reach(n) = IncidentWindow + n * d
  BY DEF Reach
<1>3. \A n \in Nat : (n + 1) * d = n * d + d /\ n * d \in Nat
  <2> HIDE DEF d
  <2> QED
    BY <1>1
<1>4. \A m, n \in Nat : m <= n => m * d <= n * d
  <2> HIDE DEF d
  <2> TAKE m, n \in Nat
  <2> HAVE m <= n
  <2>1. n - m \in Nat /\ n = m + (n - m)
    OBVIOUS
  <2>2. n * d = m * d + (n - m) * d /\ (n - m) * d >= 0 /\ m * d \in Nat
    BY <1>1, <2>1
  <2> QED
    BY <1>1, <2>2
<1>5. \A n \in Nat : Reach(n + 1) = Reach(n) + d
  <2> HIDE DEF d
  <2> QED
    BY <1>1, <1>2, <1>3
<1>6. \A n \in Nat : Reach(n) \in Nat /\ Reach(n) >= IncidentWindow
  <2> HIDE DEF d
  <2> QED
    BY <1>1, <1>2, <1>3
<1>7. \A m, n \in Nat : m <= n => Reach(m) <= Reach(n)
  <2> HIDE DEF d
  <2> QED
    BY <1>1, <1>2, <1>3, <1>4
<1> QED
  BY <1>5, <1>6, <1>7, WindowsAssumption

\* There are no more spent replays than replays.
LEMMA SpentFacts ==
    /\ IsFiniteSet(Spent) /\ Cardinality(Spent) \in Nat
    /\ Cardinality(Replays) \in Nat /\ Cardinality(Spent) <= Cardinality(Replays)
<1>1. Spent \subseteq Replays /\ IsFiniteSet(Replays)
  BY ComponentsAssumption DEF Spent
<1> QED
  BY <1>1, FS_Subset, FS_CardinalityType

\* A booked event of which a copy is still to be handled has not been forgotten.
LEMMA FreshKnown ==
    ASSUME TimeInv, NEW e \in Ever, NEW k \in Partitions, NEW i \in DOMAIN topic[k],
           topic[k][i].event = e, clock <= writtenAt[k][i] + TopicRetention
    PROVE  e \in consumed
<1> SUFFICES ASSUME e \notin consumed PROVE FALSE
  OBVIOUS
<1> DEFINE most == Reach(Cardinality(Replays))
           far == Reach(Cardinality(Spent))
<1>1. PICK l \in Partitions : \E j \in DOMAIN topic[l] :
        topic[l][j].event = e /\ clock > writtenAt[l][j] + most + TopicRetention
  BY DEF TimeInv, BookedKnown, Forgettable
<1>2. PICK j \in DOMAIN topic[l] :
        topic[l][j].event = e /\ clock > writtenAt[l][j] + most + TopicRetention
  BY <1>1
<1>3. writtenAt[k][i] <= writtenAt[l][j] + far
  BY <1>2 DEF TimeInv, CopiesClose
<1>4. far <= most /\ far \in Nat /\ most \in Nat
  BY ReachFacts, SpentFacts
<1>5. clock \in Nat /\ writtenAt[k][i] \in Nat /\ writtenAt[l][j] \in Nat
  BY DEF TimeInv, StampsOK
<1> HIDE DEF far, most
<1> QED
  BY <1>2, <1>3, <1>4, <1>5, WindowsAssumption

\* A message in hand is not older than the topic's retention.
LEMMA InHandFresh ==
    ASSUME Con!HandInv, TimeInv, NEW c \in Consumers, conPc[c] \in Con!Busy
    PROVE  /\ work[c].partition \in Partitions
           /\ work[c].offset \in DOMAIN topic[work[c].partition]
           /\ Con!InHand(c) = topic[work[c].partition][work[c].offset]
           /\ clock <= writtenAt[work[c].partition][work[c].offset] + TopicRetention
<1> DEFINE k == work[c].partition
           i == work[c].offset
<1>1. k \in Partitions /\ i \in Nat /\ i \in DOMAIN topic[k]
  BY DEF Con!HandInv, Con!WorkExists, Con!Works
<1>2. clock \in Nat /\ writtenAt[k][i] \in Nat
  BY <1>1 DEF TimeInv, StampsOK
<1>3. ~(clock > writtenAt[k][i] + TopicRetention)
  BY <1>1 DEF TimeInv, ExpiredPassed
<1> QED
  BY <1>1, <1>2, <1>3, WindowsAssumption DEF Con!InHand, Con!MessageAt

-----------------------------------------------------------------------------
(***************************************************************************)
(* The consumers.                                                          *)
(***************************************************************************)

\* What a commit does to the journal it does to the events ever booked.
LEMMA EverGrows ==
    ASSUME journal \in Seq(Con!Transactions), NEW t \in Con!Transactions,
           journal' = Append(journal, t)
    PROVE  Ever' = Ever \cup {t.event}
<1>1. /\ Len(journal) \in Nat /\ DOMAIN journal = 1..Len(journal)
      /\ DOMAIN journal' = 1..(Len(journal) + 1)
      /\ \A i \in DOMAIN journal : journal'[i] = journal[i]
      /\ journal'[Len(journal) + 1] = t
  OBVIOUS
<1>2. DOMAIN journal' = DOMAIN journal \cup {Len(journal) + 1}
  BY <1>1
<1> QED
  BY <1>1, <1>2 DEF Ever

\* What a commit books.
LEMMA BookedType ==
    ASSUME Con!HandInv, NEW c \in Consumers, conPc[c] \in Con!Booking
    PROVE  /\ Con!Booked(Con!InHand(c)) \in Con!Transactions
           /\ Con!Booked(Con!InHand(c)).event = Con!InHand(c).event
<1>1. /\ Con!InHand(c) \in Con!ConsumerMessages
      /\ Con!Bookable(Con!InHand(c))
  BY ConAssumptions, Con!InHandType DEF Con!HandInv, Con!BookingBookable, Con!Busy
<1>2. /\ Con!InHand(c).event \in EventIds /\ Con!InHand(c).payment \in EventIds
      /\ Con!InHand(c).payload.amount \in Amounts
      /\ Con!InHand(c).payload.currency \in Currencies
  BY <1>1, ConAssumptions, Con!BookableType
<1> QED
  BY <1>2 DEF Con!Booked, Con!Transactions, Con!buildPaymentMovement, Con!Entries, Con!Accounts

\* The composition's consumer steps are steps of consumers that remember every
\* event they booked.
LEMMA ConsumerIsCon ==
    ASSUME Con!HandInv, TimeInv, NEW c \in Consumers, ConsumerStep(c)
    PROVE  [Con!Next]_(Con!vars)
<1> USE DEF Con!kafka, Consumer!kafka, Con!ledger, Consumer!ledger, Con!Goto, Consumer!Goto,
            Con!InHand, Consumer!InHand, Con!MessageAt, Consumer!MessageAt
<1>1. journal' = journal => Ever' = Ever
  BY DEF Ever
<1>2. CASE \E k \in Partitions : Consumer!Assign(k, c) \/ Consumer!FetchMessage(c, k)
  <2>1. \E k \in Partitions : Con!Assign(k, c) \/ Con!FetchMessage(c, k)
    BY <1>1, <1>2 DEF Con!Assign, Consumer!Assign, Con!FetchMessage, Consumer!FetchMessage
  <2> QED
    BY <2>1 DEF Con!Next
<1>3. CASE Consumer!HandleBookable(c)
  <2>1. Con!HandleBookable(c)
    BY <1>1, <1>3 DEF Con!HandleBookable, Consumer!HandleBookable, Con!Bookable,
                      Consumer!Bookable, Con!Money, Consumer!Money, Con!PaymentCreatedEvent,
                      Consumer!PaymentCreatedEvent
  <2> QED
    BY <2>1 DEF Con!Next, Con!Handle
<1>4. CASE Consumer!EnsureAccount(c, "cash", "cash", "payable")
  <2>1. Con!EnsureAccount(c, "cash", "cash", "payable")
    BY <1>1, <1>4 DEF Con!EnsureAccount, Consumer!EnsureAccount
  <2> QED
    BY <2>1 DEF Con!Next, Con!Handle
<1>5. CASE Consumer!EnsureAccount(c, "payable", "merchant_payable", "insert")
  <2>1. Con!EnsureAccount(c, "payable", "merchant_payable", "insert")
    BY <1>1, <1>5 DEF Con!EnsureAccount, Consumer!EnsureAccount
  <2> QED
    BY <2>1 DEF Con!Next, Con!Handle
<1>6. CASE Consumer!InsertConsumed(c)
  <2>1. conPc[c] = "insert" /\ Con!InHand(c).event \notin consumed
    BY <1>6 DEF Consumer!InsertConsumed
  <2>2. Con!InHand(c).event \notin Ever
    BY <2>1, InHandFresh, FreshKnown DEF Con!Busy, Con!Booking
  <2>3. Con!InsertConsumed(c)
    BY <1>1, <1>6, <2>2 DEF Con!InsertConsumed, Consumer!InsertConsumed, Con!EventLocked,
                            Consumer!EventLocked
  <2> QED
    BY <2>3 DEF Con!Next, Con!Handle
<1>7. CASE Consumer!InsertDuplicate(c)
  <2>1. Con!InsertDuplicate(c)
    BY <1>1, <1>7 DEF Con!InsertDuplicate, Consumer!InsertDuplicate, Con!EventLocked,
                      Consumer!EventLocked, TimeInv
  <2> QED
    BY <2>1 DEF Con!Next, Con!Handle
<1>8. CASE Consumer!TxCommit(c) \/ Consumer!TxCommitLost(c)
  <2>1. conPc[c] = "in_tx" /\ journal' = Append(journal, Con!Booked(Con!InHand(c)))
        /\ UNCHANGED accounts
    BY <1>8 DEF Consumer!TxCommit, Consumer!TxCommitLost, Consumer!Book, Con!Booked,
                Consumer!Booked, Con!buildPaymentMovement, Consumer!buildPaymentMovement
  <2>2. Ever' = Ever \cup {Con!InHand(c).event}
    BY <2>1, EverGrows, BookedType DEF Con!HandInv, Con!TypeOK, Con!Booking
  <2>3. Con!Book(c)
    BY <2>1, <2>2 DEF Con!Book
  <2>4. Con!TxCommit(c) \/ Con!TxCommitLost(c)
    BY <1>8, <2>3 DEF Con!TxCommit, Consumer!TxCommit, Con!TxCommitLost, Consumer!TxCommitLost,
                      Con!RetryOrGiveUp, Consumer!RetryOrGiveUp
  <2> QED
    BY <2>4 DEF Con!Next, Con!Handle, Con!Fault
<1>9. CASE Consumer!DbFails(c)
  <2>1. Con!DbFails(c)
    BY <1>1, <1>9 DEF Con!DbFails, Consumer!DbFails, Con!RetryOrGiveUp, Consumer!RetryOrGiveUp
  <2> QED
    BY <2>1 DEF Con!Next, Con!Fault
<1>10. CASE Consumer!PublishDeadLetter(c) \/ Consumer!CommitMessages(c)
  <2>1. Con!PublishDeadLetter(c) \/ Con!CommitMessages(c)
    BY <1>1, <1>10 DEF Con!PublishDeadLetter, Consumer!PublishDeadLetter, Con!DeadLetter,
                       Consumer!DeadLetter, Con!CommitMessages, Consumer!CommitMessages
  <2> QED
    BY <2>1 DEF Con!Next, Con!Handle
<1> QED
  BY <1>2, <1>3, <1>4, <1>5, <1>6, <1>7, <1>8, <1>9, <1>10 DEF ConsumerStep

\* A consumer leaves the topic alone, books only with its commit and dead-letters
\* only the message in hand.
LEMMA ConsumerFacts ==
    ASSUME Con!HandInv, Con!BookInv, Con!LossInv, TimeInv, NEW c \in Consumers, ConsumerStep(c)
    PROVE  /\ Con!HandInv' /\ Con!BookInv' /\ Con!LossInv'
           /\ topic' = topic
           /\ \/ UNCHANGED <<consumed, journal>>
              \/ /\ conPc[c] \in Con!Booking
                 /\ consumed' = consumed \cup {Con!InHand(c).event}
                 /\ journal' = Append(journal, Con!Booked(Con!InHand(c)))
           /\ \/ UNCHANGED deadLetters
              \/ /\ conPc[c] \in Con!Busy
                 /\ deadLetters' = Append(deadLetters, Con!DeadLetter(c))
<1>1. Con!HandInv' /\ Con!BookInv' /\ Con!LossInv'
  BY ConsumerIsCon, ConKept
<1> USE DEF Consumer!kafka, Consumer!ledger, Consumer!InHand, Con!InHand, Consumer!MessageAt,
            Con!MessageAt
<1>2. CASE Consumer!TxCommit(c) \/ Consumer!TxCommitLost(c)
  BY <1>1, <1>2 DEF Consumer!TxCommit, Consumer!TxCommitLost, Consumer!Book, Con!Booked,
                    Consumer!Booked, Con!buildPaymentMovement, Consumer!buildPaymentMovement,
                    Con!Booking
<1>3. CASE Consumer!PublishDeadLetter(c)
  BY <1>1, <1>3 DEF Consumer!PublishDeadLetter, Consumer!DeadLetter, Con!DeadLetter, Con!Busy
<1>4. CASE \/ \E k \in Partitions : Consumer!Assign(k, c) \/ Consumer!FetchMessage(c, k)
           \/ Consumer!HandleBookable(c) \/ Consumer!EnsureAccount(c, "cash", "cash", "payable")
           \/ Consumer!EnsureAccount(c, "payable", "merchant_payable", "insert")
           \/ Consumer!InsertConsumed(c) \/ Consumer!InsertDuplicate(c) \/ Consumer!DbFails(c)
           \/ Consumer!CommitMessages(c)
  BY <1>1, <1>4 DEF Consumer!Assign, Consumer!FetchMessage, Consumer!HandleBookable,
                    Consumer!EnsureAccount, Consumer!InsertConsumed, Consumer!InsertDuplicate,
                    Consumer!DbFails, Consumer!CommitMessages
<1> QED
  BY <1>2, <1>3, <1>4 DEF ConsumerStep

\* A consumer never goes back to an expired message: it resumes at the committed
\* offset, fetches what follows its position and commits what it has in hand.
LEMMA ConsumerExpired ==
    ASSUME Con!HandInv, Con!HandInv', TimeInv, NEW c \in Consumers, ConsumerStep(c),
           NEW k \in Partitions, NEW i \in DOMAIN topic[k],
           clock > writtenAt[k][i] + TopicRetention
    PROVE  /\ i <= committed'[k]
           /\ owner'[k] # None => i <= position'[k]
           /\ \A d \in Consumers :
                (conPc'[d] \in Con!Busy /\ work'[d].partition = k) => i < work'[d].offset
<1> DEFINE Passed == /\ i <= committed[k]
                     /\ owner[k] # None => i <= position[k]
                     /\ \A d \in Consumers :
                          (conPc[d] \in Con!Busy /\ work[d].partition = k) => i < work[d].offset
<1>1. Passed
  BY DEF TimeInv, ExpiredPassed
<1>2. /\ i \in Nat /\ committed \in [Partitions -> Nat] /\ position \in [Partitions -> Nat]
      /\ owner \in [Partitions -> Consumers \cup {None}] /\ None \notin Consumers
      /\ conPc \in [Consumers -> Con!Places] /\ work \in [Consumers -> Con!Works \cup {None}]
  BY ComponentsAssumption DEF Con!HandInv, Con!TypeOK
<1>3. ASSUME NEW l \in Partitions, Consumer!Assign(l, c)
      PROVE  Passed'
  <2>1. /\ UNCHANGED <<committed, conPc, work>>
        /\ position' = [position EXCEPT ![l] = committed[l]]
        /\ owner' = [owner EXCEPT ![l] = c]
    BY <1>3 DEF Consumer!Assign
  <2> QED
    BY <1>1, <1>2, <2>1
<1>4. ASSUME NEW l \in Partitions, Consumer!FetchMessage(c, l)
      PROVE  Passed'
  <2>1. /\ UNCHANGED <<committed, owner>> /\ owner[l] = c
        /\ position' = [position EXCEPT ![l] = position[l] + 1]
        /\ conPc' = [conPc EXCEPT ![c] = "handling"]
        /\ work' = [work EXCEPT ![c] = [partition |-> l, offset |-> position[l] + 1]]
    BY <1>4 DEF Consumer!FetchMessage, Consumer!Goto
  <2>2. owner[k] # None => i <= position'[k]
    BY <1>1, <1>2, <2>1
  <2>3. ASSUME NEW d \in Consumers, conPc'[d] \in Con!Busy, work'[d].partition = k
        PROVE  i < work'[d].offset
    <3>1. CASE d = c
      <4>1. work'[d] = [partition |-> l, offset |-> position[l] + 1]
        BY <1>2, <2>1, <3>1
      <4>2. l = k /\ work'[d].offset = position[k] + 1
        BY <2>3, <4>1
      <4> QED
        BY <1>1, <1>2, <2>1, <4>2
    <3>2. CASE d # c
      BY <1>1, <1>2, <2>1, <2>3, <3>2
    <3> QED
      BY <3>1, <3>2
  <2> QED
    BY <1>1, <2>1, <2>2, <2>3
<1>5. CASE Consumer!CommitMessages(c)
  <2>1. /\ UNCHANGED <<owner, position>> /\ conPc[c] = "committing"
        /\ committed' = [committed EXCEPT ![work[c].partition] = work[c].offset]
        /\ conPc' = [conPc EXCEPT ![c] = "fetching"]
        /\ work' = [work EXCEPT ![c] = None]
    BY <1>5 DEF Consumer!CommitMessages, Consumer!Goto
  <2>2. work[c].offset \in Nat
    BY <2>1 DEF Con!HandInv, Con!WorkExists, Con!Works, Con!Busy
  <2>3. i <= committed'[k]
    BY <1>1, <1>2, <2>1, <2>2 DEF Con!Busy
  <2>4. ASSUME NEW d \in Consumers, conPc'[d] \in Con!Busy, work'[d].partition = k
        PROVE  i < work'[d].offset
    <3>1. d # c
      BY <1>2, <2>1, <2>4 DEF Con!Busy, Con!Booking
    <3> QED
      BY <1>1, <1>2, <2>1, <2>4, <3>1
  <2> QED
    BY <1>1, <2>1, <2>3, <2>4
<1>6. CASE \/ Consumer!HandleBookable(c) \/ Consumer!EnsureAccount(c, "cash", "cash", "payable")
           \/ Consumer!EnsureAccount(c, "payable", "merchant_payable", "insert")
           \/ Consumer!InsertConsumed(c) \/ Consumer!InsertDuplicate(c) \/ Consumer!TxCommit(c)
           \/ Consumer!TxCommitLost(c) \/ Consumer!DbFails(c) \/ Consumer!PublishDeadLetter(c)
  <2>1. /\ UNCHANGED <<committed, owner, position, work>> /\ conPc[c] \in Con!Busy
        /\ \E place : conPc' = [conPc EXCEPT ![c] = place]
    BY <1>6 DEF Consumer!HandleBookable, Consumer!EnsureAccount, Consumer!InsertConsumed,
                Consumer!InsertDuplicate, Consumer!TxCommit, Consumer!TxCommitLost,
                Consumer!DbFails, Consumer!PublishDeadLetter, Consumer!RetryOrGiveUp,
                Consumer!Goto, Consumer!kafka, Con!Busy, Con!Booking
  <2>2. \A d \in Consumers : conPc'[d] \in Con!Busy => conPc[d] \in Con!Busy
    BY <1>2, <2>1
  <2> QED
    BY <1>1, <2>1, <2>2
<1> QED
  BY <1>3, <1>4, <1>5, <1>6 DEF ConsumerStep

-----------------------------------------------------------------------------
(***************************************************************************)
(* The stamps of a step.                                                   *)
(***************************************************************************)

\* New records get today's date, the others keep theirs.
LEMMA ExtendedFacts ==
    ASSUME clock \in Nat, NEW old \in Seq(Nat), NEW n \in Nat, n >= Len(old)
    PROVE  /\ Extended(old, n) \in Seq(Nat)
           /\ Len(Extended(old, n)) = n
           /\ \A i \in 1..Len(old) : Extended(old, n)[i] = old[i]
           /\ \A i \in 1..n : i > Len(old) => Extended(old, n)[i] = clock
<1> DEFINE more == [i \in 1..(n - Len(old)) |-> clock]
<1>1. Len(old) \in Nat /\ n - Len(old) \in Nat
  OBVIOUS
<1>2. more \in Seq(Nat) /\ Len(more) = n - Len(old)
  BY <1>1
<1>3. \A i \in 1..(n - Len(old)) : more[i] = clock
  OBVIOUS
<1>4. Extended(old, n) = old \o more
  BY DEF Extended
<1> HIDE DEF more
<1> QED
  BY <1>1, <1>2, <1>3, <1>4

\* The stamps after a step that only adds to the topics.
LEMMA StampFacts ==
    ASSUME StampsOK, Stamp, topic \in [Partitions -> Seq(Messages)],
           topic' \in [Partitions -> Seq(Messages)],
           \A k \in Partitions : Len(topic'[k]) >= Len(topic[k]),
           deadLetters \in Seq(Con!DeadLetterRecords), deadLetters' \in Seq(Con!DeadLetterRecords),
           Len(deadLetters') >= Len(deadLetters)
    PROVE  /\ StampsOK' /\ clock' = clock
           /\ \A k \in Partitions : \A i \in DOMAIN topic'[k] :
                writtenAt'[k][i] = IF i \in DOMAIN topic[k] THEN writtenAt[k][i] ELSE clock
           /\ \A j \in DOMAIN deadLetters' :
                deadLetteredAt'[j] = IF j \in DOMAIN deadLetters THEN deadLetteredAt[j] ELSE clock
           /\ \A e \in EventIds : e \in consumed' =>
                consumedAt'[e] = IF e \in consumed THEN consumedAt[e] ELSE clock
           /\ \A e \in EventIds : audit'[e] = "succeeded" =>
                completedAt'[e] = IF audit[e] \in {"succeeded", "failed"} THEN completedAt[e]
                                  ELSE clock
<1>1. clock' = clock /\ clock \in Nat
  BY DEF Stamp, StampsOK
<1>2. ASSUME NEW k \in Partitions
      PROVE  /\ writtenAt'[k] \in Seq(Nat) /\ Len(writtenAt'[k]) = Len(topic'[k])
             /\ \A i \in DOMAIN topic'[k] :
                  writtenAt'[k][i] = IF i \in DOMAIN topic[k] THEN writtenAt[k][i] ELSE clock
  <2>1. writtenAt'[k] = Extended(writtenAt[k], Len(topic'[k]))
    BY DEF Stamp
  <2>2. /\ writtenAt[k] \in Seq(Nat) /\ Len(topic'[k]) \in Nat /\ Len(topic[k]) \in Nat
        /\ Len(writtenAt[k]) = Len(topic[k]) /\ Len(topic'[k]) >= Len(writtenAt[k])
        /\ DOMAIN topic[k] = 1..Len(topic[k]) /\ DOMAIN topic'[k] = 1..Len(topic'[k])
    BY DEF StampsOK
  <2>3. /\ writtenAt'[k] \in Seq(Nat) /\ Len(writtenAt'[k]) = Len(topic'[k])
        /\ \A i \in 1..Len(topic[k]) : writtenAt'[k][i] = writtenAt[k][i]
        /\ \A i \in 1..Len(topic'[k]) : i > Len(topic[k]) => writtenAt'[k][i] = clock
    <3> DEFINE old == writtenAt[k]
               n == Len(topic'[k])
    <3>1. clock \in Nat /\ old \in Seq(Nat) /\ n \in Nat /\ n >= Len(old)
      BY <1>1, <2>2
    <3>2. Len(old) = Len(topic[k]) /\ writtenAt'[k] = Extended(old, n)
      BY <2>1, <2>2
    <3> HIDE DEF old, n
    <3>3. /\ Extended(old, n) \in Seq(Nat) /\ Len(Extended(old, n)) = n
          /\ \A i \in 1..Len(old) : Extended(old, n)[i] = old[i]
          /\ \A i \in 1..n : i > Len(old) => Extended(old, n)[i] = clock
      BY <3>1, ExtendedFacts
    <3> QED
      BY <3>2, <3>3 DEF old, n
  <2>4. \A i \in DOMAIN topic'[k] : i \notin DOMAIN topic[k] => i > Len(topic[k])
    BY <2>2
  <2> QED
    BY <2>2, <2>3, <2>4
<1>3. writtenAt' \in [Partitions -> Seq(Nat)]
  BY <1>2 DEF Stamp
<1>4. /\ deadLetteredAt' \in Seq(Nat) /\ Len(deadLetteredAt') = Len(deadLetters')
      /\ \A j \in DOMAIN deadLetters' :
           deadLetteredAt'[j] = IF j \in DOMAIN deadLetters THEN deadLetteredAt[j] ELSE clock
  <2>1. deadLetteredAt' = Extended(deadLetteredAt, Len(deadLetters'))
    BY DEF Stamp
  <2>2. /\ deadLetteredAt \in Seq(Nat) /\ Len(deadLetteredAt) = Len(deadLetters)
        /\ Len(deadLetters) \in Nat /\ Len(deadLetters') \in Nat
        /\ DOMAIN deadLetters = 1..Len(deadLetters) /\ DOMAIN deadLetters' = 1..Len(deadLetters')
    BY DEF StampsOK
  <2> QED
    BY <1>1, <2>1, <2>2, ExtendedFacts
<1>5. /\ consumedAt' \in [EventIds -> Nat] /\ completedAt' \in [EventIds -> Nat]
      /\ \A e \in EventIds : e \in consumed' =>
           consumedAt'[e] = IF e \in consumed THEN consumedAt[e] ELSE clock
      /\ \A e \in EventIds : audit'[e] = "succeeded" =>
           completedAt'[e] = IF audit[e] \in {"succeeded", "failed"} THEN completedAt[e]
                             ELSE clock
  BY <1>1 DEF Stamp, Restamp, CompletedAudits, StampsOK
<1>6. ASSUME NEW k \in Partitions, NEW i \in DOMAIN topic'[k]
      PROVE  writtenAt'[k][i] <= clock
  <2>1. writtenAt'[k][i] = IF i \in DOMAIN topic[k] THEN writtenAt[k][i] ELSE clock
    BY <1>2
  <2>2. i \in DOMAIN topic[k] => writtenAt[k][i] <= clock
    BY DEF StampsOK
  <2> QED
    BY <1>1, <2>1, <2>2
<1> QED
  BY <1>1, <1>2, <1>3, <1>4, <1>5, <1>6 DEF StampsOK

-----------------------------------------------------------------------------
(***************************************************************************)
(* Steps that add to the topic.                                            *)
(***************************************************************************)

\* The topic has grown by copies, dated today, of the messages of the events of S.
Added(S) ==
    /\ topic' \in [Partitions -> Seq(Messages)]
    /\ clock' = clock /\ StampsOK'
    /\ \A k \in Partitions : \A i \in DOMAIN topic[k] :
         /\ i \in DOMAIN topic'[k] /\ topic'[k][i] = topic[k][i]
         /\ writtenAt'[k][i] = writtenAt[k][i]
    /\ \A k \in Partitions : \A i \in DOMAIN topic'[k] : i \notin DOMAIN topic[k] =>
         \E e \in S : topic'[k][i] = CreatedMessage(e) /\ writtenAt'[k][i] = clock

\* The rest of what a step stamps.
Dated ==
    /\ \A j \in DOMAIN deadLetters :
         j \in DOMAIN deadLetters' /\ deadLetteredAt'[j] = deadLetteredAt[j]
    /\ \A j \in DOMAIN deadLetters' : j \notin DOMAIN deadLetters => deadLetteredAt'[j] = clock
    /\ \A e \in EventIds : e \in consumed' =>
         consumedAt'[e] = IF e \in consumed THEN consumedAt[e] ELSE clock
    /\ \A e \in EventIds : audit'[e] = "succeeded" =>
         completedAt'[e] = IF audit[e] \in {"succeeded", "failed"} THEN completedAt[e] ELSE clock

\* The message of an accepted payment is a payment.created event with its money.
LEMMA CreatedFacts ==
    ASSUME FlowInv, NEW e \in EventIds, payments[e] # None
    PROVE  /\ payments[e].money \in Money
           /\ CreatedMessage(e) \in Messages
           /\ CreatedMessage(e).event = e /\ CreatedMessage(e).payment = e
           /\ CreatedMessage(e).type = PaymentCreatedEvent
           /\ CreatedMessage(e).payload = payments[e].money
<1>1. payments[e].money \in Money
  BY DEF FlowInv, Accepted
<1> QED
  BY <1>1 DEF CreatedMessage, MessageOf, NewPaymentCreated, newPaymentEvent, Messages,
              EventTypes, Payloads

\* A step that leaves the topic alone adds nothing.
LEMMA AddsNothing ==
    ASSUME Pub!IInv, StampsOK, Stamp, topic' = topic,
           deadLetters \in Seq(Con!DeadLetterRecords), deadLetters' \in Seq(Con!DeadLetterRecords),
           Len(deadLetters') >= Len(deadLetters)
    PROVE  Added({}) /\ Dated
<1>1. /\ topic \in [Partitions -> Seq(Messages)]
      /\ \A k \in Partitions : Len(topic'[k]) >= Len(topic[k])
  BY Vocabulary DEF Pub!IInv, Pub!TypeOK
<1>2. /\ StampsOK' /\ clock' = clock
      /\ \A k \in Partitions : \A i \in DOMAIN topic'[k] :
           writtenAt'[k][i] = IF i \in DOMAIN topic[k] THEN writtenAt[k][i] ELSE clock
      /\ \A j \in DOMAIN deadLetters' :
           deadLetteredAt'[j] = IF j \in DOMAIN deadLetters THEN deadLetteredAt[j] ELSE clock
      /\ \A e \in EventIds : e \in consumed' =>
           consumedAt'[e] = IF e \in consumed THEN consumedAt[e] ELSE clock
      /\ \A e \in EventIds : audit'[e] = "succeeded" =>
           completedAt'[e] = IF audit[e] \in {"succeeded", "failed"} THEN completedAt[e] ELSE clock
  BY <1>1, StampFacts
<1>3. DOMAIN deadLetters \subseteq DOMAIN deadLetters'
  <2>1. /\ Len(deadLetters) \in Nat /\ Len(deadLetters') \in Nat
        /\ DOMAIN deadLetters = 1..Len(deadLetters) /\ DOMAIN deadLetters' = 1..Len(deadLetters')
    OBVIOUS
  <2> QED
    BY <2>1
<1>4. Added({})
  BY <1>1, <1>2 DEF Added
<1>5. Dated
  BY <1>2, <1>3 DEF Dated
<1> QED
  BY <1>4, <1>5

\* A step that writes the message of an accepted payment adds a copy of it.
LEMMA AddsOne ==
    ASSUME Pub!IInv, FlowInv, StampsOK, Stamp, NEW e \in EventIds, payments[e] # None, Wrote(e),
           deadLetters \in Seq(Con!DeadLetterRecords), UNCHANGED deadLetters
    PROVE  Added({e}) /\ Dated
<1> DEFINE p == PartitionOf[e]
           m == CreatedMessage(e)
<1>1. topic \in [Partitions -> Seq(Messages)] /\ p \in Partitions /\ m \in Messages
  BY Vocabulary, ComponentsAssumption, CreatedFacts DEF Pub!IInv, Pub!TypeOK
<1>2. topic' = [topic EXCEPT ![p] = Append(topic[p], m)]
  BY DEF Wrote
<1> HIDE DEF p, m
<1>3. ASSUME NEW k \in Partitions
      PROVE  /\ topic'[k] \in Seq(Messages) /\ Len(topic'[k]) >= Len(topic[k])
             /\ \A i \in DOMAIN topic[k] : i \in DOMAIN topic'[k] /\ topic'[k][i] = topic[k][i]
             /\ \A i \in DOMAIN topic'[k] : i \notin DOMAIN topic[k] => topic'[k][i] = m
  <2>1. CASE k = p
    <3>1. topic'[k] = Append(topic[k], m) /\ topic[k] \in Seq(Messages)
      BY <1>1, <1>2, <2>1
    <3> QED
      BY <1>1, <3>1
  <2>2. CASE k # p
    <3>1. topic'[k] = topic[k] /\ topic[k] \in Seq(Messages)
      BY <1>1, <1>2, <2>2
    <3> QED
      BY <3>1
  <2> QED
    BY <2>1, <2>2
<1>4. topic' \in [Partitions -> Seq(Messages)]
  BY <1>1, <1>2
<1>5. /\ StampsOK' /\ clock' = clock
      /\ \A k \in Partitions : \A i \in DOMAIN topic'[k] :
           writtenAt'[k][i] = IF i \in DOMAIN topic[k] THEN writtenAt[k][i] ELSE clock
      /\ \A j \in DOMAIN deadLetters' :
           deadLetteredAt'[j] = IF j \in DOMAIN deadLetters THEN deadLetteredAt[j] ELSE clock
      /\ \A f \in EventIds : f \in consumed' =>
           consumedAt'[f] = IF f \in consumed THEN consumedAt[f] ELSE clock
      /\ \A f \in EventIds : audit'[f] = "succeeded" =>
           completedAt'[f] = IF audit[f] \in {"succeeded", "failed"} THEN completedAt[f] ELSE clock
  <2>1. Len(deadLetters) \in Nat /\ Len(deadLetters') >= Len(deadLetters)
    OBVIOUS
  <2> QED
    BY <1>1, <1>3, <1>4, <2>1, StampFacts
<1>6. Added({e})
  BY <1>3, <1>4, <1>5 DEF Added, m
<1>7. Dated
  BY <1>5 DEF Dated
<1> QED
  BY <1>6, <1>7

\* Copies stay close to one another when the new ones are not too late for the
\* old ones, and the publisher is through with its rows as before.
LEMMA CopiesKept ==
    ASSUME FlowInv, TimeInv, NEW S \in SUBSET EventIds, Added(S),
           \A e \in S : payments[e] # None,
           Cardinality(Spent') \in Nat, Cardinality(Spent) <= Cardinality(Spent'),
           \A e \in S : \A l \in Partitions : \A j \in DOMAIN topic[l] :
               topic[l][j].event = e => clock <= writtenAt[l][j] + Reach(Cardinality(Spent')),
           \A e \in EventIds : outbox'[e] # None =>
               \/ outbox'[e].status = "published"
               \/ outbox[e] # None /\ outbox[e].status # "published"
               \/ ~Pub!Delivered(e)
    PROVE  PublishedInTime' /\ CopiesClose'
<1> DEFINE near == Reach(Cardinality(Spent))
           far == Reach(Cardinality(Spent'))
<1>1. near \in Nat /\ far \in Nat /\ near <= far
  BY ReachFacts, SpentFacts
<1>2. clock \in Nat /\ clock' = clock /\ IncidentWindow \in Nat
  BY WindowsAssumption DEF TimeInv, StampsOK, Added
<1>3. \A k \in Partitions : \A i \in DOMAIN topic[k] :
        writtenAt[k][i] \in Nat /\ writtenAt[k][i] <= clock
  BY DEF TimeInv, StampsOK
<1>4. \A k \in Partitions : \A i \in DOMAIN topic'[k] : i \notin DOMAIN topic[k] =>
        topic'[k][i].event \in S /\ writtenAt'[k][i] = clock
  BY CreatedFacts DEF Added
<1>5. \A k \in Partitions : \A i \in DOMAIN topic[k] :
        topic'[k][i] = topic[k][i] /\ writtenAt'[k][i] = writtenAt[k][i]
  BY DEF Added
<1>6. ASSUME NEW e \in EventIds, NEW k \in Partitions, NEW i \in DOMAIN topic'[k],
             topic'[k][i].event = e, clock' > writtenAt'[k][i] + IncidentWindow,
             outbox'[e] # None
      PROVE  outbox'[e].status = "published"
  <2>1. i \in DOMAIN topic[k]
    BY <1>2, <1>4, <1>6
  <2>2. topic[k][i].event = e /\ clock > writtenAt[k][i] + IncidentWindow
    BY <1>2, <1>5, <1>6, <2>1
  <2>3. outbox[e] # None => outbox[e].status = "published"
    BY <2>1, <2>2 DEF TimeInv, PublishedInTime
  <2>4. Pub!Delivered(e)
    BY <2>1, <2>2 DEF Pub!Delivered
  <2> QED
    BY <1>6, <2>3, <2>4
<1>7. ASSUME NEW k \in Partitions, NEW l \in Partitions,
             NEW i \in DOMAIN topic'[k], NEW j \in DOMAIN topic'[l],
             topic'[k][i].event = topic'[l][j].event
      PROVE  writtenAt'[k][i] <= writtenAt'[l][j] + far
  <2> HIDE DEF near, far
  <2>1. CASE j \notin DOMAIN topic[l]
    BY <1>1, <1>2, <1>3, <1>4, <1>5, <2>1
  <2>2. CASE j \in DOMAIN topic[l] /\ i \notin DOMAIN topic[k]
    BY <1>1, <1>2, <1>3, <1>4, <1>5, <1>7, <2>2 DEF far
  <2>3. CASE j \in DOMAIN topic[l] /\ i \in DOMAIN topic[k]
    <3>1. writtenAt[k][i] <= writtenAt[l][j] + near
      BY <1>5, <1>7, <2>3 DEF TimeInv, CopiesClose, near
    <3> QED
      BY <1>1, <1>3, <1>5, <2>3, <3>1
  <2> QED
    BY <2>1, <2>2, <2>3
<1> QED
  BY <1>6, <1>7 DEF PublishedInTime, CopiesClose

\* A run at work stays close to the copies when it was close to the old ones: the
\* new ones are of today.
LEMMA WritersKept ==
    ASSUME FlowInv, TimeInv, NEW S \in SUBSET EventIds, Added(S),
           \A e \in S : payments[e] # None, Cardinality(Spent') \in Nat,
           \A r \in Replays : repPc'[r] = "write" => Near(repEvent'[r], Cardinality(Spent'))
    PROVE  WritersNear'
<1> DEFINE far == Reach(Cardinality(Spent'))
<1>1. clock \in Nat /\ clock' = clock /\ far \in Nat
  BY ReachFacts DEF TimeInv, StampsOK, Added
<1>2. \A k \in Partitions : \A i \in DOMAIN topic'[k] :
        \/ writtenAt'[k][i] = clock
        \/ /\ i \in DOMAIN topic[k] /\ topic'[k][i] = topic[k][i]
           /\ writtenAt'[k][i] = writtenAt[k][i]
  BY CreatedFacts DEF Added
<1>3. Reach(Cardinality(Spent))' = far
  BY DEF Reach
<1> SUFFICES ASSUME NEW r \in Replays, repPc'[r] = "write",
                    NEW k \in Partitions, NEW i \in DOMAIN topic'[k],
                    topic'[k][i].event = repEvent'[r]
             PROVE  clock' <= writtenAt'[k][i] + far
  BY <1>3 DEF WritersNear, Near
<1>4. CASE writtenAt'[k][i] = clock
  <2> HIDE DEF far
  <2> QED
    BY <1>1, <1>4
<1>5. CASE /\ i \in DOMAIN topic[k] /\ topic'[k][i] = topic[k][i]
           /\ writtenAt'[k][i] = writtenAt[k][i]
  BY <1>1, <1>5 DEF Near
<1> QED
  BY <1>2, <1>4, <1>5

\* The runs at work, while no run does anything.
LEMMA WritersAlone ==
    ASSUME FlowInv, TimeInv, NEW S \in SUBSET EventIds, Added(S),
           \A e \in S : payments[e] # None, UNCHANGED replayVars
    PROVE  WritersNear'
<1>1. UNCHANGED <<repPc, repEvent>> /\ Spent' = Spent
  BY DEF replayVars, Spent
<1>2. \A r \in Replays : repPc'[r] = "write" => Near(repEvent'[r], Cardinality(Spent'))
  BY <1>1 DEF TimeInv, WritersNear
<1> QED
  BY <1>1, <1>2, SpentFacts, WritersKept

\* Time, in a step that leaves the consumers alone.
LEMMA TimeKept ==
    ASSUME TimeInv, NEW S \in SUBSET EventIds, Added(S), Dated,
           PublishedInTime', CopiesClose', WritersNear',
           Con!HandInv, UNCHANGED <<consumed, consumerVars>>
    PROVE  TimeInv'
<1> USE DEF consumerVars
<1>1. clock' = clock /\ clock \in Nat /\ TopicRetention \in Nat /\ StampsOK'
  BY WindowsAssumption DEF TimeInv, StampsOK, Added
<1>2. \A k \in Partitions : \A i \in DOMAIN topic[k] :
        /\ i \in DOMAIN topic'[k] /\ topic'[k][i] = topic[k][i]
        /\ writtenAt'[k][i] = writtenAt[k][i]
  BY DEF Added
<1>3. ExpiredPassed'
  <2>1. \A k \in Partitions : \A i \in DOMAIN topic'[k] :
          clock > writtenAt'[k][i] + TopicRetention =>
              i \in DOMAIN topic[k] /\ clock > writtenAt[k][i] + TopicRetention
    BY <1>1, <1>2 DEF Added
  <2> QED
    BY <1>1, <2>1 DEF TimeInv, ExpiredPassed
<1>4. LettersFresh'
  <2> SUFFICES ASSUME NEW j \in DOMAIN deadLetters,
                      NEW k, k = deadLetters[j].partition, NEW i, i = deadLetters[j].offset
               PROVE  /\ k \in Partitions /\ i \in DOMAIN topic'[k]
                      /\ topic'[k][i] = deadLetters[j].message
                      /\ deadLetteredAt'[j] <= writtenAt'[k][i] + TopicRetention
    BY DEF LettersFresh
  <2>1. /\ k \in Partitions /\ i \in DOMAIN topic[k] /\ topic[k][i] = deadLetters[j].message
        /\ deadLetteredAt[j] <= writtenAt[k][i] + TopicRetention
    BY DEF TimeInv, LettersFresh
  <2> QED
    BY <1>2, <2>1 DEF Dated
<1>5. Ever' = Ever /\ Ever \subseteq EventIds
  BY DEF Ever, Con!HandInv, Con!TypeOK
<1>6. ConsumedLater'
  <2> SUFFICES ASSUME NEW e \in consumed
               PROVE  \E k \in Partitions : \E i \in DOMAIN topic'[k] :
                        topic'[k][i].event = e /\ writtenAt'[k][i] <= consumedAt'[e]
    BY DEF ConsumedLater
  <2>1. consumedAt'[e] = consumedAt[e]
    BY <1>5 DEF TimeInv, Dated
  <2> QED
    BY <1>2, <2>1 DEF TimeInv, ConsumedLater
<1>7. BookedKnown'
  <2>1. \A e : Forgettable(e) => Forgettable(e)'
    BY <1>1, <1>2 DEF Forgettable, Reach
  <2> QED
    BY <1>5, <2>1 DEF TimeInv, BookedKnown
<1>8. (consumed \subseteq Ever)'
  BY <1>5 DEF TimeInv
<1> QED
  BY <1>1, <1>3, <1>4, <1>6, <1>7, <1>8 DEF TimeInv

\* The copies stay around the day of a replay when the new ones are in time.
LEMMA AroundKept ==
    ASSUME FlowInv, StampsOK, NEW S \in SUBSET EventIds, Added(S),
           \A e \in S : payments[e] # None,
           NEW e \in EventIds, NEW day \in Nat, Around(e, day),
           e \in S => clock <= day + IncidentWindow
    PROVE  Around(e, day)'
<1>1. \A k \in Partitions : \A i \in DOMAIN topic'[k] : i \notin DOMAIN topic[k] =>
        topic'[k][i].event \in S /\ writtenAt'[k][i] = clock
  BY CreatedFacts DEF Added
<1>2. \A k \in Partitions : \A i \in DOMAIN topic[k] :
        /\ i \in DOMAIN topic'[k] /\ topic'[k][i] = topic[k][i]
        /\ writtenAt'[k][i] = writtenAt[k][i]
  BY DEF Added
<1> QED
  BY <1>1, <1>2 DEF Around

-----------------------------------------------------------------------------
(***************************************************************************)
(* What a component keeps while another one adds to the topic.             *)
(***************************************************************************)

\* The consumers.
LEMMA ConsumersAlone ==
    ASSUME Con!HandInv, Con!BookInv, Con!LossInv, NEW S, Added(S), UNCHANGED consumerVars
    PROVE  Con!HandInv' /\ Con!BookInv' /\ Con!LossInv'
<1>1. topic' \in [Partitions -> Seq(Con!ConsumerMessages)]
  <2>1. topic' \in [Partitions -> Seq(Messages)] /\ Messages \subseteq Con!ConsumerMessages
    BY Vocabulary DEF Added
  <2>2. Seq(Messages) \subseteq Seq(Con!ConsumerMessages)
    BY <2>1
  <2> QED
    BY <2>1, <2>2
<1>2. \A k \in Partitions : \A i \in DOMAIN topic[k] :
        i \in DOMAIN topic'[k] /\ topic'[k][i] = topic[k][i]
  BY DEF Added
<1>3. UNCHANGED <<committed, owner, position, conPc, work, attempt, accounts, Ever, journal,
                  deadLetters, conFaults>>
  BY DEF consumerVars, Ever
<1> QED
  BY <1>1, <1>2, <1>3, ConAssumptions, Con!TopicGrows

\* The publishers.
LEMMA PublishersAlone ==
    ASSUME Pub!IInv, NEW S, Added(S), UNCHANGED <<outbox, publisherVars>>
    PROVE  Pub!IInv'
<1> USE DEF publisherVars
<1>1. \A e : Pub!Delivered(e) => Pub!Delivered(e)'
  BY DEF Added, Pub!Delivered
<1>2. Pub!TypeOK'
  BY Vocabulary DEF Added, Pub!IInv, Pub!TypeOK
<1>3. Pub!ClaimInv'
  BY DEF Pub!IInv, Pub!ClaimInv, Pub!DisjointBatches, Pub!LockedClaimable, Pub!HeldPublishing,
         Pub!OthersEmpty, Pub!CurrentHeld, Pub!HasStatus
<1>4. Pub!WrittenDelivered' /\ Pub!PublishedWasDelivered'
  BY <1>1 DEF Pub!IInv, Pub!WrittenDelivered, Pub!PublishedWasDelivered
<1> QED
  BY <1>2, <1>3, <1>4 DEF Pub!IInv

\* What was delivered stays so, and a row becomes published when it is delivered.
LEMMA HandedOnKept ==
    ASSUME HandedOn, NEW S, Added(S), Pub!IInv',
           \A e \in EventIds : payments'[e] # None =>
               \/ outbox'[e] # None /\ outbox'[e].status # "published"
               \/ payments[e] # None /\ (outbox[e] # None => outbox'[e] # None)
    PROVE  HandedOn'
<1>1. \A e : Pub!Delivered(e) => Pub!Delivered(e)'
  BY DEF Added, Pub!Delivered
<1> QED
  BY <1>1 DEF HandedOn, Pub!IInv, Pub!PublishedWasDelivered

\* The flow, while no payment is accepted, booked or dead-lettered.
LEMMA FlowKept ==
    ASSUME FlowInv, NEW S \in SUBSET EventIds, Added(S), \A e \in S : payments[e] # None,
           UNCHANGED <<payments, journal, deadLetters>>,
           \A e \in EventIds : outbox'[e] # None =>
               outbox[e] # None /\ MessageOf(e, outbox'[e]) = MessageOf(e, outbox[e])
    PROVE  FlowInv'
<1>1. \A e : CreatedMessage(e)' = CreatedMessage(e)
  BY DEF CreatedMessage
<1>3. \A k \in Partitions : \A i \in DOMAIN topic'[k] : IsCreated(topic'[k][i])
  BY DEF FlowInv, Added, IsCreated
<1>4. \A i \in DOMAIN journal : \E e \in EventIds :
        payments[e] # None /\ journal[i] = Con!Booked(CreatedMessage(e))
  BY DEF FlowInv
<1>5. \A m : Con!Booked(m)' = Con!Booked(m)
  BY DEF Con!Booked, Con!buildPaymentMovement
<1>6. \A e \in EventIds : outbox'[e] # None =>
         payments'[e] # None /\ MessageOf(e, outbox'[e]) = CreatedMessage(e)'
  BY <1>1 DEF FlowInv
<1>7. /\ payments' \in [EventIds -> Accepted \cup {None}]
      /\ (\A k \in Partitions : \A i \in DOMAIN topic[k] : IsCreated(topic[k][i]))'
      /\ (\A i \in DOMAIN deadLetters : IsCreated(deadLetters[i].message))'
  BY <1>1, <1>3 DEF FlowInv, IsCreated
<1>8. \A i \in DOMAIN journal' : \E e \in EventIds :
        payments'[e] # None /\ journal'[i] = Con!Booked(CreatedMessage(e))'
  BY <1>1, <1>4, <1>5
<1> QED
  BY <1>6, <1>7, <1>8 DEF FlowInv

\* The replays, while dead letters are only added.
LEMMA ReplaysAlone ==
    ASSUME ReplayInv, Dated, clock' = clock, UNCHANGED <<audit, replayVars>>,
           \A j \in DOMAIN deadLetters : deadLetters'[j] = deadLetters[j]
    PROVE  ReplayInv' /\ Spent' = Spent
<1> USE DEF replayVars
<1>1. \A e : WithinReplayWindow(e) => WithinReplayWindow(e)'
  BY DEF WithinReplayWindow, Dated
<1>2. Spent' = Spent
  BY DEF Spent
<1>3. UNCHANGED <<audit, republished, repPc, repEvent>>
  OBVIOUS
<1> QED
  BY <1>1, <1>2, <1>3 DEF ReplayInv

\* A successful run, while nobody touches the audit of its event.
LEMMA RunKept ==
    ASSUME FlowInv, ReplayInv, TimeInv, SuccessKept,
           NEW S \in SUBSET EventIds, Added(S), Dated, \A e \in S : payments[e] # None,
           NEW r \in Replays, repPc[r] = "ok", repEvent'[r] = repEvent[r],
           audit'[repEvent[r]] = audit[repEvent[r]],
           repEvent[r] \in S /\ (audit[repEvent[r]] = "succeeded" \/ ReplayOver(repEvent[r])) =>
               \A day \in Nat : Around(repEvent[r], day) => clock <= day + IncidentWindow
    PROVE  \/ /\ audit'[repEvent'[r]] = "succeeded"
              /\ Around(repEvent[r], completedAt[repEvent[r]])'
           \/ ReplayOver(repEvent[r])'
<1> DEFINE e == repEvent[r]
<1>1. e \in EventIds /\ e' = e
  BY DEF ReplayInv, Working
<1>2. StampsOK /\ clock' = clock /\ clock \in Nat
  BY DEF TimeInv, StampsOK, Added
<1>3. CASE audit[e] = "succeeded" /\ Around(e, completedAt[e])
  <2>1. completedAt[e] \in Nat /\ completedAt'[e] = completedAt[e]
    BY <1>1, <1>2, <1>3 DEF StampsOK, Dated
  <2>2. e \in S => clock <= completedAt[e] + IncidentWindow
    BY <1>3, <2>1
  <2>3. \A day \in Nat : day = completedAt[e] => Around(e, day)'
    BY <1>1, <1>2, <1>3, <2>2, AroundKept
  <2>4. Around(e, completedAt[e])'
    BY <2>1, <2>3 DEF Around
  <2> QED
    BY <1>1, <1>3, <2>4
<1>4. CASE ReplayOver(e)
  <2>1. PICK day \in 0..clock :
          Around(e, day) /\ clock > day + IncidentWindow + TopicRetention + ReplayWindow
    BY <1>4 DEF ReplayOver
  <2>2. day \in Nat /\ (e \in S => clock <= day + IncidentWindow)
    BY <1>2, <1>4, <2>1
  <2>3. Around(e, day)'
    BY <1>1, <1>2, <2>1, <2>2, AroundKept
  <2>4. ReplayOver(e)'
    BY <1>1, <1>2, <2>1, <2>3 DEF ReplayOver, Around
  <2> QED
    BY <1>1, <2>4
<1> QED
  BY <1>3, <1>4 DEF SuccessKept

\* The successful replays, while no run does anything.
LEMMA SuccessAlone ==
    ASSUME FlowInv, ReplayInv, TimeInv, SuccessKept,
           NEW S \in SUBSET EventIds, Added(S), Dated, \A e \in S : payments[e] # None,
           UNCHANGED <<audit, repEvent, repPc>>,
           \A e \in S : \A day \in Nat : Around(e, day) => clock <= day + IncidentWindow
    PROVE  SuccessKept'
BY RunKept DEF SuccessKept

-----------------------------------------------------------------------------
(***************************************************************************)
(* The steps keep PipeInv.                                                 *)
(***************************************************************************)

\* Initially nothing has been accepted.
LEMMA InitPipe == Init => PipeInv
<1> SUFFICES ASSUME Init PROVE PipeInv
  OBVIOUS
<1> USE DEF Init, Publisher!Init, Consumer!Init
<1>1. Pub!IInv
  BY PubKept DEF Pub!Init
<1>2. Ever = {}
  BY DEF Ever
<1>3. Con!HandInv /\ Con!BookInv /\ Con!LossInv
  BY <1>2, ConKept DEF Con!Init
<1>4. FlowInv /\ HandedOn
  BY DEF FlowInv, HandedOn
<1>5. ReplayInv
  BY DEF ReplayInv, Replay!AuditStatuses, Replay!Places, Replay!Active, Working
<1>6. StampsOK
  BY DEF StampsOK
<1>7. TimeInv
  BY <1>2, <1>6 DEF TimeInv, ExpiredPassed, PublishedInTime, CopiesClose, WritersNear,
                    LettersFresh, ConsumedLater, BookedKnown
<1>8. SuccessKept /\ ReplayedOnce
  BY DEF SuccessKept, ReplayedOnce
<1> QED
  BY <1>1, <1>3, <1>4, <1>5, <1>7, <1>8 DEF PipeInv

\* The dead letters are records.
LEMMA DeadLettersType ==
    ASSUME PipeInv
    PROVE  deadLetters \in Seq(Con!DeadLetterRecords) /\ StampsOK
BY DEF PipeInv, Con!HandInv, Con!TypeOK, TimeInv

\* No message of a payment that has not been accepted is on the topic.
LEMMA UnacceptedUndelivered ==
    ASSUME FlowInv, NEW e \in EventIds, payments[e] = None
    PROVE  ~Pub!Delivered(e) /\ outbox[e] = None
BY CreatedFacts DEF FlowInv, IsCreated, Pub!Delivered

\* Accepting a payment creates its row and nothing else.
LEMMA CreateStep ==
    ASSUME PipeInv, NEW p \in EventIds, NEW money \in Money, CreatePayment(p, money)
    PROVE  PipeInv'
<1>1. /\ payments[p] = None
      /\ payments' = [payments EXCEPT ![p] = [money |-> money, status |-> "pending"]]
      /\ outbox' = [outbox EXCEPT ![p] = NewPaymentCreated(p, money)]
      /\ UNCHANGED <<topic, consumed, audit, publisherVars, consumerVars, replayVars>>
      /\ Stamp
  BY DEF CreatePayment
<1>2. outbox[p] = None /\ ~Pub!Delivered(p)
  BY <1>1, UnacceptedUndelivered DEF PipeInv
<1>3. UNCHANGED <<deadLetters, journal>>
  BY <1>1 DEF consumerVars
<1>4. Added({}) /\ Dated
  <2>1. Len(deadLetters') >= Len(deadLetters)
    BY <1>3, DeadLettersType
  <2> QED
    BY <1>1, <1>3, <2>1, DeadLettersType, AddsNothing DEF PipeInv
<1>5. Pub!IInv'
  <2>1. NewPaymentCreated(p, money) \in Pub!EnqueuedRows(p)
    BY DEF Pub!EnqueuedRows, NewPaymentCreated, Pub!NewPaymentCreated, newPaymentEvent,
           Pub!newPaymentEvent, PaymentCreatedEvent, Pub!PaymentCreatedEvent, Money, Pub!Money
  <2>2. Pub!Enqueue(p)
    BY <1>1, <1>2, <2>1 DEF Pub!Enqueue, publisherVars
  <2> QED
    BY <2>2, PubAssumptions, Pub!EnqueueStep DEF PipeInv
<1>6. Con!HandInv' /\ Con!BookInv' /\ Con!LossInv'
  BY <1>1, <1>4, ConsumersAlone DEF PipeInv
<1>7. /\ outbox \in [EventIds -> OutboxRows \cup {None}]
      /\ payments \in [EventIds -> Accepted \cup {None}]
  BY Vocabulary DEF PipeInv, Pub!IInv, Pub!TypeOK, FlowInv
<1>8. \A e \in EventIds : e # p => outbox'[e] = outbox[e] /\ payments'[e] = payments[e]
  BY <1>1, <1>7
<1>9. outbox'[p] = NewPaymentCreated(p, money) /\ outbox'[p].status = "pending"
  BY <1>1, <1>7 DEF NewPaymentCreated, newPaymentEvent
<1>10. /\ payments'[p] = [money |-> money, status |-> "pending"]
       /\ [money |-> money, status |-> "pending"] \in Accepted
  BY <1>1, <1>7 DEF Accepted, PaymentStatuses
<1>11. FlowInv'
  <2>1. payments' \in [EventIds -> Accepted \cup {None}]
    BY <1>1, <1>7, <1>10
  <2>2. \A e \in EventIds : payments[e] # None =>
          payments'[e] # None /\ CreatedMessage(e)' = CreatedMessage(e)
    BY <1>1, <1>8 DEF CreatedMessage
  <2>3. payments'[p] # None /\ MessageOf(p, outbox'[p]) = CreatedMessage(p)'
    BY <1>9, <1>10, ComponentsAssumption DEF CreatedMessage, Accepted
  <2>4. \A e \in EventIds : outbox'[e] # None =>
          payments'[e] # None /\ MessageOf(e, outbox'[e]) = CreatedMessage(e)'
    BY <1>8, <2>2, <2>3 DEF PipeInv, FlowInv
  <2>5. /\ (\A k \in Partitions : \A i \in DOMAIN topic[k] : IsCreated(topic[k][i]))'
        /\ (\A i \in DOMAIN deadLetters : IsCreated(deadLetters[i].message))'
    BY <1>1, <1>3, <2>2 DEF PipeInv, FlowInv, IsCreated
  <2>6. \A i \in DOMAIN journal : \E e \in EventIds :
          payments[e] # None /\ journal[i] = Con!Booked(CreatedMessage(e))
    BY DEF PipeInv, FlowInv
  <2>7. \A i \in DOMAIN journal' : \E e \in EventIds :
          payments'[e] # None /\ journal'[i] = Con!Booked(CreatedMessage(e))'
    BY <1>3, <2>2, <2>6 DEF Con!Booked, Con!buildPaymentMovement
  <2> QED
    BY <2>1, <2>4, <2>5, <2>7 DEF FlowInv
<1>12. HandedOn'
  <2>1. NewPaymentCreated(p, money) \in OutboxRows
    BY DEF NewPaymentCreated, newPaymentEvent, OutboxRows, EventTypes, Payloads, OutboxStatuses
  <2>2. outbox'[p] # None /\ outbox'[p].status # "published"
    BY <1>9, <2>1, NoneAssumption
  <2>3. \A e \in EventIds : payments'[e] # None =>
               \/ outbox'[e] # None /\ outbox'[e].status # "published"
               \/ payments[e] # None /\ (outbox[e] # None => outbox'[e] # None)
    BY <1>8, <2>2
  <2> QED
    BY <1>4, <1>5, <2>3, HandedOnKept DEF PipeInv
<1>13. ReplayInv' /\ Spent' = Spent
  BY <1>1, <1>3, <1>4, ReplaysAlone DEF PipeInv, Added
<1>14. PublishedInTime' /\ CopiesClose'
  BY <1>2, <1>4, <1>8, <1>13, SpentFacts, CopiesKept DEF PipeInv
<1>15. TimeInv'
  <2>1. WritersNear'
    BY <1>1, <1>4, WritersAlone DEF PipeInv
  <2> QED
    BY <1>1, <1>4, <1>14, <2>1, TimeKept DEF PipeInv
<1>16. SuccessKept' /\ ReplayedOnce'
  BY <1>1, <1>4, SuccessAlone DEF PipeInv, replayVars, ReplayedOnce
<1> QED
  BY <1>5, <1>6, <1>11, <1>12, <1>13, <1>15, <1>16 DEF PipeInv

\* A publisher's new copy follows the first one within the incident window.
LEMMA PublisherPipe ==
    ASSUME PipeInv, NEW p \in Publishers, PublisherStep(p)
    PROVE  PipeInv'
<1>1. /\ UNCHANGED <<payments, consumed, audit, consumerVars, replayVars>>
      /\ UNCHANGED <<deadLetters, journal>> /\ Stamp
  BY DEF PublisherStep, consumerVars
<1>2. /\ Pub!IInv'
      /\ \A e \in EventIds : outbox'[e] # None <=> outbox[e] # None
      /\ \A e \in EventIds : outbox[e] # None =>
           /\ MessageOf(e, outbox'[e]) = MessageOf(e, outbox[e])
           /\ outbox[e].status = "published" => outbox'[e] = outbox[e]
      /\ \/ topic' = topic
         \/ \E e \in EventIds : outbox[e] # None /\ outbox[e].status # "published" /\ Wrote(e)
  BY PublisherFacts DEF PipeInv
<1>3. PICK S \in SUBSET EventIds :
        /\ Added(S) /\ Dated
        /\ \A e \in S : outbox[e] # None /\ outbox[e].status # "published"
  <2>1. CASE topic' = topic
    <3>1. Len(deadLetters') >= Len(deadLetters)
      BY <1>1, DeadLettersType
    <3>2. Added({}) /\ Dated
      BY <1>1, <2>1, <3>1, DeadLettersType, AddsNothing DEF PipeInv
    <3> QED
      BY <3>2
  <2>2. CASE \E e \in EventIds :
               outbox[e] # None /\ outbox[e].status # "published" /\ Wrote(e)
    <3>1. PICK e \in EventIds : outbox[e] # None /\ outbox[e].status # "published" /\ Wrote(e)
      BY <2>2
    <3>2. payments[e] # None
      BY <3>1 DEF PipeInv, FlowInv
    <3>3. Added({e}) /\ Dated
      BY <1>1, <3>1, <3>2, DeadLettersType, AddsOne DEF PipeInv
    <3> QED
      BY <3>1, <3>3
  <2> QED
    BY <1>2, <2>1, <2>2
<1>4. \A e \in S : payments[e] # None
  BY <1>3 DEF PipeInv, FlowInv
<1>5. ASSUME NEW e \in S, NEW l \in Partitions, NEW j \in DOMAIN topic[l], topic[l][j].event = e
      PROVE  clock <= writtenAt[l][j] + IncidentWindow
  <2>1. clock \in Nat /\ writtenAt[l][j] \in Nat /\ IncidentWindow \in Nat
    BY WindowsAssumption DEF PipeInv, TimeInv, StampsOK
  <2>2. ~(clock > writtenAt[l][j] + IncidentWindow)
    BY <1>3, <1>5 DEF PipeInv, TimeInv, PublishedInTime
  <2> QED
    BY <2>1, <2>2
<1>6. Con!HandInv' /\ Con!BookInv' /\ Con!LossInv'
  BY <1>1, <1>3, ConsumersAlone DEF PipeInv
<1>7. FlowInv'
  BY <1>1, <1>2, <1>3, <1>4, FlowKept DEF PipeInv
<1>8. HandedOn'
  BY <1>1, <1>2, <1>3, HandedOnKept DEF PipeInv
<1>9. ReplayInv' /\ Spent' = Spent
  BY <1>1, <1>3, ReplaysAlone DEF PipeInv, Added
<1>10. PublishedInTime' /\ CopiesClose'
  <2> DEFINE far == Reach(Cardinality(Spent'))
  <2>1. far \in Nat /\ IncidentWindow \in Nat /\ IncidentWindow <= far
    BY <1>9, SpentFacts, ReachFacts, WindowsAssumption
  <2>2. \A l \in Partitions : \A j \in DOMAIN topic[l] : writtenAt[l][j] \in Nat
    BY DEF PipeInv, TimeInv, StampsOK
  <2>3. clock \in Nat
    BY DEF PipeInv, TimeInv, StampsOK
  <2>4. \A e \in S : \A l \in Partitions : \A j \in DOMAIN topic[l] :
          topic[l][j].event = e => clock <= writtenAt[l][j] + far
    <3> HIDE DEF far
    <3> QED
      BY <1>5, <2>1, <2>2, <2>3
  <2>5. \A e \in EventIds : outbox'[e] # None =>
          \/ outbox'[e].status = "published"
          \/ outbox[e] # None /\ outbox[e].status # "published"
    BY <1>2
  <2>6. Cardinality(Spent') \in Nat /\ Cardinality(Spent) <= Cardinality(Spent')
    BY <1>9, SpentFacts
  <2> QED
    BY <1>3, <1>4, <2>4, <2>5, <2>6, CopiesKept DEF PipeInv
<1>11. TimeInv'
  <2>1. WritersNear'
    BY <1>1, <1>3, <1>4, WritersAlone DEF PipeInv
  <2> QED
    BY <1>1, <1>3, <1>10, <2>1, TimeKept DEF PipeInv
<1>12. SuccessKept' /\ ReplayedOnce'
  <2>1. \A e \in S : \A day \in Nat : Around(e, day) => clock <= day + IncidentWindow
    <3> SUFFICES ASSUME NEW e \in S, NEW day \in Nat, Around(e, day)
                 PROVE  clock <= day + IncidentWindow
      OBVIOUS
    <3>1. PICK l \in Partitions : \E j \in DOMAIN topic[l] :
            topic[l][j].event = e /\ writtenAt[l][j] <= day
      BY DEF Around
    <3>2. PICK j \in DOMAIN topic[l] : topic[l][j].event = e /\ writtenAt[l][j] <= day
      BY <3>1
    <3>3. clock <= writtenAt[l][j] + IncidentWindow
      BY <1>5, <3>2
    <3>4. clock \in Nat /\ writtenAt[l][j] \in Nat /\ IncidentWindow \in Nat
      BY WindowsAssumption DEF PipeInv, TimeInv, StampsOK
    <3> QED
      BY <3>2, <3>3, <3>4
  <2> QED
    BY <1>1, <1>3, <1>4, <2>1, SuccessAlone DEF PipeInv, replayVars, ReplayedOnce
<1> QED
  BY <1>2, <1>6, <1>7, <1>8, <1>9, <1>11, <1>12 DEF PipeInv

\* A consumer books, and dead-letters, messages that are not older than the
\* topic's retention.
LEMMA ConsumerPipe ==
    ASSUME PipeInv, NEW c \in Consumers, ConsumerStep(c)
    PROVE  PipeInv'
<1>1. UNCHANGED <<payments, outbox, audit, publisherVars, replayVars>> /\ Stamp
  BY DEF ConsumerStep
<1>2. /\ Con!HandInv' /\ Con!BookInv' /\ Con!LossInv'
      /\ topic' = topic
      /\ \/ UNCHANGED <<consumed, journal>>
         \/ /\ conPc[c] \in Con!Booking
            /\ consumed' = consumed \cup {Con!InHand(c).event}
            /\ journal' = Append(journal, Con!Booked(Con!InHand(c)))
      /\ \/ UNCHANGED deadLetters
         \/ /\ conPc[c] \in Con!Busy
            /\ deadLetters' = Append(deadLetters, Con!DeadLetter(c))
  BY ConsumerFacts DEF PipeInv
<1>3. deadLetters \in Seq(Con!DeadLetterRecords) /\ deadLetters' \in Seq(Con!DeadLetterRecords)
  BY <1>2 DEF PipeInv, Con!HandInv, Con!TypeOK
<1>4. /\ Len(deadLetters') >= Len(deadLetters)
      /\ \A j \in DOMAIN deadLetters : deadLetters'[j] = deadLetters[j]
      /\ \A j \in DOMAIN deadLetters' : j \notin DOMAIN deadLetters =>
           conPc[c] \in Con!Busy /\ deadLetters'[j] = Con!DeadLetter(c)
  <2>1. CASE UNCHANGED deadLetters
    BY <1>3, <2>1
  <2>2. CASE conPc[c] \in Con!Busy /\ deadLetters' = Append(deadLetters, Con!DeadLetter(c))
    <3>1. Len(deadLetters) \in Nat /\ DOMAIN deadLetters = 1..Len(deadLetters)
      BY <1>3
    <3>2. /\ Len(deadLetters') = Len(deadLetters) + 1
          /\ DOMAIN deadLetters' = 1..(Len(deadLetters) + 1)
          /\ deadLetters'[Len(deadLetters) + 1] = Con!DeadLetter(c)
          /\ \A j \in 1..Len(deadLetters) : deadLetters'[j] = deadLetters[j]
      BY <1>3, <2>2
    <3>3. \A j \in DOMAIN deadLetters' : j \notin DOMAIN deadLetters => j = Len(deadLetters) + 1
      BY <3>1, <3>2
    <3> QED
      BY <2>2, <3>1, <3>2, <3>3
  <2> QED
    BY <1>2, <2>1, <2>2
<1>5. Added({}) /\ Dated
  BY <1>1, <1>2, <1>3, <1>4, DeadLettersType, AddsNothing DEF PipeInv
<1>6. conPc[c] \in Con!Busy =>
        /\ work[c].partition \in Partitions
        /\ work[c].offset \in DOMAIN topic[work[c].partition]
        /\ Con!InHand(c) = topic[work[c].partition][work[c].offset]
        /\ clock <= writtenAt[work[c].partition][work[c].offset] + TopicRetention
        /\ IsCreated(Con!InHand(c))
  BY InHandFresh DEF PipeInv, FlowInv
<1>7. clock' = clock /\ clock \in Nat /\ StampsOK'
  BY <1>5 DEF Added, PipeInv, TimeInv, StampsOK
<1>8. \A k \in Partitions : \A i \in DOMAIN topic[k] :
        /\ writtenAt'[k][i] = writtenAt[k][i]
        /\ writtenAt[k][i] \in Nat /\ writtenAt[k][i] <= clock
  BY <1>5 DEF Added, PipeInv, TimeInv, StampsOK
<1>9. Pub!IInv'
  BY <1>1, <1>5, PublishersAlone DEF PipeInv
<1>10. HandedOn'
  BY <1>1, <1>5, <1>9, HandedOnKept DEF PipeInv
<1>11. ReplayInv' /\ Spent' = Spent
  BY <1>1, <1>4, <1>5, <1>7, ReplaysAlone DEF PipeInv
<1>12. SuccessKept' /\ ReplayedOnce'
  BY <1>1, <1>5, SuccessAlone DEF PipeInv, replayVars, ReplayedOnce
<1>13. FlowInv'
  <2>1. \A e : CreatedMessage(e)' = CreatedMessage(e)
    BY <1>1 DEF CreatedMessage
  <2>2. \A j \in DOMAIN deadLetters' : IsCreated(deadLetters'[j].message)
    BY <1>4, <1>6 DEF PipeInv, FlowInv, Con!DeadLetter
  <2>3. /\ payments' \in [EventIds -> Accepted \cup {None}]
        /\ \A e \in EventIds : outbox'[e] # None =>
             payments'[e] # None /\ MessageOf(e, outbox'[e]) = CreatedMessage(e)'
        /\ (\A k \in Partitions : \A i \in DOMAIN topic[k] : IsCreated(topic[k][i]))'
        /\ (\A i \in DOMAIN deadLetters : IsCreated(deadLetters[i].message))'
    BY <1>1, <1>2, <2>1, <2>2 DEF PipeInv, FlowInv, IsCreated
  <2>4. \A i \in DOMAIN journal' : \E e \in EventIds :
          payments[e] # None /\ journal'[i] = Con!Booked(CreatedMessage(e))
    <3>1. \A i \in DOMAIN journal : \E e \in EventIds :
            payments[e] # None /\ journal[i] = Con!Booked(CreatedMessage(e))
      BY DEF PipeInv, FlowInv
    <3>2. CASE UNCHANGED journal
      BY <3>1, <3>2
    <3>3. CASE /\ conPc[c] \in Con!Booking
               /\ journal' = Append(journal, Con!Booked(Con!InHand(c)))
      <4>1. journal \in Seq(Con!Transactions)
        BY DEF PipeInv, Con!HandInv, Con!TypeOK
      <4>2. PICK e \in EventIds : payments[e] # None /\ Con!InHand(c) = CreatedMessage(e)
        BY <1>6, <3>3 DEF IsCreated, Con!Busy
      <4>3. journal' = Append(journal, Con!Booked(CreatedMessage(e)))
        BY <3>3, <4>2
      <4>4. \A i \in DOMAIN journal' :
              \/ i \in DOMAIN journal /\ journal'[i] = journal[i]
              \/ journal'[i] = Con!Booked(CreatedMessage(e))
        BY <4>1, <4>3
      <4> QED
        BY <3>1, <4>2, <4>4
    <3> QED
      BY <1>2, <3>2, <3>3
  <2>5. \A m : Con!Booked(m)' = Con!Booked(m)
    BY DEF Con!Booked, Con!buildPaymentMovement
  <2>6. \A i \in DOMAIN journal' : \E e \in EventIds :
          payments'[e] # None /\ journal'[i] = Con!Booked(CreatedMessage(e))'
    BY <1>1, <2>1, <2>4, <2>5
  <2> QED
    BY <2>3, <2>6 DEF FlowInv
<1>14. PublishedInTime' /\ CopiesClose'
  BY <1>1, <1>5, <1>11, SpentFacts, CopiesKept DEF PipeInv
<1>15. ExpiredPassed'
  <2>1. \A k \in Partitions : \A i \in DOMAIN topic[k] :
          clock > writtenAt[k][i] + TopicRetention =>
            /\ i <= committed'[k]
            /\ owner'[k] # None => i <= position'[k]
            /\ \A d \in Consumers :
                 (conPc'[d] \in Con!Busy /\ work'[d].partition = k) => i < work'[d].offset
    BY <1>2, ConsumerExpired DEF PipeInv
  <2> QED
    BY <1>2, <1>7, <1>8, <2>1 DEF ExpiredPassed
<1>16. LettersFresh'
  <2> SUFFICES ASSUME NEW j \in DOMAIN deadLetters',
                      NEW k, k = deadLetters'[j].partition, NEW i, i = deadLetters'[j].offset
               PROVE  /\ k \in Partitions /\ i \in DOMAIN topic'[k]
                      /\ topic'[k][i] = deadLetters'[j].message
                      /\ deadLetteredAt'[j] <= writtenAt'[k][i] + TopicRetention
    BY DEF LettersFresh
  <2>1. CASE j \in DOMAIN deadLetters
    <3>1. /\ k \in Partitions /\ i \in DOMAIN topic[k] /\ topic[k][i] = deadLetters[j].message
          /\ deadLetteredAt[j] <= writtenAt[k][i] + TopicRetention
      BY <1>4, <2>1 DEF PipeInv, TimeInv, LettersFresh
    <3>2. deadLetteredAt'[j] = deadLetteredAt[j]
      BY <1>5, <2>1 DEF Dated
    <3> QED
      BY <1>2, <1>4, <1>8, <2>1, <3>1, <3>2
  <2>2. CASE j \notin DOMAIN deadLetters
    <3>1. conPc[c] \in Con!Busy /\ deadLetters'[j] = Con!DeadLetter(c)
      BY <1>4, <2>2
    <3>2. /\ k = work[c].partition /\ i = work[c].offset
          /\ deadLetters'[j].message = Con!InHand(c)
      BY <3>1 DEF Con!DeadLetter
    <3>3. deadLetteredAt'[j] = clock
      BY <1>5, <2>2 DEF Dated
    <3> QED
      BY <1>2, <1>6, <1>8, <3>1, <3>2, <3>3
  <2> QED
    BY <2>1, <2>2
<1>17. /\ (consumed \subseteq Ever)' /\ ConsumedLater' /\ BookedKnown'
  <2>1. \A e : Forgettable(e) => Forgettable(e)'
    BY <1>2, <1>7, <1>8 DEF Forgettable, Reach
  <2>2. consumed \subseteq Ever /\ Ever \subseteq EventIds
    BY DEF PipeInv, TimeInv, Ever, Con!HandInv, Con!TypeOK
  <2>3. CASE UNCHANGED <<consumed, journal>>
    <3>1. Ever' = Ever
      BY <2>3 DEF Ever
    <3>2. \A e \in consumed : consumedAt'[e] = consumedAt[e]
      BY <1>5, <2>2, <2>3 DEF Dated
    <3> QED
      BY <1>2, <1>8, <2>1, <2>3, <3>1, <3>2
         DEF PipeInv, TimeInv, ConsumedLater, BookedKnown
  <2>4. CASE /\ conPc[c] \in Con!Booking
             /\ consumed' = consumed \cup {Con!InHand(c).event}
             /\ journal' = Append(journal, Con!Booked(Con!InHand(c)))
    <3> DEFINE f == Con!InHand(c).event
    <3>1. Ever' = Ever \cup {f}
      BY <2>4, EverGrows, BookedType DEF PipeInv, Con!HandInv, Con!TypeOK
    <3>2. /\ consumed' \subseteq EventIds
          /\ \A e \in consumed' : consumedAt'[e] = IF e \in consumed THEN consumedAt[e] ELSE clock
      <4>1. Ever' \subseteq EventIds
        BY <1>2 DEF Con!HandInv, Con!TypeOK
      <4>2. consumed' \subseteq EventIds
        BY <2>2, <2>4, <3>1, <4>1
      <4> QED
        BY <1>5, <4>2 DEF Dated
    <3>3. \E k \in Partitions : \E i \in DOMAIN topic[k] :
            topic[k][i].event = f /\ writtenAt[k][i] <= clock
      BY <1>6, <1>8, <2>4 DEF Con!Busy
    <3>4. \A e \in consumed' : \E k \in Partitions : \E i \in DOMAIN topic[k] :
            topic[k][i].event = e /\ writtenAt[k][i] <= consumedAt'[e]
      <4> SUFFICES ASSUME NEW e \in consumed'
                   PROVE  \E k \in Partitions : \E i \in DOMAIN topic[k] :
                            topic[k][i].event = e /\ writtenAt[k][i] <= consumedAt'[e]
        OBVIOUS
      <4>1. CASE e \in consumed
        BY <3>2, <4>1 DEF PipeInv, TimeInv, ConsumedLater
      <4>2. CASE e \notin consumed
        BY <2>4, <3>2, <3>3, <4>2
      <4> QED
        BY <4>1, <4>2
    <3>5. ConsumedLater'
      BY <1>2, <1>8, <3>4 DEF ConsumedLater
    <3>6. BookedKnown' /\ (consumed \subseteq Ever)'
      BY <2>1, <2>2, <2>4, <3>1 DEF PipeInv, TimeInv, BookedKnown
    <3> QED
      BY <3>5, <3>6
  <2> QED
    BY <1>2, <2>3, <2>4
<1>18. TimeInv'
  <2>1. WritersNear'
    BY <1>1, <1>5, WritersAlone DEF PipeInv
  <2> QED
    BY <1>7, <1>14, <1>15, <1>16, <1>17, <2>1 DEF TimeInv
<1> QED
  BY <1>2, <1>9, <1>10, <1>11, <1>12, <1>13, <1>18 DEF PipeInv

\* What a run of the replay command does: it begins, claims its event or finds
\* it claimed, writes or fails to write the message, perhaps several times, and
\* records the outcome.
Begins(r) ==
    /\ repPc[r] = "idle" /\ repPc' = [repPc EXCEPT ![r] = "start"]
    /\ \E e \in EventIds : WithinReplayWindow(e) /\ repEvent' = [repEvent EXCEPT ![r] = e]
    /\ UNCHANGED <<audit, topic>>

Claims(r) ==
    /\ repPc[r] = "start" /\ repPc' = [repPc EXCEPT ![r] = "write"]
    /\ audit[repEvent[r]] \in {"none", "failed"}
    /\ audit' = [audit EXCEPT ![repEvent[r]] = "started"]
    /\ UNCHANGED <<repEvent, topic>>

GivesWay(r) ==
    /\ repPc[r] = "start" /\ repPc' = [repPc EXCEPT ![r] = "claimed"]
    /\ UNCHANGED <<audit, repEvent, topic>>

Writes(r) ==
    /\ repPc[r] = "write"
    /\ \E place \in {"write", "finish_succeeded", "finish_failed"} :
         repPc' = [repPc EXCEPT ![r] = place]
    /\ topic' = topic \/ Wrote(repEvent[r])
    /\ UNCHANGED <<audit, repEvent>>

Finishes(r) ==
    /\ \/ /\ repPc[r] = "finish_succeeded" /\ repPc' = [repPc EXCEPT ![r] = "ok"]
          /\ audit' = [audit EXCEPT ![repEvent[r]] = "succeeded"]
       \/ /\ repPc[r] = "finish_failed" /\ repPc' = [repPc EXCEPT ![r] = "republish_failed"]
          /\ audit' = [audit EXCEPT ![repEvent[r]] = "failed"]
    /\ UNCHANGED <<repEvent, topic>>

\* A dead letter that can be replayed is the message of an accepted payment.
LEMMA OriginalIsCreated ==
    ASSUME FlowInv, NEW e \in EventIds, WithinReplayWindow(e)
    PROVE  payments[e] # None /\ OriginalMessage(e) = CreatedMessage(e)
<1>1. \A i \in DOMAIN deadLetters : deadLetters[i].message.event = e =>
        payments[e] # None /\ deadLetters[i].message = CreatedMessage(e)
  BY CreatedFacts DEF FlowInv, IsCreated
<1>2. \E i \in DOMAIN deadLetters : deadLetters[i].message.event = e
  BY DEF WithinReplayWindow
<1> QED
  BY <1>1, <1>2 DEF OriginalMessage

\* The steps of a run are these.
LEMMA ReplayMoves ==
    ASSUME FlowInv, ReplayInv, NEW r \in Replays, ReplayStep(r)
    PROVE  /\ Begins(r) \/ Claims(r) \/ GivesWay(r) \/ Writes(r) \/ Finishes(r)
           /\ republished' \in Seq(EventIds)
           /\ UNCHANGED <<payments, outbox, consumed, publisherVars, consumerVars>> /\ Stamp
<1>1. /\ UNCHANGED <<payments, outbox, consumed, publisherVars, consumerVars>> /\ Stamp
      /\ topic' = Rewritten
  BY DEF ReplayStep
<1>2. republished' = republished => topic' = topic
  BY <1>1 DEF Rewritten
<1>3. republished \in Seq(EventIds)
  BY DEF ReplayInv
<1> USE DEF Replay!Goto
<1>4. CASE Replay!Begin(r) /\ repPc'[r] = "start" /\ WithinReplayWindow(repEvent'[r])
  <2>1. PICK e \in EventIds : repEvent' = [repEvent EXCEPT ![r] = e]
    BY <1>4 DEF Replay!Begin
  <2>2. repEvent'[r] = e
    BY <2>1 DEF ReplayInv
  <2>3. /\ repPc[r] = "idle" /\ UNCHANGED <<audit, republished>>
        /\ \E place : repPc' = [repPc EXCEPT ![r] = place]
    BY <1>4 DEF Replay!Begin
  <2>4. repPc' = [repPc EXCEPT ![r] = "start"]
    BY <1>4, <2>3 DEF ReplayInv
  <2> QED
    BY <1>1, <1>2, <1>3, <1>4, <2>1, <2>2, <2>3, <2>4 DEF Begins
<1>5. CASE Replay!StartReplay(r) \/ Replay!AlreadyClaimed(r)
  BY <1>1, <1>2, <1>3, <1>5
     DEF Replay!StartReplay, Replay!AlreadyClaimed, Replay!Claimable, Claims, GivesWay
<1>6. CASE Replay!Republish(r) \/ Replay!RepublishRetries(r) \/ Replay!RepublishFails(r)
  <2> DEFINE e == repEvent[r]
  <2>1. /\ repPc[r] = "write" /\ UNCHANGED <<audit, repEvent>>
        /\ \E place \in {"write", "finish_succeeded", "finish_failed"} :
             repPc' = [repPc EXCEPT ![r] = place]
        /\ republished' = republished \/ republished' = Append(republished, e)
    <3>1. repPc[r] = "write" => repPc = [repPc EXCEPT ![r] = "write"]
      BY DEF ReplayInv
    <3> QED
      BY <1>6, <3>1 DEF Replay!Republish, Replay!RepublishRetries, Replay!RepublishFails
  <2>2. e \in EventIds /\ WithinReplayWindow(e)
    BY <2>1 DEF ReplayInv, Working, Replay!Active
  <2>3. ASSUME republished' = Append(republished, e)
        PROVE  Wrote(e)
    <3>1. Len(republished') # Len(republished) /\ republished'[Len(republished')] = e
      BY <1>3, <2>2, <2>3
    <3>2. topic' = [topic EXCEPT ![PartitionOf[OriginalMessage(e).payment]] =
                      Append(topic[PartitionOf[OriginalMessage(e).payment]], OriginalMessage(e))]
      BY <1>1, <3>1 DEF Rewritten
    <3>3. OriginalMessage(e) = CreatedMessage(e) /\ OriginalMessage(e).payment = e
      BY <2>2, OriginalIsCreated, CreatedFacts
    <3> QED
      BY <3>2, <3>3 DEF Wrote
  <2>4. republished' \in Seq(EventIds)
    BY <1>3, <2>1, <2>2
  <2> QED
    BY <1>1, <1>2, <2>1, <2>3, <2>4 DEF Writes
<1>7. CASE Replay!FinishReplay(r)
  BY <1>1, <1>2, <1>3, <1>7
     DEF Replay!FinishReplay, Replay!FinishStatus, Replay!FinishOutcome, Finishes
<1> QED
  BY <1>4, <1>5, <1>6, <1>7 DEF ReplayStep

\* The days between the copies of an event whose dead letter can be replayed.
LEMMA WindowFacts ==
    ASSUME PipeInv, NEW e \in EventIds, WithinReplayWindow(e)
    PROVE  \E k \in Partitions : \E i \in DOMAIN topic[k] :
             /\ topic[k][i].event = e /\ writtenAt[k][i] \in Nat
             /\ clock <= writtenAt[k][i] + TopicRetention + ReplayWindow
<1>1. PICK j \in DOMAIN deadLetters :
        deadLetters[j].message.event = e /\ clock <= deadLetteredAt[j] + ReplayWindow
  BY DEF WithinReplayWindow
<1> DEFINE k == deadLetters[j].partition
           i == deadLetters[j].offset
<1>2. /\ k \in Partitions /\ i \in DOMAIN topic[k] /\ topic[k][i] = deadLetters[j].message
      /\ deadLetteredAt[j] <= writtenAt[k][i] + TopicRetention
  BY DEF PipeInv, TimeInv, LettersFresh
<1> HIDE DEF k, i
<1>3. clock \in Nat /\ writtenAt[k][i] \in Nat /\ deadLetteredAt[j] \in Nat
  <2>1. clock \in Nat /\ writtenAt[k][i] \in Nat
    BY <1>2 DEF PipeInv, TimeInv, StampsOK
  <2>2. deadLetters \in Seq(Con!DeadLetterRecords) /\ deadLetteredAt \in Seq(Nat)
        /\ Len(deadLetteredAt) = Len(deadLetters)
    BY DeadLettersType DEF StampsOK
  <2>3. deadLetteredAt[j] \in Nat
    BY <2>2
  <2> QED
    BY <2>1, <2>3
<1>4. clock <= writtenAt[k][i] + TopicRetention + ReplayWindow
  BY <1>1, <1>2, <1>3, WindowsAssumption
<1> QED
  BY <1>1, <1>2, <1>3, <1>4

\* While a run is at work on an event, and the audit does not say 'succeeded', no
\* run has replayed the event with success.
LEMMA NoneBefore ==
    ASSUME PipeInv, NEW r \in Replays, repPc[r] \in Working, audit[repEvent[r]] # "succeeded",
           NEW s \in Replays, repPc[s] = "ok"
    PROVE  repEvent[s] # repEvent[r]
<1> DEFINE e == repEvent[r]
<1> SUFFICES ASSUME repEvent[s] = e PROVE FALSE
  OBVIOUS
<1>1. e \in EventIds /\ WithinReplayWindow(e)
  BY DEF PipeInv, ReplayInv
<1>2. ReplayOver(e)
  BY DEF PipeInv, SuccessKept
<1>3. PICK day \in 0..clock :
        Around(e, day) /\ clock > day + IncidentWindow + TopicRetention + ReplayWindow
  BY <1>2 DEF ReplayOver
<1>4. PICK k \in Partitions : \E i \in DOMAIN topic[k] :
        /\ topic[k][i].event = e /\ writtenAt[k][i] \in Nat
        /\ clock <= writtenAt[k][i] + TopicRetention + ReplayWindow
  BY <1>1, WindowFacts
<1>5. PICK i \in DOMAIN topic[k] :
        /\ topic[k][i].event = e /\ writtenAt[k][i] \in Nat
        /\ clock <= writtenAt[k][i] + TopicRetention + ReplayWindow
  BY <1>4
<1>6. writtenAt[k][i] <= day + IncidentWindow
  BY <1>3, <1>5 DEF Around
<1>7. clock \in Nat
  BY DEF PipeInv, TimeInv, StampsOK
<1> QED
  BY <1>3, <1>5, <1>6, <1>7, WindowsAssumption

\* A run that claims its event is a spent one from now on; no other step changes
\* who is spent.
LEMMA SpentGrows ==
    ASSUME ReplayInv, NEW r \in Replays
    PROVE  /\ Claims(r) =>
                /\ Cardinality(Spent') \in Nat
                /\ Cardinality(Spent') = Cardinality(Spent) + 1
           /\ (Begins(r) \/ GivesWay(r) \/ Writes(r) \/ Finishes(r)) => Spent' = Spent
<1>1. repPc \in [Replays -> Replay!Places]
  BY DEF ReplayInv
<1>2. ASSUME Claims(r)
      PROVE  Cardinality(Spent') \in Nat /\ Cardinality(Spent') = Cardinality(Spent) + 1
  <2>1. Spent' = Spent \cup {r} /\ r \notin Spent
    BY <1>1, <1>2 DEF Claims, Spent
  <2> QED
    BY <2>1, SpentFacts, FS_AddElement
<1>3. ASSUME Begins(r) \/ GivesWay(r) \/ Writes(r) \/ Finishes(r)
      PROVE  Spent' = Spent
  BY <1>1, <1>3 DEF Begins, GivesWay, Writes, Finishes, Spent
<1> QED
  BY <1>2, <1>3

\* What a run adds to the topic.
LEMMA ReplayAdds ==
    ASSUME PipeInv, NEW r \in Replays, ReplayStep(r)
    PROVE  \E S \in SUBSET EventIds :
             /\ Added(S) /\ Dated
             /\ \A e \in S : payments[e] # None
             /\ \A e \in S : Writes(r) /\ e = repEvent[r]
<1>1. /\ Begins(r) \/ Claims(r) \/ GivesWay(r) \/ Writes(r) \/ Finishes(r)
      /\ UNCHANGED deadLetters /\ Stamp
  BY ReplayMoves DEF PipeInv, consumerVars
<1>2. CASE topic' = topic
  <2>1. Len(deadLetters') >= Len(deadLetters)
    BY <1>1, DeadLettersType
  <2>2. Added({}) /\ Dated
    BY <1>1, <1>2, <2>1, DeadLettersType, AddsNothing DEF PipeInv
  <2> QED
    BY <2>2
<1>3. CASE Writes(r) /\ Wrote(repEvent[r])
  <2> DEFINE e == repEvent[r]
  <2>1. e \in EventIds /\ WithinReplayWindow(e)
    BY <1>3 DEF PipeInv, ReplayInv, Working, Replay!Active, Writes
  <2>2. payments[e] # None
    BY <2>1, OriginalIsCreated DEF PipeInv
  <2>3. Added({e}) /\ Dated
    BY <1>1, <1>3, <2>1, <2>2, DeadLettersType, AddsOne DEF PipeInv
  <2> QED
    BY <1>3, <2>1, <2>2, <2>3
<1> QED
  BY <1>1, <1>2, <1>3 DEF Begins, Claims, GivesWay, Writes, Finishes

\* The claims and windows of the replays.
LEMMA ReplayInvKept ==
    ASSUME PipeInv, NEW r \in Replays, ReplayStep(r)
    PROVE  ReplayInv'
<1>1. /\ Begins(r) \/ Claims(r) \/ GivesWay(r) \/ Writes(r) \/ Finishes(r)
      /\ republished' \in Seq(EventIds) /\ UNCHANGED deadLetters
  BY ReplayMoves DEF PipeInv, consumerVars
<1>2. Dated /\ clock' = clock
  BY ReplayAdds DEF Added
<1>3. \A e : WithinReplayWindow(e) => WithinReplayWindow(e)'
  BY <1>1, <1>2 DEF WithinReplayWindow, Dated
<1>4. /\ audit \in [EventIds -> Replay!AuditStatuses]
      /\ repPc \in [Replays -> Replay!Places]
      /\ repEvent \in [Replays -> EventIds \cup {None}]
      /\ \A q \in Replays : repPc[q] \in Working \cup {"ok"} => repEvent[q] \in EventIds
      /\ \A q \in Replays : repPc[q] \in Working => WithinReplayWindow(repEvent[q])
      /\ \A q \in Replays : repPc[q] \in Replay!Active => audit[repEvent[q]] = "started"
      /\ \A q, s \in Replays :
           (repPc[q] \in Replay!Active /\ repPc[s] \in Replay!Active
              /\ repEvent[q] = repEvent[s]) => q = s
  BY DEF PipeInv, ReplayInv
<1> DEFINE Kept ==
      /\ audit' \in [EventIds -> Replay!AuditStatuses]
      /\ repPc' \in [Replays -> Replay!Places]
      /\ repEvent' \in [Replays -> EventIds \cup {None}]
      /\ \A q \in Replays : repPc'[q] \in Working \cup {"ok"} => repEvent'[q] \in EventIds
      /\ \A q \in Replays : repPc'[q] \in Working => WithinReplayWindow(repEvent'[q])
      /\ \A q \in Replays : repPc'[q] \in Replay!Active => audit'[repEvent'[q]] = "started"
      /\ \A q, s \in Replays :
           (repPc'[q] \in Replay!Active /\ repPc'[s] \in Replay!Active
              /\ repEvent'[q] = repEvent'[s]) => q = s
<1> USE DEF Working, Replay!Active, Replay!Places, Replay!AuditStatuses
<1>5. ASSUME Begins(r) PROVE Kept
  <2>1. PICK e \in EventIds :
          WithinReplayWindow(e) /\ repEvent' = [repEvent EXCEPT ![r] = e]
    BY <1>5 DEF Begins
  <2>2. repEvent'[r] = e /\ \A q \in Replays : q # r => repEvent'[q] = repEvent[q]
    BY <1>4, <2>1
  <2>3. repPc'[r] = "start" /\ \A q \in Replays : q # r => repPc'[q] = repPc[q]
    BY <1>4, <1>5 DEF Begins
  <2>4. /\ repPc' \in [Replays -> Replay!Places]
        /\ repEvent' \in [Replays -> EventIds \cup {None}] /\ audit' = audit
    BY <1>4, <1>5, <2>1 DEF Begins
  <2> QED
    BY <1>4, <2>1, <2>2, <2>3, <2>4
<1>6. ASSUME Claims(r) PROVE Kept
  <2> DEFINE e == repEvent[r]
  <2>1. repPc'[r] = "write" /\ \A q \in Replays : q # r => repPc'[q] = repPc[q]
    BY <1>4, <1>6 DEF Claims
  <2>2. e \in EventIds /\ WithinReplayWindow(e) /\ audit[e] # "started" /\ repEvent' = repEvent
    BY <1>4, <1>6 DEF Claims
  <2>3. audit'[e] = "started" /\ \A f \in EventIds : f # e => audit'[f] = audit[f]
    BY <1>4, <1>6, <2>2 DEF Claims
  <2>4. \A q \in Replays : repPc[q] \in Replay!Active => repEvent[q] # e
    BY <1>4, <2>2
  <2>5. repPc' \in [Replays -> Replay!Places] /\ audit' \in [EventIds -> Replay!AuditStatuses]
    BY <1>4, <1>6, <2>2 DEF Claims
  <2> QED
    BY <1>4, <2>1, <2>2, <2>3, <2>4, <2>5
<1>7. ASSUME GivesWay(r) \/ Writes(r) PROVE Kept
  <2>1. /\ UNCHANGED <<audit, repEvent>>
        /\ \/ repPc'[r] = "claimed"
           \/ repPc[r] = "write" /\ repPc'[r] \in {"write", "finish_succeeded", "finish_failed"}
        /\ \A q \in Replays : q # r => repPc'[q] = repPc[q]
        /\ repPc' \in [Replays -> Replay!Places]
    BY <1>4, <1>7 DEF GivesWay, Writes
  <2> QED
    BY <1>4, <2>1
<1>8. ASSUME Finishes(r) PROVE Kept
  <2> DEFINE e == repEvent[r]
  <2>1. /\ repPc'[r] \in {"ok", "republish_failed"} /\ repEvent' = repEvent
        /\ \A q \in Replays : q # r => repPc'[q] = repPc[q]
        /\ repPc' \in [Replays -> Replay!Places] /\ repPc[r] \in Replay!Active
    BY <1>4, <1>8 DEF Finishes
  <2>2. e \in EventIds
    BY <1>4, <2>1
  <2>3. /\ \A f \in EventIds : f # e => audit'[f] = audit[f]
        /\ audit' \in [EventIds -> Replay!AuditStatuses]
    BY <1>4, <1>8, <2>2 DEF Finishes
  <2>4. \A q \in Replays : q # r /\ repPc[q] \in Replay!Active => repEvent[q] # e
    BY <1>4, <2>1
  <2> QED
    BY <1>4, <2>1, <2>2, <2>3, <2>4
<1>9. Kept
  BY <1>1, <1>5, <1>6, <1>7, <1>8
<1>10. (\A q \in Replays : repPc[q] \in Working => WithinReplayWindow(repEvent[q]))'
  BY <1>1, <1>2, <1>9 DEF WithinReplayWindow, Dated
<1> QED
  BY <1>1, <1>9, <1>10 DEF ReplayInv

\* A run claims its event within its window of a copy, writes on the same day, and
\* only for an event that no other run has replayed with success.
LEMMA ReplayPipe ==
    ASSUME PipeInv, NEW r \in Replays, ReplayStep(r)
    PROVE  PipeInv'
<1>1. /\ Begins(r) \/ Claims(r) \/ GivesWay(r) \/ Writes(r) \/ Finishes(r)
      /\ UNCHANGED <<payments, outbox, consumed, publisherVars, consumerVars>>
      /\ UNCHANGED <<deadLetters, journal>> /\ Stamp
  BY ReplayMoves DEF PipeInv, consumerVars
<1>2. PICK S \in SUBSET EventIds :
        /\ Added(S) /\ Dated
        /\ \A e \in S : payments[e] # None
        /\ \A e \in S : Writes(r) /\ e = repEvent[r]
  BY ReplayAdds
<1>3. ReplayInv'
  BY ReplayInvKept
<1>4. Pub!IInv' /\ Con!HandInv' /\ Con!BookInv' /\ Con!LossInv'
  BY <1>1, <1>2, PublishersAlone, ConsumersAlone DEF PipeInv
<1>5. FlowInv'
  BY <1>1, <1>2, FlowKept DEF PipeInv
<1>6. HandedOn'
  BY <1>1, <1>2, <1>4, HandedOnKept DEF PipeInv
<1>7. Cardinality(Spent') \in Nat /\ Cardinality(Spent) <= Cardinality(Spent')
  BY <1>1, SpentGrows, SpentFacts DEF PipeInv
<1>8. Claims(r) => Near(repEvent[r], Cardinality(Spent'))
  <2> SUFFICES ASSUME Claims(r), NEW l \in Partitions, NEW j \in DOMAIN topic[l],
                      topic[l][j].event = repEvent[r]
               PROVE  clock <= writtenAt[l][j] + Reach(Cardinality(Spent'))
    BY DEF Near
  <2> DEFINE e == repEvent[r]
             n == Cardinality(Spent)
             near == Reach(n)
  <2>1. e \in EventIds /\ WithinReplayWindow(e)
    BY DEF PipeInv, ReplayInv, Working, Claims
  <2>2. PICK k \in Partitions : \E i \in DOMAIN topic[k] :
          /\ topic[k][i].event = e /\ writtenAt[k][i] \in Nat
          /\ clock <= writtenAt[k][i] + TopicRetention + ReplayWindow
    BY <2>1, WindowFacts
  <2>3. PICK i \in DOMAIN topic[k] :
          /\ topic[k][i].event = e /\ writtenAt[k][i] \in Nat
          /\ clock <= writtenAt[k][i] + TopicRetention + ReplayWindow
    BY <2>2
  <2>4. writtenAt[k][i] <= writtenAt[l][j] + near
    BY <2>3 DEF PipeInv, TimeInv, CopiesClose
  <2>5. n \in Nat /\ near \in Nat /\ Cardinality(Spent') = n + 1
    BY SpentFacts, SpentGrows, ReachFacts DEF PipeInv
  <2>6. Reach(Cardinality(Spent')) = near + ReplayWindow + TopicRetention
    BY <2>5, ReachFacts
  <2>7. clock \in Nat /\ writtenAt[l][j] \in Nat
    BY DEF PipeInv, TimeInv, StampsOK
  <2> HIDE DEF near, n
  <2>8. clock <= writtenAt[l][j] + (near + ReplayWindow + TopicRetention)
    BY <2>3, <2>4, <2>5, <2>7, WindowsAssumption
  <2> QED
    BY <2>6, <2>8
<1>9. ASSUME NEW s \in Replays, repPc[s] = "write"
      PROVE  Near(repEvent[s], Cardinality(Spent'))
  <2> DEFINE near == Reach(Cardinality(Spent))
             far == Reach(Cardinality(Spent'))
  <2>1. near \in Nat /\ far \in Nat /\ near <= far
    BY <1>7, SpentFacts, ReachFacts
  <2> SUFFICES ASSUME NEW l \in Partitions, NEW j \in DOMAIN topic[l],
                      topic[l][j].event = repEvent[s]
               PROVE  clock <= writtenAt[l][j] + far
    BY DEF Near
  <2>2. clock <= writtenAt[l][j] + near
    BY <1>9 DEF PipeInv, TimeInv, WritersNear, Near
  <2>3. clock \in Nat /\ writtenAt[l][j] \in Nat
    BY DEF PipeInv, TimeInv, StampsOK
  <2> HIDE DEF near, far
  <2> QED
    BY <2>1, <2>2, <2>3
<1>10. TimeInv'
  <2>1. \A e \in S : Near(e, Cardinality(Spent'))
    BY <1>2, <1>9 DEF Writes
  <2>2. PublishedInTime' /\ CopiesClose'
    BY <1>1, <1>2, <1>7, <2>1, CopiesKept DEF PipeInv, Near
  <2>3. \A s \in Replays : repPc'[s] = "write" => Near(repEvent'[s], Cardinality(Spent'))
    <3> SUFFICES ASSUME NEW s \in Replays, repPc'[s] = "write"
                 PROVE  Near(repEvent'[s], Cardinality(Spent'))
      OBVIOUS
    <3>1. /\ repEvent'[s] = repEvent[s]
          /\ repPc[s] = "write" \/ (s = r /\ Claims(r))
      <4>1. repPc \in [Replays -> Replay!Places] /\ repEvent \in [Replays -> EventIds \cup {None}]
        BY DEF PipeInv, ReplayInv
      <4> QED
        BY <1>1, <4>1 DEF Begins, Claims, GivesWay, Writes, Finishes
    <3> QED
      BY <1>8, <1>9, <3>1
  <2>4. WritersNear'
    BY <1>2, <1>7, <2>3, WritersKept DEF PipeInv
  <2> QED
    BY <1>1, <1>2, <2>2, <2>4, TimeKept DEF PipeInv
<1>11. /\ repPc \in [Replays -> Replay!Places] /\ audit \in [EventIds -> Replay!AuditStatuses]
       /\ \A q \in Replays : repPc[q] \in Working \cup {"ok"} => repEvent[q] \in EventIds
  BY DEF PipeInv, ReplayInv
<1>12. ASSUME NEW s \in Replays, s # r, repPc'[s] = "ok"
       PROVE  /\ repPc[s] = "ok" /\ repEvent'[s] = repEvent[s]
              /\ Finishes(r) => repEvent[s] # repEvent[r]
              /\ \/ /\ audit'[repEvent'[s]] = "succeeded"
                    /\ Around(repEvent[s], completedAt[repEvent[s]])'
                 \/ ReplayOver(repEvent[s])'
  <2>1. repPc[s] = "ok" /\ repEvent'[s] = repEvent[s]
    <3>1. repEvent \in [Replays -> EventIds \cup {None}]
      BY DEF PipeInv, ReplayInv
    <3> QED
      BY <1>1, <1>11, <1>12, <3>1 DEF Begins, Claims, GivesWay, Writes, Finishes
  <2>2. Claims(r) \/ Writes(r) \/ Finishes(r) => repEvent[s] # repEvent[r]
    <3>1. ASSUME Claims(r) \/ Writes(r) \/ Finishes(r)
          PROVE  repPc[r] \in Working /\ audit[repEvent[r]] # "succeeded"
      BY <3>1 DEF Claims, Writes, Finishes, Working, Replay!Active, PipeInv, ReplayInv
    <3> QED
      BY <2>1, <3>1, NoneBefore
  <2>3. repEvent[s] \in EventIds
    BY <1>11, <2>1
  <2>4. audit'[repEvent[s]] = audit[repEvent[s]]
    BY <1>1, <1>11, <2>2, <2>3 DEF Begins, Claims, GivesWay, Writes, Finishes
  <2>5. repEvent[s] \notin S
    BY <1>2, <2>2
  <2> QED
    BY <1>2, <2>1, <2>2, <2>4, <2>5, RunKept DEF PipeInv
<1>13. ASSUME repPc'[r] = "ok"
       PROVE  /\ Finishes(r) /\ repEvent' = repEvent
              /\ audit'[repEvent'[r]] = "succeeded"
              /\ Around(repEvent[r], completedAt[repEvent[r]])'
  <2> DEFINE e == repEvent[r]
  <2>1. /\ repPc[r] = "finish_succeeded" /\ Finishes(r) /\ repEvent' = repEvent
        /\ topic' = topic
        /\ audit' = [audit EXCEPT ![e] = "succeeded"]
    BY <1>1, <1>11, <1>13 DEF Begins, Claims, GivesWay, Writes, Finishes
  <2>2. e \in EventIds /\ WithinReplayWindow(e) /\ audit[e] = "started"
    BY <2>1 DEF PipeInv, ReplayInv, Working, Replay!Active
  <2>3. audit'[e] = "succeeded" /\ completedAt'[e] = clock
    BY <1>2, <1>11, <2>1, <2>2 DEF Dated
  <2>4. \E k \in Partitions : \E i \in DOMAIN topic[k] : topic[k][i].event = e
    BY <2>2, WindowFacts
  <2>5. /\ clock \in Nat /\ IncidentWindow \in Nat
        /\ \A k \in Partitions : \A i \in DOMAIN topic[k] :
             writtenAt'[k][i] \in Nat /\ writtenAt'[k][i] <= clock
    BY <1>2, WindowsAssumption DEF PipeInv, TimeInv, StampsOK, Added
  <2>6. Around(e, completedAt[e])'
    BY <2>1, <2>3, <2>4, <2>5 DEF Around
  <2> QED
    BY <2>1, <2>3, <2>6
<1>14. SuccessKept'
  <2> SUFFICES ASSUME NEW s \in Replays, repPc'[s] = "ok"
               PROVE  (\/ audit[repEvent[s]] = "succeeded"
                            /\ Around(repEvent[s], completedAt[repEvent[s]])
                       \/ ReplayOver(repEvent[s]))'
    BY DEF SuccessKept
  <2> QED
    BY <1>12, <1>13
<1>15. ReplayedOnce'
  <2> SUFFICES ASSUME NEW q \in Replays, NEW s \in Replays, repPc'[q] = "ok", repPc'[s] = "ok",
                      repEvent'[q] = repEvent'[s]
               PROVE  q = s
    BY DEF ReplayedOnce
  <2>1. CASE q # r /\ s # r
    BY <1>12, <2>1 DEF PipeInv, ReplayedOnce
  <2>2. CASE q = r \/ s = r
    BY <1>12, <1>13, <2>2
  <2> QED
    BY <2>1, <2>2
<1> QED
  BY <1>3, <1>4, <1>5, <1>6, <1>10, <1>14, <1>15 DEF PipeInv

\* A retention run deletes published rows, and rows older than their retention.
LEMMA SweepFacts ==
    ASSUME NEW s \in Sweeps, SweepStep(s), outbox \in [EventIds -> OutboxRows \cup {None}],
           audit \in [EventIds -> Replay!AuditStatuses]
    PROVE  /\ UNCHANGED <<payments, topic, publisherVars, consumerVars, replayVars, clock,
                          consumedAt, completedAt, writtenAt, deadLetteredAt>>
           /\ outbox' \in [EventIds -> OutboxRows \cup {None}]
           /\ \A e \in EventIds : outbox'[e] # outbox[e] =>
                outbox'[e] = None /\ outbox[e] # None /\ outbox[e].status = "published"
           /\ consumed' \subseteq consumed
           /\ \A e \in consumed : e \notin consumed' => consumedAt[e] + ConsumedRetention < clock
           /\ audit' \in [EventIds -> Replay!AuditStatuses]
           /\ \A e \in EventIds : audit'[e] # audit[e] =>
                /\ audit'[e] = "none" /\ audit[e] \in {"succeeded", "failed"}
                /\ completedAt[e] + ReplayRetention < clock
<1>1. UNCHANGED <<payments, topic, publisherVars, consumerVars, replayVars, writtenAt,
                  deadLetteredAt>>
  BY DEF SweepStep
<1>2. CASE Sweep!DeleteBatch(s)
  <2> DEFINE name == Sweep!Rules[rule[s]]
  <2>1. PICK S \in SUBSET Sweep!Eligible(name) : Sweep!Delete(name, S)
    BY <1>2 DEF Sweep!DeleteBatch
  <2>2. UNCHANGED <<clock, consumedAt, completedAt>>
    BY <1>2, <2>1 DEF Sweep!DeleteBatch, Sweep!Delete
  <2> HIDE DEF name
  <2>3. /\ outbox' \in [EventIds -> OutboxRows \cup {None}]
        /\ \A e \in EventIds : outbox'[e] # outbox[e] =>
             outbox'[e] = None /\ outbox[e] # None /\ outbox[e].status = "published"
    <3>1. CASE name = "published_outbox_events"
      BY <2>1, <3>1 DEF Sweep!Delete, Sweep!Eligible
    <3>2. CASE name # "published_outbox_events"
      BY <2>1, <3>2 DEF Sweep!Delete
    <3> QED
      BY <3>1, <3>2
  <2>4. /\ consumed' \subseteq consumed
        /\ \A e \in consumed : e \notin consumed' => consumedAt[e] + ConsumedRetention < clock
    <3>1. CASE name = "consumed_ledger_events"
      BY <2>1, <3>1 DEF Sweep!Delete, Sweep!Eligible, Sweep!Older
    <3>2. CASE name # "consumed_ledger_events"
      BY <2>1, <3>2 DEF Sweep!Delete
    <3> QED
      BY <3>1, <3>2
  <2>5. /\ audit' \in [EventIds -> Replay!AuditStatuses]
        /\ \A e \in EventIds : audit'[e] # audit[e] =>
             /\ audit'[e] = "none" /\ audit[e] \in {"succeeded", "failed"}
             /\ completedAt[e] + ReplayRetention < clock
    <3>1. CASE name = "completed_dead_letter_replays"
      BY <2>1, <3>1 DEF Sweep!Delete, Sweep!Eligible, Sweep!Older, Replay!AuditStatuses
    <3>2. CASE name # "completed_dead_letter_replays"
      BY <2>1, <3>2 DEF Sweep!Delete
    <3> QED
      BY <3>1, <3>2
  <2> QED
    BY <1>1, <2>2, <2>3, <2>4, <2>5
<1>3. CASE \/ Sweep!Lock(s) \/ Sweep!LockRefused(s) \/ Sweep!Count(s) \/ Sweep!Unlock(s)
           \/ Sweep!RuleFails(s) \/ Sweep!Kill(s)
  <2>1. UNCHANGED <<outbox, consumed, audit, consumedAt, completedAt, clock>>
    BY <1>3 DEF Sweep!Lock, Sweep!LockRefused, Sweep!Count, Sweep!Unlock, Sweep!RuleFails,
                Sweep!Kill, Sweep!tables
  <2> QED
    BY <1>1, <2>1
<1> QED
  BY <1>2, <1>3 DEF SweepStep, Sweep!Work

\* What a retention run deletes is not needed any more.
LEMMA SweepPipe ==
    ASSUME PipeInv, NEW s \in Sweeps, SweepStep(s)
    PROVE  PipeInv'
<1>1. /\ outbox \in [EventIds -> OutboxRows \cup {None}]
      /\ audit \in [EventIds -> Replay!AuditStatuses]
  BY Vocabulary DEF PipeInv, Pub!IInv, Pub!TypeOK, ReplayInv
<1>2. /\ UNCHANGED <<payments, topic, publisherVars, consumerVars, replayVars, clock,
                     consumedAt, completedAt, writtenAt, deadLetteredAt>>
      /\ UNCHANGED <<repPc, repEvent, republished, deadLetters, journal>>
  BY <1>1, SweepFacts DEF consumerVars, replayVars
<1>3. /\ outbox' \in [EventIds -> OutboxRows \cup {None}]
      /\ \A e \in EventIds : outbox'[e] # outbox[e] =>
           outbox'[e] = None /\ outbox[e] # None /\ outbox[e].status = "published"
  BY <1>1, SweepFacts
<1>4. /\ consumed' \subseteq consumed
      /\ \A e \in consumed : e \notin consumed' => consumedAt[e] + ConsumedRetention < clock
  BY <1>1, SweepFacts
<1>5. /\ audit' \in [EventIds -> Replay!AuditStatuses]
      /\ \A e \in EventIds : audit'[e] # audit[e] =>
           /\ audit'[e] = "none" /\ audit[e] \in {"succeeded", "failed"}
           /\ completedAt[e] + ReplayRetention < clock
  BY <1>1, SweepFacts
<1>6. Added({}) /\ Dated
  <2>1. StampsOK'
    BY <1>2 DEF PipeInv, TimeInv, StampsOK
  <2>2. Added({})
    BY <1>2, <2>1, Vocabulary DEF Added, PipeInv, Pub!IInv, Pub!TypeOK
  <2>3. Dated
    BY <1>2, <1>4, <1>5 DEF Dated
  <2> QED
    BY <2>2, <2>3
<1>7. Con!HandInv' /\ Con!BookInv' /\ Con!LossInv'
  BY <1>2, <1>6, ConsumersAlone DEF PipeInv
<1>8. Pub!IInv'
  <2> USE <1>2 DEF publisherVars
  <2>1. Pub!TypeOK'
    BY <1>3, Vocabulary DEF PipeInv, Pub!IInv, Pub!TypeOK
  <2>2. \A q \in Publishers : \A e \in batch[q] :
          Pub!HasStatus(e, {"pending", "failed"}) \/ Pub!HasStatus(e, {"publishing"}) =>
              e \in EventIds /\ outbox'[e] = outbox[e]
    BY <1>3 DEF Pub!HasStatus, PipeInv, Pub!IInv, Pub!TypeOK
  <2>3. Pub!ClaimInv'
    BY <2>2 DEF PipeInv, Pub!IInv, Pub!ClaimInv, Pub!DisjointBatches, Pub!LockedClaimable,
                Pub!HeldPublishing, Pub!OthersEmpty, Pub!CurrentHeld, Pub!HasStatus
  <2>4. Pub!WrittenDelivered' /\ Pub!PublishedWasDelivered'
    BY <1>3 DEF PipeInv, Pub!IInv, Pub!WrittenDelivered, Pub!PublishedWasDelivered,
                Pub!Delivered
  <2> QED
    BY <2>1, <2>3, <2>4 DEF Pub!IInv
<1>9. FlowInv'
  <2>1. \A e \in EventIds : outbox'[e] # None =>
          outbox[e] # None /\ MessageOf(e, outbox'[e]) = MessageOf(e, outbox[e])
    BY <1>3
  <2> QED
    BY <1>2, <1>6, <2>1, FlowKept DEF PipeInv
<1>10. HandedOn'
  BY <1>2, <1>3 DEF PipeInv, HandedOn, Pub!Delivered, Pub!IInv, Pub!PublishedWasDelivered
<1>11. ReplayInv' /\ Spent' = Spent
  <2>1. \A q \in Replays : repPc[q] \in Replay!Active => audit'[repEvent[q]] = "started"
    BY <1>5 DEF PipeInv, ReplayInv, Working
  <2> QED
    BY <1>2, <1>5, <2>1 DEF PipeInv, ReplayInv, Spent, WithinReplayWindow
<1>12. PublishedInTime' /\ CopiesClose'
  <2>1. \A e \in EventIds : outbox'[e] # None =>
          \/ outbox'[e].status = "published"
          \/ outbox[e] # None /\ outbox[e].status # "published"
    BY <1>3
  <2> QED
    BY <1>6, <1>11, <2>1, SpentFacts, CopiesKept DEF PipeInv
<1>13. ExpiredPassed' /\ LettersFresh' /\ ConsumedLater' /\ (consumed \subseteq Ever)'
  BY <1>2, <1>4 DEF consumerVars, PipeInv, TimeInv, ExpiredPassed, LettersFresh, ConsumedLater,
                    Ever
<1>14. BookedKnown'
  <2>1. Ever' = Ever /\ \A e : Forgettable(e)' <=> Forgettable(e)
    BY <1>2 DEF Ever, Forgettable, Reach
  <2>2. ASSUME NEW e \in consumed, e \notin consumed'
        PROVE  Forgettable(e)
    <3> DEFINE most == Reach(Cardinality(Replays))
    <3>1. PICK k \in Partitions : \E i \in DOMAIN topic[k] :
            topic[k][i].event = e /\ writtenAt[k][i] <= consumedAt[e]
      BY DEF PipeInv, TimeInv, ConsumedLater
    <3>2. PICK i \in DOMAIN topic[k] :
            topic[k][i].event = e /\ writtenAt[k][i] <= consumedAt[e]
      BY <3>1
    <3>3. consumedAt[e] + ConsumedRetention < clock
      BY <1>4, <2>2
    <3>4. e \in EventIds
      BY DEF PipeInv, TimeInv, Ever, Con!HandInv, Con!TypeOK
    <3>5. clock \in Nat /\ writtenAt[k][i] \in Nat /\ consumedAt[e] \in Nat
      BY <3>4 DEF PipeInv, TimeInv, StampsOK
    <3>6. most \in Nat /\ TopicRetention \in Nat /\ ConsumedRetention \in Nat
          /\ ConsumedRetention >= most + TopicRetention
      <4>1. Cardinality(Replays) \in Nat /\ Cardinality(Replays) * (ReplayWindow + TopicRetention) \in Nat
        BY SpentFacts, WindowsAssumption
      <4> QED
        BY <4>1, WindowsAssumption, RetentionAssumption DEF Reach, loadConfig
    <3> HIDE DEF most
    <3>7. clock > writtenAt[k][i] + most + TopicRetention
      BY <3>2, <3>3, <3>5, <3>6
    <3> QED
      BY <3>2, <3>7 DEF Forgettable, most
  <2> QED
    BY <2>1, <2>2 DEF PipeInv, TimeInv, BookedKnown
<1>15. TimeInv'
  <2>1. WritersNear'
    BY <1>2, <1>6, WritersAlone DEF PipeInv
  <2> QED
    BY <1>6, <1>12, <1>13, <1>14, <2>1 DEF TimeInv, Added
<1>16. SuccessKept'
  <2> SUFFICES ASSUME NEW r \in Replays, repPc[r] = "ok"
               PROVE  (\/ audit[repEvent[r]] = "succeeded"
                            /\ Around(repEvent[r], completedAt[repEvent[r]])
                       \/ ReplayOver(repEvent[r]))'
    BY <1>2 DEF SuccessKept
  <2> DEFINE e == repEvent[r]
             day == completedAt[e]
  <2>1. e \in EventIds
    BY DEF PipeInv, ReplayInv
  <2>2. CASE audit'[e] = audit[e]
    BY <1>2, <1>6, <2>2, RunKept DEF PipeInv
  <2>3. CASE audit'[e] # audit[e]
    <3>1. ReplayOver(e)
      <4>1. audit[e] \in {"succeeded", "failed"} /\ day + ReplayRetention < clock
        BY <1>5, <2>1, <2>3
      <4>2. ReplayOver(e) \/ Around(e, day)
        BY DEF PipeInv, SuccessKept
      <4>3. clock \in Nat /\ day \in Nat /\ ReplayRetention \in Nat
        BY <2>1, RetentionAssumption DEF PipeInv, TimeInv, StampsOK, loadConfig
      <4> HIDE DEF day, e
      <4>4. day \in 0..clock /\ clock > day + IncidentWindow + TopicRetention + ReplayWindow
        BY <4>1, <4>3, WindowsAssumption
      <4> QED
        BY <4>2, <4>4 DEF ReplayOver
    <3>2. ReplayOver(e)'
      BY <1>2, <3>1 DEF ReplayOver, Around
    <3> QED
      BY <3>2
  <2> QED
    BY <2>2, <2>3
<1>17. ReplayedOnce'
  BY <1>2 DEF PipeInv, ReplayedOnce
<1> QED
  BY <1>7, <1>8, <1>9, <1>10, <1>11, <1>15, <1>16, <1>17 DEF PipeInv

\* A day passes: nothing in hand, nothing behind, nothing overdue.
LEMMA TickPipe ==
    ASSUME PipeInv, Tick
    PROVE  PipeInv'
<1>1. /\ UNCHANGED <<payments, publisherVars, consumerVars, replayVars, shared, stamps>>
      /\ clock' = clock + 1 /\ Resting /\ NothingExpires /\ NothingOverdue
  BY DEF Tick
<1>2. UNCHANGED <<payments, outbox, topic, pubPc, batch, current, unacked, pubFaults,
                  committed, owner, position, conPc, work, attempt, accounts, consumed, journal, deadLetters,
                  conFaults, audit, republished, repPc, repEvent, consumedAt, completedAt,
                  writtenAt, deadLetteredAt>>
  BY <1>1 DEF publisherVars, consumerVars, replayVars, shared, stamps
<1>3. clock \in Nat /\ IncidentWindow \in Nat /\ TopicRetention \in Nat /\ ReplayWindow \in Nat
  BY WindowsAssumption DEF PipeInv, TimeInv, StampsOK
<1>4. Pub!IInv'
  BY <1>2, PubKept DEF PipeInv, Pub!vars
<1>5. Con!HandInv' /\ Con!BookInv' /\ Con!LossInv'
  <2>1. Ever' = Ever
    BY <1>2 DEF Ever
  <2> QED
    BY <1>2, <2>1, ConKept DEF PipeInv, Con!vars, Con!kafka, Con!ledger
<1>6. FlowInv' /\ HandedOn' /\ ReplayedOnce'
  BY <1>2 DEF PipeInv, FlowInv, HandedOn, ReplayedOnce, IsCreated, CreatedMessage, Con!Booked,
              Con!buildPaymentMovement, Pub!Delivered
<1>7. ReplayInv' /\ Spent' = Spent
  <2>1. \A r \in Replays : repPc[r] \notin Working
    BY <1>1 DEF Resting, Working, Replay!Ended, Replay!Active
  <2>2. Spent' = Spent
    BY <1>2 DEF Spent
  <2>3. \A r \in Replays : repPc[r] \notin Replay!Active
    BY <2>1 DEF Working
  <2> QED
    BY <1>2, <2>1, <2>2, <2>3 DEF PipeInv, ReplayInv
<1>8. StampsOK'
  BY <1>1, <1>2, <1>3 DEF PipeInv, TimeInv, StampsOK
<1>9. \A k \in Partitions : \A i \in DOMAIN topic[k] : writtenAt[k][i] \in Nat
  BY DEF PipeInv, TimeInv, StampsOK
<1>10. ExpiredPassed'
  <2>1. \A c \in Consumers : conPc[c] \notin Con!Busy
    BY <1>1 DEF Resting, Con!Busy, Con!Booking
  <2>2. \A k \in Partitions : \A i \in DOMAIN topic[k] :
          clock' > writtenAt[k][i] + TopicRetention => clock >= writtenAt[k][i] + TopicRetention
    BY <1>1, <1>3, <1>9
  <2> QED
    BY <1>1, <1>2, <2>1, <2>2 DEF ExpiredPassed, NothingExpires
<1>11. PublishedInTime'
  <2>1. \A k \in Partitions : \A i \in DOMAIN topic[k] :
          clock' > writtenAt[k][i] + IncidentWindow => clock >= writtenAt[k][i] + IncidentWindow
    BY <1>1, <1>3, <1>9
  <2> QED
    BY <1>1, <1>2, <2>1 DEF PublishedInTime, NothingOverdue
<1>12. CopiesClose' /\ LettersFresh' /\ (consumed \subseteq Ever)' /\ ConsumedLater'
  BY <1>2, <1>7 DEF PipeInv, TimeInv, CopiesClose, LettersFresh, ConsumedLater, Ever, Reach
<1>13. BookedKnown'
  <2> DEFINE most == Reach(Cardinality(Replays))
  <2>1. Ever' = Ever /\ most \in Nat
    BY <1>2, ReachFacts, SpentFacts DEF Ever
  <2>2. \A k \in Partitions : \A i \in DOMAIN topic[k] :
          clock > writtenAt[k][i] + most + TopicRetention =>
              clock' > writtenAt[k][i] + most + TopicRetention
    <3> HIDE DEF most
    <3> QED
      BY <1>1, <1>3, <1>9, <2>1
  <2>3. \A e : Forgettable(e) => Forgettable(e)'
    BY <1>2, <2>2 DEF Forgettable, Reach
  <2> QED
    BY <1>2, <2>1, <2>3 DEF PipeInv, TimeInv, BookedKnown
<1>14. TimeInv'
  <2>1. WritersNear'
    BY <1>1, <1>2 DEF Resting, Replay!Ended, WritersNear
  <2> QED
    BY <1>8, <1>10, <1>11, <1>12, <1>13, <2>1 DEF TimeInv
<1>15. SuccessKept'
  <2>1. \A e, day : Around(e, day)' <=> Around(e, day)
    BY <1>2 DEF Around
  <2>2. \A e : ReplayOver(e) => ReplayOver(e)'
    <3> SUFFICES ASSUME NEW e, ReplayOver(e) PROVE ReplayOver(e)'
      OBVIOUS
    <3>1. PICK day \in 0..clock :
            Around(e, day) /\ clock > day + IncidentWindow + TopicRetention + ReplayWindow
      BY DEF ReplayOver
    <3>2. day \in 0..clock' /\ clock' > day + IncidentWindow + TopicRetention + ReplayWindow
      BY <1>1, <1>3, <3>1
    <3> QED
      BY <2>1, <3>1, <3>2 DEF ReplayOver
  <2> QED
    BY <1>2, <2>1, <2>2 DEF PipeInv, SuccessKept, Around
<1> QED
  BY <1>4, <1>5, <1>6, <1>7, <1>14, <1>15 DEF PipeInv

\* Nothing happens.
LEMMA StutterPipe ==
    ASSUME PipeInv, UNCHANGED vars
    PROVE  PipeInv'
<1>1. UNCHANGED <<payments, outbox, topic, pubPc, batch, current, unacked, pubFaults,
                  committed, owner, position, conPc, work, attempt, accounts, consumed, journal, deadLetters,
                  conFaults, audit, republished, repPc, repEvent, consumedAt, completedAt,
                  writtenAt, deadLetteredAt, clock>>
  BY DEF vars, publisherVars, consumerVars, replayVars, shared, stamps
<1>2. Pub!IInv'
  BY <1>1, PubKept DEF PipeInv, Pub!vars
<1>3. Ever' = Ever
  BY <1>1 DEF Ever
<1>4. Con!HandInv' /\ Con!BookInv' /\ Con!LossInv'
  BY <1>1, <1>3, ConKept DEF PipeInv, Con!vars, Con!kafka, Con!ledger
<1>5. FlowInv' /\ HandedOn' /\ ReplayedOnce'
  BY <1>1 DEF PipeInv, FlowInv, HandedOn, ReplayedOnce, IsCreated, CreatedMessage, Con!Booked,
              Con!buildPaymentMovement, Pub!Delivered
<1>6. ReplayInv' /\ Spent' = Spent
  BY <1>1 DEF PipeInv, ReplayInv, WithinReplayWindow, Spent
<1>7. StampsOK' /\ ExpiredPassed' /\ PublishedInTime' /\ LettersFresh' /\ ConsumedLater'
  BY <1>1 DEF PipeInv, TimeInv, StampsOK, ExpiredPassed, PublishedInTime, LettersFresh,
              ConsumedLater
<1>8. CopiesClose' /\ WritersNear' /\ BookedKnown' /\ (consumed \subseteq Ever)'
  BY <1>1, <1>3, <1>6
     DEF PipeInv, TimeInv, CopiesClose, WritersNear, Near, BookedKnown, Forgettable, Reach
<1>9. SuccessKept'
  BY <1>1 DEF PipeInv, SuccessKept, Around, ReplayOver
<1> QED
  BY <1>2, <1>4, <1>5, <1>6, <1>7, <1>8, <1>9 DEF PipeInv, TimeInv

\* The invariant is inductive.
LEMMA NextPipe == PipeInv /\ [Next]_vars => PipeInv'
<1> SUFFICES ASSUME PipeInv, [Next]_vars PROVE PipeInv'
  OBVIOUS
<1> QED
  BY CreateStep, PublisherPipe, ConsumerPipe, ReplayPipe, SweepPipe, TickPipe, StutterPipe
     DEF Next

\* Every reachable state satisfies the invariant.
LEMMA PipeInvariant == Spec => []PipeInv
BY InitPipe, NextPipe, PTL DEF Spec

-----------------------------------------------------------------------------
(***************************************************************************)
(* The properties.                                                         *)
(***************************************************************************)

\* What the journal says of a payment.
LEMMA BookedMovement ==
    ASSUME FlowInv, NEW e \in EventIds, payments[e] # None
    PROVE  LET t == Con!Booked(CreatedMessage(e))
           IN  /\ t.event = e /\ t.payment = e
               /\ BookedMoney(t, "debit") = payments[e].money
               /\ BookedMoney(t, "credit") = payments[e].money
<1> DEFINE t == Con!Booked(CreatedMessage(e))
           money == payments[e].money
           debit == [account |-> <<"cash", money.currency>>, direction |-> "debit",
                     amount |-> money.amount]
           credit == [account |-> <<"merchant_payable", money.currency>>, direction |-> "credit",
                      amount |-> money.amount]
<1>1. money \in Money /\ t.event = e /\ t.payment = e /\ t.entries = {debit, credit}
  BY CreatedFacts DEF Con!Booked, Con!buildPaymentMovement
<1>2. debit.direction = "debit" /\ credit.direction = "credit"
  OBVIOUS
<1>3. /\ debit.amount = money.amount /\ debit.account[2] = money.currency
      /\ credit.amount = money.amount /\ credit.account[2] = money.currency
  OBVIOUS
<1> HIDE DEF t, debit, credit
<1>4. /\ (CHOOSE x \in t.entries : x.direction = "debit") = debit
      /\ (CHOOSE x \in t.entries : x.direction = "credit") = credit
  BY <1>1, <1>2
<1>5. money = [amount |-> money.amount, currency |-> money.currency]
  BY <1>1 DEF Money
<1>6. /\ BookedMoney(t, "debit") = [amount |-> debit.amount, currency |-> debit.account[2]]
      /\ BookedMoney(t, "credit") = [amount |-> credit.amount, currency |-> credit.account[2]]
  BY <1>4 DEF BookedMoney
<1>7. BookedMoney(t, "debit") = money /\ BookedMoney(t, "credit") = money
  BY <1>3, <1>5, <1>6
<1> QED
  BY <1>1, <1>7 DEF t

\* A consumer that books anything books a payment that was not booked.
LEMMA CommitBooksNew ==
    ASSUME PipeInv, PipeInv', NEW c \in Consumers, ConsumerStep(c), journal' # journal
    PROVE  \E e \in EventIds :
             /\ payments[e] # None
             /\ journal' = Append(journal, Con!Booked(CreatedMessage(e)))
             /\ \A i \in DOMAIN journal : journal[i].payment # e
<1>1. conPc[c] \in Con!Booking /\ journal' = Append(journal, Con!Booked(Con!InHand(c)))
  BY ConsumerFacts DEF PipeInv
<1>2. PICK e \in EventIds : payments[e] # None /\ Con!InHand(c) = CreatedMessage(e)
  <2>1. IsCreated(Con!InHand(c))
    BY <1>1, InHandFresh DEF PipeInv, FlowInv, Con!Busy
  <2> QED
    BY <2>1 DEF IsCreated
<1>3. journal' = Append(journal, Con!Booked(CreatedMessage(e)))
  BY <1>1, <1>2
<1>4. ASSUME NEW i \in DOMAIN journal, journal[i].payment = e
      PROVE  FALSE
  <2>1. journal \in Seq(Con!Transactions)
    BY DEF PipeInv, Con!HandInv, Con!TypeOK
  <2>2. PICK f \in EventIds : payments[f] # None /\ journal[i] = Con!Booked(CreatedMessage(f))
    BY DEF PipeInv, FlowInv
  <2>3. journal[i].event = e /\ Con!Booked(CreatedMessage(e)).event = e
    BY <1>2, <1>4, <2>2, BookedMovement DEF PipeInv
  <2>4. /\ Len(journal) \in Nat /\ i \in 1..Len(journal)
        /\ i \in DOMAIN journal' /\ Len(journal) + 1 \in DOMAIN journal'
        /\ journal'[i] = journal[i]
        /\ journal'[Len(journal) + 1] = Con!Booked(CreatedMessage(e))
    BY <1>3, <2>1
  <2>5. i = Len(journal) + 1
    BY <2>3, <2>4 DEF PipeInv, Con!BookInv, Con!BookedAtMostOnce
  <2> QED
    BY <2>4, <2>5
<1> QED
  BY <1>2, <1>3, <1>4

\* No accepted payment is lost between the payment API, the outbox publisher, the
\* topic, the consumers, the dead letters and the retention runs.
THEOREM AllAccounted == Spec => []AccountedFor
<1>1. PipeInv => AccountedFor
  <2> SUFFICES ASSUME PipeInv, NEW p \in EventIds, payments[p] # None,
                      ~(outbox[p] # None /\ outbox[p].status # "published"),
                      ~(\E k \in Partitions : \E i \in DOMAIN topic[k] :
                          i > committed[k] /\ topic[k][i].event = p)
               PROVE  \/ IsBooked(p)
                      \/ \E j \in DOMAIN deadLetters : deadLetters[j].message.event = p
    BY DEF AccountedFor
  <2>1. PICK k \in Partitions : \E i \in DOMAIN topic[k] : topic[k][i].event = p
    BY DEF PipeInv, HandedOn, Pub!Delivered
  <2>2. PICK i \in DOMAIN topic[k] : topic[k][i].event = p
    BY <2>1
  <2>3. committed[k] \in Nat /\ topic[k] \in Seq(Con!ConsumerMessages)
    BY DEF PipeInv, Con!HandInv, Con!TypeOK
  <2>4. i \in 1..committed[k]
    BY <2>2, <2>3
  <2>5. Con!Settled(k, i)
    BY <2>4 DEF PipeInv, Con!LossInv, Con!NoSilentLoss
  <2>6. ~Con!Ignored(topic[k][i])
    BY CreatedFacts, Vocabulary DEF Con!Ignored, PipeInv, FlowInv, IsCreated
  <2>7. CASE topic[k][i].event \in Ever
    <3>1. PICK n \in DOMAIN journal : journal[n].event = p
      BY <2>2, <2>7 DEF Ever
    <3>2. journal[n].payment = p
      BY <3>1, BookedMovement DEF PipeInv, FlowInv
    <3> QED
      BY <3>2 DEF IsBooked
  <2>8. CASE \E j \in DOMAIN deadLetters :
               deadLetters[j].partition = k /\ deadLetters[j].offset = i
    BY <2>2, <2>8 DEF PipeInv, TimeInv, LettersFresh
  <2> QED
    BY <2>5, <2>6, <2>7, <2>8 DEF Con!Settled
<1> QED
  BY <1>1, PipeInvariant, PTL

\* No event is replayed with success twice, although the audits are deleted.
THEOREM ReplaysOnce == Spec => []ReplayedOnce
<1>1. PipeInv => ReplayedOnce
  BY DEF PipeInv
<1> QED
  BY <1>1, PipeInvariant, PTL

-----------------------------------------------------------------------------
(***************************************************************************)
(* The refinement.                                                         *)
(***************************************************************************)
Movements == [i \in DOMAIN journal |->
                [payment  |-> journal[i].payment,
                 debited  |-> BookedMoney(journal[i], "debit"),
                 credited |-> BookedMoney(journal[i], "credit")]]

\* A commit appends the movement of the payment.
LEMMA MovementAppended ==
    ASSUME PipeInv, NEW e \in EventIds, payments[e] # None,
           journal' = Append(journal, Con!Booked(CreatedMessage(e)))
    PROVE  /\ Movements' = Append(Movements, [payment |-> e, debited |-> payments[e].money,
                                              credited |-> payments[e].money])
           /\ \A i \in DOMAIN Movements : Movements[i].payment = journal[i].payment
<1> DEFINE t == Con!Booked(CreatedMessage(e))
           n == Len(journal)
           move == [payment |-> e, debited |-> payments[e].money, credited |-> payments[e].money]
           R == [payment: EventIds, debited: Money, credited: Money]
<1>1. journal \in Seq(Con!Transactions) /\ n \in Nat /\ DOMAIN journal = 1..n
  BY DEF PipeInv, Con!HandInv, Con!TypeOK
<1>2. /\ DOMAIN journal' = 1..(n + 1) /\ journal'[n + 1] = t
      /\ \A i \in 1..n : journal'[i] = journal[i]
  BY <1>1
<1>3. t.payment = e /\ BookedMoney(t, "debit") = payments[e].money
      /\ BookedMoney(t, "credit") = payments[e].money /\ payments[e].money \in Money
  BY BookedMovement, CreatedFacts DEF PipeInv
<1> HIDE DEF t
<1>4. \A i \in 1..n : Movements[i] \in R
  <2> SUFFICES ASSUME NEW i \in 1..n PROVE Movements[i] \in R
    OBVIOUS
  <2>1. PICK f \in EventIds : payments[f] # None /\ journal[i] = Con!Booked(CreatedMessage(f))
    BY <1>1 DEF PipeInv, FlowInv
  <2>2. /\ journal[i].payment = f /\ payments[f].money \in Money
        /\ BookedMoney(journal[i], "debit") = payments[f].money
        /\ BookedMoney(journal[i], "credit") = payments[f].money
    BY <2>1, BookedMovement, CreatedFacts DEF PipeInv
  <2> QED
    BY <1>1, <2>2 DEF Movements
<1>5. Movements \in Seq(R) /\ Len(Movements) = n /\ DOMAIN Movements = 1..n
  <2>1. Movements \in [1..n -> R]
    BY <1>1, <1>4 DEF Movements
  <2> HIDE DEF n, R
  <2> QED
    BY <1>1, <2>1
<1>6. /\ DOMAIN Movements' = 1..(n + 1)
      /\ Movements'[n + 1] = move
      /\ \A i \in 1..n : Movements'[i] = Movements[i]
  <2>1. Movements' = [i \in 1..(n + 1) |->
                        [payment  |-> journal'[i].payment,
                         debited  |-> BookedMoney(journal'[i], "debit"),
                         credited |-> BookedMoney(journal'[i], "credit")]]
    BY <1>2 DEF Movements, BookedMoney
  <2>2. Movements'[n + 1] = move
    BY <1>1, <1>2, <1>3, <2>1
  <2>3. \A i \in 1..n : Movements'[i] = Movements[i]
    BY <1>1, <1>2, <2>1 DEF Movements
  <2> QED
    BY <2>1, <2>2, <2>3
<1>7. Movements' = Append(Movements, move)
  <2>1. Movements' = [i \in 1..(n + 1) |-> Movements'[i]]
    BY <1>2 DEF Movements
  <2>2. move \in R
    BY <1>3
  <2>3. /\ Append(Movements, move) \in Seq(R) /\ Len(Append(Movements, move)) = n + 1
        /\ Append(Movements, move)[n + 1] = move
        /\ \A i \in 1..n : Append(Movements, move)[i] = Movements[i]
    <3> HIDE DEF move, R
    <3> QED
      BY <1>1, <1>5, <2>2
  <2>4. Append(Movements, move) = [i \in 1..(n + 1) |-> Append(Movements, move)[i]]
    <3> DEFINE longer == Append(Movements, move)
    <3>1. longer \in Seq(R) /\ Len(longer) = n + 1
      BY <2>3
    <3> HIDE DEF longer, R, n
    <3>2. longer \in [1..(n + 1) -> R]
      BY <3>1
    <3> QED
      BY <3>2 DEF longer
  <2>5. \A i \in 1..(n + 1) : Movements'[i] = Append(Movements, move)[i]
    <3>1. \A i \in 1..(n + 1) : i \in 1..n \/ i = n + 1
      BY <1>1
    <3> HIDE DEF move
    <3> QED
      BY <1>6, <2>3, <3>1
  <2> HIDE DEF move
  <2> QED
    BY <2>1, <2>4, <2>5
<1>8. \A i \in DOMAIN Movements : Movements[i].payment = journal[i].payment
  BY DEF Movements
<1> QED
  BY <1>7, <1>8

\* A step of the pipeline accepts a payment, books one, or is invisible.
LEMMA StepRefines ==
    ASSUME PipeInv, PipeInv', [Next]_vars
    PROVE  [Abstract!Next]_(Abstract!vars)
<1>1. Abstract!vars = <<payments, Movements>>
  BY DEF Abstract!vars, Movements
<1>2. journal' = journal => Movements' = Movements
  BY DEF Movements, BookedMoney
<1>3. ASSUME UNCHANGED <<payments, journal>>
      PROVE  UNCHANGED Abstract!vars
  BY <1>2, <1>3 DEF Abstract!vars, Movements
<1>4. ASSUME NEW p \in EventIds, NEW money \in Money, CreatePayment(p, money)
      PROVE  Abstract!Next
  <2>1. Movements' = Movements
    BY <1>2, <1>4 DEF CreatePayment, consumerVars
  <2>2. Abstract!Accept(p, money)
    BY <1>4, <2>1 DEF CreatePayment, Abstract!Accept, Movements
  <2>3. money \in Abstract!Money
    BY DEF Abstract!Money, Money
  <2> QED
    BY <2>2, <2>3 DEF Abstract!Next
<1>5. ASSUME NEW c \in Consumers, ConsumerStep(c)
      PROVE  Abstract!Next \/ UNCHANGED Abstract!vars
  <2>1. UNCHANGED payments
    BY <1>5 DEF ConsumerStep
  <2>2. CASE UNCHANGED journal
    BY <1>3, <2>1, <2>2
  <2>3. CASE ~UNCHANGED journal
    <3>1. PICK e \in EventIds :
            /\ payments[e] # None
            /\ journal' = Append(journal, Con!Booked(CreatedMessage(e)))
            /\ \A i \in DOMAIN journal : journal[i].payment # e
      BY <1>5, <2>3, CommitBooksNew
    <3>2. /\ Movements' = Append(Movements, [payment |-> e, debited |-> payments[e].money,
                                             credited |-> payments[e].money])
          /\ \A i \in DOMAIN Movements : Movements[i].payment = journal[i].payment
      BY <3>1, MovementAppended
    <3>3. \A i \in DOMAIN Movements : Movements[i].payment # e
      BY <3>1, <3>2 DEF Movements
    <3>4. Abstract!Book(e)
      BY <2>1, <3>1, <3>2, <3>3 DEF Abstract!Book, Abstract!Movement, Movements
    <3> QED
      BY <3>4 DEF Abstract!Next
  <2> QED
    BY <2>2, <2>3
<1>6. ASSUME \/ \E p \in Publishers : PublisherStep(p)
             \/ \E r \in Replays : ReplayStep(r)
             \/ \E s \in Sweeps : SweepStep(s)
             \/ Tick
             \/ UNCHANGED vars
      PROVE  UNCHANGED <<payments, journal>>
  BY <1>6 DEF PublisherStep, ReplayStep, SweepStep, Tick, vars, consumerVars
<1> QED
  BY <1>3, <1>4, <1>5, <1>6 DEF Next

\* The pipeline implements PaymentLedger: every payment is booked at most once and
\* for its own money, whatever is repeated and whichever rows retention deletes.
THEOREM Refinement == Spec => ImplementsPaymentLedger
<1>1. Init => Abstract!Init
  BY DEF Init, Consumer!Init, Abstract!Init
<1>2. PipeInv /\ PipeInv' /\ [Next]_vars => [Abstract!Next]_(Abstract!vars)
  BY StepRefines
<1> QED
  BY <1>1, <1>2, PipeInvariant, PTL DEF Spec, ImplementsPaymentLedger, Abstract!Spec

-----------------------------------------------------------------------------
(***************************************************************************)
(* The balances.  The rows of an account and the booked payments of its    *)
(* currency grow together, one row and one payment of the same amount with *)
(* each commit; the lemmas about sums and rows are those of the queries.   *)
(***************************************************************************)
Paid(currency) == [p \in BookedPayments(currency) |-> payments[p].money.amount]

MoneyInv ==
    \A currency \in Currencies :
        /\ Con!IsFiniteSet(BookedPayments(currency))
        /\ \A name \in Con!AccountNames :
             /\ Con!IsFiniteSet(Con!Rows(<<name, currency>>))
             /\ Con!Balance(<<name, currency>>) = Con!SumFunction(Paid(currency))

\* A booked payment has been accepted.
LEMMA BookedAccepted ==
    ASSUME FlowInv, NEW p \in EventIds, IsBooked(p)
    PROVE  payments[p] # None
<1>1. PICK i \in DOMAIN journal : journal[i].payment = p
  BY DEF IsBooked
<1>2. PICK e \in EventIds : payments[e] # None /\ journal[i] = Con!Booked(CreatedMessage(e))
  BY DEF FlowInv
<1> QED
  BY <1>1, <1>2, BookedMovement

\* The money of an accepted payment is a number of cents in a currency.
LEMMA AcceptedMoney ==
    ASSUME FlowInv, NEW p \in EventIds, payments[p] # None
    PROVE  payments[p].money.amount \in Int /\ payments[p].money.currency \in Currencies
<1>1. payments[p].money.amount \in Amounts /\ payments[p].money.currency \in Currencies
  BY DEF FlowInv, Accepted, Money
<1> QED
  BY <1>1, ConAssumptions, Con!AmountsAreNumbers

\* What is added up are numbers.
LEMMA PaidType ==
    ASSUME FlowInv, NEW currency
    PROVE  Paid(currency) \in [BookedPayments(currency) -> Int]
BY BookedAccepted, AcceptedMoney DEF Paid, BookedPayments

\* A step that books nothing keeps the sums: an accepted payment keeps its money.
LEMMA MoneyKept ==
    ASSUME PipeInv, MoneyInv, UNCHANGED journal,
           \A e \in EventIds : payments[e] # None => payments'[e] = payments[e]
    PROVE  MoneyInv'
<1>1. ASSUME NEW currency
      PROVE  BookedPayments(currency)' = BookedPayments(currency) /\ Paid(currency)' = Paid(currency)
  <2>1. \A p \in EventIds : IsBooked(p)' <=> IsBooked(p)
    BY DEF IsBooked
  <2>2. \A p \in EventIds : IsBooked(p) => payments'[p] = payments[p]
    BY BookedAccepted DEF PipeInv
  <2>3. BookedPayments(currency)' = BookedPayments(currency)
    BY <2>1, <2>2 DEF BookedPayments
  <2>4. \A p \in BookedPayments(currency) : payments'[p] = payments[p]
    BY <2>2 DEF BookedPayments
  <2> QED
    BY <2>3, <2>4 DEF Paid
<1>2. \A account : Con!Rows(account)' = Con!Rows(account) /\ Con!Balance(account)' = Con!Balance(account)
  BY DEF Con!Rows, Con!EntryRows, Con!Balance, Con!Signed, Con!normalBalance
<1> QED
  BY <1>1, <1>2 DEF MoneyInv

\* A sum with one more element, from the lemmas about the queries.
LEMMA SumGrowsHere ==
    ASSUME NEW S, Con!IsFiniteSet(S), NEW x, x \notin S, NEW f \in [S -> Int],
           NEW h \in [S \cup {x} -> Int], \A y \in S : h[y] = f[y]
    PROVE  /\ Con!SumFunction(h) = Con!SumFunction(f) + h[x]
           /\ Con!IsFiniteSet(S \cup {x})
<1>1. Con!SumFunction(h) = Con!SumFunction(f) + h[x]
  BY ConAssumptions, Con!SumGrows
<1>2. Con!IsFiniteSet(S \cup {x})
  BY ConAssumptions, Con!FS_AddElement
<1> QED
  BY <1>1, <1>2

\* A commit adds the payment's amount to both sides.
LEMMA MoneyCommit ==
    ASSUME PipeInv, MoneyInv, UNCHANGED payments, NEW e \in EventIds, payments[e] # None,
           journal' = Append(journal, Con!Booked(CreatedMessage(e))),
           \A i \in DOMAIN journal : journal[i].payment # e
    PROVE  MoneyInv'
<1> DEFINE m == CreatedMessage(e)
           n == Len(journal) + 1
           money == payments[e].money
<1>1. money.amount \in Int /\ m.payload = money
  BY AcceptedMoney, CreatedFacts DEF PipeInv
<1>2. Con!Booked(m).payment = e
  BY BookedMovement DEF PipeInv
<1>3. /\ DOMAIN journal' = DOMAIN journal \cup {n} /\ n \notin DOMAIN journal
      /\ journal'[n] = Con!Booked(m)
      /\ \A i \in DOMAIN journal : journal'[i] = journal[i]
  <2>1. journal \in Seq(Con!Transactions)
    BY DEF PipeInv, Con!HandInv, Con!TypeOK
  <2>2. /\ Len(journal) \in Nat /\ DOMAIN journal = 1..Len(journal)
        /\ DOMAIN journal' = 1..(Len(journal) + 1)
        /\ \A i \in DOMAIN journal : journal'[i] = journal[i]
        /\ journal'[n] = Con!Booked(m)
    BY <2>1
  <2> QED
    BY <2>2
<1> HIDE DEF m, n, money
<1>4. ASSUME NEW currency \in Currencies, NEW name \in Con!AccountNames
      PROVE  /\ Con!IsFiniteSet(Con!Rows(<<name, currency>>)')
             /\ currency # money.currency =>
                  Con!Balance(<<name, currency>>)' = Con!Balance(<<name, currency>>)
             /\ currency = money.currency =>
                  Con!Balance(<<name, currency>>)' = Con!Balance(<<name, currency>>) + money.amount
  <2>1. Con!TypeOK /\ Con!IsFiniteSet(Con!Rows(<<name, currency>>))
    BY DEF PipeInv, Con!HandInv, MoneyInv
  <2>2. m.payload.amount \in Int /\ m.payload.amount = money.amount
        /\ m.payload.currency = money.currency
    BY <1>1
  <2> QED
    BY <1>3, <2>1, <2>2, ConAssumptions, Con!BalanceAdded
<1>5. ~IsBooked(e) /\ \A p \in EventIds : IsBooked(p)' <=> (IsBooked(p) \/ p = e)
  BY <1>2, <1>3 DEF IsBooked
<1>6. ASSUME NEW currency \in Currencies
      PROVE  /\ currency # money.currency =>
                  BookedPayments(currency)' = BookedPayments(currency)
             /\ currency = money.currency =>
                  /\ e \notin BookedPayments(currency)
                  /\ BookedPayments(currency)' = BookedPayments(currency) \cup {e}
  BY <1>5 DEF BookedPayments, money
<1>7. ASSUME NEW currency \in Currencies, currency # money.currency
      PROVE  Paid(currency)' = Paid(currency) /\ Con!IsFiniteSet(BookedPayments(currency)')
  BY <1>6, <1>7 DEF Paid, MoneyInv
<1>8. ASSUME NEW currency \in Currencies, currency = money.currency
      PROVE  /\ Con!SumFunction(Paid(currency)') = Con!SumFunction(Paid(currency)) + money.amount
             /\ Con!IsFiniteSet(BookedPayments(currency)')
  <2> DEFINE S == BookedPayments(currency)
             before == Paid(currency)
             after == [p \in S \cup {e} |-> payments[p].money.amount]
  <2>1. Paid(currency)' = after /\ e \notin S /\ BookedPayments(currency)' = S \cup {e}
    BY <1>6, <1>8 DEF Paid
  <2>2. before \in [S -> Int] /\ Con!IsFiniteSet(S)
    BY PaidType DEF PipeInv, MoneyInv
  <2>3. after[e] = money.amount /\ \A p \in S : after[p] = before[p]
    BY DEF Paid, money
  <2>4. \A p \in S \cup {e} : after[p] \in Int
    BY <1>1, <2>2, <2>3
  <2>5. after \in [S \cup {e} -> Int]
    BY <2>4
  <2> HIDE DEF S, before, after
  <2>6. /\ Con!SumFunction(after) = Con!SumFunction(before) + after[e]
        /\ Con!IsFiniteSet(S \cup {e})
    BY <2>1, <2>2, <2>3, <2>5, SumGrowsHere
  <2> QED
    BY <2>1, <2>3, <2>6 DEF before
<1>9. ASSUME NEW currency \in Currencies, NEW name \in Con!AccountNames
      PROVE  Con!Balance(<<name, currency>>)' = Con!SumFunction(Paid(currency)')
  BY <1>4, <1>7, <1>8, <1>9 DEF MoneyInv
<1>10. MoneyInv' =
        \A currency \in Currencies :
            /\ Con!IsFiniteSet(BookedPayments(currency)')
            /\ \A name \in Con!AccountNames :
                 /\ Con!IsFiniteSet(Con!Rows(<<name, currency>>)')
                 /\ Con!Balance(<<name, currency>>)' = Con!SumFunction(Paid(currency)')
  BY DEF MoneyInv
<1> QED
  BY <1>4, <1>7, <1>8, <1>9, <1>10

\* At the start there is nothing to add up.
LEMMA InitMoney == Init => MoneyInv
<1> SUFFICES ASSUME Init PROVE MoneyInv
  OBVIOUS
<1>1. journal = <<>>
  BY DEF Init, Consumer!Init
<1>2. Con!Init
  BY <1>1 DEF Init, Consumer!Init, Con!Init, Ever
<1>3. Con!ReadInv
  BY <1>2, ConAssumptions, Con!InitReads
<1>4. ASSUME NEW account
      PROVE  Con!Rows(account) = {}
  BY <1>1 DEF Con!Rows, Con!EntryRows
<1>5. ASSUME NEW currency
      PROVE  BookedPayments(currency) = {} /\ Con!BookedMessages(currency) = {}
  BY <1>1 DEF BookedPayments, IsBooked, Con!BookedMessages, Ever
<1>6. ASSUME NEW currency \in Currencies
      PROVE  Con!SumFunction(Paid(currency)) = Con!BookedAmount(currency)
  <2>1. Con!BookedAmount(currency) =
          Con!SumFunction([m \in Con!BookedMessages(currency) |-> m.payload.amount])
    BY ConAssumptions, Con!SumsOf
  <2>2. [m \in Con!BookedMessages(currency) |-> m.payload.amount] = Paid(currency)
    BY <1>5 DEF Paid
  <2> QED
    BY <2>1, <2>2
<1> QED
  BY <1>3, <1>5, <1>6 DEF MoneyInv, Con!ReadInv, Con!FiniteReads, Con!BalancesAgree

\* Every step of the pipeline keeps the sums.
LEMMA NextMoney == PipeInv /\ PipeInv' /\ MoneyInv /\ [Next]_vars => MoneyInv'
<1> SUFFICES ASSUME PipeInv, PipeInv', MoneyInv, [Next]_vars PROVE MoneyInv'
  OBVIOUS
<1>1. ASSUME NEW p \in EventIds, NEW money \in Money, CreatePayment(p, money) PROVE MoneyInv'
  <2>1. UNCHANGED journal /\ \A e \in EventIds : payments[e] # None => payments'[e] = payments[e]
    BY <1>1 DEF CreatePayment, consumerVars, PipeInv, FlowInv
  <2> QED
    BY <2>1, MoneyKept
<1>2. ASSUME NEW c \in Consumers, ConsumerStep(c) PROVE MoneyInv'
  <2>1. UNCHANGED payments
    BY <1>2 DEF ConsumerStep
  <2>2. CASE UNCHANGED journal
    BY <2>1, <2>2, MoneyKept
  <2>3. CASE ~UNCHANGED journal
    BY <1>2, <2>1, <2>3, CommitBooksNew, MoneyCommit
  <2> QED
    BY <2>2, <2>3
<1>3. CASE \/ \E p \in Publishers : PublisherStep(p)
           \/ \E r \in Replays : ReplayStep(r)
           \/ \E s \in Sweeps : SweepStep(s)
           \/ Tick
           \/ UNCHANGED vars
  <2>1. UNCHANGED <<payments, journal>>
    BY <1>3 DEF PublisherStep, ReplayStep, SweepStep, Tick, vars, consumerVars
  <2> QED
    BY <2>1, MoneyKept
<1> QED
  BY <1>1, <1>2, <1>3 DEF Next

\* The balances that are read are the sums of the invariant.
LEMMA BalancesRead ==
    ASSUME PipeInv, MoneyInv
    PROVE  BalancesAddUp
<1>1. \A f : Consumer!SumFunction(f) = Con!SumFunction(f)
  BY DEF Consumer!SumFunction, Consumer!SumFunctionOnSet, Consumer!FoldFunctionOnSet,
         Consumer!MapThenFoldSet, Con!SumFunction, Con!SumFunctionOnSet, Con!FoldFunctionOnSet,
         Con!MapThenFoldSet
<1> SUFFICES ASSUME NEW name \in Con!AccountNames, NEW currency \in Currencies
             PROVE  (IF <<name, currency>> \in accounts
                     THEN Consumer!ListBalances[<<name, currency>>] ELSE 0)
                        = Con!SumFunction(Paid(currency))
  BY <1>1 DEF BalancesAddUp, Paid, Con!AccountNames
<1> DEFINE account == <<name, currency>>
<1>2. Con!Balance(account) = Con!SumFunction(Paid(currency)) /\ Con!IsFiniteSet(Con!Rows(account))
  BY DEF MoneyInv
<1>3. CASE account \in accounts
  <2>1. Consumer!ListBalances[account] = Con!Balance(account)
    BY <1>1, <1>3 DEF Consumer!ListBalances, Consumer!EntryRows, Consumer!Signed,
         Consumer!normalBalance, Con!Balance, Con!Rows, Con!EntryRows, Con!Signed,
         Con!normalBalance
  <2> QED
    BY <1>2, <1>3, <2>1
<1>4. CASE account \notin accounts
  <2>1. \A i \in DOMAIN journal : \A x \in journal[i].entries : x.account \in accounts
    BY DEF PipeInv, Con!BookInv, Con!ConsumedIffBooked
  <2>2. Con!Rows(account) = {}
    BY <1>4, <2>1 DEF Con!Rows, Con!EntryRows
  <2>3. [row \in Con!Rows(account) |-> Con!Signed(account, row.entry)] \in [Con!Rows(account) -> Int]
    BY <2>2
  <2>4. Con!Balance(account) = 0
    BY <1>2, <2>2, <2>3, ConAssumptions, Con!SumType DEF Con!Balance
  <2> QED
    BY <1>2, <1>4, <2>4
<1> QED
  BY <1>3, <1>4

\* The balances of the ledger are the sums of the payments that were accepted and
\* booked, each counted once, whatever is repeated, replayed and deleted between the
\* payment API and the query (ListBalances, postgres_ledger_repository.go:105-147).
THEOREM BalancesExact == Spec => []BalancesAddUp
<1>1. Spec => []MoneyInv
  BY InitMoney, NextMoney, PipeInvariant, PTL DEF Spec
<1>2. PipeInv /\ MoneyInv => BalancesAddUp
  BY BalancesRead
<1> QED
  BY <1>1, <1>2, PipeInvariant, PTL
=============================================================================
