------------------------ MODULE OutboxPublisherProofs ------------------------
(***************************************************************************)
(* What TLAPS proves of the outbox publishers, for any number of           *)
(* publishers, events and partitions, any batch size and any number of     *)
(* faults.                                                                 *)
(***************************************************************************)
EXTENDS OutboxPublisher, FiniteSetTheorems, TLAPS

Holding == {"publishing", "writing", "written", "refused"}

HasStatus(e, S) == outbox[e] # None /\ outbox[e].status \in S

(***************************************************************************)
(* The inductive invariant.  Disjoint batches are kept by a claim only     *)
(* because rows another publisher has locked are skipped (it is claiming), *)
(* rows it holds are no longer claimable (HeldPublishing), and it holds    *)
(* none otherwise (OthersEmpty).                                           *)
(***************************************************************************)
DisjointBatches == \A p, q \in Publishers : p # q => batch[p] \cap batch[q] = {}

LockedClaimable ==
    \A p \in Publishers : pc[p] = "claiming" =>
        \A e \in batch[p] : HasStatus(e, {"pending", "failed"})

HeldPublishing ==
    \A p \in Publishers : pc[p] \in Holding =>
        \A e \in batch[p] : HasStatus(e, {"publishing"})

OthersEmpty == \A p \in Publishers : pc[p] \in {"idle", "stopped"} => batch[p] = {}

CurrentHeld ==
    \A p \in Publishers : pc[p] \in {"writing", "written", "refused"} => current[p] \in batch[p]

WrittenDelivered == \A p \in Publishers : pc[p] = "written" => Delivered(current[p])

ClaimInv == DisjointBatches /\ LockedClaimable /\ HeldPublishing /\ OthersEmpty /\ CurrentHeld

IInv == TypeOK /\ ClaimInv /\ WrittenDelivered /\ PublishedWasDelivered

-----------------------------------------------------------------------------
\* Initially no event exists and no publisher holds anything.
LEMMA InitIInv == Init => IInv
BY PublisherAssumption
   DEF Init, IInv, TypeOK, Faults, Places, ClaimInv, DisjointBatches, LockedClaimable,
       HeldPublishing, OthersEmpty, CurrentHeld, WrittenDelivered, PublishedWasDelivered,
       Holding

\* The row of a new event (NewPaymentCreated, NewPaymentStatusChanged) is a
\* pending outbox row.
LEMMA EnqueuedRowType ==
    ASSUME TypeOK, NEW e \in EventIds, NEW row \in EnqueuedRows(e)
    PROVE  row \in OutboxRows /\ row.status = "pending"
BY DEF EnqueuedRows, NewPaymentCreated, NewPaymentStatusChanged, newPaymentEvent,
       OutboxRows, OutboxStatuses, EventTypes, Payloads, TypeOK

\* A claim counts one attempt, or none more of a row that is never written.
LEMMA CountedType ==
    ASSUME NEW e, outbox[e] \in OutboxRows
    PROVE  /\ Counted(e) \in Nat /\ Counted(e) >= outbox[e].attempts
           /\ e \notin Unwritable => Counted(e) = outbox[e].attempts + 1
<1>1. outbox[e].attempts \in Nat
  BY DEF OutboxRows
<1> QED
  BY <1>1 DEF Counted

\* A claimed row is an outbox row with status 'publishing'.
LEMMA ClaimedType ==
    ASSUME NEW e, outbox[e] \in OutboxRows
    PROVE  /\ Claimed(e) \in OutboxRows /\ Claimed(e).status = "publishing"
           /\ Claimed(e).attempts = Counted(e)
<1>1. Counted(e) \in Nat
  BY CountedType
<1> QED
  BY <1>1 DEF Claimed, OutboxRows, OutboxStatuses

\* A claim changes the claimed rows only: they become 'publishing'.
LEMMA AfterClaimFacts ==
    ASSUME TypeOK, NEW S \in SUBSET EventIds,
           \A e \in S : outbox[e] # None,
           outbox' = AfterClaim(S)
    PROVE  /\ outbox' \in [EventIds -> OutboxRows \cup {None}]
           /\ \A e \in S : HasStatus(e, {"publishing"})'
           /\ \A e \in EventIds \ S : outbox'[e] = outbox[e]
<1> USE DEF TypeOK
<1>1. \A e \in S : outbox'[e] \in OutboxRows /\ outbox'[e].status = "publishing"
  BY ClaimedType DEF AfterClaim
<1>2. \A e \in EventIds \ S : outbox'[e] = outbox[e]
  BY DEF AfterClaim
<1>3. outbox' \in [EventIds -> OutboxRows \cup {None}]
  BY <1>1, <1>2 DEF AfterClaim
<1> QED
  BY <1>1, <1>2, <1>3, NoneAssumption DEF HasStatus

\* Writing event e appends its message: the topic keeps its type, everything
\* delivered stays delivered, and e is delivered.
LEMMA WriteFacts ==
    ASSUME TypeOK, NEW e \in EventIds, outbox[e] # None, topic' = Append1(e)
    PROVE  /\ topic' \in [Partitions -> Seq(Messages)]
           /\ Delivered(e)'
           /\ \A f \in EventIds : Delivered(f) => Delivered(f)'
<1> DEFINE k == PartitionOf[outbox[e].payment]
           m == MessageOf(e, outbox[e])
<1>1. outbox[e] \in OutboxRows
  BY DEF TypeOK
<1>2. m \in Messages /\ k \in Partitions /\ m.event = e
  BY <1>1, PublisherAssumption DEF MessageOf, Messages, OutboxRows
<1>3. topic' = [topic EXCEPT ![k] = Append(topic[k], m)]
  BY DEF Append1
<1> HIDE DEF k, m
<1>4. topic \in [Partitions -> Seq(Messages)] /\ topic[k] \in Seq(Messages)
  BY <1>2 DEF TypeOK
<1>5. topic' \in [Partitions -> Seq(Messages)]
  BY <1>2, <1>3, <1>4
<1>6. Delivered(e)'
  <2>1. Len(topic[k]) + 1 \in DOMAIN topic'[k] /\ topic'[k][Len(topic[k]) + 1] = m
    BY <1>2, <1>3, <1>4
  <2> QED
    BY <2>1, <1>2 DEF Delivered
<1>7. ASSUME NEW f \in EventIds, Delivered(f)
      PROVE  Delivered(f)'
  <2>1. PICK j \in Partitions : \E i \in DOMAIN topic[j] : topic[j][i].event = f
    BY <1>7 DEF Delivered
  <2>2. PICK i \in DOMAIN topic[j] : topic[j][i].event = f
    BY <2>1
  <2>3. i \in DOMAIN topic'[j] /\ topic'[j][i] = topic[j][i]
    BY <2>2, <1>2, <1>3, <1>4
  <2> QED
    BY <2>2, <2>3 DEF Delivered
<1> QED
  BY <1>5, <1>6, <1>7

\* A fault that may happen once more is counted within its bound.
LEMMA FaultKept ==
    ASSUME faults \in Faults,
           \/ faults' = faults
           \/ faults.stop < MaxStops /\ faults' = [faults EXCEPT !.stop = @ + 1]
           \/ faults.claim < MaxClaimErrors /\ faults' = [faults EXCEPT !.claim = @ + 1]
           \/ faults.db < MaxDbErrors /\ faults' = [faults EXCEPT !.db = @ + 1]
           \/ faults.write < MaxWriteErrors /\ faults' = [faults EXCEPT !.write = @ + 1]
    PROVE  faults' \in Faults
<1>1. \A n, m \in Nat : n < m => n + 1 \in 0..m
  OBVIOUS
<1>2. /\ faults.stop \in 0..MaxStops /\ faults.claim \in 0..MaxClaimErrors
      /\ faults.db \in 0..MaxDbErrors /\ faults.write \in 0..MaxWriteErrors
  BY DEF Faults
<1>3. CASE faults.stop < MaxStops /\ faults' = [faults EXCEPT !.stop = @ + 1]
  <2>1. faults.stop + 1 \in 0..MaxStops
    BY <1>1, <1>2, <1>3, PublisherAssumption
  <2> QED
    BY <2>1, <1>3 DEF Faults
<1>4. CASE faults.claim < MaxClaimErrors /\ faults' = [faults EXCEPT !.claim = @ + 1]
  <2>1. faults.claim + 1 \in 0..MaxClaimErrors
    BY <1>1, <1>2, <1>4, PublisherAssumption
  <2> QED
    BY <2>1, <1>4 DEF Faults
<1>5. CASE faults.db < MaxDbErrors /\ faults' = [faults EXCEPT !.db = @ + 1]
  <2>1. faults.db + 1 \in 0..MaxDbErrors
    BY <1>1, <1>2, <1>5, PublisherAssumption
  <2> QED
    BY <2>1, <1>5 DEF Faults
<1>6. CASE faults.write < MaxWriteErrors /\ faults' = [faults EXCEPT !.write = @ + 1]
  <2>1. faults.write + 1 \in 0..MaxWriteErrors
    BY <1>1, <1>2, <1>6, PublisherAssumption
  <2> QED
    BY <2>1, <1>6 DEF Faults
<1> QED
  BY <1>3, <1>4, <1>5, <1>6

\* What is delivered depends on the topic alone.
LEMMA DeliveredUnchanged ==
    ASSUME topic' = topic, NEW e
    PROVE  Delivered(e)' <=> Delivered(e)
BY DEF Delivered

-----------------------------------------------------------------------------
(***************************************************************************)
(* The inductive step, one lemma per action.                               *)
(***************************************************************************)

\* A new row is pending and held by nobody.
LEMMA EnqueueStep ==
    ASSUME IInv, NEW e \in EventIds, Enqueue(e)
    PROVE  IInv'
<1>1. PICK row \in EnqueuedRows(e) : outbox' = [outbox EXCEPT ![e] = row]
  BY DEF Enqueue
<1>2. outbox[e] = None /\ UNCHANGED <<topic, pc, batch, current, unacked, faults>>
  BY DEF Enqueue
<1>3. row \in OutboxRows /\ row.status = "pending"
  BY <1>1, EnqueuedRowType DEF IInv
<1>4. TypeOK'
  BY <1>1, <1>2, <1>3 DEF IInv, TypeOK
<1>5. \A f \in EventIds : outbox[f] # None => outbox'[f] = outbox[f]
  BY <1>1, <1>2 DEF IInv, TypeOK
<1>6. ClaimInv'
  BY <1>2, <1>5 DEF IInv, ClaimInv, TypeOK, DisjointBatches, LockedClaimable,
                    HeldPublishing, OthersEmpty, CurrentHeld, HasStatus
<1>7. WrittenDelivered'
  BY <1>2 DEF IInv, WrittenDelivered, Delivered
<1>8. PublishedWasDelivered'
  <2>1. \A f \in EventIds \ {e} : outbox'[f] = outbox[f]
    BY <1>1 DEF IInv, TypeOK
  <2>2. outbox'[e].status # "published"
    BY <1>1, <1>3 DEF IInv, TypeOK
  <2> QED
    BY <1>2, <2>1, <2>2 DEF IInv, PublishedWasDelivered, Delivered
<1> QED
  BY <1>4, <1>6, <1>7, <1>8 DEF IInv

\* FOR UPDATE SKIP LOCKED: the rows a claim selects are in no other batch.
LEMMA ClaimSelectStep ==
    ASSUME IInv, NEW p \in Publishers, ClaimSelect(p)
    PROVE  IInv'
<1> DEFINE S == Oldest(Candidates, BatchSize)
<1>1. /\ batch' = [batch EXCEPT ![p] = S]
      /\ pc' = [pc EXCEPT ![p] = "claiming"]
      /\ UNCHANGED <<outbox, topic, current, unacked, faults>>
  BY DEF ClaimSelect
<1>2. /\ S \in SUBSET EventIds
      /\ \A e \in S : HasStatus(e, {"pending", "failed"}) /\ e \notin Locked
  BY DEF Oldest, Candidates, HasStatus, Claimable
<1> HIDE DEF S
<1>3. \A q \in Publishers \ {p} : batch[q] \cap S = {}
  <2> SUFFICES ASSUME NEW q \in Publishers \ {p}, NEW e \in S, e \in batch[q]
               PROVE  FALSE
    OBVIOUS
  <2>1. pc[q] # "claiming"
    BY <1>2 DEF Locked
  <2>2. pc[q] \notin Holding
    BY <1>2 DEF IInv, ClaimInv, HeldPublishing, HasStatus
  <2>3. pc[q] \notin {"idle", "stopped"}
    BY DEF IInv, ClaimInv, OthersEmpty
  <2> QED
    BY <2>1, <2>2, <2>3 DEF IInv, TypeOK, Places, Holding
<1>4. TypeOK'
  BY <1>1, <1>2 DEF IInv, TypeOK, Places
<1>5. DisjointBatches'
  BY <1>1, <1>3 DEF IInv, ClaimInv, TypeOK, DisjointBatches
<1>6. LockedClaimable'
  BY <1>1, <1>2 DEF IInv, ClaimInv, TypeOK, LockedClaimable, HasStatus
<1>7. HeldPublishing' /\ OthersEmpty' /\ CurrentHeld'
  BY <1>1 DEF IInv, ClaimInv, TypeOK, HeldPublishing, OthersEmpty, CurrentHeld, HasStatus, Holding
<1>8. WrittenDelivered' /\ PublishedWasDelivered'
  BY <1>1 DEF IInv, TypeOK, WrittenDelivered, PublishedWasDelivered, Delivered
<1> QED
  BY <1>4, <1>5, <1>6, <1>7, <1>8 DEF IInv, ClaimInv

\* The commit of a claim, whether its answer arrives (the batch is kept) or is
\* lost (the batch is forgotten): disjointness leaves the other batches alone.
LEMMA ClaimCommitStep ==
    ASSUME IInv, NEW p \in Publishers, ClaimCommit(p) \/ ClaimCommitLost(p)
    PROVE  IInv'
<1>1. pc[p] = "claiming" /\ outbox' = AfterClaim(batch[p])
      /\ UNCHANGED <<topic, current, unacked>>
  BY DEF ClaimCommit, ClaimCommitLost
<1>2. /\ outbox' \in [EventIds -> OutboxRows \cup {None}]
      /\ \A e \in batch[p] : HasStatus(e, {"publishing"})'
      /\ \A e \in EventIds \ batch[p] : outbox'[e] = outbox[e]
  <2>1. batch[p] \in SUBSET EventIds /\ \A e \in batch[p] : outbox[e] # None
    BY <1>1 DEF IInv, TypeOK, ClaimInv, LockedClaimable, HasStatus
  <2> QED
    BY <1>1, <2>1, AfterClaimFacts DEF IInv
<1>3. \/ pc' = [pc EXCEPT ![p] = "publishing"] /\ UNCHANGED <<batch, faults>>
      \/ /\ pc' = [pc EXCEPT ![p] = "idle"]
         /\ batch' = [batch EXCEPT ![p] = {}]
         /\ faults.db < MaxDbErrors
         /\ faults' = [faults EXCEPT !.db = @ + 1]
  BY DEF ClaimCommit, ClaimCommitLost
<1>4. faults' \in Faults
  BY <1>3, FaultKept DEF IInv, TypeOK
<1>5. TypeOK'
  BY <1>1, <1>2, <1>3, <1>4 DEF IInv, TypeOK, Places
<1>6. \A q \in Publishers \ {p} : \A e \in batch[q] : outbox'[e] = outbox[e]
  BY <1>2 DEF IInv, TypeOK, ClaimInv, DisjointBatches
<1>7. \A q \in Publishers \ {p} : pc'[q] = pc[q] /\ batch'[q] = batch[q]
  BY <1>3 DEF IInv, TypeOK
<1>8. DisjointBatches' /\ OthersEmpty' /\ CurrentHeld'
  <2>1. DisjointBatches'
    BY <1>3, <1>7 DEF IInv, TypeOK, ClaimInv, DisjointBatches
  <2>2. OthersEmpty'
    BY <1>3, <1>7 DEF IInv, TypeOK, ClaimInv, OthersEmpty
  <2>3. CurrentHeld'
    BY <1>1, <1>3, <1>7 DEF IInv, TypeOK, ClaimInv, CurrentHeld
  <2> QED
    BY <2>1, <2>2, <2>3
<1>9. LockedClaimable'
  BY <1>3, <1>6, <1>7 DEF IInv, TypeOK, ClaimInv, LockedClaimable, HasStatus
<1>10. HeldPublishing'
  <2> SUFFICES ASSUME NEW q \in Publishers, pc'[q] \in Holding, NEW e \in batch'[q]
               PROVE  HasStatus(e, {"publishing"})'
    BY DEF HeldPublishing
  <2>1. CASE q = p
    BY <2>1, <1>2, <1>3 DEF IInv, TypeOK, Holding
  <2>2. CASE q # p
    BY <2>2, <1>6, <1>7 DEF IInv, ClaimInv, HeldPublishing, HasStatus
  <2> QED
    BY <2>1, <2>2
<1>11. WrittenDelivered'
  BY <1>1, <1>3 DEF IInv, TypeOK, WrittenDelivered, Delivered
<1>12. PublishedWasDelivered'
  BY <1>1, <1>2 DEF IInv, TypeOK, PublishedWasDelivered, Delivered, HasStatus
<1> QED
  BY <1>5, <1>8, <1>9, <1>10, <1>11, <1>12 DEF IInv, ClaimInv

\* A claim that rolls back, a stop and a restart leave table and topic alone and
\* the publisher with an empty batch.
LEMMA ReleaseStep ==
    ASSUME IInv, NEW p \in Publishers, ClaimFails(p) \/ Stop(p) \/ Restart(p)
    PROVE  IInv'
<1>1. /\ UNCHANGED <<outbox, topic>>
      /\ pc' = [pc EXCEPT ![p] = pc'[p]] /\ pc'[p] \in {"idle", "stopped"}
      /\ batch' = [batch EXCEPT ![p] = {}]
      /\ \A q \in Publishers \ {p} : current'[q] = current[q]
      /\ current' \in [Publishers -> EventIds \cup {None}]
      /\ unacked' \in [Publishers -> Nat]
  BY DEF IInv, TypeOK, ClaimInv, OthersEmpty, ClaimFails, Stop, Restart
<1>2. faults' \in Faults
  BY FaultKept DEF IInv, TypeOK, ClaimFails, Stop, Restart
<1>3. TypeOK'
  BY <1>1, <1>2 DEF IInv, TypeOK, Places
<1>4. ClaimInv'
  <2>1. DisjointBatches' /\ OthersEmpty'
    BY <1>1 DEF IInv, TypeOK, ClaimInv, DisjointBatches, OthersEmpty
  <2>2. LockedClaimable' /\ HeldPublishing'
    BY <1>1 DEF IInv, TypeOK, ClaimInv, LockedClaimable, HeldPublishing, HasStatus, Holding
  <2>3. CurrentHeld'
    BY <1>1 DEF IInv, TypeOK, ClaimInv, CurrentHeld
  <2> QED
    BY <2>1, <2>2, <2>3 DEF ClaimInv
<1>5. WrittenDelivered' /\ PublishedWasDelivered'
  <2>1. WrittenDelivered'
    <3>1. ASSUME NEW q \in Publishers, pc'[q] = "written"
          PROVE  pc[q] = "written" /\ current'[q] = current[q]
      BY <1>1, <3>1 DEF IInv, TypeOK
    <3>2. \A e : Delivered(e)' <=> Delivered(e)
      BY <1>1, DeliveredUnchanged
    <3> QED
      BY <3>1, <3>2 DEF IInv, WrittenDelivered
  <2>2. PublishedWasDelivered'
    BY <1>1 DEF IInv, PublishedWasDelivered, Delivered
  <2> QED
    BY <2>1, <2>2
<1> QED
  BY <1>3, <1>4, <1>5 DEF IInv

\* The actions of a call of WriteMessages for event e.
CallStep(p, e) ==
    WriteRetries(p, e) \/ WriteAcked(p, e) \/ WriteFails(p, e) \/ WriteRefused(p, e)

\* What a step of a call changes: the publisher turns to e, a row of its batch,
\* and a message is appended, except when the write is refused.
LEMMA CallFacts ==
    ASSUME IInv, NEW p \in Publishers, NEW e \in EventIds, CallStep(p, e)
    PROVE  /\ pc[p] \in {"publishing", "writing"} /\ e \in batch[p]
           /\ pc[p] = "writing" => e = current[p]
           /\ current' = [current EXCEPT ![p] = e]
           /\ UNCHANGED <<outbox, batch>>
           /\ \/ topic' = Append1(e) /\ pc' = [pc EXCEPT ![p] = "writing"]
              \/ topic' = Append1(e) /\ pc' = [pc EXCEPT ![p] = "written"]
              \/ topic' = Append1(e) /\ pc' = [pc EXCEPT ![p] = "refused"]
              \/ topic' = topic /\ pc' = [pc EXCEPT ![p] = "refused"]
           /\ unacked' \in [Publishers -> Nat]
           /\ outbox[e] # None
<1>1. pc[p] \in {"publishing", "writing"} /\ e \in batch[p] /\ (pc[p] = "writing" => e = current[p])
  BY DEF CallStep, WriteRetries, WriteAcked, WriteFails, WriteRefused, Writing, IInv, ClaimInv,
         CurrentHeld
<1>2. outbox[e] # None
  BY <1>1 DEF IInv, ClaimInv, HeldPublishing, HasStatus, Holding
<1>3. unacked' \in [Publishers -> Nat]
  BY DEF CallStep, WriteRetries, WriteAcked, WriteFails, WriteRefused, IInv, TypeOK
<1>4. CASE WriteRetries(p, e)
  BY <1>1, <1>2, <1>3, <1>4 DEF WriteRetries
<1>5. CASE WriteAcked(p, e)
  BY <1>1, <1>2, <1>3, <1>5 DEF WriteAcked
<1>6. CASE WriteFails(p, e)
  BY <1>1, <1>2, <1>3, <1>6 DEF WriteFails
<1>7. CASE WriteRefused(p, e)
  BY <1>1, <1>2, <1>3, <1>7 DEF WriteRefused
<1> QED
  BY <1>4, <1>5, <1>6, <1>7 DEF CallStep

\* A write, acknowledged or not: only an acknowledged one reaches "written",
\* and then the message is on the topic.
LEMMA WriteStep ==
    ASSUME IInv, NEW p \in Publishers, NEW e \in EventIds, CallStep(p, e)
    PROVE  IInv'
<1>1. /\ pc[p] \in {"publishing", "writing"} /\ e \in batch[p]
      /\ current' = [current EXCEPT ![p] = e]
      /\ unacked' \in [Publishers -> Nat]
      /\ UNCHANGED <<outbox, batch>>
  BY CallFacts
<1>2. \/ topic' = Append1(e) /\ pc' = [pc EXCEPT ![p] = "writing"]
      \/ topic' = Append1(e) /\ pc' = [pc EXCEPT ![p] = "written"]
      \/ topic' = Append1(e) /\ pc' = [pc EXCEPT ![p] = "refused"]
      \/ topic' = topic /\ pc' = [pc EXCEPT ![p] = "refused"]
  BY CallFacts
<1>3. faults' \in Faults
  BY FaultKept DEF IInv, TypeOK, CallStep, WriteRetries, WriteAcked, WriteFails, WriteRefused, WriteError
<1>4. outbox[e] # None
  BY <1>1 DEF IInv, ClaimInv, HeldPublishing, HasStatus, Holding
<1>5. /\ topic' \in [Partitions -> Seq(Messages)]
      /\ \A f \in EventIds : Delivered(f) => Delivered(f)'
      /\ pc'[p] = "written" => Delivered(e)'
  <2>1. CASE topic' = Append1(e)
    BY <2>1, <1>4, WriteFacts DEF IInv
  <2>2. CASE topic' = topic /\ pc' = [pc EXCEPT ![p] = "refused"]
    BY <2>2 DEF IInv, TypeOK, Delivered
  <2> QED
    BY <2>1, <2>2, <1>2
<1>6. TypeOK'
  BY <1>1, <1>2, <1>3, <1>5 DEF IInv, TypeOK, Places
<1>7. ClaimInv'
  <2>1. pc' = [pc EXCEPT ![p] = pc'[p]] /\ pc'[p] \in {"writing", "written", "refused"}
    BY <1>2 DEF IInv, TypeOK
  <2>2. DisjointBatches' /\ OthersEmpty'
    BY <1>1, <2>1 DEF IInv, TypeOK, ClaimInv, DisjointBatches, OthersEmpty
  <2>3. LockedClaimable' /\ HeldPublishing'
    BY <1>1, <2>1 DEF IInv, TypeOK, ClaimInv, LockedClaimable, HeldPublishing, HasStatus, Holding
  <2>4. CurrentHeld'
    BY <1>1, <2>1 DEF IInv, TypeOK, ClaimInv, CurrentHeld
  <2> QED
    BY <2>2, <2>3, <2>4 DEF ClaimInv
<1>8. WrittenDelivered'
  <2> SUFFICES ASSUME NEW q \in Publishers, pc'[q] = "written"
               PROVE  Delivered(current[q])'
    BY DEF WrittenDelivered
  <2>1. CASE q = p
    BY <2>1, <1>1, <1>5 DEF IInv, TypeOK
  <2>2. CASE q # p
    <3>1. pc[q] = "written" /\ current'[q] = current[q]
      BY <2>2, <1>1, <1>2 DEF IInv, TypeOK
    <3>2. current[q] \in EventIds /\ Delivered(current[q])
      BY <3>1 DEF IInv, TypeOK, ClaimInv, CurrentHeld, WrittenDelivered
    <3> QED
      BY <3>1, <3>2, <1>5
  <2> QED
    BY <2>1, <2>2
<1>9. PublishedWasDelivered'
  BY <1>1, <1>5 DEF IInv, PublishedWasDelivered
<1> QED
  BY <1>6, <1>7, <1>8, <1>9 DEF IInv

\* A mark, or the failure of one: the row marked is in the publisher's own batch,
\* so no other publisher's rows change, and it is marked published only after an
\* acknowledged write.
LEMMA MarkStep ==
    ASSUME IInv, NEW p \in Publishers, MarkPublished(p) \/ MarkFailed(p) \/ MarkError(p)
    PROVE  IInv'
<1> DEFINE e == current[p]
<1>1. /\ pc[p] \in {"written", "refused"} /\ NextRow(p) /\ topic' = topic
      /\ \/ pc[p] = "written" /\ outbox' = [outbox EXCEPT ![e].status = "published"]
         \/ pc[p] = "refused" /\ outbox' = [outbox EXCEPT ![e].status = "failed"]
         \/ outbox' = outbox
  BY DEF MarkPublished, MarkFailed, MarkError
<1>2. faults' \in Faults
  BY FaultKept DEF IInv, TypeOK, MarkPublished, MarkFailed, MarkError
<1>u. unacked' = unacked
  BY DEF MarkPublished, MarkFailed, MarkError
<1>3. /\ batch' = [batch EXCEPT ![p] = batch[p] \ {e}]
      /\ current' = [current EXCEPT ![p] = None]
      /\ \/ pc' = [pc EXCEPT ![p] = "idle"] /\ batch[p] \subseteq {e}
         \/ pc' = [pc EXCEPT ![p] = "publishing"]
  BY <1>1 DEF NextRow
<1>4. e \in batch[p] /\ e \in EventIds /\ outbox[e] \in OutboxRows /\ outbox[e].status = "publishing"
  BY <1>1 DEF IInv, TypeOK, ClaimInv, CurrentHeld, HeldPublishing, HasStatus, Holding
<1> HIDE DEF e
<1>5. \A f \in EventIds \ {e} : outbox'[f] = outbox[f]
  BY <1>1, <1>4 DEF IInv, TypeOK
<1>6. outbox'[e] \in OutboxRows /\ (outbox'[e].status = "published" => pc[p] = "written")
  <2>1. CASE pc[p] = "written" /\ outbox' = [outbox EXCEPT ![e].status = "published"]
    <3>1. outbox'[e] = [outbox[e] EXCEPT !.status = "published"]
      BY <2>1, <1>4 DEF IInv, TypeOK
    <3> QED
      BY <2>1, <3>1, <1>4 DEF OutboxRows, OutboxStatuses
  <2>2. CASE outbox' = [outbox EXCEPT ![e].status = "failed"]
    <3>1. outbox'[e] = [outbox[e] EXCEPT !.status = "failed"]
      BY <2>2, <1>4 DEF IInv, TypeOK
    <3> QED
      BY <3>1, <1>4 DEF OutboxRows, OutboxStatuses
  <2>3. CASE outbox' = outbox
    BY <2>3, <1>4
  <2> QED
    BY <1>1, <2>1, <2>2, <2>3
<1>7. outbox' \in [EventIds -> OutboxRows \cup {None}]
  BY <1>1, <1>4, <1>5, <1>6 DEF IInv, TypeOK
<1>8. TypeOK'
  BY <1>1, <1>2, <1>u, <1>3, <1>7 DEF IInv, TypeOK, Places
<1>9. \A q \in Publishers : \A f \in batch'[q] : f \in batch[q] /\ outbox'[f] = outbox[f]
  BY <1>3, <1>4, <1>5 DEF IInv, TypeOK, ClaimInv, DisjointBatches
<1>10. \A q \in Publishers \ {p} : pc'[q] = pc[q] /\ batch'[q] = batch[q] /\ current'[q] = current[q]
  BY <1>3 DEF IInv, TypeOK
<1>11. DisjointBatches' /\ OthersEmpty' /\ CurrentHeld'
  BY <1>3, <1>9, <1>10 DEF IInv, TypeOK, ClaimInv, DisjointBatches, OthersEmpty, CurrentHeld
<1>12. LockedClaimable' /\ HeldPublishing'
  BY <1>1, <1>3, <1>9, <1>10
     DEF IInv, TypeOK, ClaimInv, LockedClaimable, HeldPublishing, HasStatus, Holding
<1>13. WrittenDelivered'
  BY <1>1, <1>3 DEF IInv, TypeOK, WrittenDelivered, Delivered
<1>14. PublishedWasDelivered'
  <2>1. \A f \in EventIds : Delivered(f)' <=> Delivered(f)
    BY <1>1, DeliveredUnchanged
  <2>2. pc[p] = "written" => Delivered(e)
    BY DEF IInv, WrittenDelivered, e
  <2> QED
    BY <2>1, <2>2, <1>5, <1>6 DEF IInv, PublishedWasDelivered
<1> QED
  BY <1>8, <1>11, <1>12, <1>13, <1>14 DEF IInv, ClaimInv

\* The inductive invariant is kept by every step.
LEMMA NextIInv == IInv /\ [Next]_vars => IInv'
<1> SUFFICES ASSUME IInv, [Next]_vars PROVE IInv'
  OBVIOUS
<1>1. CASE UNCHANGED vars
  BY <1>1 DEF vars, IInv, TypeOK, ClaimInv, DisjointBatches, LockedClaimable, HeldPublishing,
              OthersEmpty, CurrentHeld, HasStatus, WrittenDelivered, PublishedWasDelivered,
              Delivered
<1>2. ASSUME NEW e \in EventIds, Enqueue(e) PROVE IInv'
  BY <1>2, EnqueueStep
<1>3. ASSUME NEW p \in Publishers, Work(p) PROVE IInv'
  <2>1. CASE ClaimNothing(p)
    BY <2>1, <1>1 DEF ClaimNothing
  <2>2. CASE \E e \in EventIds : WriteAcked(p, e) \/ WriteRefused(p, e)
    BY <2>2, WriteStep DEF CallStep
  <2> QED
    BY <1>3, <2>1, <2>2, ClaimSelectStep, ClaimCommitStep, MarkStep, ReleaseStep DEF Work
<1>4. ASSUME NEW p \in Publishers, Fault(p) PROVE IInv'
  <2>1. CASE \E e \in EventIds : WriteRetries(p, e) \/ WriteFails(p, e)
    BY <2>1, WriteStep DEF CallStep
  <2> QED
    BY <1>4, <2>1, ClaimCommitStep, MarkStep, ReleaseStep DEF Fault
<1> QED
  BY <1>1, <1>2, <1>3, <1>4 DEF Next

LEMMA AlwaysIInv == Spec => []IInv
BY InitIInv, NextIInv, PTL DEF Spec

-----------------------------------------------------------------------------
\* The table, the topic and the publishers' state keep their types.
THEOREM TypeCorrect == Spec => []TypeOK
<1>1. IInv => TypeOK
  BY DEF IInv
<1> QED
  BY <1>1, AlwaysIInv, PTL

\* ClaimPending hands every row to one publisher at a time.
THEOREM ExclusiveClaims == Spec => []ClaimsExclusive
<1>1. IInv => ClaimsExclusive
  BY DEF IInv, ClaimInv, DisjointBatches, HeldPublishing, HasStatus, Holding, ClaimsExclusive
<1> QED
  BY <1>1, AlwaysIInv, PTL

\* PublishBatch marks a row published only when its message is on the topic.
THEOREM PublishedDelivered == Spec => []PublishedWasDelivered
<1>1. IInv => PublishedWasDelivered
  BY DEF IInv
<1> QED
  BY <1>1, AlwaysIInv, PTL

-----------------------------------------------------------------------------
\* No step changes the row of an event that no publisher holds, and a claim
\* picks it up only when its status is claimable.
LEMMA UnheldRow ==
    ASSUME IInv, [Next]_vars, NEW e \in EventIds, outbox[e] # None,
           \A p \in Publishers : e \notin batch[p]
    PROVE  /\ outbox'[e] = outbox[e]
           /\ ~Claimable(outbox[e].status) => \A p \in Publishers : e \notin batch'[p]
<1>1. CASE UNCHANGED vars
  BY <1>1 DEF vars
<1>2. ASSUME NEW f \in EventIds, Enqueue(f) PROVE outbox'[e] = outbox[e] /\ batch' = batch
  BY <1>2 DEF Enqueue, IInv, TypeOK
<1>3. ASSUME NEW p \in Publishers, Work(p) \/ Fault(p)
      PROVE  /\ outbox'[e] = outbox[e]
             /\ ~Claimable(outbox[e].status) => \A q \in Publishers : e \notin batch'[q]
  <2>1. CASE ClaimNothing(p)
    BY <2>1 DEF ClaimNothing, vars
  <2>2. CASE ClaimSelect(p)
    BY <2>2 DEF ClaimSelect, Oldest, Candidates, IInv, TypeOK
  <2>3. CASE ClaimCommit(p) \/ ClaimCommitLost(p)
    <3>1. /\ outbox' = AfterClaim(batch[p])
          /\ batch' = batch \/ batch' = [batch EXCEPT ![p] = {}]
      BY <2>3 DEF ClaimCommit, ClaimCommitLost
    <3> QED
      BY <3>1 DEF AfterClaim, IInv, TypeOK
  <2>4. CASE \E f \in EventIds : CallStep(p, f)
    BY <2>4, CallFacts
  <2>5. CASE MarkPublished(p) \/ MarkFailed(p) \/ MarkError(p)
    <3>1. current[p] \in batch[p]
      BY <2>5 DEF MarkPublished, MarkFailed, MarkError, IInv, ClaimInv, CurrentHeld
    <3>2. /\ \/ outbox' = [outbox EXCEPT ![current[p]].status = "published"]
             \/ outbox' = [outbox EXCEPT ![current[p]].status = "failed"]
             \/ outbox' = outbox
          /\ batch' = [batch EXCEPT ![p] = batch[p] \ {current[p]}]
      BY <2>5 DEF MarkPublished, MarkFailed, MarkError, NextRow
    <3> QED
      BY <3>1, <3>2 DEF IInv, TypeOK
  <2>6. CASE ClaimFails(p) \/ Stop(p) \/ Restart(p)
    <3>1. outbox' = outbox /\ (batch' = batch \/ batch' = [batch EXCEPT ![p] = {}])
      BY <2>6 DEF ClaimFails, Stop, Restart
    <3> QED
      BY <3>1 DEF IInv, TypeOK
  <2> QED
    BY <1>3, <2>1, <2>2, <2>3, <2>4, <2>5, <2>6 DEF Work, Fault, CallStep
<1> QED
  BY <1>1, <1>2, <1>3 DEF Next

\* A published row is held by nobody: what a publisher has locked is pending or
\* failed, what it has claimed is 'publishing'.
LEMMA PublishedUnheld ==
    ASSUME IInv, NEW e \in EventIds, HasStatus(e, {"published"}), NEW p \in Publishers
    PROVE  e \notin batch[p]
BY DEF IInv, TypeOK, Places, ClaimInv, LockedClaimable, HeldPublishing, OthersEmpty,
       HasStatus, Holding

\* No step of any publisher, crash or failing mark takes a published row back.
THEOREM PublishedFinal == Spec => PublishedIsFinal
<1>1. IInv /\ [Next]_vars =>
        [\A e \in EventIds :
           (outbox[e] # None /\ outbox[e].status = "published") =>
               outbox'[e].status = "published"]_vars
  <2> SUFFICES ASSUME IInv, [Next]_vars, NEW e \in EventIds,
                      outbox[e] # None, outbox[e].status = "published"
               PROVE  outbox'[e].status = "published"
    OBVIOUS
  <2>1. \A p \in Publishers : e \notin batch[p]
    BY PublishedUnheld DEF HasStatus
  <2> QED
    BY <2>1, UnheldRow
<1> QED
  BY <1>1, AlwaysIInv, PTL DEF Spec, PublishedIsFinal

\* A row left in 'publishing' without a publisher stays there: nothing in the
\* publisher ever picks it up again.
THEOREM StrandedStays == Spec => StrandedForever
<1>1. IInv /\ [Next]_vars => [\A e \in EventIds : Stranded(e) => Stranded(e)']_vars
  <2> SUFFICES ASSUME IInv, [Next]_vars, NEW e \in EventIds, Stranded(e)
               PROVE  Stranded(e)'
    OBVIOUS
  <2>1. outbox'[e] = outbox[e] /\ \A p \in Publishers : e \notin batch'[p]
    BY UnheldRow DEF Stranded, Claimable
  <2> QED
    BY <2>1 DEF Stranded
<1> QED
  BY <1>1, AlwaysIInv, PTL DEF Spec, StrandedForever

\* Counters of faults only grow, and stops, failing marks and unconfirmed
\* commits are counted.
LEMMA FaultsCounted ==
    ASSUME IInv, [Next]_vars
    PROVE  /\ faults.stop > 0 => faults'.stop > 0
           /\ faults.db > 0 => faults'.db > 0
           /\ \A p \in Publishers : Stop(p) => faults'.stop > 0
           /\ \A p \in Publishers : ClaimCommitLost(p) \/ MarkError(p) => faults'.db > 0
<1>1. faults \in [stop: Nat, claim: Nat, db: Nat, write: Nat]
  BY PublisherAssumption DEF IInv, TypeOK, Faults
<1>2. \/ faults' = faults
      \/ faults' = [faults EXCEPT !.stop = @ + 1]
      \/ faults' = [faults EXCEPT !.claim = @ + 1]
      \/ faults' = [faults EXCEPT !.db = @ + 1]
      \/ faults' = [faults EXCEPT !.write = @ + 1]
  BY DEF Next, vars, Enqueue, Work, Fault, ClaimNothing, ClaimSelect, ClaimCommit, ClaimFails,
         ClaimCommitLost, WriteRetries, WriteAcked, WriteFails, WriteRefused, WriteError,
         MarkPublished, MarkFailed, MarkError, Stop, Restart
<1>3. \A p \in Publishers : Stop(p) => faults'.stop > 0
  BY <1>1 DEF Stop
<1>4. \A p \in Publishers : ClaimCommitLost(p) \/ MarkError(p) => faults'.db > 0
  BY <1>1 DEF ClaimCommitLost, MarkError
<1> QED
  BY <1>1, <1>2, <1>3, <1>4

\* A step that strands a row is a stop, a failing mark or an unconfirmed claim.
LEMMA StrandingStep ==
    ASSUME IInv, [Next]_vars, NEW e \in EventIds, ~Stranded(e), Stranded(e)'
    PROVE  \E p \in Publishers : Stop(p) \/ ClaimCommitLost(p) \/ MarkError(p)
<1> SUFFICES ASSUME \A p \in Publishers : ~(Stop(p) \/ ClaimCommitLost(p) \/ MarkError(p))
             PROVE  FALSE
  OBVIOUS
<1>1. HasStatus(e, {"publishing"})' /\ \A p \in Publishers : e \notin batch'[p]
  BY DEF Stranded, HasStatus
<1>2. CASE UNCHANGED vars
  BY <1>2 DEF vars, Stranded
<1>3. ASSUME NEW f \in EventIds, Enqueue(f) PROVE FALSE
  <2>1. PICK row \in EnqueuedRows(f) : outbox' = [outbox EXCEPT ![f] = row]
    BY <1>3 DEF Enqueue
  <2>2. row.status = "pending"
    BY <2>1, EnqueuedRowType DEF IInv
  <2>3. e # f
    BY <2>1, <2>2, <1>1 DEF IInv, TypeOK, HasStatus
  <2> QED
    BY <2>1, <2>3, <1>1, <1>3 DEF Enqueue, IInv, TypeOK, HasStatus, Stranded
<1>4. ASSUME NEW p \in Publishers, Work(p) \/ Fault(p) PROVE FALSE
  <2>1. CASE ClaimNothing(p)
    BY <2>1, <1>2 DEF ClaimNothing
  <2>2. CASE \E f \in EventIds : CallStep(p, f)
    BY <2>2, <1>1, CallFacts DEF Stranded, HasStatus
  <2>3. CASE Restart(p)
    BY <2>3, <1>1 DEF Restart, Stranded, HasStatus
  <2>4. CASE ClaimSelect(p)
    <3>1. outbox' = outbox /\ batch' = [batch EXCEPT ![p] = Oldest(Candidates, BatchSize)]
          /\ pc[p] = "idle"
      BY <2>4 DEF ClaimSelect
    <3>2. batch[p] = {}
      BY <3>1 DEF IInv, ClaimInv, OthersEmpty
    <3> QED
      BY <3>1, <3>2, <1>1 DEF Stranded, HasStatus, IInv, TypeOK
  <2>5. CASE ClaimCommit(p)
    <3>1. outbox' = AfterClaim(batch[p]) /\ batch' = batch
      BY <2>5 DEF ClaimCommit
    <3>2. outbox'[e] = outbox[e]
      BY <3>1, <1>1 DEF AfterClaim
    <3> QED
      BY <3>1, <3>2, <1>1 DEF Stranded, HasStatus
  <2>6. CASE ClaimFails(p)
    <3>1. outbox' = outbox /\ batch' = [batch EXCEPT ![p] = {}] /\ pc[p] = "claiming"
      BY <2>6 DEF ClaimFails
    <3>2. e \notin batch[p]
      BY <3>1, <1>1 DEF IInv, ClaimInv, LockedClaimable, HasStatus
    <3> QED
      BY <3>1, <3>2, <1>1 DEF Stranded, HasStatus, IInv, TypeOK
  <2>7. CASE MarkPublished(p) \/ MarkFailed(p)
    <3>1. /\ \/ outbox' = [outbox EXCEPT ![current[p]].status = "published"]
             \/ outbox' = [outbox EXCEPT ![current[p]].status = "failed"]
          /\ batch' = [batch EXCEPT ![p] = batch[p] \ {current[p]}]
      BY <2>7 DEF MarkPublished, MarkFailed, NextRow
    <3>2. current[p] \in EventIds /\ outbox[current[p]] \in OutboxRows
      BY <2>7 DEF MarkPublished, MarkFailed, IInv, TypeOK, ClaimInv, CurrentHeld,
                  HeldPublishing, HasStatus, Holding
    <3>3. e # current[p]
      BY <3>1, <3>2, <1>1 DEF HasStatus, IInv, TypeOK, OutboxRows
    <3> QED
      BY <3>1, <3>2, <3>3, <1>1 DEF Stranded, HasStatus, IInv, TypeOK
  <2> QED
    BY <1>4, <2>1, <2>2, <2>3, <2>4, <2>5, <2>6, <2>7 DEF Work, Fault, CallStep
<1> QED
  BY <1>2, <1>3, <1>4 DEF Next

\* A row is stranded only after a stop, a failing mark or a claim whose commit
\* was not confirmed: refused or unacknowledged writes alone strand nothing.
THEOREM StrandedBlamed == Spec => []StrandedNeedsFault
<1>1. Init => StrandedNeedsFault
  BY DEF Init, StrandedNeedsFault, Stranded
<1>2. IInv /\ StrandedNeedsFault /\ [Next]_vars => StrandedNeedsFault'
  <2> SUFFICES ASSUME IInv, StrandedNeedsFault, [Next]_vars, NEW e \in EventIds, Stranded(e)'
               PROVE  faults'.stop > 0 \/ faults'.db > 0
    BY DEF StrandedNeedsFault
  <2>1. CASE Stranded(e)
    BY <2>1, FaultsCounted DEF StrandedNeedsFault
  <2>2. CASE ~Stranded(e)
    BY <2>2, StrandingStep, FaultsCounted
  <2> QED
    BY <2>1, <2>2
<1> QED
  BY <1>1, <1>2, AlwaysIInv, PTL DEF Spec

-----------------------------------------------------------------------------
(***************************************************************************)
(* How often an event is on the topic.  A claim pays for one call of the   *)
(* client, that is for WriteAttempts copies, before any of them is made:   *)
(* as long as a publisher has not finished the call for an event it holds, *)
(* what the call may still leave on the topic is paid for.                 *)
(***************************************************************************)
Where(e) ==
    UNION {{<<k, i>> : i \in {j \in DOMAIN topic[k] : topic[k][j].event = e}} : k \in Partitions}

Attempts(e) == IF outbox[e] = None THEN 0 ELSE outbox[e].attempts

Paid(e) == WriteAttempts * Attempts(e)

\* The events whose call a publisher has still to make or to finish.
Unwritten(p) ==
    (CASE pc[p] \in {"publishing", "writing"} -> batch[p]
       [] pc[p] \in {"written", "refused"} -> batch[p] \ {current[p]}
       [] OTHER -> {}) \ Unwritable

\* The copies its call for event e may still leave.
Left(p, e) ==
    IF pc[p] = "writing" /\ e = current[p] THEN WriteAttempts - unacked[p] ELSE WriteAttempts

CallInv ==
    \A p \in Publishers :
        /\ unacked[p] < WriteAttempts
        /\ pc[p] # "writing" => unacked[p] = 0

CopyInv ==
    /\ CallInv
    /\ \A e \in EventIds : IsFiniteSet(Where(e)) /\ Copies(e) <= Paid(e)
    /\ \A p \in Publishers : \A e \in Unwritten(p) : Copies(e) + Left(p, e) <= Paid(e)

\* The attempts of a row are a number.
LEMMA AttemptsType ==
    ASSUME TypeOK, NEW e \in EventIds
    PROVE  Attempts(e) \in Nat
BY DEF TypeOK, Attempts, OutboxRows

\* What the claims have paid for is a number.
LEMMA PaidType ==
    ASSUME TypeOK, NEW e \in EventIds
    PROVE  Paid(e) \in Nat
BY AttemptsType, PublisherAssumption DEF Paid

\* Arithmetic: more claims pay for more copies, by WriteAttempts each.
LEMMA PaidGrows ==
    ASSUME NEW w \in Nat, NEW a \in Nat, NEW b \in Nat, a <= b
    PROVE  /\ w * a <= w * b
           /\ a < b => w * a + w <= w * b
<1>1. \A n \in Nat : w * n \in Nat /\ w * (a + n) = w * a + w * n
  OBVIOUS
<1>2. b - a \in Nat /\ b = a + (b - a)
  OBVIOUS
<1>3. w * b = w * a + w * (b - a)
  BY <1>1, <1>2
<1>4. a < b => w * (b - a) >= w
  <2> SUFFICES ASSUME a < b PROVE w * (b - a) >= w
    OBVIOUS
  <2>1. b - a - 1 \in Nat /\ b - a = 1 + (b - a - 1)
    OBVIOUS
  <2>2. \A n \in Nat : w * n \in Nat /\ w * (1 + n) = w + w * n
    OBVIOUS
  <2> QED
    BY <2>1, <2>2
<1> QED
  BY <1>1, <1>2, <1>3, <1>4

\* What a call may still leave is between one copy and WriteAttempts of them.
LEMMA LeftType ==
    ASSUME TypeOK, CallInv, NEW p \in Publishers, NEW e
    PROVE  Left(p, e) \in 1..WriteAttempts
BY PublisherAssumption DEF TypeOK, CallInv, Left

\* Copies are counted by a number.
LEMMA CopiesType ==
    ASSUME NEW e, IsFiniteSet(Where(e))
    PROVE  Copies(e) \in Nat /\ Copies(e) = Cardinality(Where(e))
BY FS_CardinalityType DEF Copies, Where

\* An empty topic has no copy of anything.
LEMMA InitCopyInv == Init => CopyInv
<1> SUFFICES ASSUME Init PROVE CopyInv
  OBVIOUS
<1>1. \A e \in EventIds : Where(e) = {} /\ Paid(e) = 0
  <2> TAKE e \in EventIds
  <2>1. \A k \in Partitions : DOMAIN topic[k] = {}
    BY DEF Init
  <2>2. \A x : x \notin Where(e)
    BY <2>1 DEF Where
  <2>3. Attempts(e) = 0
    BY DEF Init, Attempts
  <2> QED
    BY <2>2, <2>3, PublisherAssumption DEF Paid
<1>2. \A e \in EventIds : IsFiniteSet(Where(e)) /\ Copies(e) = 0
  <2>1. \A e : Copies(e) = Cardinality(Where(e))
    BY DEF Copies, Where
  <2> QED
    BY <1>1, <2>1, FS_EmptySet
<1>3. \A p \in Publishers : Unwritten(p) = {}
  BY DEF Init, Unwritten
<1>4. CallInv
  BY PublisherAssumption DEF Init, CallInv
<1> QED
  BY <1>1, <1>2, <1>3, <1>4 DEF CopyInv

\* A write adds one copy of the event it writes and none of the others.
LEMMA WriteCopies ==
    ASSUME TypeOK, NEW e \in EventIds, outbox[e] # None, topic' = Append1(e),
           \A f \in EventIds : IsFiniteSet(Where(f))
    PROVE  /\ \A f \in EventIds : IsFiniteSet(Where(f))'
           /\ \A f \in EventIds \ {e} : Copies(f)' = Copies(f)
           /\ Copies(e)' = Copies(e) + 1
<1> DEFINE k == PartitionOf[outbox[e].payment]
           m == MessageOf(e, outbox[e])
           n == Len(topic[k]) + 1
<1>1. outbox[e] \in OutboxRows
  BY DEF TypeOK
<1>2. m \in Messages /\ k \in Partitions /\ m.event = e
  BY <1>1, PublisherAssumption DEF MessageOf, Messages, OutboxRows
<1>3. topic' = [topic EXCEPT ![k] = Append(topic[k], m)]
  BY DEF Append1
<1> HIDE DEF k, m
<1>4. topic \in [Partitions -> Seq(Messages)] /\ topic[k] \in Seq(Messages)
  BY <1>2 DEF TypeOK
<1>5. /\ n \in Nat /\ n \notin DOMAIN topic[k]
      /\ DOMAIN topic'[k] = DOMAIN topic[k] \cup {n}
      /\ topic'[k][n] = m
      /\ \A i \in DOMAIN topic[k] : topic'[k][i] = topic[k][i]
      /\ \A l \in Partitions \ {k} : topic'[l] = topic[l]
  BY <1>2, <1>3, <1>4
<1> HIDE DEF n
<1>6. ASSUME NEW f \in EventIds \ {e} PROVE Where(f)' = Where(f)
  <2>1. ASSUME NEW l \in Partitions
        PROVE  {j \in DOMAIN topic'[l] : topic'[l][j].event = f}
                 = {j \in DOMAIN topic[l] : topic[l][j].event = f}
    BY <1>2, <1>5, <1>6
  <2> QED
    BY <2>1 DEF Where
<1>7. Where(e)' = Where(e) \cup {<<k, n>>} /\ <<k, n>> \notin Where(e)
  <2>1. ASSUME NEW l \in Partitions \ {k}
        PROVE  {j \in DOMAIN topic'[l] : topic'[l][j].event = e}
                 = {j \in DOMAIN topic[l] : topic[l][j].event = e}
    BY <1>5
  <2>2. {j \in DOMAIN topic'[k] : topic'[k][j].event = e}
          = {j \in DOMAIN topic[k] : topic[k][j].event = e} \cup {n}
    BY <1>2, <1>5
  <2>3. \A x : x \in Where(e) <=>
          \E l \in Partitions : \E j \in {i \in DOMAIN topic[l] : topic[l][i].event = e} : x = <<l, j>>
    BY DEF Where
  <2>4. \A x : x \in Where(e)' <=>
          \E l \in Partitions : \E j \in {i \in DOMAIN topic'[l] : topic'[l][i].event = e} : x = <<l, j>>
    BY DEF Where
  <2>5. ASSUME NEW x \in Where(e)' PROVE x \in Where(e) \cup {<<k, n>>}
    BY <1>2, <2>1, <2>2, <2>3, <2>4, <2>5
  <2>6. ASSUME NEW x \in Where(e) \cup {<<k, n>>} PROVE x \in Where(e)'
    BY <1>2, <2>1, <2>2, <2>3, <2>4, <2>6
  <2>7. <<k, n>> \notin Where(e)
    BY <1>5, <2>3
  <2> QED
    BY <2>5, <2>6, <2>7
<1>8. IsFiniteSet(Where(e))' /\ Cardinality(Where(e)') = Cardinality(Where(e)) + 1
  BY <1>7, FS_AddElement
<1>9. \A f : Copies(f)' = Cardinality(Where(f)') /\ Copies(f) = Cardinality(Where(f))
  BY DEF Copies, Where
<1> QED
  BY <1>6, <1>8, <1>9

\* No open call has used up its attempts, and only an open call has lost an
\* acknowledgement.
LEMMA CallInvKept ==
    ASSUME IInv, IInv', CallInv, [Next]_vars
    PROVE  CallInv'
<1>1. CASE UNCHANGED vars
  BY <1>1 DEF vars, CallInv
<1>2. ASSUME NEW e \in EventIds, Enqueue(e) PROVE CallInv'
  BY <1>2 DEF Enqueue, CallInv
<1>3. ASSUME NEW p \in Publishers, Work(p) \/ Fault(p) PROVE CallInv'
  <2>1. CASE ClaimNothing(p)
    BY <1>1, <2>1 DEF ClaimNothing
  <2>2. ASSUME NEW e \in EventIds, WriteRetries(p, e) PROVE CallInv'
    BY <2>2, PublisherAssumption DEF WriteRetries, CallInv, IInv, TypeOK
  <2>3. ASSUME NEW e \in EventIds, WriteAcked(p, e) \/ WriteFails(p, e) PROVE CallInv'
    <3>1. /\ unacked'[p] = 0
          /\ \A q \in Publishers \ {p} : unacked'[q] = unacked[q] /\ pc'[q] = pc[q]
      BY <2>3 DEF WriteAcked, WriteFails, IInv, TypeOK
    <3> QED
      BY <3>1, PublisherAssumption DEF CallInv
  <2>4. ASSUME NEW e \in EventIds, WriteRefused(p, e) PROVE CallInv'
    BY <2>4 DEF WriteRefused, CallInv, IInv, TypeOK
  <2>5. CASE ClaimSelect(p) \/ ClaimCommit(p) \/ ClaimFails(p) \/ ClaimCommitLost(p) \/ Restart(p)
    <3>1. unacked' = unacked /\ pc[p] # "writing" /\ \A q \in Publishers \ {p} : pc'[q] = pc[q]
      BY <2>5 DEF ClaimSelect, ClaimCommit, ClaimFails, ClaimCommitLost, Restart, IInv, TypeOK
    <3> QED
      BY <3>1 DEF CallInv
  <2>6. CASE MarkPublished(p) \/ MarkFailed(p) \/ MarkError(p)
    <3>1. unacked' = unacked /\ pc[p] # "writing" /\ \A q \in Publishers \ {p} : pc'[q] = pc[q]
      BY <2>6 DEF MarkPublished, MarkFailed, MarkError, NextRow, IInv, TypeOK
    <3> QED
      BY <3>1 DEF CallInv
  <2>7. CASE Stop(p)
    BY <2>7, PublisherAssumption DEF Stop, CallInv, IInv, TypeOK
  <2> QED
    BY <1>3, <2>1, <2>2, <2>3, <2>4, <2>5, <2>6, <2>7 DEF Work, Fault
<1> QED
  BY <1>1, <1>2, <1>3 DEF Next

\* Steps that write nothing: attempts do not go down, and what is newly held has
\* been paid for.
LEMMA NoWriteCopies ==
    ASSUME IInv, IInv', CopyInv, CallInv', topic' = topic,
           \A e \in EventIds : Attempts(e)' >= Attempts(e),
           \A p \in Publishers : \A e \in Unwritten(p)' :
                /\ e \in EventIds
                /\ \/ e \in Unwritten(p) /\ Left(p, e)' = Left(p, e)
                   \/ Attempts(e)' > Attempts(e)
    PROVE  CopyInv'
<1>1. \A e : Where(e)' = Where(e) /\ Copies(e)' = Copies(e)
  BY DEF Where, Copies
<1>2. \A e \in EventIds : Attempts(e) \in Nat /\ Attempts(e)' \in Nat /\ Copies(e) \in Nat
  <2>1. \A e \in EventIds : Attempts(e) \in Nat
    BY AttemptsType DEF IInv
  <2>2. \A e \in EventIds : Attempts(e)' \in Nat
    BY DEF IInv, TypeOK, Attempts, OutboxRows
  <2> QED
    BY <2>1, <2>2, CopiesType DEF CopyInv
<1>3. WriteAttempts \in Nat
  BY PublisherAssumption
<1>4. ASSUME NEW e \in EventIds
      PROVE  /\ Paid(e) \in Nat /\ Paid(e)' \in Nat /\ Paid(e) <= Paid(e)'
             /\ Attempts(e)' > Attempts(e) => Paid(e) + WriteAttempts <= Paid(e)'
  <2>1. Paid(e) \in Nat /\ Paid(e)' \in Nat
    BY <1>2, <1>3 DEF Paid
  <2> QED
    BY <1>2, <1>3, <2>1, PaidGrows DEF Paid
<1>5. ASSUME NEW e \in EventIds PROVE IsFiniteSet(Where(e))' /\ Copies(e)' <= Paid(e)'
  BY <1>1, <1>2, <1>4, <1>5 DEF CopyInv
<1>6. ASSUME NEW p \in Publishers, NEW e \in Unwritten(p)'
      PROVE  Copies(e)' + Left(p, e)' <= Paid(e)'
  <2>1. e \in EventIds /\ Copies(e) <= Paid(e) /\ Copies(e)' = Copies(e)
    BY <1>1, <1>6 DEF CopyInv
  <2>2. CASE e \in Unwritten(p) /\ Left(p, e)' = Left(p, e)
    <3>1. Copies(e) + Left(p, e) <= Paid(e) /\ Left(p, e) \in Nat
      BY <2>2, LeftType DEF CopyInv, IInv
    <3> QED
      BY <1>2, <1>4, <2>1, <2>2, <3>1
  <2>3. CASE Attempts(e)' > Attempts(e)
    <3>1. Left(p, e)' \in Nat /\ Left(p, e)' <= WriteAttempts
      BY PublisherAssumption DEF IInv, TypeOK, CallInv, Left
    <3> QED
      BY <1>2, <1>3, <1>4, <2>1, <2>3, <3>1
  <2> QED
    BY <1>6, <2>2, <2>3
<1> QED
  BY <1>5, <1>6 DEF CopyInv

\* A try of the client uses up one copy of what the claim has paid for.
LEMMA WriteKeepsCopies ==
    ASSUME IInv, IInv', CopyInv, CallInv', NEW p \in Publishers, NEW e \in EventIds,
           CallStep(p, e)
    PROVE  CopyInv'
<1>1. /\ pc[p] \in {"publishing", "writing"} /\ e \in batch[p]
      /\ pc[p] = "writing" => e = current[p]
      /\ current' = [current EXCEPT ![p] = e]
      /\ pc' = [pc EXCEPT ![p] = pc'[p]] /\ pc'[p] \in {"writing", "written", "refused"}
      /\ UNCHANGED <<outbox, batch>>
      /\ outbox[e] # None
  BY CallFacts DEF IInv, TypeOK
<1>2. \A f \in EventIds : /\ Attempts(f)' = Attempts(f) /\ Attempts(f) \in Nat
                          /\ Paid(f)' = Paid(f) /\ Paid(f) \in Nat
  BY <1>1, AttemptsType, PaidType DEF IInv, Attempts, Paid
<1>3. \A q \in Publishers : \A f \in Unwritten(q)' :
        f \in EventIds /\ f \in Unwritten(q) /\ (f # e => Left(q, f)' = Left(q, f))
  <2> SUFFICES ASSUME NEW q \in Publishers, NEW f \in Unwritten(q)'
               PROVE  f \in EventIds /\ f \in Unwritten(q) /\ (f # e => Left(q, f)' = Left(q, f))
    OBVIOUS
  <2>1. CASE q = p
    <3>1. Unwritten(p) = batch[p] \ Unwritable /\ Unwritten(p)' \subseteq batch[p] \ Unwritable
      BY <1>1 DEF Unwritten, IInv, TypeOK
    <3>2. f # e => Left(p, f)' = Left(p, f)
      BY <1>1 DEF Left, IInv, TypeOK
    <3> QED
      BY <2>1, <3>1, <3>2 DEF IInv, TypeOK
  <2>2. CASE q # p
    <3>1. /\ Unwritten(q)' = Unwritten(q) /\ Unwritten(q) \subseteq batch[q]
          /\ batch[q] \subseteq EventIds
      BY <1>1, <2>2 DEF Unwritten, IInv, TypeOK
    <3>2. unacked'[q] = unacked[q]
      BY <2>2 DEF CallStep, WriteRetries, WriteAcked, WriteFails, WriteRefused, IInv, TypeOK
    <3> QED
      BY <1>1, <2>2, <3>1, <3>2 DEF Left, IInv, TypeOK
  <2> QED
    BY <2>1, <2>2
<1>4. \A q \in Publishers : e \in Unwritten(q)' => q = p
  <2>1. \A q \in Publishers : Unwritten(q) \subseteq batch[q]
    BY DEF Unwritten
  <2> QED
    BY <1>1, <1>3, <2>1 DEF IInv, ClaimInv, DisjointBatches
<1>5. CASE topic' = topic /\ pc'[p] = "refused"
  <2>1. e \notin Unwritten(p)'
    BY <1>1, <1>5 DEF Unwritten, IInv, TypeOK
  <2>2. \A f \in EventIds : Attempts(f)' >= Attempts(f)
    BY <1>2
  <2>3. \A q \in Publishers : \A f \in Unwritten(q)' :
          f \in EventIds /\ f \in Unwritten(q) /\ Left(q, f)' = Left(q, f)
    BY <1>3, <1>4, <2>1
  <2> QED
    BY <1>5, <2>2, <2>3, NoWriteCopies
<1>6. CASE topic' = Append1(e) /\ ~WriteRefused(p, e)
  <2>1. e \notin Unwritable
    BY <1>6 DEF CallStep, WriteRetries, WriteAcked, WriteFails, Writing
  <2>2. \A f \in EventIds : IsFiniteSet(Where(f)) /\ Copies(f) \in Nat /\ Copies(f) <= Paid(f)
    BY CopiesType DEF CopyInv
  <2>3. /\ \A f \in EventIds : IsFiniteSet(Where(f))'
        /\ \A f \in EventIds \ {e} : Copies(f)' = Copies(f)
        /\ Copies(e)' = Copies(e) + 1
    BY <1>1, <1>6, <2>2, WriteCopies DEF IInv
  <2>4. Copies(e) + Left(p, e) <= Paid(e) /\ Left(p, e) \in 1..WriteAttempts
    <3>1. e \in Unwritten(p)
      BY <1>1, <2>1 DEF Unwritten
    <3> QED
      BY <3>1, LeftType DEF CopyInv, IInv
  <2>5. \A f \in EventIds : Copies(f)' <= Paid(f)'
    <3>1. Copies(e)' <= Paid(e)'
      BY <1>2, <2>2, <2>3, <2>4, PublisherAssumption
    <3> QED
      BY <1>2, <2>2, <2>3, <3>1
  <2>6. ASSUME e \in Unwritten(p)' PROVE Left(p, e)' = Left(p, e) - 1
    <3>1. pc'[p] = "writing" /\ current'[p] = e
      BY <1>1, <2>6 DEF Unwritten, IInv, TypeOK
    <3>2. unacked'[p] = unacked[p] + 1
      BY <1>6, <3>1 DEF CallStep, WriteRetries, WriteAcked, WriteFails, IInv, TypeOK
    <3>3. Left(p, e) = WriteAttempts - unacked[p]
      BY <1>1, PublisherAssumption DEF Left, CopyInv, CallInv
    <3> QED
      BY <3>1, <3>2, <3>3, PublisherAssumption DEF Left, IInv, TypeOK
  <2>7. ASSUME NEW q \in Publishers, NEW f \in Unwritten(q)'
        PROVE  Copies(f)' + Left(q, f)' <= Paid(f)'
    <3>1. CASE f = e
      BY <1>2, <1>4, <2>2, <2>3, <2>4, <2>6, <2>7, <3>1, PublisherAssumption
    <3>2. CASE f # e
      BY <1>2, <1>3, <2>3, <2>7, <3>2 DEF CopyInv
    <3> QED
      BY <3>1, <3>2
  <2> QED
    BY <2>3, <2>5, <2>7 DEF CopyInv
<1> QED
  <2>1. topic' = Append1(e) \/ (topic' = topic /\ pc'[p] = "refused")
    BY CallFacts DEF IInv, TypeOK
  <2>2. WriteRefused(p, e) => topic' = topic /\ pc'[p] = "refused"
    BY DEF WriteRefused, IInv, TypeOK
  <2> QED
    BY <1>5, <1>6, <2>1, <2>2

\* A commit of a claim counts one more attempt of every row it claims.
LEMMA ClaimKeepsCopies ==
    ASSUME IInv, IInv', CopyInv, CallInv', NEW p \in Publishers, ClaimCommit(p) \/ ClaimCommitLost(p)
    PROVE  CopyInv'
<1>1. /\ pc[p] = "claiming" /\ outbox' = AfterClaim(batch[p]) /\ topic' = topic
      /\ current' = current /\ unacked' = unacked
  BY DEF ClaimCommit, ClaimCommitLost
<1>2. /\ \A q \in Publishers \ {p} : pc'[q] = pc[q] /\ batch'[q] = batch[q]
      /\ \/ pc'[p] = "publishing" /\ batch'[p] = batch[p]
         \/ pc'[p] = "idle"
  BY DEF ClaimCommit, ClaimCommitLost, IInv, TypeOK
<1>3. \A e \in batch[p] : e \in EventIds /\ outbox[e] # None
  BY <1>1 DEF IInv, TypeOK, ClaimInv, LockedClaimable, HasStatus
<1>4. ASSUME NEW e \in batch[p]
      PROVE  /\ Attempts(e) \in Nat /\ Attempts(e)' >= Attempts(e)
             /\ e \notin Unwritable => Attempts(e)' > Attempts(e)
  <2>1. outbox[e] \in OutboxRows /\ outbox'[e] = Claimed(e)
    BY <1>1, <1>3, <1>4 DEF AfterClaim, IInv, TypeOK
  <2>2. outbox'[e] # None /\ outbox'[e].attempts = Counted(e)
    BY <2>1, ClaimedType, NoneAssumption
  <2>3. Attempts(e) = outbox[e].attempts /\ Attempts(e)' = Counted(e)
    BY <1>3, <1>4, <2>2 DEF Attempts
  <2>4. outbox[e].attempts \in Nat
    BY <2>1 DEF OutboxRows
  <2> QED
    BY <2>1, <2>3, <2>4, CountedType
<1>5. \A e \in EventIds \ batch[p] : Attempts(e)' = Attempts(e) /\ Attempts(e) \in Nat
  <2>1. \A e \in EventIds \ batch[p] : outbox'[e] = outbox[e]
    BY <1>1 DEF AfterClaim
  <2> QED
    BY <2>1, AttemptsType DEF Attempts, IInv
<1>6. \A e \in EventIds : Attempts(e)' >= Attempts(e)
  BY <1>4, <1>5
<1>7. ASSUME NEW q \in Publishers, NEW e \in Unwritten(q)'
      PROVE  /\ e \in EventIds
             /\ \/ e \in Unwritten(q) /\ Left(q, e)' = Left(q, e)
                \/ Attempts(e)' > Attempts(e)
  <2>1. CASE q = p
    <3>1. e \in batch[p] /\ e \notin Unwritable
      BY <1>2, <1>7, <2>1 DEF Unwritten
    <3> QED
      BY <1>3, <1>4, <3>1
  <2>2. CASE q # p
    <3>1. Unwritten(q)' = Unwritten(q) /\ Left(q, e)' = Left(q, e)
      BY <1>1, <1>2, <2>2 DEF Unwritten, Left
    <3> QED
      BY <1>7, <3>1 DEF Unwritten, IInv, TypeOK
  <2> QED
    BY <2>1, <2>2
<1> QED
  BY <1>1, <1>6, <1>7, NoWriteCopies

\* Everything else neither writes nor claims.
LEMMA RestKeepsCopies ==
    ASSUME IInv, IInv', CopyInv, CallInv', NEW p \in Publishers,
           \/ ClaimSelect(p) \/ ClaimFails(p) \/ Stop(p) \/ Restart(p)
           \/ MarkPublished(p) \/ MarkFailed(p) \/ MarkError(p)
    PROVE  CopyInv'
<1>1. topic' = topic
  BY DEF ClaimSelect, ClaimFails, Stop, Restart, MarkPublished, MarkFailed, MarkError
<1>2. \/ outbox' = outbox
      \/ \E s \in {"published", "failed"} :
           /\ current[p] \in EventIds /\ outbox[current[p]] # None
           /\ outbox' = [outbox EXCEPT ![current[p]].status = s]
  <2>1. MarkPublished(p) \/ MarkFailed(p) => current[p] \in EventIds /\ outbox[current[p]] # None
    BY DEF MarkPublished, MarkFailed, IInv, TypeOK, ClaimInv, CurrentHeld, HeldPublishing,
           HasStatus, Holding
  <2> QED
    BY <2>1 DEF ClaimSelect, ClaimFails, Stop, Restart, MarkPublished, MarkFailed, MarkError
<1>3. \A e \in EventIds : Attempts(e)' >= Attempts(e)
  <2>1. ASSUME NEW e \in EventIds PROVE Attempts(e)' = Attempts(e)
    <3>1. CASE outbox' = outbox
      BY <3>1 DEF Attempts
    <3>2. CASE outbox' # outbox
      <4>1. PICK s \in {"published", "failed"} :
              /\ current[p] \in EventIds /\ outbox[current[p]] # None
              /\ outbox' = [outbox EXCEPT ![current[p]].status = s]
        BY <1>2, <3>2
      <4>2. outbox[current[p]] \in OutboxRows
        BY <4>1 DEF IInv, TypeOK
      <4>3. /\ outbox'[current[p]].attempts = outbox[current[p]].attempts
            /\ e # current[p] => outbox'[e] = outbox[e]
        BY <4>1, <4>2 DEF IInv, TypeOK, OutboxRows
      <4>4. outbox'[current[p]] # None
        <5>1. outbox'[current[p]] = [outbox[current[p]] EXCEPT !.status = s]
          BY <4>1 DEF IInv, TypeOK
        <5>2. [outbox[current[p]] EXCEPT !.status = s] \in OutboxRows
          BY <4>2 DEF OutboxRows, OutboxStatuses
        <5> QED
          BY <5>1, <5>2, NoneAssumption
      <4> QED
        BY <4>1, <4>3, <4>4 DEF Attempts
    <3> QED
      BY <3>1, <3>2
  <2> QED
    BY <2>1, AttemptsType DEF IInv
<1>4. ASSUME NEW q \in Publishers, NEW e \in Unwritten(q)'
      PROVE  e \in EventIds /\ e \in Unwritten(q) /\ Left(q, e)' = Left(q, e)
  <2>1. CASE q # p
    <3>1. /\ pc'[q] = pc[q] /\ batch'[q] = batch[q] /\ current'[q] = current[q]
          /\ unacked'[q] = unacked[q]
      BY <2>1 DEF ClaimSelect, ClaimFails, Stop, Restart, MarkPublished, MarkFailed, MarkError,
           NextRow, IInv, TypeOK
    <3>2. Unwritten(q)' = Unwritten(q) /\ Left(q, e)' = Left(q, e)
      BY <3>1 DEF Unwritten, Left
    <3> QED
      BY <1>4, <3>2 DEF Unwritten, IInv, TypeOK
  <2>2. CASE q = p /\ (ClaimSelect(p) \/ ClaimFails(p) \/ Stop(p) \/ Restart(p))
    <3>1. pc'[p] \in {"claiming", "idle", "stopped"}
      BY <2>2 DEF ClaimSelect, ClaimFails, Stop, Restart, IInv, TypeOK
    <3> QED
      BY <1>4, <2>2, <3>1 DEF Unwritten
  <2>3. CASE q = p /\ (MarkPublished(p) \/ MarkFailed(p) \/ MarkError(p))
    <3>1. /\ pc[p] \in {"written", "refused"} /\ pc'[p] \in {"idle", "publishing"}
          /\ batch'[p] = batch[p] \ {current[p]}
      BY <2>3 DEF MarkPublished, MarkFailed, MarkError, NextRow, IInv, TypeOK
    <3>2. /\ Unwritten(p) = (batch[p] \ {current[p]}) \ Unwritable
          /\ Unwritten(p)' \subseteq batch'[p] \ Unwritable
          /\ Left(p, e)' = WriteAttempts /\ Left(p, e) = WriteAttempts
      BY <3>1 DEF Unwritten, Left
    <3> QED
      BY <1>4, <2>3, <3>1, <3>2 DEF IInv, TypeOK
  <2> QED
    BY <2>1, <2>2, <2>3
<1> QED
  BY <1>1, <1>3, <1>4, NoWriteCopies

\* A new row starts with no attempt, and without one nothing was written.
LEMMA EnqueueKeepsCopies ==
    ASSUME IInv, IInv', CopyInv, CallInv', NEW e \in EventIds, Enqueue(e)
    PROVE  CopyInv'
<1>1. /\ outbox[e] = None /\ topic' = topic /\ UNCHANGED <<pc, batch, current, unacked>>
      /\ \A f \in EventIds \ {e} : outbox'[f] = outbox[f]
  BY DEF Enqueue, IInv, TypeOK
<1>2. \A f \in EventIds : Attempts(f) \in Nat /\ Attempts(f)' \in Nat
  BY AttemptsType DEF IInv, TypeOK, Attempts, OutboxRows
<1>3. \A f \in EventIds : Attempts(f)' >= Attempts(f)
  <2>1. \A f \in EventIds \ {e} : Attempts(f)' = Attempts(f)
    BY <1>1 DEF Attempts
  <2>2. Attempts(e) = 0
    BY <1>1 DEF Attempts
  <2> QED
    BY <1>2, <2>1, <2>2
<1>4. \A p \in Publishers : \A f \in Unwritten(p)' :
        f \in EventIds /\ f \in Unwritten(p) /\ Left(p, f)' = Left(p, f)
  BY <1>1 DEF Unwritten, Left, IInv, TypeOK
<1> QED
  BY <1>1, <1>3, <1>4, NoWriteCopies

\* Every step keeps the number of copies within the attempts.
LEMMA NextCopyInv == IInv /\ IInv' /\ CopyInv /\ [Next]_vars => CopyInv'
<1> SUFFICES ASSUME IInv, IInv', CopyInv, [Next]_vars PROVE CopyInv'
  OBVIOUS
<1>0. CallInv'
  BY CallInvKept DEF CopyInv
<1>1. CASE UNCHANGED vars
  <2>1. \A p \in Publishers : Unwritten(p)' = Unwritten(p) /\ \A e : Left(p, e)' = Left(p, e)
    BY <1>1 DEF vars, Unwritten, Left
  <2>2. \A e : Where(e)' = Where(e) /\ Copies(e)' = Copies(e) /\ Paid(e)' = Paid(e)
    BY <1>1 DEF vars, Where, Copies, Paid, Attempts
  <2> QED
    BY <1>0, <2>1, <2>2 DEF CopyInv
<1>2. ASSUME NEW p \in Publishers, Work(p) PROVE CopyInv'
  <2>1. CASE \E e \in EventIds : WriteAcked(p, e) \/ WriteRefused(p, e)
    BY <1>0, <2>1, WriteKeepsCopies DEF CallStep
  <2> QED
    BY <1>0, <1>1, <1>2, <2>1, ClaimKeepsCopies, RestKeepsCopies DEF Work, ClaimNothing
<1>3. ASSUME NEW p \in Publishers, Fault(p) PROVE CopyInv'
  <2>1. CASE \E e \in EventIds : WriteRetries(p, e) \/ WriteFails(p, e)
    BY <1>0, <2>1, WriteKeepsCopies DEF CallStep
  <2> QED
    BY <1>0, <1>3, <2>1, ClaimKeepsCopies, RestKeepsCopies DEF Fault
<1> QED
  BY <1>0, <1>1, <1>2, <1>3, EnqueueKeepsCopies DEF Next

\* Publishing is at least once, but an event is on the topic at most WriteAttempts
\* times as often as its row was claimed, also when the client retries within a
\* call, writes fail after a copy was made, marks fail and publishers stop in
\* between (outbox_repository.go:22-36, outbox_publisher.go:62-72, 100-125).
THEOREM CopiesBounded == Spec => []CopiesWithinAttempts
<1>1. CopyInv => CopiesWithinAttempts
  BY DEF CopyInv, Paid, Attempts, CopiesWithinAttempts
<1> QED
  BY <1>1, InitIInv, NextIInv, InitCopyInv, NextCopyInv, PTL DEF Spec
=============================================================================
