--------------------------- MODULE OutboxPublisher ---------------------------
(***************************************************************************)
(* The outbox publishers: processes that poll the outbox_events table,     *)
(* claim a batch of rows, write each one to the Kafka topic and mark it.   *)
(*                                                                         *)
(* Any number of publishers run against one database.  A publisher is a    *)
(* state machine whose steps are the points where another process can      *)
(* interleave: the claim takes row locks before it commits, each write to  *)
(* Kafka and each mark is a call of its own.                               *)
(***************************************************************************)
EXTENDS PaymentEvents, FiniteSets, Sequences

CONSTANTS Publishers,      \* publisher processes
          BatchSize,       \* the limit passed to ClaimPending
          Partitions,      \* partitions of the payment events topic
          PartitionOf,     \* the writer's hash balancer: payment -> partition
          WriteAttempts,   \* attempts of the Kafka client within one WriteMessages
          Unwritable,      \* events whose write is refused on every call
          MaxStops,        \* bound: process stops (SIGTERM or crash)
          MaxClaimErrors,  \* bound: claims that fail and roll back
          MaxDbErrors,     \* bound: failed marks and lost claim commits
          MaxWriteErrors,  \* bound: tries to write other events that fail
          MaxRefusals      \* bound: where attempts stops for a row never written

ASSUME PublisherAssumption ==
    /\ BatchSize \in Nat \ {0} /\ WriteAttempts \in Nat \ {0}
    /\ PartitionOf \in [EventIds -> Partitions]
    /\ MaxStops \in Nat /\ MaxClaimErrors \in Nat
    /\ MaxDbErrors \in Nat /\ MaxWriteErrors \in Nat /\ MaxRefusals \in Nat

VARIABLES outbox,   \* [EventIds -> OutboxRows or None]: the table outbox_events
          topic,    \* [Partitions -> Seq(Messages)]: the payment events topic
          pc,       \* [Publishers -> where the publisher stands]
          batch,    \* [Publishers -> the claimed events it has not finished]
          current,  \* [Publishers -> the event being written or marked]
          unacked,  \* [Publishers -> copies the open write has sent in vain]
          faults    \* how many faults of each kind have happened

vars == <<outbox, topic, pc, batch, current, unacked, faults>>

Places == {"idle", "claiming", "publishing", "writing", "written", "refused", "stopped"}
Faults == [stop: 0..MaxStops, claim: 0..MaxClaimErrors,
           db: 0..MaxDbErrors, write: 0..MaxWriteErrors]

TypeOK ==
    /\ outbox \in [EventIds -> OutboxRows \cup {None}]
    /\ topic \in [Partitions -> Seq(Messages)]
    /\ pc \in [Publishers -> Places]
    /\ batch \in [Publishers -> SUBSET EventIds]
    /\ current \in [Publishers -> EventIds \cup {None}]
    /\ unacked \in [Publishers -> Nat]
    /\ faults \in Faults

Init ==
    /\ outbox = [e \in EventIds |-> None]
    /\ topic = [k \in Partitions |-> <<>>]
    /\ pc = [p \in Publishers |-> "idle"]
    /\ batch = [p \in Publishers |-> {}]
    /\ current = [p \in Publishers |-> None]
    /\ unacked = [p \in Publishers |-> 0]
    /\ faults = [stop |-> 0, claim |-> 0, db |-> 0, write |-> 0]

-----------------------------------------------------------------------------
(***************************************************************************)
(* The payment API commits a row: a payment's creation, or a later change  *)
(* of its status.  PaymentApi models the calls; here they are the          *)
(* environment.                                                            *)
(***************************************************************************)
EnqueuedRows(e) ==
    {NewPaymentCreated(e, m) : m \in Money}
      \cup {NewPaymentStatusChanged(p, s) :
              p \in {q \in EventIds : q < e /\ outbox[q] # None
                                      /\ outbox[q].type = PaymentCreatedEvent},
              s \in TerminalStatuses}

Enqueue(e) ==
    /\ outbox[e] = None
    /\ \E row \in EnqueuedRows(e) : outbox' = [outbox EXCEPT ![e] = row]
    /\ UNCHANGED <<topic, pc, batch, current, unacked, faults>>

-----------------------------------------------------------------------------
\* Slip: rows in 'publishing' are taken over.
ClaimableTakeover(status) == status # "published"

(***************************************************************************)
(* ClaimPending: one statement selects and locks the oldest rows that are  *)
(* pending or failed and that no other claim has locked (FOR UPDATE SKIP   *)
(* LOCKED), and updates them; the transaction commits in a later step.     *)
(***************************************************************************)
Claimable(status) == status \in {"pending", "failed"}

Locked == UNION {batch[q] : q \in {r \in Publishers : pc[r] = "claiming"}}

\* Slip: SKIP LOCKED is left out and nothing makes the second claim wait.
CandidatesLockedToo ==
    {e \in EventIds : outbox[e] # None /\ Claimable(outbox[e].status)}

Candidates ==
    {e \in EventIds : outbox[e] # None /\ Claimable(outbox[e].status)} \ Locked

\* Slip: the batch is one row short.
OldestOneShort(S, limit) == {e \in S : Cardinality({f \in S : f < e}) < limit - 1}

Oldest(S, limit) == {e \in S : Cardinality({f \in S : f < e}) < limit}

\* attempts = attempts + 1; no property tells apart how often a row was refused
\* that is never written.
Counted(e) ==
    IF e \in Unwritable /\ outbox[e].attempts >= MaxRefusals
    THEN outbox[e].attempts
    ELSE outbox[e].attempts + 1

\* Slip: the claim does not count the attempt.
ClaimedUncounted(e) == [outbox[e] EXCEPT !.status = "publishing"]

\* Slip: a status the table's CHECK does not know.
ClaimedMisspelt(e) == [outbox[e] EXCEPT !.status = "claimed", !.attempts = Counted(e)]

Claimed(e) == [outbox[e] EXCEPT !.status = "publishing", !.attempts = Counted(e)]

AfterClaim(S) == [e \in EventIds |-> IF e \in S THEN Claimed(e) ELSE outbox[e]]

\* A poll that finds nothing returns an empty batch: the ticker is waited for.
ClaimNothing(p) ==
    /\ pc[p] = "idle"
    /\ Candidates = {}
    /\ UNCHANGED vars

ClaimSelect(p) ==
    /\ pc[p] = "idle"
    /\ Candidates # {}
    /\ batch' = [batch EXCEPT ![p] = Oldest(Candidates, BatchSize)]
    /\ pc' = [pc EXCEPT ![p] = "claiming"]
    /\ UNCHANGED <<outbox, topic, current, unacked, faults>>

ClaimCommit(p) ==
    /\ pc[p] = "claiming"
    /\ outbox' = AfterClaim(batch[p])
    /\ pc' = [pc EXCEPT ![p] = "publishing"]
    /\ UNCHANGED <<topic, batch, current, unacked, faults>>

\* Any error before the commit: the deferred Rollback releases the rows.
ClaimFails(p) ==
    /\ pc[p] = "claiming"
    /\ faults.claim < MaxClaimErrors
    /\ faults' = [faults EXCEPT !.claim = @ + 1]
    /\ batch' = [batch EXCEPT ![p] = {}]
    /\ pc' = [pc EXCEPT ![p] = "idle"]
    /\ UNCHANGED <<outbox, topic, current, unacked>>

\* The commit took effect but its answer was lost: PublishBatch sees an error
\* and publishes nothing.
ClaimCommitLost(p) ==
    /\ pc[p] = "claiming"
    /\ faults.db < MaxDbErrors
    /\ faults' = [faults EXCEPT !.db = @ + 1]
    /\ outbox' = AfterClaim(batch[p])
    /\ batch' = [batch EXCEPT ![p] = {}]
    /\ pc' = [pc EXCEPT ![p] = "idle"]
    /\ UNCHANGED <<topic, current, unacked>>

-----------------------------------------------------------------------------
(***************************************************************************)
(* publishOne: the rows of the batch come in the order of UPDATE ...       *)
(* RETURNING, which SQL leaves open, so any row of the batch may be next.  *)
(* WriteMessages is synchronous with RequireAll.  NewKafkaWriter leaves    *)
(* MaxAttempts at the client's default and the producer is not idempotent, *)
(* so within one call the client sends a message again when its            *)
(* acknowledgement is lost, and every try may leave a copy on the topic.   *)
(***************************************************************************)
Append1(e) ==
    LET k == PartitionOf[outbox[e].payment]
    IN  [topic EXCEPT ![k] = Append(@, MessageOf(e, outbox[e]))]

\* The call for event e is about to begin, or is under way.
Writing(p, e) ==
    /\ e \notin Unwritable
    /\ \/ pc[p] = "publishing" /\ e \in batch[p]
       \/ pc[p] = "writing" /\ e = current[p]

\* A try of the client fails.
WriteError ==
    /\ faults.write < MaxWriteErrors
    /\ faults' = [faults EXCEPT !.write = @ + 1]

\* The brokers have the message, the client does not know and tries again.
WriteRetries(p, e) ==
    /\ Writing(p, e)
    /\ unacked[p] + 1 < WriteAttempts
    /\ WriteError
    /\ topic' = Append1(e)
    /\ unacked' = [unacked EXCEPT ![p] = @ + 1]
    /\ current' = [current EXCEPT ![p] = e]
    /\ pc' = [pc EXCEPT ![p] = "writing"]
    /\ UNCHANGED <<outbox, batch>>

WriteAcked(p, e) ==
    /\ Writing(p, e)
    /\ topic' = Append1(e)
    /\ unacked' = [unacked EXCEPT ![p] = 0]
    /\ current' = [current EXCEPT ![p] = e]
    /\ pc' = [pc EXCEPT ![p] = "written"]
    /\ UNCHANGED <<outbox, batch, faults>>

\* The last try fails: it was refused, or written with its acknowledgement lost.
WriteFails(p, e) ==
    /\ Writing(p, e)
    /\ WriteError
    /\ \/ UNCHANGED topic
       \/ topic' = Append1(e)
    /\ unacked' = [unacked EXCEPT ![p] = 0]
    /\ current' = [current EXCEPT ![p] = e]
    /\ pc' = [pc EXCEPT ![p] = "refused"]
    /\ UNCHANGED <<outbox, batch>>

\* A write that can never succeed: a record above the size the client or the
\* brokers accept; or every record, where the client refuses a message that
\* names a topic (outbox_publisher.go:149) because its writer has one (line 66).
WriteRefused(p, e) ==
    /\ pc[p] = "publishing"
    /\ e \in batch[p]
    /\ e \in Unwritable
    /\ current' = [current EXCEPT ![p] = e]
    /\ pc' = [pc EXCEPT ![p] = "refused"]
    /\ UNCHANGED <<outbox, topic, batch, unacked, faults>>

(***************************************************************************)
(* PublishBatch marks the row by id alone, whatever status it has now, and *)
(* goes on with the next row; an error of the mark is only logged.         *)
(***************************************************************************)
NextRow(p) ==
    /\ batch' = [batch EXCEPT ![p] = @ \ {current[p]}]
    /\ current' = [current EXCEPT ![p] = None]
    /\ pc' = [pc EXCEPT ![p] = IF batch[p] \subseteq {current[p]} THEN "idle" ELSE "publishing"]

\* Slip: the error of the write is not looked at.
MarkPublishedAnyway(p) ==
    /\ pc[p] \in {"written", "refused"}
    /\ outbox' = [outbox EXCEPT ![current[p]].status = "published"]
    /\ NextRow(p)
    /\ UNCHANGED <<topic, unacked, faults>>

MarkPublished(p) ==
    /\ pc[p] = "written"
    /\ outbox' = [outbox EXCEPT ![current[p]].status = "published"]
    /\ NextRow(p)
    /\ UNCHANGED <<topic, unacked, faults>>

\* Slip: the row of a failed write is left as it is.
MarkFailedForgotten(p) ==
    /\ pc[p] = "refused"
    /\ NextRow(p)
    /\ UNCHANGED <<outbox, topic, unacked, faults>>

MarkFailed(p) ==
    /\ pc[p] = "refused"
    /\ outbox' = [outbox EXCEPT ![current[p]].status = "failed"]
    /\ NextRow(p)
    /\ UNCHANGED <<topic, unacked, faults>>

MarkError(p) ==
    /\ pc[p] \in {"written", "refused"}
    /\ faults.db < MaxDbErrors
    /\ faults' = [faults EXCEPT !.db = @ + 1]
    /\ NextRow(p)
    /\ UNCHANGED <<outbox, topic, unacked>>

(***************************************************************************)
(* The process ends: a crash, or SIGTERM, which cancels the context so     *)
(* that every remaining write and mark of the batch fails at once.  A      *)
(* transaction still open rolls back.  The supervisor starts it again.     *)
(***************************************************************************)
Stop(p) ==
    /\ pc[p] # "stopped"
    /\ faults.stop < MaxStops
    /\ faults' = [faults EXCEPT !.stop = @ + 1]
    /\ batch' = [batch EXCEPT ![p] = {}]
    /\ current' = [current EXCEPT ![p] = None]
    /\ unacked' = [unacked EXCEPT ![p] = 0]
    /\ pc' = [pc EXCEPT ![p] = "stopped"]
    /\ UNCHANGED <<outbox, topic>>

Restart(p) ==
    /\ pc[p] = "stopped"
    /\ pc' = [pc EXCEPT ![p] = "idle"]
    /\ UNCHANGED <<outbox, topic, batch, current, unacked, faults>>

-----------------------------------------------------------------------------
\* The loop of Run, without the faults of its environment.
Work(p) ==
    \/ ClaimNothing(p)
    \/ ClaimSelect(p)
    \/ ClaimCommit(p)
    \/ \E e \in EventIds : WriteAcked(p, e) \/ WriteRefused(p, e)
    \/ MarkPublished(p)
    \/ MarkFailed(p)
    \/ Restart(p)

Fault(p) ==
    \/ ClaimFails(p)
    \/ ClaimCommitLost(p)
    \/ \E e \in EventIds : WriteRetries(p, e) \/ WriteFails(p, e)
    \/ MarkError(p)
    \/ Stop(p)

Next ==
    \/ \E e \in EventIds : Enqueue(e)
    \/ \E p \in Publishers : Work(p) \/ Fault(p)

Spec == Init /\ [][Next]_vars

(***************************************************************************)
(* Every publisher keeps polling (a ticker of two seconds) and a stopped   *)
(* one is restarted by its supervisor.  Each fault happens finitely often, *)
(* so Kafka and PostgreSQL are eventually reachable again; what is         *)
(* unwritable stays so, and is refused on every poll.                      *)
(***************************************************************************)
FairSpec == Spec /\ \A p \in Publishers : WF_vars(Work(p))

-----------------------------------------------------------------------------
Copies(e) ==
    Cardinality(UNION {{<<k, i>> : i \in {j \in DOMAIN topic[k] : topic[k][j].event = e}}
                          : k \in Partitions})

Delivered(e) == \E k \in Partitions : \E i \in DOMAIN topic[k] : topic[k][i].event = e

Stranded(e) ==
    /\ outbox[e] # None
    /\ outbox[e].status = "publishing"
    /\ \A p \in Publishers : e \notin batch[p]

\* SKIP LOCKED and the status 'publishing' together hand a row to one publisher
\* at a time (ClaimPending, outbox_repository.go:22-36): no event is in two
\* batches, and a batch past its commit holds only rows marked 'publishing'.
ClaimsExclusive ==
    /\ \A p, q \in Publishers : p # q => batch[p] \cap batch[q] = {}
    /\ \A p \in Publishers : pc[p] \in {"publishing", "writing", "written", "refused"} =>
         \A e \in batch[p] : outbox[e] # None /\ outbox[e].status = "publishing"

\* A row is marked published only for an event that Kafka has: PublishBatch
\* marks after the synchronous write (outbox_publisher.go:111-118), also when
\* writes fail, marks fail and publishers stop in between.
PublishedWasDelivered ==
    \A e \in EventIds :
        (outbox[e] # None /\ outbox[e].status = "published") => Delivered(e)

\* Publishing is at least once, and how often is bounded: a claim pays for one
\* call of the client, a call for WriteAttempts copies (outbox_publisher.go:62-72,
\* 110-121), also when writes and marks fail and publishers stop in the middle of
\* a call.  What was never claimed was never written.
CopiesWithinAttempts ==
    \A e \in EventIds :
        Copies(e) <= WriteAttempts * (IF outbox[e] = None THEN 0 ELSE outbox[e].attempts)

\* MarkFailed has no status guard (outbox_repository.go:98-103), yet no step
\* of any publisher takes a published row back.
PublishedIsFinal ==
    [][\A e \in EventIds :
         (outbox[e] # None /\ outbox[e].status = "published") =>
             outbox'[e].status = "published"]_vars

\* A Kafka outage alone strands nothing: refused writes, lost acknowledgements
\* and claims that roll back all leave rows a later poll selects again
\* (PublishBatch, outbox_publisher.go:110-121).  A stranded row takes a process
\* that stopped, a mark that failed or a claim whose commit was not confirmed.
StrandedNeedsFault ==
    \A e \in EventIds : Stranded(e) => faults.stop > 0 \/ faults.db > 0

\* A row left in 'publishing' by a publisher that no longer holds it is never
\* picked up again: ClaimPending selects pending and failed rows only.
StrandedForever ==
    [][\A e \in EventIds : Stranded(e) => Stranded(e)']_vars

\* Rows that can never be written are claimed again on every poll, in front of
\* the younger ones (ORDER BY created_at LIMIT, outbox_repository.go:22-36).  As
\* long as they are fewer than a batch they starve nobody: every other committed
\* row is eventually written to Kafka, unless it ends up stranded in 'publishing'.
DeliveredOrStranded ==
    Cardinality(Unwritable) < BatchSize =>
        \A e \in EventIds \ Unwritable : (outbox[e] # None) ~> (Delivered(e) \/ Stranded(e))

\* Every committed event reaches Kafka (resilience README, kafka-network and
\* outbox-pod drills: the ledger catches up after recovery).
EventuallyDelivered ==
    \A e \in EventIds : (outbox[e] # None) ~> Delivered(e)
=============================================================================
