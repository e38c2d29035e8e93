--------------------------- MODULE DeadLetterReplay ---------------------------
(***************************************************************************)
(* The replay-dead-letter command: an operator names one dead-letter       *)
(* record; the command claims its event in the table dead_letter_replays,  *)
(* writes the original message to the payment events topic again and       *)
(* records how that ended.  Several operators may run it at once, and a    *)
(* run may end between any two of its calls: it has thirty seconds in all, *)
(* and when they are over every further call fails.                        *)
(***************************************************************************)
EXTENDS PaymentEvents, FiniteSets, Sequences

CONSTANTS Runs,            \* runs of the command
          MaxDeadLetters,  \* bound: records on the dead-letter topic
          MaxFaults        \* bound: failing calls and crashes

ASSUME ReplayAssumption ==
    /\ MaxDeadLetters \in Nat
    /\ MaxFaults \in Nat

VARIABLES deadLetters,  \* Seq(Records): the dead-letter topic
          audit,        \* [EventIds -> AuditStatuses]: the table dead_letter_replays
          republished,  \* Seq(EventIds): what runs wrote to the payment events topic
          pc,           \* [Runs -> where the run stands]
          event,        \* [Runs -> the event it replays, or None]
          faults        \* how many faults have happened

vars == <<deadLetters, audit, republished, pc, event, faults>>

AuditStatuses == {"none", "started", "succeeded", "failed"}

Places == {"idle", "start", "write", "finish_succeeded", "finish_failed",
           "ok", "refused", "claimed", "republish_failed", "error"}

\* A record carries its event's id, None when the message had no event_id, and
\* whether its schema version and source topic are the configured ones.
Records == [event: EventIds \cup {None}, allowed: BOOLEAN]

TypeOK ==
    /\ deadLetters \in Seq(Records)
    /\ audit \in [EventIds -> AuditStatuses]
    /\ republished \in Seq(EventIds)
    /\ pc \in [Runs -> Places]
    /\ event \in [Runs -> EventIds \cup {None}]
    /\ faults \in 0..MaxFaults

Init ==
    /\ deadLetters = <<>>
    /\ audit = [e \in EventIds |-> "none"]
    /\ republished = <<>>
    /\ pc = [r \in Runs |-> "idle"]
    /\ event = [r \in Runs |-> None]
    /\ faults = 0

Goto(r, place) == pc' = [pc EXCEPT ![r] = place]

Fault == faults < MaxFaults /\ faults' = faults + 1

-----------------------------------------------------------------------------
\* The ledger consumer gives up on a message.
DeadLetterArrives ==
    /\ Len(deadLetters) < MaxDeadLetters
    /\ \E record \in Records : deadLetters' = Append(deadLetters, record)
    /\ UNCHANGED <<audit, republished, pc, event, faults>>

(***************************************************************************)
(* The command fetches the record at the offset the operator names and     *)
(* compares its event id with the one the operator names; Replay refuses   *)
(* records without an event id, of another schema or from another topic.   *)
(***************************************************************************)
Acceptable(record, e) == record.allowed /\ record.event = e

Begin(r) ==
    /\ pc[r] = "idle"
    /\ \E offset \in DOMAIN deadLetters, e \in EventIds :
         /\ event' = [event EXCEPT ![r] = e]
         /\ Goto(r, IF Acceptable(deadLetters[offset], e) THEN "start" ELSE "refused")
    /\ UNCHANGED <<deadLetters, audit, republished, faults>>

\* Slip: an event that is being replayed can be claimed.
ClaimableInProgress(status) == status \in {"none", "failed", "started"}

\* Slip: an event that has been replayed can be claimed.
ClaimableAgain(status) == status # "started"

\* INSERT ... ON CONFLICT DO UPDATE ... WHERE status = 'failed'.
Claimable(status) == status \in {"none", "failed"}

StartReplay(r) ==
    /\ pc[r] = "start"
    /\ Claimable(audit[event[r]])
    /\ audit' = [audit EXCEPT ![event[r]] = "started"]
    /\ Goto(r, "write")
    /\ UNCHANGED <<deadLetters, republished, event, faults>>

AlreadyClaimed(r) ==
    /\ pc[r] = "start"
    /\ ~Claimable(audit[event[r]])
    /\ Goto(r, "claimed")
    /\ UNCHANGED <<deadLetters, audit, republished, event, faults>>

\* The statement fails, or takes effect and its answer is lost.
StartFails(r) ==
    /\ pc[r] = "start"
    /\ Fault
    /\ \/ UNCHANGED audit
       \/ /\ Claimable(audit[event[r]])
          /\ audit' = [audit EXCEPT ![event[r]] = "started"]
    /\ Goto(r, "error")
    /\ UNCHANGED <<deadLetters, republished, event>>

Republish(r) ==
    /\ pc[r] = "write"
    /\ republished' = Append(republished, event[r])
    /\ Goto(r, "finish_succeeded")
    /\ UNCHANGED <<deadLetters, audit, event, faults>>

\* Within WriteMessages the client writes again when an acknowledgement is lost.
RepublishRetries(r) ==
    /\ pc[r] = "write"
    /\ Fault
    /\ republished' = Append(republished, event[r])
    /\ UNCHANGED <<deadLetters, audit, pc, event>>

\* WriteMessages returns an error; the message may have been written.
RepublishFails(r) ==
    /\ pc[r] = "write"
    /\ Fault
    /\ \/ UNCHANGED republished
       \/ republished' = Append(republished, event[r])
    /\ Goto(r, "finish_failed")
    /\ UNCHANGED <<deadLetters, audit, event>>

\* Slip: the outcome of the write is not looked at.
FinishAlwaysSucceeded(r) == "succeeded"

\* FinishReplay updates the audit by its id, whatever status it has.
FinishStatus(r) == IF pc[r] = "finish_succeeded" THEN "succeeded" ELSE "failed"

FinishOutcome(r) == IF pc[r] = "finish_succeeded" THEN "ok" ELSE "republish_failed"

FinishReplay(r) ==
    /\ pc[r] \in {"finish_succeeded", "finish_failed"}
    /\ audit' = [audit EXCEPT ![event[r]] = FinishStatus(r)]
    /\ Goto(r, FinishOutcome(r))
    /\ UNCHANGED <<deadLetters, republished, event, faults>>

\* After a successful write the error of FinishReplay is returned, after a
\* failed one it is dropped and the write's error returned.
FinishFails(r) ==
    /\ pc[r] \in {"finish_succeeded", "finish_failed"}
    /\ Fault
    /\ \/ UNCHANGED audit
       \/ audit' = [audit EXCEPT ![event[r]] = FinishStatus(r)]
    /\ Goto(r, IF pc[r] = "finish_succeeded" THEN "error" ELSE "republish_failed")
    /\ UNCHANGED <<deadLetters, republished, event>>

\* The process is killed.
Stop(r) ==
    /\ pc[r] \in {"start", "write", "finish_succeeded", "finish_failed"}
    /\ Fault
    /\ Goto(r, "error")
    /\ UNCHANGED <<deadLetters, audit, republished, event>>

Ended == {"ok", "refused", "claimed", "republish_failed", "error"}

\* No command is running and none is to come.
Quiet == (\A r \in Runs : pc[r] \in Ended) /\ UNCHANGED vars

Next ==
    \/ DeadLetterArrives
    \/ \E r \in Runs :
         \/ Begin(r) \/ StartReplay(r) \/ AlreadyClaimed(r) \/ StartFails(r)
         \/ Republish(r) \/ RepublishRetries(r) \/ RepublishFails(r)
         \/ FinishReplay(r) \/ FinishFails(r) \/ Stop(r)
    \/ Quiet

Spec == Init /\ [][Next]_vars

-----------------------------------------------------------------------------
Active == {"write", "finish_succeeded", "finish_failed"}

Copies(e) == Cardinality({i \in DOMAIN republished : republished[i] = e})

\* "A succeeded or in-progress event cannot be replayed again automatically"
\* (scripts/README.md:58), part one: StartReplay lets one run at a time past it,
\* and the audit says 'started' as long as it is at work.
ReplayExclusive ==
    /\ \A r, s \in Runs :
         (pc[r] \in Active /\ pc[s] \in Active /\ event[r] = event[s]) => r = s
    /\ \A r \in Runs : pc[r] \in Active => audit[event[r]] = "started"

\* An audit says 'succeeded' only for an event that is on the payment events
\* topic again, and a run that reports success has left it that way.
SucceededWasRepublished ==
    /\ \A e \in EventIds : audit[e] = "succeeded" => Copies(e) > 0
    /\ \A r \in Runs : pc[r] = "ok" => audit[event[r]] = "succeeded"

\* Part two: once an audit says 'succeeded' it stays so (FinishReplay has no
\* status guard, replay_repository.go:66-69) and the event is not written again.
SucceededIsFinal ==
    [][\A e \in EventIds : audit[e] = "succeeded" =>
         audit'[e] = "succeeded" /\ Copies(e)' = Copies(e)]_vars

\* "A failed replay may be retried." (scripts/README.md:58): when a run has
\* reported that its write failed and no run is at work on the event, another
\* run can claim it, unless the event was replayed after all.
FailedReplayRetryable ==
    \A r \in Runs :
        (/\ pc[r] = "republish_failed"
         /\ \A s \in Runs : ~(pc[s] \in Active /\ event[s] = event[r]))
        => Claimable(audit[event[r]]) \/ audit[event[r]] = "succeeded"
=============================================================================
