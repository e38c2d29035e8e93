------------------------------ MODULE Retention ------------------------------
(***************************************************************************)
(* The retention command: a run that takes an advisory lock and deletes,   *)
(* in batches, operational rows older than their retention, from three     *)
(* tables in turn: published outbox_events, consumed_ledger_events and     *)
(* completed dead_letter_replays.  It reports only, unless deletion was    *)
(* confirmed.                                                              *)
(*                                                                         *)
(* Time is counted in days.  A run has thirty minutes in all, so the clock *)
(* stands still while it lasts and the cutoff of a rule, computed when the *)
(* rule begins, is the same as at each of its batches.                     *)
(***************************************************************************)
EXTENDS PaymentEvents, FiniteSets, Sequences

CONSTANTS Sweeps,             \* runs of the command
          SweepBatch,         \* RETENTION_BATCH_SIZE
          OutboxRetention,    \* OUTBOX_RETENTION, in days
          ConsumedRetention,  \* CONSUMED_EVENT_RETENTION, in days
          ReplayRetention,    \* REPLAY_AUDIT_RETENTION, in days
          MaxSweepFaults      \* bound: failing statements and killed runs

VARIABLES outbox,       \* the table outbox_events
          consumed,     \* the keys of the table consumed_ledger_events
          audit,        \* the statuses of the table dead_letter_replays
          publishedAt,  \* [EventIds -> day]: the column published_at
          consumedAt,   \* [EventIds -> day]: the column consumed_at
          completedAt,  \* [EventIds -> day]: the column completed_at
          clock,        \* the day
          lock,         \* the run that holds the advisory lock, or None
          pc,           \* [Sweeps -> where the run stands]
          rule,         \* [Sweeps -> the rule it is at]
          dryRun,       \* [Sweeps -> whether it only counts]
          faults        \* how many faults have happened

tables == <<outbox, consumed, audit, publishedAt, consumedAt, completedAt>>
run == <<lock, pc, rule, dryRun, faults>>

Rules == <<"published_outbox_events", "consumed_ledger_events",
           "completed_dead_letter_replays">>

Init ==
    /\ lock = None
    /\ pc = [s \in Sweeps |-> "idle"]
    /\ rule = [s \in Sweeps |-> 1]
    /\ dryRun = [s \in Sweeps |-> TRUE]
    /\ faults = 0

Goto(s, place) == pc' = [pc EXCEPT ![s] = place]

Fault == faults < MaxSweepFaults /\ faults' = faults + 1

-----------------------------------------------------------------------------
\* Slip: rows that are exactly as old as the retention go too.
OlderOrEqual(stamp, retention) == stamp + retention <= clock

\* Slip: the cutoff lies in the future, now + retention.
OlderThanFuture(stamp, retention) == stamp < clock + retention

\* stamp < cutoff, where cutoff = now - retention.
Older(stamp, retention) == stamp + retention < clock

\* Slip: outbox rows go by their age alone, whatever their status.
EligibleAnyStatus(name) ==
    CASE name = "published_outbox_events" ->
           {e \in EventIds : outbox[e] # None /\ Older(publishedAt[e], OutboxRetention)}
      [] name = "consumed_ledger_events" ->
           {e \in consumed : Older(consumedAt[e], ConsumedRetention)}
      [] name = "completed_dead_letter_replays" ->
           {e \in EventIds : /\ audit[e] \in {"succeeded", "failed"}
                             /\ Older(completedAt[e], ReplayRetention)}

\* The WHERE clause that the CountSQL and the DeleteSQL of a rule share.
Eligible(name) ==
    CASE name = "published_outbox_events" ->
           {e \in EventIds : /\ outbox[e] # None /\ outbox[e].status = "published"
                             /\ Older(publishedAt[e], OutboxRetention)}
      [] name = "consumed_ledger_events" ->
           {e \in consumed : Older(consumedAt[e], ConsumedRetention)}
      [] name = "completed_dead_letter_replays" ->
           {e \in EventIds : /\ audit[e] \in {"succeeded", "failed"}
                             /\ Older(completedAt[e], ReplayRetention)}

\* The batch S of the rule's rows is gone.
Delete(name, S) ==
    /\ outbox' = IF name = "published_outbox_events"
                 THEN [e \in EventIds |-> IF e \in S THEN None ELSE outbox[e]]
                 ELSE outbox
    /\ consumed' = IF name = "consumed_ledger_events" THEN consumed \ S ELSE consumed
    /\ audit' = IF name = "completed_dead_letter_replays"
                THEN [e \in EventIds |-> IF e \in S THEN "none" ELSE audit[e]]
                ELSE audit
    /\ UNCHANGED <<publishedAt, consumedAt, completedAt>>

-----------------------------------------------------------------------------
\* loadConfig accepts a dry run, or a deletion with RETENTION_CONFIRM;
\* pg_try_advisory_lock does not wait.
Lock(s) ==
    /\ pc[s] = "idle"
    /\ lock = None
    /\ lock' = s
    /\ \E dry \in BOOLEAN : dryRun' = [dryRun EXCEPT ![s] = dry]
    /\ rule' = [rule EXCEPT ![s] = 1]
    /\ Goto(s, "count")
    /\ UNCHANGED <<tables, clock, faults>>

\* "another retention run holds the advisory lock"
LockRefused(s) ==
    /\ pc[s] = "idle"
    /\ lock # None
    /\ UNCHANGED <<tables, clock, run>>

NextRule(s) ==
    IF rule[s] = Len(Rules)
    THEN Goto(s, "unlock") /\ UNCHANGED rule
    ELSE Goto(s, "count") /\ rule' = [rule EXCEPT ![s] = @ + 1]

\* RunRule counts; a dry run is done with the rule then.
Count(s) ==
    /\ pc[s] = "count"
    /\ IF dryRun[s] THEN NextRule(s) ELSE Goto(s, "delete") /\ UNCHANGED rule
    /\ UNCHANGED <<tables, clock, lock, dryRun, faults>>

\* One DELETE of at most SweepBatch rows; a full batch may have left some.
DeleteBatch(s) ==
    LET name == Rules[rule[s]]
    IN  /\ pc[s] = "delete"
        /\ \E S \in SUBSET Eligible(name) :
             /\ Cardinality(S) = SweepBatch \/ S = Eligible(name)
             /\ Cardinality(S) <= SweepBatch
             /\ Delete(name, S)
             /\ IF Cardinality(S) < SweepBatch THEN NextRule(s) ELSE UNCHANGED <<pc, rule>>
        /\ UNCHANGED <<clock, lock, dryRun, faults>>

\* An error of a count or a delete ends the run; the rules after it are not
\* applied.
RuleFails(s) ==
    /\ pc[s] \in {"count", "delete"}
    /\ Fault
    /\ Goto(s, "unlock")
    /\ UNCHANGED <<tables, clock, lock, rule, dryRun>>

\* The deferred unlock; when it fails, closing the pool ends the session and
\* with it the lock.
Unlock(s) ==
    /\ pc[s] = "unlock"
    /\ lock' = None
    /\ rule' = [rule EXCEPT ![s] = 1]
    /\ dryRun' = [dryRun EXCEPT ![s] = TRUE]
    /\ Goto(s, "idle")
    /\ UNCHANGED <<tables, clock, faults>>

\* The run is killed: PostgreSQL ends its session and releases the lock.
Kill(s) ==
    /\ pc[s] # "idle"
    /\ Fault
    /\ lock' = None
    /\ rule' = [rule EXCEPT ![s] = 1]
    /\ dryRun' = [dryRun EXCEPT ![s] = TRUE]
    /\ Goto(s, "idle")
    /\ UNCHANGED <<tables, clock>>

Work(s) == Lock(s) \/ LockRefused(s) \/ Count(s) \/ DeleteBatch(s) \/ Unlock(s)

Next == \E s \in Sweeps : Work(s) \/ RuleFails(s) \/ Kill(s)
=============================================================================
