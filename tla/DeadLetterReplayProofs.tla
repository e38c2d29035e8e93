----------------------- MODULE DeadLetterReplayProofs -----------------------
(***************************************************************************)
(* Proofs about DeadLetterReplay, for any set of runs and any bounds.      *)
(*                                                                         *)
(* The argument is one about a lock: the row of dead_letter_replays with   *)
(* status 'started' is held by at most one run, because the claim is one   *)
(* statement and FinishReplay, which has no status guard, is reached only  *)
(* by the run that holds it.                                               *)
(***************************************************************************)
EXTENDS DeadLetterReplay, FiniteSetTheorems, TLAPS

\* A run that has begun has an event.
EventKnown == \A r \in Runs : pc[r] # "idle" => event[r] \in EventIds

Written(e) == \E i \in DOMAIN republished : republished[i] = e

\* A run that is about to record success has written its event.
WrittenBeforeFinish ==
    \A r \in Runs : pc[r] = "finish_succeeded" => Written(event[r])

SucceededWritten == \A e \in EventIds : audit[e] = "succeeded" => Written(e)

OkSucceeded == \A r \in Runs : pc[r] = "ok" => audit[event[r]] = "succeeded"

\* The inductive invariant.
ReplayInv ==
    /\ TypeOK
    /\ EventKnown
    /\ ReplayExclusive
    /\ WrittenBeforeFinish
    /\ SucceededWritten
    /\ OkSucceeded

-----------------------------------------------------------------------------
\* The initial states satisfy it.
LEMMA InitReplayInv == Init => ReplayInv
BY ReplayAssumption
   DEF Init, ReplayInv, TypeOK, EventKnown, ReplayExclusive, WrittenBeforeFinish,
       SucceededWritten, OkSucceeded, Active, Places, AuditStatuses

\* What the topic holds it keeps.
LEMMA WrittenStays ==
    ASSUME republished \in Seq(EventIds), NEW e, NEW f \in EventIds,
           republished' = republished \/ republished' = Append(republished, f)
    PROVE  Written(e) => Written(e)'
BY DEF Written

\* A write puts its event on the topic.
LEMMA AppendWrites ==
    ASSUME republished \in Seq(EventIds), NEW e \in EventIds,
           republished' = Append(republished, e)
    PROVE  Written(e)'
<1>1. /\ Len(republished) + 1 \in DOMAIN republished'
      /\ republished'[Len(republished) + 1] = e
  OBVIOUS
<1> QED
  BY <1>1 DEF Written

-----------------------------------------------------------------------------
(***************************************************************************)
(* The steps of one run, by what they do to the audit and the topic.       *)
(***************************************************************************)
Moves(r) ==
    /\ pc' = [pc EXCEPT ![r] = pc'[r]]
    /\ pc'[r] \in Places
    /\ deadLetters' = deadLetters
    /\ faults' \in 0..MaxFaults

\* The run learns its event and does not touch the audit.
Begins(r) ==
    /\ pc[r] = "idle" /\ pc'[r] \in {"start", "refused"}
    /\ \E e \in EventIds : event' = [event EXCEPT ![r] = e]
    /\ UNCHANGED <<audit, republished>>

\* The run leaves without a trace.
Leaves(r) ==
    /\ pc[r] # "idle" /\ pc'[r] \in {"claimed", "error", "republish_failed"}
    /\ UNCHANGED <<audit, republished, event>>

\* The run claims its event, and may not live to see it.
Claims(r) ==
    /\ pc[r] = "start" /\ pc'[r] \in {"write", "error"}
    /\ Claimable(audit[event[r]])
    /\ audit' = [audit EXCEPT ![event[r]] = "started"]
    /\ UNCHANGED <<republished, event>>

\* The run writes, writes and tries again, or its write fails with or without
\* effect.
Writes(r) ==
    /\ pc[r] = "write"
    /\ \/ pc'[r] = "write" /\ republished' = Append(republished, event[r])
       \/ pc'[r] = "finish_succeeded" /\ republished' = Append(republished, event[r])
       \/ pc'[r] = "finish_failed" /\ republished' = Append(republished, event[r])
       \/ pc'[r] = "finish_failed" /\ republished' = republished
    /\ UNCHANGED <<audit, event>>

\* The run records its outcome, and may not live to see it.
Finishes(r) ==
    /\ \/ /\ pc[r] = "finish_succeeded" /\ pc'[r] \in {"ok", "error"}
          /\ audit' = [audit EXCEPT ![event[r]] = "succeeded"]
       \/ /\ pc[r] = "finish_failed" /\ pc'[r] = "republish_failed"
          /\ audit' = [audit EXCEPT ![event[r]] = "failed"]
    /\ UNCHANGED <<republished, event>>

\* Every step has one of these forms, or changes only the dead-letter topic.
LEMMA NextForms ==
    ASSUME TypeOK, [Next]_vars
    PROVE  \/ /\ deadLetters' \in Seq(Records)
              /\ UNCHANGED <<audit, republished, pc, event, faults>>
           \/ \E r \in Runs :
                /\ Moves(r)
                /\ \/ Begins(r) \/ Leaves(r) \/ Claims(r) \/ Writes(r) \/ Finishes(r)
<1>1. CASE UNCHANGED vars
  BY <1>1 DEF vars, TypeOK
<1>2. CASE DeadLetterArrives
  BY <1>2 DEF DeadLetterArrives, TypeOK
<1>3. CASE Quiet
  BY <1>3 DEF Quiet, vars, TypeOK
<1>4. ASSUME NEW r \in Runs, Begin(r) PROVE Moves(r) /\ Begins(r)
  BY <1>4 DEF Begin, Goto, Moves, Begins, TypeOK, Places
<1>5. ASSUME NEW r \in Runs, StartReplay(r) PROVE Moves(r) /\ Claims(r)
  BY <1>5 DEF StartReplay, Goto, Moves, Claims, TypeOK, Places
<1>6. ASSUME NEW r \in Runs, AlreadyClaimed(r) PROVE Moves(r) /\ Leaves(r)
  BY <1>6 DEF AlreadyClaimed, Goto, Moves, Leaves, TypeOK, Places
<1>7. ASSUME NEW r \in Runs, StartFails(r) PROVE Moves(r) /\ (Leaves(r) \/ Claims(r))
  BY <1>7, ReplayAssumption DEF StartFails, Fault, Goto, Moves, Leaves, Claims, TypeOK, Places
<1>8. ASSUME NEW r \in Runs, Republish(r) PROVE Moves(r) /\ Writes(r)
  BY <1>8 DEF Republish, Goto, Moves, Writes, TypeOK, Places
<1>9. ASSUME NEW r \in Runs, RepublishFails(r) PROVE Moves(r) /\ Writes(r)
  BY <1>9, ReplayAssumption DEF RepublishFails, Fault, Goto, Moves, Writes, TypeOK, Places
<1>10. ASSUME NEW r \in Runs, FinishReplay(r) PROVE Moves(r) /\ Finishes(r)
  BY <1>10 DEF FinishReplay, FinishStatus, FinishOutcome, Goto, Moves, Finishes, TypeOK, Places
<1>11. ASSUME NEW r \in Runs, FinishFails(r) PROVE Moves(r) /\ (Leaves(r) \/ Finishes(r))
  BY <1>11, ReplayAssumption
     DEF FinishFails, FinishStatus, Fault, Goto, Moves, Leaves, Finishes, TypeOK, Places
<1>12. ASSUME NEW r \in Runs, Stop(r) PROVE Moves(r) /\ Leaves(r)
  BY <1>12, ReplayAssumption DEF Stop, Fault, Goto, Moves, Leaves, TypeOK, Places
<1>13. ASSUME NEW r \in Runs, RepublishRetries(r) PROVE Moves(r) /\ Writes(r)
  BY <1>13, ReplayAssumption DEF RepublishRetries, Fault, Moves, Writes, TypeOK, Places
<1> QED
  BY <1>1, <1>2, <1>3, <1>4, <1>5, <1>6, <1>7, <1>8, <1>9, <1>10, <1>11, <1>12, <1>13 DEF Next

-----------------------------------------------------------------------------
\* A step keeps the types and the events of the runs.
LEMMA MovesTyped ==
    ASSUME ReplayInv, NEW r \in Runs, Moves(r),
           Begins(r) \/ Leaves(r) \/ Claims(r) \/ Writes(r) \/ Finishes(r)
    PROVE  TypeOK' /\ EventKnown'
<1>1. /\ pc' \in [Runs -> Places] /\ deadLetters' \in Seq(Records) /\ faults' \in 0..MaxFaults
  BY DEF ReplayInv, TypeOK, Moves
<1>2. event' \in [Runs -> EventIds \cup {None}]
  BY DEF ReplayInv, TypeOK, Begins, Leaves, Claims, Writes, Finishes
<1>3. audit' \in [EventIds -> AuditStatuses]
  BY DEF ReplayInv, TypeOK, Begins, Leaves, Claims, Writes, Finishes, AuditStatuses
<1>4. republished' \in Seq(EventIds)
  <2>1. Writes(r) => event[r] \in EventIds
    BY DEF ReplayInv, EventKnown, Writes
  <2>2. republished' = republished \/ (Writes(r) /\ republished' = Append(republished, event[r]))
    BY DEF Begins, Leaves, Claims, Writes, Finishes
  <2>3. republished \in Seq(EventIds)
    BY DEF ReplayInv, TypeOK
  <2> QED
    BY <2>1, <2>2, <2>3
<1>5. EventKnown'
  BY DEF ReplayInv, TypeOK, EventKnown, Moves, Begins, Leaves, Claims, Writes, Finishes
<1> QED
  BY <1>1, <1>2, <1>3, <1>4, <1>5 DEF TypeOK

\* A step keeps one run at a time on an event.
LEMMA MovesExclusive ==
    ASSUME ReplayInv, NEW r \in Runs, Moves(r),
           Begins(r) \/ Leaves(r) \/ Claims(r) \/ Writes(r) \/ Finishes(r)
    PROVE  ReplayExclusive'
<1>1. \A s \in Runs \ {r} : pc'[s] = pc[s] /\ event'[s] = event[s]
  BY DEF ReplayInv, TypeOK, Moves, Begins, Leaves, Claims, Writes, Finishes
<1>2. CASE Begins(r)
  BY <1>1, <1>2 DEF ReplayInv, ReplayExclusive, Begins, Active
<1>3. CASE Leaves(r)
  BY <1>1, <1>3 DEF ReplayInv, ReplayExclusive, Leaves, Active
<1>4. CASE Claims(r)
  <2>1. \A s \in Runs : pc[s] \in Active => event[s] # event[r]
    BY <1>4 DEF ReplayInv, ReplayExclusive, Claims, Claimable
  <2>2. event[r] \in EventIds /\ audit'[event[r]] = "started"
    BY <1>4 DEF ReplayInv, TypeOK, EventKnown, Claims
  <2>3. \A e \in EventIds \ {event[r]} : audit'[e] = audit[e]
    BY <1>4 DEF ReplayInv, TypeOK, Claims
  <2>4. \A s \in Runs : pc[s] \in Active => event[s] \in EventIds
    BY DEF ReplayInv, EventKnown, Active
  <2> QED
    BY <1>1, <1>4, <2>1, <2>2, <2>3, <2>4 DEF ReplayInv, ReplayExclusive, Claims, Active
<1>5. CASE Writes(r)
  BY <1>1, <1>5 DEF ReplayInv, ReplayExclusive, Writes, Active
<1>6. CASE Finishes(r)
  <2>1. \A s \in Runs \ {r} : pc[s] \in Active => event[s] # event[r]
    BY <1>6 DEF ReplayInv, ReplayExclusive, Finishes, Active
  <2>3. \A e \in EventIds \ {event[r]} : audit'[e] = audit[e]
    BY <1>6 DEF ReplayInv, TypeOK, Finishes
  <2>4. \A s \in Runs : pc[s] \in Active => event[s] \in EventIds
    BY DEF ReplayInv, EventKnown, Active
  <2> QED
    BY <1>1, <1>6, <2>1, <2>3, <2>4 DEF ReplayInv, ReplayExclusive, Finishes, Active
<1> QED
  BY <1>2, <1>3, <1>4, <1>5, <1>6

\* An audit that says 'succeeded' is not changed by a step, and its event is not
\* written: whoever could do either holds the claim.
LEMMA MovesFinal ==
    ASSUME ReplayInv, NEW r \in Runs, Moves(r),
           Begins(r) \/ Leaves(r) \/ Claims(r) \/ Writes(r) \/ Finishes(r),
           NEW e \in EventIds, audit[e] = "succeeded"
    PROVE  /\ audit'[e] = "succeeded"
           /\ republished' # republished =>
                event[r] # e /\ republished' = Append(republished, event[r])
<1>1. pc[r] \in Active => event[r] # e
  BY DEF ReplayInv, ReplayExclusive
<1>2. CASE Claims(r)
  BY <1>2 DEF Claims, Claimable, ReplayInv, TypeOK
<1>3. CASE Writes(r)
  BY <1>1, <1>3 DEF Writes, Active
<1>4. CASE Finishes(r)
  BY <1>1, <1>4 DEF Finishes, Active, ReplayInv, TypeOK
<1> QED
  BY <1>2, <1>3, <1>4 DEF Begins, Leaves

\* A step keeps what success stands for.
LEMMA MovesWritten ==
    ASSUME ReplayInv, NEW r \in Runs, Moves(r),
           Begins(r) \/ Leaves(r) \/ Claims(r) \/ Writes(r) \/ Finishes(r)
    PROVE  WrittenBeforeFinish' /\ SucceededWritten' /\ OkSucceeded'
<1>1. \A s \in Runs \ {r} : pc'[s] = pc[s] /\ event'[s] = event[s]
  BY DEF ReplayInv, TypeOK, Moves, Begins, Leaves, Claims, Writes, Finishes
<1>2. pc[r] # "idle" => event[r] \in EventIds /\ event'[r] = event[r]
  BY DEF ReplayInv, EventKnown, Begins, Leaves, Claims, Writes, Finishes
<1>3. \A e : Written(e) => Written(e)'
  <2>1. republished' = republished => \A e : Written(e) => Written(e)'
    BY DEF Written
  <2>2. republished' # republished =>
          event[r] \in EventIds /\ republished' = Append(republished, event[r])
    BY <1>2 DEF Begins, Leaves, Claims, Writes, Finishes
  <2>3. republished \in Seq(EventIds)
    BY DEF ReplayInv, TypeOK
  <2> QED
    BY <2>1, <2>2, <2>3, WrittenStays
<1>4. pc'[r] = "finish_succeeded" => Written(event[r])' /\ event'[r] = event[r]
  <2>1. SUFFICES ASSUME pc'[r] = "finish_succeeded" PROVE Written(event[r])' /\ event'[r] = event[r]
    OBVIOUS
  <2>2. /\ republished' = Append(republished, event[r]) /\ pc[r] = "write"
    BY <2>1 DEF Begins, Leaves, Claims, Writes, Finishes
  <2>3. event[r] \in EventIds /\ event'[r] = event[r] /\ republished \in Seq(EventIds)
    BY <1>2, <2>2 DEF ReplayInv, TypeOK
  <2>4. ASSUME NEW e \in EventIds, e = event[r] PROVE Written(e)'
    BY <2>2, <2>3, <2>4, AppendWrites
  <2> QED
    BY <2>3, <2>4
<1>5. WrittenBeforeFinish'
  BY <1>1, <1>3, <1>4 DEF ReplayInv, WrittenBeforeFinish, Written
<1>6. SucceededWritten'
  <2>1. \A e \in EventIds : audit'[e] = "succeeded" =>
          audit[e] = "succeeded" \/ (pc[r] = "finish_succeeded" /\ e = event[r])
    BY <1>2 DEF ReplayInv, TypeOK, Begins, Leaves, Claims, Writes, Finishes
  <2> QED
    BY <1>3, <2>1 DEF ReplayInv, SucceededWritten, WrittenBeforeFinish
<1>7. OkSucceeded'
  <2>1. \A e \in EventIds : audit[e] = "succeeded" => audit'[e] = "succeeded"
    BY MovesFinal
  <2>2. pc'[r] = "ok" => audit'[event'[r]] = "succeeded"
    BY <1>2 DEF ReplayInv, TypeOK, Begins, Leaves, Claims, Writes, Finishes
  <2>3. \A s \in Runs : pc[s] = "ok" => event[s] \in EventIds
    BY DEF ReplayInv, EventKnown
  <2> QED
    BY <1>1, <2>1, <2>2, <2>3 DEF ReplayInv, OkSucceeded
<1> QED
  BY <1>5, <1>6, <1>7

\* Every step keeps the invariant.
LEMMA NextReplayInv == ReplayInv /\ [Next]_vars => ReplayInv'
<1> SUFFICES ASSUME ReplayInv, [Next]_vars PROVE ReplayInv'
  OBVIOUS
<1>1. CASE /\ deadLetters' \in Seq(Records)
           /\ UNCHANGED <<audit, republished, pc, event, faults>>
  BY <1>1 DEF ReplayInv, TypeOK, EventKnown, ReplayExclusive, WrittenBeforeFinish,
              SucceededWritten, OkSucceeded, Written
<1>2. ASSUME NEW r \in Runs, Moves(r),
             Begins(r) \/ Leaves(r) \/ Claims(r) \/ Writes(r) \/ Finishes(r)
      PROVE  ReplayInv'
  BY <1>2, MovesTyped, MovesExclusive, MovesWritten DEF ReplayInv
<1>3. TypeOK
  BY DEF ReplayInv
<1> QED
  BY <1>1, <1>2, <1>3, NextForms

\* The invariant holds in every behaviour.
LEMMA AlwaysReplayInv == Spec => []ReplayInv
BY InitReplayInv, NextReplayInv, PTL DEF Spec

\* Every variable keeps its type; the audit only ever holds a status the table's
\* CHECK allows (000007_create_dead_letter_replays.up.sql).
THEOREM TypeCorrect == Spec => []TypeOK
BY AlwaysReplayInv, PTL DEF ReplayInv

\* However many operators replay one event at once and wherever they are stopped,
\* StartReplay lets one of them past it at a time, and the audit says 'started'
\* for as long as it is at work (replay_repository.go:32-59).
THEOREM OneRunAtATime == Spec => []ReplayExclusive
BY AlwaysReplayInv, PTL DEF ReplayInv

-----------------------------------------------------------------------------
\* An event on the topic counts at least once.
LEMMA WrittenCounts ==
    ASSUME republished \in Seq(EventIds), NEW e, Written(e)
    PROVE  Copies(e) > 0
<1> DEFINE S == {i \in DOMAIN republished : republished[i] = e}
<1>1. IsFiniteSet(1..Len(republished)) /\ DOMAIN republished = 1..Len(republished)
  BY FS_Interval
<1>2. IsFiniteSet(S)
  BY <1>1, FS_Subset
<1>3. S # {}
  BY DEF Written
<1>4. Cardinality(S) \in Nat /\ Cardinality(S) # 0
  BY <1>2, <1>3, FS_CardinalityType, FS_EmptySet
<1> QED
  BY <1>4 DEF Copies

\* An audit says 'succeeded' only for an event that is on the payment events topic
\* again, and a run that reports success has left it that way, also when other runs
\* end in between (replayer.go:44-69).
THEOREM SuccessIsReal == Spec => []SucceededWasRepublished
<1>1. ReplayInv => SucceededWasRepublished
  BY WrittenCounts
     DEF ReplayInv, TypeOK, SucceededWritten, OkSucceeded, SucceededWasRepublished
<1> QED
  BY <1>1, AlwaysReplayInv, PTL

\* Once an audit says 'succeeded' it stays so, although FinishReplay has no status
\* guard (replay_repository.go:66-69), and its event is not written again.
THEOREM SuccessIsFinal == Spec => SucceededIsFinal
<1>1. ReplayInv /\ [Next]_vars =>
        [\A e \in EventIds : audit[e] = "succeeded" =>
            audit'[e] = "succeeded" /\ Copies(e)' = Copies(e)]_vars
  <2> SUFFICES ASSUME ReplayInv, [Next]_vars, NEW e \in EventIds, audit[e] = "succeeded"
               PROVE  audit'[e] = "succeeded" /\ Copies(e)' = Copies(e)
    OBVIOUS
  <2>1. CASE UNCHANGED <<audit, republished>>
    BY <2>1 DEF Copies
  <2>2. ASSUME NEW r \in Runs, Moves(r),
               Begins(r) \/ Leaves(r) \/ Claims(r) \/ Writes(r) \/ Finishes(r)
        PROVE  audit'[e] = "succeeded" /\ Copies(e)' = Copies(e)
    <3>1. /\ audit'[e] = "succeeded"
          /\ republished' # republished =>
                event[r] # e /\ republished' = Append(republished, event[r])
      BY <2>2, MovesFinal
    <3>2. {i \in DOMAIN republished' : republished'[i] = e}
            = {i \in DOMAIN republished : republished[i] = e}
      <4>1. republished \in Seq(EventIds) /\ republished' \in Seq(EventIds)
        BY <2>2, MovesTyped DEF ReplayInv, TypeOK
      <4>2. CASE republished' = republished
        BY <4>2
      <4>3. CASE event[r] # e /\ republished' = Append(republished, event[r])
        BY <4>1, <4>3
      <4> QED
        BY <3>1, <4>2, <4>3
    <3> QED
      BY <3>1, <3>2 DEF Copies
  <2>3. TypeOK
    BY DEF ReplayInv
  <2> QED
    BY <2>1, <2>2, <2>3, NextForms
<1> QED
  BY <1>1, AlwaysReplayInv, PTL DEF Spec, SucceededIsFinal
=============================================================================
