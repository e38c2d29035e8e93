-------------------------- MODULE MCOutboxPublisher --------------------------
(***************************************************************************)
(* Small instances of OutboxPublisher: three events of which the later     *)
(* ones may be status changes of the earlier, two publishers, a batch      *)
(* smaller than the backlog, two partitions.                               *)
(***************************************************************************)
EXTENDS OutboxPublisher

MCPartitionOf == [e \in EventIds |-> e % 2]
=============================================================================
