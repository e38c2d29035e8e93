------------------------------ MODULE MCPipeline ------------------------------
(***************************************************************************)
(* Small instances of Pipeline.                                            *)
(***************************************************************************)
EXTENDS Pipeline, TLC

MCPartitionOf == [e \in EventIds |-> CHOOSE k \in Partitions : TRUE]

\* Retention runs are alike, and so are replays.
PipelineSymmetry == Permutations(Sweeps) \cup Permutations(Replays)

\* The calendar starts on the day of the first message.  A row that waits for its
\* first write has no time, and only differences of days are compared: a message
\* first written on a later day repeats what is seen here, with fewer days left.
\* Rows that wait and are not written yet may do so on every day.
FirstDay ==
    (\E k \in Partitions : topic[k] # <<>>) =>
        \E k \in Partitions : \E i \in DOMAIN writtenAt[k] : writtenAt[k][i] = 0
=============================================================================
