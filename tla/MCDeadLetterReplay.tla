-------------------------- MODULE MCDeadLetterReplay --------------------------
(***************************************************************************)
(* Small instances of DeadLetterReplay.                                    *)
(***************************************************************************)
EXTENDS DeadLetterReplay, TLC

RunSymmetry == Permutations(Runs)
=============================================================================
