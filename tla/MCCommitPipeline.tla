-------------------------- MODULE MCCommitPipeline --------------------------
(* Instances of CommitPipeline for TLC: c1 and c2 are two attempts at the   *)
(* same command, c3 reuses their key with another input, d1 and d2 are other *)
(* commands.                                                                *)
EXTENDS CommitPipeline, TLC

CONSTANTS c1, c2, c3, d1, d2

MCKeyOf == [c \in Commands |-> IF c \in {c1, c2, c3} THEN "k" ELSE c]
MCInputOf == [c \in Commands |-> IF c = c3 THEN "other" ELSE "same"]

\* Two equal attempts, or two unrelated commands, may change places.
Interchangeable == Permutations({c1, c2}) \cup Permutations({d1, d2})
=============================================================================
