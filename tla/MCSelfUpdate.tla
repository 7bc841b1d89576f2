---------------------------- MODULE MCSelfUpdate ----------------------------
\* Small instances of SelfUpdate: the candidate replaces both files.
EXTENDS SelfUpdate, TLC

CONSTANTS p, q

MCChanges == [c \in Candidates |-> <<p, q>>]

\* Nothing tells one task from another.
TaskSymmetry == Permutations(Tasks)

=============================================================================
