--------------------------- MODULE MCEventConsumer ---------------------------
EXTENDS EventConsumer

SafetySymmetry ==
    Permutations(Consumers) \cup Permutations(Keys) \cup Permutations(Partitions)

\* Bound: three events, of which at most one is in another partition than the
\* first, and that a poison message when there are two in the first.  Partitions
\* and keys are interchangeable: those of the first event that is published have
\* the first names.
FirstPartition == CHOOSE p \in Partitions : TRUE
FirstKey == CHOOSE k \in Keys : TRUE

FewEvents ==
    \A p \in Partitions \ {FirstPartition} : log[p] # << >> =>
        /\ Len(log[p]) = 1
        /\ Len(log[FirstPartition]) <= IF Poisoned(p) THEN 2 ELSE 1

FirstNamesFirst ==
    (\E p \in Partitions : log[p] # << >>) =>
        log[FirstPartition] # << >> /\ log[FirstPartition][1].key = FirstKey
=============================================================================
