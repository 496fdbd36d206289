------------------------ MODULE MCTypeScriptConsumer ------------------------
EXTENDS TypeScriptConsumer

\* Topics and keys are interchangeable: call the topic and the key of the first
\* event that is published by their first names.
FirstTopic == CHOOSE t \in Partitions : TRUE
FirstKey == CHOOSE k \in Keys : TRUE

FirstNamesFirst ==
    (\E t \in Partitions : log[t] # << >>) =>
        log[FirstTopic] # << >> /\ log[FirstTopic][1].key = FirstKey
=============================================================================
