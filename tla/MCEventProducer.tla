-------------------------- MODULE MCEventProducer --------------------------
\* Payloads for TLC: each satisfies the keywords of one version, with or without
\* well-formed formats.
EXTENDS EventProducer

MCPayloads == [fits: {{v} : v \in Versions}, formats: BOOLEAN]

\* Versions are interchangeable: the one registered first has the first name.
FirstVersion == CHOOSE v \in Versions : TRUE
FirstNameFirst == registered # << >> => registered[1] = FirstVersion

\* Bound: a third call only when all are Python's, which have a queue to share.
ThreeCallsInPython ==
    Cardinality({c \in Calls : status[c] # "idle"}) > 2 => \A c \in Calls : PythonCall(c)
=============================================================================
