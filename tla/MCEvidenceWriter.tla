-------------------------- MODULE MCEvidenceWriter --------------------------
EXTENDS EvidenceWriter
CONSTANT d1
\* All events observe one domain: every two transactions meet in it.
OneDomain == [k \in Keys |-> d1]
=============================================================================
