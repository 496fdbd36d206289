---------------------------- MODULE EvidenceStore ----------------------------
(***************************************************************************)
(* What the evidence writers promise the canonical store                   *)
(* (evidence_writer.py 26-53, 162-170): an event is stored in one step, as *)
(* its domain, one provenance row and one evidence row; a writer stores an *)
(* event at most once, and answers with the rows of the event.             *)
(* Transactions, statements, failures and redeliveries do not appear.      *)
(***************************************************************************)
CONSTANTS Writers, Keys, DomainOf, RowIds

VARIABLES domain, provenance, evidence,   \* the rows
          results                         \* the WriteResults returned so far

vars == <<domain, provenance, evidence, results>>

Init == domain = {} /\ provenance = {} /\ evidence = {} /\ results = {}

Stored(k) == {p \in provenance : p.method = k}

Answer(id, k, isNew) ==
    [provenance_id |-> id, idempotency_key |-> k, created |-> isNew]

\* The event of k becomes a pair under a new id; the answer may get lost.
Store(w, k, id) ==
    /\ \A p \in provenance : p.provenance_id # id
    /\ \A p \in Stored(k) : p.writer # w
    /\ domain' = domain \cup {DomainOf[k]}
    /\ provenance' = provenance \cup {[provenance_id |-> id, method |-> k, writer |-> w]}
    /\ evidence' = evidence \cup {[provenance_id |-> id, domain_id |-> DomainOf[k]]}
    /\ results' \in {results, results \cup {Answer(id, k, TRUE)}}

\* The event of k is stored, once: its pair is the answer.
Find(k) ==
    /\ \E p \in provenance : /\ Stored(k) = {p}
                             /\ results' = results \cup {Answer(p.provenance_id, k, FALSE)}
    /\ UNCHANGED <<domain, provenance, evidence>>

Next == \E k \in Keys : \/ \E w \in Writers, id \in RowIds : Store(w, k, id)
                        \/ Find(k)

Spec == Init /\ [][Next]_vars
=============================================================================
