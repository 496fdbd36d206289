----------------------------- MODULE EventTopic -----------------------------
(***************************************************************************)
(* What a consumer sees of a Kafka topic: partitions holding events.  An   *)
(* event is reduced to its idempotency key and to what _decode and         *)
(* SchemaRegistry.validate make of its body.  Two events may carry one     *)
(* key: a producer that emits the same observation twice derives the same  *)
(* key for it.  An event that does not pass validation reaches the topic   *)
(* from a producer outside the SDK or under another schema version.        *)
(***************************************************************************)
EXTENDS Integers, Sequences

CONSTANTS Partitions,  \* the topic's partitions
          Keys,        \* idempotency keys
          Bodies,      \* the kinds of body the topic may hold
          MaxLog       \* bound on the events of one partition

BodyKinds == {"valid", "schema_invalid", "undecodable"}

ASSUME TopicAssumption == Bodies \subseteq BodyKinds /\ MaxLog \in Nat

Events == [key : Keys, body : Bodies]

IsValid(e) == e.body = "valid"
=============================================================================
