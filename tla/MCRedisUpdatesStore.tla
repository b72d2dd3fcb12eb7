------------------------ MODULE MCRedisUpdatesStore -------------------------
EXTENDS RedisUpdatesStore, FiniteSets

CONSTANT Heavy   \* the updates that are longer than the others

(* An encoded update has a header; merging keeps one header for all parts. *)
MCSize(ups) == 1 + Cardinality(ups) + Cardinality(ups \cap Heavy)
=============================================================================
