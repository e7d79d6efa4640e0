------------------------------ MODULE MCFootprint ------------------------------
(***************************************************************************)
(* Instances of FootprintDiscovery for TLC.  The configurations differ in  *)
(* the search mode, the number of workers and whether the broker           *)
(* duplicates or loses deliveries.                                         *)
(***************************************************************************)
EXTENDS FootprintDiscovery

CONSTANTS ann, bob

\* Every shard finds an account of one person.
OneName == [s \in Shards |-> {ann}]

\* Every shard finds accounts of two people: the owner may be asked to choose.
TwoNames == [s \in Shards |-> {ann, bob}]

================================================================================
