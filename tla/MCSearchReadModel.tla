-------------------------- MODULE MCSearchReadModel --------------------------
(***************************************************************************)
(* Small instances of SearchReadModel for TLC: one spot and its two keys.  *)
(***************************************************************************)
EXTENDS SearchReadModel

CONSTANTS availability, floormap

MCKeysOf == [s \in Spots |-> <<availability, floormap>>]

=============================================================================
