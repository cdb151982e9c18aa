--------------------------- MODULE MCMembership ---------------------------
(***************************************************************************)
(* Small instances of Membership.                                          *)
(***************************************************************************)
EXTENDS Membership, TLC

Symmetry == Permutations(Server) \cup Permutations(Conn) \cup Permutations(Nick)
                \cup Permutations(Lease)
=============================================================================
