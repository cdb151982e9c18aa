----------------------------- MODULE MCDelivery -----------------------------
(***************************************************************************)
(* Small instances of Delivery.                                            *)
(***************************************************************************)
EXTENDS Delivery, TLC

Symmetry == Permutations(Server) \cup Permutations(Conn) \cup Permutations(Nick)
                \cup Permutations(Lease)

(* Liveness is checked without symmetry, so its runs fix who connects      *)
(* where: every connection has a server and a nick of its own.             *)
Home == CHOOSE f \in [Conn -> Server \X Nick] :
            \A c, d \in Conn : c # d => f[c][1] # f[d][1] /\ f[c][2] # f[d][2]

Placed == \A c \in Conn : client[c].st \in {"new", "gone"}
                          \/ /\ client[c].srv = Home[c][1]
                             /\ client[c].nick \in {NoNick, Home[c][2]}
=============================================================================
