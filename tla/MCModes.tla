------------------------------ MODULE MCModes ------------------------------
(***************************************************************************)
(* A small instance of Modes.                                              *)
(***************************************************************************)
EXTENDS Modes

(* Users start without modes or with two.                                  *)
PinnedModes == {<<>>, <<"E", "i">>}
=============================================================================
