------------------------------ MODULE MCClique ------------------------------
(* A small instance of Clique for TLC. *)
EXTENDS Clique
=============================================================================
