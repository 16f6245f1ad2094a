---------------------------- MODULE MCSessionFactory ----------------------------
(* SessionFactory for TLC. *)
EXTENDS SessionFactory
=============================================================================
