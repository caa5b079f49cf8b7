----------------------------- MODULE MCCatalog -----------------------------
(* Catalog for TLC: the tables the constructor registers. *)
EXTENDS Catalog

MCTables == << "customer", "orders" >>
=============================================================================
