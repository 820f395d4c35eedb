----------------------------- MODULE MCCollector -----------------------------
(* A small instance of Collector for TLC. *)
EXTENDS Collector
==============================================================================
