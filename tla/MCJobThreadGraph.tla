--------------------------- MODULE MCJobThreadGraph ---------------------------
(* JobThreadGraph for TLC: names are interchangeable, so the client adds them in order. *)
EXTENDS JobThreadGraph, TLC

Named == nodes = 1..Cardinality(nodes)

===============================================================================
