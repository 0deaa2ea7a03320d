------------------------------- MODULE MCStorage -------------------------------
(***************************************************************************)
(* A small instance of Storage: one seeded warehouse with two zones, one   *)
(* cell and one piece of equipment.                                        *)
(***************************************************************************)
EXTENDS Storage

CONSTANTS wh, zone, yard, cell, crane, c1, c2

MCWarehouses == [w \in {wh} |-> [code |-> c1]]
MCZones == [z \in {zone, yard} |-> [warehouse |-> wh, code |-> IF z = zone THEN c1 ELSE c2]]
MCCells == [c \in {cell} |-> [warehouse |-> wh, zone |-> zone, code |-> c1, by |-> "seed"]]
MCEquipment == [e \in {crane} |-> [warehouse |-> wh, code |-> c1]]
MCAssigned == {[cell |-> cell, equipment |-> crane]}
===============================================================================
