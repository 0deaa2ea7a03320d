---------------------------- MODULE MCDealPipeline ----------------------------
(***************************************************************************)
(* Small instances of DealPipeline.                                        *)
(***************************************************************************)
EXTENDS DealPipeline

CONSTANTS r1, r2, r3, neon, stranger

Body(title, customer, stage) == [title |-> title, customer |-> customer, stage |-> stage]

MCInputs == {Body(TRUE, neon, ""), Body(TRUE, stranger, "won"), Body(FALSE, neon, "won")}
OneInput == {Body(TRUE, neon, "won")}
===============================================================================
