--------------------------- MODULE MCExportCache ---------------------------
(* Instances of ExportCache for TLC: a queue with two buffers and one meta buffer. *)
EXTENDS ExportCache, TLC

CONSTANTS b1, b2, m1

MCTypeOf == b1 :> "OUTPUT" @@ b2 :> "OUTPUT" @@ m1 :> "OUTPUT_META"

Symmetry == Permutations(Ids)
=============================================================================
