--------------------------- MODULE MCCodegenApply ---------------------------
(* Small trees for TLC: the generated contents are interchangeable. *)
EXTENDS CodegenApply, TLC

Symmetry == Permutations(Contents)
=============================================================================
