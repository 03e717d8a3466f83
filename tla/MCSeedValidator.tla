--------------------------- MODULE MCSeedValidator ---------------------------
(* SeedValidator for TLC.  Cells are alike, and so are validators.          *)
EXTENDS SeedValidator, TLC

AllOptions == [keep_tapes : BOOLEAN, fail_fast : BOOLEAN, require_valid : BOOLEAN]
KeepOrRemove == [keep_tapes : BOOLEAN, fail_fast : {FALSE}, require_valid : {FALSE}]
FailFastOrNot == [keep_tapes : {FALSE}, fail_fast : BOOLEAN, require_valid : {FALSE}]

Symmetry == Permutations(Validators) \cup Permutations(Cells)
=============================================================================
