-------------------------------- MODULE MCBoot --------------------------------
(* One or two processes start on a fresh or an installed database.         *)
EXTENDS Boot, TLC

Symmetry == Permutations(Processes)
=============================================================================
