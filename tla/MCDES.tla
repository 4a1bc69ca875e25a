-------------------------------- MODULE MCDES --------------------------------
(* The test's vector. *)
EXTENDS DES

VectorOnly == { VectorKey }
TextOnly   == { VectorText }

=============================================================================
