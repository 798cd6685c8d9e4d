---------------------------- MODULE MCSyncPipeline ----------------------------
(* Model-checking instances of SyncPipeline.                                  *)
EXTENDS SyncPipeline, TLC

\* All kitabs are in daftar_kitab, or all but one.
AllTitled == {Kitab}
OneMayLack == {Kitab, Kitab \ {CHOOSE k \in Kitab : TRUE}}

Symmetry == Permutations(Kitab)
===============================================================================
