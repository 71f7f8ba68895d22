----------------------------- MODULE MCBranding -----------------------------
(* Instances of Branding for TLC.                                          *)
EXTENDS Branding, TLC

Symmetry == Permutations(Procs) \cup Permutations(Reqs)
                \cup Permutations(Names \ {Default})
=============================================================================
