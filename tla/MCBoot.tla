------------------------------- MODULE MCBoot -------------------------------
(***************************************************************************)
(* Boot for TLC: two launchers, legacy profiles of two entries.            *)
(***************************************************************************)
EXTENDS Boot, TLC

CONSTANTS l1, l2, p1, p2

McLaunchers == {l1, l2}
McPieces == {p1, p2}

\* Nothing tells one launcher, or one entry of a profile, from another.
McSymmetry == Permutations(McLaunchers) \cup Permutations(McPieces)
=============================================================================
