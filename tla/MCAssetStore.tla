----------------------------- MODULE MCAssetStore -----------------------------
(***************************************************************************)
(* AssetStore for TLC: two MACs and one documented asset without, enough   *)
(* to merge a merged asset; the MACs are interchangeable.                  *)
(***************************************************************************)
EXTENDS AssetStore, TLC

CONSTANTS m1, m2, d1

MacSymmetry == Permutations(Macs)
=============================================================================
