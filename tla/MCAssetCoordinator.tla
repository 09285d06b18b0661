------------------------ MODULE MCAssetCoordinator ------------------------
(* Instances of AssetCoordinator for TLC.                                  *)
EXTENDS AssetCoordinator, TLC

CONSTANTS m1, m2, rt, r1, r2, r3

MCModels == {m1, m2}
MCRoots3 == {r1, r2, r3}

\* Generations are drawn at random: their names are interchangeable.
Symmetry3 == Permutations(MCRoots3)
===========================================================================
