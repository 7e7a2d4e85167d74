------------------------ MODULE MCServiceLifecycle -------------------------
(* An instance of ServiceLifecycle: manifests, fetches and requests are      *)
(* interchangeable model values.                                            *)
EXTENDS ServiceLifecycle, TLC

CONSTANTS m1, m2, f1, f2, f3, o1, o2

MCManifests == {m1, m2}
TwoFetches == {f1, f2}
ThreeFetches == {f1, f2, f3}
OneOp == {o1}
TwoOps == {o1, o2}

\* Permuting the members of the three sets maps behaviours to behaviours.
ServiceSymmetry ==
  Permutations(Manifests) \cup Permutations(Fetches) \cup Permutations(Ops)
=============================================================================
