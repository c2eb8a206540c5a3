------------------------- MODULE MCImageReconciler -------------------------
(***************************************************************************)
(* Model-checking instance of ImageReconciler: the constants of the runs   *)
(* that are not model values, and the symmetry of the safety runs.        *)
(***************************************************************************)
EXTENDS ImageReconciler

\* Images cloned from a source: size 1, no limits (rounded up to 2).
MCSourceSpecs == {[src |-> s, size |-> 1, limits |-> FALSE] : s \in Sources}

\* An empty image with limits: size 1 (rounded up to 2).
MCEmptySpecs == {[src |-> NoSource, size |-> 1, limits |-> TRUE]}

MCSpecs == MCSourceSpecs \cup MCEmptySpecs

\* Steps before any backend volume exists: failing there is retried cleanly.
MCEarlyFailPoints == {"get", "addFin", "resolve", "snapCreate", "setRef", "cloneGet"}

\* Every call of reconcileImage, and the List of the snapshot handler.
MCAllFailPoints == IOSteps \cup {"list"}

MCSymmetry == Permutations(Workers) \cup Permutations(Ids) \cup Permutations(Digests)
=============================================================================
