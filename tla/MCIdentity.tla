---- MODULE MCIdentity ----
\* The instance: see the .cfg for the bounds.  Keys, fingerprints and the other
\* accounts are interchangeable, and the run checks invariants only.
EXTENDS Identity, TLC

MCSymmetry ==
    Permutations(Keys) \cup Permutations(Prints) \cup Permutations(Users \ {Me})
====
