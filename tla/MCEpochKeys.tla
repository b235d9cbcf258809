---------------------------- MODULE MCEpochKeys ----------------------------
(* Small instances of EpochKeys: one other user who joins and leaves.      *)
EXTENDS EpochKeys, TLC

CONSTANT u1

OneOther == {u1}

=============================================================================
