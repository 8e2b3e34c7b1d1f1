------------------------- MODULE MCTransferContract -------------------------
(* Small instances of TransferContract for TLC. *)
EXTENDS TransferContract

\* Serial numbers are only compared with each other.
MCSymmetry == Permutations(Serial)

\* Keys are set on both chains before the first burn, those of redeem possibly never.
KeysFirst ==
    (\E c \in Chain : burns[c] # <<>> \/ received[c] > 0) =>
        mintKeys = Chain /\ redeemKeys \in {{}, Chain}
=============================================================================
