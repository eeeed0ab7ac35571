-------------------------------- MODULE MCLoad --------------------------------
(* LoadGenerator for TLC. *)
EXTENDS LoadGenerator

MCProfiles ==
  {[harness |-> "endurance", mix |-> {"nftMint", "nftTransfer"}],
   [harness |-> "endurance", mix |-> {"permit", "permitTransferFrom"}],
   [harness |-> "stress", mix |-> {"wrapGMB"}]}
=============================================================================
