--------------------------- MODULE MCProviderProcess ---------------------------
(* Small instances of ProviderProcess: the Chief processes of one slot.       *)
EXTENDS ProviderProcess

CONSTANT m1

=============================================================================
