------------------------- MODULE MCBotProvisioning -------------------------
(* Small instances of BotProvisioning for TLC. *)
EXTENDS BotProvisioning, TLC

CONSTANTS alice, h1, h2, h3

JustAlice == {alice}
ThreeHandlers == {h1, h2, h3}
HandlerSymmetry == Permutations(ThreeHandlers)
=============================================================================
