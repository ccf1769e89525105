---------------------------- MODULE MCBotDialogue ----------------------------
(***************************************************************************)
(* BotDialogue with two handlers, two plans and two names.                  *)
(***************************************************************************)
EXTENDS BotDialogue, TLC

MCSymmetry == Permutations(Handlers) \cup Permutations(Plans) \cup Permutations(Targets)
=============================================================================
