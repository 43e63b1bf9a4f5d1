-------------------------- MODULE MCPromptDelivery --------------------------
(* PromptDelivery on one terminal with two submissions. *)
EXTENDS PromptDelivery, TLC

(* The two prompts read alike, or not. *)
MCReadings == {<<1, 1>>, <<1, 2>>}

=============================================================================
