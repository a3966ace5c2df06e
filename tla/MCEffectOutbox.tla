--------------------------- MODULE MCEffectOutbox ---------------------------
(* Small instances of EffectOutbox for TLC.                                *)
EXTENDS EffectOutbox

CONSTANTS a1, a2

OneAccount  == [e \in Effects |-> a1]
TwoAccounts == [e \in Effects |-> IF e = 1 THEN a1 ELSE a2]
OneLane     == [e \in Effects |-> "default"]
NoKeys      == [e \in Effects |-> NoKey]
SharedKey   == [e \in Effects |-> "k"]
KeyOfFirstTwo == [e \in Effects |-> IF e < 3 THEN "k" ELSE NoKey]
=============================================================================
