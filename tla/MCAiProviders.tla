--------------------------- MODULE MCAiProviders ---------------------------
(* A small instance of AiProviders for TLC: a document is edited.          *)
EXTENDS AiProviders

Edited == {{"rewrite"}}
OwnGroups == [r \in Requests |-> r]
=============================================================================
