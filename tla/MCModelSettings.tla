--------------------------- MODULE MCModelSettings ---------------------------
(* Small instances of ModelSettings. *)
EXTENDS ModelSettings
CONSTANTS small, large
Two == {small, large}
InOrder == <<small, large>>
Starts == {NoModel}
=============================================================================
