----------------------------- MODULE MCReactTurn -----------------------------
(* Small instances of ReactTurn: calls are named after the tools they use. *)
EXTENDS ReactTurn

MCTool == [c \in Calls |-> IF c = "explore2" THEN "explore" ELSE c]

MCBatches ==
    {<<"read">>, <<"complete">>, <<"explore", "explore2">>, <<"spawn", "plan", "background">>}
=============================================================================
