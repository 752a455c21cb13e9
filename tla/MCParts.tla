-------------------------------- MODULE MCParts --------------------------------
(* Small instances for TLC of the parts that share no state: in each       *)
(* behaviour one part moves and the others rest in an initial state.  The  *)
(* modules' names are disjoint, so that their constants, variables and     *)
(* properties are used as they are.                                        *)
EXTENDS SessionStore, MessageList, McpConnections, BackgroundTasks, Broadcasts,
        TodoList

VARIABLE part     \* which part moves
partsVars == <<part, vars, listVars, mcpVars, bgVars, castVars, todoVars>>

Parts == {"store", "list", "mcp", "background", "cast", "todo"}

PartsInit ==
    /\ part \in Parts
    /\ Init /\ ListInit /\ McpInit /\ BgInit /\ CastInit /\ TodoInit

PartsNext ==
    /\ UNCHANGED part
    /\ IF part = "store" THEN Next ELSE UNCHANGED vars
    /\ IF part = "list" THEN ListNext ELSE UNCHANGED listVars
    /\ IF part = "mcp" THEN McpNext ELSE UNCHANGED mcpVars
    /\ IF part = "background" THEN BgNext ELSE UNCHANGED bgVars
    /\ IF part = "cast" THEN CastNext ELSE UNCHANGED castVars
    /\ IF part = "todo" THEN TodoNext ELSE UNCHANGED todoVars

(* The fairness of the modules.  A part that rests enables none of the     *)
(* actions it is about; the guards say so and spare TLC the evaluation.    *)
PartsSpec ==
    /\ PartsInit /\ [][PartsNext]_partsVars
    /\ \A t \in Tasks : WF_vars(part = "store" /\ TaskStep(t))
    /\ \A r \in Requests : WF_mcpVars(part = "mcp" /\ ThreadStep(r))
    /\ WF_bgVars(part = "background" /\ MustStop /\ StreamStops)
    /\ WF_bgVars(part = "background" /\ StreamStep)
=============================================================================
