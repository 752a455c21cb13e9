------------------------------- MODULE MCShared -------------------------------
(* Small instances for TLC of what several writers share: the rows of a    *)
(* conversation, which a reload and a save on the side touch too, the      *)
(* files that agents edit, the settings under an overlay of models, and    *)
(* the view of a session in a tab.  They share no state with one another:  *)
(* in each behaviour one part moves and the others rest.                   *)
EXTENDS SessionStore, FileEdits, SessionModel, ChatView, TLC

VARIABLE part     \* which part moves
sharedVars == <<part, vars, editVars, overlayVars, chatVars>>

SharedInit ==
    /\ part \in {"store", "edit", "overlay", "view"}
    /\ Init /\ EditInit /\ OverlayInit /\ ViewInit
    /\ part # "overlay" => /\ shell = "web" /\ project = NoOverlay
                           /\ settings = [s \in Slots |-> CHOOSE m \in Models : TRUE]
    /\ part # "view" => says = <<>>

SharedNext ==
    /\ UNCHANGED part
    /\ \/ part = "store" /\ Next /\ UNCHANGED <<editVars, overlayVars, chatVars>>
       \/ part = "edit" /\ EditNext /\ UNCHANGED <<vars, overlayVars, chatVars>>
       \/ part = "overlay" /\ OverlayNext /\ UNCHANGED <<vars, editVars, chatVars>>
       \/ part = "view" /\ ViewNext /\ UNCHANGED <<vars, editVars, overlayVars>>

SharedSpec == SharedInit /\ [][SharedNext]_sharedVars

(* Texts are interchangeable, and so are fetches.                           *)
Symmetry == Permutations(Writings) \cup Permutations(Fetches)

SharedTypeOK == TypeOK /\ EditTypeOK /\ OverlayTypeOK /\ ViewTypeOK
=============================================================================
