---------------------------- MODULE MCGuiWindow ----------------------------
(* The window with a few runs of plans of a few steps. *)
EXTENDS GuiWindow

Step(panel, results) == [panel |-> panel, results |-> results]

OneStep    == <<Step("findings", 1)>>
ThreeSteps == <<Step("findings", 2), Step("diagnostics", 1), Step("findings", 1)>>
=============================================================================
