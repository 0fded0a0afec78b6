------------------------------ MODULE MCPanelUi ------------------------------
(* Model values and bounds for PanelUi. *)
EXTENDS PanelUi

AllEvents == {"composition", "commit", "engine", "mode", "activate", "focus", "voice", "caret",
              "scale", "config", "reconnect", "lose", "stall", "other"}
QuietEvents == {"focus", "caret", "voice"}
=============================================================================
