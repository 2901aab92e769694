----------------------------- MODULE MCGuiClient -----------------------------
(***************************************************************************)
(* One page and its server; the bounds are in GuiClient.cfg.               *)
(***************************************************************************)
EXTENDS GuiClientProps
=============================================================================
