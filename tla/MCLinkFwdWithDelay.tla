------------------------- MODULE MCLinkFwdWithDelay -------------------------
(***************************************************************************)
(* LinkFwdWithDelay with three frames; the values are in the cfg.          *)
(***************************************************************************)
EXTENDS LinkFwdWithDelay
=============================================================================
