------------------------- MODULE MCProviderHistory -------------------------
(***************************************************************************)
(* Every protocol, one retry, runs of three turns and one resume.          *)
(***************************************************************************)
EXTENDS ProviderHistory
=============================================================================
