---------------------------- MODULE MCAssistant -----------------------------
(***************************************************************************)
(* Assistant with two requests of the customer and two of staff.           *)
(***************************************************************************)
EXTENDS Assistant
=============================================================================
