------------------------------ MODULE MCAdmin ------------------------------
(***************************************************************************)
(* The admin console for the model checker; the instance is in Admin.cfg.   *)
(***************************************************************************)
EXTENDS Admin
=============================================================================
