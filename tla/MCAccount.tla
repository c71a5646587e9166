------------------------------ MODULE MCAccount ------------------------------
(***************************************************************************)
(* Instances of AccountLifecycle for TLC.                                  *)
(***************************************************************************)
EXTENDS AccountLifecycle

CONSTANTS u1, u2, c1, c2, r1, r2

AllOps    == TaskOps \cup {"activation_failure", "set_expires", "disable_portal", "protect",
                           "external", "external_delete", "restart", "startup",
                           "delete_server"}
LiveOps   == {"redeem", "expire", "purge_inactive", "sync", "claim", "activation_failure", "external"}
RedeemOps == {"redeem"}
RenewOps  == {"redeem", "expire"}
DatedOps  == {"claim", "set_expires", "expire", "purge_expired"}
=============================================================================
