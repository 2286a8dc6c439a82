--------------------------- MODULE MCRealmStatus ---------------------------
(* Instances of RealmStatus for TLC; every constant is given in the cfgs.  *)
EXTENDS RealmStatus
=============================================================================
