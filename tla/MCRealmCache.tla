---------------------------- MODULE MCRealmCache ----------------------------
(* Instances of RealmCache for TLC; every constant is given in the cfgs.   *)
EXTENDS RealmCache
=============================================================================
