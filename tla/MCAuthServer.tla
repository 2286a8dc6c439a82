---------------------------- MODULE MCAuthServer ----------------------------
(* Instances of AuthServer for TLC: the uppercase map on the names typed.  *)
EXTENDS AuthServer, TLC

MCUpper == [n \in Typed |-> CASE n = "arlyon" -> "ARLYON"
                              [] n = "bob" -> "BOB"
                              [] OTHER -> n]

ClientSymmetry == Permutations(Clients)
RealmSymmetry == Permutations(Listable)
=============================================================================
