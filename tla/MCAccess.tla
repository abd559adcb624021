------------------------------- MODULE MCAccess ------------------------------
(* Instances of Access for TLC. *)
EXTENDS Access, TLC

CONSTANTS u1, u2, s1
OneSocket == s1 :> u1
=============================================================================
