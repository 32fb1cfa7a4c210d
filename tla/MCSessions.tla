----------------------------- MODULE MCSessions -----------------------------
(***************************************************************************)
(* Small instances of Sessions for TLC: two sockets of one principal, or   *)
(* of two; which of them is the first is only a matter of names.           *)
(***************************************************************************)
EXTENDS Sessions

CONSTANTS p1, p2

OneOrTwoPrincipals == {<<p1, p1>>, <<p1, p2>>}
=============================================================================
