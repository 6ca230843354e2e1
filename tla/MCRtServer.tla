------------------------------ MODULE MCRtServer ------------------------------
(* Three clients: one of root, one of a signed and one of an unsigned      *)
(* package; or two of the signed package.                                  *)
EXTENDS RtServer, TLC

CONSTANTS c1, c2, c3, root, signed, unsigned

MixedClients == {c1, c2, c3}
MixedUsers == c1 :> root @@ c2 :> signed @@ c3 :> unsigned
SignedClients == {c1, c2}
SignedUsers == c1 :> signed @@ c2 :> signed
=============================================================================
