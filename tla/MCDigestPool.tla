---------------------------- MODULE MCDigestPool ----------------------------
(* Instance of DigestPool for TLC; without symmetry, as the properties are temporal.  *)
EXTENDS DigestPool
=============================================================================
