------------------------------- MODULE MCCose -------------------------------
(* Instance of CoseMessages for TLC: messages of both kinds that share header, payload  *)
(* and external data, one whose header names no assigned algorithm, and two that are   *)
(* refused; keys of two curves and a MAC key.                                         *)
EXTENDS CoseMessages

Builder(kind, alg, attached, detached, aad, tagged) ==
    [kind |-> kind, protected |-> [alg |-> alg], attached |-> attached,
     detached |-> detached, aad |-> aad, tagged |-> tagged]

MCBuilders == {
    Builder("Sign1", "ES256", {"p"}, {}, {}, TRUE),
    Builder("Sign1", "private", {}, {"p"}, {"a"}, TRUE),
    Builder("Sign1", "none", {"q"}, {}, {"a"}, FALSE),
    Builder("Mac0", "HMAC_256_256", {}, {"p"}, {}, TRUE),
    Builder("Mac0", "none", {"q"}, {}, {"a"}, FALSE),
    Builder("Sign1", "ES256", {"p"}, {"q"}, {}, TRUE),
    Builder("Mac0", "none", {}, {}, {}, TRUE)}

MCKeys == [k256 |-> [kind |-> "Sign1", algorithm |-> "ES256"],
           k384 |-> [kind |-> "Sign1", algorithm |-> "ES384"],
           mac |-> [kind |-> "Mac0", algorithm |-> "HMAC_256_256"]]
=============================================================================
