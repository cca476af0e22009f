----------------------------- MODULE MCIssuance -----------------------------
(* Instance of MdocIssuance for TLC: batches with decoys, with the same element  *)
(* names, with mixed algorithms, and batches that are refused.  Namespaces are in *)
(* the order of the BTreeMap.                                                    *)
EXTENDS MdocIssuance

Namespace(name, elements) == [name |-> name, elements |-> elements]
CredentialItem(id, namespaces, algorithm, signature, decoys) ==
    [id |-> id, namespaces |-> namespaces, algorithm |-> algorithm,
     signature_algorithm |-> signature, decoys |-> decoys,
     missing |-> FALSE, key_authorizations |-> {}]

one == CredentialItem(1, <<Namespace("iso", 1)>>, "SHA-256", "ES256", TRUE)
two == CredentialItem(2, <<Namespace("aamva", 1), Namespace("iso", 1)>>, "SHA-256", "ES256", FALSE)
three == CredentialItem(3, <<Namespace("iso", 2)>>, "SHA-384", "ES384", FALSE)
some == [namespaces |-> {"iso"}, data_elements |-> {"aamva"}]
both == [namespaces |-> {"iso", "aamva"}, data_elements |-> {"aamva"}]
unsigned == CredentialItem(4, <<Namespace("iso", 1)>>, "SHA-512", "EdDSA", FALSE)

MCBatches == {
    <<>>, <<one, [two EXCEPT !.key_authorizations = {some}]>>, <<three, unsigned, one>>,
    <<two, [three EXCEPT !.id = 2]>>,
    <<one, [two EXCEPT !.missing = TRUE]>>, <<[one EXCEPT !.key_authorizations = {both}]>>,
    <<one, [three EXCEPT !.namespaces = <<>>]>>}
MCSingles == {[three EXCEPT !.decoys = TRUE], two,
              [one EXCEPT !.namespaces = <<Namespace("iso", 0)>>]}
MCChains == {[curve |-> "P-256", key |-> "k1"], [curve |-> "P-256", key |-> "k3"],
             [curve |-> "P-384", key |-> "k2"]}
=============================================================================
