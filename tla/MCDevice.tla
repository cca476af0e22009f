------------------------------ MODULE MCDevice ------------------------------
(* Instance of DeviceSession for TLC: four document types, three of them owned,  *)
(* one of those without a signing key.                                         *)
EXTENDS DeviceSession, TLC

CONSTANTS d1, d2, r1

a == <<"iso", "a">>
b == <<"iso", "b">>
c == <<"aamva", "c">>
MCItems == {a, b, c}
MCDocTypes == 1..4

MCDocuments ==
    1 :> [items |-> {a, c}, signs |-> TRUE]
    @@ 2 :> [items |-> {b}, signs |-> TRUE]
    @@ 3 :> [items |-> {a}, signs |-> FALSE]

NoAuth == {}
Auth(chain, p256, transcript, t, items) ==
    {[chain |-> chain, p256 |-> p256, over |-> <<transcript, t, items>>]}
DocRequest(t, items, auth) == [doc_type |-> t, items |-> items, reader_auth |-> auth]
Request(docs) == [kind |-> "ok", version_ok |-> TRUE, doc_requests |-> docs]

\* Requests of the peer: two documents signed for this session, one document
\* requested twice with a reader authentication of another session, documents
\* that cannot be returned, and bodies that do not parse.
MCRequests == {
    Request(<<DocRequest(1, {a, b}, Auth("trusted", TRUE, <<d1, r1>>, 1, {a, b})),
              DocRequest(2, {b}, NoAuth)>>),
    Request(<<DocRequest(1, {a}, Auth("untrusted", TRUE, <<d2, r1>>, 1, {a})),
              DocRequest(1, {c}, NoAuth)>>),
    [Request(<<DocRequest(3, {a}, NoAuth), DocRequest(4, {a}, NoAuth)>>)
        EXCEPT !.version_ok = FALSE],
    [kind |-> "undecodable"],
    [kind |-> "invalid"]}

MCPermissions == {
    1 :> {a, b, c} @@ 2 :> {a, b},
    1 :> {c},
    3 :> {a} @@ 4 :> {a}}
=============================================================================
