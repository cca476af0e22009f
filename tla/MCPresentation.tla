--------------------------- MODULE MCPresentation ---------------------------
(* Instance of Presentation for TLC: an mDL with an element in each of two       *)
(* namespaces.                                                                 *)
EXTENDS Presentation, TLC

a == <<"iso", "a">>
b == <<"iso", "b">>
c == <<"aamva", "c">>
MCItems == {a, b, c}
MCIsoItems == {a, b}
MCAamvaItems == {c}
MCDocTypes == {1}
MCDocuments == 1 :> [items |-> {a, b, c}, signs |-> TRUE]
MCIssuer == [chain |-> "trusted", signature |-> TRUE, p256DeviceKey |-> TRUE]
MCWanted == {{a}, {b, c}}
MCPermissions == {1 :> {a, b}}

\* Behaviours in which the device starts over with a new key are followed while every
\* channel has at most one message, which is enough to tell two presentations apart.
\* A single presentation runs to the limit.
ShortAfterRestart ==
    Cardinality(dUsedKeys) > 1 => \A k \in SessionKeys : Len(sealed[k]) <= 1

\* One reader of several goes on to further requests.
OneReaderContinues ==
    \A r, s \in EReaderKeys : rReaderCount[r] > 1 /\ rReaderCount[s] > 1 => r = s

\* Ephemeral keys of a role are interchangeable.
Symmetry == Permutations(EReaderKeys) \cup Permutations(EDeviceKeys)
=============================================================================
