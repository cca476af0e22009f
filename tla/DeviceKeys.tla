----------------------------- MODULE DeviceKeys -----------------------------
(***************************************************************************)
(* The device key of a credential and what it may sign:                      *)
(* definitions/device_key/mod.rs.  An issuer states key and authorizations,  *)
(* they travel inside the mobile security object, and an application that    *)
(* holds the credential can ask whether the key may sign an element, and how *)
(* it signs.  The library itself does not ask: prepare_response signs what   *)
(* was permitted by the user whatever the authorizations are.                *)
(***************************************************************************)
EXTENDS CoseKeys

CONSTANTS
    DeviceKeys_,      \* keys
    Namespaces,       \* namespaces
    Elements          \* element identifiers

ASSUME DeviceKeysAssumption ==
    /\ \A key \in DeviceKeys_ : IsKey(key)
    /\ IsFiniteSet(Namespaces) /\ IsFiniteSet(Elements)

VARIABLES
    issued,     \* DeviceKeyInfo of the issuer (Option)
    held,       \* what the holder decoded (Option): a DeviceKeyInfo, or nothing
    answers     \* the questions that the application asked, with the answers
deviceKeyVars == <<issued, held, answers>>

NonEmptySubsets(S) == (SUBSET S) \ {{}}
Options(S) == {{}} \cup {{x} : x \in S}

\* Namespaces are a vector without repetition here, elements a map to such vectors.
KeyAuthorizations ==
    [namespaces : Options(NonEmptySubsets(Namespaces)),
     data_elements : Options(UNION {[D -> NonEmptySubsets(Elements)] : D \in NonEmptySubsets(Namespaces)})]

DeviceKeyInfos == [device_key : DeviceKeys_, key_authorizations : Options(KeyAuthorizations)]

\* A namespace is authorized as a whole or by elements, not both.
validate(auth) ==
    \A d \in auth.data_elements, n \in auth.namespaces : n \cap DOMAIN d = {}

\* Mutant: the elements of any namespace count.
permitted_AnyNamespace(auth, ns, el) ==
    \/ \E n \in auth.namespaces : ns \in n
    \/ \E d \in auth.data_elements : \E other \in DOMAIN d : el \in d[other]

\* With authorized namespaces the elements are not looked at.
permitted(auth, ns, el) ==
    IF auth.namespaces # {} THEN \E n \in auth.namespaces : ns \in n
    ELSE \E d \in auth.data_elements : ns \in DOMAIN d /\ el \in d[ns]

-----------------------------------------------------------------------------
(* CBOR *)

TextArray(S) == LET s == SetToSeq(S) IN Array([i \in DOMAIN s |-> Text(s[i])])
TextsFromArray(v) == {Range(s) : s \in NonEmptyVec(Decoded(v, String))}

ElementsValue(d) ==
    LET names == SetToSeq(DOMAIN d)
    IN  Map([i \in DOMAIN names |-> <<Text(names[i]), TextArray(d[names[i]])>>])
ElementsFromValue(v) ==
    IF /\ Is("map", v) /\ v.map # <<>>
       /\ \A i \in DOMAIN v.map : Is("text", v.map[i][1]) /\ TextsFromArray(v.map[i][2]) # {}
    THEN {[n \in {v.map[i][1].text : i \in DOMAIN v.map} |->
             LET i == CHOOSE i \in DOMAIN v.map :
                        v.map[i][1].text = n /\ \A j \in DOMAIN v.map : v.map[j][1].text = n => j <= i
             IN  CHOOSE S \in TextsFromArray(v.map[i][2]) : TRUE]}
    ELSE {}

AuthValue(auth) ==
    Map(FieldEntry("nameSpaces", auth.namespaces, TextArray)
        \o FieldEntry("dataElements", auth.data_elements, ElementsValue))
AuthFromValue(v) ==
    IF Is("map", v)
    THEN {[namespaces |-> n, data_elements |-> d] :
             n \in Field(v, "nameSpaces", TextsFromArray), d \in Field(v, "dataElements", ElementsFromValue)}
    ELSE {}

InfoValue(info) ==
    Map(<<<<Text("deviceKey"), KeyValue(info.device_key)>>>>
        \o FieldEntry("keyAuthorizations", info.key_authorizations, AuthValue))
InfoFromValue(v) ==
    IF Is("map", v)
    THEN {[device_key |-> k, key_authorizations |-> a] :
             k \in UNION Field(v, "deviceKey", KeyFromValue), a \in Field(v, "keyAuthorizations", AuthFromValue)}
    ELSE {}

-----------------------------------------------------------------------------
(* Operations *)

DeviceKeysInit == issued = {} /\ held = {} /\ answers = {}

\* Mdoc::prepare refuses authorizations that do not validate.
IssueKey ==
    /\ issued = {}
    /\ \E info \in DeviceKeyInfos :
        /\ \A auth \in info.key_authorizations : validate(auth)
        /\ issued' = {info}
    /\ UNCHANGED <<held, answers>>

Receive ==
    /\ held = {}
    /\ \E info \in issued : held' = {InfoFromValue(InfoValue(info))}
    /\ UNCHANGED <<issued, answers>>

\* KeyAuthorizations::permitted and CoseKey::signature_algorithm, called by the
\* application of the holder.
AskHolder ==
    /\ answers = {}
    /\ \E info \in UNION held, ns \in Namespaces, el \in Elements : \E auth \in info.key_authorizations :
        answers' = {[namespace |-> ns, element |-> el, permitted |-> permitted(auth, ns, el),
                     algorithm |-> signature_algorithm(info.device_key)]}
    /\ UNCHANGED <<issued, held>>

DeviceKeysNext == IssueKey \/ Receive \/ AskHolder

DeviceKeysSpec == DeviceKeysInit /\ [][DeviceKeysNext]_deviceKeyVars

-----------------------------------------------------------------------------
(* Properties *)

Listed(auth, a) ==
    \/ \E n \in auth.namespaces : a.namespace \in n
    \/ \E d \in auth.data_elements : a.namespace \in DOMAIN d /\ a.element \in d[a.namespace]

BothLists(auth) == auth.namespaces # {} /\ auth.data_elements # {}

\* What the holder decodes is what was issued: the CBOR maps of the mobile security object
\* lose and add nothing.  The holder is told the algorithm of the issued key, and that the
\* key may sign an element exactly when the issuer listed it, by element or by namespace;
\* with both lists in one authorization, only that what may be signed was listed.
PermittedWasListed ==
    /\ \A got \in held : got = issued
    /\ \A a \in answers, info \in issued : \A auth \in info.key_authorizations :
          /\ a.algorithm = signature_algorithm(info.device_key)
          /\ a.permitted => Listed(auth, a)
          /\ Listed(auth, a) => a.permitted \/ BothLists(auth)

\* "Determine whether the key is permitted to sign over the designated element": an element
\* of an authorization that validate accepts is permitted, in whichever list it is.
ListedIsPermitted ==
    \A a \in answers, info \in issued : \A auth \in info.key_authorizations :
        Listed(auth, a) => a.permitted

-----------------------------------------------------------------------------
(* The inductive invariant: the holder has what was issued, and answers by it. *)
DeviceKeysInv ==
    /\ AtMostOne(issued) /\ issued \subseteq DeviceKeyInfos
    /\ \A got \in held : got = issued /\ issued # {}
    /\ answers # {} => held # {}
    /\ \A a \in answers : \E info \in issued : \E auth \in info.key_authorizations :
            /\ a.permitted = permitted(auth, a.namespace, a.element)
            /\ a.algorithm = signature_algorithm(info.device_key)
=============================================================================
