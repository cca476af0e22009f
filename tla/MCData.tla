------------------------------- MODULE MCData -------------------------------
(* Data that passes from one party to another: the engagement, the device key, the    *)
(* elements of a description and the age statements.  The four share no state, so a   *)
(* behaviour moves one of them and leaves the others as they start.                  *)
EXTENDS MCEngagement, MCDeviceKeys, MCNamespace, MCAgeAttestation

NoEngagement == device = {} /\ UNCHANGED engagementVars
NoDeviceKey == issued = {} /\ UNCHANGED deviceKeyVars
NoElements == changes = 0 /\ kind = (CHOOSE k \in Kinds : TRUE) /\ UNCHANGED namespaceVars
NoStatement == description = {} /\ age = (CHOOSE a \in HolderAges : TRUE) /\ UNCHANGED ageVars

DataInit == EngagementInit /\ DeviceKeysInit /\ NamespaceInit /\ AgeInit
DataNext ==
    \/ NoDeviceKey /\ NoElements /\ NoStatement /\ EngagementNext
    \/ NoEngagement /\ NoElements /\ NoStatement /\ DeviceKeysNext
    \/ NoEngagement /\ NoDeviceKey /\ NoStatement /\ NamespaceNext
    \/ NoEngagement /\ NoDeviceKey /\ NoElements /\ AgeNext
DataSpec == DataInit /\ [][DataNext]_<<engagementVars, deviceKeyVars, namespaceVars, ageVars>>
=============================================================================
