---------------------------- MODULE MCIssuerTrust ----------------------------
(* What an issuer makes and a verifier relies on: certificates, signed messages, mdocs,  *)
(* and the executors of their digests.  The four share no state (X509Validation,         *)
(* CoseMessages, MdocIssuance, DigestExecution), so a behaviour moves one of them and    *)
(* leaves the others as they start.                                                      *)
EXTENDS MCX509, MCCose, MCIssuance, MCDigestExecution

NoValidation == X509Init /\ UNCHANGED x509Vars
NoMessage == CoseInit /\ UNCHANGED coseVars
NoIssuance == phase = "idle" /\ UNCHANGED issueVars
NoExecution ==
    /\ call = {} /\ done = {} /\ pool = 0 /\ parallelism = (CHOOSE n \in Parallelisms : TRUE)
    /\ UNCHANGED executionVars

IssuerTrustInit == X509Init /\ CoseInit /\ IssueInit /\ ExecutionInit
IssuerTrustNext ==
    \/ NoMessage /\ NoIssuance /\ NoExecution /\ X509Next
    \/ NoValidation /\ NoIssuance /\ NoExecution /\ CoseNext
    \/ NoValidation /\ NoMessage /\ NoExecution /\ IssueNext
    \/ NoValidation /\ NoMessage /\ NoIssuance /\ ExecutionNext
IssuerTrustSpec ==
    IssuerTrustInit /\ [][IssuerTrustNext]_<<x509Vars, coseVars, issueVars, executionVars>>
=============================================================================
