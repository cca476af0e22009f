-------------------------- MODULE MCDigestExecution --------------------------
(* Instance of DigestExecution for TLC: two lanes, every list of up to five jobs of      *)
(* four kinds, and pairs of jobs of every length around the block boundaries.            *)
EXTENDS DigestExecution

kinds == {[algorithm |-> "SHA256", len |-> l] : l \in {1, 55, 56}} \cup {[algorithm |-> "SHA512", len |-> 100]}
Jobs(list) == [i \in DOMAIN list |-> [id |-> i, algorithm |-> list[i].algorithm, len |-> list[i].len]]
Sha256Job(id, len) == [id |-> id, algorithm |-> "SHA256", len |-> len]

MCJobLists ==
    {Jobs(list) : list \in UNION {[1..n -> kinds] : n \in 0..5}}
    \cup {<<Sha256Job(1, l), Sha256Job(2, k)>> : l \in 0..192, k \in {54, 55, 56, 119, 120, 184}}
=============================================================================
