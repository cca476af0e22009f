-------------------------- MODULE MCAgeAttestation --------------------------
(* Instance of AgeAttestation for TLC: ages around the keys, keys with one, two and    *)
(* three characters, and requests up to the largest u8 and above.                      *)
EXTENDS AgeAttestation

MCSuffixes == {<<0, 9>>, <<1, 8>>, <<2, 1>>, <<2, 2>>, <<9>>, <<1, 0, 0>>, <<1, 10>>}
MCOtherElements == {{}, {Name("portrait")}, {Key("biometric_template_age_over_", <<>>)}}
MCAgeRequests ==
    {Key("age_over_", s) : s \in {<<0, 8>>, <<9>>, <<1, 7>>, <<1, 8>>, <<1, 9>>, <<2, 1>>, <<2, 2>>, <<2, 3>>,
                                  <<2, 5, 5>>, <<2, 5, 6>>, <<>>, <<10>>}}
    \cup {Name("portrait")}
=============================================================================
