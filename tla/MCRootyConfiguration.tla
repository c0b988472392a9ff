------------------------- MODULE MCRootyConfiguration -------------------------
(* Two clients; one domain, certificate, key and setting. *)
EXTENDS RootyConfiguration, TLC

CONSTANTS c1, c2, domain, cert, key, s1, v1, v2

MCClients  == {c1, c2}
MCDomains  == {domain}
MCCerts    == {cert}
MCKeys     == {key}
MCSettings == {s1}
MCValues   == {v1, v2}
MCSymmetry == Permutations(MCClients) \cup Permutations(MCValues)
=============================================================================
