------------------------------- MODULE MC_CAM -------------------------------
(* Model-checking instance of CredentialsAccessManager: two keys, two      *)
(* requesters; the collaborator outcomes are chosen per configuration.     *)
EXTENDS CredentialsAccessManager, TLC

CONSTANTS k1, k2, r1, r2

MCKeys == {k1, k2}
MCRequesters == {r1, r2}

=============================================================================
