----------------------------- MODULE MC_Identity -----------------------------
(* Model values for IdentitySession: two secrets and the empty string.     *)
EXTENDS IdentitySession, TLC

CONSTANTS s1, s2

MCSecrets == {s1, s2}

====
