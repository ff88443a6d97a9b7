------------------------ MODULE MC_CredentialRefresh ------------------------
(* A small instance of CredentialRefresh.                                  *)
EXTENDS CredentialRefresh

CONSTANTS c1, c2, r1, v1

MC_Callers == {c1, c2}
=============================================================================
