--------------------------- MODULE MCOAuthAttempt ---------------------------
(* Instances of OAuthAttempt for TLC.                                      *)
EXTENDS OAuthAttempt

CONSTANTS r1, r2, w1, w2
=============================================================================
