---------------------------- MODULE MCSendLater -----------------------------
(* A scheduled send, two backend processes that sweep, a claim that lasts    *)
(* two ticks and time for two reclaims.                                      *)
EXTENDS SendLater

CONSTANTS s1, w1, w2
=============================================================================
