------------------------ MODULE MCAccessTokenCache --------------------------
(* AccessTokenCache for TLC: time in units of httpClient.Timeout, so the    *)
(* margin of one minute is four.                                            *)
EXTENDS AccessTokenCache, TLC
=============================================================================
