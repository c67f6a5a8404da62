-------------------------- MODULE MCRefreshTokens ---------------------------
(* RefreshTokens for TLC.  Tokens are numbers, and the next one is drawn in *)
(* their order: one that is fresh has left no trace in the state, so which  *)
(* of them is drawn makes no difference.  No action that draws a token is   *)
(* assumed to be fair, so this holds of liveness as well.                   *)
EXTENDS RefreshTokens, TLC

DrawInOrder ==
  \A r \in Request : request'[r].next \notin {request[r].next, NULL} =>
    \A t \in Token : t < request'[r].next => ~Fresh(t)

=============================================================================
