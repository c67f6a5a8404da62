-------------------------- MODULE AccessTokenCache --------------------------
(***************************************************************************)
(* The OAuth access token FCMSender keeps for its calls to FCM             *)
(* (notification/fcm_sender.go), shared by the handlers of the two         *)
(* subscribers.                                                            *)
(*                                                                         *)
(* accessToken holds the mutex while it looks at the cached token and, if  *)
(* there is none or it is about to expire, over the whole HTTP call that   *)
(* fetches another.  The token is then used, with the mutex free, for one  *)
(* HTTP call to FCM after the other.  Every HTTP call ends by              *)
(* httpClient.Timeout; computation between the calls takes no time.        *)
(*                                                                         *)
(* The token endpoint is not in the repository: it issues a token at some  *)
(* moment of the call, good for the lifetime it tells in expires_in (or    *)
(* does not tell, and then for the default), and FCM takes a token until   *)
(* it expires.                                                             *)
(***************************************************************************)
EXTENDS Naturals

CONSTANTS
  Sender,      \* handlers that may be in SendAlert at a time
  NULL,        \* nobody
  Lifetime,    \* expires_in, 0 standing for no positive number
  Default,     \* the lifetime where expires_in does not tell one
  Margin,      \* how long before its expiry a token is no longer handed out
  Timeout,     \* httpClient.Timeout
  MaxDevices,  \* phones an alert is sent to, a bound of the model only
  MaxTime      \* the clock stops here, a bound of the model only

ASSUME AccessTokenCacheAssumption ==
  /\ NULL \notin Sender
  /\ Lifetime \subseteq Nat /\ Default \in Nat
  /\ Margin \in Nat /\ Timeout \in Nat /\ MaxDevices \in Nat \ {0} /\ MaxTime \in Nat

\* The margin is one minute; the default lifetime, like the one Google's token
\* endpoint tells, is an hour.
ASSUME TokensOutliveMargin ==
  /\ Margin <= Default
  /\ \A n \in Lifetime : n = 0 \/ Margin <= n

VARIABLES
  now,      \* the clock
  mutex,    \* who holds s.mu
  cache,    \* s.token and s.serviceAccount
  sender    \* the SendAlert calls

vars == <<now, mutex, cache, sender>>

\* expiry is what FCMSender believes, until is when the issuer ends the token;
\* handed is when a sender got its token, kept to state properties
NoToken  == [set |-> FALSE, expiry |-> 0, until |-> 0]
NoSender == [pc |-> "idle", left |-> 0, since |-> 0, handed |-> 0, until |-> 0]

Init ==
  /\ now = 0
  /\ mutex = NULL
  /\ cache = [account |-> FALSE, token |-> NoToken]
  /\ sender = [s \in Sender |-> NoSender]

Calling(s) == sender[s].pc \in {"fetch", "send"}

\* no HTTP call outlasts the timeout of the client
Tick ==
  /\ now < MaxTime
  /\ \A s \in Sender : Calling(s) => now < sender[s].since + Timeout
  /\ now' = now + 1
  /\ UNCHANGED <<mutex, cache, sender>>

-----------------------------------------------------------------------------
(* Guards.  A name with an underscore is the same definition with a        *)
(* mistake in it, which the runs are shown to notice.                      *)

\* time.Now().Before(s.token.Expiry.Add(-1 * time.Minute))
Usable_ToTheEnd(token) == token.set /\ now < token.expiry
Usable(token) == token.set /\ now + Margin < token.expiry

Lockable_Always(s) == TRUE
Lockable(s) == mutex = NULL

\* response.ExpiresIn <= 0
LifetimeOf(n) == IF n = 0 THEN Default ELSE n

\* the token is handed out, and the first of one HTTP call per phone starts
Sending(left, until) ==
  [pc |-> "send", left |-> left, since |-> now, handed |-> now, until |-> until]

-----------------------------------------------------------------------------
SendAlert(s, devices) ==
  /\ sender[s].pc = "idle"
  /\ sender' = [sender EXCEPT ![s] = [NoSender EXCEPT !.pc = "lock", !.left = devices]]
  /\ UNCHANGED <<now, mutex, cache>>

Hit(s) ==
  /\ sender[s].pc = "lock"
  /\ Lockable(s)
  /\ Usable(cache.token)
  /\ sender' = [sender EXCEPT ![s] = Sending(@.left, cache.token.until)]
  /\ UNCHANGED <<now, mutex, cache>>

\* the service account is loaded once, the assertion signed, the request sent
Miss(s) ==
  /\ sender[s].pc = "lock"
  /\ Lockable(s)
  /\ ~Usable(cache.token)
  /\ mutex' = s
  /\ cache' = [cache EXCEPT !.account = TRUE]
  /\ sender' = [sender EXCEPT ![s] = [@ EXCEPT !.pc = "fetch", !.since = now]]
  /\ UNCHANGED now

\* the account cannot be loaded, or the assertion not be signed with it
Refuse(s) ==
  /\ sender[s].pc = "lock"
  /\ Lockable(s)
  /\ ~Usable(cache.token)
  /\ \E loaded \in BOOLEAN : cache' = [cache EXCEPT !.account = @ \/ loaded]
  /\ sender' = [sender EXCEPT ![s] = NoSender]
  /\ UNCHANGED <<now, mutex>>

Fetched(s, n, issued) ==
  LET token == [set |-> TRUE, expiry |-> now + LifetimeOf(n), until |-> issued + LifetimeOf(n)] IN
  /\ sender[s].pc = "fetch"
  /\ issued \in sender[s].since .. now
  /\ mutex' = NULL
  /\ cache' = [cache EXCEPT !.token = token]
  /\ sender' = [sender EXCEPT ![s] = Sending(@.left, token.until)]
  /\ UNCHANGED now

\* no connection, timeout, or an answer that is not a token
FetchFail_StaysLocked(s) ==
  /\ sender[s].pc = "fetch"
  /\ sender' = [sender EXCEPT ![s] = NoSender]
  /\ UNCHANGED <<now, mutex, cache>>
FetchFail(s) ==
  /\ sender[s].pc = "fetch"
  /\ mutex' = NULL
  /\ sender' = [sender EXCEPT ![s] = NoSender]
  /\ UNCHANGED <<now, cache>>

\* the call for one phone is answered or fails, and the next one starts
Sent(s) ==
  /\ sender[s].pc = "send"
  /\ sender' = [sender EXCEPT ![s] =
       IF @.left > 1 THEN [@ EXCEPT !.left = sender[s].left - 1, !.since = now] ELSE NoSender]
  /\ UNCHANGED <<now, mutex, cache>>

-----------------------------------------------------------------------------
Answered(s) ==
  FetchFail(s) \/ \E n \in Lifetime, issued \in 0 .. now : Fetched(s, n, issued)

Next ==
  \/ Tick
  \/ \E s \in Sender :
       \/ \E devices \in 1 .. MaxDevices : SendAlert(s, devices)
       \/ Hit(s) \/ Miss(s) \/ Refuse(s)
       \/ Answered(s)
       \/ Sent(s)

Spec == Init /\ [][Next]_vars

\* The timeout ends every HTTP call, and sync.Mutex starves nobody.
Fairness ==
  \A s \in Sender :
    /\ SF_vars(Hit(s) \/ Miss(s) \/ Refuse(s))
    /\ WF_vars(Answered(s))
    /\ WF_vars(Sent(s))

FairSpec == Spec /\ Fairness

-----------------------------------------------------------------------------
\* Times are numbers, a token comes with the account its project id is read
\* from, and the mutex is held exactly while a token is fetched.
TypeOK ==
  /\ now \in Nat
  /\ mutex \in Sender \cup {NULL}
  /\ cache \in [account : BOOLEAN, token : [set : BOOLEAN, expiry : Nat, until : Nat]]
  /\ sender \in [Sender -> [pc : {"idle", "lock", "fetch", "send"}, left : 0 .. MaxDevices,
                            since : Nat, handed : Nat, until : Nat]]
  /\ cache.token.set => cache.account
  /\ \A s \in Sender : sender[s].pc = "fetch" <=> mutex = s

\* However many phones an alert has, and however late in its life a token is
\* handed out: the calls under way in the minute that follows, less the one call
\* by which the sender's idea of the expiry is late, are made with a good token.
TokenGoodForMargin ==
  \A s \in Sender :
    sender[s].pc = "send" /\ now + Timeout <= sender[s].handed + Margin
      => now <= sender[s].until

\* What the margin is there for: no call to FCM is under way with a token that
\* has expired.  The calls for the phones of an alert use one token, one after
\* the other, and are not counted.
TokenGoodWhileSending ==
  \A s \in Sender : sender[s].pc = "send" => now <= sender[s].until

\* However many senders find the token expired, one fetches and the others
\* use what it got: a token with more than the margin to live is not replaced.
GoodTokenKept ==
  [][cache.token.set /\ now + Margin < cache.token.expiry => cache'.token = cache.token]_vars

\* A sender that waits for the token, behind the fetches of others and
\* whatever becomes of them, gets one or an error.
SenderServed == \A s \in Sender : sender[s].pc = "lock" ~> sender[s].pc # "lock"

=============================================================================
