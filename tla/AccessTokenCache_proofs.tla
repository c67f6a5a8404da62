----------------------- MODULE AccessTokenCache_proofs -----------------------
(***************************************************************************)
(* The token cache for any number of senders and phones, any lifetimes     *)
(* above the margin and any timeout: a token stays good for the margin     *)
(* less one timeout from the moment it is handed out, and a good one is    *)
(* kept.                                                                   *)
(***************************************************************************)
EXTENDS AccessTokenCache, TLAPS

\* What a call carries at each point: an HTTP call is younger than its timeout,
\* and a token was handed out with a life of the margin but for one timeout.
CallsInTime ==
  \A s \in Sender :
    /\ Calling(s) => sender[s].since <= now /\ now <= sender[s].since + Timeout
    /\ sender[s].pc = "send" => sender[s].handed + Margin <= sender[s].until + Timeout

\* The sender's idea of an expiry is late by at most the answer that brought
\* it; while somebody fetches there is no token the others could use.
CacheInTime ==
  /\ cache.token.set => cache.token.expiry <= cache.token.until + Timeout
  /\ mutex # NULL => cache.account /\ ~Usable(cache.token)

IInv == TypeOK /\ CallsInTime /\ CacheInTime

-----------------------------------------------------------------------------
LEMMA LifetimeCovers ==
  ASSUME NEW n \in Lifetime
  PROVE  LifetimeOf(n) \in Nat /\ Margin <= LifetimeOf(n)
  BY AccessTokenCacheAssumption, TokensOutliveMargin DEF LifetimeOf

LEMMA InitIInv == Init => IInv
  BY AccessTokenCacheAssumption
  DEF Init, IInv, TypeOK, CallsInTime, CacheInTime, NoToken, NoSender, Calling

LEMMA TickIInv == IInv /\ Tick => IInv'
<1> SUFFICES ASSUME IInv, Tick PROVE IInv'
  OBVIOUS
<1> USE AccessTokenCacheAssumption
<1>1. TypeOK'
  BY DEF IInv, Tick, TypeOK
<1>2. CallsInTime'
  BY DEF IInv, Tick, TypeOK, CallsInTime, Calling
<1>3. CacheInTime'
  BY DEF IInv, Tick, TypeOK, CacheInTime, Usable
<1> QED BY <1>1, <1>2, <1>3 DEF IInv

LEMMA SendAlertIInv ==
  ASSUME IInv, NEW s \in Sender, NEW devices \in 1 .. MaxDevices, SendAlert(s, devices)
  PROVE  IInv'
<1> USE AccessTokenCacheAssumption
<1> DEFINE Calls == [pc : {"idle", "lock", "fetch", "send"}, left : 0 .. MaxDevices,
                     since : Nat, handed : Nat, until : Nat]
           call == [NoSender EXCEPT !.pc = "lock", !.left = devices]
<1>0. call \in Calls /\ call.pc = "lock" /\ call.left = devices
  <2>1. NoSender \in Calls
    BY DEF NoSender
  <2>2. devices \in 0 .. MaxDevices
    OBVIOUS
  <2>3. call \in Calls
    BY <2>1, <2>2
  <2>4. call.pc = "lock" /\ call.left = devices
    BY <2>1
  <2> QED BY <2>3, <2>4
<1>1. /\ sender'[s] = call
      /\ \A q \in Sender \ {s} : sender'[q] = sender[q]
      /\ sender' \in [Sender -> Calls]
  BY <1>0 DEF IInv, TypeOK, SendAlert
<1>2. TypeOK'
  BY <1>0, <1>1 DEF IInv, SendAlert, TypeOK
<1>3. CallsInTime'
  BY <1>0, <1>1 DEF IInv, SendAlert, CallsInTime, Calling
<1>4. CacheInTime'
  BY DEF IInv, SendAlert, CacheInTime, Usable
<1> QED BY <1>2, <1>3, <1>4 DEF IInv

LEMMA HitIInv ==
  ASSUME IInv, NEW s \in Sender, Hit(s)
  PROVE  IInv'
<1> USE AccessTokenCacheAssumption
<1> DEFINE left  == sender[s].left
           token == cache.token
<1>1. /\ sender'[s] = [pc |-> "send", left |-> left, since |-> now, handed |-> now,
                     until |-> token.until]
      /\ \A q \in Sender \ {s} : sender'[q] = sender[q]
  BY DEF IInv, Hit, TypeOK, Sending
<1>2. TypeOK'
  BY DEF IInv, Hit, TypeOK, Sending
<1>3. now + Margin <= token.until + Timeout
  <2>1. token.until \in Nat /\ token.expiry \in Nat /\ now \in Nat
    BY DEF IInv, Hit, TypeOK
  <2>2. now + Margin < token.expiry /\ token.expiry <= token.until + Timeout
    BY DEF IInv, Hit, Usable, CacheInTime
  <2> HIDE DEF left, token
  <2> QED BY <2>1, <2>2
<1>4. CallsInTime'
  BY <1>1, <1>3 DEF IInv, Hit, TypeOK, CallsInTime, Calling
<1>5. CacheInTime'
  BY DEF IInv, Hit, CacheInTime, Usable
<1> QED BY <1>2, <1>4, <1>5 DEF IInv

LEMMA MissIInv ==
  ASSUME IInv, NEW s \in Sender, Miss(s)
  PROVE  IInv'
<1> USE AccessTokenCacheAssumption
<1>1. TypeOK'
  BY DEF IInv, Miss, TypeOK, NoSender, Sending, Lockable
<1>2. CallsInTime'
  BY DEF IInv, Miss, TypeOK, CallsInTime, Calling, NoSender, Sending
<1>3. CacheInTime'
  BY DEF IInv, Miss, TypeOK, CacheInTime, Usable, Lockable
<1> QED BY <1>1, <1>2, <1>3 DEF IInv

LEMMA RefuseIInv ==
  ASSUME IInv, NEW s \in Sender, Refuse(s)
  PROVE  IInv'
<1> USE AccessTokenCacheAssumption
<1>1. TypeOK'
  BY DEF IInv, Refuse, TypeOK, NoSender, Sending, Lockable
<1>2. CallsInTime'
  BY DEF IInv, Refuse, TypeOK, CallsInTime, Calling, NoSender, Sending
<1>3. CacheInTime'
  BY DEF IInv, Refuse, TypeOK, CacheInTime, Usable, Lockable
<1> QED BY <1>1, <1>2, <1>3 DEF IInv

LEMMA FetchedIInv ==
  ASSUME IInv, NEW s \in Sender, NEW n \in Lifetime, NEW issued \in 0 .. now, Fetched(s, n, issued)
  PROVE  IInv'
<1> USE AccessTokenCacheAssumption
<1> DEFINE left  == sender[s].left
           life  == LifetimeOf(n)
           token == [set |-> TRUE, expiry |-> now + life, until |-> issued + life]
<1>1. /\ sender'[s] = [pc |-> "send", left |-> left, since |-> now, handed |-> now,
                     until |-> issued + life]
      /\ \A q \in Sender \ {s} : sender'[q] = sender[q]
      /\ cache' = [cache EXCEPT !.token = token]
      /\ now' = now /\ mutex' = NULL
  BY DEF IInv, Fetched, TypeOK, Sending
<1>2. life \in Nat /\ Margin <= life
  BY LifetimeCovers
<1>3. /\ left \in 0 .. MaxDevices
      /\ issued \in Nat /\ now \in Nat /\ issued <= now /\ now <= issued + Timeout
  BY DEF IInv, Fetched, TypeOK, CallsInTime, Calling
<1> HIDE DEF life, left
<1>4. TypeOK'
  <2>1. sender'[s] \in [pc : {"idle", "lock", "fetch", "send"}, left : 0 .. MaxDevices,
                        since : Nat, handed : Nat, until : Nat]
    BY <1>1, <1>2, <1>3
  <2>2. sender' \in [Sender -> [pc : {"idle", "lock", "fetch", "send"}, left : 0 .. MaxDevices,
                                since : Nat, handed : Nat, until : Nat]]
    BY <2>1, <1>1 DEF IInv, Fetched, TypeOK
  <2>3. cache' \in [account : BOOLEAN, token : [set : BOOLEAN, expiry : Nat, until : Nat]]
    <3>1. token \in [set : BOOLEAN, expiry : Nat, until : Nat]
      BY <1>2, <1>3
    <3> HIDE DEF token
    <3> QED BY <1>1, <3>1 DEF IInv, TypeOK
  <2>4. cache'.account
    BY <1>1 DEF IInv, Fetched, TypeOK, CacheInTime
  <2>5. \A q \in Sender : sender'[q].pc = "fetch" <=> mutex' = q
    BY <1>1 DEF IInv, Fetched, TypeOK
  <2> QED BY <1>1, <1>3, <2>2, <2>3, <2>4, <2>5 DEF TypeOK
<1>5. CallsInTime'
  <2>1. now + Margin <= issued + life + Timeout
    BY <1>2, <1>3
  <2> QED BY <1>1, <1>3, <2>1 DEF IInv, CallsInTime, Calling
<1>6. CacheInTime'
  BY <1>1, <1>2, <1>3 DEF IInv, TypeOK, CacheInTime
<1> QED BY <1>4, <1>5, <1>6 DEF IInv

LEMMA FetchFailIInv ==
  ASSUME IInv, NEW s \in Sender, FetchFail(s)
  PROVE  IInv'
<1> USE AccessTokenCacheAssumption
<1>1. TypeOK'
  BY DEF IInv, FetchFail, TypeOK, NoSender, Sending, Lockable
<1>2. CallsInTime'
  BY DEF IInv, FetchFail, TypeOK, CallsInTime, Calling, NoSender, Sending
<1>3. CacheInTime'
  BY DEF IInv, FetchFail, TypeOK, CacheInTime, Usable, Lockable
<1> QED BY <1>1, <1>2, <1>3 DEF IInv

LEMMA SentIInv ==
  ASSUME IInv, NEW s \in Sender, Sent(s)
  PROVE  IInv'
<1> USE AccessTokenCacheAssumption
<1> DEFINE Calls == [pc : {"idle", "lock", "fetch", "send"}, left : 0 .. MaxDevices,
                     since : Nat, handed : Nat, until : Nat]
           next  == [sender[s] EXCEPT !.left = sender[s].left - 1, !.since = now]
<1>1. sender[s] \in Calls /\ sender[s].pc = "send" /\ now \in Nat
  BY DEF IInv, TypeOK, Sent
<1>2. PICK q : /\ q = IF sender[s].left > 1 THEN next ELSE NoSender
               /\ sender' = [sender EXCEPT ![s] = q]
  BY DEF Sent
<1>3. q \in Calls
  <2>1. CASE sender[s].left > 1
    <3>1. sender[s].left - 1 \in 0 .. MaxDevices
      BY <1>1, <2>1
    <3>2. ASSUME NEW c \in Calls, NEW k \in 0 .. MaxDevices
          PROVE  [c EXCEPT !.left = k, !.since = now] \in Calls
      BY <1>1
    <3>3. q = next
      BY <1>2, <2>1
    <3> QED BY <1>1, <3>1, <3>2, <3>3
  <2>2. CASE ~(sender[s].left > 1)
    BY <1>2, <2>2 DEF NoSender
  <2> QED BY <2>1, <2>2
<1>4. \/ q.pc = "idle"
      \/ q.pc = "send" /\ q.since = now /\ q.handed = sender[s].handed /\ q.until = sender[s].until
  BY <1>1, <1>2 DEF NoSender
<1>5. /\ sender'[s] = q
      /\ \A c \in Sender \ {s} : sender'[c] = sender[c]
      /\ sender' \in [Sender -> Calls]
  BY <1>2, <1>3 DEF IInv, TypeOK
<1>6. TypeOK'
  BY <1>1, <1>4, <1>5 DEF IInv, Sent, TypeOK
<1>7. CallsInTime'
  BY <1>1, <1>4, <1>5 DEF IInv, Sent, CallsInTime, Calling
<1>8. CacheInTime'
  BY DEF IInv, Sent, CacheInTime, Usable
<1> QED BY <1>6, <1>7, <1>8 DEF IInv

LEMMA NextIInv == IInv /\ [Next]_vars => IInv'
<1> SUFFICES ASSUME IInv, [Next]_vars PROVE IInv'
  OBVIOUS
<1>1. CASE UNCHANGED vars
  BY <1>1 DEF vars, IInv, TypeOK, CallsInTime, CacheInTime, Calling, Usable
<1>2. CASE Tick
  BY <1>2, TickIInv
<1>3. ASSUME NEW s \in Sender, NEW devices \in 1 .. MaxDevices, SendAlert(s, devices)
      PROVE  IInv'
  BY <1>3, SendAlertIInv
<1>4. ASSUME NEW s \in Sender, Hit(s) \/ Miss(s) \/ Refuse(s) \/ Answered(s) \/ Sent(s)
      PROVE  IInv'
  BY <1>4, HitIInv, MissIInv, RefuseIInv, FetchFailIInv, FetchedIInv, SentIInv DEF Answered
<1> QED BY <1>1, <1>2, <1>3, <1>4 DEF Next

-----------------------------------------------------------------------------
\* Times are numbers, and the mutex is held exactly while a token is fetched,
\* by however many senders.
THEOREM TypeCorrect == Spec => []TypeOK
<1>1. IInv => TypeOK
  BY DEF IInv
<1> QED BY <1>1, InitIInv, NextIInv, PTL DEF Spec

\* A token outlives the margin less one timeout, counted from when it was
\* handed out, for alerts to any number of phones.
THEOREM TokenGood == Spec => []TokenGoodForMargin
<1>1. ASSUME IInv, NEW s \in Sender, sender[s].pc = "send",
             now + Timeout <= sender[s].handed + Margin
      PROVE  now <= sender[s].until
  <2>1. now \in Nat /\ sender[s].handed \in Nat /\ sender[s].until \in Nat
    BY <1>1 DEF IInv, TypeOK
  <2>2. sender[s].handed + Margin <= sender[s].until + Timeout
    BY <1>1 DEF IInv, CallsInTime
  <2> QED BY <1>1, <2>1, <2>2, AccessTokenCacheAssumption
<1>2. IInv => TokenGoodForMargin
  BY <1>1 DEF TokenGoodForMargin
<1> QED BY <1>2, InitIInv, NextIInv, PTL DEF Spec

\* A token with more than the margin to live is not replaced: the fetch that
\* could replace it was begun, and held the mutex since, when there was none.
THEOREM GoodTokenIsKept == Spec => GoodTokenKept
<1> DEFINE Good == cache.token.set /\ now + Margin < cache.token.expiry
<1>1. ASSUME IInv, [Next]_vars, Good
      PROVE  cache'.token = cache.token
  <2>1. ASSUME NEW s \in Sender, NEW n \in Lifetime, NEW issued \in 0 .. now,
               Fetched(s, n, issued)
        PROVE  FALSE
    BY <1>1, <2>1, AccessTokenCacheAssumption DEF IInv, Fetched, TypeOK, CacheInTime, Usable
  <2>2. ASSUME NEW s \in Sender,
               Hit(s) \/ Miss(s) \/ Refuse(s) \/ FetchFail(s) \/ Sent(s)
                 \/ \E devices \in 1 .. MaxDevices : SendAlert(s, devices)
        PROVE  cache'.token = cache.token
    BY <1>1, <2>2 DEF IInv, TypeOK, Hit, Miss, Refuse, FetchFail, Sent, SendAlert
  <2>3. CASE Tick \/ UNCHANGED vars
    BY <2>3 DEF Tick, vars
  <2> QED BY <1>1, <2>1, <2>2, <2>3 DEF Next, Answered
<1>2. IInv /\ [Next]_vars => [Good => cache'.token = cache.token]_vars
  BY <1>1
<1> QED BY <1>2, InitIInv, NextIInv, PTL DEF Spec, GoodTokenKept

=============================================================================
