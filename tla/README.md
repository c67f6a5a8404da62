# Formal models of datn-backend

datn-backend is the server of a monitoring product: a **PC agent** on a laptop
raises alerts, its **owner** sees them on a phone.  The server is one Go process
over PostgreSQL, an MQTT broker and Firebase Cloud Messaging (FCM).  Requests run
concurrently, nearly every use case makes several database calls with no
transaction around them, and the guards that keep it correct are `WHERE`
clauses, unique indexes and row locks.  That is what these TLA+ modules are about.

- `tlc -config MCPairing_race.cfg MCPairing.tla` checks one run (two minutes at most).
- `tlapm Alerts_proofs.tla` checks the proofs of one module.

`PROJECT.json` says for every definition which lines of the source it stands for.

## 1. Inventory

| Component | State | Operations | What is hard |
|---|---|---|---|
| **Pairing and PC agents** `usecase/pairing_usecase.go`, `pairing_session_repo.go`, `pc_agent_repo.go`, `pc_agent_handler.go` | tables `pairing_sessions`, `pc_agents` | StartPairing, ConfirmPairing, GetPairingStatus (a poll), VerifyPCAgent, UpdatePCAgentOwnProtection, UpdatePCAgentProtection, DeletePCAgent, ListPCAgents | check-then-insert of codes; two users confirm one code; polls act on rows read several calls ago and race to issue the one secret; deletion in the middle of everything |
| **Login sessions** `usecase/auth_usecase.go`, `refresh_token_repo.go` | table `refresh_tokens` | Login, Refresh, Logout, LogoutAll | two refreshes of one token, row locks, an `UPDATE` that does not see a token inserted after its snapshot |
| **Registration and OTP** `auth_usecase.go`, `auth_otp_repo.go`, `registration_repo.go`, `user_repo.go` | `auth_otps`, `users` | RequestRegisterOTP, VerifyRegisterOTP, CompleteRegister, LinkEmail | the attempt counter is read and raised in different calls; an OTP is consumed in a third |
| **Alerts** `usecase/alert_usecase.go`, `alert_repo.go`, `cmd/server/main.go` | `alerts` | CreateAlertFromAgent, ListAlerts | duplicates of an alert, two subscribers, crashes between the calls, tokens removed long after they were read |
| **Mobile devices** `mobile_device_repo.go` | `mobile_devices` | RegisterMobileDevice (`Upsert`), `DeleteByFCMToken` | two transactions lock rows in opposite orders; a token changes hands |
| **Protection commands** `pc_agent_handler.go`, `mqtt/publisher.go` | `protection_status`, a goroutine per command | HandleUpdateProtection, PublishProtectionCommand | commands overtake one another |
| **MQTT subscriber** `mqtt/subscriber.go` | a connection | connect, subscribe, readLoop, reconnect | reads with no deadline, a clean session, packet lengths |
| **FCM sender** `notification/fcm_sender.go` | cached access token | SendAlert | the mutex is held during an HTTP request |
| **Access tokens** `token/service.go` | none | sign, parse | cryptography |
| **HTTP delivery**, **configuration**, **lifecycle** | none | routing, decoding, environment, migrations, shutdown | I/O |

How they interact: all use cases share the tables.  Confirm inserts the
`pc_agents` row that polls, alerts and protection requests look up; deleting an
agent cascades to `alerts` and sets `pairing_sessions.pc_agent_id` NULL.  The
subscribers call the alert use case one message at a time, each on a goroutine of
its own; the alert use case reads `mobile_devices` and removes rows FCM rejected.

What makes each correct:

- *Pairing*: a code names one session; a session and its agent stay in step; the
  deadline decides; one secret at most leaves the server and it is the one stored;
  what a poll answers is final; a deleted agent never comes back.
- *Login sessions*: one live token per login; what was revoked, replaced or let
  lapse stays so; no request waits for a row lock for ever.
- *Alerts*: repetitions are saved once; no alert outlives its agent; a live phone
  is not lost to a cleanup; a handler always returns.
- *Registration*: guesses at an OTP stay bounded by what the code can promise, a used,
  superseded or expired OTP stays closed, a verification lapses with its JWT, one user per
  phone number and per email.
- *Mobile devices*: a registration replaces the user's other phones, overlapping ones apart.
- *Protection commands*: the PC is told what the row says, overlapping commands apart, and no
  goroutine stays behind.
- *MQTT subscriber*: the handler gets messages whole, in order, one at a time; the subscriber
  comes back after any trouble and ends when it is told to.
- *FCM sender*: one fetch for all who wait; the calls made within the margin after a token was
  handed out have a good token.

The hazards, each at its line and with the properties that would notice it, are in
`PROJECT.json`.

## 2. Modules

| Module | What it is |
|---|---|
| `Pairing` | the pairing use cases, one step per database call |
| `Enrollment` | abstract: what pairing promises of one session |
| `Pairing_proofs`, `PairingCredential_proofs` | theorems of `Pairing`: its rows and refinement; the secret of an agent |
| `RefreshTokens` | Login, Refresh, Logout, LogoutAll |
| `LoginSession` | abstract: a session carried by one token at a time |
| `Alerts` | the subscribers' handlers, the notifications, registrations of phones |
| `Registration` | OTPs, registration, linking of an email, and the JWTs between them |
| `Accounts` | abstract: who may open an account for which number |
| `AccessTokenCache` | the OAuth token of the FCM sender under its mutex |
| `Subscriber` | one MQTT subscriber: reconnects, handshake, read loop, watcher |
| `PacketCodec` | the remaining length of a packet, pure, with the standard's definition of it |
| `Delivery` | abstract: what a subscriber promises its handler |
| `ProtectionControl` | the owner's protection requests and the goroutines that publish them |
| `RefreshTokens_proofs`, `Registration_proofs`, `Alerts_proofs`, `AccessTokenCache_proofs`, `Subscriber_proofs`, `ProtectionControl_proofs` | theorems of the module each is named after |
| `MCPairing`, `MCRefreshTokens`, `MCAlerts`, `MCRegistration`, `MCAccessTokenCache`, `MCSubscriber`, `MCProtectionControl` | the modules for TLC, with symmetry where a run uses it |

The components meet in the database, and a column written by two of them is in the module of
each: `protection_status` is a column among others in `Pairing`, where its row's identity is
at stake, and the subject of `ProtectionControl`.  `Alerts` takes of the subscriber and
the FCM sender only what a handler sees (order, losses, the outcome for each phone), which
`Subscriber` and `Delivery` on one side and `AccessTokenCache` on the other justify.

### Conventions

A request is a slot (`poll[p]`, `confirm[c]`, `request[r]`, `handler[t]`, ...) whose
`pc` names the database call it makes next; its other fields are the Go variables it
carries from call to call.  **One database call is one step**: PostgreSQL runs a
statement atomically, and `Confirm` takes the row `FOR UPDATE` before it decides, so
its transaction is one step as well.  The transactions of `Replace` and `Upsert` are
two and three steps, because others can see, or wait for, what lies between: their
row locks are explicit (`Locked`, `Holders`).  `Abort` actions stand for a cancelled
context, a database error, a lost connection, a lost response and a dead process: what
was in memory is gone, what was committed remains.  Process death needs no further
action: it is every open request's Abort.  `Alerts` has `Crash`, since there all handlers
and all undelivered messages go together.

A table is a function from keys to rows; a key column that is NULL means there is no
row.  A secret, code or token stands for itself and for its hash.  A definition with an
underscore (`After_AtDeadline`) is the definition after which it is named with a
plausible mistake in it; no specification uses it, it shows that a run would notice.

### Pairing (`usecase/pairing_usecase.go`)

`StartTaken`, `StartFree`, `StartCreate`, `StartCollide` are the retry loop of
StartPairing: `ExistsByDeviceCode`, then `Create` under the unique index, at most
`deviceCodeMaxRetries` turns.  `ConfirmBegin` reads the clock; `ConfirmRefuse`,
`ConfirmOverdue` and `ConfirmBind` are the three ways the transaction may end.  A poll
goes from `PollFind` to `PollRespond` through the branches of GetPairingStatus:
`expire`, `refind` when Expire updated no row, `lookup`, `issue`, `reread` when the
secret was issued by somebody else.  `CallFind` is the authentication of a PC agent,
`CallProtect` and `CallMark` the updates by id that follow it.  The owner's two requests
are one statement each.  `PhaseOf` and `HashOf` read the two rows as an enrollment.

### RefreshTokens (`usecase/auth_usecase.go`)

`RefreshFind` reads and checks the token, `RefreshDraw` finds the user, draws the next token and
stamps its expiry, `RefreshUpdate` is the `UPDATE ... WHERE
revoked_at IS NULL` that locks the row, `RefreshCommit` the `INSERT` and `COMMIT`.
`LogoutAllBegin` takes the snapshot of the statement and `LogoutAllUpdate` its effect,
once no row of the snapshot is locked; a row the statement locks while it still waits for another
is not modelled as locked, which only adds interleavings.  `login` is a history column: the token of
the login a row descends from.

### Alerts (`usecase/alert_usecase.go`)

`Take` is FindByID of the agent, `NoDuplicate` and `SkipDuplicate` the query for a recent
alert, `Save` the insert under the foreign key, then `ListDevices`, one `Send` per phone and one
`Cleanup` per rejected token.  `TakeUnknown` is a message of no known agent or type.  A
message's time is the agent's own clock or the server's, hence any time.
`RegisterUpsert`, `RegisterDelete`, `RegisterCommit` are the transaction of a registration.
The broker, FCM and the agents are external and are modelled by what the code assumes of
them: a message may come twice, a token may be unknown at any time after its phone is gone.
`via`, the subscriber an alert came through, is a history column; so is `overlap`, which
marks a registration that another one of its user overtook after its `DELETE` took its snapshot.

### Registration (`usecase/auth_usecase.go`)

`RequestRegisterOTP` and `CreateOtp` are the two calls of the first request.  A verification
goes from `VerifyRegisterOTP` (is there a user) to `VerifyCompare` or `VerifyRefuse` (the
latest OTP, its flags, the comparison) and then to `VerifyIncrement`, or to `VerifyIssue`,
`VerifyMark` and `VerifyRespond`; in between others run.  `InsertUser` to `CommitUser`
is the transaction of CompleteRegister, during which its phone number is locked in the unique index
(`PhoneLocked`).  `tokens` is what clients hold, as the server stores no JWT; `Accepted` is `verifyToken`
and the middleware.

### AccessTokenCache (`notification/fcm_sender.go`)

`Hit` is accessToken with a usable token; `Miss`, `Fetched` and `FetchFail` are the fetch, with the
mutex held from the first to the last; `Sent` is one call for one phone.  Time passes only during
HTTP calls, and each takes at most `Timeout` (`Tick`).  `until`, when the issuer ends a token, is
earlier than the `expiry` the sender computes by as much as the answer took.
`handed`, when a sender got its token, is a history field.  The phones of an alert are any number:
`MaxDevices` bounds the model only.  `TokenGoodForMargin` is what the margin achieves for all of
them, and `TokenGoodWhileSending` what it does not (section 3).  `TokensOutliveMargin` is an
assumption on the issuer: a token that lives for less than a minute expires before anybody could
have noticed.

### Subscriber, PacketCodec (`mqtt/subscriber.go`)

`Dial` to `ReadSuback` are connect and subscribe, `ReadMessage`, `ReadSkip`, `HandlerReturn` and `Ack`
the read loop, `Leave` the deferred Close and what Run does with the error, `Watch` the goroutine that
closes the connection when the context ends.  A packet carries the bytes of its length, and
the client reads that length with `Decoded`, the sum of the four turns of its loop; `size` is the
true one, so `ImplementsDelivery` says that messages are cut rightly.  What is on the way and is no
message is NONE to `Delivery`, so the refinement maps packet by packet.  A PUBLISH too short for the
length of its topic, or for the packet id it should have, is passed over (`IsMessage`); so is one whose
topic is longer than it, which is one of the "other" packets.  `StandardLength` is the
MQTT standard's definition, the reference for `Encoded`.  `connect` insists on a CONNACK and `subscribe` on a SUBACK: a message that
comes before the SUBACK, as the standard allows, ends the connection (`ReadFail`) and is lost with it.

### ProtectionControl (`http/pc_agent_handler.go`, `mqtt/publisher.go`)

`UpdateProtection` is the committed update, `StartPublish` the goroutine, `Dial` to `ReadPuback` its
connection, `Expire` and `Watch` the context of three seconds and the goroutine that closes the
connection.  A PUBLISH that was written may reach the broker after the client has closed
(`BrokerTake` needs no open connection), so the goroutine's end is not the command's end.
`UpdateLost` and `Crash` leave an updated row and no command.  `alone` and `taken` are history fields.
`NextDisabled` is the same without `MQTT_BROKER`.

## 3. Runs

| Run | Shows | Bounds |
|---|---|---|
| `pairing_codes` | `TypeOK`, `CodeNamesOneSession`, `AgentMatchesSession`, `DecidedByDeadline`, `StartFinishes`, `CredentialEventually` | 2 PCs that draw one code in 2 turns, a deadline before the last clock tick: the code is taken, inserted twice, runs out; under fairness |
| `pairing_race` | `DeliveredSecretVerifies`, `AnswerIsFinal`, `VerifiedCallerHoldsCredential`, `DeletedAgentStaysDeleted`, `ImplementsEnrollment` | 1 PC, 2 users' confirmations, 2 polls, 2 secrets, a call of the agent with a right or wrong one, the deletion: every pair of racing requests |
| `refresh_race` | `TypeOK`, `OneLiveTokenPerLogin`, `LapsedStaysLapsed`, `ImplementsLoginSession`, `RefreshFinishes`, `LogoutAllFinishes` | 3 tokens (two logins, or a login refreshed twice), 1 user, 2 requests, a Logout, a LogoutAll, tokens that expire; under fairness |
| `alerts_phones` | `TypeOK`, `AlertsSpaced`, `LivePhoneStays`, `RegistrationReplaces` | 3 alerts of one agent and type through one subscriber, times on either side of the window, 2 tokens, 2 users, 2 registrations at once |
| `alerts_live` | `HandlerReturns`, `RegisterFinishes` | 2 registrations that can deadlock, cleanup behind their locks |
| `alerts_window` | **violated**: `DuplicateIsWithinWindow` | 2 rows |
| `registration_race` | `TypeOK`, `GuessesBounded`, `ClosedOtpStaysClosed`, `LapsedVerificationNeedsOtp`, `ImplementsAccounts` | 2 requests, 2 phone numbers, 2 users, 1 email, 2 OTPs of 1 attempt: a second OTP supersedes the first, OTPs and JWTs expire |
| `access_token` | `TypeOK`, `TokenGoodForMargin`, `GoodTokenKept`, `SenderServed` | 2 senders, 1 to 5 phones, so that the calls may outlast the margin of 4 timeouts, two lifetimes, time for two generations of tokens |
| `access_token_phones` | **violated**: `TokenGoodWhileSending` | 1 sender, up to 5 phones |
| `subscriber` | `TypeOK`, `LengthsRoundTrip`, `ImplementsDelivery`, `StopsWhenCancelled`, `Recovers` | lengths on both sides of every power of 128 and of what a message takes, and the largest there is, 2 packets on the way, any number of connections |
| `protection` | `TypeOK`, `ToldAsWritten`, `PublishEnds` | 2 requests of the owner, the PC's own reports, crashes |
| `protection_disabled` | **violated**: `DisabledPublisherIsHarmless` | 2 requests |

A race needs two parties and the thing they race for, so two slots of a kind and one
object show it; a third of the same kind repeats what two do, and where a history matters
(tokens of a login, alerts of a window) there are three objects.  What a second party only watches is
left to the proofs: `refresh_race` has one user, since with three tokens a race leaves none for
another's session, and `alerts_phones` one subscriber, since `AlertsSpaced` compares what one of
them saved.  `MaxTime`,
`MaxAt` and `MaxWire` bound the models only.  Deadlock is not checked: every model ends
when its rows, requests or its clock are used up, and a subscriber stops.  Symmetry is used in runs of safety
properties and in none of the liveness runs.  `refresh_race` has an action constraint instead,
`DrawInOrder`: tokens nobody has drawn yet have left no trace in the state, so drawing the least
of them loses no behaviour but for their names; fairness is assumed of no action that draws.

`pairing_codes` has one code, which makes every second draw collide, and one confirmation;
the invariants, action properties and refinements of every passing run are also proved for every instance
(section 4), so that what the bounds of the passing runs decide on their own is liveness.  `TTL = 0` in `pairing_race` and `refresh_race` makes things expire at
the first tick, and requests still have one moment before it.  Each property is shown to fail when
one definition of the code is replaced by a mistaken one (`mutants` in `PROJECT.json`).

### Fairness

A goroutine that is runnable runs: `WF` on the turns of a request that was
accepted.  A statement that waits for a row lock gets it if the lock is free again and
again, since PostgreSQL queues the waiters: `SF` on the steps behind a lock.
PostgreSQL ends a deadlock by aborting one of its transactions: `WF` on
`Deadlocked(r) /\ RegisterAbort(r)`.  `sync.Mutex` starves nobody, so a sender that waits for
the token gets it (`SF`).  An HTTP call ends by the client's timeout and a context by
its own (`WF` on `Answered`, `Sent`, `Expire`).  A handler of `Subscriber` returns, which is what
`HandlerReturns` shows: the row locks its cleanup waits for, with a context that has no deadline, are
given up by the registrations that hold them.  That an error lets a handler go is possible
(`HandlerError`) and never assumed.  Nothing is assumed of aborts, crashes, logouts,
deletions, of StartPairing or Confirm being called, or of the broker: `StopsWhenCancelled` and
`PublishEnds` hold with one that never answers.  `Recovers` has its assumption in the property
(`BrokerGetsWell`): from some time on the broker accepts and does not refuse, cut off or
send what does not fit.
`CredentialEventually` speaks of a PC that asks again until it has an answer, so the
poll itself is fair, and strongly so in the three steps that lead to the
secret: a PC is not cut off each time at the same call.

### What the runs found

`alerts_window`: an alert is skipped as a duplicate if there is one of its type with
`triggered_at >=` its own time minus five seconds, and *any later time*
(`alert_repo.go:76`).  The constant and the log line call that a duplicate within the
window.  An alert that arrives after a later one, or after one stamped by a clock that ran
ahead, is dropped however far apart the two are.

`protection_disabled`: without `MQTT_BROKER` the log says that the publisher is disabled
(`main.go:127`), but the nil `*ProtectionCommandPublisher` becomes an interface that is not nil, the
check in `publishProtectionCommand` passes, and the goroutine reads a field of a nil pointer.
The panic is in a goroutine of its own, where net/http does not recover it: the first
protection request that updates a row ends the process.

`access_token_phones`: `SendAlert` gets one access token and calls FCM with it for one phone after
the other (`fcm_sender.go:89`), fifteen seconds at most each.  A token is handed out until one minute
before its expiry, and nothing bounds the phones of a user: a platform is any text, and
overlapping registrations leave rows.  When four phones are slow, the fifth is called with an
expired token; FCM refuses, and the alert is not sent to it again.

What holds only with a proviso, and why, is in the properties: `GuessesBounded` allows one
guess more per concurrent request, since the limit is read before the comparison and raised
after it; `ToldAsWritten` and `RegistrationReplaces` except overlapping requests, since
nothing orders them.

`AlertsSpaced` is stated per subscriber: with two, both may find no recent alert and each
save one, which is a behaviour of `Alerts`.  The code does not prevent that.

## 4. Proofs

Every safety property of the passing runs is proved for every value of the constants: any
number of requests, rows, tokens, phones and messages, any bound on clocks and queues.  Each
module's theorems rest on one inductive invariant: true at first (`Init...`), kept by every
step (`Next...`, one step of the proof per action), and strong enough for the properties.
`TypeOK` alone is inductive in none of them: what a request carries, and so what its next call
does, depends on the program point it has reached.

| Theorem | States | Argument |
|---|---|---|
| **Pairing** | | |
| `TypeCorrect` | `[]TypeOK` | with `SlotsOK`: what a request holds at each program point |
| `CodeIsUnique`, `AgentInStep` | `[]CodeNamesOneSession`, `[]AgentMatchesSession` | `RowsOK`: they need each other and `IDNamesOneSession`, or a Confirm could put an agent over another's. `RowSteps` reduces `Next` to the steps that write rows |
| `DeletedForGood` | `DeletedAgentStaysDeleted` | only a pending session binds, and an id is requested by one session |
| `DecidedInTime` | `[]DecidedByDeadline` | `Timely`: a poll that is about to expire a session saw its deadline pass, and a Confirm's clock is not ahead of the server's |
| `PairingImplementsEnrollment` | `ImplementsEnrollment` | each step opens, closes, binds, issues or removes one session's enrollment, or stutters |
| `OneSecretDelivered` | `[]DeliveredSecretVerifies` | `OneSecretOut`: the secrets of an agent *out*, with its PC or in an answer under way, are all equal and are the hash of the row if there is one. A secret gets out only when its hash is stored in an empty column (`OutByIssue`), and an agent's hash is set once (`HashSetOnce`), since its session is confirmed already and no other names its id |
| `PollAnswersTruly` | `[]AnswerIsFinal` | `PollKnows`, and `StatusFinal`: a status other than pending does not change |
| `CallerVerified` | `[]VerifiedCallerHoldsCredential` | `CallHolds` and `HashSetOnce` |
| **RefreshTokens** | | |
| `TypeCorrect`, `OneLiveToken` | `[]TypeOK`, `[]OneLiveTokenPerLogin` | `SlotsOK`: the row a Refresh has locked is live; `SlotsApart`: no two have drawn one token or locked one row; `LoginsOK`: a row descends from the row of a login. Between the `UPDATE` and the `INSERT` of a Replace no live token is missing or double, as the lock keeps the old one |
| `LapsedForGood` | `LapsedStaysLapsed` | no Refresh has an expired row in hand unless it found it in time, `RefreshFind` refuses it, and an expiry never changes |
| `ImplementsSessions` | `ImplementsLoginSession` | each action opens, passes on or ends sessions; what a LogoutAll revokes was live until then |
| **Registration** | | |
| `TypeCorrect` | `[]TypeOK` | `SlotsOK` (the OTP a request compared is of its number, an open insert is of a new user), `SlotsApart` (the unique indexes), `TokensOK` (what a JWT stands for) |
| `GuessesStayBounded` | `[]GuessesBounded` | `GuessesCounted`: attempts and the requests about to count one are together within `MaxAttempts + Cardinality(Request) - 1`, since a comparison is only made while the attempts are below the limit |
| `ClosedForGood` | `ClosedOtpStaysClosed` | `VerifyCompare` takes only the latest OTP that is open, nobody else has the closed one in hand, and what closed it (used, expired, superseded, attempts) is never undone |
| `LapsedNeedsOtp` | `LapsedVerificationNeedsOtp` | only `VerifyCompare` with an open OTP, or a JWT that has not expired, takes a request of the number further |
| `RegistrationImplementsAccounts` | `ImplementsAccounts` | a user row needs a JWT, a JWT a used OTP, and the indexes keep numbers and emails apart |
| **Alerts** | | |
| `TypeCorrect` | `[]TypeOK` | `WireOK`, `HandlersOK` |
| `SpacedThroughOneSubscriber` | `[]AlertsSpaced` | `SaveIsClear`: between its query and its insert a handler stays clear of all its subscriber saved, since no other handler saves in its name |
| `LivePhoneIsKept` | `LivePhoneStays` | `HandlersOK`: a token in `invalid` was refused by FCM and stays dead; a registration never deletes its own row |
| `OnePhoneRemains` | `RegistrationReplaces` | `RegistersOK`: the snapshot of a registration not overlapped has all other rows of its user |
| **AccessTokenCache** | | |
| `TypeCorrect`, `TokenGood`, `GoodTokenIsKept` | `[]TypeOK`, `[]TokenGoodForMargin`, `GoodTokenKept` | `CallsInTime`: `handed + Margin <= until + Timeout`, a token handed out lives for the margin less one call; `CacheInTime`: the expiry is late by one call at most, and who fetches does so without a usable token |
| **Subscriber** | | |
| `TypeCorrect` | `[]TypeOK` | with the type of `wire`: that a message has a length the broker sent is `CodecRoundTrips` |
| `CodecRoundTrips`, `AllLengthsRoundTrip` | `RoundTrips` of each of the 268435456 lengths, `[]LengthsRoundTrip` | `Form` writes the bytes out for the four sizes; encoding, the standard and decoding are each shown to agree with it. The recursion ends after four bytes, so no induction is needed |
| `SubscriberImplementsDelivery` | `ImplementsDelivery` | `Inbox` goes with `Append`, `Tail` and `SubSeq`; the packet read is what the handler gets, and what `ReadSkip` passes over is NONE |
| **ProtectionControl** | | |
| `TypeCorrect`, `ToldTruly` | `[]TypeOK`, `[]ToldAsWritten` | `LastAlone`: the row is the last request's, and while that is alone no other can reach the broker |

What is assumed of the constants is the named `ASSUME` of each module, and TLC evaluates it in
the runs: that NULL or NONE is none of the values it is told from, that bounds are natural
numbers, and besides

- `RegistrationAssumption`: `Request` is finite, without which the bound on guesses means
  nothing, and a phone number is not a user's id, as both are subjects of JWTs;
- `AlertsAssumption`: the two topics of `main.go`;
- `TokensOutliveMargin` of `AccessTokenCache`: every lifetime the issuer tells, and the default, is the
  margin at least (section 2);
- `SubscriberAssumption`: lengths are those four bytes hold.

Only model-checked are the liveness properties (`StartFinishes`, `CredentialEventually`,
`RefreshFinishes`, `LogoutAllFinishes`, `HandlerReturns`, `RegisterFinishes`, `SenderServed`,
`StopsWhenCancelled`, `Recovers`, `PublishEnds`): fairness and `ENABLED` are out of the prover's
reach.  The three violated properties are refuted by their runs.

## 5. Not modelled, and why

Configuration, the connection pool, migrations, routing, decoding and status codes: I/O
without protocol state.  Signing and parsing of access tokens, bcrypt and random
numbers: that a hash verifies its secret only, and that 32 random bytes are new, is assumed.
ListPCAgents and ListAlerts only read.  `last_seen_at`, names and timestamps that
nothing decides on are left out.

What an alert reaches, beyond the step that sends it, is not claimed: a token that changed hands since the
list was read still gets the alert, a crash after the insert leaves it unsent, and the code
promises neither otherwise.  The same holds of lost responses of Refresh and of the poll that issues a
secret.  Further interleavings the code does not prevent are in the models, and neither code nor docs say
that they must not happen: two verifications of one OTP that
each get a JWT (they still open one account, `ImplementsAccounts`), and two protection commands that
reach the broker in the other order than their updates; overlapping registrations may likewise
leave a user two phones on one platform, and both subscribers save one alert each.  The hazards of
`PROJECT.json` without a property are these.

## 6. Plan

Done: `Pairing` with `Enrollment`; `RefreshTokens` with `LoginSession`; `Alerts` with the
registration of phones; `Registration` with `Accounts`; `AccessTokenCache`; `Subscriber` with
`Delivery` and `PacketCodec`; `ProtectionControl`.

Proved: every safety property of every module (section 4), and the refinements of `Enrollment`,
`LoginSession`, `Accounts` and `Delivery`.

To come: the invariants the liveness properties rest on (who holds a row lock waits for none of
its own, who waits has somebody to wait for), and properties for the hazards that have none yet
where the code promises something.
