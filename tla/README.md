# Verification of the MeetUp backend

TLA+ models of the MeetUp microservices (`src/apps`, `src/packages`), the TLC
configurations that check them on small instances, and TLAPS proofs of the
properties that matter most. The repository has no tests; the models are
translated from the code of the services, and its docs (`ARCHITECTURE.md`,
`openapi/openapi.yaml`, `openapi/android-api-guide.md`, the Swagger texts of
the controllers) are used only as statements to check the code against.

    tlc -workers 2 -config Sessions.cfg MCSessions.tla      # any run below
    tlapm SessionsProofs.tla                                # the proofs

## The system

Node.js services behind one gateway. Each has its own PostgreSQL database
(through Prisma); they share one Redis and one NATS server and talk by events.
No handler opens a database transaction: every `await` is a call of its own
that other requests may overtake, that may reject, and after which the process
may die. That is the unit of atomicity of all models.

| component | state it keeps | operations | talks to |
|---|---|---|---|
| auth-service | `User`, `RefreshToken`, `OtpCode`, `AuditLog`; Redis session and OTP-attempt keys | register, verifyOtp, login, refresh, logout, deleteAccount | publishes `user.registered`, `user.deleted` with JetStream |
| profile-service | `Profile`, `Interest` | create default, patch, deactivate, reads | hears both user events on plain NATS subscriptions; publishes `profile.updated`, `interests.changed` |
| search-service | OpenSearch index `profiles`, two streams, two ephemeral consumers | index, delete, query | consumes `profile.updated`, `user.deleted` |
| chat-service | `Conversation`, `Message`; Redis presence and typing keys; socket rooms | find-or-create, send, list, connect, disconnect | publishes `chat.message.sent` |
| notifications-service | `DeviceToken`, `NotificationLog`; two streams, one consumer | register and remove a device, push | consumes `chat.message.sent` |
| media-service | `MediaObject`; S3 objects | request, confirm, upload, delete, list | publishes `media.uploaded` |
| recommendations-service | Redis list per user; Bull queue | read, refresh, store | publishes `recommendations.refreshed` |
| api-gateway | none | JWT guard, throttling, forwarding | HTTP to the services |
| packages | none | crypto, PII encryption, pagination, event types, constants | |

What is hard, and what makes each part correct:

- **auth, sessions.** Rotation is read, check, mark, look up, insert; revocation
  deletes by family. Correct means: a family belongs to one user, has one live
  token, and once revoked stays revoked; a deleted account gets nothing more;
  the audit log covers what happened.
- **auth, registration.** A check-then-act on the email, an OTP and an attempts
  counter with separate lifetimes, an event published in the middle of the
  handler. Correct means: one account per email, a bounded number of guesses
  per OTP, verification only through a live OTP, and effects in a fixed order.
- **profile and search.** Plain subscriptions lose messages; deliver-all
  consumers replay and redeliver them; two loops per service have no order
  between them. Correct means: the index ends where its stream ends, an edit is
  never taken back, an inactive profile stays inactive, a deleted user leaves
  every service.
- **chat.** Find-or-create without a unique index; messages announced and paged
  by different paths; presence keys shared by all sockets of a user. Correct
  means: one conversation per pair, a client that joins and then reads its
  history misses no message and is given none twice, and an acknowledged message
  was published to the peer.
- **notifications.** At-least-once pushes to a snapshot of the devices, by a
  consumer that forgets everything when it restarts, through an FCM that may
  refuse a push or not be configured; such a push is logged and not tried again.
  Correct means: no message is done with before each device that stays its
  recipient's was pushed to or its refusal is on record, in the end each is, and
  a push is tried only for devices of the recipient.
- **media.** A row and an S3 object that must agree, with no status checks, a
  URL that outlives what it was signed for, and a gateway that may give up on a
  request the service carries out. Correct means: no object without a row, none
  left behind a deleted row but by a late PUT, one row per request, and only the
  owner removes.
- **gateway.** It alone checks tokens; the services believe its header. Correct
  means: the header is the token's subject, and a closed account is let in for
  one lifetime of an access token at most.
- **search queries.** Ages become ranges of dates, pages are cut out of a ranking
  that each request makes anew, and the index and the day go on meanwhile.
  Correct means: who is found by age is shown with that age when opened, and an
  undisturbed search shows everybody who matches once.
- **recommendations.** A cache whose empty result looks like a miss, retried and
  stalled jobs. Correct means: bounded runs, an end for every job, and no
  completion without the event: with no stream for it each job ends kept as failed.

The full list of hazards, each at its line and with the properties aimed at it,
is in `PROJECT.json`.

## Modules

| module | what it is |
|---|---|
| `FamilyLifecycle` | abstract: a token family is unopened, open, then closed for good |
| `Sessions` | login, the part of verifyOtp that opens a session, refresh, logout, deleteAccount, issueTokenPair; refines `FamilyLifecycle` |
| `AccountLifecycle` | abstract: an account is absent, pending, then verified or stuck for good; announced only when verified, given tokens only when announced |
| `Registration` | register, verifyOtp, with the clock; refines `AccountLifecycle` |
| `ProfileSync` | profile-service and the indexer of search-service, with the two user events |
| `Chat` | starting conversations, send_message, rooms, the paged history |
| `Gateway` | routes, the JWT guard, the user header, bodies; access tokens and their lifetime |
| `Media` | media-service composed with `Gateway`: rows, S3, presigned URLs, photos, the event |
| `Notifications` | device tokens, the stream and its consumer, one push per device |
| `Search` | the query and its filters, ages, paging; pure operators |
| `Browsing` | a client that searches page by page, over the index, the indexer's writes and the calendar; uses `Search` |
| `Recommendations` | reads, triggers, the Bull queue, the stored list |
| `MCSessions`, `MCRegistration`, `MCProfileSync`, `MCChat`, `MCMedia`, `MCBrowsing` | symmetry sets and instance values for TLC |
| `SessionsProofs`, `RegistrationProofs`, `ProfileSyncProofs`, `ChatProofs`, `MediaProofs`, `NotificationsProofs`, `SearchProofs`, `RecommendationsProofs` | TLAPS proofs about the module of that name (`SearchProofs`: about `Search` and `Browsing`) |

**Sessions.** A request is a process with a program counter named after the call
it makes next (`pc`) and the handler's local variables (`frame`). `row[t]` is
the `RefreshToken` row found by the hash of `t`; uuids are drawn from the
constants `Token` and `Family`. A step is one awaited call:
`RefreshFind` is `findRefreshToken` and the tests on what it returned,
`RefreshMark` is the Prisma `update` by id (which rejects when the row is gone
and succeeds when it is already used), and so on; `InsertToken` and
`SetSession` are `issueTokenPair`, the tail that login, verifyOtp and refresh
share. `Abort` ends a request at any of its calls. Expiry is two environment
steps. `owner`, `forked` and `revoked` are history variables. Password
verification is "may fail". No account starts verified: `redeemed` (whose OTP is
used) and `verified` (the `isVerified` flag) are written by the steps of
verifyOtp, `VerifyFind`, `VerifyUse`, `VerifyMark` and `VerifyAudit`, which open
a family with an EMAIL_VERIFIED row where login writes a LOGIN row. Two
verifications that found the OTP unused both go on, as in the code. What
verifyOtp does with the attempts counter, the OTP's time to live and the event
is in `Registration`.

**Registration.** Same layout. One OTP per account, because only register
creates one. Time is a clock because the counter's and the OTP's lifetimes have
to be compared. `SoftDelete` is the one update of deleteAccount that this
module's tables see. `StreamExists` says whether some JetStream stream stores
`user.registered`: nothing in the repository creates one. `StageOf` reads an
account's stage off its row, its OTP and the requests in flight: it is stuck when
no live OTP is left and no request is about to write one or past the look-up.

**ProfileSync.** The content of a profile is the number of the edit that wrote
it. Subscriptions are queues that vanish with the process. A stream is a
sequence; a consumer is the next sequence number and a set of messages to
deliver again; `SearchStart` rewinds both consumers, as new ephemeral
deliver-all consumers do. A handler that fails, or whose ack is late, adds its
message to the second set, and redelivered messages come at any later moment.
The auth service is reduced to the two events it sends, in any order and each as
often as it likes: two verifyOtp that both found the OTP both publish
(`auth.service.ts:59-66`), and deleteAccount finds accounts that are deleted
already (121). `MaxEvents` bounds how many are sent; a subscription hands over
each of them once or never.

**Chat.** `conversation` and `row` are the two tables, `start` and `status` the
handlers in flight. A message has its createdAt before its insert commits, and
the room is told of it after one more call. `view[s]` is what the client behind
a socket has received of the dialog it shows: `live` from the room, `read` from
its pages, `cursors` the createdAt at which each page ended. The client is
external and does what `openapi/android-api-guide.md` describes; in particular
its cursor is the createdAt of the last message (line 367). The code's own
`nextCursor` is the *id* of that message (`pagination.ts:12`), which
`getMessages` would read as a date: a client that sends it back gets an error
and no page, which takes one request to see and is not modelled. Order among
rows with equal createdAt is a choice. Presence and typing keys are left out:
the gateway writes them and no service reads them.

**Gateway and Media.** `Gateway` has no state of the gateway, which keeps none,
but that of the tokens it checks: `expires[u]`, the end of the last access token
of u, and `closed[u]`, when its account was deleted and logged out. `Routes`,
`Admits`, `UserHeader` and `CarriesBody` are what `ProxyController`, the guard
and `ProxyService.forward` do with a request; `ActsFor` of `Media` applies them
to every header a client may send. A request that comes through takes a slot of
`call`, which holds the handler's locals and the next call; an answered slot is
free again, so the number of requests is not bounded, only those in flight.
`Unavailable` is the gateway's 503 while the service goes on, `Abort` a death or
a rejected call. `Put` is the client's upload to S3, which looks at the URL
only. `removal` is history: whether a PUT came after the last removal.
Refused requests (type, size, foreign key, unknown id) change nothing.

**Notifications.** `next` and `redo` are the consumer as in `ProfileSync`; it is
modelled again because here the process has a message `push` in hand for several
awaited calls: the devices still to go and the one that was tried and is not yet
logged, with its status; the devices to go were read once, before the first of
these calls. `fcm` says whether the process has FCM configured, chosen at each
start. `Send` has three outcomes: FCM takes the push; it refuses, or takes it and
the answer is lost (`failed`); or there is no FCM (`skipped`). All three end in a
`NotificationLog` row and the loop goes on. `LogFails` naks with devices to go,
the row stored or not; `Crash` drops what is in hand; `Ack` may come too late.
`settled`, `steady` and `theirs` are history: pushes that FCM took or whose
refusal or skipping a row records, and devices that were the recipient's when
the message was published and ever since, or at any time since. That a message
is settled is all the code promises: a refused push is acknowledged and not tried
again while the process lives.

**Search and Browsing.** `Search` is pure: `Matches` is the bool query that
`search` builds, `Page` its from and size, `Age` the age `profile-service` shows,
over dates with years, months and days. `Browsing` gives it a state: the index,
which the indexer's `IndexProfile` and `DeleteProfile` change at any moment (what
makes them be called, and in which order, is `ProfileSync`), the day, and a client
that asks for pages, each a query on what the index and the day are then.
The client is external and does what the guide's `from` and `size` are for.
OpenSearch may rank those that match in any order, another one whenever the index
or the day has changed (`calm` says that neither has). `shown` is what the client
was given, with the birth date the profile had: `AgesShown` compares the limits
with the age `profile-service` computes when the client opens it later.

**Recommendations.** A job per id with its tries, stalls and place in the queue;
Bull and Redis are external, modelled from the options `triggerRefresh` passes
and Bull's defaults. `stream`, whether some stream stores
`recommendations.refreshed`, is either way and stays so; nothing in the repository
creates one. That the handler returns and that Bull completes the job are two
steps, between which the process may die.

## Runs

| run | bounds | shows |
|---|---|---|
| `sessions` | 2 users, 4 requests, 3 tokens, 2 families | pass: types, `OneHeadUnlessForked`, `FamilyHasOneOwner`, `EveryFamilyAudited`, `DeletionTrail`, `RevocationIsFinal` (refinement), `DeletedAndLoggedOutStaysOut` |
| `sessions_fork` | same | violated: `OneTokenPerFamily`: two refreshes of one token both succeed |
| `registration` | 1 email, 2 ids, 2 codes, 4 requests, 2 attempts, OTP of 2 ticks, 3 ticks | pass: types, `OneAccountPerEmail`, `GuessBound`, `VerificationTrail`, `AccountsLive` (refinement) |
| `registration_no_stream` | 2 requests, no stream, no failing call | violated: `VerifiedIsLoggedIn` |
| `profile_sync` | 2 users, 2 edits, 3 user events | pass: types, `IndexFollowsStream`, `HitsHaveProfiles`, `DeletionReachesProfile`, `EditsSurvive`, `InactiveStaysInactive` |
| `profile_sync_deleted` | same | violated: `DeletedLeavesSearch`: a deleted user is back in the index |
| `chat` | 2 users, 2 conversations, 2 messages, 1 socket, pages of 0 to 2, 3 instants | pass: types, `StartedIsTheirs`, `NothingMissed`, `NoneTwice`, `AcknowledgedIsPushed` |
| `chat_duplicate` | 2 requests | violated: `OneConversationPerPair`: two users who start a conversation at once get two |
| `media` | 2 users, 2 ids, 2 requests in flight, tokens and URLs of 1 tick, 2 instants | pass: types, `ObjectHasRow`, `DeletedObjectIsGone`, `OneRowPerRequest`, `ConfirmedIsAnnounced`, `OnlyOwnersRemove`, `ClosedIsOver` |
| `notifications` | 2 users, 2 devices, 2 messages | pass: types, `NothingAckedUnsettled`, `PushedToRecipients`, `EverySteadyDeviceSettled` (liveness) |
| `search` | 3 users, 3 birth dates, 4 searches, 3 days, one a 29th of February | pass: types, `AgesShown`, `PagesComplete` |
| `recommendations` | 2 users, 2 jobs, with a stream and without | pass: `RunsBounded`, `EveryJobEnds`, `KeptAsFailed` (both liveness) |

Four configurations beside these runs also end in a violation, of what a document
says; "Where the code and its documents differ" has the sentences.

| configuration | of module | violated |
|---|---|---|
| `SessionsRevoked.cfg` | `MCSessions` | `RevokedFamilyHasNoTokens`: a rotation in flight outlives the revocation |
| `RegistrationDuplicate.cfg` | `MCRegistration` | `TakenEmailIsConflict`: a taken email is answered with an internal error |
| `BrowsingMaxAge.cfg` | `MCBrowsing` | `OldestAreFound`: somebody of exactly `maxAge` years is not found |
| `BrowsingLeapDay.cfg` | `MCBrowsing` | `YoungestAreOldEnough`: somebody of 17 is found from 18 on |

Why the bounds are enough to be interesting. Four requests hold a
verification or two of the same code, a rotation or two of its token and a
revocation, or a verification, a login beside it and their rotations;
every rotation can store its token (a fourth token adds no new kind of state
and was tried). Two attempts and four requests let a registration, a right
guess and two wrong ones interleave, and three ticks let the counter and the OTP
expire in either order. Two edits and two users let updates of one user be
reordered and two users' messages share a queue, and three user events are a
registration sent twice and a deletion; the streams may be replayed any
number of times. In `chat` one socket is enough, because a handler outlives the
socket it was called from: messages of both users can be in flight while a later
connection reads; two messages can share a createdAt or straddle a page
boundary, and the table starts with any conversations of the two users.
`NothingMissed` exempts a message whose createdAt is that of the last message of
a page: `createdAt lt cursor` does skip it. In `media` two requests in flight are
the two that can disagree about one row (a deletion and a confirmation, two
deletions, an upload that is given up and another), the second id is needed for a
photo or a second row, and one tick is the whole life of a token or a URL; slots
are reused, so histories are long. In `notifications` two devices of one user are
what a half-done push needs, two users what a device changing hands needs, and
two messages what redelivery out of order needs; restarts are not bounded. In
`search` three users are one more than two pages of one, the birth dates are those
on both sides of an anniversary and none, the days are the eve of a 29th of
February, that day, and one a year later; the searches are from 18 years on, up to
18, from 18 to 19 and without limits, in pages of 1, 2 and 20. In `recommendations`
two jobs compete for the one worker, with every number of tries and stalls.
Whatever is small in these runs is arbitrary in the proofs below. Deadlock is
not checked but in `search`, whose client goes on for ever: the requests, edits,
messages, jobs or instants of the other runs are finite in number and a state in
which all have ended is no error.

Fairness is assumed in three places.

- `CalmSpec` of `Registration`: once a request has begun, each of its calls is
  eventually answered, which is what the event loop and the drivers' timeouts
  give when nothing crashes.
- `Fairness` of `Notifications`: weak for `Start`, because the container is
  started again when it is down, and for `Send`, `LogWritten` and `Ack`, because
  the event loop goes on with a loop that has a message in hand; strong for the
  delivery of each message, because JetStream redelivers in turn and passes none
  over for ever while others are acknowledged and nak'd. It is not enough:
  `EverySteadyDeviceSettled` has the premise that the service stays up at last and
  the database stops failing, without which a message may be nak'd for ever.

- `Spec` of `Recommendations`: weak for the worker as a whole, because Bull hands
  it a waiting or delayed job whenever it has none in hand, also after it died and
  was started again. How often it dies needs no premise: Bull fails
  a job that stalls twice. `KeptAsFailed` rests on the same.

All other passing properties are safety and need none.

## What is proved

Every safety invariant and action property that a passing run checks is also a
theorem, for any sets of users, requests, tokens, ids, messages and devices and
any lifetimes and limits. So are two that no run states: the types of
`Recommendations`, and `UnverifiableStaysUnverified` of `Registration`, which
`AccountsLive` implies. The assumptions are those named in the modules:
`null` is not one of the values it stands in for (`NullAssumption` and its
like), times, limits and numbers of events are natural numbers, the documents,
searches and days of `Browsing` have their types and a first page starts at 0. No set of users, messages, requests or ids needs to be finite.

`SessionsProofs`.

- `TypeCorrect`: `TypeOK`. Not inductive by itself, since a step writes what its
  locals hold; `Shape` adds which locals are set at each call (`Fits`) and that
  stored rows have been drawn and belong to an opened family.
- `OwnerCorrect`: `FamilyHasOneOwner`, a consequence of `Shape`.
- `OneHead`: `OneHeadUnlessForked`. Only two steps can add a head: marking an
  unused row turns it into a rotation, and an insert ends that rotation or
  starts a fresh family. All others add none (`AddsNoHeadKeepsOneHead`).
- `RevocationFinal`: `Sessions` implements `FamilyLifecycle`. A step that takes
  life from one family only is a `Close` or a stutter (`LosingLife`); a mark
  happens in a family with a row; an insert opens a fresh family or keeps its
  own alive.
- `DeletedStaysOut`: the action property `DeletedAndLoggedOutStaysOut`.
- `DeletionLeavesTrail`: `DeletionTrail`, with what deleteAccount has written at
  each of its calls (`DeletionSteps`).
- `FamiliesAudited`: `EveryFamilyAudited`. The families of a user and the logins and
  verifications about to open one are together at most as many as the LOGIN and
  EMAIL_VERIFIED rows (`Covered`);
  both sets are finite because a step adds at most one element.

`RegistrationProofs`. The invariant has the types, what the calls before each
call have already written (`Fits`), and that one request alone writes the OTP of
an account. From it: `TypeCorrect`, `OneAccount`, `TrailHolds` and
`StuckForGood`. `GuessesBounded` adds `Rationed`: while the OTP is live, the
guesses made and those counted but not yet made are at most what the counter has
let through, and the counter's time to live ends no earlier than the OTP, which
was written before the counter started (`NotLate`). A live OTP's counter is
therefore never restarted, and clearing it needs an OTP that is used.
`AccountRefinement`: `Registration` implements `AccountLifecycle`. The refinement
mapping reads the stages off the tables and the requests in flight (`StageOf`).
A step that neither makes nor verifies a row can only make pending accounts stuck
(`OnlyGivesUp`), and a stuck one stays so (`StuckStep`); what remains are the four
steps that write: `CreateUser`, `MarkVerified` (which a second request with the
same code repeats as a stutter), `PublishRegistered` and `InsertToken`, which adds
a holder and takes none away because a request inserts once (`OneToken`). A step
that touches another account leaves a stage alone (`OutsideDoor`).

`ProfileSyncProofs`. What is published or indexed was saved (`Saved`), which
gives `HitsAreProfiles`; each document is that of the last update its consumer
has passed, unless one was redelivered or deleted (`InStep`), which at the end of
the stream is `IndexFollows`; `DeletionHolds` is inductive with the types;
`EditsStay` and `InactiveForGood` follow from how an upsert may change a row.

`ChatProofs`. `StartedWithTarget`: `hasEvery` finds conversations that contain
the pair; that they are no larger needs `Tables`, every conversation is
`{a, b}`, and `PairFillsPair`. The others rest on `Views`: the pages read are
not below the cursors, and a message the room was told of is received, or at a
page's end, or below the cursors of a history not yet read to its end. A page
takes the upper part of what is below the cursors (`PageFacts`), so what it
leaves is below its own end (`NextPage`); that gives `NoneMissed` and
`PagesAreDisjoint`. The table may have any number of rows in the end and has
finitely many at any moment (`FewRows`), which is why a page has a last one. `AcknowledgedMeansPushed` takes that a conversation has two
participants at most.

`MediaProofs`. One invariant: what each call in flight relies on (`CallFits`:
its row is its user's, was made, was removed, was announced), URLs and objects
have their row, a row that says deleted had its object removed, and tokens end
within a lifetime of the closing of their account. Each property is a
consequence of it or of a step from it.

`NotificationsProofs`. A message the consumer has passed is to be delivered
again; in hand with each steady device to go, settled, or its refusal about to be
logged; or settled for all (`NothingUnaccounted`). A push that FCM took is settled
before its log row, one that it refused by the row only, so a crash between the
two loses neither: the new consumer begins anew. The devices in hand were the
recipient's at some time since the message was published (`OnlyRecipientsPushed`).

`SearchProofs`. About the operators, for every date of birth and every today but
a 29th of February: `MinAgeExact` (the lower filter and the age shown agree),
`MaxAgeExcludes` (the upper filter finds those of exactly that age on their
birthday only), and `PagesFit` about consecutive pages. About `Browsing`:
`SearchedAges` (`AgesShown`) carries what was true of a hit on the day it was found
(`FoundAges`) to the day its profile is opened: ages only grow (`AgeGrows`) and
by less than one within a year (`AgeWithinYear`). `BrowsedAll` (`PagesComplete`)
rests on the invariant that, while nothing changes, what is shown is the ranking
up to the end of the last page; a page that is not full ends the ranking, and a
ranking holds everybody once. Times are taken to be UTC, as in the images.

`RecommendationsProofs`. Each run of a job is paid for by a try or a stall
(`Accounted`): `RunsAreBounded`, `NothingIsServed`.
`EveryJobWearsOut` is the safety half of `EveryJobEnds`: every step that touches a
job lowers a natural number counted from the tries and stalls it has left and the
calls ahead of it.

Model-checked only: liveness (`EverySteadyDeviceSettled`, `EveryJobEnds`,
`KeptAsFailed`), which is beyond the prover. The properties that runs find violated are not theorems.

## Where the code and its documents differ

Four runs end in a violation, each of a sentence of a document or a comment; they
are in `PROJECT.json` under "findings". The four further configurations show:

- `SessionsRevoked.cfg`: `invalidateFamily` deletes the rows of that moment, and a
  rotation that has marked its token (`auth.service.ts:103`) stores the next one
  (149) in the revoked family. `auth.controller.ts:114`: "the entire token family
  is revoked".
- `RegistrationDuplicate.cfg`: two registrations pass the look-up of
  `auth.service.ts:34`, or the email is a deleted account's, and the unique index
  rejects `createUser` (38) with a 500. `auth.controller.ts:72` promises a 409.
- `BrowsingMaxAge.cfg`: `search.service.ts:67` keeps the births from today
  `maxAge` years ago on, so of those of that age it finds the ones whose birthday
  is today. `openapi/android-api-guide.md:523` calls it the highest age.
- `BrowsingLeapDay.cfg`: on a 29th of February `new Date(year - 18, 1, 29)`
  (`search.service.ts:68`) is the 1st of March, so somebody born that day is found
  at 17. `openapi/android-api-guide.md:522` calls `minAge` the lowest age.

What the modelling met besides, and has no run for:

- `confirmUpload` looks neither at the status nor the owner nor S3, and an
  unknown id ends in a 500 where the Swagger text promises a 400; the event names
  whoever confirmed.
- The URL stored for a medium is endpoint, bucket and id, which is not the key the
  object was put under.
- No service creates a stream for `media.uploaded` or
  `recommendations.refreshed`: a confirmation fails after the row is active, and
  no refresh job ever completes; each is kept as failed (`KeptAsFailed`).
- A push that FCM refuses is logged as failed, its message acknowledged and not
  tried again (`notifications.service.ts:66-73`), unless the process restarts; then
  all messages are pushed again, those that arrived too.
- The gateway sends no body with a DELETE, and DELETE /v1/auth/account reads its
  user from the body; it has no routes for search, chat, notifications and
  recommendations.
- `displayName` is always empty in the index, so names cannot be searched.
- Deactivating one's profile publishes nothing: the search keeps showing it.
- The guide's `gender=female` is compared with the stored `FEMALE` as it is.

## Not modelled

- The catalogue of interests: seeded by upserts at start and read only.
- The throttler's counters (a refusal is a stutter), request ids, health checks.
- Presence and typing keys, and the typing event: no service reads them.
- The `match.created` stream, which nothing reads.
- The bucket policy of `infra/docker-compose.yml:143`, which lets anybody read and
  write the objects in local development.
- `new Date(year, ...)` reads the years 0 to 99 as 1900 to 1999; age limits of
  nineteen hundred years and more reach them, and `YearsBefore` leaves this out.
- Multipart parsing, DTO validation and Swagger.
- Password hashing, JWT signing, PII encryption and telemetry: pure functions or
  I/O with no effect on the control modelled here.
- The gRPC stubs, which have no caller.
- `Sessions` and `Registration` are not composed. They share the User table and
  the refresh tokens: `SoftDelete` of `Registration` stands for deleteAccount, its
  `InsertToken` for a family's first token; `Sessions` has the steps of verifyOtp
  without the counter, the OTP's lifetime and the event. A composition with an
  instance large enough for both is the next thing to add, then liveness of
  `ProfileSync` (an edit reaches the index once both services stay up).
