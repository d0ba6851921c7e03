# TLA+ models of the SkinTrader backend

SkinTrader is a marketplace for game items: a Go program (gin handlers, services,
repositories over PostgreSQL with pgx, Redis for rate limits and a cron worker for
subscriptions). This directory models the parts of it whose correctness depends on
the order of steps, checks the models with TLC and proves nearly every property
they check with TLAPS.

Paths below are relative to `src/internal/` unless they begin with `src/`.

## 1. The system

All requests run in goroutines of one (or several) processes. With one exception
(the approval of a top-up) the program uses **no database transaction and no lock**:
a request is a sequence of single SQL statements, each atomic, and everything a
request knows between two statements is a copy. Most writers read a row, change
the copy and write *every* column back. This shape, together with calls that fail
in the middle, is what the models are about.

| component | state | operations | correct when |
|---|---|---|---|
| payments (`service/payment_service.go`) | `transactions`, `subscriptions.last_payment_id`, `users.current_subscription_id` | checkout; webhooks of Payme (JSON-RPC), Click (prepare, complete), Xazna and Uzum (status event); `activateSubscription` | a completed payment gives one subscription, nothing else does; a closed payment does not reopen; a gateway is not told two things |
| subscriptions and worker (`service/subscription_service.go`, `worker/`) | `subscriptions`, subscription columns of `users` | activate, cancel, daily run in two phases, grant and revoke by administrators | paid terms are served, ended ones end, the user row agrees with the subscription |
| balance (`repository/postgres/balance_topup_repo.go`, `handler/balance_handler.go`, fee in `handler/post_handler.go`) | `balance_topups`, `users.balance`, `posts` | request, approve (a transaction), reject; fee, insert and refund of `CreatePost`; revenue page | credits and fees are booked once; books balance |
| messaging (`handler/message_handler.go`) | `conversations`, `messages` | start, hide, send, mark read, delete | counter and messages agree; hidden means hidden |
| user row (`repository/postgres/user_repo.go`, `service/kyc_service.go`, `service/auth_service.go`) | `users`, `kyc_documents`, files | sign in, link, profile, moderation, KYC, subscription and balance columns, deletion | no writer undoes another; nothing appears that was never decided |
| posts (`handler/post_handler.go`) | `posts`, `post_images`, files | edit, status, images, views, deletion | counters exact; rows and files agree |
| games (`handler/admin_handler.go`, `repository/postgres/game_repo.go`) | `games` | create, update, delete, slugs | a slug leads to one game |
| administrators (`handler/admin_handler.go`, `middleware/auth.go`, `pkg/jwt`) | `admins`, `admin_logs`; tokens are stored nowhere | sign in, renew, sign out, create and update accounts, log | permissions fit the role; deactivation ends access; the log tells what was done |
| signing in (`service/auth_service.go`) | `users` (address, provider ids, password) | Google, Apple, registration, password; link, create | one person, one account; never somebody else's |
| rate limiter (`middleware/rate_limiter.go`) | a counter with an expiry per client in Redis | INCR + EXPIRE per request | at most the limit per window |
| listings (`handler/post_handler.go`, `repository/postgres/post_repo.go`) | none; the reader has an offset | count, select a page, name the next offset | a reader who goes on sees everything, and nothing twice |
| reports, notifications, cache, other middleware, configuration | see `PROJECT.json` | | not modelled, see section 7 |

Components meet in the `users` row: payments, the worker and administrators write
its subscription columns, top-ups and fees its balance, KYC and moderation its
status, and every sign-in and profile edit writes it back from a copy. `Users`
models exactly this meeting point; the other modules each model one subject in full
and keep of the `users` row the columns they are about. A post and its fee
(`Balance`), and a post and its later life (`Posts`), are separate because nothing
in the second depends on the first once the row is inserted. Two modules compose
others: `Console` puts the requests about games behind the middleware and before the log
of `Admins`, and `SignIn` puts the requests of `Identity` behind the limiter.

Hard behaviours: requests overlapping between any two statements; a webhook
delivered twice, late or out of order; a failed statement, or a request cut by a
stopped process or a closed connection, between two writes that belong together;
the worker walking through a list it read earlier; a run of the worker missed or
cut. `PROJECT.json` lists them as hazards, each at its line.

## 2. Modules

One step of a model is one SQL statement (or Redis command, or file operation) of
the code, named after the repository or handler function that contains it; a
request is a record with a program counter and its copy of the row. Actions ending
in `Fails` are the error paths of the same statement. Operators preceded by a
comment "Mutant:" are not used by any specification: each is a wrong version of the
definition after it and serves to show that a property can fail (`mutants` in
`PROJECT.json`).

| module | models | notes |
|---|---|---|
| `Payments` | checkout, four gateways, `activateSubscription` | `Decide` is the SELECT and the decision, `UpdateRow` the UPDATE of all columns, then INSERT, link, user update; `expired` is the age test against `PaymeTransactionTimeout`; no handler looks at the payment method, so the call of any gateway may name any row; `paid`, `movers` (gateways whose UPDATE reached a row) and `told` (outcomes, and which gateway was told) are history; `faults` says whether calls fail in this behaviour |
| `PaymentContract` | abstract: a checkout is open, held, paid or void, and each gateway has its own moves; granted while paid, a second time only if a bank moved it | implemented by `Payments` (`ImplementsContract`) for all gateways, one request at a time |
| `Subscriptions` | rows, user columns, worker, administrators | days as the unit of time; the worker's lists are copies in `job.todo`; a cancellation is found, read and written in three steps |
| `Balance` | top-ups, approval as a transaction with its row locks, fee, refund, revenue page | the lock is the row's `reviewer` until commit or rollback |
| `PayPerPost` | abstract: top up once, publish and pay in one step, lose a fee or give a post away where the code may | implemented by `Balance` (`ImplementsPayPerPost`) |
| `Messaging` | one conversation of two users | the preview and the counter are written once by the repository and once more by the handler; anybody may mark the conversation as read: `misled` are the users whose messages an outsider marked |
| `Users` | one row, its documents, requests of every kind | a request keeps the copy it read; `credit`, `ever`, `refused` (documents whose upload was answered with an error) and `before` (requests that were in progress when a column last changed) are history; the linked identities are in `Identity` |
| `Posts` | one post and its images | text columns are the request that last edited them; `unanswered` are the images whose INSERT was committed while its answer was lost |
| `Games`, `GameSlugs` | the catalogue | the two slug functions of the code (`slug.Generate`, `slugify`) are constants, any functions on names |
| `Admins` | administrators' accounts, tokens and log | a pair of tokens is its time of making (`issued`); a sign-in or a renewal looks at the account first and makes the pair later (`vouched` is the time of the look); who may do what is read from the row at the middleware, the row to be changed later; the log entry is a statement of its own |
| `Console` | `Admins` and `Games` together | implements `Games` |
| `Providers`, `Identity` | from an identity at Google or Apple, or a password, to an account | one step per query: by provider id, by address, link, create; a lookup that fails counts as one that found nothing |
| `Limits`, `RateLimiter` | one client, one limit | expiry by Redis is an external action |
| `SignIn` | `RateLimiter` before `Identity` | the four routes share one limit; implements both |
| `Listing` | a reader walking through a listing | counting and selecting are two statements; equal values are ordered as the database likes, and differently each time |
| `*Proofs` | theorems about `Payments`, `Subscriptions`, `Balance`, `Messaging`, `Admins` with `Console` and `Games`, `Identity` with `SignIn` and `RateLimiter`, `Users`, `Posts` with `Listing` | section 6 |
| `MC*` | symmetry, constant values and bounds for the runs | |

Every module checks the full interleaving with failures. Where the code keeps a
promise only unless requests overlap or fail in a certain way, a history variable remembers
whether they did (`calm`, `failed`, `split`, `mixed`, `reverted`, `events`, `movers`,
`misled`, `before`, `refused`, `unanswered`, `vouched`) and the property names the exception:
it is visible in the formula, as narrow as the code allows, and the other states are
explored too. What the exception itself does to the program is not judged by the property;
section 5 and the notes of the hazards in `PROJECT.json` say it.

Not visible in any property and therefore left out: signatures, amounts and
authorisation of webhooks; text, pictures and times other than the ones tested;
listings other than those of posts, statistics (except the revenue page); columns no modelled
operation reads.

## 3. Runs

| run | instance | properties |
|---|---|---|
| PayRace | Payme, Click and Xazna, 2 racing requests on 1 checkout, with failures or without, fairness | `GrantedOnlyIfPaid`, `LinksConsistent`, `NeverPendingAgain`, `PaymeExpiryFinal`; without failures `EntitledWhenQuiet`, `PaidIsHonoured` (liveness) |
| PaySerial | Payme, Click and Uzum, each free to name either of 2 checkouts, 1 request at a time, 1 external id for which the rows contend, with failures or without | `AnswersStand`, `ImplementsContract` (refinement) |
| SubLife | 1 user, 2 subscriptions that may overlap, cancellations, administrators, missed and cut runs | type, `GraceServed`, `ExpiredIsFinal`, `PaidTermHonoured`, `AccessMatchesRows`, `TermsEnforcedDaily` |
| BalBooks | 2 administrators, top-ups, posts, revenue page, failures | type, `CreditedOnce`, `BooksBalance`, `RevenueNotOverstated`, `ImplementsPayPerPost` (refinement) |
| MsgRace | 2 messages, an outsider who marks as read, everything interleaves and fails | `BadgeCoversUnread`, `BadgeHasReason` |
| UserRace | 2 requests with copies, a document, reviews at any time, all other writers, failures and lost answers, deletion | `BalanceKept`, `NothingInvented`, `ReviewHasFile`, `DeletedIsGone`, `OnlyOwnColumns` |
| PostRace | 2 requests of up to 2 files, 2 images, 1 view, failures, lost answers and cuts | `ViewsExact`, `ImageHasFile`, `NoStrayFile` |
| GameRace | 2 requests, 2 administrators' accounts, 2 games with colliding slugs, token lifetimes of 1 and 2, 3 logged operations, failures | `SlugLeadsToOne`, `PermissionsFollowRole`, `AccessEnds`, `LastWordCounts`, `LogTellsTruth` |
| RateLimit | either limit 2 in a window of 3, 2 requests at a time, 4 in all, failures, or Redis down and the full life of 3 accounts of 5 identities | `AtMostLimit`, `RefusedWhenBusy`, `NoStrangers`, `OneHome` |
| Listing | 5 posts with 5 values, pages of 2, the three routes, first offsets 0 to 2 | `WalkSeesAll`, `NoRowTwice` |
| PayTwice | Payme, 2 requests | violates `OneSubscriptionPerPayment` |
| SubRenewal | a term of 2 days, 2 subscriptions of one user | violates `RenewalHonoured` |

Bounds are the smallest at which the interesting cases happen. Two requests: every
race the properties speak of is between two. Three subscription ids in `Payments`: two
may be created for one payment and a third must still be possible; where nothing is
said about their number (PayRace), two. One external id in PayRace and PaySerial, so that two
rows or two requests carry the same; two in PayTwice. Xazna and Uzum run the same code
(`StatusWebhook`), so one of them is enough in a run. Two
administrators for one top-up. One user suffices where users share
no row (`Subscriptions`, `Users`), two where money or messages pass between rows.
Five identities in `SignIn`: one address used in all three ways, and two people without
any; the third account id is the one that must not be needed. Two accounts in `Admins`:
one that administers and one administered, in either role; two live pairs of tokens
of one administrator are told apart by their times, of which there are three. Five posts
make three pages of two, so that there is a page in the middle.

Some runs explore two situations, or cut what no property speaks of. `faults` (both
runs of `Payments`) and `down` (RateLimit, in `MCSignIn`) are variables that never
change and choose the situation at the start.
`StillPromised` (Listing) is a CONSTRAINT: a walk during which posts were both
added and removed, or moved, tied or added inside a request, satisfies both properties
by their premises, in every later state too, and is not followed.

Named bounds: `Room` (Payments: a request begins only while ids for its subscription
are left), `Term` and `Horizon` (Subscriptions: ten days hold a term of one day, the
seven days of grace and the day the grace must end by; the end of the horizon is a
stutter), `MayCancel` (one cancellation of a row, and one at a time), `MayAdminister` and
`AdminUntil` (an administrator deals with a user once, in the first days),
`Room` (Admins: `MaxDone` operations), `MaxBalance`, `MaxFiles`, `MaxViews`, `MaxTime`,
`MaxRequests`, `MaxKey`.

`CHECK_DEADLOCK FALSE` is said where the model really stops: in RateLimit and GameRace
time and requests or operations are bounded, in UserRace nothing is left to do with a
deleted account, and in Listing the walk ends.

The types of `Users`, `Posts`, `Messaging`, `Games`, `Admins`, `Identity` and `Payments` are theorems
(section 6) and are not among the properties of the runs.

### Fairness

Only `Payments` has liveness. `FairSpec` assumes `WF_vars(Continue(r))`: a handler
that has begun its database calls goes on until it returns, because it is a
goroutine of a running process and every call either returns or fails. Nothing is
assumed about gateways, users or administrators: whether anybody ever calls again
is open. For the worker no liveness is stated: a model with a horizon has none, and
`TermsEnforcedDaily` says the bounded form (at the end of each day's run nothing is
left behind).

## 4. What the passing runs show

* **Payments.** However webhooks of all gateways overlap, fail and repeat, no
  subscription exists without a payment stored as completed, a subscription is linked
  only from its own payment's row, and a transaction never becomes pending again. A pending
  row that has expired stays dead to Payme once no call about it is in progress; the call of
  another gateway revives it. With one request at a time what Payme was told ("performed",
  "cancelled") stays true until the call of another gateway reaches the row, "cancelled"
  through Click's calls too, and the service implements `PaymentContract`, failures included.
  Without failures every completed payment has a subscription in the end.
* **Subscriptions.** Nobody is expired before the paid term and seven days of grace are
  over, and an expired row never returns, whatever is missed, cut or overwritten. Without
  failures the daily run forgets no row but one that a cancellation wrote back over it,
  and for users who do not renew early and are left alone by administrators the columns
  of `users` say what the rows say.
* **Balance.** The transaction and the conditional UPDATE make crediting exact under
  concurrent administrators and any failure. What was approved is always the balance and
  one fee for every request that took it and did not pay it back. A fee is lost, or a
  post free, only in the two ways `PayPerPost` names: a request cut after the fee, and an
  INSERT whose answer is lost. The revenue page, which subtracts sums read at two moments,
  may understate but not overstate.
* **Messaging.** While requests neither overlap nor fail the badge is never too small, and
  never without a reason but by the doing of an outsider, whose effect ends as soon as the user
  reads the conversation; it is not the number of unread messages, since every message
  is counted twice.
* **Users.** Since `balance` is not among the columns that are written back, no credit
  or fee is lost in any interleaving; a deleted row does not return; no status appears
  that nobody decided. A request that reads the row and writes it back undoes only what was
  decided while it was in progress, never what was decided before it began. Whoever waits for the review has a
  document, and its file unless that very upload was answered with an error.
* **Posts.** No view is lost or counted twice; an image shown has its file unless the answer to
  the INSERT of its row was lost; no failure leaves a file behind unless the request is cut.
* **Games.** The UNIQUE index keeps slugs apart where the handler's check cannot.
* **Administrators.** Role and permissions never come apart, although whole rows are
  written back from copies. Tokens are stored nowhere, and yet a deactivation ends
  access: a pair newer than it was made by a sign-in or a renewal that had looked at the
  account before, and while the account is off no pair is renewed, so the last one is void a refresh lifetime
  after the requests then in progress.
  An account is as it was last asked to be unless two updates of it overlapped, and the
  log has an entry for each operation done and for no other, unless the entry was lost.
* **Signing in.** Two identities enter one account only if they have the same address,
  and nobody finds two accounts or loses the way to the one there is, although first
  sign-ins overlap, lookups fail silently and rows are written back from old copies: the
  UNIQUE address is what the code rests on.
* **Rate limiter.** No sliding window holds more counted requests than the limit as long
  as nothing comes between INCR and EXPIRE, and a client is refused only for requests
  less than a window apart.
* **Listings.** A reader who follows the offsets until there is no more has seen every post
  that was there throughout, although posts are added between requests; and sees none
  twice although posts are removed. With posts added within a request, removed
  (respectively added), moved or equal in value neither holds.

## 5. Findings

Two runs expect a violation; `PROJECT.json` quotes the lines they contradict.

* **PayTwice**: two overlapping PerformTransaction calls both find the row without a
  subscription and create one each.
* **SubRenewal**: at the end of an older subscription the worker announces a grace period
  to a user whose newer subscription is in its paid term.

The following is behaviour the models contain, and the reason why some properties above
are conditional or say less than one would expect:

* `handler/post_handler.go` and `handler/admin_handler.go` write `user` and `admin` into
  `posts.deleted_by_type`, whose CHECK admits only `User` and `Admin`: the UPDATE is refused
  and no post is ever deleted (`Posts!SoftDelete`).
* No webhook handler looks at `payment_method`, and only Payme's looks at the age and the
  state of a row. Click's COMPLETE with an error cancels a completed row of Payme, which had been
  told "performed"; Click's PREPARE and the events of Xazna and Uzum take an expired row of
  Payme further; the banks' events also pay what was cancelled. Click is answered "cancelled"
  even if the UPDATE failed (`Payments!ClickComplete`). Hence `movers` in `AnswersStand`, the
  condition on the caller in `PaymeExpiryFinal`, and the moves of each gateway in
  `PaymentContract`.
* A login, a link, a profile edit and a change of status write the whole `users` row from
  a copy, so one undoes a ban, an approval or a subscription written in between; an
  upload begun before an approval sets a verified account back to pending. Hence
  `before` in `OnlyOwnColumns`.
* The file of an identity document is removed when the upload is answered with an error,
  also when the row in `kyc_documents` is saved already: the document under review then has
  no file. Hence `refused` in `ReviewHasFile`. Likewise an image whose INSERT is
  committed while its answer is lost (a client who disconnects ends the request's context):
  the handler removes the file of an image that is listed. Hence `unanswered` in `ImageHasFile`.
* Marking a conversation as read checks nowhere that the caller takes part in it: an
  outsider's call marks the messages of both users as read and resets no counter (hence
  `misled`).
* A sign-in or a renewal of an administrator reads `is_active` before it makes the tokens (in
  a sign-in the check of the password lies in between): one that is in progress at a deactivation
  still gets a pair (`Admins!GenerateAdminTokens`). Hence `vouched` in `AccessEnds`.
* A message that arrives while the conversation is being marked as read is unread with a
  counter of zero; a conversation that was deleted stays hidden when it is started again.
* The grace period is announced as three days and enforced as seven; a revoked user whose
  subscription row is still active gets access again with the grace period; a granted
  subscription has no row and is never ended.
* The commands of the rate limiter's pipeline are not executed as one: a key that expires
  between them loses its count. Hence `split`.
* The fee of a post is lost when the process stops before the refund.
* An account made with an Apple identity without address has the empty string in
  `users.email`, which is UNIQUE: there can be one such account, and everybody else's
  first sign-in of this kind ends with an error (`Identity!Create`). Nobody ever gets
  into the other's account, since the empty address is not looked for.
* A lookup that fails counts as one that found nothing, so a sign-in goes on to create
  an account, an administrator an administrator's account or a game; the UNIQUE columns
  refuse it (`Identity!FindByProviderID`, `Admins!CheckEmail`, `Games!CreateGame`). Payme's
  CreateTransaction goes on likewise (`Payments!PaymeCreateTransaction`).
* The public listing turns its offset into the number of a page: an offset that is not a
  multiple of the limit selects rows from before it, and since the answer announces
  the next offset from the one it was given, the last rows may never be shown. Hence
  `Aligned` in `WalkSeesAll`.
* An update of an administrator that leaves `is_active` out writes back the value it
  read, which undoes a deactivation that came in between (`mixed`); nothing keeps the
  last super administrator from deactivating or demoting the own account.
* The users' route `/auth/refresh` renews the tokens of administrators as well
  (`Admins!RefreshTokenAsUser`), and a logout changes nothing but the log.

## 6. Proofs

Every property of the passing runs is also a theorem, with the one exception named at the
end of this section. `PROJECT.json` lists the theorems; this section says from which
assumptions they follow and along which argument.

**`PaymentsProofs`**, for every number of checkouts, users, requests and
subscriptions, with or without failures, from the two named assumptions of
`Payments` (the gateways in use are among the four, `None` is none of the ids):

* `TypeCorrect == Spec => []TypeOK`
* `NoUnpaidSubscription == Spec => []GrantedOnlyIfPaid`
* `LinksAlwaysConsistent == Spec => []LinksConsistent`
* `NeverPendingTwice == Spec => NeverPendingAgain`
* `PayersEntitled == Spec => []EntitledWhenQuiet`
* `ExpiredStaysDead == Spec => PaymeExpiryFinal`
* `AnswersStandAlone` (`Spec => []AnswersStand`) and `ContractKept`
  (`Spec => ImplementsContract`), for any gateways, if at most one request is in progress
  at a time (`OneAtATime`)

The condition is that of the run PaySerial, and it is needed: PayTwice shows what
happens without it.

The safety properties are not inductive: what a request writes comes from its copy.
`IInv` therefore adds `RowsOK` (a row exists as a whole, and a payment in the
history has a row) and `RequestOK` (what the copy may contain at each program
counter: a request that has decided never carries the pending status, one past its
completing UPDATE has its row in the history, and the subscription id it carries
belongs to its own row). `HInv` adds what rows and requests remember of the past
(`HistoryOK`); `EInv` that whoever paid is entitled already or some request is on its way
to that, and will not stop unless a call fails (`EntitledOK`); `SInv` that, while requests
follow one another, the row is still as the decision to write it found it (`CopyOK`) and
that what gateways were told is what it says, unless a gateway that may say otherwise has
written it since (`ToldOK`). The proof has one lemma
for each database call and each gateway (`InitiateStep`, `PaymeStep`, `UpdateRowStep`,
`LinkStep`, ...), on top of lemmas about the building blocks (`ReportStep`,
`RequestStep`, `IdleStep`, `DecideStep`); for the contract, each step is one of
`PaymentContract` or a stutter (`ContractOpen`, `ContractUpdate`, `ContractGrant`).

**`SubscriptionsProofs`**, for every number of users and subscriptions, every term
and every horizon, from the two assumptions of `Subscriptions` (the bounds are natural
numbers, `None` and `Granted` are no ids):

* `SubscriptionsTypeCorrect == Spec => []TypeOK`
* `GraceAlwaysServed == Spec => []GraceServed`
* `ExpiredStaysExpired == Spec => ExpiredIsFinal`
* `TermsAlwaysEnforced == Spec => []TermsEnforcedDaily`
* `AccessAlwaysMatches == Spec => []AccessMatchesRows`
* `PaidTermAlwaysHonoured == Spec => []PaidTermHonoured`

The hazard is that the worker and the cancellations write back copies read earlier in
the day. `IInv` says which copies there can be: grace begins after the end of the term
and expiry comes a full grace period later (`RowsOK`); a row with a cancellation at
work, like one in the list of the first phase, is `Fresh`, that is active or moved to
grace today (`CancelOK`, `GraceCopyOK`); a row in the list of the second phase is not,
so nobody else can write it and the copy is still the row (`ExpireCopyOK`). That a
request does not outlive its day is an abstraction of the module, and the argument
rests on it: a cancellation suspended for a week between its read and its write would
bring an expired row back.

The last three properties hold only while nothing has failed, and for users nobody has
interfered with. `CopyInv` adds that no copy has a wrong owner or end; `DayOK` that a
late row is in the worker's list or the worker has still to look for it; `UserOK` that a
user holds one subscription and the users row follows it, but for the moments in which an
activation or the worker has still to write that row (`FullInv`).

**`BalanceProofs`**, for every number of administrators, top-ups and posts, all
amounts and any fee, from the four assumptions of `Balance` (the fee and the amounts are
positive, `None` is no id, and the users are finitely many, without which the revenue page
would sum an infinite table):

* `CreditedExactlyOnce == Spec => []CreditedOnce`
* `TypeCorrect == Spec => []TypeOK`
* `BooksAlwaysBalance == Spec => []BooksBalance`
* `RevenueNeverOverstated == Spec => RevenueNotOverstated`
* `PurchaseInOneStep == Spec => ImplementsPayPerPost`

For the first, the invariant adds that an administrator at work holds a pending top-up
that no other holds (`Locked`), which is what `SELECT ... FOR UPDATE` gives. The others
are about sums, and a sum is defined by recursion. The library's induction theorems take
a predicate as their parameter, which the provers cannot instantiate; `FiniteInduction`
takes the *set* of what satisfies it instead and follows from the existence of a minimal
counterexample (`WFMin`). From it come the lemmas on sums (`SumAnyFirst`: any element may
be taken first; `SumAdd`, `SumEqual`, `SumLeq`, `SumType`). `BooksInv` then adds that top-ups and
requests in progress belong to users (`OwnersOK`), that there are finitely many of them at
any time (`FinitelyMany`, which is shown, not assumed), that no post is there before its
INSERT (`NotYetPublished`), and that what the first query of the revenue page summed has
not become less (`SummedBefore`). The refinement has one lemma for each action of
`PayPerPost` (`RequestStep`, `ApprovedStep`, `PublishStep`, `GiveAwayStep`, `LoseStep`, ...)
and three for the steps it does not see, in which a fee moves between the balance and a
request (`DeductedStep`, `RefundStep`, `PaidBackStep`).

**`MessagingProofs`** proves `TypeCorrect`, `BadgeAlwaysCovers == Spec => []BadgeCoversUnread` and
`BadgeAlwaysHasReason == Spec => []BadgeHasReason` for every number of messages, from
`TwoUsers` and `NoneAssumption`. The properties speak of quiet moments; the invariant says
what holds in between while requests do not overlap: one of them is at work (`SerialOK`), the
message it sends is not yet read, and nobody sends to a user who is reading
(`HandsOff`), so the counter lags behind by one message at most (`CoverOK`, and `ReasonOK` for
users who are not `misled`).

**`AdminsProofs`**, for every number of accounts and requests, lifetimes and bounds,
from `BoundAssumption`, `ReqsAssumption` (finitely many requests, so that log entries can
be counted) and `NoneAssumption`:

* `TypeCorrect`, `PermissionsAlwaysFollowRole`, `AccessAlwaysEnds`, `LastWordAlwaysCounts`
  and `LogAlwaysTellsTruth` of `Admins`,
* `ConsoleAccountable`: the same four properties of `ConsoleSpec`,
* `CatalogueImplemented == ConsoleSpec => Catalogue!Spec`, and from it
  `GamesTypeCorrect` and `SlugAlwaysUnique == ConsoleSpec => []SlugLeadsToOne`, for any two
  slug functions (`SlugAssumption`).

The invariant says what requests carry: a row that is about to be written has the
permissions of its role (`CarriesRow`), differs from the account only where the form says
so unless updates overlapped (`CopyFresh`), and a request that is about to make tokens
looked at the account before it was deactivated (`CarriesTokens`, `VouchedBefore`). `LogTellsTruth` has lemmas of its own for the
ways in which the number of requests before their log entry changes. For the catalogue only
the shape of what a request carries is needed (`FormsOK`); the check the handler makes
before it writes plays no part.

**`IdentityProofs`** proves `TypeCorrect`, `StrangersNeverMeet == Spec => []NoStrangers` and
`OneHomeForGood == Spec => []OneHome`, for all identities, accounts and requests, from
`ProviderAssumption` and `NullAssumption`. Every account has an owner, the identity it
was created for; no variable holds it, and rows are deleted, so the invariant is that an
assignment of owners *exists* with which everything stored, copied or handed out
agrees. Steps keep the assignment, but for `Create`, which extends it. The uniqueness of the
address is used, that of the provider ids is not. That `SignIn` implements both its parts
is proved too (`SignInImplementsIdentity`, `SignInImplementsLimiter`), which carries the two
properties over (`SignInSafe`).

The same module proves, for every limit, window and number of requests,
`NeverOverLimit == SignInSpec => []AtMostLimit` and
`OnlyTheBusyRefused == SignInSpec => []RefusedWhenBusy`. `LimiterInv` relates the counter,
which Redis forgets, with the log, which is never forgotten: what passed less than
a window ago is counted in a key that lives until the last of it is a window old
(`RecentOK`), and without failures the counter stands for the last entries of the
log, none of which paused (`StreakOK`).

**`UsersProofs`** proves `TypeCorrect`, `BalanceAlwaysKept`, `NothingEverInvented`,
`DeletedStaysDeleted == Spec => DeletedIsGone`, `ReviewAlwaysHasFile` and
`RequestsKeepToTheirColumns == Spec => OnlyOwnColumns`, from `BoundAssumption` and
`NoneAssumption`. `IInv` says of every copy, however old, what `NothingInvented` says of
the row (`Declared`), and that a row which is gone reads as a fresh one. Two extensions serve
the last two theorems. `FInv` says which copies are up to date: a column in a request's
copy is the row's unless the request is among those the last change of it found in
progress (`Fresh`). `DInv` says that an account waiting for review, in the row
or in a copy that may be written back, has a document whose file only its own upload can have
removed (`PendingOK`).

**`PostsProofs`** proves `TypeCorrect`, `ViewsAlwaysExact`, `ImagesAlwaysHaveFiles` and
`NoFileStrays`, from `BoundAssumption`, `NoneAssumption` and `ImagesAssumption` (finitely many
images, since positions count them). The invariant adds that a file a request has in
hand is on disk, has no row and is no other request's (`Held`, `Distinct`), so that the only
file of a row ever removed is one whose INSERT was left unanswered, and how far a request has
come with its files (`Progress`).

The same module proves `WalkTypeCorrect`, `WalkSeesEverything == WalkSpec => []WalkSeesAll` and
`NothingTwice == WalkSpec => []NoRowTwice` of `Listing`, for any number of posts (finitely
many: `PostsAssumption`), every limit and every offset (`LimitAssumption`). The key
is `PlaceIsRank`: while no two rows tie, the row at place i of any order the database may
choose has exactly i - 1 rows before it, so a page shows the rows of a range of ranks.
Rows that come only raise ranks and rows that leave only lower them; so what the
reader should still see stays at her offset or behind it (`StillAhead`), and what she has
seen stays before the page to come (`AllBehind`).

**Only model-checked**: the liveness property `PaidIsHonoured`, since TLAPS does not prove
liveness under fairness.

## 7. Not modelled

* **Reports**: the schema wants `target_model` 'Post' or 'User' and a hash of 32
  characters, the handler writes lower case and 64, so no report can exist. A model
  would describe operations on an empty table.
* **Notifications**: single statements, best effort.
* **Redis cache**: constructed, not used. **Face service**: not called.
* **Errors, other middleware, router, configuration, tools**: no state. Of the seeds only
  the first super administrator matters (`Admins!Init`).
* Inside modelled components: `ActivateFromTransaction`,
  `IncrementPostsCount` and `DecrementPostsCount` (no caller), the read-only calls
  of the gateways, listings other than those of posts; signatures and passwords, which
  are right or end the request; the deletion of an account is in `Users` only, its
  cascade to the other tables is not.
* A statement that is answered with an error has no effect, except where the code acts on
  the error as if that were certain: the INSERT of a post (`Balance`), of an image (`Posts`)
  and the two statements of an upload (`Users`) may be committed while their answer is lost.

## 8. Plan

1. Done: Payments with contract, Subscriptions, Balance with contract, Messaging, Users,
   Posts, Games, RateLimiter, Admins and Console, Identity and SignIn, Listing; proofs of
   all of them.
2. Next modules: reports once the schema fits; the cascade of an account's deletion over
   `Balance`, `Messaging` and `Posts` as a composition.
3. Next proofs: a contract for payments whose requests overlap, weaker than
   `PaymentContract`, and its refinement by `Payments`; the properties of the composition
   named in 2.
