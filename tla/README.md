# Kladd: a TLA+ verification project

Kladd lets an organization ask a user for proofs ("truths"); the user approves
with a Security PIN, which releases a temporary *claim* that anyone holding its
link or a short exchange PIN can verify until it expires or is revoked.
Organizations hear about claims through signed webhooks. The program is a Go
service and five command-line tools over one PostgreSQL database, with a Next.js
page in front. Paths below are relative to the repository's `src/backend/internal`
unless they start otherwise.

All shared state is in the database. A handler is a sequence of statements and
transactions; between them it keeps what it read in local variables. What is
hard in this program is therefore what happens between one handler's
transactions: other handlers' transactions, the clock, and the end of the
process. One modelling decision follows everywhere: **a transaction is one step;
a read outside it, a clock reading and a network call are steps of their own.**
Transactions run at READ COMMITTED and each of those modelled locks, with
`FOR UPDATE` or by its `UPDATE ... WHERE`, the rows it decides on and holds them
to its commit, so a transaction takes effect at one instant.

## Inventory

| Component | State | Operations | Interacts with | Hard behaviour | What makes it correct |
|---|---|---|---|---|---|
| `securitypin` | `users`: PIN hash, failed attempts, lock | Validate (read, compare, record), Setup, Reset | called by `claimrequests.Approve`; writes `audit_logs` | read-compare-write without a lock; slow bcrypt; calls that stop half way | every wrong PIN counts; the limit locks; a lock ends; only a new PIN or a right one clears it |
| `claimrequests` | `claim_requests`, `consents`, inserts `claims` | Create, Approve, Deny, lists | PIN validation; outbox; audit; organizations | look, validate PIN, then decide in a transaction; two decisions in flight | decided once; a claim and a consent exactly for an approved request |
| `claims` | `claims`, `claim_exchange_pins` | Revoke, ExpireDue, CreateExchangePIN, ResolveExchangePIN, GetStatus, lists | outbox; audit; verify page | expiry by clock and by a sweep; revocation against expiry; responses from old reads | one end, announced once; nothing shown after it; every verification audited |
| `webhooks` | `webhook_deliveries`, `organization_webhook_endpoints` | EnqueueClaimEvent, DeliverPending, ConfigureEndpoint, lists | inserted by claim transactions; HTTP endpoints | overlapping and interrupted runs, lost answers, retries, LIMIT | at least once; recorded successes stay; bounded backoff; no starvation |
| `cmd/expireclaims`, `cmd/deliverwebhooks` | none | one run each, with a 30 s / 60 s context | `claims`, `webhooks` | may overlap; may be cut off; nobody guarantees the next run | as above |
| `orgauth`, `cmd/orgkey` | `organizations`, `organization_api_keys` | register, login, issue key, authenticate | shares the upsert by name with `claimrequests`, `webhooks`, `cmd/webhookendpoint` | upserts that overwrite another writer's columns; a request acts on an organization read a transaction earlier | one organization a name, settled by its first use; what is written for a name belongs to whom was authenticated |
| `users`, `auth` | `users`, `audit_logs` | register, login, verify token | router | unique e-mail under concurrent registration | one user an e-mail; each login audited |
| `evidence`, `evidencereview`, `cmd/reviewevidence` | `evidence_items`, files | upload, request review, review | local storage | file and row are not one transaction; review from any status; audit rows sort by the start of their transaction, not by its commit | a row has its file; no request undoes a review; the trail tells the status, up to transactions that overlapped |
| `migrations`, `cmd/migrate` | `schema_migrations`, the schema | Apply | database | concurrent and interrupted runners | each file applied once, in order |
| `truths`, `audit` | read-only views | list | | | |
| `config`, `database`, `server` | none | start-up, routing, authentication, error mapping | all services | | a handler calls its service after authentication |
| frontend (`src/frontend/src/app`) | React state, `sessionStorage` | sign in/out, one handler a button | API | answers that arrive after the session changed | the page shows one session's data |

`PROJECT.json` lists under `hazards` each place where this code is hard to test,
with the properties that cover it, or a note that says why none does.

## Modules

| Module | Models | Composes |
|---|---|---|
| `PinLockout` | `securitypin`: one user's row, handlers in steps | refines `PinPolicy` |
| `PinPolicy` | what the PIN row promises, validations atomic | |
| `PinLockout_proofs` | theorems about `PinLockout` | |
| `ClaimLifecycle` | `claimrequests`, `claims`, `cmd/expireclaims`, what they put in the outbox and the audit trail | refines `ClaimContract` |
| `ClaimContract` | what Kladd promises about a request and its claim | |
| `ClaimLifecycle_proofs` | theorems about `ClaimLifecycle` | |
| `RequestDuration` | the 64-bit arithmetic of a request's `DurationDays`; theorems only | |
| `WebhookDelivery` | the outbox after enqueueing and `cmd/deliverwebhooks` | refines `DeliveryContract` |
| `DeliveryContract` | what the outbox promises for each row, with and without overlapping runs | |
| `WebhookDelivery_proofs` | theorems about `WebhookDelivery` | |
| `Approval` | `claimrequests.Approve` end to end, with everything else that happens to the PIN or the request meanwhile | composes `PinLockout` and `ClaimLifecycle` |
| `Approval_proofs` | theorems about `Approval` | |
| `ApprovalOutcome_proofs` | the theorems of `PinLockout` and `ClaimLifecycle` within `Approval`, and what follows from both | instantiates their proof modules |
| `Accounts` | `users`, `auth`, `orgauth`, `cmd/orgkey`, `cmd/webhookendpoint`, the upsert of organizations | refines `AccountContract` |
| `AccountContract` | what Kladd promises to organizations, acting as one of them in one step | |
| `Accounts_proofs` | theorems about `Accounts` | |
| `Evidence` | `evidence`, `evidencereview`, `cmd/reviewevidence` | |
| `Evidence_proofs` | theorems about `Evidence` | |
| `MC...` | symmetry for TLC, one for each module that is run | |

In each module a definition that differs by one slip from the definition after
it (`IsLockedOffByOne`, `OpenWhateverDecided`, ...) is a mutant. No action uses
it. `PROJECT.json` names, for every property of every passing run, the mutant
that makes it fail.

### PinLockout

State: the four columns of `users` that matter, the local variables of each call
(`call`), the number of audit rows of each kind, and two history variables
(`wrongAnswers`, `lastWrongAt`) that no action reads. `ValidationService.Validate`
is three steps, as in the code: `GetValidationState` (a SELECT), `Decide` (a
missing PIN, the lock, the clock and the comparison, all on the row as it was
read) and `RecordValidationFailure` or `RecordValidationSuccess` (a transaction
that writes values computed from that row). `SetPIN` is Setup, `CheckPassword`
and `ResetPIN` are Reset. `Lose` ends a call anywhere. A hash is named by the PIN
it was made of; text that is not 4 to 6 digits is the one value `Malformed`. The
nullable lock is 0 for NULL, and the clock starts at 1.

`Concurrent` says whether two calls of the user may be in flight together. The
code does nothing to prevent it, so `TRUE` is the program; `FALSE` is what the
same code would give if it did, and shows that overlap is the only thing wrong.

### ClaimLifecycle

State: the six tables. A claim is named by the call that issued it and an
exchange PIN by the call that drew it. `Approve` is four steps: the unlocked look
(`BeginApprove`), the PIN (`ValidatePIN`, any answer, see `PinLockout`), the
reading of `ApprovedAt` that ends it, and the transaction (`Approve`). `Deny` is
a look and a transaction; `Revoke` and `CreateExchangePIN` read their time and
then lock the claim. A run of `expireclaims` is `StartSweep` (its clock) and
`ExpireDue` (one transaction for all due claims). A verification reads the claim
(`GetStatus`, `ResolveExchangePIN`), commits its audit row (`AuditRetrieval`) and
is answered by `sanitizeClaim` with a clock of its own (`Respond`). Truth values,
scopes, purposes, organizations and session data are not modelled; nor are
duplicate random PINs or ids, which fail on a unique index and are `LoseCall`.

### WebhookDelivery

State: the rows of the outbox, the organizations with an endpoint, the local
state of each run, and which rows an endpoint has received. A row is numbered by
its place in the order of `created_at` (ties are broken arbitrarily but always
alike). Only differences of time matter, so a row holds the minutes until it is
due and a run the minutes since it read its clock; no clock is bounded and the
liveness checks are about behaviours that really go on for ever. `Send` may
reach the endpoint or not and its answer may be lost. A run cannot outlive
`RunTimeout` (its 60 s context). Reading the clock and listing are one step: the
clock is read immediately before the query and counts in minutes.

### Approval

`ClaimLifecycle` lets a PIN validation answer anything; `PinLockout` lets a call
validate at any time. `Approval` puts the two together as `claimrequests.Approve`
does: over one clock and one set of calls, `Pin == INSTANCE PinLockout` (a call's
part in it is `pinCall`, its audit rows `pinAudit`) and `Claims == INSTANCE
ClaimLifecycle`. A validation starts only in a call that has found its request
open (`StartValidation`), its three steps run while that call waits (`Validate`),
and the approval goes on only with its answer (`EndValidation`: any error of
`Validate` ends it). Meanwhile other calls set or reset the PIN (`ChangePIN`),
deny, approve, revoke, share or retrieve (`DecideOtherwise`), and runs of
`expireclaims` go on (`Sweep`). A call that is lost is lost with its validation
(`LosePIN`) or after it (`LoseCall`).

### Accounts

State: `users` by e-mail, `organizations` by name, the keys, requests and
endpoints written for an organization, the audit trail, the tokens that clients
hold (`sessions`) and each call's local variables. A row is named by the call
that inserted it. Four places write `INSERT INTO organizations ... ON CONFLICT
(name) DO UPDATE SET organization_type` (`Upserted`): a user's request
(`CreateForUser`), an organization's own request (`CreateForOrganization`), an
endpoint, from the settings page or the command (`ConfigureOwnEndpoint`,
`ConfigureByCommand`), and a new API key (`IssueAPIKey`). An organization's own
calls are authenticated first (`AuthenticateOrganization`) and write back the
name and type they read then; `FindUser`, the lookup of the user by e-mail, lies
in between. `Login` is three steps: credentials and token (`FindCredentials`), the
audit row (`RecordLogin`), the answer (`AnswerLogin`). A password matches or does
not; a token or key that has run out is a call that is lost or never made. No
code revokes a key, so no action does. `last_used_at` and key names are left out.

### Evidence

State, for each upload: its file, the status of its row, its audit rows, how many
transactions on it have begun, and how far each call has come. `evidence.Create`
makes the file (`OpenFile`), copies the upload into it (`CopyFile`) and inserts
row and audit row in one transaction (`InsertItem`); a call may stop anywhere
(`Lose`). A request for review and a review are two steps each: the transaction
begins (`BeginRequest`, `BeginReview`), and its UPDATE gets the row of the item
and commits (`RequestReview`, which only an uploaded item matches, and `Review`,
which writes what the operator typed over any status). Transactions overlap
between the two.

The trail is a set, as nothing stores the order of the commits. An audit row's
`created_at` is `NOW()`, the start of its transaction (`at`: how many transactions
on the item had begun, this one included), and the trail is read in that order. A
review that began first and waited for a request at the row commits last and
sorts first, so the newest row need not tell the status. What the code does
promise is stated with one more field that is history: how many transactions had
begun when the row was committed (`committed`). One row precedes another if its
transaction was over when the other's began (`Precedes`), and `TrailTellsStatus`
only speaks of rows that precede each other. `requested_at` and `reviewed_at`, texts
in the metadata with seconds, are left out.

The end of the process is modelled, the loss of power is not: the code does not
sync the file and ignores what `Close` returns, so an answered upload may then
lose its bytes.

## Runs

Bounds are the constants of each `.cfg`; a call is one handler invocation, a time
unit is arbitrary (a minute in `WebhookDelivery`).

| Run | Bounds | Shows |
|---|---|---|
| `pin_serial` | 4 calls, 2 PINs, limit 2, lock 2, clock to 5, one call at a time | `CounterExact`, `LockoutRule` and the refinement of `PinPolicy`: without overlap the code does what the policy says, also when calls are lost between steps |
| `pin_concurrent` | 4 calls, clock to 4, overlap | `LockIsEarned`, `LockEndsInTime`, `LockLiftedOnlyByStaleOrNewPIN`: what survives any interleaving |
| `pin_lost_update` (violated) | as above, 1 PIN | overlapping failures are counted once; the lock rule of `CONSENT_AND_APPROVAL_SPEC.md:18-19` fails |
| `claim_races` | 1 request, 4 calls, 1 expiry run, a duration of 3, exchange PINs for 2, clock to 5 | all safety properties and the refinement of `ClaimContract` |
| `claim_expiry` | 2 requests, 2 calls, 2 expiry runs, durations of 1 and 2, clock to 3, with fairness | `DueClaimsEnd`; one run that ends several claims, and overlapping runs |
| `webhook_serial` | 2 rows, 2 organizations, 1 run at a time, limit 2, delays 1, 2, 3, with fairness | `SuccessesStayMarked`, `SendsOnlyDue`, `HealthyOrgHears`, and the refinement of `DeliveryContract` with `Alone` true |
| `webhook_overlap` | the same, 2 overlapping runs | `DeliveredWasReceived`, `BackoffBounded`, and the refinement of `DeliveryContract` with `Alone` false |
| `webhook_mark_lost` (violated) | 1 row, 2 runs | a delivered row becomes pending again, against `API_CONTRACT.md:249` |
| `webhook_starved` (violated) | 2 rows, limit 1, with fairness | a healthy endpoint is never served, against `API_CONTRACT.md:249` |
| `approval` | 4 calls, 2 PINs, 1 request, 1 expiry run, limit 1, lock 1, durations of 1 and 2, clock to 2 | `ReleasedByOwnPIN` and `DisclosedByConsent`: who is shown the details of a claim, by its link, a list or an exchange PIN, is shown them on a request that was approved, consented to and had a validation of its own |
| `accounts` | 5 calls, 2 names, 2 e-mails, 2 types | `OwnershipSettled`, `AccountsAsRegistered`, `AttributedToCaller`, `SessionsAudited`, `TypeWasGiven`: who has a name, an account, a session or a row, however registrations, logins and upserts race; and the refinement of `AccountContract` (`ActsWhenAdmitted`) |
| `evidence` | 5 calls | `ItemHasFile`, `TrailTellsStatus`, `ReviewStands`: interrupted uploads, and requests for review and reviews whose transactions overlap |

Why the bounds are enough. Four PIN calls are a setup and three validations: two
to reach the limit and one beyond it, or three that overlap. The limit of 2 is
the least that separates "one lost failure" from "none". Four claim calls are
the one that approves and three more, so any two operations race while a third
watches; the clock reaches the end of a request made at time 1 or 2. An exchange
PIN made in the first unit of its claim ends after its own 2 units, one made in
the last ends with the claim, so that both bounds of its life bind. Two rows and
a limit of 1 are the least in which one row can hide another; delays of 1, 2 and
3 keep the order of 1, 5 and 15 minutes. Four calls of `approval` are one that
sets the PIN, one that approves, one that shares the claim and one that resolves
the exchange PIN, or after the first two a rival approval, a denial or a new PIN
and somebody who looks at the claim; with a limit of 1 one wrong PIN locks, and
a clock to 2 lets a request and its claim end. Five calls of `accounts` are a
registration, a login, a request of the organization that signed in, and two
others that use its name in between; five of `evidence` are an upload and two
requests and two reviews of it. What does not depend on a bound is proved
(below).

Deadlock is not checked (`CHECK_DEADLOCK FALSE`): calls are one-shot and the
clocks of `PinLockout`, `ClaimLifecycle` and `Approval` are bounded, so a finished
instance rightly stops. `WebhookDelivery` never stops; its `Tick` is always possible when no run
is active.

Symmetry is used where the run has no liveness property and the set's elements
are interchangeable: calls, PINs, requests, names, e-mails, expiry and delivery
runs. Types are not: one of them is the default.

## Fairness

* `ClaimLifecycle!SweepsContinue`: the operator keeps running `expireclaims`
  (weak fairness of `StartSweep`), and of endlessly many runs not all are lost
  (strong fairness of `ExpireDue`). The README of the backend documents the
  command as the sweep to be run; nothing in the code schedules it. No API call
  is assumed fair.
* `WebhookDelivery!Fairness`: time passes, the command is run again when it has
  ended and rows are due, its statements take effect; a healthy endpoint that is
  asked for ever answers success for each delivery some time (strong fairness of
  `HealthyAnswer`); from some time on runs are not cut off. The last is an
  assumption about the operator, and needed: six sends that hang for 10 s use up
  the 60 s of a run, so with runs cut off for ever even a large limit starves.

## What is proved

See `theorems` in `PROJECT.json`; `tlapm` checks every proof to the last leaf.
The theorems hold for every number of calls, PINs, requests, rows and overlapping
runs and for every limit, delay and duration, under the `ASSUME`s named in the
modules.

`PinLockout_proofs`. `TypeCorrect`: by cases on the actions. For the lock the
properties alone are not inductive, because the values a failure writes come from
the caller's snapshot: `LockInv` adds `SnapshotOK`, that a call's snapshot was
itself a lawful row (counter at most the audited failures, lock exactly at the
limit, times not in the future). From it follow `LockEarned`, `LockTimely` and
`LockLifted`. With one call at a time, `SerialInv` adds that the call in flight
holds the row as it still is; from it follow `SerialCounterExact`,
`SerialLockoutRule` and `SerialAtomic`, the refinement of `PinPolicy`.

`ClaimLifecycle_proofs`. The properties are proved in layers, each resting on the
one before:

1. *Types* (`TypeInv`): `TypeOK`, and `Targeted`, that a call at a stage works on
   a request or a claim as its stage says, without which the tables a step writes
   could not be typed. `TypeCorrect`.
2. *What calls know* (`CallInv`). A handler decides from rows it read in an
   earlier step, so no property of a response is inductive by itself. `Persist`
   says what steps do to a row of `claims`: it is inserted once, by a call that
   then is done (`Unissued`), and never becomes active again. `Knows` says what a
   call may therefore still believe: its claim exists, a revocation or an exchange
   PIN is dated after the issue, and a late retrieval holds a row that is past its
   end. `Lifetimes` dates issue and expiry. From it `ExchangePinBounded` and
   `DetailsProtected`.
3. *The books* (`BookSteps`: only five kinds of step write requests, claims,
   consents and the outbox). `ReleasedOnceApproved` is inductive with `CallInv`;
   `StoryTold` is proved event by event (`Told`); `StoryInOrder` needs the dates
   of layer 2, as each event carries a time read before its transaction.
4. *The audit trail*: `RetrievalsAudited`, from `AuditInv`, that a call that
   is to respond already has its audit row.
5. *The contract*: `HandlersImplementContract`. `MapFacts` shows that the mapping
   is well defined (an approved request has one claim, so `ClaimOf` is it) and
   `StepContract` maps the transactions of decisions, revocations, sweeps and the
   clock to steps of `ClaimContract` and everything else to stutters.

`WebhookDelivery_proofs`. `TypeCorrect` needs that a batch that is not empty has a
first row, which is the well-foundedness of the natural numbers. For overlapping
runs `DeliveryInv` adds `AnswersReceived` (a run about to record a success has
had its row received) and `ListingsPast` (a listed row has by now at least the
attempts that were listed, so a delay computed from the listing is never too
long); from it `NeverMarkedOnHope` and `RetriesInTime`. For one run at a time
`SerialInv` adds that listed rows stay pending and due and are listed once; from
it `SerialSuccessesStay` and `SerialSendsDue`. The violated run
`webhook_mark_lost` shows that `OneRun` cannot be left out.

`RunsKeepContract` is the refinement of `DeliveryContract`, in which there are no
runs. The contract has a constant, `Alone`: true, a row is touched only while it
is pending and due and its delay is that of this very attempt; false, what is
left is that only a reachable row is sent, that none is called delivered that was
not received, and that a delay is that of one of the row's own attempts. The
theorem covers both, with `Alone` true exactly when there is one run at a time.
`ContractInv` adds to the invariants above that listed rows have an endpoint
(`ListedReachable`; endpoints are never taken away), that a row not yet enqueued
has no attempts (`NoneUntried`), and, for one run, that the attempts listed are
still those of the row (`ListedExactly`), which makes the delay exact.

`RunsTakeOldest` says what `ORDER BY created_at LIMIT 25` does to the rows that
are due: a run that starts takes at most `Limit` of them, and leaves one out only
if it is full of older ones. It rests on `OldestFirst`, a lemma about the operator
for every finite set of rows (by the least and the greatest element, as induction
over finite sets is out of the prover's reach). It is why `webhook_serial` needs
a limit that every due row fits in and `webhook_starved` fails without.

`Approval_proofs`. `Approval` is made of the actions of its two modules, so that
it implements them says nothing about the code; `PinImplemented` and
`ClaimsImplemented` are lemmas, by which what is proved of the modules is known
of the composition. `OwnPINReleases` needs what neither module knows of the
other (`Coupled`): a validation runs only in a call that waits at its PIN, a
reset only in a call that does nothing else, and all other calls have no PIN. So
the calls past a right PIN grow by one step only, which also logs a success;
counting them is `FS_AddElement` and `FS_Subset`.

`ApprovalOutcome_proofs` draws the conclusions. It instantiates the proof modules
of `PinLockout` and `ClaimLifecycle` with the variables of `Approval`, shows that
their constants satisfy the assumptions there and that the instances define the
same behaviours, and restates their theorems for the composed system:
`PinLockInApprovals`, `LockHoldsInApprovals`, `ClaimBooksInApprovals`,
`ContractInApprovals`. `DisclosureAuthorized` needs all three modules: a call
that shows details has read a claim that was issued (`CallInv`), an issued claim
has an approved request and a consent (`ReleaseMatchesDecision`), and the call
that issued it had a validation of its own (`ReleasedByOwnPIN`).

`Accounts_proofs`. What a step of a call does to rows that are there, what rows
it adds, and what the call holds afterwards is said once (`Effect`) and proved
action by action; the four upserts are one case. `OwnersStay` is part of it. The
other theorems rest on `OwnInv`: rows are named after calls that are done, and
the organization a call holds still has the name it read, which is why an upsert
by name returns the id that was authenticated (`FiledNow`). To that
`RegisteredAccounts` adds that registrations are logged by calls that are done,
`SessionsLogged` that a call about to answer has logged its login and that no
organization ever becomes a user, and `TypesGiven` that also a type on its way
back to the table was given by somebody.

`HandlersActWhenAdmitted` is the refinement of `AccountContract`, in which whoever
acts as an organization is admitted to it in the very step that writes. Two
transactions with anything in between become one step because admission is never
taken back (`CredentialsGrow`, `CallersAdmitted`), ownership of a name is settled
(`OwnersStay`), and as whom a row was written does not change, its call being done
(`AsStill`). That a new organization or a user's login admits nobody to anything
needs that a token or a key belongs to a call that is done (`CredentialsOfDone`)
and that no organization is named after the call that made a user.

`Evidence_proofs`. `FileInv` says what each stage of an upload has left on the
disk and in the table; from it `TypeCorrect` and `ItemsKeepFiles`. For
`TrailTold` `TrailInv` adds that no row is dated after its commit or after now
(`Dated`), that a call in a transaction began after its item was there
(`BegunAfter`), that there is a request in the trail only of an item that is no
longer `uploaded` (`Unreviewed`), and that a row that tells the status was
committed last (`ToldLast`); the last is history, and gives that no row follows
it. `KeptTrail` and `WrittenTrail` say what passing time and one more row do to
an item. `ReviewsStand` is an action property from `FileInv`.

`RequestDuration`. `expires_at` is now plus `time.Duration(DurationDays) * 24 *
time.Hour`, in 64-bit nanoseconds. TLC's integers have 32 bits and the wrap has no
smaller instance with the same outcome, so the module has theorems and no run, in
ticks of 2^13 nanoseconds, of which an hour is a whole number and which keep the
numbers within 2^51. `WrappedUnique` says that the int64 which differs from a
number by whole words is the one it wraps to; the rest is arithmetic. Up to 106751
days a request lives as long as it was asked for (`LifetimeExact`), up to 213503
it does so or is refused by the table (`GrantedAsAsked`), 213504 days are accepted
and last 25 minutes (`FirstTooShort`), and in no case is a created request's life
empty or longer than asked for (`CreatedLives`), which is what `ClaimLifecycle`
assumes of `Durations`.

Only model-checked: liveness (`DueClaimsEnd`, `HealthyOrgHears`), which the
prover cannot treat. All other properties of the passing runs are theorems, the
contracts included.

## Where code and documents differ

Three differences are runs that TLC finds violated (`findings`): failures that
overlap are counted once, a delivered webhook turns pending again, and a healthy
endpoint starves. Others were met while reading the code; they are visible in the
model or outside it and no run is spent on them:

* `securitypin.SetupService` replaces a PIN that exists without the password,
  while `CONSENT_AND_APPROVAL_SPEC.md:15` says "PIN reset requires account
  re-authentication". `SetPIN` models it.
* No `claim.denied` event is ever queued, though `API_CONTRACT.md:220` lists it
  (`Deny` leaves the outbox alone).
* Lists of claims and a user's own claim are read without an audit row (`List`),
  though `SECURITY_AND_ACCESS_RULES.md:32` says "all retrievals logged".
* The unique indexes of name and of e-mail are told apart by nobody: a name that
  a request, a key or an endpoint has used can never be registered, and the answer
  is "organization email is already registered" (`orgauth/orgauth.go:26`,
  `orgauth/postgres_store.go:139`). `RegisterAccount` with `Taken` models it.
* `IssueAPIKey` writes no audit row, though `SECURITY_AND_ACCESS_RULES.md:38` says
  "audit all admin actions".
* A call that stops between the comparison of a PIN and its record leaves no trace
  (`Lose`), so `LockoutRule` and `CounterExact` are about failures that were
  recorded. Nor does such a call answer.
* A validation that read the old hash may accept the old PIN after a reset.
  `LockLiftedOnlyByStaleOrNewPIN` says what it may do to the lock.
* An organization's own calls write back the type they read a transaction earlier
  and may overwrite a newer one. `TypeWasGiven` allows it: each type was given by
  some call.
* The webhook signature covers the bytes of `json.Marshal`; what is sent is
  `payload_json::text` of a `jsonb` column (`webhooks/postgres_store.go:147`),
  which PostgreSQL spells differently. No module tells bytes apart.
* `time.Duration(DurationDays) * 24 * time.Hour` (`claimrequests/claim_requests.go:309`)
  is 64-bit nanoseconds, so a large number of days wraps, and some wrap to a short
  positive time, the first at 213504 days (`RequestDuration`). `ClaimLifecycle`
  takes any set of positive lengths.

## Not modelled, and why

Text formats, HTTP decoding and error mapping, password and token cryptography,
rendering (no property here is about them); `truths` and `audit` (they only
read); `config`, `database` and the `main` functions except as the run of a
command (start-up and I/O). The organization of a request is not a state of
`ClaimLifecycle`, as no statement of it depends on it; who it is, is in
`Accounts`. The URL of an endpoint: `WebhookDelivery` only knows that there is
one. `migrations` changes state when the service is installed and is first in the
plan below. The front end keeps no state that the server relies on.

## Plan

Done: the modules above with their runs and proofs. To come:

| # | Module | Models | Properties | Bounds | Theorems |
|---|---|---|---|---|---|
| 1 | `Migrations` | two runners of `cmd/migrate` that read the applied set and then apply file by file, each in a transaction with its row in `schema_migrations` | a file is applied once and after its predecessors; of two runners that meet one fails on the primary key and loses its file's statements; a later run completes | 3 files, 2 runners, runs cut off | the first |
| 2 | `Announcement` | `ClaimLifecycle` with `WebhookDelivery` through the outbox | an endpoint hears only of events that took place | 2 claims, 1 run | that, from `DeliveryInv` |
| 3 | `WebhookDelivery` | the URL of the endpoint as part of the listing | what is sent to a URL that was replaced | 2 URLs | |
| 4 | `PageSession` | the page's handlers against signing out and in | what is shown belongs to the session | 2 sessions, 2 requests in flight | that |
