# Models of OpenPrivy

TLA+ models, TLC runs and TLAPS proofs of the backend of OpenPrivy: a custodial
embedded wallet (NestJS, TypeORM and Postgres, three replicas behind a load
balancer), its contracts and its apps. The models are translated from the
source; each definition's lines are listed in `PROJECT.json` under `map`.

## 1. The system

| Component | State it keeps | Operations | Hard behaviours | What makes it correct | Module |
|---|---|---|---|---|---|
| Social recovery: requests (`social-recovery/recovery.service.ts`) | `recovery_requests`, `recovery_approvals`, mails sent | startRequest, describeApproval, decide, cancelByToken, cancelForSignIn, currentRequest, sweep, complete | three replicas sweep; checks and writes in separate statements; entities saved after they went stale; a claim outside the transaction it protects | wallets move only with a quorum, after the time lock, at most once for each request; a decline or cancel is final; due requests finish | `Recovery` |
| Social recovery: guardians (same file, 85-167) | `guardians` | addGuardian, confirmInvite, removeGuardian | check-then-insert; an invitation confirmed while it is removed; a mail that fails after the row is saved | 3 to 5 guardians, none twice; a removed guardian stays removed | `Guardians` |
| Sign-in and sessions (`auth/`) | `users` (workosUserId, lockedAt, sessionsValidAfter), JWTs held by clients | signup, login, loginWithWorkOs, JwtStrategy.validate | account found, checked and saved in separate statements; addresses change at the identity provider | an account opens only to who has proved its address; a recovered one to nobody | `Accounts` |
| Mobile sign-in and session (`auth.controller.ts`, `one-time-store.ts`, `apps/mobile`) | state and handoff codes; the keystore; the token of the API client and the user on the screen | mobile start, callback, exchange; initializeAuth, signIn, signOut, toggleLock | JavaScript tasks interleave at every await; late answers; the app is killed | what the screen shows and what the client sends belong together; a signed-out session stays out | `MobileSignIn` |
| Wallet custody (`wallet/wallet.service.ts`) | `wallets` (owner, ciphertext, key id), HSM keys | createWallet, createHsmWallet, setRecoveryEmail, signing | creation races with itself and with a recovery; stale saves | a wallet opens for its owner, on every server; a moved wallet stays moved | `Custody` |
| Key rotation (`common/encryption/`) | current and previous master keys, per-row key ids | rotateWallets, the operator's runbook | runs beside live servers and recoveries; jobs fail and die; reports when old keys may go | no wallet is lost when the old key is retired; the rotation ends | `KeyRotation` |
| Transactions (`transactions/`, `send.tsx`, `SendScreen.tsx`) | `transactions`, the chain, the app's confirm screen | sendTransaction, createSigningRequest, confirmTransaction | record, broadcast and hash are three steps; time-outs and retries | every payment has its record; what is shown as sent was; a second transfer of one review is a retry | `CustodialSend` |
| Sanctions (`compliance/`) | `sanctioned_addresses`, `compliance_sync_state` | screenAddress, fetchAndSync, syncFromCsv | freshness check and lookup are two reads; syncs overlap, fail and die | a listed address is not let through; the stored list becomes the published one | `Sanctions` |
| Account abstraction (`account-abstraction/`, `services/contracts/`) | contract storage, the bundler's pool, `transactions` | buildUserOp, sendUserOp, sponsorship, packing; validation and execution on the chain | sponsoring changes what is hashed; the client may change what it sends; validation precedes the execution of a whole bundle | what was signed is what is checked, what runs was screened, an old key stops working | `UserOps` |
| Rate limiting, CSRF (`common/middleware/`) | counters in Redis or memory, kept by a library | per-request checks | | | not modelled |
| HSM, DeFi, blockchain access, notifier | keys on a token; none | library and RPC calls | failures of a call | | steps that may fail |
| Deployment, monitoring, audit | configuration, counters | | replica count, rolling restarts, cron policy | | facts of the models |

How they interact. HTTP handlers of any replica call the services; services
share nothing but Postgres (and Redis). A sign-in calls `cancelForSignIn`; a
completed recovery moves `wallets`, locks the `users` row and removes
`guardians`; key rotation rewrites `wallets` beside live traffic; every send
calls the sanctions service and then the wallet service for a signer. So the
interesting interleavings are those of two handlers, on one replica or two,
between the database statements of each.

The hazards, each at its line, are in `PROJECT.json`; one that no property
covers says why.

## 2. How the modules fit together

`Recovery`, `Guardians`, `Accounts`, `Sanctions`, `CustodialSend`,
`MobileSignIn` and `UserOps` stand alone: what another component does to the
same rows is an action of their own (`Recovery!RemoveGuardian`,
`Guardians!RecoveryRemoves`, `Accounts!Recover`, `UserOps!Sync`).
`KeyRotation` EXTENDS `Custody` and composes its handlers with the operator,
the rolling servers and the job. `RecoveryRefinement` EXTENDS `Recovery` and
maps it to `RecoveryPromise`. The theorems about a module are in one of their
own, which EXTENDS it: `RecoveryProofs`,
`GuardiansProofs`, `KeyRotationProofs` (with the part of `Custody`),
`AccountsProofs`, `SanctionsProofs`, `CustodialSendProofs`,
`MobileSignInProofs` and `UserOpsProofs`.

Conventions. A handler is cut where others can run between two of its
statements; `pc` and `loc` say where it is and what it has read. TypeORM's
`save()` writes the columns in which the row differs from the entity, so saving
a copy puts the copy back. A definition marked "Bug" is used by no
specification: it is the definition that follows it, with a mistake, and each
property of a passing run is violated when one of them takes its place.
History variables (marked "history") are read by properties alone.

Left of the plan: row locks of decide and close with the deadlock victim
(`RecoveryLocks`; today the victim is an `Abort`), and further theorems under
added assumptions, as `KeptOneAtATime` and `NothingLostWithoutEmails` are: what
each counterexample of section 11 needs is there whenever it is left out.

## 3. Recovery

`Recovery.tla` models one old account (`Owner`), its guardians, and new
accounts that ask for its wallets. Requests against different accounts share no
row, so one account is enough; the requests of one account do interact, and
there may be several.

State and code:

| Variable | Code |
|---|---|
| `req` | rows of `recovery_requests`; ids in creation order |
| `vote` | `recovery_approvals.decision`; "none" where a guardian was not asked |
| `token` | guardians whose approval row still has a `tokenHash` |
| `mailed` | who received the mail that carries their link; a link cannot be used before |
| `active` | guardians with status `active` |
| `holder` | `wallets.userId`: all wallets of the old account move in one transaction |
| `locked` | `users.lockedAt` and `sessionsValidAfter` of the old account are set |
| `now` | one clock for the replicas' `new Date()` and the database's `now()` |
| `pc`, `loc` | handlers in flight, at an `await`, and their local variables |
| `quorumAt`, `moves`, `acked` | history: when the threshold was met, completions committed, cancels acknowledged |

Actions and code. A handler is cut where other handlers can run between two of
its statements:

| Handler | Actions |
|---|---|
| startRequest 176-268 | `StartRead` (requester, old account, guardians), `StartCheck` (other requests), `StartInsert` (the transaction), `StartNotifyGuardian`, `StartNotifyOwner` |
| decide 307-343 | `DecideLock` (both rows locked and checked), then `Decline`, `Approve` or `ApproveLast` (commit) |
| cancelByToken 368-378 | `CancelRead`, `CloseInTx` |
| sign-in, auth.service.ts 94-131 and 149-203, cancelForSignIn 381-387 | `SignInRead`, `SignInSave` (WorkOS only), `SignInFind`, `CloseInTx` for each request found |
| sweep 400-407 | `SweepRead`, `CloseInTx` for each stale request, `SweepDue`, then complete for each |
| describeApproval 292-305 | `DescribeRead`, `DescribeClose`, `DescribeRevoke`: its close has no transaction around it |
| currentRequest 271-287 | `CurrentRead`, then complete |
| complete 415-461 | `Claim` or `ClaimFails`, then `MoveRead` (wallets and request are read, unlocked), `Move` (the commit) or `MoveFails` (the catch and its hand-back, `HandBack`) |
| removeGuardian 135-142 | `RemoveGuardian` |
| any failure | `Abort` (an exception, a deadlock victim, a dead replica), `LeakClaim` (after the claim: the replica dies, or the hand-back of 457 fails too; only if `Leaks`) |

What the abstraction keeps and leaves out:

- **Stale saves.** `save()` compares the entity with the row and writes the
  columns that differ, so saving a copy puts the copy back (`CloseRow`). The
  comparison and the UPDATE are taken as one step.
- **Locks.** `decide` holds its request's row until it commits; writers of
  that row wait (`RowLocked`). Transactions that only write are one step.
  `complete` reads the wallets and the request without locks (427, READ
  COMMITTED) and saves them by id: it is in "moving" before that read and in
  "saving" after it, and the commit writes what was read over whatever is there
  by then. Of the wallets it keeps whether it found any (`found`).
- **Reads** that end a handler without effect (an unknown token, a closed
  request, the expiry that `decide` writes and rolls back by its throw) are
  disabled guards. The several reads at the start of startRequest are one
  step; the check for other requests is another, because that is what races.
- **Order.** `find` without an order returns rows in any order, so stale and
  due requests are handled in any order, and so are the guardians' mails.
- **Mails** arrive, or fail with an exception, which is an `Abort`.
- **The clock** ticks in units of the windows. A deployment's clocks are taken
  to agree: the claim compares `unlocksAt` with the database's clock, all else
  with the replica's.
- Left out: audit rows, wording, token contents, rate limits, the requester's
  other data, the guardians' invitations (`Guardians` has them), wallets one
  by one (`Custody` has them).

`RecoveryPromise.tla` is what recovery promises, with no handlers, rows or
mails: ask, vote, pass, begin, grant. It does not promise that the wallets move
once, because the code does not: a grant that began while the old account had
the wallets gets them, even from a grant that ended meanwhile, and one that
began later gets nothing. `RecoveryRefinement.tla` maps the detailed state
to it: `granted` is the requests with a committed completion, `begun` those
with a handler that found the wallets and has not committed, `newUser` is read
off the rows, the rest has the same name. A cancelled, declined or expired
request is one that is never granted, so closing is a stutter.
`RecoveryClaims.tla` holds what the documentation says that does not hold.

### Runs

All runs use the instances of `MCRecovery.tla`, two handlers in flight, and a
window, lock and cooldown of one tick.

| Run | Instance | Shows |
|---|---|---|
| one | 3 guardians, 2 possible requesters of whom one has a guardian's address, 1 request, 4 ticks, every handler, leaks | the type invariant, the safety invariants of a request and the action properties hold for all interleavings (1.5 M states) |
| two | 1 guardian, 2 requesters, 2 requests, 3 ticks, leaks | both requests may be open and complete at once; the wallets go to a requester whose request completed, leave that one only for a completion that had read them before (`MovedStaysMoved`), and the promise is kept (0.6 M states) |
| live | 2 guardians, 1 request, 4 ticks, fair, no leak | due requests finish, expired ones close, claims are handed back |
| crash | 2 guardians, 1 request, fair, leaks | a counterexample: a request left "completing" for ever (section 11) |
| `MCRecovery_cancel`, `_open`, `_expire`, `_lock`, `_describe`, `_removed` | as needed | a counterexample to the documented statements it names (section 11); kept beside the runs and not among them |

Why the bounds are enough. A counterexample needs two handlers that overlap: a
third adds only repetitions, since each rests on a copy of one row and one
row's lock or claim. Four ticks are the fewest in which a window passes, a
lock passes and something still happens after; `two` needs three, for two
quorums and two time locks. Three guardians are the fewest the program allows
(`MIN_GUARDIANS`) and give a majority that is not everyone; `two` and `live`
lower `MinGuardians` to keep the votes out of the way. `MaxTime`, `MaxRequests`
and `Ops` are bounds of the model. Symmetry is used in the safety runs only,
and over g2 and g3 alone where g1 is special.

Deadlock is checked: a sweep can always be called.

### Fairness

`live` and `crash` use `FairSpec`. Every handler that was called runs on
(weak fairness per handler): Node does not abandon a promise, and each
statement returns or throws. Time goes by. The sweep is called again and
again (strong fairness of its reads: `setInterval` on each replica, whatever
else they do). Closing, claiming and moving a given request are strongly fair
over all handlers together: sweeps are repeated every minute, and the failures
modelled by `Abort` and `MoveFails` do not befall every one of them. Nothing
else is fair: no guardian has to vote and nobody has to poll. `live` sets
`Leaks` to FALSE: no replica dies between claim and commit *and* no hand-back
fails. `ClaimIsHeld` and `DueIsHandled` hold only so, and say so; with `Leaks`
the run `crash` refutes the second.

The leads-to property on expiry asks for windows that ended before the last
tick, so that the sweep still sees them.

### Proofs

`RecoveryProofs.tla` proves, for any guardians, requesters, requests, handlers
and times, every safety property the passing runs check. The assumptions are
the named ones of `Recovery`: the guardians are a finite set, the owner is
neither a guardian nor a requester, times and thresholds are natural numbers.

The argument. The safety properties are not inductive: a handler at `closing`
or `claiming` acts on copies. `IInv` adds what those copies are still good
for: they carry their row's own requester and threshold, whatever its status
has become (`LocalOK`), and a completion that found no wallets came after one that had
moved them; one handler at a time holds the row lock of decide, and
one the claim (`Exclusive`); the status tells what the votes, the clock and the
movers can be (`RowOK`, `VotesOK`); the holder follows from the completions
(`HolderOK`). So a stale save may only turn an open status into a closed one,
and only decide's lock and the claim's WHERE move a request forward. The
steps split into quiet ones, which change no row (`QuietStep`), the insert,
and the loud ones, which change one row (`OneRowStep`); each action is then
one lemma, and `NextIInv` collects them. The action properties and the
refinement (`Refinement`) go by the same split (`StepKinds`).

`MovedForGood` (`MovedStaysMoved`): the holder changes at a commit alone, and a
commit that has `found` wallets read them while the old account held them; so a
completion that begins once another has committed takes nothing.
`ClaimHeld` (`ClaimIsHeld`) assumes `Leaks = FALSE` and needs no new invariant:
only the claim makes a request "completing" (`ClaimedNow`), its handler stays
at "moving" and "saving" until its commit or its catch (`MoversStay`), and a
request it then leaves is no longer "completing" (`StatusAfter`).

Model-checked only: liveness (`DueIsHandled`, `ExpiredIsClosed`), since the
prover does not reason about ENABLED, on which fairness rests. No module a
proof uses declares a RECURSIVE operator, and nothing here needs induction over
data.

## 4. Guardians

`Guardians.tla` has the rows of one account's guardians (`row`), which
invitations were mailed (`link`), whether a recovery is asked for or completed
(`recovery`), the clock, and the handlers in flight with the entity each has
read (`pc`, `loc`).

| Handler | Actions |
|---|---|
| addGuardian 100-133 | `AddRead` (the owner's own address, a duplicate, the limit), `AddSave`, `AddMail` (or the mail fails and the row stays, without a link anyone has) |
| confirmInvite 151-167 | `ConfirmRead` (findInvite: hash, status, expiry), `ConfirmSave` |
| removeGuardian 135-142 | `RemoveRead`, `RemoveSave` |
| complete, 444 | `RecoveryRemoves` |

A token is known by the id of its row. Once the recovery is done the account
cannot be signed in to, so its owner's routes are disabled by JwtAuthGuard;
confirmInvite has no such guard.

Run `guardians_overlap`: 3 addresses besides the owner's, a limit of 2, two
handlers, three rows, three ticks with a TTL of one. Every address may be
invited, and there is one row more than the limit allows, for the overflow.
With two handlers the limit is exceeded by one at most
(`OverLimitByHandlersInFlight`, stated for any number of handlers). A removed
guardian is revived by confirmations that had found the invitation before the
removal, each of several in flight in its turn; once none is left, the removal
is final and the link starts no other (`RemovalSettles`). The rows and the
clock are bounded, so the model may stop: CHECK_DEADLOCK FALSE.

## 5. Wallets and the master key

`Custody.tla` has every row of `wallets` (`wallet`: mode, owner, chain,
ciphertext, key id, recovery email), the keys on the PKCS#11 token (`token`),
the lock of the recovered account and the keys each server runs with (`conf`).
A ciphertext is the user and the master key it was made for; `OpensUnder` is the
authentication tag. Handlers: `Create` and `CreateHsm`, then `CreateSave`;
`SetEmailRead`, `SetEmailSave` (the entity is saved whole); `RecoverRead`,
`RecoverCommit` (complete's transaction, of one request, whose claim keeps a
second completion of it out, and of an empty list of wallets too; two requests
are `Recovery`'s); `Abort`. `Signs` is what getEvmSigner
and getDecryptedPrivateKey need. In `Custody` alone no key changes, so it is
checked through `KeyRotation`, and its own configurations are the
counterexamples of section 11.

`KeyRotation.tla` EXTENDS it with the secret the operator writes
(`PublishBoth`, `PublishNew`), servers that read it when they restart
(`Restart`, which drops their handler) and the job: `JobStart`, `JobScan` (the
next batch by id), `Rotate` (the compare-and-set on the ciphertext) or
`RotateFails`, `JobEnd` (the verdict SAFE_TO_RETIRE_PREVIOUS_KEYS), `JobDies`.
The operator starts the job when all servers run with both keys, and publishes
the new key alone after a safe verdict: DR_RUNBOOK.md, Scenario D. The two
publications are external.

Run `rotation`: two servers, an EVM chain, two keys, two wallets, batches of
one, one job that dies, all handlers. Two servers are one on the new
configuration and one on the old, or two handlers on one row; batches of one
put a scan between any two rows, and a third wallet adds only a second row of
a kind. Rows are bounded, and with the rotation over and the rows used up
nothing need happen: CHECK_DEADLOCK FALSE.

Fairness: the operator follows the runbook, Kubernetes replaces each server,
a job that was started goes on (weak fairness of each). No request need come.
`RotationEnds` assumes `EmailsCease`: each stale save of a recovery email may
put back a row and make the job fail, so endless ones keep the old key for
ever. `OnlyStaleSaveLoses`, `RotatedStaysRotated` and
`OnlyStaleSaveUndoesMove` say that this save is the only cause: `undone` records
the rows in which one put back what had changed since its read.

## 6. Accounts

`Accounts.tla` names an account by its address, as Supabase does: which
addresses have a Supabase user (`supabase`), the rows of `users` (`row`), what
WorkOS says of each identity (`profile`, which changes at any time), and any
one of the tokens minted so far (`token`; one is enough, since a claim about all
tokens is one about an arbitrary token). Handlers: `Signup`, `SignupInsert`;
`Login`; `SignInByIdentity`, `SignInByEmail`, `SignInSave` or `SignInRefused`;
`Mint`; `Abort`. `Recover` is the lock that complete sets, `Accepts` is
JwtStrategy.validate.

Run `accounts`: two addresses, two identities, two handlers, unbounded in time.
Two of each are what an account taken by another identity needs. A token's age
is not modelled: `sessionsValidAfter` and `lockedAt` are set together and
`Accepts` refuses a locked account whatever the token's age. Requests can always
come: deadlock is checked. Run `first` is a finding (section 11).

## 7. Sanctions

`Sanctions.tla` has the publisher's file (`listedAt`: since when an address is
in it), the stored rows with the sync each came from, the sync state, the jobs
and the screenings in flight. A sync is `Fetch`, `SyncDelete`, `SyncCommit`:
at READ COMMITTED the delete finds the rows that were committed when it began,
and leaves those another sync commits meanwhile. `FetchFails` records the
failure, `SyncDies` nothing. A screening is `ScreenRead` and `ScreenLookup`.
`FetchDelay` and `LookupDelay` bound how long a job or a request lives;
`ListedIsBlocked` is stated with them, because no screening can know a list
better than the last sync did.

Run `screen`: one address, two syncs, one screening, four ticks with delays and
age limit of one: their sum is three, so a tick remains in which the property
bites. One address is enough, as an address is stored and looked up by itself.
Fairness for `ListHeals`: a fetch is tried again and again (the CronJob), a job
that runs ends somehow, and not every one fails (strong fairness of deleting
and committing over all jobs together). `PublisherRests` is assumed: a list
that keeps changing is never caught up with. `Unreadable` is FALSE here; TRUE
gives the counterexample `MCSanctions_outage`.

## 8. Custodial sends

`CustodialSend.tla` follows transfers of one wallet from the confirm button of
either app to the chain. The apps (`send.tsx`, `SendScreen.tsx`):

| Action | Code |
|---|---|
| `Review` | review; the mobile app clears the last error, the web app keeps it |
| `Edit`, `Leave` | the way back, with the error that is shown; the page is left or the app killed |
| `Confirm` | the button; the web app posts at once (`Posts`, which disables the button), the mobile app asks the device first, with the button still enabled |
| `Prompted` | confirmWithDevice resolves: the transfer that was reviewed at the tap is posted, or nothing |
| `Answered`, `TimesOut` | an answer, or none within 20 seconds; either enables the button, whatever else is in flight |

The server: `Blocked` or `SaveIntent`, `Broadcast` (the node takes it or not,
and says so or not), `SaveHash` or `SaveFailure`, `Crash` anywhere. Self-signed
transfers: `Request` saves a row; `ConfirmRead`, then `ConfirmBlocked` or
`ConfirmBroadcast` and `ConfirmSave`, on any row of the user, a custodial one
too, with the copy it read; `ConfirmEnds` where it throws. A payment is named by
its signed transaction, so a row can be made to show another payment than the
one it was saved for. `Recorded` is what the history shows.

Run `sends`: two sends, two reviews, a self-signed row, a signed transaction and
a confirmation in flight, in either app, of an Ethereum wallet (6.0 M states).
Two sends are a transfer and its retry or second tap, and two reviews tell a
retry from a new transfer. One confirmation is enough to overwrite what a send
has answered, before, between or after its saves. Deadlock is checked: the user
can always leave. No run needs the wallet's chain: a Solana wallet has no
signer (`SaveIntent` fails), and a Polygon one is section 11's.

`AnswerIsDurable` says what an answered hash is still worth: it is on the chain,
and the row shows it until a confirmation of that row saves its own over it.
`RepeatsAreRetries` says when one review is posted again. What a user may take
for granted beyond that is refuted in section 11: that it is paid once, that
"failed" or "blocked" means not sent, that an answered hash stays.

## 9. The mobile app's session

`MobileSignIn.tla` composes the backend's one-time values (state, handoff code)
with the app: keystore (`key`, `lock`), the API client's token (`current`), the
screens (`shown`) and five kinds of tasks that interleave at their awaits:
the start of the app (`boot`), a sign-in, sign-outs, the switch of the lock and
the screens' requests. `Restart` kills the app at any of them. A sign-in is a
number that names its state, code and token. That a code is given out once
holds by the shape of OneTimeStore.take, which deletes before it answers, and
needs the PKCE verifier of the same sign-in; no property repeats it.

Run `mobile`: two sign-ins and two runs of the app: an old and a new session
meet, and a restart finds either of them. Sign-ins and runs are bounded:
CHECK_DEADLOCK FALSE. `SignedInHasToken` and `SignedOutStaysOut` name the exact
ways in which the code departs from them (`struck`, `kept`): a 401 to the
previous session's request while a new one is adopted, the switch of the lock
that stores the screen's token after a sign-out, a kill before the keystore is
cleared.

## 10. User operations

`UserOps.tla` is the way of an ERC-4337 operation for one smart account:
`BuildBegins`, `Screen` for each destination, `BuildReads` (nonce, gas, fees),
`BuildEnds` (sponsorship and hash, which the client signs: `Sign`);
`SendBegins` (the client may have changed callData or cut paymasterAndData, and
signs what it changed), `Screen` for each destination, `SendSubmits`,
`SendSaves`; then `HandleValidates` and `HandleExecutes` of the EntryPoint,
which validates a whole bundle before it executes it. On the chain
`createAccount`, `updateOwner` and `setSponsorshipStatus` may come from others
at any time; `Sync` replaces the backend's stored copy of the sanctions list,
between two lookups of one request too.

Packing is modelled by what it computes. A packed word is a number of two
halves below `Half`: `pack128` refuses a half that does not fit (`Fits`), and
without that refusal the high half takes the carry. `initCode` and
`paymasterAndData` are sequences of cells, an address being two of them:
`toRpcUserOp` cuts them into factory and factoryData, and into paymaster, its
two limits and its data; it refuses (`Readable`) half an address and a header
that is too short; `fromRpcUserOp` puts them together again.
`mergeSponsorship` takes from an answer the limits it names, with
`preVerificationGas`, which the hash covers, and keeps the others. The
paymaster signs the operation it was sent with the limits it answers
(`PaymasterSigns`, external).

`HashesSurvive` therefore says three things of what the bundler packs of the
JSON form of a signed operation: its hash is the signed one, its limits and
fees are the ones its builder and its paymaster meant (a carry keeps the hash
and changes them), and the paymaster's signature is of it.
`ScreenedWhenSent` speaks of the addresses that the stored list held from the
beginning of sendUserOp until the submission (`barred`): one that a sync adds
after its own lookup is sent to.

Run `userops`: two addresses, of which a list has none or one, two keys, one
backend handler, two operations and two sends; `Half` = 4 with estimates 0 and
3, of which the second is refused; initCode absent, whole or half an
address; a sponsorship that names limits of every kind (1.5 M states). One
backend handler is enough, because handlers share no state they write;
operations in the pool and in the bundle interleave all the same. Nonces and
operations are bounded: CHECK_DEADLOCK FALSE. The EntryPoint and the bundler
are external, modelled from the interface the contracts and the backend use.

## 11. What is claimed and does not hold

`crash` and `first` are runs with a `findings` entry; the other configurations
are kept beside them, and TLC answers each with a counterexample to the
statement it names. Where a configuration names several, all are refuted: TLC
stops at the one it finds first, and shows another when that one is taken out of
the configuration. They refute a statement under overlapping handlers or
failures, and the runs above show how far a weaker statement holds.

| Configuration | Statement | What happens |
|---|---|---|
| `MCRecovery_crash` | an approved request completes | a replica dies after the claim; no sweep looks at "completing" |
| `MCAccounts_first` | a first sign-in creates the account | the row has no id, the insert is refused |
| `MCRecovery_cancel` | an acknowledged cancel holds | it closed a copy read before the claim |
| `MCRecovery_open` (`OneOpenPerAccount`) | one open request per account | the check and the insert are two statements |
| `MCRecovery_open` (`WalletsMoveOnce`) | moved wallets stay with the new account | two due requests: both completions read the wallets, the second to commit overwrites the first |
| `MCRecovery_expire` (`OwnerHasCancelLink`) | the owner is told at once | the owner's mail comes after the guardians' |
| `MCRecovery_expire` (`MovesUnlessCancelled`) | an approved request does not expire | sweep saves a copy older than the last approval |
| `MCRecovery_lock` | a lock stays | a sign-in in flight saves the user it read |
| `MCRecovery_describe` | looking has no effect | describeApproval closes an expired request |
| `MCRecovery_removed` | removing a guardian is immediate | the link of an open request still votes |
| `MCGuardians_limit` | at most MAX_GUARDIANS | two addGuardians read the same list |
| `MCGuardians_revived` (`OnePlacePerPerson`) | nobody is a guardian twice | two addGuardians read the same list |
| `MCGuardians_revived` (`RemovalIsFinal`) | a removed guardian stays removed | a confirmation saves what it read before |
| `MCCustody_email` (`MoveIsFinal`) | a moved wallet stays moved | setRecoveryEmail saves a row it read before the move |
| `MCCustody_left` | every wallet moves | one is created between complete's read and commit |
| `MCCustody_email` (`OneWalletPerChain`) | one wallet per chain | two createWallets find none |
| `MCKeyRotation_email` | no wallet is lost when a key is retired | setRecoveryEmail puts back the old ciphertext after the job passed the row |
| `MCKeyRotation_rollout` | every server can sign while keys are rolled | a server without the new key meets a row under it |
| `MCSanctions_mixed` | rows of one sync only | two syncs at READ COMMITTED leave the rows of both |
| `MCSanctions_outage` | an outage does not empty the list | a 200 answer without an address column is an empty list |
| `MCCustodialSend_failed` (`FailedIsNotSent`) | "failed" means not paid | the node took it and the call, or the save of the hash, failed; or a confirmation of that row was blocked |
| `MCCustodialSend_failed` (`PaidOnce`) | one review pays once | a retry after a time-out or a failure, or a second tap during the device prompt |
| `MCCustodialSend_failed` (`BlockedIsNotSent`) | "blocked ... and was not sent" | an earlier attempt of the same review was sent |
| `MCCustodialSend_failed` (`AnsweredHashStays`) | an answered hash stays in the history | confirmTransaction saves over the row |
| `MCCustodialSend_network` | a send goes to the wallet's chain | a Polygon wallet's transfer is broadcast through the Ethereum provider |
| `MCMobileSignIn_lock` | with the lock on the token is protected | the app dies between storing the setting and the token |

None of these breaks the proved properties of `Recovery`: even then each move of
wallets has its quorum and its time lock behind it, and each request moves them
at most once; but two requests may, one after the other.

## 12. Proved, checked, left out

Proved for all constants: every type invariant, safety invariant and action
property that a passing run checks, and that `Recovery` implements
`RecoveryPromise`. The runs check the same statements on small instances, with
the mutants that break them. Assumed are the named assumptions of each module,
all facts of the code or bounds of the model, and what a theorem's own ASSUME
says.

None of the properties is inductive by itself: a handler acts on what it read, and
between its read and its write the others run. So in each module the invariant
adds what a handler's copies are still good for at each of its places, and the
proof has a lemma for each action, or for each kind of step, and one, `NextIInv`,
that collects them.

- **Recovery**: section 3.
- **Guardians**. To outgrow the list takes overlap, and how much is the point:
  a row counts when it is live *or* when a confirmation in flight may make it
  so, and a handler about to insert counts too (`OverLimitByHandlersInFlight`,
  which with the types and `HandlerOK` is inductive). A handler that inserts was
  counted before, one that confirms saves a row that counted already
  (`AddSaveStep`, `SaveStep`), and an addGuardian that reads finds fewer live
  rows than the limit, so that with one row for each other handler the sum stays
  below it (`AddReadStep`). `KeptOneAtATime` assumes that handlers do not
  overlap (`OneAtATime`) and concludes the three statements that section 11
  refutes: overlap, and nothing else, breaks them.
- **Key rotation** (with the handlers of `Custody`). No server is ahead of the
  secret (`PhaseOK`, `ConfOK`); a row that no stale save has hit is under a key
  the secret still has, and under the new one after a safe verdict (`WalletOK`).
  The verdict is the hard step: it counts the rows the query returns, and is
  right because no copy in flight can put an old key back. A creation inserts a
  row of its own, encrypted under a key that is the new one once the servers
  have it; a recovery's copy was encrypted by the server that saves it
  (`CopyOK`). `NothingLostWithoutEmails` assumes `"email" \notin Ops`, a program
  without setRecoveryEmail, and concludes what the configurations
  `MCKeyRotation_email` and `MCCustody_email` refute: no wallet is lost, and no
  moved wallet goes back. That one handler alone is to blame.
- **Accounts**: a linked row's address was proved by its identity, a missing row
  is blank, an inserting handler is alone with its address, and a copy to be
  saved is of an account that exists, unlocked, and linked to nobody else when
  it was read. Null and the word for a password are no identities.
- **Sanctions**: what a sync has fetched is at most `FetchDelay` old and has
  every address listed before it was fetched (`SyncOK`), hence the rows have
  every address listed `FetchDelay` before the sync state's time (`StoredOK`),
  although the rows of another sync may be among them; a screening that looks an
  address up found a fresh enough list at most `LookupDelay` ago, and no commit
  since made it older (`ScreenOK`). `ListedBlocked` assumes `~Unreadable`: an
  answer that is read as an empty list is the counterexample
  `MCSanctions_outage`. The addresses are finitely many, and there is one.
- **Custodial sends**: from "broadcasting" on the row exists, from "hashing" on
  the node has the payment, and no confirmation's copy lacks a row; a hash is
  saved over an answered one only by a confirmation whose payment the node took;
  and the app's screen, its button and its attempts agree: what is posted or
  prompted has a review not later than the screen's, and once an attempt of a
  review was shown as sent that review is not on the screen.
- **The app's session**: every token in the app is one of a sign-in that was
  started (`Started`); while the app starts, nobody is shown and no sign-out can
  run (`Booting`); a sign-in under way holds a token of its own, which nobody
  else can have signed out, but as the answer to another's request
  (`SigningIn`); and a keystore that nobody is still to clear holds no token
  that was signed out (`Stored`).
- **User operations**: lemmas about the words (`PackFits`, `PackUnpacks`,
  `Unpacks`: halves that fit are found again, for any width), the cells
  (`CodeRoundTrip`, `DataRoundTrip`: what is cut is put together again, if it is
  `Readable`), the whole form (`RoundTrip`) and the sponsorship (`Merged`: the
  paymaster's hash and limits are those of the merged operation). The handlers
  hold operations of that shape, so what is signed is what is hashed
  (`SignedOK`). What a handler is still to submit is barred only by
  destinations it has still to look up and that are listed (`Holds`): hence
  nothing in the pool or in the bundle is barred (`Screened`). A bundle that
  has not begun to run holds the present owner's operations only
  (`OldKeyStops`).

Model-checked only: liveness (`DueIsHandled`, `ExpiredIsClosed`, `RotationEnds`,
`ListHeals`), which rests on ENABLED and is out of the prover's reach; and, being
refuted, the statements of section 11. `Custody` without key rotation has no run
of its own: the theorems about `RotSpec` are about its handlers.

Not modelled, and why:

- **Rate limiting and CSRF**: counting, blocking and the fallback are the
  library's (rate-limiter-flexible); CSRF is a stateless check of one request.
- **HSM sessions and sign()**: `Pkcs11Service` keeps one session of a library;
  `Custody` has the keys on the token and their lookup only.
- **DeFi and blockchain access**: quotes and RPC calls, no state of their own.
- **Web app** beyond the confirm button: its session is a cookie it cannot read.
- **Gas accounting**: deposits, `_postOp`, the paymaster's signer and validity
  window, upgrades of the account, receipts and `trackGasCost`.
- **updateTransactionStatus**: nothing calls it, so a transaction stays "pending".
- **Row locks of decide against close**: a deadlock's victim is an `Abort`.
- **Monitoring, logging, audit, deployment**: append-only or configuration; what
  they fix (replicas, restarts, columns' constraints) enters as facts.

## 13. Files

| File | Content |
|---|---|
| `Recovery.tla`, `Guardians.tla`, `Custody.tla`, `KeyRotation.tla`, `Accounts.tla`, `Sanctions.tla`, `CustodialSend.tla`, `MobileSignIn.tla`, `UserOps.tla` | one component each, with its properties; `Recovery` also has the inductive invariant |
| `RecoveryPromise.tla`, `RecoveryRefinement.tla` | the abstract specification and the mapping to it |
| `RecoveryClaims.tla` | documented statements about recovery that fail |
| `RecoveryProofs.tla`, `GuardiansProofs.tla`, `KeyRotationProofs.tla`, `AccountsProofs.tla`, `SanctionsProofs.tla`, `CustodialSendProofs.tla`, `MobileSignInProofs.tla`, `UserOpsProofs.tla` | the theorems, with the inductive invariant of the module (but `Recovery`'s) |
| `MC*.tla`, `MC*_*.cfg` | instances for TLC; the runs are listed in `PROJECT.json`, the other configurations in section 11 |
| `PROJECT.json` | components, runs, mutants, map, findings, hazards, theorems |

`tlc -config MCRecovery_one.cfg MCRecovery` runs an instance;
`tlapm RecoveryProofs.tla` checks the proofs of that module.
