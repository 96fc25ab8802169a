# TokenGuard: a formal model of the budget guard

TokenGuard is a reverse proxy for LLM providers that holds every request to a
budget. Before a request is forwarded its estimated cost is reserved in the
billing database (Turso/SQLite); after the response the actual cost is charged
and the reservation dropped. A Redis counter blocks agents that loop. This
directory holds TLA+ modules of that program, TLC configurations that check
them on small instances, and TLAPS proofs for all instances.

Line numbers refer to the repository's files (`guard.go` is
`internal/proxy/guard.go`, `usage.go` is `internal/billing/usage.go`, and so on).

## The system's parts

| Part | State | Operations | Hard behaviour | Correct when |
|---|---|---|---|---|
| Request guard (`guard.go`, `proxy.go`) | locals of a handler: key, team, estimate, reserved amount | preflight, checkBudget, checkLoop, forward, settle, release | two goroutines joined over two channels; settlement in a detached goroutine with a 2 s deadline, after the answer; panics and exits in between | each hold ends exactly once, each bill is charged once, every request ends |
| Budget ledger (`usage.go`) | `limit`, `spent`, `reserved` of users, teams, memberships; `usage_events` | ReserveBudget, SettleReservedUsage, ReleaseReservation, RecordUsage | concurrent transactions on one row; two rows per team transaction; commits whose reply is lost | `reserved` is what is outstanding, `spent` what was billed, limits hold |
| Teams and invites (`teams.go`, `portal_teams.go`) | teams, memberships, invites | create, cap and pool changes, invite, accept, revoke, add, remove | several statements without a transaction, any of which may fail; changes while requests are in flight | one pending invite per address, an invite is used up by joining, caps and pool spending stay in line, invites settle |
| User administration (`admin.go`, `mgmt.go`) | users, budgets, keys | provision, change limit, reset | steps of one request failing halfway | a reset never touches holds; the sign-ins of an address lead to one user, provisioned or not |
| Loop breaker (`circuit_breaker.go`, `client.go`) | a Redis counter per session and payload, with expiry | Check | concurrent INCR, expiry between two checks, calls that run after their caller gave up | a counter is the checks of its window; few equal calls get through in any TTL; no lock-out for good |
| Price catalog (`pricing*.go`, `openrouter_sync.go`) | the `model_prices` table and the in-memory engine | bootstrap, sync, reload, upsert, delete | two copies updated in steps, a background loop, listings that break off, crashes | there are prices to charge by; the file never overwrites a row; memory catches up with the table |
| Cost arithmetic (`models/pricing.go`, clamping in `guard.go`) | none | estimate, bill, clamp | rounding, 64-bit overflow | a clamped estimate fits and is the best that does; estimates bound bills |
| Accounts and keys (`auth.go`, `portal.go`) | users, identities, sessions, API keys | sign in, create, revoke, log out | check-then-act on the key limit, racing first sign-ins, expiry | keys are bounded, people get in, tokens stop working |
| Usage extraction (`stream_counter.go`, `usage_extract.go`, `provider_usage.go`) | per-response counters | Write, Finish, capture | events cut into writes anywhere, several usage reports, text between them, documents cut short | the last report of each number is what is charged |
| Routing, configuration, views, web portal | none of their own | parsing, rendering, start-up | none | not modelled |

How they interact: the guard calls the ledger for every request and the breaker
for requests with a session; it looks prices up in the catalog's in-memory copy, for
the estimate, again for a clamped one and again for the bill, and syncs, reloads and
operators may change them in between; teams and administration change rows and
memberships the ledger reads; cost arithmetic and usage extraction give the guard its
quote and its bill, of which `Guard` takes any there may be. Goroutines of different requests share nothing but the database,
Redis and the catalog.

## Modules

| Module | Models | Role |
|---|---|---|
| `Totals` | sum of a function over a finite set | helper, written so that its laws can be proved |
| `Ledger` | rows of `user_budgets`, `teams`, `team_members` and the transactions on them | operators used by `Guard` |
| `Guard` | the life of a request from `ServeHTTP` to the end of its last goroutine | the core state machine and its properties |
| `HoldBook` | nothing in particular: what the guard promises about money | abstract specification `Guard` implements |
| `GuardDrift` | `Guard` with members who are added again, and a record of what rows were made to forget | extends `Guard`; how far counters and holds drift apart |
| `MCGuard`, `MCGuardDrift` | | finite constants for TLC |
| `TotalsTheorems`, `GuardTheorems` | | lemmas and theorems about `Totals`, `Guard` and `GuardDrift`, checked by TLAPS |
| `GuardRefinement` | | proof that `Guard` implements `HoldBook` |
| `LoopBreaker` | the loop circuit breaker: the Redis counter, its expiry, checks over an unreliable connection | state machine and properties |
| `MCLoopBreaker` | | symmetry for TLC |
| `LoopBreakerTheorems` | | theorems about `LoopBreaker`, checked by TLAPS |
| `Membership` | teams, seats and invites, a call as its SQL statements | state machine and properties |
| `MCMembership` | | finite constants for TLC |
| `Catalog` | the table `model_prices` and the `PricingEngine`, boot, sync, reload and edits | state machine and properties |
| `Accounts` | users, sign-in identities, keys, cookie sessions | state machine and properties |
| `Cost` | prices of tokens and the clamp, on a bounded integer type | pure operators, used by `Metering` |
| `Metering` | one request's hold and bill: `checkBudget`'s estimate, the bytes of the answer, `logCompletedUsageAsync` | state machine and properties |
| `MCServices` | `Membership`, `Catalog`, `Accounts` and `Metering` side by side | finite constants and one specification for TLC |
| `MembershipTheorems`, `CatalogTheorems`, `AccountsTheorems`, `MeteringTheorems` | | theorems about them, checked by TLAPS |

### Ledger

`row[a]` holds the three money columns of account `a`: a user, a team, or a
membership `<<t, u>>`. `active` is the set of memberships with status `active`.
A request is charged on `Scope(u, t)`: the user's own row, or, when the header
`X-TokenGuard-Team-ID` names team `t`, the membership and the pool together.

Each operator is one transaction (`ReserveBudget`, `SettleReservedUsage`,
`ReleaseReservation`) or one guarded `UPDATE`. SQLite has one writer at a time
and each transaction reads and writes within itself, so each is atomic; what
is *not* atomic (reading the balance in `checkBudget` and reserving later;
comparing a cap with the pool and setting it later; the two statements of
`UpdateTeamBudget`) is not made atomic here either. `Posted` keeps the
`MAX(0, ...)` of the code, so a double release is absorbed silently as it is in
the database. A removed member's row stays with its columns.

### Guard

`phase[r]` is where request `r` is, `loop[r]` the state of its loop goroutine,
`amt[r]` the amount to reserve and then `guardContext.reservedMicroUSD`,
`cost[r]` its bill, `settled[r]` whether its settlement's row is in
`usage_events`. `hold[r]` is a history variable: what the rows really hold for
it, which a handler cannot see when a reply is lost.

| Action | Code |
|---|---|
| `Arrive` | `preflight` up to the start of both goroutines; the loop check is skipped without session or payload |
| `LoopCheck` | `checkLoop`; a breaker error counts as a block, as in `preflight` |
| `Quote`, `Unaffordable`, `CheckFails` | `checkBudget` up to `ReserveBudget`: the balance read, the quote, the clamp, every early return |
| `ReserveGranted`, `ReserveDenied`, `ReserveFails`, `ReserveUnheard` | `ReserveBudget` commits a hold, finds no room, fails, or commits with the reply lost |
| `Join` | both channels received: blocked requests release, denied ones end, the rest are forwarded, unless a lowered output cap cannot be written into the body, which releases the hold (400) |
| `Complete`, `Abort` | the provider's response ends, or copying it panics past the settlement |
| `Settle`, `SettleFails` | the one attempt of `settleReservedUsageOnce`; on error the fallback follows |
| `Release`, `ReleaseFails` | `releaseReservationAsync` and `releaseReservationSync`, one attempt each |
| `Crash` | the process exits; rows stay, handlers and goroutines are gone |
| `Admin` | administrators and team owners change limits, reset spending, remove members |

`Env` names which faults and administrative changes a run allows, so that a
property that needs one of them absent says so. A request's user and team are
chosen at the start and do not change. A budget error is answered without
waiting for the loop goroutine; that goroutine's later effect is on Redis only,
so the model ends it (`Answered`).

### GuardDrift

Two things make a `reserved_microusd` show less than is held: a fallback that
releases what an unheard settlement has dropped already (finding 1), and a removed
member who is added again, which sets the seat's `reserved` to 0 whatever requests
of the old membership still hold. Two history variables record what rows were made to
forget: `twice`, the requests whose fallback has released a second time, and
`forgotten[s]`, what seat `s` had reserved when it was revived; `Drift(a)` is their sum
on row `a`. `adding[s]` counts the calls that have found seat `s` removed.

| Action | Code |
|---|---|
| `ReleaseTwice` | `settleUsageAsync`'s fallback after a settlement that committed; the step itself is `Guard`'s `Release` |
| `GuardStep` | any other step of `Guard` |
| `FindSeat` | `upsertActiveMember` reads the seat and finds it removed |
| `ReviveSeat` | its `UPDATE`, which does not ask for the status again: of two calls the second may zero the seat of a membership that is in use |

A call that fails in between is one whose `ReviveSeat` never comes, for which
`adding` needs no step. A seat without a row is inserted, not revived, and has
nothing to forget, so `FindSeat` is for the seats of `StartMembers`.

### HoldBook

The book has no counters. A request is admitted when its amount fits into what
each of its accounts has left beside all other *holds*; the hold ends by being
charged or returned; a request is charged at most once. `Guard` implements it
with the mapping at the end of `Guard.tla`: the point is that the stored
counter `reserved_microusd`, which the code compares against, can be replaced
by the true sum of holds.

### LoopBreaker

`count[k]` and `left[k]` are the value and the remaining life of the Redis key of
one session and payload; they outlive the process. `call[r]` is a check as the
goroutine of request `r` sees it, `script[r]` and `seen[r]` what Redis did for it
and returned. `age[r]` counts the ticks since the script ran, up to `TTL` (older is
all the same to every property).

| Action | Code |
|---|---|
| `Check` | `CircuitBreaker.Check` posts the `EVAL` |
| `Count` | `loopCounterScript`, atomic in Redis; it may run after the caller has given up, or never |
| `Reply` | the count arrives in time and is compared with the threshold |
| `GiveUp` | `Client.Command` fails: timeout of the HTTP client, error status, bad body; `preflight` refuses the request (503) |
| `Tick` | time passes and Redis drops expired keys |

To `Guard` a check that passed is the verdict `pass`, one that tripped or failed
is `block`; a request without session makes no check.

### Membership

A seat `<<t, p>>` is a row of `team_members`; a person is an e-mail address, whose
`users` row may or may not exist yet (`account`). A call in flight is a slot:
`at[q]` is the SQL statement it comes to and `job[q]` what it carries from the
statements before: the seat, the cap, the invite and the invites still to take.
Another call may move between any two statements, and `Fail` may end the call at
each of them.

| Action | Code |
|---|---|
| `SignUp` | the `users` row of a first sign-in or of provisioning |
| `HandlePortalCreateTeam` | `CreateTeam`: one transaction |
| `HandlePortalAddTeamMember`, `LookUp`, `CheckPending`, `CreateInvite` | `AddTeamMemberOrInvite` and `createPendingInvite`, a statement each; the partial unique index on pending invites |
| `FindSeat`, `ReviveSeat`, `InsertSeat`, `RereadSeat` | `upsertActiveMember` and `getTeamMember`, for an owner's call and an acceptance alike |
| `HandlePortalMe`, `MarkAccepted` (with `NextInvite`) | `GetAccountView`, which runs `AcceptPendingInvitesForEmail` over the invites it has read |
| `HandlePortalRevokePendingInvite`, `HandlePortalRemoveTeamMember` | one guarded `UPDATE` each |
| `HandlePortalUpdateMemberCap`, `WriteCap` | `UpdateTeamMemberCap`: the check, then the `UPDATE` |
| `HandlePortalUpdateTeamBudget`, `WriteOwnerCap` | `UpdateTeamBudget`: the limit, then the owner's cap, whose error is ignored (`Fail`) |
| `Spend` | a settlement on a seat and its pool |

A handler's action is `requirePortalUser` and the store's first statement. That
only the owner of a team is let through is in `OwnerCalls`; where the owner's
lookup and a single guarded statement are all there is (removal, revocation) the
two are one step, as ownership never changes. `highest[t]` is a history variable:
the highest limit team `t` ever had.

### Catalog

`table` and `memory` are functions from model keys, numbered in the order of a
listing, to prices. `phase` is the process: down, one of the steps of
`BootstrapPricingCatalog`, or up. `task[w]` is what an operator's call, or main's
goroutine (the boot, then `RunPricingSyncLoop`), comes to, with the rows it has.

| Action | Code |
|---|---|
| `BootStart`, `SeedRows`, `MergeRows` | `LoadPricingFileOrEmpty`, `SeedModelPrices`, `UpsertMissingModelPrices`, in batches of which some may fail |
| `BootSync`, `BootSkipsSync`, `LoopSync`, `SyncNow` | a sync starts with what OpenRouter lists: on boot, on a tick, for an operator |
| `UpsertPrice`, `DeletePrice` | the management handlers; an upsert is a sync of one row |
| `WriteRow`, `WriteCopy`, `DropCopy` | a row of the table, then the copy in memory |
| `ReadTable`, `ReplaceCopy` | `ReloadPricingFromStore`: the listing, later the copy; an empty one is an error |
| `StatementFails`, `DeleteUnheard` | a statement errs, perhaps after it has committed |
| `ProcessEnds` | the process exits: memory and tasks are gone, the table stays |

`ListModelPrices` does not ask `rows.Err()`, so a listing that breaks off passes for
the whole table: `Read` may return a prefix. The order in which a sync writes its
rows is left open.

### Accounts

A call comes to one more statement (`call[c]`): to link an identity it did not
find, or to create a key. `SignIn` and `LinkIdentity` are `EnsureOAuthUser` (the
lookup, then its transaction; `UNIQUE` fails the loser of a race), `ProvisionUser`
and `InsertKey` are `HandleProvision`, `CountKeys` and `InsertKey` are
`HandlePortalCreateKey`. A portal call needs `RequirePortalUser`: Clerk's token, or
a cookie whose session is neither revoked nor expired. `HandlePortalDevLogin`,
`HandlePortalLogout`, `HandlePortalRevokeKey` and `SessionTimesOut` are one step each:
behind the lookup of the caller they make one statement. A logout whose revocation
fails changes nothing, as its error is dropped. An address is a spelling: provisioning
stores it as it is given, sign-ins in lower case.

### Metering, Cost

One request from its analysis to its bill. Before: `Refuse`, `Hold`, `HoldClamped` and
`RefuseClamped` are `checkBudget` on a personal budget, `AskedTokens` the cap
`analyzeRequest` reads, `Rewritten` the caps `clampMaxOutputTokens` puts in its place.
The price is looked up each time it is needed: `request.rate` is the one of the first
estimate, `quoted` the one a clamped estimate is made with (`StillFits`), `charged` the
one of the bill; each later look-up finds any of `PricesNow`, or none (`NoRate`). Numbers are int64s:
`MaxInt` is the largest, the checked operations refuse what exceeds it and the one
product nobody checks (`guard.go:326`) wraps. After: the provider's answer is a
sequence of pieces (halves of JSON events, line ends) that `Write` passes to the
client in any portions; before a call of `Write` returns, `Count` takes the counter
through what was written, one piece at a time, and `counted` says how far it is.
`CounterWrite`, `ProcessLine`, `ProcessEvent` and
`CounterFinish` are the `sseTokenCounter`, and `AnswerDocument` is
`captureProviderUsageInto`, which reads a body that is no stream as a whole, up to its
limit. A stream may end anywhere. `Finish` applies the capture over the counter and
charges.

The provider's own price is a number of micro-USD here (conversion from dollars is
left out), and a usage object that lies in the first half of an event's JSON can be
read although the rest is missing (`early`), as `extractUsageFromTail` does.

### MCServices

Of what the four services beside the request path change, one thing is read by another:
the prices of the catalog, by metering. `Metering` does not follow the catalog's steps
but takes any of `Repriced` at each look-up, which is more than a catalog could do to
it. So `MCServices` does not interleave the services: `part` is drawn at the start and
only that service moves. The others rest in states in which none of their fair
actions is enabled, so fairness asks nothing of them.

## Runs

| Run | Instance | Shows |
|---|---|---|
| `guard_faults` | 3 requests, 2 users, 1 team; lost replies of reservations and settlements, exits, a member removed and added again by two calls | counters never show more than is held and are short by the drift at most; rows are overspent by no more |
| `guard_book` | 2 requests; limits and resets between any steps | the counters are exact, `Guard` implements `HoldBook` |
| `guard_live` | 2 requests, lost settlement replies, fairness | holds come back |
| `guard_ends` | 2 requests, every fault, fairness | requests end and are charged once whatever fails |
| `loop_window` | 4 checks, 1 key, TTL 3, threshold 2, fairness | counters are exact and expire, few equal calls get through, checks end |
| `teams` | 1 team of one owner and one invitee, 2 calls at a time, 4 calls of the owner, 1 failure, 1 spending | invites, seats, caps and pool spending stay consistent |
| `services` | see below, fairness | catalog, accounts and metering; invites settle |
| `loop_straddle` | 4 checks, 1 key, TTL 3, threshold 3 (the default) | finding 4 |
| `revoked_invite` | `teams` with 2 calls of the owner | finding 5 |
| `lost_reply` | settlement replies may be lost | finding 1 |
| `hangup` | responses may break off | finding 2 |
| `removal` | members may be removed | finding 3 |

Bounds. Amounts are 0 to 3: limits of 2 and 3, a pool of 3 under caps of 2 and
2. The three-request run `guard_faults` has the one quote that can be clamped
(2, with a prompt cost of 1) and one bill (2, which a reservation meets or,
clamped to 1, falls short of); the two-request runs have bills of 0 and 3 and
add a free call (0), and `guard_live` quotes of 1 and 3 and a bill of 1 as well.
Together they reach every case the code distinguishes: a free call, a call that
fits, one that must be clamped and one that cannot be, a pool exhausted while
the cap is not, a bill below, at and above the reservation. Three requests are
enough for a stranded hold next to two that race, and for one that releases
twice next to one that is covered no longer and one that spends what was freed;
two race on a row or a pool. Two calls that add a member at a time (`MaxAdds`)
are enough for one to revive a seat that the other has revived and that is in
use again. The sets are bounds of TLC only: the theorems hold for all of them.
`CHECK_DEADLOCK FALSE` stands in every configuration because a finished system
stops: requests arrive only once each. Symmetry under permutations of requests
is used in the safety runs and not in the liveness runs.

For the breaker four checks with threshold 2 fill one window past the threshold,
straddle two, and reach the bound of `FewGetThrough` (one call); with threshold 3
four checks reach it as well (three calls, `loop_straddle`). A TTL of three ticks
lets a late script run at each age of a window. Several keys do not interact.

In `teams` amounts are 0 (which stands for the default limit of 1 when a team is
created) and 2, so that caps are refused, allowed after a raise, and above a limit
lowered since. Two calls at a time are enough for each race of two statements; four
calls of the owner are enough to invite, add, remove and add again; the second team
that makes one acceptance take two invites is in `services`, where the owner also
invites their own address.

In `services` the catalog has two models, a file that is empty or prices both and
a feed that lists one (so that rows of the file must survive), one operator beside
main, two edits and two mishaps: a failure on each side of a reload. Accounts have
two calls in flight, two spellings of one address, an identity of each kind, two key
prefixes with a maximum of one key (so the limit and the prefixes can both be
exceeded) and one cookie. Metering has `MaxInt` 7000, small enough for each overflow,
requests that fit, are clamped, are refused for their input and for everything, with
none, one or two caps in their bodies, prices that may become a little dearer (a clamped
request still fits), much dearer, cheaper or unknown at each later look-up, and streams of four kinds of events, up to
three of them on one line each and up to two on two, ended and cut anywhere.

Fairness (`FairSpec`). Goroutines the Go runtime has started keep running, the
breaker and the store answer or time out (each call carries a deadline), and an
exchange with the provider ends. Weak fairness is stated per request and per
phase; arrivals, faults and administrators owe nothing. Fairness never
chooses between success and failure of a call, except that a run whose `Env`
has no faults has no failures. In `LoopBreaker` time passes and a waiting check
is answered or times out; Redis owes no check its script. In `Membership` a call that
has begun goes on, and an invited person signs in and opens the portal again and again
(each visit runs the acceptance); nobody has to invite, remove or revoke. In `Catalog`
the platform starts a dead process again, main and handlers go on with what they have
begun, and the ticker fires and OpenRouter answers again and again; nobody has to
edit, and failures, being bounded, stop. Strong fairness is used once, in `Accounts`: a
person who is not in tries again, though other people's calls may hold the slots
in between (the slots are a bound of the model, the server has as many as
it needs).

## What the properties say

- `ReservedIsOutstanding`: every `reserved_microusd` is the sum of the holds on
  that row. Holds under every fault but a lost settlement reply.
- `SpentIsBilled`: every `spent_microusd` is the sum of the settled bills of its
  scope. Holds under every fault; only a reset breaks it, on purpose.
- `Solvent`: with limits standing, `spent + reserved` passes a limit only by
  what providers billed beyond the reservations. It is a theorem about `Guard`; the
  runs check `SolventDespiteDrift`, which says the same wherever nothing has drifted.
- `ForwardedIsBacked`: a request at the provider is covered on each of its rows.
- `HoldFollowsPhase`: what a handler believes it has reserved is what the rows
  hold for it; a settled request has nothing left for the fallback to release.
- `PoolIsMembers`: a pool is the sum of its memberships, removed ones included.
- `CountersErrLow`: under every fault, and with members who leave and come back, a
  counter never shows more than is held, so nobody is denied for a hold nobody has,
  and it is short by what was released twice or forgotten at most.
- `SolventDespiteDrift`: a lost settlement reply costs a row its own amount, once.
- `PoolsAreExact`, which follows where no settlement reply is lost: adding a member
  again zeroes the seat only; users and pools come out even although the old
  membership's requests settle on the new one's seat. It is proved only.
- `FinishedHoldsNothing`, `HoldsComeBack`: without faults no hold outlives its
  request, and each ends.
- `EveryRequestEnds`: no combination of results strands `preflight`.
- `ImplementsBook`: the refinement of `HoldBook`.
- `CountIsWindow`: a loop counter is exactly the checks since its key was created,
  those nobody waited for included, and it is not kept alive by further checks.
- `FewGetThrough`: in any `TTL` ticks at most `2 * Threshold - 3` equal calls get
  through: `Threshold - 1` of the open window, and of the window before all but
  its first check, which is at least `TTL` old.
- `CountersExpire`, `ChecksEnd`: a tripped breaker does not stay tripped, and
  `preflight` always gets a verdict.
- `OnePending`, `OwnersStay`, `AcceptedJoined`: however calls interleave and fail, an
  address has one pending invite to a team at most, a team keeps its owner, and an
  invite is used up only by an address that has had the seat.
- `CapsWereAffordable`: a cap may exceed today's limit of the pool (two statements,
  one of which may fail, and a limit may be lowered), but never every limit there was.
- `PoolCoversSeats`: re-adding a member forgets what the seat has spent, never what
  the pool paid.
- `InvitesSettle`: once owners stop inviting, every invite is accepted or revoked.
- `CatalogServed`, `FileNeverOverwrites`, `CopyCatchesUp`: a process that is up has
  prices, pricing.json never replaces a row, and the copy equals the table again and
  again once operators let it alone. Between an edit and the next reload they may
  differ, which is why the property is not an invariant.
- `AccountsTypeOK`: besides types, no identity, key, session or call names a user who
  has no row. The database does not see to it (`PRAGMA foreign_keys` is executed once,
  on one connection of the pool), so no statement may take a user for inserted who is not.
- `OneUserPerPerson`, `SignInsSucceed`: however first sign-ins race one another and
  provisioning, all identities of one address lead to one user, and everybody gets in. It
  is not said that a person has one budget: provisioning keeps the spelling it is given
  and sign-ins lower it, so an address provisioned with a capital is a second user with a
  budget of its own, which no sign-in leads to. The model has ids for as many users as
  there are spellings; with fewer nobody could get in.
- `KeysAreBounded`: the count and the creation of a key are two statements; with `n`
  calls in flight the maximum is exceeded by `n - 1` at most.
- `SessionsEnd`: a token stops working though the error of a logout is dropped.
- `ClampIsBest`, `HoldRoundsUp`: the hold fits into what is left, one more output
  token would not have at the price of the first look-up, a refusal has a reason (which
  may be that the price changed before the second one), and rounding costs less than
  2 micro-USD.
- `HoldCoversBill`: a provider that keeps to the caps it was sent (`KeptToCaps`), counts
  no more input than the guard did and names no price of its own is never charged
  more than the hold, unless its model was made dearer between hold and settlement;
  then no more than the held tokens cost at the new price, so what a change of prices
  adds to a request under way is the difference for its own tokens. The preconditions
  are needed: a request without a cap is held for the default but forwarded without
  one, and input is an estimate.
- `ReportIsOfAnswer`, `ChargedAsReported`: however a body is cut into writes and lines
  and wherever it ends, the charge is that of the last report of each number in it, at
  the price of the settlement, stated over the events of the answer and not over its
  pieces.

## Findings

1. **A lost settlement reply releases somebody else's reservation**
   (`guard.go:466`). `settleUsageAsync` answers any error with a release of the
   same amount. When the settlement committed and only its reply was lost, the
   amount is taken from `reserved_microusd` twice, so another request in flight
   on that row is no longer covered. The comment at `guard.go:475` avoids a
   retry for this very reason; the fallback is exposed to it too. `CountersErrLow`
   bounds the damage: each lost reply frees its own amount once.
2. **A broken-off response keeps its hold and is not charged** (`proxy.go:229`).
   `httputil.ReverseProxy` panics with `http.ErrAbortHandler` when the body
   cannot be copied to its end, and `logCompletedUsageAsync` is called after it
   without `defer`. `HOW_TO_USE.md:449` says the cost is settled or the
   reservation released.
3. **A member removed in flight keeps the pool's hold** (`teams.go:619`).
   Settlement and release both require an active membership.
4. **Three equal calls within three minutes can all get through**
   (`circuit_breaker.go:28`). The window is fixed: it starts with the first check
   and the count starts at 1 again after it. `HOW_TO_USE.md:420` says that the
   third call within three minutes is blocked; with the default threshold of 3
   up to three get through when they straddle the end of a window.
5. **A revoked invite can still be accepted** (`teams.go:586`). The acceptance reads
   the pending invites, then adds the member and marks each invite accepted without
   asking for its status again. A revocation in between succeeds, and the address
   joins; the comment at `teams.go:509` says it can no longer.

Lost reservation replies and process exits strand holds as well (the code has
no recovery for them, nor does a document promise one); `guard_faults` shows
that they strand only their own amount.

## Proofs

`TotalsTheorems` proves the laws of the sum. `Total(f)` is the number of tokens
`<<x, 1>> .. <<x, f[x]>>`, so no induction is needed: changing `f[x]` exchanges
the tokens of `x`, and the library's facts about cardinalities do the rest.

`GuardTheorems` proves, for every set of users, teams and requests (users and
requests finite), every catalog and every bill:

| Theorem | Statement | Assumes |
|---|---|---|
| `TypeCorrect` | `Spec => []TypeOK` | |
| `HoldsFollowPhases` | `Spec => []HoldFollowsPhase` | |
| `ReservedCorrect` | `Spec => []ReservedIsOutstanding` | no lost settlement reply |
| `ForwardedBacked` | `Spec => []ForwardedIsBacked` | no lost settlement reply |
| `SpentCorrect` | `Spec => []SpentIsBilled` | no reset |
| `SolventAlways` | `Spec => []Solvent` | no lost settlement reply, limits and spending not reset |
| `PoolsAddUp` | `Spec => []PoolIsMembers` | no lost settlement reply |
| `FinishedAreFree` | `Spec => []FinishedHoldsNothing` | no failed store call, lost reservation reply, hangup, exit or removal |
| `BookImplemented` (in `GuardRefinement`) | `Spec => ImplementsBook` | no lost settlement reply |
| `DriftTypes` | `DriftSpec => []DriftTypeOK` | |
| `CountersStayClose` | `DriftSpec => []CountersErrLow` | |
| `DriftIsAllThatIsLost` | `DriftSpec => []SolventDespiteDrift` | limits and spending not reset |
| `PoolsStayExact` | `DriftSpec => []PoolsAreExact` | no lost settlement reply |

The inductive invariant `IInv` adds to `ReservedIsOutstanding` what makes each
release exact. A release subtracts `amt[r]` from each row of the scope; that
keeps the sum only if `r` really holds `amt[r]` (`HoldFollowsPhase`, and
`NoStaleFallback`: a request in its fallback has not settled) and if `MAX(0,
...)` does not cut, which follows from the invariant itself because a sum is at
least each of its parts (`TotalBound`). Where a settlement reply is lost,
`NoStaleFallback` is what fails, and finding 1 is the run that shows the
consequence. `Solvent` then follows step by step from `CanCover`, and
`ForwardedIsBacked` from `TotalBound` alone.

`PoolIsMembers` needs `IInv` too: a settlement moves pool and membership by the same
amounts only where `MAX(0, ...)` cuts neither (`PoolMoves`). `FinishedHoldsNothing`
is inductive together with `HoldersResolve`: until a hold is given back, the team it
was taken under still resolves for its user. A removal breaks exactly that, and the
run `removal` shows the consequence.

`BookImplemented` rests on `RInv`, which adds to `IInv` that limits come from the
start or from an administrator and that a bill about to be settled comes from a
provider. With it the initial states are the book's, and each step of `Guard` is
one of the book or none: a granted reservation, heard of or not, is `Admit` (of
nothing, for a free call), because the counters leave what the holds leave
(`FreeIsLeft`); `Settle` is `Charge`, `Release` is `Return`, `Admin` is `Adjust`.
Where a settlement's reply is lost the fallback's release makes a counter smaller
than the sum of holds, and the next reservation need not be an admission.

`DInv` needs no assumption about faults: it keeps the true sum of holds between
`reserved` and `reserved + Drift`. To the holds a step of the guard does one of four
things (`HoldsMove`): nothing, it takes one, it ends one, or it releases what has
ended before. Only the last widens the gap, by its own amount, and only once, as the
request is then at its end (`TwiceDone`, `DriftAfterAgain`). A release that
`MAX(0, ...)` cuts is one the drift covers, and a revival turns what the seat
showed into drift. `SolventDespiteDrift` follows step by step: a reservation compares
with a counter that is at most the drift short. `PoolsStayExact` is the case in which
nothing is released twice (`NoneTwice`), as no user and no pool is ever revived.

`LoopBreakerTheorems` proves for every threshold, TTL, set of keys and finite set
of requests:

| Theorem | Statement |
|---|---|
| `TypeCorrect` | `Spec => []TypeOK` |
| `CountersCorrect` | `Spec => []CountIsWindow` |
| `LoopsAreBounded` | `Spec => []FewGetThrough` |

The invariant `WInv` needs no record of past windows: checks older than the open
window and younger than `TTL` all belong to the one window before it
(`WindowTicks`), whose first check is exactly `TTL` old when Redis drops the key.
So they were counted from 2 up, all differently (`BeforeInOrder`), and those of the
open window from 1 up (`WindowInOrder`). Requests that got through were counted
below the threshold, and an injection into each range bounds their number
(`FewDistinct`).

`MembershipTheorems`, `CatalogTheorems`, `AccountsTheorems` and `MeteringTheorems`
prove, for all values of the constants:

| Theorem | Statement |
|---|---|
| `MembershipTypes`, `OneInvitePending`, `OwnersAreMembers`, `AcceptedHaveJoined`, `CapsAreAffordable`, `PoolsCoverSeats` | `Spec => []P` for `TypeOK`, `OnePending`, `OwnersStay`, `AcceptedJoined`, `CapsWereAffordable`, `PoolCoversSeats` |
| `CatalogTypes`, `PricesAreServed` | `CatalogSpec => []CatalogTypeOK`, `=> []CatalogServed` |
| `FileAddsOnly` | `CatalogSpec => FileNeverOverwrites` |
| `AccountsTypes`, `PeopleHaveOneUser`, `KeysStayBounded` | `AccountsSpec => []P` for `AccountsTypeOK`, `OneUserPerPerson`, `KeysAreBounded` |
| `ClampsAreBest`, `HoldsRoundUp` | `MeteringSpec => []ClampIsBest`, `=> []HoldRoundsUp` |
| `MeteringTypes`, `BillsAreCovered` | `MeteringSpec => []MeteringTypeOK`, `=> []HoldCoversBill` |
| `ReportsAreExact`, `ChargesAreReports` | `MeteringSpec => []ReportIsOfAnswer`, `=> []ChargedAsReported` |

`MInv` of `Membership` adds what a call in flight carries (`Fits`): its team exists,
with its owner as an active member, its cap was affordable once, the row it is to
revive, read back or have joined is there, and so are the invites it has read. Without
that no statement that trusts an earlier one could be followed. `PoolCoversSeats` needs
its own induction: spending goes on seat and pool together, re-adding only lowers a seat.
`CInv` of `Catalog` says that operators work only in a process that is up
(`TasksInv`), that no listing of nothing is on its way into memory, and that a price
about to be dropped is one an operator has deleted (`CopiesInv`). In `AInv` of `Accounts`, `KnownUsers` says that keys, calls, identities and
sessions name rows that exist, so a fresh id has no keys; `KeysAreBounded` is inductive by
counting what is active together with what is about to be; and `OneUserPerPerson` follows
from `UniqueEmails` with `LinkedByEmail`: an identity always leads to the user with its
address, which the lookup in one statement and the insertion in a later one must both
respect. `HInv` of `Metering` ties the hold, the price it was quoted at, the tokens it is
for and the caps that were forwarded. The arithmetic is in lemmas about `CeilDiv` and division;
one of them (`RoomFits`) shows that the product nobody checks cannot overflow, because
the clamp is reached only when the full estimate fits an int64 and exceeds what is left.

What an answer is charged is proved for answers of any number of events, however
they are cut. `RInv` says it of every moment, not of the end: when the counter has
gone through the first pieces, its numbers are the newest ones the events read so far
have reported, plus the text after the newest report of output (`Tally`, `Newest`,
`TextBetween`), and its buffers hold what has come of the event that is on its way
(`LineOf`, `DataOf`). Where in an event a piece lies is arithmetic on its index
(`InStream`), so each piece is one step of an ordinary induction over the behaviour
and nothing has to be folded over the sequence. `Finish` is one step more: of the
event that is cut off it reads the half that came if the usage lies there. A body that
is no stream has one event, and the capture reads what the counter would
(`DocumentInv`). `BInv`, that a bill is the charge of its report at the price of the settlement, and `RInv`
together give `ChargesAreReports`; with `HInv` and costs that are monotone in the price
and in the tokens (`CheaperCostsLess`) they give `BillsAreCovered`.

The assumptions are those of the modules: each team has an owner among the
users who is a member at the start, start limits are natural numbers, quotes,
bills and limits are natural, requests are finite in number, `NoTeam` is no
team, and threshold and TTL are positive (`withDefaults` replaces 0, `Validate`
refuses less); users are finite in number, and no row is in two of the tables
`user_budgets`, `teams` and `team_members`. TLC evaluates them on every run.

Every safety property of the passing runs is a theorem, and `Solvent` and
`PoolsAreExact` besides. Checked by TLC only: the
liveness properties (`HoldsComeBack`, `EveryRequestEnds`, `CountersExpire`,
`ChecksEnd`, `InvitesSettle`, `CopyCatchesUp`, `SignInsSucceed`, `SessionsEnd`), as
fairness and ENABLED are beyond the prover.

## Not modelled

- `usage_events` rows of blocked requests and `last_used_at`: no decision reads
  them. The row of a settlement is `settled`.
- 64-bit widths outside `Cost`: `Guard`'s amounts are natural numbers.
- The clock: a timeout is a reply that does not come (`error`, `lost_reserve`,
  `lost_settle`), at any moment.
- Foreign keys, deletion of users and teams (the program has no such call).
- What is inside JSON, headers, prices as decimal strings, conversions of dollars to
  micro-USD: the modules take any result there may be.
- Routing, views, configuration, connection handling, CORS, the web portal.

## Plan

1. `Guard` with `LoopBreaker` for its loop goroutine. `Guard` already takes any
   verdict at any moment, and a request is forwarded only after one that passed, so
   its properties hold of the pair; what is to be gained is `FewGetThrough` said of
   forwarded requests, a tripped one giving its hold back.
2. Invites of removed members: an owner's removal leaves an invite pending that
   brings the member back; a property needs a statement of what is wanted.
