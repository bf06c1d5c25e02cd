# smShop: formal specification

smShop is a shop for custom cakes: a NestJS API (`src/apps/api`) over PostgreSQL through
Prisma (`src/packages/db`), and a Next.js web application (`src/apps/web`). This directory
specifies the parts of it whose correctness depends on what happens at the same time. It
is written in TLA+, model-checked with TLC and, where marked, proved with TLAPS.

## 1. The system

| Component | State | Operations | What makes it hard | Modules |
|---|---|---|---|---|
| Sessions (`auth/session`) | `auth_sessions` rows; requests in flight; refresh cookies | login, Google sign-in, refresh, logout | requests interleave between a read and the transaction that acts on it; lost answers; expiry during a refresh | AuthSession, SessionLedger |
| Password reset, email verification | token rows, the account's password, `emailVerifiedAt` | forgot/resend, reset, verify | two requests consume one token; a caught unique violation in an aborted transaction | AccountTokens |
| Registration, Google linking | `users`, `auth_accounts`; the OAuth transaction cookie | register, start, callback, `resolveIdentity` | duplicate addresses or subjects decided by unique constraints; recovery in several statements; one cookie per browser | Identity |
| User administration | `users.role` | changeRole, deleteUser, dashboard, bootstrap; `RolesGuard` | the guard's answer is stale when the handler runs; the last administrator; restarts that promote | AdminUsers |
| Rate limiter, Turnstile | in-memory buckets; the widget's token | consume; guard order; siteverify | window boundaries, spent tokens, failing closed | RateLimiter, PublicForms |
| Categories | the tree per area | create, update, delete | checks read outside a transaction: cycles, deletes under use | CategoryTree, Shop |
| Catalogue, shop products, tags | product rows, tags | create, update, delete, ensure | pricing checked against a stale row; duplicate tags | ShopProducts, CatalogTags, CategoryTree, Shop |
| Contacts | cities, stores, hours, groups | create, update, delete | replace-all of hours; deletes under use | Contacts, Shop, PublicForms |
| Contact form, mail | none of its own | submit | recipient read at submission; success only after the mail | PublicForms |
| Web session context | access token in a ref, user, status; in-flight refresh and bootstrap | bootstrap, login, logout, refresh, authedRequest | late answers; several tabs share a cookie | WebSession |
| Administration screens | lists, forms, dialogs, requests in flight | open, submit, upload, delete, switch | answers out of order or to a screen that is gone | ProductsPanel, CategoriesPanel, UsersManager, ContactsScreen, AdminScreens |
| Media, public queries, configuration, scripts | files; none | save, resolve; read | no state that operations share | none |

Components call each other in one direction: the web application calls the API over HTTP
with the refresh cookie; controllers run guards (rate limit, Turnstile, access token, role)
and then a service; services meet only in the database. All transactions run at READ
COMMITTED, but those of `AdminUsersService`, which are serializable. So the modules on the
server side are split by table, those of the browser by what is on the screen, and they are
composed where they meet: `WebSession` runs several tabs against `SessionLedger`, which
`AuthSession` is proved to implement, and `PublicForms` runs a form against `RateLimiter`.

`PROJECT.json` lists every component with its files and status, and every hazard of the
code at its line, with the properties that cover it or the reason why none does.

## 2. Plan

Done: sessions with their ledger (**AuthSession**, **SessionLedger**), tokens
(**AccountTokens**), accounts and Google linking (**Identity**), roles (**AdminUsers**),
the catalogue and the contacts (**CategoryTree**, **ShopProducts**, **CatalogTags**,
**Contacts**, composed by **Shop**), the public forms (**RateLimiter**, **PublicForms**), the
browser (**WebSession**) and the administration screens (composed by **AdminScreens**).
Every invariant and action property of the passing runs is proved for all values of the
constants (section 5).

Open: the token pages (`verify-email-client.tsx`, `reset-password-form.tsx`), which send one
request each and show its answer; retrying Google's discovery.

## 3. Modules

### AuthSession

Models `auth-session.service.ts` with the requests that drive it, and the operations of
other services that end sessions.

*State.* `row[s]` is a row of `auth_sessions`: `revokedAt` is the status, `expired` tells
whether the clock passed `expiresAt`, `hash` is the refresh token's hash (a token stands for
its hash: SHA-256 of 256 random bits). `user[u]` is the user with its CREDENTIALS account.
`req[p]` holds the locals of request `p` between two awaits. `delivered` is the tokens some
client received. `birth`, `rotations` and `resetSaw` are history: no guard reads them.

*Steps.* A request is split where another request can run in between and make a difference:

| Code | Actions |
|---|---|
| `login` up to the password check | `Login` (a rejected login is no step) |
| `handleCallback` with a resolved identity | `GoogleSignIn` |
| `createSession` | `BeginCreateSession` (the snapshot its `updateMany` selects from), `CommitCreateSession`, `RejectCreateSession` (foreign key) |
| `refresh` | `LookupSession`, then `Rotate` or `LoseRotation` (count 0) |
| `logout` | `Logout` (one statement) |
| the controller's response | `Answer` |
| `resetPassword` | `BeginReset`, `CommitReset` |
| `deleteUser` (cascade), `verify` | `DeleteUser`, `ConfirmEmail` |
| crash, lost connection at any await | `Abort` |
| the clock | `Expire` |

A READ COMMITTED `UPDATE ... WHERE` selects rows from a snapshot taken at its start and
checks each again after waiting for its lock; `Revoke(seen)` is that. Rows inserted after
the snapshot are not updated, which is the source of both divergences below. A reset holds
the row lock of the account from its password update on, so two resets of one user, and a
reset and a cascade, exclude each other.

Not in the model: Argon2, JWT signing and cookies' attributes (conversions without state);
`me` (read only); the 401, 403 and 400 answers, which change nothing.

### SessionLedger

What a session store promises: a session has an owner and at most one current token; a
token is accepted only while it is current, is replaced by a fresh one when redeemed and is
never accepted again; opening a session may end others, of the same user only; sessions end
for good. `AuthSession` maps to it (`LedgerOwner`, `LedgerCurrent`, `LedgerSpent`).

### AccountTokens

Models `email-verification.service.ts` and `password-reset.service.ts`, which share one
life cycle, with registration, Google sign-in and deletion as far as they touch tokens.

*State.* `tok[t]` is a row of one of the two token tables (`kind`): `consumedAt` is the
status, `expired` tells whether the clock passed `expiresAt`; a token stands for its hash.
`user[u]` is the user with the password of its CREDENTIALS account, named by the token that
set it (or `Registered`); `None` is a user without that account. `req[p]` has the locals of
a request and the locks of its transaction: `lock` on the user, `account` on the CREDENTIALS
account, `mine` on tokens. `saw` is what its statements found unconsumed and `todo` what its
`updateMany` has still to lock. `ended` and `accepted` are history; `late` is a local that
no guard reads and that the history takes over.

| Code | Actions |
|---|---|
| `register` (commit) | `Register` |
| `resend`, `forgotPassword` | `Ask` (eligibility, read outside the transaction), `BeginIssue` (snapshot of `updateMany`), `LockToken` for each row, `CommitIssue` (insert, foreign key, commit), `SendMail` |
| `verify`, `resetPassword` up to the checks | `FindToken`, `ReadUser` |
| the user's update in `verify` | `LockUser` |
| the account's update or create in `resetPassword` | `LockAccount`, `InsertAccount`, `LoseInsert` |
| `update` by id, then `updateMany` | `ConsumeToken`, `LockToken`, then `CommitReset` or `CommitVerify` |
| `resolveIdentity` | `RegisterWithGoogle`, `VerifyWithGoogle` |
| `deleteUser` and its cascade | `BeginDelete`, `LockAccount`, `LockToken`, `CommitDelete` |
| any failure, crash, deadlock victim | `Abort` |

*Locks.* A writing statement waits for its row and keeps it to the end of the transaction,
and what it writes is seen by others from the commit on; so a write is a lock now and a
change at commit. Three strengths matter on the user row: KEY SHARE (the foreign key of an
insert), NO KEY UPDATE (`emailVerifiedAt`) and UPDATE (delete); `Clash` is their conflict
table. A row that `updateMany` waited for is evaluated again: `LockToken` leaves it alone if
it is consumed by then. SQL does not say in which order `updateMany` locks its rows, so the
order is free. `ConsumeToken` goes by id and checks nothing again, as the code does.

The sessions that `resetPassword` revokes are in `AuthSession`. Their locks are left out
here: they are taken last, behind the account's.

### Identity

Models who an account belongs to: `AuthService.register`, `resend`, `verify`, and the Google
sign-in of `google-auth.service.ts`, `google-auth.controller.ts` and
`google-account.service.ts`.

*State.* `user[u]` is a row of `users` with its CREDENTIALS account, `google` the GOOGLE rows
of `auth_accounts` with the address that Google proved for each. `req[p]` is a Google sign-in,
`cookie` the one whose OAuth transaction the browser's cookie holds, `mailed` the users whose
verification mail arrived. `disturbed` and `cut` are history.

The callback reads the cookie and clears it on its reply, which reaches the browser only with
the redirect, after the exchange, the resolution and the session. So the cookie goes when the
callback is answered (`Answer`), and it goes whoever it belongs to by then: a sign-in that
another tab started meanwhile loses its cookie and is refused. `RefusedOnlyIfOverlapped` says
that a refusal needs that much: another sign-in of the browser under way at the same time
(`UnderWay`), or an expired cookie; one that was abandoned and replaced harms nobody.

| Code | Actions |
|---|---|
| `register` with its mail, `resend`, `verify`, `deleteUser` | `Register`, `Resend`, `Verify`, `Delete` |
| `start`; the cookie's `exp` | `Start`; `Expire` |
| `handleCallback` to the exchange; Google's error; the transaction refused | `Callback`; `Deny`; `Refuse` |
| `resolveIdentity`: by subject, the claim's checks | `Resolve` |
| its transaction: read, then insert and commit | `Look`, `LinkUser`, `CreateUser`, or `Collide` (P2002) |
| the reconciliation after P2002 | `RacedSub`, `RacedUser`, `RacedLink`, `Confirm`, `Again` |
| `createSession` and the redirect; any failure | `Finish`; `Abort` |

An insert waits for a concurrent transaction that holds the same key and sees its outcome, so
"insert and commit" is one step; what was read before it is in the request's locals. The
reconciliation runs outside a transaction: between `RacedLink` and `Confirm` a linked user is
unverified, and stays so if the request dies there. `AccountTokens` has the verification token,
`AuthSession` the session.

### AdminUsers

Models `admin-users.service.ts` behind `access-token.guard.ts` and `roles.guard.ts`, with
`initial-admin-bootstrap.service.ts`.

*State.* `role[u]` is `users.role`; `verified` the configured account's `emailVerifiedAt`;
`api` the process; `req[p]` a request; `board` the dashboard's query, followed for one user;
`able` is history: the requests whose actor was administrator since they arrived.

| Code | Actions |
|---|---|
| `onModuleInit`: lookup, update | `StartUp`, `Promote`, `FailPromotion` |
| process death, Docker's restart | `Crash`, `Restart` |
| a request, the guards, the check of self | `Arrive`, `Guard` |
| `changeRole`, `deleteUser`: reads, write and commit | `Read`, `Commit`, `Fail` |
| `getDashboardSummary` | `OpenBoard`, `CountRole` for each count |
| `register`, `verify` | `Register`, `Verify` |

SERIALIZABLE is modelled by what it promises: a transaction commits only if, run alone at that
moment, it would have read what decided it (`Serializable`). A `COMMIT` that was sent before
the process died may still succeed. The dashboard's statements run at READ COMMITTED with a
snapshot each.

### CategoryTree, ShopProducts, CatalogTags, Contacts

The administration's tables. In each a request reads, awaits and writes, and what it read may
have changed; only foreign keys, unique constraints and row locks hold at the write.

- **CategoryTree** models `categories.service.ts` and the category side of both products
  services. `assertNoCycle` is walked one ancestor per statement (`WalkUp`), up to `MaxDepth`.
  `raced` and `tooDeep` record that a re-parenting was written over an overtaken walk, or over
  one that gave up.
- **ShopProducts** models price, sale price, sale dates and SKU of `shop-products.service.ts`
  and `shop-product.policy.ts`: `BeginUpdate` reads the row, `CheckUpdate` checks row and patch
  merged, `WriteUpdate` writes the patch alone. `lostUpdate` records that the row had changed.
- **CatalogTags** models `ensure` of `catalog-tags.service.ts`: find, create, and find again
  after a unique violation.
- **Contacts** models `cities.service.ts` and `stores.service.ts`. `update` of a store runs a
  transaction whose first statement updates the row and so takes its lock, unless the patch
  holds nothing but hours: then Prisma has no column to write, issues no UPDATE, and nothing is
  locked (`TouchStore`). The week of hours is then deleted, from a snapshot (`SeeHours`,
  `DeleteHours`), and inserted (`InsertHours`, `Commit`). Two patches of the hours alone can
  both delete and both insert; the later one meets `@@unique([storeId, weekday])` and is rolled
  back. One week stands for seven rows, which are only ever written together.
  `StoresWhole` says that the hours are those of one request whatever happens, and that a
  refusal like that needs a request that took no lock (`raced`, `collided`).

**Shop** composes the four: their tables are disjoint and no request touches two of them, so
a behaviour chooses a part at its start and exercises that one. `MCShop` is its instance.

### RateLimiter and PublicForms

**RateLimiter** models `rate-limiter.ts` and `rate-limit.guard.ts`: a bucket knows its count
and the time it still lasts, `Tick` ages everything, `Restart` forgets it. Time is relative, so
it needs no bound. A tick is what the clock can tell apart, `Second` is how many of them a
second has, and `RetryAfter` rounds what is left of a window up to whole seconds, one at least.
`wait` follows a client that was refused and waits as told. Expired buckets and absent ones are
the same here; that the code never removes one is not modelled. `admitted[k][a]` is history: how
many requests of key `k` passed at most `a` ticks ago, `a` within one window.

**PublicForms** models one tab on a form that Turnstile protects, from the widget to the
answer: `turnstile.tsx`, the forms' gate, `login-form.tsx`, `register-form.tsx`,
`forgot-password-form.tsx`, the contact form, `turnstile.guard.ts`, the verifier,
`contact-form.service.ts`, the mail transport and the update of a contact group. The forms
share their gate, so `Send`, `Enabled` and `Show` stand for each of them; `Pages` is which.

| Code | Actions |
|---|---|
| `loadTurnstileScript`, the widget's effect | `ScriptLoads`, `ScriptFails`, `RetryLoad` |
| the widget's callbacks | `Solve`, `Expire` |
| `onSubmit`, `onResend` with `turnstile.reset()` | `Send` |
| `RateLimitGuard`, `TurnstileGuard`, the handler | `RateLimit`, `Verify`, `Handle` |
| `ContactFormService.submit` | `Resolve`, `Mail` |
| the answer, or none | `Receive`, `Lose` |
| other visitors, time, restarts | `Elsewhere` (every step of RateLimiter) |

### WebSession

Models `auth-context.tsx` in several tabs of one browser, with the pages that read it
(`login-form.tsx`, `redirect-if-authenticated.tsx`, the account page and the administration
area, the header). `Server` is an instance of `SessionLedger`.

*State.* `tab[t]` is the provider's state and the page; `net` the requests on their way or
their answers; `jar` the browser's refresh cookie. A request is sent with the cookie of that
moment, served in any order by the ledger's `Open`, `Redeem` and `Close`, and its answer
handled with its Set-Cookie. `crossed` is history: the request met one that its own tab does
not line up with it, namely of another tab or an earlier page, a sign-in or sign-out, or a
refresh for a call while `bootstrap` awaits `fetchMe`. The last happens when a Retry runs
`bootstrap` beside a call sent earlier, which is then refused and refreshes: until the answer
arrives the browser holds the cookie that this refresh has spent. `MayRedirect` tells whether
a page's redirect is due.

| Code | Actions |
|---|---|
| `bootstrap`, by mount, retry or `?oauth=success` | `Reload`, `Retry`, `OAuthEffect` |
| `login`, `logout`, `authedRequest` | `Login`, `Logout`, `Call` |
| `refreshAccessToken`, `refreshInFlight` | `WithRefresh`, in every action that needs a token |
| the API | `Serve`, `Fail` |
| what follows an await | `Receive`: `OnRefresh`, `OnMe`, `OnLogin`, `OnLogout`, `OnCall` |
| redirects, links, Google | `Redirect`, `Navigate`, `GoogleReturn` |
| other devices, resets, administrators | `EndElsewhere`, `Delete` |

### ProductsPanel, CategoriesPanel, UsersManager, ContactsScreen

The administrator's screens, `products-panel.tsx`, `categories-panel.tsx`, `users-manager.tsx`
with the dashboard, and `contacts-admin.tsx`: the lists and the runs of the effect that fetches
them (`Fetch`, and `Cancelled`, the effect's clean-up), the form, the delete dialog, and the
requests in flight, which are carried out, refused or lost. While the dialog is busy both its
buttons are disabled; it then has nothing to keep the focus on (`confirm-dialog.tsx:84-89`), and
Tab leads to the page behind it, which takes input: no action of a page waits for the dialog to
close. The products' list is the first page of its scope (`FirstPage`). A row is known by the opening of
the form it was last saved in, a list of contacts by how often it was changed: enough to tell
an old list from the server's. `behind`, `crossed`, `shared`, `turned` and `mislaid` are history
and name what each screen is known to lose:

- an answer that is lost, or reaches a panel no longer there;
- a role change of a user that is carried out after a newer one of the same user, while the
  newer one's answer is what the list keeps (`users-manager.tsx:107`; `OnRoleSaved`);
- `users-manager.tsx` has one `pendingId` for all rows (lines 54, 119, 143). When another row's
  save settles, or another row is asked about, the dialog is no longer busy although a delete
  is in flight, and can be dismissed or confirmed again. The second delete's answer may then ask for
  the page already shown (lines 134-135), which fetches nothing and leaves the screen loading.
  `ScreenCatchesUp` and `DeletesTakeTurns` hold when no two rows' requests are in flight at
  once (`shared`);
- the same happens with one delete, of the last row of a page, when "Atgal" is pressed behind
  its busy dialog: the page is turned already when the answer turns it (`turned`);
- a tab pressed behind a busy dialog unmounts the panel with its delete in flight. What the
  panel mounted next shows can be deleted again while the first request is in flight, although
  the comment of `confirm-dialog.tsx` (lines 31-34) says that a delete is never abandoned or
  submitted twice. `DeletesTakeTurns` is what holds: it is about the panel shown;
- an upload answers into whichever form is open by then (`products-panel.tsx:261`);
  `SavedAsFilled` holds for forms that were opened with none on its way;
- the three lists of `contacts-admin.tsx` are fetched after every change, and two such fetches
  are not ordered.

**AdminScreens** composes the four: the area shows one screen at a time and mounts it anew.
`MCAdminScreens` is its instance.

## 4. Runs

| Run | Instance | Shows |
|---|---|---|
| `sessions` | 1 user, 2 requests, 3 sessions, 3 tokens, 1 password; requests symmetric; 4.3 million states | all safety properties (no session outlives its user among them), action property and refinement hold |
| `single_session` | same | violated: two concurrent sign-ins leave two active sessions |
| `reset_boundary` | 2 passwords | violated: a login that checked the old password survives a reset |
| `tokens` | 1 user, 2 requests, 3 tokens; requests symmetric; 778 060 states | all safety properties of `AccountTokens` hold |
| `token_reuse` | same | violated: two overlapping resets with one token both succeed |
| `reset_race` | same | violated: a lost race for the first password is not recovered from |
| `identity` | 2 users, 2 addresses, 2 subjects, 5 claims, 2 sign-ins, 1 lost mail; 815 964 states | nobody is signed in as or linked to somebody else; accounts come to life |
| `admin_users` | 3 users, 2 requests, 2 crashes; 5.0 million states | an administrator remains; only administrators change roles; the API starts again |
| `shop` | 3 categories, 1 product, 2 requests, `MaxDepth` 2; 2 shop products; 3 tag names; 2 cities, 2 stores, 2 weeks; 3.8 million states | what the checks outside transactions save, and exactly when they do not |
| `public_forms` | 3 load attempts, 2 addresses, limit 2, window of 3 ticks, 2 ticks to a second; 829 080 states | tokens are sent once, success is honest, windows and Retry-After are what they promise, forms can be submitted again |
| `web_session` | 2 tabs, 2 calls in one, 1 user, 2 sessions, 2 tokens, 1 lost request, 1 event; 2.2 million states | no page waits for nothing; a tab is wrong about its session only after a crossing |
| `admin_screens` | 1 product and 1 category per area, 2 openings; 3 users, pages of 2; 3 fetches; 2 changes in flight; 2 changes to contacts; 3.7 million states | lists catch up, a screen sends one delete at a time, forms save their own |

Bounds of `AuthSession`. `Sessions` and `Tokens` bound how many are ever created: when they run out a
sign-in stops there (`Abort` is still possible). Three sessions let two concurrent sign-ins
meet an older session; three tokens let a session be rotated twice, or two sessions exist
and one rotate. Two requests give every pair of operations in every interleaving, and
logout, expiry, deletion and verification need no request of their own. Sessions of
different users meet only in the owner that `Active` selects by; the proofs cover any
number of users. `CHECK_DEADLOCK` is off: once every user is deleted nothing is left to do.

Bounds of `AccountTokens`. Three tokens let two tokens of one kind exist with a third being
issued, which is what it takes for `updateMany` to lock rows in either order and for
transactions to wait for each other in a circle. Two requests give every pair of
transactions in every interleaving of their statements. Tokens of different users meet in no
statement. `CHECK_DEADLOCK` is off for the same reason, and because a circle of waiting
transactions always has `Abort` as a next step: deadlocks are found by `Deadlocked`, not by
the checker.

Bounds of `Identity`. Two sign-ins and a registration between any two of their steps give
every race over an address or a subject; `FiveClaims` has two subjects with one proven
address, a subject whose address changed, an unproven address and none. `Users` bounds how
many are ever created; a deleted one frees its address.

Bounds of `AdminUsers`. Three users are two administrators that demote or delete each other
and one that is neither; `Asked` leaves out "editor" as a target of changes, which the code
treats as "user". Two requests overlap with crashes, promotions at start and the dashboard; it takes the second
crash to promote again an account that was promoted before, demoted and is about to be deleted.
The proofs cover any number of each.

Bounds of `shop`. Three categories are the least with a cycle whose members are moved by two
requests, and a chain longer than `MaxDepth` 2 (50 in the code: only the end of the walk
matters, not where it is). Prices 1 and 2, one SKU and four patches suffice to break each
pricing rule. `CHECK_DEADLOCK` is off: ids run out.

Bounds of `PublicForms`. `MaxAttempts` 3 (10 in the code) lets a load fail, be tried again and
give up; limit 2 in a window of 3 ticks lets a window be refused, run out and straddle the next,
and two ticks to a second make the window no whole number of seconds, so that what is left of it
is rounded. One usable address and one that is not are enough for a recipient that changes
between its reading and the mail.

Bounds of `WebSession`. Two tabs give every crossing of two; two calls share one refresh. Two
sessions and two tokens are used up by a sign-in and one rotation, or by two sign-ins; from
then on the API fails (`Fail`), so that nothing waits for a token the instance lacks. One lost
request and one event (a reload, a link, Google, the session's end from outside, a deletion)
may happen anywhere. `CHECK_DEADLOCK` is off: with its bounds spent, a browser may rest.

Bounds of the screens. One row per area is enough for a form and a dialog about it next to a
form for a new one; that the products' list may be longer than its page is left to the proof.
Openings, fetches, changes and mountings are counted; two changes of users (`MaxSent`) may be in
flight at once, which is all it takes for one to disturb the other. Three users in pages
of two make a page that empties when its last row goes. `CHECK_DEADLOCK` is off: the counters
run out.

### Fairness

Three modules state liveness, under weak fairness of steps that somebody is bound to take:

- `AdminUsers`: a process that exited is restarted (Docker's policy) and a start goes on; with
  `ApiComesUp`. Nothing is assumed of requests, and a crash is never required.
- `Identity`: the API goes on with a request, and the owner of an address asks for another
  mail and follows its link; with `AddressBecomesUsable`. A mail may be lost each time,
  `MaxLost` times in all: a mail server that loses everything helps nobody.
- `PublicForms`: timers and events of the browser, Cloudflare's widget, the API's steps and
  the end of every fetch; with `SubmittableAgain`. Whether each of them succeeds is left open.

The other modules state safety only.

### What the violated runs show

`SingleUse` and `RaceIsReconciled` are what the schema and `docs/authentication.md` say of
reset tokens. What holds is `NoUseAfterUse` (a second use must overlap the first) and
`CommitEndsWhatItSaw`. The race is lost because PostgreSQL aborts a transaction at its first
error: the `findFirst` that would reconcile it fails with it, the reset answers an error and
its token stays usable.

`SingleActiveSession` and `SessionsUseCurrentPassword` are what the documentation says
(`docs/authentication.md`, "Single active session" and "Session revocation"), and the code
does not give it under concurrency; `findings` in PROJECT.json quotes the lines. What does
hold is `LoginEndsWhatItSaw`, `ActiveBoundedByConcurrency` and `ResetEndsWhatItSaw`.

Some properties of the passing runs name what the code does not prevent: `CycleNeedsRace` (two
concurrent re-parentings, or a chain beyond `MAX_DEPTH`, can make a cycle), `SaleNeedsRace` (a
sale price above the price after a lost update), `StoresWhole` (hours refused for another's after
a replacement that locked nothing), `LinkedIsVerified` (a request cut off between two statements),
`RefusedOnlyIfOverlapped` (two sign-ins at once share a cookie), `WrongOnlyIfCrossed` (a logout
answered while `fetchMe` is in flight shows the user as signed in; so does, until its answer arrives, a refresh that a call starts while a
Retry awaits `fetchMe`), and the exemptions of the screens in section 3. Each says that in the
model, with everything of the code that it has, nothing else leads there.

Every property of a passing run is shown sensitive by a mutant: an operator `X_Y` next to
`X` with a plausible bug, under which the run fails.

## 5. Proofs

Every invariant and action property of the passing runs, and the refinement, is proved for
all values of the constants that satisfy the named assumptions. TLC checked each formula
first; where an invariant did not turn out inductive, the strengthening is said below.

### AuthSession

`AuthSessionProofs` proves, under `NoneIsAbsent`, `IdsAreNumbers` and `RequestsAreFinite`:

- `TypeCorrect`: `TypeOK` with `RequestsFormed`, which ties the stage of a request to the
  fields it has set. `TypeOK` alone is not inductive: a commit needs to know that it has a
  user.
- `OwnersStay`. A step that is not a deletion leaves every user there (`UserStep`) and creates
  rows only for users that the foreign key found; `DeletionStep` takes the user's rows along.
- `RefreshTokenSingleUse`. `RedeemedOnce` is not inductive; `TokenInv` adds that tokens in
  the table were issued, that no two rows share one, and that a redeemed token is in no row.
  A rotation matches a row by its current token, hence one nobody redeemed.
- `SignInSupersedes` and `ResetSupersedes`, from `PolicyInv`, which adds `SawRows`: what a
  transaction saw are existing rows of its own user, so the row a sign-in inserts is in
  nobody's snapshot.
- `SessionsAreBounded`, from `CountInv`: for every part S of a user's active sessions, the
  size of S and the number of sign-ins in flight that saw none of S (`Blind`) are together
  at most the number of requests. It must speak of every part, because a sign-in that commits
  ends what it saw: the new session and what is left of the old ones then take the place of
  the sign-in (`MoveCounts`). A bound on the whole set alone is not inductive.
- `ExpiryBoundsRotation`, from `LateInv`: after a late rotation no request in flight holds
  the session's current token, and no lookup finds an expired row.
- `RevocationHolds`, the action property, from the type invariant.
- `SessionsImplementLedger`: `CloseStep`, `RedeemStep`, `OpenStep` and `StutterStep` map the
  actions; `TokenInv` shows that ending a session spends its token, `SawRows` that a
  transaction only ends sessions of its own user.

`TableStep` splits every step in three (a sign-in, a rotation, or one that keeps every row's
owner and token and wakes no row), and the later proofs go by these three cases.

### AccountTokens

`AccountTokensProofs` proves, under `AbsentValues`, `TokensAreNumbers` and
`RequestsAreFinite`, that `IInv` is inductive and what follows from it. `IInv` is `TypeOK`
with:

- `LocalInv`: which locals and locks a request has at each stage (locks on tokens only at
  the last stage, on accounts only at the last two);
- `RefersInv`: the rows a request refers to are in use and belong to its user, and what it
  saw and has neither locked nor still to lock is no longer usable;
- `Exclusive`: no two requests hold the same token's row;
- `EndedSpent`, `AcceptedSpent`, `NeverLate`: the history is spent.

`RowsKept` shows that no step changes a row's owner or kind or revives it, `HeldRowStays`
that a row cannot be deleted under the request that holds it (this needs `Exclusive`), and
`RequestStep` that a step of a request either proceeds with the tables unchanged or leaves it
without rows. The theorems:

- `TypeCorrect`, `CommitEndsTokens` and `NoLateUse` are parts of `IInv`;
- `ResetSpendsItsToken` (a password set by a reset has its token spent; no run of its own, for
  `NoUseAfterUse` fails with it): `PasswordStep` says which steps set a password, `ConsumedStays`
  that only the deletion of the owner touches a consumed row;
- `DeadlockFreedom`: `HoldAndWait` shows that a waiting request that holds a token's row saw
  a second one; without such a request nobody in the circle holds a token, so nobody waits
  at a stage that holds an account or a user either;
- `TokensAreBounded`, from a `CountInv` like that of the sessions, over the tokens of one
  kind and the issues whose `updateMany` has its snapshot, with `OwnersExist`: a user that
  does not exist yet has no tokens, so a registration's token is its first.

### AdminUsers

`AdminUsersProofs` proves, under `ConfiguredIsUser`, `AskedIsChange` and `CrashesBounded` only,
that `IInv` is inductive. `IInv` is `TypeOK` with:

- `AbleInv`: a request past the guard, or at it with an actor who is administrator now, is in
  `able`;
- `PromotingInv`: a start promotes a verified account only;
- `BoardInv`: how often the dashboard counted a user that has not changed follows from the
  user's role and the statements that ran, and it never counts more than it has statements.

The theorems:

- `TypeCorrect` and `DashboardCounts` are parts of `IInv`;
- `LastAdministratorStays` and `OnlyAdministratorsChange` come from `RoleStep`, which says that
  a role changes only by a registration, by the promotion at start, or by a commit of an able
  request whose transaction `Serializable` lets pass.

### Identity

`IdentityProofs` proves, under `ClaimsTyped` and `NoneIsNobody` only, that `IInv` is inductive.
`IInv` is its `TypeOK` with `LinkedIsVerified` and:

- `LocalsInv`: what a request holds of the tables is founded still (`Founded`). A claim past
  `resolve` is acceptable; the user that it saw has the claimed address, verified unless it saw
  otherwise, or is deleted; the user that it signs in holds the subject, or is deleted;
- `LinksInv`: the user of a link exists and has the address that Google proved;
- `CookieInv`: a sign-in at Google has the browser's cookie, or is among the `disturbed`; so is
  every refused one, and every one that needs the cookie while another is under way. The last
  is what a late answer that clears the cookie needs: whoever's cookie it wipes was under way
  together with it.

`SignsInTheHolder` alone is not inductive: `Confirm` and `LinkUser` act on a user found two
statements earlier. `TableStep` says what any step does to the tables (an existing user keeps its
address and stays verified until it is deleted, for good; a link goes only with its user), and
`FoundedKept` that this is enough for the locals of every request. The theorems `HolderSignsIn`,
`OnlyProvenLinks`, `LinkingVerifies` and `RefusalHasCause` follow from `IInv`.

### Shop

`ShopProofs` is about the composition, under `IdsAreNumbers`, `NoneIsNoId`, `NoneIsNoScope`,
`DepthIsNumber`, `PricingConstants`, `TagConstants` and `ContactConstants`. `PartsRunAlone`
shows that a behaviour of `Shop` is one of each part, so every part has an inductive invariant
of its own:

- `TreeInv`, of CategoryTree: `TypeOK`, `ReferencesIntact` and `CycleNeedsRace` with
  `RefersInv` (a category that a request found in an area is in it still, or gone: it never
  comes back or changes its area; a product being reassigned is of the request's area) and
  `SoundInv` (a walk that nothing overtook stays in every set that contains the new parent and
  the parent of each of its members, the category being moved aside; so when it has left the
  tree at the root there is no such set). `CycleNeedsRace` alone is not inductive: `Move` needs
  `SoundInv`, for a cycle that it closes is such a set. Every other step leaves the parent
  links as they are or removes some (`FewerChildren`), except `Create`, whose category is
  nobody's parent.
- `PriceInv`, of ShopProducts: `Founded`, namely what a request is about to insert is priced,
  what it read is the row unless an update overtook it, and what it is about to write was
  priced together with what it read.
- `TagInv`, of CatalogTags: `Tagged`, namely after a refused insert the tag is there for good,
  so the second `find` cannot miss it.
- `StoreInv`, of Contacts: `OneLock` and `OneHolder` (two transactions never hold one store's
  row, nor rows of its hours), `Holds` (what a transaction can rely on: the store, the city it is
  to have, the hours it deleted being all there were) and `Whole` stores. A `collided` refusal
  needs rows that the snapshot of `SeeHours` missed, and among requests with the row's lock
  nobody commits hours between the snapshot and the insert.

The theorems `AreasNeverMix`, `WalkPreventsCycles`, `PricingNeedsRace`, `TagsAreShared`,
`StoresStayWhole` and `TypeCorrect` follow.

### RateLimiter and PublicForms

`PublicFormsProofs`, under `AttemptsArePositive`, `UsableAreAddresses`, `NoneIsNoToken` and
`WindowsAreNatural`:

- `SpentOnce`, from `IInv`: neither the gate nor a call has a token that was sent, and calls
  are for usable addresses (`CallsInv`); the contact form's success, on the screen or on its
  way to it, is that of an accepted mail (`SuccessInv`).
- `TwoWindowsWorth` (any window of time admits at most two windows' worth, and Retry-After is
  neither short nor a second long), from `WindowInv`: of the requests that passed within the
  last window, those since the bucket was opened are counted in it, and of those before at most
  one window's worth is left (`KeyInv`); `RoundedUp` says what whole seconds make of any number
  of ticks.
- `TypeCorrect`, from `FormInv`, which adds that a widget still loading has attempts left.

### WebSession

`WebSessionProofs`, under `NoneIsAbsent` only: any number of tabs, calls, sessions and tokens,
and any value of the bounds. `SessionInv` is `TypeOK` with:

- `ServerInv`: a live session's owner exists;
- `NetInv`: requests are `Formed` as their kind and answer say; a request that crossed nothing
  is, calls aside, alone on its way (`Alone`); a tab has one `fetchMe` at a time (`OneMe`);
- `Attended`: whatever a tab waits for is under way, and `fetchMe` is under way only for a
  bootstrap that awaits it;
- `Truth` of each request that crossed nothing: it carries the browser's cookie, a denial means
  that the cookie is no good, a granted token is good, and the profile's session is live.

One lemma per action shows that the step keeps it, on top of lemmas about sending, answering
and dropping requests that the actions share. `NobodyStranded` and `TypeCorrect` are parts of
`SessionInv` or follow at once. `WrongNeedsCrossing` is the action property: only the handling
of an answer turns a tab's status (`OnlyAnswersTurn`), and an answer that crossed nothing was
alone (`HandledAlone`), so its `Truth` is what the tab shows (`AnswersTrue`).

### AdminScreens

`AdminScreensProofs`, under `IdsArePositive` and `SectionIsMounted`, has an inductive invariant
for each screen, and `ScreensInv` combines them by `part`:

- `ProductInv`: at most one request for the list counts, the last one, and what it may answer
  is the server's unless an answer under way will have the list fetched (`ProductListInv`); a
  delete of the panel shown is its only one, and has a dialog, which another row may have taken
  over (`ProductDialogInv`); what is stray in a
  form came from a request older than the form (`FilledInv`);
- `CategoryInv`: the same for the list of one scope, which may be called ready while the list
  of the other scope is still the one shown, as long as a fetch is under way;
- `UserInv`: the same for a page; here an answer is put into the page without a fetch, so what
  is shown is the server's page, or becomes it when the answer under way is put in
  (`PageCurrent`, with the lemma `PatchedPage`). It speaks of states in which no two rows'
  requests met (`shared`) and no page was turned under a delete that turns it (`turned`);
- `ContactInv`: components have one handler each (`HandlerInv`), fetches that do not cross
  (`FetchInv`), and a form that added its store is gone or busy (`AddingInv`).

The theorems `ScreensShowTheServer`, `DialogsHold` and `FormsKeepTheirOwn` follow.

### Only model-checked

`ApiComesUp`, `AddressBecomesUsable` and `SubmittableAgain` are liveness properties under
fairness. Liveness and ENABLED are out of the prover's reach and stay with TLC; so would
induction over data, which no theorem here needs. The properties of the violated runs are
refuted by TLC.

## 6. Not modelled

- **Public queries** (`catalog-public`, `contacts-public`): read-only, one or two statements
  whose answer is rendered once.
- **Media**: image decoding and file I/O; files get random names and nothing deletes them.
- **Configuration, health, wiring**: evaluated once at start. The one part with a state, the
  promotion of the initial administrator, is in AdminUsers.
- **Development and CI scripts, migrations, the seed**: not part of the running system.
- **The cached discovery of Google's endpoints and the cached dummy hash**: a rejected promise
  would be kept by the process; whether it can be rejected is decided outside this code.
- **The growth of the rate limiter's map**: a question of memory, not of a state's correctness.
- **Field validation, wording and layout** of forms, and the token pages of verification and
  reset, which send one request and show its answer.
