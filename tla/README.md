# A TLA+ model of the spikeforge hub API

The hub (`src/hub_api`) hosts community models: accounts sign in, reserve an
upload, send its bytes, and commit it to a public catalog. It is one FastAPI
process on asyncio, a PostgreSQL database reached through SQLAlchemy sessions,
and an attached volume shared with somebody else's video library. This
directory models it in TLA+, checks small instances with TLC, and proves with
TLAPS what holds for every instance.

## 1. The system

### Components

| component | source | state | operations |
|---|---|---|---|
| upload flow | `uploads/intent.py`, `receive.py`, `publish.py`, `routes/uploads.py` | requests in progress; rows of `models`, `model_versions`, `quota_entries` | reserve, receive (PUT), commit |
| janitor | `uploads/janitor.py` | the rows it selected | sweep |
| volume storage | `storage/volume.py`, `keys.py` | `tmp/<upload id>`, `artifacts/<key>`, open handles | stage, promote, discard, free_bytes |
| quota | `quota/usage.py`, `limits.py`, `footprint.py` | none: questions to the tables and the volume | stored and pending bytes, counts, cap, floor |
| database session | `db/engine.py` | one transaction per request | commit by the route, rollback on an exception |
| API credentials | `auth/credentials.py`, `routes/tokens.py` | `tokens`: kind, chain, expiry, revocation | mint, resolve, rotate, break a chain, revoke |
| browser sessions | `auth/sessions.py` | `sessions`: last seen, expiry, revocation | start, resolve, revoke, revoke all |
| request authentication | `deps.py` | the request's scopes | bearer first, then cookie; scope guard |
| accounts and identities | `auth/accounts.py`, `handles.py`, `routes/auth.py` | `users`, `identities` | register, sign in, link or create, allocate a handle |
| OAuth state | `oauth_state.py` | none (a signed value) | write, read |
| catalog | `catalog/queries.py`, `index.py`, `trust.py`, `routes/models.py` | `published_at`, `download_count`; the documents clients have cached | list, show, index, download |
| names, licences | `catalog/names.py`, `licenses.py`, `schemas/*` | none | validate |
| profile, health | `routes/me.py`, `health.py` | none | show |
| application shell | `app.py`, `config.py`, `errors.py` | the settings | assemble, render errors |
| migrations | `src/migrations` | the schema | upgrade, downgrade |
| tables without code | `db/models/auth_code.py`, `device_code.py` | | |

### How they interact

A route's dependency authenticates the request, which UPDATES the credential's
row and flushes: PostgreSQL holds that row's lock until the request's
transaction ends. **One credential is therefore one sequential caller; two
credentials of one account are two concurrent ones.** The handler then calls
into uploads, quota and storage, and the route commits; an exception makes
`db_session` roll everything back, while what was done to the volume stays done.
At READ COMMITTED every statement sees its own snapshot, and the ORM's copy of a
row is not refreshed. The sweep runs beside the requests; its caller is a
scheduled job outside the repository.

### What is hard, and what makes each part correct

* *upload flow*: a transfer spans minutes between reading a row and writing it;
  reservations expire meanwhile; the sweep, a second transfer, other accounts
  with the same bytes and crashes come in between. Correct: a version only moves
  forward, a stored version is backed by a whole artifact and charged once, the
  allowance is kept although it is computed by two statements.
* *volume*: filesystem calls are separate awaits; a handle outlives a rename and
  an unlink. Correct: final names show whole artifacts only, artifacts stay,
  staged files are never stranded.
* *quota*: counts and sums are read before the insert. Correct: counts, allowance
  and the footprint cap are kept. The counts and the allowance are, while an
  account works with one credential at a time; the cap is not.
* *credentials, sessions*: what is flushed before an exception is lost; two
  rotations or two sign-outs overlap. Correct: a replay ends the grant, one
  rotation of a token succeeds, revocation is final, the idle window follows use.
  The first, the second and the last of these the code does not keep.
* *accounts, handles*: an account is looked up, a handle tested, and a row
  inserted several statements later, when others may have done the same; only
  the unique constraints see both. Correct: one way in leads to one account for
  good, adoption is earned, one owner per handle, and whoever tries again gets in.
* *catalog*: what was read is used later: an index document cached by a client, a
  copy of a row a counter is incremented in. Correct: a URL once told leads to a
  whole artifact, a pinned name to the same bytes, the latest version never goes
  back, a count is honest.

The list of hazards with their lines is `hazards` in PROJECT.json.

## 2. The modules

| module | what it is |
|---|---|
| `VolumeStorage` | files as chunk cells, open handles, and the filesystem calls as operators on `disk` and `handle` |
| `Quota` | the tables, the clock, and every quota query as an operator |
| `UploadFlow` | the handlers and the sweep over both, cut where the code awaits; all properties of the flow |
| `UploadContract` | abstract specification: slots held for accounts, artifacts, charges |
| `UploadRefinement` | the mapping of `UploadFlow` onto `UploadContract` |
| `Catalog` | queries, index document, downloads over `UploadFlow`; what readers rely on |
| `RowLocks` | row locks of the database: waiting, release, deadlock |
| `Authentication` | sessions and tokens as one table of credentials; requests that authenticate, issue, exchange and revoke; all their properties |
| `CredentialContract` | abstract specification: credentials that are issued, exchanged and revoked |
| `AuthenticationRefinement` | the mapping of `Authentication` onto `CredentialContract` |
| `Handles` | how a handle is chosen, as pure operators on sequences of characters |
| `Accounts` | registrations, logins and provider callbacks, one action per statement; all their properties |
| `Directory` | abstract specification: where a way in leads |
| `AccountsRefinement` | the mapping of `Accounts` onto `Directory` |
| `UploadFlowProofs` | what holds of uploads whoever calls |
| `ExclusiveProofs`, `CountsProofs`, `ContractProofs` | what holds of them when an account works with one credential: files, charges and states; counts (with any number of credentials) and the allowance; the refinement |
| `CatalogProofs` | what readers may rely on |
| `AuthenticationProofs`, `CredentialProofs` | types, locks and finality of revocation; sessions and the refinement |
| `AccountsProofs` | the invariants of accounts, the refinement, and what handles are made of |
| `MCOneAccount`, `MCTwoCredentials`, `MCCatalog` | instances of the upload flow for TLC, the last with readers |
| `MCSessions`, `MCTokens` | instances of `Authentication` |
| `MCAccounts` | instance of `Accounts` |

`Quota` extends `VolumeStorage` (the free-space check asks the volume),
`UploadFlow` extends `Quota` and `Catalog` extends `UploadFlow`: a commit and the
listing it changes are one step. `Authentication` extends `RowLocks`, `Accounts`
extends `Handles`. The upload flow and authentication meet in one fact, which
`Authentication` models and `UploadFlow` takes as its unit of concurrency: a
request holds the lock of the row that authenticated it, so the handlers of one
credential never overlap (`OneAtATime`). `Accounts` ends where
`Authentication` begins: a way in that leads to an account starts a session
(`SignIn`).

### Correspondence

`rows[u]` is the `model_versions` row with id `u`: `Unissued` before its insert,
`Gone` after its delete, else a record with the columns the flow decides on.
`ledger[user][u]` is the sum of the `quota_entries` of that user and version.
`models` holds the (owner, slug) pairs with a row. `now` is `utcnow()` in ticks.
`req[c]` is what credential `c`'s handler knows: its step `pc` and its local
variables, including the ORM's copy `row`. `sweep.doomed` are the rows the sweep
selected, `sweep.left` those whose staging file it has not discarded.

| code | actions |
|---|---|
| `POST /v1/uploads` | `ReserveBegin` (checks up to the ledger sum), `ReserveCheck` (pending bytes and all later checks), `ReserveInsert` (insert and commit, or IntegrityError) |
| `PUT .../content` | `PutSelect`, `PutOpen` (state and expiry judged on the copy, `open("wb")`), `PutChunk`, `PutOverrun`, `PutMeasure`, `PutDiscard`, `PutUnwind` (rollback), `PutPromote`, `PutDrop` or `PutReplace`, `PutCharge` |
| `POST .../commit` | `CommitSelect`, `CommitWrite` |
| any exception, disconnect or crash | `Abort`, `SweepAbort` |
| `sweep` | `SweepSelect`, `SweepDiscard`, `SweepDelete` |

In `Authentication`, `creds[i]` is a row of `sessions` or `tokens` (`kind` tells),
`req[r]` a request with the row it presented (`caller`), the stamp it will leave
(`seen`) and the rows it selected to revoke (`doomed`); `holder[i]` is the request
that has flushed an UPDATE of row `i`. `answered` is history: it records when a
session was last used by a request that got its answer.

| code | actions |
|---|---|
| register, login, provider callback | `SignIn` |
| `current_user`, `resolve` | `Present` (SELECT and checks), `Touch` (flush of the stamp) |
| routes that do not commit, and refusals | `Leave` |
| routes that commit | `Keep`; `POST /v1/tokens`: `Mint` |
| `DELETE /v1/tokens/{id}`, `revoke-all`, `logout` | `SelectTarget`, `SelectAll`, `Logout`, then `LockNext` per row, `CommitRevocation` |
| `POST /v1/auth/refresh` | `PresentRefresh`, then `Exchange`, or `LockNext` per row and `RefuseReplay` |
| deadlock; exception, disconnect, crash | `BreakDeadlock`; `Abort` |

In `Accounts`, `users[a]` and `identities` are the tables, and `req[r]` is a request
with what it has looked up: the account it will join (`account`), the handle it
found free (`handle`). `reached[way]` is history: the accounts an address or a
provider account has let somebody in to.

| code | actions |
|---|---|
| `POST /v1/auth/register` | `Register` (lookup of the address), `Try` per handle, `Count`, `Create` (both INSERTs and the commit, or IntegrityError) |
| `POST /v1/auth/login` | `SignIn` |
| provider callback, `link_or_create` | `Recognise`, or `Arrive`, then `Adopt` (`_adoptable`), `Link`; or `Claim` (`_check_address_free`), `Try`, `Count`, `Create` |
| exception, disconnect, crash | `Abort` |

In `Catalog`, `publishedAt[u]` is `published_at` (0 while it is null), counted in
publications (`lastPublish`) since only its order matters, `downloads[u]` the
counter, `reading[r]` the ORM's copy a download works from; `served` and `known` are
history: downloads that went through, and the entry of each version a client has cached.

| code | actions |
|---|---|
| `publish` | `Publish`: `CommitWrite` of the upload flow, with `published_at` |
| `GET /v1/index.json` | `FetchIndex` |
| `GET .../download` | `DownloadSelect`, `DownloadWrite` (UPDATE, commit; the redirect follows) |
| listing, show, latest | the queries `Published`, `History`, `Latest`, `OneVersion` they share with the above |

A file is `MaxBytes` cells; a cell holds the body it came from, or `Hole`. A body
stands for its own digest, so the object key of a body is the body. A handle is
recorded by where its file is now (a path, `Unlinked`, or `Nowhere`): renames and
unlinks move the handles on the file, and `open("wb")` on a path that is being
written truncates the same file under the other handle.

### Abstractions

* Sizes are in chunks. A chunk is on the volume as soon as it is written; the
  code's buffer may hold a small one until the flush before the digest is compared.
* Flush and commit are one step: the row is locked in between, so a competing
  writer waits and then sees the committed row (or a deleted one: StaleDataError).
* Checks of `reserve` after the ledger sum are one step. What a commit between
  them could change is covered by the two cuts that remain: before them (the sum
  is stale) and after them (the checks are stale when the row is inserted).
* A refusal that has changed nothing is an action that is not enabled. A client
  that sends fewer bytes than it declared is cut off by the server: `Abort`.
* Users' publishing rights (`Publishers`) and limits are fixed constants.
* Nothing in the repository sets `REJECTED`, `DELETED` or leaves `verifying`, and
  no row of `models` is deleted; the model has no such steps.
* At most one sweep runs at a time.
* `Grant` issues the first pair of a grant: `issue_pair` is called by `rotate`
  only, since the authorization endpoints do not exist in the repository yet.
* A request that waits for one row and commits with the next statement
  (`Exchange`) takes the lock and commits in one step: it holds no other lock, so
  nobody can wait for it in between.
* A sum of sizes is the number of the chunks it adds up, each a pair of an upload
  and a place in it (`Chunks`): the same number, and one the provers can reason
  about.
* A name is a sequence of characters, of which it matters what they are in lower
  case and whether a handle may contain them. A number at the end of a handle is
  one character (`Decimal`). Passwords, the provider's protocol and the signed
  state of a login are left out: a profile is what arrives.
* A download ends with its commit: whether the redirect is still sent, or the
  process stops first, changes nothing and is not told apart. A count may thus
  stand for a redirect nobody received.
* An INSERT and the commit after it are one step: the unique key is held against
  other writers until the commit, and nobody reads the row before.
* Text filters, pages after the first and descriptive fields of the catalog are
  left out; the trust labels are constant, since no code writes a report that
  passed or rejects one.
* Scopes, token names, `last_used_at` (shown, never judged) and cookies are left
  out; the state of an account never changes in the repository.
* The names `...Lenient`, `NoCharge`, `MarkedFailed` and the other operators
  commented "Slip" are plausible mistakes, used to show that the properties
  notice them; no action uses them.

## 3. What TLC checks

| run | instance | question | result |
|---|---|---|---|
| `one_account` | `MCCatalog`: one credential, 2 slots, bodies of 1 and 2 chunks, a claim for each and any body sent for it; allowance 3, clock 0..2, TTL 1; 2 readers, 2 downloads, an index of one version | does one account's sequence of uploads stay correct against expiry, sweep, wrong bodies and crashes, does it implement the contract, and does what readers were told stay good? | `TypeOK`, `ChargedOnce`, `AllowanceKept`, `ArtifactsComplete`, `NothingStranded`, `LifecycleForward`, `CatalogTypeOK`, `UrlsResolve`, `PinsHold`, `CountsWithinServed`, `LatestAdvances` and the refinement `ContractKept` hold |
| `two_credentials` | two credentials of one account, 2 slots, one name, 2 bodies, true claims and either body sent, clock 0..2, verified accounts only | what survives when requests on the same upload interleave? | `StoredHasBytes`, `StoredIsCharged`, `NamesUnique`, `ArtifactsStay` hold |
| `footprint` | `MCOneAccount`, no readers, clock 0..3, cap 2 | config.py: "ceiling on stored artifact bytes" | violated: reservations are not counted |
| `refusal` | as `footprint`, cap 6 | `_abandon`: the refusal "frees the version name" | violated: the DELETE is rolled back |
| `sweep_race` | as `refusal` | sweep: "delete expired reservations" | violated: it deletes a version received since |
| `shared_upload` | as `two_credentials` | volume.py: a partial artifact "is never reachable under its final name" | violated: a second PUT truncates the staged file |
| `sessions` | 2 sessions of one account, 2 requests, idle window 2, lifetime 3, clock 0..2 | do handlers of one session overlap, is sign-out final and complete, does every request end? | `OneAtATime`, `RevokedStaysRevoked`, `EverywhereMeansAll`, `AbandonedStaysOut`, `RequestsEnd` and the refinement `CredentialsKept` hold |
| `tokens` | 2 accounts; one grant exchanged once, or two grants; one PAT; 2 requests, which may present one refresh token; clock 0..1 | do revocation and the contract hold beside requests that use and exchange the tokens? | `AuthTypeOK`, `RevokedStaysRevoked` and the refinement `CredentialsKept` hold |
| `idle_window` | as `sessions`, clock 0..3 | sessions.py: "so the idle window tracks use" | violated: a route that does not commit loses the stamp |
| `double_rotation` | a grant and room for two exchanges, 2 requests | credentials.py: "a new pair, invalidating the old one" | violated: two requests exchange one token |
| `replay` | as `tokens`, one account | credentials.py: a replay "invalidates its whole chain" | violated: the refusal rolls the revocation back |
| `accounts` | 3 accounts, 2 requests, 3 addresses in 4 spellings, 2 provider accounts with 5 profiles, a stem limit of 3, suffixes up to 2 | do sign-ups and provider logins that race agree on who is who, and does trying again get one in? | `AccountsTypeOK`, `SameWayIn`, `AdoptionProven`, `HandlesUnique`, `NothingReserved`, `RetriesGetIn` and the refinement `DirectoryKept` hold |

The properties of `one_account` are about accounts that work with one credential
at a time. With two, TLC finds `ArtifactsComplete`, `ChargedOnce`, `AllowanceKept`,
`NothingStranded`, `LifecycleForward` and `ContractKept` violated in the instance of
`two_credentials`: by the race of `shared_upload`, by a second transfer that judged
a copy of the row from before the first one's commit, and by a transfer that
commits between the two sums of `can_fit` and is in neither. Of the catalog,
`LatestAdvances` and the whole artifact behind `UrlsResolve` rest on these. The
limits on models and versions are passed too (see below).

`CredentialsKept` says what rotation does keep: a pair is only ever issued to a
request that found a token of the same family good. That the old token is then
invalid for everybody (`OneLiveRefresh`) it does not keep, as `double_rotation`
shows: two that overlap both read the token as unrevoked, the second waits for the
first one's lock, overwrites `revoked_at` and mints a second pair.

`RetriesGetIn` says what sign-up does keep, not all one might wish: the last resort
of `allocate`, the number of accounts plus one, is not tried, so whoever has that
handle keeps everybody out who needs it while the number stays.

### Disagreements without a run

Two more sentences of the repository are not what the code does; each takes no
more than reading the lines to see, and no run repeats it.

* `quota/limits.py:51`, "Refuse a new version once a model's history is full" (and
  line 33, a new model): the count is read before the insert, so two credentials
  of one account both pass it at the limit. `OverrunIsBounded` says how far.
* `catalog/names.py:74`, a handle "may not start or end with a hyphen": `_clean`
  strips hyphens before it cuts a stem to 30 characters, so a stem may end in one
  (`Clean` has the code's order). `normalise_handle`, which would refuse such a
  handle, has no caller.

### Bounds

All bounds are named constants. *Uploads*: `Uploads` (2: a slot and one to compete
or to follow it), `MaxBytes` (2: a file can be empty, partial, whole or holed),
`Horizon` (the clock: before, at and after an expiry; in the runs without readers
3 lets a second reservation expire after the first). Two slots suffice for the
allowance because the limit is 3 and two long bodies are 4. Slots are symmetric in
every passing run; readers in `one_account`, accounts and requests in `tokens`,
credentials in `two_credentials`. That several accounts send the same bytes is not
in an instance of the flow (two of them would be too large); the theorems about
uploads hold for any number.

*Readers*: two downloads that overlap are the smallest case in which a count is
lost; `PageLimit` 1 makes the second published version push the first one out of
the index, so an entry in a cache outlives the page it came from.

*Authentication*: `Ids` and `MaxIssued` (how many rows of each kind), `Horizon`. Two
sessions and two requests suffice for a deadlock of two revoke-alls and for stamps
that overtake one another; five rows are two pairs, of one chain or of two
grants, and a PAT; the six of `double_rotation` are a grant and two exchanges. In
`sessions` the clock stops before the absolute lifetime, which `tokens` exercises
on access tokens; `idle_window` passes it.

*Accounts*: two requests race for every pair of statements; three accounts let a
third sign-up meet what two left. Two spellings of one address, two addresses that
reduce to one stem, which is reserved, a user name that the limit cuts at a
hyphen, one that leaves nothing, and an address whose stem is the last resort
once there are two accounts are all there.

Deadlock is checked in `accounts`, where somebody can always sign in or arrive
again. In the other runs ids and clock are bounded, so the model stops when both
are spent.

### Fairness

`sessions` runs under `FairSpec` of `Authentication`. `SF(Progress(r))`: statements
are answered, the event loop resumes a handler, a client ends its upload or
disconnects, and the database serves the waiters of a row in turn, so a waiter that
could go on again and again does go on. `WF(BreakDeadlock(r))`: the database finds
a circle of waiters after `deadlock_timeout`. Nothing obliges anyone to sign in, to
call, or to let the clock run.

`accounts` runs under `FairSpec` of `Accounts`. `WF(Progress(r))`: a handler runs on;
no statement of it waits for another request for good. `SF(Return(p))`: the owner of
provider account `p` comes back; strong, since the model has a fixed number of
requests and the service does not, so others being in progress keeps nobody from
trying. `RetriesGetIn` further assumes, in its statement, that from some time on
these requests are not cut off.

The upload runs state no liveness: the sweep has no caller in the repository.

## 4. What is proved

Every theorem holds for any sets of users, credentials, requests, uploads, bodies
and names, any sizes, limits, lifetimes and bounds. The assumptions are those on
the constants (`StorageAssumption`, `QuotaAssumption`, `FlowAssumption`,
`CatalogAssumption`, `AuthAssumption`, `AccountsAssumption`, `HandlesAssumption`,
which TLC evaluates on the instances) and, where a theorem names it,
`OneCredential` (no two credentials act for one account). The service does not
enforce `OneCredential`; `OneHandlerPerCredential` is why it describes an account
that uses one.

### Uploads, whoever calls (`UploadFlowProofs`)

* `TypeCorrect`: `Spec => []TypeOK`. Not inductive alone: a write needs the file
  its handle is on to exist (`HandleOnFile`).
* `StoredVersionsHaveBytes`, `StoredVersionsAreCharged`: the facts a download and
  an audit rely on. When `PutCharge` makes a row stored it relies on a digest
  comparison and a promotion done steps earlier. `IInv` carries them across the
  gap: `OwnRow` (the row a transfer selected is gone or still has the copy's
  owner, digest and size) and `Promised` (past its measurement a transfer's body
  is the declared one, and before its charge the artifact exists).
* `ArtifactsNeverVanish`: the action property, from the same step lemma.
* `VersionNamesUnique`: the only step that brings a name in is the insert, and
  the constraint guards it against the committed rows.

One lemma per filesystem call (the volume stays well formed and keeps its
artifacts), three lemmas on requests and rows that nobody else disturbs, one
lemma per handler, then `InitIInv`, `StepIInv` and the temporal step.

### Uploads, one credential per account, and counts

* `ExclusiveProofs`: `ExclusiveInvariance` and from it `VersionsChargedOnce`,
  `ArtifactsAreWhole`, `StagedBytesAreReserved`, `VersionsMoveForward`. `XInv` says
  that a transfer is alone with its row and its staging file except for the
  sweep, and what the sweep leaves: the row a request knows is as its SELECT saw
  it or was taken after its expiry; the staged file of a transfer is the prefix
  it has written, or was unlinked, and then none of it reaches a final name. Other accounts share only final names, where a promotion
  replaces a whole artifact by itself.
* `CountsProofs`: `OverrunIsBounded` needs no `OneCredential`: with any number of
  credentials a limit is passed by less than one row for each. The counts are read
  before the insert, so they alone are not inductive; `Room` counts the requests
  that are about to insert with the rows: those that have passed the check number
  at most the credentials of the account, and one that passes it found a row to
  spare.
  `AllowanceHolds`: `AllowanceKept` is not inductive, since a promise ends by the
  clock while its transfer goes on and is charged all the same. `AInv` bounds what
  an account has `Claimed`: what it is charged for, what it has been promised, and
  what it is transferring, each chunk counted once whichever of the three it is.
  `AllowanceFound` carries what `reserve` read to its insert. Why it holds: while
  the one credential transfers it reserves nothing, and no step but an insert
  claims more.
* `ContractProofs`: `UploadsKeepContract`, the refinement. Under `XInv` a final name
  is absent or whole, and artifacts stay, so a filesystem step maps to `Land` or a
  stutter; the tables change in four steps (insert, charge, commit, the sweep's
  delete), which map to `Hold`, `Receive`, `Release` and `Drop`.

### Readers (`CatalogProofs`)

`ReadersOnlyWatch` shows that `Catalog` implements `UploadFlow`, so the theorems above
hold with readers. `KInv` says what of an old entry lasts: the artifact stays, and
while the row is there it is stored under its name with its key. From it
`PinsAreGood` (any credentials), `UrlsAreGood` (one credential: the artifact is
whole) and `CountsAreHonest`. `CatalogTypeCorrect` and `LatestOnlyAdvances` (one
credential) rest on `TimesOrdered`: no version was published after the last stamp.
A published row keeps its state until a sweep takes it (`PublishedStays`, from
`VersionsMoveForward`), so of two published versions the one stamped in the step
is the newest, and in a step that stamps nothing the newest stays so.

### Credentials

* `AuthenticationProofs`: `AuthTypeCorrect`, with `CallersKnown` (a request past its
  SELECT has the row it presented, which an exchange mints from);
  `RevocationIsFinal`: rows only grow (`Grows`: issued rows keep kind, account and
  chain, and stay revoked), so what one request knows of a row survives the steps
  of the others.
  `OneHandlerPerCredential` (`OneAtATime`) from `LInv`: whoever's handler runs has its
  row locked, and a lock is taken only when it is free. It is what lets the upload
  flow take a credential for one sequential caller. `NobodyWaitsForWaiters`: a
  request that has flushed nothing holds no row, which is why taking the lock and
  committing may be one step in `Exchange`.
* `CredentialProofs`: `IdleBrowsersStayOut` and `SignOutIsEverywhere` from `SInv`: a
  stamp is never ahead of the answers (`StampsOK`), and a session of the account
  that is signing out everywhere is among the selected rows, revoked, or signed in
  no earlier than the request began (`Thorough`).
* `CredentialsKeepContract`: the refinement, for any number of requests, those that
  exchange one token at the same time included. The mapping forgets stamps and
  locks; of a request it keeps the refresh token it presented and found good
  (`Presented`), which it may exchange later whatever became of the token: that is
  what the code promises, and all of it. `Aims` says what a request may still do to
  the table: one that is served revokes nothing and was not authenticated by a
  refresh token; one that revokes was aimed, by its SELECT, at sessions of one
  account or at one PAT, and still is when it commits, because rows grow. With it
  and `NInv` (a family is named after a row of the table, so a grant begins one of
  its own) each commit maps to one step of the contract (`SignIn`, `Mint`, `Grant`,
  `Exchange`, `Revoke`), the SELECT of an exchange to `Present`, its failure to
  `Withdraw`, and every other step but the clock's to a stutter.

### Accounts (`AccountsProofs`)

`OneAccountPerWayIn`, `AdoptionsAreProven`, `HandlesAreUnique` and the refinement
`AccountsImplementDirectory`. `AInv` separates what lasts of a lookup (users are
never deleted and never change, so an account that was found is still there, under
the address it was found by) from what does not (that a name is free), which the
unique constraints check again. None of that depends on how handles are made.

`AccountsTypeCorrect` and `HandlesAreNotReserved` do. `Named` says that every row,
and every request about to insert one, has a `ProperHandle`: a stem that was found
free and so is not reserved, or a stem or the fallback with a hyphen and a number,
which no reserved handle contains (`SuffixIsProper`); that is what makes the last
resort safe, which is never tested.

### Only model-checked

* `RequestsEnd` and `RetriesGetIn`: liveness under fairness, out of this prover's
  reach. Every other property of a passing run is stated by a theorem.
* The violations, which are counterexamples.

## 5. Not modelled, and why

* *OAuth state* (`oauth_state.py`): a signed value that the browser keeps; whether
  it is accepted is the signer library's doing and a comparison. No state here.
* *Authorization and device codes*: tables without code.
* *Application shell* (`app.py`, `config.py`, `errors.py`): assembly, settings and the
  rendering of errors. The settings are constants of the modules.
* *Migrations and deployment*: the initial schema is modelled by the empty tables
  and unique indexes it creates; downgrade, the runner and packaging are not.
* *Names and licences*: which handles are reserved is modelled; slugs, version names and
  licences are validated at the border, and a value in the model is one that
  passed.
* *Scopes*: the scope of a token is compared once, in one statement, and never
  changes.
* *Cookies, passwords, suspended accounts* (nothing suspends one), *connection
  pooling*, *free space while bytes arrive* (the volume's other tenant is outside
  the repository).
* *Liveness of the sweep*: that an abandoned upload frees its name would need a
  scheduler, which the repository does not have; no fairness is justified.
