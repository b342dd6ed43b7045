# Open City Planner packages: a TLA+ model

The repository publishes city planning modules. It holds a registry of module
versions, an immutable artifact store, a promotion service that turns a reviewed
candidate into a public version, a read API with accounts, and the deployment of
all of it. This directory models the parts whose correctness depends on
interleavings, crashes and retries, checks them with TLC and proves their safety
properties with TLAPS. Paths below are relative to the repository.

## Inventory

| Component | State | Operations | What makes it hard |
|---|---|---|---|
| Artifact store (`scripts/artifact_store.py`) | directories, `.staging`, final names, bytes | `publish`, `verify`, `exists` | concurrent publishers, kill or power loss between link and fsync, retries |
| Registry promotion (`web/backend/app/registry_promotion.py`, `db/repository.py`, `api/registry_compatibility.py`) | versions, artifacts, channel pointers, promotion events | `promote` | bytes before metadata, lost commit, reused keys, compare-and-swap of channels, a guard over two statements |
| Refresh sessions (`web/backend/app/auth/services/auth_service.py`, `account_service.py`) | `user_sessions`, `users` | login, refresh, logout, logout-all, change and reset password, deactivate | rotation against revocation, grace and reuse, stale reads before insert |
| Historical import, v1 verification | the same tables | `import_registry` | import against promotion |
| Registry rules (`scripts/registry.py`, `validate_registry.py`) | module files on main | validation, `build_index`, append-only history | a stale base, one-time mirror change of a URL |
| Artifact mirror (`scripts/publish_artifacts.py`) | store | ordered loop over `publish` | stops halfway, release assets that changed |
| Static build (`scripts/build_registry.py`) | `dist` | two renames and a rescue | crash between the renames |
| Candidates (`registry_candidate.py`, `reviewed_candidate.py`, `promote_candidate.py`) | pull requests, candidate files | load, validate, promote | evidence changes after approval |
| Bundle builder (`scripts/ocp_builder.py`, `.github/workflows/ocp-builder.yml`) | runs, archives, automation branches | check out twice, build twice, compare with history, host contract, upload, propose | tags that move, records that change between two reads, a run that fails after its push |
| MFA, passkeys, OAuth links (`auth/services/`) | challenges, ceremonies, methods, links | start, verify, add, remove | attempt bounds, single use, last login method |
| Accounts, email and password tokens | `users`, two token tables | sign up, confirm, forgot, reset, change, deactivate, delete | last superuser guard, lock order, stale rows |
| Rate limiting | windows per key | `check_rate_limit` | eviction, window edges, Redis outage |
| Deployment (`deploy/ansible`) | lock, releases, `current`, `previous` | deploy, roll back, prune | killed between two links, prune against deploy |
| Frontend auth plugin (`plugins/auth.ts`) | generation, single-flight promise | refresh, logout | late answers, several tabs |

A release starts as a source tag: the builder produces a candidate, a person merges
it, its bytes are published into the store, and either a registry pull request (the
JSON files, today's writer) or the promotion CLI (the database) makes it public.
The promotion CLI calls the store, then the database. The read APIs see only
committed rows. Sessions are shared by every auth request through PostgreSQL at
READ COMMITTED. Deployment replaces code and never touches artifacts.

What must hold, component by component: a public artifact name never changes its
bytes and an acknowledged publication is durable; a visible version has its bytes
stored, the channel pointers are what an unchanged v1 client would select, each
promoted version has exactly one audit event, and a retry repeats the first
answer; a family has at most one usable refresh token and ending sessions ends
them; registry history only grows, a canonical URL is served with the registered
bytes, and provenance is true; an account keeps a way to sign in, one reset link
works at a time, equal addresses never merge accounts, and a superuser remains.
`PROJECT.json` lists the hazards line by line.

## Modules

| Module | Role |
|---|---|
| `ImmutableStore` | abstract store: bind once, promise, forget only what was not promised |
| `ArtifactStore` | `publish()` step by step over a filesystem with durability |
| `Promotion` | `promote()`, composed with `ImmutableStore` |
| `RefreshSessions` | sessions of one account over PostgreSQL row locks |
| `MfaChallenge` | second factor of one account: challenges, enrolment, codes, ceremonies |
| `ReleasePipeline` | builder, candidates, registry pull requests and mirror, composed with `ImmutableStore` |
| `Accounts` | accounts, identities, passkeys and mailed tokens over PostgreSQL row locks |
| `Deployment` | lock, release assembly, activation with rollback, retention on one host |
| `…Proofs` | theorems about the module of that name, one for each but `ImmutableStore` |
| `MC…` and `.cfg` | TLC instances |

### ArtifactStore

A publisher's program counter walks `publish` and `_publish_verified`; each
system call that another process or a crash can fall between is one action
(`WalkModule`, `SyncModule`, …, `Link`, `VerifyFinal`, `SyncFinal`, `Cleanup`).
`modDir`, `verDir` and `entry` say whether a name is absent, visible or durable;
`content` and `flushed` describe the file behind the final name. An fsync of a
directory makes its names durable. `Kill` runs no `finally`; `IOError` does;
`PowerLoss` keeps durable names and any subset of the others, and may tear bytes
that were not flushed. The source can change between the first hash and the copy
(`Torn`). The tree starts empty, as the Ansible role leaves it: every first
publication makes its module and version directory. `acks` are the successes callers
were told, `lost` those a power loss has taken back, `orphans` the directories whose
maker was killed or failed before it fsynced them; `lost` and `orphans` are history.

Left out: `health()`; `_check_parent`, which detects an administrator replacing a
directory; the ownership check of `.staging`; bit rot of stored bytes.

### Promotion

A promoter loads the reviewed candidate (`Promote`), publishes and verifies bytes
through `ImmutableStore` (`PublishBytes`, `VerifyBytes`), then runs one
transaction: advisory lock on the key, module row `FOR UPDATE`, the decision on
key, owner, revision and version (`Decide`), the dependency rows (`Depend`), the two
reads of the v1 guard (`Project`, `Guard`) and `Commit`. A dependency row's foreign key
takes `KEY SHARE` on the required module's row (`shared`), which waits for a promotion
of that module and makes the next one wait; two promotions of modules that require each
other can meet crosswise, and `Deadlock` is PostgreSQL's detector, which rolls back one. Uncommitted rows are derived from the intent,
so nothing of an open transaction is visible to others. `CommitLost`, `Crash` and
`HostCrash` are the failures. Channel selection is `build_index` with SemVer
precedence as a number. `Init` is the database after the historical import.

The store is assumed to keep its promises (`BytesBeforeMetadata` rests on it); finding
1, the power loss in which the filesystem does not, belongs to `ArtifactStore`.
Candidate, module and provenance validation is match or mismatch. A digest shared
by two versions, and hence the `artifacts` row they would share, does not occur:
a bundle contains its own module and version.

### RefreshSessions

One account; a row is live, rotated or revoked. `LockRow` is the
`SELECT … FOR UPDATE` of `refresh_session` with its decision; `Insert` is the
flush, which takes the foreign key's lock on the users row; `Update` and
`RevokeRow` are one `UPDATE … WHERE revoked_at IS NULL`: targets from the
statement's snapshot, then row by row wait, look again, revoke. `LockUser` is
`FOR UPDATE` for reset and deactivation, a plain update for a password change.
`Cancel` ends a blocked statement (deadlock victim, `statement_timeout`).
Any token a client was ever given may come back at any time. `GraceElapses` and
`Expire` let time pass per row, in any order.

The password itself, reset tokens, MFA and the browser are not in this module.

### MfaChallenge

One account and its second factor. A request is a sequence of statements:
`ReadMethods`, `LockUser`, `LockChallenge`, `LockMethod`, `LockCeremony` and the
row by row invalidation (`Snapshot`, `SweepRow`, `SweepDone`), then one of the
`Commit…` actions, and for some a second transaction (`IssueSession`,
`RevokeOtherSessions`). What a transaction will write is kept in `verdict`, `seen`
and `marked` until its commit, so others see committed rows only. `method.secret`
numbers the TOTP secrets, a code is its secret and time step, a recovery code its
set and index: a collision of six digits is not modelled. Rows that refer to the
user (audit entries, recovery codes, sessions, ceremonies) wait for a holder of
`FOR UPDATE`; that is what keeps a setup and a confirmation apart. `accepted`,
`answers` and `enrolled` are history for the properties. Initially the account is
signed in and either without TOTP or already enrolled, with or without a passkey.

Left out: the password check of sensitive actions (a wrong one ends the request
without effect), the rate limiter, sign counters (audited, never refused),
the ceremony's `attempt_count` (never read), passkey registration and removal.

### Deployment

A process is a deployment of one SHA or a cleanup; its program counter is the next
group of tasks. `Lock` does not wait; `Fds` are the descriptors that keep the
lock, the runner's and the one Ansible inherits. `CheckLegacy` refuses beside any
other live cleanup. `Inspect` to `Mirror` assemble `releases/<sha>`, `Switch` to
`Persist` are the activation block, `Restore` to `ProbeOld` its rescue; `Select`,
`Prune`, `Remove` are `prune_releases.py`. A release has `tree` (files of the
commit), `build` (what is made in place) and `marker`. Any task may fail
(`FailAssembly`, `FailActivation`, `FailRollback`, `FailCleanup`), processes are
killed (`KillRunner`, `KillWork`), systemd restarts a service on whatever
`current` is (`Respawn`). `Build` writes in place, in a reused release over what
it has; a reused release may keep its mtime. `older` is mtime order, which is what
retention sorts by: a removal that has begun may make its release the newest. History
for the properties: `age` (order of the last deployments), `torn` (a removal has begun),
`verified` (passed its checks and not written to since), `reworked` (passed them once
and was written to since by a redeployment), `disturbed` (an activation was killed or
a rollback failed).

Initially nothing is deployed, or two releases were. Left out: users and packages,
nginx and TLS, unit files (each only succeeds or fails), a link or marker that an
administrator replaced, a SHA whose repository history changed.

### ReleasePipeline

Everything between a source tag and the registry on main. A builder run walks
`orchestrate` (`FirstCheckout`, `SecondCheckout`, `BuildTwice`, `CheckMainHistory`,
`CheckBranchHistory`, `EmitCandidate`) and the `prepare-review` job
(`ReviewCheckout`, `StoreCandidate`, `OpenCandidate`); it works on the checkout of
its dispatch (`tree`, `localCand`), so what it compares with may be stale, and it may
fail anywhere, also between pushing the branch and opening the pull request. A
bundle is the record of its commit and parts, so digests are equal exactly when
bytes are. `LoadReviewed` and `PublishReviewed` are the publication of a merged
candidate by `registry_promote.py`, from the archive of the run it names or from a
file; `PublishFile` is `publish_artifact.py`, which stores any file under any name
without asking whether it was reviewed. `LegacyCheckout` and
`LegacyPromote` the JSON promotion. A registry pull request is checked
against main as it is then (`CheckPullRequest`) and merged later
(`MergePullRequest`), by a three-way merge per entry. `MirrorInspect`,
`MirrorDownload`, `MirrorPublish` are `publish_candidate` inside the batch, with
what the registry said when the batch was selected. Tags move and release assets are
replaced outside the repository's control (`MoveTag`, `UploadAsset`). That an author
runs the public check before proposing a mirror URL is the procedure of
`docs/publishing.md`, not something CI enforces, and the model does not either: a pull
request records whether the mirror had the bytes when it was opened (`served`).

Two properties have an exception, which a history variable names. `manual` are the
objects whose name `PublishFile` bound; what is in the store under them was not
necessarily reviewed. `unserved` are the objects whose URL a mirror promotion moved to
the mirror although it was opened before the mirror had their bytes.

Left out: the flag that hands the registry to the database writer, the expiry of
Actions archives (publication is then refused), syntax rules of registry files,
GitHub's replacement of a queued run by a newer one, a re-run of failed jobs of the
same run, and faults of the store, which are the subject of `ArtifactStore`.

### Accounts

Several accounts, two concurrent requests. A request without row locks reads in the
action that starts it and commits in another (`Signup`/`SignupCommit`,
`OAuthUnlink`/`OAuthUnlinkCommit`, …), so another request may commit in between; the
unique indexes on address and identity and the foreign keys decide at the commit.
A request with row locks takes them in the order of its statements (`LockSteps`,
`Acquire`), decides on what it then reads (`Decide`, `GiveUp`) and commits (`Write`).
`Deadlock` is PostgreSQL's detector: one member of a cycle of waits is rolled back.
`Fail` stands for expiry, wrong passwords, timeouts and lost connections. The ORM
writes only the columns that differ from the loaded row, which matters for
`complete_oauth_email` (`seen`).

A link row is identified by its identity, a user has at most one open registration
ceremony, passwords are present or absent, the session rows of a user are one lock
and audit rows none. Superusers are a constant: no endpoint changes the flag.

## Runs

| Run | Instance | Shows |
|---|---|---|
| `StoreSafety` | 2 publishers, 1 version, 2 digests, 2 calls each, 1 kill, 1 I/O error, 1 power loss, no directories | no partial, replaced or twice published artifact; success means stored; power loss takes back a success only where somebody else's directory was not fsynced; refinement of `ImmutableStore` |
| `StoreDirectories` | 2 publishers, 1 call each, 1 power loss | violation, see findings |
| `PromotionSafety` | 2 promoters with 3 dispatches, 3 modules of which one has no row, 3 versions, 2 keys shared crosswise, 2 modules that require each other and one missing requirement, 1 fault, 1 change on main | the six safety properties; every promotion is answered |
| `SessionsSafety` | 2 concurrent requests, 5 in all, 4 rows, 2 ticks, 1 fault | one live token, reset and deactivation complete, no rotation when disabled |
| `SessionsPasswordChange` | 2 requests, 3 rows | violation, see findings |
| `MfaSafety` | 2 concurrent requests, 4 in all, 2 challenges, 2 ceremonies, 2 attempts, 2 time steps, 1 fault | codes and challenges are used once, attempts are bounded, one open challenge, an enabled secret was confirmed |
| `MfaEnrolment` | 2 requests, 3 in all | violation, see findings |
| `DeploySafety` | 2 concurrent processes, 4 in all, 4 releases, retention 3, 1 kill | nothing in use is removed, what serves is verified, retention is exact but for half-removed releases |
| `DeployActive` | 1 process, 2 releases, no kill | violation, see findings |
| `PipelineSafety` | 1 builder run beside the candidate an earlier one left in review, 3 objects of 2 modules, 1 author with 6 drafts, 2 files, 2 events in all | history only grows, canonical URLs are served, stored bytes were reviewed, provenance is true |
| `AccountsSafety` | 2 concurrent requests, 3 in all, 3 accounts, 3 identities at 2 providers, 1 passkey, 1 confirmation and 2 reset tokens | a superuser remains, one open reset link, no inconsistent confirmation, no merged accounts, every request ends |
| `AccountsLastLogin` | the same without passkeys | violation, see findings |

Why these bounds suffice: every check in the code compares one version, key,
channel or row with one other party's, so two parties exhibit each conflict; two
calls per party give retry after failure; one fault gives every crash point of a
call; the theorems remove the bounds for every safety property. Three versions let a channel
move on between a commit and its retry. Three session rows are needed for reuse
against a rotation. Four requests let one login collect more wrong codes than it
may, or complete an enrolment and then use its result twice. Four releases with
retention 3 leave one place for two unprotected ones, so their order decides; four
runs fill the host, prune it and deploy again. In the pipeline one object is
registered with its GitHub URL, one with its mirror URL and one is new and depends on
the first; its tag can move to a commit of the same version or of another module, and
its first commit does not build reproducibly, and what an earlier run built from it is
in review, so that a new run's history check meets the merge of that candidate and the
deletion of its branch. `MaxEvents` bounds together what people and deployments do:
tags moved, assets and files put up, pull requests opened, batches started. Two let any
two of them meet the builder, the review and each other; three are beyond the time
limit. The drafts are a mirror promotion, its
reversal, a removal, a release that bypasses the builder, one on the canonical host and
an invalid one. The workflow's concurrency group serialises runs of one version, so one
run is under way at a time. Three requests
let a third act on what two racing ones left, and each of the lock orders meets each
other one with two; account 2 has two identities and no password or address. Symmetry permutes identical processes and is not used for
liveness; the store's action properties and its refinement, which has no fairness, do not
tell its publishers apart. Deadlock checking is off because the bounded system may
come to rest.

Fairness: `FairSpec` of `Promotion` assumes weak fairness of each promoter's next
step. A started CLI run keeps executing, PostgreSQL grants a free lock, and its
deadlock detector looks at every transaction that waits longer than a second: a
waiting promoter is blocked by a transaction that itself makes progress, or by a cycle
of which one is rolled back. Nothing is assumed about dispatches, crashes or reviews. `Spec` of `Accounts` assumes weak
fairness of the server's work on each accepted request: statements execute, free rows
are granted, and the deadlock detector, which runs after a second of waiting, breaks
cycles. Nothing is assumed of users: an OAuth flow may never come back. The other
modules check safety only.

## Findings

1. `_directory` fsyncs a new directory only in the process that made it
   (`scripts/artifact_store.py:146`), while `docs/artifact-store.md:103` says new
   directories and their parents are fsynced. A publisher that finds the name there, its
   maker being slower, killed or failed, returns success while the directory is not
   durable; power loss then removes the acknowledged artifact. `LostOnlyUnsynced` shows
   that this is the only such window.
2. `change_password` revokes with an `UPDATE` that waits for a rotating row and
   never sees the rotation's successor, which stays live. `reset_password` and
   deactivation take the users row `FOR UPDATE`, which the successor's foreign key
   needs, and do not have this gap. Reuse detection has it too, when the family's live
   token is being rotated.
3. `post_login` reads the second factors, then issues the session in a later
   transaction. An enrolment that commits in between revokes the other sessions
   before this one exists; it is issued without a second factor.
4. `unlink_oauth_account` counts the other identities without a lock. Two unlinks of
   two providers of an account without a password both succeed and leave no way to
   sign in (`auth/services/oauth_account_service.py:252`). `remove_passkey`
   (`auth/services/passkey_service.py:568`) has the same gap with two passkeys.
5. A redeployment of the active SHA builds in place, outside the rescue
   (`roles/packages_registry/tasks/main.yml:247`). When it fails, the release the
   services run has an unfinished build, although `deploy/ansible/README.md:188-189` says
   failures before activation never touch the active release.

Further disagreements that reading the code for the model brought up, without a run of
their own:

- The comment at `web/backend/app/registry_promotion.py:85-86` gives the lock order as
  key, then module. The foreign keys of dependency rows lock other modules' rows after
  that, so promotions of modules that require each other deadlock and one of them fails;
  a retry succeeds.
- Nothing enforces the public check `docs/publishing.md:76` asks for before a mirror
  promotion: `_is_mirror_promotion` (`scripts/registry.py:491`) looks at metadata only and
  `find_new_releases` (`scripts/verify_artifacts.py:71`) skips registered versions. A URL
  whose bytes are not there can be registered (`unserved`).
- A cleanup that stopped half-way leaves a release whose new mtime makes it the newest;
  if its marker is still there, the next cleanup counts it and removes an intact one in
  its place (`files/prune_releases.py:65`).
- `check_candidate_history` reads main before the automation branch
  (`scripts/ocp_builder.py:792`). If the pending candidate is merged and its branch
  deleted in between, a differing candidate is uploaded, although
  `docs/cross-run-reproducibility.md:74` says a mismatch fails before upload. It cannot
  replace the record on main.
- A builder run that pushed its branch and then failed leaves a record no new dispatch
  replaces or proposes ("Candidate provenance is unchanged"), and
  `download_reviewed_artifact` refuses its archive because the run did not succeed;
  `docs/central-builder.md:110` calls the same dispatch the recovery.
- `store_candidate` also compares `registry_status`, so building a version again after
  its registration is refused although `docs/central-builder.md:95` says an identical
  request is reused.
- Two concurrent `complete_oauth_email` requests can leave an account confirmed with
  an address whose own link nobody opened: verification tokens carry no address.

Some behaviours are worth knowing that no run is about. The v1 guard
may refuse a valid promotion when another module's promotion commits between its
two reads; a retry succeeds. A password reset can be the deadlock victim against a
rotation and then fails without effect. A deployment killed while activating leaves
services on a release that is neither `current` nor `previous`, which a cleanup may
remove under them, and an unverified `current` that the next success records as
`previous`; `ProtectedExist` and `SettledIsVerified` say so through `disturbed`. A
half-removed release without its marker stops every later cleanup until its SHA is
deployed again. If the removal left `.release-ready` behind, a deployment of that SHA
builds in what is left, though `deploy/ansible/README.md:140` says an incomplete
directory is removed and rebuilt. `docs/deployment.md:34` still says that success prunes old
releases; the role leaves that to the cleanup service.

## Proofs

Every invariant and every action property that a run checks is a theorem of its
module's specification, for all values of the constants the module's `ASSUME`
allows: any number of processes, rows, versions and faults. Each `…Proofs` module
defines the inductive invariant `Inv`, shows `Init => Inv` and
`Inv /\ [Next]_vars => Inv'` with one step per action, and draws the theorems from
it; TLC has checked each `Inv` as an invariant of the safety run first. What `Inv`
adds to the properties is what the code knows between two statements.

**ArtifactStore.** `NoPartialArtifactAlways`, `SuccessIsStoredAlways`,
`NeverReplacedAlways`, `OnePublishedAlways`, `LostOnlyUnsyncedAlways` and
`StoreRefinement` (`Spec => Abstract!Spec`), from the empty tree and through power loss.
`CopyVerified`: past the check a temporary file holds the expected bytes, flushed;
without it `Link` could bind anything. `PublisherKnows`: a publisher past its
verification sees its digest behind the final name, durable from the fsync on; it
carries a check to the acknowledgement several steps later although others run in
between. It holds because a bound name is never rebound. `TreeShape`: below a name its
directories exist. `UnsyncedExplained`: a directory that is visible and not durable has
a maker about to fsync it, or is an orphan; this is what a power loss can take with
somebody else's success in it, and nothing else is. `OneWinner` says that whoever linked
a name, or was told so, is one publisher, and that there is none while the name is
absent. Refinement maps `Link` to `Bind`, power loss to `Forget`, the other steps to
`Promise` or stuttering: a success counts as promised once both of its directories are
durable, so an acknowledgement is a promise at once unless it is in the window of
finding 1, and then becomes one with the maker's fsync.

**Promotion.** `BytesBeforeMetadataAlways`, `ChannelsFollowV1Always`,
`AuditMatchesDataAlways`, `RetriesAgreeAlways`, `HistoryOnlyGrowsAlways`,
`CommittedRetryAcceptedAlways`. `BytesReady`: past its publication a promoter's bytes
are promised. `LocksHeld` and `Decided`: what `Decide` found (no event of the key, no
version of the object) stays true, because only the holder of the module row inserts
there, and whoever takes `KEY SHARE` on it for a dependency row waits. `Guarded`: what the v1 guard read of its *own* module is still committed; of
other modules it may be stale, which is why channels stay right module by module
although the two reads are not one snapshot.

**RefreshSessions.** `OneLivePerFamilyAlways`, `UserLockEndsSessionsAlways`,
`InactiveNeverRotatesAlways`. `RowsHeld`: a rotation holds its row, still live, until
the commit. `UserHeld`: whoever inserts a session shares the users row, a reset or
deactivation has it alone; so `SweepCovers`, that the sweep marked or will visit every
live session, cannot be undone behind it. `changePassword` is not in `UserHeld`; that
is finding 2. `RotatesActive`: the account is read without a lock, but who disables it
needs the rotated row.

**MfaChallenge.** `FactorUsedOnceAlways`, `ChallengeBoundedAlways`,
`OneOpenChallengeAlways`, `EnabledIsConfirmedAlways`, `ClosedStaysClosedAlways`. The
invariant says which lock backs which statement: `ChallengeHeld` (an answer's challenge
stays open and keeps the count it read), `FactorHeld` (a factor found good is still
unused at the commit), `UserHeld` (a setup excludes an enabled method), `SweepCovers`.
`Spent` and `Counted` tie the history variables to the rows: an accepted counter is
not after `last_used_counter`, an accepted code is gone.

**Deployment.** `ProtectedExistAlways`, `SettledIsVerifiedAlways`,
`RetentionKeptAlways`. `Exclusive`: the descriptors make one process work at a time, a
deployment whose runner was killed included. Then: `current` is where the tasks left it
(`LinksExist`), a release that passed its checks once keeps its marker and is never
removed to be remade (`VerifiedMarked`), and what a cleanup has selected is unprotected,
older than what it keeps, and what it keeps is enough (`DoomedOld`), through every
removal. mtime order and the order of deployments agree but for torn releases, which is
how far `RetentionKept` goes.

**ReleasePipeline.** `HistoryImmutableAlways`, `MirrorUrlServedAlways`,
`StoredIsReviewedAlways`, `ProvenanceIsTrueAlways`, the second and third with the
exceptions named above. `validate_immutability` is an order
on the states of one entry (`EntryOrder`). `BasesAge`: main has only moved forwards
since a pull request was opened; hence a merge that still applies meets the entry the
check saw, and a stale check is still right (`ChecksHold`). `MirrorReady`: the bytes of
a mirror URL about to be registered are in the store, which never rebinds, unless it is
the URL of a mirror promotion opened without them.

**Accounts.** `SuperuserRemainsAlways`, `OneOpenResetAlways`, `SpentIsVerifiedAlways`,
`NeverMergedAlways`. `WriteAt`: a request about to write holds its user row, and with
it another active superuser, or has seen every open reset token of the account. Other
requests spare what it holds, and ids are never reused, so what it decided is true when
it writes. `PendingPlain` and `MailSound` are why the stale write of
`complete_oauth_email` does no harm: a pending account is never confirmed and has no
confirmation token.

Every module also has `TypeCorrect`. Assumptions on constants are named in the modules
and evaluated by TLC. Beyond types and `None` being no value, they say: versions have a
greatest one in every non-empty set and keys are finitely many (`Promotion`); releases
are finitely many and retention is at least 2, as the role requires (`Deployment`); the
registry is not empty, an object is no author (`ReleasePipeline`); placeholder addresses
are in a domain of their own, accounts that are pending initially have one and are
unconfirmed, and one superuser is active initially (`Accounts`).

Model-checked only: the two liveness properties `EveryPromotionEnds` and
`EveryRequestEnds`, since liveness under fairness is out of the prover's reach, and the
five violations, which are counterexamples.

## Plan

Remaining: the exact conditions under which the refuted properties of sessions and
accounts do hold, as `LostOnlyUnsynced` gives them for the store and `SettledIsVerified`
for the deployment (an account with a password keeps a way to sign in; a change of
password ends every session that is not being rotated), and the pipeline's and the promotion's store steps as
refinements of `ImmutableStore`.

## Not modelled

- Read APIs, schema guards, mail, cryptography, cookies, CSRF and presentation:
  projections of committed state or stateless checks.
- The static site build: one process; a crash between its two renames leaves no `dist`
  until the next build.
- Rate limiting: it only refuses requests, and every model lets a request not happen.
- The browser plugin: only the tokens it presents reach the server, and
  `RefreshSessions` lets any token come back at any time. A lost rotation response that
  is later taken for reuse would need it.
- Passwordless login, reauthentication and renaming of passkeys, names and avatars.
- The historical import racing a promotion: it runs once, before the database is the
  writer.
