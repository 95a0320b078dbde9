# A verification project for the enterprise blog backend

TLA+ models of the FastAPI blog backend in `src/app`, checked with TLC on small
instances, and proofs checked with TLAPS for instances of any size. The models
translate the services, repositories, middleware and tasks; the documentation of
the repository is used only where a run compares it with what the code does.

## 1. The system

A request goes through the rate limiter, then through a FastAPI route whose
dependencies open one database session and, mostly, authenticate the caller. The
route calls a service, the service calls repositories, and the answer is built from
ORM objects. State lives in PostgreSQL (every table), Redis (rate-limit counters,
access-token blacklist) and a Celery broker (mail tasks). One process serves many
requests on one event loop: every `await` is a point where another request runs, and
several processes may share the three stores. Nothing in the code locks: the only
locks are those PostgreSQL takes for an `UPDATE`, at its default READ COMMITTED.

| Component | State | Operations | Interacts with |
|---|---|---|---|
| Refresh-token sessions (`auth_service`, `refresh_token` repository, `user_service`) | `refresh_tokens` rows: owner, jti, revoked; `users.password_hash`, `is_deleted` | login, refresh (rotation, reuse alarm), logout, change and reset of the password, account deletion | access tokens (same routes), accounts |
| Access tokens (`security`, `get_current_user`) | the JWT itself; `blacklist:access:<jti>` keys in Redis | issue, authenticate, blacklist at logout | sessions, every authenticated route |
| Rate limiter (`rate_limit.py`) | `ratelimit:<ip>` counters in Redis with a time to live | INCR, EXPIRE, admit or refuse | in front of every route |
| Posts (`post_service`, `post` repository, `slug`) | `posts` rows: title, slug, status, is_deleted, view_count, references | create, update, delete, view, list, search | taxonomy, reactions, comments |
| Likes and bookmarks | `post_likes`, `bookmarks`, unique on (user, post) | toggle a like; add, remove, list bookmarks | posts |
| Accounts (`auth_service`, `user_service`, `user` repository) | `users` rows: email, username, is_email_verified, role | register, verify, resend, change address, profile, role | mail, sessions |
| Comments | `comments` rows: post, parent, is_deleted | create, update, delete, list threads | posts |
| Mail (`email_tasks`, `email_service`, dispatch helpers) | tasks in the broker; mail accepted by SMTP | publish, fall back, run a task | accounts |
| Categories and tags | `categories`, `tags`, `post_tags` | create, rename, delete, list | posts |
| Roles (`require_*` dependencies, ownership tests) | `users.role` | checks in every service | all |
| Listings and pagination, profile images, logging, settings, migrations | none of their own beyond a file, a column and the constraints of the tables | read-only or I/O | all |

### What is hard here

* **Check, await, write.** Nearly every handler reads a row, awaits, and writes by
  what it read: refresh, change of password, toggles, slugs, registration, views.
* **Stale ORM objects.** SQLAlchemy writes the attributes that have a net change from
  the values the session loaded, whatever the row holds by then.
* **Bulk revocation.** `revoke_all_for_user` selects the live rows, changes them in
  memory and flushes them: rows that appear later are not in it, and the flush takes
  row locks that another revocation wants too.
* **Two stores, no common transaction.** INCR and EXPIRE; a commit and then a publish;
  a blacklist entry and a revoked row.
* **Clocks.** A JWT's `exp` and a Redis time to live are whole seconds counted from
  different instants.
* **Swallowed exceptions.** The logout, the mail fallback, `send_email` and the rate
  limiter all answer as if nothing had happened.

### What makes each component correct

* Sessions: rotation is all or nothing; a bulk revocation closes every session that
  existed when it was asked for; nothing revoked comes back; a deleted account is out;
  no deadlock of the row locks.
* Access tokens: a logged-out token is refused for the rest of its life; Redis accepts
  the time to live a logout sends.
* Rate limiter: no window admits more than the limit; every counter expires; a limited
  client gets back in.
* Posts: an edit never undoes a deletion or another edit's status; slugs are unique
  and follow titles; views are not invented.
* Reactions: unique per user and post; nothing vanishes without being announced.
* Accounts: addresses and usernames are unique; verification needs a mail received.
* Comments: a reply is on the post of its parent; what is deleted stays deleted and
  its thread leaves the list.
* Mail: nothing is lost without a fault, nothing is sent twice unless a publish lost a reply.
* Categories and tags: names and slugs are unique, no post refers to a row that is gone,
  a deletion takes a post out of that category only, and an edit leaves the tags it was
  asked for unless another touched them.
* Roles: nobody acts by a role it has not had while the request ran; only administrators
  change roles, and a demoted one stays demoted.

## 2. The modules

Every component module has the same shape. A request is a slot of `req` with a program
counter `pc`; each statement a handler awaits is an action guarded by it, so requests
interleave exactly where the code yields. `Begin...` actions are the requests a
client can send, with any input from the constants. `Answer` and `Refuse` are
early returns and exceptions that become a response; `Abort` is an exception or lost
connection at any await, which `get_db` turns into a rollback. `hist` and the fields
called history in the comments record what the properties refer back to and never
appear in a guard, apart from named bounds.

Where a check depends on the client (a password, a JWT's signature or age, ownership
of a row), the action can go either way.

| Module | Code | State and actions |
|---|---|---|
| `SessionStore` | abstract | what the table promises: `Open`, `HandOn`, `Close`, each one step and within one account |
| `AuthSessions` | `AuthService`, `UserService.soft_delete_account`, `RefreshTokenRepository` | `users` (password epoch, deleted), `tokens` (rows), `req`, `hist`. `LoginRead/Commit`; `RefreshLoad`, `RefreshLoadUser`, `RefreshCommit`; `LogoutLoad/Commit`; `GetCurrentUser`, `ResetLoad`; `SelectLive`, `LockRow`, `CommitRevocation` are `revoke_all_for_user` with its flush |
| `AccessTokens` | `security.py`, `get_current_user`, `AuthService.logout` | `now`, `exp`, `until`. `Issue`; `DecodeForUse`, `CheckBlacklist`, `LoadUser`; `DecodeForLogout` computes the TTL, `SetBlacklist` stores it; `Tick` |
| `RateLimit` | `rate_limit.py` | `count`, `ttl` of each key. `Incr`, `Expire`, `Decide`; `CallFails`, `CallDies` leave a command undone or done; `WindowTick` |
| `Posts` | `PostService`, `PostRepository`, `slug.py` | `posts`. `ChooseSlugForCreate`, `Insert`; `LoadForUpdate`, `ChooseSlugForUpdate`, `Update`; `Load`, `Delete`, `View`; `ReadBack` and `Reload` are the SELECT after a write |
| `Taxonomy` | `CategoryService`, `TagService`, the references in `PostService.create` and `update`, the foreign keys | `terms` (categories and tags), `refs` (category and tags of each post). `LoadTerm`, `CheckName`, `CheckSlug`, `Insert`, `Rename`; `LoadPosts`, `Delete`; `LoadRefs`, `LoadRelated`, `CheckCategory`, `LoadTags`, `WriteRefs` |
| `Permissions` | `dependencies/auth.py`, the role tests of the services, `update_role`, `list_posts` | `role` of each account. `LoadActor`, `NotAuthenticated`; `CheckAuthor`, `WriteElsewhere`; `LoadTarget`, `SetRole`; `ListPosts` |
| `Reactions` | `PostService.toggle_like`, `BookmarkService` | `rows` (id of the row of each key). `LoadPost`, `LoadRow`, `Insert`, `Delete`, `Reload`; `DeletePost` |
| `Accounts` | `AuthService`, `UserService.change_email`, `update_profile` and `update_profile_image` | `users`, `inbox`. `CheckEmail`, `CheckName`, `InsertUser`, `SendMail`; `LoadForResend`; `LoadRow`, `Verify`; `CheckNewEmail`, `ChangeEmail`; `UpdateProfile` |
| `Comments` | `CommentService`, `CommentRepository` | `comments`, `deleted` posts. `LoadPost`, `LoadParent`, `InsertComment`; `LoadComment`, `Update`, `Delete`, `Reload`; `LoadThreads` |
| `EmailDelivery` | dispatch helpers, `email_tasks.py`, `send_email` | `api`, `tries`, `queue`, `worker`, `sent`. `Publish` is a try that succeeds, `PublishFails` one that fails with or without a task in the queue; `SendFromRequest`; `Take`, `RunTask`, `WorkerDies`, `RequestDies` |
| `...Proofs` | | the theorems about `AuthSessions`, `Accounts`, `Permissions`, `Posts`, `Taxonomy`, `Reactions` and `Comments`; `RedisProofs` those about the three modules whose state is in Redis, `EmailDelivery`, `AccessTokens` and `RateLimit`, which keep their names apart (`TokensSpec`, `LimiterSpec`) so that one module can extend them all |
| `MC...` | | small instances, symmetry sets, and one other initial state; `MCRedis` joins `AccessTokens` and `RateLimit`, which share nothing, and explores each with the other at rest |

`Posts`, `Taxonomy` and `Permissions` are three views of the same requests. They may be
checked apart because they share no column: an `UPDATE` names only the columns it
changes, `Posts` leaves out `category_id` and `post_tags`, `Taxonomy` has nothing else,
and what depends on the other module can end either way (a category that is missing, a
caller who is refused, a post that was deleted).

Some operators are used by no action: `RotateKeepingOld`, `LiveLogins`, `OverLimitByOne`
and so on. Each stands directly before the definition it is a faulty variant of, is
the mistake a change of that code could make, and is there to show that a property of
the runs notices it (`mutants` in `PROJECT.json`).

### Choices of the models

* **READ COMMITTED.** A `SELECT` sees what is committed. An `UPDATE` waits for the row
  lock and keeps it until the commit. A flush and its commit are one step when the
  transaction takes one lock and reads nothing between; `revoke_all_for_user` takes
  several, so it is `SelectLive`, one `LockRow` per row, and `CommitRevocation`.
* **Rows are numbered in creation order**, and the unit of work updates them by primary
  key. Real keys are random UUIDs; what counts is that every transaction uses one
  order, and any order is the creation order up to renaming the rows. `Fresh` fixes
  the choice.
* **Net changes.** An assignment of the loaded value produces no `UPDATE` of that column:
  `Changed` and `Written` in `Posts`, `Written` in
  `Permissions`, `Adds` in `Taxonomy`, `Verify`, `ResetVerified` and `NewEmail` in `Accounts`,
  `LogoutLoad` for a row already revoked.
* **Passwords** are an epoch, bumped by each change. **Titles** are values with a
  function `Slug`, which may map several to one (titles that differ in case or
  punctuation); the random suffix of `generate_unique_slug` is the row and so never
  collides (its 8 hex digits are taken to be unique). What a request asks of a post is
  chosen in the step that first uses it (`ChooseSlugForCreate`, `LoadForUpdate`), since
  nothing before depends on it. **Comment text and post content**
  are columns nothing else reads.
* **The identity map.** A row that is in the session is not read again. An administrator
  who sets its own role is compared with the row loaded to authenticate it
  (`LoadTarget`), and a post's own category, loaded with the post, is found without a
  query (`LoadRelated`).
* **Foreign keys.** An `INSERT` or `UPDATE` that refers to a missing row is refused; the
  deletion of a category or tag takes it out of every post (`ON DELETE SET NULL`,
  `CASCADE`). SQLAlchemy also nulls `category_id` of the posts it selected when the flush
  of the deletion began, by their key alone: a post moved meanwhile loses its new
  category, and `CategoryKept` says only that much. A session that deletes rows of
  `post_tags` another one has deleted already is not told (the driver reports no
  reliable count), so `WriteRefs` lets it pass.
* **Autoflush.** `AsyncSession` may send the `UPDATE` of a post before the `SELECT` of its
  tags. What it locks stays locked until the commit, so nobody sees the difference
  except that the row is written with the tags; the model writes once, in `WriteRefs`.
* **Names of categories and tags.** `get_by_name` leaves no row out (`NameFound`): a rename
  conflicts with its own row when another request has given it that name since it was
  loaded. The unique index does leave it out (`NameTaken`).
* **Mail.** `EmailDelivery` follows one mail per request; in `Accounts` a mail arrives or
  does not. `celery_app.py` leaves Celery's publish retry at its default, so one
  `delay()` is up to `MaxTries` tries, and one whose reply was lost has queued a task
  although it is tried again. An error that is not retried raises at once. A worker
  acknowledges a task before it runs it, also Celery's default.

## 3. The runs

| Run | Instance | Distinct states | What it shows |
|---|---|---|---|
| `AuthSessionsSafety` | 2 accounts, 2 requests, 2 rows, 1 password change | 1,046,189 | rotation is all or nothing (`RotationAtomic`); a bulk revocation that answered has closed every session that existed when it arrived (`RevokeAllCoversEarlier`); a token revoked before a refresh arrived is refused (`RevokedTokenRefused`); a deleted account neither logs in, refreshes nor changes (`DeletedAccountRefused`); the rows implement `SessionStore` (`StoreSpec`) |
| `AuthSessionsLiveness` | 1 account with 3 sessions, 4 rows, 2 requests | 228,859 | every request is answered: two bulk revocations, or one and a rotation or logout, never deadlock, because the flush goes by primary key: no set of requests waits only for its own members (`NoDeadlock`), and every request is answered (`EveryRequestAnswered`) |
| `AuthSessionsReuse` | 1 account, 3 rows, 2 requests | | violated: `SingleUse`, see findings |
| `Redis` | 1 client, 3 requests, limit 2, window 2 ticks, 2 faults; and 1 token, 2 requests, 2 ticks to the second, life 4 s, 12 ticks | 1,162,747 | a window admits at most the limit (`WindowBudget`) and is not prolonged (`WindowNotExtended`); a key without a time to live is about to get one or was orphaned by a fault (`KeyWillExpire`); a limited client gets back in unless its key was orphaned by a fault between INCR and EXPIRE (`LimitedClientRecovers`); a request begun after a logout is not authenticated before the last second of the token's life (`LoggedOutRefused`); the TTL sent with the SET is never one Redis refuses (`TtlAccepted`) |
| `EmailDelivery` | 2 mails, 2 workers, 4 tries of a publish, 2 faults | 586,788 | an answered mail is sent, queued, being sent or hit by a fault (`NotLostSilently`); there are no more copies beyond the first than lost replies (`ExtraCopiesFromLostReplies`); while a worker runs, every mail no fault touches is sent (`EveryMailSent`) |
| `EmailWithoutWorker` | 2 mails, no worker, 4 tries | | violated: `SentWithoutWorker`, see findings |
| `AccountsSafety` | 2 accounts, 2 addresses, 2 names, 2 requests | 371,149 | `AccountsDistinct`; `VerifiedByHolder`; an address changes only to the one asked for, profile edits bring none back, and a change nobody overlaps resets the verification (`AddressChanges`) |
| `PermissionsSafety` | 3 accounts, 2 requests | 731,662 | nobody acts without a documented role held since the request began, or ownership (`ActsAsDocumented`); roles change only by an administrator's request, and nobody reinstates himself (`RoleGrants`) |
| `PostsSafety` | 2 posts, one of them viewed, deleted or given another status, 3 titles of which two share a slug, 2 requests, 1 view | 1,318,194 | views not invented (`ViewsNeverAhead`); the slug is that of the title but for one kind of stale update (`SlugFollowsTitle`, see findings); a request nobody overlaps is refused only for a deleted post's slug (`ConflictOnlyWithDeleted`); deletion final and status changed only by a request for it (`EditsWriteTheirColumns`) |
| `TaxonomySafety` | 2 categories, 1 tag, 3 names of which two share a slug, 1 post, 2 requests | 1,130,656 | no post refers to a row that is gone (`ReferencesExist`); a request nobody overlaps is refused only for a name or slug in use (`ConflictOnlyWhenTaken`); a post loses only a category that it was in while that was deleted (`CategoryKept`); after an edit the tags differ from those it found only where another request has touched them (`TagsReplaced`) |
| `ReactionsSafety` | 1 user, 1 post, 3 requests, 2 rows inserted | 105,344 | a row that is gone was announced as removed (`NothingLostSilently`); a removal takes the row it loaded and never a later one (`OnlyLoadedRowRemoved`) |
| `CommentsSafety` | 3 comments, 2 posts, 2 requests | 1,315,499 | `ThreadsOnOnePost`, `NothingOnDeleted`, `DeletedForever`, and a deleted top-level comment hides its replies (`DeletedThreadHidden`) |

The type invariants of `AuthSessions`, `Posts`, `Permissions`, `AccessTokens` and `RateLimit` are
proved and not run; the safety runs of the other modules check theirs.

### Bounds

* `MaxPw`, `MaxReads`, `MaxCount`, `MaxRows`, `MaxNow`, `MaxFaults`, `MaxCallFaults` end the
  counters: a request that would exceed one does not begin (`Room` does it for the rows of
  `refresh_tokens`). Two requests are enough for every race here, since each hazard is
  a read of one request overtaken by a write of another; the limiter and the toggles
  have three, so that a third finds what two left.
* Two rows of `refresh_tokens` allow a login with its rotation, a reuse alarm with a live
  successor, and two sessions revoked together; the proofs do not depend on it. The
  liveness run starts from three sessions so that two revocations have several locks to
  contend for, and has one row left for a rotation.
* One password change already gives an old and a new epoch.
* Half-second ticks separate an instant from a whole second, which is all the truncation
  is about; the life of 4 s leaves seconds before and after the ones that matter, and
  the clock runs past the end.
* `MaxCount` is twice the limit, so counting goes on after refusals begin.
* Three comments give every shape of thread up to three levels.
* `PostsSafety` has two rows and three titles, `notes`, `shouted` (the same in capitals, with
  its slug) and `other`: enough for a collision, a rename into it, a deletion that leaves the
  slug behind, and a change of title that keeps a slug another request is changing. One
  view is enough for two that overlap to be told apart. `Busy` is the one post that is viewed,
  deleted or given another status: these races are on a single row, and the other post is
  there to compete for slugs, created and retitled like the first.
* `MaxTries` is no bound but Celery's default: three retries after the first try. Two mails
  suffice because they meet only in the workers, which two of them can both occupy.
* `TaxonomySafety` has two names with one slug, where a name is free and its slug is not,
  and one more to rename to; one post is enough, since requests meet on it, and two
  categories allow a move from one to the other while the first is deleted. Keys are not
  used twice: a deleted row stays `Gone`.
* `PermissionsSafety` has three accounts, so that an administrator can promote a second
  and be demoted by it while a third is acted upon.
* Symmetry is used over requests, accounts, posts, addresses, mails, statuses, names and the
  two titles of one slug where nothing orders them, never over row numbers, and never in a
  run with a liveness property.

Deadlock is checked everywhere except in the two runs of `EmailDelivery`, where the system
really stops: each mail is one request and all of them end.

### Fairness

* `AuthSessions`: weak fairness of every step that waits for no other request (the event
  loop resumes a request whose await has completed); strong fairness of the steps that
  take a row lock, because PostgreSQL grants a contended row to the requests in the
  order they asked. No fairness of arrivals or of failures.
* `RateLimit`: time passes, and a request whose Redis call returned goes on. `SpecRedis` of the
  run states this fairness for the limiter's steps; `AccessTokens` needs none.
* `EmailDelivery`: requests go on, and a worker that runs takes and runs tasks. `WorkerDies`
  and `RequestDies` have none. With `Workers` empty nothing takes a task, which is what
  `EmailWithoutWorker` shows.

### Findings

`SingleUse` (`AuthSessionsReuse`). `refresh_access_token` tests `revoked` on a row read
without a lock; two refreshes with one token that both read it before either commits
both get a successor. The service's own comment calls refresh tokens single-use. What
does hold is `RevokedTokenRefused`: once the revocation is committed, a request that
arrives later does not get through.

`SentWithoutWorker` (`EmailWithoutWorker`). The README of the repository and
`docs/TROUBLESHOOTING.md` say that without a reachable worker the API falls back to sending
the mail itself. It falls back when `delay()` raises, which depends on the broker only: a
broker that is up accepts the task, the request is answered, and the mail waits in the
queue for a worker that may never start. Without a broker `delay()` raises
and the fallback is real.

Other limits of the code show as the conditions of properties that hold: a session opened by
a login that read the password before a change outlives it (`RevokeAllCoversEarlier` speaks
of sessions that existed when the change arrived); a logged-out access token is accepted
again in its last second (`LoggedOutRefused`); a fault between INCR and EXPIRE limits a
client for good (`LimitedClientRecovers` leaves it out); concurrent views are lost
(`ViewsNeverAhead` is one-sided); two toggles of one like may both remove it
(`NothingLostSilently` is one-sided too); a deleted post keeps its slug
(`ConflictOnlyWithDeleted`); a verification mail to an old address verifies the new one
(`VerifiedByHolder` speaks of any address the account has had); a verification that overlaps
a change of address survives it (`AddressChanges` asks for `alone`); an update whose new
title slugifies to the slug it has loaded writes the title only, so that it leaves the title
"Notes!" with the slug of "Other" when another has renamed the post from "Notes" meanwhile
(`SlugFollowsTitle` leaves out the posts in `hist.crossed`, those such an update was the
last to retitle, and the next change of the title takes a post out of it); a deleted reply
stays in the list (`DeletedThreadHidden` speaks of top-level comments); a failed send in a
worker is not retried (`EveryMailSent` leaves out mails a fault touched); a publish whose
reply was lost is tried again, and each such try may add a copy
(`ExtraCopiesFromLostReplies`); a post moved out of a category that is being deleted may
lose its new one (`CategoryKept`); a role lost while a request runs still serves it
(`ActsAsDocumented` speaks of roles held since it began); two edits that add one tag meet
the primary key of `post_tags` and one gets a conflict (`ConflictOnlyWhenTaken` asks for
`alone`), and two that replace different tags may leave a mixture (`TagsReplaced` exempts
the tags another has touched); a creation or rename that finds a name free may still meet
the index, and a reply be inserted under a comment that has just been deleted
(`NothingOnDeleted` speaks of deletions before the request began); nothing keeps a last
administrator.

A thread with a reply to a reply cannot be serialized, which the repository's README
lists as a known limitation; the model lets such a request fail. `docs/API_GUIDE.md`
says of the status filter that callers are forced to `published` "unless they explicitly
request otherwise"; the code and the README force them always, and `ActsAsDocumented`
holds of what the code does.

## 4. The proofs

Every module has its safety proved: all that the passing runs check, except the three
liveness properties, is a theorem about the specification of its component, for every value
of the constants. The run `Redis` checks `SpecRedis`, whose steps are those of `LimiterSpec`
or of `TokensSpec` with the other at rest; the theorems are about these two. In each proof
module `Invariance` is `Spec => []Inv` for an inductive `Inv` (called `IInv` in
`AuthSessionsProofs`; `MailInv`, `TokensInv` and `LimiterInv` in `RedisProofs`),
`TypeCorrect` is `Spec => []TypeOK`, and the others follow:

| Module | Theorem | States |
|---|---|---|
| `AccountsProofs` | `AccountsAreDistinct`, `VerifiedIsHolder`, `AddressesChange` | `AccountsDistinct`, `VerifiedByHolder`, `AddressChanges` |
| `PermissionsProofs` | `ActingIsDocumented`, `RolesAreGranted` | `ActsAsDocumented`, `RoleGrants` |
| `PostsProofs` | `ViewsAreAnswered`, `SlugsFollow`, `ConflictsAreWithDeleted`, `EditsAreOfTheirColumns` | `ViewsNeverAhead`, `SlugFollowsTitle`, `ConflictOnlyWithDeleted`, `EditsWriteTheirColumns` |
| `TaxonomyProofs` | `ReferencesAreThere`, `ConflictsAreReal`, `CategoriesAreKept`, `TagsAreReplaced` | `ReferencesExist`, `ConflictOnlyWhenTaken`, `CategoryKept`, `TagsReplaced` |
| `ReactionsProofs` | `LossesAnnounced`, `RemovalsAreOfLoaded` | `NothingLostSilently`, `OnlyLoadedRowRemoved` |
| `CommentsProofs` | `ThreadsHang`, `DeletedIsRefused`, `DeletedIsHidden`, `DeletionIsFinal` | `ThreadsOnOnePost`, `NothingOnDeleted`, `DeletedThreadHidden`, `DeletedForever` |
| `RedisProofs`, mail | `NothingLost`, `CopiesFromLostReplies` | `NotLostSilently`, `ExtraCopiesFromLostReplies` |
| `RedisProofs`, tokens | `LogoutHolds`, `TtlPositive` | `LoggedOutRefused`, `TtlAccepted` |
| | `BlacklistReaches` | a token whose logout was answered is blacklisted until its last second begins |
| `RedisProofs`, limiter | `BudgetHolds`, `WindowsRunOut`, `KeysExpire` | `WindowBudget`, `WindowNotExtended`, `KeyWillExpire` |
| | `BudgetNotWasted` | without faults, a window's first `Limit` requests have passed or will |

### Sessions

`AuthSessionsProofs` proves of `AuthSessions`, for any sets `Users` and `Requests`, any
finite set `Jtis` of naturals and any `MaxPw`:

| Theorem | Statement |
|---|---|
| `Invariance` | `Spec => []IInv`, the inductive invariant |
| `TypeCorrect` | `Spec => []TypeOK` |
| `RotationIsAtomic` | `Spec => []RotationAtomic` |
| `RevocationCoversEarlier` | `Spec => []RevokeAllCoversEarlier` |
| `RevokedIsRefused` | `Spec => []RevokedTokenRefused` |
| `DeletedIsRefused` | `Spec => []DeletedAccountRefused` |
| `RevocationIsFinal` | `Spec => RevokedForever` |
| `LockOrdering` | in its flush a request holds only rows below every row it still wants, and outside it none |
| `DeadlockFree` | `Spec => []NoDeadlock` |
| `ImplementsStore` | `Spec => StoreSpec`, the refinement of `SessionStore` |

The assumptions are `JtisAssumption` (row numbers are naturals, so that creation order makes
sense, and a table is finite) and `NoneAssumption` (`None` is neither an account nor a row).
TLC evaluates both in every run of the module.

`IInv` is `TypeOK`, `RotationAtomic` and, for each request, `Knows`: what the request has
established and may rely on at its program counter. `Refs`: the row it loaded exists and
belongs to its account, and so does every row it selected. `Covers`: every row of
`hist.before` is revoked or selected once `SelectLive` has run, and revoked once the
revocation has answered. `DeadEnds` and `GoneEnds`: a request whose token was revoked, or
whose account was deleted, before it began is not past the check that refuses it. None of
the other three invariants is inductive alone: `RevokeAllCoversEarlier`, for instance, is
about a request that has answered, and what makes it true is settled when `SelectLive`
reads the live rows, several steps earlier.

The argument: rows only move forward (`Grows`: an existing row keeps its owner, parent and
epoch, a revoked one stays revoked, a deleted account stays deleted), proved of every step
first. So whatever a request knows of rows and accounts stays true while others run
(`OthersKeep`), and each action is checked only for the request that takes it
(`ActorKnows`). The refinement maps every action to a stutter of `SessionStore` or to
`Open` (`LoginCommit`), `HandOn` (`RefreshCommit`) or `Close` (`LogoutCommit`,
`CommitRevocation`).

Deadlock freedom is proved from `LockOrdering`. `WaitsFor` is PostgreSQL's wait-for relation:
a flush waits for the holder of the lowest row it has not locked, the flush of another
request that changes the account row waits for its holder, a rotation or logout waits
for the holder of its one row. Only a request in its flush holds rows. In a set of
requests that wait only for each other some flush would wait for a row; its holder is
itself in its flush and waits for a row above that one, so the rows waited for have
no greatest one (`RowsEnd`), which a finite table excludes.

### The other modules

The invariants have one shape. Apart from the types they say, of each request, what it
may rely on at its program counter, and, of the tables, what no step undoes. No property
is inductive alone, except where named, because what makes a write right was read
several steps before.

* **Accounts.** `Sound`: the account a request names exists, and the address its mail goes
  to is one the account has had. `Lone`: a request that no other overlaps has loaded the
  row that is stored, which is what makes `ResetVerified` take the verification away. It
  stays true because rows only appear and addresses are only added to `held` (`Grown`).
  `AccountsDistinct` is inductive by the unique indexes, whatever the SELECTs saw.
* **Permissions.** `Current`: the role an account has now is among those it has had since
  any of its requests began, because `SetRole` adds it there. So a role that was loaded is
  one of them (`Loaded`), and `Entitled` remembers why a request that has dropped its role
  went on. `OwnOld`: who sets its own role loaded it as an administrator, hence an
  `UPDATE` to `admin` names no column.
* **Posts.** `Creating`: the row of a creation is its own; `Changing`: rows stay. A chosen
  slug is of the title asked for and plain or suffixed with the row (`SlugFor`), so only
  plain ones collide (`SlugsOf`). `Updating`: the slug an update has chosen is of its title,
  and so is the one it has loaded and keeps. `SlugFollowsTitle` follows with `crossed`: a
  row that still has the kept slug has that of the new title, and one that has not is
  crossed. It holds for any `Slug`. `Alone`: what a lone request found free still is.
* **Taxonomy.** `ReferencesExist` is inductive by the foreign keys. `Sound`: what a deletion
  has selected, and what is in its category now, has been in it since it began (`was`).
  `Lone` with `Checked`: the categories and tags that a lone request found are there, and
  what it loaded is what is stored. `TagsReplaced` rests on `touched`: what an edit has loaded
  and what is stored differ in touched tags only, so the difference it writes leaves the
  others as asked.
* **Reactions.** `NothingLostSilently` is inductive with the types and `Keyed`: a row
  appears only in an insertion and disappears only in a removal, and each is counted.
* **Comments.** A step only adds comments and deletions (`Grown`). So what a request has
  established of the post, the parent and the comment stays true (`Creating`, `Editing`),
  and what was deleted when it began still is (`Gone`).
* **Mail.** `Copies` counts a mail's tasks, queued or in a worker, and the copies sent.
  `Accounted` bounds them by the lost replies, and one more once the request is over,
  whose last try or own sending made it. `Tried`: lost replies are failed tries, and while
  a publish goes on a try is left. `Lossless` says where the copy of an answered mail still is.
* **Access tokens.** `Reaches`: the TTL a logout has computed is positive and, counted from
  any later instant, ends in the token's last second or after. It is where the arithmetic of whole
  seconds is (`TtlReaches`), and it stays true because the clock only moves forward. From
  it `Covered`, the entry a logout leaves lasts until the last second begins; and
  `Late`, a request begun after that logout gets past the blacklist only then.
* **Rate limiter.** `Pending` and `Single`: one request at most is between the INCR that found
  no key and its EXPIRE, and until then the key has no time to live. So each key expires
  (`WillExpire`), and it expires with no EXPIRE left to prolong the next window.
  `Budget`: the requests admitted and those that hold a claim, having been counted within
  the limit in this life of the key, are together at most the limit and at most the
  counter, and exactly the lesser of the two until a fault loses one. Claims are
  counted as a set of requests, one of which a step adds or takes (`ClaimsKept` for the
  clients it does not touch).

The assumptions are those on the constants in each module: `None` and `Gone` are none of the
values beside them, rows are numbered, keys of tables are disjoint, the limits on time and
faults are natural numbers, a publish is tried at least once, and a second, a token's life
and a window are not empty. Every module with an assumption is extended by the module of a
run that passes, where TLC evaluates it.

### Only model-checked

* Liveness and its fairness (`EveryRequestAnswered`, `LimitedClientRecovers`,
  `EveryMailSent`), which TLAPS does not handle. What each of them rests on is a theorem:
  nobody waits in a circle (`DeadlockFree`), a key expires or was orphaned (`KeysExpire`), a
  mail is somewhere until it is sent (`NothingLost`).
* `SingleUse` and `SentWithoutWorker`, which are violated.

## 5. Not modelled

* Pages, search and sorting of the lists, and the list of bookmarks: read-only queries.
  What a list lets a role see is in `Permissions`, what it shows of threads in `Comments`.
* The file of a profile image (its column is in `Accounts`), request logging, settings,
  error bodies, the downgrade of the schema: no state that any property is about.
* Descriptions of categories, content of posts and comments, names and biographies: columns
  that nothing else reads, written like the ones that are modelled.
* `TagService.get_or_create_many`: nothing calls it.
* Cryptography: whether a signature or a hash is genuine is a choice in the models.

## 6. Plan

Done: `SessionStore`, `AuthSessions`; the stores beside the database (`AccessTokens`,
`RateLimit`, `EmailDelivery`); the content (`Posts`, `Reactions`, `Comments`), `Accounts`,
then `Taxonomy` and `Permissions`; the safety of every module proved, and the sessions free
of deadlock.

Worth doing next:

1. Abstract specifications for `Reactions` (a set of pairs with announced changes) and
   `RateLimit` (a budget per window), each as a refinement like `SessionStore`.
2. Pages of a listing under concurrent insertions and deletions.

## 7. Running the checks

`tlc -config <Run>.cfg <MC module>` for each row of `runs` in `PROJECT.json`, and
`tlapm <Module>Proofs.tla` for the proofs. The passing runs take from a few seconds to two
or three minutes each. `AuthSessionsReuse` and `EmailWithoutWorker` stop at a
counterexample, which is their point.
