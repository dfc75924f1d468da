# A formal model of Axiom AI

Axiom AI is a document chat: a Next.js frontend, a Go gateway that keeps the
accounts and the sign-in sessions and proxies everything else, and a FastAPI ML
service that keeps every user's documents, indexes them and streams answers.
This directory holds TLA+ modules for the parts of it that are hard to test,
TLC configurations that check them on small instances, and TLAPS proofs, for
instances of any size, of every safety property the passing runs check. Paths are
relative to the repository.

To run one: `tlc -config MCGateway.cfg MCGateway.tla`; to check proofs:
`tlapm SessionsProofs.tla`.

## 1. Inventory

| component | state | operations | what makes it correct |
|---|---|---|---|
| gateway: auth handlers (`gateway/auth.go`) | none of its own; requests in flight | register, login, refresh, logout, me | a session has one credential, however requests interleave; it ends for good |
| gateway: Postgres store (`store_postgres.go`) | `users`, `refresh_tokens` | create, authenticate, store / consume / revoke token, revoke all, purge | exactly one of two claims wins; reuse revokes; the atomicity is that of one statement |
| gateway: in-memory store (`store_memory.go`) | maps under one mutex | the same | answers like the Postgres store |
| gateway: access tokens (`token.go`, `requireAuth`) | signing key, TTLs | issue, verify | short-lived, only this key, identity headers overwritten |
| gateway: rate limiter (`ratelimit.go`) | one window per key, a reaper | allow, reap | bounded bursts, own budget per client, an honest Retry-After |
| gateway: router, proxy, life cycle (`main.go`) | trusted proxies, open connections | route, proxy, shut down | streams are not cut, shutdown is bounded |
| ML service: documents and index (`ml-service/main.py`) | directories, docstore in memory and on disk, Qdrant | user_dir, upload, list, delete, sync | users are isolated; what is answered survives; what is deleted is not cited |
| ML service: chat | none kept | query, SSE stream | a stream is tokens, sources, done, or an error |
| ML service: gateway key, user id | configuration | require_gateway, normalize_user_id | only the gateway speaks for a user |
| frontend: session (`AuthProvider.tsx`, `lib/auth.ts`, `lib/session-storage.ts`) | session in state, in a ref, in localStorage; a refresh in flight; a timer | sign in and out, refresh, storage events | one refresh at a time, tabs converge, sign-out holds |
| frontend: API client (`lib/api.ts`) | none | authedFetch, streamChat | one retry after a 401, every call ends |
| frontend: chat (`ChatApp.tsx`) | conversations, isStreaming, abortRef | send, stop, regenerate, new, select, delete, save | a frame goes to its own answer, the composer returns |
| frontend: stored conversations (`lib/conversations.ts`) | localStorage, one key per account | load, save after 300 ms | nothing is saved under another account |
| frontend: upload panel (`UploadPanel.tsx`), status indicators (`StatusIndicator.tsx`, `BackendStatus.tsx`) | list, flags, health; the state of the banner, checks in flight | refresh, upload, delete, poll | list and count follow what the user did, the panel always comes back, the banner clears by itself |
| frontend: sign-in page and screens (`AuthScreen.tsx`, `app/page.tsx`) | mode, error and busy flag of the form; which screen is shown | submit, switch the mode, swap the screens | one attempt per form, the button comes back |
| frontend: toasts (`ToastProvider.tsx`) | notices, one timer each | notify, dismiss | every notice goes |
| frontend: theme (`ThemeProvider.tsx`, `ThemeToggle.tsx`, the script of `app/layout.tsx`) | choice and machine preference, `data-theme`, localStorage | set, cycle, load, hydrate | what is said to be shown is shown; a choice sticks |
| frontend: sidebar (`Sidebar.tsx`) | none of its own that others read | select, delete, new chat, mount the panels | it shows the account that is signed in |
| presentation, deployment, CI | | | not modelled |

How they interact. The browser calls the gateway with an access token; on a 401
`authedFetch` asks `AuthProvider` for a refresh and sends the request once
more. The gateway verifies the token, sets `X-Axiom-User-Id` and the shared key, and
proxies `/api/...` to the ML service, SSE included. Tabs share `localStorage`
and hear of changes by storage events. The ML service shares one Qdrant
collection and one docstore between all users and separates them by an
`axiom_user_id` on every node.

Where it is hard.

- *Gateway*: requests are goroutines. A refresh is three store calls (claim,
  perhaps lookup and revoke, insert) with no transaction around them, any of
  which may fail, and the process may stop between any two.
- *Rate limiter*: the clock is read before the mutex is taken, so decisions are
  not made in the order of their times.
- *ML service*: handlers block the event loop and hence do not interleave, but
  each writes the file system, Qdrant and the docstore one after the other, and
  only the last `persist`, which rewrites several files in place, makes the docstore
  survive. The query of a stream runs
  later, in a worker thread, beside other handlers.
- *Browser*: every `await` lets other turns, other tabs and the user in; React
  state seen by a handler is that of the last render; replies may get lost; a
  handler goes on when the component it belongs to is gone.

## 2. Modules

| module | models | extends |
|---|---|---|
| `SessionLedger` | abstract: what a session is, whatever the store | |
| `GatewayAuth` | accounts, tokens and requests; what both stores share | |
| `PgSessions` | consume, failure, restart and purge over Postgres | `GatewayAuth` |
| `MemSessions` | the same over the in-memory store | `GatewayAuth` |
| `AccessTokens` | issue, expiry, verification of access tokens: operators over the state of the sessions | `PgSessions` |
| `StoreEquivalence` | both stores driven in lockstep, with their clocks | |
| `RateLimiter` | allow, reap, ClientIP, Retry-After | |
| `AuthClient` | tabs, storage events, refresh, authedFetch, with the gateway as seen through its replies | |
| `Corpus` | directories, docstore, Qdrant, crashes and failures | |
| `ChatApp` | runQuery, streamChat, event_stream, the handlers of one tab | |
| `Conversations` | the chat history of several tabs and accounts in localStorage | |
| `DocumentPanel` | the upload panel and the status indicator, with the accounts' directories and a change of account | |
| `SignInPage` | the screens of a tab, attempts to sign in, the gateway's banner, the notices | |
| `ThemeProvider` | the theme: provider, attribute, localStorage, the script before React | |
| `SessionsProofs` | theorems about the gateway's sessions over both stores, and access tokens | `AccessTokens` |
| `GatewayProofs` | theorems about the rate limiter and the two stores in lockstep | `MCGateway` |
| `PageProofs` | theorems about the form of the sign-in page and the theme | `MCPage` |
| `AuthClientProofs`, `CorpusProofs`, `ChatAppProofs`, `ConversationsProofs`, `DocumentPanelProofs` | theorems | the module named |
| `MCAuthClient`, `MCCorpus`, `MCChatApp`, `MCConversations`, `MCDocumentPanel` | instances for TLC: symmetry sets only | the module named |
| `MCGateway` | `PgSessions` with `AccessTokens`, `MemSessions`, `StoreEquivalence` and `RateLimiter` in one instance | `AccessTokens` |
| `MCPage` | `SignInPage` and `ThemeProvider` in one instance | `SignInPage` |

`PROJECT.json` maps every definition that stands for code to its lines.
Definitions commented `Mutant:` are not part of the model: each is the definition
that follows it with a plausible bug, and a property that does not notice it
when put in place of that definition would say nothing. They are listed under
"mutants" with the property that catches each.

### GatewayAuth, PgSessions, MemSessions

A request is a slot in `req` whose `pc` names the store call it makes next, so
that others interleave between any two calls. `refresh` is `ClaimHit` (`UPDATE ...
WHERE revoked = FALSE RETURNING`), `CheckExpiry`, `Issue`, `StoreToken`, or
`ClaimMiss`, `LookupOwner`, `RevokeAll`; `login` and `register` end in the same
`Issue` and `StoreToken`. `Issue` fixes `expiresAt` before the insert. `Fail`
ends a request at any call: the error path changes nothing and what was done
before stays done. In the in-memory store consuming is one step under the mutex
(`Consume`, `ConsumeReused`) and no call fails.

A SQL statement is one step. An `UPDATE` of several rows under READ COMMITTED
sees the rows committed when it starts, and re-checks those it had to wait for,
so `RevokeAllForUser` takes effect at its snapshot as far as inserts go: a row
inserted later, or not yet committed, is left alone, and the order
"revoke, then insert" of two steps stands for both. Passwords, e-mail
normalisation and hashes are left out: an account is a `User`, a token is itself
and its digest.

`family` and `marks` are history: which sign-in a token descends from and what
was done with it. The code has no such column: it revokes by user. The
property it needs is nevertheless one of families:
`OneCredential`: a session is either one live token or one request that has
claimed it. `WithdrawalIsFinal` says the same of steps: a token that stops being
live is in the hands of the request that claimed it, or its session is over,
with nobody left to continue it. `SessionLedger` says it abstractly (open,
claim, renew, end) and both stores implement it.

`NoLiveAfterReuse` is what the comments and a test promise and the code does not
keep; see section 5.

### AccessTokens

An access token is signed, not stored, so the module has no variables: one is
handed out with every refresh token, at the moment that fixes the expiry of the
latter, and `requireAuth` accepts it until `ExpiresAt`. `SignOutTakesEffect` joins
that with the sessions: once a session has no credential, whoever ended it and
whatever is under way, it gets no other one, and its access tokens are refused
after `AccessTTL` at the latest. It is the promise behind `token.go:15`: nothing
can be revoked, so the lifetime has to bound it, and that fails as soon as some
request can still hand out a pair for a session that has ended. `JWT_SECRET` is
taken to be set; without it a new process accepts no older token.

### StoreEquivalence

One caller, both stores. A tick is half a second, because Postgres compares
whole seconds and the in-memory store the exact time. Any token may be presented, expired
ones too. Tests run on the in-memory store, so they speak for the deployment as far as
the two agree. They do not always: Postgres claims a token before it looks at its expiry, so an
expired one presented twice counts there as reuse and ends its owner's sessions.
`late` (history) has the owners to whom that may have happened. `StoresAgree` is about
the others, up to the boundary of the expiry: the same answers whatever was called
before. `PgIsStricter` is about everybody: Postgres lets nobody in whom the in-memory store
turns away, and misses no reuse the other reports. `StoresMirror`, the claim without
`late`, is what the code's comment says and is false (section 5).

### RateLimiter

`Arrive` reads the clock, `AllowFresh` and `AllowCounted` decide under the mutex
up to `MaxLag` ticks later; the reaper is cut the same way. `log` is history.
`BurstIsBounded` is the "2x the limit" of `ratelimit.go:17`, over an interval
shortened by the lag on both sides: with the full interval it is false. The bound is two
budgets less one: a window is open for the whole interval, so the attempt that opened the
earlier of two windows is out of reach when the later one begins. That many do occur
(section 3). `KeyBudget` says who uses up a budget: the clients that share a key, and
nobody else. It is over an interval longer by one lag: of the attempts a window counts, one
may have read the clock before the one that opened the window did. A key is one client only where
the proxy is listed; `OwnBudget` says what that gives, and is false for the `*`
the deployment uses (section 5). `RetryAfterSuffices` needs the `+1` of `ratelimit.go:84`.

### AuthClient

A turn from one `await` to the next is a step. `store` is localStorage and
`mem[t]` is `sessionRef.current` of a tab, each represented by its refresh token.
`flight[t]` is `refreshInFlight`, `call` an `authedFetch`, `outbox` what nobody
waits for. A gateway that answers reuse drops every token of the owner, as
`RevokeAllForUser` does; the interleavings inside the gateway are left to
`PgSessions`. Every behaviour begins by choosing `calm`: one tab, no loss, no
reload, no signing in or out while a refresh is in flight; or all of that at any time.
A tab has one sign-in under way, as the form has; one that fails for the client is not
served later: the token it would create is nobody's, so no tab could present it.

`NoFalseReuse` and `KeepsCredential` hold in calm sessions: that is what the
shared promise in `AuthProvider` achieves, and its limits are section 5.
`TabsConverge` and `CallsSettle` hold in all of them.

### Corpus

`job` is the handler on the event loop, cut where the process may die or a call may
fail: the file operations come first, then one step per document inserted, then
`PersistBegins` and `Persist`. No other handler runs meanwhile, because nothing after
the body of an upload has been read awaits. `ask` is a stream whose handler has returned: `Chat`
(or the end of a sync) lists the user's nodes, and `Retrieve` queries them, and Qdrant
as it then is, after any number of other handlers. `mem` and `disk` are the docstore,
`vec` is Qdrant, and a node carries both the user it is tagged with (`tag`) and
the one whose directory it was read from (`user`): `RetrievalIsIsolated` relates
the two, for both halves of the retriever. A document is one node (the files of
the corpus are chunked in the same way, a page more or less); its `id` tells it from a
second node of the same page (`FreeId` draws one that is not in use).

`storage_context.persist` opens its files for writing one after the other, so between
`PersistBegins` and `Persist` the `storage` is "torn". A death there leaves it torn (or, if
it falls after the last byte, whole): from then on `load_index_from_storage` raises
in every handler that wants the index, for every user, and nothing repairs it (`Broken`). Then an upload still
writes its file and answers 500, a delete removes the file, and no chat is answered.
`SeedingStops` is `user_dir` cut short, by a death or by a `copy2` that raises: the
directory is there and some of the starter files are not.

`cut` (history) has the users one of whose own requests died or failed half way, and
all users once the process has died inside `persist`. Three of the seven properties hold for
everybody and whatever fails: `TypeOK`, `RetrievalIsIsolated` (waiting queries included) and
`AckedIsDurable`, which promises the files and vectors of answered uploads for ever, and the docstore's
part of them as long as nothing died inside `persist`. Four hold for each user who is not
`cut`, whatever happens to the requests of others and however often the
process is restarted between requests: `CitationsAreBacked`, `CitesNothingOlder`,
`NoDuplicateVectors` and `SyncIndexesAll`. That the harm of a failure stays with the
user whose request it was is what makes them more than a statement about good days. What the
repository says without that condition is false, and section 5 has it.

### ChatApp

An updater passed to `setConversations` sees every update queued before it
(`convs`, `streaming`); a handler sees the last render (`shown`). A user event is
rendered when its handler ends; what a frame queues is rendered some time
later (`Render`). `query[q].phase` follows `streamChat`: fetch, refreshing, retry,
tokens, done, eof, ended. `Stop` aborts the query sent last; a refresh takes no
signal, so a query that waits for one stays `aborted` until the refresh ends.
A body may end before its last frame (`cut`): when the ML service dies in the middle of
a stream, the gateway's reverse proxy aborts by a panic, which gin's recovery
swallows, and the response may then be closed as if complete. `streamChat` leaves its loop
without a word (`api.ts:116`); `EndsExplained` excludes it, section 5 has it.
Frames arrive one per step. The branch of `authedFetch` that awaits the body of
an error before `onError` is joined with it, and signing out, which unmounts the
chat, is left to `Conversations`.

### Conversations

Each tab has a list and a timer; the save effect runs after every render and
replaces the timer by one for the list just shown, `Save` is the timer firing.
`SwitchAccount` is the render in which the account has changed and the list has
not: the code then sets a timer for the *new* account with the *old* list. What
keeps it from being stored is that the load effect of the same render queues
the list of the new account, whose render puts the timer off: `RenderLoaded`
comes before any timer, which has 300 ms to go. `KeptApart` depends on that
order and on the key; it is the privacy that `conversations.ts:6` asks for.
`SavedOrDue` is about the debounce: the last list shown is the one stored or due.
`synced` (history) excludes a tab whose last save threw, or after which another
tab of the account saved its own list: the last writer wins.

### DocumentPanel

A call of `refresh`, `handleFiles` or `handleDelete` is a slot in `chain`: several
may be under way, for the panel does not disable itself. A request may fail
before or after the service has done it. `version` is `documentsVersion`, the key of
`StatusIndicator`: `Remount` unmounts the old instance, whose polls in flight are
dropped by its `cancelled` flag. `health` is the count shown, as the number of
changes the directories had seen when it was taken. `CountIsFresh` holds with
overlaps, failures and polls out of order; `ListIsCurrent` only while nothing
failed or overlapped (`smooth`), which marks the gaps of section 5.

Another tab may change the documents of the account (`OtherTab`) or the account
itself (`SwitchAccount`). Nothing of the panel depends on the account, so neither
touches it: `ChatApp` stays mounted as long as somebody is signed in, and swaps the
conversations only. A request carries the account (`as`) whose session it was sent
with, and after a 401 is sent again for the one signed in by then (`Retried`);
`whose` is the account the list shown came from. `SidebarIsSwapped`, that the two
accounts agree in an idle panel, is what `ChatApp.tsx:70` says and the code does not
do.

### SignInPage

`Home` is the render of `page.tsx`: which of splash, form and chat is shown depends
on `useAuth()` alone, and the form and the banner start anew when they come back.
An attempt is a slot: its form may be gone when its answer comes, because another
tab has signed in, and its mode may have been switched; `here` says whether React
state set by it still reaches a form. `OneAttempt` relates the `busy` flag to the
attempts under way over all of that. The banner's checks are sent every five
seconds whether or not earlier ones were answered, so answers overtake each other:
`BannerClears` is what remains true. A notice has one timer, which runs on when it
is dismissed. What an attempt does to the stored session is `AuthClient`'s
subject; the two have no other state in common.

### ThemeProvider

`attr` is `data-theme`. The style sheet goes by it, or by the machine's preference
if there is none (`Rendered`); the provider says what it takes to be shown
(`resolved`). The script before the first paint sets `attr`, the mount effects
adopt `theme` and `systemDark` later, the listener hears of the machine later still, and
`localStorage` may refuse. `ThemeIsRendered` relates the two; `torn` marks the two
ways in which they part (section 5). `ChoiceSticks` says it of a later page load.

### MCGateway and MCPage

Parts that read no variable of each other need no interleaving: `part`, chosen at the
start, says which one a behaviour works on, and the others rest in one initial
state. The two stores of the gateway have the same variables, but a gateway has one of
them, so `part` chooses between them too. Every behaviour of each part is a behaviour
of the instance, and a property of one part cannot depend on another, so the instance shows of each what a run of
its own would. `MCPage` states `SignInPage`'s fairness for the behaviours that work
on it.

## 3. Runs

Twelve runs, of a second to three minutes each.

| run | instance | shows |
|---|---|---|
| `gateway` | sessions: 3 tokens, 2 requests, both lifetimes 1, time 2, over Postgres with 1 user and over the in-memory store with 2; both stores side by side: 2 users, 3 tokens, TTL 3 half-seconds, time 7; limiter: 2 clients, 2 requests, limit 2, window 3, lag 1, time 4, 4 attempts | `SessionInv`, `OneCredential`, `SignOutTakesEffect`, `WithdrawalIsFinal`, `LedgerSpec` over either store; `StoresAgree`, `PgIsStricter`; `BurstIsBounded`, `KeyBudget`, `RetryAfterSuffices` |
| `client` | 2 tabs, 1 user, 2 calls, 3 tokens, calm or not | `TypeOK`, `NoFalseReuse`, `KeepsCredential`, `TabsConverge`, `CallsSettle` |
| `corpus` | 2 users, 2 files of 2 pages, 2 uploads, 1 death, 1 fault | the seven properties of section 2 |
| `chat` | 3 conversations, 2 queries, 1 token | `AnswersInPlace`, `DeletedStaysDeleted`, `EndsExplained`, `StopHolds`, `ComposerReturns` |
| `conversations` | 2 tabs, 2 accounts, 4 conversations, 1 change of each | `KeptApart`, `SavedOrDue` |
| `documents` | 2 files, 2 accounts, 2 handlers at once, 2 operations | `CountIsFresh`, `ListIsCurrent`, `PanelComesBack` |
| `page` | 2 users, 2 attempts, 2 notices, 2 checks in flight; the theme in full | `OneAttempt`, `FormComesBack`, `BannerClears`, `EveryToastGoes`, `ThemeIsRendered`, `ChoiceSticks` |
| `pg_reuse_race`, `client_zombie`, `corpus_torn`, `chat_stop`, `sidebar_stale` | like those of `gateway`, `client`, `corpus`, `chat`, `documents`, or smaller | a violation each: section 5 |

Why the bounds are enough. *Tokens*: three are one session and its successor
beside another session of the same user, or one session renewed twice; two requests race for one token
with either outcome; time 2 with lifetime 1 has a token that is fresh, one that
is just expired and one old enough to be purged; an access token that has
expired meets a refresh token that has not stopped being known. Restarts are not
bounded. What the instance leaves out the theorems cover.
*Rate limiter*: limit 2 and four attempts fill a window and the next one; the lag of one tick is
enough to invert two decisions. `BurstIsBounded` then speaks of two ticks, in which
three attempts are let through: with `2 * Limit - 2` for its bound the same instance
violates it. Larger limits need more attempts for the same: the theorems are about all of them.
*Client*: two calls are needed to share a refresh, two tabs to disagree, three tokens to
renew, sign in and have one more. *Corpus*: two pages let an insert fail in
the middle of a file, two files of which one is a starter file let a sync find
some indexed and some not, two users share the collection. Two uploads replace
a starter file or each other, add a file, or come from both users; one death falls
anywhere, inside `persist` and between requests too, beside one failing call or copy.
*Chat*: two queries are what it takes for
one to outlive the other; a third conversation can be opened after two were
deleted. *Conversations*: four of them give each account two, or let the last one of a list
be deleted and replaced; two tabs can show one account or
both. *Documents*: two handlers are an overlap; one more poll than the panel is
about to send is enough for two instances to be answered out of order; the second
account is one to switch to, and the change of account is one of the two operations.
*Page*: of two attempts one outlives its form while the other has the new one; two
checks are enough to be answered in the wrong order; the theme has no bound.

Every run has `CHECK_DEADLOCK FALSE`: the bounded counters stop the instances,
and an idle service is allowed to rest.

Fairness. Six liveness properties are stated. `CallsSettle` assumes of
`AuthClient` that the gateway serves a refresh it received, that the browser
delivers a reply and settles a `fetch`, and nothing of the user or of storage
events. `ComposerReturns` assumes of `ChatApp` that each running query makes
progress, and `PanelComesBack` of `DocumentPanel` that each handler under way does:
in other words, that a connection ends some time. `FormComesBack` assumes the same of
an attempt to sign in. The code sets no timeout on `fetch`, so an upstream that keeps
a connection open without a byte would keep the composer, the panel or the form
waiting; for the composer the stop control is the way out. `EveryToastGoes` assumes
that a timer that was set fires, and `BannerClears` that the interval of a mounted
banner goes on and its checks are answered. None assumes that anything succeeds, that
the gateway is up (`BannerClears` has that as its premise) or that the user does
anything. Tokens are bounded, so a stream does not go on for ever.

## 4. Proofs

A theorem is about a module's specification and any values of its constants that meet
the assumptions named; an invariant that is not inductive is proved from one that is, named
`...Inv`, by one lemma or step per action.

`SessionsProofs` has the facts both stores need first, then the theorems about Postgres
and, with the prefix `Mem`, about the in-memory store. They hold for any sets of users, tokens and
requests, any lifetimes and any bound of the clock, under `TTLAssumption`,
`AccessAssumption` and `SentinelAssumption` (the sentinels are no users or tokens,
tokens are no requests).

- `Invariance`: `Spec => []SessionInv`. `OneCredential` alone is not inductive:
  storing a token adds a live one to the family of the claimed token, which is
  harmless only if the request is that family's one holder, if a token that was
  never issued is not live, and if the family a token joins is the one its
  sign-in began. `SessionInv` is `OneCredential` with these three and `TypeOK`.
- The argument is by how a step passes credentials. `StepPasses` shows of each action that
  it only takes credentials away (*Shrinks*: sign-out, revocation, failure,
  expiry, purge, restart), or moves one from a token to a request (*Takes*: a
  claim), or is `StoreToken`, which moves it back. Three lemmas show that each of
  the three ways keeps the invariant; the stores differ only in `StepPasses`.
- `NoFork` and `Withdrawal` are `Spec => []OneCredential` and
  `Spec => WithdrawalIsFinal`, from the same invariant.
- `ImplementsLedger` is `Spec => LedgerSpec`. `credential` maps a session to its live
  token, else to the request that holds it, else to "ended" (or "unopened");
  `OneCredential` is what makes the two CHOOSEs unique, so that a claim is a
  `Claim`, an insert an `Open` or a `Renew`, and everything else an `End` or a
  stutter.

- `SignOut` (of `AccessTokens`) is `Spec => SignOutTakesEffect`. Two facts make it:
  a session without credential stays so (`DeadStaysDead`, by the three ways of
  passing credentials: a claim needs a live token of the session, a
  `StoreToken` into its family needs a holder), and no expiry is further away
  than a lifetime (`ExpiryInReach`, an invariant of its own: only `Issue` fixes an
  expiry and only `StoreToken` copies one).

`CorpusProofs` proves the seven properties of `Corpus`, for any users, files, pages,
uploads, deaths and failures, under `CorpusAssumption`.

- `TypeCorrect` and `Isolation` are `Spec => []TypeOK` and
  `Spec => []RetrievalIsIsolated`. What is retrieved is filtered by a node's tag, so
  the tag has to be the owner of the file the node was read from. That is inductive
  only together with what `IsolationInv` adds: a handler has documents of its own
  user to insert (`JobIsOwn`: the tag is the handler's user), the nodes on disk, from
  where a restart takes them, are tagged as well (`TagsAreOwners`), so are those a
  waiting stream has listed (`AskIsOwn`), and a handler persists last (`PersistIsLast`).
- `Durability` is `Spec => []AckedIsDurable`. `DurableInv` adds what holds before the
  answer: each page of the upload under way is still to be inserted or is in memory
  *and* in Qdrant, so that `Persist` may acknowledge it; and a deletion under way is
  of a file no acknowledged upload is left of. A death inside `persist` empties the memory and
  leaves the disk torn; what the theorem then still says is files and vectors.
- `Backing`, `Freshness`, `NoDuplicates` and `SyncIsComplete` are `CitationsAreBacked`,
  `CitesNothingOlder`, `NoDuplicateVectors` and `SyncIndexesAll`, all from one invariant,
  `UncutInv`: `CommonInv`, which holds whatever fails, and `Parts(u)` for every user who is not
  `cut`. Of such a user docstore and Qdrant hold the same nodes (`HalvesAgree`), and the
  disk too unless a handler of the user is at work (`Persisted`, which is what makes a
  restart harmless), each node has a file of its name or is about to be deleted
  (`NodesAreBacked`), a handler inserts only pages that are not there (`WorkIsNew`),
  whatever a question may cite is among the names its user has had (`HadInTime`), and of
  every file all pages are indexed or none, or the handler at work has the rest
  (`WholeFiles`). None of the four is inductive alone: that no page is doubled
  (`OnePerPage`) rests on `WorkIsNew`, that on the two halves agreeing, and that a sync is
  complete on `WholeFiles`, because it goes by the name of a file. `OthersKeepParts` is why the
  requests of one user do no harm to another: they touch nodes of their own tag only.

`AuthClientProofs` proves the four invariants of `AuthClient` for any tabs, accounts, calls
and tokens, under `ClientAssumption` (there is a tab) and `NoUserAssumption`.

- `TypeCorrect`, for which a request under way must have a token (`HasToken`).
- `Converge` is `Spec => []TabsConverge`. Whatever a step is, it does one of three things
  to the tabs and localStorage (`StoredSteps`): nothing, `Adopt`, or read the stored
  session.
- `NeverStolen` and `CanGoOn` are `NoFalseReuse` and `KeepsCredential`, from `CalmInv`. `Alone`: the
  one tab of a calm session is the only one that has a session, a request or a call.
  `Held`: the credential is with the tab until a refresh has been answered, and with
  the answer then. `Unclaimed`: a logout that is still on its way presents neither.
  A second request with the same token, which would be reuse, has no place among these.

`ConversationsProofs` proves `KeptApart` (`Apart`) for any accounts, tabs and
conversations, under `ConversationsAssumption`. `HistoryInv` says of each tab what it
shows, what it has loaded and what its timer will store: all of it begun under the
account of the tab, except between `SwitchAccount` and `RenderLoaded`, when the list
shown and the save due are the old account's, and the list that will replace both
is the new account's.

- `NothingShownIsForgotten` is `Spec => []SavedOrDue`. `SavedInv` adds that a save that is due is
  of exactly what the tab shows, under the account of the tab: that is what a render,
  which replaces the timer, leaves; what `Save` needs; and what lets the saves of the
  other tabs go by. It is about the tabs that are `synced`: one whose save was refused, or whose
  list another tab has overwritten since, has lost it.

`ChatAppProofs` proves four properties of `ChatApp` for any conversations, queries and tokens, under
`ChatAssumption`.

- The invariant `ChatInv` says where answers are: a message of a query stands in the
  conversation the query was asked in, in what is queued as in what is rendered, and
  holds no more than the stream has brought. `Patch` is the only operation that changes
  a message; the lemmas about it show that it neither moves nor adds one. A handler that
  starts from the last render (`shown`) is harmless because that satisfies the same.
- `InPlace`, `Gone` and `Stopped` follow (`AnswersInPlace`, `DeletedStaysDeleted`, and
  `StopHolds` of a step: a stopped query never is at its tokens).
- `Ended` is `Spec => []EndsExplained`, which is about queries that were not stopped, that no later
  query or deletion disturbed and whose body did not end early. `Explained`
  adds what holds on the way: the answer of such a query has every token brought so far, has
  its citations from `done` on, and is marked when it has failed.

`DocumentPanelProofs` proves for any files, accounts, handlers and polls, under
`PanelAssumption`:

- `Fresh` is `Spec => []CountIsFresh`. `FreshInv`: a poll of the mounted instance was
  sent after the last change reported, so its answer cannot be older, and a poll of a
  later instance than the mounted one does not exist.
- `Current` is `Spec => []ListIsCurrent`. `SmoothInv`: while nothing has failed or
  overlapped there is at most one handler, which acts for the account of the tab and
  whose answer, once it has one, is the directory's list.

`GatewayProofs` proves the properties of `RateLimiter` and `StoreEquivalence`, as
`MCGateway` instantiates them, under `GatewayAssumption` (limit, interval and lifetime
are positive, the edge is no client).

- `Bursts`, `Budgets` and `Retries` are `BurstIsBounded`, `KeyBudget` and `RetryAfterSuffices`,
  for any limit, interval, lag and number of callers and requests, whichever proxies
  are trusted. All three count what the history has, so
  `LimiterInv` relates the counters of the windows to it. `Counted`: as many attempts as the open
  window has counted are in the log, none older than interval and lag before its end, and as
  many were decided after any refusal whose Retry-After ends before the window
  does. `Spaced`, for lags up to half the interval (beyond that `BurstIsBounded` speaks of an
  empty interval): nothing let through read a clock later than the end of the window; what is
  later than its start by more than the lag is one less than the window has let through,
  for the attempt that opened it is not; and recent is at most a limit less one more than the
  window has let through. A window that is over, or that the reaper took, leaves no more
  than the limit less one. The lemmas before it say what one more entry adds to each of
  the sets that are counted.
- `StoresAlike` and `PgIsTheStricter` are `StoresAgree` and `PgIsStricter`, for any callers and
  whatever they present. `StoreInv`: what memory has revoked Postgres has too, what
  Postgres still accepts is live in memory, and a token that has not expired by Postgres's
  clock, of an owner who is not `late`, is the same in both. It is
  enough because whole seconds expire first (`PgExpiresFirst`), and inductive because
  revoking and consuming treat like tokens alike (`ConsumeKeeps`), and Postgres revokes
  more when the token has expired, never less.

`PageProofs` proves, as `MCPage` instantiates them:

- `OneAtATime`, `Spec => []OneAttempt` of `SignInPage`, for any accounts, attempts, notices and
  checks. `PageInv`: the form is busy exactly if an attempt has it, no two have it, and
  a form that is not on the screen is blank and has none; so the form that comes
  back starts without the attempts of the one that went.
- `Rendering` and `Sticking`, `ThemeIsRendered` and `ChoiceSticks` of `ThemeProvider`.
  They exclude
  the two orders that part attribute and state (`torn`, section 5).
  `ThemeInv`: the attribute is that of the stored choice before React runs and of the
  state after, and what is kept is what is stored.

Checked by TLC only: the six liveness properties (`CallsSettle`, `ComposerReturns`,
`PanelComesBack`, `FormComesBack`, `BannerClears`, `EveryToastGoes`), since fairness and
ENABLED are out of the prover's reach, and the violations of section 5.

## 5. Where code and documentation disagree

Five runs show a violation of something the repository says.

- `pg_reuse_race`: the claim and the insert of the next token are two
  statements. A replay whose `RevokeAllForUser` runs between them is answered
  "reuse" and leaves the new token live, against `store_postgres.go:157` and
  `auth_test.go:272`. The lock of the in-memory store is released at the same
  place.
- `client_zombie`: a refresh that was sent before the user signed out brings
  the session back when its reply arrives, against `auth.ts:55`.
- `corpus_torn`: a death inside `storage_context.persist` (`main.py:341`, `509`, `541`) leaves one
  of its files half written. Loading it raises in every handler that needs the index, for every
  user and after every restart, against `README.md:200` (the docstore "survives
  restarts"): uploads answered before are found by no query.
- `chat_stop`: the last line of `runQuery` resets `isStreaming` for whichever
  query runs now: an answer streams without its "Stop generating" control
  (`README.md:235`).
- `sidebar_stale`: the upload panel loads its list when it is mounted, and stays
  mounted when another tab changes the account. The conversations are swapped ("the
  whole sidebar", `ChatApp.tsx:70`), the documents below them are those of the account
  before. A deletion there goes out for the account now signed in.

The modules state more that the repository says and the code does not keep. TLC shows
each violated, on one user (two clients) and one file, when a configuration names it:

- `StoresMirror` of `StoreEquivalence`: an expired token presented twice is reuse in Postgres
  and ends its owner's sessions, and is invalid in memory (`store_memory.go:121` says
  "mirrors");
- `OwnBudget` of `RateLimiter` with `Trusted = "*"`: `TRUSTED_PROXIES=*`, which `render.yaml:95`
  deploys, trusts no proxy, so all clients share one rate limit window (`main.go:163`,
  `README.md:183`);
- `NothingDeletedIsCited` of `Corpus` with `MaxFault = 1`: a delete whose `delete_nodes` raises is
  logged and answered 200, and the file stays citable; so it does after a crash that left vectors
  the docstore does not know of (`README.md:240`);
- `OneVectorPerPage` of `Corpus` with `MaxCrash = 1`: a death after an insert and before `persist`
  makes the next sync embed the file again (`main.py:316`);
- `StarterSeeded` of `Corpus` with `MaxCrash = 1` or `MaxFault = 1`: an account whose directory was
  made and not filled never gets the starter files (`README.md:102`);
- `CutsExplained` of `ChatApp`: a body that ends before its frames leaves a part of an
  answer that nothing marks as failed (`README.md:244`).

The conditions of other properties mark further gaps, which the same
modules show when a condition is dropped or an instance is enlarged:

- a token that was signed out, or revoked with the others, is answered as reuse
  and ends every session of its owner (`store_postgres.go:155` says it was "already
  consumed"): `LookupOwner` only asks whether there is a row;
- refresh tokens outlive the signing key, so a restart does not end sessions as
  `token.go:54` and `README.md:148` say;
- two tabs renew the same token at once and are both signed out (`NoFalseReuse`
  with two tabs; `README.md:273`), and a refresh that fails for the network drops
  a live session (`AuthProvider.tsx:72`);
- a request is repeated as another user if the account changed while it waited
  (`call.user` and `call.as` of `AuthClient`; `api.ts:55`);
- a file with one page inserted counts as indexed (why `SyncIndexesAll` excludes `cut`;
  `main.py:322`), and a file uploaded again is inserted beside the nodes of its old
  content, which stay citable (`main.py:502`; `CitesNothingOlder` is about names);
- deleting a conversation drops the updates that were queued for others since
  the last render (why `EndsExplained` excludes `disturbed`; `ChatApp.tsx:123`);
- without `smooth`: two handlers of the upload panel may show the older of their
  lists, and an upload that fails after another of its batch succeeded skips the
  refresh and the count (`ListIsCurrent`; `UploadPanel.tsx:45`);
- the rest of a batch of uploads, or one that is retried after a 401, goes to the
  account that is signed in by then (`Proceed` and `Retried` of `DocumentPanel`;
  `api.ts:55`);
- a form whose tab has been signed in from another one is gone, but its attempt is
  not: the late answer replaces the account (`Succeeds` of `SignInPage`); and the
  link under the form works while an attempt is under way, so that its error may
  appear under the other mode (`AuthScreen.tsx:47`);
- where the storage refuses, choosing "system" after a colour leaves the old
  `data-theme` (`removeItem` throws before `removeAttribute`, `ThemeProvider.tsx:79`), and a
  choice another tab stores between the script and the mount effects is adopted by
  the provider but not by the attribute (`torn` in `ThemeIsRendered`).

## 6. Not modelled

- *The gateway's identity headers, `require_gateway` and `normalize_user_id`*: functions
  of one request, without state or order. With `JWT_SECRET` unset the signing key is one
  per process, which section 5 says what follows from.
- *Start-up and shutdown of the gateway*: the pings at start-up (`store_postgres.go:44`)
  happen before anything is served, and the graceful shutdown (`main.go:77`) is that of
  the HTTP library; what a stop at any time does to the stores is `Restart`, and what it
  does to a stream is `Interrupted`.
- *CORS, routing, prompts, ranking and model back ends, configuration, deployment, CI*: pure
  functions, libraries or files without state of this program.
- *`MessageBubble`, `Logo`, the layout*: markup over the state the other components keep.
- *Renaming a conversation*: changes a title only; `Edit` of `Conversations` stands for
  any change of a list.
- *Signing out while the chat is mounted* is `Unmount` in `Conversations`, and is not among
  the handlers of `ChatApp` or `DocumentPanel`: both are gone with it.
- *A browser that refuses `localStorage`* is modelled for the theme
  and for the history, not for the session.
- *A `persist` that raises without a death* (a full disk), *and the first one of an empty
  index* (`main.py:292`): the first would leave torn files and a running process, whose memory is
  good until it is restarted; the second writes files that hold no nodes.
