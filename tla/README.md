# A TLA+ model of Gomin

Gomin is an end-to-end encrypted messenger: NestJS microservices over PostgreSQL
and Redis, and a React client. This directory holds TLA+ modules that model the
parts of it where concurrency decides whether the program is right, the
configurations with which TLC checks them on small instances, and proofs, checked
by TLAPS, that some of the results hold for every instance. Paths below are
relative to the root of the repository (`src/`), with `communication-service`
short for `apps/communication-service` and so on.

## 1. Inventory

### How the parts hang together

```
 web client ──HTTP──▶ api-gateway ──gRPC──▶ auth ────────────────▶ PostgreSQL, Redis (auth:…)
     ▲  └─Socket.IO─▶   │   │    └──gRPC──▶ communication-service ▶ PostgreSQL, Redis (communication:…)
     │                  │   └─ Redis (api-gateway:…): session cache, presence, pub/sub
     └──── events ◀─────┘
```

The gateway calls a service by gRPC and then publishes an event to a Redis
channel `chat:<id>` or `user:<id>`; every gateway replica relays what it is
subscribed to its sockets. The services keep PostgreSQL rows and, next to some
tables, a cache in Redis that a reader fills and a writer deletes. **No service
opens a transaction, takes a row lock or sets a deadline on a call**: a handler is
a sequence of awaited statements, and statements of different calls interleave
freely, also within one Node.js process. The Helm charts allow several replicas
of each service.

### Components

| Component | State | Operations | What is hard | What makes it correct |
|---|---|---|---|---|
| **Chats and members** (communication-service `chats/`) | tables `chats` (`keyVersion`), `chat_members` (`role`, `leftAt`); Redis `chat:members:<id>` for 120 s | createChat, addMember, removeMember, updateMemberRole, transferOwnership, deleteChat, findAllActive | check-then-act over several statements, two UPDATEs for one transfer, two INSERTs for one creation, cache fills racing writes, calls that die half way | each departure opens one key epoch; departure is final; no row without its chat; a chat has members and an owner; the cached list is repaired |
| **WebSocket gateway** (api-gateway `gateway/messaging.gateway.ts`, `RedisPubSubService`) | `handlers` per channel, `socketChannels`, `userSockets`, Redis subscriptions of one shared connection | connect, disconnect and cleanup, `chat:subscribe(_many)`, `chat:unsubscribe`, answers of Redis | handlers suspended at each await, maps changed meanwhile, a socket that is gone when its handler goes on, failing commands | process and Redis agree on subscriptions; a subscribed socket is reached; a closed one is forgotten |
| **Sessions** (auth `user-sessions/`, `user-auth/`; api-gateway `SessionGuard`) | table `UserSessions`; Redis `auth:session:<token>` (60 s) and `api-gateway:session:<token>` (300 s) | login, register, session lookup, logout, terminate one / all others, changePassword, expiry | two stacked caches, fills racing revocations, a login that extends what is being revoked | a revoked session stays revoked and is honoured for a bounded time only |
| **Messages** (communication-service `messages/`) | tables `messages`, `message_status`, `message_reactions` | send, list by pages, update, delete, mark as read, react | `createdAt` read before the INSERT, two-statement bulk updates, equal timestamps at the page cursor, stale member lists | paging loses nothing; what was marked read stays read |
| **Sender keys** (communication-service `sender-key.repository.ts`, web `lib/crypto.ts`, `crypto.store.ts`) | table `sender_keys`, chain keys in the browser | generate, distribute, upsert, fetch, advance the chain | overlapping sends and loads of one page, loads that replace a key, distributions that fail half way, memory lost by a reload | between two reloads a page uses a message key once; whoever was a member can read, unless named circumstances left him out |
| **Service identity** (auth `service-identity/`, `libs/shared/service-identity`) | the gateway's token and its `inflightAuthenticate`; the signing keys of each auth replica; communication-service's `publicKeyCache` | getAccessToken, issueServiceToken, the two guards, refresh of public keys, change of `JWT_SIGNING_KEYS` | concurrent authentications, replicas with different keys during a rolling update, caches of keys, units of the expiry | a token that was issued is refused nowhere; nobody awaits an authentication that is over; a token is never replaced by an older one |
| **Users and E2EE bundles** (auth `users/`, `user-auth/`, web `auth.store.ts` and its pages) | table `Users`, Redis `auth:user:<id>` for 300 s; `auth-storage` of a browser, the store in each page | register, login, changePassword, logout, reauthenticate, cached find, write-through | check-then-insert, write-through racing a fill, a bundle re-wrapped by one page while others hold the old one, lost answers | one key pair for good; the password that logs in opens the bundle, in every copy |
| **Gateway HTTP services** (api-gateway `chats/`, `messages/`, `sender-keys/`, `auth/`) | none | gRPC call, then publish | publish not atomic with the commit, order of events | clients converge on what is stored |
| **Web client state** (web `pages/ChatPage.tsx`, `components/Layout.tsx`, `lib/socket.ts`) | React state of chats, messages, reactions; Zustand stores of keys and login | socket event handlers, fetches, sends | a fetch answered after newer events, handlers that await a decryption, double counting | the page agrees with the database once nothing is on its way |
| **Telemetry, DTOs, protos, charts** | – | – | – | not behaviour; not modelled |

`PROJECT.json` lists them with their status, and under `hazards` every place
in the code where one of the hard behaviours bites, with the properties that
watch it, or a note why none does: many of them the code meets, and a property can only
name what it excuses.

## 2. Plan

The order is by how much of the system's safety depends on a part.

1. **`ChatMembership`** – the membership of chats, on which access, delivery and key
   epochs rest. Abstract specification **`ChatRoster`** and refinement. *Done, proved.*
2. **`MessagingGateway`** – delivery to sockets. *Done, safety proved.*
3. **`Sessions`** – who is let in, and for how long. *Done, proved.*
4. **`Messages`** – history and read status of one chat. *Done, proved.*
5. **`ServiceIdentity`** – service tokens and the replacement of their keys. *Done, proved.*
6. **`ChatView`** – the gateway's publish composed with the statements before it and
   the page after it. *Done, proved.*
7. **`SenderKeys`** – chain keys in memory and in rows, and the messages under them. *Done, proved.*
8. **`Account`** – the user row, its cache, and the bundles in browsers. *Done, proved.*
9. **`ChatList`** – the chat list of `Layout.tsx` with the events of `chats.service.ts`, from the
   connection to the badges. *Done, safety proved.*

Every safety property of a run is stated by a theorem (section 5). Where a module grows expensive for TLC its instances are
narrowed or become *workloads* of one run (below): runs are kept to distinct questions.

## 3. The modules

| Module | Role |
|---|---|
| `ChatMembership` | ChatService, ChatRepository, ChatMemberRepository |
| `MCChatMembership` | its instances for TLC: symmetry and sets of operations |
| `ChatRoster` | abstract specification: what a chat's membership does, without statements |
| `ChatMembershipProofs` | the inductive invariant and every safety property; ChatMembership implements ChatRoster; key epochs are counted |
| `MessagingGateway`, `MCMessagingGateway`, `MessagingGatewayProofs` | one gateway replica and its Redis connection |
| `Sessions`, `MCSessions`, `AuthProofs` | sessions and their two caches |
| `Messages`, `MCMessages`, `MessagesProofs` | the messages of one chat, their pages and read status |
| `ChatView`, `MCChatView`, `ChatViewProofs` | one page of a client, the events it hears and the rows they are about |
| `ChatList`, `MCChatList`, `ChatListProofs` | the chat list of one page, its socket and the gateway it is connected to |
| `SenderKeys`, `MCSenderKeys`, `SenderKeysProofs` | the chain keys of one chat, from the pages to the rows and back |
| `Account`, `MCAccount`, `AccountProofs` | one user's row, cache, sessions, browsers and pages |
| `ServiceIdentity`, `MCServiceIdentity`, `AuthProofs` | service tokens, guards and signing keys |

### ChatMembership

*State.* `chat[c]` is the row of `chats`; `member[c][u]` the row of `chat_members`,
`"left"` when `leftAt` is set (the row stays); `cache[c]` the Redis key; `req[r]` the
call in slot `r`, whose `pc` names the statement it will run next and whose other
fields are the handler's local variables; `failures` counts calls that died.

*Actions.* One per awaited statement. The first read of an operation and its check
are the action that starts a call (a check that fails returns and has changed nothing).
For example removeMember is `RemoveMemberFindRequester` (findActive and the permission
check), `RemoveMemberUpdate` (`UPDATE … SET leftAt WHERE leftAt IS NULL`),
`RemoveMemberDel` (the DEL of the list) and `IncrementKeyVersion`. `Fail` ends a
call before any statement: nothing is rolled back, since nothing is in a transaction.
`Expire` is the TTL.

*Constraints of the database* are guards: the foreign key and primary key of
`chat_members` (`InsertAllowed`), `ON DELETE CASCADE` (`DeleteChatDelete`), the CHECK on
`chats.type` (`Storable`). The API and the proto accept `CHANNEL`, which
the table does not store, so such a creation is rejected by its INSERT.

### ChatRoster

The promise, with no calls in it: a chat is created, gets its first members at once,
others join, each departs at most once and for good; every departure owes one key
epoch until `NewEpoch` pays it or a `Failure` forgets it. `ChatMembership!Roster`
maps it: `owed[c]` are the calls between their UPDATE of `leftAt` and their increment.

### MessagingGateway

*State.* `handlers` and `socketChannels`, `userSockets` are the maps of
`RedisPubSubService` and `MessagingGateway`. A handler is a closure, so it is
identified by its socket and a number. `wire[c]` holds the commands on a channel
that Redis has not answered; `redisSubs` what Redis believes. `link`, `user`,
`cleanup`, `pending` say where the handlers of a socket are suspended. `late` and
`thrown` are history: subscriptions whose answer came after they were given up, and
those that ended in an exception.

*Actions.* The code between two awaits: JavaScript does not interrupt it. In particular
`subscribe` puts an empty entry into `handlers` **before** it awaits and adds its
handler **after**, so `SubscribeSocket` and `SubscribeAnswered` are two actions;
`cleanupSocket` walks the live map across awaits (`CleanupUnsubscribe`, one entry at
a time; `visited` are those it has met).

### Sessions

*State.* `row[t]` of one user's sessions; `auth[t]`, `gateway[t]` the ticks left of the
two cache entries; `since[t]` the ticks since a session ended; `req`, `lasted` the calls
in flight and how long they have lasted. A call passes the guard (gateway cache, auth
cache, SELECT, and the SETs on the way back) and then the service, which looks the
session up again through the auth cache. `TimePasses` is a tick for all of them.

### Messages

*State.* `message`, `status` are the rows; `active`, `from`, `lists` the membership as
seen from a chat (`lists` are all lists it ever had: what a cached list may be);
`req` the calls. `createdAt` is taken from `clock` by `SendCreate` and written by
`SendInsert`, so messages become visible out of order. A *walk* is a client of the
proto's cursor pagination: it asks for page after page with the last message it was
sent as cursor. (The repository's web client only loads the first page;
the pagination is the service's contract, `communication.proto`:237.)
`mix` is the *workload* of a behaviour, chosen once at its start: which operations
take part and how many messages are sent. It lets one run ask one question of several mixtures
whose product would be too large; an action is not changed by it, only whether it occurs.

### ChatView

*State.* `row[m]` and `reacted[m]` are the rows of a message and its reactions; `req[r]` a
call, from the request of a page through the gateway to the statement and back to the
publish; `inbox` the events emitted to the socket; `open`, `view` are `activeChatIdRef` and the
`messages` state of `ChatPage`; `handlers` the events whose handler awaits `tryDecrypt`, `fetch[f]` a
`fetchMessages` under way. The text of a message is the number of its edits, and a reaction is one
emoji: the page keeps its count and its users, the table a row per user.

*Actions.* On the server the statements of `MessageService` and then `Publish`, which
is `messages.service.ts` after the gRPC call: two calls may publish in another order than they
committed. `updateMessage` is three actions (the check of `isDeleted`, the UPDATE,
the SELECT of the reactions that go into the event). On the page `OnMessage` begins
the handler of an event and `HandlerDone` is its `setMessages` after the decryption;
`FetchList`, `FetchHydrate`, `FetchSet` are the two SELECTs and the replacement of the state.
`excused` is history: the messages whose events or fetches overlapped in a way the code
does not sort out, at the gateway or in a fetch (`dirty`). Ids are numbered in the order of
`createdAt`, which is the order of a fetch (`InOrder`). `ViewAgrees` is the claim that nothing else goes wrong, and that the
next undisturbed fetch repairs it.

### ChatList

*State.* `row[c]`, `unread[c]` are what the database says of the user and chat `c`; `news[c]`
counts what happened to it that the page should learn of, `publishing` the events of
`chats.service.ts` and `messages.service.ts` that are still to be published. `link` and `heard` are the
connection and its subscriptions as the gateway has them, `greeted`, `buffer`, `sent` what socket.io makes
of it on the client: it keeps what is emitted before `connect`. `badge` is the data of the
query `['chats']`, `fetch` the `getChats` under way, `call` the page's own creation or deletion of a
chat. `seen`, `lost`, `visited`, `own` are history: what the property excuses, and the chats the page created.

*Actions.* `OnChatNew`, `OnMessageNew` are the two handlers of `Layout`, `Enter` the effect that clears
the badge of the chat navigated to, `Show` the effect that subscribes to what is listed whenever the data is new,
`Greet` the `connect` listener that does so again. `FetchList`, `FetchCount`, `FetchSet` are the two statements
of `getChatsByUserId` and the replacement of the data; `Invalidate` is React Query's: a fetch under way is given up.
`Registered` ends `handleConnection`; a message that arrives before it makes the guard disconnect
the socket (`ArrivesTooEarly`), and socket.io does not reconnect after that. `mix` is the workload, as in Messages.
MessagingGateway has the detail of subscribing and of Redis, which is one step here.

### SenderKeys

*State.* A chain key is a number. `chain[c]`, `iter[c]` are `useCryptoStore` in page `c`
(not persisted: `Reload` clears it), `known[c]` the members in the page's query of the chat,
`stored` the table, `msgs` the messages with the key and the iteration they were encrypted
under. `task[t]` is a `handleSend`, a `handleAddMember` or the `handleCreate` that opened the
chat, `wire` the distributions on the network, `load[l]` a `loadAndDecryptSenderKeys` between two
decryptions or a `tryDecrypt` that fetches the key of one sender. `missed` is history: who a distribution left out, and it says why (a public
key that could not be fetched, a request that failed, members the page did not
know, a reload, a joiner who is given only the keys of who added him).

*Actions.* `SendFirst` stores the key in memory **before** distributing it and `SendAgain`
takes what is in memory, so a second send overtakes the distribution of the first.
`LoadNext` looks whether there is a key and `LoadSet` sets it without looking again. Loads of one
page overlap, as many as there are slots: `fetchMessages` is run anew whenever the crypto store changes, and each
message of an unknown sender looks up a key of its own (`LookUp`, `LookUpAnswer`). Encryption for
a recipient is his being in `to`; key pairs do not change (`Account!OneKeyPair`).
Nothing rotates a key when a member leaves: README:210 promises it, no code does it.

### Account

*State.* `row`, `cache` are the user in table and Redis: its key pair, the password its
hash verifies and the password that unwraps its bundle. `session[t]` are its sessions; `disk[b]`
the persisted store of a browser, `mem[p]` the store in a page of it, with the private key, which is
never persisted. `call[q]` is a call with the page that awaits it (`heard` is false once that page
is gone). Calls of one page overlap: logout, say, is on every page while a change of the password is in flight, and its
late answer logs the page in again. `raced`, `strayed` are history, as `excused` above.

*Actions.* The statements of `UserAuthService` and `UserRepository` and, where the page does
something before or after (it checks the current password against **its** bundle, it stores what it
re-wrapped only when the answer has come), the stretches of `RegisterPage`, `LoginPage`,
`SettingsPage`, `SessionsPage`, `ReauthOverlay` and of the 401 interceptor of `lib/api.ts`, which
empties the storage and loads the page anew, so that nobody hears its other calls (`Unauthorized`, `Forgoing`).
`Set` is the one way a page writes: the whole of its copy goes to the storage, whatever
another tab stored since.

### ServiceIdentity

*State.* `store`, `inflight` are the gateway's `authTokenCache` and `inflightAuthenticate`;
`flight[r]` the authentication that call `r` started, which others may have joined.
`target` is the value of `JWT_SIGNING_KEYS`, `version[p]` the one replica `p` was
started with (read once, `auth/src/config/config.ts`:25); `known` is
communication-service's `publicKeyCache`, to which keys are added and from which none is
ever dropped. `age[r]` is how long a call has lasted, `settled` when the
last replica was restarted.

*Actions.* The code between two awaits: `GetAccessToken` takes the stored token or joins or
starts an authentication, `IssueServiceToken` is a replica signing with its last key,
`Authenticated` and `AuthenticationFails` settle the promise and let everybody go;
`LocalGuard`, `GuardKnowsKey`, `RefreshPublicKeys`, `GetPublicKeys`,
`GuardRefreshed` are the guards of the two services. `ChangeKeys` and `RestartReplica` are
the operator and the rolling update of `charts/auth/values.yaml`:14: the new value
overlaps the old one (`RolloutsByOverlap`), and the next change waits until the tokens
of the last have expired. The comparison of `expiresAt` (seconds) with `Date.now()`
(milliseconds) is kept as it is written, which makes `TokenValid` false in every state
with realistic units: the gateway authenticates for each call that finds no
authentication in flight. The proofs cover units for which it is true as well.

## 4. The runs

A run checks the instance of its `.cfg`. "States" are distinct states.

| Run | Question | Instance | States |
|---|---|---|---|
| `membership_writes` | do interleaved and failing writes keep the membership sound, and implement ChatRoster? | 1 chat, 2 users, 2 calls at once, 1 failure, every writing operation but updateMemberRole | 174 k |
| `membership_fair` | is a stale list repaired, and can only a racing fill make one? Does the epoch catch up? | 1 chat, 2 users, 2 calls, creation, removal, role changes, list reads | 83 k |
| `gateway_registry` | do the maps and Redis agree whatever the order of awaits, and is a closed socket forgotten? | 2 sockets of 1 user, 1 chat, 2 handlers per socket and channel, 1 message in flight | 2.6 M |
| `gateway_settles` | does a subscription settle and a cleanup end? | the same, subscribe only, 1 failing command, with fairness | 90 k |
| `sessions` | does any order of logins, terminations, expiry bring a revoked session back, and how long is an ended one honoured? | 2 tokens, 1 device, 2 calls, every operation, TTLs of 2 and 1 | 1.7 M |
| `messages` | does paging lose messages, does a message marked read turn unread? | 2 users, 2 calls, page of 1; 3 messages paged, 2 paged by who joins, or 2 marked with failures | 2.9 M |
| `service_identity` | is a token ever refused while the signing keys are replaced? | 2 auth replicas, 2 keys, 4 values of `JWT_SIGNING_KEYS`, 2 calls of up to 1 tick, TTL of 2, clock up to 10, 1 failure | 1.5 M |
| `chat_view` | does the page show every message once, and what is stored? | 2 chats, 1 message, 1 edit, 1 user's reaction, 2 calls, 2 fetches, lost events and switches | 1.2 M |
| `chat_list` | does the page list the chats of the user with their unread messages, and hear them? | 1 chat with 2 news and everything that happens to it, or 2 chats with 1 each that are created and opened; 1 lost connection, with fairness | 0.9 M |
| `sender_keys` | is a message key used twice, and who cannot read? | 2 users, 2 tasks, 2 loads, 2 keys, 2 messages; one page with 1 reload or two pages of two users, with failures or a departure | 2.2 M |
| `account` | do row, cache, browsers and pages keep one key pair that the password opens? | 2 pages, 2 passwords, 2 key pairs, 2 calls, of one page or two; two tabs that are reloaded, or log out and expire, or two browsers with 2 sessions that log out or are ended | 2.8 M |

Properties by run, in words (the modules state them in full, with a comment each). The properties
named `…Inv` are type correctness with the strengthening that the proofs of section 5
use: the runs check on a small instance what is proved inductive for all.

* `membership_writes`: `KeyEpochAccounting` – the key version is 1 plus the departures, less
  the increments owed by calls under way, and less at most one per failure;
  `MemberlessOnlyInCreation` and `OwnerlessOnlyInTransfer` – a
  chat without members, or without owner, is seen only in the window of a call that
  makes it so; `MembershipInv` – no row without its chat, with what makes that
  inductive (types are a property of their own here, `TypeOK`); `LeftIsFinal`; `ImplementsRoster`.
* `membership_fair`: `StaleOnlyByRacingFill`, `StaleListRepaired`, `EpochCatchesUp`.
* `gateway_registry`: `HandlersMatchRedis`, `ClosedSocketForgotten`, `GatewayInv`;
  `gateway_settles`: `MappedIsRegistered`, `SubscriptionSettles`, `CleanupEnds`.
* `sessions`: `RevokedIsFinal`, `StalenessBounded`, `SessionsInv`.
* `messages`: `WalkComplete`, `MarkedStaysRead`, `MessagesInv`.
* `chat_view`: `ViewInv` – what the page is behind by is on its way, at every moment; `NoDuplicates` – a message is shown once whether a fetch, an event or both bring it;
  `ViewAgrees` – once nothing about a message is on its way, the page shows it
  exactly if it was sent and not deleted, with its last text and the stored reactions, unless excused.
* `chat_list`: `NewsShown` – once nothing is on its way the page lists every chat of the user, with a
  badge that counts at least what is unread, unless it may have missed news of the chat (each way is named in
  the comment); a chat the page created is listed in any case. `ListedIsHeard` – a listed chat is subscribed to
  in the end, also after a reconnection, while the connection lasts. `ChatListInv`.
* `sender_keys`: `NoKeyReuse` – the pair of chain key and iteration is used once
  between two reloads of a page; `ReadableUnlessMissed` – each member at the time of a message has its
  key in his row, unless missed or the sender made a second key. `SenderKeysInv`.
* `account`: `BundleOpens` – in the row and every copy read from it, the hash and the bundle
  are of one password; `OneKeyPair` – one key pair in rows, cache, browsers and pages, also when two
  registrations race; `CacheFollowsRow`; `StoredBundleOpens` – a browser with a valid session has a
  bundle that the account's password opens, unless it strayed. `AccountInv`.
* `service_identity`: `NoTokenRefused` – guards refuse only calls without a token;
  `NobodyStranded`, `StoreNeverGoesBack`, `IdentityInv`.

`OwnerlessOnlyInTransfer` is about chats nobody has left: removeMember does not
keep the owner from leaving (or an admin from removing the owner), and such a chat has
no owner for good. `updateMemberRole` is left out of that run because it breaks
the property, which is the finding below. `WalkComplete` excuses messages with the
`createdAt` of a cursor: `findByChatId` cuts at `createdAt < cursor`, so of two
messages of one millisecond the second is skipped when a page ends at the first.

Every property is also run against a *mutant* of the code's definitions (a
dropped guard, a missing DEL, a swapped test), defined next to the
original and marked "seeded fault"; TLC finds each violated, so none holds vacuously.

### Bounds, and why they are enough

* *Two calls in flight.* Each operation's interference is with the statements of another
  call between two of its own; a slot is reused as soon as its call returns, so any number
  of calls follow one another, and a call in one slot meets an unbounded history
  from the other. The proofs have no such bound.
* *One chat, two users.* Operations name one chat, and no statement reads another's
  rows (the duplicate check of createChat reads all, and is only a guard). An owner
  and another member are the two ends of a transfer or a removal; one of them may be
  the caller.
* *One failure* is enough for a call to leave a half-done write, and it is
  met by every later call; two add only repetitions.
* *Gateway:* two sockets of one user share the user's channel and a chat, so there is a first and a
  last subscriber. Two handlers per socket and channel let it subscribe, unsubscribe and
  subscribe again while the first answer is out.
* *Sessions:* two tokens are a session and "the others", on one device, so that a login finds the
  one or makes the other; the TTLs differ, so the sums in `StaleLimit` are distinct from
  their parts. The run lets calls take no ticks (`CallTicks = 0`); they take steps, so
  fills still race revocations. What longer calls add to the bound is covered
  by the theorems, which hold for every `CallTicks`.
* *Messages:* three messages at two times give a tie and an order; a page of one
  makes each message a cursor.
* *Chat view:* messages do not interfere with each other on the page (each handler names
  one), so one message with two calls, two fetches and an event between them has every
  overlap of two; the second chat is empty, to switch to and back. One event in the
  inbox and others at their publish keep all orders. The theorems are for any number of each.
* *Chat list:* a chat's badge and subscription depend on other chats only through the one list that is fetched
  and subscribed to as a whole: two chats show that, with one piece of news each; the chat alone has
  two, so that one is older and one newer than a fetch. One lost connection makes a reconnection. The
  user has fewer chats than a fetch asks for (20): with more, what is beyond the first page is not listed.
* *Sender keys:* two sends overlap in one page, or a send and the addition of a member; a second key
  comes of a reload or of a second user. Two messages are what `NoKeyReuse` compares. Two loads overlap in one
  page and in two; where requests of two pages fail, `mix.loads` keeps to one, the product being too large, as is that of
  failures and departures (a request of a member who left fails in any case).
* *Account:* two calls overlap, of two tabs or two browsers; two key pairs are two
  registrations, two passwords are the old and the new. The workloads split reloads from logouts, and changes
  from sessions that another browser ends, whose product TLC does not finish.
* *Service identity:* the four values publish a new key, sign with it and withdraw the old one,
  the whole of a replacement; ten ticks are enough for all of it with tokens of
  two ticks, and two replicas for a rollout that is half done.

### Fairness

`ChatMembership!FairSpec`: weak fairness of `Continue(r)` – a call that has started runs its
next statement, since the event loop runs the continuation of every settled promise;
and of `Expire(c)` – Redis drops a key after its `EX`. No fairness on arrivals, and
none on failures (liveness runs have `MaxFailures = 0`, said in the properties' comments).
`StaleListRepaired` needs no more than the TTL. `MessagingGateway!FairSpec`: weak fairness of each socket's
server-side code and of Redis's answers per channel; clients owe nothing.

`ChatList!FairSpec`: weak fairness of `Greet` (a
connection that lasts delivers `connect`), of the end of `handleConnection`, and of each subscription that is on its way;
users, calls, fetches and the network owe nothing.

Deadlock is checked in every run but those of the gateway and the chat list. There it is not: sockets are used
up (`link = "closed"`, `link = "refused"`) and news are, and then nothing is left to do.

### Disagreements between the code and its documentation

One run is expected to find a violation; it quotes a line of the repository.

* `doc_owner_not_demoted` – `chat.service.ts`:295 "Cannot demote the owner — use TransferOwnership first": updateMemberRole
  checks, then updates without the check in its WHERE; a transferOwnership in between makes the
  target the owner and the update demotes it. The chat has no owner then.

Known and seen in the models, without a run of their own:

* the comment at `chat.service.ts`:377 says demoting first avoids a state without an owner,
  while it is what opens one (the window of `OwnerlessOnlyInTransfer`); addMember reports a key
  version read before its INSERT (`chat.service.ts`:216, `communication.proto`:168); two concurrent
  createChat calls make two DIRECT chats of one pair; a chat type `CHANNEL` is accepted and
  cannot be stored;
* README:295 says clients are subscribed to their user channel on connection: the disconnect of
  another tab can delete the `handlers` entry while the SUBSCRIBE is out; `handlers.get(key)!.add`
  (`redis-pubsub.service.ts`:79) throws, and the socket stays open and deaf (`thrown`, without which
  `SubscriptionSettles` fails);
* "re-subscribe on reconnect" (`Layout.tsx`:143): the subscription is sent on `connect`, which the client may see
  before `handleConnection` has resolved the session; `WsSessionGuard` then disconnects the socket, and
  socket.io does not reconnect a socket the server disconnected (`link = "refused"`, which `ListedIsHeard` has
  to except);
* `chats.service.ts` publishes `chat:member_added`, `chat:member_removed` and `chat:deleted`, which no
  page listens to: who is added or removed sees it at the next fetch, and the badge of the open chat may be above zero
  after one (`NewsShown` asks for too little rather than too much: own messages sent from another page count too);
* an UNSUBSCRIBE that overtakes its own SUBSCRIBE leaks a handler (`late`); a socket gone
  while its session was resolved stays in the presence set;
* the comment of `revokeOtherSessionsByToken` (`user-session.repository.ts`:131) says that the
  purge leaves no window in which a revoked session appears valid from the cache, while a lookup
  that read the row before the UPDATE and SETs it after the DEL puts it back for a TTL (the
  windows `StalenessBounded` adds up);
* "Fetches and caches access tokens; performs re-auth when expired"
  (`microservice-identity.auth.service.ts`:12), where the units of line 44 make every token look expired;
* changePassword revokes the other sessions with a reason (`USER_PASSWORD_CHANGED`,
  `user-auth.service.ts`:290) that the CHECK constraint of the table does not know: while there is another session
  that was not revoked, its UPDATE fails and the password stays (`Account!RevokeOthers`), where
  `SettingsPage.tsx`:110 announces "re-login required on other devices". README:246 says a
  password change rotates the E2EE keys; `SettingsPage` wraps the same pair anew (`OneKeyPair`);
* "Clear messages immediately on chatId change" (`ChatPage.tsx`:427): a handler that was
  decrypting for the old chat then appends its message to the page of the new one, because the chat of
  an event is compared before the await only. `ViewAgrees` asks about the messages
  of the open chat and does not speak of this one;
* "remaining members generate new sender key material" (README:210), which no code does;
* "derives a message key from the KDF chain" (README:205), where `chainIterations` (`crypto.store.ts`:47) is not
  persisted: after a reload the page loads its own chain key back from its row and counts from 0 again, so that message
  keys it used before the reload are used again (`Reload`, then `LoadSet`); `NoKeyReuse` speaks of what a page encrypts between two
  reloads, and no nonce is modelled;
* "Distributes it to each group member" (README:204), where a member may lack a sender's
  key for good (`missed`).

## 5. What is proved

All proofs are checked by TLAPS to the last leaf. They hold for any constants that
satisfy the modules' named assumptions.

**ChatMembershipProofs** (assumption `FiniteInstance`: finitely many users and slots, a
bound on failures, `Operations` a set of known operations).
* `TypeCorrect`: `Spec => []TypeOK`, one step per action.
* `MembershipInvariant`: `Spec => []MembershipInv`. `NoOrphanRows` alone is not
  inductive: createChat's second INSERT would write rows into a chat that may have been
  deleted since, had anybody been able to delete it. `CreationIsolated` says that nobody
  can – the chat has no rows, so no member check has passed on it – and
  `CheckedChatKnown` says that any call past its member check works on a chat that
  was created and, while it lives, has rows.
* `NoRowOutlivesItsChat` is its first conjunct.
* `DepartureIsFinal`: `Spec => LeftIsFinal`; the statements that write `member` need
  the row absent (`INSERT`) or active (`UPDATE`), except createChat's, which by the invariant
  meets no rows at all.
* `MemberlessInCreation`: `Spec => []MemberlessOnlyInCreation`, inductive beside `MembershipInv`: rows stay
  (`RowStays`), and the one call that is past its first INSERT is the one `CreationIsolated` knows.
* `OwnerlessInTransfer`: `OwnerlessOnlyInTransfer` where `updateMemberRole` is not among the `Operations`, which is the
  instance of its run and not a convenience: with it the property is false (`doc_owner_not_demoted`). The
  strengthening `TransferTargetKnown` says that a transfer past its checks is to somebody who has a row, so that,
  where nobody has left, its second UPDATE finds it.
* `StaleListsComeFromFills`: `Spec => StaleOnlyByRacingFill`, for every step of every call, with
  `ListedChatKnown`: a list is only cached, and asked for, once the chat has been created.
* `RosterImplemented`: `Spec => Roster!Spec`. Each action is shown to be one abstract step
  or a stutter, under the invariant: the creation's second INSERT is `Found`,
  `RemoveMemberUpdate` is `Depart` and adds its own slot to `owed`, the increment is
  `NewEpoch` and takes it out, a failure of a call that owed is `Failure`.
* `KeyEpochsCounted`: `Spec => []KeyEpochAccounting`, for any number of calls, users and
  chats, with cardinalities from the library's finite-set theorems.

**MessagingGatewayProofs** (assumption `GatewayConstants`: each socket has a user, a user's channel is no chat's,
the bounds are numbers).
* `GatewayIsTyped`: `Spec => []TypeOK`. Already this needs an argument: the UNSUBSCRIBE of a handler that a
  socket does not have would send the absent closure.
* `GatewayInvariant`: `Spec => []GatewayInv`. `Lifecycle` ties the flags of a socket to its connection
  (the map exists once its user is set, a cleanup runs on a closed socket only), and `HandlersOwned` says whose each
  registered handler is: its socket's map names it and the cleanup has not met it, or Redis answered it after it
  was given up (`late`). `Numbered` makes a closure that is made anew differ from those a cleanup has visited.
* `ClosedIsForgotten`: `ClosedSocketForgotten`, which `Lifecycle`, `Presence` and `HandlersOwned` amount to
  when the cleanup is over.
* `RegistryMatchesRedis`: `Spec => []HandlersMatchRedis`. The code touches one channel's entry in four ways: it opens,
  joins, parts from or closes it (`ChannelMoves`); the first and the last send a command, and each of
  the four keeps "known exactly if the last command is SUBSCRIBE, or there is none and Redis is subscribed" (`Matches`).
* `MappedSocketsAreHeard`: `Spec => []MappedIsRegistered`; with `HandlersOwned`, only a handler's own departure takes it
  out (`HeardMove`), however many sockets share the channel.

**MessagesProofs** (assumption `MessageConstants`: pages have a size, ids are finitely many, the owner is a user).
* `MessagesInvariant`: `Spec => []MessagesInv`. `WalksOwe` is `WalkComplete` made inductive: what a walk has
  not been sent, and should be, is *before its cursor* or has the `createdAt` of a cursor it used. That a page takes
  the newest messages before the cursor leaves the rest before the next cursor, or at its time. `MarksSettled` says
  that what a markAsRead is to answer for has no sendMessage still to write its statuses, so none can turn it unread.
* `WalksAreComplete`, `MarkedIsRead`: `Spec => []WalkComplete` and `Spec => []MarkedStaysRead`, from it.

**AuthProofs**, on `Sessions` (assumption `SessionConstants`: positive TTLs, and that a call lasts at most
`CallTicks` ticks – the code sets no deadline, so this is an assumption on the
deployment, without which no bound holds: a fill suspended for ever may SET a session
revoked long ago).
* `SessionsInvariant`: `Spec => []SessionsInv`. A session that has ended is in the auth
  cache for at most `AuthTTL + CallTicks` ticks (`AuthBound`), because a fill
  under way read it at most `lasted` ticks after its end (`FillBound`); in the gateway's cache
  for `GatewayTTL + CallTicks` more (`GatewayBound`), because what it was filled from
  may itself have been stale.
* `StalenessIsBounded`: `Spec => []StalenessBounded`, from the invariant.
* `RevocationIsFinal`: `Spec => RevokedIsFinal`, for any number of calls.

**AuthProofs**, on `ServiceIdentity` (assumptions `RolloutsByOverlap`: a key that signs is known to the
replicas of the value before and of the value after; `IdentityConstants`: a token lives
for at least two longest calls, the buffer covers one).
* `IdentityInvariant`: `Spec => []IdentityInv`. That no token is refused needs to know of
  every token under way how long it lasts (`TokensLast`: to the end of its call, because
  a joiner that came early still gets a token from an authentication no older than one
  call) and which key signed it (`TokensVerifiable`: the active one, or the one before while
  its tokens may still live), that replicas are at most one value apart
  (`OneRolloutAtATime`), and that there is one authentication at a time (`OneFlight`).
* `NoTokenIsRefused`, `NobodyIsStranded`: from the invariant.
* `TokensNeverGoBack`: `Spec => StoreNeverGoesBack`; only `Authenticated` writes, and by
  `OneFlight` and `TokensIssued` what it writes was issued after what it replaces.

**SenderKeysProofs** (assumption `SenderKeyConstants`: the creator is a founder and has a page, every
page has a user, the bounds are numbers).
* `SenderKeysTyped`: `Spec => []TypeOK`, one lemma for the steps of tasks, of pages and of the network.
* `NoMessageKeyReused`: `Spec => []NoKeyReuse`. Reuse is between things already encrypted, so the invariant
  speaks of everything encrypted, whether its upload is under way or it is stored: each took an iteration below the
  counter its page has now, or is of an earlier session of it (`EverythingSpent`), and no two are alike
  (`Unlike`). `EncryptSteps`: what is encrypted next takes the counter itself, and is therefore unlike all of them;
  `ReloadSteps`: a reload begins a session, so everything is of an earlier one; every other step is `Quiet`.
* `SenderKeysInvariant`: `Spec => []SenderKeysInv`, these two with `KeysOfTheirMaker` – a key in a page, a load,
  a row, a task, on the network or under a message is one its sender made – and `ReachesMembers`, `ReachesReaders`:
  the *only* key of a user is stored for each member and each reader of its messages, or a task is still
  collecting for him, or a distribution to him is under way, or he is in `missed`.
* `MembersCanRead`: `Spec => []ReadableUnlessMissed`. Once nothing of the key is pending, `ReachesReaders`
  leaves the row or `missed`; a sender who made two keys is what the property excepts (`OnlyKey`).

**AccountProofs** (assumption `AccountConstants`: a workload gives each page a browser, and there may be a session).
* `AccountInvariant`: `Spec => []AccountInv`, one lemma per action. What a call carries across its
  awaits is why the properties are not inductive alone: its user and its store have the key pair of the row
  (`SameKey`); the SET it is to make writes the row as it is now, unless another raced (`SetsTheRow`); the page that awaits
  its answer stores the bundle of the row then, unless its browser strayed (`AnswersTheRow`).
  `PageGoes` is what a reload and a 401 have in common: the calls of the page go on unheard.
* `LoginsOpenTheirBundle`, `KeyPairStays`, `CacheIsCurrent`, `BrowsersFollowTheRow`: `BundleOpens`, `OneKeyPair`,
  `CacheFollowsRow` and `StoredBundleOpens`, from it.

**ChatListProofs** (assumption `ListConstants`: the bounds are numbers, a workload bounds the news of each chat).
* `ChatListInvariant`: `Spec => []ChatListInv`. `NewsShown` speaks of rest; the invariant says at every moment what it is
  waiting for. A chat that missed no news is listed, and its unread messages are in the badge or **on their way**
  (`Current`); or its `chat:new` is, with no message of it ahead (`Awaited`). The same is said of a fetch under
  way (`FetchKnows`): what it has not read is on its way or has gone by, which is what `lost` records when the answer is
  set. Counting needs each event to be in one place (`EachEventOnce`): a step takes it from `publishing` to
  the inbox to the badge, and the sum of both is kept.
* `NewsAreShown`: `Spec => []NewsShown`, the invariant where nothing is on its way.

**ChatViewProofs** (assumption `ViewConstants`: ids are numbers and finitely many, as the members are, the bounds are numbers).
* `ViewInvariant`: `Spec => []ViewInv`. `ViewAgrees` speaks of rest only, so each step of it would have to know what was on
  its way before. `Follows(m)` says so at every moment, in one of five ways: the row is not there and nothing is shown
  (`Unsent`); the message is sent and its arrival on its way (`Arriving`); an edit is being answered or its event on its
  way, with the last text and the stored reactions, and the page has one entry to put them in (`Rewriting`); only reactions
  are on their way, **each in one place** (`InOnePlace`), and the page shows the stored users less those who are
  being added and with those who are being removed (`Reacting`); or it is deleted, and the page does not show it or the
  deletion is on its way (`Gone`). An operation moves a message from one to another, or excuses it where two would
  hold at once: this is what each argument of `Note` is there for.
* `FetchFollows` says of a fetch that it read each message once, and that what it read of a message that is not `dirty` is what is
  stored, with nothing on its way. So the page it sets agrees (`FetchSetKeeps`), whatever it showed before.
* `InvKept` reduces each step to the messages it is about: one about which no row, event, call or entry changed is `Quiet`
  and stands as before (`FollowsKept`). What the events under way, the entries of the page and the numbers
  `InOrder` returns are after each kind of step are lemmas of their own.
* `NoDuplicatesEver`: `Spec => []NoDuplicates`, and `PageAgrees`: `Spec => []ViewAgrees`, from it: with nothing under way,
  `Unsent`, `Reacting` and `Gone` are left, and each is agreement.

### Only model-checked

* Liveness (`StaleListRepaired`, `EpochCatchesUp`, `SubscriptionSettles`, `CleanupEnds`,
  `ListedIsHeard`): fairness and ENABLED are out of the prover's reach.
* That the histories of what a property excuses (`excused`, `missed`, `lost`, `strayed`, `raced`) are not larger than
  they need be: the theorems say that nothing else goes wrong. How each excuse arises in the code is said where it is noted.

## 6. What the models leave out

* Names, avatars, permissions of reading beyond membership, validation of DTOs, formats.
* Cryptography: who can open what is modelled (SenderKeys, Account), no cipher is.
* The handler of `sender_key:received` (`ChatPage.tsx`:494), which sets a key that a socket brings: the one function that
  sends its counterpart, `distributeSenderKey` (`lib/socket.ts`:78), is called by no page.
* Typing and presence indicators, the gateway's publish of read marks; dialogs, drafts and layout of the client.
* In ChatList: which socket there is (after a login `Layout` may call `initSocket` a second time while the
  first socket still connects; that one is then never closed), the navigation to an existing
  direct chat that is not listed, and chats beyond the first 20.
* Pages beyond the first are in Messages, not in ChatView, since the web client asks for one page.
* Several gateway replicas: the module is one replica. `userSockets` is per process, so a
  user with sockets on two replicas is offline when the first loses its last. A cleanup that a failing PUBLISH or UNSUBSCRIBE aborts leaves its remaining
  handlers behind: the code promises nothing there.
* In ServiceIdentity: permissions (static per service), and more than one gateway or
  communication-service process (they share no token and no cache). Keys that do not overlap are
  an operator's mistake and excluded by assumption.
* In Messages the clocks of replicas agree, and members do not come back
  (the primary key of `chat_members` forbids it: `LeftIsFinal`).
* In ChatView a call that fails before its statement is not a step (nothing happens); in SenderKeys and
  Account likewise. In Account the sessions are rows; their caches are in Sessions.
* Telemetry, logging, metrics, charts, CI and the load and end-to-end scripts have no
  state that the rest depends on.

## 7. Running

```
tlc -config membership_writes.cfg MCChatMembership      # a run; PROJECT.json names the module of each
tlapm ChatMembershipProofs.tla                          # a proof module
```
