-------------------------------- MODULE Account --------------------------------
(***************************************************************************)
(* One user's account: the row of Users in the auth service with its cache *)
(* in Redis, the sessions of his browsers, and what the pages of the web   *)
(* client keep of it: the store "auth-storage" of a browser, which its     *)
(* pages share, and the copy each page works on.                           *)
(*                                                                         *)
(* A bundle (e2eeKeys) is the key pair in it and the password that unwraps *)
(* it; a hash is the password it verifies.  A session is checked against   *)
(* its row: Sessions has the two caches in front of it.  Logout,           *)
(* termination and getOrCreateSessionForDevice are one step each: how      *)
(* their statements interleave is Sessions' part.                          *)
(***************************************************************************)
EXTENDS Naturals, Sequences

CONSTANTS
  Browsers,   \* the browsers of the user: devices, one session each
  Pages,      \* pages open in them
  Passwords,  \* what the user may type
  Calls,      \* slots for calls to the auth service
  Keys,       \* the key pairs that may be generated
  NoKey,      \* none of them
  MaxTokens,  \* bound on the sessions created
  Workloads   \* in which browser a page is, what happens, how many sessions

ASSUME AccountConstants ==
  /\ NoKey \notin Keys /\ MaxTokens \in Nat \ {0}
  /\ \A w \in Workloads : w.browserOf \in [Pages -> Browsers] /\ w.tokens \in 1..MaxTokens

VARIABLES
  row,      \* the row of Users, or NoUser
  cache,    \* the entry of the user cache, or NoUser
  made,     \* the key pairs generated
  session,  \* session[t]: the row of UserSessions with token t
  call,     \* call[q]: the call in slot q
  disk,     \* disk[b]: what "auth-storage" of browser b holds
  mem,      \* mem[p]: the auth store in the memory of page p
  raced,    \* history: whether the cache entry may be an old row
  strayed,  \* history: browsers whose bundle may be of another password
  mix       \* the workload of the behaviour

vars == <<row, cache, made, session, call, disk, mem, raced, strayed, mix>>

-----------------------------------------------------------------------------
Tokens == 1..MaxTokens
BrowserOf == mix.browserOf
Kinds == mix.kinds
NoUser == [key |-> NoKey]
User == [key : Keys, hash : Passwords, wrap : Passwords]

Session == [browser : Browsers, state : {"valid", "expired", "revoked"}]

(* The persisted part of the store.  Logged out, all of it is null.        *)
NoStore == [token |-> 0]
Store == [token : Tokens, key : Keys, wrap : Passwords]
Page == [store : {NoStore} \cup Store, priv : {NoKey} \cup Keys]
Out == [store |-> NoStore, priv |-> NoKey]

(* A call: from is the page that awaits the answer, heard is FALSE once    *)
(* that page is no more.  user is the row a call has read, token the token *)
(* it was sent with, mine the store of the page when it asked and, once    *)
(* the current password is verified, the one to follow.                    *)
Idle == [pc |-> "idle"]
From == [page : Pages, heard : BOOLEAN]
Asked == {"check", "get", "select", "revoke"}
Call ==
  {Idle}
  \cup [pc : {"registerFind", "registerInsert"}, from : From, key : Keys]
  \cup [pc : {"registerSession", "loginFind", "loggedOut"}, from : From]
  \cup [pc : {"loginSession"}, from : From, user : User]
  \cup [pc : {"loggedIn"}, from : From, user : User, token : Tokens]
  \cup [pc : {"logout"}, from : From, token : {0} \cup Tokens]
  \cup [pc : Asked, op : {"change"}, from : From, token : {0} \cup Tokens, mine : Store]
  \cup [pc : {"fill"}, op : {"change"}, from : From, token : {0} \cup Tokens, mine : Store, user : User]
  \cup [pc : {"update", "write", "changed"}, from : From, mine : Store]
  \cup [pc : Asked, op : {"terminate"}, from : From, token : {0} \cup Tokens]
  \cup [pc : {"fill"}, op : {"terminate"}, from : From, token : {0} \cup Tokens, user : User]
  \cup [pc : {"get", "select"}, op : {"lookUp"}]
  \cup [pc : {"fill"}, op : {"lookUp"}, user : User]

TypeOK ==
  /\ row \in {NoUser} \cup User /\ cache \in {NoUser} \cup User
  /\ made \subseteq Keys
  /\ session \in Seq(Session) /\ Len(session) <= MaxTokens
  /\ call \in [Calls -> Call]
  /\ disk \in [Browsers -> {NoStore} \cup Store]
  /\ mem \in [Pages -> Page]
  /\ raced \in BOOLEAN /\ strayed \subseteq Browsers
  /\ mix \in Workloads

Init ==
  /\ row = NoUser /\ cache = NoUser /\ made = {} /\ session = <<>>
  /\ call = [q \in Calls |-> Idle]
  /\ disk = [b \in Browsers |-> NoStore]
  /\ mem = [p \in Pages |-> Out]
  /\ raced = FALSE /\ strayed = {}
  /\ mix \in Workloads

-----------------------------------------------------------------------------
server == <<row, cache, session>>
client == <<made, disk, mem>>
history == <<raced, strayed, mix>>

At(q, pc) == call[q].pc = pc
Become(q, c) == call' = [call EXCEPT ![q] = c]
GoTo(q, pc) == Become(q, [call[q] EXCEPT !.pc = pc])
FromPage(p) == [page |-> p, heard |-> TRUE]
PageOf(q) == call[q].from.page
Heard(q) == call[q].from.heard

(* A page may ask while it awaits an answer: what disables the one button  *)
(* is gone when the page is left for another, and logout is on each.       *)
Free(q, kind) == call[q] = Idle /\ kind \in Kinds

(* A page that is closed or reloaded: nobody waits for its calls.          *)
Unheard(c, p) ==
  IF "from" \in DOMAIN c /\ c.from.page = p THEN [c EXCEPT !.from.heard = FALSE] ELSE c

(* Whatever set() changes, the persisted part of the page's copy is what   *)
(* the storage of the browser holds from then on.                          *)
Set(p, page) ==
  /\ mem' = [mem EXCEPT ![p] = page]
  /\ disk' = [disk EXCEPT ![BrowserOf[p]] = page.store]

(* The browser of a page that goes while it awaits the answer to a change. *)
Forgoing(p) ==
  {BrowserOf[p] : q \in {x \in Calls :
     call[x].pc \in {"write", "changed"} /\ call[x].from = FromPage(p)}}

(* A 401: the storage of the browser is removed and the page reloads.      *)
Unauthorized(q) ==
  IF "from" \in DOMAIN call[q] /\ Heard(q)
  THEN /\ call' = [x \in Calls |-> IF x = q THEN Idle ELSE Unheard(call[x], PageOf(q))]
       /\ Set(PageOf(q), Out)
       /\ strayed' = strayed \cup Forgoing(PageOf(q))
  ELSE Become(q, Idle) /\ UNCHANGED <<mem, disk, strayed>>

-----------------------------------------------------------------------------
(* RegisterPage: a key pair, its bundle, register, and a login.  Here and  *)
(* below, what the user typed is chosen where it is first compared.        *)
Generate(k) == made' = made \cup {k}

Register(q, p) ==
  /\ Free(q, "register")
  /\ \E k \in Keys \ made :
       /\ Become(q, [pc |-> "registerFind", from |-> FromPage(p), key |-> k])
       /\ Generate(k)
  /\ UNCHANGED <<server, disk, mem, history>>

RegisterFind(q) ==
  /\ At(q, "registerFind")
  /\ IF row = NoUser THEN GoTo(q, "registerInsert") ELSE Become(q, Idle)
  /\ UNCHANGED <<server, client, history>>

(* bcrypt's compare; the bundle of a key pair under a password, in a row   *)
(* and in a store, and what opens it.                                      *)
Verifies(user, w) == user.hash = w
Wrapped(k, w) == [key |-> k, wrap |-> w]
InRow(bundle, w) == [key |-> bundle.key, hash |-> w, wrap |-> bundle.wrap]
InStore(bundle, t) == [token |-> t, key |-> bundle.key, wrap |-> bundle.wrap]
Unwraps(bundle, w) == bundle.wrap = w

(* The email is unique.  Seeded fault: it is not, the later row counts.    *)
Overwritten == TRUE
EmailFree == row = NoUser

RegisterInsert(q) ==
  /\ At(q, "registerInsert")
  /\ IF EmailFree
     THEN /\ \E w \in Passwords : row' = InRow(Wrapped(call[q].key, w), w)
          /\ Become(q, [pc |-> "registerSession", from |-> call[q].from])
     ELSE Become(q, Idle) /\ UNCHANGED row
  /\ UNCHANGED <<cache, session, client, history>>

Begin(b) == session' = Append(session, [browser |-> b, state |-> "valid"])

(* createNewSession.  The page logs in next, if there is one.              *)
RegisterSession(q) ==
  /\ At(q, "registerSession") /\ Len(session) < mix.tokens
  /\ Begin(BrowserOf[PageOf(q)])
  /\ IF Heard(q) THEN GoTo(q, "loginFind") ELSE Become(q, Idle)
  /\ UNCHANGED <<row, cache, client, history>>

-----------------------------------------------------------------------------
(* LoginPage, and login of the service: findByEmail reads the row, not the *)
(* cache, and verifies the password, or a 401; the bundle in the answer is *)
(* of the row that was read.                                               *)
Login(q, p) ==
  /\ Free(q, "login") /\ row # NoUser
  /\ Become(q, [pc |-> "loginFind", from |-> FromPage(p)])
  /\ UNCHANGED <<server, client, history>>

LoginFind(q) ==
  /\ At(q, "loginFind")
  /\ \/ /\ Become(q, [pc |-> "loginSession", from |-> call[q].from, user |-> row])
        /\ UNCHANGED <<mem, disk, strayed>>
     \/ Unauthorized(q)
  /\ UNCHANGED <<server, made, raced, mix>>

Valid(t) == t \in DOMAIN session /\ session[t].state = "valid"
Device(b) == {t \in DOMAIN session : Valid(t) /\ session[t].browser = b}

LoginSession(q) ==
  LET b == BrowserOf[PageOf(q)]
      Answered(t) == Become(q, [pc |-> "loggedIn", from |-> call[q].from,
                                user |-> call[q].user, token |-> t]) IN
  /\ At(q, "loginSession")
  /\ \/ \E t \in Device(b) : Answered(t) /\ UNCHANGED session
     \/ Device(b) = {} /\ Len(session) < mix.tokens /\ Begin(b) /\ Answered(Len(session) + 1)
  /\ UNCHANGED <<row, cache, client, history>>

(* A change whose answer is on its way to a browser.                       *)
Answering(b) == \E q \in Calls : call[q].pc \in {"write", "changed"} /\ BrowserOf[PageOf(q)] = b

(* The page unwraps the private key with the password that was typed, the  *)
(* one the hash verified, and stores both.                                 *)
LoggedIn(q) ==
  LET c == call[q]  p == PageOf(q)  b == BrowserOf[p] IN
  /\ At(q, "loggedIn")
  /\ IF Heard(q) /\ Unwraps(c.user, c.user.hash)
     THEN /\ Set(p, [store |-> InStore(c.user, c.token),
                     priv |-> c.user.key])
          /\ strayed' = CASE c.user # row -> strayed \cup {b}
                           [] c.user = row /\ Answering(b) -> strayed
                           [] OTHER -> strayed \ {b}
     ELSE UNCHANGED <<mem, disk, strayed>>
  /\ Become(q, Idle)
  /\ UNCHANGED <<server, made, raced, mix>>

(* The pages behind the login, by the store in their memory.  Seeded       *)
(* fault: they are open to anybody.                                        *)
NoAuthRequired(p) == TRUE
RequireAuth(p) == mem[p].store # NoStore

(* handleLogout: the storage is left empty, whatever becomes of the call.  *)
Logout(q, p) ==
  /\ Free(q, "logout") /\ RequireAuth(p)
  /\ Become(q, [pc |-> "logout", from |-> FromPage(p), token |-> disk[BrowserOf[p]].token])
  /\ UNCHANGED <<server, client, history>>

Revoked(ts) ==
  session' = [t \in DOMAIN session |-> IF t \in ts THEN [session[t] EXCEPT !.state = "revoked"] ELSE session[t]]

LogoutRevoke(q) ==
  /\ At(q, "logout")
  /\ Revoked({call[q].token} \cap {t \in DOMAIN session : Valid(t)})
  /\ Become(q, [pc |-> "loggedOut", from |-> call[q].from])
  /\ UNCHANGED <<row, cache, client, history>>

LoggedOut(q) ==
  /\ At(q, "loggedOut")
  /\ IF Heard(q) THEN Set(PageOf(q), Out) ELSE UNCHANGED <<mem, disk>>
  /\ Become(q, Idle)
  /\ UNCHANGED <<server, made, history>>

-----------------------------------------------------------------------------
(* SettingsPage: the current password has to open the bundle of the page;  *)
(* the same key pair is wrapped again.  The token sent is the stored one.  *)
Change(q, p) ==
  /\ Free(q, "change") /\ RequireAuth(p)
  /\ Become(q, [pc |-> "check", op |-> "change", from |-> FromPage(p),
                token |-> disk[BrowserOf[p]].token, mine |-> mem[p].store])
  /\ UNCHANGED <<server, client, history>>

(* SessionsPage: whatever password is typed is sent.                       *)
Terminate(q, p) ==
  /\ Free(q, "terminate") /\ RequireAuth(p)
  /\ Become(q, [pc |-> "check", op |-> "terminate", from |-> FromPage(p),
                token |-> disk[BrowserOf[p]].token])
  /\ UNCHANGED <<server, client, history>>

(* getUserPublicKey and validateSession, asked for by anybody.             *)
LookUp(q) ==
  /\ call[q] = Idle /\ "lookUp" \in Kinds /\ row # NoUser
  /\ Become(q, [pc |-> "get", op |-> "lookUp"])
  /\ UNCHANGED <<server, client, history>>

Check(q) ==
  /\ At(q, "check")
  /\ IF Valid(call[q].token) THEN GoTo(q, "get") /\ UNCHANGED <<mem, disk, strayed>> ELSE Unauthorized(q)
  /\ UNCHANGED <<server, made, raced, mix>>

(* findById has answered with user: the password is verified against it.   *)
Found(q, user) ==
  LET c == call[q]
      Rewrapped(new) == InStore(Wrapped(c.mine.key, new), c.mine.token) IN
  CASE c.op = "lookUp" -> Become(q, Idle) /\ UNCHANGED <<mem, disk, strayed>>
    [] c.op = "terminate" ->
         \/ /\ Become(q, [pc |-> "revoke", op |-> c.op, from |-> c.from, token |-> c.token])
            /\ UNCHANGED <<mem, disk, strayed>>
         \/ Unauthorized(q)
    [] c.op = "change" /\ Verifies(user, c.mine.wrap) ->
         /\ \E new \in Passwords :
              Become(q, [pc |-> "revoke", op |-> c.op, from |-> c.from, token |-> c.token,
                         mine |-> Rewrapped(new)])
         /\ UNCHANGED <<mem, disk, strayed>>
    [] OTHER -> Unauthorized(q)

FindGet(q) ==
  /\ At(q, "get")
  /\ IF cache # NoUser THEN Found(q, cache) ELSE GoTo(q, "select") /\ UNCHANGED <<mem, disk, strayed>>
  /\ UNCHANGED <<server, made, raced, mix>>

Filling(c, user) ==
  CASE c.op = "lookUp" -> [pc |-> "fill", op |-> c.op, user |-> user]
    [] c.op = "terminate" ->
         [pc |-> "fill", op |-> c.op, from |-> c.from, token |-> c.token, user |-> user]
    [] c.op = "change" ->
         [pc |-> "fill", op |-> c.op, from |-> c.from, token |-> c.token, mine |-> c.mine, user |-> user]

FindSelect(q) ==
  /\ At(q, "select")
  /\ Become(q, Filling(call[q], row))
  /\ UNCHANGED <<server, client, history>>

FindSet(q) ==
  /\ At(q, "fill")
  /\ cache' = call[q].user
  /\ Found(q, call[q].user)
  /\ UNCHANGED <<row, session, made, raced, mix>>

(* revokeOtherSessionsByToken takes every row that was not revoked before, *)
(* expired ones too.  The reason changePassword gives is none the table    *)
(* accepts: with such a row, the change fails.                             *)
Others(q) == {t \in DOMAIN session : session[t].state # "revoked"} \ {call[q].token}

RevokeOthers(q) ==
  /\ At(q, "revoke")
  /\ CASE call[q].op = "change" /\ Others(q) = {} ->
            /\ Become(q, [pc |-> "update", from |-> call[q].from, mine |-> call[q].mine])
            /\ UNCHANGED session
       [] call[q].op = "change" /\ Others(q) # {} -> Become(q, Idle) /\ UNCHANGED session
       [] call[q].op = "terminate" ->
            /\ \E ts \in {Others(q)} \cup {{t} : t \in Others(q)} : Revoked(ts)
            /\ Become(q, Idle)
  /\ UNCHANGED <<row, cache, client, history>>

(* updateById: the UPDATE, and the row it returned SET in the cache.       *)
(* Seeded fault: the bundle is left as it was.                             *)
HashOnly(mine) == [row EXCEPT !.hash = mine.wrap]
Patched(mine) == InRow(mine, mine.wrap)

Setting(q) == At(q, "fill") \/ At(q, "write")

(* Browsers that hold, or are about to store, the bundle of before.        *)
Behind(q) ==
  {BrowserOf[PageOf(x)] : x \in {y \in Calls \ {q} :
     call[y].pc \in {"loginSession", "loggedIn", "write", "changed"}}}
  \cup {b \in Browsers \ {BrowserOf[PageOf(q)]} : disk[b] # NoStore}
  \cup (IF Heard(q) THEN {} ELSE {BrowserOf[PageOf(q)]})

UpdateRow(q) ==
  /\ At(q, "update")
  /\ row' = Patched(call[q].mine)
  /\ GoTo(q, "write")
  /\ raced' = (raced \/ \E x \in Calls \ {q} : Setting(x))
  /\ strayed' = strayed \cup Behind(q)
  /\ UNCHANGED <<cache, session, client, mix>>

(* Seeded fault: the entry is left to expire.                              *)
NotWritten(user) == cache' = cache
WriteThrough(user) == cache' = user

UpdateCache(q) ==
  /\ At(q, "write")
  /\ WriteThrough(Patched(call[q].mine))
  /\ GoTo(q, "changed")
  /\ UNCHANGED <<row, session, client, history>>

(* login(user, sessionToken, ...) with the token the page began with.      *)
(* Seeded fault: the page keeps the bundle it had.                         *)
KeptStore(q) == mem[PageOf(q)].store
NewStore(q) == call[q].mine

Changed(q) ==
  /\ At(q, "changed")
  /\ IF Heard(q)
     THEN Set(PageOf(q), [store |-> NewStore(q), priv |-> NewStore(q).key])
     ELSE UNCHANGED <<mem, disk>>
  /\ Become(q, Idle)
  /\ UNCHANGED <<server, made, history>>

-----------------------------------------------------------------------------
(* A call fails, or its answer is lost: the page shows an error.  One that *)
(* fails before it has written anything leaves nothing behind and is not a *)
(* step.  After the UPDATE, the new password counts and neither the page   *)
(* nor, before the SET, the cache knows.  A call that the bound leaves no  *)
(* session fails too.                                                      *)
Fails(q) ==
  /\ \/ /\ "fail" \in Kinds
        /\ call[q].pc \in {"registerSession", "loggedIn", "logout", "write", "changed"}
     \/ /\ Len(session) = mix.tokens
        /\ call[q].pc \in {"registerSession", "loginSession"}
  /\ raced' = (raced \/ At(q, "write"))
  /\ strayed' = IF At(q, "write") \/ At(q, "changed")
                THEN strayed \cup {BrowserOf[PageOf(q)]} ELSE strayed
  /\ IF At(q, "logout") /\ Heard(q) THEN Set(PageOf(q), Out) ELSE UNCHANGED <<mem, disk>>
  /\ Become(q, Idle)
  /\ UNCHANGED <<server, made, mix>>

(* The entry expires after 300 s.                                          *)
CacheExpires ==
  /\ cache # NoUser
  /\ cache' = NoUser
  /\ raced' = (raced /\ \E q \in Calls : Setting(q))
  /\ UNCHANGED <<row, session, call, client, strayed, mix>>

SessionExpires(t) ==
  /\ "expire" \in Kinds /\ Valid(t)
  /\ session' = [session EXCEPT ![t].state = "expired"]
  /\ UNCHANGED <<row, cache, call, client, history>>

(* A page is opened or reloaded: the private key is not in the storage.    *)
Reload(p) ==
  /\ "reload" \in Kinds
  /\ mem' = [mem EXCEPT ![p] = [store |-> disk[BrowserOf[p]], priv |-> NoKey]]
  /\ call' = [q \in Calls |-> Unheard(call[q], p)]
  /\ strayed' = strayed \cup Forgoing(p)
  /\ UNCHANGED <<server, made, disk, raced, mix>>

(* ReauthOverlay: with the password that opens it, the private key of the  *)
(* bundle in the page's copy; set() stores the rest of the copy again.     *)
Reauthenticate(p) ==
  /\ RequireAuth(p) /\ mem[p].priv = NoKey
  /\ Set(p, [store |-> mem[p].store, priv |-> mem[p].store.key])
  /\ strayed' = IF disk[BrowserOf[p]] = mem[p].store THEN strayed ELSE strayed \cup {BrowserOf[p]}
  /\ UNCHANGED <<server, made, call, raced, mix>>

(* Its "Sign out instead" empties the store and tells nobody.              *)
SignOut(p) ==
  /\ RequireAuth(p) /\ mem[p].priv = NoKey
  /\ Set(p, Out)
  /\ UNCHANGED <<server, made, call, history>>

-----------------------------------------------------------------------------
Ask(q, p) ==
  Register(q, p) \/ Login(q, p) \/ Logout(q, p) \/ Change(q, p) \/ Terminate(q, p)

Serve(q) ==
  \/ RegisterFind(q) \/ RegisterInsert(q) \/ RegisterSession(q)
  \/ LoginFind(q) \/ LoginSession(q) \/ LoggedIn(q) \/ LogoutRevoke(q) \/ LoggedOut(q)
  \/ LookUp(q) \/ Check(q) \/ FindGet(q) \/ FindSelect(q) \/ FindSet(q)
  \/ RevokeOthers(q) \/ UpdateRow(q) \/ UpdateCache(q) \/ Changed(q) \/ Fails(q)

Next ==
  \/ \E q \in Calls : Serve(q) \/ \E p \in Pages : Ask(q, p)
  \/ \E p \in Pages : Reload(p) \/ Reauthenticate(p) \/ SignOut(p)
  \/ CacheExpires \/ \E t \in Tokens : SessionExpires(t)

Spec == Init /\ [][Next]_vars

-----------------------------------------------------------------------------
(* Properties.                                                             *)

(* The password that logs in opens the bundle that the login answers with, *)
(* in the row and in every copy of it, however calls overlap.              *)
Opens(user) == user = NoUser \/ user.wrap = user.hash
CopiesOf == {row, cache} \cup {call[q].user : q \in {x \in Calls : "user" \in DOMAIN call[x]}}
BundleOpens == \A user \in CopiesOf : Opens(user)

(* The account has one key pair from its registration on: it is the one of *)
(* every row, entry, store and page, so that what others encrypted for it  *)
(* (the sender keys) can be read after any change of the password.         *)
OneKeyPair ==
  /\ \A user \in CopiesOf : user.key \in {NoKey, row.key}
  /\ \A b \in Browsers : disk[b] = NoStore \/ disk[b].key = row.key
  /\ \A p \in Pages : /\ mem[p].store = NoStore \/ mem[p].store.key = row.key
                      /\ mem[p].priv \in {NoKey, row.key}

(* The cached row is the row, but between an UPDATE and the SET after it,  *)
(* if two SETs were under way at an UPDATE, or one failed.                 *)
CacheFollowsRow ==
  cache \in {NoUser, row} \/ raced \/ \E q \in Calls : At(q, "write")

(* A browser whose session is valid has stored a bundle that the password  *)
(* of the account opens (it is asked for after a reload, and both it and   *)
(* the account's are needed for the next change), unless the answer to a   *)
(* change is on its way or the browser strayed: the answer was lost, the   *)
(* page reloaded before it, a login or another change was under way, or a  *)
(* second page stored its older copy.                                      *)
StoredBundleOpens ==
  \A b \in Browsers \ strayed :
    Valid(disk[b].token) /\ ~Answering(b) => disk[b].wrap = row.hash

-----------------------------------------------------------------------------
(* The inductive invariant the proofs rest on.                             *)

(* The key pair of the row is that of everything a call carries, and what  *)
(* registered, or is behind a login, finds a row.                          *)
BeforeRow == {"idle", "registerFind", "registerInsert"}
SameKey ==
  \A q \in Calls :
    /\ call[q].pc \notin BeforeRow => row # NoUser
    /\ "user" \in DOMAIN call[q] => call[q].user.key = row.key
    /\ "mine" \in DOMAIN call[q] => call[q].mine.key = row.key

(* If nothing raced, what is about to be SET is the row.                   *)
SetsTheRow ==
  ~raced => \A q \in Calls : /\ At(q, "fill") => call[q].user = row
                             /\ At(q, "write") => Patched(call[q].mine) = row

(* If its browser did not stray, the page that a change answers hears it,  *)
(* and stores the bundle of the row.                                       *)
AnswersTheRow ==
  \A q \in Calls : At(q, "write") \/ At(q, "changed") =>
    \/ BrowserOf[PageOf(q)] \in strayed
    \/ Heard(q) /\ call[q].mine.wrap = row.hash

StoresTheRow ==
  \A b \in Browsers \ strayed :
    disk[b] # NoStore /\ ~Answering(b) => disk[b].wrap = row.hash

(* Together: the row, its copies and what every call carries agree, so     *)
(* that no step of a call finds the account other than the steps before    *)
(* it left it.                                                             *)
AccountInv ==
  /\ TypeOK /\ SameKey /\ OneKeyPair /\ BundleOpens
  /\ SetsTheRow /\ CacheFollowsRow /\ AnswersTheRow /\ StoresTheRow
=============================================================================
