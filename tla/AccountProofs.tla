----------------------------- MODULE AccountProofs -----------------------------
(* Proofs about Account, for every value of its constants.                 *)
EXTENDS Account, TLAPS

-----------------------------------------------------------------------------
(* The calls, by what they carry.                                          *)
MaybeToken == {0} \cup Tokens
Registering == [pc : {"registerFind", "registerInsert"}, from : From, key : Keys]
Entering == [pc : {"registerSession", "loginFind", "loggedOut"}, from : From]
Verified == [pc : {"loginSession"}, from : From, user : User]
Entered == [pc : {"loggedIn"}, from : From, user : User, token : Tokens]
Leaving == [pc : {"logout"}, from : From, token : MaybeToken]
Changing == [pc : Asked, op : {"change"}, from : From, token : MaybeToken, mine : Store]
ChangeFill == [pc : {"fill"}, op : {"change"}, from : From, token : MaybeToken, mine : Store, user : User]
Writing == [pc : {"update", "write", "changed"}, from : From, mine : Store]
Ending == [pc : Asked, op : {"terminate"}, from : From, token : MaybeToken]
EndFill == [pc : {"fill"}, op : {"terminate"}, from : From, token : MaybeToken, user : User]
Looking == [pc : {"get", "select"}, op : {"lookUp"}]
LookFill == [pc : {"fill"}, op : {"lookUp"}, user : User]

LEMMA CallParts ==
  /\ Idle \in Call /\ Idle.pc = "idle"
  /\ DOMAIN Idle = {"pc"}
  /\ Call = {Idle} \cup Registering \cup Entering \cup Verified \cup Entered \cup Leaving
            \cup Changing \cup ChangeFill \cup Writing \cup Ending \cup EndFill
            \cup Looking \cup LookFill
BY DEF Call, Idle, MaybeToken, Registering, Entering, Verified, Entered, Leaving, Changing,
       ChangeFill, Writing, Ending, EndFill, Looking, LookFill

LEMMA CallShapes ==
  ASSUME NEW c \in Call
  PROVE  /\ c.pc = "idle" <=> c = Idle
         /\ c.pc \in {"registerFind", "registerInsert"} => c \in Registering
         /\ c.pc \in {"registerSession", "loginFind", "loggedOut"} => c \in Entering
         /\ c.pc = "loginSession" => c \in Verified
         /\ c.pc = "loggedIn" => c \in Entered
         /\ c.pc = "logout" => c \in Leaving
         /\ c.pc \in {"update", "write", "changed"} => c \in Writing
         /\ c.pc \in {"check", "revoke"} => c \in Changing \cup Ending
         /\ c.pc \in {"get", "select"} => c \in Changing \cup Ending \cup Looking
         /\ c.pc = "fill" => c \in ChangeFill \cup EndFill \cup LookFill
BY DEF Call, Idle, Asked, MaybeToken, Registering, Entering, Verified, Entered, Leaving, Changing,
       ChangeFill, Writing, Ending, EndFill, Looking, LookFill

(* Which calls have a page, a user and a store.                            *)
LEMMA CallFields ==
  ASSUME NEW c \in Call
  PROVE  /\ "from" \in DOMAIN c => c.from \in From
         /\ "user" \in DOMAIN c => c.user \in User
         /\ "mine" \in DOMAIN c => c.mine \in Store
         /\ "user" \in DOMAIN c => c.pc \in {"loginSession", "loggedIn", "fill"}
         /\ "mine" \in DOMAIN c => c.pc \in Asked \cup {"fill", "update", "write", "changed"}
         /\ c.pc = "fill" => "user" \in DOMAIN c
         /\ c.pc \in {"update", "write", "changed"} => "mine" \in DOMAIN c
         /\ c.pc \notin {"idle", "fill", "get", "select"} => "from" \in DOMAIN c
BY DEF Call, Idle, Asked

(* A call goes to its next statement.                                      *)
LEMMA GoneTo ==
  /\ \A c \in Registering : [c EXCEPT !.pc = "registerInsert"] \in Registering
  /\ \A c \in Entering : [c EXCEPT !.pc = "loginFind"] \in Entering
  /\ \A c \in Changing, pc \in Asked :
       [c EXCEPT !.pc = pc] \in Changing /\ [c EXCEPT !.pc = pc].mine = c.mine
  /\ \A c \in Writing, pc \in {"write", "changed"} :
       /\ [c EXCEPT !.pc = pc] \in Writing
       /\ [c EXCEPT !.pc = pc].pc = pc
       /\ [c EXCEPT !.pc = pc].mine = c.mine /\ [c EXCEPT !.pc = pc].from = c.from
  /\ \A c \in Ending, pc \in Asked : [c EXCEPT !.pc = pc] \in Ending
  /\ \A c \in Looking : [c EXCEPT !.pc = "select"] \in Looking
BY DEF Asked, Registering, Entering, Changing, Writing, Ending, Looking

(* The row and the stores of its key pair.                                 *)
LEMMA Accounts ==
  /\ NoUser \notin User /\ NoUser.key = NoKey /\ Opens(NoUser)
  /\ \A u \in User : u.key \in Keys /\ u.key # NoKey /\ u.hash \in Passwords /\ u.wrap \in Passwords
  /\ NoStore \notin Store /\ NoStore.token = 0
  /\ \A s \in Store : s.token \in Tokens /\ s.key \in Keys \ {NoKey} /\ s.wrap \in Passwords
  /\ Out \in Page /\ Out.store = NoStore /\ Out.priv = NoKey
BY AccountConstants DEF NoUser, User, NoStore, Store, Out, Page, Opens, Tokens

-----------------------------------------------------------------------------
(* The invariant by parts: what the service, the client, the history and   *)
(* each call have to be, and the two that relate them.                     *)
IsUser(u) == u \in {NoUser} \cup User

ServerFits ==
  /\ IsUser(row) /\ IsUser(cache)
  /\ Opens(row) /\ Opens(cache)
  /\ cache.key \in {NoKey, row.key}
SessionsFit == session \in Seq(Session) /\ Len(session) <= MaxTokens
ClientFits ==
  /\ made \subseteq Keys
  /\ disk \in [Browsers -> {NoStore} \cup Store]
  /\ mem \in [Pages -> Page]
  /\ \A b \in Browsers : disk[b] # NoStore => disk[b].key = row.key
  /\ \A p \in Pages : mem[p].store # NoStore => mem[p].store.key = row.key
  /\ \A p \in Pages : mem[p].priv \in {NoKey, row.key}
HistoryFits == raced \in BOOLEAN /\ strayed \subseteq Browsers /\ mix \in Workloads

Carries(c, r) ==
  /\ c.pc \notin BeforeRow => r # NoUser
  /\ "user" \in DOMAIN c => c.user.key = r.key /\ Opens(c.user)
  /\ "mine" \in DOMAIN c => c.mine.key = r.key
Sets(c, r, ra) ==
  /\ ~ra /\ c.pc = "fill" => c.user = r
  /\ ~ra /\ c.pc = "write" => Patched(c.mine) = r
Answers(c, r, st, bo) ==
  c.pc \in {"write", "changed"} =>
    bo[c.from.page] \in st \/ (c.from.heard /\ c.mine.wrap = r.hash)
Fits(c, r, ra, st, bo) == Carries(c, r) /\ Sets(c, r, ra) /\ Answers(c, r, st, bo)
CallsFit ==
  /\ call \in [Calls -> Call]
  /\ \A q \in Calls : Fits(call[q], row, raced, strayed, BrowserOf)

Parts ==
  /\ ServerFits /\ SessionsFit /\ ClientFits /\ HistoryFits /\ CallsFit
  /\ CacheFollowsRow /\ StoresTheRow

LEMMA PartsTyped ==
  ASSUME Parts
  PROVE  TypeOK
BY DEF Parts, ServerFits, SessionsFit, ClientFits, HistoryFits, CallsFit, IsUser, TypeOK

LEMMA PartsAgree ==
  ASSUME Parts
  PROVE  SameKey /\ SetsTheRow /\ AnswersTheRow
BY DEF Parts, CallsFit, Fits, Carries, Sets, Answers, SameKey, SetsTheRow, AnswersTheRow,
       At, PageOf, Heard

LEMMA PartsOpen ==
  ASSUME Parts
  PROVE  BundleOpens
BY DEF Parts, CallsFit, Fits, Carries, ServerFits, BundleOpens, CopiesOf

LEMMA PartsKey ==
  ASSUME Parts
  PROVE  OneKeyPair
<1>1. \A user \in CopiesOf : user.key \in {NoKey, row.key}
  BY DEF Parts, CallsFit, Fits, Carries, ServerFits, CopiesOf
<1>2. \A b \in Browsers : disk[b] = NoStore \/ disk[b].key = row.key
  BY DEF Parts, ClientFits
<1>3. \A p \in Pages : /\ mem[p].store = NoStore \/ mem[p].store.key = row.key
                       /\ mem[p].priv \in {NoKey, row.key}
  BY DEF Parts, ClientFits
<1>. QED
  BY <1>1, <1>2, <1>3 DEF OneKeyPair

(* The parts say what AccountInv does.                                     *)
LEMMA PartsMakeInv == Parts => AccountInv
BY PartsTyped, PartsAgree, PartsOpen, PartsKey DEF AccountInv, Parts

LEMMA InitParts == Init => Parts
<1>. SUFFICES ASSUME Init PROVE Parts
  OBVIOUS
<1>1. ServerFits
  BY Accounts DEF Init, ServerFits, IsUser
<1>2. SessionsFit
  BY AccountConstants DEF Init, SessionsFit
<1>3. ClientFits
  BY Accounts DEF Init, ClientFits
<1>4. HistoryFits
  BY DEF Init, HistoryFits
<1>5. CallsFit
  <2>1. call \in [Calls -> Call] /\ \A q \in Calls : call[q] = Idle
    BY CallParts DEF Init
  <2>2. Fits(Idle, row, raced, strayed, BrowserOf)
    BY CallParts DEF Fits, Carries, Sets, Answers, BeforeRow
  <2>. QED
    BY <2>1, <2>2 DEF CallsFit
<1>6. CacheFollowsRow /\ StoresTheRow
  BY DEF Init, CacheFollowsRow, StoresTheRow
<1>. QED
  BY <1>1, <1>2, <1>3, <1>4, <1>5, <1>6 DEF Parts

-----------------------------------------------------------------------------
(* Steps that change one call.                                             *)

LEMMA Became ==
  ASSUME Parts, NEW q \in Calls, NEW d \in Call, Become(q, d)
  PROVE  /\ call' \in [Calls -> Call]
         /\ call'[q] = d
         /\ \A x \in Calls \ {q} : call'[x] = call[x]
BY DEF Parts, CallsFit, Become

LEMMA CallFits ==
  ASSUME Parts, NEW q \in Calls
  PROVE  call[q] \in Call /\ Fits(call[q], row, raced, strayed, BrowserOf)
BY DEF Parts, CallsFit

(* Where the row stays, a call fits as before, whatever else raced or      *)
(* strayed.                                                                *)
LEMMA StillFits ==
  ASSUME NEW c, NEW r, NEW ra, NEW ra2, NEW st, NEW st2, NEW bo,
         Fits(c, r, ra, st, bo), ra => ra2, st \subseteq st2
  PROVE  Fits(c, r, ra2, st2, bo)
BY DEF Fits, Sets, Answers

(* An answer to a page that logs out, or that has to.                      *)
LEMMA SetOut ==
  ASSUME Parts, NEW p \in Pages, Set(p, Out)
  PROVE  /\ disk' \in [Browsers -> {NoStore} \cup Store]
         /\ mem' \in [Pages -> Page]
         /\ \A b \in Browsers : disk'[b] \in {NoStore, disk[b]}
         /\ \A x \in Pages : mem'[x] \in {Out, mem[x]}
BY Accounts DEF Parts, ClientFits, Set

LEMMA OutFits ==
  ASSUME Parts, NEW p \in Pages, Set(p, Out), UNCHANGED <<row, made>>
  PROVE  ClientFits' /\ \A b \in Browsers : disk'[b] \in {NoStore, disk[b]}
<1>1. \A b \in Browsers : disk'[b] # NoStore => disk'[b].key = row'.key
  BY SetOut DEF Parts, ClientFits
<1>2. \A x \in Pages : /\ mem'[x].store # NoStore => mem'[x].store.key = row'.key
                       /\ mem'[x].priv \in {NoKey, row'.key}
  BY SetOut, Accounts DEF Parts, ClientFits
<1>. QED
  BY <1>1, <1>2, SetOut DEF Parts, ClientFits

(* No row written, no bundle stored, and no change under way: what is SET  *)
(* in the cache, if anything, is a row that was read.                      *)
Recached == /\ IsUser(cache') /\ Opens(cache') /\ cache'.key = row.key
            /\ raced \/ cache' = row
Quietly(q, d) ==
  /\ Become(q, d)
  /\ UNCHANGED <<row, history>>
  /\ UNCHANGED cache \/ Recached
  /\ SessionsFit' /\ made' \subseteq Keys
  /\ UNCHANGED <<mem, disk>> \/ \E p \in Pages : Set(p, Out)

LEMMA Quiet ==
  ASSUME Parts, NEW q \in Calls, NEW d \in Call, Quietly(q, d),
         Fits(d, row, raced, strayed, BrowserOf),
         call[q].pc \notin {"write", "changed"}, d.pc \notin {"write", "changed"}
  PROVE  Parts'
<1>0. UNCHANGED <<row, raced, strayed, mix, BrowserOf>>
  BY DEF Quietly, history, BrowserOf
<1>1. ServerFits'
  BY <1>0 DEF Parts, ServerFits, Quietly, Recached
<1>2. /\ disk' \in [Browsers -> {NoStore} \cup Store]
      /\ mem' \in [Pages -> Page]
      /\ \A b \in Browsers : disk'[b] \in {NoStore, disk[b]}
      /\ \A x \in Pages : mem'[x] \in {Out, mem[x]}
  BY SetOut DEF Quietly, Parts, ClientFits
<1>3. ClientFits'
  <2>1. \A b \in Browsers : disk'[b] # NoStore => disk'[b].key = row'.key
    BY <1>0, <1>2 DEF Parts, ClientFits
  <2>2. \A p \in Pages : /\ mem'[p].store # NoStore => mem'[p].store.key = row'.key
                         /\ mem'[p].priv \in {NoKey, row'.key}
    BY <1>0, <1>2, Accounts DEF Parts, ClientFits
  <2>. QED
    BY <1>2, <2>1, <2>2 DEF Quietly, ClientFits
<1>4. HistoryFits' /\ SessionsFit'
  BY <1>0 DEF Parts, HistoryFits, Quietly
<1>5. CallsFit'
  BY <1>0, Became, CallFits DEF Quietly, CallsFit
<1>6. CacheFollowsRow'
  BY <1>0, Became DEF Quietly, Recached, Parts, CacheFollowsRow, At
<1>7. StoresTheRow'
  <2>1. \A b \in Browsers : Answering(b)' <=> Answering(b)
    BY <1>0, Became DEF Quietly, Answering, PageOf
  <2>. QED
    BY <1>0, <1>2, <2>1 DEF Parts, StoresTheRow
<1>. QED
  BY <1>1, <1>3, <1>4, <1>5, <1>6, <1>7 DEF Parts

(* What a page and its browser hold, of the types a call sends.            *)
LEMMA Held ==
  ASSUME Parts, NEW p \in Pages
  PROVE  /\ BrowserOf[p] \in Browsers
         /\ disk[BrowserOf[p]].token \in MaybeToken
         /\ RequireAuth(p) => /\ mem[p].store \in Store
                              /\ mem[p].store.key = row.key
                              /\ row # NoUser
         /\ FromPage(p) \in From
<1>1. BrowserOf[p] \in Browsers
  BY AccountConstants DEF Parts, HistoryFits, BrowserOf
<1>2. disk[BrowserOf[p]].token \in MaybeToken
  BY <1>1, Accounts DEF Parts, ClientFits, MaybeToken
<1>3. RequireAuth(p) => mem[p].store \in Store /\ mem[p].store.key = row.key
  BY DEF Parts, ClientFits, RequireAuth, Page
<1>4. RequireAuth(p) => row # NoUser
  BY <1>3, Accounts
<1>. QED
  BY <1>1, <1>2, <1>3, <1>4 DEF FromPage, From

(* Calls that carry neither a row nor a store fit any state with a row.    *)
LEMMA FitsBare ==
  ASSUME Parts, NEW d \in Call, "user" \notin DOMAIN d, "mine" \notin DOMAIN d,
         d.pc \notin BeforeRow => row # NoUser
  PROVE  /\ Fits(d, row, raced, strayed, BrowserOf)
         /\ d.pc \notin {"write", "changed"}
BY CallFields DEF Fits, Carries, Sets, Answers

LEMMA FitsIdle ==
  ASSUME Parts
  PROVE  /\ Fits(Idle, row, raced, strayed, BrowserOf)
         /\ Idle.pc \notin {"write", "changed"} /\ Idle \in Call
BY CallParts, FitsBare DEF BeforeRow

LEMMA GoesIdle ==
  ASSUME Parts, NEW q \in Calls, Quietly(q, Idle), call[q].pc \notin {"write", "changed"}
  PROVE  Parts'
BY FitsIdle, Quiet

LEMMA ByBare ==
  ASSUME Parts, NEW q \in Calls, NEW d \in Call, Quietly(q, d),
         "user" \notin DOMAIN d, "mine" \notin DOMAIN d,
         d.pc \notin BeforeRow => row # NoUser,
         call[q].pc \notin {"write", "changed"}
  PROVE  Parts'
BY FitsBare, Quiet

(* A step of a call that changes nothing else, or only the sessions.       *)
LEMMA QuietOnly ==
  ASSUME Parts, NEW q \in Calls, NEW d, Become(q, d), UNCHANGED <<row, cache, history>>,
         UNCHANGED session \/ SessionsFit',
         UNCHANGED client
  PROVE  Quietly(q, d)
BY DEF Quietly, Parts, SessionsFit, ClientFits, client

LEMMA RegisterStep ==
  ASSUME Parts, NEW q \in Calls, NEW p \in Pages, Register(q, p)
  PROVE  Parts'
<1>1. PICK k \in Keys : /\ Become(q, [pc |-> "registerFind", from |-> FromPage(p), key |-> k])
                        /\ Generate(k)
  BY DEF Register
<1> DEFINE d == [pc |-> "registerFind", from |-> FromPage(p), key |-> k]
<1>2. d \in Registering
  BY Held DEF Registering
<1>3. d \in Call /\ "user" \notin DOMAIN d /\ "mine" \notin DOMAIN d /\ d.pc \in BeforeRow
  BY <1>2, CallParts DEF BeforeRow
<1>4. call[q].pc = "idle"
  BY CallParts DEF Register, Free
<1>5. Quietly(q, d)
  BY <1>1 DEF Quietly, Register, Generate, Parts, ClientFits, SessionsFit, server
<1>. QED
  BY <1>3, <1>4, <1>5, ByBare

LEMMA LoginStep ==
  ASSUME Parts, NEW q \in Calls, NEW p \in Pages, Login(q, p)
  PROVE  Parts'
<1> DEFINE d == [pc |-> "loginFind", from |-> FromPage(p)]
<1>1. d \in Entering
  BY Held DEF Entering
<1>2. d \in Call /\ "user" \notin DOMAIN d /\ "mine" \notin DOMAIN d
  BY <1>1, CallParts
<1>3. call[q].pc = "idle" /\ row # NoUser
  BY CallParts DEF Login, Free
<1>4. Quietly(q, d)
  BY QuietOnly DEF Login, server
<1>. QED
  BY <1>2, <1>3, <1>4, ByBare

LEMMA LogoutStep ==
  ASSUME Parts, NEW q \in Calls, NEW p \in Pages, Logout(q, p)
  PROVE  Parts'
<1> DEFINE d == [pc |-> "logout", from |-> FromPage(p), token |-> disk[BrowserOf[p]].token]
<1>1. d \in Leaving
  BY Held DEF Leaving
<1>2. d \in Call /\ "user" \notin DOMAIN d /\ "mine" \notin DOMAIN d
  BY <1>1, CallParts
<1>3. call[q].pc = "idle" /\ row # NoUser
  BY CallParts, Held DEF Logout, Free
<1>4. Quietly(q, d)
  BY QuietOnly DEF Logout, server
<1>. QED
  BY <1>2, <1>3, <1>4, ByBare

LEMMA ChangeStep ==
  ASSUME Parts, NEW q \in Calls, NEW p \in Pages, Change(q, p)
  PROVE  Parts'
<1> DEFINE d == [pc |-> "check", op |-> "change", from |-> FromPage(p),
                 token |-> disk[BrowserOf[p]].token, mine |-> mem[p].store]
<1>1. mem[p].store \in Store /\ mem[p].store.key = row.key /\ row # NoUser
  BY Held DEF Change
<1>2. d \in Changing
  BY <1>1, Held DEF Changing, Asked
<1>3. d \in Call
  BY <1>2, CallParts
<1>4. Fits(d, row, raced, strayed, BrowserOf)
  BY <1>1 DEF Fits, Carries, Sets, Answers
<1>5. call[q].pc = "idle"
  BY CallParts DEF Change, Free
<1>6. Quietly(q, d)
  BY QuietOnly DEF Change, server
<1>. QED
  BY <1>3, <1>4, <1>5, <1>6, Quiet

LEMMA TerminateStep ==
  ASSUME Parts, NEW q \in Calls, NEW p \in Pages, Terminate(q, p)
  PROVE  Parts'
<1> DEFINE d == [pc |-> "check", op |-> "terminate", from |-> FromPage(p),
                 token |-> disk[BrowserOf[p]].token]
<1>1. d \in Ending
  BY Held DEF Ending, Asked
<1>2. d \in Call /\ "user" \notin DOMAIN d /\ "mine" \notin DOMAIN d
  BY <1>1, CallParts
<1>3. call[q].pc = "idle" /\ row # NoUser
  BY CallParts, Held DEF Terminate, Free
<1>4. Quietly(q, d)
  BY QuietOnly DEF Terminate, server
<1>. QED
  BY <1>2, <1>3, <1>4, ByBare

LEMMA LookUpStep ==
  ASSUME Parts, NEW q \in Calls, LookUp(q)
  PROVE  Parts'
<1> DEFINE d == [pc |-> "get", op |-> "lookUp"]
<1>1. d \in Looking
  BY DEF Looking
<1>2. d \in Call /\ "user" \notin DOMAIN d /\ "mine" \notin DOMAIN d
  BY <1>1, CallParts
<1>3. call[q].pc = "idle" /\ row # NoUser
  BY CallParts DEF LookUp
<1>4. Quietly(q, d)
  BY QuietOnly DEF LookUp, server
<1>. QED
  BY <1>2, <1>3, <1>4, ByBare

-----------------------------------------------------------------------------
(* The statements of the calls that write no row and no bundle.            *)

LEMMA RegisterFindStep ==
  ASSUME Parts, NEW q \in Calls, RegisterFind(q)
  PROVE  Parts'
<1> DEFINE d == [call[q] EXCEPT !.pc = "registerInsert"]
<1>1. call[q] \in Registering
  BY CallFits, CallShapes DEF RegisterFind, At
<1>2. d \in Registering /\ d.pc = "registerInsert"
  BY <1>1, GoneTo DEF Registering
<1>3. d \in Call /\ "user" \notin DOMAIN d /\ "mine" \notin DOMAIN d
  <2>1. d \in Call
    BY <1>2, CallParts
  <2>. QED
    BY <1>2, <2>1 DEF Registering
<1>4. call[q].pc \notin {"write", "changed"}
  BY DEF RegisterFind, At
<1>5. CASE row = NoUser
  <2>1. Quietly(q, d)
    BY <1>5, QuietOnly DEF RegisterFind, GoTo, server
  <2>. QED
    BY <1>2, <1>3, <1>4, <2>1, ByBare DEF BeforeRow
<1>6. CASE row # NoUser
  <2>1. Quietly(q, Idle)
    BY <1>6, QuietOnly DEF RegisterFind, server
  <2>. QED
    BY <1>4, <2>1, GoesIdle
<1>. QED
  BY <1>5, <1>6

(* A session more, within the bound.                                       *)
LEMMA BeginFits ==
  ASSUME Parts, NEW b \in Browsers, Len(session) < mix.tokens, Begin(b)
  PROVE  /\ SessionsFit'
         /\ Len(session) + 1 \in Tokens
<1>1. mix.tokens \in 1..MaxTokens /\ MaxTokens \in Nat
  BY AccountConstants DEF Parts, HistoryFits
<1>2. session \in Seq(Session) /\ [browser |-> b, state |-> "valid"] \in Session
  BY DEF Parts, SessionsFit, Session
<1>3. Len(session) \in Nat
  BY <1>2
<1>4. session' \in Seq(Session) /\ Len(session') = Len(session) + 1
  BY <1>2 DEF Begin
<1>. QED
  BY <1>1, <1>3, <1>4 DEF SessionsFit, Tokens

LEMMA SessionTokens ==
  ASSUME Parts, NEW t \in DOMAIN session
  PROVE  t \in Tokens
<1>1. DOMAIN session = 1..Len(session) /\ Len(session) \in Nat
  BY DEF Parts, SessionsFit
<1>. QED
  BY <1>1, AccountConstants DEF Parts, SessionsFit, Tokens

(* The page of a call, and its browser.                                    *)
LEMMA CallPage ==
  ASSUME Parts, NEW q \in Calls, "from" \in DOMAIN call[q]
  PROVE  /\ PageOf(q) \in Pages /\ Heard(q) \in BOOLEAN
         /\ BrowserOf[PageOf(q)] \in Browsers
<1>1. call[q].from \in From
  BY CallFits, CallFields
<1>2. PageOf(q) \in Pages /\ Heard(q) \in BOOLEAN
  BY <1>1 DEF From, PageOf, Heard
<1>. QED
  BY <1>2, Held

LEMMA RegisterSessionStep ==
  ASSUME Parts, NEW q \in Calls, RegisterSession(q)
  PROVE  Parts'
<1> DEFINE d == [call[q] EXCEPT !.pc = "loginFind"]
<1>1. call[q] \in Entering
  BY CallFits, CallShapes DEF RegisterSession, At
<1>2. d \in Entering /\ d.pc = "loginFind"
  BY <1>1, GoneTo DEF Entering
<1>3. d \in Call /\ "user" \notin DOMAIN d /\ "mine" \notin DOMAIN d
  <2>1. d \in Call
    BY <1>2, CallParts
  <2>. QED
    BY <1>2, <2>1 DEF Entering
<1>4. call[q].pc = "registerSession" /\ "from" \in DOMAIN call[q]
  BY <1>1 DEF RegisterSession, At, Entering
<1>5. SessionsFit'
  BY <1>4, CallPage, BeginFits DEF RegisterSession
<1>6. row # NoUser
  BY <1>4, CallFits DEF Fits, Carries, BeforeRow
<1>7. CASE Heard(q)
  <2>1. Quietly(q, d)
    BY <1>5, <1>7, QuietOnly DEF RegisterSession, GoTo
  <2>. QED
    BY <1>3, <1>4, <1>6, <2>1, ByBare
<1>8. CASE ~Heard(q)
  <2>1. Quietly(q, Idle)
    BY <1>5, <1>8, QuietOnly DEF RegisterSession
  <2>. QED
    BY <1>4, <2>1, GoesIdle
<1>. QED
  BY <1>7, <1>8

(* Nobody waits for a call any more: the rest of it is as it was.          *)
LEMMA UnheardCall ==
  ASSUME NEW c \in Call, NEW p
  PROVE  LET d == Unheard(c, p) IN
         /\ d \in Call /\ d.pc = c.pc /\ DOMAIN d = DOMAIN c
         /\ "user" \in DOMAIN c => d.user = c.user
         /\ "mine" \in DOMAIN c => d.mine = c.mine
         /\ "from" \in DOMAIN c => d.from.page = c.from.page
         /\ "from" \in DOMAIN c /\ c.from.page # p => d = c
<1> DEFINE d == Unheard(c, p)
<1>1. CASE ~("from" \in DOMAIN c /\ c.from.page = p)
  <2>1. d = c
    BY <1>1 DEF Unheard
  <2>. QED
    BY <2>1
<1>2. CASE "from" \in DOMAIN c /\ c.from.page = p
  <2> DEFINE f == [c.from EXCEPT !.heard = FALSE]
  <2>0. c.from \in From
    BY <1>2, CallFields
  <2>1. f \in From
    BY <2>0 DEF From
  <2>2. f.page = c.from.page
    BY <2>0 DEF From
  <2>3. d = [c EXCEPT !.from = f]
    BY <1>2 DEF Unheard
  <2> HIDE DEF f
  <2>4. DOMAIN d = DOMAIN c /\ d.from = f
    BY <1>2, <2>3
  <2>5. d.pc = c.pc
    BY <2>3
  <2>6. ("user" \in DOMAIN c => d.user = c.user) /\ ("mine" \in DOMAIN c => d.mine = c.mine)
    BY <2>3
  <2>7. d \in Call
    <3>1. CASE c \in Registering
      BY <2>1, <2>3, <3>1, CallParts DEF Registering
    <3>2. CASE c \in Entering
      BY <2>1, <2>3, <3>2, CallParts DEF Entering
    <3>3. CASE c \in Verified
      BY <2>1, <2>3, <3>3, CallParts DEF Verified
    <3>4. CASE c \in Entered
      BY <2>1, <2>3, <3>4, CallParts DEF Entered
    <3>5. CASE c \in Leaving
      BY <2>1, <2>3, <3>5, CallParts DEF Leaving
    <3>6. CASE c \in Changing
      BY <2>1, <2>3, <3>6, CallParts DEF Changing
    <3>7. CASE c \in ChangeFill
      BY <2>1, <2>3, <3>7, CallParts DEF ChangeFill
    <3>8. CASE c \in Writing
      BY <2>1, <2>3, <3>8, CallParts DEF Writing
    <3>9. CASE c \in Ending
      BY <2>1, <2>3, <3>9, CallParts DEF Ending
    <3>10. CASE c \in EndFill
      BY <2>1, <2>3, <3>10, CallParts DEF EndFill
    <3>11. CASE c \in {Idle} \cup Looking \cup LookFill
      BY <1>2, <3>11, CallParts DEF Looking, LookFill
    <3>. QED
      BY <3>1, <3>2, <3>3, <3>4, <3>5, <3>6, <3>7, <3>8, <3>9, <3>10, <3>11, CallParts
  <2>. QED
    BY <1>2, <2>2, <2>4, <2>5, <2>6, <2>7
<1>. QED
  BY <1>1, <1>2

(* A page goes: nobody waits for its calls any more, and its browser       *)
(* strays if a change was being answered to it.  The call in a slot of     *)
(* ended, no change, is over; the others go on.                            *)
LEMMA PageGoes ==
  ASSUME Parts, NEW p \in Pages, NEW ended \in SUBSET Calls,
         \A q \in ended : call[q].pc \notin {"write", "changed"},
         call' = [q \in Calls |-> IF q \in ended THEN Idle ELSE Unheard(call[q], p)],
         strayed' = strayed \cup Forgoing(p),
         UNCHANGED <<row, session, made, raced, mix>>,
         UNCHANGED cache \/ Recached,
         ClientFits', \A x \in Browsers : disk'[x] \in {NoStore, disk[x]}
  PROVE  Parts'
<1> DEFINE b == BrowserOf[p]
           d(q) == Unheard(call[q], p)
<1>1. b \in Browsers
  BY Held
<1>2. UNCHANGED BrowserOf
  BY DEF BrowserOf
<1>3. \A q \in Calls :
        /\ d(q) \in Call /\ d(q).pc = call[q].pc /\ DOMAIN d(q) = DOMAIN call[q]
        /\ "user" \in DOMAIN call[q] => d(q).user = call[q].user
        /\ "mine" \in DOMAIN call[q] => d(q).mine = call[q].mine
        /\ "from" \in DOMAIN call[q] => d(q).from.page = call[q].from.page
        /\ "from" \in DOMAIN call[q] /\ call[q].from.page # p => d(q) = call[q]
  BY CallFits, UnheardCall
<1>4. Idle \in Call /\ Idle.pc \notin {"fill", "write", "changed"}
  BY FitsIdle DEF Idle
<1>5. /\ call' \in [Calls -> Call]
      /\ \A q \in Calls : call'[q] = IF q \in ended THEN Idle ELSE d(q)
  BY <1>3, <1>4
<1>6. /\ strayed \subseteq strayed' /\ strayed' \subseteq strayed \cup {b}
      /\ \A q \in Calls : call[q].pc \in {"write", "changed"} /\ call[q].from = FromPage(p) => b \in strayed'
  BY DEF Forgoing
<1> HIDE DEF d
<1>7. ServerFits' /\ SessionsFit'
  BY DEF Parts, ServerFits, SessionsFit, Recached
<1>8. HistoryFits'
  BY <1>1, <1>6 DEF Parts, HistoryFits
<1>9. CallsFit'
  <2>1. SUFFICES ASSUME NEW q \in Calls \ ended
                 PROVE  Fits(d(q), row, raced, strayed', BrowserOf)
    <3>1. Fits(Idle, row, raced, strayed', BrowserOf)
      BY <1>6, FitsIdle, StillFits
    <3>2. ASSUME \A q \in Calls \ ended : Fits(d(q), row, raced, strayed', BrowserOf)
          PROVE  \A q \in Calls : Fits(call'[q], row, raced, strayed', BrowserOf)
      BY <1>5, <3>1, <3>2
    <3>. QED
      BY <1>2, <1>5, <3>2 DEF CallsFit
  <2>2. Carries(d(q), row)
    BY <1>3, CallFits DEF Fits, Carries
  <2>3. Sets(d(q), row, raced)
    <3>1. call[q].pc = "fill" => d(q).user = call[q].user
      BY <1>3, CallFits, CallFields
    <3>2. call[q].pc = "write" => d(q).mine = call[q].mine
      BY <1>3, CallFits, CallFields
    <3>. QED
      BY <1>3, <3>1, <3>2, CallFits DEF Fits, Sets
  <2>4. ASSUME call[q].pc \in {"write", "changed"}
        PROVE  BrowserOf[d(q).from.page] \in strayed' \/ (d(q).from.heard /\ d(q).mine.wrap = row.hash)
    <3>1. "from" \in DOMAIN call[q] /\ call[q].from \in From /\ d(q).from.page = call[q].from.page
      BY <1>3, <2>4, CallFits, CallFields
    <3>2. BrowserOf[call[q].from.page] \in strayed \/ (call[q].from.heard /\ call[q].mine.wrap = row.hash)
      BY <2>4, CallFits DEF Fits, Answers
    <3>3. CASE BrowserOf[call[q].from.page] \in strayed
      BY <1>6, <3>1, <3>3
    <3>4. CASE call[q].from.page # p
      BY <1>3, <1>6, <3>1, <3>2, <3>4
    <3>5. CASE call[q].from.page = p /\ call[q].from.heard
      <4>1. call[q].from = FromPage(p)
        BY <3>1, <3>5 DEF From, FromPage
      <4>. QED
        BY <1>6, <2>4, <3>1, <3>5, <4>1
    <3>. QED
      BY <3>2, <3>3, <3>4, <3>5
  <2>5. Answers(d(q), row, strayed', BrowserOf)
    BY <1>3, <2>4 DEF Answers
  <2>. QED
    BY <2>2, <2>3, <2>5 DEF Fits
<1>10. \A q \in Calls :
         /\ call[q].pc \in {"write", "changed"} <=> call'[q].pc \in {"write", "changed"}
         /\ call[q].pc \in {"write", "changed"} =>
              call'[q].pc = call[q].pc /\ call'[q].from.page = call[q].from.page
  <2>1. \A q \in ended : call'[q] = Idle
    BY <1>5
  <2>2. \A q \in Calls \ ended : call'[q] = d(q)
    BY <1>5
  <2>. QED
    BY <1>3, <1>4, <2>1, <2>2, CallFits, CallFields
<1>11. CacheFollowsRow'
  BY <1>10 DEF Parts, CacheFollowsRow, At, Recached
<1>12. StoresTheRow'
  <2>1. \A x \in Browsers : Answering(x)' <=> Answering(x)
    BY <1>2, <1>10 DEF Answering, PageOf
  <2>. QED
    BY <1>6, <2>1 DEF Parts, StoresTheRow
<1>. QED
  BY <1>7, <1>8, <1>9, <1>11, <1>12 DEF Parts

(* A call that ends in a 401.                                              *)
LEMMA UnauthorizedStep ==
  ASSUME Parts, NEW q \in Calls, Unauthorized(q), call[q].pc \notin {"write", "changed"},
         UNCHANGED <<row, session, made, raced, mix>>,
         UNCHANGED cache \/ Recached
  PROVE  Parts'
<1> DEFINE p == PageOf(q)
<1>1. CASE "from" \in DOMAIN call[q] /\ Heard(q)
  <2>1. p \in Pages
    BY <1>1, CallPage
  <2>2. /\ call' = [x \in Calls |-> IF x = q THEN Idle ELSE Unheard(call[x], p)]
        /\ Set(p, Out) /\ strayed' = strayed \cup Forgoing(p)
    BY <1>1 DEF Unauthorized
  <2>3. ClientFits' /\ \A b \in Browsers : disk'[b] \in {NoStore, disk[b]}
    BY <2>1, <2>2, OutFits
  <2>4. call' = [x \in Calls |-> IF x \in {q} THEN Idle ELSE Unheard(call[x], p)]
    BY <2>2
  <2> HIDE DEF p
  <2>. QED
    BY <2>1, <2>2, <2>3, <2>4, PageGoes
<1>2. CASE ~("from" \in DOMAIN call[q] /\ Heard(q))
  <2>1. Quietly(q, Idle)
    BY <1>2 DEF Unauthorized, Quietly, history, Parts, SessionsFit, ClientFits
  <2>. QED
    BY <2>1, GoesIdle
<1>. QED
  BY <1>1, <1>2

LEMMA LoginFindStep ==
  ASSUME Parts, NEW q \in Calls, LoginFind(q)
  PROVE  Parts'
<1> DEFINE d == [pc |-> "loginSession", from |-> call[q].from, user |-> row]
<1>1. call[q] \in Entering /\ call[q].pc = "loginFind"
  BY CallFits, CallShapes DEF LoginFind, At
<1>2. row # NoUser
  BY <1>1, CallFits DEF Fits, Carries, BeforeRow
<1>3. row \in User /\ Opens(row)
  BY <1>2 DEF Parts, ServerFits, IsUser
<1>4. d \in Verified
  BY <1>1, <1>3 DEF Verified, Entering
<1>5. d \in Call
  BY <1>4, CallParts
<1>6. Fits(d, row, raced, strayed, BrowserOf)
  BY <1>2, <1>3 DEF Fits, Carries, Sets, Answers
<1>7. CASE Become(q, d) /\ UNCHANGED <<mem, disk, strayed>>
  <2>1. Quietly(q, d)
    BY <1>7, QuietOnly DEF LoginFind, server, client, history
  <2>. QED
    BY <1>1, <1>5, <1>6, <2>1, Quiet
<1>8. CASE Unauthorized(q)
  BY <1>1, <1>8, UnauthorizedStep DEF LoginFind, server
<1>. QED
  BY <1>7, <1>8 DEF LoginFind

LEMMA LoginSessionStep ==
  ASSUME Parts, NEW q \in Calls, LoginSession(q)
  PROVE  Parts'
<1> DEFINE b == BrowserOf[PageOf(q)]
           d(t) == [pc |-> "loggedIn", from |-> call[q].from, user |-> call[q].user, token |-> t]
<1>1. call[q] \in Verified /\ call[q].pc = "loginSession"
  BY CallFits, CallShapes DEF LoginSession, At
<1>2. b \in Browsers /\ row # NoUser
  BY <1>1, CallPage, CallFits DEF Fits, Carries, BeforeRow, Verified
<1>3. \A t \in Tokens : d(t) \in Entered
  BY <1>1 DEF Verified, Entered
<1>4. call[q].user.key = row.key /\ Opens(call[q].user)
  BY <1>1, CallFits DEF Fits, Carries, Verified
<1>5. \A t \in Tokens : d(t) \in Call /\ Fits(d(t), row, raced, strayed, BrowserOf)
  BY <1>2, <1>3, <1>4, CallParts DEF Fits, Carries, Sets, Answers
<1>6. CASE \E t \in Device(b) : Become(q, d(t)) /\ UNCHANGED session
  <2>1. PICK t \in Device(b) : Become(q, d(t)) /\ UNCHANGED session
    BY <1>6
  <2>2. t \in Tokens
    BY SessionTokens DEF Device
  <2>3. Quietly(q, d(t))
    BY <2>1, QuietOnly DEF LoginSession
  <2>. QED
    BY <1>1, <1>5, <2>2, <2>3, Quiet
<1>7. CASE /\ Len(session) < mix.tokens
           /\ Begin(b) /\ Become(q, d(Len(session) + 1))
  <2>1. SessionsFit' /\ Len(session) + 1 \in Tokens
    BY <1>2, <1>7, BeginFits
  <2>2. Quietly(q, d(Len(session) + 1))
    BY <1>7, <2>1, QuietOnly DEF LoginSession
  <2>. QED
    BY <1>1, <1>5, <2>1, <2>2, Quiet
<1>. QED
  BY <1>6, <1>7 DEF LoginSession

(* Sessions are revoked.                                                   *)
LEMMA RevokedFits ==
  ASSUME Parts, NEW ts, Revoked(ts)
  PROVE  SessionsFit'
<1>1. session \in Seq(Session) /\ Len(session) <= MaxTokens
  BY DEF Parts, SessionsFit
<1>2. \A t \in DOMAIN session : session[t] \in Session
  BY <1>1
<1>3. \A s \in Session : [s EXCEPT !.state = "revoked"] \in Session
  BY DEF Session
<1>4. \A t \in DOMAIN session :
        (IF t \in ts THEN [session[t] EXCEPT !.state = "revoked"] ELSE session[t]) \in Session
  BY <1>2, <1>3
<1>5. DOMAIN session = 1..Len(session) /\ Len(session) \in Nat
  BY <1>1
<1>6. session' \in [1..Len(session) -> Session]
  BY <1>4, <1>5 DEF Revoked
<1>7. session' \in Seq(Session) /\ Len(session') = Len(session)
  BY <1>5, <1>6
<1>. QED
  BY <1>1, <1>7 DEF SessionsFit

LEMMA LogoutRevokeStep ==
  ASSUME Parts, NEW q \in Calls, LogoutRevoke(q)
  PROVE  Parts'
<1> DEFINE d == [pc |-> "loggedOut", from |-> call[q].from]
<1>1. call[q] \in Leaving /\ call[q].pc = "logout"
  BY CallFits, CallShapes DEF LogoutRevoke, At
<1>2. d \in Entering
  BY <1>1 DEF Leaving, Entering
<1>3. d \in Call /\ "user" \notin DOMAIN d /\ "mine" \notin DOMAIN d /\ row # NoUser
  BY <1>1, <1>2, CallParts, CallFits DEF Fits, Carries, BeforeRow
<1>4. SessionsFit'
  BY RevokedFits DEF LogoutRevoke
<1>5. Quietly(q, d)
  BY <1>4, QuietOnly DEF LogoutRevoke
<1>. QED
  BY <1>1, <1>3, <1>5, ByBare

LEMMA LoggedOutStep ==
  ASSUME Parts, NEW q \in Calls, LoggedOut(q)
  PROVE  Parts'
<1>1. call[q] \in Entering /\ call[q].pc = "loggedOut"
  BY CallFits, CallShapes DEF LoggedOut, At
<1>2. PageOf(q) \in Pages
  BY <1>1, CallPage DEF Entering
<1>3. UNCHANGED <<mem, disk>> \/ \E p \in Pages : Set(p, Out)
  BY <1>2 DEF LoggedOut
<1>4. Quietly(q, Idle)
  BY <1>3 DEF LoggedOut, Quietly, server, Parts, SessionsFit, ClientFits
<1>. QED
  BY <1>1, <1>4, GoesIdle

(* A call with a token goes to its next statement.                         *)
LEMMA AskedGoes ==
  ASSUME Parts, NEW q \in Calls, NEW pc \in {"get", "select"},
         call[q].pc = "check" \/ (call[q].pc = "get" /\ pc = "select")
  PROVE  LET d == [call[q] EXCEPT !.pc = pc] IN
         d \in Call /\ d.pc = pc /\ Fits(d, row, raced, strayed, BrowserOf)
<1> DEFINE d == [call[q] EXCEPT !.pc = pc]
<1>1. call[q] \in Changing \cup Ending \cup Looking
  BY CallFits, CallShapes
<1>2. row # NoUser
  BY CallFits DEF Fits, Carries, BeforeRow
<1>3. CASE call[q] \in Changing
  <2>0. pc \in Asked
    BY DEF Asked
  <2>1. d \in Changing /\ d.mine = call[q].mine
    BY <1>3, <2>0, GoneTo
  <2>2. d.pc = pc /\ "user" \notin DOMAIN d
    BY <1>3, <2>1 DEF Changing
  <2>3. "mine" \in DOMAIN call[q]
    BY <1>3 DEF Changing
  <2>4. d.mine.key = row.key
    BY <2>1, <2>3, CallFits DEF Fits, Carries
  <2>5. d \in Call
    BY <2>1, CallParts
  <2>. QED
    BY <1>2, <2>2, <2>4, <2>5 DEF Fits, Carries, Sets, Answers
<1>4. CASE call[q] \in Ending
  <2>1. d \in Ending
    BY <1>4, GoneTo DEF Asked
  <2>2. d.pc = pc
    BY <1>4 DEF Ending
  <2>3. "user" \notin DOMAIN d /\ "mine" \notin DOMAIN d
    BY <2>1 DEF Ending
  <2>4. d \in Call
    BY <2>1, CallParts
  <2>. QED
    BY <1>2, <2>2, <2>3, <2>4, FitsBare
<1>5. CASE call[q] \in Looking
  <2>1. pc = "select"
    BY <1>5 DEF Looking
  <2>2. d \in Looking
    BY <1>5, <2>1, GoneTo
  <2>3. d.pc = pc
    BY <1>5 DEF Looking
  <2>4. "user" \notin DOMAIN d /\ "mine" \notin DOMAIN d
    BY <2>2 DEF Looking
  <2>5. d \in Call
    BY <2>2, CallParts
  <2>. QED
    BY <1>2, <2>3, <2>4, <2>5, FitsBare
<1>. QED
  BY <1>1, <1>3, <1>4, <1>5

LEMMA CheckStep ==
  ASSUME Parts, NEW q \in Calls, Check(q)
  PROVE  Parts'
<1> DEFINE d == [call[q] EXCEPT !.pc = "get"]
<1>1. call[q].pc = "check"
  BY DEF Check, At
<1>2. d \in Call /\ d.pc = "get" /\ Fits(d, row, raced, strayed, BrowserOf)
  BY <1>1, AskedGoes
<1>3. CASE GoTo(q, "get") /\ UNCHANGED <<mem, disk, strayed>>
  <2>1. Quietly(q, d)
    BY <1>3, QuietOnly DEF Check, GoTo, server, client, history
  <2>. QED
    BY <1>1, <1>2, <2>1, Quiet
<1>4. CASE Unauthorized(q)
  BY <1>1, <1>4, UnauthorizedStep DEF Check, server
<1>. QED
  BY <1>3, <1>4 DEF Check

(* findById has answered: the call goes on, is refused or is done.         *)
LEMMA Answered ==
  ASSUME Parts, NEW q \in Calls, NEW user, Found(q, user), call[q].pc \in {"get", "fill"}
  PROVE  \/ Unauthorized(q)
         \/ \E d \in Call : /\ Become(q, d)
                            /\ Fits(d, row, raced, strayed, BrowserOf)
                            /\ d.pc \notin {"write", "changed"}
                            /\ UNCHANGED <<mem, disk, strayed>>
<1>1. call[q] \in Changing \cup ChangeFill \cup Ending \cup EndFill \cup Looking \cup LookFill
  BY CallFits, CallShapes
<1>2. row # NoUser
  BY CallFits DEF Fits, Carries, BeforeRow
<1>3. CASE Become(q, Idle) /\ UNCHANGED <<mem, disk, strayed>>
  BY <1>3, FitsIdle
<1>4. CASE call[q] \in Ending \cup EndFill /\ ~Unauthorized(q)
  <2> DEFINE d == [pc |-> "revoke", op |-> call[q].op, from |-> call[q].from, token |-> call[q].token]
  <2>1. call[q].op = "terminate" /\ d \in Ending
    BY <1>4 DEF Ending, EndFill, Asked
  <2>2. d \in Call /\ "user" \notin DOMAIN d /\ "mine" \notin DOMAIN d
    BY <2>1, CallParts
  <2>3. Become(q, d) /\ UNCHANGED <<mem, disk, strayed>>
    BY <1>4, <2>1 DEF Found
  <2>. QED
    BY <1>2, <2>2, <2>3, FitsBare
<1>5. CASE call[q] \in Changing \cup ChangeFill /\ ~Unauthorized(q)
  <2> DEFINE mine(w) == InStore(Wrapped(call[q].mine.key, w), call[q].mine.token)
             d(w) == [pc |-> "revoke", op |-> call[q].op, from |-> call[q].from,
                      token |-> call[q].token, mine |-> mine(w)]
  <2>1. /\ call[q].op = "change" /\ call[q].from \in From /\ call[q].token \in MaybeToken
        /\ "mine" \in DOMAIN call[q] /\ call[q].mine \in Store
    BY <1>5 DEF Changing, ChangeFill
  <2>2. \A w \in Passwords : mine(w) \in Store /\ mine(w).key = call[q].mine.key
    BY <2>1 DEF Store, InStore, Wrapped
  <2>3. \A w \in Passwords : d(w) \in Changing
    BY <2>1, <2>2 DEF Changing, Asked
  <2>4. call[q].mine.key = row.key
    BY <2>1, CallFits DEF Fits, Carries
  <2>5. \A w \in Passwords : d(w) \in Call /\ Fits(d(w), row, raced, strayed, BrowserOf)
    BY <1>2, <2>2, <2>3, <2>4, CallParts DEF Fits, Carries, Sets, Answers
  <2>6. (\E w \in Passwords : Become(q, d(w))) /\ UNCHANGED <<mem, disk, strayed>>
    BY <1>5, <2>1 DEF Found
  <2>7. PICK w \in Passwords : Become(q, d(w))
    BY <2>6
  <2>. QED
    BY <2>5, <2>6, <2>7
<1>6. CASE call[q] \in Looking \cup LookFill
  <2>1. call[q].op = "lookUp"
    BY <1>6 DEF Looking, LookFill
  <2>. QED
    BY <1>3, <2>1 DEF Found
<1>. QED
  BY <1>1, <1>4, <1>5, <1>6

LEMMA FindGetStep ==
  ASSUME Parts, NEW q \in Calls, FindGet(q)
  PROVE  Parts'
<1>1. call[q].pc = "get"
  BY DEF FindGet, At
<1>2. CASE cache # NoUser
  <2>1. Found(q, cache)
    BY <1>2 DEF FindGet
  <2>2. CASE Unauthorized(q)
    BY <1>1, <2>2, UnauthorizedStep DEF FindGet, server
  <2>3. CASE ~Unauthorized(q)
    <3>1. PICK d \in Call : /\ Become(q, d)
                            /\ Fits(d, row, raced, strayed, BrowserOf)
                            /\ d.pc \notin {"write", "changed"}
                            /\ UNCHANGED <<mem, disk, strayed>>
      BY <1>1, <2>1, <2>3, Answered
    <3>2. Quietly(q, d)
      BY <3>1, QuietOnly DEF FindGet, server, client, history
    <3>. QED
      BY <1>1, <3>1, <3>2, Quiet
  <2>. QED
    BY <2>2, <2>3
<1>3. CASE cache = NoUser
  <2> DEFINE d == [call[q] EXCEPT !.pc = "select"]
  <2>1. d \in Call /\ d.pc = "select" /\ Fits(d, row, raced, strayed, BrowserOf)
    BY <1>1, AskedGoes
  <2>2. Quietly(q, d)
    BY <1>3, QuietOnly DEF FindGet, GoTo, server, client, history
  <2>. QED
    BY <1>1, <2>1, <2>2, Quiet
<1>. QED
  BY <1>2, <1>3

(* The row that SELECT read, in the call.                                  *)
LEMMA FillingFits ==
  ASSUME Parts, NEW q \in Calls, call[q].pc = "select"
  PROVE  LET d == Filling(call[q], row) IN
         d \in Call /\ d.pc = "fill" /\ Fits(d, row, raced, strayed, BrowserOf)
<1> DEFINE c == call[q]
           d == Filling(c, row)
<1>1. c \in Changing \cup Ending \cup Looking
  BY CallFits, CallShapes
<1>2. row # NoUser
  BY CallFits DEF Fits, Carries, BeforeRow
<1>3. row \in User /\ Opens(row)
  BY <1>2 DEF Parts, ServerFits, IsUser
<1>4. CASE c \in Changing
  <2>1. c.op = "change" /\ "mine" \in DOMAIN c
    BY <1>4 DEF Changing
  <2>2. d = [pc |-> "fill", op |-> c.op, from |-> c.from, token |-> c.token, mine |-> c.mine, user |-> row]
    BY <2>1 DEF Filling
  <2>3. d \in ChangeFill
    BY <1>3, <1>4, <2>2 DEF Changing, ChangeFill
  <2>4. c.mine.key = row.key
    BY <2>1, CallFits DEF Fits, Carries
  <2>5. d \in Call
    BY <2>3, CallParts
  <2>6. d.pc = "fill" /\ d.user = row /\ d.mine = c.mine
    BY <2>2
  <2>. QED
    BY <1>2, <1>3, <2>4, <2>5, <2>6 DEF Fits, Carries, Sets, Answers
<1>5. CASE c \in Ending
  <2>1. c.op = "terminate"
    BY <1>5 DEF Ending
  <2>2. d = [pc |-> "fill", op |-> c.op, from |-> c.from, token |-> c.token, user |-> row]
    BY <2>1 DEF Filling
  <2>3. d \in EndFill
    BY <1>3, <1>5, <2>2 DEF Ending, EndFill
  <2>4. d \in Call
    BY <2>3, CallParts
  <2>5. d.pc = "fill" /\ d.user = row /\ "mine" \notin DOMAIN d
    BY <2>2
  <2>. QED
    BY <1>2, <1>3, <2>4, <2>5 DEF Fits, Carries, Sets, Answers
<1>6. CASE c \in Looking
  <2>1. c.op = "lookUp"
    BY <1>6 DEF Looking
  <2>2. d = [pc |-> "fill", op |-> c.op, user |-> row]
    BY <2>1 DEF Filling
  <2>3. d \in LookFill
    BY <1>3, <2>1, <2>2 DEF LookFill
  <2>4. d \in Call
    BY <2>3, CallParts
  <2>5. d.pc = "fill" /\ d.user = row /\ "mine" \notin DOMAIN d
    BY <2>2
  <2>. QED
    BY <1>2, <1>3, <2>4, <2>5 DEF Fits, Carries, Sets, Answers
<1>. QED
  BY <1>1, <1>4, <1>5, <1>6

LEMMA FindSelectStep ==
  ASSUME Parts, NEW q \in Calls, FindSelect(q)
  PROVE  Parts'
<1> DEFINE d == Filling(call[q], row)
<1>1. call[q].pc = "select"
  BY DEF FindSelect, At
<1>2. d \in Call /\ d.pc = "fill" /\ Fits(d, row, raced, strayed, BrowserOf)
  BY <1>1, FillingFits
<1>3. Quietly(q, d)
  BY QuietOnly DEF FindSelect, server
<1>. QED
  BY <1>1, <1>2, <1>3, Quiet

LEMMA FindSetStep ==
  ASSUME Parts, NEW q \in Calls, FindSet(q)
  PROVE  Parts'
<1>1. call[q].pc = "fill" /\ "user" \in DOMAIN call[q] /\ call[q].user \in User
  BY CallFits, CallFields DEF FindSet, At
<1>2. Opens(call[q].user) /\ call[q].user.key = row.key /\ (raced \/ call[q].user = row)
  BY <1>1, CallFits DEF Fits, Carries, Sets
<1>3. Recached
  BY <1>1, <1>2 DEF FindSet, Recached, IsUser
<1>4. CASE Unauthorized(q)
  BY <1>1, <1>3, <1>4, UnauthorizedStep DEF FindSet
<1>5. CASE ~Unauthorized(q)
  <2>1. PICK d \in Call : /\ Become(q, d)
                          /\ Fits(d, row, raced, strayed, BrowserOf)
                          /\ d.pc \notin {"write", "changed"}
                          /\ UNCHANGED <<mem, disk, strayed>>
    BY <1>1, <1>5, Answered DEF FindSet
  <2>2. Quietly(q, d)
    BY <1>3, <2>1 DEF FindSet, Quietly, history, Parts, SessionsFit, ClientFits
  <2>. QED
    BY <1>1, <2>1, <2>2, Quiet
<1>. QED
  BY <1>4, <1>5

LEMMA RevokeOthersStep ==
  ASSUME Parts, NEW q \in Calls, RevokeOthers(q)
  PROVE  Parts'
<1>1. call[q].pc = "revoke" /\ call[q] \in Changing \cup Ending
  BY CallFits, CallShapes DEF RevokeOthers, At
<1>2. SessionsFit' \/ UNCHANGED session
  BY <1>1, RevokedFits DEF RevokeOthers, Changing, Ending
<1>3. CASE Become(q, Idle)
  <2>1. Quietly(q, Idle)
    BY <1>2, <1>3, QuietOnly DEF RevokeOthers
  <2>. QED
    BY <1>1, <2>1, GoesIdle
<1>4. CASE call[q] \in Changing /\ ~Become(q, Idle)
  <2> DEFINE d == [pc |-> "update", from |-> call[q].from, mine |-> call[q].mine]
  <2>1. call[q].op = "change" /\ "mine" \in DOMAIN call[q]
    BY <1>4 DEF Changing
  <2>2. d \in Writing
    BY <1>4 DEF Changing, Writing
  <2>3. call[q].mine.key = row.key /\ row # NoUser
    BY <1>1, <2>1, CallFits DEF Fits, Carries, BeforeRow
  <2>4. d \in Call /\ Fits(d, row, raced, strayed, BrowserOf)
    BY <2>2, <2>3, CallParts DEF Fits, Carries, Sets, Answers
  <2>5. Become(q, d)
    BY <1>4, <2>1 DEF RevokeOthers
  <2>6. Quietly(q, d)
    BY <1>2, <2>5, QuietOnly DEF RevokeOthers
  <2>. QED
    BY <1>1, <2>4, <2>6, Quiet
<1>5. CASE call[q] \in Ending /\ ~Become(q, Idle)
  BY <1>5 DEF RevokeOthers, Ending
<1>. QED
  BY <1>1, <1>3, <1>4, <1>5

-----------------------------------------------------------------------------
(* The steps that write a row, an entry or a bundle, and those of time.    *)

LEMMA BeforeRowBare ==
  ASSUME NEW c \in Call, c.pc \in BeforeRow
  PROVE  /\ "user" \notin DOMAIN c /\ "mine" \notin DOMAIN c
         /\ \A r, ra, st, bo : Fits(c, r, ra, st, bo)
<1>1. "user" \notin DOMAIN c /\ "mine" \notin DOMAIN c
  BY CallFields DEF BeforeRow, Asked
<1>. QED
  BY <1>1 DEF BeforeRow, Fits, Carries, Sets, Answers

(* A row that is made of a bundle and the password that wraps it.          *)
LEMMA InRowFits ==
  ASSUME NEW k \in Keys, NEW w \in Passwords
  PROVE  LET u == InRow(Wrapped(k, w), w) IN
         u \in User /\ Opens(u) /\ u.key = k /\ u # NoUser
<1> DEFINE u == InRow(Wrapped(k, w), w)
<1>1. u = [key |-> k, hash |-> w, wrap |-> w]
  BY DEF InRow, Wrapped
<1>2. u \in User
  BY <1>1 DEF User
<1>. QED
  BY <1>1, <1>2, Accounts DEF Opens

LEMMA PatchedFits ==
  ASSUME NEW m \in Store
  PROVE  /\ Patched(m) \in User /\ Opens(Patched(m)) /\ Patched(m) # NoUser
         /\ Patched(m).key = m.key /\ Patched(m).hash = m.wrap
<1>1. Patched(m) = [key |-> m.key, hash |-> m.wrap, wrap |-> m.wrap]
  BY DEF Patched, InRow
<1>2. Patched(m) \in User
  BY <1>1, Accounts DEF User
<1>. QED
  BY <1>1, <1>2, Accounts DEF Opens

LEMMA NoRowNothing ==
  ASSUME Parts, row = NoUser
  PROVE  /\ cache = NoUser
         /\ \A b \in Browsers : disk[b] = NoStore
         /\ \A p \in Pages : mem[p].store = NoStore /\ mem[p].priv = NoKey
         /\ \A q \in Calls : call[q].pc \in BeforeRow
<1>1. cache = NoUser
  BY Accounts DEF Parts, ServerFits, IsUser
<1>2. \A b \in Browsers : disk[b] = NoStore
  BY Accounts DEF Parts, ClientFits
<1>3. \A p \in Pages : mem[p].store = NoStore /\ mem[p].priv = NoKey
  BY Accounts DEF Parts, ClientFits, Page
<1>4. \A q \in Calls : call[q].pc \in BeforeRow
  BY CallFits DEF Fits, Carries
<1>. QED
  BY <1>1, <1>2, <1>3, <1>4

LEMMA RegisterInsertStep ==
  ASSUME Parts, NEW q \in Calls, RegisterInsert(q)
  PROVE  Parts'
<1>1. call[q] \in Registering /\ call[q].pc = "registerInsert"
  BY CallFits, CallShapes DEF RegisterInsert, At
<1>2. CASE ~EmailFree
  <2>1. Quietly(q, Idle)
    BY <1>2, QuietOnly DEF RegisterInsert
  <2>. QED
    BY <1>1, <2>1, GoesIdle
<1>3. CASE EmailFree
  <2> DEFINE d == [pc |-> "registerSession", from |-> call[q].from]
  <2>1. PICK w \in Passwords : row' = InRow(Wrapped(call[q].key, w), w)
    BY <1>3 DEF RegisterInsert
  <2>2. row' \in User /\ Opens(row') /\ row' # NoUser
    BY <1>1, <2>1, InRowFits DEF Registering
  <2>3. Become(q, d)
    BY <1>3 DEF RegisterInsert
  <2>4. d \in Entering
    BY <1>1 DEF Registering, Entering
  <2>5. d \in Call /\ "user" \notin DOMAIN d /\ "mine" \notin DOMAIN d
    BY <2>4, CallParts
  <2>6. UNCHANGED <<cache, session, made, disk, mem, raced, strayed, mix, BrowserOf>>
    BY DEF RegisterInsert, client, history, BrowserOf
  <2>7. row = NoUser
    BY <1>3 DEF EmailFree
  <2>8. ServerFits'
    BY <2>2, <2>6, <2>7, NoRowNothing, Accounts DEF ServerFits, IsUser
  <2>9. SessionsFit' /\ HistoryFits'
    BY <2>6 DEF Parts, SessionsFit, HistoryFits
  <2>10. ClientFits'
    BY <2>6, <2>7, NoRowNothing DEF Parts, ClientFits
  <2>11. CallsFit'
    <3>1. \A x \in Calls : call[x] \in Call /\ call[x].pc \in BeforeRow
      BY <2>7, NoRowNothing, CallFits
    <3>2. \A x \in Calls : Fits(call[x], row', raced', strayed', BrowserOf')
      BY <3>1, BeforeRowBare
    <3>3. Fits(d, row', raced', strayed', BrowserOf')
      BY <2>2, <2>5 DEF Fits, Carries, Sets, Answers
    <3>. QED
      BY <2>3, <2>5, <3>2, <3>3, Became DEF CallsFit
  <2>12. CacheFollowsRow' /\ StoresTheRow'
    BY <2>6, <2>7, NoRowNothing DEF CacheFollowsRow, StoresTheRow
  <2>. QED
    BY <2>8, <2>9, <2>10, <2>11, <2>12 DEF Parts
<1>. QED
  BY <1>2, <1>3

(* A bundle of the account's key pair is stored.                           *)
LEMMA SetStore ==
  ASSUME Parts, NEW p \in Pages, NEW s \in Store, s.key = row.key,
         Set(p, [store |-> s, priv |-> s.key]),
         UNCHANGED <<row, made>>
  PROVE  /\ ClientFits'
         /\ disk'[BrowserOf[p]] = s
         /\ \A b \in Browsers \ {BrowserOf[p]} : disk'[b] = disk[b]
<1>1. BrowserOf[p] \in Browsers
  BY Held
<1>2. [store |-> s, priv |-> s.key] \in Page
  BY Accounts DEF Page
<1>3. /\ disk' \in [Browsers -> {NoStore} \cup Store]
      /\ disk'[BrowserOf[p]] = s
      /\ \A b \in Browsers \ {BrowserOf[p]} : disk'[b] = disk[b]
  BY <1>1 DEF Parts, ClientFits, Set
<1>4. /\ mem' \in [Pages -> Page]
      /\ mem'[p] = [store |-> s, priv |-> s.key]
      /\ \A x \in Pages \ {p} : mem'[x] = mem[x]
  BY <1>2 DEF Parts, ClientFits, Set
<1>5. \A b \in Browsers : disk'[b] # NoStore => disk'[b].key = row'.key
  BY <1>3 DEF Parts, ClientFits
<1>6. \A x \in Pages : mem'[x].store # NoStore => mem'[x].store.key = row'.key
  BY <1>4 DEF Parts, ClientFits
<1>7. \A x \in Pages : mem'[x].priv \in {NoKey, row'.key}
  BY <1>4 DEF Parts, ClientFits
<1>. QED
  BY <1>3, <1>4, <1>5, <1>6, <1>7 DEF Parts, ClientFits

LEMMA LoggedInStep ==
  ASSUME Parts, NEW q \in Calls, LoggedIn(q)
  PROVE  Parts'
<1> DEFINE c == call[q]
           p == PageOf(q)
           b == BrowserOf[p]
           s == InStore(c.user, c.token)
<1>1. c \in Entered /\ c.pc = "loggedIn"
  BY CallFits, CallShapes DEF LoggedIn, At
<1>2. p \in Pages /\ b \in Browsers
  BY <1>1, CallPage DEF Entered
<1>3. c.user.key = row.key /\ Opens(c.user) /\ row # NoUser
  BY <1>1, CallFits DEF Fits, Carries, Entered, BeforeRow
<1>4. s = [token |-> c.token, key |-> c.user.key, wrap |-> c.user.wrap] /\ s \in Store
  BY <1>1, Accounts DEF Entered, InStore, Store
<1>5. Become(q, Idle) /\ UNCHANGED <<row, cache, session, made, raced, mix, BrowserOf>>
  BY DEF LoggedIn, server, BrowserOf
<1>6. CASE ~(Heard(q) /\ Unwraps(c.user, c.user.hash))
  <2>1. Quietly(q, Idle)
    BY <1>5, <1>6, QuietOnly DEF LoggedIn, history, client
  <2>. QED
    BY <1>1, <2>1, GoesIdle
<1>7. CASE Heard(q) /\ Unwraps(c.user, c.user.hash)
  <2>1. Set(p, [store |-> s, priv |-> s.key])
    BY <1>4, <1>7 DEF LoggedIn
  <2>2. /\ ClientFits'
        /\ disk'[b] = s
        /\ \A x \in Browsers \ {b} : disk'[x] = disk[x]
    BY <1>2, <1>3, <1>4, <1>5, <2>1, SetStore
  <2>3. strayed' = CASE c.user # row -> strayed \cup {b}
                     [] c.user = row /\ Answering(b) -> strayed
                     [] OTHER -> strayed \ {b}
    BY <1>7 DEF LoggedIn
  <2>4. \/ strayed' = strayed \cup {b}
        \/ c.user = row /\ strayed' = strayed
        \/ c.user = row /\ ~Answering(b) /\ strayed' = strayed \ {b}
    BY <2>3
  <2>5. ServerFits' /\ SessionsFit'
    BY <1>5 DEF Parts, ServerFits, SessionsFit
  <2>6. HistoryFits'
    BY <1>2, <1>5, <2>4 DEF Parts, HistoryFits
  <2>7. \A x \in Calls : Fits(call[x], row, raced, strayed', BrowserOf)
    <3>1. CASE strayed \subseteq strayed'
      BY <3>1, CallFits, StillFits
    <3>2. CASE ~Answering(b) /\ strayed' = strayed \ {b}
      <4>1. \A x \in Calls : call[x].pc \in {"write", "changed"} => BrowserOf[call[x].from.page] # b
        BY <3>2 DEF Answering, PageOf
      <4>. QED
        BY <3>2, <4>1, CallFits DEF Fits, Answers
    <3>. QED
      BY <2>4, <3>1, <3>2
  <2>8. CallsFit'
    <3>1. Fits(Idle, row, raced, strayed', BrowserOf)
      BY CallParts, BeforeRowBare DEF BeforeRow
    <3>. QED
      BY <1>5, <2>7, <3>1, Became, CallParts DEF CallsFit
  <2>9. CacheFollowsRow'
    BY <1>1, <1>5, Became, CallParts DEF Parts, CacheFollowsRow, At
  <2>10. StoresTheRow'
    <3>1. \A x \in Browsers : Answering(x)' <=> Answering(x)
      BY <1>1, <1>5, Became, CallParts DEF Answering, PageOf
    <3>2. c.user = row => s.wrap = row.hash
      BY <1>3, <1>4 DEF Opens
    <3>3. \A x \in Browsers \ strayed' : x = b => c.user = row
      BY <2>4
    <3>4. \A x \in Browsers \ strayed' : x # b => x \notin strayed
      BY <2>4
    <3>. QED
      BY <1>5, <2>2, <3>1, <3>2, <3>3, <3>4 DEF Parts, StoresTheRow
  <2>. QED
    BY <2>2, <2>5, <2>6, <2>8, <2>9, <2>10 DEF Parts
<1>. QED
  BY <1>6, <1>7

LEMMA UpdateRowStep ==
  ASSUME Parts, NEW q \in Calls, UpdateRow(q)
  PROVE  Parts'
<1> DEFINE c == call[q]
           b == BrowserOf[PageOf(q)]
           d == [c EXCEPT !.pc = "write"]
<1>1. c \in Writing /\ c.pc = "update" /\ c.mine \in Store /\ "mine" \in DOMAIN c
  BY CallFits, CallShapes DEF UpdateRow, At, Writing
<1>2. b \in Browsers
  BY <1>1, CallPage DEF Writing
<1>3. c.mine.key = row.key
  BY <1>1, CallFits DEF Fits, Carries
<1>4. /\ row' = Patched(c.mine)
      /\ row' \in User /\ Opens(row') /\ row' # NoUser
      /\ row'.key = row.key /\ row'.hash = c.mine.wrap
  BY <1>1, <1>3, PatchedFits DEF UpdateRow
<1>5. d \in Writing /\ d.pc = "write" /\ d.mine = c.mine /\ d.from = c.from
  BY <1>1, GoneTo
<1>6. d \in Call /\ "user" \notin DOMAIN d
  <2>1. d \in Call
    BY <1>5, CallParts
  <2>. QED
    BY <1>5, <2>1 DEF Writing
<1>7. Become(q, d) /\ UNCHANGED <<cache, session, made, disk, mem, mix, BrowserOf>>
  BY DEF UpdateRow, GoTo, client, BrowserOf
<1>8. raced' = (raced \/ \E x \in Calls \ {q} : Setting(x)) /\ strayed' = strayed \cup Behind(q)
  BY DEF UpdateRow
<1>9. /\ call' \in [Calls -> Call] /\ call'[q] = d
      /\ \A x \in Calls \ {q} : call'[x] = call[x]
  BY <1>6, <1>7, Became
<1>10. \A x \in Calls \ {q} : call[x].pc \in {"write", "changed"} =>
         BrowserOf[call[x].from.page] \in Behind(q)
  BY DEF Behind, PageOf
<1>11. Behind(q) \subseteq Browsers
  <2>1. \A x \in Calls : call[x].pc \in {"loginSession", "loggedIn", "write", "changed"}
          => BrowserOf[PageOf(x)] \in Browsers
    BY CallFits, CallFields, CallPage
  <2>. QED
    BY <1>2, <2>1 DEF Behind
<1>12. ServerFits' /\ SessionsFit'
  BY <1>4, <1>7 DEF Parts, ServerFits, SessionsFit, IsUser
<1>13. ClientFits'
  BY <1>4, <1>7 DEF Parts, ClientFits
<1>14. HistoryFits'
  BY <1>7, <1>8, <1>11 DEF Parts, HistoryFits
<1>15. CallsFit'
  <2>1. \A x \in Calls \ {q} : Carries(call[x], row')
    BY <1>4, CallFits DEF Fits, Carries
  <2>2. \A x \in Calls \ {q} : Sets(call[x], row', raced')
    BY <1>8 DEF Sets, Setting, At
  <2>3. \A x \in Calls \ {q} : Answers(call[x], row', strayed', BrowserOf)
    BY <1>8, <1>10 DEF Answers
  <2>4. Carries(d, row') /\ Sets(d, row', raced')
    BY <1>3, <1>4, <1>5, <1>6 DEF Carries, Sets
  <2>5. Answers(d, row', strayed', BrowserOf)
    <3>1. Heard(q) \/ b \in Behind(q)
      BY DEF Behind
    <3>. QED
      BY <1>4, <1>5, <1>8, <3>1 DEF Answers, Heard, PageOf
  <2>. QED
    BY <1>7, <1>9, <2>1, <2>2, <2>3, <2>4, <2>5 DEF CallsFit, Fits
<1>16. At(q, "write")'
  BY <1>5, <1>9 DEF At
<1>17. CacheFollowsRow'
  BY <1>16 DEF CacheFollowsRow
<1>18. StoresTheRow'
  <2>1. \A x \in Browsers : x # b /\ disk[x] # NoStore => x \in Behind(q)
    BY DEF Behind
  <2>2. \A x \in Browsers : x = b => Answering(x)'
    BY <1>5, <1>7, <1>9 DEF Answering, PageOf
  <2>. QED
    BY <1>7, <1>8, <2>1, <2>2 DEF StoresTheRow
<1>. QED
  BY <1>12, <1>13, <1>14, <1>15, <1>17, <1>18 DEF Parts

LEMMA UpdateCacheStep ==
  ASSUME Parts, NEW q \in Calls, UpdateCache(q)
  PROVE  Parts'
<1> DEFINE c == call[q]
           d == [c EXCEPT !.pc = "changed"]
<1>1. c \in Writing /\ c.pc = "write" /\ c.mine \in Store /\ "mine" \in DOMAIN c
  BY CallFits, CallShapes DEF UpdateCache, At, Writing
<1>2. c.mine.key = row.key /\ row # NoUser /\ (raced \/ Patched(c.mine) = row)
  BY <1>1, CallFits DEF Fits, Carries, Sets, BeforeRow
<1>3. cache' = Patched(c.mine)
  BY DEF UpdateCache, WriteThrough
<1>4. cache' \in User /\ Opens(cache') /\ cache'.key = row.key
  BY <1>1, <1>2, <1>3, PatchedFits
<1>5. d \in Writing /\ d.pc = "changed" /\ d.mine = c.mine /\ d.from = c.from
  BY <1>1, GoneTo
<1>6. d \in Call /\ "user" \notin DOMAIN d
  <2>1. d \in Call
    BY <1>5, CallParts
  <2>. QED
    BY <1>5, <2>1 DEF Writing
<1>7. Become(q, d) /\ UNCHANGED <<row, session, made, disk, mem, raced, strayed, mix, BrowserOf>>
  BY DEF UpdateCache, GoTo, client, history, BrowserOf
<1>8. /\ call' \in [Calls -> Call] /\ call'[q] = d
      /\ \A x \in Calls \ {q} : call'[x] = call[x]
  BY <1>6, <1>7, Became
<1>9. ServerFits' /\ SessionsFit' /\ ClientFits' /\ HistoryFits'
  BY <1>4, <1>7 DEF Parts, ServerFits, SessionsFit, ClientFits, HistoryFits, IsUser
<1>10. CallsFit'
  <2>1. Answers(d, row, strayed, BrowserOf)
    BY <1>1, <1>5, CallFits DEF Fits, Answers
  <2>2. Carries(d, row) /\ Sets(d, row, raced)
    BY <1>2, <1>5, <1>6 DEF Carries, Sets
  <2>. QED
    BY <1>7, <1>8, <2>1, <2>2, CallFits DEF CallsFit, Fits
<1>11. CacheFollowsRow'
  BY <1>2, <1>3, <1>7 DEF CacheFollowsRow
<1>12. StoresTheRow'
  <2>1. \A y \in Calls : /\ call'[y].pc \in {"write", "changed"} <=> call[y].pc \in {"write", "changed"}
                         /\ call[y].pc \in {"write", "changed"} => call'[y].from = call[y].from
    BY <1>1, <1>5, <1>8
  <2>2. \A x \in Browsers : Answering(x)' <=> Answering(x)
    BY <1>7, <2>1 DEF Answering, PageOf
  <2>. QED
    BY <1>7, <2>2 DEF Parts, StoresTheRow
<1>. QED
  BY <1>9, <1>10, <1>11, <1>12 DEF Parts

LEMMA ChangedStep ==
  ASSUME Parts, NEW q \in Calls, Changed(q)
  PROVE  Parts'
<1> DEFINE c == call[q]
           p == PageOf(q)
           b == BrowserOf[p]
<1>1. c \in Writing /\ c.pc = "changed" /\ c.mine \in Store /\ "mine" \in DOMAIN c
  BY CallFits, CallShapes DEF Changed, At, Writing
<1>2. p \in Pages /\ b \in Browsers
  BY <1>1, CallPage DEF Writing
<1>3. c.mine.key = row.key /\ row # NoUser
  BY <1>1, CallFits DEF Fits, Carries, BeforeRow
<1>4. b \in strayed \/ (Heard(q) /\ c.mine.wrap = row.hash)
  BY <1>1, CallFits DEF Fits, Answers, PageOf, Heard
<1>5. Become(q, Idle) /\ UNCHANGED <<row, cache, session, made, raced, strayed, mix, BrowserOf>>
  BY DEF Changed, server, history, BrowserOf
<1>6. /\ call' \in [Calls -> Call] /\ call'[q] = Idle
      /\ \A x \in Calls \ {q} : call'[x] = call[x]
  BY <1>5, Became, CallParts
<1>7. /\ ClientFits'
      /\ \A x \in Browsers \ {b} : disk'[x] = disk[x]
      /\ Heard(q) => disk'[b] = c.mine
  <2>1. CASE Heard(q)
    <3>1. Set(p, [store |-> c.mine, priv |-> c.mine.key])
      BY <2>1 DEF Changed, NewStore
    <3>. QED
      BY <1>1, <1>2, <1>3, <1>5, <3>1, SetStore
  <2>2. CASE ~Heard(q)
    BY <1>5, <2>2 DEF Changed, Parts, ClientFits
  <2>. QED
    BY <2>1, <2>2
<1>8. ServerFits' /\ SessionsFit' /\ HistoryFits'
  BY <1>5 DEF Parts, ServerFits, SessionsFit, HistoryFits
<1>9. CallsFit'
  BY <1>5, <1>6, FitsIdle, CallFits DEF CallsFit
<1>10. CacheFollowsRow'
  BY <1>1, <1>5, <1>6 DEF Parts, CacheFollowsRow, At
<1>11. StoresTheRow'
  <2>1. \A x \in Browsers \ {b} : Answering(x) => Answering(x)'
    BY <1>5, <1>6 DEF Answering, PageOf
  <2>. QED
    BY <1>4, <1>5, <1>7, <2>1 DEF Parts, StoresTheRow
<1>. QED
  BY <1>7, <1>8, <1>9, <1>10, <1>11 DEF Parts

LEMMA FailsStep ==
  ASSUME Parts, NEW q \in Calls, Fails(q)
  PROVE  Parts'
<1> DEFINE c == call[q]
           b == BrowserOf[PageOf(q)]
<1>1. c \in Call /\ c.pc \in {"registerSession", "loginSession", "loggedIn", "logout", "write", "changed"}
  BY CallFits DEF Fails
<1>2. "from" \in DOMAIN c
  BY <1>1, CallFields
<1>3. PageOf(q) \in Pages /\ b \in Browsers
  BY <1>2, CallPage
<1>4. Become(q, Idle) /\ UNCHANGED <<row, cache, session, made, mix, BrowserOf>>
  BY DEF Fails, server, BrowserOf
<1>5. raced \in BOOLEAN
  BY DEF Parts, HistoryFits
<1>6. CASE c.pc \notin {"write", "changed"}
  <2>1. UNCHANGED <<raced, strayed>>
    BY <1>5, <1>6 DEF Fails, At
  <2>2. UNCHANGED <<mem, disk>> \/ \E p \in Pages : Set(p, Out)
    BY <1>3 DEF Fails
  <2>3. Quietly(q, Idle)
    BY <1>4, <2>1, <2>2 DEF Quietly, history, Parts, SessionsFit, ClientFits
  <2>. QED
    BY <1>6, <2>3, GoesIdle
<1>7. CASE c.pc \in {"write", "changed"}
  <2>1. /\ call' \in [Calls -> Call] /\ call'[q] = Idle
        /\ \A x \in Calls \ {q} : call'[x] = call[x]
    BY <1>4, Became, CallParts
  <2>2. UNCHANGED <<mem, disk>> /\ strayed' = strayed \cup {b}
    BY <1>7 DEF Fails, At
  <2>3. raced' \in BOOLEAN /\ (raced => raced') /\ (c.pc = "write" => raced')
    BY <1>5 DEF Fails, At
  <2>4. ServerFits' /\ SessionsFit' /\ ClientFits'
    BY <1>4, <2>2 DEF Parts, ServerFits, SessionsFit, ClientFits
  <2>5. HistoryFits'
    BY <1>3, <1>4, <2>2, <2>3 DEF Parts, HistoryFits
  <2>6. CallsFit'
    <3>1. \A x \in Calls : Fits(call[x], row, raced', strayed', BrowserOf)
      BY <2>2, <2>3, CallFits, StillFits
    <3>2. Fits(Idle, row, raced', strayed', BrowserOf)
      BY CallParts, BeforeRowBare DEF BeforeRow
    <3>. QED
      BY <1>4, <2>1, <3>1, <3>2 DEF CallsFit
  <2>7. CacheFollowsRow'
    BY <1>4, <1>7, <2>1, <2>3 DEF Parts, CacheFollowsRow, At
  <2>8. StoresTheRow'
    <3>1. \A x \in Browsers \ {b} : Answering(x) => Answering(x)'
      BY <1>4, <2>1 DEF Answering, PageOf
    <3>. QED
      BY <1>4, <2>2, <3>1 DEF Parts, StoresTheRow
  <2>. QED
    BY <2>4, <2>5, <2>6, <2>7, <2>8 DEF Parts
<1>. QED
  BY <1>6, <1>7

LEMMA ReloadStep ==
  ASSUME Parts, NEW p \in Pages, Reload(p)
  PROVE  Parts'
<1> DEFINE b == BrowserOf[p]
<1>1. b \in Browsers
  BY Held
<1>2. UNCHANGED <<row, cache, session, made, disk, raced, mix>>
  BY DEF Reload, server
<1>3. ClientFits'
  <2>1. [store |-> disk[b], priv |-> NoKey] \in Page
    BY <1>1 DEF Parts, ClientFits, Page
  <2>2. /\ mem' \in [Pages -> Page]
        /\ mem'[p] = [store |-> disk[b], priv |-> NoKey]
        /\ \A x \in Pages \ {p} : mem'[x] = mem[x]
    BY <2>1 DEF Reload, Parts, ClientFits
  <2>3. \A x \in Pages : mem'[x].store # NoStore => mem'[x].store.key = row.key
    BY <1>1, <2>2 DEF Parts, ClientFits
  <2>4. \A x \in Pages : mem'[x].priv \in {NoKey, row.key}
    BY <2>2 DEF Parts, ClientFits
  <2>. QED
    BY <1>2, <2>2, <2>3, <2>4 DEF Parts, ClientFits
<1>4. call' = [q \in Calls |-> Unheard(call[q], p)]
  BY DEF Reload
<1>5. strayed' = strayed \cup Forgoing(p)
  BY DEF Reload
<1>6. \A x \in Browsers : disk'[x] \in {NoStore, disk[x]}
  BY <1>2
<1> DEFINE none == {}
<1>7. none \in SUBSET Calls /\ \A q \in none : call[q].pc \notin {"write", "changed"}
  OBVIOUS
<1>8. call' = [q \in Calls |-> IF q \in none THEN Idle ELSE Unheard(call[q], p)]
  BY <1>4
<1> HIDE DEF none
<1>. QED
  BY <1>2, <1>3, <1>5, <1>6, <1>7, <1>8, PageGoes

LEMMA SignOutStep ==
  ASSUME Parts, NEW p \in Pages, SignOut(p)
  PROVE  Parts'
<1>1. UNCHANGED <<row, cache, session, made, call, raced, strayed, mix, BrowserOf>>
  BY DEF SignOut, server, history, BrowserOf
<1>2. ClientFits' /\ \A x \in Browsers : disk'[x] \in {NoStore, disk[x]}
  BY <1>1, OutFits DEF SignOut
<1>3. ServerFits' /\ SessionsFit' /\ HistoryFits' /\ CallsFit'
  BY <1>1 DEF Parts, ServerFits, SessionsFit, HistoryFits, CallsFit
<1>4. CacheFollowsRow'
  BY <1>1 DEF Parts, CacheFollowsRow, At
<1>5. StoresTheRow'
  <2>1. \A x \in Browsers : Answering(x)' <=> Answering(x)
    BY <1>1 DEF Answering, PageOf
  <2>. QED
    BY <1>1, <1>2, <2>1 DEF Parts, StoresTheRow
<1>. QED
  BY <1>2, <1>3, <1>4, <1>5 DEF Parts

LEMMA ReauthenticateStep ==
  ASSUME Parts, NEW p \in Pages, Reauthenticate(p)
  PROVE  Parts'
<1> DEFINE b == BrowserOf[p]
           s == mem[p].store
<1>1. b \in Browsers /\ s \in Store /\ s.key = row.key
  BY Held DEF Reauthenticate
<1>2. UNCHANGED <<row, cache, session, made, call, raced, mix, BrowserOf>>
  BY DEF Reauthenticate, server, BrowserOf
<1>3. /\ ClientFits'
      /\ disk'[b] = s
      /\ \A x \in Browsers \ {b} : disk'[x] = disk[x]
  BY <1>1, <1>2, SetStore DEF Reauthenticate
<1>4. \/ disk[b] = s /\ strayed' = strayed
      \/ strayed' = strayed \cup {b}
  BY DEF Reauthenticate
<1>5. ServerFits' /\ SessionsFit' /\ HistoryFits'
  BY <1>1, <1>2, <1>4 DEF Parts, ServerFits, SessionsFit, HistoryFits
<1>6. CallsFit'
  <2>1. strayed \subseteq strayed'
    BY <1>4
  <2>. QED
    BY <1>2, <2>1, CallFits, StillFits DEF Parts, CallsFit
<1>7. CacheFollowsRow'
  BY <1>2 DEF Parts, CacheFollowsRow, At
<1>8. StoresTheRow'
  <2>1. \A x \in Browsers : Answering(x)' <=> Answering(x)
    BY <1>2 DEF Answering, PageOf
  <2>. QED
    BY <1>2, <1>3, <1>4, <2>1 DEF Parts, StoresTheRow
<1>. QED
  BY <1>3, <1>5, <1>6, <1>7, <1>8 DEF Parts

LEMMA CacheExpiresStep ==
  ASSUME Parts, CacheExpires
  PROVE  Parts'
<1>1. UNCHANGED <<row, session, call, made, disk, mem, strayed, mix, BrowserOf>> /\ cache' = NoUser
  BY DEF CacheExpires, client, BrowserOf
<1>2. raced' = (raced /\ \E q \in Calls : Setting(q))
  BY DEF CacheExpires
<1>3. ServerFits' /\ SessionsFit' /\ ClientFits'
  BY <1>1, Accounts DEF Parts, ServerFits, SessionsFit, ClientFits, IsUser
<1>4. HistoryFits'
  BY <1>1, <1>2 DEF Parts, HistoryFits
<1>5. CallsFit'
  <2>1. \A q \in Calls : Sets(call[q], row, raced')
    BY <1>2, CallFits DEF Fits, Sets, Setting, At
  <2>. QED
    BY <1>1, <2>1, CallFits DEF Parts, CallsFit, Fits
<1>6. CacheFollowsRow'
  BY <1>1 DEF CacheFollowsRow
<1>7. StoresTheRow'
  BY <1>1 DEF Parts, StoresTheRow, Answering, PageOf
<1>. QED
  BY <1>3, <1>4, <1>5, <1>6, <1>7 DEF Parts

LEMMA SessionExpiresStep ==
  ASSUME Parts, NEW t \in Tokens, SessionExpires(t)
  PROVE  Parts'
<1>1. UNCHANGED <<row, cache, call, made, disk, mem, raced, strayed, mix, BrowserOf>>
  BY DEF SessionExpires, client, history, BrowserOf
<1>2. SessionsFit'
  <2>1. session \in Seq(Session) /\ t \in DOMAIN session /\ Len(session) <= MaxTokens
    BY DEF SessionExpires, Valid, Parts, SessionsFit
  <2>2. [session[t] EXCEPT !.state = "expired"] \in Session
    <3>1. session[t] \in Session
      BY <2>1
    <3>. QED
      BY <3>1 DEF Session
  <2>3. session' = [session EXCEPT ![t] = [session[t] EXCEPT !.state = "expired"]]
    BY DEF SessionExpires
  <2>4. session' \in Seq(Session) /\ Len(session') = Len(session)
    BY <2>1, <2>2, <2>3
  <2>. QED
    BY <2>1, <2>4 DEF SessionsFit
<1>3. ServerFits' /\ ClientFits' /\ HistoryFits'
  BY <1>1 DEF Parts, ServerFits, ClientFits, HistoryFits
<1>4. CallsFit'
  BY <1>1 DEF Parts, CallsFit
<1>5. CacheFollowsRow' /\ StoresTheRow'
  BY <1>1 DEF Parts, CacheFollowsRow, StoresTheRow, Answering, PageOf, At
<1>. QED
  BY <1>2, <1>3, <1>4, <1>5 DEF Parts

LEMMA StutterStep ==
  ASSUME Parts, UNCHANGED vars
  PROVE  Parts'
<1>1. UNCHANGED <<row, cache, made, session, call, disk, mem, raced, strayed, mix, BrowserOf>>
  BY DEF vars, BrowserOf
<1>2. ServerFits' /\ SessionsFit' /\ ClientFits' /\ HistoryFits' /\ CallsFit'
  BY <1>1 DEF Parts, ServerFits, SessionsFit, ClientFits, HistoryFits, CallsFit
<1>3. CacheFollowsRow' /\ StoresTheRow'
  BY <1>1 DEF Parts, CacheFollowsRow, StoresTheRow, Answering, PageOf, At
<1>. QED
  BY <1>2, <1>3 DEF Parts

-----------------------------------------------------------------------------
(* The theorems.                                                           *)

LEMMA AskStep ==
  ASSUME Parts, NEW q \in Calls, NEW p \in Pages, Ask(q, p)
  PROVE  Parts'
BY RegisterStep, LoginStep, LogoutStep, ChangeStep, TerminateStep DEF Ask

LEMMA ServeStep ==
  ASSUME Parts, NEW q \in Calls, Serve(q)
  PROVE  Parts'
<1>1. CASE RegisterFind(q) \/ RegisterInsert(q) \/ RegisterSession(q)
  BY <1>1, RegisterFindStep, RegisterInsertStep, RegisterSessionStep
<1>2. CASE LoginFind(q) \/ LoginSession(q) \/ LoggedIn(q) \/ LogoutRevoke(q) \/ LoggedOut(q)
  BY <1>2, LoginFindStep, LoginSessionStep, LoggedInStep, LogoutRevokeStep, LoggedOutStep
<1>3. CASE LookUp(q) \/ Check(q) \/ FindGet(q) \/ FindSelect(q) \/ FindSet(q)
  BY <1>3, LookUpStep, CheckStep, FindGetStep, FindSelectStep, FindSetStep
<1>4. CASE RevokeOthers(q) \/ UpdateRow(q) \/ UpdateCache(q) \/ Changed(q) \/ Fails(q)
  BY <1>4, RevokeOthersStep, UpdateRowStep, UpdateCacheStep, ChangedStep, FailsStep
<1>. QED
  BY <1>1, <1>2, <1>3, <1>4 DEF Serve

LEMMA NextParts == Parts /\ [Next]_vars => Parts'
<1>. SUFFICES ASSUME Parts, [Next]_vars PROVE Parts'
  OBVIOUS
<1>1. CASE \E q \in Calls : Serve(q) \/ \E p \in Pages : Ask(q, p)
  BY <1>1, ServeStep, AskStep
<1>2. CASE \E p \in Pages : Reload(p) \/ Reauthenticate(p) \/ SignOut(p)
  BY <1>2, ReloadStep, ReauthenticateStep, SignOutStep
<1>3. CASE CacheExpires \/ \E t \in Tokens : SessionExpires(t)
  BY <1>3, CacheExpiresStep, SessionExpiresStep
<1>4. CASE UNCHANGED vars
  BY <1>4, StutterStep
<1>. QED
  BY <1>1, <1>2, <1>3, <1>4 DEF Next

(* The row, its copies, the calls and the stores agree, whatever calls     *)
(* overlap, fail or are reloaded away, and however many there are.         *)
THEOREM AccountInvariant == Spec => []AccountInv
<1>1. Spec => []Parts
  BY InitParts, NextParts, PTL DEF Spec
<1>. QED
  BY <1>1, PartsMakeInv, PTL

(* The password that logs in opens every bundle a login can be answered    *)
(* with: changePassword writes hash and bundle in one UPDATE, and every    *)
(* reader takes both from one row or one entry.                            *)
THEOREM LoginsOpenTheirBundle == Spec => []BundleOpens
<1>1. AccountInv => BundleOpens
  BY DEF AccountInv
<1>. QED
  BY <1>1, AccountInvariant, PTL

(* The key pair of the registration stays the one of the account: the      *)
(* rows, entries, stores and pages hold it and no other.                   *)
THEOREM KeyPairStays == Spec => []OneKeyPair
<1>1. AccountInv => OneKeyPair
  BY DEF AccountInv
<1>. QED
  BY <1>1, AccountInvariant, PTL

(* The cached row is the row, but for the overlaps raced names: the SET of *)
(* updateById overtaken by another, or lost.                               *)
THEOREM CacheIsCurrent == Spec => []CacheFollowsRow
<1>1. AccountInv => CacheFollowsRow
  BY DEF AccountInv
<1>. QED
  BY <1>1, AccountInvariant, PTL

(* A browser with a valid session holds a bundle that the password of the  *)
(* account opens, but while a change is answered and for the overlaps      *)
(* strayed names.                                                          *)
THEOREM BrowsersFollowTheRow == Spec => []StoredBundleOpens
<1>1. AccountInv => StoredBundleOpens
  <2>. SUFFICES ASSUME AccountInv,
                       NEW b \in Browsers \ strayed, Valid(disk[b].token), ~Answering(b)
                PROVE  disk[b].wrap = row.hash
    BY DEF StoredBundleOpens
  <2>1. DOMAIN session = 1..Len(session)
    BY DEF AccountInv, TypeOK
  <2>2. disk[b] # NoStore
    BY <2>1, Accounts DEF Valid
  <2>. QED
    BY <2>2 DEF AccountInv, StoresTheRow
<1>. QED
  BY <1>1, AccountInvariant, PTL
=============================================================================
