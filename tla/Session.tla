------------------------------ MODULE Session ------------------------------
(***************************************************************************)
(* The signed-in session of the dashboard pages (runtime/v1/spa.js and     *)
(* oauth-callback.html): browser tabs that share one localStorage log in   *)
(* with an authorization code, query ClickHouse with the token they find   *)
(* there, and answer the queries of their sandboxed dashboard frame.       *)
(*                                                                         *)
(* A tab shows the list of dashboards (index) or one dashboard; it keeps a *)
(* sessionStorage of its own.  Tokens, codes and login attempts (a state   *)
(* and a verifier, drawn together) are numbered as they are made.          *)
(*                                                                         *)
(* Code up to an await is one step; the rejection of a promise is handled  *)
(* in the step that rejects it, and a reload takes the page away at once.  *)
(* ClickHouse looks at a token when it answers and refuses those that have *)
(* expired.  A request may fail at any time.                               *)
(***************************************************************************)
EXTENDS Naturals, Sequences, FiniteSets

CONSTANTS
  Tab,          \* the tabs of the browser
  IndexTabs,    \* those that show the list; the others show a dashboard
  MaxQueries,   \* bound: queries of a frame per page load
  MaxExpired,   \* bound: tokens that expire
  MaxClicks,    \* bound: what the users do besides logging in
  MaxAttempts   \* bound: login attempts

ASSUME SessionAssumption ==
  /\ IndexTabs \subseteq Tab
  /\ MaxQueries \in Nat /\ MaxExpired \in Nat
  /\ MaxClicks \in Nat /\ MaxAttempts \in Nat

VARIABLES
  tok,        \* localStorage mcp_tok: a token, or 0
  client,     \* localStorage mcp_oauth_client_id is set
  meta,       \* localStorage mcp_as_meta_v2 is set
  minted,     \* tokens handed out so far
  live,       \* tokens ClickHouse accepts
  attempts,   \* the tab of every login attempt
  codes,      \* the attempt of every authorization code
  spent,      \* codes the token endpoint has received
  page,       \* where the tab is
  state,      \* sessionStorage pkce_state: an attempt, or 0
  verifier,   \* sessionStorage pkce_v: an attempt, or 0
  url,        \* the code in the URL of the tab's last callback page, or 0
  proof,      \* the verifier a callback page has read
  carried,    \* the token of the page's own query
  frame, call,\* per query of the frame: its promise, the parent's side
  clicks,     \* what the users have done
  forgotten,  \* ghost: the client or the metadata was dropped
  wandered    \* ghost: tabs whose user went back or reloaded the callback

storage == <<tok, client, meta>>
server  == <<minted, live, codes, spent>>
tabVars == <<state, verifier, url, proof>>
bridge  == <<frame, call>>
ghosts  == <<forgotten, wandered>>
vars    == <<storage, server, attempts, page, tabVars, carried, bridge, clicks, ghosts>>

Query  == 1..MaxQueries
Pages  == {"loading", "card", "discover", "provider", "config", "exchange",
           "fetch", "list", "runtime", "shown", "error",
           "failed", "nosession", "mismatch", "missing"}
Failed == {"failed", "nosession", "mismatch", "missing"}

Promises == {"none", "pending", "answered", "timedout"}
Calls    == [at : {"none", "posted", "fetching", "replied"}, tok : Nat]
NoCall   == [at |-> "none", tok |-> 0]

\* Pages that wait for nobody but the user.
Resting == {"card", "provider", "shown", "error"} \cup Failed

Init ==
  /\ minted \in {0, 1} /\ tok = minted /\ live \in SUBSET (1..minted)
  /\ client = (tok # 0) /\ meta = (tok # 0)
  /\ attempts = <<>> /\ codes = <<>> /\ spent = {}
  /\ page = [t \in Tab |-> "loading"]
  /\ state = [t \in Tab |-> 0] /\ verifier = [t \in Tab |-> 0]
  /\ url = [t \in Tab |-> 0] /\ proof = [t \in Tab |-> 0]
  /\ carried = [t \in Tab |-> 0]
  /\ frame = [t \in Tab |-> [i \in Query |-> "none"]]
  /\ call = [t \in Tab |-> [i \in Query |-> NoCall]]
  /\ clicks = 0 /\ forgotten = FALSE /\ wandered = {}

-----------------------------------------------------------------------------
(* Pages.                                                                  *)

\* The tab leaves its page: requests, timers and the frame are gone.
GoTo(t, next) ==
  /\ page' = [page EXCEPT ![t] = next]
  /\ carried' = [carried EXCEPT ![t] = 0]
  /\ frame' = [frame EXCEPT ![t] = [i \in Query |-> "none"]]
  /\ call' = [call EXCEPT ![t] = [i \in Query |-> NoCall]]

\* The page stays and shows something else.
Show(t, next) ==
  /\ page' = [page EXCEPT ![t] = next]
  /\ carried' = [carried EXCEPT ![t] = 0]
  /\ UNCHANGED bridge

\* Mutant: the token is not deleted before the reload.
RestartOnly(t) == UNCHANGED tok /\ GoTo(t, "loading")

ClearTokenAndRestart(t) == tok' = 0 /\ GoTo(t, "loading")

\* Mutant: the query goes out without looking whether there is a token.
ChQueryUnchecked(t, waiting) ==
  /\ page' = [page EXCEPT ![t] = waiting]
  /\ carried' = [carried EXCEPT ![t] = tok]
  /\ UNCHANGED <<tok, bridge>>

\* The page's own chQuery: without a token it is refused at once.
ChQuery(t, waiting) ==
  IF tok = 0
    THEN ClearTokenAndRestart(t)
    ELSE /\ page' = [page EXCEPT ![t] = waiting]
         /\ carried' = [carried EXCEPT ![t] = tok]
         /\ UNCHANGED <<tok, bridge>>

\* main, after loadConfig.
Load(t) ==
  /\ page[t] = "loading"
  /\ \/ Show(t, "error") /\ UNCHANGED tok
     \/ tok = 0 /\ t \in IndexTabs /\ Show(t, "card") /\ UNCHANGED tok
     \/ tok = 0 /\ t \notin IndexTabs /\ Show(t, "discover") /\ UNCHANGED tok
     \/ tok # 0 /\ ChQuery(t, "fetch")
  /\ UNCHANGED <<client, meta, server, attempts, tabVars, clicks, ghosts>>

\* The status codes and texts chQuery takes for an expired token.
Refused(token) == token \notin live

\* Mutant: every failure of a query is taken for an expired token.
AnswerAnyError(t) ==
  /\ page[t] \in {"fetch", "list"}
  /\ ClearTokenAndRestart(t)
  /\ UNCHANGED <<client, meta, server, attempts, tabVars, clicks, ghosts>>

\* The answer to the page's query: the list asks a second one, a dashboard
\* loads its runtime and shows its frame.
Answer(t) ==
  /\ page[t] \in {"fetch", "list"}
  /\ \/ Refused(carried[t]) /\ ClearTokenAndRestart(t)
     \/ Show(t, "error") /\ UNCHANGED tok
     \/ ~Refused(carried[t]) /\ page[t] = "fetch" /\ t \in IndexTabs /\ ChQuery(t, "list")
     \/ /\ ~Refused(carried[t]) /\ page[t] = "fetch" /\ t \notin IndexTabs
        /\ Show(t, "runtime") /\ UNCHANGED tok
     \/ ~Refused(carried[t]) /\ page[t] = "list" /\ Show(t, "shown") /\ UNCHANGED tok
  /\ UNCHANGED <<client, meta, server, attempts, tabVars, clicks, ghosts>>

\* synthesizeSpecWrapper and renderIntoFrame.
RuntimeLoaded(t) ==
  /\ page[t] = "runtime"
  /\ Show(t, "shown") \/ Show(t, "error")
  /\ UNCHANGED <<storage, server, attempts, tabVars, clicks, ghosts>>

-----------------------------------------------------------------------------
(* The login.                                                              *)

\* Mutant: the client is not kept for the callback page.
StartAuthForgetful(t) ==
  /\ page[t] = "discover"
  /\ Len(attempts) < MaxAttempts
  /\ meta' = TRUE
  /\ attempts' = Append(attempts, t)
  /\ state' = [state EXCEPT ![t] = Len(attempts')]
  /\ verifier' = [verifier EXCEPT ![t] = Len(attempts')]
  /\ GoTo(t, "provider")
  /\ UNCHANGED <<tok, client, server, url, proof, clicks, ghosts>>

\* startAuth: discoverAS and oauthClientId fill the local storage, then the
\* tab draws its state and verifier and goes to the provider.
StartAuth(t) ==
  /\ page[t] = "discover"
  /\ Len(attempts) < MaxAttempts
  /\ \/ /\ Show(t, IF t \in IndexTabs THEN "card" ELSE "error")
        /\ UNCHANGED <<client, meta, attempts, state, verifier>>
     \/ /\ meta' = TRUE /\ client' = TRUE
        /\ attempts' = Append(attempts, t)
        /\ state' = [state EXCEPT ![t] = Len(attempts')]
        /\ verifier' = [verifier EXCEPT ![t] = Len(attempts')]
        /\ GoTo(t, "provider")
  /\ UNCHANGED <<tok, server, url, proof, clicks, ghosts>>

\* Mutant: the page does not compare the state with its own.
CallbackAnyState(t, code) ==
  /\ url' = [url EXCEPT ![t] = code]
  /\ state[t] # 0 /\ verifier[t] # 0 /\ client /\ meta
  /\ GoTo(t, "config")
  /\ state' = [state EXCEPT ![t] = 0]
  /\ proof' = [proof EXCEPT ![t] = verifier[t]]
  /\ verifier' = [verifier EXCEPT ![t] = 0]

\* The callback page, up to its request for config.json.
Callback(t, code) ==
  LET matches == state[t] = codes'[code]
      ready   == verifier[t] # 0 /\ client /\ meta
  IN /\ url' = [url EXCEPT ![t] = code]
     /\ GoTo(t, CASE state[t] = 0 -> "nosession"
                  [] state[t] # 0 /\ ~matches -> "mismatch"
                  [] matches /\ ~ready -> "missing"
                  [] matches /\ ready -> "config")
     /\ state' = IF matches THEN [state EXCEPT ![t] = 0] ELSE state
     /\ proof' = IF matches THEN [proof EXCEPT ![t] = verifier[t]] ELSE proof
     /\ verifier' = IF matches /\ ready THEN [verifier EXCEPT ![t] = 0] ELSE verifier

\* The provider sends the tab back with a code for the attempt whose
\* authorization page it shows, or with an error.
Authorize(t, a) ==
  /\ page[t] = "provider"
  /\ attempts[a] = t
  /\ t \in wandered \/ \A b \in a + 1..Len(attempts) : attempts[b] # t
  /\ \/ GoTo(t, "failed") /\ UNCHANGED <<codes, tabVars>>
     \/ codes' = Append(codes, a) /\ Callback(t, Len(codes'))
  /\ UNCHANGED <<storage, minted, live, spent, attempts, clicks, ghosts>>

\* config.json names the resource; the code and the verifier are posted.
Post(t) ==
  /\ page[t] = "config"
  /\ \/ Show(t, "failed") /\ UNCHANGED spent
     \/ Show(t, "exchange") /\ spent' = spent \cup {url[t]}
  /\ UNCHANGED <<storage, minted, live, codes, attempts, tabVars, clicks, ghosts>>

\* The answer of the token endpoint: a token, an error, or an error that
\* says the client is not known any more.
TokenAnswer(t) ==
  /\ page[t] = "exchange"
  /\ \/ /\ minted' = minted + 1 /\ live' = live \cup {minted'} /\ tok' = minted'
        /\ GoTo(t, "loading")
        /\ UNCHANGED <<client, meta, forgotten>>
     \/ Show(t, "failed") /\ UNCHANGED <<storage, minted, live, forgotten>>
     \/ /\ client' = FALSE /\ tok' = 0 /\ forgotten' = TRUE
        /\ Show(t, "failed") /\ UNCHANGED <<meta, minted, live>>
  /\ UNCHANGED <<codes, spent, attempts, tabVars, clicks, wandered>>

-----------------------------------------------------------------------------
(* The frame of a dashboard and its parent.                                *)

\* CH_FETCH: a promise with its timer, and a message to the parent.
ChFetch(t, i) ==
  /\ page[t] = "shown" /\ t \notin IndexTabs
  /\ \A j \in Query : frame[t][j] = "none" <=> j >= i
  /\ frame' = [frame EXCEPT ![t][i] = "pending"]
  /\ call' = [call EXCEPT ![t][i].at = "posted"]
  /\ UNCHANGED <<storage, server, attempts, page, tabVars, carried, clicks, ghosts>>

\* The parent takes the message and queries with the token of the moment.
HandleIframeMessage(t, i) ==
  /\ call[t][i].at = "posted"
  /\ IF tok = 0
       THEN ClearTokenAndRestart(t)
       ELSE /\ call' = [call EXCEPT ![t][i] = [at |-> "fetching", tok |-> tok]]
            /\ UNCHANGED <<tok, page, carried, frame>>
  /\ UNCHANGED <<client, meta, server, attempts, tabVars, clicks, ghosts>>

\* ClickHouse answers the parent, which answers the frame or starts over.
FetchAnswer(t, i) ==
  /\ call[t][i].at = "fetching"
  /\ \/ Refused(call[t][i].tok) /\ ClearTokenAndRestart(t)
     \/ call' = [call EXCEPT ![t][i].at = "replied"] /\ UNCHANGED <<tok, page, carried, frame>>
  /\ UNCHANGED <<client, meta, server, attempts, tabVars, clicks, ghosts>>

\* The frame takes the answer, unless nobody waits for it any more.
Deliver(t, i) ==
  /\ call[t][i].at = "replied"
  /\ call' = [call EXCEPT ![t][i] = NoCall]
  /\ frame' = IF frame[t][i] = "pending" THEN [frame EXCEPT ![t][i] = "answered"] ELSE frame
  /\ UNCHANGED <<storage, server, attempts, page, tabVars, carried, clicks, ghosts>>

\* Mutant: the timer stops once the parent has taken the query.
FrameTimeoutUntaken(t, i) ==
  /\ frame[t][i] = "pending" /\ call[t][i].at = "posted"
  /\ frame' = [frame EXCEPT ![t][i] = "timedout"]
  /\ UNCHANGED <<storage, server, attempts, page, tabVars, carried, call, clicks, ghosts>>

\* The frame's own timer.
FrameTimeout(t, i) ==
  /\ frame[t][i] = "pending"
  /\ frame' = [frame EXCEPT ![t][i] = "timedout"]
  /\ UNCHANGED <<storage, server, attempts, page, tabVars, carried, call, clicks, ghosts>>

-----------------------------------------------------------------------------
(* The users, and time.                                                    *)

Click == clicks < MaxClicks /\ clicks' = clicks + 1

\* "Sign in" on the login card.
SignIn(t) ==
  /\ page[t] = "card" /\ Click
  /\ Show(t, "discover")
  /\ UNCHANGED <<storage, server, attempts, tabVars, ghosts>>

\* "Sign out" above the list.
SignOut(t) ==
  /\ page[t] = "shown" /\ t \in IndexTabs /\ Click
  /\ ClearTokenAndRestart(t)
  /\ UNCHANGED <<client, meta, server, attempts, tabVars, ghosts>>

\* "Log in again" under an error message.
LogInAgain(t) ==
  /\ page[t] = "error" /\ Click
  /\ tok' = 0 /\ client' = FALSE /\ meta' = FALSE /\ forgotten' = TRUE
  /\ GoTo(t, "loading")
  /\ UNCHANGED <<server, attempts, tabVars, wandered>>

\* "Retry", a reload, or the address of the page entered again.
Open(t) ==
  /\ page[t] # "loading" /\ Click
  /\ GoTo(t, "loading")
  /\ UNCHANGED <<storage, server, attempts, tabVars, ghosts>>

\* Back to an authorization page of the tab, or the callback page once more.
GoBack(t) ==
  /\ Click /\ wandered' = wandered \cup {t}
  /\ \/ /\ \E a \in DOMAIN attempts : attempts[a] = t
        /\ GoTo(t, "provider") /\ UNCHANGED <<codes, tabVars>>
     \/ url[t] # 0 /\ codes' = codes /\ Callback(t, url[t])
  /\ UNCHANGED <<storage, minted, live, spent, attempts, forgotten>>

\* A token expires or is revoked.
Expire(n) ==
  /\ Cardinality((1..minted) \ live) < MaxExpired
  /\ live' = live \ {n}
  /\ UNCHANGED <<storage, minted, codes, spent, attempts, page, tabVars, carried, bridge, clicks, ghosts>>

-----------------------------------------------------------------------------
PageStep(t) == Load(t) \/ Answer(t) \/ RuntimeLoaded(t) \/ StartAuth(t)
               \/ Post(t) \/ TokenAnswer(t)
Provider(t) == \E a \in DOMAIN attempts : Authorize(t, a)
Bridge(t)   == \E i \in Query : \/ ChFetch(t, i) \/ HandleIframeMessage(t, i)
                                \/ FetchAnswer(t, i) \/ Deliver(t, i)
                                \/ FrameTimeout(t, i)
User(t)     == SignIn(t) \/ SignOut(t) \/ LogInAgain(t) \/ Open(t) \/ GoBack(t)

Next ==
  \/ \E t \in Tab : PageStep(t) \/ Provider(t) \/ Bridge(t) \/ User(t)
  \/ \E n \in live : Expire(n)

\* Every request a page waits for ends, answered or not (withTimeout and the
\* timer of the callback page; where no timer reaches, a body being read and
\* the callback's config.json, it is the browser's part).  The timers of the
\* frame run.  The parent's part of the bridge, the provider and the users
\* owe nothing.
Fairness ==
  \A t \in Tab : /\ WF_vars(PageStep(t))
                 /\ \A i \in Query : WF_vars(FrameTimeout(t, i))

Spec == Init /\ [][Next]_vars /\ Fairness
-----------------------------------------------------------------------------
(***************************************************************************)
(* Properties.                                                             *)
(***************************************************************************)

\* Types, and: a page that waits for ClickHouse has sent a token, a page
\* that exchanges a code has one, promises and calls belong to shown pages.
TypeOK ==
  /\ minted \in Nat /\ live \subseteq 1..minted /\ tok \in 0..minted
  /\ client \in BOOLEAN /\ meta \in BOOLEAN /\ forgotten \in BOOLEAN
  /\ attempts \in Seq(Tab) /\ codes \in Seq(DOMAIN attempts)
  /\ spent \subseteq DOMAIN codes /\ clicks \in 0..MaxClicks /\ wandered \subseteq Tab
  /\ page \in [Tab -> Pages]
  /\ state \in [Tab -> 0..Len(attempts)] /\ verifier \in [Tab -> 0..Len(attempts)]
  /\ proof \in [Tab -> 0..Len(attempts)] /\ url \in [Tab -> 0..Len(codes)]
  /\ carried \in [Tab -> 0..minted]
  /\ frame \in [Tab -> [Query -> Promises]] /\ call \in [Tab -> [Query -> Calls]]
  /\ \A t \in Tab :
       /\ page[t] \in {"fetch", "list"} <=> carried[t] # 0
       /\ page[t] \in {"config", "exchange"} => url[t] # 0 /\ proof[t] # 0
       /\ \A i \in Query :
            frame[t][i] # "none" \/ call[t][i].at # "none" => page[t] = "shown"

\* A code reaches the token endpoint once, with the verifier of the attempt
\* it was issued for (oauth-callback.html:61 and 68), however often users go
\* back, reload the callback page or log in anew in the same tab.
CodeSentOnce ==
  [][\A t \in Tab : page[t] = "config" /\ page'[t] = "exchange" =>
       url[t] \notin spent /\ proof[t] = codes[url[t]]]_vars

\* A login that runs through finds its state, its verifier, the client and
\* the metadata: the callback page complains of one of them only after the
\* user went back in this tab, or some tab dropped the client.
CallbackFailsForCause ==
  \A t \in Tab : /\ page[t] \in {"nosession", "mismatch"} => t \in wandered
                 /\ page[t] = "missing" => forgotten \/ t \in wandered

\* The tokens a tab waits for an answer to.
Sent(t) == ({carried[t]} \cup {call[t][i].tok : i \in Query}) \ {0}

\* A token ClickHouse accepts leaves the storage only because a user says
\* so, the provider does not know the client, or a page still held an
\* earlier token that was refused (spa.js:241 does not compare the two).
OnlyStaleRefusalsSignOut ==
  [][(tok \in live) /\ tok' = 0 /\ clicks' = clicks =>
       \E t \in Tab :
         /\ page'[t] # page[t]
         /\ page[t] = "exchange" \/ \E n \in Sent(t) : n < tok /\ n \notin live]_vars

\* Once no token expires any more and users leave the pages alone, every
\* tab comes to rest: pages that take each other's token away do not send
\* one another to the login for ever.
Settles == <>[](\A t \in Tab : page[t] \in Resting)

\* Every query of a dashboard is answered, times out or goes away with its
\* page, even if the parent never answers.
EveryQuerySettles ==
  \A t \in Tab : \A i \in Query : frame[t][i] = "pending" ~> frame[t][i] # "pending"
=============================================================================
