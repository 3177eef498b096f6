--------------------------- MODULE SessionProofs ---------------------------
(***************************************************************************)
(* Theorems about Session, for any number of tabs, queries, clicks and     *)
(* tokens: what the pages rely on when they exchange a code or give a      *)
(* token up.                                                               *)
(***************************************************************************)
EXTENDS Session, TLAPS

\* The attempt a tab can complete is its own, was never completed, and has
\* the verifier it was started with.
AttemptInv ==
  \A t \in Tab :
    /\ state[t] # 0 => attempts[state[t]] = t
    /\ state[t] # 0 /\ verifier[t] # 0 => verifier[t] = state[t]
    /\ url[t] # 0 => attempts[codes[url[t]]] = t
    /\ \A c \in spent : state[t] # codes[c]
    /\ page[t] = "config" =>
         state[t] = 0 /\ url[t] \notin spent /\ proof[t] = codes[url[t]]

\* A tab that waits for the provider, and whose user never went back, has
\* all the callback page asks for, unless the client was dropped.
ReadyInv ==
  /\ attempts # <<>> => (client /\ meta) \/ forgotten
  /\ \A t \in Tab : page[t] = "provider" /\ t \notin wandered =>
       /\ state[t] # 0 /\ verifier[t] = state[t]
       /\ \A b \in state[t] + 1..Len(attempts) : attempts[b] # t

\* The stored token is the last one; queries carry no later one.
TokenInv ==
  /\ tok \in {0, minted}
  /\ \A t \in Tab, i \in Query :
       /\ call[t][i].tok <= minted
       /\ call[t][i].at = "fetching" => call[t][i].tok # 0

Inv == TypeOK /\ AttemptInv /\ ReadyInv /\ CallbackFailsForCause /\ TokenInv
-----------------------------------------------------------------------------
(* Types, page by page.                                                    *)

ServerType ==
  /\ minted \in Nat /\ live \subseteq 1..minted /\ tok \in 0..minted
  /\ client \in BOOLEAN /\ meta \in BOOLEAN /\ forgotten \in BOOLEAN
  /\ attempts \in Seq(Tab) /\ codes \in Seq(DOMAIN attempts)
  /\ spent \subseteq DOMAIN codes /\ clicks \in 0..MaxClicks /\ wandered \subseteq Tab

TabType ==
  /\ state \in [Tab -> 0..Len(attempts)] /\ verifier \in [Tab -> 0..Len(attempts)]
  /\ proof \in [Tab -> 0..Len(attempts)] /\ url \in [Tab -> 0..Len(codes)]

\* What a tab shows, waits for and has asked.
PageType ==
  /\ page \in [Tab -> Pages] /\ carried \in [Tab -> 0..minted]
  /\ frame \in [Tab -> [Query -> Promises]] /\ call \in [Tab -> [Query -> Calls]]
  /\ \A t \in Tab :
       /\ page[t] \in {"fetch", "list"} <=> carried[t] # 0
       /\ \A i \in Query :
            frame[t][i] # "none" \/ call[t][i].at # "none" => page[t] = "shown"

CallbackType ==
  \A t \in Tab : page[t] \in {"config", "exchange"} => url[t] # 0 /\ proof[t] # 0

LEMMA TypeParts == TypeOK <=> ServerType /\ TabType /\ PageType /\ CallbackType
BY DEF TypeOK, ServerType, TabType, PageType, CallbackType

Waiting == {"fetch", "list"}

\* Another page, without a query of its own and without a frame.
LEMMA GoToType ==
  ASSUME PageType, NEW t \in Tab, NEW next \in Pages \ Waiting, GoTo(t, next),
         minted \in Nat, minted' \in Nat, minted <= minted'
  PROVE  PageType'
<1>1. /\ page' = [page EXCEPT ![t] = next] /\ carried' = [carried EXCEPT ![t] = 0]
      /\ frame' = [frame EXCEPT ![t] = [i \in Query |-> "none"]]
      /\ call' = [call EXCEPT ![t] = [i \in Query |-> NoCall]]
  BY DEF GoTo
<1>2. page' \in [Tab -> Pages] /\ carried' \in [Tab -> 0..minted']
  BY <1>1 DEF PageType
<1>3. [i \in Query |-> "none"] \in [Query -> Promises]
  BY DEF Promises
<1>4. [i \in Query |-> NoCall] \in [Query -> Calls]
  BY DEF Calls, NoCall
<1>5. frame' \in [Tab -> [Query -> Promises]] /\ call' \in [Tab -> [Query -> Calls]]
  BY <1>1, <1>3, <1>4, Zenon DEF PageType
<1>6. ASSUME NEW u \in Tab
      PROVE  /\ page'[u] \in Waiting <=> carried'[u] # 0
             /\ \A i \in Query : frame'[u][i] # "none" \/ call'[u][i].at # "none"
                                   => page'[u] = "shown"
  <2>1. CASE u = t
    <3>1. page'[u] = next /\ carried'[u] = 0
      BY <1>1, <2>1 DEF PageType
    <3>2. \A i \in Query : frame'[u][i] = "none" /\ call'[u][i] = NoCall
      BY <1>1, <2>1 DEF PageType
    <3> QED
      BY <3>1, <3>2 DEF NoCall
  <2>2. CASE u # t
    <3>1. /\ page'[u] = page[u] /\ carried'[u] = carried[u]
          /\ frame'[u] = frame[u] /\ call'[u] = call[u]
      BY <1>1, <2>2 DEF PageType
    <3> QED
      BY <3>1 DEF PageType, Waiting
  <2> QED
    BY <2>1, <2>2
<1> QED
  BY <1>2, <1>5, <1>6 DEF PageType, Waiting

\* The same page with something else on it; frames are not touched.
LEMMA ShowType ==
  ASSUME PageType, NEW t \in Tab, NEW next \in Pages, page[t] # "shown",
         page' = [page EXCEPT ![t] = next],
         NEW c \in 0..minted, carried' = [carried EXCEPT ![t] = c],
         next \in Waiting <=> c # 0, UNCHANGED bridge,
         minted \in Nat, minted' \in Nat, minted <= minted'
  PROVE  PageType'
<1>1. page' \in [Tab -> Pages] /\ carried' \in [Tab -> 0..minted']
  BY DEF PageType
<1>2. frame' = frame /\ call' = call
  BY DEF bridge
<1>3. \A i \in Query : frame[t][i] = "none" /\ call[t][i].at = "none"
  BY DEF PageType
<1>4. ASSUME NEW u \in Tab
      PROVE  /\ page'[u] \in Waiting <=> carried'[u] # 0
             /\ \A i \in Query : frame'[u][i] # "none" \/ call'[u][i].at # "none"
                                   => page'[u] = "shown"
  <2>1. CASE u = t
    BY <1>2, <1>3, <2>1 DEF PageType
  <2>2. CASE u # t
    BY <1>2, <2>2 DEF PageType, Waiting
  <2> QED
    BY <2>1, <2>2
<1> QED
  BY <1>1, <1>2, <1>4 DEF PageType, Waiting

LEMMA ShowKeepsType ==
  ASSUME PageType, NEW t \in Tab, NEW next \in Pages \ Waiting, page[t] # "shown",
         Show(t, next), minted \in Nat, minted' \in Nat, minted <= minted'
  PROVE  PageType'
<1>1. /\ page' = [page EXCEPT ![t] = next] /\ carried' = [carried EXCEPT ![t] = 0]
      /\ UNCHANGED bridge
  BY DEF Show
<1>2. 0 \in 0..minted /\ (next \in Waiting <=> 0 # 0) /\ next \in Pages
  OBVIOUS
<1> QED
  BY <1>1, <1>2, ShowType

LEMMA ChQueryType ==
  ASSUME PageType, NEW t \in Tab, NEW next \in Waiting, page[t] # "shown",
         ChQuery(t, next), tok \in 0..minted, minted \in Nat, UNCHANGED minted
  PROVE  PageType' /\ tok' \in {0, tok}
<1>1. CASE tok = 0
  BY <1>1, GoToType DEF ChQuery, ClearTokenAndRestart, Waiting, Pages
<1>2. CASE tok # 0
  <2>1. /\ page' = [page EXCEPT ![t] = next] /\ carried' = [carried EXCEPT ![t] = tok]
        /\ UNCHANGED <<tok, bridge>>
    BY <1>2 DEF ChQuery
  <2>2. next \in Pages
    BY DEF Waiting, Pages
  <2>3. (next \in Waiting <=> tok # 0) /\ minted' \in Nat /\ minted <= minted'
    BY <1>2
  <2>4. PageType'
    BY <2>1, <2>2, <2>3, ShowType
  <2> QED
    BY <2>1, <2>4
<1> QED
  BY <1>1, <1>2

\* A tab turns to a page that exchanges nothing.
Turns(t, next) == /\ page'[t] = next
                  /\ \A u \in Tab : u # t => page'[u] = page[u]

LEMMA GoToTurns ==
  ASSUME page \in [Tab -> Pages], NEW t \in Tab, NEW next, GoTo(t, next) \/ Show(t, next)
  PROVE  Turns(t, next)
BY DEF GoTo, Show, Turns

LEMMA CallbackQuiet ==
  ASSUME CallbackType, NEW t \in Tab, NEW next, next \notin {"config", "exchange"},
         Turns(t, next), UNCHANGED <<url, proof>>
  PROVE  CallbackType'
BY DEF CallbackType, Turns

\* Every page a step without a login can turn to.
Plain == Pages \ {"config", "exchange", "fetch", "list"}

LEMMA GoToPlain ==
  ASSUME PageType, CallbackType, NEW t \in Tab, NEW next \in Plain, GoTo(t, next),
         UNCHANGED <<url, proof>>, minted \in Nat, minted' \in Nat, minted <= minted'
  PROVE  PageType' /\ CallbackType'
<1>1. next \in Pages \ Waiting /\ next \notin {"config", "exchange"}
  BY DEF Plain, Waiting
<1>2. PageType'
  BY <1>1, GoToType
<1>3. CallbackType'
  BY <1>1, GoToTurns, CallbackQuiet DEF PageType
<1> QED
  BY <1>2, <1>3

LEMMA ShowPlain ==
  ASSUME PageType, CallbackType, NEW t \in Tab, NEW next \in Plain, page[t] # "shown",
         Show(t, next), UNCHANGED <<url, proof>>,
         minted \in Nat, minted' \in Nat, minted <= minted'
  PROVE  PageType' /\ CallbackType'
<1>1. next \in Pages \ Waiting /\ next \notin {"config", "exchange"}
  BY DEF Plain, Waiting
<1>2. PageType'
  BY <1>1, ShowKeepsType
<1>3. CallbackType'
  BY <1>1, GoToTurns, CallbackQuiet DEF PageType
<1> QED
  BY <1>2, <1>3

LEMMA ChQueryPlain ==
  ASSUME PageType, CallbackType, NEW t \in Tab, NEW next \in Waiting, page[t] # "shown",
         ChQuery(t, next), tok \in 0..minted, minted \in Nat, UNCHANGED <<minted, url, proof>>
  PROVE  PageType' /\ CallbackType' /\ tok' \in {0, tok}
<1>1. PageType' /\ tok' \in {0, tok}
  BY ChQueryType
<1>2. PICK after \in {"loading", next} : Turns(t, after)
  <2>1. CASE tok = 0
    BY <2>1, GoToTurns DEF ChQuery, ClearTokenAndRestart, PageType
  <2>2. CASE tok # 0
    BY <2>2 DEF ChQuery, Turns, PageType
  <2> QED
    BY <2>1, <2>2
<1>3. CallbackType'
  BY <1>2, CallbackQuiet DEF Waiting
<1> QED
  BY <1>1, <1>3

LEMMA RestartPlain ==
  ASSUME PageType, CallbackType, NEW t \in Tab, ClearTokenAndRestart(t),
         UNCHANGED <<minted, url, proof>>, minted \in Nat
  PROVE  PageType' /\ CallbackType' /\ tok' = 0
<1>1. GoTo(t, "loading") /\ tok' = 0 /\ minted' \in Nat /\ minted <= minted'
  BY DEF ClearTokenAndRestart
<1>2. "loading" \in Plain
  BY DEF Plain, Pages
<1> QED
  BY <1>1, <1>2, GoToPlain

-----------------------------------------------------------------------------
(* The steps of a page.                                                    *)

AllType == ServerType /\ TabType /\ PageType /\ CallbackType

LEMMA LoadType == ASSUME AllType, NEW t \in Tab, Load(t) PROVE AllType'
<1>1. UNCHANGED <<client, meta, server, attempts, tabVars, clicks, ghosts>>
  BY DEF Load
<1>2. page[t] # "shown" /\ minted \in Nat /\ minted' \in Nat /\ minted <= minted' /\ tok \in 0..minted
  BY <1>1 DEF Load, AllType, ServerType, server
<1>3. {"error", "card", "discover"} \subseteq Plain /\ "fetch" \in Waiting
  BY DEF Plain, Pages, Waiting
<1>4. PageType' /\ CallbackType' /\ tok' \in {0, tok}
  <2>1. CASE ChQuery(t, "fetch")
    BY <1>1, <1>2, <1>3, <2>1, ChQueryPlain DEF AllType, server, tabVars
  <2>2. ASSUME NEW next \in {"error", "card", "discover"}, Show(t, next), UNCHANGED tok
        PROVE  PageType' /\ CallbackType' /\ tok' \in {0, tok}
    BY <1>1, <1>2, <1>3, <2>2, ShowPlain DEF AllType, server, tabVars
  <2> QED
    BY <2>1, <2>2 DEF Load
<1>5. TabType'
  BY <1>1 DEF AllType, TabType, server, tabVars
<1>6. ServerType'
  BY <1>1, <1>2, <1>4 DEF AllType, ServerType, server, ghosts
<1> QED
  BY <1>4, <1>5, <1>6 DEF AllType

LEMMA AnswerType == ASSUME AllType, NEW t \in Tab, Answer(t) PROVE AllType'
<1>1. UNCHANGED <<client, meta, server, attempts, tabVars, clicks, ghosts>>
  BY DEF Answer
<1>2. page[t] # "shown" /\ minted \in Nat /\ minted' \in Nat /\ minted <= minted' /\ tok \in 0..minted
  BY <1>1 DEF Answer, AllType, ServerType, server
<1>3. {"error", "runtime", "shown"} \subseteq Plain /\ "list" \in Waiting
  BY DEF Plain, Pages, Waiting
<1>4. PageType' /\ CallbackType' /\ tok' \in {0, tok}
  <2>1. CASE ChQuery(t, "list")
    BY <1>1, <1>2, <1>3, <2>1, ChQueryPlain DEF AllType, server, tabVars
  <2>2. ASSUME NEW next \in {"error", "runtime", "shown"}, Show(t, next), UNCHANGED tok
        PROVE  PageType' /\ CallbackType' /\ tok' \in {0, tok}
    BY <1>1, <1>2, <1>3, <2>2, ShowPlain DEF AllType, server, tabVars
  <2>3. CASE ClearTokenAndRestart(t)
    BY <1>1, <1>2, <2>3, RestartPlain DEF AllType, server, tabVars
  <2> QED
    BY <2>1, <2>2, <2>3 DEF Answer
<1>5. TabType'
  BY <1>1 DEF AllType, TabType, server, tabVars
<1>6. ServerType'
  BY <1>1, <1>2, <1>4 DEF AllType, ServerType, server, ghosts
<1> QED
  BY <1>4, <1>5, <1>6 DEF AllType

LEMMA RuntimeLoadedType == ASSUME AllType, NEW t \in Tab, RuntimeLoaded(t) PROVE AllType'
<1>1. UNCHANGED <<storage, server, attempts, tabVars, clicks, ghosts>>
  BY DEF RuntimeLoaded
<1>2. page[t] # "shown" /\ minted \in Nat /\ minted' \in Nat /\ minted <= minted'
  BY <1>1 DEF RuntimeLoaded, AllType, ServerType, server
<1>3. {"error", "shown"} \subseteq Plain
  BY DEF Plain, Pages
<1>4. PageType' /\ CallbackType'
  BY <1>1, <1>2, <1>3, ShowPlain DEF RuntimeLoaded, AllType, server, tabVars
<1> QED
  BY <1>1, <1>4 DEF AllType, ServerType, TabType, storage, server, tabVars, ghosts

-----------------------------------------------------------------------------
(* The steps of a login.                                                   *)

LEMMA StartAuthType == ASSUME AllType, NEW t \in Tab, StartAuth(t) PROVE AllType'
<1>1. UNCHANGED <<tok, server, url, proof, clicks, ghosts>>
  BY DEF StartAuth
<1>2. page[t] # "shown" /\ minted \in Nat /\ minted' \in Nat /\ minted <= minted'
  BY <1>1 DEF StartAuth, AllType, ServerType, server
<1>3. {"error", "card", "provider"} \subseteq Plain
  BY DEF Plain, Pages
<1>4. CASE /\ Show(t, IF t \in IndexTabs THEN "card" ELSE "error")
           /\ UNCHANGED <<client, meta, attempts, state, verifier>>
  <2>1. PageType' /\ CallbackType'
    BY <1>1, <1>2, <1>3, <1>4, ShowPlain DEF AllType
  <2> QED
    BY <1>1, <1>4, <2>1 DEF AllType, ServerType, TabType, server, ghosts
<1>5. CASE /\ meta' = TRUE /\ client' = TRUE /\ attempts' = Append(attempts, t)
           /\ state' = [state EXCEPT ![t] = Len(attempts')]
           /\ verifier' = [verifier EXCEPT ![t] = Len(attempts')]
           /\ GoTo(t, "provider")
  <2>1. PageType' /\ CallbackType'
    BY <1>1, <1>2, <1>3, <1>5, GoToPlain DEF AllType
  <2>2. attempts \in Seq(Tab) /\ attempts' \in Seq(Tab) /\ Len(attempts') = Len(attempts) + 1
    BY <1>5 DEF AllType, ServerType
  <2>3. 0..Len(attempts) \subseteq 0..Len(attempts') /\ Len(attempts') \in 0..Len(attempts')
    BY <2>2
  <2>4. DOMAIN attempts \subseteq DOMAIN attempts'
    BY <2>2
  <2>5. codes' \in Seq(DOMAIN attempts')
    <3>1. codes \in Seq(DOMAIN attempts) /\ codes' = codes
      BY <1>1 DEF AllType, ServerType, server
    <3> QED
      BY <2>4, <3>1
  <2>6. TabType'
    BY <1>1, <1>5, <2>3 DEF AllType, TabType, server
  <2>7. ServerType'
    BY <1>1, <1>5, <2>2, <2>5 DEF AllType, ServerType, server, ghosts
  <2> QED
    BY <2>1, <2>6, <2>7 DEF AllType
<1> QED
  BY <1>4, <1>5 DEF StartAuth

\* Where the callback page ends up, and what it leaves in the tab.
Ends(t, code) ==
  \/ /\ state[t] # codes'[code] /\ UNCHANGED <<state, proof, verifier>>
     /\ \/ state[t] = 0 /\ GoTo(t, "nosession")
        \/ state[t] # 0 /\ GoTo(t, "mismatch")
  \/ /\ state[t] = codes'[code] /\ ~(verifier[t] # 0 /\ client /\ meta)
     /\ GoTo(t, "missing")
     /\ state' = [state EXCEPT ![t] = 0] /\ UNCHANGED verifier
     /\ proof' = [proof EXCEPT ![t] = verifier[t]]
  \/ /\ state[t] = codes'[code] /\ verifier[t] # 0 /\ client /\ meta
     /\ GoTo(t, "config")
     /\ state' = [state EXCEPT ![t] = 0] /\ verifier' = [verifier EXCEPT ![t] = 0]
     /\ proof' = [proof EXCEPT ![t] = verifier[t]]

LEMMA CallbackEnds ==
  ASSUME NEW t \in Tab, NEW code, codes'[code] # 0, Callback(t, code)
  PROVE  Ends(t, code) /\ url' = [url EXCEPT ![t] = code]
<1> DEFINE matches == state[t] = codes'[code]
           ready   == verifier[t] # 0 /\ client /\ meta
           end     == CASE state[t] = 0 -> "nosession"
                        [] state[t] # 0 /\ ~matches -> "mismatch"
                        [] matches /\ ~ready -> "missing"
                        [] matches /\ ready -> "config"
<1>1. /\ url' = [url EXCEPT ![t] = code] /\ GoTo(t, end)
      /\ state' = (IF matches THEN [state EXCEPT ![t] = 0] ELSE state)
      /\ proof' = (IF matches THEN [proof EXCEPT ![t] = verifier[t]] ELSE proof)
      /\ verifier' = (IF matches /\ ready THEN [verifier EXCEPT ![t] = 0] ELSE verifier)
  BY DEF Callback
<1>2. CASE state[t] = 0
  <2>1. ~matches /\ end = "nosession"
    BY <1>2
  <2> QED
    BY <1>1, <1>2, <2>1 DEF Ends
<1>3. CASE state[t] # 0 /\ ~matches
  <2>1. end = "mismatch"
    BY <1>3
  <2> QED
    BY <1>1, <1>3, <2>1 DEF Ends
<1>4. CASE state[t] # 0 /\ matches /\ ~ready
  <2>1. end = "missing"
    BY <1>4
  <2> QED
    BY <1>1, <1>4, <2>1 DEF Ends
<1>5. CASE state[t] # 0 /\ matches /\ ready
  <2>1. end = "config"
    BY <1>5
  <2> QED
    BY <1>1, <1>5, <2>1 DEF Ends
<1> QED
  BY <1>2, <1>3, <1>4, <1>5

LEMMA CallbackPageType ==
  ASSUME AllType, NEW t \in Tab, NEW code \in DOMAIN codes', codes' \in Seq(DOMAIN attempts),
         Len(codes) <= Len(codes'), Callback(t, code), UNCHANGED <<attempts, minted>>
  PROVE  TabType' /\ PageType' /\ CallbackType'
<1>1. codes'[code] \in DOMAIN attempts /\ code \in 1..Len(codes') /\ attempts \in Seq(Tab)
  BY DEF AllType, ServerType
<1>2. codes'[code] # 0 /\ code # 0
  BY <1>1
<1>3. Ends(t, code) /\ url' = [url EXCEPT ![t] = code]
  BY <1>2, CallbackEnds
<1>4. TabType'
  <2>1. 0..Len(codes) \subseteq 0..Len(codes') /\ code \in 0..Len(codes')
    BY <1>1 DEF AllType, ServerType
  <2>2. url' \in [Tab -> 0..Len(codes')]
    BY <1>3, <2>1 DEF AllType, TabType
  <2>3. 0 \in 0..Len(attempts) /\ verifier[t] \in 0..Len(attempts)
    BY <1>1 DEF AllType, TabType
  <2>4. /\ state' \in {state, [state EXCEPT ![t] = 0]}
        /\ verifier' \in {verifier, [verifier EXCEPT ![t] = 0]}
        /\ proof' \in {proof, [proof EXCEPT ![t] = verifier[t]]}
    BY <1>3 DEF Ends
  <2>5. /\ state \in [Tab -> 0..Len(attempts)] /\ verifier \in [Tab -> 0..Len(attempts)]
        /\ proof \in [Tab -> 0..Len(attempts)]
    BY DEF AllType, TabType
  <2>6. /\ state' \in [Tab -> 0..Len(attempts)] /\ verifier' \in [Tab -> 0..Len(attempts)]
        /\ proof' \in [Tab -> 0..Len(attempts)]
    BY <2>3, <2>4, <2>5
  <2> QED
    BY <2>2, <2>6 DEF TabType
<1>5. minted \in Nat /\ minted' \in Nat /\ minted <= minted'
  BY DEF AllType, ServerType
<1>6. PICK end \in {"nosession", "mismatch", "missing", "config"} :
        GoTo(t, end) /\ (end = "config" => proof' = [proof EXCEPT ![t] = verifier[t]] /\ verifier[t] # 0)
  BY <1>3 DEF Ends
<1>7. PageType'
  BY <1>5, <1>6, GoToType DEF AllType, Pages, Waiting
<1>8. Turns(t, end)
  BY <1>6, GoToTurns DEF AllType, PageType
<1>9. ASSUME NEW u \in Tab, page'[u] \in {"config", "exchange"}
      PROVE  url'[u] # 0 /\ proof'[u] # 0
  <2>1. CASE u = t
    BY <1>2, <1>3, <1>6, <1>8, <1>9, <2>1 DEF Turns, AllType, TabType
  <2>2. CASE u # t
    <3>1. page[u] \in {"config", "exchange"}
      BY <1>8, <1>9, <2>2 DEF Turns
    <3>2. url[u] # 0 /\ proof[u] # 0
      BY <3>1 DEF AllType, CallbackType
    <3>3. url'[u] = url[u] /\ proof'[u] = proof[u]
      BY <1>3, <2>2 DEF Ends, AllType, TabType
    <3> QED
      BY <3>2, <3>3
  <2> QED
    BY <2>1, <2>2
<1> QED
  BY <1>4, <1>7, <1>9 DEF CallbackType

LEMMA AuthorizeType ==
  ASSUME AllType, NEW t \in Tab, NEW a \in DOMAIN attempts, Authorize(t, a) PROVE AllType'
<1>1. UNCHANGED <<storage, minted, live, spent, attempts, clicks, ghosts>>
  BY DEF Authorize
<1>2. minted \in Nat /\ minted' \in Nat /\ minted <= minted'
  BY <1>1 DEF AllType, ServerType
<1>3. CASE GoTo(t, "failed") /\ UNCHANGED <<codes, tabVars>>
  <2>1. PageType' /\ CallbackType'
    BY <1>2, <1>3, GoToPlain DEF AllType, Plain, Pages, tabVars
  <2> QED
    BY <1>1, <1>3, <2>1 DEF AllType, ServerType, TabType, storage, ghosts, tabVars
<1>4. CASE codes' = Append(codes, a) /\ Callback(t, Len(codes'))
  <2>1. /\ codes' \in Seq(DOMAIN attempts) /\ Len(codes') = Len(codes) + 1
        /\ DOMAIN codes \subseteq DOMAIN codes' /\ Len(codes') \in DOMAIN codes' /\ Len(codes) \in Nat
    BY <1>4 DEF AllType, ServerType
  <2>2. TabType' /\ PageType' /\ CallbackType'
    BY <1>1, <1>4, <2>1, CallbackPageType
  <2> QED
    BY <1>1, <2>1, <2>2 DEF AllType, ServerType, storage, ghosts
<1> QED
  BY <1>3, <1>4 DEF Authorize

LEMMA PostType == ASSUME AllType, NEW t \in Tab, Post(t) PROVE AllType'
<1>1. UNCHANGED <<storage, minted, live, codes, attempts, tabVars, clicks, ghosts>>
  BY DEF Post
<1>2. page[t] = "config" /\ minted \in Nat /\ minted' \in Nat /\ minted <= minted'
  BY <1>1 DEF Post, AllType, ServerType
<1>3. url[t] # 0 /\ proof[t] # 0 /\ url[t] \in DOMAIN codes
  <2>1. url[t] # 0 /\ proof[t] # 0
    BY <1>2 DEF AllType, CallbackType
  <2>2. url[t] \in 0..Len(codes) /\ codes \in Seq(DOMAIN attempts)
    BY DEF AllType, TabType, ServerType
  <2> QED
    BY <2>1, <2>2
<1>4. spent' \subseteq DOMAIN codes
  BY <1>3 DEF Post, AllType, ServerType
<1>5. PICK next \in {"failed", "exchange"} : Show(t, next)
  BY DEF Post
<1>6. PageType'
  BY <1>2, <1>5, ShowKeepsType DEF AllType, Waiting, Pages
<1>7. CallbackType'
  BY <1>1, <1>3, <1>5, GoToTurns DEF AllType, PageType, CallbackType, Turns, tabVars
<1> QED
  BY <1>1, <1>4, <1>6, <1>7 DEF AllType, ServerType, TabType, storage, ghosts, tabVars

LEMMA TokenAnswerType == ASSUME AllType, NEW t \in Tab, TokenAnswer(t) PROVE AllType'
<1>1. UNCHANGED <<codes, spent, attempts, tabVars, clicks, wandered>>
  BY DEF TokenAnswer
<1>2. page[t] # "shown" /\ minted \in Nat /\ "loading" \in Plain /\ "failed" \in Plain
  BY DEF TokenAnswer, AllType, ServerType, Plain, Pages
<1>3. CASE /\ minted' = minted + 1 /\ live' = live \cup {minted'} /\ tok' = minted'
           /\ GoTo(t, "loading") /\ UNCHANGED <<client, meta, forgotten>>
  <2>1. minted' \in Nat /\ minted <= minted' /\ 1..minted \subseteq 1..minted' /\ minted' \in 1..minted'
    BY <1>2, <1>3
  <2>2. PageType' /\ CallbackType'
    BY <1>1, <1>2, <1>3, <2>1, GoToPlain DEF AllType, tabVars
  <2>3. ServerType'
    BY <1>1, <1>3, <2>1 DEF AllType, ServerType
  <2> QED
    BY <1>1, <2>2, <2>3 DEF AllType, TabType, tabVars
<1>4. CASE /\ Show(t, "failed") /\ UNCHANGED <<minted, live, meta>>
           /\ tok' \in {0, tok} /\ client' \in {FALSE, client} /\ forgotten' \in {TRUE, forgotten}
  <2>1. minted' \in Nat /\ minted <= minted'
    BY <1>2, <1>4
  <2>2. PageType' /\ CallbackType'
    BY <1>1, <1>2, <1>4, <2>1, ShowPlain DEF AllType, tabVars
  <2>3. /\ minted' \in Nat /\ live' \subseteq 1..minted' /\ meta' \in BOOLEAN
        /\ tok' \in 0..minted'
    BY <1>2, <1>4 DEF AllType, ServerType
  <2>4. client' \in BOOLEAN /\ forgotten' \in BOOLEAN
    BY <1>4, Zenon DEF AllType, ServerType
  <2>5. ServerType'
    BY <1>1, <2>3, <2>4 DEF AllType, ServerType
  <2> QED
    BY <1>1, <2>2, <2>5 DEF AllType, TabType, tabVars
<1> QED
  BY <1>3, <1>4 DEF TokenAnswer, storage

-----------------------------------------------------------------------------
(* The frame, the users, and time.                                         *)

\* The frame or the parent's side of it changes on a shown page.
LEMMA BridgeType ==
  ASSUME PageType, NEW t \in Tab, page[t] = "shown",
         frame' \in [Tab -> [Query -> Promises]], call' \in [Tab -> [Query -> Calls]],
         \A u \in Tab : u # t => frame'[u] = frame[u] /\ call'[u] = call[u],
         UNCHANGED <<page, carried, minted>>
  PROVE  PageType'
BY DEF PageType

LEMMA ChFetchType ==
  ASSUME AllType, NEW t \in Tab, NEW i \in Query, ChFetch(t, i) PROVE AllType'
<1>1. /\ page[t] = "shown" /\ frame' = [frame EXCEPT ![t][i] = "pending"]
      /\ call' = [call EXCEPT ![t][i].at = "posted"]
      /\ UNCHANGED <<storage, server, attempts, page, tabVars, carried, clicks, ghosts>>
  BY DEF ChFetch
<1>2. frame' \in [Tab -> [Query -> Promises]]
  BY <1>1 DEF AllType, PageType, Promises
<1>3. call[t] \in [Query -> Calls] /\ [call[t][i] EXCEPT !.at = "posted"] \in Calls
  <2>1. call[t] \in [Query -> Calls] /\ call[t][i] \in Calls
    BY DEF AllType, PageType
  <2> QED
    BY <2>1 DEF Calls
<1>4. call' = [call EXCEPT ![t] = [call[t] EXCEPT ![i] = [call[t][i] EXCEPT !.at = "posted"]]]
  BY <1>1
<1>5. call' \in [Tab -> [Query -> Calls]]
  BY <1>3, <1>4, Zenon DEF AllType, PageType
<1>6. \A u \in Tab : u # t => frame'[u] = frame[u] /\ call'[u] = call[u]
  BY <1>1, <1>4 DEF AllType, PageType
<1>7. PageType'
  BY <1>1, <1>2, <1>5, <1>6, BridgeType DEF AllType, server
<1> QED
  BY <1>1, <1>7 DEF AllType, ServerType, TabType, CallbackType, storage, server, ghosts, tabVars

LEMMA FrameTimeoutType ==
  ASSUME AllType, NEW t \in Tab, NEW i \in Query, FrameTimeout(t, i) PROVE AllType'
<1>1. /\ frame[t][i] = "pending" /\ frame' = [frame EXCEPT ![t][i] = "timedout"]
      /\ UNCHANGED <<storage, server, attempts, page, tabVars, carried, call, clicks, ghosts>>
  BY DEF FrameTimeout
<1>2. frame' \in [Tab -> [Query -> Promises]] /\ call' \in [Tab -> [Query -> Calls]]
  BY <1>1 DEF AllType, PageType, Promises
<1>3. page[t] = "shown"
  BY <1>1 DEF AllType, PageType
<1>4. \A u \in Tab : u # t => frame'[u] = frame[u] /\ call'[u] = call[u]
  BY <1>1 DEF AllType, PageType
<1>5. PageType'
  BY <1>1, <1>2, <1>3, <1>4, BridgeType DEF AllType, server
<1> QED
  BY <1>1, <1>5 DEF AllType, ServerType, TabType, CallbackType, storage, server, ghosts, tabVars

LEMMA DeliverType ==
  ASSUME AllType, NEW t \in Tab, NEW i \in Query, Deliver(t, i) PROVE AllType'
<1>1. /\ call[t][i].at = "replied" /\ call' = [call EXCEPT ![t][i] = NoCall]
      /\ frame' \in {frame, [frame EXCEPT ![t][i] = "answered"]}
      /\ UNCHANGED <<storage, server, attempts, page, tabVars, carried, clicks, ghosts>>
  BY DEF Deliver
<1>2. frame' \in [Tab -> [Query -> Promises]]
  <2>1. frame \in [Tab -> [Query -> Promises]]
    BY DEF AllType, PageType
  <2>2. [frame EXCEPT ![t][i] = "answered"] \in [Tab -> [Query -> Promises]]
    BY <2>1 DEF Promises
  <2> QED
    BY <1>1, <2>1, <2>2
<1>3. NoCall \in Calls
  BY DEF NoCall, Calls
<1>4. call' \in [Tab -> [Query -> Calls]]
  BY <1>1, <1>3, Zenon DEF AllType, PageType
<1>5. page[t] = "shown"
  BY <1>1 DEF AllType, PageType
<1>6. \A u \in Tab : u # t => frame'[u] = frame[u] /\ call'[u] = call[u]
  BY <1>1 DEF AllType, PageType
<1>7. PageType'
  BY <1>1, <1>2, <1>4, <1>5, <1>6, BridgeType DEF AllType, server
<1> QED
  BY <1>1, <1>7 DEF AllType, ServerType, TabType, CallbackType, storage, server, ghosts, tabVars

\* The parent's side moves on, for one query.
LEMMA CallType ==
  ASSUME AllType, NEW t \in Tab, NEW i \in Query, NEW c \in Calls, call[t][i].at # "none",
         call' = [call EXCEPT ![t][i] = c],
         UNCHANGED <<storage, page, carried, frame, server, attempts, tabVars, clicks, ghosts>>
  PROVE  AllType'
<1>1. call' \in [Tab -> [Query -> Calls]]
  BY Zenon DEF AllType, PageType
<1>2. page[t] = "shown"
  BY DEF AllType, PageType
<1>3. \A u \in Tab : u # t => frame'[u] = frame[u] /\ call'[u] = call[u]
  BY DEF AllType, PageType
<1>4. frame' \in [Tab -> [Query -> Promises]]
  BY DEF AllType, PageType
<1>5. PageType'
  BY <1>1, <1>2, <1>3, <1>4, BridgeType DEF AllType, server
<1> QED
  BY <1>5 DEF AllType, ServerType, TabType, CallbackType, storage, server, ghosts, tabVars

LEMMA RestartType ==
  ASSUME AllType, NEW t \in Tab, ClearTokenAndRestart(t),
         UNCHANGED <<client, meta, server, attempts, tabVars, ghosts>>, clicks' \in 0..MaxClicks
  PROVE  AllType'
<1>1. minted \in Nat /\ UNCHANGED <<minted, url, proof>>
  BY DEF AllType, ServerType, server, tabVars
<1>2. PageType' /\ CallbackType' /\ tok' = 0
  BY <1>1, RestartPlain DEF AllType
<1>3. TabType'
  BY DEF AllType, TabType, server, tabVars
<1>4. ServerType'
  BY <1>1, <1>2 DEF AllType, ServerType, server, ghosts
<1> QED
  BY <1>2, <1>3, <1>4 DEF AllType

LEMMA HandleType ==
  ASSUME AllType, NEW t \in Tab, NEW i \in Query, HandleIframeMessage(t, i) PROVE AllType'
<1>1. /\ call[t][i].at = "posted"
      /\ UNCHANGED <<client, meta, server, attempts, tabVars, clicks, ghosts>>
  BY DEF HandleIframeMessage
<1>2. CASE tok = 0
  BY <1>1, <1>2, RestartType DEF HandleIframeMessage, AllType, ServerType
<1>3. CASE tok # 0
  <2>1. [at |-> "fetching", tok |-> tok] \in Calls
    BY DEF Calls, AllType, ServerType
  <2>2. /\ call' = [call EXCEPT ![t][i] = [at |-> "fetching", tok |-> tok]]
        /\ UNCHANGED <<tok, page, carried, frame>>
    BY <1>3 DEF HandleIframeMessage
  <2> QED
    BY <1>1, <2>1, <2>2, CallType DEF storage
<1> QED
  BY <1>2, <1>3

LEMMA FetchAnswerType ==
  ASSUME AllType, NEW t \in Tab, NEW i \in Query, FetchAnswer(t, i) PROVE AllType'
<1>1. /\ call[t][i].at = "fetching"
      /\ UNCHANGED <<client, meta, server, attempts, tabVars, clicks, ghosts>>
  BY DEF FetchAnswer
<1>2. CASE ClearTokenAndRestart(t)
  BY <1>1, <1>2, RestartType DEF AllType, ServerType
<1>3. CASE call' = [call EXCEPT ![t][i].at = "replied"] /\ UNCHANGED <<tok, page, carried, frame>>
  <2>1. [call[t][i] EXCEPT !.at = "replied"] \in Calls
    <3>1. call[t][i] \in Calls
      BY DEF AllType, PageType
    <3> QED
      BY <3>1 DEF Calls
  <2>2. call' = [call EXCEPT ![t][i] = [call[t][i] EXCEPT !.at = "replied"]]
    BY <1>3, Zenon
  <2>3. UNCHANGED <<storage, page, carried, frame, server, attempts, tabVars, clicks, ghosts>>
    BY <1>1, <1>3 DEF storage
  <2>4. call[t][i].at # "none"
    BY <1>1
  <2> QED
    BY <2>1, <2>2, <2>3, <2>4, CallType, Zenon
<1> QED
  BY <1>2, <1>3 DEF FetchAnswer

LEMMA ClickType == ASSUME AllType, Click PROVE clicks' \in 0..MaxClicks
BY SessionAssumption DEF AllType, ServerType, Click

LEMMA UserType == ASSUME AllType, NEW t \in Tab, User(t) PROVE AllType'
<1>1. /\ clicks' \in 0..MaxClicks /\ UNCHANGED <<minted, live, spent, attempts>>
      /\ minted \in Nat /\ minted' \in Nat /\ minted <= minted'
  BY ClickType DEF User, SignIn, SignOut, LogInAgain, Open, GoBack, server, AllType, ServerType
<1>2. {"discover", "loading", "provider"} \subseteq Plain
  BY DEF Plain, Pages
<1>3. CASE SignIn(t)
  <2>1. PageType' /\ CallbackType'
    BY <1>1, <1>2, <1>3, ShowPlain DEF SignIn, AllType, tabVars
  <2> QED
    BY <1>1, <1>3, <2>1 DEF SignIn, AllType, ServerType, TabType, storage, server, ghosts, tabVars
<1>4. CASE SignOut(t)
  BY <1>1, <1>4, RestartType DEF SignOut
<1>5. CASE LogInAgain(t)
  <2>1. PageType' /\ CallbackType'
    BY <1>1, <1>2, <1>5, GoToPlain DEF LogInAgain, AllType, tabVars
  <2>2. client' \in BOOLEAN /\ meta' \in BOOLEAN /\ forgotten' \in BOOLEAN
    BY <1>5 DEF LogInAgain
  <2>3. tok' \in 0..minted'
    BY <1>1, <1>5 DEF LogInAgain
  <2>4. UNCHANGED <<server, attempts, tabVars, wandered>>
    BY <1>5 DEF LogInAgain
  <2>5. ServerType'
    BY <1>1, <2>2, <2>3, <2>4 DEF AllType, ServerType, server
  <2> QED
    BY <1>1, <2>1, <2>4, <2>5 DEF AllType, TabType, server, tabVars
<1>6. CASE Open(t)
  <2>1. PageType' /\ CallbackType'
    BY <1>1, <1>2, <1>6, GoToPlain DEF Open, AllType, tabVars
  <2> QED
    BY <1>1, <1>6, <2>1 DEF Open, AllType, ServerType, TabType, storage, server, ghosts, tabVars
<1>7. CASE GoBack(t)
  <2>1. /\ wandered' \subseteq Tab /\ codes' = codes
        /\ UNCHANGED <<storage, minted, live, spent, attempts, forgotten>>
    BY <1>7 DEF GoBack, AllType, ServerType
  <2>2. TabType' /\ PageType' /\ CallbackType'
    <3>1. CASE GoTo(t, "provider") /\ UNCHANGED <<codes, tabVars>>
      <4>1. PageType' /\ CallbackType'
        BY <1>1, <1>2, <3>1, GoToPlain DEF AllType, tabVars
      <4> QED
        BY <1>1, <3>1, <4>1 DEF AllType, TabType, tabVars
    <3>2. CASE url[t] # 0 /\ codes' = codes /\ Callback(t, url[t])
      <4>1. codes' \in Seq(DOMAIN attempts) /\ Len(codes) <= Len(codes') /\ url[t] \in 0..Len(codes)
        BY <3>2 DEF AllType, ServerType, TabType
      <4>2. url[t] \in DOMAIN codes'
        BY <3>2, <4>1
      <4> QED
        BY <1>1, <3>2, <4>1, <4>2, CallbackPageType
    <3> QED
      BY <1>7, <3>1, <3>2 DEF GoBack
  <2> QED
    BY <1>1, <2>1, <2>2 DEF AllType, ServerType, storage
<1> QED
  BY <1>3, <1>4, <1>5, <1>6, <1>7 DEF User

LEMMA ExpireType == ASSUME AllType, NEW n \in live, Expire(n) PROVE AllType'
<1>1. /\ live' \subseteq live
      /\ UNCHANGED <<storage, minted, codes, spent, attempts, page, tabVars, carried, bridge, clicks, ghosts>>
  BY DEF Expire
<1> QED
  BY <1>1 DEF AllType, ServerType, TabType, PageType, CallbackType, storage, tabVars, bridge, ghosts

LEMMA TypeIsAll == TypeOK <=> AllType
BY TypeParts, Zenon DEF AllType

LEMMA TypeIsAllNext == TypeOK' <=> AllType'
BY TypeIsAll, PTL

LEMMA TypeNext == TypeOK /\ [Next]_vars => TypeOK'
<1> SUFFICES ASSUME AllType, [Next]_vars PROVE AllType'
  BY TypeIsAll, TypeIsAllNext
<1>1. ASSUME NEW t \in Tab, PageStep(t) PROVE AllType'
  BY <1>1, LoadType, AnswerType, RuntimeLoadedType, StartAuthType, PostType, TokenAnswerType DEF PageStep
<1>2. ASSUME NEW t \in Tab, Provider(t) PROVE AllType'
  BY <1>2, AuthorizeType DEF Provider
<1>3. ASSUME NEW t \in Tab, Bridge(t) PROVE AllType'
  BY <1>3, ChFetchType, HandleType, FetchAnswerType, DeliverType, FrameTimeoutType DEF Bridge
<1>4. ASSUME NEW t \in Tab, User(t) PROVE AllType'
  BY <1>4, UserType
<1>5. ASSUME NEW n \in live, Expire(n) PROVE AllType'
  BY <1>5, ExpireType
<1>6. CASE UNCHANGED vars
  BY <1>6 DEF vars, storage, server, tabVars, bridge, ghosts, AllType, ServerType, TabType, PageType, CallbackType
<1> QED
  BY <1>1, <1>2, <1>3, <1>4, <1>5, <1>6 DEF Next

-----------------------------------------------------------------------------
(* Attempts, codes and what the callback page finds.                       *)

LoginInv == AttemptInv /\ ReadyInv /\ CallbackFailsForCause

\* Pages on which a login neither waits nor has ended badly.
Quiet == Pages \ {"config", "provider", "nosession", "mismatch", "missing"}

LEMMA LoginQuiet ==
  ASSUME LoginInv, NEW t \in Tab, NEW next \in Quiet, Turns(t, next),
         UNCHANGED <<attempts, codes, spent, tabVars, wandered>>,
         UNCHANGED <<client, meta, forgotten>> \/ forgotten'
  PROVE  LoginInv'
<1>1. \A u \in Tab : page'[u] = page[u] \/ page'[u] \in Quiet
  BY DEF Turns
<1>2. AttemptInv'
  BY <1>1 DEF LoginInv, AttemptInv, tabVars, Quiet
<1>3. ReadyInv'
  BY <1>1 DEF LoginInv, ReadyInv, tabVars, Quiet
<1>4. CallbackFailsForCause'
  BY <1>1 DEF LoginInv, CallbackFailsForCause, Quiet
<1> QED
  BY <1>2, <1>3, <1>4 DEF LoginInv

LEMMA LoginStill ==
  ASSUME LoginInv, UNCHANGED <<page, attempts, codes, spent, tabVars, client, meta, ghosts>>
  PROVE  LoginInv'
BY DEF LoginInv, AttemptInv, ReadyInv, CallbackFailsForCause, tabVars, ghosts

LEMMA ChQueryTurns ==
  ASSUME page \in [Tab -> Pages], NEW t \in Tab, NEW next, ChQuery(t, next)
  PROVE  \E after \in {"loading", next} : Turns(t, after)
<1>1. CASE tok = 0
  BY <1>1, GoToTurns DEF ChQuery, ClearTokenAndRestart
<1>2. CASE tok # 0
  BY <1>2 DEF ChQuery, Turns
<1> QED
  BY <1>1, <1>2

LEMMA LoadLogin == ASSUME AllType, LoginInv, NEW t \in Tab, Load(t) PROVE LoginInv'
<1>1. PICK next \in Quiet : Turns(t, next)
  <2>1. page \in [Tab -> Pages] /\ {"error", "card", "discover", "loading", "fetch"} \subseteq Quiet
    BY DEF AllType, PageType, Quiet, Pages
  <2> QED
    BY <2>1, ChQueryTurns, GoToTurns DEF Load
<1> QED
  BY <1>1, LoginQuiet DEF Load, server, ghosts

LEMMA AnswerLogin == ASSUME AllType, LoginInv, NEW t \in Tab, Answer(t) PROVE LoginInv'
<1>1. PICK next \in Quiet : Turns(t, next)
  <2>1. page \in [Tab -> Pages] /\ {"error", "runtime", "shown", "loading", "list"} \subseteq Quiet
    BY DEF AllType, PageType, Quiet, Pages
  <2> QED
    BY <2>1, ChQueryTurns, GoToTurns DEF Answer, ClearTokenAndRestart
<1> QED
  BY <1>1, LoginQuiet DEF Answer, server, ghosts

LEMMA RuntimeLogin == ASSUME AllType, LoginInv, NEW t \in Tab, RuntimeLoaded(t) PROVE LoginInv'
<1>1. PICK next \in Quiet : Turns(t, next)
  <2>1. page \in [Tab -> Pages] /\ {"error", "shown"} \subseteq Quiet
    BY DEF AllType, PageType, Quiet, Pages
  <2> QED
    BY <2>1, GoToTurns DEF RuntimeLoaded
<1> QED
  BY <1>1, LoginQuiet DEF RuntimeLoaded, server, storage, ghosts

LEMMA TokenAnswerLogin == ASSUME AllType, LoginInv, NEW t \in Tab, TokenAnswer(t) PROVE LoginInv'
<1>1. PICK next \in Quiet : Turns(t, next)
  <2>1. page \in [Tab -> Pages] /\ {"failed", "loading"} \subseteq Quiet
    BY DEF AllType, PageType, Quiet, Pages
  <2> QED
    BY <2>1, GoToTurns DEF TokenAnswer
<1>2. UNCHANGED <<client, meta, forgotten>> \/ forgotten'
  BY DEF TokenAnswer, storage
<1> QED
  BY <1>1, <1>2, LoginQuiet DEF TokenAnswer

LEMMA BridgeLogin == ASSUME AllType, LoginInv, NEW t \in Tab, Bridge(t) PROVE LoginInv'
<1>1. UNCHANGED <<client, meta, server, attempts, tabVars, ghosts>>
  BY DEF Bridge, ChFetch, HandleIframeMessage, FetchAnswer, Deliver, FrameTimeout, storage
<1>2. page' = page \/ Turns(t, "loading")
  BY GoToTurns DEF Bridge, ChFetch, HandleIframeMessage, FetchAnswer, Deliver, FrameTimeout,
                   ClearTokenAndRestart, AllType, PageType
<1>3. "loading" \in Quiet
  BY DEF Quiet, Pages
<1> QED
  BY <1>1, <1>2, <1>3, LoginQuiet, LoginStill DEF server, ghosts

\* A new attempt: its number was never in a code, in a tab or spent.
LEMMA StartAuthLogin == ASSUME AllType, LoginInv, NEW t \in Tab, StartAuth(t) PROVE LoginInv'
<1>1. UNCHANGED <<tok, server, url, proof, clicks, ghosts>>
  BY DEF StartAuth
<1>2. page \in [Tab -> Pages]
  BY DEF AllType, PageType
<1>3. CASE /\ Show(t, IF t \in IndexTabs THEN "card" ELSE "error")
           /\ UNCHANGED <<client, meta, attempts, state, verifier>>
  <2>1. {"card", "error"} \subseteq Quiet
    BY DEF Quiet, Pages
  <2> QED
    BY <1>1, <1>2, <1>3, <2>1, GoToTurns, LoginQuiet DEF server, tabVars, ghosts
<1>4. CASE /\ meta' = TRUE /\ client' = TRUE /\ attempts' = Append(attempts, t)
           /\ state' = [state EXCEPT ![t] = Len(attempts')]
           /\ verifier' = [verifier EXCEPT ![t] = Len(attempts')]
           /\ GoTo(t, "provider")
  <2> DEFINE a == Len(attempts')
  <2>1. /\ a = Len(attempts) + 1 /\ Len(attempts) \in Nat /\ attempts'[a] = t
        /\ \A b \in 1..Len(attempts) : attempts'[b] = attempts[b]
    BY <1>4 DEF AllType, ServerType
  <2>2. \A c \in DOMAIN codes : codes[c] \in 1..Len(attempts)
    BY DEF AllType, ServerType
  <2>3. /\ codes' = codes /\ spent' = spent /\ url' = url /\ proof' = proof
        /\ wandered' = wandered /\ forgotten' = forgotten
    BY <1>1 DEF server, ghosts
  <2>4. Turns(t, "provider")
    BY <1>2, <1>4, GoToTurns
  <2>5. ASSUME NEW u \in Tab
        PROVE  /\ state'[u] = (IF u = t THEN a ELSE state[u])
               /\ verifier'[u] = (IF u = t THEN a ELSE verifier[u])
               /\ state[u] \in 0..Len(attempts) /\ url[u] \in 0..Len(codes)
    BY <1>4 DEF AllType, TabType
  <2> HIDE DEF a
  <2>6. AttemptInv'
    <3> SUFFICES ASSUME NEW u \in Tab
                 PROVE  /\ state'[u] # 0 => attempts'[state'[u]] = u
                        /\ state'[u] # 0 /\ verifier'[u] # 0 => verifier'[u] = state'[u]
                        /\ url'[u] # 0 => attempts'[codes'[url'[u]]] = u
                        /\ \A c \in spent' : state'[u] # codes'[c]
                        /\ page'[u] = "config" =>
                             state'[u] = 0 /\ url'[u] \notin spent' /\ proof'[u] = codes'[url'[u]]
      BY DEF AttemptInv
    <3>1. state'[u] # 0 => attempts'[state'[u]] = u
      BY <2>1, <2>5 DEF LoginInv, AttemptInv
    <3>2. state'[u] # 0 /\ verifier'[u] # 0 => verifier'[u] = state'[u]
      BY <2>5 DEF LoginInv, AttemptInv
    <3>3. url'[u] # 0 => attempts'[codes'[url'[u]]] = u
      <4>1. url[u] # 0 => url[u] \in DOMAIN codes
        BY <2>5 DEF AllType, ServerType
      <4> QED
        BY <2>1, <2>2, <2>3, <4>1 DEF LoginInv, AttemptInv
    <3>4. \A c \in spent' : state'[u] # codes'[c]
      <4>1. \A c \in spent : codes[c] \in 1..Len(attempts)
        BY <2>2 DEF AllType, ServerType
      <4> QED
        BY <2>1, <2>3, <2>5, <4>1 DEF LoginInv, AttemptInv
    <3>5. page'[u] = "config" =>
            state'[u] = 0 /\ url'[u] \notin spent' /\ proof'[u] = codes'[url'[u]]
      BY <2>3, <2>4, <2>5 DEF LoginInv, AttemptInv, Turns
    <3> QED
      BY <3>1, <3>2, <3>3, <3>4, <3>5
  <2>7. ReadyInv'
    <3>1. ASSUME NEW u \in Tab, page'[u] = "provider", u \notin wandered'
          PROVE  /\ state'[u] # 0 /\ verifier'[u] = state'[u]
                 /\ \A b \in state'[u] + 1..Len(attempts') : attempts'[b] # u
      <4>1. CASE u = t
        <5>1. state'[u] = a /\ verifier'[u] = a /\ a \in Nat /\ Len(attempts') = a /\ a # 0
          BY <2>1, <2>5, <4>1 DEF a
        <5> QED
          BY <5>1
      <4>2. CASE u # t
        <5>1. page[u] = "provider" /\ u \notin wandered
          BY <2>3, <2>4, <3>1, <4>2 DEF Turns
        <5>2. /\ state[u] # 0 /\ verifier[u] = state[u]
              /\ \A b \in state[u] + 1..Len(attempts) : attempts[b] # u
          BY <5>1 DEF LoginInv, ReadyInv
        <5>3. Len(attempts') = Len(attempts) + 1
          BY <2>1 DEF a
        <5>4. ASSUME NEW b \in state[u] + 1..Len(attempts') PROVE attempts'[b] # u
          <6>1. b = Len(attempts') \/ b \in state[u] + 1..Len(attempts)
            BY <2>1, <2>5, <5>3
          <6>2. b \in state[u] + 1..Len(attempts) => b \in 1..Len(attempts)
            BY <2>1, <2>5
          <6> QED
            BY <2>1, <4>2, <5>2, <6>1, <6>2 DEF a
        <5> QED
          BY <2>5, <4>2, <5>2, <5>4
      <4> QED
        BY <4>1, <4>2
    <3> QED
      BY <1>4, <3>1 DEF ReadyInv
  <2>8. CallbackFailsForCause'
    BY <2>3, <2>4 DEF LoginInv, CallbackFailsForCause, Turns
  <2> QED
    BY <2>6, <2>7, <2>8 DEF LoginInv
<1> QED
  BY <1>3, <1>4 DEF StartAuth

\* The callback page with a code of the tab's own: the code of the attempt
\* the provider was asked for, or any code after the user went back.
LEMMA CallbackLogin ==
  ASSUME AllType, LoginInv, NEW t \in Tab, NEW code \in DOMAIN codes',
         codes' \in Seq(DOMAIN attempts), attempts[codes'[code]] = t,
         \A c \in DOMAIN codes : c \in DOMAIN codes' /\ codes'[c] = codes[c],
         Callback(t, code), UNCHANGED <<attempts, spent, client, meta, forgotten>>,
         wandered \subseteq wandered',
         \/ t \in wandered'
         \/ /\ page[t] = "provider"
            /\ \A b \in codes'[code] + 1..Len(attempts) : attempts[b] # t
  PROVE  LoginInv'
<1>1. codes'[code] \in 1..Len(attempts) /\ Len(attempts) \in Nat /\ code # 0
  BY DEF AllType, ServerType
<1>2. codes'[code] # 0
  BY <1>1
<1>3. Ends(t, code) /\ url' = [url EXCEPT ![t] = code]
  BY <1>2, CallbackEnds
<1>4. PICK end \in {"nosession", "mismatch", "missing", "config"} :
        /\ GoTo(t, end)
        /\ end \in {"nosession", "mismatch"} => state[t] # codes'[code]
        /\ end = "missing" => state[t] = codes'[code] /\ ~(verifier[t] # 0 /\ client /\ meta)
        /\ end = "config" =>
             /\ state[t] = codes'[code] /\ verifier[t] # 0
             /\ state' = [state EXCEPT ![t] = 0] /\ proof' = [proof EXCEPT ![t] = verifier[t]]
  BY <1>3 DEF Ends
<1>5. Turns(t, end)
  BY <1>4, GoToTurns DEF AllType, PageType
<1>6. /\ state' \in {state, [state EXCEPT ![t] = 0]}
      /\ verifier' \in {verifier, [verifier EXCEPT ![t] = 0]}
      /\ proof' \in {proof, [proof EXCEPT ![t] = verifier[t]]}
  BY <1>3 DEF Ends
<1>7. /\ state'[t] \in {state[t], 0} /\ verifier'[t] \in {verifier[t], 0} /\ url'[t] = code
      /\ \A u \in Tab : u # t => /\ state'[u] = state[u] /\ verifier'[u] = verifier[u]
                                 /\ url'[u] = url[u] /\ proof'[u] = proof[u]
  BY <1>3, <1>6 DEF AllType, TabType
<1>8. AttemptInv'
  <2> SUFFICES ASSUME NEW u \in Tab
               PROVE  /\ state'[u] # 0 => attempts'[state'[u]] = u
                      /\ state'[u] # 0 /\ verifier'[u] # 0 => verifier'[u] = state'[u]
                      /\ url'[u] # 0 => attempts'[codes'[url'[u]]] = u
                      /\ \A c \in spent' : state'[u] # codes'[c]
                      /\ page'[u] = "config" =>
                           state'[u] = 0 /\ url'[u] \notin spent' /\ proof'[u] = codes'[url'[u]]
    BY DEF AttemptInv
  <2>1. \A c \in spent : codes'[c] = codes[c] /\ codes'[c] # 0
    BY DEF AllType, ServerType
  <2>2. CASE u # t
    <3>1. url[u] # 0 => url[u] \in DOMAIN codes
      BY DEF AllType, ServerType, TabType
    <3>2. page'[u] = page[u]
      BY <1>5, <2>2 DEF Turns
    <3>3. page[u] = "config" => url[u] # 0
      BY DEF AllType, CallbackType
    <3> QED
      BY <1>7, <2>1, <2>2, <3>1, <3>2, <3>3 DEF LoginInv, AttemptInv
  <2>3. CASE u = t
    <3>1. page'[t] = end
      BY <1>5 DEF Turns
    <3>2. ASSUME end = "config"
          PROVE  state'[t] = 0 /\ code \notin spent /\ proof'[t] = codes'[code]
      <4>1. state[t] = codes'[code] /\ verifier[t] # 0 /\ state'[t] = 0 /\ proof'[t] = verifier[t]
        BY <1>4, <3>2 DEF AllType, TabType
      <4>2. verifier[t] = state[t] /\ \A c \in spent : state[t] # codes[c]
        BY <1>2, <4>1 DEF LoginInv, AttemptInv
      <4> QED
        BY <2>1, <4>1, <4>2
    <3>3. state'[t] # 0 => attempts[state'[t]] = t
      BY <1>7 DEF LoginInv, AttemptInv
    <3>4. state'[t] # 0 /\ verifier'[t] # 0 => verifier'[t] = state'[t]
      BY <1>7 DEF LoginInv, AttemptInv
    <3>5. \A c \in spent : state'[t] # codes'[c]
      BY <1>7, <2>1 DEF LoginInv, AttemptInv
    <3> QED
      BY <1>7, <2>3, <3>1, <3>2, <3>3, <3>4, <3>5
  <2> QED
    BY <2>2, <2>3
<1>9. ReadyInv'
  BY <1>5, <1>7 DEF LoginInv, ReadyInv, Turns
<1>10. ASSUME t \notin wandered'
       PROVE  end \notin {"nosession", "mismatch"} /\ (end = "missing" => forgotten)
  <2>1. page[t] = "provider" /\ t \notin wandered
    BY <1>10
  <2>2. /\ state[t] # 0 /\ verifier[t] = state[t] /\ attempts[state[t]] = t
        /\ \A b \in state[t] + 1..Len(attempts) : attempts[b] # t
    BY <2>1 DEF LoginInv, ReadyInv, AttemptInv
  <2>3. state[t] \in 1..Len(attempts)
    BY <1>1, <2>2 DEF AllType, TabType
  <2>4. state[t] = codes'[code]
    <3> DEFINE a == codes'[code]
               s == state[t]
    <3>1. a \in 1..Len(attempts) /\ s \in 1..Len(attempts) /\ Len(attempts) \in Nat
      BY <1>1, <2>3
    <3>2. attempts[a] = t /\ attempts[s] = t
      BY <2>2
    <3>3. a \notin s + 1..Len(attempts) /\ s \notin a + 1..Len(attempts)
      BY <1>10, <2>2, <3>2
    <3> HIDE DEF a, s
    <3>4. s = a
      BY <3>1, <3>3
    <3> QED
      BY <3>4 DEF a, s
  <2>5. attempts # <<>>
    BY <1>1
  <2>6. (client /\ meta) \/ forgotten
    BY <2>5 DEF LoginInv, ReadyInv
  <2> QED
    BY <1>4, <2>2, <2>4, <2>6
<1>11. CallbackFailsForCause'
  <2> SUFFICES ASSUME NEW u \in Tab
               PROVE  /\ page'[u] \in {"nosession", "mismatch"} => u \in wandered'
                      /\ page'[u] = "missing" => forgotten' \/ u \in wandered'
    BY DEF CallbackFailsForCause
  <2>1. CASE u = t
    BY <1>5, <1>10, <2>1 DEF Turns
  <2>2. CASE u # t
    BY <1>5, <2>2 DEF Turns, LoginInv, CallbackFailsForCause
  <2> QED
    BY <2>1, <2>2
<1> QED
  BY <1>8, <1>9, <1>11 DEF LoginInv

LEMMA AuthorizeLogin ==
  ASSUME AllType, LoginInv, NEW t \in Tab, NEW a \in DOMAIN attempts, Authorize(t, a)
  PROVE  LoginInv'
<1>1. /\ page[t] = "provider" /\ attempts[a] = t
      /\ t \in wandered \/ \A b \in a + 1..Len(attempts) : attempts[b] # t
      /\ UNCHANGED <<storage, minted, live, spent, attempts, clicks, ghosts>>
  BY DEF Authorize
<1>2. CASE GoTo(t, "failed") /\ UNCHANGED <<codes, tabVars>>
  <2>1. "failed" \in Quiet /\ page \in [Tab -> Pages]
    BY DEF Quiet, Pages, AllType, PageType
  <2> QED
    BY <1>1, <1>2, <2>1, GoToTurns, LoginQuiet DEF storage, ghosts
<1>3. CASE codes' = Append(codes, a) /\ Callback(t, Len(codes'))
  <2>1. /\ codes' \in Seq(DOMAIN attempts) /\ Len(codes') \in DOMAIN codes' /\ codes'[Len(codes')] = a
        /\ \A c \in DOMAIN codes : c \in DOMAIN codes' /\ codes'[c] = codes[c]
    BY <1>3 DEF AllType, ServerType
  <2>2. UNCHANGED <<client, meta, forgotten, wandered>>
    BY <1>1 DEF storage, ghosts
  <2> QED
    BY <1>1, <1>3, <2>1, <2>2, CallbackLogin
<1> QED
  BY <1>2, <1>3 DEF Authorize

LEMMA PostLogin == ASSUME AllType, LoginInv, NEW t \in Tab, Post(t) PROVE LoginInv'
<1>1. /\ page[t] = "config" /\ spent' \in {spent, spent \cup {url[t]}}
      /\ UNCHANGED <<storage, minted, live, codes, attempts, tabVars, clicks, ghosts>>
  BY DEF Post
<1>2. PICK next \in {"failed", "exchange"} : Turns(t, next)
  BY GoToTurns DEF Post, AllType, PageType
<1>3. AttemptInv'
  <2>1. url[t] # 0 /\ url[t] \in DOMAIN codes /\ codes[url[t]] # 0 /\ state[t] = 0
    <3>1. url[t] # 0 /\ state[t] = 0
      BY <1>1 DEF AllType, CallbackType, LoginInv, AttemptInv
    <3>2. url[t] \in 0..Len(codes) /\ codes \in Seq(DOMAIN attempts)
      BY DEF AllType, TabType, ServerType
    <3>3. url[t] \in DOMAIN codes
      BY <3>1, <3>2
    <3>4. codes[url[t]] \in DOMAIN attempts /\ attempts \in Seq(Tab)
      BY <3>2, <3>3 DEF AllType, ServerType
    <3> QED
      BY <3>1, <3>3, <3>4
  <2>2. attempts[codes[url[t]]] = t
    BY <2>1 DEF LoginInv, AttemptInv
  <2>3. ASSUME NEW u \in Tab
        PROVE  /\ \A c \in spent' : state[u] # codes[c]
               /\ page'[u] = "config" =>
                    state[u] = 0 /\ url[u] \notin spent' /\ proof[u] = codes[url[u]]
    <3>1. CASE u = t
      BY <1>1, <1>2, <2>1, <3>1 DEF LoginInv, AttemptInv, Turns
    <3>2. CASE u # t
      <4>1. state[u] # codes[url[t]]
        BY <2>1, <2>2, <3>2 DEF LoginInv, AttemptInv
      <4>2. page[u] = "config" => url[u] # 0
        BY DEF AllType, CallbackType
      <4>3. page[u] = "config" => url[u] # url[t]
        BY <2>2, <3>2, <4>2 DEF LoginInv, AttemptInv
      <4> QED
        BY <1>1, <1>2, <3>2, <4>1, <4>3 DEF LoginInv, AttemptInv, Turns
    <3> QED
      BY <3>1, <3>2
  <2> QED
    BY <1>1, <2>3 DEF LoginInv, AttemptInv, tabVars
<1>4. ReadyInv' /\ CallbackFailsForCause'
  BY <1>1, <1>2 DEF LoginInv, ReadyInv, CallbackFailsForCause, Turns, storage, tabVars, ghosts
<1> QED
  BY <1>3, <1>4 DEF LoginInv

LEMMA GoBackLogin == ASSUME AllType, LoginInv, NEW t \in Tab, GoBack(t) PROVE LoginInv'
<1>1. /\ wandered' = wandered \cup {t}
      /\ UNCHANGED <<storage, minted, live, spent, attempts, forgotten>>
  BY DEF GoBack
<1>2. CASE GoTo(t, "provider") /\ UNCHANGED <<codes, tabVars>>
  <2>1. Turns(t, "provider")
    BY <1>2, GoToTurns DEF AllType, PageType
  <2>2. AttemptInv'
    BY <1>1, <1>2, <2>1 DEF LoginInv, AttemptInv, Turns, tabVars
  <2>3. ReadyInv' /\ CallbackFailsForCause'
    BY <1>1, <1>2, <2>1 DEF LoginInv, ReadyInv, CallbackFailsForCause, Turns, storage, tabVars
  <2> QED
    BY <2>2, <2>3 DEF LoginInv
<1>3. CASE url[t] # 0 /\ codes' = codes /\ Callback(t, url[t])
  <2>1. /\ codes' \in Seq(DOMAIN attempts) /\ url[t] \in DOMAIN codes'
        /\ attempts[codes'[url[t]]] = t
    <3>1. codes \in Seq(DOMAIN attempts) /\ url[t] \in 0..Len(codes)
      BY DEF AllType, ServerType, TabType
    <3> QED
      BY <1>3, <3>1 DEF LoginInv, AttemptInv
  <2>2. UNCHANGED <<client, meta, forgotten>> /\ t \in wandered' /\ wandered \subseteq wandered'
    BY <1>1 DEF storage
  <2>3. \A c \in DOMAIN codes : c \in DOMAIN codes' /\ codes'[c] = codes[c]
    BY <1>3
  <2> QED
    BY <1>1, <1>3, <2>1, <2>2, <2>3, CallbackLogin
<1> QED
  BY <1>2, <1>3 DEF GoBack

LEMMA UserLogin == ASSUME AllType, LoginInv, NEW t \in Tab, User(t) PROVE LoginInv'
<1>1. page \in [Tab -> Pages] /\ {"discover", "loading"} \subseteq Quiet
  BY DEF AllType, PageType, Quiet, Pages
<1>2. CASE SignIn(t)
  BY <1>1, <1>2, GoToTurns, LoginQuiet DEF SignIn, server, storage, ghosts
<1>3. CASE SignOut(t)
  BY <1>1, <1>3, GoToTurns, LoginQuiet DEF SignOut, ClearTokenAndRestart, server, ghosts
<1>4. CASE LogInAgain(t)
  <2>1. forgotten' /\ Turns(t, "loading") /\ UNCHANGED <<attempts, codes, spent, tabVars, wandered>>
    BY <1>1, <1>4, GoToTurns DEF LogInAgain, server
  <2> QED
    BY <1>1, <2>1, LoginQuiet
<1>5. CASE Open(t)
  BY <1>1, <1>5, GoToTurns, LoginQuiet DEF Open, server, storage, ghosts
<1>6. CASE GoBack(t)
  BY <1>6, GoBackLogin
<1> QED
  BY <1>2, <1>3, <1>4, <1>5, <1>6 DEF User

LEMMA LoginNext == TypeOK /\ LoginInv /\ [Next]_vars => LoginInv'
<1> SUFFICES ASSUME AllType, LoginInv, [Next]_vars PROVE LoginInv'
  BY TypeIsAll
<1>1. ASSUME NEW t \in Tab, PageStep(t) PROVE LoginInv'
  BY <1>1, LoadLogin, AnswerLogin, RuntimeLogin, StartAuthLogin, PostLogin, TokenAnswerLogin DEF PageStep
<1>2. ASSUME NEW t \in Tab, Provider(t) PROVE LoginInv'
  BY <1>2, AuthorizeLogin DEF Provider
<1>3. ASSUME NEW t \in Tab, Bridge(t) PROVE LoginInv'
  BY <1>3, BridgeLogin
<1>4. ASSUME NEW t \in Tab, User(t) PROVE LoginInv'
  BY <1>4, UserLogin
<1>5. ASSUME NEW n \in live, Expire(n) PROVE LoginInv'
  BY <1>5, LoginStill DEF Expire, storage
<1>6. CASE UNCHANGED vars
  BY <1>6, LoginStill DEF vars, storage, server
<1> QED
  BY <1>1, <1>2, <1>3, <1>4, <1>5, <1>6 DEF Next

-----------------------------------------------------------------------------
(* Tokens.                                                                 *)

\* A step that starts no query of a frame: it leaves the parent's calls
\* alone or ends those of one tab.
Lost(t) == call' \in {call, [call EXCEPT ![t] = [i \in Query |-> NoCall]]}

LEMMA MovesLose ==
  ASSUME NEW t \in Tab, NEW next, GoTo(t, next) \/ Show(t, next) PROVE Lost(t)
BY DEF GoTo, Show, Lost, bridge

\* The token is kept, given up or replaced by a new one.
TokenMoves == \/ tok' \in {0, tok} /\ minted' = minted
              \/ minted' = minted + 1 /\ tok' = minted'

LEMMA LostTokens ==
  ASSUME AllType, TokenInv, NEW t \in Tab, Lost(t), TokenMoves
  PROVE  TokenInv'
<1>1. minted \in Nat /\ minted' \in Nat /\ minted <= minted' /\ tok' \in {0, minted'}
  BY DEF AllType, ServerType, TokenInv, TokenMoves
<1>2. ASSUME NEW u \in Tab, NEW i \in Query
      PROVE  call'[u][i] \in {call[u][i], NoCall}
  <2>1. call \in [Tab -> [Query -> Calls]]
    BY DEF AllType, PageType
  <2>2. CASE call' = call
    BY <2>2
  <2>3. CASE call' = [call EXCEPT ![t] = [j \in Query |-> NoCall]]
    <3>1. u = t => call'[u] = [j \in Query |-> NoCall]
      BY <2>1, <2>3, Zenon
    <3>2. u # t => call'[u] = call[u]
      BY <2>1, <2>3, Zenon
    <3> QED
      BY <3>1, <3>2, Zenon
  <2> QED
    BY <2>2, <2>3 DEF Lost
<1>3. ASSUME NEW u \in Tab, NEW i \in Query
      PROVE  /\ call'[u][i].tok <= minted'
             /\ call'[u][i].at = "fetching" => call'[u][i].tok # 0
  <2>1. call[u][i] \in Calls /\ call[u][i].tok \in Nat
    BY DEF AllType, PageType, Calls
  <2>2. call[u][i].tok <= minted /\ (call[u][i].at = "fetching" => call[u][i].tok # 0)
    BY DEF TokenInv
  <2>3. NoCall.tok = 0 /\ NoCall.at = "none"
    BY DEF NoCall
  <2>4. CASE call'[u][i] = call[u][i]
    BY <1>1, <2>1, <2>2, <2>4
  <2>5. CASE call'[u][i] = NoCall
    BY <1>1, <2>3, <2>5
  <2> QED
    BY <1>2, <2>4, <2>5
<1> QED
  BY <1>1, <1>3 DEF TokenInv

LEMMA ChQueryLost ==
  ASSUME NEW t \in Tab, NEW next, ChQuery(t, next)
  PROVE  Lost(t) /\ tok' \in {0, tok} /\ (tok # 0 => tok' = tok)
<1>1. CASE tok = 0
  BY <1>1, MovesLose DEF ChQuery, ClearTokenAndRestart
<1>2. CASE tok # 0
  BY <1>2 DEF ChQuery, bridge, Lost
<1> QED
  BY <1>1, <1>2

LEMMA PageStepTokens ==
  ASSUME AllType, TokenInv, NEW t \in Tab, PageStep(t) PROVE TokenInv'
<1>1. CASE Load(t)
  BY <1>1, ChQueryLost, MovesLose, LostTokens DEF Load, server, TokenMoves
<1>2. CASE Answer(t)
  BY <1>2, ChQueryLost, MovesLose, LostTokens DEF Answer, ClearTokenAndRestart, server, TokenMoves
<1>3. CASE RuntimeLoaded(t)
  BY <1>3, MovesLose, LostTokens DEF RuntimeLoaded, storage, server, TokenMoves
<1>4. CASE StartAuth(t)
  BY <1>4, MovesLose, LostTokens DEF StartAuth, server, TokenMoves
<1>5. CASE Post(t)
  BY <1>5, MovesLose, LostTokens DEF Post, storage, TokenMoves
<1>6. CASE TokenAnswer(t)
  BY <1>6, MovesLose, LostTokens DEF TokenAnswer, storage, TokenMoves
<1> QED
  BY <1>1, <1>2, <1>3, <1>4, <1>5, <1>6 DEF PageStep

LEMMA CallbackLost == ASSUME NEW t \in Tab, NEW code, Callback(t, code) PROVE Lost(t)
BY MovesLose DEF Callback

LEMMA LoginTokens ==
  ASSUME AllType, TokenInv, NEW t \in Tab, Provider(t) \/ User(t) PROVE TokenInv'
<1>1. CASE Provider(t)
  <2>1. PICK a \in DOMAIN attempts : Authorize(t, a)
    BY <1>1 DEF Provider
  <2>2. Lost(t)
    BY <2>1, MovesLose, CallbackLost DEF Authorize
  <2>3. TokenMoves
    BY <2>1 DEF Authorize, storage, TokenMoves
  <2> QED
    BY <2>2, <2>3, LostTokens
<1>2. CASE SignIn(t)
  BY <1>2, MovesLose, LostTokens DEF SignIn, storage, server, TokenMoves
<1>3. CASE SignOut(t)
  BY <1>3, MovesLose, LostTokens DEF SignOut, ClearTokenAndRestart, server, TokenMoves
<1>4. CASE LogInAgain(t)
  BY <1>4, MovesLose, LostTokens DEF LogInAgain, server, TokenMoves
<1>5. CASE Open(t)
  BY <1>5, MovesLose, LostTokens DEF Open, storage, server, TokenMoves
<1>6. CASE GoBack(t)
  <2>1. Lost(t)
    BY <1>6, MovesLose, CallbackLost DEF GoBack
  <2>2. TokenMoves
    BY <1>6 DEF GoBack, storage, TokenMoves
  <2> QED
    BY <2>1, <2>2, LostTokens
<1> QED
  BY <1>1, <1>2, <1>3, <1>4, <1>5, <1>6 DEF User

\* One call of the parent moves on, with the token it has or takes.
LEMMA OneCall ==
  ASSUME AllType, TokenInv, NEW t \in Tab, NEW i \in Query, NEW c \in Calls,
         call' = [call EXCEPT ![t][i] = c], UNCHANGED <<tok, minted>>,
         c.tok <= minted, c.at = "fetching" => c.tok # 0
  PROVE  TokenInv'
<1>1. ASSUME NEW u \in Tab, NEW j \in Query PROVE call'[u][j] \in {call[u][j], c}
  BY DEF AllType, PageType
<1> QED
  BY <1>1 DEF TokenInv

LEMMA BridgeTokens ==
  ASSUME AllType, TokenInv, NEW t \in Tab, Bridge(t) PROVE TokenInv'
<1>1. PICK i \in Query : \/ ChFetch(t, i) \/ HandleIframeMessage(t, i) \/ FetchAnswer(t, i)
                         \/ Deliver(t, i) \/ FrameTimeout(t, i)
  BY DEF Bridge
<1>2. /\ call[t][i] \in Calls /\ call[t][i].tok \in Nat /\ call[t][i].tok <= minted
      /\ minted \in Nat /\ tok \in 0..minted
  BY DEF AllType, PageType, ServerType, Calls, TokenInv
<1>3. /\ [call[t][i] EXCEPT !.at = "posted"] = [at |-> "posted", tok |-> call[t][i].tok]
      /\ [call[t][i] EXCEPT !.at = "replied"] = [at |-> "replied", tok |-> call[t][i].tok]
  BY <1>2 DEF Calls
<1>4. ASSUME NEW at \in {"posted", "replied"},
             call' = [call EXCEPT ![t][i].at = at], UNCHANGED <<tok, minted>>
      PROVE  TokenInv'
  <2> DEFINE c == [at |-> at, tok |-> call[t][i].tok]
  <2>1. c \in Calls /\ c.tok <= minted /\ (c.at = "fetching" => c.tok # 0)
    BY <1>2 DEF Calls
  <2>2. call' = [call EXCEPT ![t][i] = c]
    BY <1>2, <1>3, <1>4
  <2> HIDE DEF c
  <2> QED
    BY <1>4, <2>1, <2>2, OneCall
<1>5. CASE ChFetch(t, i)
  BY <1>4, <1>5 DEF ChFetch, storage, server
<1>6. CASE HandleIframeMessage(t, i)
  <2>1. CASE tok = 0
    BY <1>6, <2>1, MovesLose, LostTokens DEF HandleIframeMessage, ClearTokenAndRestart, server, TokenMoves
  <2>2. CASE tok # 0
    <3> DEFINE c == [at |-> "fetching", tok |-> tok]
    <3>1. c \in Calls /\ c.tok <= minted /\ (c.at = "fetching" => c.tok # 0)
      BY <1>2, <2>2 DEF Calls
    <3>2. call' = [call EXCEPT ![t][i] = c] /\ UNCHANGED <<tok, minted>>
      BY <1>6, <2>2 DEF HandleIframeMessage, server
    <3> HIDE DEF c
    <3> QED
      BY <3>1, <3>2, OneCall
  <2> QED
    BY <2>1, <2>2
<1>7. CASE FetchAnswer(t, i)
  <2>1. CASE ClearTokenAndRestart(t)
    BY <1>7, <2>1, MovesLose, LostTokens DEF FetchAnswer, ClearTokenAndRestart, server, TokenMoves
  <2>2. CASE ~ClearTokenAndRestart(t)
    BY <1>4, <1>7, <2>2 DEF FetchAnswer, server
  <2> QED
    BY <2>1, <2>2
<1>8. CASE Deliver(t, i)
  <2>1. NoCall \in Calls /\ NoCall.tok <= minted /\ NoCall.at # "fetching"
    BY <1>2 DEF NoCall, Calls
  <2> QED
    BY <1>8, <2>1, OneCall DEF Deliver, storage, server
<1>9. CASE FrameTimeout(t, i)
  BY <1>9, LostTokens DEF FrameTimeout, storage, server, Lost, TokenMoves
<1> QED
  BY <1>1, <1>5, <1>6, <1>7, <1>8, <1>9

LEMMA TokenNext == TypeOK /\ TokenInv /\ [Next]_vars => TokenInv'
<1> SUFFICES ASSUME AllType, TokenInv, [Next]_vars PROVE TokenInv'
  BY TypeIsAll
<1>1. ASSUME UNCHANGED <<tok, minted, call>> PROVE TokenInv'
  BY <1>1 DEF TokenInv
<1>2. ASSUME NEW n \in live, Expire(n) PROVE TokenInv'
  BY <1>1, <1>2 DEF Expire, storage, bridge
<1>3. CASE UNCHANGED vars
  BY <1>1, <1>3 DEF vars, storage, server, bridge
<1> QED
  BY <1>2, <1>3, PageStepTokens, LoginTokens, BridgeTokens DEF Next

-----------------------------------------------------------------------------
(* Theorems.                                                               *)

LEMMA InvInit == Init => Inv
<1> SUFFICES ASSUME Init PROVE Inv
  OBVIOUS
<1>1. minted \in Nat /\ tok = minted /\ live \subseteq 1..minted
  BY DEF Init
<1>2. \A t \in Tab : /\ page[t] = "loading" /\ state[t] = 0 /\ verifier[t] = 0 /\ url[t] = 0
                     /\ proof[t] = 0 /\ carried[t] = 0
                     /\ \A i \in Query : frame[t][i] = "none" /\ call[t][i] = NoCall
  BY DEF Init
<1>3. attempts = <<>> /\ codes = <<>> /\ spent = {} /\ wandered = {}
  BY DEF Init
<1>4. NoCall.at = "none" /\ NoCall.tok = 0
  BY DEF NoCall
<1>5. ServerType
  <2>1. client \in BOOLEAN /\ meta \in BOOLEAN /\ forgotten \in BOOLEAN
    BY DEF Init
  <2>2. attempts \in Seq(Tab) /\ codes \in Seq(DOMAIN attempts)
    BY <1>3
  <2>3. clicks \in 0..MaxClicks
    BY SessionAssumption DEF Init
  <2> QED
    BY <1>1, <1>3, <2>1, <2>2, <2>3 DEF ServerType
<1>6. TabType
  BY <1>3 DEF Init, TabType
<1>7. PageType
  <2>1. [i \in Query |-> "none"] \in [Query -> Promises]
    BY DEF Promises
  <2>2. [i \in Query |-> NoCall] \in [Query -> Calls]
    BY DEF Calls, NoCall
  <2>3. frame \in [Tab -> [Query -> Promises]] /\ call \in [Tab -> [Query -> Calls]]
    BY <2>1, <2>2, Zenon DEF Init
  <2>4. page \in [Tab -> Pages] /\ carried \in [Tab -> 0..minted]
    BY <1>1 DEF Init, Pages
  <2> QED
    BY <1>2, <1>4, <2>3, <2>4 DEF PageType
<1>8. CallbackType
  BY <1>2 DEF CallbackType
<1>9. AttemptInv /\ ReadyInv /\ CallbackFailsForCause
  BY <1>2, <1>3 DEF AttemptInv, ReadyInv, CallbackFailsForCause
<1>10. TokenInv
  BY <1>1, <1>2, <1>4 DEF TokenInv
<1> QED
  BY <1>5, <1>6, <1>7, <1>8, <1>9, <1>10, TypeParts DEF Inv

\* Inv is inductive: each part rests on the types, the login's also on what
\* the tabs' storage remembers of their attempts.
LEMMA InvNext == Inv /\ [Next]_vars => Inv'
BY TypeNext, LoginNext, TokenNext DEF Inv, LoginInv

LEMMA InvAlways == Spec => []Inv
BY InvInit, InvNext, PTL DEF Spec

\* Every page that waits for ClickHouse has sent a token, every page that
\* exchanges a code has one, and promises belong to shown frames (spa.js).
THEOREM TypeCorrect == Spec => []TypeOK
BY InvAlways, PTL DEF Inv

\* The callback page (oauth-callback.html:51) complains of a missing session,
\* another state or a missing verifier only when somebody gave cause for it.
THEOREM CallbackCauses == Spec => []CallbackFailsForCause
BY InvAlways, PTL DEF Inv

\* No authorization code is posted to the token endpoint twice, and none
\* with another attempt's verifier (oauth-callback.html:61 and 68).
THEOREM CodesSentOnce == Spec => CodeSentOnce
<1>1. Inv /\ [Next]_vars =>
        [\A t \in Tab : page[t] = "config" /\ page'[t] = "exchange" =>
           url[t] \notin spent /\ proof[t] = codes[url[t]]]_vars
  BY DEF Inv, AttemptInv
<1> QED
  BY <1>1, InvAlways, PTL DEF Spec, CodeSentOnce

\* A page that was refused held an earlier token than the accepted one.
LEMMA RefusedIsEarlier ==
  ASSUME Inv, NEW t \in Tab, tok \in live, NEW n \in Sent(t), n \notin live
  PROVE  n < tok
<1>1. AllType /\ TokenInv
  BY TypeParts DEF Inv, AllType
<1>2. minted \in Nat /\ live \subseteq 1..minted /\ tok = minted
  BY <1>1 DEF AllType, ServerType, TokenInv
<1>3. n \in Nat /\ n <= minted
  <2>1. CASE n = carried[t]
    BY <1>1, <1>2, <2>1 DEF AllType, PageType
  <2>2. CASE n # carried[t]
    <3>1. PICK i \in Query : n = call[t][i].tok
      BY <2>2 DEF Sent
    <3>2. call[t][i].tok \in Nat /\ call[t][i].tok <= minted
      BY <1>1 DEF AllType, PageType, Calls, TokenInv
    <3> QED
      BY <3>1, <3>2
  <2> QED
    BY <2>1, <2>2
<1> QED
  BY <1>2, <1>3

\* The stored token, while ClickHouse accepts it, goes only with the user's
\* consent, with the provider's refusal of the client, or because a page
\* (spa.js:241, 442) was refused an older one.
LEMMA SignOutNext ==
  ASSUME Inv, [Next]_vars, tok \in live, tok' = 0, clicks' = clicks
  PROVE  \E t \in Tab :
           /\ page'[t] # page[t]
           /\ page[t] = "exchange" \/ \E n \in Sent(t) : n < tok /\ n \notin live
<1>1. AllType /\ TokenInv
  BY TypeParts DEF Inv, AllType
<1>2. tok # 0 /\ tok' # tok /\ clicks \in Nat /\ page \in [Tab -> Pages]
  BY <1>1 DEF AllType, ServerType, PageType
<1>3. ASSUME NEW t \in Tab, PageStep(t)
      PROVE  /\ page'[t] # page[t]
             /\ page[t] = "exchange" \/ \E n \in Sent(t) : n < tok /\ n \notin live
  <2>1. CASE Answer(t)
    <3>1. carried[t] # 0 /\ carried[t] \in Sent(t) /\ page[t] # "loading"
      BY <1>1, <2>1 DEF Answer, Sent, AllType, PageType
    <3>2. Refused(carried[t]) /\ ClearTokenAndRestart(t)
      BY <1>2, <2>1 DEF Answer, ChQuery
    <3>3. page'[t] = "loading"
      BY <1>2, <3>2 DEF ClearTokenAndRestart, GoTo
    <3>4. carried[t] < tok /\ carried[t] \notin live
      BY <3>1, <3>2, RefusedIsEarlier DEF Refused
    <3> QED
      BY <3>1, <3>3, <3>4
  <2>2. CASE TokenAnswer(t)
    <3>1. page[t] = "exchange" /\ minted' # 0
      BY <1>1, <1>2, <2>2 DEF TokenAnswer, AllType, ServerType, storage
    <3>2. page'[t] \in {"loading", "failed"}
      BY <1>2, <2>2 DEF TokenAnswer, GoTo, Show
    <3> QED
      BY <3>1, <3>2
  <2>3. CASE Load(t) \/ RuntimeLoaded(t) \/ StartAuth(t) \/ Post(t)
    BY <1>2, <2>3 DEF Load, RuntimeLoaded, StartAuth, Post, ChQuery, storage
  <2> QED
    BY <1>3, <2>1, <2>2, <2>3 DEF PageStep
<1>4. ASSUME NEW t \in Tab, Bridge(t)
      PROVE  /\ page'[t] # page[t]
             /\ page[t] = "exchange" \/ \E n \in Sent(t) : n < tok /\ n \notin live
  <2>1. PICK i \in Query : \/ ChFetch(t, i) \/ HandleIframeMessage(t, i) \/ FetchAnswer(t, i)
                           \/ Deliver(t, i) \/ FrameTimeout(t, i)
    BY <1>4 DEF Bridge
  <2>2. FetchAnswer(t, i) /\ Refused(call[t][i].tok) /\ ClearTokenAndRestart(t)
    BY <1>2, <2>1 DEF ChFetch, HandleIframeMessage, FetchAnswer, Deliver, FrameTimeout, storage
  <2>3. call[t][i].at = "fetching"
    BY <2>2 DEF FetchAnswer
  <2>4. page[t] = "shown" /\ call[t][i].tok \in Sent(t)
    BY <1>1, <2>3 DEF AllType, PageType, TokenInv, Sent
  <2>5. page'[t] = "loading"
    BY <1>2, <2>2 DEF ClearTokenAndRestart, GoTo
  <2>6. call[t][i].tok < tok /\ call[t][i].tok \notin live
    BY <2>2, <2>4, RefusedIsEarlier DEF Refused
  <2> QED
    BY <2>4, <2>5, <2>6
<1>5. ASSUME NEW t \in Tab, Provider(t) PROVE FALSE
  BY <1>2, <1>5 DEF Provider, Authorize, storage
<1>6. ASSUME NEW t \in Tab, User(t) PROVE FALSE
  BY <1>2, <1>6 DEF User, SignIn, SignOut, LogInAgain, Open, GoBack, Click
<1>7. ASSUME NEW n \in live, Expire(n) PROVE FALSE
  BY <1>2, <1>7 DEF Expire, storage
<1>8. CASE UNCHANGED vars
  BY <1>2, <1>8 DEF vars, storage
<1> QED
  BY <1>3, <1>4, <1>5, <1>6, <1>7, <1>8 DEF Next

\* An accepted token leaves the storage for no other reason (spa.js:241).
THEOREM StaleRefusalsOnly == Spec => OnlyStaleRefusalsSignOut
<1>1. Inv /\ [Next]_vars =>
        [(tok \in live) /\ tok' = 0 /\ clicks' = clicks =>
           \E t \in Tab :
             /\ page'[t] # page[t]
             /\ page[t] = "exchange" \/ \E n \in Sent(t) : n < tok /\ n \notin live]_vars
  BY SignOutNext
<1> QED
  BY <1>1, InvAlways, PTL DEF Spec, OnlyStaleRefusalsSignOut
=============================================================================
