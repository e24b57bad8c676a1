--------------------------- MODULE MCServerProofs ---------------------------
(***************************************************************************)
(* First part: one exchange per state, and credentials only from live      *)
(* authorizations, for every number of callbacks, states, codes and        *)
(* advertisers and whatever the crashes.  Second part: each part of the    *)
(* suite MCServer has the properties that its run checks, from the proofs  *)
(* about its component.                                                    *)
(***************************************************************************)
EXTENDS MCServer, TLAPS

\* A request that is being served is there, with a code once it may be exchanged.
Requested ==
    /\ TypeOK
    /\ \A c \in Callback : pc[c] # "idle" => req[c] \in Request
    /\ \A c \in Callback :
          pc[c] \in {"exchange", "check", "write", "rename"} => req[c].code \in Code

(* A state is worth one exchange in all: as a row, with the one callback   *)
(* that deleted the row, or spent.  The transaction that has read a row is *)
(* the only one, so its row is there until it deletes it.                  *)
Holds(c) == pc[c] \in {"intent", "exchange"}
Unspent ==
    /\ \A c \in Callback : pc[c] = "delete" => conn = c /\ req[c].state \in rows
    /\ \A c \in Callback : Holds(c) =>
          /\ exchanged[req[c].state] = 0
          /\ req[c].state \notin rows
          /\ intents[req[c].state] # None
    /\ \A c, d \in Callback : Holds(c) /\ Holds(d) /\ req[c].state = req[d].state => c = d
    /\ \A s \in rows : exchanged[s] = 0 /\ intents[s] # None
    /\ \A s \in State : intents[s] = None => exchanged[s] = 0
    /\ StateUsedOnce

USE ConnectionAssumption, NoneAssumption

-----------------------------------------------------------------------------
LEMMA RequestedInit == Init => Requested
  BY DEF Init, Requested, TypeOK

LEMMA RequestedBegin ==
    ASSUME Requested, NEW s \in State, NEW url \in Redirects, BeginOAuth(s, url)
    PROVE  Requested'
<1>1. [expires |-> now + Ttl, redirect |-> url] \in Intent
  BY DEF Requested, TypeOK, Intent
<1> QED
  BY <1>1 DEF BeginOAuth, listener, Requested, TypeOK

LEMMA RequestedReceive ==
    ASSUME Requested, NEW c \in Callback, NEW s \in State, NEW code \in Code \cup {None},
           Receive(c, s, code)
    PROVE  Requested'
<1>1. [state |-> s, code |-> code, at |-> now, next |-> 1] \in Request
  BY DEF Requested, TypeOK, Request
<1> QED
  BY <1>1 DEF Receive, Requested, TypeOK

LEMMA RequestedStep ==
    ASSUME Requested, NEW c \in Callback,
           \/ ReadState(c) \/ DeleteState(c) \/ DeleteFails(c) \/ CheckIntent(c)
           \/ CheckToken(c) \/ WriteTemporary(c)
    PROVE  Requested'
<1>1. pc[c] # "idle"
  BY DEF ReadState, DeleteState, DeleteFails, CheckIntent, CheckToken, WriteTemporary
<1>2. CASE ReadState(c)
  BY <1>1, <1>2 DEF ReadState, Answer, Requested, TypeOK
<1>3. CASE DeleteState(c)
  BY <1>1, <1>3 DEF DeleteState, Answer, Requested, TypeOK
<1>4. CASE DeleteFails(c)
  BY <1>1, <1>4 DEF DeleteFails, Answer, Requested, TypeOK
<1>5. CASE CheckIntent(c)
  <2>1. req[c].code \in Code \cup {None}
    BY <1>1 DEF Requested, Request
  <2>2. (pc'[c] = "exchange" /\ req[c].code \in Code) \/ pc'[c] = "failure"
    BY <1>5, <2>1 DEF CheckIntent, Answer, Requested, TypeOK
  <2> QED
    BY <1>1, <1>5, <2>2 DEF CheckIntent, Answer, Requested, TypeOK
<1>6. CASE CheckToken(c)
  BY <1>1, <1>6 DEF CheckToken, Answer, Requested, TypeOK
<1>7. CASE WriteTemporary(c)
  BY <1>1, <1>7 DEF WriteTemporary, Answer, Requested, TypeOK
<1> QED
  BY <1>2, <1>3, <1>4, <1>5, <1>6, <1>7

LEMMA RequestedExchange ==
    ASSUME Requested, NEW c \in Callback, Exchange(c)
    PROVE  Requested'
<1>1. req[c] \in Request /\ pc[c] = "exchange"
  BY DEF Exchange, Requested
<1>2. req[c].state \in State
  BY <1>1 DEF Request
<1>3. exchanged' \in [State -> Nat]
  BY <1>2 DEF Exchange, Requested, TypeOK
<1>4. grants' \subseteq [request : Request, redirect : Redirects]
  BY <1>1 DEF Exchange, Requested, TypeOK
<1> QED
  BY <1>1, <1>3, <1>4 DEF Exchange, Answer, Requested, TypeOK

LEMMA RequestedRename ==
    ASSUME Requested, NEW c \in Callback, Rename(c)
    PROVE  Requested'
<1>1. req[c] \in Request /\ pc[c] = "rename" /\ req[c].code \in Code
  BY DEF Rename, Requested
<1>2. Credentials(c) \in Credential
  BY <1>1 DEF Credentials, Credential
<1>3. vault' \in [Advertiser -> Credential \cup {None}]
  BY <1>2 DEF Rename, Requested, TypeOK
<1> DEFINE later == [req[c] EXCEPT !.next = @ + 1]
<1>4. later \in Request /\ later.code = req[c].code
  <2>1. later = [state |-> req[c].state, code |-> req[c].code, at |-> req[c].at,
                 next |-> req[c].next + 1]
    BY <1>1 DEF Request
  <2>2. /\ req[c].state \in State /\ req[c].code \in Code \cup {None}
        /\ req[c].at \in Nat /\ req[c].next \in Nat
    BY <1>1 DEF Request
  <2> QED
    BY <2>1, <2>2 DEF Request
<1>5. req' = req \/ req' = [req EXCEPT ![c] = later]
  BY DEF Rename
<1> HIDE DEF later
<1>6. /\ req' \in [Callback -> Request \cup {None}]
      /\ req'[c] \in Request /\ req'[c].code = req[c].code
      /\ \A d \in Callback \ {c} : req'[d] = req[d]
  <2>1. req \in [Callback -> Request \cup {None}]
    BY DEF Requested, TypeOK
  <2>2. CASE req' = req
    BY <1>1, <2>1, <2>2
  <2>3. CASE req' = [req EXCEPT ![c] = later]
    <3>1. req'[c] = later /\ \A d \in Callback \ {c} : req'[d] = req[d]
      BY <2>1, <2>3
    <3>2. req' \in [Callback -> Request \cup {None}]
      BY <1>4, <2>1, <2>3
    <3> QED
      BY <1>4, <3>1, <3>2
  <2> QED
    BY <1>5, <2>2, <2>3
<1>7. \/ Answer(c, "success") \/ Answer(c, "write") \/ Answer(c, "failure")
  BY DEF Rename
<1>8. /\ pc' \in [Callback -> {"idle", "begin", "delete", "intent", "exchange",
                               "check", "write", "rename", "success", "failure", "lost"}]
      /\ \A d \in Callback \ {c} : pc'[d] = pc[d]
  BY <1>7 DEF Answer, Requested, TypeOK
<1> QED
  BY <1>1, <1>3, <1>6, <1>8 DEF Rename, Requested, TypeOK

LEMMA RequestedCrash ==
    ASSUME Requested, Crash
    PROVE  Requested'
  BY DEF Crash, Requested, TypeOK

LEMMA RequestedNext == Requested /\ [Next]_vars => Requested'
<1> SUFFICES ASSUME Requested, [Next]_vars PROVE Requested'
  OBVIOUS
<1>1. CASE UNCHANGED vars
  BY <1>1 DEF vars, Requested, TypeOK
<1>2. CASE Tick
  BY <1>2 DEF Tick, listener, Requested, TypeOK
<1>3. ASSUME NEW s \in State, NEW url \in Redirects, BeginOAuth(s, url) PROVE Requested'
  BY <1>3, RequestedBegin
<1>4. ASSUME NEW c \in Callback, NEW s \in State, NEW code \in Code \cup {None}, Receive(c, s, code)
      PROVE  Requested'
  BY <1>4, RequestedReceive
<1>5. ASSUME NEW c \in Callback, Serve(c) PROVE Requested'
  BY <1>5, RequestedStep, RequestedExchange, RequestedRename DEF Serve
<1>6. CASE Crash
  BY <1>6, RequestedCrash
<1> QED
  BY <1>1, <1>2, <1>3, <1>4, <1>5, <1>6 DEF Next

\* The store, the listener and the vault hold what their types say.
THEOREM TypeCorrect == Spec => []TypeOK
<1>1. Requested => TypeOK
  BY DEF Requested
<1> QED
  BY <1>1, RequestedInit, RequestedNext, PTL DEF Spec

-----------------------------------------------------------------------------
LEMMA UnspentInit == Init => Unspent
  BY DEF Init, Unspent, Holds, StateUsedOnce

LEMMA UnspentBegin ==
    ASSUME Requested, Unspent, NEW s \in State, NEW url \in Redirects, BeginOAuth(s, url)
    PROVE  Unspent'
<1>1. /\ intents[s] = None /\ rows' = rows \cup {s}
      /\ pc' = pc /\ req' = req /\ conn' = conn /\ exchanged' = exchanged
      /\ \A t \in State \ {s} : intents'[t] = intents[t]
      /\ intents'[s] # None
  <2>1. [expires |-> now + Ttl, redirect |-> url] \in Intent
    BY DEF Requested, TypeOK, Intent
  <2> QED
    BY <2>1 DEF BeginOAuth, listener, Requested, TypeOK
<1>2. \A c \in Callback : Holds(c) => req[c].state \in State /\ req[c].state # s
  BY <1>1 DEF Requested, Request, Unspent, Holds
<1>3. \A c, d \in Callback : Holds(c)' = Holds(c)
  BY <1>1 DEF Holds
<1> QED
  BY <1>1, <1>2, <1>3 DEF Unspent, Holds, StateUsedOnce, Requested, TypeOK

\* The connection is free, so no other callback is about to delete a row.
LEMMA UnspentRead ==
    ASSUME Requested, Unspent, NEW c \in Callback, ReadState(c)
    PROVE  Unspent'
<1>1. \A d \in Callback \ {c} : pc'[d] = pc[d]
  BY DEF ReadState, Answer, Requested, TypeOK
<1>2. pc'[c] \in {"delete", "failure"}
  BY DEF ReadState, Answer, Requested, TypeOK
<1>3. pc'[c] = "delete" => conn' = c /\ req[c].state \in rows
  BY DEF ReadState, Answer, Requested, TypeOK
<1>4. \A d \in Callback : pc[d] # "delete"
  BY DEF ReadState, Unspent
<1> QED
  BY <1>1, <1>2, <1>3, <1>4 DEF ReadState, Unspent, Holds, StateUsedOnce

LEMMA UnspentDelete ==
    ASSUME Requested, Unspent, NEW c \in Callback, DeleteState(c)
    PROVE  Unspent'
<1>1. /\ pc[c] = "delete" /\ pc'[c] = "intent"
      /\ \A d \in Callback \ {c} : pc'[d] = pc[d]
      /\ rows' = rows \ {req[c].state} /\ req' = req /\ intents' = intents
      /\ exchanged' = exchanged
  BY DEF DeleteState, Answer, Requested, TypeOK
<1>2. req[c].state \in rows
  BY <1>1 DEF Unspent
<1>3. \A d \in Callback \ {c} : pc[d] # "delete"
  BY <1>1 DEF Unspent
<1>4. \A d \in Callback : Holds(d) => req[d].state # req[c].state
  BY <1>2 DEF Unspent
<1>5. \A d \in Callback \ {c} : Holds(d)' = Holds(d)
  BY <1>1 DEF Holds
<1> QED
  BY <1>1, <1>2, <1>3, <1>4, <1>5 DEF Unspent, Holds, StateUsedOnce

\* A step that leaves rows and exchanges alone, or deletes a row without
\* a success, spends nothing.
LEMMA UnspentKept ==
    ASSUME Requested, Unspent, NEW c \in Callback,
           rows' \subseteq rows, UNCHANGED <<intents, exchanged>>,
           \A d \in Callback \ {c} : pc'[d] = pc[d] /\ req'[d] = req[d],
           req'[c].state = req[c].state,
           Holds(c)' => Holds(c),
           pc'[c] # "delete",
           \/ pc[c] = "delete"
           \/ rows' = rows /\ conn' = conn
    PROVE  Unspent'
<1>1. \A d \in Callback : Holds(d)' => Holds(d)
  BY DEF Holds
<1>2. \A d \in Callback : req'[d].state = req[d].state
  OBVIOUS
<1>3. \A d \in Callback : pc'[d] = "delete" => conn' = d /\ req'[d].state \in rows'
  BY DEF Unspent
<1> QED
  BY <1>1, <1>2, <1>3 DEF Unspent, Holds, StateUsedOnce

LEMMA UnspentExchange ==
    ASSUME Requested, Unspent, NEW c \in Callback, Exchange(c)
    PROVE  Unspent'
<1> DEFINE s == req[c].state
<1>1. /\ pc[c] = "exchange" /\ pc'[c] \in {"check", "failure"}
      /\ \A d \in Callback \ {c} : pc'[d] = pc[d]
      /\ rows' = rows /\ req' = req /\ intents' = intents /\ conn' = conn
  BY DEF Exchange, Answer, Requested, TypeOK
<1>2. s \in State
  BY <1>1 DEF Requested, Request
<1>3. /\ exchanged[s] = 0 /\ s \notin rows /\ intents[s] # None
  BY <1>1 DEF Unspent, Holds
<1>4. exchanged'[s] = 1 /\ \A t \in State \ {s} : exchanged'[t] = exchanged[t]
  BY <1>2, <1>3 DEF Exchange, Requested, TypeOK
<1>5. \A d \in Callback : Holds(d)' => Holds(d) /\ d # c /\ req[d].state # s
  BY <1>1 DEF Unspent, Holds
<1>6. \A d \in Callback : Holds(d) => req[d].state \in State
  BY DEF Requested, Request, Holds
<1>7. rows \subseteq State
  BY DEF Requested, TypeOK
<1> QED
  BY <1>1, <1>2, <1>3, <1>4, <1>5, <1>6, <1>7 DEF Unspent, Holds, StateUsedOnce

LEMMA UnspentServe ==
    ASSUME Requested, Unspent, NEW c \in Callback, Serve(c)
    PROVE  Unspent'
<1>1. CASE DeleteFails(c)
  BY <1>1, UnspentKept DEF DeleteFails, Answer, Holds, Requested, TypeOK
<1>2. CASE CheckIntent(c)
  BY ZenonT(60), <1>2, UnspentKept DEF CheckIntent, Answer, Holds, Requested, TypeOK
<1>3. CASE CheckToken(c)
  BY <1>3, UnspentKept DEF CheckToken, Answer, Holds, Requested, TypeOK
<1>4. CASE WriteTemporary(c)
  BY <1>4, UnspentKept DEF WriteTemporary, Answer, Holds, Requested, TypeOK
<1>5. CASE Rename(c)
  <2>1. /\ \A d \in Callback \ {c} : pc'[d] = pc[d] /\ req'[d] = req[d]
        /\ pc'[c] \in {"success", "write", "failure"}
    BY <1>5 DEF Rename, Answer, Requested, TypeOK
  <2>2. req[c] \in Request
    BY <1>5 DEF Rename, Requested
  <2>3. req'[c].state = req[c].state
    BY <1>5, <2>2 DEF Rename, Request, Requested, TypeOK
  <2> QED
    BY <1>5, <2>1, <2>3, UnspentKept DEF Rename, Holds
<1> QED
  BY <1>1, <1>2, <1>3, <1>4, <1>5, UnspentRead, UnspentDelete, UnspentExchange DEF Serve

LEMMA UnspentNext == Requested /\ Unspent /\ [Next]_vars => Unspent'
<1> SUFFICES ASSUME Requested, Unspent, [Next]_vars PROVE Unspent'
  OBVIOUS
<1>1. CASE UNCHANGED vars
  BY <1>1 DEF vars, Unspent, Holds, StateUsedOnce
<1>2. CASE Tick
  BY <1>2 DEF Tick, listener, Unspent, Holds, StateUsedOnce
<1>3. ASSUME NEW s \in State, NEW url \in Redirects, BeginOAuth(s, url) PROVE Unspent'
  BY <1>3, UnspentBegin
<1>4. ASSUME NEW c \in Callback, NEW s \in State, NEW code \in Code \cup {None}, Receive(c, s, code)
      PROVE  Unspent'
  <2>1. /\ \A d \in Callback \ {c} : pc'[d] = pc[d] /\ req'[d] = req[d]
        /\ pc'[c] = "begin"
    BY <1>4 DEF Receive, Requested, TypeOK
  <2> QED
    BY <1>4, <2>1 DEF Receive, Unspent, Holds, StateUsedOnce
<1>5. ASSUME NEW c \in Callback, Serve(c) PROVE Unspent'
  BY <1>5, UnspentServe
<1>6. CASE Crash
  <2>1. \A c \in Callback : pc'[c] # "delete" /\ ~Holds(c)'
    BY <1>6 DEF Crash, Holds
  <2> QED
    BY <1>6, <2>1 DEF Crash, Unspent, StateUsedOnce
<1> QED
  BY <1>1, <1>2, <1>3, <1>4, <1>5, <1>6 DEF Next

\* However many callbacks carry a state, and wherever the listener dies, it is
\* exchanged at most once (store/oauth.go:91).
THEOREM OneExchange == Spec => []StateUsedOnce
<1>1. Init => Requested /\ Unspent
  BY RequestedInit, UnspentInit
<1>2. Requested /\ Unspent /\ [Next]_vars => (Requested /\ Unspent)'
  BY RequestedNext, UnspentNext
<1>3. Unspent => StateUsedOnce
  BY DEF Unspent
<1> QED
  BY <1>1, <1>2, <1>3, PTL DEF Spec

-----------------------------------------------------------------------------
(* What may still be written is covered by a grant, and a grant by a state *)
(* that was offered for the listener's URL and had not expired.            *)
Covers(g) ==
    /\ intents[g.request.state] # None
    /\ g.request.at < intents[g.request.state].expires
    /\ g.redirect = intents[g.request.state].redirect
GrantedTo(code) == \E g \in grants : g.request.code = code /\ Covers(g)
Names(code, a) == \E i \in 1..Len(Advertisers[code]) : Advertisers[code][i] = a
Authorized ==
    /\ \A c \in Callback : pc[c] = "exchange" =>
          /\ req[c].at < intents[req[c].state].expires
          /\ redirect = intents[req[c].state].redirect
    /\ \A c \in Callback : pc[c] \in {"exchange", "check"} => req[c].next = 1
    /\ \A c \in Callback : pc[c] \in {"begin", "delete", "intent"} => req[c].next = 1
    /\ \A c \in Callback : pc[c] \in {"check", "write", "rename"} => GrantedTo(req[c].code)
    /\ \A c \in Callback : pc[c] \in {"write", "rename"} =>
          req[c].next \in 1..Len(Advertisers[req[c].code])
    /\ \A a \in Advertiser : vault[a] # None =>
          GrantedTo(vault[a].token) /\ Names(vault[a].token, a)

LEMMA AuthorizedMeans == Authorized => AuthorizedRecords
  BY DEF Authorized, GrantedTo, Covers, Names, AuthorizedRecords

LEMMA AuthorizedInit == Init => Authorized
  BY DEF Init, Authorized

\* An offer is not changed once it is made.
LEMMA OffersStay ==
    ASSUME Requested, NEW s \in State, NEW url \in Redirects, BeginOAuth(s, url)
    PROVE  \A t \in State : intents[t] # None => intents'[t] = intents[t]
  BY DEF BeginOAuth, Requested, TypeOK

LEMMA GrantsStay ==
    ASSUME Requested, grants \subseteq grants',
           \A t \in State : intents[t] # None => intents'[t] = intents[t]
    PROVE  \A code : GrantedTo(code) => GrantedTo(code)'
<1> SUFFICES ASSUME NEW g \in grants, Covers(g) PROVE g \in grants' /\ Covers(g)'
  BY DEF GrantedTo
<1>1. g.request.state \in State
  BY DEF Requested, TypeOK, Request
<1> QED
  BY <1>1 DEF Covers

LEMMA AuthorizedBegin ==
    ASSUME Requested, Unspent, Authorized, NEW s \in State, NEW url \in Redirects,
           BeginOAuth(s, url)
    PROVE  Authorized'
<1>1. /\ pc' = pc /\ req' = req /\ vault' = vault /\ grants' = grants /\ redirect' = redirect
  BY DEF BeginOAuth, listener
<1>2. \A code : GrantedTo(code) => GrantedTo(code)'
  BY <1>1, OffersStay, GrantsStay
<1>3. \A c \in Callback : pc[c] = "exchange" => intents'[req[c].state] = intents[req[c].state]
  <2> SUFFICES ASSUME NEW c \in Callback, pc[c] = "exchange"
               PROVE  intents'[req[c].state] = intents[req[c].state]
    OBVIOUS
  <2>1. req[c].state \in State /\ intents[req[c].state] # None
    BY DEF Requested, Request, Unspent, Holds
  <2> QED
    BY <2>1, OffersStay
<1> QED
  BY <1>1, <1>2, <1>3 DEF Authorized, Names

LEMMA AuthorizedReceive ==
    ASSUME Requested, Authorized, NEW c \in Callback, NEW s \in State,
           NEW code \in Code \cup {None}, Receive(c, s, code)
    PROVE  Authorized'
<1>1. /\ \A d \in Callback \ {c} : pc'[d] = pc[d] /\ req'[d] = req[d]
      /\ pc'[c] = "begin" /\ req'[c].next = 1
      /\ vault' = vault /\ grants' = grants /\ redirect' = redirect /\ intents' = intents
  BY DEF Receive, Requested, TypeOK
<1>2. \A k : GrantedTo(k) => GrantedTo(k)'
  BY <1>1 DEF GrantedTo, Covers
<1> QED
  BY ZenonT(60), <1>1, <1>2 DEF Authorized, Names

\* A step before the exchange writes nothing and keeps the request.
LEMMA AuthorizedKept ==
    ASSUME Requested, Authorized, NEW c \in Callback,
           UNCHANGED <<intents, redirect, req, vault, grants>>,
           \A d \in Callback \ {c} : pc'[d] = pc[d],
           \/ pc'[c] = "failure"
           \/ pc[c] = "begin" /\ pc'[c] = "delete"
           \/ pc[c] = "delete" /\ pc'[c] = "intent"
           \/ /\ pc[c] = "intent" /\ pc'[c] = "exchange"
              /\ req[c].at < intents[req[c].state].expires
              /\ redirect = intents[req[c].state].redirect
           \/ pc[c] = "write" /\ pc'[c] = "rename"
    PROVE  Authorized'
<1>1. \A code : GrantedTo(code) => GrantedTo(code)'
  BY DEF GrantedTo, Covers
<1> QED
  BY ZenonT(60), <1>1 DEF Authorized, Names

LEMMA AuthorizedExchange ==
    ASSUME Requested, Unspent, Authorized, NEW c \in Callback, Exchange(c)
    PROVE  Authorized'
<1> DEFINE g == [request |-> req[c], redirect |-> redirect]
<1>1. /\ pc[c] = "exchange" /\ pc'[c] \in {"check", "failure"}
      /\ \A d \in Callback \ {c} : pc'[d] = pc[d]
      /\ intents' = intents /\ redirect' = redirect /\ req' = req /\ vault' = vault
      /\ grants \subseteq grants'
      /\ pc'[c] = "check" => g \in grants'
  BY DEF Exchange, Answer, Requested, TypeOK
<1>2. \A code : GrantedTo(code) => GrantedTo(code)'
  BY <1>1, GrantsStay
<1>3. Covers(g)
  BY <1>1 DEF Covers, Authorized, Unspent, Holds
<1>4. pc'[c] = "check" => GrantedTo(req[c].code)'
  BY <1>1, <1>3 DEF GrantedTo, Covers
<1> QED
  BY <1>1, <1>2, <1>4 DEF Authorized, Names

LEMMA AuthorizedCheck ==
    ASSUME Requested, Authorized, NEW c \in Callback, CheckToken(c)
    PROVE  Authorized'
<1>1. /\ pc[c] = "check" /\ pc'[c] \in {"write", "failure"}
      /\ \A d \in Callback \ {c} : pc'[d] = pc[d]
      /\ UNCHANGED <<intents, redirect, req, vault, grants>>
      /\ pc'[c] = "write" => Advertisers[req[c].code] # <<>>
  BY DEF CheckToken, Answer, Requested, TypeOK
<1>2. \A code : GrantedTo(code) => GrantedTo(code)'
  BY <1>1 DEF GrantedTo, Covers
<1>3. Advertisers[req[c].code] \in Seq(Advertiser)
  BY <1>1 DEF Requested
<1>4. pc'[c] = "write" => req[c].next \in 1..Len(Advertisers[req[c].code])
  BY <1>1, <1>3 DEF Authorized
<1> QED
  BY ZenonT(60), <1>1, <1>2, <1>4 DEF Authorized, Names

LEMMA AuthorizedRename ==
    ASSUME Requested, Authorized, NEW c \in Callback, Rename(c)
    PROVE  Authorized'
<1> DEFINE code == req[c].code
           last == Len(Advertisers[code])
<1>1. /\ pc[c] = "rename" /\ code \in Code /\ GrantedTo(code)
      /\ req[c].next \in 1..last /\ last \in Nat
  <2>1. pc[c] = "rename"
    BY DEF Rename
  <2>2. code \in Code
    BY <2>1 DEF Requested
  <2>3. Advertisers[code] \in Seq(Advertiser)
    BY <2>2
  <2> QED
    BY <2>1, <2>2, <2>3 DEF Authorized
<1>2. /\ \A d \in Callback \ {c} : pc'[d] = pc[d] /\ req'[d] = req[d]
      /\ UNCHANGED <<intents, redirect, grants>>
  BY DEF Rename, Answer, Requested, TypeOK
<1>3. \A k : GrantedTo(k) => GrantedTo(k)'
  BY <1>2 DEF GrantedTo, Covers
<1>4. /\ req'[c].code = code
      /\ \/ pc'[c] \in {"success", "failure"}
         \/ pc'[c] = "write" /\ req'[c].next = req[c].next + 1 /\ req[c].next # last
  <2>1. req[c] \in Request
    BY <1>1 DEF Requested
  <2>2. CASE Answer(c, "failure") /\ UNCHANGED <<vault, req>>
    BY <2>2 DEF Answer, Requested, TypeOK
  <2>3. CASE /\ req' = [req EXCEPT ![c].next = @ + 1]
             /\ Answer(c, IF req[c].next = last THEN "success" ELSE "write")
    <3>1. req'[c] = [req[c] EXCEPT !.next = @ + 1]
      BY <2>3 DEF Requested, TypeOK
    <3>2. req'[c].code = code /\ req'[c].next = req[c].next + 1
      BY <2>1, <3>1 DEF Request
    <3> QED
      BY <2>3, <3>2 DEF Answer, Requested, TypeOK
  <2> QED
    BY <2>2, <2>3 DEF Rename
<1>5. pc'[c] = "write" => req'[c].next \in 1..last
  BY <1>1, <1>4
<1>6. \A a \in Advertiser : vault'[a] # None =>
          GrantedTo(vault'[a].token) /\ Names(vault'[a].token, a)
  <2> SUFFICES ASSUME NEW a \in Advertiser, vault'[a] # None
               PROVE  GrantedTo(vault'[a].token) /\ Names(vault'[a].token, a)
    OBVIOUS
  <2>1. CASE vault'[a] = vault[a]
    BY ZenonT(60), <2>1 DEF Authorized
  <2>2. CASE vault'[a] # vault[a]
    <3>1. a = Advertisers[code][req[c].next] /\ vault'[a] = [token |-> code, whole |-> TRUE]
      BY <2>2 DEF Rename, Target, Credentials, Requested, TypeOK
    <3> QED
      BY <3>1, <1>1 DEF Names
  <2> QED
    BY <2>1, <2>2
<1>7. (\A a \in Advertiser : vault[a] # None =>
          GrantedTo(vault[a].token) /\ Names(vault[a].token, a))'
  BY <1>2, <1>6 DEF GrantedTo, Covers, Names
<1>8. (\A d \in Callback : pc[d] \in {"check", "write", "rename"} => GrantedTo(req[d].code))'
  BY <1>1, <1>2, <1>4 DEF GrantedTo, Covers, Authorized
<1>9. (\A d \in Callback : pc[d] \in {"write", "rename"} =>
          req[d].next \in 1..Len(Advertisers[req[d].code]))'
  BY <1>2, <1>4, <1>5 DEF Authorized
<1> QED
  BY <1>2, <1>4, <1>7, <1>8, <1>9 DEF Authorized

LEMMA AuthorizedServe ==
    ASSUME Requested, Unspent, Authorized, NEW c \in Callback, Serve(c)
    PROVE  Authorized'
<1>1. CASE ReadState(c)
  BY <1>1, AuthorizedKept DEF ReadState, Answer, Requested, TypeOK
<1>2. CASE DeleteState(c)
  BY <1>2, AuthorizedKept DEF DeleteState, Answer, Requested, TypeOK
<1>3. CASE DeleteFails(c)
  BY <1>3, AuthorizedKept DEF DeleteFails, Answer, Requested, TypeOK
<1>4. CASE CheckIntent(c)
  BY <1>4, AuthorizedKept DEF CheckIntent, Answer, Requested, TypeOK
<1>5. CASE WriteTemporary(c)
  BY <1>5, AuthorizedKept DEF WriteTemporary, Answer, Requested, TypeOK
<1> QED
  BY <1>1, <1>2, <1>3, <1>4, <1>5, AuthorizedExchange, AuthorizedCheck, AuthorizedRename DEF Serve

LEMMA AuthorizedNext == Requested /\ Unspent /\ Authorized /\ [Next]_vars => Authorized'
<1> SUFFICES ASSUME Requested, Unspent, Authorized, [Next]_vars PROVE Authorized'
  OBVIOUS
<1>1. CASE UNCHANGED vars
  BY <1>1 DEF vars, Authorized, GrantedTo, Covers, Names
<1>2. CASE Tick
  BY <1>2 DEF Tick, listener, Authorized, GrantedTo, Covers, Names
<1>3. ASSUME NEW s \in State, NEW url \in Redirects, BeginOAuth(s, url) PROVE Authorized'
  BY <1>3, AuthorizedBegin
<1>4. ASSUME NEW c \in Callback, NEW s \in State, NEW code \in Code \cup {None}, Receive(c, s, code)
      PROVE  Authorized'
  BY <1>4, AuthorizedReceive
<1>5. ASSUME NEW c \in Callback, Serve(c) PROVE Authorized'
  BY <1>5, AuthorizedServe
<1>6. CASE Crash
  <2>1. \A c \in Callback : pc'[c] \in {"idle", "success", "failure", "lost"}
    BY <1>6 DEF Crash
  <2>2. UNCHANGED <<intents, req, vault, grants>>
    BY <1>6 DEF Crash
  <2> QED
    BY SMTT(60), <2>1, <2>2 DEF Authorized, GrantedTo, Covers, Names
<1> QED
  BY <1>1, <1>2, <1>3, <1>4, <1>5, <1>6 DEF Next

\* Every credential in the vault was granted to a callback that came in time with
\* a state offered for the URL the listener then had (oauthcallback/handler.go).
THEOREM RecordsAuthorized == Spec => []AuthorizedRecords
<1>1. Init => Requested /\ Unspent /\ Authorized
  BY RequestedInit, UnspentInit, AuthorizedInit
<1>2. Requested /\ Unspent /\ Authorized /\ [Next]_vars => (Requested /\ Unspent /\ Authorized)'
  BY RequestedNext, UnspentNext, AuthorizedNext
<1> QED
  BY <1>1, <1>2, AuthorizedMeans, PTL DEF Spec

\* Both together, as the run checks them (store/oauth.go:91).
THEOREM AuthorizationsSafe == Spec => []AuthorizationsHold
<1>1. StateUsedOnce /\ AuthorizedRecords => AuthorizationsHold
  BY DEF AuthorizationsHold
<1> QED
  BY <1>1, OneExchange, RecordsAuthorized, PTL

-----------------------------------------------------------------------------
(* Records are whole, and those of a grant are there as far as its list    *)
(* has been written: all of them when the page reports success.            *)
Filled(code, n) ==
    \A i \in 1..Len(Advertisers[code]) : i < n => Resolves(Advertisers[code][i])
Complete(code) == Filled(code, Len(Advertisers[code]) + 1)
Writes(c) == pc[c] \in {"write", "rename"}
Kept ==
    /\ \A a \in Advertiser : vault[a] # None => Resolves(a)
    /\ \A c \in Callback : Writes(c) => Filled(req[c].code, req[c].next)
    /\ \A c \in Callback : pc[c] = "success" => req[c].code \in Code /\ Complete(req[c].code)

NoneLost == \A a \in Advertiser : Resolves(a) => Resolves(a)'

LEMMA KeptMeans == Kept => SuccessIsResolvable
<1> SUFFICES ASSUME Kept, NEW c \in Callback, pc[c] = "success",
                    NEW i \in 1..Len(Advertisers[req[c].code])
             PROVE  Resolves(Advertisers[req[c].code][i])
  BY DEF SuccessIsResolvable
<1>1. req[c].code \in Code /\ Complete(req[c].code)
  BY DEF Kept
<1>2. Len(Advertisers[req[c].code]) \in Nat
  BY <1>1
<1> QED
  BY <1>1, <1>2 DEF Complete, Filled

LEMMA KeptInit == Init => Kept
  BY DEF Init, Kept, Writes

\* What a grant has written stays written.
LEMMA FilledStays ==
    ASSUME NoneLost, NEW code \in Code, NEW n, Filled(code, n)
    PROVE  Filled(code, n)'
<1> SUFFICES ASSUME NEW i \in 1..Len(Advertisers[code]), i < n
             PROVE  Resolves(Advertisers[code][i])'
  BY DEF Filled
<1>1. Advertisers[code][i] \in Advertiser
  <2>1. Advertisers[code] \in Seq(Advertiser)
    OBVIOUS
  <2> QED
    BY <2>1
<1>2. Resolves(Advertisers[code][i])
  BY DEF Filled
<1> QED
  BY <1>1, <1>2 DEF NoneLost

(* One callback moves, no credential is lost, and what the callback has    *)
(* written so far is in the vault.                                         *)
LEMMA KeptMoves ==
    ASSUME Requested, Kept, NoneLost, NEW c \in Callback,
           \A a \in Advertiser : vault'[a] # None => Resolves(a)',
           \A d \in Callback \ {c} : pc'[d] = pc[d] /\ req'[d] = req[d],
           Writes(c)' => \E code \in Code, n \in Nat :
               req'[c].code = code /\ req'[c].next = n /\ Filled(code, n)',
           pc'[c] = "success" => \E code \in Code : req'[c].code = code /\ Complete(code)'
    PROVE  Kept'
<1>1. ASSUME NEW d \in Callback, Writes(d)'
      PROVE  Filled(req[d].code, req[d].next)'
  <2>1. PICK code \in Code, n \in Nat : req'[d].code = code /\ req'[d].next = n /\ Filled(code, n)'
    <3>1. CASE d = c
      BY <1>1, <3>1
    <3>2. CASE d # c
      <4>1. req'[d] = req[d] /\ Writes(d)
        BY <1>1, <3>2 DEF Writes
      <4>2. req[d].code \in Code /\ Filled(req[d].code, req[d].next)
        BY <4>1 DEF Kept, Requested, Writes
      <4>3. PICK code \in Code, n \in Nat : req[d].code = code /\ req[d].next = n
        BY <4>1, <4>2 DEF Requested, Writes, Request
      <4>4. Filled(code, n)'
        BY <4>2, <4>3, FilledStays
      <4> QED
        BY <4>1, <4>3, <4>4
    <3> QED
      BY <3>1, <3>2
  <2> QED
    BY <2>1 DEF Filled
<1>2. ASSUME NEW d \in Callback, pc'[d] = "success"
      PROVE  req'[d].code \in Code /\ Complete(req[d].code)'
  <2>1. PICK code \in Code : req'[d].code = code /\ Complete(code)'
    <3>1. CASE d = c
      BY <1>2, <3>1
    <3>2. CASE d # c
      <4>1. req'[d] = req[d] /\ req[d].code \in Code /\ Complete(req[d].code)
        BY <1>2, <3>2 DEF Kept
      <4>2. PICK code \in Code : req[d].code = code
        BY <4>1
      <4>3. Complete(code)'
        BY <4>1, <4>2, FilledStays DEF Complete
      <4> QED
        BY <4>1, <4>2, <4>3
    <3> QED
      BY <3>1, <3>2
  <2> QED
    BY <2>1 DEF Complete, Filled
<1> QED
  BY <1>1, <1>2 DEF Kept

\* The vault is as it was, and a callback begins to write or goes on writing.
LEMMA KeptQuiet ==
    ASSUME Requested, Kept, NEW c \in Callback, UNCHANGED vault,
           \A d \in Callback \ {c} : pc'[d] = pc[d] /\ req'[d] = req[d],
           Writes(c)' => /\ req'[c] = req[c] /\ req[c].code \in Code /\ req[c].next \in Nat
                         /\ Writes(c) \/ req[c].next = 1,
           pc'[c] # "success"
    PROVE  Kept' /\ NoneLost
<1>1. NoneLost /\ \A a \in Advertiser : vault'[a] # None => Resolves(a)'
  BY DEF NoneLost, Resolves, Kept
<1>2. ASSUME Writes(c)'
      PROVE  \E code \in Code, n \in Nat :
                 req'[c].code = code /\ req'[c].next = n /\ Filled(code, n)'
  <2>1. PICK code \in Code, n \in Nat : req[c].code = code /\ req[c].next = n
    BY <1>2
  <2>2. Filled(code, n)
    <3>1. CASE Writes(c)
      BY <2>1, <3>1 DEF Kept
    <3>2. CASE n = 1
      BY <3>2 DEF Filled
    <3> QED
      BY <1>2, <2>1, <3>1, <3>2
  <2>3. Filled(code, n)'
    BY <1>1, <2>2, FilledStays
  <2> QED
    BY <1>2, <2>1, <2>3
<1> QED
  BY <1>1, <1>2, KeptMoves

\* One more record of the list is replaced, whole, and no other is touched.
LEMMA KeptRename ==
    ASSUME Requested, Authorized, Kept, NEW c \in Callback, Rename(c)
    PROVE  Kept' /\ NoneLost
<1>1. PICK code \in Code, n \in Nat : req[c].code = code /\ req[c].next = n
  BY DEF Rename, Requested, Request
<1> DEFINE ads == Advertisers[code]
           last == Len(ads)
<1>2. pc[c] = "rename" /\ req[c] \in Request /\ n \in 1..last /\ last \in Nat /\ ads \in Seq(Advertiser)
  <2>1. pc[c] = "rename" /\ ads \in Seq(Advertiser)
    BY DEF Rename
  <2> QED
    BY <1>1, <2>1 DEF Authorized, Requested
<1>3. CASE Answer(c, "failure") /\ UNCHANGED <<vault, req>>
  <2>1. pc'[c] = "failure" /\ \A d \in Callback \ {c} : pc'[d] = pc[d] /\ req'[d] = req[d]
    BY <1>3 DEF Answer, Requested, TypeOK
  <2> QED
    BY <1>3, <2>1, KeptQuiet DEF Writes
<1>4. CASE /\ vault' = [vault EXCEPT ![Target(c)] = Credentials(c)]
           /\ req' = [req EXCEPT ![c].next = @ + 1]
           /\ Answer(c, IF n = last THEN "success" ELSE "write")
  <2>1. Target(c) = ads[n] /\ ads[n] \in Advertiser
    BY <1>1, <1>2 DEF Target
  <2>2. /\ vault'[ads[n]] = Credentials(c)
        /\ \A a \in Advertiser \ {ads[n]} : vault'[a] = vault[a]
    BY <1>4, <2>1 DEF Requested, TypeOK
  <2>3. Credentials(c) # None /\ Credentials(c).whole
    <3>1. Credentials(c) \in Credential
      BY <1>1 DEF Credentials, Credential
    <3> QED
      BY <3>1 DEF Credentials
  <2>4. NoneLost /\ \A a \in Advertiser : vault'[a] # None => Resolves(a)'
    BY <2>2, <2>3 DEF NoneLost, Kept, Resolves
  <2>5. /\ req'[c].code = code /\ req'[c].next = n + 1
        /\ \A d \in Callback \ {c} : req'[d] = req[d] /\ pc'[d] = pc[d]
        /\ pc'[c] = IF n = last THEN "success" ELSE "write"
    <3>1. req'[c] = [req[c] EXCEPT !.next = @ + 1]
      BY <1>4 DEF Requested, TypeOK
    <3> QED
      BY <1>1, <1>2, <1>4, <3>1 DEF Request, Answer, Requested, TypeOK
  <2>6. Filled(code, n + 1)'
    <3>1. Filled(code, n)'
      <4>1. Filled(code, n)
        BY <1>1, <1>2 DEF Kept, Writes
      <4> QED
        BY <2>4, <4>1, FilledStays
    <3>2. Resolves(ads[n])'
      BY <2>1, <2>2, <2>3 DEF Resolves
    <3> QED
      BY <1>2, <3>1, <3>2 DEF Filled
  <2>7. pc'[c] = "success" => Complete(code)'
    BY <1>2, <2>5, <2>6 DEF Complete
  <2> QED
    BY <2>4, <2>5, <2>6, <2>7, KeptMoves
<1> QED
  BY <1>1, <1>3, <1>4 DEF Rename

LEMMA KeptServe ==
    ASSUME Requested, Authorized, Kept, NEW c \in Callback, Serve(c)
    PROVE  Kept' /\ NoneLost
<1>1. req[c] \in Request
  BY DEF Serve, ReadState, DeleteState, DeleteFails, CheckIntent, Exchange, CheckToken,
         WriteTemporary, Rename, Requested
<1>2. req[c].next \in Nat
  BY <1>1 DEF Request
<1>3. CASE ReadState(c)
  BY <1>3, KeptQuiet DEF ReadState, Answer, Writes, Requested, TypeOK
<1>4. CASE DeleteState(c) \/ DeleteFails(c)
  BY <1>4, KeptQuiet DEF DeleteState, DeleteFails, Answer, Writes, Requested, TypeOK
<1>5. CASE CheckIntent(c)
  BY <1>5, KeptQuiet DEF CheckIntent, Answer, Writes, Requested, TypeOK
<1>6. CASE Exchange(c)
  BY ZenonT(60), <1>6, KeptQuiet DEF Exchange, Answer, Writes, Requested, TypeOK
<1>7. CASE CheckToken(c)
  <2>1. req[c].next = 1 /\ req[c].code \in Code
    BY <1>7 DEF CheckToken, Authorized, Requested
  <2> QED
    BY <1>2, <1>7, <2>1, KeptQuiet DEF CheckToken, Answer, Writes, Requested, TypeOK
<1>8. CASE WriteTemporary(c)
  <2>1. Writes(c) /\ req[c].code \in Code
    BY <1>8 DEF WriteTemporary, Writes, Requested
  <2> QED
    BY <1>2, <1>8, <2>1, KeptQuiet DEF WriteTemporary, Answer, Writes, Requested, TypeOK
<1> QED
  BY <1>3, <1>4, <1>5, <1>6, <1>7, <1>8, KeptRename DEF Serve

\* No step of any kind makes a credential unreadable.
LEMMA KeptNext ==
    Requested /\ Authorized /\ Kept /\ [Next]_vars => Kept' /\ NoneLost
<1> SUFFICES ASSUME Requested, Authorized, Kept, [Next]_vars PROVE Kept' /\ NoneLost
  BY ZenonT(60)
<1>1. CASE UNCHANGED vars
  BY ZenonT(60), <1>1 DEF vars, Kept, Writes, Complete, Filled, Resolves, NoneLost
<1>2. CASE Tick
  BY ZenonT(60), <1>2 DEF Tick, listener, Kept, Writes, Complete, Filled, Resolves, NoneLost
<1>3. ASSUME NEW s \in State, NEW url \in Redirects, BeginOAuth(s, url) PROVE Kept' /\ NoneLost
  BY <1>3 DEF BeginOAuth, listener, Kept, Writes, Complete, Filled, Resolves, NoneLost
<1>4. ASSUME NEW c \in Callback, NEW s \in State, NEW code \in Code \cup {None}, Receive(c, s, code)
      PROVE  Kept' /\ NoneLost
  BY <1>4, KeptQuiet DEF Receive, Writes, Requested, TypeOK
<1>5. ASSUME NEW c \in Callback, Serve(c) PROVE Kept' /\ NoneLost
  BY ZenonT(60), <1>5, KeptServe
<1>6. CASE Crash
  <2>1. \A c \in Callback : ~Writes(c)' /\ (pc'[c] = "success" => pc[c] = "success")
    BY <1>6 DEF Crash, Writes
  <2>2. UNCHANGED <<req, vault>>
    BY <1>6 DEF Crash
  <2> QED
    BY <2>1, <2>2 DEF Kept, Complete, Filled, Resolves, NoneLost
<1> QED
  BY <1>1, <1>2, <1>3, <1>4, <1>5, <1>6 DEF Next

\* Success is reported only of credentials that resolve, and no step, failure or
\* crash takes one from an advertiser that had it (tiktokmapi/vault.go:62).
THEOREM CredentialsAreKept == Spec => CredentialsKept
<1>1. Init => Requested /\ Unspent /\ Authorized /\ Kept
  BY RequestedInit, UnspentInit, AuthorizedInit, KeptInit
<1>2. Requested /\ Unspent /\ Authorized /\ Kept /\ [Next]_vars
      => (Requested /\ Unspent /\ Authorized /\ Kept)'
  BY RequestedNext, UnspentNext, AuthorizedNext, KeptNext
<1>3. Requested /\ Authorized /\ Kept /\ [Next]_vars
      => [\A a \in Advertiser : Resolves(a) => Resolves(a)']_vars
  BY ZenonT(60), KeptNext DEF NoneLost
<1> QED
  BY <1>1, <1>2, <1>3, KeptMeans, PTL DEF Spec, CredentialsKept, CredentialsSurvive
-----------------------------------------------------------------------------
(* The suite of MCServer.  What is proved of the components holds of its    *)
(* parts: each of them is an instance of a component, and takes a step only *)
(* when it is the part that runs.                                           *)

\* ServerPartsProofs about accounts, failing starts and the browser, about keys, and
\* about dying starts; and PlatformOperationProofs about TikTok.
SA == INSTANCE ServerPartsProofs WITH
    Request <- {a1, a2, a3}, Owner <- {b1}, Destination <- {d1, openrouter},
    OpenRouter <- openrouter, Source <- {owned, other, sandbox}, SandboxSource <- {sandbox},
    Budget <- {small, large}, Kind <- {"load", "turn", "save"}, Value <- AccountForms,
    Deployment <- Composed, Attempt <- {}, MaxAttempts <- 1, MaxCrashes <- 1,
    pc <- gatePc, req <- gateReq, seen <- began, crashes <- restarts,
    Start <- {a1, a2, a3}, MaxFaults <- 2,
    Sessions <- {"one", "two"}, First <- "one", MaxTurns <- 2, MaxEvents <- 2,
    MaxRefresh <- 1, MaxLoads <- 2
SK == INSTANCE ServerPartsProofs WITH
    Request <- {a1, a2, a3, a4}, Owner <- {b1}, Destination <- {d1, openrouter},
    OpenRouter <- openrouter, Source <- {owned}, SandboxSource <- {},
    Budget <- {small, large}, Kind <- {"save", "start", "complete"}, Value <- Providers,
    Deployment <- Composed, Attempt <- {x1}, MaxAttempts <- 1, MaxCrashes <- 0,
    pc <- gatePc, req <- gateReq, seen <- began, crashes <- restarts,
    Start <- {a1, a2, a3, a4}, MaxFaults <- 0,
    Sessions <- {"one", "two"}, First <- "one", MaxTurns <- 2, MaxEvents <- 2,
    MaxRefresh <- 1, MaxLoads <- 2
SD == INSTANCE ServerPartsProofs WITH
    Request <- {a1, a2, a3, a4}, Owner <- {b1}, Destination <- {d1, openrouter},
    OpenRouter <- openrouter, Source <- {owned}, SandboxSource <- {},
    Budget <- {small, large}, Kind <- {"save", "start", "complete"}, Value <- Providers,
    Deployment <- Composed, Attempt <- {x1}, MaxAttempts <- 1, MaxCrashes <- 2,
    pc <- gatePc, req <- gateReq, seen <- began, crashes <- restarts,
    Start <- {a1, a2, a3, a4}, MaxFaults <- 0,
    Sessions <- {"one", "two"}, First <- "one", MaxTurns <- 2, MaxEvents <- 2,
    MaxRefresh <- 1, MaxLoads <- 2
SP == INSTANCE PlatformOperationProofs WITH
    Kinds <- {"bundle", "create", "update", "moderate", "write"},
    Actions <- {"hide", "delete", "reply"},
    Window <- 2, MaxEdits <- 1, pc <- operationPc, held <- on,
    Item <- {r1, r2, r3, r4}, Foreign <- {r4}, Reads <- {"list", "report", "objects"},
    Totals <- {"pages", "number", "nothing"}, Size <- 2, MaxPages <- 2, Tries <- 2,
    MaxChanges <- 2

(* The gate. *)

LEMMA AccountsNext == [Accounts!Next]_(Accounts!vars) => [SA!Next]_(SA!vars)
<1>1. ASSUME NEW r, Accounts!Serve(r) PROVE SA!Serve(r)
  <2>1. CASE \/ Accounts!Enter(r) \/ Accounts!TryLock(r) \/ Accounts!Busy(r)
             \/ Accounts!Lock(r) \/ Accounts!Load(r)
    BY <2>1 DEF SA!Serve, Accounts!memory, Accounts!disk, Accounts!ghosts, Accounts!Model,
       Accounts!Configuration, Accounts!Waiting, Accounts!Goto, Accounts!Finish, Accounts!Enter,
       Accounts!TryLock, Accounts!Busy, Accounts!Lock, Accounts!Load, SA!memory, SA!disk, SA!ghosts,
       SA!Model, SA!Configuration, SA!Waiting, SA!Goto, SA!Finish, SA!Enter, SA!TryLock, SA!Busy,
       SA!Lock, SA!Load
  <2>2. CASE \/ Accounts!StartTurn(r) \/ Accounts!RunTurn(r)
             \/ Accounts!Validate(r) \/ Accounts!LeaseAccount(r)
    BY ZenonT(60), <2>2 DEF SA!Serve, Accounts!lock, Accounts!memory, Accounts!disk,
       Accounts!ghosts,
       Accounts!Valid, Accounts!Reconfigure, Accounts!Goto, Accounts!Finish, Accounts!Going,
       Accounts!StartTurn, Accounts!RunTurn, Accounts!KeyFor, Accounts!Normal, Accounts!Validate,
       Accounts!LeaseAccount, SA!lock, SA!memory, SA!disk, SA!ghosts, SA!Valid, SA!Reconfigure,
       SA!Goto, SA!Finish, SA!Going, SA!StartTurn, SA!RunTurn, SA!KeyFor, SA!Normal, SA!Validate,
       SA!LeaseAccount
  <2>3. CASE Accounts!Persist(r) \/ Accounts!Install(r)
    BY <2>3 DEF SA!Serve, Accounts!memory, Accounts!ghosts, Accounts!Goto, Accounts!Finish,
       Accounts!Going, Accounts!Persist, Accounts!Install, SA!memory, SA!ghosts, SA!Goto, SA!Finish,
       SA!Going, SA!Persist, SA!Install
  <2>4. CASE \/ Accounts!StartOpenRouter(r) \/ Accounts!Consume(r)
             \/ Accounts!Exchange(r) \/ Accounts!StoreKey(r)
    BY <2>4 DEF SA!Serve, Accounts!memory, Accounts!disk, Accounts!ghosts, Accounts!Goto,
       Accounts!Finish, Accounts!Going, Accounts!Pending, Accounts!StartOpenRouter,
       Accounts!Consume, Accounts!Exchange, Accounts!StoreKey, Accounts!Cardinality, SA!memory,
       SA!disk, SA!ghosts, SA!Goto, SA!Finish, SA!Going, SA!Pending, SA!StartOpenRouter, SA!Consume,
       SA!Exchange, SA!StoreKey, SA!Cardinality
  <2> QED
    BY <1>1, <2>1, <2>2, <2>3, <2>4 DEF Accounts!Serve
<1>2. ASSUME NEW r, NEW input, Accounts!Arrive(r, input) PROVE SA!Arrive(r, input)
  BY <1>2 DEF Accounts!lock, Accounts!memory, Accounts!disk, Accounts!ghosts, Accounts!Goto,
     Accounts!Arrive, SA!lock, SA!memory, SA!disk, SA!ghosts, SA!Goto, SA!Arrive
<1>3. ASSUME NEW s, Accounts!Apply(s) \/ Accounts!Release(s) PROVE SA!Apply(s) \/ SA!Release(s)
  BY <1>3 DEF Accounts!lock, Accounts!memory, Accounts!ghosts, Accounts!Apply, Accounts!Release,
     SA!lock, SA!memory, SA!ghosts, SA!Apply, SA!Release
<1>4. ASSUME NEW t, Accounts!Expire(t) PROVE SA!Expire(t)
  BY ZenonT(60), <1>4 DEF Accounts!lock, Accounts!memory, Accounts!disk, Accounts!ghosts,
     Accounts!Pending,
     Accounts!Expire, SA!lock, SA!memory, SA!disk, SA!ghosts, SA!Pending, SA!Expire
<1>5. ASSUME Accounts!Restart PROVE SA!Restart
  BY <1>5 DEF Accounts!ghosts, Accounts!Reconfigure, Accounts!Started, Accounts!Restart, SA!ghosts,
     SA!Reconfigure, SA!Started, SA!Restart
<1>6. Accounts!Input = SA!Input
  BY DEF Accounts!TabInput, Accounts!SaveInput, Accounts!CompleteInput, Accounts!Input, SA!TabInput,
     SA!SaveInput, SA!CompleteInput, SA!Input
<1>7. UNCHANGED Accounts!vars => UNCHANGED SA!vars
  BY DEF Accounts!lock, Accounts!memory, Accounts!disk, Accounts!ghosts, Accounts!vars, SA!lock,
     SA!memory, SA!disk, SA!ghosts, SA!vars
<1> QED
  BY <1>1, <1>2, <1>3, <1>4, <1>5, <1>6, <1>7 DEF Accounts!Next, SA!Next

\* What the gate's requests and its configuration are, is the same.
LEMMA AccountsHold ==
    ASSUME Accounts!GateAssumption, Accounts!NoneAssumption
    PROVE  /\ SA!Assumptions
           /\ Accounts!Init => SA!IInv
           /\ SA!IInv => Accounts!TypeOK /\ Accounts!ConfigurationHolds
           /\ SA!IInv /\ [Accounts!Next]_(Accounts!vars)
                 => SA!IInv' /\ [Accounts!KeepsBudgets]_(Accounts!vars)
<1>1. SA!Assumptions
  BY ZenonT(60) DEF SA!Assumptions, Accounts!WorkspaceSettings, Accounts!Services,
     Accounts!GateAssumption,
     Accounts!TabInput, Accounts!SaveInput, Accounts!CompleteInput, Accounts!Input,
     Accounts!Prepared, Accounts!NoneAssumption, SA!WorkspaceSettings, SA!Services,
     SA!GateAssumption, SA!TabInput, SA!SaveInput, SA!CompleteInput, SA!Input, SA!Prepared,
     SA!NoneAssumption
<1>2. Accounts!Init => SA!IInv
  <2>1. Accounts!Init => SA!Init
    BY DEF Accounts!Model, Accounts!Init, SA!Model, SA!Init
  <2> QED
    BY <1>1, <2>1, SA!InitHolds
<1>3. SA!IInv => Accounts!TypeOK
  <2>1. SA!TypeOK => Accounts!TypeOK
    BY ZenonT(60) DEF Accounts!WorkspaceSettings, Accounts!Services, Accounts!TabInput,
       Accounts!SaveInput,
       Accounts!CompleteInput, Accounts!Input, Accounts!Prepared, Accounts!TypeOK,
       SA!WorkspaceSettings, SA!Services, SA!TabInput, SA!SaveInput, SA!CompleteInput, SA!Input,
       SA!Prepared, SA!TypeOK
  <2> QED
    BY ZenonT(60), <2>1 DEF SA!IInv
<1>4. SA!IInv => Accounts!ConfigurationHolds
  <2>1. SA!ConfigurationHolds => Accounts!ConfigurationHolds
    BY DEF Accounts!Configuration, Accounts!OneConfiguration, Accounts!ConfigurationAgrees,
       Accounts!AuthorityFromDeployment, Accounts!InstalledKeyFits, Accounts!AttemptUsedOnce,
       Accounts!ConfigurationHolds, SA!Configuration, SA!OneConfiguration, SA!ConfigurationAgrees,
       SA!AuthorityFromDeployment, SA!InstalledKeyFits, SA!AttemptUsedOnce, SA!ConfigurationHolds
  <2> QED
    BY <1>1, <2>1, SA!ConfigurationFollows
<1>5. SA!IInv /\ [Accounts!Next]_(Accounts!vars) => SA!IInv'
  BY <1>1, AccountsNext, SA!NextHolds
<1>6. SA!IInv /\ [Accounts!Next]_(Accounts!vars) => [Accounts!KeepsBudgets]_(Accounts!vars)
  BY AccountsNext, SA!BudgetsFollow
  DEF Accounts!lock, Accounts!memory, Accounts!disk, Accounts!ghosts, Accounts!vars,
     Accounts!KeepsBudgets, SA!lock, SA!memory, SA!disk, SA!ghosts, SA!vars, SA!KeepsBudgets
<1> QED
  BY <1>1, <1>2, <1>3, <1>4, <1>5, <1>6

LEMMA KeysNext == [Keys!Next]_(Keys!vars) => [SK!Next]_(SK!vars)
<1>1. ASSUME NEW r, Keys!Serve(r) PROVE SK!Serve(r)
  <2>1. CASE \/ Keys!Enter(r) \/ Keys!TryLock(r) \/ Keys!Busy(r)
             \/ Keys!Lock(r) \/ Keys!Load(r)
    BY ZenonT(60), <2>1 DEF SK!Serve, Keys!memory, Keys!disk, Keys!ghosts, Keys!Model,
       Keys!Configuration,
       Keys!Waiting, Keys!Goto, Keys!Finish, Keys!Enter, Keys!TryLock, Keys!Busy, Keys!Lock,
       Keys!Load, SK!memory, SK!disk, SK!ghosts, SK!Model, SK!Configuration, SK!Waiting, SK!Goto,
       SK!Finish, SK!Enter, SK!TryLock, SK!Busy, SK!Lock, SK!Load
  <2>2. CASE \/ Keys!StartTurn(r) \/ Keys!RunTurn(r)
             \/ Keys!Validate(r) \/ Keys!LeaseAccount(r)
    BY ZenonT(60), <2>2 DEF SK!Serve, Keys!lock, Keys!memory, Keys!disk, Keys!ghosts, Keys!Valid,
       Keys!Reconfigure, Keys!Goto, Keys!Finish, Keys!Going, Keys!StartTurn, Keys!RunTurn,
       Keys!KeyFor, Keys!Normal, Keys!Validate, Keys!LeaseAccount, SK!lock, SK!memory, SK!disk,
       SK!ghosts, SK!Valid, SK!Reconfigure, SK!Goto, SK!Finish, SK!Going, SK!StartTurn, SK!RunTurn,
       SK!KeyFor, SK!Normal, SK!Validate, SK!LeaseAccount
  <2>3. CASE Keys!Persist(r) \/ Keys!Install(r)
    BY <2>3 DEF SK!Serve, Keys!memory, Keys!ghosts, Keys!Goto, Keys!Finish, Keys!Going,
       Keys!Persist, Keys!Install, SK!memory, SK!ghosts, SK!Goto, SK!Finish, SK!Going, SK!Persist,
       SK!Install
  <2>4. CASE \/ Keys!StartOpenRouter(r) \/ Keys!Consume(r)
             \/ Keys!Exchange(r) \/ Keys!StoreKey(r)
    BY ZenonT(60), <2>4 DEF SK!Serve, Keys!memory, Keys!disk, Keys!ghosts, Keys!Goto, Keys!Finish,
       Keys!Going,
       Keys!Pending, Keys!StartOpenRouter, Keys!Consume, Keys!Exchange, Keys!StoreKey,
       Keys!Cardinality, SK!memory, SK!disk, SK!ghosts, SK!Goto, SK!Finish, SK!Going, SK!Pending,
       SK!StartOpenRouter, SK!Consume, SK!Exchange, SK!StoreKey, SK!Cardinality
  <2> QED
    BY <1>1, <2>1, <2>2, <2>3, <2>4 DEF Keys!Serve
<1>2. ASSUME NEW r, NEW input, Keys!Arrive(r, input) PROVE SK!Arrive(r, input)
  BY <1>2 DEF Keys!lock, Keys!memory, Keys!disk, Keys!ghosts, Keys!Goto, Keys!Arrive, SK!lock,
     SK!memory, SK!disk, SK!ghosts, SK!Goto, SK!Arrive
<1>3. ASSUME NEW s, Keys!Apply(s) \/ Keys!Release(s) PROVE SK!Apply(s) \/ SK!Release(s)
  BY <1>3 DEF Keys!lock, Keys!memory, Keys!ghosts, Keys!Apply, Keys!Release, SK!lock, SK!memory,
     SK!ghosts, SK!Apply, SK!Release
<1>4. ASSUME NEW t, Keys!Expire(t) PROVE SK!Expire(t)
  BY <1>4 DEF Keys!lock, Keys!memory, Keys!disk, Keys!ghosts, Keys!Pending, Keys!Expire, SK!lock,
     SK!memory, SK!disk, SK!ghosts, SK!Pending, SK!Expire
<1>5. ASSUME Keys!Restart PROVE SK!Restart
  BY <1>5 DEF Keys!ghosts, Keys!Reconfigure, Keys!Started, Keys!Restart, SK!ghosts, SK!Reconfigure,
     SK!Started, SK!Restart
<1>6. Keys!Input = SK!Input
  BY DEF Keys!TabInput, Keys!SaveInput, Keys!CompleteInput, Keys!Input, SK!TabInput, SK!SaveInput,
     SK!CompleteInput, SK!Input
<1>7. UNCHANGED Keys!vars => UNCHANGED SK!vars
  BY DEF Keys!lock, Keys!memory, Keys!disk, Keys!ghosts, Keys!vars, SK!lock, SK!memory, SK!disk,
     SK!ghosts, SK!vars
<1> QED
  BY <1>1, <1>2, <1>3, <1>4, <1>5, <1>6, <1>7 DEF Keys!Next, SK!Next

\* What the gate's requests and its configuration are, is the same.
LEMMA KeysHold ==
    ASSUME Keys!GateAssumption, Keys!NoneAssumption
    PROVE  /\ SK!Assumptions
           /\ Keys!Init => SK!IInv
           /\ SK!IInv => Keys!TypeOK /\ Keys!ConfigurationHolds
           /\ SK!IInv /\ [Keys!Next]_(Keys!vars)
                 => SK!IInv' /\ [Keys!KeepsBudgets]_(Keys!vars)
<1>1. SK!Assumptions
  BY DEF SK!Assumptions, Keys!WorkspaceSettings, Keys!Services, Keys!GateAssumption, Keys!TabInput,
     Keys!SaveInput, Keys!CompleteInput, Keys!Input, Keys!Prepared, Keys!NoneAssumption,
     SK!WorkspaceSettings, SK!Services, SK!GateAssumption, SK!TabInput, SK!SaveInput,
     SK!CompleteInput, SK!Input, SK!Prepared, SK!NoneAssumption
<1>2. Keys!Init => SK!IInv
  <2>1. Keys!Init => SK!Init
    BY DEF Keys!Model, Keys!Init, SK!Model, SK!Init
  <2> QED
    BY <1>1, <2>1, SK!InitHolds
<1>3. SK!IInv => Keys!TypeOK
  <2>1. SK!TypeOK => Keys!TypeOK
    BY DEF Keys!WorkspaceSettings, Keys!Services, Keys!TabInput, Keys!SaveInput, Keys!CompleteInput,
       Keys!Input, Keys!Prepared, Keys!TypeOK, SK!WorkspaceSettings, SK!Services, SK!TabInput,
       SK!SaveInput, SK!CompleteInput, SK!Input, SK!Prepared, SK!TypeOK
  <2> QED
    BY <2>1 DEF SK!IInv
<1>4. SK!IInv => Keys!ConfigurationHolds
  <2>1. SK!ConfigurationHolds => Keys!ConfigurationHolds
    BY DEF Keys!Configuration, Keys!OneConfiguration, Keys!ConfigurationAgrees,
       Keys!AuthorityFromDeployment, Keys!InstalledKeyFits, Keys!AttemptUsedOnce,
       Keys!ConfigurationHolds, SK!Configuration, SK!OneConfiguration, SK!ConfigurationAgrees,
       SK!AuthorityFromDeployment, SK!InstalledKeyFits, SK!AttemptUsedOnce, SK!ConfigurationHolds
  <2> QED
    BY <1>1, <2>1, SK!ConfigurationFollows
<1>5. SK!IInv /\ [Keys!Next]_(Keys!vars) => SK!IInv'
  BY <1>1, KeysNext, SK!NextHolds
<1>6. SK!IInv /\ [Keys!Next]_(Keys!vars) => [Keys!KeepsBudgets]_(Keys!vars)
  BY KeysNext, SK!BudgetsFollow
  DEF Keys!lock, Keys!memory, Keys!disk, Keys!ghosts, Keys!vars, Keys!KeepsBudgets, SK!lock,
     SK!memory, SK!disk, SK!ghosts, SK!vars, SK!KeepsBudgets
<1> QED
  BY <1>1, <1>2, <1>3, <1>4, <1>5, <1>6

(* The operator key. *)

LEMMA FailingSame ==
    /\ Failing!Init => SA!Key!Init
    /\ [Failing!Next]_(Failing!vars) => [SA!Key!Next]_(SA!Key!vars)
<1>1. Failing!Init => SA!Key!Init
  BY ZenonT(60) DEF Failing!NoKey, Failing!Init, SA!Key!NoKey, SA!Key!Init
<1>2. [Failing!Next]_(Failing!vars) => [SA!Key!Next]_(SA!Key!vars)
  BY ZenonT(60) DEF Failing!vars, Failing!Go, Failing!Fault, Failing!Begin, Failing!Look,
     Failing!Create,
     Failing!Write, Failing!Sync, Failing!Close, Failing!RemoveKey, Failing!Open,
     Failing!Acceptable, Failing!Read, Failing!Crash, Failing!Stop, Failing!Step, Failing!Next,
     SA!Key!vars, SA!Key!Go, SA!Key!Fault, SA!Key!Begin, SA!Key!Look, SA!Key!Create, SA!Key!Write,
     SA!Key!Sync, SA!Key!Close, SA!Key!RemoveKey, SA!Key!Open, SA!Key!Acceptable, SA!Key!Read,
     SA!Key!Crash, SA!Key!Stop, SA!Key!Step, SA!Key!Next
<1> QED
  BY <1>1, <1>2

LEMMA DyingSame ==
    /\ Dying!Init => SD!Key!Init
    /\ [Dying!Next]_(Dying!vars) => [SD!Key!Next]_(SD!Key!vars)
<1>1. Dying!Init => SD!Key!Init
  BY ZenonT(60) DEF Dying!NoKey, Dying!Init, SD!Key!NoKey, SD!Key!Init
<1>2. [Dying!Next]_(Dying!vars) => [SD!Key!Next]_(SD!Key!vars)
  BY ZenonT(60) DEF Dying!vars, Dying!Go, Dying!Fault, Dying!Begin, Dying!Look, Dying!Create,
     Dying!Write,
     Dying!Sync, Dying!Close, Dying!RemoveKey, Dying!Open, Dying!Acceptable, Dying!Read,
     Dying!Crash, Dying!Stop, Dying!Step, Dying!Next, SD!Key!vars, SD!Key!Go, SD!Key!Fault,
     SD!Key!Begin, SD!Key!Look, SD!Key!Create, SD!Key!Write, SD!Key!Sync, SD!Key!Close,
     SD!Key!RemoveKey, SD!Key!Open, SD!Key!Acceptable, SD!Key!Read, SD!Key!Crash, SD!Key!Stop,
     SD!Key!Step, SD!Key!Next
<1> QED
  BY <1>1, <1>2

LEMMA FailingHolds ==
    ASSUME Failing!FaultAssumption
    PROVE  /\ Failing!Init => SA!KeyInv
           /\ SA!KeyInv => Failing!TypeOK /\ Failing!MakerKeepsKey
           /\ SA!KeyInv /\ [Failing!Next]_(Failing!vars) => SA!KeyInv'
<1>1. SA!Key!FaultAssumption
  BY ZenonT(60) DEF Failing!FaultAssumption, SA!Key!FaultAssumption
<1>2. SA!Key!TypeOK => Failing!TypeOK
  BY ZenonT(60) DEF Failing!TypeOK, SA!Key!TypeOK
<1>3. SA!Key!MakerKeepsKey => Failing!MakerKeepsKey
  BY ZenonT(60) DEF Failing!MakerKeepsKey, SA!Key!MakerKeepsKey
<1> QED
  BY <1>1, <1>2, <1>3, FailingSame, SA!KeyInit, SA!KeyNext, SA!KeyTypes, SA!KeyFollows

LEMMA DyingHolds ==
    ASSUME Dying!FaultAssumption
    PROVE  /\ Dying!Init => SD!KeyInv /\ SD!Served
           /\ SD!KeyInv /\ SD!Served => Dying!SignInPossible
           /\ SD!KeyInv /\ SD!Served /\ [Dying!Next]_(Dying!vars) => (SD!KeyInv /\ SD!Served)'
<1>1. SD!Key!FaultAssumption
  BY DEF Dying!FaultAssumption, SD!Key!FaultAssumption
<1>2. SD!Key!SignInPossible => Dying!SignInPossible
  BY DEF Dying!SignInPossible, SD!Key!SignInPossible
<1> QED
  BY <1>1, <1>2, DyingSame, SD!KeyInit, SD!KeyNext, SD!ServedInit, SD!ServedNext, SD!ServedFollows

(* The browser. *)

LEMMA WebSame ==
    /\ Web!Init => SA!Web!Init
    /\ [Web!Next]_(Web!vars) => [SA!Web!Next]_(SA!Web!vars)
<1>1. Web!Init => SA!Web!Init
  BY ZenonT(60) DEF Web!NoStream, Web!NoLive, Web!NewLoad, Web!Opening, Web!Init, SA!Web!NoStream,
     SA!Web!NoLive, SA!Web!NewLoad, SA!Web!Opening, SA!Web!Init
<1>2. [Web!Next]_(Web!vars) => [SA!Web!Next]_(SA!Web!vars)
  BY ZenonT(60) DEF Web!vars, Web!Of, Web!NoStream, Web!NoLive, Web!NewLoad, Web!Opening,
     Web!Reduce,
     Web!Replay, Web!Running, Web!Accept, Web!Emit, Web!Stop, Web!MayAct, Web!Send, Web!Deliver,
     Web!SendEnds, Web!StreamOver, Web!StreamEnds, Web!StreamBreaks, Web!Serve, Web!Reset,
     Web!ShowMessages, Web!ServeEvents, Web!Latest, Web!Replayed, Web!ShowTurns, Web!LoadFails,
     Web!Load, Web!NewHistory, Web!NewSession, Web!Refresh, Web!Server, Web!Next, Web!RemoveAt,
     SA!Web!vars, SA!Web!Of, SA!Web!NoStream, SA!Web!NoLive, SA!Web!NewLoad, SA!Web!Opening,
     SA!Web!Reduce, SA!Web!Replay, SA!Web!Running, SA!Web!Accept, SA!Web!Emit, SA!Web!Stop,
     SA!Web!MayAct, SA!Web!Send, SA!Web!Deliver, SA!Web!SendEnds, SA!Web!StreamOver,
     SA!Web!StreamEnds, SA!Web!StreamBreaks, SA!Web!Serve, SA!Web!Reset, SA!Web!ShowMessages,
     SA!Web!ServeEvents, SA!Web!Latest, SA!Web!Replayed, SA!Web!ShowTurns, SA!Web!LoadFails,
     SA!Web!Load, SA!Web!NewHistory, SA!Web!NewSession, SA!Web!Refresh, SA!Web!Server, SA!Web!Next,
     SA!Web!RemoveAt
<1> QED
  BY <1>1, <1>2

LEMMA WebHolds ==
    ASSUME Web!FirstAssumption
    PROVE  /\ Web!Init => SA!PageInvariant
           /\ SA!PageInvariant => Web!TypeOK /\ Web!TrueToSession
           /\ SA!PageInvariant /\ [Web!Next]_(Web!vars) => SA!PageInvariant'
<1>1. SA!Web!FirstAssumption
  BY ZenonT(60) DEF Web!FirstAssumption, SA!Web!FirstAssumption
<1>2. SA!Web!TypeOK => Web!TypeOK
  BY ZenonT(60) DEF Web!Turn, Web!TypeOK, SA!Web!Turn, SA!Web!TypeOK
<1>3. SA!Web!StreamShown => Web!StreamShown
  BY ZenonT(60) DEF Web!StreamShown, SA!Web!StreamShown
<1>4. SA!Web!OwnSession => Web!OwnSession
  BY ZenonT(60) DEF Web!Of, Web!OwnCards, Web!OwnSession, SA!Web!Of, SA!Web!OwnCards,
     SA!Web!OwnSession
<1>5. SA!Web!AllIsShown => Web!AllIsShown
  BY ZenonT(60) DEF Web!Of, Web!NoLive, Web!Reduce, Web!Replay, Web!Latest, Web!AllIsShown,
     SA!Web!Of,
     SA!Web!NoLive, SA!Web!Reduce, SA!Web!Replay, SA!Web!Latest, SA!Web!AllIsShown
<1>6. SA!Web!Recorded => Web!Recorded
  BY ZenonT(60) DEF Web!Of, Web!Recorded, SA!Web!Of, SA!Web!Recorded
<1>7. SA!Web!TrueToSession => Web!TrueToSession
  BY <1>3, <1>4, <1>5, <1>6 DEF Web!TrueToSession, SA!Web!TrueToSession
<1>8. SA!PageInvariant => SA!Typed /\ SA!Phased
  BY DEF SA!PageInvariant
<1> QED
  BY <1>1, <1>2, <1>7, <1>8, WebSame, SA!PageInit, SA!PageNext, SA!PageTypes, SA!PageShows

LEMMA PagedSame ==
    /\ Paged!Init => SP!Paged!Init
    /\ [Paged!Next]_(Paged!vars) => [SP!Paged!Next]_(SP!Paged!vars)
<1>1. Paged!Init => SP!Paged!Init
  BY ZenonT(60) DEF Paged!Init, Paged!SetToSeq, SP!Paged!Init, SP!Paged!SetToSeq,
     Paged!IsInjective, Paged!Cardinality, SP!Paged!IsInjective, SP!Paged!Cardinality
<1>2. [Paged!Next]_(Paged!vars) => [SP!Paged!Next]_(SP!Paged!vars)
  BY ZenonT(60) DEF Paged!vars, Paged!PageOf, Paged!PagesOf, Paged!TotalPage, Paged!TotalNumber,
     Paged!MorePages, Paged!End, Paged!Again, Paged!Fail, Paged!Keep, Paged!Refuses, Paged!Page,
     Paged!Change, Paged!AddRecord, Paged!RemoveRecord, Paged!Next, Paged!ToSet, Paged!InsertAt,
     Paged!RemoveAt, SP!Paged!vars, SP!Paged!PageOf, SP!Paged!PagesOf, SP!Paged!TotalPage,
     SP!Paged!TotalNumber, SP!Paged!MorePages, SP!Paged!End, SP!Paged!Again, SP!Paged!Fail,
     SP!Paged!Keep, SP!Paged!Refuses, SP!Paged!Page, SP!Paged!Change, SP!Paged!AddRecord,
     SP!Paged!RemoveRecord, SP!Paged!Next, SP!Paged!ToSet, SP!Paged!InsertAt, SP!Paged!RemoveAt
<1> QED
  BY <1>1, <1>2

LEMMA PagedHolds ==
    ASSUME Paged!ReadAssumption, Paged!PageAssumption, Paged!NoneAssumption
    PROVE  /\ Paged!Init => SP!PagedInv
           /\ SP!PagedInv => /\ Paged!TypeOK /\ Paged!NothingForeign
                             /\ Paged!WholeWhenStill /\ Paged!AddedHideNothing
           /\ SP!PagedInv /\ [Paged!Next]_(Paged!vars) => SP!PagedInv'
<1>1. SP!PagedAssumptions
  BY DEF SP!PagedAssumptions, Paged!ReadAssumption, Paged!PageAssumption, Paged!NoneAssumption,
     Paged!IsFiniteSet, SP!Paged!ReadAssumption, SP!Paged!PageAssumption, SP!Paged!NoneAssumption,
     SP!Paged!IsFiniteSet
<1>2. SP!Paged!TypeOK => Paged!TypeOK
  BY DEF Paged!TypeOK, SP!Paged!TypeOK
<1>3. SP!Paged!WholeWhenStill => Paged!WholeWhenStill
  BY DEF Paged!Mine, Paged!WholeWhenStill, Paged!ToSet, SP!Paged!Mine, SP!Paged!WholeWhenStill,
     SP!Paged!ToSet
<1>4. SP!Paged!AddedHideNothing => Paged!AddedHideNothing
  BY DEF Paged!Mine, Paged!AddedHideNothing, Paged!ToSet, SP!Paged!Mine, SP!Paged!AddedHideNothing,
     SP!Paged!ToSet
<1>5. SP!Paged!NothingForeign => Paged!NothingForeign
  BY DEF Paged!NothingForeign, SP!Paged!NothingForeign
<1> QED
  BY <1>1, <1>2, <1>3, <1>4, <1>5, PagedSame, SP!PagedInit, SP!PagedNext, SP!PagedTypes,
     SP!ReadsFollow

(* Operations on TikTok. *)

LEMMA PlatformSame ==
    /\ Platform!Init => SP!Init
    /\ [Platform!Next]_(Platform!vars) => [SP!Next]_(SP!vars)
<1>1. Platform!Init => SP!Init
  BY ZenonT(60) DEF Platform!AllSteps, Platform!Creates, Platform!Init, SP!AllSteps, SP!Creates,
     SP!Init
<1>2. [Platform!Next]_(Platform!vars) => [SP!Next]_(SP!vars)
  BY ZenonT(60) DEF Platform!client, Platform!platform, Platform!wire, Platform!vars,
     Platform!AllSteps,
     Platform!Steps, Platform!Creates, Platform!Attempts, Platform!Again, Platform!Classify,
     Platform!FailureState, Platform!Finish, Platform!AsReviewed, Platform!Revalidate,
     Platform!NoCredential, Platform!Post, Platform!Identified, Platform!Accepted, Platform!Refused,
     Platform!Unanswered, Platform!Reconcilable, Platform!Reconcile, Platform!CommentMatches,
     Platform!Matches, Platform!ReadBack, Platform!ReadFails, Platform!Hold, Platform!Take,
     Platform!Lose, Platform!EditConditions, Platform!EditRecord, Platform!Comment, Platform!Client,
     Platform!Next, SP!client, SP!platform, SP!wire, SP!vars, SP!AllSteps, SP!Steps, SP!Creates,
     SP!Attempts, SP!Again, SP!Classify, SP!FailureState, SP!Finish, SP!AsReviewed, SP!Revalidate,
     SP!NoCredential, SP!Post, SP!Identified, SP!Accepted, SP!Refused, SP!Unanswered,
     SP!Reconcilable, SP!Reconcile, SP!CommentMatches, SP!Matches, SP!ReadBack, SP!ReadFails,
     SP!Hold, SP!Take, SP!Lose, SP!EditConditions, SP!EditRecord, SP!Comment, SP!Client, SP!Next
<1> QED
  BY <1>1, <1>2

LEMMA PlatformHolds ==
    ASSUME Platform!KindAssumption, Platform!BoundAssumption, Platform!NoneAssumption
    PROVE  /\ SP!Assumptions
           /\ Platform!Init => SP!IInv /\ SP!EndedWhere
           /\ SP!IInv => Platform!TypeOK /\ Platform!OperationsAreTrue
           /\ SP!IInv /\ SP!EndedWhere /\ [Platform!Next]_(Platform!vars)
                 => (SP!IInv /\ SP!EndedWhere)'
<1>1. SP!Assumptions
  BY ZenonT(60) DEF SP!Assumptions, Platform!KindAssumption, Platform!BoundAssumption,
     Platform!NoneAssumption,
     SP!KindAssumption, SP!BoundAssumption, SP!NoneAssumption
<1>2. SP!TypeOK => Platform!TypeOK
  BY DEF Platform!AllSteps, Platform!Steps, Platform!TypeOK, SP!AllSteps, SP!Steps, SP!TypeOK
<1>3. SP!OperationsAreTrue => Platform!OperationsAreTrue
  <2>1. SP!SentOnce => Platform!SentOnce
    BY ZenonT(60) DEF Platform!AllSteps, Platform!SentOnce, SP!AllSteps, SP!SentOnce
  <2>2. SP!OutcomeIsTrue => Platform!OutcomeIsTrue
    BY ZenonT(60) DEF Platform!AllSteps, Platform!Steps, Platform!HasMade, Platform!MayHaveMade,
       Platform!OutcomeIsTrue, Platform!Cardinality, SP!AllSteps, SP!Steps, SP!HasMade,
       SP!MayHaveMade, SP!OutcomeIsTrue, SP!Cardinality
  <2>3. (SP!Readable => SP!ConfirmedWasHeld) => (Platform!Readable => Platform!ConfirmedWasHeld)
    BY ZenonT(60) DEF Platform!AllSteps, Platform!Steps, Platform!ConfirmedWasHeld,
       Platform!Readable,
       SP!AllSteps, SP!Steps, SP!ConfirmedWasHeld, SP!Readable
  <2> QED
    BY <2>1, <2>2, <2>3 DEF SP!OperationsAreTrue, Platform!OperationsAreTrue
<1>4. SP!IInv /\ SP!EndedWhere /\ [SP!Next]_(SP!vars) => (SP!IInv /\ SP!EndedWhere)'
  BY <1>1, SP!NextHolds, SP!EndedWhereHolds
<1> QED
  BY <1>1, <1>2, <1>3, <1>4, PlatformSame, SP!InitHolds, SP!WriteBegins, SP!TypesFollow,
     SP!OperationFollows

-----------------------------------------------------------------------------
(* The parts side by side.                                                  *)

side == <<part, vars, gate, keyFile, browser, reader, operation>>

\* The part that runs keeps what its component keeps.
SideInv ==
    /\ Requested
    /\ part = "accounts" => SA!IInv
    /\ part = "keys" => SK!IInv
    /\ part = "failing" => SA!KeyInv
    /\ part = "dying" => SD!KeyInv /\ SD!Served
    /\ part = "web" => SA!PageInvariant
    /\ part = "paged" => SP!PagedInv
    /\ part = "platform" => SP!IInv /\ SP!EndedWhere

\* A step is one of the part that runs, and the others stand still.
LEMMA OnePartMoves ==
    ASSUME [SideNext]_side
    PROVE  /\ part' = part
           /\ [Next]_vars
           /\ part = "accounts" => [Accounts!Next]_(Accounts!vars)
           /\ part = "keys" => [Keys!Next]_(Keys!vars)
           /\ part = "failing" => [Failing!Next]_(Failing!vars)
           /\ part = "dying" => [Dying!Next]_(Dying!vars)
           /\ part = "web" => [Web!Next]_(Web!vars)
           /\ part = "paged" => [Paged!Next]_(Paged!vars)
           /\ part = "platform" => [Platform!Next]_(Platform!vars)
<1> USE DEF gate, keyFile, browser, reader, operation, Accounts!vars, Accounts!lock,
        Accounts!memory, Accounts!disk, Accounts!ghosts, Keys!vars, Keys!lock, Keys!memory,
        Keys!disk, Keys!ghosts, Failing!vars, Dying!vars, Web!vars, Paged!vars, Platform!vars,
        Platform!client, Platform!platform, Platform!wire
<1>1. CASE UNCHANGED side
  BY ZenonT(60), <1>1 DEF side, vars
<1>2. CASE SideNext
  BY <1>2 DEF SideNext
<1> QED
  BY <1>1, <1>2

LEMMA SideBegins == SideInit => SideInv
<1> SUFFICES ASSUME SideInit PROVE SideInv
  OBVIOUS
<1>1. /\ Init
      /\ part = "accounts" => Accounts!Init
      /\ part = "keys" => Keys!Init
      /\ part = "failing" => Failing!Init
      /\ part = "dying" => Dying!Init
      /\ Web!Init /\ Paged!Init /\ Platform!Init
  BY DEF SideInit
<1> QED
  BY <1>1, RequestedInit, AccountsHold, KeysHold, FailingHolds, DyingHolds, WebHolds, PagedHolds,
     PlatformHolds, GatesAssumption, KeysAssumption, ClientsAssumption
  DEF SideInv

LEMMA SideStays == SideInv /\ [SideNext]_side => SideInv'
<1> SUFFICES ASSUME SideInv, [SideNext]_side PROVE SideInv'
  OBVIOUS
<1>1. Requested'
  BY OnePartMoves, RequestedNext DEF SideInv
<1>2. ASSUME part = "accounts" PROVE SA!IInv'
  BY <1>2, OnePartMoves, AccountsNext, AccountsHold, GatesAssumption DEF SideInv
<1>3. ASSUME part = "keys" PROVE SK!IInv'
  BY <1>3, OnePartMoves, KeysNext, KeysHold, GatesAssumption DEF SideInv
<1>4. ASSUME part = "failing" PROVE SA!KeyInv'
  BY <1>4, OnePartMoves, FailingHolds, KeysAssumption DEF SideInv
<1>5. ASSUME part = "dying" PROVE (SD!KeyInv /\ SD!Served)'
  BY <1>5, OnePartMoves, DyingHolds, KeysAssumption DEF SideInv
<1>6. ASSUME part = "web" PROVE SA!PageInvariant'
  BY <1>6, OnePartMoves, WebHolds, ClientsAssumption DEF SideInv
<1>7. ASSUME part = "paged" PROVE SP!PagedInv'
  BY <1>7, OnePartMoves, PagedHolds, ClientsAssumption DEF SideInv
<1>8. ASSUME part = "platform" PROVE (SP!IInv /\ SP!EndedWhere)'
  BY <1>8, OnePartMoves, PlatformHolds, ClientsAssumption DEF SideInv
<1>9. part' = part
  BY OnePartMoves
<1> QED
  BY <1>1, <1>2, <1>3, <1>4, <1>5, <1>6, <1>7, <1>8, <1>9 DEF SideInv

LEMMA SideAlways == SideBySide => []SideInv
  BY SideBegins, SideStays, PTL DEF SideBySide, side

\* The requests, the configuration, the key files, the page, the reads and the operations
\* keep their types, whichever part runs.
THEOREM SuiteTypeCorrect == SideBySide => []TypesOK
<1>1. SideInv => TypesOK
  BY AccountsHold, KeysHold, FailingHolds, WebHolds, PagedHolds, PlatformHolds, GatesAssumption,
     KeysAssumption, ClientsAssumption
  DEF SideInv, TypesOK, Requested
<1> QED
  BY <1>1, SideAlways, PTL

\* The servers that serve accept the key in the file, however many start and whichever of
\* them die or fail (httpapi/server.go:109).
THEOREM SuiteServesKeys == SideBySide => []KeyIsServed
<1>1. SideInv => KeyIsServed
  BY FailingHolds, DyingHolds, KeysAssumption DEF SideInv, KeyIsServed
<1> QED
  BY <1>1, SideAlways, PTL

\* The page is true to its session whatever its operator does, but from a message or new
\* session that overtakes a load to the end of a load that begins alone; it shows only what
\* was recorded even then (web/src/App.tsx:2769, 3079).
THEOREM SuiteShowsPages == SideBySide => []PageIsTrue
<1>1. SideInv => PageIsTrue
  BY WebHolds, ClientsAssumption DEF SideInv, PageIsTrue
<1> QED
  BY <1>1, SideAlways, PTL

\* A read of several pages returns what was there (tiktokmapi/backend.go:253).
THEOREM SuiteReadsWhole == SideBySide => []ReadsAreWhole
<1>1. SideInv => ReadsAreWhole
  BY PagedHolds, ClientsAssumption DEF SideInv, ReadsAreWhole
<1> QED
  BY <1>1, SideAlways, PTL

\* Settings hold for several accounts as for several providers (httpapi/settings.go:234).
THEOREM SuiteHoldsSettings == SideBySide => SettingsHold
<1>1. SideInv => /\ part = "accounts" => Accounts!ConfigurationHolds
                 /\ part = "keys" => Keys!ConfigurationHolds
  BY AccountsHold, KeysHold, GatesAssumption DEF SideInv
<1>2. SideInv /\ [SideNext]_side =>
         [/\ part = "accounts" => Accounts!KeepsBudgets
          /\ part = "keys" => Keys!KeepsBudgets]_gate
  <2>1. part = "accounts" /\ SideInv /\ [SideNext]_side => [Accounts!KeepsBudgets]_(Accounts!vars)
    BY OnePartMoves, AccountsHold, GatesAssumption DEF SideInv
  <2>2. part = "keys" /\ SideInv /\ [SideNext]_side => [Keys!KeepsBudgets]_(Keys!vars)
    BY OnePartMoves, KeysHold, GatesAssumption DEF SideInv
  <2>3. UNCHANGED Accounts!vars => UNCHANGED gate
    BY ZenonT(60) DEF gate, Accounts!vars, Accounts!lock, Accounts!memory, Accounts!disk,
       Accounts!ghosts
  <2>4. UNCHANGED Keys!vars => UNCHANGED gate
    BY ZenonT(60) DEF gate, Keys!vars, Keys!lock, Keys!memory, Keys!disk, Keys!ghosts
  <2> QED
    BY <2>1, <2>2, <2>3, <2>4
<1> QED
  BY <1>1, <1>2, SideAlways, PTL DEF SideBySide, side, SettingsHold

LEMMA WriteSame ==
    /\ Platform!Write!Init <=> SP!Write!Init
    /\ [SP!Write!Next]_(SP!Write!vars) => Platform!Write!Next \/ UNCHANGED Platform!Write!vars
<1>1. /\ Platform!Answer = SP!Answer /\ Platform!Effect = SP!Effect
      /\ Platform!Answer' = SP!Answer' /\ Platform!Effect' = SP!Effect'
  BY ZenonT(60) DEF Platform!AllSteps, Platform!Steps, Platform!HasMade, Platform!Made,
     Platform!Answer,
     Platform!Effect, SP!AllSteps, SP!Steps, SP!HasMade, SP!Made, SP!Answer, SP!Effect
<1>2. SP!Write!Answer => Platform!Write!Answer
  BY <1>1 DEF Platform!Write!RequestAnswers, Platform!Write!BundleAnswers, Platform!Write!Answers,
     Platform!Write!Answer, SP!Write!RequestAnswers, SP!Write!BundleAnswers, SP!Write!Answers,
     SP!Write!Answer
<1>3. SP!Write!Arrive \/ SP!Write!Vanish => Platform!Write!Arrive \/ Platform!Write!Vanish
  BY <1>1 DEF Platform!Write!Arrived, Platform!Write!Arrive, Platform!Write!Vanish,
     SP!Write!Arrived, SP!Write!Arrive, SP!Write!Vanish
<1>4. SP!Write!Confirm => Platform!Write!Confirm
  BY <1>1 DEF Platform!Write!Confirm, SP!Write!Confirm
<1>5. UNCHANGED SP!Write!vars => UNCHANGED Platform!Write!vars
  BY <1>1 DEF Platform!Write!vars, SP!Write!vars
<1>6. Platform!Write!Init <=> SP!Write!Init
  BY <1>1 DEF Platform!Write!Init, SP!Write!Init
<1> QED
  BY <1>2, <1>3, <1>4, <1>5, <1>6 DEF Platform!Write!Next, SP!Write!Next

\* Operations are true of what TikTok did, and give the Change Service one answer of those
\* it reckons with (tiktokmapi/client.go:164, agenthost/changes.go:250).
THEOREM SuiteHoldsOperations == SideBySide => OperationsHold
<1>1. SideInv => (part = "platform" => Platform!OperationsAreTrue)
  BY PlatformHolds, ClientsAssumption DEF SideInv
<1>2. SideInit => (part = "platform" => Platform!Write!Init)
  BY PlatformHolds, PlatformSame, WriteSame, SP!WriteBegins, ClientsAssumption DEF SideInit
<1>3. SideInv => (part = "platform" => SP!Reckoned)
  BY PlatformHolds, SP!ReckonedFollows, ClientsAssumption DEF SideInv
<1>4. SideInv /\ (part = "platform" => SP!Reckoned)' /\ [SideNext]_side =>
         [part = "platform" => Platform!Write!Next \/ UNCHANGED Platform!Write!vars]_operation
  <2> SUFFICES ASSUME SideInv, part' = "platform" => SP!Reckoned', [SideNext]_side,
                      part = "platform"
               PROVE  Platform!Write!Next \/ UNCHANGED Platform!Write!vars
    BY ZenonT(60)
  <2>1. SP!Assumptions /\ SP!IInv /\ SP!EndedWhere
    BY PlatformHolds, ClientsAssumption DEF SideInv
  <2>2. SP!Reckoned' /\ [SP!Next]_(SP!vars)
    BY OnePartMoves, PlatformSame
  <2> QED
    BY <2>1, <2>2, SP!WriteStep, WriteSame
<1> QED
  BY <1>1, <1>2, <1>3, <1>4, SideAlways, PTL DEF SideBySide, side, OperationsHold
=============================================================================
