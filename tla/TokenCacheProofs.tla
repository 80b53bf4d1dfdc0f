-------------------------- MODULE TokenCacheProofs --------------------------
(***************************************************************************)
(* TokenCache for any threads, configurations, lifetimes and bounds.       *)
(*                                                                         *)
(* Provenance ties every token, cached or held, to the key it was minted   *)
(* under; the safety theorems build on it.  Early shows that the early     *)
(* expiry covers the time a token is under way, Erased that a rejected     *)
(* token can never be found or stored again, Dated that a key identifies a *)
(* login unless the file is rewritten twice within a second.               *)
(***************************************************************************)
EXTENDS TokenCache, TLAPS

\* The facts about Append that the proofs use.
LEMMA AppendFacts ==
  ASSUME NEW S, NEW s \in Seq(S), NEW x \in S
  PROVE  /\ Append(s, x) \in Seq(S)
         /\ Len(Append(s, x)) = Len(s) + 1
         /\ \A i \in 1..Len(s) : Append(s, x)[i] = s[i]
         /\ Append(s, x)[Len(s) + 1] = x
OBVIOUS

-----------------------------------------------------------------------------
(* Types and provenance                                                    *)

Keyed(t) == req[t].at \in {"find", "read", "mint", "store"}
HasToken(t) == req[t].at \in {"store", "send", "answered"}

\* A token belongs to the key under which the thread that asked for it computed
\* it; the cache holds it under that key only, and a request holds only tokens
\* of the key it computed.
Provenance ==
  /\ \A i \in 1..Len(tokens) : tokens[i].config = tokens[i].key.config
  /\ \A k \in Key : cache[k] # NoEntry =>
       /\ cache[k].tok \in 1..Len(tokens)
       /\ tokens[cache[k].tok].key = k
  /\ \A t \in Thread :
       IF IsStatic(t)
       THEN req[t].at \in {"token", "send", "answered"} /\ req[t].tok = StaticToken
       ELSE /\ req[t].at # "token" =>
                 req[t].key \in Key /\ req[t].key.config = config[t]
            /\ HasToken(t) =>
                 req[t].tok \in 1..Len(tokens) /\ tokens[req[t].tok].key = req[t].key

Safe == TypeOK /\ Provenance

\* What changes when only the request of thread t does, to r.
OnlyRequest(t, r) ==
  /\ req' = [req EXCEPT ![t] = r]
  /\ UNCHANGED <<now, file, tokens, revoked, cache, config>>

\* A request may become r: it keeps its shape, and holds no foreign key or token.
Fits(t, r) ==
  /\ r \in Request
  /\ r.tok <= Len(tokens)
  /\ IF IsStatic(t)
     THEN r.at \in {"token", "send", "answered"} /\ r.tok = StaticToken
     ELSE /\ r.at # "token" => r.key \in Key /\ r.key.config = config[t]
          /\ r.at \in {"store", "send", "answered"} =>
               r.tok \in 1..Len(tokens) /\ tokens[r.tok].key = r.key

LEMMA OnlyRequestSafe ==
  ASSUME Safe, NEW t \in Thread, NEW r, OnlyRequest(t, r), Fits(t, r)
  PROVE  Safe'
<1> USE DEF Safe, OnlyRequest, Fits
<1>1. TypeOK'
  BY DEF TypeOK
<1>2. Provenance'
  BY DEF Provenance, TypeOK, IsStatic, HasToken
<1> QED
  BY <1>1, <1>2

LEMMA NewRequestFits ==
  ASSUME Safe, NEW t \in Thread
  PROVE  Fits(t, NewRequest)
<1>1. Len(tokens) \in Nat
  BY DEF Safe, TypeOK
<1> QED
  BY <1>1, TimeAssumption DEF Fits, NewRequest, Request, NoKey, StaticToken

LEMMA KeyTyped ==
  ASSUME TypeOK, NEW c \in Config
  PROVE  TokenCacheKey(c) \in Key /\ TokenCacheKey(c).config = c
BY DEF TypeOK, TokenCacheKey, Key

\* The steps of a thread that change nothing but its request.
LocalStep(t) ==
  \/ UseStaticToken(t) \/ ComputeKey(t) \/ FindCached(t) \/ FindNothing(t)
  \/ ReadCredentials(t) \/ TokenFails(t) \/ Attempt(t) \/ RetryTransient(t)
  \/ EndRequest(t)

LEMMA LocalStepFits ==
  ASSUME Safe, NEW t \in Thread, LocalStep(t)
  PROVE  \E r : OnlyRequest(t, r) /\ Fits(t, r)
<1> USE DEF Safe
<1>0. /\ req[t] \in Request /\ req \in [Thread -> Request] /\ Len(tokens) \in Nat
      /\ config[t] \in Config \cup {Static} /\ MaxTokens \in Nat /\ MaxLogins \in Nat
      /\ req[t].tok <= Len(tokens) /\ file.login \in 0..MaxLogins
      /\ Len(tokens) <= MaxTokens
  <2>1. Len(tokens) \in Nat
    BY DEF TypeOK
  <2>2. file.login \in 0..MaxLogins
    BY DEF TypeOK
  <2> QED
    BY <2>1, <2>2, TimeAssumption DEF TypeOK
<1>1. CASE UseStaticToken(t)
  <2> DEFINE r == [req[t] EXCEPT !.at = "send", !.tok = StaticToken]
  <2>1. OnlyRequest(t, r)
    BY <1>0, <1>1 DEF UseStaticToken, OnlyRequest
  <2>2. 0 \in 0..MaxTokens /\ 0 <= Len(tokens)
    BY <1>0
  <2>3. r \in Request /\ r.at = "send" /\ r.tok = 0
    BY <1>0, <2>2 DEF Request, StaticToken
  <2>4. IsStatic(t)
    BY <1>1 DEF UseStaticToken
  <2>5. Fits(t, r)
    <3> HIDE DEF r
    <3> QED
      BY <2>2, <2>3, <2>4 DEF Fits, StaticToken
  <2> QED
    BY <2>1, <2>5
<1>2. CASE ComputeKey(t)
  <2> DEFINE k == TokenCacheKey(config[t])
             r == [req[t] EXCEPT !.at = "find", !.key = k, !.keyLogin = file.login]
  <2>1. OnlyRequest(t, r)
    BY <1>0, <1>2 DEF ComputeKey, OnlyRequest
  <2>2. k \in Key /\ k.config = config[t]
    BY <1>0, <1>2, KeyTyped DEF ComputeKey, IsStatic
  <2>3. Fits(t, r)
    <3> HIDE DEF k
    <3> QED
      BY <1>0, <1>2, <2>2 DEF ComputeKey, Fits, Request
  <2> QED
    BY <2>1, <2>3
<1>3. CASE FindCached(t)
  <2> DEFINE e == cache[req[t].key]
             r == [req[t] EXCEPT !.at = "send", !.tok = e.tok]
  <2>1. OnlyRequest(t, r)
    BY <1>0, <1>3 DEF FindCached, OnlyRequest
  <2>2. ~IsStatic(t) /\ req[t].key \in Key /\ req[t].key.config = config[t]
    BY <1>3 DEF FindCached, Provenance
  <2>3. e.tok \in 1..Len(tokens) /\ tokens[e.tok].key = req[t].key
    BY <1>3, <2>2 DEF FindCached, Usable, Provenance
  <2>4. e.tok \in 0..MaxTokens
    BY <2>2 DEF TypeOK, Entry
  <2> HIDE DEF e
  <2>5. r \in Request /\ r.tok = e.tok /\ r.key = req[t].key
    BY <1>0, <2>4 DEF Request
  <2>6. e.tok <= Len(tokens)
    BY <1>0, <2>3
  <2>7. Fits(t, r)
    <3> HIDE DEF r
    <3> QED
      BY <2>2, <2>3, <2>5, <2>6 DEF Fits
  <2> QED
    BY <2>1, <2>7
<1>4. CASE FindNothing(t)
  <2> DEFINE r == [req[t] EXCEPT !.at = "read"]
  <2>1. OnlyRequest(t, r)
    BY <1>0, <1>4 DEF FindNothing, OnlyRequest
  <2>2. Fits(t, r)
    BY <1>0, <1>4 DEF FindNothing, Fits, Request, Provenance
  <2> QED
    BY <2>1, <2>2
<1>5. CASE ReadCredentials(t)
  <2> DEFINE r == [req[t] EXCEPT !.at = "mint", !.login = file.login]
  <2>1. OnlyRequest(t, r)
    BY <1>0, <1>5 DEF ReadCredentials, OnlyRequest
  <2>2. Fits(t, r)
    BY <1>0, <1>5 DEF ReadCredentials, Fits, Request, Provenance
  <2> QED
    BY <2>1, <2>2
<1>6. CASE TokenFails(t) \/ EndRequest(t)
  <2>1. OnlyRequest(t, NewRequest)
    BY <1>0, <1>6 DEF TokenFails, EndRequest, OnlyRequest
  <2> QED
    BY <2>1, NewRequestFits
<1>7. CASE Attempt(t)
  <2>1. PICK a \in {"transient", "ok", "unauthorized"} :
          req' = [req EXCEPT ![t].at = "answered", ![t].answer = a]
    BY <1>7 DEF Attempt
  <2> DEFINE r == [req[t] EXCEPT !.at = "answered", !.answer = a]
  <2>2. OnlyRequest(t, r)
    BY <1>0, <1>7, <2>1 DEF Attempt, OnlyRequest
  <2>3. Fits(t, r)
    BY <1>0, <1>7 DEF Attempt, Fits, Request, Provenance, HasToken
  <2> QED
    BY <2>2, <2>3
<1>8. CASE RetryTransient(t)
  <2> DEFINE r == NextAttempt(req[t])
  <2>1. OnlyRequest(t, r)
    BY <1>0, <1>8 DEF RetryTransient, OnlyRequest
  <2>2. Fits(t, r)
    BY <1>0, NewRequestFits DEF Fits, NextAttempt, NewRequest, Request
  <2> QED
    BY <2>1, <2>2
<1> QED
  BY <1>1, <1>2, <1>3, <1>4, <1>5, <1>6, <1>7, <1>8 DEF LocalStep

LEMMA SafePreserved == Safe /\ [Next]_vars => Safe'
<1> SUFFICES ASSUME Safe, [Next]_vars
             PROVE  Safe'
  OBVIOUS
<1> USE DEF Safe
<1>0. /\ MaxTime \in Nat /\ MaxTokens \in Nat /\ MaxLogins \in Nat /\ Margin \in Nat
      /\ Lifetimes \subseteq Nat /\ Len(tokens) \in Nat
  BY TimeAssumption DEF TypeOK
<1>1. CASE Tick
  <2>1. now' \in Second
    BY <1>0, <1>1 DEF Tick, TypeOK, Second
  <2>2. UNCHANGED <<file, tokens, revoked, cache, config, req>>
    BY <1>1 DEF Tick
  <2>3. TypeOK'
    BY <2>1, <2>2 DEF TypeOK
  <2>4. Provenance'
    BY <2>2 DEF Provenance, IsStatic, HasToken
  <2> QED
    BY <2>3, <2>4
<1>2. CASE Login
  <2>1. file' \in [login : 0..MaxLogins, mtime : Second]
    <3>1. file.login + 1 \in 0..MaxLogins
      <4>1. file.login \in 0..MaxLogins
        BY DEF TypeOK
      <4> QED
        BY <1>0, <1>2, <4>1 DEF Login
    <3>2. now \in Second
      BY DEF TypeOK
    <3> QED
      BY <1>2, <3>1, <3>2 DEF Login
  <2>2. UNCHANGED <<now, tokens, revoked, cache, config, req>>
    BY <1>2 DEF Login
  <2>3. TypeOK'
    BY <2>1, <2>2 DEF TypeOK
  <2>4. Provenance'
    BY <2>2 DEF Provenance, IsStatic, HasToken
  <2> QED
    BY <2>3, <2>4
<1>3. CASE Revoke
  BY <1>0, <1>3 DEF Revoke, TypeOK, Provenance, IsStatic, HasToken
<1>4. ASSUME NEW t \in Thread, LocalStep(t)
      PROVE  Safe'
  BY <1>4, LocalStepFits, OnlyRequestSafe
<1>5. ASSUME NEW t \in Thread, IssueToken(t)
      PROVE  Safe'
  <2>1. PICK life \in Lifetimes :
          tokens' = Append(tokens, [login |-> req[t].login, config |-> config[t],
                                    issued |-> now, life |-> life,
                                    key |-> req[t].key, keyLogin |-> req[t].keyLogin])
    BY <1>5 DEF IssueToken
  <2> DEFINE x == [login |-> req[t].login, config |-> config[t],
                   issued |-> now, life |-> life,
                   key |-> req[t].key, keyLogin |-> req[t].keyLogin]
             r == [req[t] EXCEPT !.at = "store", !.tok = Len(tokens) + 1]
  <2>2. ~IsStatic(t) /\ req[t].key \in Key /\ req[t].key.config = config[t]
    BY <1>5 DEF IssueToken, Provenance
  <2>3. x \in Token
    BY <2>2 DEF TypeOK, Request, Token, IsStatic
  <2>4. /\ tokens' \in Seq(Token)
        /\ Len(tokens') = Len(tokens) + 1
        /\ \A i \in 1..Len(tokens) : tokens'[i] = tokens[i]
        /\ tokens'[Len(tokens) + 1] = x
    <3> HIDE DEF x
    <3>1. tokens' = Append(tokens, x)
      BY <2>1 DEF x
    <3> QED
      BY <2>3, <3>1, AppendFacts DEF TypeOK
  <2>5. /\ req' = [req EXCEPT ![t] = r]
        /\ UNCHANGED <<now, file, revoked, cache, config>>
        /\ Len(tokens) < MaxTokens
    BY <1>5 DEF IssueToken, TypeOK
  <2>6. r \in Request /\ r.at = "store" /\ r.tok = Len(tokens) + 1 /\ r.key = req[t].key
    <3>1. Len(tokens) + 1 \in 0..MaxTokens
      BY <1>0, <2>5
    <3>2. req[t] \in Request
      BY DEF TypeOK
    <3> QED
      BY <3>1, <3>2 DEF Request
  <2>7. x.key = req[t].key /\ x.config = req[t].key.config
    BY <2>2
  <2> HIDE DEF x, r
  <2>8. TypeOK'
    <3>1. tokens' \in Seq(Token) /\ Len(tokens') <= MaxTokens
      BY <1>0, <2>4, <2>5
    <3>2. revoked' \in 0..Len(tokens') + 1
      BY <1>0, <2>4, <2>5 DEF TypeOK
    <3>3. req' \in [Thread -> Request]
      BY <2>5, <2>6 DEF TypeOK
    <3>4. ASSUME NEW u \in Thread
          PROVE  req'[u].tok <= Len(tokens')
      <4>1. CASE u = t
        <5>1. req'[u] = r
          BY <2>5, <4>1 DEF TypeOK
        <5> QED
          BY <1>0, <2>4, <2>6, <5>1
      <4>2. CASE u # t
        <5>1. req'[u] = req[u] /\ req[u].tok <= Len(tokens) /\ req[u].tok \in Nat
          BY <1>0, <2>5, <4>2 DEF TypeOK, Request
        <5> QED
          BY <1>0, <2>4, <5>1
      <4> QED
        BY <4>1, <4>2
    <3> QED
      BY <2>5, <3>1, <3>2, <3>3, <3>4 DEF TypeOK
  <2>9. Provenance'
    <3>1. \A i \in 1..Len(tokens') : tokens'[i].config = tokens'[i].key.config
      <4> TAKE i \in 1..Len(tokens')
      <4>1. CASE i \in 1..Len(tokens)
        BY <2>4, <4>1 DEF Provenance
      <4>2. CASE i = Len(tokens) + 1
        BY <2>4, <2>7, <4>2
      <4> QED
        BY <1>0, <2>4, <4>1, <4>2
    <3>2. \A k \in Key : cache'[k] # NoEntry =>
             cache'[k].tok \in 1..Len(tokens') /\ tokens'[cache'[k].tok].key = k
      BY <1>0, <2>4, <2>5 DEF Provenance
    <3>3. \A u \in Thread :
            IF IsStatic(u)'
            THEN req'[u].at \in {"token", "send", "answered"} /\ req'[u].tok = StaticToken
            ELSE /\ req'[u].at # "token" =>
                      req'[u].key \in Key /\ req'[u].key.config = config'[u]
                 /\ HasToken(u)' =>
                      req'[u].tok \in 1..Len(tokens') /\ tokens'[req'[u].tok].key = req'[u].key
      <4> TAKE u \in Thread
      <4>1. CASE u = t
        <5>1. req'[u] = r
          BY <2>5, <4>1 DEF TypeOK
        <5> QED
          BY <1>0, <2>2, <2>4, <2>5, <2>6, <2>7, <4>1, <5>1 DEF IsStatic, HasToken
      <4>2. CASE u # t
        <5>1. req'[u] = req[u]
          BY <2>5, <4>2 DEF TypeOK
        <5> QED
          BY <1>0, <2>4, <2>5, <4>2, <5>1 DEF IsStatic, HasToken, Provenance
      <4> QED
        BY <4>1, <4>2
    <3> QED
      BY <3>1, <3>2, <3>3 DEF Provenance
  <2> QED
    BY <2>8, <2>9
<1>6. ASSUME NEW t \in Thread, StoreToken(t)
      PROVE  Safe'
  <2> DEFINE r == [req[t] EXCEPT !.at = "send"]
             e == [tok |-> req[t].tok, expiry |-> EarlyExpiry(tokens[req[t].tok].life)]
  <2>1. /\ ~IsStatic(t) /\ req[t].key \in Key /\ req[t].key.config = config[t]
        /\ req[t].tok \in 1..Len(tokens) /\ tokens[req[t].tok].key = req[t].key
    BY <1>6 DEF StoreToken, Provenance, HasToken
  <2>2. e \in Entry /\ e.tok = req[t].tok
    <3>1. tokens[req[t].tok].life \in Nat /\ now \in Nat /\ req[t].tok \in 0..MaxTokens
      <4>1. tokens[req[t].tok] \in Token /\ now \in Second /\ req[t] \in Request
        BY <2>1 DEF TypeOK
      <4>2. tokens[req[t].tok].life \in Lifetimes
        BY <4>1 DEF Token
      <4>3. now \in Nat
        BY <1>0, <4>1 DEF Second
      <4> QED
        BY <1>0, <4>1, <4>2, <4>3 DEF Request
    <3>2. EarlyExpiry(tokens[req[t].tok].life) \in Nat
      BY <1>0, <3>1 DEF EarlyExpiry
    <3> QED
      BY <3>1, <3>2 DEF Entry
  <2>3. /\ req' = [req EXCEPT ![t] = r]
        /\ cache' = [cache EXCEPT ![req[t].key] = e]
        /\ UNCHANGED <<now, file, tokens, revoked, config>>
    BY <1>6 DEF StoreToken, TypeOK
  <2>4. r \in Request /\ r.at = "send" /\ r.tok = req[t].tok /\ r.key = req[t].key
    BY DEF TypeOK, Request
  <2> HIDE DEF r, e
  <2>5. TypeOK'
    BY <1>0, <2>1, <2>2, <2>3, <2>4 DEF TypeOK
  <2>6. Provenance'
    <3>1. \A k \in Key : cache'[k] # NoEntry =>
             cache'[k].tok \in 1..Len(tokens) /\ tokens[cache'[k].tok].key = k
      BY <2>1, <2>2, <2>3 DEF Provenance, TypeOK
    <3> QED
      BY <2>1, <2>3, <2>4, <3>1 DEF Provenance, TypeOK, IsStatic, HasToken
  <2> QED
    BY <2>5, <2>6
<1>7. ASSUME NEW t \in Thread, Reject(t)
      PROVE  Safe'
  <2> DEFINE r == [NextAttempt(req[t]) EXCEPT !.refreshed = TRUE,
                     !.rejected = req[t].tok, !.mark = Len(tokens)]
  <2>1. /\ req' = [req EXCEPT ![t] = r]
        /\ UNCHANGED <<now, file, tokens, revoked, config>>
    BY <1>7 DEF Reject, TypeOK
  <2>2. r \in Request /\ r.at = "token" /\ r.tok = 0
    <3>1. /\ req[t] \in Request
          /\ Len(tokens) \in 0..MaxTokens /\ 0 \in 0..MaxTokens /\ 0 \in 0..MaxLogins
      BY <1>0 DEF TypeOK
    <3>2. req[t].tok \in 0..MaxTokens
      BY <3>1 DEF Request
    <3> QED
      BY <3>1, <3>2 DEF Request, NextAttempt, NewRequest
  <2>3. /\ cache' \in [Key -> Entry]
        /\ \A k \in Key : cache'[k] \in {cache[k], NoEntry}
    <3>1. NoEntry \in Entry
      BY <1>0 DEF NoEntry, Entry
    <3> QED
      BY <1>7, <3>1 DEF Reject, Invalidated, TypeOK
  <2> HIDE DEF r
  <2>4. TypeOK'
    BY <1>0, <2>1, <2>2, <2>3 DEF TypeOK
  <2>5. Provenance'
    <3>1. \A k \in Key : cache'[k] # NoEntry =>
             cache'[k].tok \in 1..Len(tokens) /\ tokens[cache'[k].tok].key = k
      BY <2>3 DEF Provenance
    <3> QED
      BY <2>1, <2>2, <3>1 DEF Provenance, TypeOK, IsStatic, HasToken, StaticToken
  <2> QED
    BY <2>4, <2>5
<1>8. CASE UNCHANGED vars
  BY <1>8 DEF vars, TypeOK, Provenance, IsStatic, HasToken
<1> QED
  BY <1>1, <1>2, <1>3, <1>4, <1>5, <1>6, <1>7, <1>8
     DEF Next, Environment, Step, LocalStep

LEMMA SafeInvariant == Spec => []Safe
<1>1. Init => Safe
  <2> SUFFICES ASSUME Init
               PROVE  Safe
    OBVIOUS
  <2>1. NoEntry \in Entry
    BY TimeAssumption DEF NoEntry, Entry
  <2>2. NewRequest \in Request
    BY TimeAssumption DEF NewRequest, Request, NoKey
  <2>3. /\ tokens \in Seq(Token) /\ Len(tokens) = 0
    BY DEF Init
  <2>4. now \in Second /\ file.mtime \in Second
    BY TimeAssumption DEF Init, Second
  <2>5. cache = [k \in Key |-> NoEntry] /\ req = [t \in Thread |-> NewRequest]
    BY DEF Init
  <2>6. /\ NewRequest.at = "token" /\ NewRequest.tok = 0
    BY DEF NewRequest
  <2>7. file \in [login : 0..MaxLogins, mtime : Second]
    BY <2>4, TimeAssumption DEF Init
  <2>8. TypeOK
    <3>1. Len(tokens) <= MaxTokens /\ revoked \in 0..Len(tokens) + 1
      BY <2>3, TimeAssumption DEF Init
    <3>2. config \in [Thread -> Config \cup {Static}]
      BY DEF Init
    <3> HIDE DEF Init
    <3> QED
      BY <2>1, <2>2, <2>3, <2>4, <2>5, <2>6, <2>7, <3>1, <3>2 DEF TypeOK
  <2>9. Provenance
    BY <2>3, <2>5, <2>6 DEF Provenance, StaticToken, HasToken, IsStatic
  <2> QED
    BY <2>8, <2>9 DEF Safe
<1> QED
  BY <1>1, SafePreserved, PTL DEF Spec

\* The variables keep their ranges.
THEOREM TypeCorrect == Spec => []TypeOK
BY SafeInvariant, PTL DEF Safe

\* Requests are sent with tokens of their own configuration.
THEOREM TokensMatchConfigs == Spec => []TokenMatchesConfig
<1>1. Safe => TokenMatchesConfig
  BY DEF Safe, Provenance, TokenMatchesConfig, Holds, HasToken, StaticToken, IsStatic
<1> QED
  BY <1>1, SafeInvariant, PTL

-----------------------------------------------------------------------------
(* What a local step may make of a request                                 *)

\* It keeps the key it has or takes the one of the current file, keeps the token
\* it has or takes the one the cache holds under its key, and remembers a
\* rejection until the request ends.
Moves(t, r) ==
  /\ r.at # "store"
  /\ r.at \notin {"token", "find"} => req[t].at # "token" \/ IsStatic(t)
  /\ r.at = "find" => r.key.mtime = file.mtime /\ r.keyLogin = file.login
  /\ r.at \notin {"token", "find"} => r.key = req[t].key /\ r.keyLogin = req[t].keyLogin
  /\ r.at = "mint" => r.login = file.login
  /\ r.at \in {"send", "answered"} /\ ~IsStatic(t) =>
       \/ Holds(t) /\ r.tok = req[t].tok
       \/ /\ req[t].at = "find" /\ cache[req[t].key] # NoEntry
          /\ r.tok = cache[req[t].key].tok
  /\ r.refreshed => req[t].refreshed /\ r.rejected = req[t].rejected

LEMMA LocalStepMoves ==
  ASSUME Safe, NEW t \in Thread, LocalStep(t)
  PROVE  OnlyRequest(t, req'[t]) /\ Fits(t, req'[t]) /\ Moves(t, req'[t])
<1>1. PICK r : OnlyRequest(t, r) /\ Fits(t, r)
  BY LocalStepFits
<1>2. req \in [Thread -> Request] /\ req[t] \in Request
  BY DEF Safe, TypeOK
<1>3. req'[t] = r
  BY <1>1, <1>2 DEF OnlyRequest
<1>4. Moves(t, req'[t])
  <2>1. CASE UseStaticToken(t)
    BY <1>2, <2>1 DEF UseStaticToken, Moves, Request
  <2>2. CASE ComputeKey(t)
    BY <1>2, <2>2 DEF ComputeKey, TokenCacheKey, Moves, Request
  <2>3. CASE FindCached(t)
    BY <1>2, <2>3 DEF FindCached, Usable, Moves, Request
  <2>4. CASE FindNothing(t)
    BY <1>2, <2>4 DEF FindNothing, Moves, Request
  <2>5. CASE ReadCredentials(t)
    BY <1>2, <2>5 DEF ReadCredentials, Moves, Request
  <2>6. CASE TokenFails(t) \/ EndRequest(t)
    BY <1>2, <2>6 DEF TokenFails, EndRequest, NewRequest, Moves
  <2>7. CASE Attempt(t)
    BY <1>2, <2>7 DEF Attempt, Holds, Moves, Request
  <2>8. CASE RetryTransient(t)
    BY <1>2, <2>8 DEF RetryTransient, NextAttempt, NewRequest, Moves
  <2> QED
    BY <2>1, <2>2, <2>3, <2>4, <2>5, <2>6, <2>7, <2>8 DEF LocalStep
<1> QED
  BY <1>1, <1>3, <1>4

\* Every step is one of the environment, a local one, or one of the three that
\* touch the tokens or the cache.
LEMMA StepCases ==
  ASSUME [Next]_vars
  PROVE  \/ Tick \/ Login \/ Revoke \/ UNCHANGED vars
         \/ \E t \in Thread : LocalStep(t) \/ IssueToken(t) \/ StoreToken(t) \/ Reject(t)
BY DEF Next, Environment, Step, LocalStep

\* The state of a thread that steps, and of the others.
LEMMA OtherRequests ==
  ASSUME TypeOK, NEW t \in Thread, NEW r, req' = [req EXCEPT ![t] = r]
  PROVE  req'[t] = r /\ \A u \in Thread : u # t => req'[u] = req[u]
BY DEF TypeOK

\* What IssueToken and Reject do, with the new request spelled out.
LEMMA IssuedToken ==
  ASSUME Safe, NEW t \in Thread, IssueToken(t)
  PROVE  \E x \in Token :
           /\ x.issued = now /\ x.key = req[t].key /\ x.keyLogin = req[t].keyLogin
           /\ x.login = req[t].login /\ tokens' = Append(tokens, x)
           /\ UNCHANGED <<now, file, revoked, cache, config>>
           /\ req' = [req EXCEPT ![t] = [req[t] EXCEPT !.at = "store", !.tok = Len(tokens) + 1]]
           /\ req[t].at = "mint" /\ ~IsStatic(t)
<1>1. PICK life \in Lifetimes :
        tokens' = Append(tokens, [login |-> req[t].login, config |-> config[t],
                                  issued |-> now, life |-> life,
                                  key |-> req[t].key, keyLogin |-> req[t].keyLogin])
  BY DEF IssueToken
<1> DEFINE x == [login |-> req[t].login, config |-> config[t],
                 issued |-> now, life |-> life,
                 key |-> req[t].key, keyLogin |-> req[t].keyLogin]
<1>2. ~IsStatic(t) /\ req[t].key \in Key
  BY DEF IssueToken, Safe, Provenance
<1>3. x \in Token
  BY <1>2 DEF Safe, TypeOK, Request, Token, IsStatic
<1>4. /\ UNCHANGED <<now, file, revoked, cache, config>>
      /\ req' = [req EXCEPT ![t] = [req[t] EXCEPT !.at = "store", !.tok = Len(tokens) + 1]]
      /\ req[t].at = "mint"
  BY DEF IssueToken, Safe, TypeOK
<1>5. /\ x.issued = now /\ x.key = req[t].key /\ x.keyLogin = req[t].keyLogin
      /\ x.login = req[t].login /\ tokens' = Append(tokens, x)
  BY <1>1
<1> HIDE DEF x
<1> QED
  BY <1>2, <1>3, <1>4, <1>5

LEMMA RejectEffect ==
  ASSUME Safe, NEW t \in Thread, Reject(t)
  PROVE  /\ UNCHANGED <<now, file, tokens, revoked, config>>
         /\ req'[t].at = "token" /\ req'[t].refreshed /\ req'[t].rejected = req[t].tok
         /\ \A u \in Thread : u # t => req'[u] = req[u]
         /\ \A k \in Key : cache'[k] \in {cache[k], NoEntry}
         /\ ~IsStatic(t) => \A k \in Key : k = TokenCacheKey(config[t]) => cache'[k] = NoEntry
         /\ Holds(t)
<1>1. TypeOK
  BY DEF Safe
<1>2. /\ req'[t] = [NextAttempt(req[t]) EXCEPT !.refreshed = TRUE,
                      !.rejected = req[t].tok, !.mark = Len(tokens)]
      /\ \A u \in Thread : u # t => req'[u] = req[u]
      /\ UNCHANGED <<now, file, tokens, revoked, config>>
      /\ cache' = Invalidated(t)
      /\ req[t].at = "answered"
  BY <1>1 DEF Reject, TypeOK
<1>3. /\ req'[t].at = "token" /\ req'[t].refreshed /\ req'[t].rejected = req[t].tok
  BY <1>2 DEF NextAttempt, NewRequest
<1>4. /\ \A k \in Key : cache'[k] \in {cache[k], NoEntry}
      /\ ~IsStatic(t) => \A k \in Key : k = TokenCacheKey(config[t]) => cache'[k] = NoEntry
  BY <1>1, <1>2 DEF Invalidated, TypeOK
<1> QED
  BY <1>2, <1>3, <1>4 DEF Holds

-----------------------------------------------------------------------------
(* The early expiry covers the time a token is under way                   *)

Early ==
  /\ \A k \in Key : cache[k] # NoEntry =>
       \/ cache[k].expiry <= tokens[cache[k].tok].issued + tokens[cache[k].tok].life
       \/ cache[k].expiry <= now
  /\ \A t \in Thread : req[t].at = "store" => now <= tokens[req[t].tok].issued + MaxDelay

\* The numbers the argument is about.
LEMMA Numbers ==
  ASSUME Safe
  PROVE  /\ now \in Nat /\ Len(tokens) \in Nat /\ file.mtime \in Nat /\ file.login \in Nat
         /\ Margin \in Nat /\ MaxDelay \in Nat /\ MaxDelay <= Margin
         /\ \A i \in 1..Len(tokens) :
              /\ tokens[i].issued \in Nat /\ tokens[i].life \in Nat
              /\ tokens[i].login \in Nat /\ tokens[i].keyLogin \in Nat
              /\ tokens[i].key \in Key
         /\ \A k \in Key : cache[k].expiry \in Nat /\ k.mtime \in Nat
         /\ \A t \in Thread : req[t].tok \in Nat /\ req[t].rejected \in Nat
                              /\ req[t].keyLogin \in Nat /\ req[t].login \in Nat
<1> USE TimeAssumption DEF Safe
<1>1. now \in Nat /\ Second \subseteq Nat /\ file.mtime \in Nat
  BY DEF TypeOK, Second
<1>2. file.login \in Nat /\ Len(tokens) \in Nat
  BY DEF TypeOK
<1>3. ASSUME NEW i \in 1..Len(tokens)
      PROVE  /\ tokens[i].issued \in Nat /\ tokens[i].life \in Nat
             /\ tokens[i].login \in Nat /\ tokens[i].keyLogin \in Nat
             /\ tokens[i].key \in Key
  <2>1. tokens[i] \in Token
    BY DEF TypeOK
  <2>2. /\ tokens[i].issued \in Second /\ tokens[i].life \in Lifetimes
        /\ tokens[i].login \in 0..MaxLogins /\ tokens[i].keyLogin \in 0..MaxLogins
        /\ tokens[i].key \in Key
    BY <2>1 DEF Token
  <2>3. Lifetimes \subseteq Nat /\ 0..MaxLogins \subseteq Nat
    OBVIOUS
  <2> QED
    BY <1>1, <2>2, <2>3
<1>4. ASSUME NEW k \in Key
      PROVE  cache[k].expiry \in Nat /\ k.mtime \in Nat
  BY <1>1 DEF TypeOK, Entry, Key
<1>5. ASSUME NEW t \in Thread
      PROVE  /\ req[t].tok \in Nat /\ req[t].rejected \in Nat
             /\ req[t].keyLogin \in Nat /\ req[t].login \in Nat
  <2>1. req[t] \in Request
    BY DEF TypeOK
  <2>2. /\ req[t].tok \in 0..MaxTokens /\ req[t].rejected \in 0..MaxTokens
        /\ req[t].keyLogin \in 0..MaxLogins /\ req[t].login \in 0..MaxLogins
    BY <2>1 DEF Request
  <2> QED
    BY <2>2
<1>6. Margin \in Nat /\ MaxDelay \in Nat /\ MaxDelay <= Margin
  BY DelayAssumption
<1> QED
  BY <1>1, <1>2, <1>3, <1>4, <1>5, <1>6

\* What a thread that holds or stores a token knows of it.
LEMMA Stored ==
  ASSUME Safe, NEW t \in Thread, req[t].at = "store"
  PROVE  /\ ~IsStatic(t) /\ req[t].tok \in 1..Len(tokens)
         /\ req[t].key \in Key /\ tokens[req[t].tok].key = req[t].key
BY DEF Safe, Provenance, HasToken

LEMMA EarlyPreserved == Safe /\ Early /\ [Next]_vars => Early'
<1> SUFFICES ASSUME Safe, Early, [Next]_vars
             PROVE  Early'
  OBVIOUS
<1>0. TypeOK /\ Provenance
  BY DEF Safe
<1>1. CASE Tick
  <2>1. /\ now' = now + 1 /\ UNCHANGED <<file, tokens, revoked, cache, config, req>>
        /\ \A t \in Thread : req[t].at = "store" => now < tokens[req[t].tok].issued + MaxDelay
    BY <1>1 DEF Tick
  <2>2. ASSUME NEW k \in Key, cache[k] # NoEntry
        PROVE  \/ cache[k].expiry <= tokens[cache[k].tok].issued + tokens[cache[k].tok].life
               \/ cache[k].expiry <= now + 1
    BY <2>2, Numbers DEF Early
  <2>3. ASSUME NEW t \in Thread, req[t].at = "store"
        PROVE  now + 1 <= tokens[req[t].tok].issued + MaxDelay
    BY <2>1, <2>3, Numbers, Stored
  <2> QED
    BY <2>1, <2>2, <2>3 DEF Early
<1>2. CASE Login \/ Revoke \/ UNCHANGED vars
  BY <1>2 DEF Login, Revoke, vars, Early
<1>3. ASSUME NEW t \in Thread, LocalStep(t)
      PROVE  Early'
  <2>1. OnlyRequest(t, req'[t]) /\ req'[t].at # "store"
    BY <1>3, LocalStepMoves DEF Moves
  <2>2. \A u \in Thread : u # t => req'[u] = req[u]
    BY <1>0, <2>1, OtherRequests DEF OnlyRequest
  <2> QED
    BY <2>1, <2>2 DEF Early, OnlyRequest
<1>4. ASSUME NEW t \in Thread, IssueToken(t)
      PROVE  Early'
  <2>1. PICK x :
          /\ x.issued = now /\ tokens' = Append(tokens, x) /\ x \in Token
          /\ UNCHANGED <<now, cache>>
          /\ req' = [req EXCEPT ![t] = [req[t] EXCEPT !.at = "store", !.tok = Len(tokens) + 1]]
    BY <1>0, <1>4, IssuedToken
  <2>2. /\ \A i \in 1..Len(tokens) : tokens'[i] = tokens[i]
        /\ tokens'[Len(tokens) + 1] = x
    BY <1>0, <2>1, AppendFacts DEF TypeOK
  <2>3. /\ \A u \in Thread : u # t => req'[u] = req[u]
        /\ req'[t].tok = Len(tokens) + 1
    <3> DEFINE r == [req[t] EXCEPT !.at = "store", !.tok = Len(tokens) + 1]
    <3>1. req[t] \in Request
      BY <1>0 DEF TypeOK
    <3>2. r.tok = Len(tokens) + 1
      BY <3>1 DEF Request
    <3>3. req' = [req EXCEPT ![t] = r]
      BY <2>1
    <3> HIDE DEF r
    <3> QED
      BY <1>0, <3>2, <3>3, OtherRequests
  <2>4. ASSUME NEW k \in Key, cache'[k] # NoEntry
        PROVE  \/ cache'[k].expiry <= tokens'[cache'[k].tok].issued + tokens'[cache'[k].tok].life
               \/ cache'[k].expiry <= now'
    BY <1>0, <2>1, <2>2, <2>4 DEF Early, Provenance
  <2>5. ASSUME NEW u \in Thread, req'[u].at = "store"
        PROVE  now' <= tokens'[req'[u].tok].issued + MaxDelay
    <3>1. CASE u = t
      BY <2>1, <2>2, <2>3, <3>1, Numbers
    <3>2. CASE u # t
      BY <2>1, <2>2, <2>3, <2>5, <3>2, Stored DEF Early
    <3> QED
      BY <3>1, <3>2
  <2> QED
    BY <2>4, <2>5 DEF Early
<1>5. ASSUME NEW t \in Thread, StoreToken(t)
      PROVE  Early'
  <2> DEFINE life == tokens[req[t].tok].life
             e == [tok |-> req[t].tok, expiry |-> EarlyExpiry(life)]
  <2>1. /\ cache' = [cache EXCEPT ![req[t].key] = e] /\ UNCHANGED <<now, tokens>>
        /\ req' = [req EXCEPT ![t] = [req[t] EXCEPT !.at = "send"]]
        /\ req[t].at = "store"
    BY <1>0, <1>5 DEF StoreToken, TypeOK
  <2>2. EarlyExpiry(life) <= tokens[req[t].tok].issued + life \/ EarlyExpiry(life) <= now
    <3>1. /\ life \in Nat /\ tokens[req[t].tok].issued \in Nat
          /\ now <= tokens[req[t].tok].issued + MaxDelay
      BY <2>1, Numbers, Stored DEF Early
    <3>2. now \in Nat /\ Margin \in Nat /\ MaxDelay \in Nat /\ MaxDelay <= Margin
      BY Numbers
    <3> HIDE DEF life
    <3>3. CASE life > Margin
      <4>1. EarlyExpiry(life) = now + (life - Margin)
        BY <3>3 DEF EarlyExpiry
      <4> QED
        BY <3>1, <3>2, <4>1
    <3>4. CASE ~(life > Margin)
      BY <3>2, <3>4 DEF EarlyExpiry
    <3> QED
      BY <3>3, <3>4
  <2>3. ASSUME NEW k \in Key, cache'[k] # NoEntry
        PROVE  \/ cache'[k].expiry <= tokens[cache'[k].tok].issued + tokens[cache'[k].tok].life
               \/ cache'[k].expiry <= now
    <3>1. CASE k = req[t].key
      <4>1. cache'[k] = e
        BY <1>0, <2>1, <3>1 DEF TypeOK
      <4> QED
        BY <2>2, <4>1
    <3>2. CASE k # req[t].key
      <4>1. cache'[k] = cache[k]
        BY <1>0, <2>1, <3>2 DEF TypeOK
      <4> QED
        BY <2>3, <4>1 DEF Early
    <3> QED
      BY <3>1, <3>2
  <2>4. ASSUME NEW u \in Thread, req'[u].at = "store"
        PROVE  now <= tokens[req'[u].tok].issued + MaxDelay
    <3>1. req'[t].at = "send" /\ \A v \in Thread : v # t => req'[v] = req[v]
      <4> DEFINE r == [req[t] EXCEPT !.at = "send"]
      <4>1. req[t] \in Request
        BY <1>0 DEF TypeOK
      <4>2. r.at = "send"
        BY <4>1 DEF Request
      <4>3. req' = [req EXCEPT ![t] = r]
        BY <2>1
      <4> HIDE DEF r
      <4> QED
        BY <1>0, <4>2, <4>3, OtherRequests
    <3> QED
      BY <2>4, <3>1 DEF Early
  <2> QED
    BY <2>1, <2>3, <2>4 DEF Early
<1>6. ASSUME NEW t \in Thread, Reject(t)
      PROVE  Early'
  <2>1. /\ UNCHANGED <<now, tokens>>
        /\ req'[t].at = "token" /\ \A u \in Thread : u # t => req'[u] = req[u]
        /\ \A k \in Key : cache'[k] \in {cache[k], NoEntry}
    BY <1>0, <1>6, RejectEffect
  <2> QED
    BY <2>1 DEF Early
<1> QED
  BY <1>1, <1>2, <1>3, <1>4, <1>5, <1>6, StepCases

\* Expired tokens are not handed out.
THEOREM UsableEntriesAreUnexpired == Spec => []UsableEntryIsUnexpired
<1>1. Init => Early
  BY DEF Init, Early, NewRequest
<1>2. Safe /\ Early => UsableEntryIsUnexpired
  <2> SUFFICES ASSUME Safe, Early, NEW k \in Key, Usable(cache[k])
               PROVE  tokens[cache[k].tok].issued + tokens[cache[k].tok].life > now
    BY DEF UsableEntryIsUnexpired
  <2>1. cache[k].tok \in 1..Len(tokens)
    BY DEF Safe, Provenance, Usable
  <2>2. cache[k].expiry > now
    BY DEF Usable
  <2>3. \/ cache[k].expiry <= tokens[cache[k].tok].issued + tokens[cache[k].tok].life
        \/ cache[k].expiry <= now
    BY DEF Early, Usable
  <2>4. /\ tokens[cache[k].tok].issued \in Nat /\ tokens[cache[k].tok].life \in Nat
        /\ cache[k].expiry \in Nat /\ now \in Nat
    BY <2>1, Numbers
  <2> QED
    BY <2>2, <2>3, <2>4
<1> QED
  BY <1>1, <1>2, SafeInvariant, EarlyPreserved, PTL DEF Spec

-----------------------------------------------------------------------------
(* A rejected token is never sent again                                    *)

\* A token under way to the cache is held by one thread and not cached yet.
Pending ==
  /\ \A t, u \in Thread :
       req[u].at = "store" /\ HasToken(t) /\ req[t].tok = req[u].tok => t = u
  /\ \A u \in Thread : req[u].at = "store" =>
       \A k \in Key : cache[k] # NoEntry => cache[k].tok # req[u].tok

\* The rejected token of a request is issued, not on its way to the cache, not
\* what the request finds or holds, and cached, if at all, under an old key.
Retired(t) ==
  /\ req[t].rejected \in 1..Len(tokens)
  /\ \A u \in Thread : req[u].at = "store" => req[u].tok # req[t].rejected
  /\ \A k \in Key : cache[k] # NoEntry /\ cache[k].tok = req[t].rejected =>
       k.mtime < file.mtime
  /\ req[t].at = "find" /\ cache[req[t].key] # NoEntry =>
       cache[req[t].key].tok # req[t].rejected
  /\ Holds(t) => req[t].tok # req[t].rejected

\* The clock is never behind the file, nor a key ahead of it.
KeysAreNotAhead ==
  /\ file.mtime <= now
  /\ \A k \in Key : cache[k] # NoEntry => k.mtime <= file.mtime
  /\ \A t \in Thread : Keyed(t) => req[t].key.mtime <= file.mtime

Erased ==
  /\ KeysAreNotAhead
  /\ Pending
  /\ \A t \in Thread : ~IsStatic(t) /\ req[t].refreshed => Retired(t)

\* A local step that keeps the key starts from a keyed state.
LEMMA LocalStepKeyed ==
  ASSUME Safe, NEW t \in Thread, LocalStep(t), req'[t].at \in {"read", "mint"}
  PROVE  Keyed(t) /\ req'[t].key = req[t].key
<1>1. req \in [Thread -> Request] /\ req[t] \in Request
  BY DEF Safe, TypeOK
<1>2. CASE FindNothing(t) \/ ReadCredentials(t)
  BY <1>1, <1>2 DEF FindNothing, ReadCredentials, Keyed, Request
<1>3. CASE UseStaticToken(t) \/ ComputeKey(t) \/ FindCached(t)
  BY <1>1, <1>3 DEF UseStaticToken, ComputeKey, FindCached, Request
<1>4. CASE TokenFails(t) \/ RetryTransient(t) \/ EndRequest(t)
  <2>1. CASE TokenFails(t) \/ EndRequest(t)
    BY <1>1, <2>1 DEF TokenFails, EndRequest, NewRequest
  <2>2. CASE RetryTransient(t)
    <3>1. NextAttempt(req[t]).at = "token"
      BY DEF NextAttempt, NewRequest
    <3> QED
      BY <1>1, <2>2, <3>1 DEF RetryTransient
  <2> QED
    BY <1>4, <2>1, <2>2
<1>5. CASE Attempt(t)
  BY <1>1, <1>5 DEF Attempt, Request
<1> QED
  BY <1>2, <1>3, <1>4, <1>5 DEF LocalStep

LEMMA EnvironmentKeepsErased ==
  ASSUME Safe, Erased, Tick \/ Login \/ Revoke \/ UNCHANGED vars
  PROVE  Erased'
<1>1. /\ UNCHANGED <<tokens, cache, config, req>>
      /\ file'.mtime >= file.mtime /\ file'.mtime <= now'
      /\ file'.mtime \in Nat
  BY Numbers DEF Tick, Login, Revoke, vars, Erased, KeysAreNotAhead
<1>2. KeysAreNotAhead'
  <2>1. ASSUME NEW k \in Key, cache[k] # NoEntry
        PROVE  k.mtime <= file'.mtime
    BY <1>1, <2>1, Numbers DEF Erased, KeysAreNotAhead
  <2>2. ASSUME NEW t \in Thread, Keyed(t)
        PROVE  req[t].key.mtime <= file'.mtime
    <3>1. req[t].key \in Key
      BY <2>2 DEF Safe, Provenance, Keyed
    <3> QED
      BY <1>1, <2>2, <3>1, Numbers DEF Erased, KeysAreNotAhead
  <2> QED
    BY <1>1, <2>1, <2>2 DEF KeysAreNotAhead, Keyed
<1>3. Pending'
  BY <1>1 DEF Erased, Pending, HasToken
<1>4. ASSUME NEW t \in Thread, ~IsStatic(t)', req'[t].refreshed
      PROVE  Retired(t)'
  <2>1. Retired(t)
    BY <1>1, <1>4 DEF Erased, IsStatic
  <2>2. ASSUME NEW k \in Key, cache[k] # NoEntry, cache[k].tok = req[t].rejected
        PROVE  k.mtime < file'.mtime
    BY <1>1, <2>1, <2>2, Numbers DEF Retired
  <2> QED
    BY <1>1, <2>1, <2>2 DEF Retired, Holds
<1> QED
  BY <1>2, <1>3, <1>4 DEF Erased

LEMMA LocalStepKeepsErased ==
  ASSUME Safe, Erased, NEW t \in Thread, LocalStep(t)
  PROVE  Erased'
<1>1. OnlyRequest(t, req'[t]) /\ Fits(t, req'[t]) /\ Moves(t, req'[t])
  BY LocalStepMoves
<1>2. /\ \A u \in Thread : u # t => req'[u] = req[u]
      /\ UNCHANGED <<now, file, tokens, cache, config>>
  BY <1>1, OtherRequests DEF OnlyRequest, Safe
<1>3. /\ req'[t].at # "store"
      /\ req'[t].at \in {"send", "answered"} /\ ~IsStatic(t) =>
           \/ Holds(t) /\ req'[t].tok = req[t].tok
           \/ /\ req[t].at = "find" /\ cache[req[t].key] # NoEntry
              /\ req'[t].tok = cache[req[t].key].tok
  BY <1>1 DEF Moves
<1>4. KeysAreNotAhead'
  <2>1. ASSUME NEW u \in Thread, Keyed(u)'
        PROVE  req'[u].key.mtime <= file'.mtime
    <3>1. CASE u # t
      BY <1>2, <2>1, <3>1 DEF Erased, KeysAreNotAhead, Keyed
    <3>2. CASE u = t /\ req'[t].at = "find"
      BY <1>1, <1>2, <3>2, Numbers DEF Moves
    <3>3. CASE u = t /\ req'[t].at # "find"
      BY <1>1, <1>2, <2>1, <3>3, LocalStepKeyed DEF Erased, KeysAreNotAhead, Keyed, Moves
    <3> QED
      BY <3>1, <3>2, <3>3
  <2> QED
    BY <1>2, <2>1 DEF Erased, KeysAreNotAhead
<1>5. Pending'
  <2>1. ASSUME NEW v \in Thread, NEW u \in Thread,
               req'[u].at = "store", HasToken(v)', req'[v].tok = req'[u].tok
        PROVE  v = u
    <3>1. u # t /\ req[u].at = "store" /\ req'[u] = req[u]
      BY <1>2, <1>3, <2>1
    <3>2. CASE v # t
      BY <1>2, <2>1, <3>1, <3>2 DEF Erased, Pending, HasToken
    <3>3. CASE v = t
      <4>1. req'[t].at \in {"send", "answered"} /\ req'[t].tok = req[u].tok
        BY <1>3, <2>1, <3>1, <3>3 DEF HasToken
      <4>2. CASE IsStatic(t)
        <5>1. req'[t].tok = 0
          BY <1>1, <4>2 DEF Fits, StaticToken
        <5>2. req[u].tok \in 1..Len(tokens)
          BY <3>1, Stored
        <5>3. req[u].tok # 0
          BY <5>2, Numbers
        <5> QED
          BY <4>1, <5>1, <5>3
      <4>3. CASE ~IsStatic(t) /\ Holds(t) /\ req'[t].tok = req[t].tok
        BY <3>1, <3>3, <4>1, <4>3 DEF Erased, Pending, HasToken, Holds
      <4>4. CASE /\ ~IsStatic(t) /\ req[t].at = "find" /\ cache[req[t].key] # NoEntry
                 /\ req'[t].tok = cache[req[t].key].tok
        <5>1. req[t].key \in Key
          BY <4>4 DEF Safe, Provenance
        <5> QED
          BY <3>1, <4>1, <4>4, <5>1 DEF Erased, Pending
      <4> QED
        BY <1>3, <4>1, <4>2, <4>3, <4>4
    <3> QED
      BY <3>2, <3>3
  <2>2. ASSUME NEW u \in Thread, req'[u].at = "store",
               NEW k \in Key, cache[k] # NoEntry
        PROVE  cache[k].tok # req'[u].tok
    BY <1>2, <1>3, <2>2 DEF Erased, Pending
  <2> QED
    BY <1>2, <2>1, <2>2 DEF Pending
<1>6. ASSUME NEW v \in Thread, ~IsStatic(v)', req'[v].refreshed
      PROVE  Retired(v)'
  <2>1. /\ ~IsStatic(v) /\ req[v].refreshed /\ req'[v].rejected = req[v].rejected
    BY <1>1, <1>2, <1>6 DEF IsStatic, Moves
  <2>2. Retired(v)
    BY <2>1 DEF Erased
  <2>3. \A u \in Thread : req'[u].at = "store" => req'[u].tok # req[v].rejected
    BY <1>2, <1>3, <2>2 DEF Retired
  <2>4. req'[v].at = "find" /\ cache[req'[v].key] # NoEntry =>
          cache[req'[v].key].tok # req[v].rejected
    <3>1. CASE v # t
      BY <1>2, <2>2, <3>1 DEF Retired
    <3>2. CASE v = t
      <4> SUFFICES ASSUME req'[t].at = "find", cache[req'[t].key] # NoEntry
                   PROVE  cache[req'[t].key].tok # req[t].rejected
        BY <3>2
      <4>1. req'[t].key \in Key /\ req'[t].key.mtime = file.mtime
        BY <1>1, <2>1, <3>2 DEF Fits, Moves
      <4> QED
        BY <2>2, <3>2, <4>1, Numbers DEF Retired
    <3> QED
      BY <3>1, <3>2
  <2>5. Holds(v)' => req'[v].tok # req[v].rejected
    BY <1>2, <1>3, <2>1, <2>2 DEF Retired, Holds
  <2> QED
    BY <1>2, <2>1, <2>2, <2>3, <2>4, <2>5 DEF Retired
<1> QED
  BY <1>4, <1>5, <1>6 DEF Erased

LEMMA IssueKeepsErased ==
  ASSUME Safe, Erased, NEW t \in Thread, IssueToken(t)
  PROVE  Erased'
<1> DEFINE r == [req[t] EXCEPT !.at = "store", !.tok = Len(tokens) + 1]
<1>1. PICK x \in Token :
        /\ tokens' = Append(tokens, x) /\ UNCHANGED <<now, file, cache, config>>
        /\ req' = [req EXCEPT ![t] = r] /\ req[t].at = "mint" /\ ~IsStatic(t)
  BY IssuedToken
<1>2. /\ r.at = "store" /\ r.tok = Len(tokens) + 1 /\ r.key = req[t].key
      /\ r.refreshed = req[t].refreshed /\ r.rejected = req[t].rejected
  <2>1. req[t] \in Request
    BY DEF Safe, TypeOK
  <2> QED
    BY <2>1 DEF Request
<1> HIDE DEF r
<1>3. req'[t] = r /\ \A u \in Thread : u # t => req'[u] = req[u]
  BY <1>1, OtherRequests DEF Safe
<1>4. Len(tokens) \in Nat /\ Len(tokens') = Len(tokens) + 1
  BY <1>1, Numbers, AppendFacts DEF Safe, TypeOK
<1>5. /\ \A u \in Thread : req[u].tok # Len(tokens) + 1
      /\ \A k \in Key : cache[k] # NoEntry => cache[k].tok # Len(tokens) + 1
  <2>1. \A u \in Thread : req[u].tok <= Len(tokens) /\ req[u].tok \in Nat
    BY Numbers DEF Safe, TypeOK
  <2>2. \A k \in Key : cache[k] # NoEntry => cache[k].tok \in 1..Len(tokens)
    BY DEF Safe, Provenance
  <2> QED
    BY <1>4, <2>1, <2>2
<1>6. KeysAreNotAhead'
  <2>1. ASSUME NEW u \in Thread, Keyed(u)'
        PROVE  req'[u].key.mtime <= file.mtime
    BY <1>1, <1>2, <1>3, <2>1 DEF Erased, KeysAreNotAhead, Keyed
  <2> QED
    BY <1>1, <2>1 DEF Erased, KeysAreNotAhead
<1>7. Pending'
  <2>1. ASSUME NEW v \in Thread, NEW u \in Thread,
               req'[u].at = "store", HasToken(v)', req'[v].tok = req'[u].tok
        PROVE  v = u
    BY <1>2, <1>3, <1>5, <2>1 DEF Erased, Pending, HasToken
  <2>2. ASSUME NEW u \in Thread, req'[u].at = "store",
               NEW k \in Key, cache[k] # NoEntry
        PROVE  cache[k].tok # req'[u].tok
    BY <1>2, <1>3, <1>5, <2>2 DEF Erased, Pending
  <2> QED
    BY <1>1, <2>1, <2>2 DEF Pending
<1>8. ASSUME NEW v \in Thread, ~IsStatic(v)', req'[v].refreshed
      PROVE  Retired(v)'
  <2>1. req[v].refreshed /\ ~IsStatic(v) /\ req'[v].rejected = req[v].rejected
    BY <1>1, <1>2, <1>3, <1>8 DEF IsStatic
  <2>2. Retired(v)
    BY <2>1 DEF Erased
  <2>3. /\ req[v].rejected \in 1..Len(tokens')
        /\ req[v].rejected # Len(tokens) + 1
    BY <1>4, <2>2 DEF Retired
  <2>4. \A u \in Thread : req'[u].at = "store" => req'[u].tok # req[v].rejected
    BY <1>2, <1>3, <2>2, <2>3 DEF Retired
  <2>5. /\ req'[v].at = "find" => req'[v] = req[v]
        /\ Holds(v)' => req'[v] = req[v]
    BY <1>2, <1>3 DEF Holds
  <2> QED
    BY <1>1, <2>1, <2>2, <2>3, <2>4, <2>5 DEF Retired, Holds
<1> QED
  BY <1>6, <1>7, <1>8 DEF Erased

LEMMA StoreKeepsErased ==
  ASSUME Safe, Erased, NEW t \in Thread, StoreToken(t)
  PROVE  Erased'
<1> DEFINE r == [req[t] EXCEPT !.at = "send"]
           e == [tok |-> req[t].tok, expiry |-> EarlyExpiry(tokens[req[t].tok].life)]
<1>1. /\ cache' = [cache EXCEPT ![req[t].key] = e]
      /\ req' = [req EXCEPT ![t] = r] /\ req[t].at = "store"
      /\ UNCHANGED <<now, file, tokens, config>>
  BY DEF StoreToken, Safe, TypeOK
<1>2. /\ r.at = "send" /\ r.tok = req[t].tok
      /\ r.refreshed = req[t].refreshed /\ r.rejected = req[t].rejected
  <2>1. req[t] \in Request
    BY DEF Safe, TypeOK
  <2> QED
    BY <2>1 DEF Request
<1>3. e.tok = req[t].tok
  OBVIOUS
<1> HIDE DEF r, e
<1>4. req'[t] = r /\ \A u \in Thread : u # t => req'[u] = req[u]
  BY <1>1, OtherRequests DEF Safe
<1>5. \A k \in Key : cache'[k] = IF k = req[t].key THEN e ELSE cache[k]
  BY <1>1 DEF Safe, TypeOK
<1>6. KeysAreNotAhead'
  <2>1. \A u \in Thread : Keyed(u)' => req'[u].key.mtime <= file.mtime
    BY <1>2, <1>4 DEF Erased, KeysAreNotAhead, Keyed
  <2>2. req[t].key.mtime <= file.mtime
    BY <1>1 DEF Erased, KeysAreNotAhead, Keyed
  <2>3. \A k \in Key : cache'[k] # NoEntry => k.mtime <= file.mtime
    BY <1>5, <2>2 DEF Erased, KeysAreNotAhead
  <2> QED
    BY <1>1, <2>1, <2>3 DEF Erased, KeysAreNotAhead
<1>7. Pending'
  <2>1. ASSUME NEW v \in Thread, NEW u \in Thread,
               req'[u].at = "store", HasToken(v)', req'[v].tok = req'[u].tok
        PROVE  v = u
    BY <1>1, <1>2, <1>4, <2>1 DEF Erased, Pending, HasToken
  <2>2. ASSUME NEW u \in Thread, req'[u].at = "store",
               NEW k \in Key, cache'[k] # NoEntry
        PROVE  cache'[k].tok # req'[u].tok
    <3>1. u # t /\ req'[u] = req[u]
      BY <1>2, <1>4, <2>2
    <3>2. req[t].tok # req[u].tok
      BY <1>1, <2>2, <3>1 DEF Erased, Pending, HasToken
    <3> QED
      BY <1>3, <1>5, <2>2, <3>1, <3>2 DEF Erased, Pending
  <2> QED
    BY <1>1, <2>1, <2>2 DEF Pending
<1>8. ASSUME NEW v \in Thread, ~IsStatic(v)', req'[v].refreshed
      PROVE  Retired(v)'
  <2>1. req[v].refreshed /\ ~IsStatic(v) /\ req'[v].rejected = req[v].rejected
    BY <1>1, <1>2, <1>4, <1>8 DEF IsStatic
  <2>2. Retired(v)
    BY <2>1 DEF Erased
  <2>3. req[t].tok # req[v].rejected
    BY <1>1, <2>2 DEF Retired
  <2>4. \A u \in Thread : req'[u].at = "store" => req'[u].tok # req[v].rejected
    BY <1>2, <1>4, <2>2 DEF Retired
  <2>5. \A k \in Key : cache'[k] # NoEntry /\ cache'[k].tok = req[v].rejected =>
          cache'[k] = cache[k] /\ k.mtime < file.mtime
    BY <1>3, <1>5, <2>2, <2>3 DEF Retired
  <2>6. Holds(v)' => req'[v].tok # req[v].rejected
    BY <1>2, <1>4, <2>2, <2>3 DEF Retired, Holds
  <2>7. req'[v].at = "find" /\ cache'[req'[v].key] # NoEntry =>
          cache'[req'[v].key].tok # req[v].rejected
    <3> SUFFICES ASSUME req'[v].at = "find", cache'[req'[v].key] # NoEntry
                 PROVE  cache'[req'[v].key].tok # req[v].rejected
      OBVIOUS
    <3>1. req'[v] = req[v]
      BY <1>2, <1>4
    <3>2. req[v].key \in Key
      BY <2>1, <3>1 DEF Safe, Provenance
    <3> QED
      BY <1>3, <1>5, <2>2, <2>3, <3>1, <3>2 DEF Retired
  <2> QED
    BY <1>1, <2>1, <2>2, <2>4, <2>5, <2>6, <2>7 DEF Retired
<1> QED
  BY <1>6, <1>7, <1>8 DEF Erased

LEMMA RejectKeepsErased ==
  ASSUME Safe, Erased, NEW t \in Thread, Reject(t)
  PROVE  Erased'
<1>1. /\ UNCHANGED <<now, file, tokens, config>>
      /\ req'[t].at = "token" /\ req'[t].rejected = req[t].tok
      /\ \A u \in Thread : u # t => req'[u] = req[u]
      /\ \A k \in Key : cache'[k] \in {cache[k], NoEntry}
      /\ ~IsStatic(t) => \A k \in Key : k = TokenCacheKey(config[t]) => cache'[k] = NoEntry
      /\ Holds(t)
  BY RejectEffect
<1>2. KeysAreNotAhead'
  BY <1>1 DEF Erased, KeysAreNotAhead, Keyed
<1>3. Pending'
  BY <1>1 DEF Erased, Pending, HasToken
<1>4. ASSUME NEW v \in Thread, ~IsStatic(v)', req'[v].refreshed
      PROVE  Retired(v)'
  <2>0. ~IsStatic(v)
    BY <1>1, <1>4 DEF IsStatic
  <2>1. CASE v # t
    <3>1. Retired(v) /\ req'[v] = req[v]
      BY <1>1, <1>4, <2>0, <2>1 DEF Erased
    <3>2. \A u \in Thread : req'[u].at = "store" => req'[u].tok # req[v].rejected
      BY <1>1, <3>1 DEF Retired
    <3>3. \A k \in Key : cache'[k] # NoEntry /\ cache'[k].tok = req[v].rejected =>
            k.mtime < file.mtime
      BY <1>1, <3>1 DEF Retired
    <3>4. req[v].at = "find" /\ cache'[req[v].key] # NoEntry =>
            cache'[req[v].key].tok # req[v].rejected
      <4>1. req[v].at = "find" => req[v].key \in Key
        BY <2>0 DEF Safe, Provenance
      <4> QED
        BY <1>1, <3>1, <4>1 DEF Retired
    <3> QED
      BY <1>1, <3>1, <3>2, <3>3, <3>4 DEF Retired, Holds
  <2>2. CASE v = t
    <3>1. /\ ~IsStatic(t) /\ req[t].tok \in 1..Len(tokens)
          /\ tokens[req[t].tok].key = req[t].key
          /\ req[t].key \in Key /\ req[t].key.config = config[t]
      BY <1>1, <2>0, <2>2 DEF Safe, Provenance, HasToken, Holds
    <3>2. \A u \in Thread : req'[u].at = "store" => req'[u].tok # req[t].tok
      BY <1>1 DEF Erased, Pending, HasToken, Holds
    <3>3. ASSUME NEW k \in Key, cache'[k] # NoEntry, cache'[k].tok = req[t].tok
          PROVE  k.mtime < file.mtime
      <4>1. cache[k] # NoEntry /\ cache[k].tok = req[t].tok
        BY <1>1, <3>3
      <4>2. k = req[t].key /\ k.config = config[t]
        BY <3>1, <4>1 DEF Safe, Provenance
      <4>3. k.mtime <= file.mtime
        BY <4>1 DEF Erased, KeysAreNotAhead
      <4>4. k.mtime # file.mtime
        <5>1. SUFFICES ASSUME k.mtime = file.mtime
                       PROVE  FALSE
          OBVIOUS
        <5>2. k = TokenCacheKey(config[t])
          BY <4>2, <5>1 DEF TokenCacheKey, Key
        <5> QED
          BY <1>1, <3>1, <3>3, <5>2
      <4> QED
        BY <4>3, <4>4, Numbers
    <3> QED
      BY <1>1, <2>2, <3>1, <3>2, <3>3 DEF Retired, Holds
  <2> QED
    BY <2>1, <2>2
<1> QED
  BY <1>2, <1>3, <1>4 DEF Erased

LEMMA ErasedInvariant == Spec => []Erased
<1>1. Init => Erased
  BY DEF Init, Erased, KeysAreNotAhead, Pending, NewRequest, Keyed, HasToken
<1>2. Safe /\ Erased /\ [Next]_vars => Erased'
  BY StepCases, EnvironmentKeepsErased, LocalStepKeepsErased, IssueKeepsErased,
     StoreKeepsErased, RejectKeepsErased
<1> QED
  BY <1>1, <1>2, SafeInvariant, PTL DEF Spec

\* A token that was answered with 401 is not sent again by the request.
THEOREM RejectedTokensAreNotResent == Spec => []RejectedTokenIsNotResent
<1>1. Erased => RejectedTokenIsNotResent
  BY DEF Erased, Retired, RejectedTokenIsNotResent
<1> QED
  BY <1>1, ErasedInvariant, PTL

-----------------------------------------------------------------------------
(* A key identifies a login, if no two logins share a second               *)

\* The (mtime, login) pairs seen together: in the file, by a request when it
\* computed its key, and by the request that asked for a token.
Seen(m, l) ==
  \/ m = file.mtime /\ l = file.login
  \/ \E i \in 1..Len(tokens) : m = tokens[i].key.mtime /\ l = tokens[i].keyLogin
  \/ \E t \in Thread : /\ ~IsStatic(t) /\ req[t].at # "token"
                       /\ m = req[t].key.mtime /\ l = req[t].keyLogin

Dated ==
  /\ file.mtime <= now
  /\ \A m, l : Seen(m, l) => m <= file.mtime /\ l <= file.login
  /\ \A m, l, n : Seen(m, l) /\ Seen(m, n) => l = n

\* What a request reads is no older than what it computed its key for.
ReadLater ==
  /\ \A i \in 1..Len(tokens) : tokens[i].keyLogin <= tokens[i].login
  /\ \A t \in Thread : ~IsStatic(t) /\ req[t].at = "mint" => req[t].keyLogin <= req[t].login

LEMMA SeenTyped ==
  ASSUME Safe, NEW m, NEW l, Seen(m, l)
  PROVE  m \in Nat /\ l \in Nat
<1>1. CASE m = file.mtime /\ l = file.login
  BY <1>1, Numbers
<1>2. ASSUME NEW i \in 1..Len(tokens), m = tokens[i].key.mtime, l = tokens[i].keyLogin
      PROVE  m \in Nat /\ l \in Nat
  BY <1>2, Numbers
<1>3. ASSUME NEW t \in Thread, ~IsStatic(t), req[t].at # "token",
             m = req[t].key.mtime, l = req[t].keyLogin
      PROVE  m \in Nat /\ l \in Nat
  <2>1. req[t].key \in Key
    BY <1>3 DEF Safe, Provenance
  <2> QED
    BY <1>3, <2>1, Numbers
<1> QED
  BY <1>1, <1>2, <1>3 DEF Seen

LEMMA NothingNewSeen ==
  ASSUME Dated, UNCHANGED file, file.mtime <= now',
         \A m, l : Seen(m, l)' => Seen(m, l)
  PROVE  Dated'
BY DEF Dated

LEMMA DatedPreserved ==
  ASSUME Safe, Dated, ReadLater, [Next]_vars, ~SameSecond
  PROVE  Dated' /\ ReadLater'
<1>1. CASE Tick \/ Revoke \/ UNCHANGED vars
  <2>1. UNCHANGED <<file, tokens, config, req>> /\ file.mtime <= now'
    BY <1>1, Numbers DEF Tick, Revoke, vars, Dated
  <2>2. \A m, l : Seen(m, l)' => Seen(m, l)
    BY <2>1 DEF Seen, IsStatic
  <2> QED
    BY <2>1, <2>2, NothingNewSeen DEF ReadLater, IsStatic
<1>2. CASE Login
  <2>1. /\ file'.mtime = now /\ file'.login = file.login + 1 /\ now > file.mtime
        /\ UNCHANGED <<now, tokens, config, req>>
    BY <1>2 DEF Login
  <2>2. \A m, l : Seen(m, l)' => Seen(m, l) \/ (m = now /\ l = file.login + 1)
    BY <2>1 DEF Seen, IsStatic
  <2>3. ASSUME NEW m, NEW l, Seen(m, l)
        PROVE  m <= now /\ m # now /\ l <= file.login + 1
    <3>1. m \in Nat /\ l \in Nat
      BY <2>3, SeenTyped
    <3> QED
      BY <2>1, <2>3, <3>1, Numbers DEF Dated
  <2>4. Dated'
    <3>1. file'.mtime <= now'
      BY <2>1, Numbers
    <3>2. ASSUME NEW m, NEW l, Seen(m, l)'
          PROVE  m <= file'.mtime /\ l <= file'.login
      BY <2>1, <2>2, <2>3, <3>2, Numbers
    <3>3. ASSUME NEW m, NEW l, NEW n, Seen(m, l)', Seen(m, n)'
          PROVE  l = n
      BY <2>2, <2>3, <3>3 DEF Dated
    <3> QED
      BY <3>1, <3>2, <3>3 DEF Dated
  <2>5. ReadLater'
    BY <2>1 DEF ReadLater, IsStatic
  <2> QED
    BY <2>4, <2>5
<1>3. ASSUME NEW t \in Thread, LocalStep(t)
      PROVE  Dated' /\ ReadLater'
  <2>1. OnlyRequest(t, req'[t]) /\ Moves(t, req'[t])
    BY <1>3, LocalStepMoves
  <2>2. /\ \A u \in Thread : u # t => req'[u] = req[u]
        /\ UNCHANGED <<now, file, tokens, config>>
    BY <2>1, OtherRequests DEF OnlyRequest, Safe
  <2>3. \A m, l : Seen(m, l)' => Seen(m, l)
    <3> SUFFICES ASSUME NEW m, NEW l, NEW u \in Thread,
                        ~IsStatic(u), req'[u].at # "token",
                        m = req'[u].key.mtime, l = req'[u].keyLogin
                 PROVE  Seen(m, l)
      BY <2>2 DEF Seen, IsStatic
    <3>1. CASE u # t
      BY <2>2, <3>1 DEF Seen
    <3>2. CASE u = t /\ req'[t].at = "find"
      BY <2>1, <3>2 DEF Seen, Moves
    <3>3. CASE u = t /\ req'[t].at # "find"
      BY <2>1, <3>3 DEF Seen, Moves
    <3> QED
      BY <3>1, <3>2, <3>3
  <2>4. ReadLater'
    <3>1. ASSUME NEW u \in Thread, ~IsStatic(u), req'[u].at = "mint"
          PROVE  req'[u].keyLogin <= req'[u].login
      <4>1. CASE u # t
        BY <2>2, <3>1, <4>1 DEF ReadLater
      <4>2. CASE u = t
        <5>1. /\ req'[t].login = file.login /\ req'[t].keyLogin = req[t].keyLogin
              /\ req[t].at # "token"
          BY <2>1, <3>1, <4>2 DEF Moves
        <5>2. Seen(req[t].key.mtime, req[t].keyLogin)
          BY <3>1, <4>2, <5>1 DEF Seen
        <5> QED
          BY <4>2, <5>1, <5>2 DEF Dated
      <4> QED
        BY <4>1, <4>2
    <3> QED
      BY <2>2, <3>1 DEF ReadLater, IsStatic
  <2>5. file.mtime <= now'
    BY <2>2 DEF Dated
  <2> QED
    BY <2>2, <2>3, <2>4, <2>5, NothingNewSeen
<1>4. ASSUME NEW t \in Thread, IssueToken(t)
      PROVE  Dated' /\ ReadLater'
  <2> DEFINE r == [req[t] EXCEPT !.at = "store", !.tok = Len(tokens) + 1]
  <2>1. PICK x \in Token :
          /\ x.key = req[t].key /\ x.keyLogin = req[t].keyLogin /\ x.login = req[t].login
          /\ tokens' = Append(tokens, x) /\ UNCHANGED <<now, file, config>>
          /\ req' = [req EXCEPT ![t] = r] /\ req[t].at = "mint" /\ ~IsStatic(t)
    BY <1>4, IssuedToken
  <2>2. r.at = "store" /\ r.key = req[t].key /\ r.keyLogin = req[t].keyLogin
    <3>1. req[t] \in Request
      BY DEF Safe, TypeOK
    <3> QED
      BY <3>1 DEF Request
  <2> HIDE DEF r
  <2>3. req'[t] = r /\ \A u \in Thread : u # t => req'[u] = req[u]
    BY <2>1, OtherRequests DEF Safe
  <2>4. ASSUME NEW i \in 1..Len(tokens')
        PROVE  (i \in 1..Len(tokens) /\ tokens'[i] = tokens[i]) \/ tokens'[i] = x
    BY <2>1, <2>4, Numbers, AppendFacts DEF Safe, TypeOK
  <2>5. \A m, l : Seen(m, l)' => Seen(m, l)
    <3> SUFFICES ASSUME NEW m, NEW l, Seen(m, l)'
                 PROVE  Seen(m, l)
      OBVIOUS
    <3>1. CASE m = file'.mtime /\ l = file'.login
      BY <2>1, <3>1 DEF Seen
    <3>2. ASSUME NEW i \in 1..Len(tokens'),
                 m = tokens'[i].key.mtime, l = tokens'[i].keyLogin
          PROVE  Seen(m, l)
      BY <2>1, <2>4, <3>2 DEF Seen
    <3>3. ASSUME NEW u \in Thread, ~IsStatic(u)', req'[u].at # "token",
                 m = req'[u].key.mtime, l = req'[u].keyLogin
          PROVE  Seen(m, l)
      BY <2>1, <2>2, <2>3, <3>3 DEF Seen, IsStatic
    <3> QED
      BY <3>1, <3>2, <3>3 DEF Seen
  <2>6. ReadLater'
    <3>1. ASSUME NEW i \in 1..Len(tokens')
          PROVE  tokens'[i].keyLogin <= tokens'[i].login
      BY <2>1, <2>4 DEF ReadLater
    <3>2. ASSUME NEW u \in Thread, ~IsStatic(u)', req'[u].at = "mint"
          PROVE  req'[u].keyLogin <= req'[u].login
      BY <2>1, <2>2, <2>3, <3>2 DEF ReadLater, IsStatic
    <3> QED
      BY <3>1, <3>2 DEF ReadLater
  <2>7. file.mtime <= now'
    BY <2>1 DEF Dated
  <2> QED
    BY <2>1, <2>5, <2>6, <2>7, NothingNewSeen
<1>5. ASSUME NEW t \in Thread, StoreToken(t) \/ Reject(t)
      PROVE  Dated' /\ ReadLater'
  <2>1. /\ UNCHANGED <<now, file, tokens, config>>
        /\ \A u \in Thread : u # t => req'[u] = req[u]
        /\ \/ req'[t].at = "token"
           \/ /\ req[t].at # "token" /\ req'[t].at = "send"
              /\ req'[t].key = req[t].key /\ req'[t].keyLogin = req[t].keyLogin
    <3>1. CASE StoreToken(t)
      <4>1. req \in [Thread -> Request] /\ req[t] \in Request
        BY DEF Safe, TypeOK
      <4> QED
        BY <3>1, <4>1 DEF StoreToken, Request
    <3>2. CASE Reject(t)
      BY <3>2, RejectEffect
    <3> QED
      BY <1>5, <3>1, <3>2
  <2>2. \A m, l : Seen(m, l)' => Seen(m, l)
    <3> SUFFICES ASSUME NEW m, NEW l, NEW u \in Thread,
                        ~IsStatic(u), req'[u].at # "token",
                        m = req'[u].key.mtime, l = req'[u].keyLogin
                 PROVE  Seen(m, l)
      BY <2>1 DEF Seen, IsStatic
    <3> QED
      BY <2>1 DEF Seen
  <2>3. ReadLater'
    BY <2>1 DEF ReadLater, IsStatic
  <2>4. file.mtime <= now'
    BY <2>1 DEF Dated
  <2> QED
    BY <2>1, <2>2, <2>3, <2>4, NothingNewSeen
<1> QED
  BY <1>1, <1>2, <1>3, <1>4, <1>5, StepCases

\* Requests use the login they looked for, or a later one, if no two logins
\* share a second.
THEOREM OldLoginsAreNotReplayed ==
  ASSUME ~SameSecond
  PROVE  Spec => []NoReplayOfOldLogin
<1>1. Init => Dated /\ ReadLater
  <2> SUFFICES ASSUME Init
               PROVE  Dated /\ ReadLater
    OBVIOUS
  <2>1. /\ file.mtime = 0 /\ file.login = 1 /\ now = 0 /\ Len(tokens) = 0
        /\ \A t \in Thread : req[t].at = "token"
    BY DEF Init, NewRequest
  <2>2. \A m, l : Seen(m, l) <=> m = 0 /\ l = 1
    BY <2>1 DEF Seen
  <2> QED
    BY <2>1, <2>2 DEF Dated, ReadLater
<1>2. Safe /\ Dated /\ ReadLater => NoReplayOfOldLogin
  <2> SUFFICES ASSUME Safe, Dated, ReadLater, NEW t \in Thread, Holds(t), ~IsStatic(t)
               PROVE  tokens[req[t].tok].login >= req[t].keyLogin
    BY DEF NoReplayOfOldLogin
  <2> DEFINE i == req[t].tok
  <2>1. i \in 1..Len(tokens) /\ tokens[i].key = req[t].key
    BY DEF Safe, Provenance, HasToken, Holds
  <2>2. /\ Seen(req[t].key.mtime, tokens[i].keyLogin)
        /\ Seen(req[t].key.mtime, req[t].keyLogin)
    BY <2>1 DEF Seen, Holds
  <2>3. tokens[i].keyLogin = req[t].keyLogin
    BY <2>2 DEF Dated
  <2>4. tokens[i].keyLogin <= tokens[i].login
    BY <2>1 DEF ReadLater
  <2>5. tokens[i].login \in Nat /\ req[t].keyLogin \in Nat
    BY <2>1, Numbers
  <2> QED
    BY <2>3, <2>4, <2>5
<1>3. Safe /\ Dated /\ ReadLater /\ [Next]_vars => Dated' /\ ReadLater'
  BY DatedPreserved
<1> QED
  BY <1>1, <1>2, <1>3, SafeInvariant, PTL DEF Spec

=============================================================================
