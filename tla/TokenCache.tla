----------------------------- MODULE TokenCache -----------------------------
(***************************************************************************)
(* The process-wide token cache of gcloud_auth.cpp and the threads that    *)
(* use it: every scan and every writer obtains a bearer token before each  *)
(* attempt, from the cache or by exchanging the credentials file for one,  *)
(* and drops the cached token once when the service answers 401.           *)
(*                                                                         *)
(* The mutex covers only the look-up, the insertion and the erasure.  The  *)
(* file is stat'ed, then read, then exchanged over the network with no     *)
(* lock held, so everything below may happen between any two of those      *)
(* steps: the file is rewritten by a new login, tokens are revoked or      *)
(* expire, other threads insert and erase.                                 *)
(***************************************************************************)
EXTENDS Integers, Sequences

CONSTANTS
  Thread,      \* the threads that issue requests
  Config,      \* what distinguishes cache keys of one file: quota project and scope
  Static,      \* the configuration of a caller-supplied TOKEN
  Margin,      \* "refresh a minute early"
  MaxDelay,    \* the longest a token is under way from the endpoint to the client
  Lifetimes,   \* the values of expires_in
  SameSecond,  \* whether the file may be rewritten twice within one second
  MaxTime,     \* bound on the clock
  MaxTokens,   \* bound on the tokens issued
  MaxLogins    \* bound on the contents the file takes

ASSUME StaticAssumption == Static \notin Config
ASSUME TimeAssumption ==
  /\ Margin \in Nat /\ MaxTime \in Nat /\ MaxTokens \in Nat /\ MaxLogins \in Nat \ {0}
  /\ Lifetimes \subseteq Nat
\* Both are 60 seconds unless the attachment asks for a longer TIMEOUT.
ASSUME DelayAssumption == MaxDelay \in 0..Margin
ASSUME SameSecondAssumption == SameSecond \in BOOLEAN

VARIABLES
  now,      \* the clock, in seconds
  file,     \* the credentials file: the login it holds and its mtime
  tokens,   \* every token the endpoint has issued, in order
  revoked,  \* tokens numbered below this have been revoked
  cache,    \* g_token_cache
  config,   \* the configuration each thread runs with
  req       \* the request each thread is in

vars == <<now, file, tokens, revoked, cache, config, req>>

Second == 0..MaxTime
Key == [mtime : Second, config : Config]

\* Tokens are numbered in the order they are issued; 0 is the supplied TOKEN.
StaticToken == 0
NoKey   == [mtime |-> 0, config |-> Static]
NoEntry == [tok |-> 0, expiry |-> 0]
IsStatic(t) == config[t] = Static

\* A thread issues requests without end.  The locals of a request: where it
\* stands (at), its cache_key, the contents it read, its token, the answer to
\* its attempt and token_refreshed.  The rest is history: the login the file
\* held when the key was computed, the token the request had when it dropped
\* the cached one, and how many tokens had been issued by then.
NewRequest == [at |-> "token", key |-> NoKey, login |-> 0, tok |-> 0, answer |-> "none",
               refreshed |-> FALSE, keyLogin |-> 0, rejected |-> 0, mark |-> 0]

\* The service takes a token until it expires or is revoked.
Live(i) ==
  /\ i >= revoked
  /\ i # StaticToken => tokens[i].issued + tokens[i].life > now

-----------------------------------------------------------------------------
(* The environment                                                         *)

Init ==
  /\ now = 0
  /\ file = [login |-> 1, mtime |-> 0]
  /\ tokens = << >>
  /\ revoked = 0
  /\ cache = [k \in Key |-> NoEntry]
  /\ config \in [Thread -> Config \cup {Static}]
  /\ req = [t \in Thread |-> NewRequest]

\* A second passes; no answer of the token endpoint is under way for more than
\* MaxDelay (the read timeout of PostTokenRequest).
Tick ==
  /\ now < MaxTime
  /\ \A t \in Thread : req[t].at = "store" => now < tokens[req[t].tok].issued + MaxDelay
  /\ now' = now + 1
  /\ UNCHANGED <<file, tokens, revoked, cache, config, req>>

\* gcloud auth application-default login writes the file again.
Login ==
  /\ file.login < MaxLogins
  /\ SameSecond \/ now > file.mtime
  /\ file' = [login |-> file.login + 1, mtime |-> now]
  /\ UNCHANGED <<now, tokens, revoked, cache, config, req>>

\* The user's sessions are revoked, and with them everything issued so far.
Revoke ==
  /\ revoked <= Len(tokens)
  /\ revoked' = Len(tokens) + 1
  /\ UNCHANGED <<now, file, tokens, cache, config, req>>

-----------------------------------------------------------------------------
(* GetGcloudAccessToken                                                    *)

\* A supplied TOKEN wins and never touches the cache.
UseStaticToken(t) ==
  /\ req[t].at = "token"
  /\ IsStatic(t)
  /\ req' = [req EXCEPT ![t].at = "send", ![t].tok = StaticToken]
  /\ UNCHANGED <<now, file, tokens, revoked, cache, config>>

\* Fault: the file's mtime is not part of the key.
TokenCacheKey_PathOnly(c) == [mtime |-> 0, config |-> c]

\* Fault: the scope and the quota project are not part of the key.
TokenCacheKey_FileOnly(c) == [mtime |-> file.mtime, config |-> CHOOSE d \in Config : TRUE]

\* The key of configuration c for the file as it is now.
TokenCacheKey(c) == [mtime |-> file.mtime, config |-> c]

ComputeKey(t) ==
  /\ req[t].at = "token"
  /\ ~IsStatic(t)
  /\ req' = [req EXCEPT ![t].at = "find", ![t].key = TokenCacheKey(config[t]),
                        ![t].keyLogin = file.login]
  /\ UNCHANGED <<now, file, tokens, revoked, cache, config>>

\* An entry that has not reached its early expiry is used.
Usable(e) == e # NoEntry /\ e.expiry > now

FindCached(t) ==
  /\ req[t].at = "find"
  /\ Usable(cache[req[t].key])
  /\ req' = [req EXCEPT ![t].at = "send", ![t].tok = cache[req[t].key].tok]
  /\ UNCHANGED <<now, file, tokens, revoked, cache, config>>

FindNothing(t) ==
  /\ req[t].at = "find"
  /\ ~Usable(cache[req[t].key])
  /\ req' = [req EXCEPT ![t].at = "read"]
  /\ UNCHANGED <<now, file, tokens, revoked, cache, config>>

\* ReadWholeFile: the file may have been rewritten since the key was computed.
ReadCredentials(t) ==
  /\ req[t].at = "read"
  /\ req' = [req EXCEPT ![t].at = "mint", ![t].login = file.login]
  /\ UNCHANGED <<now, file, tokens, revoked, cache, config>>

\* The endpoint issues a token for what was read.  key and keyLogin record, for
\* the properties, under which key the thread that asked for it will store it.
IssueToken(t) ==
  /\ req[t].at = "mint"
  /\ Len(tokens) < MaxTokens
  /\ \E life \in Lifetimes :
       tokens' = Append(tokens, [login |-> req[t].login, config |-> config[t],
                                 issued |-> now, life |-> life,
                                 key |-> req[t].key, keyLogin |-> req[t].keyLogin])
  /\ req' = [req EXCEPT ![t].at = "store", ![t].tok = Len(tokens) + 1]
  /\ UNCHANGED <<now, file, revoked, cache, config>>

\* Fault: a lifetime within the margin goes below zero.
EarlyExpiry_NoFloor(life) == now + life - Margin

\* Fault: the entry is kept for the whole lifetime.
EarlyExpiry_NoMargin(life) == now + life

\* The expiry the cache records for a token of that lifetime received now.
EarlyExpiry(life) == now + (IF life > Margin THEN life - Margin ELSE 0)

StoreToken(t) ==
  /\ req[t].at = "store"
  /\ cache' = [cache EXCEPT ![req[t].key] =
                 [tok |-> req[t].tok, expiry |-> EarlyExpiry(tokens[req[t].tok].life)]]
  /\ req' = [req EXCEPT ![t].at = "send"]
  /\ UNCHANGED <<now, file, tokens, revoked, config>>

\* The file cannot be read or parsed, the endpoint refuses, its answer is lost:
\* the exception ends the request.
TokenFails(t) ==
  /\ req[t].at \in {"read", "mint", "store"}
  /\ req' = [req EXCEPT ![t] = NewRequest]
  /\ UNCHANGED <<now, file, tokens, revoked, cache, config>>

-----------------------------------------------------------------------------
(* The attempt that uses the token                                         *)

\* The service answers: 401 to a token it does not take; anything may fail
\* transiently before that.
Attempt(t) ==
  /\ req[t].at = "send"
  /\ \E a \in {"transient", IF Live(req[t].tok) THEN "ok" ELSE "unauthorized"} :
       req' = [req EXCEPT ![t].at = "answered", ![t].answer = a]
  /\ UNCHANGED <<now, file, tokens, revoked, cache, config>>

\* The next attempt asks for a token again; the locals of the last one are gone.
NextAttempt(r) ==
  [NewRequest EXCEPT !.refreshed = r.refreshed,
                     !.rejected = r.rejected, !.mark = r.mark]

\* The loop has slept (GcloudClient bounds how often).
RetryTransient(t) ==
  /\ req[t].at = "answered"
  /\ req[t].answer = "transient"
  /\ req' = [req EXCEPT ![t] = NextAttempt(@)]
  /\ UNCHANGED <<now, file, tokens, revoked, cache, config>>

\* Fault: the rejected token stays in the cache.
Invalidated_Nothing(t) == cache

\* InvalidateGcloudTokenCache: under the lock, the entry under the key the file
\* has now; nothing for a supplied TOKEN.
Invalidated(t) ==
  IF IsStatic(t) THEN cache ELSE [cache EXCEPT ![TokenCacheKey(config[t])] = NoEntry]

Reject(t) ==
  /\ req[t].at = "answered"
  /\ req[t].answer = "unauthorized"
  /\ ~req[t].refreshed
  /\ cache' = Invalidated(t)
  /\ req' = [req EXCEPT ![t] = [NextAttempt(@) EXCEPT !.refreshed = TRUE,
                                 !.rejected = req[t].tok, !.mark = Len(tokens)]]
  /\ UNCHANGED <<now, file, tokens, revoked, config>>

EndRequest(t) ==
  /\ req[t].at = "answered"
  /\ req[t].answer = "unauthorized" => req[t].refreshed
  /\ req' = [req EXCEPT ![t] = NewRequest]
  /\ UNCHANGED <<now, file, tokens, revoked, cache, config>>

Environment == Tick \/ Login \/ Revoke

Step(t) ==
  \/ UseStaticToken(t) \/ ComputeKey(t)
  \/ FindCached(t) \/ FindNothing(t) \/ ReadCredentials(t)
  \/ IssueToken(t) \/ StoreToken(t) \/ TokenFails(t)
  \/ Attempt(t) \/ RetryTransient(t) \/ Reject(t) \/ EndRequest(t)

Next == Environment \/ \E t \in Thread : Step(t)

Spec == Init /\ [][Next]_vars

-----------------------------------------------------------------------------
(* Properties                                                              *)

Request ==
  [at : {"token", "find", "read", "mint", "store", "send", "answered"},
   key : Key \cup {NoKey}, login : 0..MaxLogins, tok : 0..MaxTokens,
   answer : {"none", "transient", "ok", "unauthorized"}, refreshed : BOOLEAN,
   keyLogin : 0..MaxLogins, rejected : 0..MaxTokens, mark : 0..MaxTokens]

Token ==
  [login : 0..MaxLogins, config : Config, issued : Second, life : Lifetimes,
   key : Key, keyLogin : 0..MaxLogins]

Entry == [tok : 0..MaxTokens, expiry : Nat]

\* The ranges of the variables; a token a request holds has been issued.
TypeOK ==
  /\ now \in Second
  /\ file \in [login : 0..MaxLogins, mtime : Second]
  /\ tokens \in Seq(Token) /\ Len(tokens) <= MaxTokens
  /\ revoked \in 0..Len(tokens) + 1
  /\ cache \in [Key -> Entry]
  /\ config \in [Thread -> Config \cup {Static}]
  /\ req \in [Thread -> Request]
  /\ \A t \in Thread : req[t].tok <= Len(tokens)

Holds(t) == req[t].at \in {"send", "answered"}

\* A request is sent with a token of its own configuration: a token minted for
\* queries never authorises a write, nor is another quota project billed, though
\* all configurations share one cache (gcloud_auth.hpp, the scope constants).
TokenMatchesConfig ==
  \A t \in Thread : Holds(t) =>
    IF IsStatic(t) THEN req[t].tok = StaticToken
    ELSE req[t].tok # StaticToken /\ tokens[req[t].tok].config = config[t]

\* An entry the cache still hands out has not expired at the service, however
\* long its token was under way: the early expiry covers the delay.
UsableEntryIsUnexpired ==
  \A k \in Key : Usable(cache[k]) =>
    LET token == tokens[cache[k].tok] IN token.issued + token.life > now

\* "a fresh gcloud auth application-default login never replays a token from the
\* old file" (gcloud_auth.cpp:389): the token of a request comes from the login
\* the file held when the request looked for it, or from a later one.
NoReplayOfOldLogin ==
  \A t \in Thread : Holds(t) /\ ~IsStatic(t) =>
    tokens[req[t].tok].login >= req[t].keyLogin

\* After a 401 the request never sends the token that was rejected again,
\* whatever other threads store and erase and whether or not the file, and with
\* it the key, changed in the meantime.
RejectedTokenIsNotResent ==
  \A t \in Thread : Holds(t) /\ ~IsStatic(t) /\ req[t].refreshed =>
    req[t].tok # req[t].rejected

\* "a second 401 is a real authorization problem, not a stale token"
\* (gcloud_client.cpp:235): the token of the second 401 was minted after the
\* first one.
SecondRejectionIsReal ==
  \A t \in Thread :
    req[t].answer = "unauthorized" /\ req[t].refreshed /\ ~IsStatic(t) =>
      req[t].tok > req[t].mark
=============================================================================
