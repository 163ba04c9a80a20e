--------------------------- MODULE PortSiteProofs ---------------------------
(* Proofs about ten parts of the Python port's site, each beside the        *)
(* others: sessions, API keys, events, calls to a model, the providers of   *)
(* a completion, a worker's tasks, the dashboard, the                       *)
(* registrations elsewhere, the definitions, and test runs with their       *)
(* reports. Each part has its own inductive invariant, and a step of        *)
(* another leaves its variables alone.                                      *)
EXTENDS MCPortSite, FiniteSetTheorems, SequenceTheorems, WellFoundedInduction, TLAPS

----------------------------------------------------------------------------
(* Numbers *)

LEMMA Smallest ==
  ASSUME NEW S \in SUBSET Nat, S # {}
  PROVE  \E m \in S : \A n \in S : m <= n
<1> DEFINE R == OpToRel(<, Nat)
<1>1. IsWellFoundedOn(R, Nat)
  BY NatLessThanWellFounded, Zenon
<1>2. \A x, y \in Nat : x < y => <<x, y>> \in R
  BY DEF OpToRel
<1> HIDE DEF R
<1>3. PICK m \in S : \A n \in S : ~ (<<n, m>> \in R)
  BY <1>1, WFMin, Zenon
<1>4. ASSUME NEW n \in S PROVE m <= n
  <2>1. ~(n < m)
    BY <1>2, <1>3, Zenon
  <2> QED BY <2>1
<1> QED BY <1>4, Zenon

\* What holds at 0, and at each number up to N when it does at the one before, holds at
\* all of them: there would be a first at which it does not.
LEMMA CountedUp ==
  ASSUME NEW N \in Nat, NEW T, 0 \in T, \A k \in 1 .. N : k - 1 \in T => k \in T
  PROVE  \A k \in 0 .. N : k \in T
<1> DEFINE U == {k \in 0 .. N : k \notin T}
<1>1. SUFFICES ASSUME U # {} PROVE FALSE
  OBVIOUS
<1>2. U \in SUBSET Nat
  OBVIOUS
<1>3. PICK m \in U : \A n \in U : m <= n
  <2> HIDE DEF U
  <2> QED BY <1>1, <1>2, Smallest
<1>4. m \in 1 .. N /\ m \notin T /\ m - 1 \in 0 .. N /\ ~(m <= m - 1)
  BY <1>3
<1> QED BY <1>3, <1>4

----------------------------------------------------------------------------
\* No part's step touches another part's variables.
LEMMA PartsApart ==
  [Next]_vars =>
    /\ [Tokens!Next]_tokensVars /\ [Accounts!Next]_accountsVars /\ [Events!Next]_realtimeVars
    /\ [Llm!Next]_llmVars /\ [Models!Next]_modelsVars /\ [Worker!Next]_workerVars
    /\ [Dash!Next]_monitorVars /\ [Registry!Next]_registrationVars
    /\ [Defs!Next]_definitionsVars
<1> SUFFICES ASSUME [Next]_vars
             PROVE  /\ Tokens!Next \/ UNCHANGED tokensVars
                    /\ Accounts!Next \/ UNCHANGED accountsVars
                    /\ Events!Next \/ UNCHANGED realtimeVars
                    /\ Llm!Next \/ UNCHANGED llmVars
                    /\ Models!Next \/ UNCHANGED modelsVars
                    /\ Worker!Next \/ UNCHANGED workerVars
                    /\ Dash!Next \/ UNCHANGED monitorVars
                    /\ Registry!Next \/ UNCHANGED registrationVars
                    /\ Defs!Next \/ UNCHANGED definitionsVars
  OBVIOUS
<1>1. ASSUME NEW p, Only(p)
      PROVE  /\ p # "tokens" => UNCHANGED tokensVars
             /\ p # "accounts" => UNCHANGED accountsVars
             /\ p # "realtime" => UNCHANGED realtimeVars
             /\ p # "llm" => UNCHANGED llmVars
             /\ p # "models" => UNCHANGED modelsVars
             /\ p # "worker" => UNCHANGED workerVars
             /\ p # "monitor" => UNCHANGED monitorVars
             /\ p # "registration" => UNCHANGED registrationVars
             /\ p # "definitions" => UNCHANGED definitionsVars
  BY <1>1 DEF Only
<1>2. CASE Next
  BY <1>1, <1>2 DEF Next
<1>3. CASE UNCHANGED vars
  BY <1>3 DEF vars
<1> QED BY <1>2, <1>3

----------------------------------------------------------------------------
(* Tokens and login                                                         *)

TokenSteps == {"idle", "expire", "authenticate", "create", "get_user", "delete", "blacklist",
               "forget"}

\* The bearers of the first calls of create_tokens.
Bearers(n) == {"access", "refresh"} \X (1..n)

TokenType ==
  /\ made \in 0..MaxTokens /\ losses \in Nat /\ attempts \in Nat /\ let \in Nat
  /\ life \in [Bearers(MaxTokens) -> Nat] /\ black \in [Bearers(MaxTokens) -> Nat]
  /\ \A b \in Bearers(MaxTokens) : b[1] = "access" => life[b] <= AccessTime
  /\ tokAt \in [Requests -> TokenSteps]
  /\ token \in [Requests -> Bearers(MaxTokens) \cup {<<"none", 0>>}]
  /\ handedOut \subseteq 1..made /\ closed \subseteq 1..made

\* A request that logs out has a bearer, and a blacklisted access token stays so for as long
\* as it would live. No refresh token of before a logout is stored after it.
MadeYet(b)  == b \in Bearers(MaxTokens) /\ b[2] <= made
Outlived(b) == b[1] = "access" => life[b] <= black[b]

LogoutInv ==
  /\ \A b \in out : MadeYet(b) /\ b[1] = "access" /\ Outlived(b)
  /\ \A r \in Requests :
       /\ tokAt[r] \in {"blacklist", "forget"} => MadeYet(token[r])
       /\ tokAt[r] = "forget" => Outlived(token[r])
  /\ refresh \notin closed

\* Whoever has deleted the stored token is about to store one.
SessionInv ==
  made > 0 /\ ~ended /\ losses = 0 =>
    refresh \in handedOut \/ \E r \in Requests : tokAt[r] = "create"

\* One request at most has created the count and not yet said that it goes away; it will
\* be let through as well.
Expiring(r) == tokAt[r] = "expire"
LetOrWill == let + (IF \E r \in Requests : Expiring(r) THEN 1 ELSE 0)

AttemptInv ==
  /\ LetOrWill <= attempts /\ LetOrWill <= MaxAttempts
  /\ expiring => attempts > 0
  /\ \A r \in Requests : Expiring(r) =>
       /\ ~expiring
       /\ \A q \in Requests : Expiring(q) => q = r
  /\ attempts > 0 /\ ~expiring /\ (\A r \in Requests : ~Expiring(r)) => losses > 0

TokenInv == TokenType /\ LogoutInv /\ SessionInv /\ AttemptInv

LEMMA TokenInvInit == Tokens!Init => TokenInv
<1> SUFFICES ASSUME Tokens!Init PROVE TokenInv
  OBVIOUS
<1>1. \A r \in Requests : tokAt[r] = "idle"
  BY DEF Tokens!Init
<1>2. TokenType
  BY SiteTimes DEF Tokens!Init, TokenType, Tokens!Tokens, TokenSteps, Tokens!Bearers, Bearers, Tokens!NoBearer
<1>3. LogoutInv /\ SessionInv
  BY <1>1 DEF Tokens!Init, LogoutInv, SessionInv
<1>4. AttemptInv
  BY <1>1, SiteTimes DEF Tokens!Init, AttemptInv, LetOrWill, Expiring
<1> QED BY <1>2, <1>3, <1>4 DEF TokenInv

\* The steps that leave the tokens, the stored one and the count as they are, and take no
\* request to or from a place the invariants speak of.
LEMMA TokensUntouched ==
  ASSUME TokenInv, life' = life, black' = black, out' = out, closed' = closed, handedOut' = handedOut,
         made' = made, refresh' = refresh, ended' = ended, losses' = losses,
         attempts' = attempts, expiring' = expiring, let' = let, TokenType',
         \A r \in Requests :
           /\ tokAt'[r] \in {"blacklist", "forget"} =>
                (tokAt'[r] = tokAt[r] /\ token'[r] = token[r])
                  \/ (tokAt'[r] = "blacklist" /\ MadeYet(token'[r]))
           /\ tokAt[r] = "create" => tokAt'[r] = "create"
           /\ tokAt'[r] = "expire" <=> tokAt[r] = "expire"
  PROVE  TokenInv'
<1>1. LogoutInv'
  BY DEF TokenInv, LogoutInv, Outlived, MadeYet
<1>2. SessionInv'
  BY DEF TokenInv, SessionInv
<1>3. AttemptInv'
  BY DEF Expiring, LetOrWill, TokenInv, AttemptInv
<1> QED BY <1>1, <1>2, <1>3 DEF TokenInv

\* POST /auth/login: the count goes up, and its creator has it yet to expire.
LEMMA IncrAttemptsKeeps ==
  ASSUME TokenInv, NEW r \in Requests, Tokens!IncrAttempts(r) PROVE TokenInv'
<1>1. /\ UNCHANGED <<token, handedOut, life, black, out, closed, refresh, expiring, ended, made, losses>>
      /\ tokAt[r] = "idle" /\ attempts' = attempts + 1
      /\ \/ attempts' = 1 /\ tokAt' = [tokAt EXCEPT ![r] = "expire"] /\ let' = let
         \/ /\ attempts' # 1 /\ attempts' <= MaxAttempts
            /\ tokAt' = [tokAt EXCEPT ![r] = "authenticate"] /\ let' = let + 1
         \/ attempts' # 1 /\ tokAt' = tokAt /\ let' = let
  BY DEF Tokens!IncrAttempts, Tokens!Goto, Tokens!MayTry, Tokens!bearer
<1>2. TokenType
  BY DEF TokenInv
<1>3. TokenType'
  BY <1>1, <1>2 DEF TokenType, TokenSteps
<1>4. LogoutInv' /\ SessionInv'
  BY <1>1, <1>2 DEF TokenInv, TokenType, LogoutInv, SessionInv, Outlived, MadeYet
<1>5. AttemptInv'
  <2>1. attempts \in Nat /\ let \in Nat /\ MaxAttempts \in Nat \ {0} /\ losses \in Nat
    BY <1>2, SiteTimes DEF TokenType
  <2>2. AttemptInv
    BY DEF TokenInv
  <2>3. CASE attempts' = 1 /\ tokAt' = [tokAt EXCEPT ![r] = "expire"] /\ let' = let
    <3>1. let = 0 /\ \A q \in Requests : ~Expiring(q)
      BY <1>1, <2>1, <2>2, <2>3 DEF AttemptInv, LetOrWill
    <3>2. ~expiring
      BY <1>1, <2>1, <2>2, <2>3 DEF AttemptInv
    <3>3. \A q \in Requests : Expiring(q)' <=> q = r
      BY <1>2, <2>3, <3>1 DEF Expiring, TokenType
    <3>4. LetOrWill' = 1
      BY <2>3, <3>1, <3>3 DEF LetOrWill
    <3> QED BY <1>1, <2>1, <2>3, <3>2, <3>3, <3>4 DEF AttemptInv
  <2>4. CASE ~(attempts' = 1 /\ tokAt' = [tokAt EXCEPT ![r] = "expire"] /\ let' = let)
    <3>1. \A q \in Requests : Expiring(q)' <=> Expiring(q)
      BY <1>1, <1>2, <2>4 DEF Expiring, TokenType
    <3>2. LetOrWill' - let' = LetOrWill - let /\ LetOrWill \in Nat /\ LetOrWill' \in Nat
      BY <1>1, <2>1, <3>1 DEF LetOrWill
    <3>3. LetOrWill' <= attempts' /\ LetOrWill' <= MaxAttempts
      BY <1>1, <2>1, <2>2, <2>4, <3>2 DEF AttemptInv
    <3>4. attempts > 0
      BY <1>1, <2>1, <2>4
    <3> QED BY <1>1, <2>1, <2>2, <3>1, <3>3, <3>4 DEF AttemptInv
  <2> QED BY <2>3, <2>4
<1> QED BY <1>3, <1>4, <1>5 DEF TokenInv

\* The count's creator has it expire, and is let through.
LEMMA ExpireAttemptsKeeps ==
  ASSUME TokenInv, NEW r \in Requests, Tokens!ExpireAttempts(r) PROVE TokenInv'
<1>1. /\ UNCHANGED <<token, handedOut, life, black, out, closed, refresh, attempts, ended, made, losses>>
      /\ tokAt[r] = "expire" /\ tokAt' = [tokAt EXCEPT ![r] = "authenticate"]
      /\ expiring' = TRUE /\ let' = let + 1
  BY DEF Tokens!ExpireAttempts, Tokens!Goto, Tokens!bearer
<1>2. TokenType /\ AttemptInv
  BY DEF TokenInv
<1>3. TokenType'
  BY <1>1, <1>2 DEF TokenType, TokenSteps
<1>4. LogoutInv' /\ SessionInv'
  BY <1>1, <1>2 DEF TokenInv, TokenType, LogoutInv, SessionInv, Outlived, MadeYet
<1>5. AttemptInv'
  BY <1>2, <1>1 DEF TokenType, Expiring, AttemptInv, LetOrWill
<1> QED BY <1>3, <1>4, <1>5 DEF TokenInv

\* A user is compared, a refresh begins or is refused, a logout begins.
LEMMA OnTheWayKeeps ==
  ASSUME TokenInv, NEW r \in Requests,
         \/ Tokens!Authenticate(r) \/ Tokens!GetUser(r)
         \/ \E t \in Tokens!Tokens : Tokens!RefreshTokens(r, t)
         \/ \E b \in Tokens!Bearers : Tokens!Logout(r, b)
  PROVE  TokenInv'
<1>1. /\ UNCHANGED <<handedOut, life, black, out, closed, refresh, attempts, expiring, let, ended, made,
                     losses>>
      /\ tokAt[r] \in {"authenticate", "get_user", "idle"}
      /\ \/ token' = token /\ \E p \in {"create", "idle", "delete"} : tokAt' = [tokAt EXCEPT ![r] = p]
         \/ token' = [token EXCEPT ![r] = <<"none", 0>>] /\ tokAt' = [tokAt EXCEPT ![r] = "idle"]
         \/ \E b \in Bearers(MaxTokens), p \in {"get_user", "blacklist"} :
              b[2] \in handedOut /\ token' = [token EXCEPT ![r] = b] /\ tokAt' = [tokAt EXCEPT ![r] = p]
  <2>1. ASSUME NEW t \in Tokens!Tokens, Tokens!RefreshTokens(r, t)
        PROVE  \E b \in Bearers(MaxTokens) :
                 /\ b[2] \in handedOut /\ token' = [token EXCEPT ![r] = b]
                 /\ tokAt' = [tokAt EXCEPT ![r] = "get_user"]
    <3>1. PICK b : b = <<"refresh", t>>
      OBVIOUS
    <3>2. b \in Bearers(MaxTokens) /\ b[2] = t
      BY <3>1 DEF Bearers, Tokens!Tokens
    <3> QED BY <2>1, <3>1, <3>2 DEF Tokens!RefreshTokens, Tokens!Goto
  <2>2. ASSUME NEW b \in Tokens!Bearers, Tokens!Logout(r, b)
        PROVE  /\ b \in Bearers(MaxTokens) /\ b[2] \in handedOut
               /\ token' = [token EXCEPT ![r] = b] /\ tokAt' = [tokAt EXCEPT ![r] = "blacklist"]
    BY <2>2 DEF Tokens!Logout, Tokens!Goto, Tokens!Bearers, Tokens!Tokens, Bearers
  <2>3. CASE Tokens!Authenticate(r) \/ Tokens!GetUser(r)
    BY <2>3 DEF Tokens!Authenticate, Tokens!GetUser, Tokens!Goto, Tokens!End, Tokens!NoBearer,
                Tokens!bearer, Tokens!limiter
  <2>4. CASE \E t \in Tokens!Tokens : Tokens!RefreshTokens(r, t)
    BY <2>1, <2>4 DEF Tokens!RefreshTokens, Tokens!bearer, Tokens!limiter
  <2>5. CASE \E b \in Tokens!Bearers : Tokens!Logout(r, b)
    BY <2>2, <2>5 DEF Tokens!Logout, Tokens!bearer, Tokens!limiter
  <2> QED BY <2>3, <2>4, <2>5
<1>2. TokenType /\ made \in Nat /\ \A n \in handedOut : n <= made
  BY SiteTimes DEF TokenInv, TokenType
<1>3. TokenType'
  BY <1>1, <1>2 DEF TokenType, TokenSteps
<1>4. \A q \in Requests \ {r} : tokAt'[q] = tokAt[q] /\ token'[q] = token[q]
  BY <1>1, <1>2 DEF TokenType
<1>5. /\ tokAt'[r] \in {"create", "idle", "delete", "get_user", "blacklist"}
      /\ tokAt'[r] = "blacklist" => MadeYet(token'[r])
  BY <1>1, <1>2 DEF TokenType, MadeYet
<1> QED BY <1>1, <1>3, <1>4, <1>5, TokensUntouched

\* create_tokens: what is stored is answered.
LEMMA CreateTokensKeeps ==
  ASSUME TokenInv, NEW r \in Requests, Tokens!CreateTokens(r) PROVE TokenInv'
<1>1. /\ UNCHANGED <<black, out, closed, attempts, expiring, let, losses>>
      /\ tokAt[r] = "create" /\ made < MaxTokens /\ made' = made + 1 /\ refresh' = made + 1
      /\ life' = [b \in Bearers(MaxTokens) |->
                    IF b[2] = made + 1 THEN Tokens!LifeTime(b) ELSE life[b]]
      /\ handedOut' = handedOut \cup {made + 1} /\ ended' = FALSE
      /\ tokAt' = [tokAt EXCEPT ![r] = "idle"] /\ token' = [token EXCEPT ![r] = <<"none", 0>>]
  BY DEF Tokens!CreateTokens, Tokens!Goto, Tokens!End, Tokens!limiter, Tokens!NoBearer,
         Tokens!Bearers, Tokens!Tokens, Bearers
<1>2. TokenType
  BY DEF TokenInv
<1>3. made \in Nat /\ made + 1 \in 1..MaxTokens /\ MaxTokens \in Nat
  BY <1>1, <1>2, SiteTimes DEF TokenType
<1>4. TokenType'
  <2>1. ASSUME NEW b \in Bearers(MaxTokens)
        PROVE  life'[b] \in Nat /\ (b[1] = "access" => life'[b] <= AccessTime)
    BY <1>1, <1>2, SiteTimes DEF TokenType, Tokens!LifeTime
  <2>2. life' \in [Bearers(MaxTokens) -> Nat]
    BY <1>1, <2>1
  <2> QED BY <1>1, <1>2, <1>3, <2>1, <2>2 DEF TokenType, TokenSteps
<1>5. LogoutInv'
  <2>1. ASSUME NEW b, MadeYet(b) PROVE MadeYet(b)' /\ life'[b] = life[b]
    <3>1. b[2] \in 1..MaxTokens
      BY <2>1 DEF MadeYet, Bearers
    <3> QED BY <1>1, <1>3, <2>1, <3>1 DEF MadeYet
  <2>2. \A q \in Requests : tokAt'[q] \in {"blacklist", "forget"} =>
          tokAt'[q] = tokAt[q] /\ token'[q] = token[q]
    BY <1>1, <1>2 DEF TokenType
  <2>3. LogoutInv /\ made + 1 \notin closed
    BY <1>2, <1>3 DEF TokenInv, TokenType
  <2>4. \A b : MadeYet(b) /\ Outlived(b) => Outlived(b)'
    BY <1>1, <2>1 DEF Outlived
  <2> QED BY <1>1, <2>1, <2>2, <2>3, <2>4, Zenon DEF LogoutInv
<1>6. SessionInv'
  BY <1>1 DEF SessionInv
<1>7. AttemptInv'
  <2>1. \A q \in Requests : Expiring(q)' <=> Expiring(q)
    BY <1>1, <1>2 DEF Expiring, TokenType
  <2>2. LetOrWill' = LetOrWill
    BY <1>1, <2>1 DEF LetOrWill
  <2> QED BY <1>1, <2>1, <2>2 DEF TokenInv, AttemptInv
<1> QED BY <1>4, <1>5, <1>6, <1>7 DEF TokenInv

\* A refresh deletes the key, about to write it anew.
LEMMA DeleteRefreshKeeps ==
  ASSUME TokenInv, NEW r \in Requests, Tokens!DeleteRefresh(r) PROVE TokenInv'
<1>1. /\ UNCHANGED <<token, handedOut, life, black, out, closed, attempts, expiring, let, ended, made,
                     losses>>
      /\ tokAt[r] = "delete" /\ tokAt' = [tokAt EXCEPT ![r] = "create"]
  BY DEF Tokens!DeleteRefresh, Tokens!Goto, Tokens!bearer, Tokens!limiter
<1>2. TokenType
  BY DEF TokenInv
<1>3. TokenType'
  BY <1>1, <1>2 DEF TokenType, TokenSteps
<1>4. LogoutInv' /\ SessionInv'
  <2>1. refresh' = 0 /\ 0 \notin closed
    BY <1>1, <1>2 DEF TokenType, Tokens!DeleteRefresh
  <2>2. LogoutInv'
    BY <1>1, <1>2, <2>1 DEF TokenInv, TokenType, LogoutInv, Outlived, MadeYet
  <2>3. SessionInv'
    BY <1>1, <1>2 DEF TokenType, SessionInv
  <2> QED BY <2>2, <2>3
<1>5. AttemptInv'
  <2>1. \A q \in Requests : Expiring(q)' <=> Expiring(q)
    BY <1>1, <1>2 DEF Expiring, TokenType
  <2>2. LetOrWill' = LetOrWill
    BY <1>1, <2>1 DEF LetOrWill
  <2> QED BY <1>1, <2>1, <2>2 DEF TokenInv, AttemptInv
<1> QED BY <1>3, <1>4, <1>5 DEF TokenInv

\* The token is blacklisted for longer than it can have left.
LEMMA BlacklistKeeps ==
  ASSUME TokenInv, NEW r \in Requests, Tokens!Blacklist(r) PROVE TokenInv'
<1>1. /\ UNCHANGED <<token, handedOut, life, refresh, out, closed, attempts, expiring, let, ended, made,
                     losses>>
      /\ tokAt[r] = "blacklist" /\ tokAt' = [tokAt EXCEPT ![r] = "forget"]
      /\ black' = [black EXCEPT ![token[r]] = BlackTime]
  BY DEF Tokens!Blacklist, Tokens!Goto, Tokens!limiter
<1>2. TokenType /\ LogoutInv
  BY DEF TokenInv
<1>3. MadeYet(token[r]) /\ token[r] \in Bearers(MaxTokens)
  BY <1>1, <1>2 DEF LogoutInv, MadeYet
<1>4. TokenType'
  <2>1. black' \in [Bearers(MaxTokens) -> Nat]
    BY <1>1, <1>2, SiteTimes DEF TokenType
  <2>2. tokAt' \in [Requests -> TokenSteps]
    BY <1>1, <1>2 DEF TokenType, TokenSteps
  <2> QED BY <1>1, <1>2, <2>1, <2>2 DEF TokenType
<1>5. LogoutInv'
  <2>1. PICK b : b = token[r] /\ b \in Bearers(MaxTokens)
    BY <1>3
  <2>2. Outlived(b)'
    BY <1>1, <1>2, <2>1, SiteTimes DEF Outlived, TokenType
  <2>3. \A c : MadeYet(c) /\ Outlived(c) => Outlived(c)'
    BY <1>1, <1>2, <2>1, <2>2, SiteTimes DEF Outlived, TokenType, MadeYet
  <2>4. \A q \in Requests \ {r} : tokAt'[q] = tokAt[q]
    BY <1>1, <1>2 DEF TokenType
  <2>5. tokAt'[r] = "forget" /\ \A c : MadeYet(c) => MadeYet(c)'
    BY <1>1, <1>2 DEF TokenType, MadeYet
  <2> QED BY <1>1, <1>2, <1>3, <2>1, <2>2, <2>3, <2>4, <2>5, Zenon DEF LogoutInv
<1>6. SessionInv'
  BY <1>1, <1>2 DEF TokenInv, SessionInv, TokenType
<1>7. AttemptInv'
  <2>1. \A q \in Requests : Expiring(q)' <=> Expiring(q)
    BY <1>1, <1>2 DEF Expiring, TokenType
  <2>2. LetOrWill' = LetOrWill
    BY <1>1, <2>1 DEF LetOrWill
  <2> QED BY <1>1, <2>1, <2>2 DEF TokenInv, AttemptInv
<1> QED BY <1>4, <1>5, <1>6, <1>7 DEF TokenInv

\* The logout is answered.
LEMMA ForgetKeeps ==
  ASSUME TokenInv, NEW r \in Requests, Tokens!Forget(r) PROVE TokenInv'
<1>1. /\ UNCHANGED <<handedOut, life, black, attempts, expiring, let, made, losses>>
      /\ tokAt[r] = "forget" /\ tokAt' = [tokAt EXCEPT ![r] = "idle"] /\ refresh' = 0
      /\ token' = [token EXCEPT ![r] = <<"none", 0>>] /\ ended' = TRUE /\ closed' = handedOut
      /\ out' = out \/ (out' = out \cup {token[r]} /\ token[r][1] = "access")
  BY DEF Tokens!Forget, Tokens!Goto, Tokens!End, Tokens!limiter, Tokens!NoBearer
<1>2. TokenType /\ LogoutInv
  BY DEF TokenInv
<1>3. MadeYet(token[r]) /\ Outlived(token[r]) /\ 0 \notin handedOut
  BY <1>1, <1>2 DEF TokenType, LogoutInv
<1>4. TokenType'
  BY <1>1, <1>2 DEF TokenType, TokenSteps
<1>5. LogoutInv'
  <2>1. \A c : (MadeYet(c) => MadeYet(c)') /\ (Outlived(c) => Outlived(c)')
    BY <1>1 DEF MadeYet, Outlived
  <2>2. \A q \in Requests : tokAt'[q] \in {"blacklist", "forget"} =>
          tokAt'[q] = tokAt[q] /\ token'[q] = token[q]
    BY <1>1, <1>2 DEF TokenType
  <2>3. PICK b : b = token[r]
    OBVIOUS
  <2>4. \A c \in out' : c \in out \/ (c = b /\ b[1] = "access")
    BY <1>1, <2>3
  <2> QED BY <1>1, <1>2, <1>3, <2>1, <2>2, <2>3, <2>4, Zenon DEF LogoutInv
<1>6. SessionInv'
  BY <1>1 DEF SessionInv
<1>7. AttemptInv'
  <2>1. \A q \in Requests : Expiring(q)' <=> Expiring(q)
    BY <1>1, <1>2 DEF Expiring, TokenType
  <2>2. LetOrWill' = LetOrWill
    BY <1>1, <2>1 DEF LetOrWill
  <2> QED BY <1>1, <2>1, <2>2 DEF TokenInv, AttemptInv
<1> QED BY <1>4, <1>5, <1>6, <1>7 DEF TokenInv

\* A command fails: what had been done stays.
LEMMA LostKeeps ==
  ASSUME TokenInv, NEW r \in Requests, Tokens!Lost(r) PROVE TokenInv'
<1>1. /\ UNCHANGED <<handedOut, life, black, out, closed, refresh, attempts, expiring, let, ended, made>>
      /\ tokAt' = [tokAt EXCEPT ![r] = "idle"] /\ token' = [token EXCEPT ![r] = <<"none", 0>>]
      /\ losses' = losses + 1
  BY DEF Tokens!Lost, Tokens!Lose, Tokens!Goto, Tokens!End, Tokens!limiter, Tokens!bearer,
         Tokens!NoBearer
<1>2. TokenType /\ losses' > 0
  BY <1>1 DEF TokenInv, TokenType
<1>3. TokenType'
  BY <1>1, <1>2 DEF TokenType, TokenSteps
<1>4. LogoutInv' /\ SessionInv'
  BY <1>1, <1>2 DEF TokenInv, TokenType, LogoutInv, SessionInv, Outlived, MadeYet
<1>5. AttemptInv'
  <2>1. \A q \in Requests : Expiring(q)' => Expiring(q)
    BY <1>1, <1>2 DEF Expiring, TokenType
  <2>2. LetOrWill' <= LetOrWill /\ LetOrWill \in Nat /\ LetOrWill' \in Nat
    BY <1>1, <1>2, <2>1 DEF LetOrWill, TokenType
  <2>3. LetOrWill' <= attempts' /\ LetOrWill' <= MaxAttempts
    BY <1>1, <1>2, <2>2, SiteTimes DEF TokenInv, AttemptInv, TokenType
  <2> QED BY <1>1, <1>2, <2>1, <2>3 DEF TokenInv, AttemptInv
<1> QED BY <1>3, <1>4, <1>5 DEF TokenInv

\* Time passes: a token runs out with its blacklist key or before it.
LEMMA TickKeeps == ASSUME TokenInv, Tokens!Tick PROVE TokenInv'
<1>1. /\ UNCHANGED <<tokAt, token, handedOut, refresh, attempts, expiring, let, out, closed, ended,
                     made, losses>>
      /\ life' = [b \in Bearers(MaxTokens) |-> IF life[b] > 0 THEN life[b] - 1 ELSE 0]
      /\ black' = [b \in Bearers(MaxTokens) |-> IF black[b] > 0 THEN black[b] - 1 ELSE 0]
  BY DEF Tokens!Tick, Tokens!Less, Tokens!Tokens, Tokens!Bearers, Bearers, Tokens!limiter
<1>2. TokenType
  BY DEF TokenInv
<1>3. TokenType'
  <2>1. life' \in [Bearers(MaxTokens) -> Nat] /\ black' \in [Bearers(MaxTokens) -> Nat]
    BY <1>1, <1>2 DEF TokenType
  <2>2. \A b \in Bearers(MaxTokens) : b[1] = "access" => life'[b] <= AccessTime
    BY <1>1, <1>2, SiteTimes DEF TokenType
  <2> QED BY <1>1, <1>2, <2>1, <2>2 DEF TokenType
<1>4. \A b : MadeYet(b) => MadeYet(b)' /\ (Outlived(b) => Outlived(b)')
  BY <1>1, <1>2, SiteTimes DEF Outlived, TokenType, MadeYet
<1>5. LogoutInv'
  BY <1>1, <1>4, Zenon DEF TokenInv, LogoutInv
<1>6. SessionInv' /\ AttemptInv'
  BY <1>1 DEF TokenInv, SessionInv, AttemptInv, LetOrWill, Expiring
<1> QED BY <1>3, <1>5, <1>6 DEF TokenInv

\* A key of Redis runs out: the count of attempts, or the stored token.
LEMMA KeysExpireKeeps ==
  ASSUME TokenInv, Tokens!WindowEnds \/ Tokens!RefreshExpires PROVE TokenInv'
<1>1. CASE Tokens!WindowEnds
  <2>1. /\ UNCHANGED <<tokAt, token, handedOut, life, black, refresh, out, closed, ended, made, losses>>
        /\ expiring /\ attempts' = 0 /\ expiring' = FALSE /\ let' = 0
    BY <1>1 DEF Tokens!WindowEnds, Tokens!bearer
  <2>2. TokenType' /\ LogoutInv' /\ SessionInv'
    BY <2>1 DEF TokenInv, TokenType, LogoutInv, SessionInv, Outlived, MadeYet
  <2>3. \A r \in Requests : ~Expiring(r) /\ ~Expiring(r)'
    BY <2>1 DEF TokenInv, AttemptInv, Expiring
  <2>4. LetOrWill' = 0
    BY <2>1, <2>3 DEF LetOrWill
  <2>5. AttemptInv'
    BY <2>1, <2>3, <2>4, SiteTimes DEF AttemptInv
  <2> QED BY <2>2, <2>5 DEF TokenInv
<1>2. CASE Tokens!RefreshExpires
  <2>1. /\ UNCHANGED <<tokAt, token, handedOut, life, black, attempts, expiring, let, out, closed,
                       made, losses>>
        /\ ended' = TRUE /\ refresh' = 0
    BY <1>2 DEF Tokens!RefreshExpires, Tokens!bearer, Tokens!limiter
  <2>2. TokenType' /\ LogoutInv' /\ SessionInv'
    BY <2>1 DEF TokenInv, TokenType, LogoutInv, SessionInv, Outlived, MadeYet
  <2>3. AttemptInv'
    BY <2>1 DEF TokenInv, AttemptInv, LetOrWill, Expiring
  <2> QED BY <2>2, <2>3 DEF TokenInv
<1> QED BY <1>1, <1>2

LEMMA TokenInvStep == TokenInv /\ [Tokens!Next]_tokensVars => TokenInv'
<1> SUFFICES ASSUME TokenInv, [Tokens!Next]_tokensVars PROVE TokenInv'
  OBVIOUS
<1>1. CASE Tokens!Tick \/ Tokens!WindowEnds \/ Tokens!RefreshExpires
  BY <1>1, TickKeeps, KeysExpireKeeps
<1>2. ASSUME NEW r \in Requests, Tokens!Request(r) PROVE TokenInv'
  BY <1>2, IncrAttemptsKeeps, ExpireAttemptsKeeps, OnTheWayKeeps, CreateTokensKeeps,
     DeleteRefreshKeeps, BlacklistKeeps, ForgetKeeps, LostKeeps DEF Tokens!Request
<1>3. CASE UNCHANGED tokensVars
  BY <1>3 DEF tokensVars, TokenInv, TokenType, LogoutInv, SessionInv, AttemptInv, Outlived,
              MadeYet, LetOrWill, Expiring
<1> QED BY <1>1, <1>2, <1>3 DEF Tokens!Next

\* However requests, losses and times out cross: a logged out access token is not taken
\* again and no refresh token of before a logout exchanged after it, a session that nobody
\* ended can be refreshed, and no window lets more attempts through than its limit
\* (webgui/auth/token_manager.py, the login endpoint).
THEOREM SessionsHold == Spec => []SessionsKept
<1>1. Init => TokenInv
  BY TokenInvInit DEF Init
<1>2. TokenInv /\ [Next]_vars => TokenInv'
  BY TokenInvStep, PartsApart
<1>3. TokenInv => SessionsKept
  <2> SUFFICES ASSUME TokenInv PROVE SessionsKept
    OBVIOUS
  <2>1. Tokens!LoggedOutForGood
    <3>1. ASSUME NEW b \in out PROVE ~(life[b] > 0 /\ black[b] = 0)
      BY SiteTimes DEF TokenInv, TokenType, LogoutInv, Outlived, MadeYet
    <3>2. \A t \in closed : refresh # t
      BY DEF TokenInv, LogoutInv
    <3> QED BY <3>1, <3>2 DEF Tokens!LoggedOutForGood, Tokens!Verified, Tokens!MayRefresh
  <2>2. Tokens!SessionSurvives
    BY DEF TokenInv, SessionInv, Tokens!SessionSurvives
  <2>3. Tokens!AttemptsBounded
    <3>1. let \in Nat /\ MaxAttempts \in Nat /\ LetOrWill <= MaxAttempts
      BY SiteTimes DEF TokenInv, TokenType, AttemptInv
    <3>2. let <= MaxAttempts
      BY <3>1 DEF LetOrWill
    <3> QED BY <3>2 DEF TokenInv, AttemptInv, Expiring, Tokens!AttemptsBounded
  <2> QED BY <2>1, <2>2, <2>3 DEF SessionsKept, In
<1> QED BY <1>1, <1>2, <1>3, PTL DEF Spec

----------------------------------------------------------------------------
(* API keys                                                                 *)

MakingSteps   == {"none", "id", "index", "made", "failed"}
RevokingSteps == {"none", "hash", "id", "index"}

\* What makes a key work is written first and deleted first: until its creation is at its
\* last write no other entry is there, and none goes while the key works.
Begun == {"index", "made", "failed"}
KeySound(k) ==
  /\ making[k] \in {"none", "id"} => k \notin byId \cup index
  /\ k \in index => making[k] \in Begun
  /\ k \in keysTold => making[k] = "made"
  /\ k \in listed \cup revoked \/ revoking[k] # "none" => making[k] \in Begun
  /\ k \in byHash /\ (making[k] \in {"index", "made"} \/ k \in listed) => k \in byId
  /\ k \in byHash /\ making[k] = "made" => k \in index
  /\ revoking[k] \in {"id", "index"} \/ k \in revoked => k \notin byHash
  /\ k \in due => k \in keysTold
  /\ k \in due /\ k \in byHash => k \in idsListing \cup listed

KeyType ==
  /\ making \in [Keys -> MakingSteps] /\ revoking \in [Keys -> RevokingSteps]
  /\ keysTold \subseteq Keys /\ revoked \subseteq Keys /\ listed \subseteq Keys
  /\ due \subseteq Keys

AccountInv == KeyType /\ \A k \in Keys : KeySound(k)

LEMMA AccountInvInit == Accounts!Init => AccountInv
BY DEF Accounts!Init, AccountInv, KeyType, KeySound, MakingSteps, RevokingSteps

\* A key's step leaves the other keys as they are.
LEMMA KeyStepKeeps == ASSUME AccountInv, NEW k \in Keys, Accounts!Key(k) PROVE AccountInv'
<1> DEFINE Frame ==
      \A j \in Keys \ {k} :
        /\ j \in byHash' <=> j \in byHash
        /\ j \in byId' <=> j \in byId
        /\ j \in index' <=> j \in index
        /\ j \in keysTold' <=> j \in keysTold
        /\ j \in revoked' <=> j \in revoked
        /\ j \in idsListing' <=> j \in idsListing
        /\ j \in listed' <=> j \in listed
        /\ j \in due' <=> j \in due
<1>1. KeyType /\ KeySound(k)
  BY DEF AccountInv
<1>2. ASSUME NEW m \in MakingSteps, NEW r \in RevokingSteps,
             making' = [making EXCEPT ![k] = m], revoking' = [revoking EXCEPT ![k] = r], Frame,
             keysTold' \subseteq Keys, revoked' \subseteq Keys, listed' \subseteq Keys,
             due' \subseteq Keys, KeySound(k)'
      PROVE  AccountInv'
  <2>1. KeyType'
    BY <1>1, <1>2 DEF KeyType
  <2>2. ASSUME NEW j \in Keys \ {k} PROVE KeySound(j)'
    BY <1>1, <1>2 DEF AccountInv, KeyType, KeySound
  <2> QED BY <1>2, <2>1, <2>2 DEF AccountInv
<1>3. ASSUME making' = making PROVE making' = [making EXCEPT ![k] = making[k]]
  BY <1>1, <1>3 DEF KeyType
<1>4. ASSUME revoking' = revoking PROVE revoking' = [revoking EXCEPT ![k] = revoking[k]]
  BY <1>1, <1>4 DEF KeyType
<1>5. making[k] \in MakingSteps /\ revoking[k] \in RevokingSteps
  BY <1>1 DEF KeyType
<1>6. CASE Accounts!CreateHash(k)
  <2>1. KeySound(k)'
    BY <1>1, <1>6 DEF Accounts!CreateHash, Accounts!Make, Accounts!entries, Accounts!lists, KeySound,
                    KeyType, Begun, MakingSteps
  <2>2. Frame
    BY <1>6 DEF Accounts!CreateHash, Frame, Accounts!entries, Accounts!lists
  <2> QED BY <1>1, <1>2, <1>3, <1>4, <1>5, <1>6, <2>1, <2>2
       DEF Accounts!CreateHash, Accounts!Make, KeyType, MakingSteps, RevokingSteps, Accounts!lists
<1>7. CASE Accounts!CreateId(k)
  <2>1. KeySound(k)'
    BY <1>1, <1>7 DEF Accounts!CreateId, Accounts!Make, Accounts!entries, Accounts!lists, KeySound,
                    KeyType, Begun, MakingSteps
  <2>2. Frame
    BY <1>7 DEF Accounts!CreateId, Frame, Accounts!entries, Accounts!lists
  <2> QED BY <1>1, <1>2, <1>3, <1>4, <1>5, <1>7, <2>1, <2>2
       DEF Accounts!CreateId, Accounts!Make, KeyType, MakingSteps, RevokingSteps, Accounts!lists
<1>8. CASE Accounts!CreateIndex(k)
  <2>1. KeySound(k)'
    BY <1>1, <1>8 DEF Accounts!CreateIndex, Accounts!Make, Accounts!entries, Accounts!lists, KeySound,
                    KeyType, Begun, MakingSteps
  <2>2. Frame
    BY <1>8 DEF Accounts!CreateIndex, Frame, Accounts!entries, Accounts!lists
  <2> QED BY <1>1, <1>2, <1>3, <1>4, <1>5, <1>8, <2>1, <2>2
       DEF Accounts!CreateIndex, Accounts!Make, KeyType, MakingSteps, RevokingSteps, Accounts!lists
<1>9. CASE Accounts!CreateDrops(k)
  <2>1. KeySound(k)'
    BY <1>1, <1>9 DEF Accounts!CreateDrops, Accounts!Make, Accounts!entries, Accounts!lists, KeySound,
                    KeyType, Begun, MakingSteps
  <2>2. Frame
    BY <1>9 DEF Accounts!CreateDrops, Frame, Accounts!entries, Accounts!lists
  <2> QED BY <1>1, <1>2, <1>3, <1>4, <1>5, <1>9, <2>1, <2>2
       DEF Accounts!CreateDrops, Accounts!Make, KeyType, MakingSteps, RevokingSteps, Accounts!lists
<1>10. CASE Accounts!Revoke(k)
  <2>1. KeySound(k)'
    BY <1>1, <1>10 DEF Accounts!Revoke, Accounts!Undo, Accounts!entries, Accounts!lists, KeySound,
                    KeyType, Begun, MakingSteps
  <2>2. Frame
    BY <1>10 DEF Accounts!Revoke, Frame, Accounts!entries, Accounts!lists
  <2> QED BY <1>1, <1>2, <1>3, <1>4, <1>5, <1>10, <2>1, <2>2
       DEF Accounts!Revoke, Accounts!Undo, KeyType, MakingSteps, RevokingSteps, Accounts!lists
<1>11. CASE Accounts!RevokeHash(k)
  <2>1. KeySound(k)'
    BY <1>1, <1>11 DEF Accounts!RevokeHash, Accounts!Undo, Accounts!entries, Accounts!lists, KeySound,
                    KeyType, Begun, MakingSteps
  <2>2. Frame
    BY <1>11 DEF Accounts!RevokeHash, Frame, Accounts!entries, Accounts!lists
  <2> QED BY <1>1, <1>2, <1>3, <1>4, <1>5, <1>11, <2>1, <2>2
       DEF Accounts!RevokeHash, Accounts!Undo, KeyType, MakingSteps, RevokingSteps, Accounts!lists
<1>12. CASE Accounts!RevokeId(k)
  <2>1. KeySound(k)'
    BY <1>1, <1>12 DEF Accounts!RevokeId, Accounts!Undo, Accounts!entries, Accounts!lists, KeySound,
                    KeyType, Begun, MakingSteps
  <2>2. Frame
    BY <1>12 DEF Accounts!RevokeId, Frame, Accounts!entries, Accounts!lists
  <2> QED BY <1>1, <1>2, <1>3, <1>4, <1>5, <1>12, <2>1, <2>2
       DEF Accounts!RevokeId, Accounts!Undo, KeyType, MakingSteps, RevokingSteps, Accounts!lists
<1>13. CASE Accounts!RevokeIndex(k)
  <2>1. KeySound(k)'
    BY <1>1, <1>13 DEF Accounts!RevokeIndex, Accounts!Undo, Accounts!entries, Accounts!lists, KeySound,
                    KeyType, Begun, MakingSteps
  <2>2. Frame
    BY <1>13 DEF Accounts!RevokeIndex, Frame, Accounts!entries, Accounts!lists
  <2> QED BY <1>1, <1>2, <1>3, <1>4, <1>5, <1>13, <2>1, <2>2
       DEF Accounts!RevokeIndex, Accounts!Undo, KeyType, MakingSteps, RevokingSteps, Accounts!lists
<1>14. CASE Accounts!RevokeDrops(k)
  <2>1. KeySound(k)'
    BY <1>1, <1>14 DEF Accounts!RevokeDrops, Accounts!Undo, Accounts!entries, Accounts!lists, KeySound,
                    KeyType, Begun, MakingSteps
  <2>2. Frame
    BY <1>14 DEF Accounts!RevokeDrops, Frame, Accounts!entries, Accounts!lists
  <2> QED BY <1>1, <1>2, <1>3, <1>4, <1>5, <1>14, <2>1, <2>2
       DEF Accounts!RevokeDrops, Accounts!Undo, KeyType, MakingSteps, RevokingSteps, Accounts!lists
<1>15. CASE Accounts!ListOne(k)
  <2>1. KeySound(k)'
    BY <1>1, <1>15 DEF Accounts!ListOne, Accounts!entries, Accounts!lists, KeySound,
                    KeyType, Begun, MakingSteps
  <2>2. Frame
    BY <1>15 DEF Accounts!ListOne, Frame, Accounts!entries, Accounts!lists
  <2> QED BY <1>1, <1>2, <1>3, <1>4, <1>5, <1>15, <2>1, <2>2
       DEF Accounts!ListOne, KeyType, MakingSteps, RevokingSteps, Accounts!lists
<1> QED BY <1>6, <1>7, <1>8, <1>9, <1>10, <1>11, <1>12, <1>13, <1>14, <1>15 DEF Accounts!Key

LEMMA AccountInvStep == AccountInv /\ [Accounts!Next]_accountsVars => AccountInv'
<1> SUFFICES ASSUME AccountInv, [Accounts!Next]_accountsVars PROVE AccountInv'
  OBVIOUS
<1>1. ASSUME NEW k \in Keys, Accounts!Key(k) PROVE AccountInv'
  BY <1>1, KeyStepKeeps
<1>2. CASE Accounts!ListIds
  BY <1>2 DEF AccountInv, KeyType, KeySound, Accounts!ListIds, Accounts!entries
<1>3. CASE Accounts!ListDrops
  BY <1>3 DEF AccountInv, KeyType, KeySound, Accounts!ListDrops, Accounts!entries
<1>4. CASE UNCHANGED accountsVars
  BY <1>4 DEF accountsVars, AccountInv, KeyType, KeySound
<1> QED BY <1>1, <1>2, <1>3, <1>4 DEF Accounts!Next

\* However creations, revocations and lists of API keys overlap and whichever of their
\* commands fail: a key that was handed out, or listed, and works can be revoked, every
\* list names the keys that were held when it began and work, and no revoked key works
\* (webgui/auth/api_keys.py).
THEOREM AccountsHold == Spec => []AccountsKept
<1>1. Init => AccountInv
  BY AccountInvInit DEF Init
<1>2. AccountInv /\ [Next]_vars => AccountInv'
  BY AccountInvStep, PartsApart
<1>3. AccountInv => AccountsKept
  <2> SUFFICES ASSUME AccountInv PROVE Accounts!KeysRevocable
    BY DEF AccountsKept, In
  <2>1. \A k \in byHash \cap (keysTold \cup listed) : k \in byId
    BY DEF AccountInv, KeyType, KeySound
  <2>2. idsListing = {} => \A k \in due \cap byHash : k \in listed
    BY DEF AccountInv, KeyType, KeySound
  <2>3. \A k \in revoked : k \notin byHash
    BY DEF AccountInv, KeyType, KeySound
  <2> QED BY <2>1, <2>2, <2>3 DEF Accounts!KeysRevocable
<1> QED BY <1>1, <1>2, <1>3, PTL DEF Spec

----------------------------------------------------------------------------
(* Events to a client                                                       *)

RtType ==
  /\ link \in [Conns -> {"none", "up", "down"}]
  /\ handler \in [Conns -> {"none", "receive", "replay", "done"}]
  /\ toReplay \in [Conns -> SUBSET (1..Len(stream))]
  /\ stream \in Seq(Nat) /\ pubsub \in [on : BOOLEAN, queue : Seq(Nat)]
  /\ sending \in [event : Nat, id : Nat, to : SUBSET Conns]
  /\ subs \subseteq Conns /\ sockets \subseteq Conns
  /\ published \in Nat /\ unbuffered \in Nat /\ firstSeen \in Nat
  /\ lastSeen \in 0..Len(stream) /\ broken \in BOOLEAN

\* A connection is the client's only one, and what the process holds of it agrees with
\* its handler.
ConnSound(c) ==
  /\ link[c] = "none" <=> handler[c] = "none"
  /\ link[c] = "none" => c \notin subs \cup sockets \cup sending.to
  /\ link[c] # "none" => \A d \in Conns : d < c => link[d] = "down"
  /\ link[c] = "up" => c \in sockets /\ handler[c] # "done"
  /\ link[c] = "up" /\ (c \in sending.to \/ handler[c] = "replay") => c \in subs
  /\ handler[c] = "done" => c \notin sockets \cup subs
  /\ handler[c] = "replay" <=> toReplay[c] # {}

\* The listener listens where anybody subscribed, and sends an entry of the stream that
\* is younger than whatever is replayed at the time, unless it could not buffer one.
ListenerSound ==
  /\ subs # {} \/ lastSeen > 0 => pubsub.on
  /\ sending.to # {} => sending.id \in 0..Len(stream)
  /\ sending.to # {} /\ ~broken =>
       sending.id \in 1..Len(stream) /\ stream[sending.id] = sending.event
  /\ \A c \in sending.to : link[c] = "up" /\ ~broken =>
       lastSeen < sending.id /\ \A j \in toReplay[c] : j < sending.id

RtSound == RtType /\ (\A c \in Conns : ConnSound(c)) /\ ListenerSound

\* Where an event is that the client has yet to receive: on its way to the connection
\* that is subscribed; or, where there is none, among what the next one will ask for.
Current(c)     == link[c] = "up" /\ c \in subs
Queued(e)      == \E n \in 1..Len(pubsub.queue) : pubsub.queue[n] = e
OnItsWay(c, e) ==
  \/ e \in received \/ Queued(e) \/ (sending.event = e /\ c \in sending.to)
  \/ \E i \in toReplay[c] : stream[i] = e
AskedForNext(e) ==
  e \in received \/ Queued(e) \/ \E i \in (lastSeen + 1)..Len(stream) : stream[i] = e

Reached(e) ==
  /\ \A c \in Conns : Current(c) => OnItsWay(c, e)
  /\ lastSeen > 0 /\ (\A c \in Conns : ~Current(c)) => AskedForNext(e)

RtReached == ~broken => \A e \in (firstSeen + 1)..published : Reached(e)

RtInv == RtSound /\ RtReached

LEMMA LeastOf ==
  ASSUME NEW S \in SUBSET Nat, S # {}
  PROVE  Events!Least(S) \in S /\ \A n \in S : Events!Least(S) <= n
<1>1. \E m \in S : \A n \in S : m <= n
  BY Smallest
<1> QED BY <1>1, Zenon DEF Events!Least

\* Where a connection stands as it stood, and the stream has at most grown.
LEMMA OtherConnections ==
  ASSUME RtSound, NEW c \in Conns,
         \A d \in Conns \ {c} :
           /\ link'[d] = link[d] /\ handler'[d] = handler[d] /\ toReplay'[d] = toReplay[d]
           /\ d \in subs' <=> d \in subs
           /\ d \in sockets' <=> d \in sockets
           /\ d \in sending'.to => d \in sending.to \/ d \in subs,
         link[c] = "down" => link'[c] = "down",
         link[c] = "none" => \A d \in Conns : d < c => link[d] = "down",
         ConnSound(c)'
  PROVE  \A d \in Conns : ConnSound(d)'
<1>1. ASSUME NEW d \in Conns \ {c} PROVE ConnSound(d)'
  <2>1. ConnSound(d)
    BY DEF RtSound
  <2>2. \A e \in Conns : e # c => link'[e] = link[e]
    OBVIOUS
  <2>3. link'[d] # "none" => \A e \in Conns : e < d => link'[e] = "down"
    BY <2>1, <2>2 DEF ConnSound
  <2>4. link'[d] = "up" /\ d \in sending'.to => d \in subs'
    BY <2>1 DEF ConnSound
  <2>5. link'[d] = "none" => d \notin subs' \cup sockets' \cup sending'.to
    BY <2>1 DEF ConnSound
  <2> QED BY <2>1, <2>3, <2>4, <2>5 DEF ConnSound
<1> QED BY <1>1

LEMMA RtInvInit == Events!Init => RtInv
<1> SUFFICES ASSUME Events!Init PROVE RtInv
  OBVIOUS
<1>1. RtType
  <2>1. stream \in Seq(Nat) /\ Len(stream) = 0
    BY DEF Events!Init
  <2>2. toReplay \in [Conns -> SUBSET (1..Len(stream))] /\ lastSeen \in 0..Len(stream)
    BY <2>1 DEF Events!Init
  <2>3. pubsub \in [on : BOOLEAN, queue : Seq(Nat)]
    BY DEF Events!Init
  <2>4. sending \in [event : Nat, id : Nat, to : SUBSET Conns]
    BY DEF Events!Init, Events!Nothing
  <2> QED BY <2>1, <2>2, <2>3, <2>4, Zenon DEF Events!Init, RtType
<1>2. (\A c \in Conns : ConnSound(c)) /\ ListenerSound
  BY DEF Events!Init, Events!Nothing, ConnSound, ListenerSound
<1>3. RtReached
  BY DEF Events!Init, RtReached
<1> QED BY <1>1, <1>2, <1>3 DEF RtInv, RtSound

LEMMA PublishSound == ASSUME RtSound, Events!PublishEvent PROVE RtSound'
<1>1. /\ UNCHANGED <<link, sockets, subs, handler, toReplay, stream, sending, received, lastSeen,
                     firstSeen, broken>>
      /\ published' = published + 1 /\ unbuffered' = published + 1
      /\ pubsub' = IF pubsub.on THEN [pubsub EXCEPT !.queue = Append(@, published + 1)] ELSE pubsub
  BY DEF Events!PublishEvent, Events!server, Events!client
<1>2. RtType
  BY DEF RtSound
<1>3. pubsub' \in [on : BOOLEAN, queue : Seq(Nat)] /\ pubsub'.on = pubsub.on
  <2>1. CASE pubsub.on
    <3>1. Append(pubsub.queue, published + 1) \in Seq(Nat)
      BY <1>2 DEF RtType
    <3>2. pubsub' = [pubsub EXCEPT !.queue = Append(pubsub.queue, published + 1)]
      BY <1>1, <2>1
    <3> QED BY <1>2, <3>1, <3>2, Zenon DEF RtType
  <2>2. CASE ~pubsub.on
    BY <1>1, <1>2, <2>2 DEF RtType
  <2> QED BY <2>1, <2>2
<1>4. RtType'
  BY <1>1, <1>2, <1>3 DEF RtType
<1> QED BY <1>1, <1>3, <1>4 DEF RtSound, ConnSound, ListenerSound

LEMMA StreamGrows ==
  ASSUME RtSound, NEW e \in Nat, stream' = Append(stream, e)
  PROVE  /\ stream' \in Seq(Nat) /\ Len(stream') = Len(stream) + 1 /\ Len(stream) \in Nat
         /\ \A i \in 1..Len(stream) : stream'[i] = stream[i]
         /\ stream'[Len(stream) + 1] = e
BY DEF RtSound, RtType

LEMMA BufferingFails ==
  ASSUME RtInv, Events!BufferFails PROVE RtInv'
<1>1. /\ UNCHANGED <<link, sockets, subs, handler, toReplay, pubsub, published, sending, received,
                     lastSeen, firstSeen, broken, stream>>
      /\ unbuffered' = 0
  BY DEF Events!BufferFails, Events!server, Events!client
<1>2. RtSound'
  BY <1>1 DEF RtInv, RtSound, RtType, ConnSound, ListenerSound
<1>3. RtReached'
  BY <1>1 DEF RtInv, RtReached, Reached, OnItsWay, AskedForNext, Queued, Current
<1> QED BY <1>2, <1>3 DEF RtInv

LEMMA BufferSound == ASSUME RtSound, Events!BufferMessage PROVE RtSound'
<1>1. /\ UNCHANGED <<link, sockets, subs, handler, toReplay, pubsub, published, sending, received,
                     lastSeen, firstSeen, broken>>
      /\ stream' = Append(stream, unbuffered) /\ unbuffered' = 0
  BY DEF Events!BufferMessage, Events!server, Events!client
<1>2. RtType /\ unbuffered \in Nat
  BY DEF RtSound, RtType
<1>3. /\ stream' \in Seq(Nat) /\ Len(stream') = Len(stream) + 1 /\ Len(stream) \in Nat
      /\ \A i \in 1..Len(stream) : stream'[i] = stream[i]
  BY <1>1, <1>2, StreamGrows
<1>4. RtType'
  BY <1>1, <1>2, <1>3 DEF RtType
<1>5. ListenerSound'
  BY <1>1, <1>2, <1>3 DEF RtSound, ListenerSound
<1> QED BY <1>1, <1>4, <1>5 DEF RtSound, ConnSound

\* The listener takes the oldest event and is about to send it, under the id it was
\* buffered under.
LEMMA TakeFacts ==
  ASSUME RtSound, NEW id \in Nat, Events!Handle(id)
  PROVE  /\ UNCHANGED <<link, sockets, subs, handler, toReplay, published, unbuffered, received,
                        lastSeen, firstSeen>>
         /\ sending.to = {} /\ pubsub.queue # <<>> /\ Head(pubsub.queue) \in Nat
         /\ pubsub'.on = pubsub.on /\ pubsub'.queue = Tail(pubsub.queue)
         /\ pubsub' \in [on : BOOLEAN, queue : Seq(Nat)]
         /\ sending'.to = subs
         /\ sending' \in [event : Nat, id : Nat, to : SUBSET Conns]
         /\ subs # {} => sending'.event = Head(pubsub.queue) /\ sending'.id = id
<1>1. /\ UNCHANGED <<link, sockets, subs, handler, toReplay, published, unbuffered, received,
                     lastSeen, firstSeen>>
      /\ sending = Events!Nothing /\ pubsub.queue # <<>>
      /\ pubsub' = [pubsub EXCEPT !.queue = Tail(@)]
      /\ sending' = IF subs = {} THEN Events!Nothing
                    ELSE [event |-> Head(pubsub.queue), id |-> id, to |-> subs]
  BY DEF Events!Handle, Events!server, Events!client, Events!publisher
<1>2. RtType /\ pubsub.queue \in Seq(Nat)
  BY DEF RtSound, RtType
<1>3. Head(pubsub.queue) \in Nat /\ Tail(pubsub.queue) \in Seq(Nat)
  BY <1>1, <1>2
<1>5. /\ pubsub'.on = pubsub.on /\ pubsub'.queue = Tail(pubsub.queue)
      /\ pubsub' \in [on : BOOLEAN, queue : Seq(Nat)]
  BY <1>1, <1>2, <1>3, Zenon DEF RtType
<1>6. /\ sending'.to = subs /\ sending' \in [event : Nat, id : Nat, to : SUBSET Conns]
      /\ subs # {} => sending'.event = Head(pubsub.queue) /\ sending'.id = id
  BY <1>1, <1>2, <1>3 DEF RtType, Events!Nothing
<1> QED BY <1>1, <1>3, <1>5, <1>6 DEF Events!Nothing

LEMMA HandleFacts ==
  ASSUME RtSound, Events!HandleMessage
  PROVE  /\ UNCHANGED <<link, sockets, subs, handler, toReplay, published, unbuffered, received,
                        lastSeen, firstSeen, broken>>
         /\ sending.to = {} /\ pubsub.queue # <<>> /\ Head(pubsub.queue) \in Nat
         /\ stream' = Append(stream, Head(pubsub.queue))
         /\ pubsub'.on = pubsub.on /\ pubsub'.queue = Tail(pubsub.queue)
         /\ pubsub' \in [on : BOOLEAN, queue : Seq(Nat)]
         /\ sending'.to = subs
         /\ sending' \in [event : Nat, id : Nat, to : SUBSET Conns]
         /\ subs # {} => sending'.event = Head(pubsub.queue) /\ sending'.id = Len(stream) + 1
<1>1. /\ UNCHANGED broken /\ stream' = Append(stream, Head(pubsub.queue))
      /\ Events!Handle(Len(stream) + 1)
  BY DEF Events!HandleMessage
<1>2. Len(stream) + 1 \in Nat
  BY DEF RtSound, RtType
<1> QED BY <1>1, <1>2, TakeFacts, Zenon

LEMMA HandlingFails == ASSUME RtInv, Events!HandleUnbuffered PROVE RtInv'
<1>1. RtSound /\ RtType /\ (\A c \in Conns : ConnSound(c)) /\ ListenerSound
  BY DEF RtInv, RtSound
<1>2. Events!Handle(0) /\ broken' = TRUE /\ UNCHANGED stream /\ 0 \in Nat
  BY DEF Events!HandleUnbuffered
<1>3. RtType'
  BY <1>1, <1>2, TakeFacts, Zenon DEF RtType
<1>4. \A c \in Conns : ConnSound(c)'
  BY <1>1, <1>2, TakeFacts DEF ConnSound
<1>5. ListenerSound'
  <2>1. 0 \in 0..Len(stream)
    BY <1>1 DEF RtType
  <2>2. sending'.to # {} => sending'.id \in 0..Len(stream)
    BY <1>1, <1>2, <2>1, TakeFacts, Zenon
  <2> QED BY <1>1, <1>2, <2>2, TakeFacts, Zenon DEF ListenerSound
<1>6. RtReached'
  BY <1>2 DEF RtReached
<1> QED BY <1>3, <1>4, <1>5, <1>6 DEF RtInv, RtSound

LEMMA HandleSound == ASSUME RtSound, Events!HandleMessage PROVE RtSound'
<1>1. RtType /\ (\A c \in Conns : ConnSound(c)) /\ ListenerSound
  BY DEF RtSound
<1>2. /\ stream' \in Seq(Nat) /\ Len(stream') = Len(stream) + 1 /\ Len(stream) \in Nat
      /\ \A i \in 1..Len(stream) : stream'[i] = stream[i]
      /\ stream'[Len(stream) + 1] = Head(pubsub.queue)
  BY HandleFacts, StreamGrows
<1>3. RtType'
  <2>1. toReplay' \in [Conns -> SUBSET (1..Len(stream'))] /\ lastSeen' \in 0..Len(stream')
    BY <1>1, <1>2, HandleFacts DEF RtType
  <2> QED BY <1>1, <1>2, <2>1, HandleFacts, Zenon DEF RtType
<1>4. \A c \in Conns : ConnSound(c)'
  BY <1>1, HandleFacts DEF ConnSound
<1>5. ListenerSound'
  <2>1. ASSUME NEW c \in subs
        PROVE  lastSeen' < sending'.id /\ \A j \in toReplay'[c] : j < sending'.id
    <3>1. c \in Conns /\ sending'.id = Len(stream) + 1 /\ lastSeen \in 0..Len(stream)
          /\ toReplay[c] \subseteq 1..Len(stream)
      BY <1>1, HandleFacts, Zenon DEF RtType
    <3> QED BY <1>2, <3>1, HandleFacts
  <2>2. sending'.to # {} => sending'.id \in 1..Len(stream') /\ stream'[sending'.id] = sending'.event
    BY <1>2, HandleFacts
  <2> QED BY <1>1, <2>1, <2>2, HandleFacts DEF ListenerSound
<1> QED BY <1>3, <1>4, <1>5 DEF RtSound

\* Sending to a connection, whose socket may have gone.
LEMMA SendFacts ==
  ASSUME RtSound, NEW c \in Conns, Events!SendLive(c)
  PROVE  /\ UNCHANGED <<link, handler, toReplay, pubsub, stream, published, unbuffered, firstSeen,
                        broken>>
         /\ c \in sending.to /\ sending'.to = sending.to \ {c}
         /\ sending' \in [event : Nat, id : Nat, to : SUBSET Conns]
         /\ sending'.to # {} => sending'.id = sending.id /\ sending'.event = sending.event
         /\ sockets \ {c} \subseteq sockets' /\ sockets' \subseteq sockets
         /\ subs \ {c} \subseteq subs' /\ subs' \subseteq subs
         /\ link[c] = "up" => sockets' = sockets /\ subs' = subs
         /\ \/ /\ link[c] = "up" /\ received' = received \cup {sending.event}
               /\ lastSeen' = Events!Greater(lastSeen, sending.id)
            \/ link[c] # "up" /\ UNCHANGED <<received, lastSeen>>
<1>1. /\ UNCHANGED <<link, handler, toReplay, pubsub, stream, published, unbuffered, firstSeen,
                     broken>>
      /\ c \in sending.to
      /\ sending' = IF sending.to = {c} THEN Events!Nothing
                    ELSE [sending EXCEPT !.to = @ \ {c}]
  BY DEF Events!SendLive, Events!Sent, Events!publisher
<1>2. /\ sending'.to = sending.to \ {c} /\ sending' \in [event : Nat, id : Nat, to : SUBSET Conns]
      /\ sending'.to # {} => sending'.id = sending.id /\ sending'.event = sending.event
  BY <1>1, Zenon DEF RtSound, RtType, Events!Nothing
<1>3. ConnSound(c)
  BY DEF RtSound
<1>4. CASE c \in sockets /\ link[c] = "up"
  BY <1>4, <1>1, <1>2 DEF Events!SendLive, Events!Receive
<1>5. CASE link[c] # "up"
  BY <1>5, <1>1, <1>2 DEF Events!SendLive, Events!Remove, Events!client
<1> QED BY <1>3, <1>4, <1>5 DEF ConnSound

LEMMA SendSound == ASSUME RtSound, NEW c \in Conns, Events!SendLive(c) PROVE RtSound'
<1>1. RtType /\ (\A d \in Conns : ConnSound(d)) /\ ListenerSound
  BY DEF RtSound
<1>2. sending.id \in 0..Len(stream) /\ lastSeen \in 0..Len(stream) /\ Len(stream) \in Nat
  BY <1>1, SendFacts DEF RtType, ListenerSound
<1>3. lastSeen' \in 0..Len(stream)
  BY <1>2, SendFacts DEF Events!Greater
<1>4. RtType'
  BY <1>1, <1>3, SendFacts DEF RtType
<1>5. ConnSound(c)'
  BY <1>1, SendFacts DEF ConnSound
<1>6. \A d \in Conns : ConnSound(d)'
  BY <1>1, <1>5, SendFacts, OtherConnections DEF ConnSound
<1>7. ListenerSound'
  <2>1. ASSUME NEW d \in sending'.to, link'[d] = "up", ~broken
        PROVE  lastSeen' < sending'.id /\ \A j \in toReplay'[d] : j < sending'.id
    <3>1. d \in Conns /\ d # c /\ d \in sending.to /\ link[d] = "up" /\ sending'.id = sending.id
      BY <1>1, <2>1, SendFacts DEF RtType
    <3>2. link[c] # "up"
      <4>1. d < c \/ c < d
        BY <3>1, SiteConns
      <4> QED BY <1>1, <3>1, <4>1 DEF ConnSound
    <3>3. UNCHANGED <<toReplay, lastSeen>>
      BY <3>2, SendFacts
    <3> QED BY <1>1, <2>1, <3>1, <3>3 DEF ListenerSound
  <2>2. subs' # {} \/ lastSeen' > 0 => pubsub'.on
    BY <1>1, SendFacts DEF ConnSound, ListenerSound
  <2> QED BY <1>1, <2>1, <2>2, SendFacts DEF ListenerSound
<1> QED BY <1>4, <1>6, <1>7 DEF RtSound

LEMMA ConnectSound == ASSUME RtSound, NEW c \in Conns, Events!Connect(c) PROVE RtSound'
<1>1. /\ UNCHANGED <<subs, toReplay, pubsub, stream, published, unbuffered, sending, received,
                     lastSeen, firstSeen, broken>>
      /\ link[c] = "none" /\ \A d \in Conns : d < c => link[d] = "down"
      /\ link' = [link EXCEPT ![c] = "up"] /\ sockets' = sockets \cup {c}
      /\ handler' = [handler EXCEPT ![c] = "receive"]
  BY DEF Events!Connect, Events!Goto, Events!publisher, Events!client
<1>2. RtType /\ (\A d \in Conns : ConnSound(d)) /\ ListenerSound
  BY DEF RtSound
<1>3. RtType'
  BY <1>1, <1>2 DEF RtType
<1>4. ConnSound(c)'
  BY <1>1, <1>2, SiteConns DEF RtType, ConnSound
<1>5. \A d \in Conns : ConnSound(d)'
  BY <1>1, <1>2, <1>4, OtherConnections DEF RtType
<1>6. ListenerSound'
  BY <1>1, <1>2 DEF ListenerSound, ConnSound, RtType
<1> QED BY <1>3, <1>5, <1>6 DEF RtSound

\* A subscription, with the last id that was received or without one.
LEMMA SubscribeFacts ==
  ASSUME RtSound, NEW c \in Conns, Events!SubscribeToSession(c)
  PROVE  /\ UNCHANGED <<link, sockets, stream, published, unbuffered, sending, received, lastSeen>>
         /\ handler[c] = "receive" /\ link[c] = "up" /\ c \notin subs
         /\ subs' = subs \cup {c} /\ pubsub'.on = TRUE /\ pubsub'.queue = pubsub.queue
         /\ pubsub' \in [on : BOOLEAN, queue : Seq(Nat)]
         /\ \/ lastSeen = 0 /\ firstSeen' = published /\ UNCHANGED <<handler, toReplay, broken>>
            \/ /\ lastSeen # 0 /\ firstSeen' = firstSeen
               /\ \E S \in SUBSET ((lastSeen + 1)..Len(stream)) :
                    /\ toReplay' = [toReplay EXCEPT ![c] = S]
                    /\ broken' = (broken \/ S # (lastSeen + 1)..Len(stream))
                    /\ \/ S = {} /\ handler' = [handler EXCEPT ![c] = "receive"]
                       \/ S # {} /\ handler' = [handler EXCEPT ![c] = "replay"]
<1>1. RtType
  BY DEF RtSound
<1>2. /\ UNCHANGED <<link, sockets, stream, published, unbuffered, sending, received, lastSeen>>
      /\ handler[c] = "receive" /\ link[c] = "up" /\ c \notin subs
      /\ subs' = subs \cup {c} /\ pubsub' = [pubsub EXCEPT !.on = TRUE]
  BY DEF Events!SubscribeToSession, Events!publisher, Events!client
<1>3. /\ pubsub'.on = TRUE /\ pubsub'.queue = pubsub.queue
      /\ pubsub' \in [on : BOOLEAN, queue : Seq(Nat)]
  BY <1>1, <1>2, Zenon DEF RtType
<1>4. CASE lastSeen = 0
  BY <1>2, <1>3, <1>4 DEF Events!SubscribeToSession
<1>5. CASE lastSeen # 0
  <2>1. PICK S \in {Events!Oldest(Events!After(lastSeen)), {}} :
          /\ firstSeen' = firstSeen /\ toReplay' = [toReplay EXCEPT ![c] = S]
          /\ broken' = (broken \/ S # Events!After(lastSeen))
          /\ handler' = [handler EXCEPT ![c] = IF S = {} THEN "receive" ELSE "replay"]
    BY <1>5 DEF Events!SubscribeToSession, Events!Goto
  <2>2. S \subseteq Events!After(lastSeen) /\ Events!After(lastSeen) = (lastSeen + 1)..Len(stream)
    BY DEF Events!Oldest, Events!After
  <2>4. S \in SUBSET ((lastSeen + 1)..Len(stream))
    BY <2>2
  <2>5. broken' = (broken \/ S # (lastSeen + 1)..Len(stream))
    BY <2>1, <2>2
  <2>6. \/ S = {} /\ handler' = [handler EXCEPT ![c] = "receive"]
        \/ S # {} /\ handler' = [handler EXCEPT ![c] = "replay"]
    BY <2>1, Zenon
  <2> QED BY <1>2, <1>3, <1>5, <2>1, <2>4, <2>5, <2>6, Zenon
<1> QED BY <1>4, <1>5, Zenon

LEMMA SubscribeSound ==
  ASSUME RtSound, NEW c \in Conns, Events!SubscribeToSession(c) PROVE RtSound'
<1>1. RtType /\ (\A d \in Conns : ConnSound(d)) /\ ListenerSound
  BY DEF RtSound
<1>2. handler' \in [Conns -> {"none", "receive", "replay", "done"}]
  BY <1>1, SubscribeFacts, Zenon DEF RtType
<1>3. toReplay' \in [Conns -> SUBSET (1..Len(stream))]
  <2>1. (lastSeen + 1)..Len(stream) \subseteq 1..Len(stream)
    BY <1>1 DEF RtType
  <2>2. toReplay' = toReplay \/ \E S \in SUBSET (1..Len(stream)) :
                                  toReplay' = [toReplay EXCEPT ![c] = S]
    BY <2>1, SubscribeFacts, Zenon
  <2> QED BY <1>1, <2>2, Zenon DEF RtType
<1>4. RtType'
  <2>1. firstSeen' \in Nat
    BY <1>1, SubscribeFacts, Zenon DEF RtType
  <2>2. broken' \in BOOLEAN
    BY <1>1, SubscribeFacts DEF RtType
  <2>3. /\ UNCHANGED <<link, sockets, stream, published, unbuffered, sending, lastSeen>>
        /\ pubsub' \in [on : BOOLEAN, queue : Seq(Nat)] /\ subs' = subs \cup {c}
    BY SubscribeFacts, Zenon
  <2> QED BY <1>1, <1>2, <1>3, <2>1, <2>2, <2>3 DEF RtType
<1>5. ConnSound(c)'
  <2>1. ConnSound(c) /\ toReplay[c] = {}
    BY <1>1, SubscribeFacts, Zenon DEF ConnSound
  <2>2. /\ handler'[c] \in {"receive", "replay"}
        /\ handler'[c] = "replay" <=> toReplay'[c] # {}
    BY <1>1, <2>1, SubscribeFacts, Zenon DEF RtType
  <2> QED BY <2>1, <2>2, SubscribeFacts, Zenon DEF ConnSound
<1>6. \A d \in Conns \ {c} : handler'[d] = handler[d] /\ toReplay'[d] = toReplay[d]
  <2>1. /\ toReplay' = toReplay \/ \E S : toReplay' = [toReplay EXCEPT ![c] = S]
        /\ handler' = handler \/ \E h : handler' = [handler EXCEPT ![c] = h]
    BY SubscribeFacts, Zenon
  <2> QED BY <1>1, <2>1 DEF RtType
<1>7. \A d \in Conns : ConnSound(d)'
  BY <1>1, <1>5, <1>6, SubscribeFacts, OtherConnections, Zenon
<1>8. ListenerSound'
  <2>1. c \notin sending.to
    BY <1>1, SubscribeFacts, Zenon DEF ConnSound
  <2>2. \A d \in sending.to : link[d] = "up" /\ ~broken =>
          lastSeen < sending.id /\ \A j \in toReplay'[d] : j < sending.id
    BY <1>1, <1>6, <2>1, Zenon DEF ListenerSound, RtType
  <2>3. UNCHANGED <<link, stream, sending, lastSeen>> /\ pubsub'.on /\ (broken => broken')
    BY SubscribeFacts, Zenon
  <2> QED BY <1>1, <2>2, <2>3 DEF ListenerSound
<1> QED BY <1>4, <1>7, <1>8 DEF RtSound

\* One entry is sent, the oldest of those that are left.
LEMMA ReplayFacts ==
  ASSUME RtSound, NEW c \in Conns, Events!ReplayOne(c)
  PROVE  /\ UNCHANGED <<link, sockets, subs, pubsub, stream, published, unbuffered, sending,
                        firstSeen, broken>>
         /\ handler[c] = "replay"
         /\ \E i \in toReplay[c] :
              /\ toReplay' = [toReplay EXCEPT ![c] = @ \ {i}]
              /\ handler' = [handler EXCEPT ![c] =
                               IF toReplay[c] = {i} THEN "receive" ELSE "replay"]
              /\ \/ link[c] = "up" /\ received' = received \cup {stream[i]}
                    /\ lastSeen' = Events!Greater(lastSeen, i)
                 \/ link[c] # "up" /\ UNCHANGED <<received, lastSeen>>
<1> DEFINE i == Events!Least(toReplay[c])
<1>1. /\ UNCHANGED <<link, sockets, subs, pubsub, stream, published, unbuffered, sending,
                     firstSeen, broken>>
      /\ handler[c] = "replay" /\ toReplay' = [toReplay EXCEPT ![c] = @ \ {i}]
      /\ handler' = [handler EXCEPT ![c] = IF toReplay[c] = {i} THEN "receive" ELSE "replay"]
      /\ IF c \in sockets /\ link[c] = "up"
         THEN received' = received \cup {stream[i]} /\ lastSeen' = Events!Greater(lastSeen, i)
         ELSE UNCHANGED <<received, lastSeen>>
  BY DEF Events!ReplayOne, Events!Goto, Events!Receive, Events!publisher, Events!client
<1>2. toReplay[c] # {} /\ toReplay[c] \subseteq Nat
  BY <1>1 DEF RtSound, RtType, ConnSound
<1>3. i \in toReplay[c]
  BY <1>2, LeastOf
<1>4. link[c] = "up" => c \in sockets
  BY DEF RtSound, ConnSound
<1> HIDE DEF i
<1> QED BY <1>1, <1>3, <1>4, Zenon

LEMMA ReplaySound == ASSUME RtSound, NEW c \in Conns, Events!ReplayOne(c) PROVE RtSound'
<1>1. RtType /\ (\A d \in Conns : ConnSound(d)) /\ ListenerSound
  BY DEF RtSound
<1>2. PICK i \in toReplay[c] :
        /\ toReplay' = [toReplay EXCEPT ![c] = @ \ {i}]
        /\ handler' = [handler EXCEPT ![c] = IF toReplay[c] = {i} THEN "receive" ELSE "replay"]
        /\ \/ link[c] = "up" /\ received' = received \cup {stream[i]}
              /\ lastSeen' = Events!Greater(lastSeen, i)
           \/ link[c] # "up" /\ UNCHANGED <<received, lastSeen>>
  BY ReplayFacts
<1>3. i \in 1..Len(stream) /\ Len(stream) \in Nat /\ lastSeen \in 0..Len(stream)
  BY <1>1 DEF RtType
<1>4. lastSeen' \in 0..Len(stream)
  BY <1>2, <1>3 DEF Events!Greater
<1>5. /\ toReplay' \in [Conns -> SUBSET (1..Len(stream))]
      /\ handler' \in [Conns -> {"none", "receive", "replay", "done"}]
      /\ toReplay'[c] = toReplay[c] \ {i} /\ handler'[c] \in {"receive", "replay"}
      /\ handler'[c] = "replay" <=> toReplay'[c] # {}
      /\ \A d \in Conns \ {c} : toReplay'[d] = toReplay[d] /\ handler'[d] = handler[d]
  BY <1>1, <1>2 DEF RtType
<1>6. RtType'
  BY <1>1, <1>4, <1>5, ReplayFacts, Zenon DEF RtType
<1>7. ConnSound(c)'
  BY <1>1, <1>5, ReplayFacts DEF ConnSound
<1>8. \A d \in Conns : ConnSound(d)'
  BY <1>1, <1>5, <1>7, ReplayFacts, OtherConnections DEF ConnSound
<1>9. ListenerSound'
  <2>1. ASSUME NEW d \in sending.to, link[d] = "up", ~broken
        PROVE  lastSeen' < sending.id /\ \A j \in toReplay'[d] : j < sending.id
    <3>1. d \in Conns /\ lastSeen < sending.id /\ \A j \in toReplay[d] : j < sending.id
      BY <1>1, <2>1 DEF RtType, ListenerSound
    <3>2. link[c] = "up" => d = c
      <4>1. d < c \/ c < d \/ d = c
        BY <3>1, SiteConns
      <4> QED BY <1>1, <2>1, <3>1, <4>1 DEF ConnSound
    <3> QED BY <1>2, <1>5, <3>1, <3>2, Zenon DEF Events!Greater
  <2>2. lastSeen' > 0 => pubsub.on
    BY <1>1, ReplayFacts, <1>2 DEF ConnSound, ListenerSound
  <2> QED BY <1>1, <2>1, <2>2, ReplayFacts DEF ListenerSound
<1> QED BY <1>6, <1>8, <1>9 DEF RtSound

LEMMA BreakFacts ==
  ASSUME NEW c \in Conns, Events!Break(c)
  PROVE  /\ UNCHANGED <<handler, toReplay, pubsub, stream, published, unbuffered, sending,
                        received, lastSeen, firstSeen>>
         /\ link[c] = "up" /\ link' = [link EXCEPT ![c] = "down"]
         /\ broken' = (broken \/ handler[c] = "replay")
         /\ \/ sockets' = sockets \ {c} /\ subs' = subs \ {c}
            \/ UNCHANGED <<sockets, subs>>
BY DEF Events!Break, Events!Remove, Events!publisher, Events!client

LEMMA BreakSound == ASSUME RtSound, NEW c \in Conns, Events!Break(c) PROVE RtSound'
<1>1. RtType /\ (\A d \in Conns : ConnSound(d)) /\ ListenerSound
  BY DEF RtSound
<1>2. RtType'
  BY <1>1, BreakFacts DEF RtType
<1>3. link'[c] = "down" /\ \A d \in Conns \ {c} : link'[d] = link[d]
  BY <1>1, BreakFacts DEF RtType
<1>4. ConnSound(c)'
  BY <1>1, <1>3, BreakFacts DEF ConnSound
<1>5. \A d \in Conns : ConnSound(d)'
  BY <1>1, <1>3, <1>4, BreakFacts, OtherConnections
<1>6. ListenerSound'
  BY <1>1, <1>3, BreakFacts, Zenon DEF ListenerSound, RtType
<1> QED BY <1>2, <1>5, <1>6 DEF RtSound

LEMMA ClosedFacts ==
  ASSUME NEW c \in Conns, Events!Closed(c)
  PROVE  /\ UNCHANGED <<link, toReplay, pubsub, stream, published, unbuffered, sending,
                        received, lastSeen, firstSeen, broken>>
         /\ link[c] = "down" /\ handler[c] = "receive"
         /\ handler' = [handler EXCEPT ![c] = "done"]
         /\ sockets' = sockets \ {c} /\ subs' = subs \ {c}
BY DEF Events!Closed, Events!Goto, Events!Remove, Events!publisher, Events!client

LEMMA ClosedSound == ASSUME RtSound, NEW c \in Conns, Events!Closed(c) PROVE RtSound'
<1>1. RtType /\ (\A d \in Conns : ConnSound(d)) /\ ListenerSound
  BY DEF RtSound
<1>2. RtType'
  BY <1>1, ClosedFacts, Zenon DEF RtType
<1>3. handler'[c] = "done" /\ \A d \in Conns \ {c} : handler'[d] = handler[d]
  BY <1>1, ClosedFacts DEF RtType
<1>4. ConnSound(c)'
  BY <1>1, <1>3, ClosedFacts DEF ConnSound
<1>5. \A d \in Conns : ConnSound(d)'
  BY <1>1, <1>3, <1>4, ClosedFacts, OtherConnections DEF ConnSound
<1>6. ListenerSound'
  BY <1>1, ClosedFacts DEF ListenerSound
<1> QED BY <1>2, <1>5, <1>6 DEF RtSound

\* What waits in the listener's queue, once an event is added or taken.
LEMMA QueuedLater ==
  ASSUME NEW q \in Seq(Nat), NEW e \in Nat, NEW x \in Nat, NEW n \in 1..Len(q), q[n] = e
  PROVE  \E m \in 1..Len(Append(q, x)) : Append(q, x)[m] = e
<1>1. n \in 1..Len(Append(q, x)) /\ Append(q, x)[n] = e
  OBVIOUS
<1> QED BY <1>1

LEMMA QueuedTaken ==
  ASSUME NEW q \in Seq(Nat), q # <<>>, NEW e, NEW n \in 1..Len(q), q[n] = e
  PROVE  e = Head(q) \/ \E m \in 1..Len(Tail(q)) : Tail(q)[m] = e
<1>1. CASE n = 1
  BY <1>1
<1>2. CASE n # 1
  BY <1>2
<1> QED BY <1>1, <1>2

\* Two connections are not up at once.
LEMMA OneCurrent ==
  ASSUME RtSound, NEW c \in Conns, NEW d \in Conns, link[c] = "up", link[d] = "up"
  PROVE  c = d
<1>1. c < d \/ d < c \/ c = d
  BY SiteConns
<1>2. ConnSound(c) /\ ConnSound(d)
  BY DEF RtSound
<1> QED BY <1>1, <1>2 DEF ConnSound

\* Whom an event reached it still reaches, where no event is published, no connection
\* comes or goes and no subscription is made.
LEMMA ReachedKept ==
  ASSUME RtReached, UNCHANGED <<firstSeen, published, broken>>,
         \A e \in (firstSeen + 1)..published : Reached(e) => Reached(e)'
  PROVE  RtReached'
BY DEF RtReached

LEMMA PublishReaches == ASSUME RtSound, RtReached, Events!PublishEvent PROVE RtReached'
<1>1. /\ UNCHANGED <<link, sockets, subs, handler, toReplay, stream, sending, received, lastSeen,
                     firstSeen, broken>>
      /\ published' = published + 1
      /\ pubsub' = IF pubsub.on THEN [pubsub EXCEPT !.queue = Append(@, published + 1)] ELSE pubsub
  BY DEF Events!PublishEvent, Events!server, Events!client
<1>2. /\ RtType /\ ListenerSound /\ pubsub.queue \in Seq(Nat) /\ published \in Nat
      /\ firstSeen \in Nat
  BY DEF RtSound, RtType
<1>3. SUFFICES ASSUME ~broken, NEW e \in (firstSeen + 1)..(published + 1)
               PROVE  Reached(e)'
  BY <1>1 DEF RtReached
<1>4. CASE pubsub.on
  <2>1. pubsub'.queue = Append(pubsub.queue, published + 1)
    BY <1>1, <1>2, <1>4 DEF RtType
  <2>2. CASE e = published + 1
    <3>1. Queued(e)'
      <4> DEFINE n == Len(pubsub.queue) + 1
      <4>1. n \in 1..Len(pubsub'.queue) /\ pubsub'.queue[n] = e
        BY <1>2, <2>1, <2>2
      <4> QED BY <4>1 DEF Queued
    <3> QED BY <3>1 DEF Reached, OnItsWay, AskedForNext
  <2>3. CASE e \in (firstSeen + 1)..published
    <3>1. Reached(e) /\ e \in Nat
      BY <1>2, <1>3, <2>3 DEF RtReached
    <3>2. Queued(e) => Queued(e)'
      BY <1>2, <2>1, <3>1, QueuedLater DEF Queued
    <3> QED BY <1>1, <3>1, <3>2 DEF Reached, OnItsWay, AskedForNext, Current
  <2> QED BY <1>2, <1>3, <2>2, <2>3
<1>5. CASE ~pubsub.on
  BY <1>1, <1>2, <1>5 DEF ListenerSound, Reached, Current, RtType
<1> QED BY <1>4, <1>5

LEMMA BufferReaches == ASSUME RtSound, RtReached, Events!BufferMessage PROVE RtReached'
<1>1. /\ UNCHANGED <<link, sockets, subs, handler, toReplay, pubsub, published, sending, received,
                     lastSeen, firstSeen, broken>>
      /\ stream' = Append(stream, unbuffered)
  BY DEF Events!BufferMessage, Events!server, Events!client
<1>2. RtType /\ unbuffered \in Nat
  BY DEF RtSound, RtType
<1>3. /\ Len(stream') = Len(stream) + 1 /\ Len(stream) \in Nat
      /\ \A i \in 1..Len(stream) : stream'[i] = stream[i]
  BY <1>1, <1>2, StreamGrows
<1>4. ASSUME NEW e, Reached(e) PROVE Reached(e)'
  <2>1. ASSUME NEW c \in Conns, OnItsWay(c, e) PROVE OnItsWay(c, e)'
    BY <1>1, <1>2, <1>3, <2>1 DEF OnItsWay, Queued, RtType
  <2>2. AskedForNext(e) => AskedForNext(e)'
    BY <1>1, <1>2, <1>3 DEF AskedForNext, Queued, RtType
  <2> QED BY <1>1, <1>4, <2>1, <2>2 DEF Reached, Current
<1> QED BY <1>1, <1>4, ReachedKept

LEMMA HandleReaches == ASSUME RtSound, RtReached, Events!HandleMessage PROVE RtReached'
<1>1. RtType /\ pubsub.queue \in Seq(Nat) /\ lastSeen \in 0..Len(stream)
  BY DEF RtSound, RtType
<1>2. /\ Len(stream') = Len(stream) + 1 /\ Len(stream) \in Nat
      /\ \A i \in 1..Len(stream) : stream'[i] = stream[i]
      /\ stream'[Len(stream) + 1] = Head(pubsub.queue)
  BY HandleFacts, StreamGrows
<1>3. ASSUME NEW e, Reached(e) PROVE Reached(e)'
  <2>1. ASSUME Queued(e) PROVE Queued(e)' \/ e = Head(pubsub.queue)
    <3>1. PICK n \in 1..Len(pubsub.queue) : pubsub.queue[n] = e
      BY <2>1 DEF Queued
    <3>2. e = Head(pubsub.queue) \/ \E m \in 1..Len(pubsub'.queue) : pubsub'.queue[m] = e
      <4>1. pubsub'.queue = Tail(pubsub.queue) /\ pubsub.queue # <<>>
        BY HandleFacts
      <4> DEFINE q == pubsub.queue
      <4> HIDE DEF q
      <4>2. e = Head(q) \/ \E m \in 1..Len(Tail(q)) : Tail(q)[m] = e
        BY <1>1, <3>1, <4>1, QueuedTaken, Zenon DEF q
      <4> QED BY <4>1, <4>2 DEF q
    <3> QED BY <3>2 DEF Queued
  <2>2. ASSUME NEW c \in Conns, Current(c), OnItsWay(c, e) PROVE OnItsWay(c, e)'
    <3>1. e = Head(pubsub.queue) => OnItsWay(c, e)'
      BY <2>2, HandleFacts DEF OnItsWay, Current
    <3>2. ASSUME NEW i \in toReplay[c], stream[i] = e PROVE OnItsWay(c, e)'
      BY <1>1, <1>2, <3>2, HandleFacts, Zenon DEF OnItsWay, RtType
    <3> QED BY <2>1, <2>2, <3>1, <3>2, HandleFacts DEF OnItsWay
  <2>3. ASSUME AskedForNext(e) PROVE AskedForNext(e)'
    <3>1. e = Head(pubsub.queue) => AskedForNext(e)'
      <4>1. Len(stream) + 1 \in (lastSeen' + 1)..Len(stream')
        BY <1>1, <1>2, HandleFacts
      <4> QED BY <1>2, <4>1 DEF AskedForNext
    <3>2. ASSUME NEW i \in (lastSeen + 1)..Len(stream), stream[i] = e PROVE AskedForNext(e)'
      BY <1>1, <1>2, <3>2, HandleFacts DEF AskedForNext
    <3> QED BY <2>1, <2>3, <3>1, <3>2, HandleFacts DEF AskedForNext
  <2>4. \A c \in Conns : Current(c)' <=> Current(c)
    BY HandleFacts DEF Current
  <2> QED BY <1>3, <2>2, <2>3, <2>4, HandleFacts DEF Reached
<1> QED BY <1>3, ReachedKept, HandleFacts

\* A connection that is up has received what was sent or replayed to it; one that is not
\* leaves what the client has to ask for as it was.
LEMMA SendReaches == ASSUME RtSound, RtReached, NEW c \in Conns, Events!SendLive(c) PROVE RtReached'
<1>1. \A d \in Conns : ConnSound(d)
  BY DEF RtSound
<1>2. ASSUME NEW e, Reached(e) PROVE Reached(e)'
  <2>1. Queued(e)' <=> Queued(e)
    BY SendFacts DEF Queued
  <2>2. CASE link[c] = "up"
    <3>1. Current(c) /\ Current(c)'
      BY <1>1, <2>2, SendFacts DEF ConnSound, Current
    <3>2. OnItsWay(c, e)'
      BY <1>2, <2>1, <2>2, <3>1, SendFacts DEF Reached, OnItsWay
    <3>3. \A d \in Conns : Current(d)' => d = c
      BY <2>2, SendFacts, OneCurrent DEF Current
    <3> QED BY <3>1, <3>2, <3>3 DEF Reached
  <2>3. CASE link[c] # "up"
    <3>1. \A d \in Conns : Current(d)' <=> Current(d)
      BY <2>3, SendFacts DEF Current
    <3>2. \A d \in Conns : Current(d) /\ OnItsWay(d, e) => OnItsWay(d, e)'
      BY <2>1, <2>3, SendFacts DEF OnItsWay, Current
    <3>3. AskedForNext(e) => AskedForNext(e)'
      BY <2>1, <2>3, SendFacts DEF AskedForNext
    <3> QED BY <1>2, <2>3, <3>1, <3>2, <3>3, SendFacts DEF Reached
  <2> QED BY <2>2, <2>3
<1> QED BY <1>2, ReachedKept, SendFacts

LEMMA ConnectReaches == ASSUME RtSound, RtReached, NEW c \in Conns, Events!Connect(c) PROVE RtReached'
<1>1. /\ UNCHANGED <<subs, toReplay, pubsub, stream, published, sending, received, lastSeen,
                     firstSeen, broken>>
      /\ link[c] = "none" /\ link' = [link EXCEPT ![c] = "up"]
  BY DEF Events!Connect, Events!publisher, Events!client
<1>2. \A d \in Conns : Current(d)' <=> Current(d)
  BY <1>1 DEF RtSound, RtType, ConnSound, Current
<1>3. ASSUME NEW e, Reached(e) PROVE Reached(e)'
  BY <1>1, <1>2, <1>3 DEF Reached, OnItsWay, AskedForNext, Queued
<1> QED BY <1>1, <1>3, ReachedKept

LEMMA SubscribeReaches ==
  ASSUME RtSound, RtReached, NEW c \in Conns, Events!SubscribeToSession(c) PROVE RtReached'
<1>1. RtType
  BY DEF RtSound
<1>2. \A d \in Conns : link[d] = "up" => d = c
  BY SubscribeFacts, OneCurrent, Zenon
<1>3. (\A d \in Conns : ~Current(d)) /\ (\A d \in Conns : Current(d)' <=> d = c)
  BY <1>2, SubscribeFacts, Zenon DEF Current
<1>4. CASE lastSeen = 0
  <2>1. firstSeen' = published' /\ published' = published
    BY <1>4, SubscribeFacts, Zenon
  <2>2. published \in Nat
    BY <1>1 DEF RtType
  <2> QED BY <2>1, <2>2 DEF RtReached
<1>5. CASE lastSeen # 0
  <2>1. PICK S \in SUBSET ((lastSeen + 1)..Len(stream)) :
          /\ toReplay' = [toReplay EXCEPT ![c] = S]
          /\ broken' = (broken \/ S # (lastSeen + 1)..Len(stream))
    BY <1>5, SubscribeFacts, Zenon
  <2> firstSeen' = firstSeen /\ published' = published
    BY <1>5, SubscribeFacts, Zenon
  <2>2. SUFFICES ASSUME ~broken', NEW e \in (firstSeen + 1)..published PROVE Reached(e)'
    BY DEF RtReached
  <2>3. ~broken /\ toReplay'[c] = (lastSeen + 1)..Len(stream)
    BY <1>1, <2>1, <2>2, Zenon DEF RtType
  <2>4. AskedForNext(e)
    BY <1>1, <1>3, <1>5, <2>2, <2>3 DEF RtReached, Reached, RtType
  <2>5. OnItsWay(c, e)'
    BY <2>3, <2>4, SubscribeFacts, Zenon DEF AskedForNext, OnItsWay, Queued
  <2> QED BY <1>3, <2>5 DEF Reached
<1> QED BY <1>4, <1>5

LEMMA ReplayReaches == ASSUME RtSound, RtReached, NEW c \in Conns, Events!ReplayOne(c) PROVE RtReached'
<1>1. RtType /\ ConnSound(c)
  BY DEF RtSound
<1>2. PICK i \in toReplay[c] :
        /\ toReplay' = [toReplay EXCEPT ![c] = @ \ {i}]
        /\ \/ link[c] = "up" /\ received' = received \cup {stream[i]}
           \/ link[c] # "up" /\ UNCHANGED <<received, lastSeen>>
  BY ReplayFacts
<1>3. /\ toReplay'[c] = toReplay[c] \ {i}
      /\ \A d \in Conns \ {c} : toReplay'[d] = toReplay[d]
  BY <1>1, <1>2 DEF RtType
<1>4. \A d \in Conns : Current(d)' <=> Current(d)
  BY ReplayFacts DEF Current
<1>5. ASSUME NEW e, Reached(e) PROVE Reached(e)'
  <2>1. Queued(e)' <=> Queued(e)
    BY ReplayFacts DEF Queued
  <2>2. CASE link[c] = "up"
    <3>1. Current(c)
      BY <1>1, <2>2, ReplayFacts DEF ConnSound, Current
    <3>2. OnItsWay(c, e)'
      BY <1>2, <1>3, <1>5, <2>1, <2>2, <3>1, ReplayFacts DEF Reached, OnItsWay
    <3>3. \A d \in Conns : Current(d) => d = c
      BY <2>2, OneCurrent DEF Current
    <3> QED BY <1>4, <3>1, <3>2, <3>3 DEF Reached
  <2>3. CASE link[c] # "up"
    <3>1. ASSUME NEW d \in Conns, Current(d), OnItsWay(d, e) PROVE OnItsWay(d, e)'
      <4>1. d # c
        BY <2>3, <3>1 DEF Current
      <4> QED BY <1>2, <1>3, <2>1, <2>3, <3>1, <4>1, ReplayFacts DEF OnItsWay
    <3>2. AskedForNext(e) => AskedForNext(e)'
      BY <1>2, <2>1, <2>3, ReplayFacts DEF AskedForNext
    <3> QED BY <1>2, <1>4, <1>5, <2>3, <3>1, <3>2 DEF Reached
  <2> QED BY <2>2, <2>3
<1> QED BY <1>5, ReachedKept, ReplayFacts

\* A connection breaks: what was on its way to it is among what will be asked for.
LEMMA BreakReaches == ASSUME RtSound, RtReached, NEW c \in Conns, Events!Break(c) PROVE RtReached'
<1>1. RtType /\ ConnSound(c) /\ ListenerSound
  BY DEF RtSound
<1>2. SUFFICES ASSUME ~broken', NEW e \in (firstSeen + 1)..published PROVE Reached(e)'
  BY BreakFacts DEF RtReached
<1>3. Reached(e) /\ toReplay[c] = {}
  BY <1>1, <1>2, BreakFacts, Zenon DEF RtReached, ConnSound
<1>4. \A d \in Conns : ~Current(d)'
  BY BreakFacts, OneCurrent, <1>1 DEF RtType, Current
<1>5. ASSUME AskedForNext(e) PROVE Reached(e)'
  BY <1>4, <1>5, BreakFacts DEF Reached, AskedForNext, Queued
<1>6. ASSUME Current(c), lastSeen > 0 PROVE AskedForNext(e)
  <2>1. OnItsWay(c, e)
    BY <1>3, <1>6 DEF Reached
  <2>2. ASSUME sending.event = e, c \in sending.to PROVE AskedForNext(e)
    BY <1>1, <1>2, <2>2, BreakFacts DEF ListenerSound, RtType, AskedForNext
  <2> QED BY <1>3, <2>1, <2>2 DEF OnItsWay, AskedForNext
<1>7. ASSUME ~Current(c), lastSeen > 0 PROVE AskedForNext(e)
  BY <1>7, BreakFacts, OneCurrent, <1>3 DEF Current, Reached
<1> QED BY <1>4, <1>5, <1>6, <1>7, BreakFacts DEF Reached

LEMMA ClosedReaches == ASSUME RtSound, RtReached, NEW c \in Conns, Events!Closed(c) PROVE RtReached'
<1>1. \A d \in Conns : Current(d)' <=> Current(d)
  BY ClosedFacts DEF Current
<1>2. ASSUME NEW e, Reached(e) PROVE Reached(e)'
  BY <1>1, <1>2, ClosedFacts DEF Reached, OnItsWay, AskedForNext, Queued
<1> QED BY <1>2, ReachedKept, ClosedFacts

LEMMA RtInvStep == RtInv /\ [Events!Next]_realtimeVars => RtInv'
<1> SUFFICES ASSUME RtInv, [Events!Next]_realtimeVars PROVE RtInv'
  OBVIOUS
<1>1. RtSound /\ RtReached
  BY DEF RtInv
<1>2. CASE \/ Events!PublishEvent \/ Events!BufferMessage \/ Events!HandleMessage
           \/ Events!BufferFails \/ Events!HandleUnbuffered
  BY <1>1, <1>2, PublishSound, BufferSound, HandleSound, PublishReaches, BufferReaches,
     HandleReaches, BufferingFails, HandlingFails DEF RtInv
<1>3. ASSUME NEW c \in Conns,
             Events!SendLive(c) \/ Events!Connect(c) \/ Events!SubscribeToSession(c)
      PROVE  RtInv'
  BY <1>1, <1>3, SendSound, ConnectSound, SubscribeSound, SendReaches, ConnectReaches,
     SubscribeReaches DEF RtInv
<1>4. ASSUME NEW c \in Conns, Events!ReplayOne(c) \/ Events!Break(c) \/ Events!Closed(c)
      PROVE  RtInv'
  BY <1>1, <1>4, ReplaySound, BreakSound, ClosedSound, ReplayReaches, BreakReaches,
     ClosedReaches DEF RtInv
<1>5. CASE UNCHANGED realtimeVars
  BY <1>5 DEF realtimeVars, RtInv, RtSound, RtType, ConnSound, ListenerSound, RtReached, Reached,
              OnItsWay, AskedForNext, Queued, Current
<1> QED BY <1>2, <1>3, <1>4, <1>5 DEF Events!Next

\* Whatever the order of publishing, buffering, sending, replaying and connections that
\* break, and whether the publisher's buffering succeeds or not: a client that is back and has caught up has every event since its first word,
\* and nothing is kept of a connection whose handler ended (webgui/realtime.py).
THEOREM EventsArrive == Spec => []EventsReach
<1>1. Init => RtInv
  BY RtInvInit DEF Init
<1>2. RtInv /\ [Next]_vars => RtInv'
  BY RtInvStep, PartsApart
<1>3. RtInv => EventsReach
  <2> SUFFICES ASSUME RtInv PROVE EventsReach
    OBVIOUS
  <2>1. RtType /\ RtReached /\ \A c \in Conns : ConnSound(c)
    BY DEF RtInv, RtSound
  <2>2. ASSUME NEW c \in Conns, link[c] = "up", handler[c] = "receive", c \in subs,
               pubsub.queue = <<>>, sending = Events!Nothing, ~broken,
               NEW e \in (firstSeen + 1)..published
        PROVE  e \in received
    <3>1. OnItsWay(c, e) /\ toReplay[c] = {}
      BY <2>1, <2>2 DEF RtReached, Reached, Current, ConnSound
    <3>2. ~Queued(e) /\ sending.to = {}
      BY <2>2 DEF Queued, Events!Nothing
    <3> QED BY <3>1, <3>2 DEF OnItsWay
  <2>3. Events!NothingMissed
    BY <2>2 DEF Events!NothingMissed
  <2>4. Events!GoneClean
    BY <2>1 DEF ConnSound, Events!GoneClean
  <2> QED BY <2>3, <2>4 DEF EventsReach, In
<1> QED BY <1>1, <1>2, <1>3, PTL DEF Spec

----------------------------------------------------------------------------
(* Model calls                                                              *)

Breakers == [state : {"closed", "open", "half_open"}, failures : 0..Threshold, cool : BOOLEAN]
CallSteps == {"idle", "check", "reserve", "calling", "report", "release"}

ToReport == {c \in Callers : at[c] = "report"}

\* A breaker is shut out of its service only after as many failures as it takes.
Tripped(b) == b.state = "closed" <=> b.failures < Threshold

BreakerInv == service \in Breakers /\ budget \in Breakers /\ Tripped(service) /\ Tripped(budget)

\* A call that ends has its reservation to settle, and knows of it; the budget's breaker
\* fails only where an answer was lost, so it turns a settlement away after that many.
CallInv ==
  /\ at \in [Callers -> CallSteps]
  /\ reserved = reservation /\ reservation \subseteq Callers
  /\ \A c \in Callers : c \in reservation => at[c] \in {"calling", "report", "release"}
  /\ \A c \in Callers : at[c] \in {"report", "release"} => c \in reservation
  /\ orphans \in Nat /\ spent \in Int /\ faults \in Nat
  /\ budget.failures <= faults
  /\ orphans > faults => faults >= Threshold
  /\ faults = 0 => orphans = 0 /\ spent = Cardinality(ToReport)

LlmInv == BreakerInv /\ CallInv

LEMMA BreakerMoves ==
  ASSUME NEW b \in Breakers, Tripped(b)
  PROVE  /\ Llm!State(b) \in Breakers /\ Tripped(Llm!State(b))
         /\ Llm!State(b).failures = b.failures
         /\ Llm!Success(b) \in Breakers /\ Tripped(Llm!Success(b)) /\ Llm!Success(b).failures = 0
         /\ Llm!Failure(b) \in Breakers /\ Tripped(Llm!Failure(b))
         /\ Llm!Failure(b).failures <= b.failures + 1
         /\ ~Llm!CanExecute(b) => b.failures >= Threshold
<1>1. Threshold \in Nat \ {0}
  BY SiteCalls
<1>2. b.failures \in 0..Threshold /\ b.state \in {"closed", "open", "half_open"}
  BY DEF Breakers
<1>3. /\ Llm!State(b) \in Breakers /\ Tripped(Llm!State(b))
      /\ Llm!State(b).failures = b.failures
  BY DEF Llm!State, Breakers, Tripped
<1>4. Llm!Success(b) \in Breakers /\ Tripped(Llm!Success(b)) /\ Llm!Success(b).failures = 0
  BY <1>1 DEF Llm!Success, Llm!Closed, Breakers, Tripped
<1>5. /\ Llm!Failure(b) \in Breakers /\ Tripped(Llm!Failure(b))
      /\ Llm!Failure(b).failures <= b.failures + 1
  <2> DEFINE n == Llm!Least(b.failures + 1)
  <2>1. n \in 0..Threshold /\ n <= b.failures + 1 /\ (n # Threshold => b.failures < Threshold)
    BY <1>1, <1>2 DEF Llm!Least
  <2>2. Llm!Failure(b) = [state |-> IF n = Threshold THEN "open" ELSE b.state, failures |-> n,
                          cool |-> FALSE]
    BY DEF Llm!Failure
  <2> HIDE DEF n
  <2> QED BY <1>1, <1>2, <2>1, <2>2 DEF Breakers, Tripped
<1>6. ~Llm!CanExecute(b) => b.failures >= Threshold
  BY <1>1, <1>2 DEF Llm!CanExecute, Llm!State, Tripped
<1> QED BY <1>3, <1>4, <1>5, <1>6

LEMMA ReportingCounted ==
  ASSUME CallInv, NEW c \in Callers
  PROVE  /\ IsFiniteSet(ToReport) /\ Cardinality(ToReport) \in Nat
         /\ at[c] # "report" => Cardinality(ToReport \cup {c}) = Cardinality(ToReport) + 1
         /\ at[c] # "report" => ToReport \ {c} = ToReport
         /\ at[c] = "report" => Cardinality(ToReport \ {c}) = Cardinality(ToReport) - 1
<1>1. IsFiniteSet(ToReport)
  BY SiteCalls, FS_Subset DEF ToReport
<1> QED BY <1>1, FS_AddElement, FS_RemoveElement, FS_CardinalityType, Zenon DEF ToReport

\* A call's step that leaves what is reserved as it was, and takes no call to a settlement
\* or from one.
LEMMA SettledKept ==
  ASSUME LlmInv, NEW c \in Callers, NEW p \in {"idle", "check", "reserve", "calling"},
         at[c] \in {"idle", "check", "reserve"},
         at' = at \/ at' = [at EXCEPT ![c] = p],
         UNCHANGED <<reservation, reserved, orphans, spent>>,
         faults' \in {faults, faults + 1}, BreakerInv',
         budget'.failures <= budget.failures + (faults' - faults)
  PROVE  LlmInv'
<1>1. CallInv /\ c \notin reservation
  BY DEF LlmInv, CallInv
<1>2. at' \in [Callers -> CallSteps] /\ \A d \in Callers \ {c} : at'[d] = at[d]
  BY <1>1 DEF CallInv, CallSteps
<1>3. at'[c] \in {"idle", "check", "reserve", "calling"}
  BY <1>1 DEF CallInv
<1>4. ToReport' = ToReport
  BY <1>2, <1>3 DEF ToReport
<1>5. faults \in Nat /\ budget.failures \in Nat /\ budget'.failures \in Nat /\ Threshold \in Nat
  BY <1>1, SiteCalls DEF CallInv, LlmInv, BreakerInv, Breakers
<1>6. /\ budget'.failures <= faults' /\ faults' \in Nat /\ faults <= faults'
      /\ orphans' > faults' => faults' >= Threshold
      /\ faults' = 0 => faults = 0
  BY <1>1, <1>5 DEF CallInv
<1>7. \A d \in Callers :
        /\ d \in reservation' => at'[d] \in {"calling", "report", "release"}
        /\ at'[d] \in {"report", "release"} => d \in reservation'
  BY <1>1, <1>2, <1>3 DEF CallInv
<1> QED BY <1>1, <1>2, <1>4, <1>6, <1>7 DEF LlmInv, CallInv

\* A breaker cools; nothing else changes.
LEMMA ElapseKeeps == ASSUME LlmInv, Llm!Elapse PROVE LlmInv'
<1>1. /\ UNCHANGED <<at, reservation, reserved, orphans, spent, faults>>
      /\ \/ service' = [service EXCEPT !.cool = TRUE] /\ budget' = budget
         \/ budget' = [budget EXCEPT !.cool = TRUE] /\ service' = service
  BY DEF Llm!Elapse, Llm!account
<1>2. BreakerInv' /\ budget'.failures = budget.failures
  BY <1>1, Zenon DEF LlmInv, BreakerInv, Breakers, Tripped
<1>3. ToReport' = ToReport
  BY <1>1 DEF ToReport
<1> QED BY <1>1, <1>2, <1>3 DEF LlmInv, CallInv

LEMMA BeginKeeps == ASSUME LlmInv, NEW c \in Callers, Llm!Begin(c) PROVE LlmInv'
<1>1. /\ UNCHANGED <<budget, reservation, reserved, orphans, spent, faults>>
      /\ at[c] = "idle" /\ service' = Llm!State(service)
      /\ at' = at \/ \E p \in {"check", "calling"} : at' = [at EXCEPT ![c] = p]
  BY DEF Llm!Begin, Llm!account, Llm!Goto, Llm!Request
<1>2. BreakerInv'
  BY <1>1, BreakerMoves DEF LlmInv, BreakerInv
<1>3. budget'.failures <= budget.failures + (faults' - faults)
  BY <1>1 DEF LlmInv, CallInv, BreakerInv, Breakers
<1> QED BY <1>1, <1>2, <1>3, SettledKept

\* The budget's breaker after a call of the budget service: it fails where an answer is
\* lost, and turns a call away only after the failures it takes.
BudgetAsked ==
  \/ ~Llm!CanExecute(budget) /\ budget' = Llm!State(budget) /\ faults' = faults
  \/ Llm!CanExecute(budget) /\ budget' = Llm!Success(budget) /\ faults' = faults
  \/ faults' = faults + 1 /\ budget' = Llm!Failure(Llm!State(budget))

LEMMA BudgetMoves ==
  ASSUME LlmInv, BudgetAsked, service' = service
  PROVE  /\ BreakerInv' /\ faults' \in {faults, faults + 1}
         /\ budget'.failures <= budget.failures + (faults' - faults)
         /\ ~Llm!CanExecute(budget) => faults >= Threshold
         /\ budget'.failures <= faults' /\ budget'.failures \in Nat /\ budget.failures \in Nat
<1>1. /\ budget \in Breakers /\ Tripped(budget) /\ service \in Breakers /\ Tripped(service)
      /\ faults \in Nat /\ budget.failures <= faults
  BY DEF LlmInv, BreakerInv, CallInv
<1>2. Threshold \in Nat \ {0}
  BY SiteCalls
<1>3. Llm!State(budget) \in Breakers /\ Tripped(Llm!State(budget))
  BY <1>1, BreakerMoves
<1>4. budget' \in Breakers /\ Tripped(budget')
  BY <1>1, <1>3, BreakerMoves DEF BudgetAsked
<1>5. budget'.failures \in Nat /\ budget.failures \in Nat
  BY <1>1, <1>2, <1>4 DEF Breakers
<1>6. faults' \in {faults, faults + 1}
  BY DEF BudgetAsked
<1>7. budget'.failures <= budget.failures + (faults' - faults)
  <2>1. CASE budget' = Llm!State(budget) /\ faults' = faults
    BY <1>1, <1>5, <2>1, BreakerMoves
  <2>2. CASE budget' = Llm!Success(budget) /\ faults' = faults
    BY <1>1, <1>5, <2>2, BreakerMoves
  <2>3. CASE faults' = faults + 1 /\ budget' = Llm!Failure(Llm!State(budget))
    BY <1>1, <1>3, BreakerMoves, <1>5, <2>3
  <2> QED BY <2>1, <2>2, <2>3 DEF BudgetAsked
<1>8. ~Llm!CanExecute(budget) => faults >= Threshold
  BY <1>1, <1>2, <1>5, BreakerMoves
<1>9. BreakerInv'
  BY <1>1, <1>4 DEF BreakerInv, Tripped
<1> QED BY <1>1, <1>5, <1>6, <1>7, <1>8, <1>9

LEMMA CheckBudgetKeeps == ASSUME LlmInv, NEW c \in Callers, Llm!CheckBudget(c) PROVE LlmInv'
<1>1. /\ UNCHANGED <<service, reservation, reserved, orphans, spent>>
      /\ at[c] = "check" /\ \E p \in {"idle", "reserve"} : at' = [at EXCEPT ![c] = p]
      /\ BudgetAsked
  BY DEF Llm!CheckBudget, Llm!account, Llm!Goto, Llm!Fault, BudgetAsked
<1> QED BY <1>1, BudgetMoves, SettledKept, Zenon

LEMMA ReserveTokensKeeps == ASSUME LlmInv, NEW c \in Callers, Llm!ReserveTokens(c) PROVE LlmInv'
<1>1. /\ UNCHANGED <<service, spent>>
      /\ at[c] = "reserve" /\ at' = [at EXCEPT ![c] = "calling"]
      /\ \/ UNCHANGED <<reservation, reserved, orphans>> /\ BudgetAsked
         \/ /\ UNCHANGED <<orphans, faults>> /\ BudgetAsked
            /\ reservation' = reservation \cup {c} /\ reserved' = reserved \cup {c}
         \/ /\ UNCHANGED <<reservation, reserved>> /\ BudgetAsked /\ faults' = faults + 1
            /\ orphans' \in {orphans, orphans + 1}
  BY DEF Llm!ReserveTokens, Llm!Request, Llm!Goto, Llm!Fault, BudgetAsked
<1>2. CallInv /\ BudgetAsked
  BY <1>1 DEF LlmInv
<1>3. /\ BreakerInv' /\ budget'.failures <= faults' /\ faults' \in {faults, faults + 1}
      /\ faults \in Nat /\ Threshold \in Nat
  BY <1>1, <1>2, BudgetMoves, SiteCalls DEF CallInv
<1>4. /\ at' \in [Callers -> CallSteps] /\ at'[c] = "calling"
      /\ \A d \in Callers \ {c} : at'[d] = at[d]
  BY <1>1, <1>2 DEF CallInv, CallSteps
<1>5. ToReport' = ToReport
  BY <1>1, <1>2, <1>4 DEF ToReport, CallInv
<1>6. /\ reserved' = reservation' /\ reservation' \subseteq Callers
      /\ \A d \in Callers \ {c} : d \in reservation' <=> d \in reservation
  BY <1>1, <1>2 DEF CallInv
<1>7. \A d \in Callers :
        /\ d \in reservation' => at'[d] \in {"calling", "report", "release"}
        /\ at'[d] \in {"report", "release"} => d \in reservation'
  BY <1>2, <1>4, <1>6 DEF CallInv
<1>8. /\ orphans' \in Nat /\ faults' \in Nat
      /\ orphans' > faults' => faults' >= Threshold
      /\ faults' = 0 => orphans' = 0 /\ spent' = Cardinality(ToReport')
  BY <1>1, <1>2, <1>3, <1>5 DEF CallInv
<1> QED BY <1>1, <1>2, <1>3, <1>4, <1>6, <1>7, <1>8 DEF LlmInv, CallInv

\* The model service answers or fails, and the call settles if it has what to settle.
LEMMA ServedKeeps ==
  ASSUME LlmInv, NEW c \in Callers, Llm!Answered(c) \/ Llm!Failed(c) PROVE LlmInv'
<1>1. /\ UNCHANGED <<budget, reserved, orphans, faults>> /\ at[c] = "calling"
      /\ service' \in {Llm!Success(service), Llm!Failure(service)}
      /\ \/ /\ c \in reservation /\ reservation' = reservation
            /\ \/ at' = [at EXCEPT ![c] = "report"] /\ spent' = spent + 1
               \/ at' = [at EXCEPT ![c] = "release"] /\ spent' = spent
         \/ /\ c \notin reservation /\ reservation' = reservation \ {c} /\ spent' = spent
            /\ at' = [at EXCEPT ![c] = "idle"]
  BY DEF Llm!Answered, Llm!Failed, Llm!Goto, Llm!End
<1>2. CallInv /\ BreakerInv'
  BY <1>1, BreakerMoves DEF LlmInv, BreakerInv
<1>3. /\ at' \in [Callers -> CallSteps] /\ reservation' = reservation
      /\ \A d \in Callers \ {c} : at'[d] = at[d]
  BY <1>1, <1>2 DEF CallInv, CallSteps
<1>4. \A d \in Callers :
        /\ d \in reservation' => at'[d] \in {"calling", "report", "release"}
        /\ at'[d] \in {"report", "release"} => d \in reservation'
  BY <1>1, <1>2, <1>3 DEF CallInv
<1>5. spent' \in Int /\ (spent = Cardinality(ToReport) => spent' = Cardinality(ToReport'))
  <2>1. CASE at' = [at EXCEPT ![c] = "report"] /\ spent' = spent + 1
    <3>1. ToReport' = ToReport \cup {c}
      BY <1>2, <1>3, <2>1 DEF ToReport, CallInv
    <3>2. Cardinality(ToReport') = Cardinality(ToReport) + 1
      BY <1>1, <1>2, <3>1, ReportingCounted, Zenon
    <3> QED BY <1>2, <2>1, <3>2 DEF CallInv
  <2>2. CASE at'[c] \in {"release", "idle"} /\ spent' = spent
    BY <1>1, <1>2, <1>3, <2>2 DEF ToReport, CallInv
  <2> QED BY <1>1, <1>2, <2>1, <2>2 DEF CallInv
<1> QED BY <1>1, <1>2, <1>3, <1>4, <1>5 DEF LlmInv, CallInv

\* The call ends: its reservation is settled, or orphaned where the budget service was not
\* asked or its answer was lost.
LEMMA SettleKeeps == ASSUME LlmInv, NEW c \in Callers, Llm!Settle(c) PROVE LlmInv'
<1>1. /\ service' = service /\ at[c] \in {"report", "release"} /\ at' = [at EXCEPT ![c] = "idle"]
      /\ reservation' = reservation \ {c} /\ reserved' = reserved \ {c} /\ BudgetAsked
      /\ \/ ~Llm!CanExecute(budget) /\ orphans' = orphans + 1 /\ UNCHANGED <<spent, faults>>
         \/ /\ UNCHANGED <<orphans, faults>>
            /\ spent' = IF at[c] = "report" THEN spent - 1 ELSE spent
         \/ orphans' = orphans + 1 /\ faults' = faults + 1 /\ spent' = spent
  BY DEF Llm!Settle, Llm!End, Llm!Goto, Llm!Fault, BudgetAsked
<1>2. CallInv
  BY DEF LlmInv
<1>3. /\ BreakerInv' /\ budget'.failures <= faults' /\ faults' \in {faults, faults + 1}
      /\ (~Llm!CanExecute(budget) => faults >= Threshold)
      /\ faults \in Nat /\ Threshold \in Nat \ {0}
  BY <1>1, <1>2, BudgetMoves, SiteCalls DEF CallInv
<1>4. /\ at' \in [Callers -> CallSteps] /\ at'[c] = "idle"
      /\ \A d \in Callers \ {c} : at'[d] = at[d]
  BY <1>1, <1>2 DEF CallInv, CallSteps
<1>5. \A d \in Callers :
        /\ d \in reservation' => at'[d] \in {"calling", "report", "release"}
        /\ at'[d] \in {"report", "release"} => d \in reservation'
  BY <1>1, <1>2, <1>4 DEF CallInv
<1>6. ToReport' = ToReport \ {c}
  BY <1>1, <1>4 DEF ToReport
<1>7. /\ orphans' \in Nat /\ faults' \in Nat /\ spent' \in Int
      /\ orphans' > faults' => faults' >= Threshold
  BY <1>1, <1>2, <1>3 DEF CallInv
<1>8. faults' = 0 => orphans' = 0 /\ spent' = Cardinality(ToReport')
  <2>1. SUFFICES ASSUME faults' = 0 PROVE orphans' = 0 /\ spent' = Cardinality(ToReport')
    OBVIOUS
  <2>2. faults = 0 /\ orphans' = orphans /\ spent' = IF at[c] = "report" THEN spent - 1 ELSE spent
    BY <1>1, <1>3, <2>1
  <2> QED BY <1>1, <1>2, <1>6, <2>2, ReportingCounted, Zenon DEF CallInv
<1> QED BY <1>1, <1>2, <1>3, <1>4, <1>5, <1>7, <1>8 DEF LlmInv, CallInv

\* The task is cancelled, which counts as one of the losses.
LEMMA CancelledKeeps == ASSUME LlmInv, NEW c \in Callers, Llm!Cancel(c) PROVE LlmInv'
<1>1. /\ UNCHANGED <<service, budget, spent>> /\ at' = [at EXCEPT ![c] = "idle"]
      /\ reservation' = reservation \ {c} /\ reserved' = reserved \ {c}
      /\ faults' = faults + 1 /\ orphans' \in {orphans, orphans + 1}
  BY DEF Llm!Cancel, Llm!End, Llm!Goto, Llm!Fault, Llm!circuits
<1>2. CallInv /\ BreakerInv' /\ faults \in Nat /\ Threshold \in Nat
      /\ budget.failures \in Nat
  BY <1>1, SiteCalls DEF LlmInv, BreakerInv, CallInv, Breakers, Tripped
<1>3. /\ at' \in [Callers -> CallSteps] /\ at'[c] = "idle"
      /\ \A d \in Callers \ {c} : at'[d] = at[d]
  BY <1>1, <1>2 DEF CallInv, CallSteps
<1>4. \A d \in Callers :
        /\ d \in reservation' => at'[d] \in {"calling", "report", "release"}
        /\ at'[d] \in {"report", "release"} => d \in reservation'
  BY <1>1, <1>2, <1>3 DEF CallInv
<1>5. /\ orphans' \in Nat /\ faults' \in Nat /\ spent' \in Int /\ faults' # 0
      /\ orphans' > faults' => faults' >= Threshold
      /\ budget'.failures <= faults'
  BY <1>1, <1>2 DEF CallInv
<1> QED BY <1>1, <1>2, <1>3, <1>4, <1>5 DEF LlmInv, CallInv

LEMMA LlmInvInit == Llm!Init => LlmInv
<1> SUFFICES ASSUME Llm!Init PROVE LlmInv
  OBVIOUS
<1>1. BreakerInv /\ budget.failures = 0
  BY SiteCalls DEF Llm!Init, Llm!Closed, BreakerInv, Breakers, Tripped
<1>2. ToReport = {}
  BY DEF Llm!Init, ToReport
<1> QED BY <1>1, <1>2, FS_EmptySet DEF Llm!Init, LlmInv, CallInv, CallSteps

LEMMA LlmInvStep == LlmInv /\ [Llm!Next]_llmVars => LlmInv'
<1> SUFFICES ASSUME LlmInv, [Llm!Next]_llmVars PROVE LlmInv'
  OBVIOUS
<1>1. CASE Llm!Next
  BY <1>1, ElapseKeeps, BeginKeeps, CheckBudgetKeeps, ReserveTokensKeeps, ServedKeeps, SettleKeeps,
     CancelledKeeps DEF Llm!Next
<1>2. CASE UNCHANGED llmVars
  BY <1>2 DEF llmVars, LlmInv, BreakerInv, Tripped, CallInv, ToReport
<1> QED BY <1>1, <1>2

LEMMA LlmHolds == LlmInv => Llm!ReservationsSettled /\ Llm!TrippedByFailures
<1> SUFFICES ASSUME LlmInv PROVE Llm!ReservationsSettled /\ Llm!TrippedByFailures
  OBVIOUS
<1>1. Llm!ReservationsSettled
  BY DEF ToReport, Cardinality, Llm!Cardinality, LlmInv, CallInv, Llm!ReservationsSettled
<1>2. Llm!TrippedByFailures
  BY DEF LlmInv, BreakerInv, Tripped, Llm!TrippedByFailures
<1> QED BY <1>1, <1>2

----------------------------------------------------------------------------
(* The providers of a completion                                            *)

Loadable == Names \cup {Models!Default}

RequestType ==
  [step : {"idle", "ask", "done"}, target : Names \cup {Models!None},
   role : ModelRoles \cup {Models!None}, wanted : Models!Orders,
   first : Loadable \cup {Models!None}, place : Nat, asked : Seq(Loadable),
   result : Loadable \cup {Models!None, "failed", "unavailable"}]

\* Those of the list's first n that the loop asks.
AskedBefore(q, n) ==
  {q.wanted[j] : j \in {k \in DOMAIN q.wanted :
                          k <= n /\ q.wanted[k] \in providers /\ q.wanted[k] # q.first}}

\* Whoever was asked is the first or stands before the place the loop has come to, and
\* nobody was asked twice.
Served(q) ==
  /\ q.step \in {"ask", "done"} /\ q.asked # <<>> /\ q.asked[1] = q.first
  /\ {q.asked[i] : i \in DOMAIN q.asked} = {q.first} \cup AskedBefore(q, q.place)
  /\ IsFiniteSet({q.first} \cup AskedBefore(q, q.place))
  /\ Cardinality({q.first} \cup AskedBefore(q, q.place)) = Len(q.asked)
  /\ q.step = "done" /\ q.result = "failed" =>
       \A i \in DOMAIN q.wanted : q.wanted[i] \in providers /\ q.wanted[i] # q.first => i <= q.place
  /\ Models!GatewayLeads(providers, gateway) /\ q.target = Models!None => q.first = "gateway"

Refused(q) == q.step = "done" /\ q.asked = <<>> /\ q.result = "unavailable"

ModelsInv ==
  /\ providers \subseteq Loadable /\ fallbacks \in Models!Orders
  /\ special \in [ModelRoles -> Names \cup {Models!None}] /\ primary \in Loadable \cup {Models!None}
  /\ Models!GatewayLeads(providers, gateway) => primary = "gateway"
  /\ Models!Starting => request = Models!NoRequest
  /\ request = Models!NoRequest \/ (request \in RequestType /\ (Served(request) \/ Refused(request)))

LEMMA NoneListed == <<>> \in Models!Orders
<1>1. <<>> \in [1..0 -> Names] /\ 0 \in 0..2
  OBVIOUS
<1>2. Models!IsInjective(<<>>)
  BY DEF Models!IsInjective
<1>3. <<>> \in UNION {[1..k -> Names] : k \in 0..2}
  BY <1>1
<1> QED BY <1>2, <1>3 DEF Models!Orders

\* A list of fallbacks names nobody twice.
LEMMA ListedOnce ==
  ASSUME NEW s \in Models!Orders
  PROVE  /\ s \in Seq(Names) /\ DOMAIN s = 1..Len(s) /\ Len(s) \in Nat
         /\ \A i, j \in DOMAIN s : s[i] = s[j] => i = j
<1>1. PICK k \in 0..2 : s \in [1..k -> Names]
  BY DEF Models!Orders
<1>2. s \in Seq(Names) /\ DOMAIN s = 1..Len(s) /\ Len(s) \in Nat
  BY <1>1
<1>3. \A i, j \in DOMAIN s : s[i] = s[j] => i = j
  BY DEF Models!Orders, Models!IsInjective
<1> QED BY <1>2, <1>3

LEMMA ModelsInvInit == Models!Init => ModelsInv
BY NoneListed DEF Models!Init, ModelsInv, Models!GatewayLeads, Models!Orders

LEMMA LoadConfigKeeps == ASSUME ModelsInv, Models!LoadConfig PROVE ModelsInv'
<1>1. PICK enabled \in SUBSET Names, known \in SUBSET Names, p \in Names, gw \in BOOLEAN :
        LET able == Models!Kept(enabled, known, gw)
        IN  /\ providers' = able /\ gateway' = gw
            /\ primary' = IF Models!GatewayLeads(able, gw) THEN "gateway" ELSE p
            /\ fallbacks' \in {fb \in Models!Orders :
                 Models!GatewayLeads(able, gw) => ~Models!Lists(fb, "gateway")}
  BY DEF Models!LoadConfig
<1>2. Models!Starting /\ request' = request /\ special' \in [ModelRoles -> Names \cup {Models!None}]
  BY DEF Models!LoadConfig
<1>3. request = Models!NoRequest
  BY <1>2 DEF ModelsInv
<1>4. providers' \subseteq Names
  BY <1>1 DEF Models!Kept
<1>5. Models!GatewayLeads(providers, gateway)' => primary' = "gateway"
  BY <1>1 DEF Models!GatewayLeads
<1>6. primary' \in Loadable \cup {Models!None}
  BY <1>1, <1>4 DEF Models!GatewayLeads, Loadable
<1> QED BY <1>1, <1>2, <1>3, <1>4, <1>5, <1>6 DEF ModelsInv, Loadable

LEMMA CreateDefaultKeeps == ASSUME ModelsInv, Models!CreateDefaultConfig PROVE ModelsInv'
<1>1. /\ Models!Starting /\ UNCHANGED <<special, request>>
      /\ providers' = {Models!Default} /\ primary' = Models!Default /\ fallbacks' = <<>>
  BY DEF Models!CreateDefaultConfig
<1>2. request = Models!NoRequest
  BY <1>1 DEF ModelsInv
<1>3. ~Models!GatewayLeads(providers, gateway)'
  BY <1>1 DEF Models!GatewayLeads, Models!Default
<1> QED BY <1>1, <1>2, <1>3, NoneListed DEF ModelsInv, Loadable

\* A completion begins with a loaded provider: with the gateway, where it leads and nobody
\* else was named.
LEMMA CompleteKeeps == ASSUME ModelsInv, Models!Complete PROVE ModelsInv'
<1>1. PICK t \in Names \cup {Models!None}, r \in ModelRoles \cup {Models!None} :
        Models!Refuse(t) \/ Models!Serve(t, r)
  BY DEF Models!Complete
<1>2. UNCHANGED <<providers, primary, fallbacks, special, gateway>> /\ ~Models!Starting
  BY DEF Models!Complete, Models!loaded
<1>3. ASSUME request' \in RequestType, Served(request)' \/ Refused(request)' PROVE ModelsInv'
  BY <1>2, <1>3 DEF ModelsInv, Models!Starting, Models!GatewayLeads
<1>4. CASE Models!Refuse(t)
  <2>1. request' = [step |-> "done", target |-> t, role |-> Models!None, wanted |-> <<>>,
                    first |-> Models!None, place |-> 0, asked |-> <<>>, result |-> "unavailable"]
    BY <1>4, Zenon DEF Models!Refuse, Models!NoRequest
  <2>2. <<>> \in Seq(Loadable)
    OBVIOUS
  <2>3. request' \in RequestType
    BY <2>1, <2>2, NoneListed DEF RequestType
  <2>4. Refused(request)'
    BY <2>1 DEF Refused
  <2> QED BY <1>3, <2>3, <2>4
<1>5. CASE Models!Serve(t, r)
  <2> DEFINE target == Models!Target(t)
             one    == Models!First(target, r)
  <2>1. target \in providers
    BY <1>5 DEF Models!Serve
  <2>2. PICK wanted \in Models!OwnFallbacks(target, r) :
          request' = [step |-> "ask", target |-> t, role |-> r, wanted |-> wanted, first |-> one,
                      place |-> 0, asked |-> <<one>>, result |-> Models!None]
    BY <1>5 DEF Models!Serve
  <2>3. wanted \in Models!Orders
    BY DEF Models!OwnFallbacks, ModelsInv
  <2>4. one \in providers /\ one \in Loadable
    BY <2>1 DEF Models!First, ModelsInv
  <2>5. Models!GatewayLeads(providers, gateway) /\ t = Models!None => one = "gateway"
    BY DEF ModelsInv, Models!Target, Models!First, Models!Preferred
  <2> HIDE DEF target, one
  <2>6. <<one>> \in Seq(Loadable) /\ Len(<<one>>) = 1 /\ <<one>>[1] = one
    BY <2>4
  <2>7. request' \in RequestType
    BY <2>2, <2>3, <2>4, <2>6 DEF RequestType
  <2>8. AskedBefore(request, request.place)' = {}
    BY <2>2, <2>3, ListedOnce DEF AskedBefore
  <2>9. {request'.asked[i] : i \in DOMAIN request'.asked} = {one}
    BY <2>2, <2>6
  <2>10. Served(request)'
    <3>1. /\ request'.step = "ask" /\ request'.asked = <<one>> /\ request'.first = one
          /\ request'.target = t /\ request'.wanted = wanted /\ request'.place = 0
      BY <2>2
    <3>2. request'.asked # <<>> /\ request'.asked[1] = request'.first
      BY <3>1, <2>6
    <3>3. ({request.first} \cup AskedBefore(request, request.place))' = {one}
      BY <3>1, <2>8
    <3>4. IsFiniteSet({one}) /\ Cardinality({one}) = 1
      BY FS_Singleton, Zenon
    <3>5. Len(request'.asked) = 1
      BY <3>1, <2>6
    <3>6. (Models!GatewayLeads(providers, gateway) /\ request.target = Models!None
            => request.first = "gateway")'
      BY <1>2, <2>5, <3>1 DEF Models!GatewayLeads
    <3> QED BY <2>9, <3>1, <3>2, <3>3, <3>4, <3>5, <3>6 DEF Served
  <2> QED BY <1>3, <2>7, <2>10
<1> QED BY <1>1, <1>4, <1>5

LEMMA UnderWay ==
  ASSUME ModelsInv, request.step = "ask" PROVE request \in RequestType /\ Served(request)
BY DEF ModelsInv, Models!NoRequest, Refused

LEMMA AnswersKeeps == ASSUME ModelsInv, Models!ProviderAnswers PROVE ModelsInv'
<1> DEFINE latest == request.asked[Len(request.asked)]
<1>1. /\ UNCHANGED <<providers, primary, fallbacks, special, gateway>> /\ request.step = "ask"
      /\ request' = [request EXCEPT !.step = "done", !.result = latest]
  BY DEF Models!ProviderAnswers, Models!loaded, Models!Latest
<1>2. request \in RequestType /\ Served(request)
  BY <1>1, UnderWay
<1>3. latest \in Loadable
  BY <1>2 DEF RequestType, Served
<1>4. latest # "failed"
  BY <1>3, SiteNames DEF Loadable, Models!Default
<1> HIDE DEF latest
<1>5. request' \in RequestType
  BY <1>1, <1>2, <1>3, Zenon DEF RequestType
<1>6. /\ request'.step = "done" /\ request'.result # "failed" /\ request'.asked = request.asked
      /\ request'.first = request.first /\ request'.wanted = request.wanted
      /\ request'.place = request.place /\ request'.target = request.target
  BY <1>1, <1>2, <1>4 DEF RequestType
<1>7. AskedBefore(request, request.place)' = AskedBefore(request, request.place)
  BY <1>1, <1>6 DEF AskedBefore
<1>8. Served(request)'
  BY <1>1, <1>2, <1>6, <1>7, Zenon DEF Served, Models!GatewayLeads
<1> QED
  BY <1>1, <1>2, <1>5, <1>8 DEF ModelsInv, Models!Starting, Models!GatewayLeads, Models!NoRequest

LEMMA FailsKeeps == ASSUME ModelsInv, Models!ProviderFails PROVE ModelsInv'
<1>1. /\ UNCHANGED <<providers, primary, fallbacks, special, gateway>> /\ request.step = "ask"
      /\ \/ Models!Ahead = {} /\ request' = [request EXCEPT !.step = "done", !.result = "failed"]
         \/ \E i \in Models!Ahead :
              /\ \A j \in Models!Ahead : i <= j
              /\ request' = [request EXCEPT !.place = i, !.asked = Append(@, request.wanted[i])]
  BY Zenon DEF Models!ProviderFails, Models!loaded
<1>2. request \in RequestType /\ Served(request)
  BY <1>1, UnderWay, Zenon
<1>3. ASSUME request' \in RequestType, Served(request)' PROVE ModelsInv'
  <2>1. request.step = "ask" /\ Models!NoRequest.step = "idle"
    BY <1>1, Zenon DEF Models!NoRequest
  <2>2. ~Models!Starting
    BY <2>1 DEF ModelsInv
  <2> QED BY <1>1, <1>3, <2>2, Zenon DEF ModelsInv, Models!Starting, Models!GatewayLeads
<1>4. request.wanted \in Models!Orders /\ request.place \in Nat
  BY <1>2 DEF RequestType
<1>5. CASE Models!Ahead = {} /\ request' = [request EXCEPT !.step = "done", !.result = "failed"]
  <2>1. request' \in RequestType
    BY <1>2, <1>5, Zenon DEF RequestType
  <2>2. /\ request'.step = "done" /\ request'.asked = request.asked
        /\ request'.first = request.first /\ request'.wanted = request.wanted
        /\ request'.place = request.place /\ request'.target = request.target
    BY <1>2, <1>5 DEF RequestType
  <2>3. AskedBefore(request, request.place)' = AskedBefore(request, request.place)
    BY <1>1, <2>2, Zenon DEF AskedBefore
  <2>4. \A i \in DOMAIN request.wanted :
          request.wanted[i] \in providers /\ request.wanted[i] # request.first => i <= request.place
    BY <1>4, <1>5, ListedOnce DEF Models!Ahead
  <2>5. (\A i \in DOMAIN request.wanted :
          request.wanted[i] \in providers /\ request.wanted[i] # request.first => i <= request.place)'
    BY <1>1, <2>2, <2>4, Zenon
  <2>6. (Models!GatewayLeads(providers, gateway) /\ request.target = Models!None
          => request.first = "gateway")'
    BY <1>1, <1>2, <2>2, Zenon DEF Served, Models!GatewayLeads
  <2>7. ({request.first} \cup AskedBefore(request, request.place))'
          = {request.first} \cup AskedBefore(request, request.place)
    BY <2>2, <2>3
  <2>8. {request'.asked[i] : i \in DOMAIN request'.asked}
          = {request.asked[i] : i \in DOMAIN request.asked}
    BY <2>2
  <2>9. Served(request)'
    BY <1>2, <2>2, <2>5, <2>6, <2>7, <2>8, Zenon DEF Served
  <2> QED BY <1>3, <2>1, <2>9
<1>6. ASSUME NEW i \in Models!Ahead, \A j \in Models!Ahead : i <= j,
             request' = [request EXCEPT !.place = i, !.asked = Append(@, request.wanted[i])]
      PROVE  ModelsInv'
  <2> DEFINE x == request.wanted[i]
  <2>1. /\ i \in DOMAIN request.wanted /\ i \in Nat /\ i > request.place
        /\ x \in providers /\ x # request.first /\ x \in Loadable
    BY <1>4, ListedOnce DEF Models!Ahead, ModelsInv
  <2>2. /\ request'.step = "ask" /\ request'.asked = Append(request.asked, x)
        /\ request'.first = request.first /\ request'.wanted = request.wanted
        /\ request'.place = i /\ request'.target = request.target
    BY <1>1, <1>2, <1>6, Zenon DEF RequestType
  <2>3. request.asked \in Seq(Loadable) /\ Append(request.asked, x) \in Seq(Loadable)
    BY <1>2, <2>1 DEF RequestType
  <2>4. request' \in RequestType
    BY <1>2, <1>6, <2>1, <2>3, Zenon DEF RequestType
  <2>5. AskedBefore(request, request.place)' = AskedBefore(request, request.place) \cup {x}
    <3>1. \A k \in DOMAIN request.wanted : request.wanted[k] \in providers
            /\ request.wanted[k] # request.first => (k <= i <=> k <= request.place \/ k = i)
      BY <1>4, <1>6, <2>1, ListedOnce DEF Models!Ahead
    <3>2. AskedBefore(request, request.place)'
            = {request.wanted[j] : j \in {k \in DOMAIN request.wanted :
                 k <= i /\ request.wanted[k] \in providers /\ request.wanted[k] # request.first}}
      BY <1>1, <2>2, Zenon DEF AskedBefore
    <3> QED BY <2>1, <3>1, <3>2 DEF AskedBefore
  <2>6. x \notin {request.first} \cup AskedBefore(request, request.place)
    <3>1. ASSUME NEW k \in DOMAIN request.wanted, k <= request.place PROVE request.wanted[k] # x
      BY <1>4, <2>1, <3>1, ListedOnce
    <3> QED BY <2>1, <3>1 DEF AskedBefore
  <2>7. {request'.asked[k] : k \in DOMAIN request'.asked}
          = {request.asked[k] : k \in DOMAIN request.asked} \cup {x}
    <3> DEFINE s == request.asked
    <3>1. s \in Seq(Loadable)
      BY <2>3
    <3> HIDE DEF s, x
    <3>2. {Append(s, x)[k] : k \in DOMAIN Append(s, x)} = {s[k] : k \in DOMAIN s} \cup {x}
      <4>1. DOMAIN s = 1..Len(s) /\ DOMAIN Append(s, x) = 1..(Len(s) + 1) /\ Len(s) \in Nat
            /\ Append(s, x)[Len(s) + 1] = x /\ \A k \in 1..Len(s) : Append(s, x)[k] = s[k]
        BY <3>1
      <4> QED BY <4>1
    <3> QED BY <2>2, <3>2 DEF s
  <2>8. Served(request)'
    <3> DEFINE A == {request.first} \cup AskedBefore(request, request.place)
    <3>1. IsFiniteSet(A) /\ Cardinality(A) = Len(request.asked) /\ x \notin A
      BY <1>2, <2>6 DEF Served
    <3>2. IsFiniteSet(A \cup {x}) /\ Cardinality(A \cup {x}) = Len(request.asked) + 1
      BY <3>1, FS_AddElement, Zenon
    <3>3. ({request.first} \cup AskedBefore(request, request.place))' = A \cup {x}
      BY <2>2, <2>5
    <3>4. /\ Len(request'.asked) = Len(request.asked) + 1 /\ request'.asked # <<>>
          /\ request'.asked[1] = request.asked[1]
      BY <1>2, <2>2, <2>3 DEF Served
    <3>5. {request.asked[k] : k \in DOMAIN request.asked} = A
      BY <1>2 DEF Served
    <3>6. {request'.asked[k] : k \in DOMAIN request'.asked} = A \cup {x}
      BY <2>7, <3>5
    <3> HIDE DEF A, x
    <3> QED BY <1>1, <1>2, <2>2, <3>2, <3>3, <3>4, <3>6, Zenon DEF Served, Models!GatewayLeads
  <2> QED BY <1>3, <2>4, <2>8
<1> QED BY <1>1, <1>5, <1>6, Zenon

LEMMA ModelsInvStep == ModelsInv /\ [Models!Next]_modelsVars => ModelsInv'
<1> SUFFICES ASSUME ModelsInv, [Models!Next]_modelsVars PROVE ModelsInv'
  OBVIOUS
<1>1. CASE Models!Return
  BY <1>1 DEF Models!Return, Models!loaded, ModelsInv, Models!Starting, Models!GatewayLeads
<1>2. CASE UNCHANGED modelsVars
  BY <1>2, Zenon DEF modelsVars, ModelsInv, Models!Starting, Models!GatewayLeads, Served, AskedBefore,
              Refused
<1> QED BY <1>1, <1>2, LoadConfigKeeps, CreateDefaultKeeps, CompleteKeeps, AnswersKeeps, FailsKeeps
     DEF Models!Next

LEMMA ModelsHold == ModelsInv => Models!EveryFallbackAsked /\ Models!GatewayFirst
<1> SUFFICES ASSUME ModelsInv PROVE Models!EveryFallbackAsked /\ Models!GatewayFirst
  OBVIOUS
<1>1. ASSUME request.step = "done", request.result = "failed"
      PROVE  Models!Asked = {request.first} \cup (Models!Wanted \cap providers)
             /\ Len(request.asked) = Models!Cardinality(Models!Asked)
  <2>1. request \in RequestType /\ Served(request)
    BY <1>1 DEF ModelsInv, Models!NoRequest, Refused
  <2>2. Models!Asked = {request.first} \cup AskedBefore(request, request.place)
    BY <2>1 DEF Models!Asked, Served
  <2>3. {request.first} \cup AskedBefore(request, request.place)
          = {request.first} \cup (Models!Wanted \cap providers)
    BY <1>1, <2>1 DEF Served, AskedBefore, Models!Wanted
  <2>4. Cardinality({request.first} \cup AskedBefore(request, request.place)) = Len(request.asked)
    BY <2>1 DEF Served
  <2>5. \A S : Models!Cardinality(S) = Cardinality(S)
    BY DEF Models!Cardinality, Cardinality
  <2> QED BY <2>2, <2>3, <2>4, <2>5
<1>2. Models!GatewayFirst
  BY DEF ModelsInv, Models!GatewayFirst, Models!NoRequest, Served, Refused
<1> QED BY <1>1, <1>2 DEF Models!EveryFallbackAsked

\* However calls overlap, fail and are cancelled: each settles the tokens it reserved, a
\* breaker is open for its failures alone; and a completion fails only after every loaded
\* provider it may use was asked, each once, with the gateway first where it leads
\* (config/llm_integration.py, config/model_manager.py).
THEOREM CallsSettle == Spec => []CallsSettled
<1>1. Init => LlmInv /\ ModelsInv
  BY LlmInvInit, ModelsInvInit DEF Init
<1>2. LlmInv /\ ModelsInv /\ [Next]_vars => LlmInv' /\ ModelsInv'
  BY LlmInvStep, ModelsInvStep, PartsApart
<1>3. LlmInv /\ ModelsInv => CallsSettled
  BY LlmHolds, ModelsHold DEF CallsSettled, In
<1> QED BY <1>1, <1>2, <1>3, PTL DEF Spec

----------------------------------------------------------------------------
(* The agents at work                                                       *)

AnalystKinds == {"security", "performance", "comprehensive_report", "report"}
OtherKinds   == {"suite", "data_generation"}
KindsNow     == IF role = "analyst" THEN AnalystKinds ELSE OtherKinds

RunSteps == {"mark", "waiting", "work", "notify", "report", "security", "performance"}
RunNow(r) == /\ r.kind \in KindsNow /\ r.id \in Worker!Ids /\ r.step \in RunSteps
Verdicts == {"NO_GO", "GO_WITH_WARNINGS", "GO"}
Values == {Worker!None, Worker!InProgress} \cup [risk : {"low", "high"}]
  \cup [failing : {0, 50}, critical : BOOLEAN] \cup [grade : {"A", "F"}, regression : BOOLEAN]
  \cup [done : {TRUE}] \cup [verdict : Verdicts]

\* What an assessment found stays under its key, but for a mark of the next one; so a run
\* that reads the key reads the one or the other.
Readable(a, v) == a = "high" => v \in {Worker!InProgress, [risk |-> "high"]}
Records == [report : Values, security : Values, performance : Values,
            assessed : {"none", "low", "high"}]
Runs == [task : Nat, kind : AnalystKinds \cup OtherKinds \cup {"none"},
         id : Worker!Ids \cup {"none"}, step : RunSteps \cup {"idle"}, read : Records]
StoreOf(r) == Worker!Handler(role, r.kind, r.id).stores

\* Whoever is about to notify has stored.
RunInv(r) == /\ r \in Runs /\ (r # Worker!NoRun => RunNow(r))
             /\ Readable(r.read.assessed, r.read.security)
             /\ r # Worker!NoRun /\ r.step = "notify" => value[StoreOf(r)] # Worker!None

RecordInv ==
  /\ value \in [Worker!ResultKeys -> Values]
  /\ \A k \in notified : k \in Worker!ResultKeys /\ value[k] # Worker!None
  /\ assessed \in {"none", "low", "high"}
  /\ Readable(assessed, value[Worker!Key("security")])
  /\ Worker!HighRiskStops

Given(t) == t.id \in Worker!Ids /\ t.task \in Nat

WorkInv ==
  /\ tasks \in Nat /\ 0 \notin sent /\ \A t \in channel \cup broker : Given(t)
  /\ DOMAIN child = Children /\ child = [c \in Children |-> child[c]]
  /\ \A c \in Children : RunInv(child[c])
  /\ RunInv(inLoop)
  /\ proc = "off" => inLoop = Worker!NoRun /\ \A c \in Children : child[c] = Worker!NoRun
  /\ RecordInv /\ Worker!TasksKept

LEMMA KeysOfResults ==
  /\ Worker!Key("security") \in Worker!ResultKeys
  /\ \A k \in AnalystKinds \cup Worker!Ids : Worker!Key(k) \in Worker!ResultKeys
  /\ \A i \in Worker!Ids : <<i, "result">> \in Worker!ResultKeys
  /\ \A i, k : <<i, "result">> # Worker!Key(k)
  /\ \A i, k : Worker!Key(i) = Worker!Key(k) => i = k
<1>1. \A i \in Worker!Ids \cup {"report", "performance", "comprehensive_report"} :
        <<i, "">> \in Worker!ResultKeys
  BY Zenon DEF Worker!ResultKeys
<1>2. \A i \in Worker!Ids : <<i, "result">> \in Worker!ResultKeys
  BY Zenon DEF Worker!ResultKeys
<1>3. AnalystKinds \cup Worker!Ids
        \subseteq Worker!Ids \cup {"report", "performance", "comprehensive_report"}
  BY DEF AnalystKinds, Worker!Ids
<1> QED BY <1>1, <1>2, <1>3, Zenon DEF Worker!Key, AnalystKinds

\* Where a run stores, and that the key of the assessment is written by assessments.
LEMMA StoresAt ==
  ASSUME NEW r, RunNow(r)
  PROVE  /\ StoreOf(r) \in Worker!ResultKeys
         /\ StoreOf(r) = Worker!Key("security") <=> r.kind = "security"
<1>1. CASE role = "analyst"
  BY <1>1, KeysOfResults DEF StoreOf, Worker!Handler, RunNow, KindsNow
<1>2. CASE role # "analyst"
  BY <1>2, KeysOfResults DEF StoreOf, Worker!Handler, RunNow, KindsNow, OtherKinds
<1> QED BY <1>1, <1>2

LEMMA ValuesDiffer ==
  /\ \A v \in Values \ {Worker!None} : v # Worker!None
  /\ Worker!InProgress # Worker!None /\ Worker!InProgress \in Values
  /\ \A x \in Verdicts : [verdict |-> x] \in Values \ {Worker!None}
  /\ \A kind \in AnalystKinds \cup OtherKinds : \A v \in Worker!Results(kind) :
       v \in Values \ {Worker!None}
<1>1. DOMAIN Worker!None = {"none"} /\ DOMAIN Worker!InProgress = {"status"}
  BY DEF Worker!None, Worker!InProgress
<1>2. \A x : DOMAIN [verdict |-> x] = {"verdict"}
  OBVIOUS
<1>3. \A v \in [risk : {"low", "high"}] : DOMAIN v = {"risk"}
  OBVIOUS
<1>4. \A v \in [failing : {0, 50}, critical : BOOLEAN] : DOMAIN v = {"failing", "critical"}
  OBVIOUS
<1>5. \A v \in [grade : {"A", "F"}, regression : BOOLEAN] : DOMAIN v = {"grade", "regression"}
  OBVIOUS
<1>6. \A v \in [done : {TRUE}] : DOMAIN v = {"done"}
  OBVIOUS
<1>7. [done |-> TRUE] \in [done : {TRUE}]
  OBVIOUS
<1>8. \A kind \in AnalystKinds \cup OtherKinds : \A v \in Worker!Results(kind) :
        v \in [risk : {"low", "high"}] \cup [failing : {0, 50}, critical : BOOLEAN]
                \cup [grade : {"A", "F"}, regression : BOOLEAN] \cup [done : {TRUE}]
  BY <1>7, Zenon DEF Worker!Results
<1>9. Worker!InProgress # Worker!None
  BY <1>1
<1>10. \A x \in Verdicts : [verdict |-> x] \in Values \ {Worker!None}
  BY <1>1, <1>2 DEF Values
<1>11. \A v \in [risk : {"low", "high"}] \cup [failing : {0, 50}, critical : BOOLEAN]
                \cup [grade : {"A", "F"}, regression : BOOLEAN] \cup [done : {TRUE}] :
         v \in Values \ {Worker!None}
  BY <1>1, <1>3, <1>4, <1>5, <1>6, Zenon DEF Values
<1> QED BY <1>8, <1>9, <1>10, <1>11, Zenon DEF Values

\* What a step of a run does to the records: they stay sound, nothing that was stored is
\* taken away, and the run has stored when it comes to notify.
LEMMA StepKeeps ==
  ASSUME WorkInv, NEW r, RunNow(r), RunInv(r), r # Worker!NoRun, NEW next, Worker!Step(r, next)
  PROVE  /\ RecordInv'
         /\ \A k \in Worker!ResultKeys : value[k] # Worker!None => value'[k] # Worker!None
         /\ next = "notify" => value'[StoreOf(r)] # Worker!None
<1> DEFINE h == Worker!Handler(role, r.kind, r.id)
<1>0. RecordInv /\ r.kind \in AnalystKinds \cup OtherKinds
  BY DEF WorkInv, RunNow, KindsNow
<1>1. CASE Worker!Mark(r, next)
  <2>1. /\ UNCHANGED <<notified, assessed, verdicts>> /\ next # "notify"
        /\ value' = value \/ value' = [value EXCEPT ![Worker!Key(r.id)] = Worker!InProgress]
    BY <1>1 DEF Worker!Mark, Worker!Handler
  <2>2. value' \in [Worker!ResultKeys -> Values]
    BY <1>0, <2>1, KeysOfResults, ValuesDiffer DEF RecordInv, RunNow
  <2>3. \A k \in Worker!ResultKeys : value'[k] = value[k] \/ value'[k] = Worker!InProgress
    BY <1>0, <2>1 DEF RecordInv
  <2>4. Worker!HighRiskStops'
    BY <1>0, <2>1 DEF RecordInv, Worker!HighRiskStops
  <2>5. RecordInv'
    BY <1>0, <2>1, <2>2, <2>3, <2>4, ValuesDiffer, KeysOfResults DEF RecordInv, Readable
  <2> QED BY <2>1, <2>3, <2>5, ValuesDiffer
<1>2. CASE Worker!Waited(r, next) \/ Worker!Get(r, next) \/ Worker!Raises(r, next)
  <2>1. UNCHANGED <<value, notified, assessed, verdicts>> /\ next # "notify"
    BY <1>2 DEF Worker!Waited, Worker!Get, Worker!GetNext, Worker!Raises, Worker!records
  <2> QED BY <1>0, <2>1 DEF RecordInv, Worker!HighRiskStops
<1>3. CASE Worker!Store(r, next) /\ r.kind = "comprehensive_report"
  <2>1. PICK fragile \in BOOLEAN :
          /\ value' = [value EXCEPT ![Worker!Key("comprehensive_report")] =
                         [verdict |-> Worker!Verdict(r.read, fragile)]]
          /\ verdicts' = verdicts \cup {[verdict |-> Worker!Verdict(r.read, fragile),
                                        security |-> r.read.security,
                                        assessed |-> r.read.assessed]}
          /\ UNCHANGED assessed
    BY <1>3 DEF Worker!Store, Worker!StoreVerdict
  <2>2. UNCHANGED notified
    BY <1>3 DEF Worker!Store
  <2>3. PICK v : v = Worker!Verdict(r.read, fragile)
    OBVIOUS
  <2>4. /\ Worker!Key("comprehensive_report") \in Worker!ResultKeys
        /\ Worker!Key("comprehensive_report") # Worker!Key("security")
    BY KeysOfResults DEF AnalystKinds
  <2>5. [verdict |-> v] \in Values \ {Worker!None}
    BY <2>3, ValuesDiffer DEF Worker!Verdict, Verdicts
  <2>6. value' \in [Worker!ResultKeys -> Values]
    BY <1>0, <2>1, <2>3, <2>4, <2>5 DEF RecordInv
  <2>7. \A k \in Worker!ResultKeys :
          value'[k] = IF k = Worker!Key("comprehensive_report") THEN [verdict |-> v] ELSE value[k]
    BY <1>0, <2>1, <2>3 DEF RecordInv
  <2>8. v # "NO_GO" => r.read.assessed # "high" \/ r.read.security = Worker!InProgress
    <3>1. SUFFICES ASSUME r.read.assessed = "high", r.read.security # Worker!InProgress
                   PROVE  Worker!Verdict(r.read, fragile) = "NO_GO"
      BY <2>3
    <3>2. r.read.security = [risk |-> "high"]
      BY <3>1 DEF RunInv, Readable
    <3>3. "security risk" \in Worker!Blockers(r.read)
      BY <3>2 DEF Worker!Blockers, Worker!Has
    <3> QED BY <3>3, Zenon DEF Worker!Verdict
  <2>9. Worker!HighRiskStops'
    BY <1>0, <2>1, <2>3, <2>8 DEF RecordInv, Worker!HighRiskStops
  <2>10. RecordInv'
    BY <1>0, <2>1, <2>2, <2>4, <2>5, <2>6, <2>7, <2>9, KeysOfResults DEF RecordInv
  <2>11. StoreOf(r) = Worker!Key("comprehensive_report")
    BY <1>3 DEF StoreOf, Worker!Handler, RunNow, KindsNow, OtherKinds
  <2> QED BY <2>4, <2>5, <2>7, <2>10, <2>11
<1>4. CASE Worker!Store(r, next) /\ r.kind # "comprehensive_report"
  <2>1. PICK v \in Worker!Results(r.kind) :
          /\ value' = [value EXCEPT ![h.stores] = v]
          /\ assessed' = IF Worker!Has(v, "risk") THEN v.risk ELSE assessed
    BY <1>4 DEF Worker!Store, Worker!StoreResult
  <2>2. UNCHANGED <<notified, verdicts>>
    BY <1>4 DEF Worker!Store, Worker!StoreResult
  <2>3. h.stores = StoreOf(r) /\ h.stores \in Worker!ResultKeys
        /\ (h.stores = Worker!Key("security") <=> r.kind = "security")
    BY StoresAt DEF StoreOf
  <2> HIDE DEF h
  <2>4. v \in Values \ {Worker!None}
    BY <1>0, <2>1, ValuesDiffer
  <2>5. value' \in [Worker!ResultKeys -> Values]
    BY <1>0, <2>1, <2>3, <2>4 DEF RecordInv
  <2>6. \A k \in Worker!ResultKeys : value'[k] = IF k = h.stores THEN v ELSE value[k]
    BY <1>0, <2>1 DEF RecordInv
  <2>7. Worker!HighRiskStops'
    BY <1>0, <2>2 DEF RecordInv, Worker!HighRiskStops
  <2>8. /\ Readable(assessed, value[Worker!Key("security")])'
        /\ assessed' \in {"none", "low", "high"}
    <3>1. CASE r.kind = "security"
      <4>1. v \in [risk : {"low", "high"}]
        BY <2>1, <3>1 DEF Worker!Results
      <4>2. v = [risk |-> v.risk] /\ assessed' = v.risk
        BY <2>1, <4>1 DEF Worker!Has
      <4>3. value'[Worker!Key("security")] = v
        BY <2>3, <2>6, <3>1, KeysOfResults
      <4> QED BY <4>1, <4>2, <4>3 DEF Readable
    <3>2. CASE r.kind # "security"
      <4>1. ~Worker!Has(v, "risk")
        BY <1>0, <1>4, <2>1, <3>2 DEF Worker!Results, Worker!Has, AnalystKinds, OtherKinds
      <4>2. value'[Worker!Key("security")] = value[Worker!Key("security")]
        BY <2>3, <2>6, <3>2, KeysOfResults
      <4> QED BY <1>0, <2>1, <4>1, <4>2 DEF RecordInv, Readable
    <3> QED BY <3>1, <3>2
  <2>9. RecordInv'
    BY <1>0, <2>2, <2>4, <2>5, <2>6, <2>7, <2>8 DEF RecordInv
  <2> QED BY <2>3, <2>4, <2>6, <2>9
<1>5. CASE Worker!Notify(r, next)
  <2>1. /\ UNCHANGED <<value, assessed, verdicts>> /\ next # "notify" /\ r.step = "notify"
        /\ notified' = notified \cup {StoreOf(r)}
    BY <1>5 DEF Worker!Notify, StoreOf
  <2>2. StoreOf(r) \in Worker!ResultKeys /\ value[StoreOf(r)] # Worker!None
    BY <2>1, StoresAt DEF RunInv
  <2> QED BY <1>0, <2>1, <2>2 DEF RecordInv, Worker!HighRiskStops
<1> QED BY <1>1, <1>2, <1>3, <1>4, <1>5 DEF Worker!Step

\* A run that does not move stays sound while the records do.
LEMMA OthersRun ==
  ASSUME NEW r, RunInv(r), role' = role,
         \A k \in Worker!ResultKeys : value[k] # Worker!None => value'[k] # Worker!None
  PROVE  RunInv(r)'
<1>1. StoreOf(r)' = StoreOf(r)
  BY DEF StoreOf, Worker!Handler
<1>2. RunNow(r)' <=> RunNow(r)
  BY DEF RunNow, KindsNow
<1>3. ASSUME r # Worker!NoRun PROVE StoreOf(r) \in Worker!ResultKeys
  BY <1>3, StoresAt DEF RunInv
<1> QED BY <1>1, <1>2, <1>3 DEF RunInv

LEMMA NoRunIs ==
  /\ Worker!NothingRead \in Records /\ Worker!NothingRead.assessed = "none"
  /\ Worker!NoRun \in Runs /\ Worker!NoRun.task = 0 /\ RunInv(Worker!NoRun)
<1>1. Worker!NothingRead \in Records /\ Worker!NothingRead.assessed = "none"
  BY DEF Worker!NothingRead, Records, Values
<1>2. Worker!NoRun = [task |-> 0, kind |-> "none", id |-> "none", step |-> "idle",
                      read |-> Worker!NothingRead]
  BY DEF Worker!NoRun
<1> QED BY <1>1, <1>2 DEF Runs, RunInv, Readable

\* A task begins as a run of its number, and moves on as one of it.
LEMMA BeginsRun ==
  ASSUME WorkInv, NEW t, Given(t), UNCHANGED <<role, value>>, NEW b, b = Worker!Begin(t)
  PROVE  RunInv(b)' /\ b.task = t.task
<1>1. /\ b = [task |-> t.task, kind |-> Worker!KindOf(role, t.kind), id |-> t.id, step |-> "mark",
               read |-> Worker!NothingRead]
      /\ t.task \in Nat /\ t.id \in Worker!Ids
  BY DEF Worker!Begin, Given
<1>2. Worker!KindOf(role, t.kind) \in KindsNow
  BY DEF Worker!KindOf, KindsNow, AnalystKinds, OtherKinds
<1>3. Worker!KindOf(role, t.kind) \in AnalystKinds \cup OtherKinds
  BY <1>2 DEF KindsNow
<1>4. /\ b \in Runs /\ b.step = "mark" /\ RunNow(b) /\ b.task = t.task
      /\ b.read.assessed = "none"
  BY <1>1, <1>2, <1>3, NoRunIs DEF Runs, RunSteps, RunNow
<1> QED BY <1>4 DEF RunInv, RunNow, KindsNow, Readable

LEMMA MovesRun ==
  ASSUME WorkInv, NEW r, RunInv(r), r # Worker!NoRun, NEW next, Worker!Step(r, next),
         next \notin {"done", "error"}, role' = role, NEW q, q = Worker!Moved(r, next)
  PROVE  RunInv(q)' /\ q.task = r.task
<1>1. next \in RunSteps /\ r \in Runs /\ RunNow(r)
  BY DEF Worker!Step, Worker!Mark, Worker!Waited, Worker!Get, Worker!GetNext, Worker!Store,
         Worker!Notify, Worker!Raises, RunInv, RunSteps
<1>2. PICK read : /\ q = [r EXCEPT !.step = next, !.read = read]
                  /\ read \in Records /\ Readable(read.assessed, read.security)
  <2>1. r.read \in Records /\ Readable(r.read.assessed, r.read.security)
    BY <1>1 DEF Runs, RunInv
  <2>2. /\ assessed \in {"none", "low", "high"} /\ Readable(assessed, value[Worker!Key("security")])
        /\ \A k \in {"report", "security", "performance"} : value[Worker!Key(k)] \in Values
    BY KeysOfResults DEF WorkInv, RecordInv, AnalystKinds
  <2>3. CASE r.step \notin DOMAIN Worker!GetNext
    BY <2>1, <2>3 DEF Worker!Moved, Runs
  <2>4. CASE r.step = "security"
    <3>1. PICK read : read = [r.read EXCEPT !.security = value[Worker!Key("security")],
                                            !.assessed = assessed]
      OBVIOUS
    <3>2. /\ read \in Records /\ read.assessed = assessed
          /\ read.security = value[Worker!Key("security")]
      BY <2>1, <2>2, <3>1 DEF Records
    <3>3. q = [r EXCEPT !.step = next, !.read = read]
      BY <1>1, <2>4, <3>1 DEF Worker!Moved, Worker!GetNext, Runs
    <3> QED BY <2>2, <3>2, <3>3
  <2>5. CASE r.step \in {"report", "performance"}
    <3>1. PICK read : read = [r.read EXCEPT ![r.step] = value[Worker!Key(r.step)]]
      OBVIOUS
    <3>2. /\ read \in Records /\ read.assessed = r.read.assessed
          /\ read.security = r.read.security
      BY <2>1, <2>2, <2>5, <3>1 DEF Records
    <3>3. q = [r EXCEPT !.step = next, !.read = read]
      BY <1>1, <2>5, <3>1 DEF Worker!Moved, Worker!GetNext, Runs
    <3> QED BY <2>1, <3>2, <3>3
  <2> QED BY <2>3, <2>4, <2>5 DEF Worker!GetNext
<1>3. /\ q \in Runs /\ q.step = next /\ q.kind = r.kind /\ q.id = r.id /\ q.task = r.task
      /\ Readable(q.read.assessed, q.read.security)
  BY <1>1, <1>2 DEF Runs
<1>4. next = "notify" => value'[StoreOf(r)] # Worker!None
  BY <1>1, StepKeeps
<1>5. StoreOf(q)' = StoreOf(r)
  BY <1>3 DEF StoreOf, Worker!Handler
<1>6. RunNow(q)'
  BY <1>1, <1>3 DEF RunNow, KindsNow
<1>7. RunInv(q)'
  BY <1>3, <1>4, <1>5, <1>6 DEF RunInv, Readable
<1> QED BY <1>3, <1>7

LEMMA WorkInvInit == Worker!Init => WorkInv
<1> SUFFICES ASSUME Worker!Init PROVE WorkInv
  OBVIOUS
<1>1. value \in [Worker!ResultKeys -> Values]
  BY DEF Worker!Init, Values
<1>2. RecordInv
  BY <1>1 DEF Worker!Init, RecordInv, Readable, Worker!HighRiskStops
<1> QED BY <1>2, NoRunIs DEF Worker!Init, WorkInv, Worker!TasksKept

\* Steps of the callers, the process and its loop leave the runs and the records alone.
LEMMA CallersKeep ==
  ASSUME WorkInv, NEW kind \in Kinds, NEW id \in Worker!Ids,
         Worker!Publish(kind, id) \/ Worker!Send(kind, id)
  PROVE  WorkInv'
<1> DEFINE t == Worker!Task(kind, id)
<1>1. Given(t) /\ t.task = tasks + 1 /\ tasks \in Nat
  BY DEF WorkInv, Given, Worker!Task
<1> HIDE DEF t
<1>2. UNCHANGED <<role, proc, child, inLoop, value, notified, assessed, verdicts, answered>>
  BY DEF Worker!Publish, Worker!Send, Worker!control, Worker!records
<1>3. /\ tasks' = tasks + 1
      /\ \/ channel' \subseteq channel \cup {t} /\ UNCHANGED <<broker, sent>>
         \/ broker' = broker \cup {t} /\ sent' = sent \cup {tasks + 1} /\ UNCHANGED channel
  BY DEF Worker!Publish, Worker!Send, t
<1>4. /\ tasks' \in Nat /\ 0 \notin sent'
      /\ \A u \in channel' \cup broker' : Given(u)
  BY <1>1, <1>3 DEF WorkInv
<1>5. Worker!TasksKept'
  BY <1>1, <1>2, <1>3 DEF WorkInv, Worker!TasksKept
<1>6. RecordInv'
  BY <1>2 DEF WorkInv, RecordInv, Worker!HighRiskStops
<1>7. (\A c \in Children : RunInv(child[c])') /\ RunInv(inLoop)'
  BY <1>2, OthersRun DEF WorkInv
<1> QED BY <1>2, <1>4, <1>5, <1>6, <1>7 DEF WorkInv

\* What the loop and the process do to the runs: nothing, or end them all.
LEMMA LoopKeeps ==
  ASSUME WorkInv,
         \/ Worker!Signal \/ Worker!SignalHandler \/ Worker!Listen
         \/ \E r \in Roles : Worker!Start(r)
  PROVE  WorkInv'
<1>1. /\ UNCHANGED <<channel, broker, child, inLoop, value, notified, assessed, verdicts, answered,
                     sent, tasks>>
      /\ proc' # "off" \/ proc' = proc
      /\ role' = role \/ proc = "off"
  BY DEF Worker!Signal, Worker!SignalHandler, Worker!Listen, Worker!Start, Worker!records,
         Worker!history
<1>2. RecordInv'
  BY <1>1 DEF WorkInv, RecordInv, Worker!HighRiskStops
<1>3. Worker!TasksKept'
  BY <1>1 DEF WorkInv, Worker!TasksKept
<1>4. (\A c \in Children : RunInv(child[c])') /\ RunInv(inLoop)'
  <2>1. CASE role' = role
    BY <1>1, <2>1, OthersRun DEF WorkInv
  <2>2. CASE proc = "off"
    BY <1>1, <2>2, NoRunIs DEF WorkInv, RunInv
  <2> QED BY <1>1, <2>1, <2>2
<1>5. proc' = "off" => inLoop' = Worker!NoRun /\ \A c \in Children : child'[c] = Worker!NoRun
  BY <1>1 DEF WorkInv
<1>6. tasks' \in Nat /\ 0 \notin sent' /\ \A t \in channel' \cup broker' : Given(t)
  BY <1>1 DEF WorkInv
<1> QED BY <1>1, <1>2, <1>3, <1>4, <1>5, <1>6 DEF WorkInv

\* What its workers had not acknowledged goes back to the queue.
LEMMA EndsKeep == ASSUME WorkInv, NEW p, Worker!Ended(p) PROVE WorkInv'
<1>1. /\ UNCHANGED <<role, value, notified, assessed, verdicts, answered, sent, tasks>>
      /\ channel' = {} /\ inLoop' = Worker!NoRun /\ child' = [c \in Children |-> Worker!NoRun]
      /\ broker' = broker \cup {[task |-> t.task, kind |-> t.kind, id |-> t.id] :
                                  t \in Worker!Running}
  BY DEF Worker!Ended, Worker!HandBack, Worker!records
<1>2. \A t \in Worker!Running : t.id \in Worker!Ids /\ t.task \in Nat
  BY DEF Worker!Running, WorkInv, RunInv, RunNow, Runs
<1>3. \A t \in broker' : Given(t)
  BY <1>1, <1>2 DEF WorkInv, Given
<1>4. RecordInv'
  BY <1>1 DEF WorkInv, RecordInv, Worker!HighRiskStops
<1>5. Worker!TasksKept'
  <2>1. ASSUME NEW s \in sent PROVE s \in answered \/ \E t \in broker' : s = t.task
    <3>1. s # 0 /\ (s \in answered \/ (\E t \in broker : s = t.task)
                     \/ \E c \in Children : s = child[c].task)
      BY DEF WorkInv, Worker!TasksKept
    <3>2. CASE \E c \in Children : s = child[c].task
      <4>1. PICK c \in Children : s = child[c].task
        BY <3>2
      <4>2. child[c] \in Worker!Running
        BY <3>1, <4>1, NoRunIs DEF Worker!Running
      <4>3. [task |-> child[c].task, kind |-> child[c].kind, id |-> child[c].id] \in broker'
        BY <1>1, <4>2
      <4> QED BY <4>1, <4>3
    <3> QED BY <1>1, <3>1, <3>2
  <2> QED BY <1>1, <2>1 DEF Worker!TasksKept
<1>6. \A r : r = Worker!NoRun => RunInv(r)'
  BY NoRunIs DEF RunInv
<1> QED BY <1>1, <1>3, <1>4, <1>5, <1>6 DEF WorkInv

LEMMA TakeKeeps == ASSUME WorkInv, NEW t, t \in channel, Worker!Take(t) PROVE WorkInv'
<1>1. /\ UNCHANGED <<role, proc, broker, child, value, notified, assessed, verdicts, answered, sent,
                     tasks>>
      /\ channel' = channel \ {t} /\ inLoop' = Worker!Begin(t) /\ proc = "running"
  BY DEF Worker!Take, Worker!records, Worker!history
<1>2. Given(t)
  BY DEF WorkInv
<1>3. RunInv(inLoop)'
  BY <1>1, <1>2, BeginsRun
<1>4. \A c \in Children : RunInv(child[c])'
  BY <1>1, OthersRun DEF WorkInv
<1>5. RecordInv'
  BY <1>1 DEF WorkInv, RecordInv, Worker!HighRiskStops
<1>6. Worker!TasksKept'
  BY <1>1 DEF WorkInv, Worker!TasksKept
<1> QED BY <1>1, <1>3, <1>4, <1>5, <1>6 DEF WorkInv

LEMMA ConsumeKeeps ==
  ASSUME WorkInv, NEW c \in Children, NEW t, t \in broker, Worker!Consume(c, t) PROVE WorkInv'
<1>1. /\ UNCHANGED <<role, proc, channel, inLoop, value, notified, assessed, verdicts, answered,
                     sent, tasks>>
      /\ broker' = broker \ {t} /\ child' = [child EXCEPT ![c] = Worker!Begin(t)]
      /\ proc = "running" /\ child[c] = Worker!NoRun
  BY DEF Worker!Consume, Worker!records, Worker!history, Worker!control
<1>2. Given(t)
  BY DEF WorkInv
<1>3. /\ child' = [d \in Children |-> child'[d]] /\ DOMAIN child' = Children
      /\ \A d \in Children : child'[d] = IF d = c THEN Worker!Begin(t) ELSE child[d]
  BY <1>1 DEF WorkInv
<1>4. \A b : b = Worker!Begin(t) => RunInv(b)' /\ b.task = t.task
  BY <1>1, <1>2, BeginsRun
<1>5. \A d \in Children : RunInv(child[d])'
  BY <1>1, <1>3, <1>4, OthersRun DEF WorkInv
<1>6. RunInv(inLoop)'
  BY <1>1, OthersRun DEF WorkInv
<1>7. RecordInv'
  BY <1>1 DEF WorkInv, RecordInv, Worker!HighRiskStops
<1>8. Worker!TasksKept'
  <2>1. ASSUME NEW s \in sent
        PROVE  s \in answered \/ (\E u \in broker' : s = u.task)
                 \/ \E d \in Children : s = child'[d].task
    <3>1. s # 0 /\ (s \in answered \/ (\E u \in broker : s = u.task)
                     \/ \E d \in Children : s = child[d].task)
      BY DEF WorkInv, Worker!TasksKept
    <3>2. CASE \E u \in broker : s = u.task
      BY <1>1, <1>3, <1>4, <3>2
    <3>3. CASE \E d \in Children : s = child[d].task
      BY <1>1, <1>3, <3>1, <3>3, NoRunIs
    <3> QED BY <3>1, <3>2, <3>3
  <2> QED BY <1>1, <2>1 DEF Worker!TasksKept
<1> QED BY <1>1, <1>3, <1>5, <1>6, <1>7, <1>8 DEF WorkInv

LEMMA ListenerKeeps ==
  ASSUME WorkInv, NEW next, Worker!ListenerStep(next) PROVE WorkInv'
<1>1. /\ UNCHANGED <<role, proc, channel, broker, child, answered, sent, tasks>>
      /\ Worker!Step(inLoop, next)
      /\ IF next \in {"done", "error"} THEN inLoop' = Worker!NoRun
         ELSE inLoop' = Worker!Moved(inLoop, next)
  BY DEF Worker!ListenerStep, Worker!history
<1>2. inLoop # Worker!NoRun /\ RunInv(inLoop)
  BY <1>1 DEF WorkInv, Worker!NoRun, Worker!Step, Worker!Mark, Worker!Waited, Worker!Store,
              Worker!Get, Worker!GetNext, Worker!Notify, Worker!Raises
<1>3. RunNow(inLoop)
  BY <1>2 DEF RunInv
<1>4. /\ RecordInv'
      /\ \A k \in Worker!ResultKeys : value[k] # Worker!None => value'[k] # Worker!None
  BY <1>1, <1>2, <1>3, StepKeeps
<1>5. RunInv(inLoop)'
  <2>1. CASE next \in {"done", "error"}
    BY NoRunIs, <1>1, <2>1 DEF RunInv
  <2>2. CASE next \notin {"done", "error"}
    BY <1>1, <1>2, <2>2, MovesRun
  <2> QED BY <2>1, <2>2
<1>6. \A c \in Children : RunInv(child[c])'
  BY <1>1, <1>4, OthersRun DEF WorkInv
<1>7. Worker!TasksKept'
  BY <1>1 DEF WorkInv, Worker!TasksKept
<1>8. proc' # "off"
  BY <1>1, <1>2 DEF WorkInv
<1> QED BY <1>1, <1>4, <1>5, <1>6, <1>7, <1>8 DEF WorkInv

LEMMA ChildKeeps ==
  ASSUME WorkInv, NEW c \in Children, NEW next, Worker!ChildStep(c, next) PROVE WorkInv'
<1>1. /\ UNCHANGED <<role, proc, channel, broker, inLoop, sent, tasks>>
      /\ child[c] # Worker!NoRun /\ Worker!Step(child[c], next)
      /\ IF next \in {"done", "error"}
         THEN child' = [child EXCEPT ![c] = Worker!NoRun]
                /\ answered' = answered \cup {child[c].task}
         ELSE child' = [child EXCEPT ![c] = Worker!Moved(child[c], next)] /\ UNCHANGED answered
  BY DEF Worker!ChildStep, Worker!history, Worker!control
<1>2. RunInv(child[c]) /\ RunNow(child[c])
  BY <1>1 DEF WorkInv, RunInv
<1>3. /\ RecordInv'
      /\ \A k \in Worker!ResultKeys : value[k] # Worker!None => value'[k] # Worker!None
  BY <1>1, <1>2, StepKeeps
<1>4. PICK q : q = IF next \in {"done", "error"} THEN Worker!NoRun ELSE Worker!Moved(child[c], next)
  BY Zenon
<1>5. /\ child' = [d \in Children |-> child'[d]] /\ DOMAIN child' = Children
      /\ \A d \in Children : child'[d] = IF d = c THEN q ELSE child[d]
  BY <1>1, <1>4 DEF WorkInv
<1>6. RunInv(q)' /\ (next \notin {"done", "error"} => q.task = child[c].task)
  <2>1. CASE next \in {"done", "error"}
    BY NoRunIs, <1>4, <2>1 DEF RunInv
  <2>2. CASE next \notin {"done", "error"}
    BY <1>1, <1>2, <1>4, <2>2, MovesRun
  <2> QED BY <2>1, <2>2
<1>7. \A d \in Children : RunInv(child[d])'
  BY <1>1, <1>3, <1>5, <1>6, OthersRun DEF WorkInv
<1>8. RunInv(inLoop)'
  BY <1>1, <1>3, OthersRun DEF WorkInv
<1>9. Worker!TasksKept'
  <2>1. ASSUME NEW s \in sent
        PROVE  s \in answered' \/ (\E u \in broker' : s = u.task)
                 \/ \E d \in Children : s = child'[d].task
    <3>1. s \in answered \/ (\E u \in broker : s = u.task) \/ \E d \in Children : s = child[d].task
      BY DEF WorkInv, Worker!TasksKept
    <3>2. CASE next \in {"done", "error"}
      BY <1>1, <1>5, <3>1, <3>2
    <3>3. CASE next \notin {"done", "error"}
      BY <1>1, <1>5, <1>6, <3>1, <3>3
    <3> QED BY <3>2, <3>3
  <2> QED BY <1>1, <2>1 DEF Worker!TasksKept
<1>10. proc' # "off"
  BY <1>1 DEF WorkInv
<1> QED BY <1>1, <1>3, <1>5, <1>7, <1>8, <1>9, <1>10 DEF WorkInv

LEMMA WorkInvStep == WorkInv /\ [Worker!Next]_workerVars => WorkInv'
<1> SUFFICES ASSUME WorkInv, [Worker!Next]_workerVars PROVE WorkInv'
  OBVIOUS
<1>1. CASE UNCHANGED workerVars
  <2>1. RecordInv'
    BY <1>1 DEF workerVars, WorkInv, RecordInv, Worker!HighRiskStops
  <2>2. (\A c \in Children : RunInv(child[c])') /\ RunInv(inLoop)'
    BY <1>1, OthersRun DEF workerVars, WorkInv
  <2> QED BY <1>1, <2>1, <2>2 DEF workerVars, WorkInv, Worker!TasksKept
<1>2. CASE Worker!Stop \/ Worker!Crash
  BY <1>2, EndsKeep DEF Worker!Stop, Worker!Crash
<1> QED BY <1>1, <1>2, CallersKeep, LoopKeeps, TakeKeeps, ConsumeKeeps, ListenerKeeps, ChildKeeps
     DEF Worker!Next

\* Whatever crashes, signals and workers that overlap: no task that was queued is lost,
\* no result is announced before it is stored, and no report lets a release go over a high
\* risk that was stored when it read it (agents/base.py, agents/analyst/qa_analyst.py).
THEOREM WorkHolds == Spec => []WorkKept
<1>1. Init => WorkInv
  BY WorkInvInit DEF Init
<1>2. WorkInv /\ [Next]_vars => WorkInv'
  BY WorkInvStep, PartsApart
<1>3. WorkInv => WorkKept
  BY DEF WorkInv, RecordInv, Worker!NotifiedStored, WorkKept, In
<1> QED BY <1>1, <1>2, <1>3, PTL DEF Spec

----------------------------------------------------------------------------
(* The dashboard                                                            *)

WatchSteps == {"idle", "status", "count", "keep", "answer"}
Readings   == [step : WatchSteps, value : Dash!Shown \cup {"none"}, errors : Int,
               taken : 0..MaxRead]

\* A reading in hand is as old as it has taken, at most, and one that is cached no older
\* than the rest of its time in the cache leaves room for.
StatusInv ==
  /\ status \in Dash!AgentStates
  /\ lastTrue \in [Dash!Shown -> Nat] /\ lastTrue[Dash!Display(status)] = 0
  /\ watch \in [Watchers -> Readings]
  /\ cache # Dash!NoCache =>
       /\ cache \in [value : Dash!Shown, ticks : 0..CacheTime]
       /\ lastTrue[cache.value] + cache.ticks <= Dash!Window
  /\ \A w \in Watchers : watch[w].step \in {"count", "keep", "answer"} =>
       /\ watch[w].value \in Dash!Shown /\ lastTrue[watch[w].value] <= Dash!Window
       /\ watch[w].step # "answer" => lastTrue[watch[w].value] <= watch[w].taken

\* A session that stayed is listed, as busy if it stayed so, or its key is yet to be read;
\* an entry is of a session that was there, and of one reading of its key.
Entries == [id : Sessions, nth : 1..2, status : Dash!SessionStates]
BusyEntries(L) == {e \in L : e.status \in Dash!Active}
ListType ==
  /\ session \in [Sessions -> Dash!SessionStates]
  /\ sessionScan \in [phase : {"idle", "scan", "get", "listed"}, left : [Sessions -> 0..2],
                      list : SUBSET Entries]
  /\ IsFiniteSet(sessionScan.list)
  /\ pass \in [stayed : SUBSET Sessions, busy : SUBSET Sessions, seen : SUBSET Sessions,
               whole : BOOLEAN, twice : BOOLEAN]
Listed(s, L) == \E e \in L : e.id = s /\ (s \in pass.busy => e.status \in Dash!Active)
PassInv ==
  /\ pass.busy \subseteq pass.stayed
  /\ pass.stayed \subseteq Dash!There(session) /\ pass.busy \subseteq Dash!Busy(session)
  /\ sessionScan.phase \in {"scan", "get"} => Dash!There(session) \subseteq pass.seen
  /\ sessionScan.phase \in {"get", "listed"} /\ pass.whole =>
       \A s \in pass.stayed : sessionScan.left[s] > 0 \/ Listed(s, sessionScan.list)
  /\ sessionScan.phase \in {"idle", "scan"} => sessionScan.list = {}
  /\ sessionScan.phase = "idle" => metrics = Dash!NoCount /\ ~pass.whole
EntryInv ==
  /\ \A e \in sessionScan.list : e.id \in pass.seen /\ e.nth > sessionScan.left[e.id]
  /\ \A e, f \in sessionScan.list : e.id = f.id /\ e.nth = f.nth => e = f
  /\ sessionScan.phase = "get" /\ ~pass.twice => \A s \in Sessions : sessionScan.left[s] < 2
  /\ ~pass.twice => \A e \in sessionScan.list : e.nth = 1
CountInv ==
  sessionScan.phase = "listed" =>
    /\ metrics.total = Cardinality(sessionScan.list)
    /\ metrics.active = Cardinality(BusyEntries(sessionScan.list))
    /\ pass.whole => \A s \in Sessions : sessionScan.left[s] = 0
ListInv == ListType /\ PassInv /\ EntryInv /\ CountInv

DashInv == StatusInv /\ ListInv

LEMMA NoScanIs ==
  /\ Dash!NoScan \in [phase : {"idle"}, left : [Sessions -> 0..2], list : {{}}]
  /\ Dash!NoScan.left = [s \in Sessions |-> 0]
  /\ Dash!NoPass \in [stayed : {{}}, busy : {{}}, seen : {{}}, whole : {FALSE}, twice : {FALSE}]
  /\ IsFiniteSet({})
BY FS_EmptySet DEF Dash!NoScan, Dash!NoPass

LEMMA DashInvInit == Dash!Init => DashInv
<1> SUFFICES ASSUME Dash!Init PROVE DashInv
  OBVIOUS
<1> USE DEF Dash!Init
<1>1. StatusInv
  <2>1. status = "absent" /\ Dash!Display(status) = "offline" /\ cache = Dash!NoCache
    BY DEF Dash!Display
  <2>2. /\ lastTrue = [v \in Dash!Shown |-> IF v = "offline" THEN 0 ELSE Dash!Window + 1]
        /\ Dash!Window + 1 \in Nat
    BY SiteCache DEF Dash!Window
  <2> HIDE DEF Dash!Init
  <2>3. lastTrue \in [Dash!Shown -> Nat] /\ lastTrue[Dash!Display(status)] = 0
    BY <2>1, <2>2 DEF Dash!Shown
  <2>4. watch = [w \in Watchers |-> Dash!Idle]
    BY DEF Dash!Init
  <2>5. Dash!Idle \in Readings /\ Dash!Idle.step = "idle"
    BY SiteCache DEF Dash!Idle, Readings, WatchSteps
  <2> QED BY <2>1, <2>3, <2>4, <2>5 DEF StatusInv, Dash!AgentStates
<1>2. ListInv
  <2>1. /\ sessionScan = Dash!NoScan /\ pass = Dash!NoPass
        /\ metrics = Dash!NoCount /\ session \in [Sessions -> Dash!SessionStates]
    BY DEF Dash!SessionStates
  <2> HIDE DEF Dash!Init
  <2> QED BY <2>1, NoScanIs DEF ListInv, ListType, PassInv, EntryInv, CountInv
<1> QED BY <1>1, <1>2 DEF DashInv

\* What a reading's step leaves of the statuses: the others' readings, and the cache.
LEMMA WatchMoves ==
  ASSUME StatusInv, NEW w \in Watchers, NEW r \in Readings,
         watch' = [watch EXCEPT ![w] = r], UNCHANGED <<status, lastTrue>>,
         r.step \in {"count", "keep", "answer"} =>
           /\ r.value \in Dash!Shown /\ lastTrue[r.value] <= Dash!Window
           /\ r.step # "answer" => lastTrue[r.value] <= r.taken,
         cache' # Dash!NoCache =>
           /\ cache' \in [value : Dash!Shown, ticks : 0..CacheTime]
           /\ lastTrue[cache'.value] + cache'.ticks <= Dash!Window
  PROVE  StatusInv'
<1>1. watch' \in [Watchers -> Readings]
  BY DEF StatusInv
<1>2. \A v \in Watchers : v # w => watch'[v] = watch[v]
  BY DEF StatusInv
<1>3. watch'[w] = r
  BY DEF StatusInv
<1> QED
  BY <1>1, <1>2, <1>3 DEF StatusInv, Dash!Display, Dash!Window, Dash!NoCache, Dash!Shown

LEMMA AgentsSideKept ==
  ASSUME StatusInv, UNCHANGED <<status, cache, watch, lastTrue>> PROVE StatusInv'
BY DEF StatusInv, Dash!Display, Dash!Window, Dash!NoCache, Dash!Shown

LEMMA SessionsSideKept ==
  ASSUME ListInv, UNCHANGED <<session, sessionScan, pass, metrics>> PROVE ListInv'
BY DEF ListInv, ListType, PassInv, EntryInv, CountInv, Listed

LEMMA StatusReported ==
  ASSUME StatusInv, NEW s \in Dash!AgentStates, Dash!Report(s) PROVE StatusInv'
<1>1. /\ status' = s /\ lastTrue' = [lastTrue EXCEPT ![Dash!Display(s)] = 0]
      /\ UNCHANGED <<cache, watch>>
  BY DEF Dash!Report
<1>2. Dash!Display(s) \in Dash!Shown /\ Dash!Display(status)' = Dash!Display(s)
  BY <1>1 DEF Dash!Display, Dash!Shown, Dash!AgentStates
<1>3. /\ lastTrue' \in [Dash!Shown -> Nat] /\ lastTrue'[Dash!Display(s)] = 0
      /\ \A v \in Dash!Shown : lastTrue'[v] <= lastTrue[v]
  BY <1>1, <1>2 DEF StatusInv
<1>4. cache # Dash!NoCache => lastTrue'[cache.value] + cache.ticks <= Dash!Window
  BY <1>3, SiteCache DEF StatusInv, Dash!Window
<1>5. ASSUME NEW w \in Watchers, watch[w].step \in {"count", "keep", "answer"}
      PROVE  /\ lastTrue'[watch[w].value] <= Dash!Window
             /\ watch[w].step # "answer" => lastTrue'[watch[w].value] <= watch[w].taken
  BY <1>3, <1>5, SiteCache DEF StatusInv, Dash!Window, Readings
<1> QED
  BY <1>1, <1>2, <1>3, <1>4, <1>5 DEF StatusInv, Dash!Window, Dash!NoCache, Dash!Shown

\* Time passes for what was read and for what is cached alike.
LEMMA DashTickKeeps == ASSUME StatusInv, Dash!Tick PROVE StatusInv'
<1>a. CacheTime \in Nat /\ MaxRead \in Nat /\ Dash!Window = CacheTime + MaxRead
  BY SiteCache DEF Dash!Window
<1>1. /\ \A w \in Watchers : watch[w].step # "answer"
      /\ \A w \in Watchers : watch[w].step # "idle" => watch[w].taken < MaxRead
      /\ status' = status
  BY DEF Dash!Tick
<1>2. /\ lastTrue' \in [Dash!Shown -> Nat] /\ lastTrue'[Dash!Display(status)] = 0
      /\ \A v \in Dash!Shown : lastTrue[v] <= Dash!Window => lastTrue'[v] <= lastTrue[v] + 1
  BY <1>a DEF Dash!Tick, StatusInv, Dash!Display, Dash!Shown, Dash!AgentStates
<1>3. cache' # Dash!NoCache =>
        /\ cache' \in [value : Dash!Shown, ticks : 0..CacheTime]
        /\ lastTrue'[cache'.value] + cache'.ticks <= Dash!Window
  <2> SUFFICES ASSUME cache' # Dash!NoCache
               PROVE  /\ cache' \in [value : Dash!Shown, ticks : 0..CacheTime]
                      /\ lastTrue'[cache'.value] + cache'.ticks <= Dash!Window
    OBVIOUS
  <2>1. ~(cache.ticks <= 1) /\ cache' = [cache EXCEPT !.ticks = @ - 1]
    BY DEF Dash!Tick
  <2>2. cache # Dash!NoCache
    BY <2>1 DEF Dash!NoCache
  <2>3. cache \in [value : Dash!Shown, ticks : 0..CacheTime]
        /\ lastTrue[cache.value] + cache.ticks <= Dash!Window
    BY <2>2 DEF StatusInv
  <2>4. cache'.value = cache.value /\ cache'.ticks = cache.ticks - 1
        /\ cache' \in [value : Dash!Shown, ticks : 0..CacheTime]
    BY <1>a, <2>1, <2>3
  <2>5. lastTrue[cache.value] \in Nat /\ lastTrue'[cache.value] \in Nat
    BY <1>2, <2>3 DEF StatusInv
  <2> QED BY <1>a, <1>2, <2>3, <2>4, <2>5
<1>4. watch' = [w \in Watchers |-> IF watch[w].step \in {"count", "keep"}
                                  THEN [watch[w] EXCEPT !.taken = @ + 1] ELSE watch[w]]
  BY DEF Dash!Tick
<1>5. ASSUME NEW w \in Watchers
      PROVE  /\ watch'[w] \in Readings /\ watch'[w].step = watch[w].step
             /\ watch'[w].value = watch[w].value
             /\ watch[w].step \in {"count", "keep"} => watch'[w].taken = watch[w].taken + 1
  BY <1>a, <1>1, <1>4 DEF StatusInv, Readings
<1>6. ASSUME NEW w \in Watchers, watch'[w].step \in {"count", "keep", "answer"}
      PROVE  /\ watch'[w].value \in Dash!Shown /\ lastTrue'[watch'[w].value] <= Dash!Window
             /\ lastTrue'[watch'[w].value] <= watch'[w].taken
  <2>1. watch[w].step \in {"count", "keep"} /\ watch[w].value \in Dash!Shown
        /\ lastTrue[watch[w].value] <= watch[w].taken /\ lastTrue[watch[w].value] <= Dash!Window
    BY <1>1, <1>5, <1>6 DEF StatusInv
  <2>2. watch[w].taken \in 0..MaxRead /\ watch[w].taken < MaxRead
    BY <1>1, <2>1 DEF StatusInv, Readings
  <2>3. lastTrue[watch[w].value] \in Nat /\ lastTrue'[watch[w].value] \in Nat
    BY <1>2, <2>1 DEF StatusInv
  <2> QED BY <1>a, <1>2, <1>5, <2>1, <2>2, <2>3
<1>7. watch' \in [Watchers -> Readings]
  BY <1>4, <1>5
<1> QED
  BY <1>1, <1>2, <1>3, <1>6, <1>7 DEF StatusInv, Dash!Window, Dash!NoCache, Dash!Shown,
     Dash!Display

\* A reading.
LEMMA ReadingKeeps ==
  ASSUME StatusInv, NEW w \in Watchers,
         \/ Dash!GetCached(w) \/ Dash!MissCache(w) \/ Dash!GetStatus(w)
         \/ Dash!CountTasks(w) \/ Dash!KeepCached(w) \/ Dash!Answered(w)
  PROVE  StatusInv'
<1>a. CacheTime \in Nat /\ MaxRead \in Nat /\ Dash!Window = CacheTime + MaxRead
  BY SiteCache DEF Dash!Window
<1>b. watch[w] \in Readings /\ watch \in [Watchers -> Readings] /\ status \in Dash!AgentStates
      /\ lastTrue \in [Dash!Shown -> Nat]
  BY DEF StatusInv
<1>c. cache # Dash!NoCache =>
        /\ cache \in [value : Dash!Shown, ticks : 0..CacheTime]
        /\ lastTrue[cache.value] + cache.ticks <= Dash!Window
  BY DEF StatusInv
<1> DEFINE moved(s, v) == [watch[w] EXCEPT !.step = s, !.value = v]
<1>d. ASSUME NEW s \in WatchSteps, NEW v \in Dash!Shown \cup {"none"}, Dash!Read(w, s, v)
      PROVE  /\ moved(s, v) \in Readings /\ moved(s, v).step = s /\ moved(s, v).value = v
             /\ moved(s, v).taken = watch[w].taken
             /\ watch' = [watch EXCEPT ![w] = moved(s, v)]
  BY <1>b, <1>d DEF Readings, Dash!Read
<1> HIDE DEF moved
<1>1. CASE Dash!GetCached(w)
  <2>1. cache # Dash!NoCache /\ Dash!Read(w, "answer", cache.value)
        /\ UNCHANGED <<status, cache, lastTrue>>
    BY <1>1 DEF Dash!GetCached
  <2>2. cache.value \in Dash!Shown /\ lastTrue[cache.value] <= Dash!Window
    BY <1>a, <1>b, <1>c, <2>1
  <2> QED BY <1>c, <1>d, <2>1, <2>2, WatchMoves DEF WatchSteps
<1>2. CASE Dash!MissCache(w)
  BY <1>2, <1>c, <1>d, WatchMoves DEF Dash!MissCache, WatchSteps
<1>3. CASE Dash!GetStatus(w)
  <2>1. UNCHANGED <<status, cache, lastTrue>>
        /\ IF status = "absent" THEN Dash!Read(w, "answer", "offline")
           ELSE Dash!Read(w, "count", status)
    BY <1>3 DEF Dash!GetStatus
  <2>2. lastTrue[Dash!Display(status)] = 0 /\ watch[w].taken \in 0..MaxRead
    BY <1>b DEF StatusInv, Readings
  <2>3. CASE status = "absent"
    <3>1. "offline" \in Dash!Shown /\ lastTrue["offline"] <= Dash!Window
      BY <1>a, <2>2, <2>3 DEF Dash!Display, Dash!Shown
    <3>2. Dash!Read(w, "answer", "offline")
      BY <2>1, <2>3
    <3> QED BY <1>c, <1>d, <2>1, <3>1, <3>2, WatchMoves DEF WatchSteps
  <2>4. CASE status # "absent"
    <3>1. status \in Dash!Shown /\ lastTrue[status] <= Dash!Window
          /\ lastTrue[status] <= watch[w].taken
      BY <1>a, <1>b, <2>2, <2>4 DEF Dash!Display, Dash!Shown, Dash!AgentStates
    <3>2. Dash!Read(w, "count", status)
      BY <2>1, <2>4
    <3> QED BY <1>c, <1>d, <2>1, <3>1, <3>2, WatchMoves DEF WatchSteps
  <2> QED BY <2>3, <2>4
<1>4. CASE Dash!CountTasks(w)
  <2> DEFINE r == [watch[w] EXCEPT !.step = "keep", !.errors = Dash!ErrorRate]
  <2>1. watch[w].step = "count" /\ UNCHANGED <<status, cache, lastTrue>>
        /\ watch' = [watch EXCEPT ![w] = r]
    BY <1>4, <1>b, Zenon DEF Dash!CountTasks
  <2>2. Dash!ErrorRate \in Int
    <3> DEFINE over == Dash!Terminal
               bad  == Dash!With({"failed"})
    <3>1. IsFiniteSet(over) /\ IsFiniteSet(bad)
      BY SiteCache, FS_Subset DEF Dash!Terminal, Dash!With
    <3>2. /\ Cardinality(over) \in Nat /\ Cardinality(bad) \in Nat
          /\ over # {} => Cardinality(over) # 0
      BY <3>1, FS_CardinalityType, FS_EmptySet
    <3>3. Dash!ErrorRate = IF over = {} THEN 0
                                ELSE (100 * Cardinality(bad)) \div Cardinality(over)
      BY DEF Dash!ErrorRate, Dash!Cardinality, Cardinality
    <3> HIDE DEF over, bad
    <3> QED BY <3>2, <3>3
  <2>3. r \in Readings /\ r.step = "keep" /\ r.value = watch[w].value /\ r.taken = watch[w].taken
    BY <1>b, <2>2, Zenon DEF Readings, WatchSteps
  <2>4. watch[w].value \in Dash!Shown /\ lastTrue[watch[w].value] <= Dash!Window
        /\ lastTrue[watch[w].value] <= watch[w].taken
    BY <2>1 DEF StatusInv
  <2> HIDE DEF r
  <2> QED BY <1>c, <2>1, <2>3, <2>4, WatchMoves, Zenon
<1>5. CASE Dash!KeepCached(w)
  <2>1. watch[w].step = "keep" /\ Dash!Read(w, "answer", watch[w].value)
        /\ cache' = [value |-> watch[w].value, ticks |-> CacheTime] /\ UNCHANGED <<status, lastTrue>>
    BY <1>5 DEF Dash!KeepCached
  <2>2. watch[w].value \in Dash!Shown /\ lastTrue[watch[w].value] <= Dash!Window
        /\ lastTrue[watch[w].value] <= watch[w].taken /\ watch[w].taken \in 0..MaxRead
    BY <1>b, <2>1 DEF StatusInv, Readings
  <2>3. cache' \in [value : Dash!Shown, ticks : 0..CacheTime]
        /\ lastTrue[cache'.value] + cache'.ticks <= Dash!Window
    BY <1>a, <1>b, <2>1, <2>2
  <2> QED BY <1>d, <2>1, <2>2, <2>3, WatchMoves DEF WatchSteps
<1>6. CASE Dash!Answered(w)
  <2>1. watch' = [watch EXCEPT ![w] = Dash!Idle] /\ UNCHANGED <<status, cache, lastTrue>>
    BY <1>6 DEF Dash!Answered
  <2>2. Dash!Idle \in Readings /\ Dash!Idle.step = "idle"
    BY SiteCache DEF Dash!Idle, Readings, WatchSteps
  <2> QED BY <1>c, <2>1, <2>2, WatchMoves, Zenon
<1> QED BY <1>1, <1>2, <1>3, <1>4, <1>5, <1>6

\* The dashboard's pass, and sessions that come and go during it.
LEMMA SessionMoves ==
  ASSUME ListInv, NEW s \in Sessions, NEW v \in Dash!SessionStates,
         Dash!UpdateSession(s, v)
  PROVE  ListInv'
<1>1. /\ session' = [session EXCEPT ![s] = v] /\ UNCHANGED <<sessionScan, metrics>>
      /\ pass' = [pass EXCEPT !.stayed = @ \cap Dash!There(session'),
                              !.busy = @ \cap Dash!Busy(session'),
                              !.seen = @ \cup Dash!There(session')]
  BY DEF Dash!UpdateSession
<1>2. ListType'
  BY <1>1 DEF ListInv, ListType, Dash!There
<1>3. /\ pass'.stayed = pass.stayed \cap Dash!There(session')
      /\ pass'.busy = pass.busy \cap Dash!Busy(session')
      /\ pass'.seen = pass.seen \cup Dash!There(session')
      /\ pass'.whole = pass.whole /\ pass'.twice = pass.twice
      /\ Dash!Busy(session') \subseteq Dash!There(session')
  BY <1>1 DEF ListInv, ListType, Dash!Busy, Dash!There, Dash!Active
<1>4. \A x, L : Listed(x, L) => Listed(x, L)'
  BY <1>3 DEF Listed
<1> QED BY <1>1, <1>2, <1>3, <1>4 DEF ListInv, PassInv, EntryInv, CountInv

LEMMA PassBegins == ASSUME ListInv, Dash!Begin \/ Dash!InfoFails PROVE ListInv'
<1>1. /\ sessionScan.phase = "idle" /\ UNCHANGED <<session, metrics>>
      /\ \/ /\ sessionScan' = [sessionScan EXCEPT !.phase = "scan"]
            /\ pass' = [stayed |-> Dash!There(session), busy |-> Dash!Busy(session),
                        seen |-> Dash!There(session), whole |-> TRUE, twice |-> FALSE]
         \/ sessionScan' = [sessionScan EXCEPT !.phase = "listed"] /\ UNCHANGED pass
  BY DEF Dash!Begin, Dash!InfoFails
<1>2. /\ Dash!Busy(session) \subseteq Dash!There(session)
      /\ Dash!There(session) \subseteq Sessions
  BY DEF Dash!Busy, Dash!There, Dash!Active
<1>3. sessionScan.list = {} /\ metrics = Dash!NoCount /\ Cardinality({}) = 0
  BY <1>1, FS_EmptySet DEF ListInv, PassInv
<1>4. sessionScan'.list = {} /\ BusyEntries({}) = {} /\ sessionScan'.left = sessionScan.left
  BY <1>1, <1>3 DEF ListInv, ListType, BusyEntries
<1>5. ListType'
  <2>1. IsFiniteSet(sessionScan'.list) /\ UNCHANGED session
    BY <1>1, <1>4, FS_EmptySet
  <2>2. pass' \in [stayed : SUBSET Sessions, busy : SUBSET Sessions, seen : SUBSET Sessions,
                  whole : BOOLEAN, twice : BOOLEAN]
    <3>1. CASE Dash!Begin
      BY <1>2, <3>1 DEF Dash!Begin
    <3>2. CASE Dash!InfoFails
      BY <3>2 DEF Dash!InfoFails, ListInv, ListType
    <3> QED BY <3>1, <3>2
  <2>3. sessionScan' \in [phase : {"idle", "scan", "get", "listed"}, left : [Sessions -> 0..2],
                         list : SUBSET Entries]
    BY <1>1 DEF ListInv, ListType
  <2> QED BY <2>1, <2>2, <2>3 DEF ListInv, ListType
<1> QED BY <1>1, <1>2, <1>3, <1>4, <1>5
     DEF ListInv, ListType, PassInv, EntryInv, CountInv, Dash!NoCount

LEMMA ScanKeeps == ASSUME ListInv, Dash!Scan PROVE ListInv'
<1>1. PICK named \in [Sessions -> 0..2] :
        /\ sessionScan.phase = "scan" /\ \A s \in pass.stayed : named[s] > 0
        /\ sessionScan' = [sessionScan EXCEPT !.phase = "get", !.left = named]
        /\ pass' = [pass EXCEPT !.twice = \E s \in Sessions : named[s] = 2]
        /\ UNCHANGED <<session, metrics>>
  BY DEF Dash!Scan
<1>2. ListType' /\ sessionScan'.list = {} /\ \A s \in Sessions : named[s] \in 0..2
  BY <1>1 DEF ListInv, ListType, PassInv
<1>3. /\ pass'.stayed = pass.stayed /\ pass'.busy = pass.busy /\ pass'.seen = pass.seen
      /\ pass'.twice <=> \E s \in Sessions : named[s] = 2
  BY <1>1 DEF ListInv, ListType
<1> QED BY <1>1, <1>2, <1>3 DEF ListInv, ListType, PassInv, EntryInv, CountInv

LEMMA GetKeeps == ASSUME ListInv, NEW s \in Sessions, Dash!Get(s) PROVE ListInv'
<1>1. PICK n, e : n = sessionScan.left[s] /\ e = [id |-> s, nth |-> n, status |-> session[s]]
  OBVIOUS
<1>2. /\ sessionScan.phase = "get" /\ n > 0 /\ UNCHANGED <<session, pass, metrics>>
      /\ sessionScan' = [sessionScan EXCEPT !.left[s] = @ - 1,
            !.list = IF session[s] = "absent" THEN @ ELSE @ \cup {e}]
  BY <1>1 DEF Dash!Get
<1>3. /\ n \in 1..2 /\ e \in Entries /\ e.id = s /\ e.nth = n /\ e.status = session[s]
      /\ sessionScan.list \subseteq Entries
  BY <1>1, <1>2 DEF ListInv, ListType, Entries
<1>4. /\ sessionScan'.phase = "get" /\ sessionScan'.left = [sessionScan.left EXCEPT ![s] = n - 1]
      /\ sessionScan'.list = (IF session[s] = "absent" THEN sessionScan.list
                              ELSE sessionScan.list \cup {e})
  BY <1>1, <1>2 DEF ListInv, ListType
<1>5. ListType'
  <2>1. IsFiniteSet(sessionScan'.list) /\ sessionScan'.list \subseteq Entries
    BY <1>3, <1>4, FS_AddElement DEF ListInv, ListType
  <2>2. sessionScan'.left \in [Sessions -> 0..2]
    BY <1>3, <1>4 DEF ListInv, ListType
  <2> QED BY <1>2, <2>1, <2>2 DEF ListInv, ListType
<1>6. \A x \in Sessions : /\ sessionScan'.left[x] = IF x = s THEN n - 1 ELSE sessionScan.left[x]
                         /\ sessionScan.left[x] \in 0..2
  BY <1>4 DEF ListInv, ListType
<1>7. PassInv'
  <2>1. ASSUME NEW x \in pass.stayed, pass.whole
        PROVE  sessionScan'.left[x] > 0 \/ Listed(x, sessionScan'.list)
    <3>1. x \in Sessions /\ (sessionScan.left[x] > 0 \/ Listed(x, sessionScan.list))
      BY <1>2, <2>1 DEF ListInv, ListType, PassInv
    <3>2. CASE x = s
      BY <1>3, <1>4, <2>1, <3>2
         DEF ListInv, PassInv, Listed, Dash!There, Dash!Busy
    <3>3. CASE x # s
      BY <1>4, <1>6, <3>1, <3>3 DEF Listed
    <3> QED BY <3>2, <3>3
  <2>2. \A x, L : Listed(x, L)' <=> Listed(x, L)
    BY <1>2 DEF Listed
  <2> QED BY <1>2, <1>4, <2>1, <2>2 DEF ListInv, PassInv
<1>8. EntryInv'
  <2>1. session[s] # "absent" => s \in pass.seen
    BY <1>2 DEF ListInv, PassInv, Dash!There
  <2>2. \A f \in sessionScan.list : f.id \in Sessions /\ f.nth > sessionScan'.left[f.id]
                                   /\ f.nth \in 1..2 /\ (f.id = s => f.nth # n)
    BY <1>1, <1>3, <1>6 DEF ListInv, EntryInv, Entries
  <2>3. ~pass.twice => n = 1
    BY <1>1, <1>2, <1>3 DEF ListInv, EntryInv
  <2> QED BY <1>2, <1>3, <1>4, <1>6, <2>1, <2>2, <2>3 DEF ListInv, EntryInv
<1> QED BY <1>4, <1>5, <1>7, <1>8 DEF ListInv, CountInv

LEMMA PassEnds ==
  ASSUME ListInv, Dash!ListFails \/ Dash!Count \/ Dash!Return PROVE ListInv'
<1>1. CASE Dash!ListFails
  <2>1. /\ sessionScan.phase \in {"scan", "get"} /\ UNCHANGED <<session, metrics>>
        /\ sessionScan' = [sessionScan EXCEPT !.phase = "get", !.left = [s \in Sessions |-> 0]]
        /\ pass' = [pass EXCEPT !.whole = FALSE]
    BY <1>1, NoScanIs DEF Dash!ListFails
  <2>2. /\ sessionScan'.phase = "get" /\ sessionScan'.list = sessionScan.list
        /\ sessionScan'.left = [s \in Sessions |-> 0] /\ ~pass'.whole
        /\ pass'.stayed = pass.stayed /\ pass'.busy = pass.busy
        /\ pass'.seen = pass.seen /\ pass'.twice = pass.twice
    BY <2>1 DEF ListInv, ListType
  <2>4. ListType' /\ \A s \in Sessions : sessionScan'.left[s] = 0
    <3>1. [s \in Sessions |-> 0] \in [Sessions -> 0..2]
      OBVIOUS
    <3>2. sessionScan' \in [phase : {"idle", "scan", "get", "listed"}, left : [Sessions -> 0..2],
                           list : SUBSET Entries]
      BY <2>1, <3>1 DEF ListInv, ListType
    <3> QED BY <2>1, <2>2, <3>2 DEF ListInv, ListType
  <2>3. \A e \in sessionScan.list : e.id \in Sessions /\ e.nth \in 1..2
    BY DEF ListInv, ListType, Entries
  <2> QED BY <2>1, <2>2, <2>3, <2>4 DEF ListInv, PassInv, EntryInv, CountInv
<1>2. CASE Dash!Count
  <2>1. /\ sessionScan.phase = "get" /\ \A s \in Sessions : sessionScan.left[s] = 0
        /\ sessionScan' = [sessionScan EXCEPT !.phase = "listed"] /\ UNCHANGED <<session, pass>>
        /\ metrics' = [total |-> Cardinality(sessionScan.list),
                       active |-> Cardinality(BusyEntries(sessionScan.list))]
    BY <1>2 DEF Dash!Count, Dash!Cardinality, Cardinality, BusyEntries
  <2>2. /\ ListType' /\ sessionScan'.phase = "listed" /\ sessionScan'.list = sessionScan.list
        /\ sessionScan'.left = sessionScan.left
    BY <2>1 DEF ListInv, ListType
  <2> QED BY <2>1, <2>2 DEF ListInv, PassInv, EntryInv, CountInv, Listed
<1>3. CASE Dash!Return
  <2>1. /\ sessionScan' = Dash!NoScan /\ pass' = Dash!NoPass
        /\ metrics' = Dash!NoCount /\ UNCHANGED session
    BY <1>3 DEF Dash!Return
  <2> QED BY <2>1, NoScanIs DEF ListInv, ListType, PassInv, EntryInv, CountInv
<1> QED BY <1>1, <1>2, <1>3

LEMMA DashInvStep == DashInv /\ [Dash!Next]_monitorVars => DashInv'
<1> SUFFICES ASSUME DashInv, Dash!Next \/ UNCHANGED monitorVars PROVE DashInv'
  OBVIOUS
<1>a. StatusInv /\ ListInv
  BY DEF DashInv
<1>1. CASE Dash!Tick
  <2>1. UNCHANGED <<session, sessionScan, pass, metrics>>
    BY <1>1 DEF Dash!Tick, Dash!sessionSide
  <2> QED BY <1>a, <1>1, <2>1, DashTickKeeps, SessionsSideKept DEF DashInv
<1>2. CASE \E s \in Dash!AgentStates : Dash!Report(s)
  <2>1. UNCHANGED <<session, sessionScan, pass, metrics>>
    BY <1>2 DEF Dash!Report, Dash!sessionSide
  <2> QED BY <1>a, <1>2, <2>1, StatusReported, SessionsSideKept DEF DashInv
<1>3. CASE \E t \in Tasks, s \in Dash!TaskStates : Dash!Work(t, s)
  <2>1. UNCHANGED <<session, sessionScan, pass, metrics, status, cache, watch, lastTrue>>
    BY <1>3 DEF Dash!Work, Dash!sessionSide
  <2> QED BY <1>a, <2>1, AgentsSideKept, SessionsSideKept DEF DashInv
<1>4. CASE \/ Dash!Begin \/ Dash!Scan \/ Dash!ListFails
           \/ Dash!Count \/ Dash!InfoFails \/ Dash!Return
           \/ \E s \in Sessions : \/ Dash!Get(s)
                                  \/ \E v \in Dash!SessionStates : Dash!UpdateSession(s, v)
  <2>1. ListInv'
    BY <1>a, <1>4, PassBegins, ScanKeeps, PassEnds, GetKeeps, SessionMoves
  <2>2. UNCHANGED <<status, cache, watch, lastTrue>>
    BY <1>4, Zenon DEF Dash!Begin, Dash!Scan, Dash!ListFails, Dash!Count,
       Dash!InfoFails, Dash!Return, Dash!Get, Dash!UpdateSession,
       Dash!agentSide
  <2> QED BY <1>a, <2>1, <2>2, AgentsSideKept DEF DashInv
<1>5. CASE \E w \in Watchers :
             \/ Dash!GetCached(w) \/ Dash!MissCache(w) \/ Dash!GetStatus(w)
             \/ Dash!CountTasks(w) \/ Dash!KeepCached(w) \/ Dash!Answered(w)
  <2>1. UNCHANGED <<session, sessionScan, pass, metrics>>
    BY <1>5 DEF Dash!GetCached, Dash!MissCache, Dash!GetStatus,
       Dash!CountTasks, Dash!KeepCached, Dash!Answered, Dash!sessionSide
  <2> QED BY <1>a, <1>5, <2>1, ReadingKeeps, SessionsSideKept DEF DashInv
<1>6. CASE UNCHANGED monitorVars
  BY <1>a, <1>6, AgentsSideKept, SessionsSideKept DEF DashInv, monitorVars
<1> QED BY <1>1, <1>2, <1>3, <1>4, <1>5, <1>6 DEF Dash!Next

\* The sessions of some entries are no more than the entries, and no fewer when each has one.
LEMMA EntriesCount ==
  ASSUME NEW L \in SUBSET Entries, IsFiniteSet(L), NEW T \in SUBSET Sessions
  PROVE  /\ (\A s \in T : \E e \in L : e.id = s) => Cardinality(T) <= Cardinality(L)
         /\ (\A e \in L : e.id \in T) /\ (\A e, f \in L : e.id = f.id => e = f)
            => Cardinality(L) <= Cardinality(T)
<1>1. IsFiniteSet(T)
  BY SiteCache, FS_Subset
<1>2. ASSUME \A s \in T : \E e \in L : e.id = s PROVE Cardinality(T) <= Cardinality(L)
  <2>1. PICK M : M = {e \in L : e.id \in T}
    OBVIOUS
  <2>2. M \in SUBSET L /\ [e \in M |-> e.id] \in Surjection(M, T)
    BY <1>2, <2>1 DEF Surjection
  <2>3. IsFiniteSet(M) /\ Cardinality(M) <= Cardinality(L)
    BY <2>2, FS_Subset
  <2>4. Cardinality(T) <= Cardinality(M)
    BY <2>2, <2>3, FS_Surjection
  <2> QED BY <1>1, <2>3, <2>4, FS_CardinalityType
<1>3. ASSUME \A e \in L : e.id \in T, \A e, f \in L : e.id = f.id => e = f
      PROVE  Cardinality(L) <= Cardinality(T)
  <2>1. [e \in L |-> e.id] \in Injection(L, T)
    BY <1>3 DEF Injection, IsInjective
  <2> QED BY <1>1, <2>1, FS_Injection
<1> QED BY <1>2, <1>3

LEMMA DashHolds == DashInv => Dash!ShownRecently /\ Dash!ListedThroughout
<1> SUFFICES ASSUME DashInv PROVE Dash!ShownRecently /\ Dash!ListedThroughout
  OBVIOUS
<1>1. Dash!ShownRecently
  BY DEF DashInv, StatusInv, Dash!ShownRecently
<1> DEFINE L == sessionScan.list
<1>2. /\ L \in SUBSET Entries /\ IsFiniteSet(L)
      /\ BusyEntries(L) \in SUBSET Entries /\ IsFiniteSet(BusyEntries(L))
  BY FS_Subset DEF DashInv, ListInv, ListType, BusyEntries
<1>3. pass.stayed \in SUBSET Sessions /\ pass.busy \in SUBSET Sessions /\ pass.seen \in SUBSET Sessions
  BY DEF DashInv, ListInv, ListType
<1>4. ASSUME sessionScan.phase = "listed"
      PROVE  /\ pass.whole => /\ pass.stayed \subseteq {e.id : e \in L}
                              /\ Cardinality(pass.stayed) <= metrics.total
                              /\ Cardinality(pass.busy) <= metrics.active
             /\ {e.id : e \in L} \subseteq pass.seen
             /\ ~pass.twice => metrics.total <= Cardinality(pass.seen)
  <2>1. metrics.total = Cardinality(L) /\ metrics.active = Cardinality(BusyEntries(L))
    BY <1>4 DEF DashInv, ListInv, CountInv
  <2>2. ASSUME pass.whole
        PROVE  /\ \A s \in pass.stayed : \E e \in L : e.id = s
               /\ \A s \in pass.busy : \E e \in BusyEntries(L) : e.id = s
    BY <1>3, <1>4, <2>2 DEF DashInv, ListInv, PassInv, CountInv, Listed, BusyEntries
  <2>3. \A e \in L : e.id \in pass.seen
    BY DEF DashInv, ListInv, EntryInv
  <2>4. ~pass.twice => Cardinality(L) <= Cardinality(pass.seen)
    <3> HIDE DEF L
    <3>1. ~pass.twice => \A e, f \in L : e.id = f.id => e = f
      BY DEF DashInv, ListInv, EntryInv, L
    <3> QED BY <1>2, <1>3, <2>3, <3>1, EntriesCount
  <2> HIDE DEF L
  <2> QED BY <1>2, <1>3, <2>1, <2>2, <2>3, <2>4, EntriesCount
<1> QED BY <1>1, <1>4 DEF Dash!ListedThroughout, Dash!Cardinality, Cardinality

----------------------------------------------------------------------------
(* Registration elsewhere                                                   *)

Ups   == {"register", "start"}
Downs == {"deregister", "stop"}
Sent(c)   == c.at = "sent"
Answer(c) == c.at = "answer"
AgentCalls  == {"register", "delete", "methods"}
ServerCalls == {"mcpRegister", "mcpDeregister"}
Callable == [by : Registry!Actors,
             what : AgentCalls \cup ServerCalls \cup {"advertise", "withdraw"},
             key : AgentKeys \cup Registry!Servers \cup {"all"}, id : Nat,
             at : {"sent", "answer"}]
Addressed(c) ==
  /\ c.what \in AgentCalls => c.key \in AgentKeys
  /\ c.what \in ServerCalls => c.key \in Registry!Servers
  /\ Sent(c) /\ c.what \in {"delete", "methods"} => c.id # 0
Phases   == {"none", "agents", "advertise", "methods", "yeoman", "daimon", "raised", "mcp",
             "withdraw", "delete"}
Ops      == [kind : Ups \cup Downs \cup {"none"}, phase : Phases]

RegistrationType ==
  /\ server \in {"off", "starting", "serving", "stopping", "stopped"}
  /\ op \in [Registry!Actors -> Ops]
  /\ calls \subseteq Callable /\ registered \in [AgentKeys -> Nat] /\ methods \subseteq Nat
  /\ mcp \in [Registry!Servers -> Nat] /\ lastId \in Nat /\ mishaps \in Nat
  /\ daimon \in [agent : [AgentKeys -> Nat], capabilities : BOOLEAN, methods : SUBSET Nat]
  /\ elsewhere \in [Registry!Servers -> SUBSET Nat]
  /\ advertised \in BOOLEAN /\ excused \in BOOLEAN /\ refusedBeat \in BOOLEAN
  /\ beat # Registry!NoBeat => beat.key \in AgentKeys /\ beat.id \in Nat \ {0}
  /\ \A c \in calls : Addressed(c)

\* What the server does at each time of its life, and administrators only while it
\* serves; its own agents it registers as it starts.
ServerInv ==
  /\ op["server"].kind = (CASE server = "starting" -> "start" [] server = "stopping" -> "stop"
                            [] OTHER -> "none")
  /\ \A a \in Admins : op[a].kind \in {"none", "register", "deregister"}
                       /\ (server # "serving" => op[a].kind = "none")
  /\ \A c \in calls : c.by = "server" /\ c.what = "register" => server = "starting"

\* An id was given out, and to one agent.
HeldAs(k, i) ==
  i # 0 /\ \/ registered[k] = i \/ daimon.agent[k] = i
           \/ \E c \in calls : c.what \in AgentCalls /\ c.key = k /\ c.id = i
IdsInv ==
  /\ \A k \in AgentKeys, i \in Nat : HeldAs(k, i) => i <= lastId
  /\ \A j, k \in AgentKeys, i \in Nat : HeldAs(j, i) /\ HeldAs(k, i) => j = k
  /\ \A i \in daimon.methods : i # 0 /\ Registry!Known(i)

\* The calls in flight are those of what their sender is at.
Fits(c, o) ==
  /\ c.what = "register"      => o.kind \in Ups /\ o.phase = "agents"
  /\ c.what = "advertise"     => o.kind \in Ups /\ o.phase = "advertise"
  /\ c.what = "methods"       => o.kind \in Ups /\ o.phase = "methods"
  /\ c.what = "withdraw"      => o.kind \in Downs /\ o.phase = "withdraw"
  /\ c.what = "delete"        => o.kind \in Downs /\ o.phase = "delete"
  /\ c.what = "mcpRegister"   => o.kind = "start" /\ o.phase = c.key
  /\ c.what = "mcpDeregister" => o.kind = "stop" /\ o.phase = "mcp" /\ c.key = "yeoman"
Upward   == \E a \in Registry!Actors : op[a].kind \in Ups
Downward == \E a \in Registry!Actors : op[a].kind \in Downs
OrderInv == ~(Upward /\ Downward) /\ \A c \in calls : Fits(c, op[c.by])

\* The two sides differ by what an answer under way tells.
AgentAgreed(k) ==
  /\ \A c \in calls : Answer(c) /\ c.key = k =>
       /\ c.what = "register" => c.id # 0 /\ daimon.agent[k] = c.id /\ registered[k] \in {0, c.id}
       /\ c.what = "delete" /\ c.id # 0 => daimon.agent[k] = 0 /\ registered[k] \in {0, c.id}
  /\ daimon.agent[k] = registered[k] \/ \E c \in calls :
       Answer(c) /\ c.key = k /\ c.id # 0 /\ c.what \in {"register", "delete"}
RestAgreed ==
  /\ \A c \in calls : Answer(c) =>
       /\ c.what = "advertise" => daimon.capabilities
       /\ c.what = "withdraw" => ~daimon.capabilities
       /\ c.what = "methods" /\ c.id # 0 => c.id \in daimon.methods
  /\ daimon.capabilities = advertised
       \/ \E c \in calls : Answer(c) /\ c.what \in {"advertise", "withdraw"}
  /\ methods \subseteq daimon.methods
  /\ \A a \in Registry!Actors :
       op[a].kind \in Downs /\ op[a].phase # "mcp" => methods = {}

\* What the server has to undo as it stops, while nothing failed.
Left(k) == \E c \in calls : Sent(c) /\ c.what = "delete" /\ c.key = k /\ c.id = daimon.agent[k]
StopInv ==
  /\ server = "stopping" => op["server"].phase \in {"mcp", "withdraw", "delete"}
  /\ server = "stopping" /\ op["server"].phase = "withdraw" /\ daimon.capabilities =>
       \E c \in calls : Sent(c) /\ c.what = "withdraw"
  /\ server = "stopped" \/ (server = "stopping" /\ op["server"].phase = "delete") =>
       /\ ~daimon.capabilities /\ \A k \in AgentKeys : daimon.agent[k] = 0 \/ Left(k)
  /\ server = "stopped" => calls = {}

\* SecureYeoman lists the server from the answer to its registration until its
\* deregistration arrives.
ToYeoman(c) == c.what = "mcpRegister" /\ c.key = "yeoman"
Unlisted ==
  \/ server \in {"off", "stopped"}
  \/ server = "starting" /\ op["server"].phase \in {"agents", "advertise", "methods", "raised"}
Listing ==
  \/ server = "starting" /\ op["server"].phase \in {"yeoman", "daimon"}
  \/ server = "serving"
ListedAs(i) == elsewhere["yeoman"] = {i} /\ i # 0
YeomanInv ==
  /\ Unlisted => elsewhere["yeoman"] = {}
  /\ Listing =>
       \/ ListedAs(mcp["yeoman"]) /\ \A c \in calls : ~ToYeoman(c)
       \/ \E c \in calls : /\ ToYeoman(c) /\ \A d \in calls : ToYeoman(d) => d = c
                           /\ \/ Sent(c) /\ elsewhere["yeoman"] = {}
                              \/ Answer(c) /\ ListedAs(c.id)
  /\ server = "stopping" => elsewhere["yeoman"] = {} \/ \E c \in calls :
       Sent(c) /\ c.what = "mcpDeregister" /\ elsewhere["yeoman"] = {c.id}

RegistrationInv ==
  /\ RegistrationType /\ ServerInv /\ IdsInv
  /\ ~excused => OrderInv /\ RestAgreed /\ (\A k \in AgentKeys : AgentAgreed(k)) /\ ~refusedBeat
  /\ ~excused /\ mishaps = 0 => StopInv /\ YeomanInv

\* Calls a sender adds for what it goes on to.
Fresh(cs, a, o) ==
  \A c \in cs : /\ c \in Callable /\ c.by = a /\ Sent(c) /\ Addressed(c) /\ Fits(c, o)
                /\ c.what \in AgentCalls => c.id \in {0, registered[c.key]}

LEMMA RegisInit == Registry!Init => RegistrationInv
<1> SUFFICES ASSUME Registry!Init PROVE RegistrationInv
  OBVIOUS
<1>1. /\ server = "off" /\ op = [a \in Registry!Actors |-> Registry!NoOp] /\ calls = {}
      /\ registered = [k \in AgentKeys |-> 0] /\ ~advertised /\ methods = {}
      /\ mcp = [s \in Registry!Servers |-> 0] /\ daimon = Registry!Holds
      /\ elsewhere = [s \in Registry!Servers |-> {}] /\ beat = Registry!NoBeat
      /\ lastId = 0 /\ excused = FALSE /\ refusedBeat = FALSE /\ mishaps = 0 /\ advertised = FALSE
  BY DEF Registry!Init, Registry!None
<1>2. /\ Registry!NoOp \in Ops /\ Registry!NoOp.kind = "none"
      /\ daimon \in [agent : [AgentKeys -> Nat], capabilities : BOOLEAN, methods : SUBSET Nat]
      /\ daimon.agent = registered /\ daimon.capabilities = FALSE /\ daimon.methods = {}
  BY <1>1 DEF Registry!NoOp, Ops, Phases, Registry!Holds, Registry!None
<1>3. RegistrationType
  BY <1>1, <1>2, Zenon DEF RegistrationType
<1>4. "server" \in Registry!Actors /\ Admins \subseteq Registry!Actors
  BY DEF Registry!Actors
<1>5. ServerInv
  BY <1>1, <1>2, <1>4 DEF ServerInv
<1>6. IdsInv
  BY <1>1, <1>2 DEF IdsInv, HeldAs
<1>7. OrderInv /\ RestAgreed /\ \A k \in AgentKeys : AgentAgreed(k)
  BY <1>1, <1>2, Zenon DEF OrderInv, Upward, Downward, Ups, Downs, RestAgreed, AgentAgreed
<1>8. StopInv
  BY <1>1 DEF StopInv
<1>9. YeomanInv
  BY <1>1 DEF YeomanInv, Unlisted, Listing, Registry!Servers
<1> QED BY <1>1, <1>3, <1>5, <1>6, <1>7, <1>8, <1>9 DEF RegistrationInv

LEMMA CallsFresh ==
  ASSUME RegistrationType, NEW a \in Registry!Actors
  PROVE  /\ \A kind \in Ups : /\ Fresh(Registry!RegisterCalls(a), a,
                                       [kind |-> kind, phase |-> "agents"])
                              /\ Fresh(Registry!MethodCalls(a), a,
                                       [kind |-> kind, phase |-> "methods"])
                              /\ Fresh({Registry!Call(a, "advertise", "all", 0)}, a,
                                       [kind |-> kind, phase |-> "advertise"])
         /\ \A kind \in Downs : /\ Fresh(Registry!DeleteCalls(a), a,
                                         [kind |-> kind, phase |-> "delete"])
                                /\ Fresh({Registry!Call(a, "withdraw", "all", 0)}, a,
                                         [kind |-> kind, phase |-> "withdraw"])
<1>1. \A what \in AgentCalls, k \in AgentKeys, i \in Nat :
        Registry!Call(a, what, k, i) \in Callable
  BY DEF Registry!Call, Callable
<1>2. \A what, k, i : LET c == Registry!Call(a, what, k, i) IN
        c.by = a /\ c.what = what /\ c.key = k /\ c.id = i /\ c.at = "sent"
  BY DEF Registry!Call
<1>3. \A k \in AgentKeys : registered[k] \in Nat
  BY DEF RegistrationType
<1> USE DEF Fresh, Sent, Addressed, Fits, AgentCalls, ServerCalls
<1>4. ASSUME NEW kind \in Ups
      PROVE  Fresh(Registry!RegisterCalls(a), a, [kind |-> kind, phase |-> "agents"])
  BY <1>1, <1>2 DEF Registry!RegisterCalls, Registry!None
<1>5. ASSUME NEW kind \in Ups
      PROVE  Fresh(Registry!MethodCalls(a), a, [kind |-> kind, phase |-> "methods"])
  BY <1>1, <1>2, <1>3, SiteAgents DEF Registry!MethodCalls, Registry!None
<1>6. ASSUME NEW kind \in Downs
      PROVE  Fresh(Registry!DeleteCalls(a), a, [kind |-> kind, phase |-> "delete"])
  BY <1>1, <1>2, <1>3 DEF Registry!DeleteCalls, Registry!None
<1>7. \A what \in {"advertise", "withdraw"} : Registry!Call(a, what, "all", 0) \in Callable
  BY DEF Registry!Call, Callable
<1>8. ASSUME NEW kind \in Ups
      PROVE  Fresh({Registry!Call(a, "advertise", "all", 0)}, a,
                   [kind |-> kind, phase |-> "advertise"])
  BY <1>2, <1>7
<1>9. ASSUME NEW kind \in Downs
      PROVE  Fresh({Registry!Call(a, "withdraw", "all", 0)}, a,
                   [kind |-> kind, phase |-> "withdraw"])
  BY <1>2, <1>7
<1> QED BY <1>4, <1>5, <1>6, <1>8, <1>9

\* The server's calls are the only ones while it does not serve.
LEMMA AllMine ==
  ASSUME RegistrationType, ServerInv, OrderInv, server # "serving"
  PROVE  /\ \A c \in calls : c.by = "server"
         /\ Registry!Mine("server") = {} => calls = {}
<1>1. \A c \in calls : c.by \in Registry!Actors /\ Fits(c, op[c.by]) /\ c.what \in
        AgentCalls \cup ServerCalls \cup {"advertise", "withdraw"}
  BY DEF RegistrationType, OrderInv, Callable
<1>2. \A c \in calls : op[c.by].kind # "none"
  BY <1>1 DEF Fits, AgentCalls, ServerCalls, Ups, Downs
<1>3. \A c \in calls : c.by = "server"
  BY <1>1, <1>2 DEF ServerInv, Registry!Actors
<1> QED BY <1>3 DEF Registry!Mine

\* What sending keeps: nothing sent has an answer, and its sender has no other calls.
LEMMA SendKeeps ==
  ASSUME RegistrationInv, NEW a \in Registry!Actors, NEW kind \in Ups \cup Downs,
         NEW phase \in Phases, NEW cs, Registry!Send(a, kind, phase, cs),
         Fresh(cs, a, [kind |-> kind, phase |-> phase]),
         ~excused => Registry!Mine(a) = {},
         UNCHANGED <<registered, advertised, mcp, daimon, elsewhere, lastId, refusedBeat,
                     mishaps>>,
         beat' \in {beat, Registry!NoBeat}, methods' \in {methods, {}},
         kind \in Downs /\ phase # "mcp" =>
           methods' = {} \/ (op[a].kind \in Downs /\ op[a].phase # "mcp"),
         ServerInv', server' \in {"off", "starting", "serving", "stopping", "stopped"},
         ~excused' /\ mishaps' = 0 => StopInv' /\ YeomanInv'
  PROVE  RegistrationInv'
<1> DEFINE o == [kind |-> kind, phase |-> phase]
<1>1. /\ op' = [op EXCEPT ![a] = o] /\ calls' = calls \cup cs
      /\ excused' = (excused \/ Registry!Crossed(op'))
  BY DEF Registry!Send
<1>2. o \in Ops /\ o.kind = kind /\ o.phase = phase
  BY DEF Ops
<1> HIDE DEF o
<1>3. RegistrationType /\ ServerInv /\ IdsInv
  BY DEF RegistrationInv
<1>4. op \in [Registry!Actors -> Ops]
  BY <1>3 DEF RegistrationType
<1>5. op'[a] = o /\ \A b \in Registry!Actors \ {a} : op'[b] = op[b]
  BY <1>1, <1>4
<1>6. op' \in [Registry!Actors -> Ops]
  BY <1>1, <1>2, <1>4
<1>7. \A c \in cs : /\ c \in Callable /\ c.by = a /\ Sent(c) /\ Addressed(c) /\ Fits(c, o)
                    /\ c.what \in AgentCalls => c.id \in {0, registered[c.key]}
  BY DEF Fresh, o
<1>8. RegistrationType'
  <2>1. calls' \subseteq Callable /\ \A c \in calls' : Addressed(c)
    BY <1>1, <1>3, <1>7 DEF RegistrationType
  <2>2. methods' \subseteq Nat /\ (beat' # Registry!NoBeat =>
          beat'.key \in AgentKeys /\ beat'.id \in Nat \ {0})
    BY <1>3 DEF RegistrationType, Registry!NoBeat
  <2>3. excused' \in BOOLEAN
    BY <1>1, <1>3 DEF RegistrationType, Registry!Crossed
  <2> QED BY <1>3, <1>6, <2>1, <2>2, <2>3 DEF RegistrationType, Registry!NoBeat, Addressed, Sent
<1>9. IdsInv'
  <2>1. \A k \in AgentKeys, i \in Nat : HeldAs(k, i)' => HeldAs(k, i)
    <3> SUFFICES ASSUME NEW k \in AgentKeys, NEW i \in Nat, HeldAs(k, i)' PROVE HeldAs(k, i)
      OBVIOUS
    <3>1. i # 0 /\ \/ registered[k] = i \/ daimon.agent[k] = i
                   \/ \E c \in calls \cup cs : c.what \in AgentCalls /\ c.key = k /\ c.id = i
      BY <1>1 DEF HeldAs
    <3> QED BY <1>7, <3>1 DEF HeldAs
  <2>2. \A i \in daimon'.methods : i # 0 /\ Registry!Known(i)'
    BY <1>3 DEF IdsInv, Registry!Known
  <2>3. \A k \in AgentKeys, i \in Nat : HeldAs(k, i)' => i <= lastId'
    BY <1>3, <2>1 DEF IdsInv
  <2>4. \A j, k \in AgentKeys, i \in Nat : HeldAs(j, i)' /\ HeldAs(k, i)' => j = k
    BY <1>3, <2>1 DEF IdsInv
  <2> QED BY <2>2, <2>3, <2>4 DEF IdsInv
<1>10. ASSUME ~excused'
       PROVE  OrderInv' /\ RestAgreed' /\ (\A k \in AgentKeys : AgentAgreed(k)') /\ ~refusedBeat'
  <2>1. /\ OrderInv /\ RestAgreed /\ (\A k \in AgentKeys : AgentAgreed(k)) /\ ~refusedBeat
        /\ Registry!Mine(a) = {} /\ ~Registry!Crossed(op')
    BY <1>1, <1>10, Zenon DEF RegistrationInv
  <2>2. \A c \in calls : c.by \in Registry!Actors /\ c.by # a
    BY <1>3, <2>1 DEF RegistrationType, Callable, Registry!Mine
  <2>3. \A c \in calls' : Answer(c) => c \in calls
    BY <1>1, <1>7 DEF Answer, Sent
  <2>4. calls \subseteq calls'
    BY <1>1
  <2>5. OrderInv'
    <3>1. \A c \in calls' : Fits(c, op'[c.by])
      BY <1>1, <1>5, <1>7, <2>1, <2>2 DEF OrderInv
    <3>2. ASSUME NEW b \in Registry!Actors, NEW d \in Registry!Actors,
                 op'[b].kind \in Ups, op'[d].kind \in Downs
          PROVE  FALSE
      <4>1. op'[b].kind = "start"
        BY <2>1, <3>2 DEF Registry!Crossed, Ups, Downs
      <4>2. b = "server" /\ server' = "starting"
        BY <4>1 DEF ServerInv, Registry!Actors
      <4> QED BY <3>2, <4>1, <4>2 DEF ServerInv, Registry!Actors, Downs
    <3>3. ~(Upward' /\ Downward')
      BY <3>2 DEF Upward, Downward
    <3> QED BY <3>1, <3>3 DEF OrderInv
  <2>6. \A k \in AgentKeys : AgentAgreed(k)'
    <3> SUFFICES ASSUME NEW k \in AgentKeys PROVE AgentAgreed(k)'
      OBVIOUS
    <3>1. AgentAgreed(k)
      BY <2>1
    <3> QED BY <2>3, <2>4, <3>1 DEF AgentAgreed
  <2>7. RestAgreed'
    <3>1. ASSUME NEW b \in Registry!Actors, op'[b].kind \in Downs, op'[b].phase # "mcp"
          PROVE  methods' = {}
      <4>1. CASE b = a
        BY <1>2, <1>5, <2>1, <3>1, <4>1 DEF RestAgreed
      <4>2. CASE b # a
        BY <1>5, <2>1, <3>1, <4>2 DEF RestAgreed
      <4> QED BY <4>1, <4>2
    <3>2. methods' \subseteq daimon'.methods
      BY <2>1 DEF RestAgreed
    <3>3. \A c \in calls' : Answer(c) =>
            /\ c.what = "advertise" => daimon.capabilities
            /\ c.what = "withdraw" => ~daimon.capabilities
            /\ c.what = "methods" /\ c.id # 0 => c.id \in daimon.methods
      BY <2>1, <2>3 DEF RestAgreed
    <3>4. daimon.capabilities = advertised
            \/ \E c \in calls' : Answer(c) /\ c.what \in {"advertise", "withdraw"}
      BY <2>1, <2>4 DEF RestAgreed
    <3> QED BY <3>1, <3>2, <3>3, <3>4 DEF RestAgreed, Answer
  <2> QED BY <2>1, <2>5, <2>6, <2>7
<1> QED BY <1>8, <1>9, <1>10 DEF RegistrationInv

\* SecureYeoman's list is of no concern to calls that are not for it.
LEMMA YeomanKept ==
  ASSUME YeomanInv, server' = server, mcp'["yeoman"] = mcp["yeoman"],
         elsewhere'["yeoman"] = elsewhere["yeoman"],
         Unlisted' => Unlisted,
         Listing' => Listing, {c \in calls' : ToYeoman(c)} = {c \in calls : ToYeoman(c)},
         \A c \in calls : Sent(c) /\ c.what = "mcpDeregister" => c \in calls'
  PROVE  YeomanInv'
<1>2. Unlisted' => elsewhere'["yeoman"] = {}
  BY DEF YeomanInv
<1>3. Listing' =>
        \/ ListedAs(mcp["yeoman"])' /\ \A c \in calls' : ~ToYeoman(c)
        \/ \E c \in calls' : /\ ToYeoman(c) /\ \A d \in calls' : ToYeoman(d) => d = c
                             /\ \/ Sent(c) /\ elsewhere'["yeoman"] = {}
                                \/ Answer(c) /\ ListedAs(c.id)'
  <2>1. \A c : c \in calls' /\ ToYeoman(c) <=> c \in calls /\ ToYeoman(c)
    OBVIOUS
  <2> HAVE Listing'
  <2>2. CASE ListedAs(mcp["yeoman"]) /\ \A c \in calls : ~ToYeoman(c)
    BY <2>1, <2>2 DEF ListedAs
  <2>3. CASE \E c \in calls : /\ ToYeoman(c) /\ \A d \in calls : ToYeoman(d) => d = c
                              /\ \/ Sent(c) /\ elsewhere["yeoman"] = {}
                                 \/ Answer(c) /\ ListedAs(c.id)
    <3>1. PICK c \in calls : /\ ToYeoman(c) /\ \A d \in calls : ToYeoman(d) => d = c
                             /\ \/ Sent(c) /\ elsewhere["yeoman"] = {}
                                \/ Answer(c) /\ ListedAs(c.id)
      BY <2>3
    <3> QED BY <2>1, <3>1 DEF ListedAs
  <2> QED BY <2>2, <2>3 DEF YeomanInv
<1>4. server' = "stopping" => elsewhere'["yeoman"] = {} \/ \E c \in calls' :
        Sent(c) /\ c.what = "mcpDeregister" /\ elsewhere'["yeoman"] = {c.id}
  BY DEF YeomanInv
<1> QED BY <1>2, <1>3, <1>4 DEF YeomanInv, ToYeoman, Sent, Answer

\* What administrators do they do while the server serves.
LEMMA SenderTimes ==
  ASSUME ServerInv, NEW a \in Registry!Actors, op[a].kind # "none"
  PROVE  /\ op[a].kind \in {"register", "deregister"} => a # "server" /\ server = "serving"
         /\ op[a].kind = "start" => a = "server" /\ server = "starting"
         /\ op[a].kind = "stop" => a = "server" /\ server = "stopping"
         /\ a = "server" => server \in {"starting", "stopping"}
BY DEF ServerInv, Registry!Actors

LEMMA StartServerKeeps ==
  ASSUME RegistrationInv, Registry!StartServer PROVE RegistrationInv'
<1>1. /\ server = "off" /\ server' = "starting"
      /\ Registry!Send("server", "start", "agents", Registry!RegisterCalls("server"))
      /\ UNCHANGED <<registered, advertised, methods, mcp, daimon, elsewhere, lastId, beat,
                     refusedBeat, mishaps>>
  BY DEF Registry!StartServer, Registry!local, Registry!remote, Registry!beats,
         Registry!bounds
<1>2. RegistrationType /\ ServerInv
  BY DEF RegistrationInv
<1>3. "server" \in Registry!Actors /\ "server" \notin Admins
  BY SiteAgents DEF Registry!Actors
<1>4. Fresh(Registry!RegisterCalls("server"), "server", [kind |-> "start", phase |-> "agents"])
  BY <1>2, <1>3, CallsFresh, Zenon DEF Ups
<1>5. ~excused => calls = {}
  <2> HAVE ~excused
  <2>1. OrderInv
    BY DEF RegistrationInv
  <2>2. \A c \in calls : c.by = "server"
    BY <1>1, <1>2, <2>1, AllMine
  <2>3. op["server"].kind = "none"
    BY <1>1, <1>2 DEF ServerInv
  <2>4. \A c \in calls : Fits(c, op["server"]) /\ c.what \in
          AgentCalls \cup ServerCalls \cup {"advertise", "withdraw"}
    BY <1>2, <2>1, <2>2 DEF OrderInv, RegistrationType, Callable
  <2> QED BY <2>3, <2>4 DEF Fits, AgentCalls, ServerCalls, Ups, Downs
<1>6. /\ op' = [op EXCEPT !["server"] = [kind |-> "start", phase |-> "agents"]]
      /\ calls' = calls \cup Registry!RegisterCalls("server")
      /\ (excused => excused')
  BY <1>1, Zenon DEF Registry!Send
<1>7. op'["server"] = [kind |-> "start", phase |-> "agents"] /\ \A a \in Admins : op'[a] = op[a]
  BY <1>2, <1>3, <1>6 DEF RegistrationType, Registry!Actors
<1>8. ServerInv'
  BY <1>1, <1>2, <1>7 DEF ServerInv
<1>9. ~excused' /\ mishaps' = 0 => StopInv' /\ YeomanInv'
  <2> SUFFICES ASSUME ~excused', mishaps' = 0 PROVE StopInv' /\ YeomanInv'
    OBVIOUS
  <2>1. YeomanInv
    BY <1>1, <1>6 DEF RegistrationInv
  <2> QED BY <1>1, <1>7, <2>1 DEF StopInv, YeomanInv, Unlisted, Listing
<1> HIDE DEF Registry!RegisterCalls
<1>10. "start" \in Ups \cup Downs /\ "start" \notin Downs /\ "agents" \in Phases
  BY DEF Ups, Downs, Phases
<1>11. ~excused => Registry!Mine("server") = {}
  BY <1>5 DEF Registry!Mine
<1> QED BY <1>1, <1>3, <1>4, <1>8, <1>9, <1>10, <1>11, SendKeeps

\* While the server starts or serves there is nothing to undo.
LEMMA GoesOnSending ==
  ASSUME RegistrationInv, NEW a \in Registry!Actors, NEW kind \in Ups \cup Downs,
         NEW phase \in Phases, NEW cs, Registry!Send(a, kind, phase, cs),
         Fresh(cs, a, [kind |-> kind, phase |-> phase]),
         ~excused => Registry!Mine(a) = {},
         UNCHANGED <<server, registered, advertised, mcp, daimon, elsewhere, lastId, refusedBeat,
                     beat, mishaps>>,
         methods' \in {methods, {}}, server \in {"starting", "serving"},
         kind \in Downs /\ phase # "mcp" =>
           methods' = {} \/ (op[a].kind \in Downs /\ op[a].phase # "mcp"),
         a = "server" => kind = "start" /\ server = "starting"
           /\ {op["server"].phase, phase} \subseteq {"agents", "advertise", "methods"},
         a # "server" => kind \in {"register", "deregister"} /\ server = "serving",
         \A c \in cs : ~ToYeoman(c) /\ (c.what = "register" => a # "server")
  PROVE  RegistrationInv'
<1> DEFINE o == [kind |-> kind, phase |-> phase]
<1>1. /\ op' = [op EXCEPT ![a] = o] /\ calls' = calls \cup cs /\ (excused => excused')
  BY Zenon DEF Registry!Send
<1>2. o.kind = kind /\ o.phase = phase
  OBVIOUS
<1> HIDE DEF o
<1>3. RegistrationType /\ ServerInv
  BY DEF RegistrationInv
<1>4. op'[a] = o /\ \A b \in Registry!Actors \ {a} : op'[b] = op[b]
  BY <1>1, <1>3 DEF RegistrationType
<1>5. \A c \in cs : c.by = a
  BY DEF Fresh
<1>6. "server" \in Registry!Actors /\ "server" \notin Admins
      /\ Admins \subseteq Registry!Actors
  BY SiteAgents DEF Registry!Actors
<1>7. ServerInv'
  BY <1>1, <1>2, <1>3, <1>4, <1>5, <1>6 DEF ServerInv
<1>8. ~excused' /\ mishaps' = 0 => StopInv' /\ YeomanInv'
  <2> SUFFICES ASSUME ~excused', mishaps' = 0 PROVE StopInv' /\ YeomanInv'
    OBVIOUS
  <2>1. YeomanInv
    BY <1>1 DEF RegistrationInv
  <2>2. StopInv'
    BY DEF StopInv
  <2>3. (Unlisted' => Unlisted) /\ (Listing' => Listing)
    BY <1>2, <1>4, <1>6 DEF Unlisted, Listing
  <2>4. {c \in calls' : ToYeoman(c)} = {c \in calls : ToYeoman(c)} /\ calls \subseteq calls'
    BY <1>1
  <2> QED BY <2>1, <2>2, <2>3, <2>4, YeomanKept
<1>9. beat' \in {beat, Registry!NoBeat}
  OBVIOUS
<1>10. server' \in {"off", "starting", "serving", "stopping", "stopped"}
  OBVIOUS
<1> QED BY <1>7, <1>8, <1>9, <1>10, SendKeeps

LEMMA RegisterAllKeeps ==
  ASSUME RegistrationInv, NEW a \in Admins, Registry!RegisterAll(a) PROVE RegistrationInv'
<1>1. /\ server = "serving" /\ Registry!Mine(a) = {}
      /\ Registry!Send(a, "register", "agents", Registry!RegisterCalls(a))
      /\ UNCHANGED <<server, registered, advertised, methods, mcp, daimon, elsewhere, lastId, beat,
                     refusedBeat, mishaps>>
  BY DEF Registry!RegisterAll, Registry!local, Registry!remote, Registry!beats
<1>2. RegistrationType /\ a \in Registry!Actors /\ a # "server"
  BY SiteAgents DEF RegistrationInv, Registry!Actors
<1>3. "register" \in Ups /\ "register" \notin Downs /\ "agents" \in Phases
  BY DEF Ups, Downs, Phases
<1>4. Fresh(Registry!RegisterCalls(a), a, [kind |-> "register", phase |-> "agents"])
  BY <1>2, <1>3, CallsFresh, Zenon
<1>5. \A c \in Registry!RegisterCalls(a) : ~ToYeoman(c)
  BY DEF Registry!RegisterCalls, Registry!Call, ToYeoman
<1> QED BY <1>1, <1>2, <1>3, <1>4, <1>5, GoesOnSending

LEMMA DeregisterAllKeeps ==
  ASSUME RegistrationInv, NEW a \in Admins, Registry!DeregisterAll(a) PROVE RegistrationInv'
<1> DEFINE cs == IF advertised THEN {Registry!Call(a, "withdraw", "all", 0)} ELSE {}
<1>1. /\ server = "serving" /\ Registry!Mine(a) = {} /\ methods' = {}
      /\ Registry!Send(a, "deregister", "withdraw", cs)
      /\ UNCHANGED <<server, registered, advertised, mcp, daimon, elsewhere, lastId, beat,
                     refusedBeat, mishaps>>
  BY DEF Registry!DeregisterAll, Registry!remote, Registry!beats, Registry!None
<1>2. RegistrationType /\ a \in Registry!Actors /\ a # "server"
  BY SiteAgents DEF RegistrationInv, Registry!Actors
<1>3. "deregister" \in Downs /\ "withdraw" \in Phases
  BY DEF Downs, Phases
<1>4. Fresh(cs, a, [kind |-> "deregister", phase |-> "withdraw"])
  BY <1>2, <1>3, CallsFresh, Zenon DEF Fresh
<1>5. \A c \in cs : ~ToYeoman(c) /\ c.what = "withdraw"
  BY DEF Registry!Call, ToYeoman
<1> HIDE DEF cs
<1> QED BY <1>1, <1>2, <1>3, <1>4, <1>5, GoesOnSending

LEMMA AdvertiseKeeps ==
  ASSUME RegistrationInv, NEW a \in Registry!Actors, Registry!Advertise(a)
  PROVE  RegistrationInv'
<1> DEFINE cs == {Registry!Call(a, "advertise", "all", 0)}
<1>1. /\ op[a].kind \in Ups /\ op[a].phase = "agents" /\ Registry!Mine(a) = {}
      /\ Registry!Send(a, op[a].kind, "advertise", cs)
      /\ UNCHANGED <<server, registered, advertised, methods, mcp, daimon, elsewhere, lastId, beat,
                     refusedBeat, mishaps>>
  BY DEF Registry!Advertise, Registry!Ready, Registry!local, Registry!remote,
         Registry!beats, Registry!bounds, Registry!None, Ups
<1>2. RegistrationType /\ ServerInv
  BY DEF RegistrationInv
<1>3. "advertise" \in Phases /\ op[a].kind \notin Downs
  BY <1>1 DEF Ups, Downs, Phases
<1>4. Fresh(cs, a, [kind |-> op[a].kind, phase |-> "advertise"])
  BY <1>1, <1>2, CallsFresh, Zenon
<1>5. \A c \in cs : ~ToYeoman(c) /\ c.what = "advertise"
  BY DEF Registry!Call, ToYeoman
<1>6. /\ a = "server" => op[a].kind = "start" /\ server = "starting"
      /\ a # "server" => op[a].kind = "register" /\ server = "serving"
  BY <1>1, <1>2, SenderTimes DEF Ups
<1>7. server \in {"starting", "serving"}
  BY <1>6
<1>8. a = "server" => {op["server"].phase, "advertise"} \subseteq {"agents", "advertise", "methods"}
  BY <1>1
<1> HIDE DEF cs
<1> QED BY <1>1, <1>3, <1>4, <1>5, <1>6, <1>7, <1>8, GoesOnSending

LEMMA RegisterMethodsKeeps ==
  ASSUME RegistrationInv, NEW a \in Registry!Actors, Registry!RegisterMethods(a)
  PROVE  RegistrationInv'
<1>1. /\ op[a].kind \in Ups /\ op[a].phase = "advertise" /\ Registry!Mine(a) = {}
      /\ \E cs \in {Registry!MethodCalls(a), {}} :
           Registry!Send(a, op[a].kind, "methods", cs)
      /\ UNCHANGED <<server, registered, advertised, methods, mcp, daimon, elsewhere, lastId, beat,
                     refusedBeat, mishaps>>
  BY DEF Registry!RegisterMethods, Registry!Ready, Registry!local,
         Registry!remote, Registry!beats, Registry!bounds, Ups
<1>2. PICK cs \in {Registry!MethodCalls(a), {}} :
        Registry!Send(a, op[a].kind, "methods", cs)
  BY <1>1
<1>3. RegistrationType /\ ServerInv
  BY DEF RegistrationInv
<1>4. "methods" \in Phases /\ op[a].kind \notin Downs
  BY <1>1 DEF Ups, Downs, Phases
<1>5. Fresh(cs, a, [kind |-> op[a].kind, phase |-> "methods"])
  <2>1. Fresh(Registry!MethodCalls(a), a, [kind |-> op[a].kind, phase |-> "methods"])
    BY <1>1, <1>3, CallsFresh, Zenon
  <2>2. Fresh({}, a, [kind |-> op[a].kind, phase |-> "methods"])
    BY DEF Fresh
  <2> QED BY <1>2, <2>1, <2>2
<1>6. \A c \in cs : ~ToYeoman(c) /\ c.what = "methods"
  BY <1>2 DEF Registry!MethodCalls, Registry!Call, ToYeoman
<1>7. /\ a = "server" => op[a].kind = "start" /\ server = "starting"
      /\ a # "server" => op[a].kind = "register" /\ server = "serving"
  BY <1>1, <1>3, SenderTimes DEF Ups
<1>8. server \in {"starting", "serving"}
  BY <1>7
<1>9. a = "server" => {op["server"].phase, "methods"} \subseteq {"agents", "advertise", "methods"}
  BY <1>1
<1> QED BY <1>1, <1>2, <1>4, <1>5, <1>6, <1>7, <1>8, <1>9, GoesOnSending

LEMMA DeleteAgentsKeeps ==
  ASSUME RegistrationInv, NEW a \in Registry!Actors, Registry!DeleteAgents(a)
  PROVE  RegistrationInv'
<1> DEFINE cs == Registry!DeleteCalls(a)
<1>1. /\ op[a].kind \in Downs /\ op[a].phase = "withdraw" /\ Registry!Mine(a) = {}
      /\ Registry!Send(a, op[a].kind, "delete", cs)
      /\ UNCHANGED <<server, registered, advertised, methods, mcp, daimon, elsewhere, lastId, beat,
                     refusedBeat, mishaps>>
  BY DEF Registry!DeleteAgents, Registry!Ready, Registry!local,
         Registry!remote, Registry!beats, Registry!bounds, Downs
<1>2. RegistrationType /\ ServerInv
  BY DEF RegistrationInv
<1>3. "delete" \in Phases /\ op[a].phase # "mcp"
  BY <1>1 DEF Phases
<1>4. Fresh(cs, a, [kind |-> op[a].kind, phase |-> "delete"])
  BY <1>1, <1>2, CallsFresh, Zenon
<1>5. /\ \A c \in cs : ~ToYeoman(c) /\ c.what = "delete" /\ c.by = a /\ Sent(c)
      /\ \A k \in AgentKeys : registered[k] # 0 =>
           \E c \in cs : Sent(c) /\ c.what = "delete" /\ c.key = k /\ c.id = registered[k]
  <2>1. /\ \A k \in AgentKeys : registered[k] # 0 =>
               Registry!Call(a, "delete", k, registered[k]) \in cs
        /\ \A c \in cs : \E k : c = Registry!Call(a, "delete", k, registered[k])
    BY DEF Registry!DeleteCalls, Registry!None
  <2>2. \A k, i : LET c == Registry!Call(a, "delete", k, i) IN
          c.by = a /\ c.what = "delete" /\ c.key = k /\ c.id = i /\ Sent(c) /\ ~ToYeoman(c)
    BY DEF Registry!Call, ToYeoman, Sent
  <2> HIDE DEF cs
  <2>3. \A c \in cs : ~ToYeoman(c) /\ c.what = "delete" /\ c.by = a /\ Sent(c)
    BY <2>1, <2>2
  <2>4. ASSUME NEW k \in AgentKeys, registered[k] # 0
        PROVE  \E c \in cs : Sent(c) /\ c.what = "delete" /\ c.key = k /\ c.id = registered[k]
    BY <2>1, <2>2, <2>4
  <2> QED BY <2>3, <2>4
<1> HIDE DEF cs
<1>6. CASE a # "server"
  <2>1. op[a].kind = "deregister" /\ server = "serving"
    BY <1>1, <1>2, <1>6, SenderTimes DEF Downs
  <2> QED BY <1>1, <1>3, <1>4, <1>5, <1>6, <2>1, GoesOnSending
<1>7. CASE a = "server"
  <2>1. op["server"].kind = "stop" /\ server = "stopping"
    BY <1>1, <1>2, <1>7, SenderTimes DEF Downs
  <2>2. /\ op' = [op EXCEPT !["server"] = [kind |-> "stop", phase |-> "delete"]]
        /\ calls' = calls \cup cs /\ (excused => excused')
    BY <1>1, <1>7, <2>1, Zenon DEF Registry!Send
  <2>3. /\ op'["server"] = [kind |-> "stop", phase |-> "delete"]
        /\ \A b \in Admins : op'[b] = op[b]
    BY <1>2, <1>7, <2>2, SiteAgents DEF RegistrationType, Registry!Actors
  <2>4. ServerInv'
    BY <1>1, <1>2, <1>5, <2>1, <2>2, <2>3 DEF ServerInv
  <2>5. ~excused' /\ mishaps' = 0 => StopInv' /\ YeomanInv'
    <3> SUFFICES ASSUME ~excused', mishaps' = 0 PROVE StopInv' /\ YeomanInv'
      OBVIOUS
    <3>1. ~excused /\ OrderInv /\ RestAgreed /\ (\A k \in AgentKeys : AgentAgreed(k))
          /\ StopInv /\ YeomanInv
      BY <1>1, <2>2 DEF RegistrationInv
    <3>2. calls = {}
      BY <1>1, <1>2, <1>7, <2>1, <3>1, AllMine
    <3>3. ~daimon.capabilities
      BY <1>1, <1>7, <2>1, <3>1, <3>2 DEF StopInv
    <3>4. \A k \in AgentKeys : daimon.agent[k] = registered[k]
      BY <3>1, <3>2 DEF AgentAgreed
    <3>5. \A k \in AgentKeys : daimon'.agent[k] = 0 \/ Left(k)'
      BY <1>1, <1>5, <2>2, <3>2, <3>4 DEF Left
    <3>6. StopInv'
      BY <1>1, <2>1, <2>3, <3>3, <3>5 DEF StopInv
    <3>7. YeomanInv'
      BY <1>1, <2>1, <3>1, <3>2 DEF YeomanInv, Unlisted, Listing
    <3> QED BY <3>6, <3>7
  <2>6. server' \in {"off", "starting", "serving", "stopping", "stopped"}
    BY <1>1, <2>1
  <2> QED BY <1>1, <1>3, <1>4, <2>4, <2>5, <2>6, SendKeeps
<1> QED BY <1>6, <1>7

LEMMA StartMcpKeeps ==
  ASSUME RegistrationInv, NEW s \in Registry!Servers, Registry!StartMcp(s)
  PROVE  RegistrationInv'
<1> DEFINE d == Registry!Call("server", "mcpRegister", s, 0)
<1>1. /\ op["server"].kind = "start"
      /\ IF s = "yeoman" THEN op["server"].phase \in {"methods", "raised"}
         ELSE s = "daimon" /\ op["server"].phase = "yeoman"
                /\ {c \in Registry!Mine("server") : c.key = "yeoman"} = {}
      /\ op["server"].phase = "methods" => Registry!Mine("server") = {}
      /\ Registry!Send("server", "start", s, {d})
      /\ UNCHANGED <<server, registered, advertised, methods, mcp, daimon, elsewhere, lastId, beat,
                     refusedBeat, mishaps>>
  BY DEF Registry!StartMcp, Registry!Ready, Registry!local, Registry!remote,
         Registry!bounds, Registry!None
<1>2. RegistrationType /\ ServerInv /\ "server" \in Registry!Actors /\ s \in Phases
  BY DEF RegistrationInv, Registry!Actors, Registry!Servers, Phases
<1>3. server = "starting" /\ s \in {"yeoman", "daimon"}
  BY <1>1, <1>2, SenderTimes DEF Registry!Servers
<1>4. /\ d \in Callable /\ d.by = "server" /\ d.what = "mcpRegister" /\ d.key = s /\ Sent(d)
  BY <1>2 DEF Registry!Call, Callable, ServerCalls, Sent
<1> HIDE DEF d
<1>5. Fresh({d}, "server", [kind |-> "start", phase |-> s])
  BY <1>4 DEF Fresh, Addressed, Fits, AgentCalls, ServerCalls
<1>6. ASSUME ~excused PROVE calls = {}
  <2>1. OrderInv
    BY <1>6 DEF RegistrationInv
  <2>2. \A c \in calls : c.by = "server" /\ Fits(c, op["server"])
    BY <1>2, <1>3, <2>1, AllMine DEF OrderInv
  <2>3. \A c \in calls : c.what \in AgentCalls \cup ServerCalls \cup {"advertise", "withdraw"}
    BY <1>2 DEF RegistrationType, Callable
  <2>4. Registry!Mine("server") = calls
    BY <2>2 DEF Registry!Mine
  <2>5. CASE op["server"].phase = "methods"
    BY <1>1, <2>4, <2>5
  <2>6. CASE op["server"].phase = "raised"
    <3>1. \A c \in calls : c.what = "mcpRegister" => c.key # "raised"
      BY <1>2 DEF RegistrationType, Addressed, ServerCalls, Registry!Servers
    <3> QED BY <1>1, <2>2, <2>3, <2>6, <3>1 DEF Fits, AgentCalls, ServerCalls, Ups, Downs
  <2>7. CASE op["server"].phase = "yeoman"
    BY <1>1, <2>2, <2>3, <2>4, <2>7 DEF Fits, AgentCalls, ServerCalls, Ups, Downs
  <2> QED BY <1>1, <1>3, <2>5, <2>6, <2>7
<1>7. /\ op' = [op EXCEPT !["server"] = [kind |-> "start", phase |-> s]]
      /\ calls' = calls \cup {d} /\ (excused => excused')
  BY <1>1, Zenon DEF Registry!Send
<1>8. op'["server"] = [kind |-> "start", phase |-> s] /\ \A b \in Admins : op'[b] = op[b]
  BY <1>2, <1>7, SiteAgents DEF RegistrationType, Registry!Actors
<1>9. ServerInv'
  BY <1>1, <1>2, <1>3, <1>4, <1>7, <1>8 DEF ServerInv
<1>10. ~excused' /\ mishaps' = 0 => StopInv' /\ YeomanInv'
  <2> SUFFICES ASSUME ~excused', mishaps' = 0 PROVE StopInv' /\ YeomanInv'
    OBVIOUS
  <2>1. YeomanInv /\ calls = {} /\ calls' = {d}
    BY <1>1, <1>6, <1>7 DEF RegistrationInv
  <2>2. StopInv'
    BY <1>1, <1>3 DEF StopInv
  <2>3. ~Unlisted' /\ Listing'
    BY <1>1, <1>3, <1>8 DEF Unlisted, Listing
  <2>4. CASE s = "yeoman"
    <3>1. Unlisted
      BY <1>1, <1>3, <2>4 DEF Unlisted
    <3>2. elsewhere["yeoman"] = {}
      BY <2>1, <3>1 DEF YeomanInv
    <3>3. ToYeoman(d)
      BY <1>4, <2>4 DEF ToYeoman
    <3> QED BY <1>1, <1>3, <1>4, <2>1, <2>2, <2>3, <3>2, <3>3 DEF YeomanInv, ToYeoman, Sent
  <2>5. CASE s = "daimon"
    <3>1. Listing
      BY <1>1, <1>3, <2>5 DEF Listing
    <3>2. ListedAs(mcp["yeoman"])
      BY <2>1, <3>1 DEF YeomanInv
    <3>3. ~ToYeoman(d)
      BY <1>4, <2>5 DEF ToYeoman
    <3> QED BY <1>1, <1>3, <1>4, <2>1, <2>2, <2>3, <3>2, <3>3 DEF YeomanInv, ToYeoman, ListedAs
  <2> QED BY <1>3, <2>4, <2>5
<1>11. "start" \in Ups \cup Downs /\ "start" \notin Downs
  BY DEF Ups, Downs
<1>12. ~excused => Registry!Mine("server") = {}
  BY <1>6 DEF Registry!Mine
<1>13. server' \in {"off", "starting", "serving", "stopping", "stopped"}
  BY <1>1, <1>3
<1> QED BY <1>1, <1>2, <1>5, <1>9, <1>10, <1>11, <1>12, <1>13, SendKeeps

LEMMA StopServerKeeps ==
  ASSUME RegistrationInv, Registry!StopServer PROVE RegistrationInv'
<1> DEFINE d == Registry!Call("server", "mcpDeregister", "yeoman", mcp["yeoman"])
           cs == IF mcp["yeoman"] = 0 THEN {} ELSE {d}
<1>1. /\ server = "serving" /\ server' = "stopping"
      /\ \A a \in Admins : op[a] = Registry!NoOp /\ Registry!Mine(a) = {}
      /\ beat' = Registry!NoBeat /\ Registry!Send("server", "stop", "mcp", cs)
      /\ UNCHANGED <<registered, advertised, methods, mcp, daimon, elsewhere, lastId,
                     refusedBeat, mishaps>>
  BY DEF Registry!StopServer, Registry!local, Registry!remote, Registry!bounds,
         Registry!None
<1>2. RegistrationType /\ ServerInv /\ "server" \in Registry!Actors /\ "mcp" \in Phases
      /\ "stop" \in Downs /\ "yeoman" \in Registry!Servers
  BY DEF RegistrationInv, Registry!Actors, Registry!Servers, Phases, Downs
<1>3. mcp["yeoman"] \in Nat
  BY <1>2 DEF RegistrationType
<1>4. /\ d \in Callable /\ d.by = "server" /\ d.what = "mcpDeregister" /\ d.key = "yeoman"
      /\ d.id = mcp["yeoman"] /\ Sent(d)
  BY <1>2, <1>3 DEF Registry!Call, Callable, ServerCalls, Sent
<1> HIDE DEF d
<1>5. Fresh({d}, "server", [kind |-> "stop", phase |-> "mcp"])
  BY <1>2, <1>4 DEF Fresh, Addressed, Fits, AgentCalls, ServerCalls
<1>6. Fresh(cs, "server", [kind |-> "stop", phase |-> "mcp"]) /\ cs \subseteq {d}
  BY <1>5 DEF Fresh
<1>7. ASSUME ~excused PROVE calls = {}
  <2>1. OrderInv
    BY <1>7 DEF RegistrationInv
  <2>2. \A c \in calls : c.by \in Registry!Actors /\ Fits(c, op[c.by]) /\ c.what \in
          AgentCalls \cup ServerCalls \cup {"advertise", "withdraw"}
    BY <1>2, <2>1 DEF OrderInv, RegistrationType, Callable
  <2>3. \A a \in Registry!Actors : op[a].kind = "none"
    BY <1>1, <1>2 DEF ServerInv, Registry!Actors, Registry!NoOp
  <2> QED BY <2>2, <2>3 DEF Fits, AgentCalls, ServerCalls, Ups, Downs
<1>8. /\ op' = [op EXCEPT !["server"] = [kind |-> "stop", phase |-> "mcp"]]
      /\ calls' = calls \cup cs /\ (excused => excused')
  BY <1>1, Zenon DEF Registry!Send
<1>9. op'["server"] = [kind |-> "stop", phase |-> "mcp"] /\ \A b \in Admins : op'[b] = op[b]
  BY <1>2, <1>8, SiteAgents DEF RegistrationType, Registry!Actors
<1>10. ServerInv'
  <2>1. \A c \in calls' : c.by = "server" => c.what # "register"
    BY <1>1, <1>2, <1>4, <1>6, <1>8 DEF ServerInv
  <2>2. \A a \in Admins : op'[a].kind = "none"
    BY <1>1, <1>9 DEF Registry!NoOp
  <2> QED BY <1>1, <1>9, <2>1, <2>2 DEF ServerInv
<1>11. ~excused' /\ mishaps' = 0 => StopInv' /\ YeomanInv'
  <2> SUFFICES ASSUME ~excused', mishaps' = 0 PROVE StopInv' /\ YeomanInv'
    OBVIOUS
  <2>1. YeomanInv /\ calls = {} /\ calls' = cs
    BY <1>1, <1>7, <1>8 DEF RegistrationInv
  <2>2. StopInv'
    BY <1>1, <1>9 DEF StopInv
  <2>3. ~Unlisted' /\ ~Listing' /\ Listing
    BY <1>1 DEF Unlisted, Listing
  <2>4. elsewhere["yeoman"] = {mcp["yeoman"]} /\ mcp["yeoman"] # 0
    BY <2>1, <2>3 DEF YeomanInv, ListedAs
  <2>5. d \in calls' /\ elsewhere'["yeoman"] = {d.id}
    BY <1>1, <1>4, <2>1, <2>4
  <2> QED BY <1>1, <1>4, <2>2, <2>3, <2>5 DEF YeomanInv, Sent
<1>12. ~excused => Registry!Mine("server") = {}
  BY <1>7 DEF Registry!Mine
<1> HIDE DEF cs
<1> QED BY <1>1, <1>2, <1>6, <1>10, <1>11, <1>12, SendKeeps

LEMMA StopAgentsKeeps ==
  ASSUME RegistrationInv, Registry!StopAgents PROVE RegistrationInv'
<1> DEFINE d  == Registry!Call("server", "withdraw", "all", 0)
           cs == IF advertised THEN {d} ELSE {}
<1>1. /\ op["server"].kind = "stop" /\ op["server"].phase = "mcp"
      /\ Registry!Mine("server") = {} /\ methods' = {}
      /\ Registry!Send("server", "stop", "withdraw", cs)
      /\ UNCHANGED <<server, registered, advertised, mcp, daimon, elsewhere, lastId, beat,
                     refusedBeat, mishaps>>
  BY DEF Registry!StopAgents, Registry!Ready, Registry!local, Registry!remote,
         Registry!beats, Registry!bounds, Registry!None
<1>2. RegistrationType /\ ServerInv /\ "server" \in Registry!Actors /\ "withdraw" \in Phases
      /\ "stop" \in Downs
  BY DEF RegistrationInv, Registry!Actors, Phases, Downs
<1>3. server = "stopping"
  BY <1>1, <1>2, SenderTimes
<1>4. Fresh({d}, "server", [kind |-> "stop", phase |-> "withdraw"])
  BY <1>2, CallsFresh, Zenon
<1>5. Fresh(cs, "server", [kind |-> "stop", phase |-> "withdraw"])
  BY <1>4 DEF Fresh
<1>6. d.what = "withdraw" /\ Sent(d)
  BY DEF Registry!Call, Sent
<1> HIDE DEF d
<1>7. /\ op' = [op EXCEPT !["server"] = [kind |-> "stop", phase |-> "withdraw"]]
      /\ calls' = calls \cup cs /\ (excused => excused')
  BY <1>1, Zenon DEF Registry!Send
<1>8. op'["server"] = [kind |-> "stop", phase |-> "withdraw"] /\ \A b \in Admins : op'[b] = op[b]
  BY <1>2, <1>7, SiteAgents DEF RegistrationType, Registry!Actors
<1>9. ServerInv'
  BY <1>1, <1>2, <1>3, <1>6, <1>7, <1>8 DEF ServerInv
<1>10. ~excused' /\ mishaps' = 0 => StopInv' /\ YeomanInv'
  <2> SUFFICES ASSUME ~excused', mishaps' = 0 PROVE StopInv' /\ YeomanInv'
    OBVIOUS
  <2>1. YeomanInv /\ RestAgreed /\ OrderInv
    BY <1>1, <1>7 DEF RegistrationInv
  <2>2. calls = {}
    BY <1>1, <1>2, <1>3, <2>1, AllMine
  <2>3. daimon.capabilities = advertised
    BY <2>1, <2>2 DEF RestAgreed
  <2>4. StopInv'
    BY <1>1, <1>3, <1>6, <1>7, <1>8, <2>3 DEF StopInv, Sent
  <2>5. YeomanInv'
    BY <1>1, <1>3, <2>1, <2>2 DEF YeomanInv, Unlisted, Listing
  <2> QED BY <2>4, <2>5
<1>11. server' \in {"off", "starting", "serving", "stopping", "stopped"}
  BY <1>1, <1>3
<1> HIDE DEF cs
<1> QED BY <1>1, <1>2, <1>5, <1>9, <1>10, <1>11, SendKeeps

\* An operation that ends has no calls under way.
LEMMA EndKeeps ==
  ASSUME RegistrationInv, NEW a \in Registry!Actors,
         op' = [op EXCEPT ![a] = Registry!NoOp], Registry!Mine(a) = {},
         UNCHANGED <<calls, registered, advertised, methods, mcp, daimon, elsewhere, lastId, beat,
                     refusedBeat, excused, mishaps>>,
         ServerInv', server' \in {"off", "starting", "serving", "stopping", "stopped"},
         ~excused' /\ mishaps' = 0 => StopInv' /\ YeomanInv'
  PROVE  RegistrationInv'
<1>1. RegistrationType /\ IdsInv
  BY DEF RegistrationInv
<1>2. Registry!NoOp \in Ops /\ Registry!NoOp.kind = "none"
  BY DEF Registry!NoOp, Ops, Phases
<1>3. op'[a] = Registry!NoOp /\ \A b \in Registry!Actors \ {a} : op'[b] = op[b]
  BY <1>1 DEF RegistrationType
<1>4. op' \in [Registry!Actors -> Ops]
  BY <1>1, <1>2 DEF RegistrationType
<1>5. RegistrationType'
  BY <1>1, <1>4 DEF RegistrationType, Addressed, Sent
<1>6. IdsInv'
  BY <1>1 DEF IdsInv, HeldAs, Registry!Known
<1>7. ASSUME ~excused'
      PROVE  OrderInv' /\ RestAgreed' /\ (\A k \in AgentKeys : AgentAgreed(k)') /\ ~refusedBeat'
  <2>1. OrderInv /\ RestAgreed /\ (\A k \in AgentKeys : AgentAgreed(k)) /\ ~refusedBeat
    BY <1>7 DEF RegistrationInv
  <2>2. (Upward' => Upward) /\ (Downward' => Downward)
    BY <1>2, <1>3 DEF Upward, Downward, Ups, Downs
  <2>3. \A c \in calls : c.by \in Registry!Actors \ {a}
    BY <1>1 DEF RegistrationType, Callable, Registry!Mine
  <2>4. OrderInv'
    BY <1>3, <2>1, <2>2, <2>3 DEF OrderInv
  <2>5. RestAgreed'
    BY <1>2, <1>3, <2>1 DEF RestAgreed, Answer, Downs
  <2>6. \A k \in AgentKeys : AgentAgreed(k)'
    BY <2>1 DEF AgentAgreed, Answer
  <2> QED BY <2>1, <2>4, <2>5, <2>6
<1> QED BY <1>5, <1>6, <1>7 DEF RegistrationInv

LEMMA DoneKeeps ==
  ASSUME RegistrationInv, NEW a \in Registry!Actors, Registry!Done(a)
  PROVE  RegistrationInv'
<1>1. /\ op[a].kind \in {"register", "deregister"} /\ Registry!Mine(a) = {}
      /\ op' = [op EXCEPT ![a] = Registry!NoOp]
      /\ UNCHANGED <<server, calls, registered, advertised, methods, mcp, daimon, elsewhere, lastId,
                     beat, refusedBeat, excused, mishaps>>
  BY DEF Registry!Done, Registry!Ready, Registry!local, Registry!remote,
         Registry!beats, Registry!bounds
<1>2. RegistrationType /\ ServerInv
  BY DEF RegistrationInv
<1>3. a # "server" /\ server = "serving"
  BY <1>1, <1>2, SenderTimes
<1>4. op'[a].kind = "none" /\ \A b \in Registry!Actors \ {a} : op'[b] = op[b]
  BY <1>1, <1>2 DEF RegistrationType, Registry!NoOp
<1>5. ServerInv'
  BY <1>1, <1>2, <1>3, <1>4, SiteAgents DEF ServerInv, Registry!Actors
<1>6. ~excused' /\ mishaps' = 0 => StopInv' /\ YeomanInv'
  <2> SUFFICES ASSUME ~excused', mishaps' = 0 PROVE StopInv' /\ YeomanInv'
    OBVIOUS
  <2>1. YeomanInv /\ Listing /\ Listing' /\ ~Unlisted'
    BY <1>1, <1>3 DEF RegistrationInv, Listing, Unlisted
  <2> QED BY <1>1, <1>3, <2>1, YeomanKept DEF StopInv
<1>7. server' \in {"off", "starting", "serving", "stopping", "stopped"}
  BY <1>1, <1>3
<1> QED BY <1>1, <1>5, <1>6, <1>7, EndKeeps, Zenon

LEMMA ServeKeeps == ASSUME RegistrationInv, Registry!Serve PROVE RegistrationInv'
<1>1. /\ op["server"].kind = "start" /\ op["server"].phase = "daimon"
      /\ Registry!Mine("server") = {} /\ server' = "serving"
      /\ op' = [op EXCEPT !["server"] = Registry!NoOp]
      /\ UNCHANGED <<calls, registered, advertised, methods, mcp, daimon, elsewhere, lastId,
                     beat, refusedBeat, excused, mishaps>>
  BY DEF Registry!Serve, Registry!Ready, Registry!local, Registry!remote,
         Registry!beats, Registry!bounds
<1>2. RegistrationType /\ ServerInv /\ "server" \in Registry!Actors
  BY DEF RegistrationInv, Registry!Actors
<1>3. server = "starting"
  BY <1>1, <1>2, SenderTimes
<1>4. op'["server"].kind = "none" /\ \A b \in Admins : op'[b] = op[b]
  BY <1>1, <1>2, SiteAgents DEF RegistrationType, Registry!NoOp, Registry!Actors
<1>5. ServerInv'
  BY <1>1, <1>2, <1>3, <1>4 DEF ServerInv, Registry!Mine
<1>6. ~excused' /\ mishaps' = 0 => StopInv' /\ YeomanInv'
  <2> SUFFICES ASSUME ~excused', mishaps' = 0 PROVE StopInv' /\ YeomanInv'
    OBVIOUS
  <2>1. YeomanInv /\ Listing /\ Listing' /\ ~Unlisted'
    BY <1>1, <1>3 DEF RegistrationInv, Listing, Unlisted
  <2>2. StopInv'
    BY <1>1 DEF StopInv
  <2>3. \/ ListedAs(mcp["yeoman"]) /\ \A c \in calls : ~ToYeoman(c)
        \/ \E c \in calls : /\ ToYeoman(c) /\ \A d \in calls : ToYeoman(d) => d = c
                            /\ \/ Sent(c) /\ elsewhere["yeoman"] = {}
                               \/ Answer(c) /\ ListedAs(c.id)
    BY <2>1 DEF YeomanInv
  <2> QED BY <1>1, <2>1, <2>2, <2>3 DEF YeomanInv, ListedAs, ToYeoman, Sent, Answer
<1> QED BY <1>1, <1>2, <1>5, <1>6, EndKeeps, Zenon

LEMMA StoppedKeeps == ASSUME RegistrationInv, Registry!Stopped PROVE RegistrationInv'
<1>1. /\ op["server"].kind = "stop" /\ op["server"].phase = "delete"
      /\ Registry!Mine("server") = {} /\ server' = "stopped"
      /\ op' = [op EXCEPT !["server"] = Registry!NoOp]
      /\ UNCHANGED <<calls, registered, advertised, methods, mcp, daimon, elsewhere, lastId,
                     beat, refusedBeat, excused, mishaps>>
  BY DEF Registry!Stopped, Registry!Ready, Registry!local, Registry!remote,
         Registry!beats, Registry!bounds
<1>2. RegistrationType /\ ServerInv /\ "server" \in Registry!Actors
  BY DEF RegistrationInv, Registry!Actors
<1>3. server = "stopping"
  BY <1>1, <1>2, SenderTimes
<1>4. op'["server"].kind = "none" /\ \A b \in Admins : op'[b] = op[b]
  BY <1>1, <1>2, SiteAgents DEF RegistrationType, Registry!NoOp, Registry!Actors
<1>5. ServerInv'
  BY <1>1, <1>2, <1>3, <1>4 DEF ServerInv
<1>6. ~excused' /\ mishaps' = 0 => StopInv' /\ YeomanInv'
  <2> SUFFICES ASSUME ~excused', mishaps' = 0 PROVE StopInv' /\ YeomanInv'
    OBVIOUS
  <2>1. StopInv /\ YeomanInv /\ OrderInv
    BY <1>1 DEF RegistrationInv
  <2>2. calls = {}
    BY <1>1, <1>2, <1>3, <2>1, AllMine
  <2>3. ~daimon.capabilities /\ \A k \in AgentKeys : daimon.agent[k] = 0
    BY <1>1, <1>3, <2>1, <2>2 DEF StopInv, Left
  <2>4. elsewhere["yeoman"] = {}
    BY <1>3, <2>1, <2>2 DEF YeomanInv
  <2>5. StopInv'
    BY <1>1, <2>2, <2>3 DEF StopInv
  <2>6. YeomanInv'
    BY <1>1, <2>4 DEF YeomanInv, Listing
  <2> QED BY <2>5, <2>6
<1> QED BY <1>1, <1>2, <1>5, <1>6, EndKeeps, Zenon

\* The heartbeats change nothing else.
LEMMA BeatKeeps ==
  ASSUME RegistrationInv,
         UNCHANGED <<server, op, calls, registered, advertised, methods, mcp, daimon, elsewhere,
                     lastId, excused, mishaps>>,
         beat' # Registry!NoBeat => beat'.key \in AgentKeys /\ beat'.id \in Nat \ {0},
         refusedBeat' \in BOOLEAN, ~excused => ~refusedBeat'
  PROVE  RegistrationInv'
<1>1. RegistrationType'
  BY DEF RegistrationInv, RegistrationType, Registry!NoBeat, Addressed, Sent
<1>2. ServerInv' /\ IdsInv'
  BY DEF RegistrationInv, ServerInv, IdsInv, HeldAs, Registry!Known
<1>3. ~excused => OrderInv' /\ RestAgreed' /\ (\A k \in AgentKeys : AgentAgreed(k)')
  BY DEF RegistrationInv, OrderInv, Upward, Downward, Fits, RestAgreed, AgentAgreed, Answer
<1>4. ~excused /\ mishaps = 0 => StopInv'
  BY DEF RegistrationInv, StopInv, Left, Sent
<1>5. ~excused /\ mishaps = 0 => YeomanInv'
  BY YeomanKept DEF RegistrationInv, Unlisted, Listing
<1> QED BY <1>1, <1>2, <1>3, <1>4, <1>5 DEF RegistrationInv

LEMMA SendHeartbeatKeeps ==
  ASSUME RegistrationInv, NEW k \in StaticKeys, Registry!SendHeartbeat(k)
  PROVE  RegistrationInv'
<1>1. /\ registered[k] # 0 /\ beat' = [key |-> k, id |-> registered[k]]
      /\ UNCHANGED <<server, op, calls, registered, advertised, methods, mcp, daimon, elsewhere,
                     lastId, excused, mishaps, refusedBeat>>
  BY DEF Registry!SendHeartbeat, Registry!local, Registry!remote,
         Registry!bounds, Registry!None
<1>2. beat'.key \in AgentKeys /\ beat'.id \in Nat \ {0}
  BY <1>1, SiteAgents DEF RegistrationInv, RegistrationType
<1>3. refusedBeat' \in BOOLEAN /\ (~excused => ~refusedBeat')
  BY <1>1 DEF RegistrationInv, RegistrationType
<1> QED BY <1>1, <1>2, <1>3, BeatKeeps

LEMMA HeartbeatAnsweredKeeps ==
  ASSUME RegistrationInv, Registry!HeartbeatAnswered PROVE RegistrationInv'
<1>1. /\ beat # Registry!NoBeat /\ beat' = Registry!NoBeat
      /\ refusedBeat' = (refusedBeat \/ (~Registry!Known(beat.id)
                           /\ registered[beat.key] = beat.id /\ ~Registry!Deregistering))
      /\ UNCHANGED <<server, op, calls, registered, advertised, methods, mcp, daimon, elsewhere,
                     lastId, excused, mishaps>>
  BY DEF Registry!HeartbeatAnswered, Registry!local, Registry!remote,
         Registry!bounds
<1>2. RegistrationType /\ beat.key \in AgentKeys /\ beat.id \in Nat \ {0}
  BY <1>1 DEF RegistrationInv, RegistrationType
<1>3. ASSUME ~excused PROVE ~refusedBeat'
  <2>1. ~refusedBeat /\ AgentAgreed(beat.key)
    BY <1>2, <1>3 DEF RegistrationInv
  <2>2. CASE daimon.agent[beat.key] = registered[beat.key]
    BY <1>1, <1>2, <2>1, <2>2, Zenon DEF Registry!Known
  <2>3. CASE \E c \in calls :
          Answer(c) /\ c.key = beat.key /\ c.id # 0 /\ c.what \in {"register", "delete"}
    <3>1. PICK c \in calls :
            Answer(c) /\ c.key = beat.key /\ c.id # 0 /\ c.what \in {"register", "delete"}
      BY <2>3
    <3>2. CASE c.what = "delete"
      BY <1>1, <2>1, <3>1, <3>2, Zenon DEF Registry!Deregistering
    <3>3. CASE c.what = "register"
      <4>1. daimon.agent[beat.key] = c.id /\ registered[beat.key] \in {0, c.id}
        BY <2>1, <3>1, <3>3 DEF AgentAgreed
      <4> QED BY <1>1, <1>2, <2>1, <4>1, Zenon DEF Registry!Known
    <3> QED BY <3>1, <3>2, <3>3
  <2> QED BY <2>1, <2>2, <2>3 DEF AgentAgreed
<1>4. refusedBeat' \in BOOLEAN
  BY <1>1, <1>2 DEF RegistrationType, Registry!Known, Registry!Deregistering
<1> QED BY <1>1, <1>3, <1>4, BeatKeeps

\* Fewer calls hold fewer ids.
LEMMA IdsKept ==
  ASSUME IdsInv, lastId' = lastId, lastId \in Nat,
         \A k \in AgentKeys, i \in Nat : HeldAs(k, i)' => HeldAs(k, i),
         \A i \in daimon'.methods : i # 0 /\ Registry!Known(i)'
  PROVE  IdsInv'
<1>1. \A k \in AgentKeys, i \in Nat : HeldAs(k, i)' => i <= lastId'
  BY DEF IdsInv
<1>2. \A j, k \in AgentKeys, i \in Nat : HeldAs(j, i)' /\ HeldAs(k, i)' => j = k
  BY DEF IdsInv
<1> QED BY <1>1, <1>2 DEF IdsInv

LEMMA CallFailsKeeps ==
  ASSUME RegistrationInv, NEW c \in calls, Registry!Fails(c) PROVE RegistrationInv'
<1>1. /\ mishaps' = mishaps + 1 /\ calls' = calls \ {c} /\ excused' = (excused \/ Answer(c))
      /\ UNCHANGED <<server, op, registered, advertised, methods, mcp, daimon, elsewhere, lastId,
                     beat, refusedBeat>>
  BY DEF Registry!Fails, Registry!Mishap, Registry!local, Registry!remote,
         Registry!beats, Answer
<1>2. RegistrationType /\ ServerInv /\ IdsInv
  BY DEF RegistrationInv
<1>3. mishaps' # 0 /\ mishaps' \in Nat
  BY <1>1, <1>2 DEF RegistrationType
<1>4. RegistrationType'
  BY <1>1, <1>2, <1>3 DEF RegistrationType, Addressed, Sent, Answer
<1>5. ServerInv'
  BY <1>1, <1>2 DEF ServerInv
<1>6. IdsInv'
  <2>1. \A k \in AgentKeys, i \in Nat : HeldAs(k, i)' => HeldAs(k, i)
    BY <1>1 DEF HeldAs
  <2>2. \A i \in daimon'.methods : i # 0 /\ Registry!Known(i)'
    BY <1>1, <1>2 DEF IdsInv, Registry!Known
  <2> QED BY <1>1, <1>2, <2>1, <2>2, IdsKept DEF RegistrationType
<1>7. ASSUME ~excused'
      PROVE  OrderInv' /\ RestAgreed' /\ (\A k \in AgentKeys : AgentAgreed(k)') /\ ~refusedBeat'
  <2>1. OrderInv /\ RestAgreed /\ (\A k \in AgentKeys : AgentAgreed(k)) /\ ~refusedBeat
        /\ ~Answer(c)
    BY <1>1, <1>7, Zenon DEF RegistrationInv
  <2>2. calls' \subseteq calls /\ \A d \in calls : Answer(d) => d \in calls'
    BY <1>1, <2>1
  <2>3. OrderInv'
    BY <1>1, <2>1 DEF OrderInv, Upward, Downward, Fits
  <2>4. RestAgreed'
    BY <1>1, <2>1, <2>2 DEF RestAgreed, Answer
  <2>5. \A k \in AgentKeys : AgentAgreed(k)'
    BY <1>1, <2>1, <2>2 DEF AgentAgreed, Answer
  <2> QED BY <1>1, <2>1, <2>3, <2>4, <2>5
<1> QED BY <1>3, <1>4, <1>5, <1>6, <1>7 DEF RegistrationInv

LEMMA UnreadableKeeps ==
  ASSUME RegistrationInv, NEW c \in calls, Registry!Unreadable(c) PROVE RegistrationInv'
<1> DEFINE raised == [op[c.by] EXCEPT !.phase = "raised"]
           o == IF op[c.by].kind = "start" THEN raised ELSE Registry!NoOp
<1>1. /\ c.what = "register" /\ mishaps' = mishaps + 1 /\ calls' = calls \ {c} /\ excused' = TRUE
      /\ op' = [op EXCEPT ![c.by] = o]
      /\ UNCHANGED <<server, registered, advertised, methods, mcp, daimon, elsewhere, lastId,
                     beat, refusedBeat>>
  BY DEF Registry!Unreadable, Registry!Mishap, Registry!local, Registry!remote,
         Registry!beats
<1>2. RegistrationType /\ ServerInv /\ IdsInv
  BY DEF RegistrationInv
<1>3. c.by \in Registry!Actors /\ op[c.by] \in Ops
  BY <1>2 DEF RegistrationType, Callable
<1>4. raised \in Ops /\ raised.kind = op[c.by].kind
  BY <1>3 DEF Ops, Phases
<1>5. Registry!NoOp \in Ops /\ Registry!NoOp.kind = "none"
  BY DEF Registry!NoOp, Ops, Phases
<1> HIDE DEF raised
<1>6. o \in Ops /\ o.kind \in {op[c.by].kind, "none"}
      /\ (op[c.by].kind = "start" => o.kind = op[c.by].kind)
  BY <1>4, <1>5
<1> HIDE DEF o
<1>7. /\ op' \in [Registry!Actors -> Ops] /\ op'[c.by] = o
      /\ \A a \in Registry!Actors \ {c.by} : op'[a] = op[a]
  BY <1>1, <1>2, <1>3, <1>6 DEF RegistrationType
<1>8. mishaps' # 0 /\ mishaps' \in Nat
  BY <1>1, <1>2 DEF RegistrationType
<1>9. RegistrationType'
  BY <1>1, <1>2, <1>7, <1>8 DEF RegistrationType, Addressed, Sent
<1>10. ServerInv'
  <2>1. c.by = "server" => op["server"].kind = "start"
    BY <1>1, <1>2 DEF ServerInv
  <2>2. "server" \in Registry!Actors /\ Admins \subseteq Registry!Actors
        /\ "server" \notin Admins
    BY SiteAgents DEF Registry!Actors
  <2>3. op'["server"].kind = op["server"].kind
    BY <1>6, <1>7, <2>1, <2>2
  <2>4. \A a \in Admins : op'[a].kind \in {op[a].kind, "none"}
    BY <1>6, <1>7, <2>2
  <2> QED BY <1>1, <1>2, <2>3, <2>4 DEF ServerInv
<1>11. IdsInv'
  <2>1. \A k \in AgentKeys, i \in Nat : HeldAs(k, i)' => HeldAs(k, i)
    BY <1>1 DEF HeldAs
  <2>2. \A i \in daimon'.methods : i # 0 /\ Registry!Known(i)'
    BY <1>1, <1>2 DEF IdsInv, Registry!Known
  <2> QED BY <1>1, <1>2, <2>1, <2>2, IdsKept DEF RegistrationType
<1> QED BY <1>1, <1>9, <1>10, <1>11 DEF RegistrationInv

LEMMA DaimonRestartsKeeps ==
  ASSUME RegistrationInv, Registry!DaimonRestarts PROVE RegistrationInv'
<1>1. /\ mishaps' = mishaps + 1 /\ daimon' = Registry!Holds /\ excused' = TRUE
      /\ UNCHANGED <<server, op, calls, registered, advertised, methods, mcp, elsewhere, lastId,
                     beat, refusedBeat>>
  BY DEF Registry!DaimonRestarts, Registry!Mishap, Registry!local,
         Registry!beats
<1>2. RegistrationType /\ ServerInv /\ IdsInv
  BY DEF RegistrationInv
<1>3. /\ daimon'.agent = [k \in AgentKeys |-> 0] /\ daimon'.methods = {}
      /\ daimon' \in [agent : [AgentKeys -> Nat], capabilities : BOOLEAN, methods : SUBSET Nat]
  BY <1>1 DEF Registry!Holds, Registry!None
<1>4. RegistrationType'
  BY <1>1, <1>2, <1>3 DEF RegistrationType, Addressed, Sent
<1>5. ServerInv'
  BY <1>1, <1>2 DEF ServerInv
<1>6. IdsInv'
  BY <1>1, <1>3, <1>2, IdsKept DEF HeldAs, RegistrationType
<1> QED BY <1>1, <1>4, <1>5, <1>6 DEF RegistrationInv

\* An answer takes its call away and tells of what is held.
LEMMA AnsweredKeeps ==
  ASSUME RegistrationInv, NEW c \in calls, Registry!Answered(c) PROVE RegistrationInv'
<1>1. /\ Answer(c) /\ calls' = calls \ {c}
      /\ registered' = CASE c.what = "register" -> [registered EXCEPT ![c.key] = c.id]
                         [] c.what = "delete" /\ c.id # 0 -> [registered EXCEPT ![c.key] = 0]
                         [] OTHER -> registered
      /\ advertised' = CASE c.what = "advertise" -> TRUE [] c.what = "withdraw" -> FALSE
                         [] OTHER -> advertised
      /\ methods' = IF c.what = "methods" /\ c.id # 0 THEN methods \cup {c.id} ELSE methods
      /\ mcp' = CASE c.what = "mcpRegister" -> [mcp EXCEPT ![c.key] = c.id]
                  [] c.what = "mcpDeregister" -> [mcp EXCEPT ![c.key] = 0] [] OTHER -> mcp
      /\ UNCHANGED <<server, op, daimon, elsewhere, lastId, beat, refusedBeat, excused, mishaps>>
  BY DEF Registry!Answered, Registry!remote, Registry!beats, Registry!bounds,
         Answer, Registry!None
<1>2. RegistrationType /\ ServerInv /\ IdsInv
  BY DEF RegistrationInv
<1>3. /\ c.what \in AgentCalls \cup ServerCalls \cup {"advertise", "withdraw"}
      /\ c.what \in AgentCalls => c.key \in AgentKeys
      /\ c.what \in ServerCalls => c.key \in Registry!Servers
      /\ c.id \in Nat /\ c.by \in Registry!Actors
  BY <1>2 DEF RegistrationType, Callable, Addressed
<1>4. registered' \in [AgentKeys -> Nat]
      /\ \A k \in AgentKeys : registered'[k] =
           IF c.key = k /\ c.what = "register" THEN c.id
           ELSE IF c.key = k /\ c.what = "delete" /\ c.id # 0 THEN 0 ELSE registered[k]
  <2>1. CASE c.what = "register"
    BY <1>1, <1>2, <1>3, <2>1 DEF RegistrationType, AgentCalls
  <2>2. CASE c.what = "delete" /\ c.id # 0
    BY <1>1, <1>2, <1>3, <2>2 DEF RegistrationType, AgentCalls
  <2>3. CASE c.what # "register" /\ ~(c.what = "delete" /\ c.id # 0)
    BY <1>1, <1>2, <2>3 DEF RegistrationType
  <2> QED BY <2>1, <2>2, <2>3
<1>5. mcp' \in [Registry!Servers -> Nat]
      /\ mcp'["yeoman"] = IF ToYeoman(c) THEN c.id
                          ELSE IF c.what = "mcpDeregister" /\ c.key = "yeoman" THEN 0
                          ELSE mcp["yeoman"]
  <2>1. CASE c.what = "mcpRegister"
    BY <1>1, <1>2, <1>3, <2>1 DEF RegistrationType, ServerCalls, Registry!Servers, ToYeoman
  <2>2. CASE c.what = "mcpDeregister"
    BY <1>1, <1>2, <1>3, <2>2 DEF RegistrationType, ServerCalls, Registry!Servers, ToYeoman
  <2>3. CASE c.what \notin ServerCalls
    BY <1>1, <1>2, <2>3 DEF RegistrationType, ServerCalls, ToYeoman
  <2> QED BY <2>1, <2>2, <2>3 DEF ServerCalls
<1>6. RegistrationType'
  <2>1. methods' \subseteq Nat /\ advertised' \in BOOLEAN
    BY <1>1, <1>2, <1>3, Zenon DEF RegistrationType
  <2>2. calls' \subseteq Callable /\ \A d \in calls' : Addressed(d)
    BY <1>1, <1>2 DEF RegistrationType
  <2> QED BY <1>1, <1>2, <1>4, <1>5, <2>1, <2>2, Zenon DEF RegistrationType, Addressed, Sent
<1>7. ServerInv'
  BY <1>1, <1>2 DEF ServerInv
<1>8. IdsInv'
  <2>1. \A k \in AgentKeys, i \in Nat : HeldAs(k, i)' => HeldAs(k, i)
    BY <1>1, <1>4 DEF HeldAs, AgentCalls
  <2>2. \A i \in daimon'.methods : i # 0 /\ Registry!Known(i)'
    BY <1>1, <1>2 DEF IdsInv, Registry!Known
  <2> QED BY <1>1, <1>2, <2>1, <2>2, IdsKept DEF RegistrationType
<1>9. ASSUME ~excused
      PROVE  OrderInv' /\ RestAgreed' /\ (\A k \in AgentKeys : AgentAgreed(k)') /\ ~refusedBeat'
  <2>1. OrderInv /\ RestAgreed /\ (\A k \in AgentKeys : AgentAgreed(k)) /\ ~refusedBeat
    BY <1>9 DEF RegistrationInv
  <2>2. OrderInv'
    BY <1>1, <2>1 DEF OrderInv, Upward, Downward, Fits
  <2>3. \A d \in calls : d.by \in Registry!Actors
    BY <1>2 DEF RegistrationType, Callable
  <2>4. /\ \A d \in calls : d.what \in {"register", "advertise", "methods"} => Upward
        /\ \A d \in calls : d.what \in {"delete", "withdraw"} => Downward
    BY <2>1, <2>3 DEF OrderInv, Upward, Downward, Fits
  <2>5. ~(Upward /\ Downward)
    BY <2>1 DEF OrderInv
  <2>6. ASSUME NEW k \in AgentKeys PROVE AgentAgreed(k)'
    <3>1. AgentAgreed(k)
      BY <2>1
    <3>2. CASE c.key = k /\ c.what = "register"
      <4>1. c.id # 0 /\ daimon.agent[k] = c.id /\ registered'[k] = c.id
        BY <1>1, <1>4, <3>1, <3>2 DEF AgentAgreed
      <4>2. \A d \in calls : d.what # "delete"
        BY <2>4, <2>5, <3>2
      <4> QED BY <1>1, <3>1, <4>1, <4>2 DEF AgentAgreed, Answer
    <3>3. CASE c.key = k /\ c.what = "delete" /\ c.id # 0
      <4>1. daimon.agent[k] = 0 /\ registered'[k] = 0
        BY <1>1, <1>4, <3>1, <3>3 DEF AgentAgreed
      <4>2. \A d \in calls : d.what # "register"
        BY <2>4, <2>5, <3>3
      <4> QED BY <1>1, <3>1, <4>1, <4>2 DEF AgentAgreed, Answer
    <3>4. CASE ~(c.key = k /\ c.id # 0 /\ c.what \in {"register", "delete"})
               /\ ~(c.key = k /\ c.what = "register")
      BY <1>4, <3>4, <1>1, <3>1 DEF AgentAgreed, Answer
    <3> QED BY <3>2, <3>3, <3>4
  <2>7. RestAgreed'
    <3>1. \A d \in calls' : Answer(d) =>
            /\ d.what = "advertise" => daimon.capabilities
            /\ d.what = "withdraw" => ~daimon.capabilities
            /\ d.what = "methods" /\ d.id # 0 => d.id \in daimon.methods
      BY <1>1, <2>1 DEF RestAgreed
    <3>2. \/ daimon.capabilities = advertised'
          \/ \E d \in calls' : Answer(d) /\ d.what \in {"advertise", "withdraw"}
      <4>1. CASE c.what \in {"advertise", "withdraw"}
        BY <1>1, <1>2, <2>1, <4>1, Zenon DEF RestAgreed, RegistrationType
      <4>2. CASE c.what \notin {"advertise", "withdraw"}
        BY <1>1, <2>1, <4>2, Zenon DEF RestAgreed
      <4> QED BY <4>1, <4>2
    <3>3. methods' \subseteq daimon.methods
      BY <1>1, <2>1 DEF RestAgreed
    <3>4. ASSUME NEW a \in Registry!Actors, op[a].kind \in Downs, op[a].phase # "mcp"
          PROVE  methods' = {}
      <4>1. methods = {} /\ Downward
        BY <2>1, <3>4 DEF RestAgreed, Downward
      <4>2. c.what # "methods"
        BY <2>4, <2>5, <4>1
      <4> QED BY <1>1, <4>1, <4>2
    <3> QED BY <1>1, <3>1, <3>2, <3>3, <3>4, Zenon DEF RestAgreed, Answer
  <2> QED BY <1>1, <2>1, <2>2, <2>6, <2>7
<1>10. ASSUME ~excused, mishaps = 0 PROVE StopInv' /\ YeomanInv'
  <2>1. StopInv /\ YeomanInv /\ OrderInv
    BY <1>10 DEF RegistrationInv
  <2>2. calls' \subseteq calls /\ \A d \in calls : Sent(d) => d \in calls'
    BY <1>1 DEF Sent, Answer
  <2>3. \A k \in AgentKeys : Left(k) => Left(k)'
    BY <1>1, <2>2 DEF Left, Sent
  <2>4. StopInv'
    BY <1>1, <2>1, <2>2, <2>3 DEF StopInv, Sent
  <2>5. CASE ToYeoman(c)
    <3>1. op[c.by].kind = "start" /\ op[c.by].phase = "yeoman"
      BY <2>1, <2>5 DEF OrderInv, Fits, ToYeoman
    <3>2. server = "starting" /\ c.by = "server"
      BY <1>2, <1>3, <3>1, SenderTimes
    <3>3. Listing /\ ~Unlisted
      BY <3>1, <3>2 DEF Listing, Unlisted
    <3>4. ListedAs(c.id) /\ \A d \in calls : ToYeoman(d) => d = c
      BY <1>1, <2>1, <2>5, <3>3 DEF YeomanInv, Sent, Answer
    <3>5. ListedAs(mcp'["yeoman"]) /\ \A d \in calls' : ~ToYeoman(d)
      BY <1>1, <1>5, <2>5, <3>4
    <3>6. elsewhere' = elsewhere /\ server' = "starting" /\ ~Unlisted'
      BY <1>1, <3>2, <3>3 DEF Unlisted
    <3> QED BY <2>4, <3>5, <3>6 DEF YeomanInv, ListedAs, ToYeoman
  <2>6. CASE c.what = "mcpDeregister"
    <3>1. op[c.by].kind = "stop"
      BY <2>1, <2>6 DEF OrderInv, Fits
    <3>2. server = "stopping"
      BY <1>2, <1>3, <3>1, SenderTimes
    <3>3. elsewhere["yeoman"] = {} \/ \E d \in calls' :
            Sent(d) /\ d.what = "mcpDeregister" /\ elsewhere["yeoman"] = {d.id}
      BY <2>1, <2>2, <3>2 DEF YeomanInv
    <3> QED BY <1>1, <2>4, <3>2, <3>3 DEF YeomanInv, Unlisted, Listing, Sent
  <2>7. CASE ~ToYeoman(c) /\ c.what # "mcpDeregister"
    <3>1. mcp'["yeoman"] = mcp["yeoman"]
      BY <1>5, <2>7
    <3>2. {d \in calls' : ToYeoman(d)} = {d \in calls : ToYeoman(d)}
      BY <1>1, <2>7
    <3>3. (Unlisted' <=> Unlisted) /\ (Listing' <=> Listing)
      BY <1>1 DEF Unlisted, Listing
    <3> QED BY <1>1, <2>1, <2>2, <2>4, <3>1, <3>2, <3>3, YeomanKept
  <2> QED BY <2>4, <2>5, <2>6, <2>7
<1> QED BY <1>1, <1>6, <1>7, <1>8, <1>9, <1>10 DEF RegistrationInv

\* What the arrival of a call changes at daimon.
LEMMA EffectTold ==
  ASSUME RegistrationType, NEW c \in calls, Sent(c)
  PROVE  LET e == Registry!Effect(c) IN
         /\ e \in [agent : [AgentKeys -> Nat], capabilities : BOOLEAN, methods : SUBSET Nat]
         /\ \A k \in AgentKeys : e.agent[k] =
              IF c.key = k /\ c.what = "register" /\ daimon.agent[k] = 0 THEN lastId + 1
              ELSE IF c.key = k /\ c.what = "delete" /\ daimon.agent[k] = c.id THEN 0
              ELSE daimon.agent[k]
         /\ e.capabilities = IF c.what = "advertise" THEN TRUE
                             ELSE IF c.what = "withdraw" THEN FALSE ELSE daimon.capabilities
         /\ e.methods = IF c.what = "delete" THEN daimon.methods \ {c.id}
                        ELSE IF c.what = "methods" /\ Registry!Known(c.id)
                          THEN daimon.methods \cup {c.id}
                        ELSE daimon.methods
<1> DEFINE e == Registry!Effect(c)
<1>1. /\ daimon \in [agent : [AgentKeys -> Nat], capabilities : BOOLEAN, methods : SUBSET Nat]
      /\ daimon.agent \in [AgentKeys -> Nat] /\ daimon.methods \subseteq Nat
      /\ daimon.capabilities \in BOOLEAN /\ lastId + 1 \in Nat
      /\ DOMAIN daimon = {"agent", "capabilities", "methods"}
      /\ daimon = [agent |-> daimon.agent, capabilities |-> daimon.capabilities,
                   methods |-> daimon.methods]
  BY DEF RegistrationType
<1>2. c.id \in Nat /\ (c.what \in AgentCalls => c.key \in AgentKeys)
  BY DEF RegistrationType, Callable, Addressed
<1>3. CASE c.what = "register"
  <2> DEFINE new == [daimon.agent EXCEPT ![c.key] = IF @ = 0 THEN lastId + 1 ELSE @]
  <2>1. e = [daimon EXCEPT !.agent[c.key] = IF @ = 0 THEN lastId + 1 ELSE @]
    BY <1>3 DEF Registry!Effect, Registry!None
  <2>2. e = [daimon EXCEPT !.agent = new]
    BY <2>1
  <2>3. new \in [AgentKeys -> Nat] /\ \A k \in AgentKeys : new[k] =
          IF c.key = k /\ daimon.agent[k] = 0 THEN lastId + 1 ELSE daimon.agent[k]
    BY <1>1, <1>2, <1>3 DEF AgentCalls
  <2> HIDE DEF new
  <2>4. e = [agent |-> new, capabilities |-> daimon.capabilities, methods |-> daimon.methods]
    BY <1>1, <2>2
  <2> HIDE DEF e
  <2> QED BY <1>1, <1>3, <2>3, <2>4 DEF e
<1>4. CASE c.what = "delete"
  <2> DEFINE new == [daimon.agent EXCEPT ![c.key] = IF @ = c.id THEN 0 ELSE @]
  <2>1. e = [daimon EXCEPT !.agent[c.key] = IF @ = c.id THEN 0 ELSE @, !.methods = @ \ {c.id}]
    BY <1>4 DEF Registry!Effect, Registry!None
  <2>2. e = [daimon EXCEPT !.agent = new, !.methods = daimon.methods \ {c.id}]
    BY <1>1, <2>1
  <2>3. new \in [AgentKeys -> Nat] /\ \A k \in AgentKeys : new[k] =
          IF c.key = k /\ daimon.agent[k] = c.id THEN 0 ELSE daimon.agent[k]
    BY <1>1, <1>2, <1>4 DEF AgentCalls
  <2> HIDE DEF new
  <2>4. e = [agent |-> new, capabilities |-> daimon.capabilities,
             methods |-> daimon.methods \ {c.id}]
    BY <1>1, <2>2, Zenon
  <2> HIDE DEF e
  <2> QED BY <1>1, <1>4, <2>3, <2>4 DEF e
<1>5. CASE c.what = "advertise"
  <2>1. e = [agent |-> daimon.agent, capabilities |-> TRUE, methods |-> daimon.methods]
    BY <1>1, <1>5, Zenon DEF Registry!Effect
  <2> HIDE DEF e
  <2> QED BY <1>1, <1>5, <2>1 DEF e
<1>6. CASE c.what = "withdraw"
  <2>1. e = [agent |-> daimon.agent, capabilities |-> FALSE, methods |-> daimon.methods]
    BY <1>1, <1>6, Zenon DEF Registry!Effect
  <2> HIDE DEF e
  <2> QED BY <1>1, <1>6, <2>1 DEF e
<1>7. CASE c.what = "methods"
  <2>1. e = [agent |-> daimon.agent, capabilities |-> daimon.capabilities,
             methods |-> IF Registry!Known(c.id) THEN daimon.methods \cup {c.id}
                         ELSE daimon.methods]
    BY <1>1, <1>7, Zenon DEF Registry!Effect
  <2> HIDE DEF e
  <2> QED BY <1>1, <1>2, <1>7, <2>1 DEF e
<1>8. CASE c.what \notin {"register", "delete", "advertise", "withdraw", "methods"}
  <2>1. e = daimon
    BY <1>8 DEF Registry!Effect
  <2> HIDE DEF e
  <2> QED BY <1>1, <1>8, <2>1, Zenon DEF e
<1> QED BY <1>3, <1>4, <1>5, <1>6, <1>7, <1>8, Zenon

LEMMA ArriveKeeps ==
  ASSUME RegistrationInv, NEW c \in calls, Registry!Arrive(c) PROVE RegistrationInv'
<1> DEFINE d == [c EXCEPT !.at = "answer", !.id = Registry!AnswerTo(c)]
           n == Registry!AnswerTo(c)
           new == c.what = "register" /\ daimon.agent[c.key] = 0
           Left0(k) == daimon.agent[k] = 0 \/ Left(k)
<1>1. RegistrationType /\ ServerInv /\ IdsInv /\ c \in Callable
  BY DEF RegistrationInv, RegistrationType
<1>2. /\ Sent(c) /\ calls' = (calls \ {c}) \cup {d} /\ daimon' = Registry!Effect(c)
      /\ lastId' = IF Registry!NewId(c) THEN lastId + 1 ELSE lastId
      /\ elsewhere' = CASE c.what = "mcpRegister" -> [elsewhere EXCEPT ![c.key] = @ \cup {lastId + 1}]
                        [] c.what = "mcpDeregister" -> [elsewhere EXCEPT ![c.key] = @ \ {c.id}]
                        [] OTHER -> elsewhere
      /\ UNCHANGED <<server, op, registered, advertised, methods, mcp, beat, refusedBeat, excused,
                     mishaps>>
  BY DEF Registry!Arrive, Registry!local, Registry!beats, Registry!bounds, Sent
<1>3. /\ c.what \in AgentCalls \cup ServerCalls \cup {"advertise", "withdraw"}
      /\ c.what \in AgentCalls => c.key \in AgentKeys
      /\ c.what \in ServerCalls => c.key \in Registry!Servers
      /\ c.what \in {"delete", "methods"} => c.id # 0
      /\ c.id \in Nat /\ c.by \in Registry!Actors
  BY <1>1, <1>2 DEF RegistrationType, Callable, Addressed
<1>4. /\ daimon' \in [agent : [AgentKeys -> Nat], capabilities : BOOLEAN, methods : SUBSET Nat]
      /\ \A k \in AgentKeys : daimon'.agent[k] =
           IF c.key = k /\ new THEN lastId + 1
           ELSE IF c.key = k /\ c.what = "delete" /\ daimon.agent[k] = c.id THEN 0
           ELSE daimon.agent[k]
      /\ daimon'.capabilities = IF c.what = "advertise" THEN TRUE
                                ELSE IF c.what = "withdraw" THEN FALSE ELSE daimon.capabilities
      /\ daimon'.methods = IF c.what = "delete" THEN daimon.methods \ {c.id}
                           ELSE IF c.what = "methods" /\ Registry!Known(c.id)
                             THEN daimon.methods \cup {c.id}
                           ELSE daimon.methods
  BY <1>1, <1>2, EffectTold, Zenon
<1>5. lastId \in Nat /\ (\A k \in AgentKeys : daimon.agent[k] \in Nat /\ registered[k] \in Nat)
  BY <1>1 DEF RegistrationType
<1>6. /\ c.what = "register" => n = daimon'.agent[c.key] /\ n # 0
      /\ c.what = "mcpRegister" => n = lastId + 1
      /\ c.what \in {"delete", "methods"} => n = IF Registry!Known(c.id) THEN c.id ELSE 0
      /\ n \in Nat
  <2>1. CASE c.what = "register"
    <3>1. n = daimon'.agent[c.key]
      BY <1>2, <2>1 DEF Registry!AnswerTo
    <3>2. c.key \in AgentKeys
      BY <1>3, <2>1 DEF AgentCalls
    <3> QED BY <1>4, <1>5, <2>1, <3>1, <3>2
  <2>2. CASE c.what \in {"delete", "methods"}
    BY <1>3, <2>2 DEF Registry!AnswerTo, Registry!None
  <2>3. CASE c.what = "mcpRegister"
    BY <1>5, <2>3 DEF Registry!AnswerTo
  <2>4. CASE c.what \notin {"register", "delete", "methods", "mcpRegister"}
    BY <2>4 DEF Registry!AnswerTo
  <2> QED BY <2>1, <2>2, <2>3, <2>4
<1>7. /\ d \in Callable /\ d.by = c.by /\ d.what = c.what /\ d.key = c.key /\ d.id = n
      /\ Answer(d) /\ ~Sent(d)
  BY <1>1, <1>6, Zenon DEF Callable, Answer, Sent
<1>8. c.what = "register" => d.id = daimon'.agent[c.key] /\ d.id # 0
  BY <1>6, <1>7
<1>9. c.what \in {"delete", "methods"} => d.id = IF Registry!Known(c.id) THEN c.id ELSE 0
  BY <1>6, <1>7
<1>10. c.what = "mcpRegister" => d.id = lastId + 1
  BY <1>6, <1>7
<1>11. lastId' = IF c.what = "mcpRegister" \/ new THEN lastId + 1 ELSE lastId
  BY <1>2 DEF Registry!NewId, Registry!None
<1> HIDE DEF d, n, new
<1>12. d \in calls' /\ \A b \in calls' : b = d \/ (b \in calls /\ b # c)
  BY <1>2
<1>13. \A b \in calls : b # c => b \in calls'
  BY <1>2
<1>14. elsewhere' \in [Registry!Servers -> SUBSET Nat]
       /\ elsewhere'["yeoman"] =
            IF ToYeoman(c) THEN elsewhere["yeoman"] \cup {lastId + 1}
            ELSE IF c.what = "mcpDeregister" /\ c.key = "yeoman" THEN elsewhere["yeoman"] \ {c.id}
            ELSE elsewhere["yeoman"]
  <2>1. elsewhere \in [Registry!Servers -> SUBSET Nat] /\ lastId + 1 \in Nat
    BY <1>1, <1>5 DEF RegistrationType
  <2>2. CASE c.what = "mcpRegister"
    BY <1>2, <1>3, <2>1, <2>2, Zenon DEF ServerCalls, Registry!Servers, ToYeoman
  <2>3. CASE c.what = "mcpDeregister"
    BY <1>2, <1>3, <2>1, <2>3 DEF ServerCalls, Registry!Servers, ToYeoman
  <2>4. CASE c.what \notin ServerCalls
    BY <1>2, <2>1, <2>4 DEF ServerCalls, ToYeoman
  <2> QED BY <2>2, <2>3, <2>4 DEF ServerCalls
<1>15. RegistrationType'
  <2>1. calls' \subseteq Callable
    BY <1>1, <1>7, <1>12 DEF RegistrationType
  <2>2. Addressed(d)
    BY <1>3, <1>7 DEF Addressed
  <2>3. \A b \in calls' : Addressed(b)
    BY <1>1, <1>12, <2>2 DEF RegistrationType
  <2>4. lastId' \in Nat
    BY <1>5, <1>11
  <2> QED BY <1>1, <1>2, <1>4, <1>14, <2>1, <2>3, <2>4 DEF RegistrationType, Addressed, Sent
<1>16. ServerInv'
  BY <1>1, <1>7, <1>12, <1>2 DEF ServerInv
<1>17. \A k \in AgentKeys, i \in Nat :
         HeldAs(k, i)' => HeldAs(k, i) \/ (k = c.key /\ new /\ i = lastId + 1 /\ lastId' = i)
  <2> SUFFICES ASSUME NEW k \in AgentKeys, NEW i \in Nat, HeldAs(k, i)'
               PROVE  HeldAs(k, i) \/ (k = c.key /\ new /\ i = lastId + 1 /\ lastId' = i)
    OBVIOUS
  <2>1. CASE i # 0 /\ registered'[k] = i
    BY <1>2, <2>1 DEF HeldAs
  <2>2. CASE i # 0 /\ daimon'.agent[k] = i
    BY <1>4, <1>11, <2>2 DEF HeldAs
  <2>3. CASE i # 0 /\ \E b \in calls \ {c} : b.what \in AgentCalls /\ b.key = k /\ b.id = i
    BY <2>3 DEF HeldAs
  <2>4. CASE i # 0 /\ d.what \in AgentCalls /\ d.key = k /\ d.id = i
    <3>1. CASE c.what = "register"
      BY <1>7, <1>8, <2>4, <3>1, <2>2
    <3>2. CASE c.what \in {"delete", "methods"}
      BY <1>7, <1>9, <2>4, <3>2, Zenon DEF HeldAs
    <3> QED BY <1>7, <2>4, <3>1, <3>2 DEF AgentCalls
  <2> QED BY <1>12, <2>1, <2>2, <2>3, <2>4 DEF HeldAs
<1>18. IdsInv'
  <2>1. \A k \in AgentKeys, i \in Nat : HeldAs(k, i) => i <= lastId
    BY <1>1 DEF IdsInv
  <2>2. \A k \in AgentKeys, i \in Nat : HeldAs(k, i)' => i <= lastId'
    BY <1>5, <1>11, <1>17, <2>1
  <2>3. \A j, k \in AgentKeys, i \in Nat : HeldAs(j, i)' /\ HeldAs(k, i)' => j = k
    <3> SUFFICES ASSUME NEW j \in AgentKeys, NEW k \in AgentKeys, NEW i \in Nat,
                        HeldAs(j, i)', HeldAs(k, i)'
                 PROVE  j = k
      OBVIOUS
    <3>1. CASE HeldAs(j, i) /\ HeldAs(k, i)
      BY <1>1, <3>1 DEF IdsInv
    <3>2. CASE i = lastId + 1
      BY <1>5, <2>1, <3>2, <1>17
    <3> QED BY <1>17, <3>1, <3>2
  <2>4. ASSUME NEW i \in daimon'.methods PROVE i # 0 /\ Registry!Known(i)'
    <3>1. \A m \in daimon.methods : m # 0 /\ \E k \in AgentKeys : daimon.agent[k] = m
      BY <1>1 DEF IdsInv, Registry!Known
    <3>2. CASE c.what = "delete"
      <4>1. i \in daimon.methods /\ i # c.id
        BY <1>4, <3>2
      <4>2. PICK k \in AgentKeys : daimon.agent[k] = i
        BY <3>1, <4>1
      <4>3. daimon'.agent[k] = i
        BY <1>4, <3>2, <4>1, <4>2 DEF new
      <4> QED BY <3>1, <4>1, <4>3 DEF Registry!Known
    <3>3. CASE c.what = "methods"
      BY <1>3, <1>4, <3>1, <3>3 DEF Registry!Known, new
    <3>4. CASE c.what \notin {"delete", "methods"}
      BY <1>4, <3>1, <3>4 DEF new, Registry!Known
    <3> QED BY <3>2, <3>3, <3>4
  <2> QED BY <2>2, <2>3, <2>4 DEF IdsInv
<1>19. ASSUME ~excused
       PROVE  OrderInv' /\ RestAgreed' /\ (\A k \in AgentKeys : AgentAgreed(k)') /\ ~refusedBeat'
  <2>1. OrderInv /\ RestAgreed /\ (\A k \in AgentKeys : AgentAgreed(k)) /\ ~refusedBeat
    BY <1>19 DEF RegistrationInv
  <2>2. \A b \in calls : b.by \in Registry!Actors
    BY <1>1 DEF RegistrationType, Callable
  <2>3. /\ \A b \in calls : b.what \in {"register", "advertise", "methods"} => Upward
        /\ \A b \in calls : b.what \in {"delete", "withdraw"} => Downward
        /\ ~(Upward /\ Downward)
    BY <2>1, <2>2 DEF OrderInv, Upward, Downward, Fits
  <2>4. OrderInv'
    <3>1. Fits(d, op[d.by])
      BY <1>7, <2>1 DEF OrderInv, Fits
    <3>2. \A b \in calls' : Fits(b, op[b.by])
      BY <1>12, <2>1, <3>1 DEF OrderInv
    <3> QED BY <1>2, <2>1, <3>2 DEF OrderInv, Upward, Downward, Fits
  <2>5. ASSUME NEW k \in AgentKeys PROVE AgentAgreed(k)'
    <3>1. AgentAgreed(k) /\ registered'[k] = registered[k]
      BY <1>2, <2>1
    <3>2. CASE c.key = k /\ c.what = "register"
      <4>1. \A b \in calls : b.what # "delete"
        BY <2>3, <3>2
      <4>2. daimon'.agent[k] = d.id /\ d.id # 0
            /\ (daimon.agent[k] # 0 => d.id = daimon.agent[k])
        BY <1>4, <1>8, <3>2 DEF new
      <4>3. registered[k] \in {0, d.id}
        <5>1. CASE daimon.agent[k] = registered[k]
          BY <4>2, <5>1
        <5>2. CASE daimon.agent[k] # registered[k]
          BY <3>1, <4>1, <4>2, <5>2 DEF AgentAgreed
        <5> QED BY <5>1, <5>2
      <4>4. \A b \in calls : Answer(b) /\ b.key = k /\ b.what = "register" => b.id = d.id
        BY <3>1, <4>2 DEF AgentAgreed
      <4>5. \A b \in calls' : Answer(b) /\ b.key = k =>
              b.what # "delete" /\ (b.what = "register" => b.id = d.id)
        BY <1>7, <1>12, <3>2, <4>1, <4>4
      <4> QED BY <1>7, <1>12, <3>1, <3>2, <4>2, <4>3, <4>5 DEF AgentAgreed, Answer
    <3>3. CASE c.key = k /\ c.what = "delete"
      <4>1. \A b \in calls : b.what # "register"
        BY <2>3, <3>3
      <4>2. \A b \in calls' : b.what # "register"
        BY <1>7, <1>12, <3>3, <4>1
      <4>3. \A b \in calls : Answer(b) /\ b.key = k /\ b.what = "delete" /\ b.id # 0 =>
              daimon.agent[k] = 0 /\ registered[k] \in {0, b.id}
        BY <3>1 DEF AgentAgreed
      <4>4. CASE daimon.agent[k] = c.id
        <5>1. Registry!Known(c.id) /\ c.id # 0
          BY <1>3, <3>3, <4>4 DEF Registry!Known
        <5>2. d.id = c.id /\ daimon'.agent[k] = 0
          BY <1>4, <1>9, <3>3, <4>4, <5>1 DEF new
        <5>3. registered[k] = c.id
          BY <3>1, <4>1, <4>3, <4>4, <5>1 DEF AgentAgreed
        <5>4. \A b \in calls' : Answer(b) /\ b.key = k /\ b.what = "delete" /\ b.id # 0 =>
                registered[k] \in {0, b.id}
          BY <1>12, <4>3, <5>2, <5>3
        <5> QED BY <1>7, <1>12, <3>1, <3>3, <4>2, <5>1, <5>2, <5>4 DEF AgentAgreed, Answer
      <4>5. CASE daimon.agent[k] # c.id
        <5>1. HeldAs(k, c.id)
          BY <1>3, <3>3 DEF HeldAs, AgentCalls
        <5>2. \A j \in AgentKeys : HeldAs(j, c.id) => j = k
          BY <1>1, <1>3, <5>1 DEF IdsInv
        <5>3. ~Registry!Known(c.id)
          BY <1>3, <3>3, <4>5, <5>2 DEF Registry!Known, HeldAs
        <5>4. d.id = 0 /\ daimon'.agent[k] = daimon.agent[k]
          BY <1>4, <1>9, <3>3, <4>5, <5>3 DEF new
        <5>5. \A b \in calls' : Answer(b) /\ b.key = k /\ b.what = "delete" /\ b.id # 0 =>
                daimon'.agent[k] = 0 /\ registered[k] \in {0, b.id}
          BY <1>12, <4>3, <5>4
        <5>6. \A b \in calls : Answer(b) => b \in calls'
          BY <1>2, <1>13 DEF Answer, Sent
        <5>7. daimon.agent[k] = registered[k] \/ \E b \in calls' :
                Answer(b) /\ b.key = k /\ b.id # 0 /\ b.what \in {"register", "delete"}
          BY <3>1, <5>6 DEF AgentAgreed
        <5> QED BY <3>1, <4>2, <5>4, <5>5, <5>7 DEF AgentAgreed, Answer
      <4> QED BY <4>4, <4>5
    <3>4. CASE c.key # k \/ c.what \notin {"register", "delete"}
      <4>1. daimon'.agent[k] = daimon.agent[k]
        BY <1>4, <3>4 DEF new
      <4>2. \A b \in calls' : Answer(b) /\ b.key = k /\ b.what \in {"register", "delete"} =>
              b \in calls
        BY <1>7, <1>12, <3>4
      <4>3. \A b \in calls : Answer(b) => b \in calls'
        BY <1>2, <1>13 DEF Answer, Sent
      <4> QED BY <3>1, <4>1, <4>2, <4>3 DEF AgentAgreed, Answer
    <3> QED BY <3>2, <3>3, <3>4
  <2>6. RestAgreed'
    <3>1. daimon'.capabilities \in BOOLEAN
      BY <1>4, Zenon
    <3>2. \A b \in calls : Answer(b) =>
            /\ b.what = "advertise" => daimon.capabilities
            /\ b.what = "withdraw" => ~daimon.capabilities
            /\ b.what = "methods" /\ b.id # 0 => b.id \in daimon.methods
      BY <2>1 DEF RestAgreed
    <3>3. \A b \in calls' : Answer(b) =>
            /\ b.what = "advertise" => daimon'.capabilities
            /\ b.what = "withdraw" => ~daimon'.capabilities
      BY <2>3, <1>4, <1>7, <1>12, <3>2
    <3>4. \A b \in calls' : Answer(b) /\ b.what = "methods" /\ b.id # 0 => b.id \in daimon'.methods
      BY <2>3, <1>4, <1>9, <1>7, <1>12, <3>2
    <3>5. daimon'.capabilities = advertised
            \/ \E b \in calls' : Answer(b) /\ b.what \in {"advertise", "withdraw"}
      <4>1. CASE c.what \in {"advertise", "withdraw"}
        BY <1>7, <1>12, <4>1
      <4>2. CASE c.what \notin {"advertise", "withdraw"}
        <5>1. \A b \in calls : Answer(b) => b \in calls'
          BY <1>2, <1>13 DEF Answer, Sent
        <5>2. daimon'.capabilities = daimon.capabilities
          BY <1>4, <4>2, Zenon
        <5> QED BY <2>1, <5>1, <5>2 DEF RestAgreed
      <4> QED BY <4>1, <4>2
    <3>6. methods \subseteq daimon'.methods
      <4>1. CASE c.what = "delete"
        BY <2>1, <4>1, <1>3 DEF OrderInv, Fits, RestAgreed
      <4>2. CASE c.what # "delete"
        BY <1>4, <2>1, <4>2 DEF RestAgreed
      <4> QED BY <4>1, <4>2
    <3>7. \A a \in Registry!Actors : op[a].kind \in Downs /\ op[a].phase # "mcp" => methods = {}
      BY <2>1 DEF RestAgreed
    <3> QED BY <1>2, <3>3, <3>4, <3>5, <3>6, <3>7 DEF RestAgreed, Answer
  <2> QED BY <1>2, <2>1, <2>4, <2>5, <2>6
<1>20. ASSUME ~excused, mishaps = 0 PROVE StopInv' /\ YeomanInv'
  <2>1. StopInv /\ YeomanInv /\ OrderInv
    BY <1>20 DEF RegistrationInv
  <2>2. Fits(c, op[c.by])
    BY <2>1 DEF OrderInv
  <2>3. StopInv'
    <3>1. server # "stopped"
      BY <2>1 DEF StopInv
    <3>2. CASE server = "stopping"
      <4>1. c.by = "server" /\ op["server"].phase \in {"mcp", "withdraw", "delete"}
        BY <1>1, <2>1, <3>2, AllMine DEF StopInv
      <4>2. CASE op["server"].phase = "mcp"
        BY <1>2, <3>2, <4>2 DEF StopInv
      <4>3. CASE op["server"].phase = "withdraw"
        <5>1. c.what = "withdraw"
          BY <1>3, <2>2, <4>1, <4>3 DEF Fits, AgentCalls, ServerCalls, Registry!Servers
        <5>2. ~daimon'.capabilities
          BY <1>4, <5>1
        <5> QED BY <1>2, <3>2, <4>3, <5>2 DEF StopInv
      <4>4. CASE op["server"].phase = "delete"
        <5>1. c.what = "delete"
          BY <1>3, <2>2, <4>1, <4>4 DEF Fits, AgentCalls, ServerCalls, Registry!Servers
        <5>2. ~daimon.capabilities /\ \A k \in AgentKeys : daimon.agent[k] = 0 \/ Left(k)
          BY <2>1, <3>2, <4>4 DEF StopInv
        <5>3. ~daimon'.capabilities
          BY <1>4, <5>1, <5>2
        <5>4. ASSUME NEW k \in AgentKeys PROVE daimon'.agent[k] = 0 \/ Left(k)'
          <6>1. CASE daimon.agent[k] = 0
            BY <1>4, <5>1, <6>1 DEF new
          <6>2. CASE Left(k)
            <7>1. PICK b \in calls :
                    Sent(b) /\ b.what = "delete" /\ b.key = k /\ b.id = daimon.agent[k]
              BY <6>2 DEF Left
            <7>2. CASE b = c
              BY <1>4, <5>1, <7>1, <7>2 DEF new
            <7>3. CASE b # c
              <8>1. daimon'.agent[k] \in {0, daimon.agent[k]} /\ b \in calls'
                BY <1>4, <1>13, <5>1, <7>3 DEF new
              <8> QED BY <7>1, <8>1 DEF Left, Sent
            <7> QED BY <7>2, <7>3
          <6> QED BY <5>2, <6>1, <6>2
        <5> QED BY <1>2, <3>2, <4>4, <5>3, <5>4 DEF StopInv
      <4> QED BY <4>1, <4>2, <4>3, <4>4
    <3>3. CASE server \notin {"stopping", "stopped"}
      BY <1>2, <3>3 DEF StopInv
    <3> QED BY <3>1, <3>2, <3>3
  <2>4. YeomanInv'
    <3>1. CASE ToYeoman(c)
      <4>1. op[c.by].kind = "start" /\ op[c.by].phase = "yeoman"
        BY <2>2, <3>1 DEF Fits, ToYeoman
      <4>2. server = "starting" /\ c.by = "server"
        BY <1>1, <1>3, <4>1, SenderTimes
      <4>3. Listing /\ ~Unlisted
        BY <4>1, <4>2 DEF Listing, Unlisted
      <4>4. elsewhere["yeoman"] = {} /\ \A b \in calls : ToYeoman(b) => b = c
        BY <1>2, <2>1, <3>1, <4>3 DEF YeomanInv, Sent, Answer
      <4>5. elsewhere'["yeoman"] = {d.id} /\ d.id # 0
        BY <1>5, <1>10, <1>14, <3>1, <4>4 DEF ToYeoman
      <4>6. ToYeoman(d) /\ \A b \in calls' : ToYeoman(b) => b = d
        BY <1>7, <1>12, <3>1, <4>4 DEF ToYeoman
      <4>7. server' = "starting" /\ ~Unlisted'
        BY <1>2, <4>2, <4>3 DEF Unlisted
      <4> QED BY <1>7, <1>12, <4>5, <4>6, <4>7 DEF YeomanInv, ListedAs, ToYeoman, Answer
    <3>2. CASE c.what = "mcpDeregister"
      <4>1. op[c.by].kind = "stop" /\ c.key = "yeoman"
        BY <2>2, <3>2 DEF Fits
      <4>2. server = "stopping"
        BY <1>1, <1>3, <4>1, SenderTimes
      <4>3. elsewhere'["yeoman"] = elsewhere["yeoman"] \ {c.id}
        BY <1>14, <3>2, <4>1 DEF ToYeoman
      <4>4. elsewhere'["yeoman"] = {} \/ \E b \in calls' :
              Sent(b) /\ b.what = "mcpDeregister" /\ elsewhere'["yeoman"] = {b.id}
        <5>1. CASE elsewhere["yeoman"] = {}
          BY <4>3, <5>1
        <5>2. CASE elsewhere["yeoman"] # {}
          <6>1. PICK b \in calls : Sent(b) /\ b.what = "mcpDeregister" /\ elsewhere["yeoman"] = {b.id}
            BY <2>1, <4>2, <5>2 DEF YeomanInv
          <6> QED BY <1>13, <4>3, <6>1
        <5> QED BY <5>1, <5>2
      <4> QED BY <1>2, <4>2, <4>4 DEF YeomanInv, Unlisted, Listing, Sent
    <3>3. CASE ~ToYeoman(c) /\ c.what # "mcpDeregister"
      <4>1. elsewhere'["yeoman"] = elsewhere["yeoman"]
        BY <1>14, <3>3
      <4>2. {b \in calls' : ToYeoman(b)} = {b \in calls : ToYeoman(b)}
        BY <1>7, <1>12, <1>13, <3>3 DEF ToYeoman
      <4>3. \A b \in calls : b.what = "mcpDeregister" => b \in calls'
        BY <1>13, <3>3
      <4>4. (Unlisted' <=> Unlisted) /\ (Listing' <=> Listing)
        BY <1>2 DEF Unlisted, Listing
      <4>5. server' = server /\ mcp'["yeoman"] = mcp["yeoman"]
        BY <1>2
      <4> QED BY <2>1, <4>1, <4>2, <4>3, <4>4, <4>5, YeomanKept
    <3> QED BY <3>1, <3>2, <3>3
  <2> QED BY <2>3, <2>4
<1> QED BY <1>2, <1>15, <1>16, <1>18, <1>19, <1>20 DEF RegistrationInv

LEMMA RegistrationStep ==
  ASSUME RegistrationInv, [Registry!Next]_registrationVars PROVE RegistrationInv'
<1>1. CASE \/ Registry!StartServer \/ Registry!Serve \/ Registry!StopServer
           \/ Registry!StopAgents \/ Registry!Stopped
  BY <1>1, StartServerKeeps, ServeKeeps, StopServerKeeps, StopAgentsKeeps, StoppedKeeps
<1>2. CASE Registry!DaimonRestarts
  BY <1>2, DaimonRestartsKeeps
<1>3. CASE Registry!HeartbeatAnswered \/ \E k \in StaticKeys : Registry!SendHeartbeat(k)
  BY <1>3, HeartbeatAnsweredKeeps, SendHeartbeatKeeps
<1>4. CASE \E s \in Registry!Servers : Registry!StartMcp(s)
  BY <1>4, StartMcpKeeps
<1>5. CASE \E c \in calls : Registry!Arrive(c) \/ Registry!Answered(c)
  BY <1>5, ArriveKeeps, AnsweredKeeps
<1>6. CASE \E c \in calls : Registry!Fails(c) \/ Registry!Unreadable(c)
  BY <1>6, CallFailsKeeps, UnreadableKeeps
<1>7. CASE \E a \in Admins : Registry!RegisterAll(a) \/ Registry!DeregisterAll(a)
  BY <1>7, RegisterAllKeeps, DeregisterAllKeeps
<1>8. CASE \E a \in Registry!Actors : Registry!Advertise(a) \/ Registry!RegisterMethods(a)
  BY <1>8, AdvertiseKeeps, RegisterMethodsKeeps
<1>9. CASE \E a \in Registry!Actors : Registry!DeleteAgents(a) \/ Registry!Done(a)
  BY <1>9, DeleteAgentsKeeps, DoneKeeps
<1>10. CASE UNCHANGED registrationVars
  BY <1>10, BeatKeeps DEF registrationVars, RegistrationInv, RegistrationType
<1> QED BY <1>1, <1>2, <1>3, <1>4, <1>5, <1>6, <1>7, <1>8, <1>9, <1>10 DEF Registry!Next

\* What the invariant tells of the registrations, once nothing is in flight or the
\* server has stopped.
LEMMA RegistrationHolds ==
  RegistrationInv => /\ Registry!RegistrationAgreed /\ Registry!StoppedCleanly
                     /\ Registry!HeartbeatsKnown
<1> SUFFICES ASSUME RegistrationInv
             PROVE  /\ Registry!RegistrationAgreed /\ Registry!StoppedCleanly
                    /\ Registry!HeartbeatsKnown
  OBVIOUS
<1>1. RegistrationType /\ IdsInv
  BY DEF RegistrationInv
<1>2. registered \in [AgentKeys -> Nat] /\ daimon.agent \in [AgentKeys -> Nat]
      /\ daimon.capabilities \in BOOLEAN
      /\ daimon = [agent |-> daimon.agent, capabilities |-> daimon.capabilities,
                   methods |-> daimon.methods]
  BY <1>1 DEF RegistrationType
<1>3. ASSUME Registry!Quiet, ~excused
      PROVE  /\ registered = daimon.agent /\ advertised = daimon.capabilities
             /\ methods \subseteq daimon.methods
  BY <1>3, <1>2 DEF Registry!Quiet, RegistrationInv, AgentAgreed, RestAgreed
<1>4. ASSUME server = "stopped", mishaps = 0, ~excused
      PROVE  daimon = Registry!Holds /\ elsewhere["yeoman"] = {}
  <2>1. StopInv /\ YeomanInv
    BY <1>4 DEF RegistrationInv
  <2>2. calls = {} /\ ~daimon.capabilities /\ \A k \in AgentKeys : daimon.agent[k] = 0
    BY <1>4, <2>1 DEF StopInv, Left
  <2>3. daimon.methods = {}
    BY <1>1, <2>2 DEF IdsInv, Registry!Known
  <2>4. daimon.agent = [k \in AgentKeys |-> 0] /\ daimon.capabilities = FALSE
    BY <1>2, <2>2
  <2>5. daimon = [agent |-> [k \in AgentKeys |-> 0], capabilities |-> FALSE, methods |-> {}]
    BY <1>2, <2>3, <2>4
  <2>6. elsewhere["yeoman"] = {}
    BY <1>4, <2>1 DEF YeomanInv, Unlisted
  <2> QED BY <2>5, <2>6 DEF Registry!Holds, Registry!None
<1>5. refusedBeat => excused
  BY DEF RegistrationInv
<1> QED BY <1>3, <1>4, <1>5 DEF Registry!RegistrationAgreed, Registry!StoppedCleanly,
     Registry!HeartbeatsKnown

\* What the dashboard shows was true within its window and it lists every session that
\* stayed; and when nothing is in flight the port and daimon agree on the agents, a server
\* that stopped leaves nothing of itself in the lists, and daimon refuses the heartbeat of
\* no agent that nobody was deregistering (webgui/agent_monitor.py, dashboard.py,
\* config/agnos_agent_registration.py, webgui/app.py).
THEOREM DashboardHolds == Spec => []DashboardTrue
<1>1. Init => DashInv /\ RegistrationInv
  BY DashInvInit, RegisInit DEF Init
<1>2. DashInv /\ [Next]_vars => DashInv'
  BY DashInvStep, PartsApart
<1>3. RegistrationInv /\ [Next]_vars => RegistrationInv'
  BY RegistrationStep, PartsApart
<1>4. DashInv /\ RegistrationInv => DashboardTrue
  BY DashHolds, RegistrationHolds DEF DashboardTrue, In
<1> QED BY <1>1, <1>2, <1>3, <1>4, PTL DEF Spec

-----------------------------------------------------------------------------
(* The definitions                                                          *)

\* The files of the definitions, their versions and the presets, and what they hold.
DefinitionFiles == {Defs!Active(k) : k \in DefKeys}
PresetFiles     == {Defs!Preset(p) : p \in PresetKeys}
VersionFiles    == {Defs!Version(k, n) : k \in DefKeys, n \in Nat}
Packed   == DefinitionFiles \cup PresetFiles
AllFiles == Packed \cup VersionFiles
Docs == Contents \cup {Defs!Half}
Steps == [op : {"open", "dump", "prune", "invalidate"},
          at : AllFiles \cup {Defs!Active("")}, doc : Docs]

FilesType ==
  /\ DOMAIN disk \subseteq AllFiles /\ disk \in [DOMAIN disk -> Docs]
  /\ DOMAIN package \subseteq Packed /\ package \in [DOMAIN package -> Docs]
  /\ export.on => /\ export = [on |-> TRUE, at |-> export.at, left |-> export.left,
                               items |-> export.items]
                  /\ export.left \subseteq Packed /\ DOMAIN export.items \subseteq Packed
                  /\ export.items \in [DOMAIN export.items -> Docs]
  /\ \E b \in Nat : \A f \in DOMAIN disk : f.n <= b

\* Each file that a handler opens it fills next; what it fills it with can be
\* decoded. A version is written first, to a file that was not there.
JobStep(i) ==
  /\ job[i].op \in {"open", "dump"} => job[i].at \in AllFiles
  /\ job[i].op = "open" => /\ i < Len(job) /\ job[i + 1].op = "dump" /\ job[i + 1].at = job[i].at
                           /\ job[i].at \in VersionFiles => i = 1 /\ job[1].at \notin DOMAIN disk
  /\ job[i].op = "dump" => /\ job[i].doc # Defs!Half
                           /\ i = 1 => job[1].at \in DOMAIN disk
                                       /\ disk[job[1].at] = Defs!Half
                           /\ i # 1 => job[i - 1].op = "open" /\ job[i - 1].at = job[i].at
JobInv == job \in Seq(Steps) /\ \A i \in 1 .. Len(job) : JobStep(i)

HalfInv ==
  \A f \in DOMAIN disk : disk[f] = Defs!Half =>
    f \in cut \/ (job # <<>> /\ job[1].op = "dump" /\ job[1].at = f)

\* What has been saved of a definition's file is there or was pruned.
Kept(k, doc) ==
  \E n \in Nat : LET v == Defs!Version(k, n) IN
    v \in pruned \/ (v \in DOMAIN disk /\ disk[v] = doc)

\* A handler's last two steps replace a definition only where it has saved it, or will.
Saves(j, k, doc) ==
  job[j].op = "dump" /\ job[j].doc = doc /\ \E n \in Nat : job[j].at = Defs!Version(k, n)
Replaces(i, k) ==
  i + 1 = Len(job) /\ job[i].op = "open" /\ job[i].at = Defs!Active(k)
RollbackInv ==
  \A k \in DefKeys : \A i \in 1 .. Len(job) : Replaces(i, k) =>
    /\ \A j \in 1 .. i - 1 : job[j].op \in {"open", "dump"} => job[j].at \in VersionFiles
    /\ Defs!Readable(Defs!Active(k)) =>
         \/ Kept(k, disk[Defs!Active(k)])
         \/ \E j \in 1 .. i - 1 : Saves(j, k, disk[Defs!Active(k)])
OwedInv == \A o \in owed : o.key \in DefKeys /\ o.doc # Defs!Half /\ Kept(o.key, o.doc)

\* An item read at some time or later is as on disk unless its file has changed since.
AsReadOn(items, t, d, s) ==
  /\ DOMAIN items \subseteq DefinitionFiles
  /\ \A f \in DOMAIN items : f \in DOMAIN d /\ items[f] # d[f] => s[f.key] >= t
AsRead(items, t) == AsReadOn(items, t, disk, since)
ListingInv ==
  /\ clock \in Nat /\ since \in [DefKeys -> 0 .. clock]
  /\ listing.at \in Int /\ listing.at <= clock /\ AsRead(listing.items, listing.at)
  /\ scan.on => /\ scan = [on |-> TRUE, at |-> scan.at, left |-> scan.left, items |-> scan.items]
                /\ scan.at \in 0 .. clock /\ scan.left \subseteq DefinitionFiles
                /\ AsRead(scan.items, scan.at)
  /\ shown # <<>> => shown.at \in 0 .. clock /\ AsRead(shown.items, shown.at - CacheTTL + 1)

DefinitionsInv == FilesType /\ JobInv /\ HalfInv /\ OwedInv /\ RollbackInv /\ ListingInv

-----------------------------------------------------------------------------
LEMMA FileKinds ==
  /\ \A k \in DefKeys : Defs!Active(k) \in DefinitionFiles
  /\ \A p \in PresetKeys : Defs!Preset(p) \in PresetFiles
  /\ \A k \in DefKeys, n \in Nat : Defs!Version(k, n) \in VersionFiles
  /\ \A f \in DefinitionFiles : f.dir = "definitions" /\ f.key \in DefKeys
                                /\ f = Defs!Active(f.key) /\ f.n = 0
  /\ \A f \in PresetFiles : f.dir = "presets" /\ f.key \in PresetKeys
                            /\ f = Defs!Preset(f.key) /\ f.n = 0
  /\ \A f \in VersionFiles : f.dir = "versions" /\ f.key \in DefKeys /\ f.n \in Nat
                             /\ f = Defs!Version(f.key, f.n)
  /\ \A k, l : Defs!Active(k) = Defs!Active(l) => k = l
  /\ \A k, l, m, n : Defs!Version(k, m) = Defs!Version(l, n) => k = l /\ m = n
<1> QED BY DEF Defs!Active, Defs!Preset, Defs!Version, DefinitionFiles,
     PresetFiles, VersionFiles

LEMMA FilesApart ==
  /\ DefinitionFiles \cap VersionFiles = {} /\ DefinitionFiles \cap PresetFiles = {}
  /\ VersionFiles \cap PresetFiles = {}
  /\ \A f \in AllFiles : f.dir = "definitions" <=> f \in DefinitionFiles
  /\ \A f \in AllFiles : f.dir = "versions" <=> f \in VersionFiles
<1> QED BY FileKinds DEF AllFiles, Packed

LEMMA DocsAre ==
  /\ Defs!Half \in Docs /\ Contents \subseteq Docs /\ Defs!Half \notin Contents
  /\ Defs!Shipped \in Contents /\ Defs!Older \in Contents
<1>1. Contents # {} /\ Defs!Half \notin Contents
  BY SiteDefinitions DEF Defs!Half
<1>2. Defs!Shipped \in Contents
  BY <1>1 DEF Defs!Shipped
<1>3. \E c \in Contents : c # Defs!Shipped \/ Contents = {Defs!Shipped}
  BY <1>2
<1>4. Defs!Older \in Contents
  BY <1>3 DEF Defs!Older
<1> QED BY <1>1, <1>2, <1>4 DEF Docs

\* A set of naturals that some number bounds has a largest.
LEMMA GreatestOf ==
  ASSUME NEW S \in SUBSET Nat, S # {}, NEW b \in Nat, \A n \in S : n <= b
  PROVE  \E m \in S : \A n \in S : n <= m
<1> DEFINE U == {m \in Nat : \A n \in S : n <= m}
<1>1. U \in SUBSET Nat /\ U # {}
  OBVIOUS
<1>2. PICK m \in U : \A n \in U : m <= n
  <2> HIDE DEF U
  <2> QED BY <1>1, Smallest
<1>3. m \in S
  <2> SUFFICES ASSUME m \notin S PROVE FALSE
    OBVIOUS
  <2>1. m \in Nat /\ \A n \in S : n \in Nat /\ n <= m /\ n # m
    BY <1>2
  <2>2. \A n \in S : n \in Nat /\ n <= m - 1
    BY <2>1
  <2>3. PICK n \in S : n \in Nat /\ n <= m - 1
    BY <2>2
  <2>4. m - 1 \in Nat /\ ~(m <= m - 1)
    BY <2>1, <2>3
  <2>5. m - 1 \in U
    BY <2>2, <2>4
  <2> HIDE DEF U
  <2> QED BY <1>2, <2>4, <2>5, Zenon
<1> QED BY <1>2, <1>3

\* Finitely many naturals have a bound: counted through, the first ones always have.
LEMMA FiniteBounded ==
  ASSUME NEW S \in SUBSET Nat, IsFiniteSet(S) PROVE \E b \in Nat : \A n \in S : n <= b
<1>1. PICK c \in Nat : ExistsSurjection(1 .. c, S)
  BY FS_NatSurjection
<1>2. PICK e \in [1 .. c -> S] : \A n \in S : \E i \in 1 .. c : e[i] = n
  BY <1>1 DEF ExistsSurjection, Surjection
<1> DEFINE T == {m \in 0 .. c : \E b \in Nat : \A i \in 1 .. m : e[i] <= b}
<1>3. 0 \in T
  OBVIOUS
<1>4. ASSUME NEW m \in 1 .. c, m - 1 \in T PROVE m \in T
  <2>1. PICK b \in Nat : \A i \in 1 .. m - 1 : e[i] <= b
    BY <1>4
  <2>2. \A i \in 1 .. c : e[i] \in Nat
    OBVIOUS
  <2>3. \A i \in 1 .. m : (i = m \/ i \in 1 .. m - 1) /\ e[i] \in Nat
    BY <2>2
  <2>4. b + e[m] \in Nat /\ \A i \in 1 .. m : e[i] <= b + e[m]
    BY <2>1, <2>2, <2>3
  <2> QED BY <2>4
<1>5. c \in T
  <2> HIDE DEF T
  <2> QED BY <1>3, <1>4, CountedUp
<1> QED BY <1>2, <1>5

\* A version is saved under a number no version has.
LEMMA NextIsNew ==
  ASSUME FilesType, NEW k \in DefKeys
  PROVE  /\ Defs!NextVersion(k) \in Nat
         /\ Defs!Version(k, Defs!NextVersion(k)) \notin DOMAIN disk
<1> DEFINE S == Defs!Numbers(k)
<1>1. S \in SUBSET Nat
  BY FilesApart, FileKinds DEF FilesType, Defs!Numbers
<1>2. PICK b \in Nat : \A f \in DOMAIN disk : f.n <= b
  BY DEF FilesType
<1>3. \A n \in S : n <= b
  BY <1>2 DEF Defs!Numbers
<1>4. \A n \in Nat : Defs!Version(k, n) \in DOMAIN disk => n \in S
  BY DEF Defs!Numbers, Defs!Version
<1> HIDE DEF S
<1>5. CASE S = {}
  BY <1>5, <1>4 DEF Defs!NextVersion, S
<1>6. CASE S # {}
  <2>1. \E m \in S : \A n \in S : n <= m
    BY <1>1, <1>2, <1>3, <1>6, GreatestOf, Zenon
  <2> DEFINE g == CHOOSE n \in S : \A m \in S : m <= n
  <2>2. g \in S /\ \A n \in S : n <= g
    BY <2>1
  <2>3. Defs!NextVersion(k) = 1 + g
    BY <1>6 DEF Defs!NextVersion, S
  <2> HIDE DEF g
  <2>4. g \in Nat /\ 1 + g \in Nat /\ 1 + g \notin S
    BY <1>1, <2>2
  <2> QED BY <1>4, <2>3, <2>4
<1> QED BY <1>5, <1>6

-----------------------------------------------------------------------------
LEMMA DefinitionsInit == Defs!Init => DefinitionsInv
<1> SUFFICES ASSUME Defs!Init PROVE DefinitionsInv
  OBVIOUS
<1> DEFINE D == DOMAIN disk
<1>1. /\ D = PresetFiles \cup DefinitionFiles \cup {Defs!Version(k, n) : k \in DefKeys, n \in Saved}
      /\ \A f \in D : disk[f] \in Contents
      /\ disk \in [D -> Docs]
  BY DocsAre DEF Defs!Init, PresetFiles, DefinitionFiles
<1>2. D \subseteq AllFiles
  BY <1>1, SiteDefinitions DEF AllFiles, Packed, VersionFiles
<1>3. \E b \in Nat : \A f \in D : f.n <= b
  <2>1. IsFiniteSet(Saved) /\ Saved \subseteq Nat
    BY SiteDefinitions
  <2>2. PICK b \in Nat : \A n \in Saved : n <= b
    BY <2>1, FiniteBounded, Zenon
  <2>3. \A f \in D : f.n = 0 \/ f.n \in Saved
    BY <1>1, FileKinds DEF Defs!Version
  <2>4. ASSUME NEW f \in D PROVE f.n <= b
    <3>1. CASE f.n = 0
      BY <3>1
    <3>2. CASE f.n \in Saved
      BY <2>2, <3>2
    <3> QED BY <2>3, <3>1, <3>2
  <2> QED BY <2>4
<1>4. /\ job = <<>> /\ package = <<>> /\ export.on = FALSE /\ scan.on = FALSE /\ shown = <<>>
      /\ clock = 0 /\ since = [k \in DefKeys |-> 0] /\ owed = {}
      /\ listing = [at |-> -CacheTTL - 1, items |-> <<>>]
  BY DEF Defs!Init, Defs!NoScan, Defs!NoListing
<1> HIDE DEF Defs!Init, D
<1>5. FilesType
  BY <1>4, <1>1, <1>2, <1>3 DEF FilesType, D
<1>6. JobInv /\ RollbackInv
  BY <1>4 DEF JobInv, RollbackInv
<1>7. HalfInv
  BY <1>1, DocsAre DEF HalfInv, D
<1>8. OwedInv
  BY <1>4 DEF OwedInv
<1>9. ListingInv
  BY <1>4, SiteDefinitions DEF ListingInv, AsRead, AsReadOn
<1> QED BY <1>5, <1>6, <1>7, <1>8, <1>9 DEF DefinitionsInv

\* The steps that write nothing to disk and do nothing of a job.
LEMMA NothingWritten ==
  ASSUME DefinitionsInv, disk' = disk, job' = job, cut' = cut, since' = since, owed' = owed,
         pruned' = pruned, FilesType', ListingInv'
  PROVE  DefinitionsInv'
<1>1. JobInv'
  BY DEF DefinitionsInv, JobInv, JobStep
<1>2. HalfInv'
  BY DEF DefinitionsInv, HalfInv
<1>3. OwedInv'
  BY DEF DefinitionsInv, OwedInv, Kept
<1>4. RollbackInv'
  <2>1. \A k, i : Replaces(i, k)' <=> Replaces(i, k)
    BY DEF Replaces, Defs!Readable, Defs!Exists
  <2>2. \A k, d : Kept(k, d)' <=> Kept(k, d)
    BY DEF Kept
  <2>3. \A j, k, d : Saves(j, k, d)' <=> Saves(j, k, d)
    BY DEF Saves
  <2>4. \A k : Defs!Readable(Defs!Active(k))' <=> Defs!Readable(Defs!Active(k))
    BY DEF Defs!Readable, Defs!Exists
  <2> QED BY <2>1, <2>2, <2>3, <2>4 DEF DefinitionsInv, RollbackInv
<1> QED BY <1>1, <1>2, <1>3, <1>4 DEF DefinitionsInv

LEMMA SameFiles ==
  ASSUME FilesType, disk' = disk, package' = package, export' = export PROVE FilesType'
<1> QED BY DEF FilesType

LEMMA ListingKept ==
  ASSUME ListingInv, UNCHANGED <<disk, clock, since, listing, scan, shown>> PROVE ListingInv'
<1> QED BY DEF ListingInv, AsRead, AsReadOn

\* A handler begins: nothing is written yet.
LEMMA HandleKeeps ==
  ASSUME DefinitionsInv, NEW steps, Defs!Handle(steps), JobInv', RollbackInv'
  PROVE  DefinitionsInv'
<1>1. /\ job = <<>> /\ UNCHANGED <<disk, listing, scan, shown, export, package, clock, since, owed,
                                  pruned, cut>>
  BY DEF Defs!Handle, Defs!readers, Defs!defHistory
<1>2. FilesType' /\ ListingInv'
  BY <1>1, SameFiles, ListingKept DEF DefinitionsInv
<1>3. HalfInv'
  BY <1>1 DEF DefinitionsInv, HalfInv
<1>4. OwedInv'
  BY <1>1 DEF DefinitionsInv, OwedInv, Kept
<1> QED BY <1>2, <1>3, <1>4 DEF DefinitionsInv

\* What writing a file and then some more steps is, step by step.
LEMMA WriteThen ==
  ASSUME NEW f \in AllFiles, NEW doc \in Docs, NEW rest \in Seq(Steps)
  PROVE  LET all == Defs!Write(f, doc) \o rest IN
         /\ all \in Seq(Steps) /\ Len(all) = Len(rest) + 2
         /\ all[1] = Defs!Open(f) /\ all[2] = Defs!Dump(f, doc)
         /\ \A i \in 1 .. Len(rest) : all[i + 2] = rest[i]
<1> DEFINE w == Defs!Write(f, doc)
<1>1. w = <<Defs!Open(f), Defs!Dump(f, doc)>>
  BY DEF Defs!Write
<1>2. Defs!Open(f) \in Steps /\ Defs!Dump(f, doc) \in Steps
  BY DocsAre, Zenon DEF Defs!Open, Defs!Dump, Steps
<1>3. w \in Seq(Steps) /\ Len(w) = 2 /\ w[1] = Defs!Open(f) /\ w[2] = Defs!Dump(f, doc)
  BY <1>1, <1>2
<1> HIDE DEF w
<1>4. /\ Len(w \o rest) = Len(w) + Len(rest) /\ w \o rest \in Seq(Steps) /\ Len(rest) \in Nat
      /\ \A i \in 1 .. Len(w) + Len(rest) :
           (w \o rest)[i] = IF i <= Len(w) THEN w[i] ELSE rest[i - Len(w)]
  BY <1>3, ConcatProperties, LenProperties, Zenon
<1>5. (w \o rest)[1] = w[1] /\ (w \o rest)[2] = w[2]
  BY <1>3, <1>4
<1>6. \A i \in 1 .. Len(rest) : (w \o rest)[i + 2] = rest[i]
  BY <1>3, <1>4
<1> QED BY <1>3, <1>4, <1>5, <1>6 DEF w

\* What a handler that begins has before it.
Closed(s) ==
  /\ s \in Seq(Steps)
  /\ \A i \in 1 .. Len(s) :
       /\ s[i].op \in {"open", "dump"} => s[i].at \in AllFiles
       /\ s[i].op = "open" =>
            /\ i < Len(s) /\ s[i + 1].op = "dump" /\ s[i + 1].at = s[i].at
            /\ s[i].at \in VersionFiles => i = 1 /\ s[1].at \notin DOMAIN disk
       /\ s[i].op = "dump" => /\ s[i].doc # Defs!Half /\ i # 1
                              /\ s[i - 1].op = "open" /\ s[i - 1].at = s[i].at

LEMMA HandlerBegins ==
  ASSUME DefinitionsInv, NEW steps, Defs!Handle(steps), Closed(steps),
         \A k \in DefKeys : \A i \in 1 .. Len(steps) :
           i + 1 = Len(steps) /\ steps[i].op = "open" /\ steps[i].at = Defs!Active(k) =>
               /\ \A j \in 1 .. i - 1 : steps[j].op \in {"open", "dump"} => steps[j].at \in VersionFiles
               /\ \E j \in 1 .. i - 1 :
                    /\ steps[j].op = "dump" /\ steps[j].doc = disk[Defs!Active(k)]
                    /\ \E n \in Nat : steps[j].at = Defs!Version(k, n)
  PROVE  DefinitionsInv'
<1>1. job' = steps /\ disk' = disk /\ pruned' = pruned
  BY DEF Defs!Handle, Defs!defHistory
<1>2. JobInv'
  BY <1>1 DEF Closed, JobInv, JobStep
<1>3. RollbackInv'
  <2> SUFFICES ASSUME NEW k \in DefKeys, NEW i \in 1 .. Len(steps), Replaces(i, k)'
               PROVE  /\ \A j \in 1 .. i - 1 : steps[j].op \in {"open", "dump"}
                                                 => steps[j].at \in VersionFiles
                      /\ \E j \in 1 .. i - 1 : Saves(j, k, disk[Defs!Active(k)])'
    BY <1>1 DEF RollbackInv
  <2>1. i + 1 = Len(steps) /\ steps[i].op = "open" /\ steps[i].at = Defs!Active(k)
    BY <1>1 DEF Replaces
  <2> QED BY <1>1, <2>1 DEF Saves
<1> QED BY <1>2, <1>3, HandleKeeps

LEMMA PairThenOne ==
  ASSUME NEW a \in Steps, NEW b \in Steps, NEW c \in Steps
  PROVE  LET s == <<a, b>> \o <<c>> IN
         s \in Seq(Steps) /\ Len(s) = 3 /\ s[1] = a /\ s[2] = b /\ s[3] = c
<1> DEFINE x == <<a, b>>
           y == <<c>>
<1>1. x \in Seq(Steps) /\ Len(x) = 2 /\ x[1] = a /\ x[2] = b
  OBVIOUS
<1>2. y \in Seq(Steps) /\ Len(y) = 1 /\ y[1] = c
  OBVIOUS
<1> HIDE DEF x, y
<1>3. /\ x \o y \in Seq(Steps) /\ Len(x \o y) = Len(x) + Len(y)
      /\ \A i \in 1 .. Len(x) + Len(y) : (x \o y)[i] = IF i <= Len(x) THEN x[i] ELSE y[i - Len(x)]
  BY <1>1, <1>2, ConcatProperties, Zenon
<1> QED BY <1>1, <1>2, <1>3 DEF x, y

LEMMA ThreeThenPair ==
  ASSUME NEW r \in Seq(Steps), Len(r) = 3, NEW c \in Steps, NEW d \in Steps
  PROVE  LET s == r \o <<c, d>> IN
         s \in Seq(Steps) /\ Len(s) = 5 /\ s[1] = r[1] /\ s[2] = r[2] /\ s[3] = r[3]
           /\ s[4] = c /\ s[5] = d
<1> DEFINE y == <<c, d>>
<1>2. y \in Seq(Steps) /\ Len(y) = 2 /\ y[1] = c /\ y[2] = d
  OBVIOUS
<1> HIDE DEF y
<1>3. /\ r \o y \in Seq(Steps) /\ Len(r \o y) = Len(r) + Len(y)
      /\ \A i \in 1 .. Len(r) + Len(y) : (r \o y)[i] = IF i <= Len(r) THEN r[i] ELSE y[i - Len(r)]
  BY <1>2, ConcatProperties, Zenon
<1> QED BY <1>2, <1>3 DEF y

LEMMA StepKinds ==
  /\ \A f \in AllFiles : Defs!Open(f) \in Steps /\ Defs!Open(f).op = "open"
                         /\ Defs!Open(f).at = f
  /\ \A f \in AllFiles, doc \in Docs :
       Defs!Dump(f, doc) \in Steps /\ Defs!Dump(f, doc).op = "dump"
         /\ Defs!Dump(f, doc).at = f /\ Defs!Dump(f, doc).doc = doc
  /\ \A k \in DefKeys : Defs!Prune(k) \in Steps /\ Defs!Prune(k).op = "prune"
  /\ Defs!Invalidate \in Steps /\ Defs!Invalidate.op = "invalidate"
<1>1. \A k \in DefKeys : Defs!Active(k) \in AllFiles
  BY FileKinds DEF AllFiles, Packed
<1> QED BY <1>1, DocsAre, Zenon DEF Defs!Open, Defs!Dump, Defs!Prune,
     Defs!Invalidate, Steps

\* The routes that write one file that is no version.
LEMMA CreateOrUpdateKeeps ==
  ASSUME DefinitionsInv, NEW k \in DefKeys, NEW doc \in Contents,
         Defs!Handle(Defs!Write(Defs!Active(k), doc) \o <<Defs!Invalidate>>)
  PROVE  DefinitionsInv'
<1> DEFINE f == Defs!Active(k)
           s == Defs!Write(f, doc) \o <<Defs!Invalidate>>
<1>1. f \in AllFiles /\ f \notin VersionFiles /\ doc \in Docs /\ doc # Defs!Half
  BY FileKinds, FilesApart, DocsAre DEF AllFiles, Packed
<1>2. /\ s \in Seq(Steps) /\ Len(s) = 3 /\ s[1] = Defs!Open(f)
      /\ s[2] = Defs!Dump(f, doc) /\ s[3] = Defs!Invalidate
  BY <1>1, StepKinds, PairThenOne DEF Defs!Write
<1>3. Defs!Handle(s)
  OBVIOUS
<1> HIDE DEF s, f
<1>4. 1 .. Len(s) = {1, 2, 3}
  BY <1>2
<1>5. Closed(s)
  BY <1>1, <1>2, <1>4, StepKinds DEF Closed
<1>6. \A i \in 1 .. Len(s) : i + 1 = Len(s) => s[i].op # "open"
  BY <1>1, <1>2, <1>4, StepKinds
<1> QED BY <1>3, <1>5, <1>6, HandlerBegins

LEMMA CreatePresetKeeps ==
  ASSUME DefinitionsInv, NEW p \in PresetKeys, NEW doc \in Contents,
         Defs!CreatePreset(p, doc)
  PROVE  DefinitionsInv'
<1> DEFINE f == Defs!Preset(p)
           s == Defs!Write(f, doc)
<1>1. /\ f \in AllFiles /\ f \notin VersionFiles /\ f \notin DefinitionFiles
      /\ doc \in Docs /\ doc # Defs!Half
  BY FileKinds, FilesApart, DocsAre DEF AllFiles, Packed
<1>2. s = <<Defs!Open(f), Defs!Dump(f, doc)>>
  BY DEF Defs!Write
<1>3. Defs!Handle(s)
  BY DEF Defs!CreatePreset
<1> HIDE DEF s, f
<1>4. /\ s \in Seq(Steps) /\ Len(s) = 2 /\ s[1] = Defs!Open(f) /\ s[2] = Defs!Dump(f, doc)
      /\ 1 .. Len(s) = {1, 2}
  BY <1>1, <1>2, StepKinds
<1>5. Closed(s)
  BY <1>1, <1>4, StepKinds DEF Closed
<1>6. \A i \in 1 .. Len(s) : s[i].at \notin DefinitionFiles
  BY <1>1, <1>4, StepKinds
<1> QED BY <1>3, <1>5, <1>6, FileKinds, HandlerBegins

\* What saving a version is, step by step.
LEMMA SaveSteps ==
  ASSUME DefinitionsInv, NEW k \in DefKeys, Defs!Readable(Defs!Active(k)),
         NEW s, s = Defs!SaveVersion(k)
  PROVE  \E v \in VersionFiles : \E doc \in Docs :
           /\ v = Defs!Version(k, Defs!NextVersion(k))
           /\ Defs!NextVersion(k) \in Nat /\ v \notin DOMAIN disk
           /\ doc = disk[Defs!Active(k)] /\ doc # Defs!Half
           /\ s \in Seq(Steps) /\ Len(s) = 3 /\ s[1] = Defs!Open(v)
           /\ s[2] = Defs!Dump(v, doc) /\ s[3] = Defs!Prune(k)
<1> DEFINE v == Defs!Version(k, Defs!NextVersion(k))
           doc == disk[Defs!Active(k)]
<1>1. Defs!NextVersion(k) \in Nat /\ v \notin DOMAIN disk
  BY NextIsNew DEF DefinitionsInv
<1>2. v \in VersionFiles /\ v \in AllFiles
  BY <1>1, FileKinds DEF AllFiles
<1>3. doc \in Docs /\ doc # Defs!Half
  BY DEF DefinitionsInv, FilesType, Defs!Readable, Defs!Exists
<1>4. s = <<Defs!Open(v), Defs!Dump(v, doc)>> \o <<Defs!Prune(k)>>
  BY DEF Defs!SaveVersion, Defs!Write
<1> HIDE DEF v, doc
<1>5. /\ s \in Seq(Steps) /\ Len(s) = 3 /\ s[1] = Defs!Open(v)
      /\ s[2] = Defs!Dump(v, doc) /\ s[3] = Defs!Prune(k)
  BY <1>2, <1>3, <1>4, StepKinds, PairThenOne
<1> QED BY <1>1, <1>2, <1>3, <1>5 DEF v, doc

LEMMA SaveKeeps ==
  ASSUME DefinitionsInv, NEW k \in DefKeys, Defs!Save(k) PROVE DefinitionsInv'
<1> DEFINE s == Defs!SaveVersion(k)
<1>1. Defs!Readable(Defs!Active(k)) /\ Defs!Handle(s)
  BY DEF Defs!Save
<1> HIDE DEF s
<1>2. PICK v \in VersionFiles, doc \in Docs :
           /\ v \notin DOMAIN disk /\ doc # Defs!Half
           /\ s \in Seq(Steps) /\ Len(s) = 3 /\ s[1] = Defs!Open(v)
           /\ s[2] = Defs!Dump(v, doc) /\ s[3] = Defs!Prune(k)
  BY <1>1, SaveSteps DEF s
<1>3. 1 .. Len(s) = {1, 2, 3} /\ v \in AllFiles
  BY <1>2 DEF AllFiles
<1>4. Closed(s)
  BY <1>2, <1>3, StepKinds DEF Closed
<1>5. \A i \in 1 .. Len(s) : i + 1 = Len(s) => s[i].op # "open"
  BY <1>2, <1>3, StepKinds
<1> QED BY <1>1, <1>4, <1>5, HandlerBegins

LEMMA RollbackKeeps ==
  ASSUME DefinitionsInv, NEW k \in DefKeys, NEW n, Defs!Exists(Defs!Active(k)),
         Defs!Rollback(k, n)
  PROVE  DefinitionsInv'
<1> DEFINE r == Defs!SaveVersion(k)
           old == disk[Defs!Version(k, n)]
           f == Defs!Active(k)
           s == r \o <<Defs!Open(f), Defs!Dump(f, old)>>
<1>1. /\ Defs!Readable(f) /\ Defs!Handle(s)
      /\ old \in Docs /\ old # Defs!Half
  BY DEF Defs!Rollback, Defs!RollbackSteps, Defs!Readable, Defs!Exists,
     Defs!Write, DefinitionsInv, FilesType
<1>2. f \in AllFiles /\ f \notin VersionFiles /\ f = Defs!Active(k)
  BY FileKinds, FilesApart DEF AllFiles, Packed
<1> HIDE DEF r, old, f
<1>3. PICK v \in VersionFiles, doc \in Docs :
           /\ v = Defs!Version(k, Defs!NextVersion(k))
           /\ Defs!NextVersion(k) \in Nat /\ v \notin DOMAIN disk
           /\ doc = disk[f] /\ doc # Defs!Half
           /\ r \in Seq(Steps) /\ Len(r) = 3 /\ r[1] = Defs!Open(v)
           /\ r[2] = Defs!Dump(v, doc) /\ r[3] = Defs!Prune(k)
  BY <1>1, <1>2, SaveSteps DEF r
<1>4. /\ s \in Seq(Steps) /\ Len(s) = 5 /\ s[1] = Defs!Open(v)
      /\ s[2] = Defs!Dump(v, doc) /\ s[3] = Defs!Prune(k)
      /\ s[4] = Defs!Open(f) /\ s[5] = Defs!Dump(f, old)
  BY <1>1, <1>2, <1>3, StepKinds, ThreeThenPair
<1> HIDE DEF s
<1>5. 1 .. Len(s) = {1, 2, 3, 4, 5} /\ v \in AllFiles
  BY <1>3, <1>4 DEF AllFiles
<1>6. Closed(s)
  <2>1. s[1].op = "open" /\ s[1].at = v /\ s[2].op = "dump" /\ s[2].at = v /\ s[2].doc = doc
    BY <1>3, <1>4, <1>5, StepKinds
  <2>2. s[3].op = "prune" /\ s[4].op = "open" /\ s[4].at = f
    BY <1>2, <1>4, StepKinds
  <2>3. s[5].op = "dump" /\ s[5].at = f /\ s[5].doc = old
    BY <1>1, <1>2, <1>4, StepKinds
  <2> QED BY <1>1, <1>2, <1>3, <1>4, <1>5, <2>1, <2>2, <2>3 DEF Closed
<1>7. ASSUME NEW l \in DefKeys, NEW i \in 1 .. Len(s), i + 1 = Len(s), s[i].op = "open",
             s[i].at = Defs!Active(l)
      PROVE  /\ \A j \in 1 .. i - 1 : s[j].op \in {"open", "dump"} => s[j].at \in VersionFiles
             /\ \E j \in 1 .. i - 1 :
                    /\ s[j].op = "dump" /\ s[j].doc = disk[Defs!Active(l)]
                    /\ \E m \in Nat : s[j].at = Defs!Version(l, m)
  <2>1. i = 4 /\ 1 .. i - 1 = {1, 2, 3}
    BY <1>4, <1>7
  <2>2. l = k
    BY <1>2, <1>4, <1>7, <2>1, FileKinds, StepKinds
  <2>3. s[1].at = v /\ s[2].op = "dump" /\ s[2].at = v /\ s[2].doc = doc /\ s[3].op = "prune"
    BY <1>3, <1>4, <1>5, StepKinds
  <2> QED BY <1>2, <1>3, <2>1, <2>2, <2>3
<1> QED BY <1>1, <1>6, <1>7, HandlerBegins

\* What a package puts in place, file by file.
LEMMA InstallSteps ==
  ASSUME DefinitionsInv, NEW fs \in SUBSET DOMAIN package, \A f \in fs : package[f] # Defs!Half,
         NEW s, s = Defs!Install(fs) \o <<Defs!Invalidate>>
  PROVE  /\ Closed(s) /\ Len(s) \in Nat
         /\ \A i \in 1 .. Len(s) : i + 1 = Len(s) => s[i].op # "open"
<1> DEFINE c == Cardinality(fs)
           e == CHOOSE e \in [1 .. Cardinality(fs) -> fs] : \A f \in fs : \E i \in DOMAIN e : e[i] = f
           t == Defs!Install(fs)
<1>1. /\ fs \subseteq Packed /\ \A f \in fs : package[f] \in Docs
  BY DEF DefinitionsInv, FilesType
<1>2. IsFiniteSet(fs)
  <2>1. IsFiniteSet(DefinitionFiles) /\ IsFiniteSet(PresetFiles)
    <3>1. IsFiniteSet(DefKeys) /\ IsFiniteSet(PresetKeys)
      BY SiteDefinitions
    <3>2. /\ [k \in DefKeys |-> Defs!Active(k)] \in Surjection(DefKeys, DefinitionFiles)
          /\ [p \in PresetKeys |-> Defs!Preset(p)] \in Surjection(PresetKeys, PresetFiles)
      BY DEF Surjection, DefinitionFiles, PresetFiles
    <3> QED BY <3>1, <3>2, FS_Surjection
  <2>2. IsFiniteSet(Packed)
    BY <2>1, FS_Union, Zenon DEF Packed
  <2> QED BY <1>1, <2>2, FS_Subset
<1>3. c \in Nat /\ e \in [1 .. c -> fs]
  BY <1>2, FS_CardinalityType DEF ExistsBijection, Bijection, Surjection
<1>4. t = [i \in 1 .. 2 * c |-> IF i % 2 = 1 THEN Defs!Open(e[(i + 1) \div 2])
              ELSE Defs!Dump(e[(i + 1) \div 2], package[e[(i + 1) \div 2]])]
  BY DEF Defs!Install, Defs!Cardinality, Cardinality
<1>5. s = t \o <<Defs!Invalidate>>
  OBVIOUS
<1> HIDE DEF c, e, t
<1>6. ASSUME NEW i \in 1 .. 2 * c
      PROVE  \E f \in fs :
               /\ f \in AllFiles /\ f \notin VersionFiles
               /\ i % 2 = 1 => t[i] = Defs!Open(f) /\ i + 1 \in 1 .. 2 * c
                               /\ t[i + 1] = Defs!Dump(f, package[f])
               /\ i % 2 # 1 => t[i] = Defs!Dump(f, package[f]) /\ i - 1 \in 1 .. 2 * c
                               /\ t[i - 1] = Defs!Open(f)
  <2> DEFINE m == (i + 1) \div 2
  <2>1. m \in 1 .. c
    BY <1>3
  <2>2. PICK f \in fs : f = e[m]
    BY <1>3, <2>1
  <2>3. f \in AllFiles /\ f \notin VersionFiles
    BY <1>1, FilesApart DEF AllFiles, Packed
  <2>4. t[i] = IF i % 2 = 1 THEN Defs!Open(f) ELSE Defs!Dump(f, package[f])
    BY <1>4, <2>2
  <2>5. CASE i % 2 = 1
    <3>1. i + 1 \in 1 .. 2 * c /\ (i + 2) \div 2 = m /\ (i + 1) % 2 # 1 /\ (i + 1) + 1 = i + 2
      BY <1>3, <2>5
    <3>2. t[i + 1] = Defs!Dump(e[(i + 2) \div 2], package[e[(i + 2) \div 2]])
      BY <1>4, <3>1
    <3> QED BY <2>2, <2>3, <2>4, <2>5, <3>1, <3>2
  <2>6. CASE i % 2 # 1
    BY <1>3, <2>6, <1>4, <2>2, <2>3, <2>4
  <2> QED BY <2>5, <2>6
<1>7. t \in Seq(Steps) /\ Len(t) = 2 * c
  <2>1. ASSUME NEW i \in 1 .. 2 * c PROVE t[i] \in Steps
    <3>1. PICK f \in fs : /\ f \in AllFiles
                          /\ t[i] = Defs!Open(f) \/ t[i] = Defs!Dump(f, package[f])
      BY <1>6
    <3> QED BY <1>1, <3>1, StepKinds
  <2>2. t \in [1 .. 2 * c -> Steps]
    BY <1>4, <2>1
  <2>3. 2 * c \in Nat
    BY <1>3
  <2> QED BY <2>2, <2>3
<1> DEFINE y == <<Defs!Invalidate>>
<1>8. y \in Seq(Steps) /\ Len(y) = 1 /\ y[1] = Defs!Invalidate
  BY StepKinds
<1>9. s = t \o y
  BY <1>5
<1> HIDE DEF y
<1>17. /\ t \o y \in Seq(Steps) /\ Len(t \o y) = Len(t) + Len(y)
       /\ \A i \in 1 .. Len(t) + Len(y) : (t \o y)[i] = IF i <= Len(t) THEN t[i] ELSE y[i - Len(t)]
  BY <1>7, <1>8, ConcatProperties, Zenon
<1>10. /\ s \in Seq(Steps) /\ Len(s) = 2 * c + 1
       /\ \A i \in 1 .. Len(t) + Len(y) : s[i] = IF i <= Len(t) THEN t[i] ELSE y[i - Len(t)]
  BY <1>7, <1>8, <1>9, <1>17, Zenon
<1>11. /\ \A i \in 1 .. 2 * c : s[i] = t[i]
       /\ s[2 * c + 1] = Defs!Invalidate
  BY <1>3, <1>7, <1>8, <1>10
<1>12. ASSUME NEW i \in 1 .. 2 * c
       PROVE  /\ s[i].at \in AllFiles /\ s[i].at \notin VersionFiles
              /\ s[i].op = "open" => i % 2 = 1 /\ i < Len(s) /\ s[i + 1].op = "dump"
                                     /\ s[i + 1].at = s[i].at
              /\ s[i].op = "dump" => s[i].doc # Defs!Half /\ i # 1 /\ s[i - 1].op = "open"
                                     /\ s[i - 1].at = s[i].at
  <2>1. PICK f \in fs :
               /\ f \in AllFiles /\ f \notin VersionFiles
               /\ i % 2 = 1 => t[i] = Defs!Open(f) /\ i + 1 \in 1 .. 2 * c
                               /\ t[i + 1] = Defs!Dump(f, package[f])
               /\ i % 2 # 1 => t[i] = Defs!Dump(f, package[f]) /\ i - 1 \in 1 .. 2 * c
                               /\ t[i - 1] = Defs!Open(f)
    BY <1>6
  <2>2. /\ Defs!Open(f).op = "open" /\ Defs!Open(f).at = f
        /\ Defs!Dump(f, package[f]).op = "dump" /\ Defs!Dump(f, package[f]).at = f
        /\ Defs!Dump(f, package[f]).doc # Defs!Half
    BY <1>1, <2>1, StepKinds
  <2>3. CASE i % 2 = 1
    BY <1>11, <2>1, <2>3, <1>3, <1>10, <2>2
  <2>4. CASE i % 2 # 1
    BY <1>3, <1>10, <1>11, <2>1, <2>4, <2>2
  <2> QED BY <2>3, <2>4, Zenon
<1>13. ASSUME NEW i \in 1 .. Len(s) PROVE i \in 1 .. 2 * c \/ (i = 2 * c + 1 /\ s[i].op = "invalidate")
  BY <1>3, <1>10, <1>11, StepKinds
<1>14. Closed(s)
  BY <1>10, <1>12, <1>13 DEF Closed
<1>15. ASSUME NEW i \in 1 .. Len(s), i + 1 = Len(s) PROVE s[i].op # "open"
  <2>1. i = 2 * c /\ i \in 1 .. 2 * c
    BY <1>3, <1>10, <1>15
  <2>2. i % 2 # 1
    BY <1>3, <2>1
  <2> QED BY <1>12, <2>1, <2>2
<1>16. Len(s) \in Nat
  BY <1>3, <1>10
<1> QED BY <1>14, <1>15, <1>16

LEMMA ImportKeeps ==
  ASSUME DefinitionsInv, NEW overwrite \in BOOLEAN, Defs!Import(overwrite)
  PROVE  DefinitionsInv'
<1> DEFINE fs == {f \in DOMAIN package : Defs!Installs(f, overwrite)}
           s == Defs!Install(fs) \o <<Defs!Invalidate>>
<1>1. Defs!Handle(s)
  BY DEF Defs!Import
<1>2. fs \in SUBSET DOMAIN package /\ \A f \in fs : package[f] # Defs!Half
  BY DEF Defs!Installs
<1> HIDE DEF fs
<1>3. Closed(s) /\ \A i \in 1 .. Len(s) : i + 1 = Len(s) => s[i].op # "open"
  BY <1>2, InstallSteps, Zenon
<1> QED BY <1>1, <1>3, HandlerBegins, Zenon

\* Where no definition's file changes but at this time, what was read stays as read.
LEMMA AsReadAfter ==
  ASSUME NEW items, NEW t \in Int, NEW c \in Nat, NEW d, NEW e,
         NEW s \in [DefKeys -> 0 .. c], NEW r \in [DefKeys -> 0 .. c],
         t <= c, AsReadOn(items, t, d, s),
         \A f \in DefinitionFiles : f \in DOMAIN e =>
           (f \in DOMAIN d /\ e[f] = d[f] /\ r[f.key] = s[f.key]) \/ r[f.key] = c
  PROVE  AsReadOn(items, t, e, r)
<1> SUFFICES ASSUME NEW f \in DOMAIN items, f \in DOMAIN e, items[f] # e[f]
             PROVE  r[f.key] >= t
  BY DEF AsReadOn
<1>1. f \in DefinitionFiles /\ f.key \in DefKeys
  BY FileKinds DEF AsReadOn
<1>2. s[f.key] \in Nat /\ r[f.key] \in Nat
  BY <1>1
<1>3. CASE r[f.key] = c
  BY <1>3
<1>4. CASE f \in DOMAIN d /\ e[f] = d[f] /\ r[f.key] = s[f.key]
  BY <1>4, <1>2 DEF AsReadOn
<1> QED BY <1>1, <1>3, <1>4

\* The same for all that was read.
LEMMA ListingAfter ==
  ASSUME ListingInv, UNCHANGED <<clock, scan, shown>>,
         listing' = listing \/ listing' = Defs!NoListing,
         \A f \in DefinitionFiles : f \in DOMAIN disk' =>
           (f \in DOMAIN disk /\ disk'[f] = disk[f] /\ since'[f.key] = since[f.key])
             \/ since'[f.key] = clock,
         since' \in [DefKeys -> 0 .. clock]
  PROVE  ListingInv'
<1>1. clock \in Nat /\ CacheTTL \in Nat \ {0} /\ since \in [DefKeys -> 0 .. clock]
  BY SiteDefinitions DEF ListingInv
<1>2. listing'.at \in Int /\ listing'.at <= clock /\ AsRead(listing.items, listing.at)'
  <2>1. CASE listing' = listing
    BY <1>1, AsReadAfter, <2>1 DEF ListingInv, AsRead
  <2>2. CASE listing' = Defs!NoListing
    BY <2>2, <1>1 DEF Defs!NoListing, AsRead, AsReadOn
  <2> QED BY <2>1, <2>2
<1>3. ASSUME scan.on PROVE AsRead(scan.items, scan.at)'
  BY <1>1, <1>3, AsReadAfter DEF ListingInv, AsRead
<1>4. ASSUME shown # <<>> PROVE AsRead(shown.items, shown.at - CacheTTL + 1)'
  <2>1. shown.at \in 0 .. clock /\ AsReadOn(shown.items, shown.at - CacheTTL + 1, disk, since)
    BY <1>4 DEF ListingInv, AsRead
  <2>2. PICK t \in Int : t = shown.at - CacheTTL + 1
    BY <1>1, <2>1
  <2>3. t <= clock
    BY <1>1, <2>1, <2>2
  <2>4. AsReadOn(shown.items, t, disk', since')
    BY <1>1, <2>1, <2>2, <2>3, AsReadAfter
  <2> QED BY <2>2, <2>4 DEF AsRead
<1> QED BY <1>1, <1>2, <1>3, <1>4 DEF ListingInv

\* Files are put and deleted.
LEMMA PutKeeps ==
  ASSUME FilesType, NEW f \in AllFiles, NEW doc \in Docs, disk' = Defs!Put(f, doc),
         UNCHANGED <<package, export>>
  PROVE  FilesType' /\ DOMAIN disk' = DOMAIN disk \cup {f} /\ disk'[f] = doc
         /\ \A g \in DOMAIN disk : g # f => disk'[g] = disk[g]
<1>1. /\ DOMAIN disk' = DOMAIN disk \cup {f}
      /\ \A g \in DOMAIN disk' : disk'[g] = IF g = f THEN doc ELSE disk[g]
  BY DEF Defs!Put
<1>2. disk' \in [DOMAIN disk' -> Docs]
  BY <1>1 DEF Defs!Put, FilesType
<1>3. PICK b \in Nat : \A g \in DOMAIN disk : g.n <= b
  BY DEF FilesType
<1>4. f.n \in Nat
  BY FileKinds DEF AllFiles, Packed
<1>5. \E c \in Nat : \A g \in DOMAIN disk' : g.n <= c
  <2>1. ASSUME NEW g \in DOMAIN disk' PROVE g.n <= b + f.n
    <3>1. g = f \/ g \in DOMAIN disk
      BY <1>1
    <3>2. g \in AllFiles
      BY <3>1 DEF FilesType
    <3>3. g.n \in Nat
      BY <3>2, FileKinds DEF AllFiles, Packed
    <3>4. g.n = f.n \/ g.n <= b
      BY <1>3, <3>1
    <3> QED BY <1>4, <3>3, <3>4
  <2>2. b + f.n \in Nat
    BY <1>4
  <2> QED BY <2>1, <2>2
<1> QED BY <1>1, <1>2, <1>5 DEF FilesType

LEMMA DropKeeps ==
  ASSUME FilesType, NEW fs, disk' = Defs!Without(fs), UNCHANGED <<package, export>>
  PROVE  FilesType' /\ DOMAIN disk' = DOMAIN disk \ fs
         /\ \A g \in DOMAIN disk' : disk'[g] = disk[g]
<1>1. DOMAIN disk' = DOMAIN disk \ fs /\ \A g \in DOMAIN disk' : disk'[g] = disk[g]
  BY DEF Defs!Without
<1>2. disk' \in [DOMAIN disk' -> Docs]
  BY DEF FilesType, Defs!Without
<1> QED BY <1>1, <1>2 DEF FilesType

LEMMA DeleteKeeps ==
  ASSUME DefinitionsInv, NEW f \in Defs!Files("definitions") \cup Defs!Files("presets"),
         Defs!Delete(f)
  PROVE  DefinitionsInv'
<1>1. /\ job = <<>> /\ disk' = Defs!Without({f}) /\ f \in DOMAIN disk
      /\ UNCHANGED <<job, scan, shown, export, package, clock, owed, pruned, cut>>
      /\ IF f.dir = "definitions"
         THEN listing' = Defs!NoListing /\ since' = [since EXCEPT ![f.key] = clock]
         ELSE listing' = listing /\ since' = since
  BY DEF Defs!Delete, Defs!Exists
<1>2. f \in AllFiles /\ f \notin VersionFiles
  BY <1>1, FilesApart DEF DefinitionsInv, FilesType, Defs!Files
<1>3. FilesType' /\ DOMAIN disk' = DOMAIN disk \ {f} /\ \A g \in DOMAIN disk' : disk'[g] = disk[g]
  BY <1>1, DropKeeps, Zenon DEF DefinitionsInv
<1>4. JobInv' /\ RollbackInv'
  BY <1>1 DEF JobInv, RollbackInv
<1>5. HalfInv'
  BY <1>1, <1>3, Zenon DEF DefinitionsInv, HalfInv
<1>6. OwedInv'
  <2>1. ASSUME NEW k \in DefKeys, NEW d, Kept(k, d) PROVE Kept(k, d)'
    <3>1. PICK n \in Nat : LET v == Defs!Version(k, n) IN
            v \in pruned \/ (v \in DOMAIN disk /\ disk[v] = d)
      BY <2>1 DEF Kept
    <3>2. Defs!Version(k, n) \in VersionFiles
      BY FileKinds
    <3>3. Defs!Version(k, n) # f
      BY <1>2, <3>2
    <3> QED BY <1>1, <1>3, <3>1, <3>3, Zenon DEF Kept
  <2> QED BY <1>1, <2>1 DEF DefinitionsInv, OwedInv
<1>7. ListingInv'
  <2>1. clock \in Nat /\ since \in [DefKeys -> 0 .. clock] /\ clock \in 0 .. clock
    BY DEF DefinitionsInv, ListingInv
  <2>2. CASE f.dir = "definitions"
    <3>1. f.key \in DefKeys
      BY <1>2, <2>2, FilesApart, FileKinds
    <3>2. since' = [since EXCEPT ![f.key] = clock]
      BY <1>1, <2>2
    <3>3. since' \in [DefKeys -> 0 .. clock]
      BY <2>1, <3>2, Zenon
    <3>4. \A g \in DefinitionFiles : since'[g.key] = since[g.key] \/ since'[g.key] = clock
      BY <2>1, <3>2, FileKinds
    <3> QED BY <1>1, <1>3, <2>2, <3>3, <3>4, ListingAfter, Zenon DEF DefinitionsInv
  <2>3. CASE f.dir # "definitions"
    BY <1>1, <1>3, <2>1, <2>3, ListingAfter, Zenon DEF DefinitionsInv
  <2> QED BY <2>2, <2>3
<1> QED BY <1>3, <1>4, <1>5, <1>6, <1>7 DEF DefinitionsInv

\* A step of a job leaves the rest of it.
LEMMA WorkSteps ==
  ASSUME DefinitionsInv, job # <<>>, job' = Tail(job)
  PROVE  /\ Len(job) \in Nat /\ 1 \in 1 .. Len(job) /\ Head(job) = job[1] /\ job[1] \in Steps
         /\ job' \in Seq(Steps) /\ Len(job') = Len(job) - 1
         /\ \A i \in 1 .. Len(job') : i + 1 \in 1 .. Len(job) /\ job'[i] = job[i + 1]
         /\ JobStep(1)
<1>1. job \in Seq(Steps)
  BY DEF DefinitionsInv, JobInv
<1>2. /\ Len(job) \in Nat /\ Len(job) # 0
  BY <1>1, LenProperties, EmptySeq
<1>3. /\ job' \in Seq(Steps) /\ Len(job') = Len(job) - 1
      /\ \A i \in 1 .. Len(job') : job'[i] = job[i + 1]
  BY <1>1, HeadTailProperties
<1>4. 1 \in 1 .. Len(job) /\ Head(job) = job[1] /\ job[1] \in Steps
  BY <1>1, <1>2
<1>5. JobStep(1)
  BY <1>4 DEF DefinitionsInv, JobInv
<1> QED BY <1>2, <1>3, <1>4, <1>5

LEMMA WorkJob ==
  ASSUME DefinitionsInv, job # <<>>, job' = Tail(job),
         job[1].op = "open" => job[1].at \in DOMAIN disk' /\ disk'[job[1].at] = Defs!Half
  PROVE  JobInv'
<1>1. /\ Len(job) \in Nat /\ 1 \in 1 .. Len(job)
      /\ job' \in Seq(Steps) /\ Len(job') = Len(job) - 1
      /\ \A i \in 1 .. Len(job') : i + 1 \in 1 .. Len(job) /\ job'[i] = job[i + 1]
  BY WorkSteps
<1>2. ASSUME NEW i \in 1 .. Len(job') PROVE JobStep(i)'
  <2>1. /\ i + 1 \in 1 .. Len(job) /\ job'[i] = job[i + 1] /\ i + 1 # 1 /\ (i + 1) - 1 = i
        /\ i + 1 < Len(job) => i < Len(job') /\ job'[i + 1] = job[(i + 1) + 1]
        /\ i # 1 => job'[i - 1] = job[i]
    BY <1>1
  <2>2. JobStep(i + 1)
    BY <2>1 DEF DefinitionsInv, JobInv
  <2>3. job'[i].op \in {"open", "dump"} => job'[i].at \in AllFiles
    BY <2>1, <2>2 DEF JobStep
  <2>4. ASSUME job'[i].op = "open"
        PROVE  i < Len(job') /\ job'[i + 1].op = "dump" /\ job'[i + 1].at = job'[i].at
               /\ job'[i].at \notin VersionFiles
    BY <2>1, <2>2, <2>4 DEF JobStep
  <2>5. ASSUME job'[i].op = "dump"
        PROVE  /\ job'[i].doc # Defs!Half /\ job[i].op = "open" /\ job[i].at = job'[i].at
    BY <2>1, <2>2, <2>5 DEF JobStep
  <2>6. ASSUME job'[i].op = "dump", i = 1
        PROVE  job'[1].at \in DOMAIN disk' /\ disk'[job'[1].at] = Defs!Half
    BY <2>5, <2>6
  <2>7. ASSUME job'[i].op = "dump", i # 1
        PROVE  job'[i - 1].op = "open" /\ job'[i - 1].at = job'[i].at
    BY <2>1, <2>5, <2>7
  <2> QED BY <2>3, <2>4, <2>5, <2>6, <2>7 DEF JobStep
<1> QED BY <1>1, <1>2 DEF JobInv

\* What a rollback that is under way has still to do.
LEMMA WorkRollback ==
  ASSUME DefinitionsInv, job # <<>>, job' = Tail(job),
         \A k \in DefKeys : \A d : d # Defs!Half =>
           (Kept(k, d) => Kept(k, d)') /\ (Saves(1, k, d) => Kept(k, d)'),
         \A k \in DefKeys : Defs!Readable(Defs!Active(k))' =>
           \/ /\ Defs!Readable(Defs!Active(k))
              /\ disk'[Defs!Active(k)] = disk[Defs!Active(k)]
           \/ job[1].op = "dump" /\ job[1].at = Defs!Active(k)
  PROVE  RollbackInv'
<1>1. /\ Len(job) \in Nat /\ 1 \in 1 .. Len(job)
      /\ job' \in Seq(Steps) /\ Len(job') = Len(job) - 1
      /\ \A i \in 1 .. Len(job') : i + 1 \in 1 .. Len(job) /\ job'[i] = job[i + 1]
  BY WorkSteps
<1> SUFFICES ASSUME NEW k \in DefKeys, NEW i \in 1 .. Len(job'), Replaces(i, k)'
             PROVE  /\ \A j \in 1 .. i - 1 : job'[j].op \in {"open", "dump"} => job'[j].at \in VersionFiles
                    /\ Defs!Readable(Defs!Active(k))' =>
                         \/ Kept(k, disk[Defs!Active(k)])'
                         \/ \E j \in 1 .. i - 1 : Saves(j, k, disk[Defs!Active(k)])'
  BY DEF RollbackInv
<1> DEFINE f == Defs!Active(k)
<1>2. Replaces(i + 1, k) /\ i + 1 \in 1 .. Len(job) /\ 1 \in 1 .. i
  BY <1>1 DEF Replaces
<1>3. \A j \in 1 .. i : job[j].op \in {"open", "dump"} => job[j].at \in VersionFiles
  BY <1>1, <1>2 DEF DefinitionsInv, RollbackInv
<1>4. Defs!Readable(f) => Kept(k, disk[f]) \/ \E j \in 1 .. i : Saves(j, k, disk[f])
  BY <1>1, <1>2 DEF DefinitionsInv, RollbackInv
<1>5. \A j \in 1 .. i - 1 : j + 1 \in 1 .. i /\ job'[j] = job[j + 1]
  BY <1>1
<1>6. \A j \in 1 .. i - 1 : job'[j].op \in {"open", "dump"} => job'[j].at \in VersionFiles
  BY <1>3, <1>5
<1>7. ASSUME Defs!Readable(f)'
      PROVE  Kept(k, disk[f])' \/ \E j \in 1 .. i - 1 : Saves(j, k, disk[f])'
  <2>1. ~ (job[1].op = "dump" /\ job[1].at = f)
    BY <1>2, <1>3, FileKinds, FilesApart
  <2>2. Defs!Readable(f) /\ disk'[f] = disk[f]
    BY <1>7, <2>1
  <2>3. PICK d : d = disk[f] /\ d = disk'[f] /\ d # Defs!Half
    BY <2>2 DEF Defs!Readable
  <2>4. CASE Kept(k, disk[f])
    BY <2>3, <2>4 DEF Kept
  <2>5. CASE \E j \in 1 .. i : Saves(j, k, disk[f])
    <3>1. PICK j \in 1 .. i : Saves(j, k, d)
      BY <2>3, <2>5
    <3>2. CASE j = 1
      BY <2>3, <3>1, <3>2 DEF Kept
    <3>3. CASE j # 1
      BY <1>1, <3>3, <1>5, <2>3, <3>1 DEF Saves
    <3> QED BY <3>2, <3>3
  <2> QED BY <1>4, <2>2, <2>4, <2>5
<1> QED BY <1>6, <1>7

\* Writing to a file that is no saved version, or filling it, loses no version.
LEMMA PutKept ==
  ASSUME NEW k \in DefKeys, NEW d, d # Defs!Half, NEW f, NEW doc, Kept(k, d),
         f \in VersionFiles => f \notin DOMAIN disk \/ disk[f] = Defs!Half,
         DOMAIN disk' = DOMAIN disk \cup {f},
         \A g \in DOMAIN disk : g # f => disk'[g] = disk[g], pruned' = pruned
  PROVE  Kept(k, d)'
<1>1. PICK n \in Nat : LET v == Defs!Version(k, n) IN
        v \in pruned \/ (v \in DOMAIN disk /\ disk[v] = d)
  BY DEF Kept
<1>2. Defs!Version(k, n) \in VersionFiles
  BY FileKinds
<1> QED BY <1>1, <1>2 DEF Kept

LEMMA ChangedKeeps ==
  ASSUME DefinitionsInv, NEW f \in AllFiles, Defs!Changed(f), clock' = clock
  PROVE  /\ since' \in [DefKeys -> 0 .. clock]
         /\ \A g \in DefinitionFiles : since'[g.key] = since[g.key] \/ since'[g.key] = clock
         /\ f \in DefinitionFiles => since'[f.key] = clock
<1>1. clock \in Nat /\ since \in [DefKeys -> 0 .. clock] /\ clock \in 0 .. clock
  BY DEF DefinitionsInv, ListingInv
<1>2. CASE f \in DefinitionFiles
  BY <1>2, FileKinds, <1>1 DEF Defs!Changed
<1>3. CASE f \notin DefinitionFiles
  BY <1>1, <1>3, FilesApart DEF Defs!Changed
<1> QED BY <1>2, <1>3

LEMMA OpenKeeps ==
  ASSUME DefinitionsInv, Defs!Work, Defs!OpenFile PROVE DefinitionsInv'
<1>1. /\ job # <<>> /\ job' = Tail(job)
      /\ UNCHANGED <<scan, shown, export, package, clock, listing, pruned, cut>>
  BY DEF Defs!Work, Defs!OpenFile
<1>2. /\ Len(job) \in Nat /\ 1 \in 1 .. Len(job) /\ Head(job) = job[1] /\ job[1] \in Steps
      /\ JobStep(1) /\ \A i \in 1 .. Len(job') : job'[i] = job[i + 1]
      /\ Len(job') = Len(job) - 1 /\ job' \in Seq(Steps)
  BY <1>1, WorkSteps
<1> DEFINE f == job[1].at
<1>3. /\ job[1].op = "open" /\ disk' = Defs!Put(f, Defs!Half) /\ Defs!Changed(f)
      /\ owed' = IF f.dir = "definitions" /\ Len(job) = 2 /\ Defs!Readable(f)
                 THEN owed \cup {[key |-> f.key, doc |-> disk[f]]} ELSE owed
  BY <1>2, Zenon DEF Defs!OpenFile
<1>4. /\ f \in AllFiles /\ (f \in VersionFiles => f \notin DOMAIN disk)
      /\ 1 < Len(job) /\ job[2].op = "dump" /\ job[2].at = f
  BY <1>2, <1>3 DEF JobStep
<1>5. /\ FilesType' /\ DOMAIN disk' = DOMAIN disk \cup {f} /\ disk'[f] = Defs!Half
      /\ \A g \in DOMAIN disk : g # f => disk'[g] = disk[g]
  BY <1>1, <1>3, <1>4, DocsAre, PutKeeps, Zenon DEF DefinitionsInv
<1>6. /\ since' \in [DefKeys -> 0 .. clock]
      /\ \A g \in DefinitionFiles : since'[g.key] = since[g.key] \/ since'[g.key] = clock
      /\ f \in DefinitionFiles => since'[f.key] = clock
  BY <1>1, <1>3, <1>4, ChangedKeeps
<1> HIDE DEF f
<1>7. JobInv'
  BY <1>1, <1>5, WorkJob DEF f
<1>8. HalfInv'
  <2>1. job' # <<>> /\ job'[1] = job[2]
    BY <1>2, <1>4
  <2>2. \A g \in DOMAIN disk : disk[g] = Defs!Half => g \in cut
    BY <1>3 DEF DefinitionsInv, HalfInv
  <2>3. ASSUME NEW g \in DOMAIN disk', disk'[g] = Defs!Half
        PROVE  g \in cut' \/ (job' # <<>> /\ job'[1].op = "dump" /\ job'[1].at = g)
    BY <1>1, <1>4, <1>5, <2>1, <2>2, <2>3
  <2> QED BY <2>3 DEF HalfInv
<1>9. ASSUME NEW k \in DefKeys, NEW d, d # Defs!Half, Kept(k, d) PROVE Kept(k, d)'
  BY <1>1, <1>4, <1>5, <1>9, PutKept
<1>10. OwedInv'
  <2>1. ASSUME NEW o \in owed PROVE o.key \in DefKeys /\ o.doc # Defs!Half /\ Kept(o.key, o.doc)'
    BY <1>9 DEF DefinitionsInv, OwedInv
  <2>2. ASSUME f.dir = "definitions", Len(job) = 2, Defs!Readable(f)
        PROVE  \E k \in DefKeys : \E d : /\ k = f.key /\ d = disk[f] /\ d # Defs!Half
                                         /\ Kept(k, d)'
    <3>1. f \in DefinitionFiles /\ f.key \in DefKeys /\ f = Defs!Active(f.key)
      BY <1>4, <2>2, FilesApart, FileKinds
    <3>2. Replaces(1, f.key)
      BY <1>3, <2>2, <3>1 DEF Replaces, f
    <3>3. Kept(f.key, disk[f]) \/ \E j \in 1 .. 0 : Saves(j, f.key, disk[f])
      BY <1>2, <2>2, <3>1, <3>2 DEF DefinitionsInv, RollbackInv
    <3>4. PICK d : d = disk[f] /\ d # Defs!Half
      BY <2>2 DEF Defs!Readable
    <3>5. PICK k \in DefKeys : k = f.key
      BY <3>1
    <3>6. Kept(k, d)
      BY <3>3, <3>4, <3>5
    <3> QED BY <1>9, <3>4, <3>5, <3>6
  <2>3. ASSUME NEW o \in owed'
        PROVE  o.key \in DefKeys /\ o.doc # Defs!Half /\ Kept(o.key, o.doc)'
    <3>1. CASE o \in owed
      BY <2>1, <3>1
    <3>2. CASE o \notin owed
      <4>1. /\ f.dir = "definitions" /\ Len(job) = 2 /\ Defs!Readable(f)
            /\ o = [key |-> f.key, doc |-> disk[f]]
        BY <1>3, <3>2
      <4>2. PICK k \in DefKeys : \E e : /\ k = f.key /\ e = disk[f] /\ e # Defs!Half
                                       /\ Kept(k, e)'
        BY <2>2, <4>1
      <4>4. PICK d : /\ k = f.key /\ d = disk[f] /\ d # Defs!Half
                     /\ Kept(k, d)'
        BY <4>2
      <4>3. o.key = k /\ o.doc = d
        BY <4>1, <4>4
      <4> QED BY <4>3, <4>4
    <3> QED BY <3>1, <3>2
  <2> QED BY <2>3 DEF OwedInv
<1>11. RollbackInv'
  <2>1. ASSUME NEW k \in DefKeys, NEW d PROVE ~Saves(1, k, d)
    BY <1>3 DEF Saves
  <2>2. ASSUME NEW k \in DefKeys, Defs!Readable(Defs!Active(k))'
        PROVE  /\ Defs!Readable(Defs!Active(k))
               /\ disk'[Defs!Active(k)] = disk[Defs!Active(k)]
    BY <1>5, <2>2 DEF Defs!Readable, Defs!Exists
  <2> QED BY <1>1, <1>9, <2>1, <2>2, WorkRollback
<1>12. ListingInv'
  BY <1>5, <1>6, <1>1, ListingAfter DEF DefinitionsInv
<1> QED BY <1>5, <1>7, <1>8, <1>10, <1>11, <1>12 DEF DefinitionsInv

LEMMA DumpKeeps ==
  ASSUME DefinitionsInv, Defs!Work, Defs!DumpFile PROVE DefinitionsInv'
<1>1. /\ job # <<>> /\ job' = Tail(job)
      /\ UNCHANGED <<scan, shown, export, package, clock, listing, owed, pruned>>
  BY DEF Defs!Work, Defs!DumpFile
<1>2. /\ Len(job) \in Nat /\ 1 \in 1 .. Len(job) /\ Head(job) = job[1] /\ job[1] \in Steps
      /\ JobStep(1)
  BY <1>1, WorkSteps
<1> DEFINE f == job[1].at
           doc == job[1].doc
<1>3. /\ job[1].op = "dump" /\ disk' = Defs!Put(f, doc) /\ Defs!Changed(f)
      /\ cut' = cut \ {f}
  BY <1>2 DEF Defs!DumpFile
<1>4. /\ f \in AllFiles /\ f \in DOMAIN disk /\ disk[f] = Defs!Half
      /\ doc # Defs!Half /\ doc \in Docs
  BY <1>2, <1>3, Zenon DEF JobStep, Steps
<1>5. /\ FilesType' /\ DOMAIN disk' = DOMAIN disk \cup {f} /\ disk'[f] = doc
      /\ \A g \in DOMAIN disk : g # f => disk'[g] = disk[g]
  BY <1>1, <1>3, <1>4, PutKeeps, Zenon DEF DefinitionsInv
<1>6. /\ since' \in [DefKeys -> 0 .. clock]
      /\ \A g \in DefinitionFiles : since'[g.key] = since[g.key] \/ since'[g.key] = clock
      /\ f \in DefinitionFiles => since'[f.key] = clock
  BY <1>1, <1>3, <1>4, ChangedKeeps
<1>7. JobInv'
  BY <1>1, <1>3, WorkJob
<1>8. HalfInv'
  <2>1. \A g \in DOMAIN disk : disk[g] = Defs!Half => g \in cut \/ g = f
    BY <1>3 DEF DefinitionsInv, HalfInv
  <2>2. ASSUME NEW g \in DOMAIN disk', disk'[g] = Defs!Half PROVE g \in cut'
    BY <1>4, <1>5, <2>2, <1>3, <2>1
  <2> QED BY <2>2 DEF HalfInv
<1>9. ASSUME NEW k \in DefKeys, NEW d, d # Defs!Half, Kept(k, d) PROVE Kept(k, d)'
  BY <1>1, <1>4, <1>5, <1>9, PutKept
<1>10. OwedInv'
  <2>1. ASSUME NEW o \in owed PROVE o.key \in DefKeys /\ o.doc # Defs!Half /\ Kept(o.key, o.doc)'
    BY <1>9 DEF DefinitionsInv, OwedInv
  <2> QED BY <1>1, <2>1 DEF OwedInv
<1>11. RollbackInv'
  <2>1. ASSUME NEW k \in DefKeys, NEW d, d # Defs!Half, Saves(1, k, d) PROVE Kept(k, d)'
    <3>1. PICK n \in Nat : f = Defs!Version(k, n) /\ doc = d
      BY <2>1 DEF Saves
    <3> QED BY <1>5, <3>1 DEF Kept
  <2>2. ASSUME NEW k \in DefKeys, Defs!Readable(Defs!Active(k))',
               ~ (job[1].op = "dump" /\ f = Defs!Active(k))
        PROVE  /\ Defs!Readable(Defs!Active(k))
               /\ disk'[Defs!Active(k)] = disk[Defs!Active(k)]
    BY <1>3, <1>5, <2>2 DEF Defs!Readable, Defs!Exists
  <2> QED BY <1>1, <1>9, <2>1, <2>2, WorkRollback
<1>12. ListingInv'
  BY <1>5, <1>6, <1>1, ListingAfter DEF DefinitionsInv
<1> QED BY <1>5, <1>7, <1>8, <1>10, <1>11, <1>12 DEF DefinitionsInv

LEMMA PruneKeeps ==
  ASSUME DefinitionsInv, Defs!Work, Defs!PruneFiles PROVE DefinitionsInv'
<1>1. /\ job # <<>> /\ job' = Tail(job)
      /\ UNCHANGED <<scan, shown, export, package, clock, listing, owed, since, cut>>
  BY DEF Defs!Work, Defs!PruneFiles
<1>2. /\ Len(job) \in Nat /\ 1 \in 1 .. Len(job) /\ Head(job) = job[1]
  BY <1>1, WorkSteps
<1> DEFINE k == job[1].at.key
           gone == {Defs!Version(k, n) : n \in Defs!PruneOldVersions(k)}
<1>3. /\ job[1].op = "prune" /\ disk' = Defs!Without(gone) /\ pruned' = pruned \cup gone
  BY <1>2, Zenon DEF Defs!PruneFiles
<1>4. \A g \in gone : g.dir = "versions"
  BY DEF Defs!Version
<1> HIDE DEF gone
<1>5. /\ FilesType' /\ DOMAIN disk' = DOMAIN disk \ gone
      /\ \A g \in DOMAIN disk' : disk'[g] = disk[g]
  BY <1>1, <1>3, DropKeeps, Zenon DEF DefinitionsInv
<1>6. JobInv'
  BY <1>1, <1>3, WorkJob
<1>7. HalfInv'
  BY <1>1, <1>3, <1>5 DEF DefinitionsInv, HalfInv
<1>8. ASSUME NEW l \in DefKeys, NEW d, Kept(l, d) PROVE Kept(l, d)'
  BY <1>3, <1>5, <1>8 DEF Kept
<1>9. OwedInv'
  <2>1. ASSUME NEW o \in owed PROVE o.key \in DefKeys /\ o.doc # Defs!Half /\ Kept(o.key, o.doc)'
    BY <1>8 DEF DefinitionsInv, OwedInv
  <2> QED BY <1>1, <2>1 DEF OwedInv
<1>10. RollbackInv'
  <2>1. ASSUME NEW l \in DefKeys, NEW d PROVE ~Saves(1, l, d)
    BY <1>3 DEF Saves
  <2>2. ASSUME NEW l \in DefKeys, Defs!Readable(Defs!Active(l))'
        PROVE  /\ Defs!Readable(Defs!Active(l))
               /\ disk'[Defs!Active(l)] = disk[Defs!Active(l)]
    BY <1>5, <2>2 DEF Defs!Readable, Defs!Exists
  <2> QED BY <1>1, <1>8, <2>1, <2>2, WorkRollback
<1>11. ListingInv'
  BY <1>1, <1>5, ListingAfter DEF DefinitionsInv, ListingInv
<1> QED BY <1>5, <1>6, <1>7, <1>9, <1>10, <1>11 DEF DefinitionsInv

LEMMA InvalidateKeeps ==
  ASSUME DefinitionsInv, Defs!Work, Defs!InvalidateCache PROVE DefinitionsInv'
<1>1. /\ job # <<>> /\ job' = Tail(job) /\ listing' = Defs!NoListing
      /\ UNCHANGED <<disk, scan, shown, export, package, clock, owed, since, pruned, cut>>
  BY DEF Defs!Work, Defs!InvalidateCache
<1>2. Head(job) = job[1]
  BY <1>1, WorkSteps
<1>3. job[1].op = "invalidate"
  BY <1>2 DEF Defs!InvalidateCache
<1>4. FilesType'
  BY <1>1, SameFiles DEF DefinitionsInv
<1>5. JobInv'
  BY <1>1, <1>3, WorkJob
<1>6. HalfInv'
  BY <1>1, <1>3 DEF DefinitionsInv, HalfInv
<1>7. \A k, d : Kept(k, d)' <=> Kept(k, d)
  BY <1>1 DEF Kept
<1>8. OwedInv'
  BY <1>1, <1>7 DEF DefinitionsInv, OwedInv
<1>9. RollbackInv'
  <2>1. ASSUME NEW k \in DefKeys, NEW d PROVE ~Saves(1, k, d)
    BY <1>3 DEF Saves
  <2>2. \A k : Defs!Readable(Defs!Active(k))' => Defs!Readable(Defs!Active(k))
    BY <1>1 DEF Defs!Readable, Defs!Exists
  <2> QED BY <1>1, <1>7, <2>1, <2>2, WorkRollback
<1>10. ListingInv'
  BY <1>1, ListingAfter DEF DefinitionsInv, ListingInv
<1> QED BY <1>4, <1>5, <1>6, <1>8, <1>9, <1>10 DEF DefinitionsInv

-----------------------------------------------------------------------------
\* The listing and the export read file after file.
LEMMA ReadOneIs ==
  ASSUME NEW s, NEW f, NEW left, NEW items, NEW t,
         s = [on |-> TRUE, at |-> t, left |-> left, items |-> items]
  PROVE  LET r == Defs!ReadOne(s, f) IN
         /\ r = [on |-> TRUE, at |-> t, left |-> left \ {f}, items |-> r.items]
         /\ r.left = left \ {f} /\ r.at = t
         /\ f \notin DOMAIN disk => r.items = items
         /\ f \in DOMAIN disk => /\ DOMAIN r.items = DOMAIN items \cup {f}
                                 /\ r.items = [g \in DOMAIN items \cup {f} |->
                                                 IF g = f THEN disk[f] ELSE items[g]]
<1> DEFINE r == Defs!ReadOne(s, f)
           new == IF f \in DOMAIN disk THEN [g \in DOMAIN items \cup {f} |->
                                               IF g = f THEN disk[f] ELSE items[g]] ELSE items
<1>1. s.on = TRUE /\ s.at = t /\ s.left = left /\ s.items = items
  OBVIOUS
<1>2. r = [[s EXCEPT !.left = left \ {f}] EXCEPT !.items = new]
  BY <1>1 DEF Defs!ReadOne, Defs!Exists
<1> HIDE DEF new, r
<1>3. r = [on |-> TRUE, at |-> t, left |-> left \ {f}, items |-> new]
  BY <1>2, Zenon
<1>4. r.items = new /\ r.left = left \ {f} /\ r.at = t
  BY <1>3
<1>5. r = [on |-> TRUE, at |-> t, left |-> left \ {f}, items |-> r.items]
  BY <1>3, <1>4
<1> QED BY <1>4, <1>5, Zenon DEF new, r

LEMMA ListCachedKeeps ==
  ASSUME DefinitionsInv, Defs!ListCached PROVE DefinitionsInv'
<1>1. /\ Defs!Fresh /\ shown' = [items |-> listing.items, at |-> clock]
      /\ UNCHANGED <<disk, job, listing, scan, export, package, clock, since, owed, pruned, cut>>
  BY DEF Defs!ListCached, Defs!defHistory
<1>2. FilesType'
  BY <1>1, SameFiles DEF DefinitionsInv
<1>3. clock \in Nat /\ CacheTTL \in Nat \ {0} /\ since \in [DefKeys -> 0 .. clock] /\ listing.at \in Int
  BY SiteDefinitions DEF DefinitionsInv, ListingInv
<1>4. AsReadOn(listing.items, listing.at, disk, since)
  BY DEF DefinitionsInv, ListingInv, AsRead
<1>5. shown'.items = listing.items /\ shown'.at = clock
  BY <1>1
<1>6. AsReadOn(listing.items, clock - CacheTTL + 1, disk, since)
  <2>1. clock - CacheTTL + 1 \in Int /\ clock - CacheTTL + 1 <= listing.at
    BY <1>1, <1>3 DEF Defs!Fresh
  <2> SUFFICES ASSUME NEW f \in DOMAIN listing.items, f \in DOMAIN disk, listing.items[f] # disk[f]
               PROVE  since[f.key] >= clock - CacheTTL + 1
    BY <1>4 DEF AsReadOn
  <2>2. since[f.key] >= listing.at /\ f.key \in DefKeys
    BY <1>4, FileKinds DEF AsReadOn
  <2>3. since[f.key] \in Nat
    BY <1>3, <2>2
  <2> QED BY <1>3, <2>1, <2>2, <2>3
<1>7. ListingInv'
  BY <1>1, <1>3, <1>5, <1>6 DEF DefinitionsInv, ListingInv, AsRead
<1> QED BY <1>1, <1>2, <1>7, NothingWritten

LEMMA ListBeginKeeps ==
  ASSUME DefinitionsInv, Defs!ListBegin PROVE DefinitionsInv'
<1>1. /\ scan' = [on |-> TRUE, at |-> clock, left |-> Defs!Files("definitions"), items |-> <<>>]
      /\ UNCHANGED <<disk, job, listing, shown, export, package, clock, since, owed, pruned, cut>>
  BY DEF Defs!ListBegin, Defs!defHistory
<1>2. FilesType'
  BY <1>1, SameFiles DEF DefinitionsInv
<1>3. scan'.at = clock /\ scan'.left \subseteq DefinitionFiles /\ DOMAIN scan'.items = {}
  BY <1>1, FilesApart DEF DefinitionsInv, FilesType, Defs!Files
<1>4. ListingInv'
  BY <1>1, <1>3 DEF DefinitionsInv, ListingInv, AsRead, AsReadOn
<1> QED BY <1>1, <1>2, <1>4, NothingWritten

LEMMA DefinitionsScanKeeps ==
  ASSUME DefinitionsInv, NEW f \in scan.left, Defs!ScanOne(f) PROVE DefinitionsInv'
<1>1. /\ scan.on /\ scan' = Defs!ReadOne(scan, f)
      /\ UNCHANGED <<disk, job, listing, shown, export, package, clock, since, owed, pruned, cut>>
  BY DEF Defs!ScanOne, Defs!defHistory
<1>2. FilesType'
  BY <1>1, SameFiles DEF DefinitionsInv
<1>3. /\ scan = [on |-> TRUE, at |-> scan.at, left |-> scan.left, items |-> scan.items]
      /\ scan.at \in 0 .. clock /\ scan.left \subseteq DefinitionFiles
      /\ AsReadOn(scan.items, scan.at, disk, since) /\ f \in DefinitionFiles
  BY <1>1 DEF DefinitionsInv, ListingInv, AsRead
<1>4. /\ scan' = [on |-> TRUE, at |-> scan.at, left |-> scan.left \ {f}, items |-> scan'.items]
      /\ scan'.left = scan.left \ {f} /\ scan'.at = scan.at
      /\ f \notin DOMAIN disk => scan'.items = scan.items
      /\ f \in DOMAIN disk => scan'.items = [g \in DOMAIN scan.items \cup {f} |->
                                                 IF g = f THEN disk[f] ELSE scan.items[g]]
  BY <1>1, <1>3, ReadOneIs
<1>5. AsReadOn(scan'.items, scan.at, disk, since)
  <2>1. CASE f \notin DOMAIN disk
    BY <1>3, <1>4, <2>1
  <2>2. CASE f \in DOMAIN disk
    BY <1>3, <1>4, <2>2 DEF AsReadOn
  <2> QED BY <2>1, <2>2
<1>6. scan' = [on |-> TRUE, at |-> scan'.at, left |-> scan'.left, items |-> scan'.items]
  BY <1>4
<1>7. ListingInv'
  BY <1>1, <1>3, <1>4, <1>5, <1>6 DEF DefinitionsInv, ListingInv, AsRead
<1> QED BY <1>1, <1>2, <1>7, NothingWritten

LEMMA ListEndKeeps ==
  ASSUME DefinitionsInv, Defs!ListEnd PROVE DefinitionsInv'
<1>1. /\ scan.on /\ listing' = [at |-> scan.at, items |-> Defs!Decoded(scan.items)]
      /\ scan' = Defs!NoScan
      /\ UNCHANGED <<disk, job, shown, export, package, clock, since, owed, pruned, cut>>
  BY DEF Defs!ListEnd, Defs!defHistory
<1>2. FilesType'
  BY <1>1, SameFiles DEF DefinitionsInv
<1>3. scan.at \in 0 .. clock /\ AsReadOn(scan.items, scan.at, disk, since) /\ clock \in Nat
  BY <1>1 DEF DefinitionsInv, ListingInv, AsRead
<1>4. listing'.at = scan.at /\ listing'.items = Defs!Decoded(scan.items) /\ scan'.on = FALSE
  BY <1>1 DEF Defs!NoScan
<1>5. AsReadOn(listing'.items, scan.at, disk, since)
  BY <1>3, <1>4 DEF AsReadOn, Defs!Decoded
<1>6. listing'.at \in Int /\ listing'.at <= clock
  BY <1>3, <1>4
<1>7. ListingInv'
  BY <1>1, <1>4, <1>5, <1>6 DEF DefinitionsInv, ListingInv, AsRead
<1> QED BY <1>1, <1>2, <1>7, NothingWritten

LEMMA ExportKeeps ==
  ASSUME DefinitionsInv, Defs!Export PROVE DefinitionsInv'
<1>1. /\ export' = [on |-> TRUE, at |-> clock, left |-> Defs!Files("definitions")
                      \cup Defs!Files("presets"), items |-> <<>>]
      /\ UNCHANGED <<disk, job, listing, scan, shown, package, clock, since, owed, pruned, cut>>
  BY DEF Defs!Export, Defs!defHistory
<1>2. Defs!Files("definitions") \cup Defs!Files("presets") \subseteq Packed
  <2>1. ASSUME NEW f \in Defs!Files("definitions") \cup Defs!Files("presets")
        PROVE  f \in Packed
    BY FilesApart DEF DefinitionsInv, FilesType, Defs!Files, AllFiles
  <2> QED BY <2>1
<1>3. DOMAIN export'.items = {} /\ export'.left \subseteq Packed
  BY <1>1, <1>2
<1>4. export'.items \in [DOMAIN export'.items -> Docs]
  BY <1>1, <1>3
<1>5. export' = [on |-> TRUE, at |-> export'.at, left |-> export'.left, items |-> export'.items]
  BY <1>1
<1>6. FilesType'
  BY <1>1, <1>3, <1>4, <1>5 DEF DefinitionsInv, FilesType
<1>7. ListingInv'
  BY <1>1, ListingKept DEF DefinitionsInv
<1> QED BY <1>1, <1>6, <1>7, NothingWritten

LEMMA ExportOneKeeps ==
  ASSUME DefinitionsInv, NEW f \in export.left, Defs!ExportOne(f) PROVE DefinitionsInv'
<1> DEFINE e == Defs!ReadOne(export, f)
<1>1. /\ export.on /\ IF e.left = {} THEN export' = Defs!NoScan /\ package' = e.items
                      ELSE export' = e /\ package' = package
      /\ UNCHANGED <<disk, job, listing, scan, shown, clock, since, owed, pruned, cut>>
  BY DEF Defs!ExportOne, Defs!defHistory
<1>2. /\ export = [on |-> TRUE, at |-> export.at, left |-> export.left, items |-> export.items]
      /\ export.left \subseteq Packed /\ DOMAIN export.items \subseteq Packed
      /\ export.items \in [DOMAIN export.items -> Docs] /\ f \in Packed
  BY <1>1 DEF DefinitionsInv, FilesType
<1>3. /\ e = [on |-> TRUE, at |-> export.at, left |-> export.left \ {f}, items |-> e.items]
      /\ e.left = export.left \ {f} /\ e.at = export.at
      /\ f \notin DOMAIN disk => e.items = export.items
      /\ f \in DOMAIN disk => e.items = [g \in DOMAIN export.items \cup {f} |->
                                                 IF g = f THEN disk[f] ELSE export.items[g]]
  <2>1. export = [on |-> TRUE, at |-> export.at, left |-> export.left, items |-> export.items]
    BY <1>2
  <2>2. PICK x : x = e /\ x = Defs!ReadOne(export, f)
    OBVIOUS
  <2> HIDE DEF e
  <2> QED BY <2>1, <2>2, ReadOneIs
<1> HIDE DEF e
<1>4. DOMAIN e.items \subseteq Packed /\ e.items \in [DOMAIN e.items -> Docs]
  <2>1. CASE f \notin DOMAIN disk
    BY <1>2, <1>3, <2>1
  <2>2. CASE f \in DOMAIN disk
    <3>1. disk[f] \in Docs
      BY <2>2 DEF DefinitionsInv, FilesType
    <3>2. PICK x \in Docs : x = disk[f]
      BY <3>1
    <3>3. e.items = [g \in DOMAIN export.items \cup {f} |-> IF g = f THEN x ELSE export.items[g]]
      BY <1>3, <2>2, <3>2
    <3> QED BY <1>2, <3>3
  <2> QED BY <2>1, <2>2
<1>5. FilesType'
  <2>1. CASE e.left = {}
    BY <1>1, <2>1, <1>4 DEF Defs!NoScan, DefinitionsInv, FilesType
  <2>2. CASE e.left # {}
    <3>1. export' = e /\ package' = package
      BY <1>1, <2>2
    <3>2. e = [on |-> TRUE, at |-> e.at, left |-> e.left, items |-> e.items] /\ e.left \subseteq Packed
      BY <1>2, <1>3
    <3> QED BY <1>1, <1>4, <3>1, <3>2 DEF DefinitionsInv, FilesType
  <2> QED BY <2>1, <2>2
<1>6. ListingInv'
  BY <1>1, ListingKept DEF DefinitionsInv
<1> QED BY <1>1, <1>5, <1>6, NothingWritten

LEMMA BuildKeeps ==
  ASSUME DefinitionsInv, NEW k, Defs!FromFile(k) PROVE DefinitionsInv'
<1>1. UNCHANGED <<disk, job, listing, scan, shown, export, package, clock, since, owed, pruned, cut>>
  BY DEF Defs!FromFile, Defs!defHistory
<1> QED BY <1>1, SameFiles, ListingKept, NothingWritten DEF DefinitionsInv

LEMMA DefinitionsTickKeeps ==
  ASSUME DefinitionsInv, Defs!Tick PROVE DefinitionsInv'
<1>1. /\ clock' = clock + 1
      /\ UNCHANGED <<disk, job, listing, scan, shown, export, package, since, owed, pruned, cut>>
  BY DEF Defs!Tick, Defs!readers, Defs!defHistory
<1>2. clock \in Nat
  BY DEF DefinitionsInv, ListingInv
<1>3. 0 .. clock \subseteq 0 .. clock + 1 /\ clock + 1 \in Nat
  BY <1>2
<1>4. ListingInv'
  BY <1>1, <1>3, <1>2 DEF DefinitionsInv, ListingInv, AsRead
<1> QED BY <1>1, <1>4, SameFiles, NothingWritten DEF DefinitionsInv

\* The process stops: the file that was being written is half of one.
LEMMA DefinitionsRestartKeeps ==
  ASSUME DefinitionsInv, Defs!Restart PROVE DefinitionsInv'
<1>1. /\ job' = <<>> /\ listing' = Defs!NoListing /\ scan' = Defs!NoScan /\ shown' = <<>>
      /\ export' = Defs!NoScan
      /\ cut' = IF job # <<>> /\ Head(job).op = "dump" THEN cut \cup {Head(job).at} ELSE cut
      /\ UNCHANGED <<disk, package, clock, since, owed, pruned>>
  BY DEF Defs!Restart
<1>2. /\ export'.on = FALSE /\ scan'.on = FALSE /\ listing'.at = -CacheTTL - 1
      /\ DOMAIN listing'.items = {}
  BY <1>1 DEF Defs!NoScan, Defs!NoListing
<1>3. FilesType'
  BY <1>1, <1>2 DEF DefinitionsInv, FilesType
<1>4. JobInv' /\ RollbackInv'
  BY <1>1 DEF JobInv, RollbackInv
<1>5. HalfInv'
  BY <1>1 DEF DefinitionsInv, HalfInv
<1>6. OwedInv'
  BY <1>1 DEF DefinitionsInv, OwedInv, Kept
<1>7. ListingInv'
  <2>1. clock \in Nat /\ CacheTTL \in Nat \ {0}
    BY SiteDefinitions DEF DefinitionsInv, ListingInv
  <2>2. listing'.at \in Int /\ listing'.at <= clock
    BY <1>2, <2>1
  <2> QED BY <1>1, <1>2, <2>2 DEF DefinitionsInv, ListingInv, AsRead, AsReadOn
<1> QED BY <1>3, <1>4, <1>5, <1>6, <1>7 DEF DefinitionsInv

LEMMA WorkKeeps == ASSUME DefinitionsInv, Defs!Work PROVE DefinitionsInv'
<1>1. Defs!OpenFile \/ Defs!DumpFile \/ Defs!PruneFiles
        \/ Defs!InvalidateCache
  BY DEF Defs!Work
<1> QED BY <1>1, OpenKeeps, DumpKeeps, PruneKeeps, InvalidateKeeps

LEMMA DefinitionsNext == ASSUME DefinitionsInv, Defs!Next PROVE DefinitionsInv'
<1>1. CASE \E k \in DefKeys, doc \in Contents : Defs!Create(k, doc) \/ Defs!Update(k, doc)
  BY <1>1, CreateOrUpdateKeeps DEF Defs!Create, Defs!Update
<1>2. CASE \E p \in PresetKeys, doc \in Contents : Defs!CreatePreset(p, doc)
  BY <1>2, CreatePresetKeeps
<1>3. CASE \E k \in DefKeys : Defs!Save(k) \/ Defs!FromFile(k)
             \/ \E n \in Defs!Numbers(k) :
                  Defs!Exists(Defs!Active(k)) /\ Defs!Rollback(k, n)
  BY <1>3, SaveKeeps, BuildKeeps, RollbackKeeps
<1>4. CASE \E overwrite \in BOOLEAN : Defs!Import(overwrite)
  BY <1>4, ImportKeeps
<1>5. CASE \E f \in Defs!Files("definitions") \cup Defs!Files("presets") :
             Defs!Delete(f)
  BY <1>5, DeleteKeeps
<1>6. CASE Defs!Work
  BY <1>6, WorkKeeps
<1>7. CASE Defs!ListCached \/ Defs!ListBegin \/ Defs!ListEnd
  BY <1>7, ListCachedKeeps, ListBeginKeeps, ListEndKeeps
<1>8. CASE Defs!Export
  BY <1>8, ExportKeeps
<1>9. CASE Defs!Restart \/ Defs!Tick
  BY <1>9, DefinitionsRestartKeeps, DefinitionsTickKeeps
<1>10. CASE \E f \in scan.left : Defs!ScanOne(f)
  BY <1>10, DefinitionsScanKeeps
<1>11. CASE \E f \in export.left : Defs!ExportOne(f)
  BY <1>11, ExportOneKeeps
<1> QED BY <1>1, <1>2, <1>3, <1>4, <1>5, <1>6, <1>7, <1>8, <1>9, <1>10, <1>11 DEF Defs!Next

LEMMA DefinitionsStep ==
  ASSUME DefinitionsInv, [Defs!Next]_definitionsVars PROVE DefinitionsInv'
<1>1. CASE Defs!Next
  BY <1>1, DefinitionsNext
<1>2. CASE UNCHANGED definitionsVars
  BY <1>2, SameFiles, ListingKept, NothingWritten DEF DefinitionsInv, definitionsVars
<1> QED BY <1>1, <1>2

LEMMA DefinitionsHave ==
  ASSUME DefinitionsInv
  PROVE  Defs!ListingFresh /\ Defs!ReplacedKept /\ Defs!HalfOnlyByStop
<1>1. Defs!ListingFresh
  <2> SUFFICES ASSUME shown # <<>>, NEW f \in DOMAIN shown.items, Defs!Exists(f),
                      shown.items[f] # disk[f], shown.at >= since[f.key]
               PROVE  shown.at - since[f.key] < CacheTTL
    BY DEF Defs!ListingFresh
  <2>1. shown.at \in 0 .. clock /\ AsReadOn(shown.items, shown.at - CacheTTL + 1, disk, since)
        /\ since \in [DefKeys -> 0 .. clock] /\ clock \in Nat /\ CacheTTL \in Nat
    BY SiteDefinitions DEF DefinitionsInv, ListingInv, AsRead
  <2>2. since[f.key] >= shown.at - CacheTTL + 1 /\ f.key \in DefKeys
    BY <2>1, FileKinds DEF AsReadOn, Defs!Exists
  <2>3. since[f.key] \in Nat
    BY <2>1, <2>2
  <2> QED BY <2>1, <2>2, <2>3
<1>2. Defs!ReplacedKept
  <2> SUFFICES ASSUME NEW o \in owed
               PROVE  \E n \in Defs!Numbers(o.key) \cup {f.n : f \in pruned} :
                        LET v == Defs!Version(o.key, n) IN
                        v \in pruned \/ (Defs!Exists(v) /\ disk[v] = o.doc)
    BY DEF Defs!ReplacedKept
  <2>1. PICK n \in Nat : LET v == Defs!Version(o.key, n) IN
          v \in pruned \/ (v \in DOMAIN disk /\ disk[v] = o.doc)
    BY DEF DefinitionsInv, OwedInv, Kept
  <2> DEFINE v == Defs!Version(o.key, n)
  <2>2. v.n = n /\ v.dir = "versions" /\ v.key = o.key
    BY DEF Defs!Version
  <2>3. v \in pruned => n \in {f.n : f \in pruned}
    BY <2>2
  <2>4. v \in DOMAIN disk => n \in Defs!Numbers(o.key)
    BY <2>2 DEF Defs!Numbers
  <2> QED BY <2>1, <2>3, <2>4 DEF Defs!Exists
<1>3. Defs!HalfOnlyByStop
  <2> SUFFICES ASSUME NEW f \in DOMAIN disk, disk[f] = Defs!Half, f \notin cut
               PROVE  job # <<>> /\ Head(job) = Defs!Dump(f, Head(job).doc)
    BY DEF Defs!HalfOnlyByStop
  <2>1. job # <<>> /\ job[1].op = "dump" /\ job[1].at = f /\ job \in Seq(Steps)
    BY DEF DefinitionsInv, HalfInv, JobInv
  <2>2. job[1] \in Steps /\ Head(job) = job[1]
    BY <2>1
  <2>3. job[1] = [op |-> "dump", at |-> f, doc |-> job[1].doc]
    BY <2>1, <2>2, Zenon DEF Steps
  <2> QED BY <2>1, <2>2, <2>3 DEF Defs!Dump
<1> QED BY <1>1, <1>2, <1>3

\* A listing from the cache shows no definition that was replaced the cache's time ago,
\* what a rollback replaced stays among the versions until it is pruned, and a file that
\* does not decode was being written when the process stopped, however handlers, scans,
\* exports and stops fall (webgui/routes/definitions.py, agents/versioning.py).
THEOREM DefinitionsHold == Spec => []DefinitionsKept
<1>1. Init => DefinitionsInv
  BY DefinitionsInit DEF Init
<1>2. DefinitionsInv /\ [Next]_vars => DefinitionsInv'
  BY DefinitionsStep, PartsApart
<1>3. DefinitionsInv => DefinitionsKept
  BY DefinitionsHave DEF DefinitionsKept, In
<1> QED BY <1>1, <1>2, <1>3, PTL DEF Spec

----------------------------------------------------------------------------
(* Sums over lists, and what a list keeps *)

\* From a first value and a step, there are the values after as many steps as one likes.
Taken(N, S, base, step, f) ==
  /\ f \in [0 .. N -> S] /\ f[0] = base
  /\ \A k \in 1 .. N : f[k] = step[<<f[k - 1], k>>]

LEMMA StepsTaken ==
  ASSUME NEW N \in Nat, NEW S, NEW base \in S, NEW step \in [S \X (1 .. N) -> S]
  PROVE  \E f : Taken(N, S, base, step, f)
<1> DEFINE T == {k \in 0 .. N : \E f : Taken(k, S, base, step, f)}
<1>1. 0 \in T
  <2>1. Taken(0, S, base, step, [k \in 0 .. 0 |-> base])
    BY DEF Taken
  <2> QED BY <2>1
<1>2. ASSUME NEW k \in 1 .. N, k - 1 \in T PROVE k \in T
  <2>1. PICK f : Taken(k - 1, S, base, step, f)
    BY <1>2
  <2>2. f \in [0 .. k - 1 -> S] /\ f[0] = base /\ \A i \in 1 .. k - 1 : f[i] = step[<<f[i - 1], i>>]
    BY <2>1 DEF Taken
  <2> DEFINE g == [i \in 0 .. k |-> IF i = k THEN step[<<f[k - 1], k>>] ELSE f[i]]
  <2>3. step[<<f[k - 1], k>>] \in S
    BY <2>2
  <2>4. g \in [0 .. k -> S] /\ g[0] = base
    BY <2>2, <2>3
  <2>5. ASSUME NEW i \in 1 .. k PROVE g[i] = step[<<g[i - 1], i>>]
    <3>1. g[i - 1] = f[i - 1] /\ i \in 0 .. k
      OBVIOUS
    <3>2. CASE i = k
      BY <3>1, <3>2
    <3>3. CASE i # k
      BY <3>1, <3>3, <2>2
    <3> QED BY <3>2, <3>3
  <2>6. Taken(k, S, base, step, g)
    BY <2>4, <2>5 DEF Taken
  <2> HIDE DEF g
  <2>7. k \in 0 .. N /\ \E h : Taken(k, S, base, step, h)
    BY <2>6
  <2> QED BY <2>7, Zenon
<1>3. N \in T
  <2> HIDE DEF T
  <2>1. \A k \in 0 .. N : k \in T
    BY <1>1, <1>2, CountedUp
  <2> QED BY <2>1
<1> QED BY <1>3

\* The sum of the first N of some numbers.
TotalTo(m, N) ==
  LET sum[n \in 0 .. N] == IF n = 0 THEN 0 ELSE sum[n - 1] + m[n] IN sum[N]

LEMMA SumsThere ==
  ASSUME NEW N \in Nat, NEW m, \A n \in 1 .. N : m[n] \in Int
  PROVE  \E g : /\ g \in [0 .. N -> Int] /\ g[0] = 0 /\ \A n \in 1 .. N : g[n] = g[n - 1] + m[n]
                /\ TotalTo(m, N) = g[N]
<1> DEFINE step == [x \in Int \X (1 .. N) |-> x[1] + m[x[2]]]
<1>1. step \in [Int \X (1 .. N) -> Int] /\ \A i \in Int, n \in 1 .. N : step[<<i, n>>] = i + m[n]
  OBVIOUS
<1> HIDE DEF step
<1>2. PICK f : Taken(N, Int, 0, step, f)
  <2>1. PICK z, I : z = 0 /\ I = Int
    OBVIOUS
  <2>2. z \in I /\ step \in [I \X (1 .. N) -> I]
    BY <1>1, <2>1
  <2>3. \E f : Taken(N, I, z, step, f)
    BY <2>2, StepsTaken
  <2> QED BY <2>1, <2>3, Zenon
<1>3. f \in [0 .. N -> Int] /\ f[0] = 0 /\ \A n \in 1 .. N : f[n] = f[n - 1] + m[n]
  <2>1. f \in [0 .. N -> Int] /\ f[0] = 0 /\ \A n \in 1 .. N : f[n] = step[<<f[n - 1], n>>]
    BY <1>2 DEF Taken
  <2>2. \A n \in 1 .. N : f[n - 1] \in Int
    BY <2>1
  <2> QED BY <1>1, <2>1, <2>2
<1> DEFINE Goes(g) == g = [n \in 0 .. N |-> IF n = 0 THEN 0 ELSE g[n - 1] + m[n]]
           sum == CHOOSE g : Goes(g)
<1>4. Goes(f)
  BY <1>3
<1>5. Goes(sum)
  <2> HIDE DEF Goes
  <2> QED BY <1>4, Zenon
<1>6. TotalTo(m, N) = sum[N]
  BY Zenon DEF TotalTo
<1> HIDE DEF sum
<1>7. PICK g : g = sum /\ Goes(g)
  BY <1>5, Zenon
<1>8. \A n \in 0 .. N : g[n] = IF n = 0 THEN 0 ELSE g[n - 1] + m[n]
  BY <1>7, Zenon
<1>9. g[0] = 0 /\ \A n \in 1 .. N : g[n] = g[n - 1] + m[n]
  BY <1>8
<1> DEFINE T == {n \in 0 .. N : g[n] = f[n]}
<1>10. 0 \in T /\ \A n \in 1 .. N : n - 1 \in T => n \in T
  BY <1>3, <1>9
<1>11. \A n \in 0 .. N : g[n] = f[n]
  <2>1. \A n \in 0 .. N : n \in T
    <3> HIDE DEF T
    <3> QED BY <1>10, CountedUp
  <2> QED BY <2>1
<1> QED BY <1>3, <1>6, <1>7, <1>11

\* Two sums, the numbers of which are the same but for one.
LEMMA TotalStep ==
  ASSUME NEW N \in Nat, NEW m, \A n \in 1 .. N : m[n] \in Int
  PROVE  /\ TotalTo(m, N) \in Int
         /\ N = 0 => TotalTo(m, N) = 0
         /\ N > 0 => TotalTo(m, N) = TotalTo(m, N - 1) + m[N]
<1>1. PICK g : /\ g \in [0 .. N -> Int] /\ g[0] = 0 /\ \A n \in 1 .. N : g[n] = g[n - 1] + m[n]
               /\ TotalTo(m, N) = g[N]
  BY SumsThere
<1>2. ASSUME N > 0 PROVE TotalTo(m, N) = TotalTo(m, N - 1) + m[N]
  <2>1. N - 1 \in Nat /\ \A n \in 1 .. N - 1 : m[n] \in Int
    BY <1>2
  <2>2. PICK h : /\ h \in [0 .. N - 1 -> Int] /\ h[0] = 0
                 /\ \A n \in 1 .. N - 1 : h[n] = h[n - 1] + m[n]
                 /\ TotalTo(m, N - 1) = h[N - 1]
    BY <2>1, SumsThere, Zenon
  <2> DEFINE T == {n \in 0 .. N - 1 : g[n] = h[n]}
  <2>3. 0 \in T /\ \A n \in 1 .. N - 1 : n - 1 \in T => n \in T
    BY <1>1, <1>2, <2>2
  <2>4. N - 1 \in T
    <3> HIDE DEF T
    <3>1. \A n \in 0 .. N - 1 : n \in T
      BY <2>1, <2>3, CountedUp
    <3> QED BY <2>1, <3>1
  <2> QED BY <1>1, <1>2, <2>2, <2>4
<1> QED BY <1>1, <1>2

LEMMA TotalCompared ==
  ASSUME NEW N \in Nat, NEW m, NEW l, \A n \in 1 .. N : m[n] \in Int /\ l[n] \in Int /\ m[n] <= l[n]
  PROVE  TotalTo(m, N) <= TotalTo(l, N)
<1> DEFINE T == {k \in 0 .. N : TotalTo(m, k) <= TotalTo(l, k)}
<1>1. ASSUME NEW k \in 0 .. N
      PROVE  /\ TotalTo(m, k) \in Int /\ TotalTo(l, k) \in Int
             /\ k = 0 => TotalTo(m, k) = 0 /\ TotalTo(l, k) = 0
             /\ k > 0 => /\ TotalTo(m, k) = TotalTo(m, k - 1) + m[k]
                         /\ TotalTo(l, k) = TotalTo(l, k - 1) + l[k]
  BY TotalStep
<1>2. 0 \in T
  BY <1>1
<1>3. ASSUME NEW k \in 1 .. N, k - 1 \in T PROVE k \in T
  BY <1>1, <1>3
<1>4. N \in T
  <2> HIDE DEF T
  <2>1. \A k \in 0 .. N : k \in T
    BY <1>2, <1>3, CountedUp
  <2> QED BY <2>1
<1> QED BY <1>4

LEMMA TotalSame ==
  ASSUME NEW N \in Nat, NEW m, NEW l, \A n \in 1 .. N : m[n] \in Int /\ l[n] = m[n]
  PROVE  TotalTo(l, N) = TotalTo(m, N)
<1>1. TotalTo(m, N) <= TotalTo(l, N) /\ TotalTo(l, N) <= TotalTo(m, N)
  BY TotalCompared
<1>2. TotalTo(m, N) \in Int /\ TotalTo(l, N) \in Int
  BY TotalStep
<1> QED BY <1>1, <1>2

LEMMA TotalMore ==
  ASSUME NEW N \in Nat, NEW m, NEW l, NEW i \in 1 .. N,
         \A n \in 1 .. N : m[n] \in Int /\ l[n] \in Int /\ (n # i => l[n] = m[n])
  PROVE  TotalTo(l, N) = TotalTo(m, N) + (l[i] - m[i])
<1> DEFINE T == {k \in 0 .. N : TotalTo(l, k) = TotalTo(m, k) + IF k < i THEN 0 ELSE l[i] - m[i]}
<1>1. ASSUME NEW k \in 0 .. N
      PROVE  /\ TotalTo(m, k) \in Int /\ TotalTo(l, k) \in Int
             /\ k = 0 => TotalTo(m, k) = 0 /\ TotalTo(l, k) = 0
             /\ k > 0 => /\ TotalTo(m, k) = TotalTo(m, k - 1) + m[k]
                         /\ TotalTo(l, k) = TotalTo(l, k - 1) + l[k]
  BY TotalStep
<1>2. 0 \in T
  BY <1>1
<1>3. ASSUME NEW k \in 1 .. N, k - 1 \in T PROVE k \in T
  BY <1>3, <1>1
<1>4. N \in T
  <2> HIDE DEF T
  <2>1. \A k \in 0 .. N : k \in T
    BY <1>2, <1>3, CountedUp
  <2> QED BY <2>1
<1> QED BY <1>4

----------------------------------------------------------------------------
(* Test rounds *)

IsList(s) == \E S : s \in Seq(S)

LEMMA ListIs ==
  ASSUME NEW s, IsList(s)
  PROVE  Len(s) \in Nat /\ DOMAIN s = 1 .. Len(s) /\ s = [i \in 1 .. Len(s) |-> s[i]]
<1>1. PICK S : s \in Seq(S)
  BY DEF IsList
<1> QED BY <1>1

LEMMA ListAppended ==
  ASSUME NEW s, IsList(s), NEW e
  PROVE  LET t == Append(s, e) IN
         IsList(t) /\ Len(t) = Len(s) + 1 /\ t[Len(s) + 1] = e /\ \A i \in 1 .. Len(s) : t[i] = s[i]
<1>1. PICK S : s \in Seq(S)
  BY DEF IsList
<1> DEFINE T == S \cup {e}
<1>2. s \in Seq(T) /\ e \in T
  BY <1>1, SeqMonotonic
<1> HIDE DEF T
<1>3. PICK t : t = Append(s, e)
  OBVIOUS
<1>4. t \in Seq(T) /\ Len(t) = Len(s) + 1 /\ t[Len(s) + 1] = e /\ \A i \in 1 .. Len(s) : t[i] = s[i]
  BY <1>2, <1>3
<1> QED BY <1>3, <1>4 DEF IsList

LEMMA ListTail ==
  ASSUME NEW s, IsList(s), s # <<>>
  PROVE  IsList(Tail(s)) /\ Len(Tail(s)) = Len(s) - 1
<1>1. PICK S : s \in Seq(S)
  BY DEF IsList
<1>2. Tail(s) \in Seq(S) /\ Len(Tail(s)) = Len(s) - 1
  BY <1>1, HeadTailProperties
<1> QED BY <1>2, Zenon DEF IsList

LEMMA ListJoined ==
  ASSUME NEW s, NEW t, IsList(s), IsList(t)
  PROVE  /\ IsList(s \o t) /\ Len(s \o t) = Len(s) + Len(t)
         /\ \A i \in 1 .. Len(s) : (s \o t)[i] = s[i]
         /\ \A i \in 1 .. Len(t) : (s \o t)[Len(s) + i] = t[i]
<1>1. PICK S, T : s \in Seq(S) /\ t \in Seq(T)
  BY DEF IsList
<1> DEFINE U == S \cup T
<1>2. s \in Seq(U) /\ t \in Seq(U)
  BY <1>1, SeqMonotonic
<1> HIDE DEF U
<1>3. s \o t \in Seq(U) /\ Len(s \o t) = Len(s) + Len(t)
  BY <1>2
<1> QED BY <1>2, <1>3 DEF IsList

LEMMA TypesTaken ==
  ASSUME NEW who, NEW cap, NEW tests, IsList(tests), NEW types
  PROVE  LET of == Rounds(who, cap)!OfTypes(tests, types) IN
         /\ IsList(of)
         /\ Len(of) = Cardinality({n \in 1 .. Len(tests) : tests[n].type \in types})
<1> DEFINE N == Len(tests)
           E == {tests[n] : n \in 1 .. N}
           step == [x \in Seq(E) \X (1 .. N) |->
                      IF tests[x[2]].type \in types THEN Append(x[1], tests[x[2]]) ELSE x[1]]
<1>1. N \in Nat
  BY ListIs
<1> HIDE DEF N
<1>2. \A s \in Seq(E), k \in 1 .. N :
        step[<<s, k>>] = IF tests[k].type \in types THEN Append(s, tests[k]) ELSE s
  OBVIOUS
<1>3. step \in [Seq(E) \X (1 .. N) -> Seq(E)]
  <2>1. \A s \in Seq(E), k \in 1 .. N : Append(s, tests[k]) \in Seq(E)
    <3>1. \A k \in 1 .. N : tests[k] \in E
      OBVIOUS
    <3> HIDE DEF E
    <3> QED BY <3>1
  <2> HIDE DEF E
  <2> QED BY <2>1
<1>4. <<>> \in Seq(E)
  OBVIOUS
<1> HIDE DEF step
<1>5. PICK f : Taken(N, Seq(E), <<>>, step, f)
  <2> HIDE DEF E
  <2>1. PICK b : b = <<>>
    OBVIOUS
  <2>2. PICK S : S = Seq(E)
    OBVIOUS
  <2>3. b \in S /\ step \in [S \X (1 .. N) -> S]
    BY <1>3, <1>4, <2>1, <2>2
  <2>4. \E f : Taken(N, S, b, step, f)
    BY <1>1, <2>3, StepsTaken
  <2> QED BY <2>1, <2>2, <2>4, Zenon
<1> DEFINE Goes(g) == g = [n \in 0 .. N |->
                             IF n = 0 THEN <<>>
                             ELSE IF tests[n].type \in types THEN Append(g[n - 1], tests[n])
                             ELSE g[n - 1]]
           of == CHOOSE g : Goes(g)
<1>6. f \in [0 .. N -> Seq(E)] /\ f[0] = <<>>
      /\ \A n \in 1 .. N : f[n] = IF tests[n].type \in types THEN Append(f[n - 1], tests[n])
                                  ELSE f[n - 1]
  <2>1. f \in [0 .. N -> Seq(E)] /\ f[0] = <<>> /\ \A n \in 1 .. N : f[n] = step[<<f[n - 1], n>>]
    BY <1>5 DEF Taken
  <2>2. \A n \in 1 .. N : f[n - 1] \in Seq(E)
    BY <1>1, <2>1
  <2> QED BY <1>2, <2>1, <2>2
<1> HIDE DEF E
<1>7. Goes(f)
  <2>1. \A n \in 0 .. N : f[n] = IF n = 0 THEN <<>>
                                 ELSE IF tests[n].type \in types THEN Append(f[n - 1], tests[n])
                                 ELSE f[n - 1]
    <3> SUFFICES ASSUME NEW n \in 0 .. N
                 PROVE  f[n] = IF n = 0 THEN <<>>
                               ELSE IF tests[n].type \in types THEN Append(f[n - 1], tests[n])
                               ELSE f[n - 1]
      OBVIOUS
    <3>1. CASE n = 0
      BY <1>6, <3>1, Zenon
    <3>2. CASE n # 0
      <4>1. n \in 1 .. N
        BY <1>1, <3>2
      <4> QED BY <1>6, <3>2, <4>1, Zenon
    <3> QED BY <3>1, <3>2
  <2>2. f = [n \in 0 .. N |-> f[n]]
    BY <1>6
  <2> QED BY <2>1, <2>2, Zenon
<1>8. Goes(of)
  <2> HIDE DEF Goes
  <2> QED BY <1>7, Zenon
<1>9. Rounds(who, cap)!OfTypes(tests, types) = of[N]
  BY Zenon DEF Rounds!OfTypes, N
<1> HIDE DEF of
<1>10. PICK g : g = of /\ Goes(g)
  BY <1>8, Zenon
<1>11. \A n \in 0 .. N : g[n] = IF n = 0 THEN <<>>
                                ELSE IF tests[n].type \in types THEN Append(g[n - 1], tests[n])
                                ELSE g[n - 1]
  BY <1>10, Zenon
<1> HIDE DEF Goes
<1> DEFINE T == {n \in 0 .. N : g[n] = f[n]}
<1>12. 0 \in T
  BY <1>1, <1>6, <1>11
<1>13. ASSUME NEW n \in 1 .. N, n - 1 \in T PROVE n \in T
  <2>1. n \in 0 .. N /\ n # 0 /\ g[n - 1] = f[n - 1]
    BY <1>13
  <2>2. f[n] = IF tests[n].type \in types THEN Append(f[n - 1], tests[n]) ELSE f[n - 1]
    BY <1>6
  <2>3. g[n] = IF tests[n].type \in types THEN Append(g[n - 1], tests[n]) ELSE g[n - 1]
    BY <1>11, <2>1
  <2>4. PICK h : h = f[n - 1] /\ h = g[n - 1]
    BY <2>1, Zenon
  <2>5. PICK v : v = IF tests[n].type \in types THEN Append(h, tests[n]) ELSE h
    OBVIOUS
  <2>6. g[n] = f[n]
    BY <2>2, <2>4, <2>5, <2>3
  <2> QED BY <2>1, <2>6
<1>14. \A n \in 0 .. N : g[n] = f[n]
  <2>1. \A n \in 0 .. N : n \in T
    <3> HIDE DEF T
    <3> QED BY <1>1, <1>12, <1>13, CountedUp
  <2> QED BY <2>1
<1> DEFINE Those(n) == {i \in 1 .. n : tests[i].type \in types}
           U == {n \in 0 .. N : IsFiniteSet(Those(n)) /\ Len(f[n]) = Cardinality(Those(n))}
<1>15. 0 \in U
  BY <1>6, <1>1, FS_EmptySet
<1>16. ASSUME NEW n \in 1 .. N, n - 1 \in U PROVE n \in U
  <2>1. n \in 0 .. N /\ n - 1 \in 0 .. N /\ n \in Nat
    BY <1>1
  <2>2. IsFiniteSet(Those(n - 1)) /\ Len(f[n - 1]) = Cardinality(Those(n - 1)) /\ f[n - 1] \in Seq(E)
    BY <1>6, <1>16, <2>1
  <2>3. f[n] = IF tests[n].type \in types THEN Append(f[n - 1], tests[n]) ELSE f[n - 1]
    BY <1>6
  <2>4. CASE tests[n].type \in types
    <3>1. Those(n) = Those(n - 1) \cup {n} /\ n \notin Those(n - 1)
      BY <2>1, <2>4
    <3> HIDE DEF Those
    <3>2. IsFiniteSet(Those(n)) /\ Cardinality(Those(n)) = Cardinality(Those(n - 1)) + 1
      BY <2>2, <3>1, FS_AddElement
    <3>3. Len(f[n]) = Len(f[n - 1]) + 1
      BY <2>2, <2>3, <2>4, ListAppended DEF IsList
    <3> QED BY <2>1, <2>2, <3>2, <3>3
  <2>5. CASE tests[n].type \notin types
    <3>1. Those(n) = Those(n - 1)
      BY <2>1, <2>5
    <3> HIDE DEF Those
    <3>2. f[n] = f[n - 1]
      BY <2>3, <2>5
    <3> QED BY <2>1, <2>2, <3>1, <3>2
  <2> QED BY <2>4, <2>5
<1>17. N \in U
  <2> HIDE DEF U
  <2>1. \A n \in 0 .. N : n \in U
    BY <1>1, <1>15, <1>16, CountedUp
  <2> QED BY <1>1, <2>1
<1>18. N \in 0 .. N /\ f[N] \in Seq(E)
  BY <1>1, <1>6
<1>19. Rounds(who, cap)!OfTypes(tests, types) = f[N]
  BY <1>9, <1>10, <1>14, <1>18
<1>20. IsList(f[N])
  BY <1>18 DEF IsList
<1>21. Len(f[N]) = Cardinality({n \in 1 .. Len(tests) : tests[n].type \in types})
  BY <1>17 DEF N
<1> QED BY <1>19, <1>20, <1>21

\* The types of tests that a group has, and a list's tests of them.
RunTypes == {"ui", "e2e", "frontend", "api", "integration", "backend", "unit", "component"}
Grouped(tests) == {n \in 1 .. Len(tests) : tests[n].type \in RunTypes}

LEMMA AllToRun ==
  ASSUME NEW who, NEW cap, NEW tests, IsList(tests)
  PROVE  LET left == Rounds(who, cap)!ToRun(tests) IN
         IsList(left) /\ Len(left) = Cardinality(Grouped(tests))
<1> DEFINE N == Len(tests)
           U == {"ui", "e2e", "frontend"}
           A == {"api", "integration", "backend"}
           C == {"unit", "component"}
           Of(types) == {n \in 1 .. N : tests[n].type \in types}
<1>1. PICK u, a, c : /\ u = Rounds(who, cap)!OfTypes(tests, U)
                     /\ a = Rounds(who, cap)!OfTypes(tests, A)
                     /\ c = Rounds(who, cap)!OfTypes(tests, C)
  OBVIOUS
<1>2. Rounds(who, cap)!ToRun(tests) = (u \o a) \o c
  BY <1>1 DEF Rounds!ToRun, Rounds!Ui, Rounds!Api, Rounds!Unit
<1>3. /\ IsList(u) /\ Len(u) = Cardinality(Of(U))
      /\ IsList(a) /\ Len(a) = Cardinality(Of(A))
      /\ IsList(c) /\ Len(c) = Cardinality(Of(C))
  <2> HIDE DEF U, A, C
  <2> QED BY <1>1, TypesTaken
<1>4. IsList((u \o a) \o c) /\ Len((u \o a) \o c) = Len(u) + Len(a) + Len(c)
  <2>1. PICK w : w = u \o a
    OBVIOUS
  <2>2. IsList(w) /\ Len(w) = Len(u) + Len(a)
    BY <1>3, <2>1, ListJoined
  <2>3. IsList(w \o c) /\ Len(w \o c) = Len(w) + Len(c)
    BY <1>3, <2>2, ListJoined
  <2> QED BY <2>1, <2>2, <2>3
<1>5. N \in Nat /\ IsFiniteSet(Of(U)) /\ IsFiniteSet(Of(A)) /\ IsFiniteSet(Of(C))
  <2>1. N \in Nat
    BY ListIs
  <2>2. IsFiniteSet(1 .. N)
    BY <2>1, FS_Interval
  <2>3. Of(U) \subseteq 1 .. N /\ Of(A) \subseteq 1 .. N /\ Of(C) \subseteq 1 .. N
    OBVIOUS
  <2> HIDE DEF Of
  <2> QED BY <2>1, <2>2, <2>3, FS_Subset
<1>6. /\ Of(U) \cap Of(A) = {} /\ (Of(U) \cup Of(A)) \cap Of(C) = {}
      /\ Grouped(tests) = (Of(U) \cup Of(A)) \cup Of(C)
  BY DEF Grouped, RunTypes
<1> HIDE DEF Of
<1>7. /\ IsFiniteSet(Of(U) \cup Of(A))
      /\ Cardinality(Of(U) \cup Of(A)) = Cardinality(Of(U)) + Cardinality(Of(A))
  <2>1. Cardinality(Of(U) \cap Of(A)) = 0
    BY <1>6, FS_EmptySet
  <2>2. /\ IsFiniteSet(Of(U) \cup Of(A))
        /\ Cardinality(Of(U) \cup Of(A))
             = Cardinality(Of(U)) + Cardinality(Of(A)) - Cardinality(Of(U) \cap Of(A))
    BY <1>5, FS_Union
  <2> QED BY <1>5, <2>1, <2>2, FS_CardinalityType
<1>8. Cardinality((Of(U) \cup Of(A)) \cup Of(C)) = Cardinality(Of(U) \cup Of(A)) + Cardinality(Of(C))
  <2>1. Cardinality((Of(U) \cup Of(A)) \cap Of(C)) = 0
    BY <1>6, FS_EmptySet
  <2>2. Cardinality((Of(U) \cup Of(A)) \cup Of(C))
          = Cardinality(Of(U) \cup Of(A)) + Cardinality(Of(C))
            - Cardinality((Of(U) \cup Of(A)) \cap Of(C))
    BY <1>5, <1>7, FS_Union
  <2> QED BY <1>5, <1>7, <2>1, <2>2, FS_CardinalityType
<1> QED BY <1>2, <1>3, <1>4, <1>6, <1>7, <1>8

\* How many of the failures fall in a category.
Falling(failed, c) == Cardinality({i \in DOMAIN failed : c \in failed[i].error})
Areas == <<"authentication", "api_integration", "ui_elements", "data_validation">>

LEMMA CauseNamed ==
  ASSUME NEW who, NEW cap, NEW failed, IsList(failed), NEW n \in 1 .. 4
  PROVE  LET cause == Rounds(who, cap)!MostCommonCause(failed) IN
         Falling(failed, Areas[n]) > 0 => Falling(failed, Areas[n]) <= Falling(failed, cause)
<1> DEFINE v == [i \in 1 .. 4 |-> Falling(failed, Areas[i])]
           Largest == {i \in 1 .. 4 : v[i] > 0 /\ \A j \in 1 .. 4 : v[j] <= v[i]}
<1>1. \A i \in 1 .. 4 : v[i] \in Nat
  <2> SUFFICES ASSUME NEW i \in 1 .. 4 PROVE Falling(failed, Areas[i]) \in Nat
    OBVIOUS
  <2>1. {k \in DOMAIN failed : Areas[i] \in failed[k].error} \subseteq 1 .. Len(failed)
    BY ListIs
  <2>2. IsFiniteSet(1 .. Len(failed))
    <3>1. Len(failed) \in Int
      BY ListIs
    <3> QED BY <3>1, FS_Interval
  <2>3. IsFiniteSet({k \in DOMAIN failed : Areas[i] \in failed[k].error})
    BY <2>1, <2>2, FS_Subset
  <2> QED BY <2>3, FS_CardinalityType DEF Falling
<1>2. \A i \in 1 .. 4 : v[i] = Falling(failed, Areas[i])
  OBVIOUS
<1>3. PICK k : /\ k = CHOOSE i \in Largest : \A j \in Largest : i <= j
               /\ Largest # {} =>
                    Rounds(who, cap)!MostCommonCause(failed) = Areas[k]
  <2>1. DOMAIN Areas = 1 .. 4 /\ Rounds(who, cap)!Categories = Areas
    BY DEF Areas, Rounds!Categories
  <2>2. \A c : Rounds(who, cap)!InCategory(failed, c) = Falling(failed, c)
    BY Zenon DEF Rounds!InCategory, Falling, Rounds!Cardinality, Cardinality
  <2>3. Largest =
          {i \in DOMAIN Rounds(who, cap)!Categories :
             /\ Rounds(who, cap)!InCategory(
                  failed, Rounds(who, cap)!Categories[i]) > 0
             /\ \A j \in DOMAIN Rounds(who, cap)!Categories :
                  Rounds(who, cap)!InCategory(
                    failed, Rounds(who, cap)!Categories[j])
                    <= Rounds(who, cap)!InCategory(
                         failed, Rounds(who, cap)!Categories[i])}
    BY <1>2, <2>1, <2>2
  <2> HIDE DEF Largest
  <2>4. PICK k : k = CHOOSE i \in Largest : \A j \in Largest : i <= j
    OBVIOUS
  <2>5. Largest # {} => Rounds(who, cap)!MostCommonCause(failed)
                          = Rounds(who, cap)!Categories[k]
    BY <2>3, <2>4, Zenon DEF Rounds!MostCommonCause
  <2> QED BY <2>1, <2>4, <2>5, Zenon
<1> HIDE DEF v
<1>4. SUFFICES ASSUME v[n] > 0
               PROVE  \E c \in 1 .. 4 : /\ v[n] <= v[c]
                                        /\ Rounds(who, cap)!MostCommonCause(failed) = Areas[c]
  BY <1>2
<1>5. \E i \in Largest : \A j \in Largest : i <= j
  <2>1. v[1] \in Nat /\ v[2] \in Nat /\ v[3] \in Nat /\ v[4] \in Nat
    BY <1>1
  <2>2. \E i \in 1 .. 4 : \A j \in 1 .. 4 : v[j] <= v[i]
    BY <2>1
  <2>3. PICK i \in 1 .. 4 : \A j \in 1 .. 4 : v[j] <= v[i]
    BY <2>2
  <2>4. i \in Largest
    BY <1>1, <1>4, <2>3
  <2>5. Largest \subseteq {1, 2, 3, 4}
    OBVIOUS
  <2> HIDE DEF Largest
  <2> QED BY <2>4, <2>5
<1>7. k \in Largest
  <2> HIDE DEF Largest
  <2> QED BY <1>3, <1>5, Zenon
<1>8. v[n] <= v[k] /\ Largest # {} /\ k \in 1 .. 4
  BY <1>7
<1> HIDE DEF Largest
<1> QED BY <1>3, <1>8

LEMMA SuiteListed ==
  ASSUME NEW who, NEW cap, NEW scenario
  PROVE  IsList(Rounds(who, cap)!Optimized(
                  Rounds(who, cap)!BuildTestSuite(scenario)))
<1>1. PICK suite : suite = Rounds(who, cap)!BuildTestSuite(scenario)
  OBVIOUS
<1>2. \E n \in Nat : DOMAIN suite = 1 .. n
  <2>1. CASE scenario = "authentication"
    BY <1>1, <2>1 DEF Rounds!BuildTestSuite
  <2>2. CASE scenario = "checkout"
    BY <1>1, <2>2 DEF Rounds!BuildTestSuite
  <2>3. CASE scenario \notin {"authentication", "checkout"}
    <3>1. \E a, b, c : suite = <<a, b, c>>
      BY <1>1, <2>3 DEF Rounds!BuildTestSuite
    <3> QED BY <3>1
  <2> QED BY <2>1, <2>2, <2>3
<1>3. PICK n \in Nat : DOMAIN suite = 1 .. n
  BY <1>2
<1>4. PICK s : s = Rounds(who, cap)!Optimized(suite)
  OBVIOUS
<1>5. s = [i \in 1 .. n |-> s[i]]
  BY <1>3, <1>4 DEF Rounds!Optimized
<1>6. s \in [1 .. n -> {s[i] : i \in 1 .. n}]
  BY <1>5
<1>7. s \in Seq({s[i] : i \in 1 .. n})
  BY <1>6, SeqDef
<1> QED BY <1>1, <1>4, <1>7, Zenon DEF IsList

\* A run under way has run, or has left, each test of its types.
TestRunInv ==
  /\ run = [on |-> run.on, by |-> run.by, tests |-> run.tests, left |-> run.left,
            passed |-> run.passed, failed |-> run.failed]
  /\ run.on \in BOOLEAN /\ run.passed \in Nat
  /\ IsList(run.tests) /\ IsList(run.left) /\ IsList(run.failed)
  /\ run.on => run.passed + Len(run.failed) + Len(run.left) = Cardinality(Grouped(run.tests))

\* A run that has ended keeps its result.
Accounted(r) ==
  /\ IsList(r.tests) /\ IsList(r.result.failed)
  /\ r.finished =>
       /\ r.result.passed + Len(r.result.failed) = Cardinality(Grouped(r.tests))
       /\ \A n \in 1 .. 4 :
            Falling(r.result.failed, Areas[n]) > 0 =>
              Falling(r.result.failed, Areas[n]) <= Falling(r.result.failed, r.result.cause)
EndedInv == IsList(rounds) /\ \A i \in 1 .. Len(rounds) : Accounted(rounds[i])

LEMMA EmptyList == IsList(<<>>) /\ Len(<<>>) = 0
BY EmptySeq DEF IsList

LEMMA RunBegins ==
  ASSUME NEW who, NEW cap, NEW by, NEW tests, IsList(tests),
         run' = Rounds(who, cap)!Started(by, tests)
  PROVE  TestRunInv'
<1>1. PICK left : left = Rounds(who, cap)!ToRun(tests)
  OBVIOUS
<1>2. IsList(left) /\ Len(left) = Cardinality(Grouped(tests))
  BY <1>1, AllToRun
<1>3. run' = [on |-> TRUE, by |-> by, tests |-> tests, left |-> left, passed |-> 0, failed |-> <<>>]
  BY <1>1 DEF Rounds!Started
<1>4. Len(left) \in Nat
  BY <1>2, ListIs
<1>5. run'.passed + Len(run'.failed) + Len(run'.left) = Cardinality(Grouped(run'.tests))
  BY <1>2, <1>3, <1>4, EmptyList
<1> QED BY <1>2, <1>3, <1>5, EmptyList DEF TestRunInv

LEMMA RunGoesOn ==
  ASSUME TestRunInv, NEW who, NEW cap,
         \/ Rounds(who, cap)!RunPasses
         \/ \E error \in Errors : Rounds(who, cap)!RunFails(error)
  PROVE  TestRunInv'
<1>1. /\ run.on \in BOOLEAN /\ run.passed \in Nat
      /\ IsList(run.tests) /\ IsList(run.left) /\ IsList(run.failed)
      /\ Len(run.left) \in Nat /\ Len(run.failed) \in Nat
  BY ListIs DEF TestRunInv
<1>2. CASE Rounds(who, cap)!RunPasses
  <2>1. run.on /\ run.left # <<>> /\ run' = [run EXCEPT !.left = Tail(run.left), !.passed = run.passed + 1]
    BY <1>2 DEF Rounds!RunPasses
  <2>2. IsList(Tail(run.left)) /\ Len(Tail(run.left)) = Len(run.left) - 1
    BY <1>1, <2>1, ListTail
  <2>3. run' = [on |-> run.on, by |-> run.by, tests |-> run.tests, left |-> Tail(run.left),
                passed |-> run.passed + 1, failed |-> run.failed]
    BY <2>1 DEF TestRunInv
  <2>4. run.passed + Len(run.failed) + Len(run.left) = Cardinality(Grouped(run.tests))
    BY <2>1 DEF TestRunInv
  <2>5. run'.passed + Len(run'.failed) + Len(run'.left) = Cardinality(Grouped(run'.tests))
    <3>1. (run.passed + 1) + Len(run.failed) + Len(Tail(run.left)) = Cardinality(Grouped(run.tests))
      BY <1>1, <2>2, <2>4
    <3> QED BY <2>3, <3>1
  <2> QED BY <1>1, <2>2, <2>3, <2>5 DEF TestRunInv
<1>3. CASE \E error \in Errors : Rounds(who, cap)!RunFails(error)
  <2>1. PICK e : run.on /\ run.left # <<>>
                 /\ run' = [run EXCEPT !.left = Tail(run.left), !.failed = Append(run.failed, e)]
    BY <1>3, Zenon DEF Rounds!RunFails
  <2>2. IsList(Tail(run.left)) /\ Len(Tail(run.left)) = Len(run.left) - 1
    BY <1>1, <2>1, ListTail
  <2>3. IsList(Append(run.failed, e)) /\ Len(Append(run.failed, e)) = Len(run.failed) + 1
    BY <1>1, ListAppended
  <2>4. run' = [on |-> run.on, by |-> run.by, tests |-> run.tests, left |-> Tail(run.left),
                passed |-> run.passed, failed |-> Append(run.failed, e)]
    BY <2>1 DEF TestRunInv
  <2>5. run.passed + Len(run.failed) + Len(run.left) = Cardinality(Grouped(run.tests))
    BY <2>1 DEF TestRunInv
  <2>6. run'.passed + Len(run'.failed) + Len(run'.left) = Cardinality(Grouped(run'.tests))
    <3>1. run.passed + Len(Append(run.failed, e)) + Len(Tail(run.left)) = Cardinality(Grouped(run.tests))
      BY <1>1, <2>2, <2>3, <2>5
    <3> QED BY <2>4, <3>1
  <2> QED BY <1>1, <2>2, <2>3, <2>4, <2>6 DEF TestRunInv
<1> QED BY <1>2, <1>3

LEMMA RunEnds ==
  ASSUME TestRunInv, EndedInv, NEW who, NEW cap, NEW stores,
         Rounds(who, cap)!EndRun(stores)
  PROVE  /\ TestRunInv' /\ EndedInv'
         /\ \E e : /\ rounds' = Append(rounds, e) /\ e.by = run.by /\ e.stored = stores
                   /\ e.result = Rounds(who, cap)!Result
<1>1. PICK r : r = Rounds(who, cap)!Result
  OBVIOUS
<1>2. PICK e : e = [by |-> run.by, tests |-> run.tests, result |-> r,
                    finished |-> run.left = <<>>, stored |-> stores]
  OBVIOUS
<1>3. /\ run.on /\ run' = Rounds(who, cap)!NoRun /\ rounds' = Append(rounds, e)
  BY <1>1, <1>2 DEF Rounds!EndRun
<1>4. TestRunInv'
  BY <1>3, EmptyList DEF Rounds!NoRun, TestRunInv
<1>5. r.passed = run.passed /\ r.failed = run.failed
      /\ r.cause = Rounds(who, cap)!MostCommonCause(run.failed)
  BY <1>1 DEF Rounds!Result
<1>6. Accounted(e)
  <2>1. e.tests = run.tests /\ e.result = r /\ e.finished = (run.left = <<>>)
    BY <1>2
  <2>2. IsList(run.tests) /\ IsList(run.failed) /\ Len(run.failed) \in Nat /\ run.passed \in Nat
    BY ListIs DEF TestRunInv
  <2>3. ASSUME e.finished PROVE r.passed + Len(r.failed) = Cardinality(Grouped(e.tests))
    <3>1. Len(run.left) = 0
      BY <2>1, <2>3, EmptyList
    <3>2. run.passed + Len(run.failed) + Len(run.left) = Cardinality(Grouped(run.tests))
      BY <1>3 DEF TestRunInv
    <3> QED BY <1>5, <2>1, <2>2, <3>1, <3>2
  <2>4. ASSUME NEW n \in 1 .. 4
        PROVE  Falling(r.failed, Areas[n]) > 0 =>
                 Falling(r.failed, Areas[n]) <= Falling(r.failed, r.cause)
    BY <1>5, <2>2, CauseNamed
  <2> QED BY <1>5, <2>1, <2>2, <2>3, <2>4 DEF Accounted
<1>7. EndedInv'
  <2>1. /\ IsList(rounds') /\ Len(rounds') = Len(rounds) + 1 /\ rounds'[Len(rounds) + 1] = e
        /\ \A i \in 1 .. Len(rounds) : rounds'[i] = rounds[i]
    BY <1>3, ListAppended DEF EndedInv
  <2>2. Len(rounds) \in Nat
    BY ListIs DEF EndedInv
  <2>3. ASSUME NEW i \in 1 .. Len(rounds') PROVE Accounted(rounds'[i])
    <3>1. i \in 1 .. Len(rounds) \/ i = Len(rounds) + 1
      BY <2>1, <2>2
    <3>2. CASE i = Len(rounds) + 1
      BY <1>6, <2>1, <3>2
    <3>3. CASE i \in 1 .. Len(rounds)
      BY <2>1, <3>3 DEF EndedInv
    <3> QED BY <3>1, <3>2, <3>3
  <2> QED BY <2>1, <2>3 DEF EndedInv
<1> QED BY <1>1, <1>2, <1>3, <1>4, <1>7

\* The failures that results tell of, and those of some of the runs.
FailuresIn(r) ==
  IF "junior" \in DOMAIN r THEN Len(r.junior.failed)
  ELSE IF "raw" \in DOMAIN r THEN r.raw.failed ELSE 0
Results(rs) == IsList(rs) /\ \A n \in 1 .. Len(rs) : FailuresIn(rs[n]) \in Nat
SumFailed(rs) == TotalTo([n \in 1 .. Len(rs) |-> FailuresIn(rs[n])], Len(rs))

Ended(rs) == IsList(rs) /\ \A n \in 1 .. Len(rs) : Len(rs[n].result.failed) \in Nat
FailedIn(rs, S) ==
  TotalTo([n \in 1 .. Len(rs) |-> IF n \in S THEN Len(rs[n].result.failed) ELSE 0], Len(rs))

LEMMA SumNone == Results(<<>>) /\ SumFailed(<<>>) = 0
<1>1. IsList(<<>>) /\ Len(<<>>) = 0
  BY EmptyList
<1>2. PICK m : m = [n \in 1 .. Len(<<>>) |-> FailuresIn(<<>>[n])]
  OBVIOUS
<1>3. TotalTo(m, 0) = 0
  BY TotalStep
<1> QED BY <1>1, <1>2, <1>3 DEF Results, SumFailed

LEMMA SumAppended ==
  ASSUME NEW rs, Results(rs), NEW e, FailuresIn(e) \in Nat
  PROVE  /\ Results(Append(rs, e))
         /\ SumFailed(rs) \in Int /\ SumFailed(Append(rs, e)) = SumFailed(rs) + FailuresIn(e)
<1> DEFINE N == Len(rs)
<1>1. PICK t : t = Append(rs, e)
  OBVIOUS
<1>2. /\ N \in Nat /\ IsList(t) /\ Len(t) = N + 1 /\ t[N + 1] = e
      /\ \A n \in 1 .. N : t[n] = rs[n] /\ FailuresIn(rs[n]) \in Nat
  BY <1>1, ListIs, ListAppended DEF Results
<1> DEFINE m == [n \in 1 .. Len(rs) |-> FailuresIn(rs[n])]
           l == [n \in 1 .. Len(t) |-> FailuresIn(t[n])]
<1>3. \A n \in 1 .. N : m[n] \in Int /\ l[n] = m[n]
  BY <1>2
<1>4. l[N + 1] = FailuresIn(e) /\ \A n \in 1 .. N + 1 : l[n] \in Nat
  BY <1>2
<1>5. SumFailed(rs) = TotalTo(m, N) /\ SumFailed(t) = TotalTo(l, N + 1)
  BY <1>2 DEF SumFailed
<1>6. Results(t)
  BY <1>2, <1>4 DEF Results
<1> HIDE DEF m, l, N
<1>7. TotalTo(l, N) = TotalTo(m, N) /\ TotalTo(m, N) \in Int
  BY <1>2, <1>3, TotalSame, TotalStep
<1>8. TotalTo(l, N + 1) = TotalTo(l, N) + l[N + 1]
  <2>1. N + 1 \in Nat /\ N + 1 > 0 /\ (N + 1) - 1 = N /\ \A n \in 1 .. N + 1 : l[n] \in Int
    BY <1>2, <1>4
  <2>2. TotalTo(l, N + 1) = TotalTo(l, (N + 1) - 1) + l[N + 1]
    BY <2>1, TotalStep
  <2> QED BY <2>1, <2>2
<1> QED BY <1>1, <1>4, <1>5, <1>6, <1>7, <1>8

LEMMA SumJoined ==
  ASSUME NEW a, NEW b, Results(a), Results(b)
  PROVE  /\ Results(a \o b)
         /\ SumFailed(a) \in Int /\ SumFailed(b) \in Int
         /\ SumFailed(a \o b) = SumFailed(a) + SumFailed(b)
<1> DEFINE A == Len(a)
           B == Len(b)
<1>1. PICK c : c = a \o b
  OBVIOUS
<1>2. /\ A \in Nat /\ B \in Nat /\ IsList(c) /\ Len(c) = A + B
      /\ \A n \in 1 .. A : c[n] = a[n] /\ FailuresIn(a[n]) \in Nat
      /\ \A n \in 1 .. B : c[A + n] = b[n] /\ FailuresIn(b[n]) \in Nat
  BY <1>1, ListIs, ListJoined DEF Results
<1> DEFINE m == [n \in 1 .. Len(a) |-> FailuresIn(a[n])]
           k == [n \in 1 .. Len(b) |-> FailuresIn(b[n])]
           l == [n \in 1 .. Len(c) |-> FailuresIn(c[n])]
<1>3. \A n \in 1 .. A : m[n] \in Int /\ l[n] = m[n]
  BY <1>2
<1>4. \A n \in 1 .. B : k[n] \in Int /\ l[A + n] = k[n]
  BY <1>2
<1>5. \A n \in 1 .. A + B : FailuresIn(c[n]) \in Nat /\ l[n] \in Int
  <2> SUFFICES ASSUME NEW n \in 1 .. A + B PROVE FailuresIn(c[n]) \in Nat
    BY <1>2
  <2>1. CASE n <= A
    BY <1>2, <2>1
  <2>2. CASE n > A
    <3>1. n - A \in 1 .. B /\ A + (n - A) = n
      BY <1>2, <2>2
    <3>2. c[n] = b[n - A] /\ FailuresIn(b[n - A]) \in Nat
      BY <1>2, <3>1
    <3> QED BY <3>2
  <2> QED BY <1>2, <2>1, <2>2
<1>6. /\ SumFailed(a) = TotalTo(m, A) /\ SumFailed(b) = TotalTo(k, B)
      /\ SumFailed(c) = TotalTo(l, A + B)
  BY <1>2 DEF SumFailed
<1>7. Results(c)
  BY <1>2, <1>5 DEF Results
<1> HIDE DEF m, k, l, A, B
<1> DEFINE T == {n \in 0 .. B : TotalTo(l, A + n) = TotalTo(m, A) + TotalTo(k, n)}
<1>8. TotalTo(m, A) \in Int /\ TotalTo(l, A) = TotalTo(m, A) /\ TotalTo(k, 0) = 0
      /\ TotalTo(k, B) \in Int
  <2>1. TotalTo(l, A) = TotalTo(m, A)
    BY <1>2, <1>3, TotalSame
  <2>2. TotalTo(m, A) \in Int
    BY <1>2, <1>3, TotalStep
  <2>3. TotalTo(k, 0) = 0
    BY TotalStep
  <2>4. TotalTo(k, B) \in Int
    BY <1>2, <1>4, TotalStep
  <2> QED BY <2>1, <2>2, <2>3, <2>4
<1>9. 0 \in T
  BY <1>2, <1>8
<1>10. ASSUME NEW n \in 1 .. B, n - 1 \in T PROVE n \in T
  <2>1. /\ n \in Nat /\ n > 0 /\ A + n \in Nat /\ A + n > 0 /\ (A + n) - 1 = A + (n - 1)
        /\ n \in 0 .. B
    BY <1>2
  <2>2. TotalTo(k, n) = TotalTo(k, n - 1) + k[n] /\ TotalTo(k, n) \in Int
    BY <1>2, <1>4, <2>1, TotalStep
  <2>3. TotalTo(l, A + n) = TotalTo(l, A + (n - 1)) + l[A + n]
    BY <1>2, <1>5, <2>1, TotalStep
  <2>4. l[A + n] = k[n] /\ k[n] \in Int /\ TotalTo(k, n - 1) \in Int
    <3>1. n - 1 \in Nat /\ \A i \in 1 .. n - 1 : k[i] \in Int
      BY <1>2, <1>4
    <3> QED BY <1>4, <3>1, TotalStep
  <2>5. TotalTo(l, A + (n - 1)) = TotalTo(m, A) + TotalTo(k, n - 1)
    BY <1>10
  <2>6. TotalTo(l, A + n) = TotalTo(m, A) + TotalTo(k, n)
    BY <1>8, <2>2, <2>3, <2>4, <2>5
  <2> QED BY <2>1, <2>6
<1>11. B \in T
  <2> HIDE DEF T
  <2>1. \A n \in 0 .. B : n \in T
    BY <1>2, <1>9, <1>10, CountedUp
  <2> QED BY <1>2, <2>1
<1> QED BY <1>1, <1>6, <1>7, <1>8, <1>11

LEMMA FailedNone ==
  ASSUME NEW rs, Ended(rs)
  PROVE  FailedIn(rs, {}) = 0
<1> DEFINE N == Len(rs)
           m == [n \in 1 .. N |-> IF n \in {} THEN Len(rs[n].result.failed) ELSE 0]
           T == {k \in 0 .. N : TotalTo(m, k) = 0}
<1>1. N \in Nat /\ \A n \in 1 .. N : m[n] = 0
  BY ListIs DEF Ended
<1>2. FailedIn(rs, {}) = TotalTo(m, N)
  BY DEF FailedIn
<1> HIDE DEF m, N
<1>3. \A k \in 0 .. N : /\ k = 0 => TotalTo(m, k) = 0
                        /\ k > 0 => TotalTo(m, k) = TotalTo(m, k - 1) + 0
  <2> SUFFICES ASSUME NEW k \in 0 .. N
               PROVE  /\ k = 0 => TotalTo(m, k) = 0
                      /\ k > 0 => TotalTo(m, k) = TotalTo(m, k - 1) + 0
    OBVIOUS
  <2>1. k \in Nat /\ \A n \in 1 .. k : m[n] \in Int
    BY <1>1
  <2>2. k > 0 => m[k] = 0
    BY <1>1
  <2> QED BY <2>1, <2>2, TotalStep
<1>4. 0 \in T /\ \A k \in 1 .. N : k - 1 \in T => k \in T
  BY <1>1, <1>3
<1>5. N \in T
  <2> HIDE DEF T
  <2>1. \A k \in 0 .. N : k \in T
    BY <1>1, <1>4, CountedUp
  <2> QED BY <1>1, <2>1
<1> QED BY <1>2, <1>5

LEMMA FailedLess ==
  ASSUME NEW rs, Ended(rs), NEW S, NEW T, \A i \in 1 .. Len(rs) : i \in S => i \in T
  PROVE  FailedIn(rs, S) <= FailedIn(rs, T) /\ FailedIn(rs, S) \in Int /\ FailedIn(rs, T) \in Int
<1> DEFINE N == Len(rs)
           m == [n \in 1 .. N |-> IF n \in S THEN Len(rs[n].result.failed) ELSE 0]
           l == [n \in 1 .. N |-> IF n \in T THEN Len(rs[n].result.failed) ELSE 0]
<1>1. N \in Nat /\ \A n \in 1 .. N : m[n] \in Int /\ l[n] \in Int /\ m[n] <= l[n]
  BY ListIs DEF Ended
<1>2. FailedIn(rs, S) = TotalTo(m, N) /\ FailedIn(rs, T) = TotalTo(l, N)
  BY DEF FailedIn
<1> HIDE DEF m, l, N
<1> QED BY <1>1, <1>2, TotalCompared, TotalStep

LEMMA FailedMore ==
  ASSUME NEW rs, Ended(rs), NEW S, NEW i \in 1 .. Len(rs), i \notin S
  PROVE  FailedIn(rs, S \cup {i}) = FailedIn(rs, S) + Len(rs[i].result.failed)
<1> DEFINE N == Len(rs)
           T == S \cup {i}
           m == [n \in 1 .. N |-> IF n \in S THEN Len(rs[n].result.failed) ELSE 0]
           l == [n \in 1 .. N |-> IF n \in T THEN Len(rs[n].result.failed) ELSE 0]
<1>1. /\ N \in Nat /\ \A n \in 1 .. N : m[n] \in Int /\ l[n] \in Int /\ (n # i => l[n] = m[n])
      /\ l[i] - m[i] = Len(rs[i].result.failed)
  BY ListIs DEF Ended
<1>2. FailedIn(rs, S) = TotalTo(m, N) /\ FailedIn(rs, T) = TotalTo(l, N)
  BY DEF FailedIn
<1>3. i \in 1 .. N /\ l[i] \in Int /\ m[i] \in Int
  BY <1>1
<1> HIDE DEF m, l, N, T
<1>4. TotalTo(l, N) = TotalTo(m, N) + (l[i] - m[i])
  BY <1>1, <1>3, TotalMore
<1> QED BY <1>1, <1>2, <1>4 DEF T

LEMMA FailedLater ==
  ASSUME NEW rs, Ended(rs), NEW e, Len(e.result.failed) \in Nat, NEW S, S \subseteq 1 .. Len(rs)
  PROVE  Ended(Append(rs, e)) /\ FailedIn(Append(rs, e), S) = FailedIn(rs, S)
<1> DEFINE N == Len(rs)
<1>1. PICK t : t = Append(rs, e)
  OBVIOUS
<1>2. /\ N \in Nat /\ IsList(t) /\ Len(t) = N + 1 /\ t[N + 1] = e
      /\ \A n \in 1 .. N : t[n] = rs[n] /\ Len(rs[n].result.failed) \in Nat
  BY <1>1, ListIs, ListAppended DEF Ended
<1> DEFINE m == [n \in 1 .. Len(rs) |-> IF n \in S THEN Len(rs[n].result.failed) ELSE 0]
           l == [n \in 1 .. Len(t) |-> IF n \in S THEN Len(t[n].result.failed) ELSE 0]
<1>3. \A n \in 1 .. N : m[n] \in Int /\ l[n] = m[n]
  BY <1>2
<1>4. l[N + 1] = 0 /\ \A n \in 1 .. N + 1 : Len(t[n].result.failed) \in Nat /\ l[n] \in Int
  BY <1>2
<1>5. FailedIn(rs, S) = TotalTo(m, N) /\ FailedIn(t, S) = TotalTo(l, N + 1)
  BY <1>2 DEF FailedIn
<1>6. Ended(t)
  BY <1>2, <1>4 DEF Ended
<1> HIDE DEF m, l, N
<1>7. TotalTo(l, N) = TotalTo(m, N) /\ TotalTo(m, N) \in Int
  BY <1>2, <1>3, TotalSame, TotalStep
<1>8. TotalTo(l, N + 1) = TotalTo(l, N) + l[N + 1]
  <2>1. N + 1 \in Nat /\ N + 1 > 0 /\ (N + 1) - 1 = N /\ \A n \in 1 .. N + 1 : l[n] \in Int
    BY <1>2, <1>4
  <2>2. TotalTo(l, N + 1) = TotalTo(l, (N + 1) - 1) + l[N + 1]
    BY <2>1, TotalStep
  <2> QED BY <2>1, <2>2
<1> QED BY <1>1, <1>4, <1>5, <1>6, <1>7, <1>8

\* The runs whose results are the last ones stored of their scenarios, of the first n.
Latest(rs, n) ==
  {i \in 1 .. n : rs[i].stored /\ \A j \in i + 1 .. n : ~(rs[j].stored /\ rs[j].by = rs[i].by)}

LEMMA LatestLater ==
  ASSUME NEW rs, IsList(rs), NEW e
  PROVE  LET t == Append(rs, e)  N == Len(rs)
             Replaced(i) == e.stored /\ e.by = rs[i].by
         IN /\ \A n \in 0 .. N : Latest(t, n) = Latest(rs, n)
            /\ \A i \in Latest(t, N + 1) :
                 \/ i = N + 1 /\ e.stored
                 \/ i \in Latest(rs, N) /\ ~Replaced(i)
            /\ e.stored => N + 1 \in Latest(t, N + 1)
            /\ \A i \in Latest(rs, N) : ~Replaced(i) => i \in Latest(t, N + 1)
<1> DEFINE N == Len(rs)
<1>1. PICK t : t = Append(rs, e)
  OBVIOUS
<1>2. N \in Nat /\ t[N + 1] = e /\ \A i \in 1 .. N : t[i] = rs[i]
  BY <1>1, ListIs, ListAppended
<1> HIDE DEF N
<1>3. ASSUME NEW n \in 0 .. N PROVE Latest(t, n) = Latest(rs, n)
  BY <1>2 DEF Latest
<1>4. ASSUME NEW i \in Latest(t, N + 1), i # N + 1
      PROVE  i \in Latest(rs, N) /\ ~(e.stored /\ e.by = rs[i].by)
  BY <1>2, <1>4 DEF Latest
<1>5. ASSUME N + 1 \in Latest(t, N + 1) PROVE e.stored
  BY <1>2, <1>5 DEF Latest
<1>6. ASSUME e.stored PROVE N + 1 \in Latest(t, N + 1)
  BY <1>2, <1>6 DEF Latest
<1>7. ASSUME NEW i \in Latest(rs, N), ~(e.stored /\ e.by = rs[i].by)
      PROVE  i \in Latest(t, N + 1)
  BY <1>2, <1>7 DEF Latest
<1> QED BY <1>1, <1>3, <1>4, <1>5, <1>6, <1>7 DEF N

\* Redis has the last results stored of the scenarios, and the senior agent's.
JuniorKey(scenario) == <<"junior", scenario>>
StoredInv ==
  /\ \A i \in Latest(rounds, Len(rounds)) :
       /\ JuniorKey(rounds[i].by) \in DOMAIN resultKeys
       /\ resultKeys[JuniorKey(rounds[i].by)] = [junior |-> rounds[i].result]
  /\ \A k \in DOMAIN resultKeys :
       \/ k[1] = "senior" /\ FailuresIn(resultKeys[k]) = 0
       \/ \E i \in Latest(rounds, Len(rounds)) : k = JuniorKey(rounds[i].by)

\* What a reporter has gathered, r, has each failure that was stored when it began and
\* still is, once it was named.
StillLatest(rs, n) == Latest(rs, n) \cap Latest(rs, Len(rs))
Found(r, rs) == {i \in StillLatest(rs, r.from) : JuniorKey(rs[i].by) \in r.keys}
Shaped(r) ==
  r = [pc |-> r.pc, must |-> r.must, took |-> r.took, keys |-> r.keys, raw |-> r.raw,
       from |-> r.from]
Gathered(r, rs, n) ==
  /\ Shaped(r)
  /\ Results(r.took) /\ Results(r.raw) /\ r.from \in 0 .. Len(rs)
  /\ \A i \in Latest(rs, r.from) : JuniorKey(rs[i].by) \in r.must
  /\ SumFailed(r.took) >= FailedIn(rs, Found(r, rs))
  /\ r.from = Len(rs) /\ n = 0 => SumFailed(r.took) = FailedIn(rs, Found(r, rs))
  /\ r.pc = "compare" => r.must \subseteq r.keys
ReportersInv(who) ==
  /\ reporter = [p \in who |-> reporter[p]]
  /\ \A p \in who : Gathered(reporter[p], rounds, twice)

\* What reports said, and what they said it of.
Said(n) ==
  LET t == reportsTold[n] IN
  /\ Results(t.raw) /\ t.to \in 0 .. Len(rounds) /\ t.from \in 0 .. t.to
  /\ t.metrics.failed >=
       FailedIn(rounds, Latest(rounds, t.from) \cap Latest(rounds, t.to)) + SumFailed(t.raw)
  /\ t.from = t.to /\ twice = 0 =>
       t.metrics.failed = FailedIn(rounds, Latest(rounds, t.from)) + SumFailed(t.raw)
SaidInv == IsList(reportsTold) /\ \A n \in 1 .. Len(reportsTold) : Said(n)

RoundsInv(who) ==
  TestRunInv /\ EndedInv /\ StoredInv /\ ReportersInv(who) /\ SaidInv /\ twice \in Nat

LEMMA EndedResults == EndedInv => Ended(rounds) /\ Len(rounds) \in Nat
BY ListIs DEF EndedInv, Ended, Accounted

LEMMA RoundsInit ==
  ASSUME NEW who, NEW cap, Rounds(who, cap)!Init
  PROVE  RoundsInv(who)
<1>1. /\ run = Rounds(who, cap)!NoRun /\ resultKeys = <<>>
      /\ reporter = [p \in who |-> Rounds(who, cap)!Idle]
      /\ rounds = <<>> /\ reportsTold = <<>> /\ twice = 0
  BY DEF Rounds!Init
<1>2. TestRunInv
  BY <1>1, EmptyList DEF Rounds!NoRun, TestRunInv
<1>3. EndedInv
  BY <1>1, EmptyList DEF EndedInv
<1>4. StoredInv
  BY <1>1, EmptyList DEF Latest, StoredInv
<1>5. ReportersInv(who)
  <2>2. PICK r : r = [pc |-> "idle", must |-> {}, took |-> <<>>, keys |-> {}, raw |-> <<>>,
                      from |-> 0]
    OBVIOUS
  <2>3. reporter = [p \in who |-> r]
    BY <1>1, <2>2 DEF Rounds!Idle
  <2>4. Found(r, rounds) = {}
    BY <2>2 DEF Found
  <2>5. Gathered(r, rounds, twice)
    <3>1. Latest(rounds, 0) = {}
      BY DEF Latest
    <3>2. FailedIn(rounds, {}) = 0 /\ Len(rounds) = 0
      BY <1>1, <1>3, EmptyList, EndedResults, FailedNone
    <3>3. /\ r.took = <<>> /\ r.raw = <<>> /\ r.from = 0 /\ r.pc = "idle"
          /\ Shaped(r)
      BY <2>2 DEF Shaped
    <3> QED BY <2>4, <3>1, <3>2, <3>3, SumNone DEF Gathered
  <2> QED BY <2>3, <2>5 DEF ReportersInv
<1>6. SaidInv
  BY <1>1, EmptyList DEF SaidInv
<1> QED BY <1>1, <1>2, <1>3, <1>4, <1>5, <1>6 DEF RoundsInv

\* A step that ends no run and stores nothing of a run leaves the rest.
LEMMA RunAside ==
  ASSUME NEW who, RoundsInv(who), TestRunInv',
         UNCHANGED <<resultKeys, reporter, rounds, reportsTold, twice>>
  PROVE  RoundsInv(who)'
<1>1. EndedInv' /\ StoredInv' /\ twice' \in Nat
  BY DEF RoundsInv, EndedInv, StoredInv
<1>2. ReportersInv(who)'
  BY DEF RoundsInv, ReportersInv, Gathered
<1>3. SaidInv'
  BY DEF RoundsInv, SaidInv, Said
<1> QED BY <1>1, <1>2, <1>3 DEF RoundsInv

\* A run that ends replaces what was stored of its scenario, or leaves all as it was.
LEMMA RunEndKeeps ==
  ASSUME NEW who, RoundsInv(who), NEW cap, NEW stores \in BOOLEAN,
         Rounds(who, cap)!EndRun(stores),
         stores => resultKeys' = [k \in DOMAIN resultKeys \cup {JuniorKey(run.by)} |->
                                    IF k = JuniorKey(run.by)
                                    THEN [junior |-> Rounds(who, cap)!Result]
                                    ELSE resultKeys[k]],
         ~stores => UNCHANGED resultKeys
  PROVE  RoundsInv(who)'
<1> DEFINE N == Len(rounds)
<1>1. PICK e : /\ rounds' = Append(rounds, e) /\ e.by = run.by /\ e.stored = stores
               /\ e.result = Rounds(who, cap)!Result
               /\ TestRunInv' /\ EndedInv'
  BY RunEnds DEF RoundsInv
<1>2. UNCHANGED <<reporter, reportsTold, twice>>
  BY DEF Rounds!EndRun, Rounds!aside
<1>3. PICK t : t = rounds' /\ t = Append(rounds, e)
  BY <1>1
<1>4. PICK doc : doc = e.result /\ Rounds(who, cap)!Result = doc
  BY <1>1
<1>5. /\ IsList(rounds) /\ Ended(rounds) /\ N \in Nat /\ Len(t) = N + 1 /\ t[N + 1] = e
      /\ \A i \in 1 .. N : t[i] = rounds[i]
  BY <1>3, EndedResults, ListAppended DEF RoundsInv, EndedInv
<1>6. Len(e.result.failed) \in Nat
  <2>1. Ended(rounds')
    BY <1>1 DEF EndedInv, Ended, Accounted, IsList
  <2> QED BY <1>3, <1>5, <2>1 DEF Ended
<1>7. /\ \A n \in 0 .. N : Latest(t, n) = Latest(rounds, n)
      /\ \A i \in Latest(t, N + 1) :
           \/ i = N + 1 /\ e.stored
           \/ i \in Latest(rounds, N) /\ ~(e.stored /\ e.by = rounds[i].by)
      /\ e.stored => N + 1 \in Latest(t, N + 1)
      /\ \A i \in Latest(rounds, N) : ~(e.stored /\ e.by = rounds[i].by) => i \in Latest(t, N + 1)
  BY <1>3, <1>5, LatestLater
<1>8. \A S : S \subseteq 1 .. N => FailedIn(t, S) = FailedIn(rounds, S)
  BY <1>3, <1>5, <1>6, FailedLater
<1>9. \A n : Latest(rounds, n) \subseteq 1 .. n
  BY DEF Latest
<1> HIDE DEF N
<1>10. StoredInv'
  <2>1. StoredInv
    BY DEF RoundsInv
  <2>2. /\ \A i \in Latest(rounds, N) :
             /\ JuniorKey(rounds[i].by) \in DOMAIN resultKeys
             /\ resultKeys[JuniorKey(rounds[i].by)] = [junior |-> rounds[i].result]
        /\ \A k \in DOMAIN resultKeys :
             \/ k[1] = "senior" /\ FailuresIn(resultKeys[k]) = 0
             \/ \E i \in Latest(rounds, N) : k = JuniorKey(rounds[i].by)
    BY <2>1 DEF StoredInv, N
  <2>3. PICK q : q = resultKeys'
    OBVIOUS
  <2>4. /\ stores => q = [k \in DOMAIN resultKeys \cup {JuniorKey(run.by)} |->
                            IF k = JuniorKey(run.by) THEN [junior |-> doc] ELSE resultKeys[k]]
        /\ ~stores => q = resultKeys
    BY <1>4, <2>3
  <2>5. \A s, u : JuniorKey(s) = JuniorKey(u) => s = u
    BY DEF JuniorKey
  <2>6. ASSUME NEW i \in Latest(t, N + 1)
        PROVE  /\ JuniorKey(t[i].by) \in DOMAIN q
               /\ q[JuniorKey(t[i].by)] = [junior |-> t[i].result]
    <3>1. CASE i = N + 1 /\ e.stored
      BY <1>1, <1>4, <1>5, <3>1, <2>4
    <3>2. CASE i \in Latest(rounds, N) /\ ~(e.stored /\ e.by = rounds[i].by)
      <4>1. t[i] = rounds[i]
        BY <1>5, <1>9, <3>2
      <4>2. stores => JuniorKey(rounds[i].by) # JuniorKey(run.by)
        BY <1>1, <2>5, <3>2
      <4> QED BY <2>2, <2>4, <3>2, <4>1, <4>2
    <3> QED BY <1>7, <2>6, <3>1, <3>2
  <2>7. ASSUME NEW k \in DOMAIN q
        PROVE  \/ k[1] = "senior" /\ FailuresIn(q[k]) = 0
               \/ \E i \in Latest(t, N + 1) : k = JuniorKey(t[i].by)
    <3>1. CASE stores /\ k = JuniorKey(run.by)
      BY <1>1, <1>5, <1>7, <3>1
    <3>2. CASE ~stores \/ k # JuniorKey(run.by)
      <4>1. k \in DOMAIN resultKeys /\ q[k] = resultKeys[k]
        BY <2>4, <2>7, <3>2
      <4>2. CASE \E i \in Latest(rounds, N) : k = JuniorKey(rounds[i].by)
        <5>1. PICK i \in Latest(rounds, N) : k = JuniorKey(rounds[i].by)
          BY <4>2
        <5>2. ~(e.stored /\ e.by = rounds[i].by) /\ t[i] = rounds[i]
          BY <1>1, <1>5, <1>9, <3>2, <5>1
        <5>3. i \in Latest(t, N + 1)
          BY <1>7, <5>2
        <5> QED BY <5>1, <5>2, <5>3
      <4> QED BY <2>2, <4>1, <4>2
    <3> QED BY <3>1, <3>2
  <2>8. rounds' = t /\ Len(rounds') = N + 1 /\ resultKeys' = q
    BY <1>3, <1>5, <2>3
  <2> QED BY <2>6, <2>7, <2>8, Zenon DEF StoredInv
<1>11. ReportersInv(who)'
  <2>1. ReportersInv(who)
    BY DEF RoundsInv
  <2>2. ASSUME NEW p \in who PROVE Gathered(reporter'[p], rounds', twice')
    <3>1. PICK r : r = reporter[p] /\ r = reporter'[p]
      BY <1>2
    <3>2. Gathered(r, rounds, twice)
      BY <2>1, <3>1 DEF ReportersInv
    <3>3. r.from \in 0 .. N
      BY <3>2 DEF Gathered, N
    <3>4. ASSUME NEW i \in Found(r, t) PROVE i \in Found(r, rounds)
      <4>1. i \in Latest(rounds, r.from) /\ i \in Latest(t, N + 1) /\ JuniorKey(t[i].by) \in r.keys
        BY <1>5, <1>7, <3>3, <3>4 DEF Found, StillLatest
      <4>2. i \in 1 .. N /\ t[i] = rounds[i]
        BY <1>5, <1>9, <3>3, <4>1
      <4>3. i \in Latest(rounds, N)
        BY <1>5, <1>7, <4>1, <4>2
      <4> QED BY <4>1, <4>2, <4>3 DEF Found, StillLatest, N
    <3>5. Found(r, t) \subseteq 1 .. N /\ Found(r, rounds) \subseteq 1 .. N
      BY <1>9, <1>5, <3>3, <3>4 DEF Found, StillLatest
    <3>6. SumFailed(r.took) >= FailedIn(t, Found(r, t))
      <4>1. SumFailed(r.took) >= FailedIn(rounds, Found(r, rounds))
        BY <3>2 DEF Gathered
      <4>2. /\ FailedIn(rounds, Found(r, t)) <= FailedIn(rounds, Found(r, rounds))
            /\ FailedIn(rounds, Found(r, t)) \in Int /\ FailedIn(rounds, Found(r, rounds)) \in Int
        BY <1>5, <3>4, FailedLess
      <4>3. FailedIn(t, Found(r, t)) = FailedIn(rounds, Found(r, t))
        BY <1>8, <3>5
      <4>4. SumFailed(r.took) \in Int
        BY <3>2, SumJoined DEF Gathered
      <4> QED BY <4>1, <4>2, <4>3, <4>4
    <3>7. \A i \in Latest(t, r.from) : JuniorKey(t[i].by) \in r.must
      BY <1>5, <1>7, <1>9, <3>3, <3>2 DEF Gathered
    <3>8. r.from \in 0 .. Len(t) /\ r.from # Len(t)
      BY <1>5, <3>3
    <3>9. Gathered(r, t, twice')
      <4>1. Results(r.took) /\ Results(r.raw) /\ Shaped(r)
        BY <3>2 DEF Gathered
      <4>2. r.pc = "compare" => r.must \subseteq r.keys
        BY <3>2 DEF Gathered
      <4> QED BY <3>6, <3>7, <3>8, <4>1, <4>2 DEF Gathered
    <3> QED BY <1>3, <3>1, <3>9
  <2> QED BY <1>2, <2>1, <2>2 DEF ReportersInv
<1>12. SaidInv'
  <2>1. SaidInv
    BY DEF RoundsInv
  <2>2. ASSUME NEW n \in 1 .. Len(reportsTold) PROVE Said(n)'
    <3>1. PICK s : s = reportsTold[n] /\ s = reportsTold'[n]
      BY <1>2
    <3>2. Said(n)
      BY <2>1 DEF SaidInv
    <3>3. s.to \in 0 .. N /\ s.from \in 0 .. s.to
      BY <3>1, <3>2 DEF Said, N
    <3>4. /\ s.to \in 0 .. N + 1 /\ s.from \in 0 .. N
          /\ Latest(t, s.from) = Latest(rounds, s.from) /\ Latest(t, s.to) = Latest(rounds, s.to)
          /\ Latest(rounds, s.from) \subseteq 1 .. N
      BY <1>5, <1>7, <1>9, <3>3
    <3>5. /\ FailedIn(t, Latest(rounds, s.from) \cap Latest(rounds, s.to))
               = FailedIn(rounds, Latest(rounds, s.from) \cap Latest(rounds, s.to))
          /\ FailedIn(t, Latest(rounds, s.from)) = FailedIn(rounds, Latest(rounds, s.from))
      BY <1>8, <3>4
    <3> QED BY <1>2, <1>3, <1>5, <3>1, <3>2, <3>3, <3>4, <3>5 DEF Said, N
  <2> QED BY <1>2, <2>1, <2>2 DEF SaidInv
<1>13. twice' \in Nat
  BY <1>2 DEF RoundsInv
<1> QED BY <1>1, <1>10, <1>11, <1>12, <1>13 DEF RoundsInv

LEMMA SeniorKeeps ==
  ASSUME NEW who, RoundsInv(who), NEW cap, NEW scenario, NEW doc,
         Rounds(who, cap)!SeniorStores(scenario, doc)
  PROVE  RoundsInv(who)'
<1> DEFINE key == <<"senior", scenario>>
<1>1. /\ key \notin DOMAIN resultKeys
      /\ resultKeys' = [k \in DOMAIN resultKeys \cup {key} |->
                          IF k = key THEN [senior |-> doc] ELSE resultKeys[k]]
      /\ UNCHANGED <<run, rounds, reporter, reportsTold, twice>>
  BY DEF Rounds!SeniorStores, Rounds!Put, Rounds!aside
<1>2. StoredInv
  BY DEF RoundsInv
<1>3. StoredInv'
  <2>1. FailuresIn([senior |-> doc]) = 0 /\ key[1] = "senior"
    BY DEF FailuresIn
  <2>2. \A s : JuniorKey(s) # key
    BY DEF JuniorKey
  <2> HIDE DEF key
  <2>3. PICK q : q = resultKeys'
    OBVIOUS
  <2>4. /\ DOMAIN q = DOMAIN resultKeys \cup {key} /\ q[key] = [senior |-> doc]
        /\ \A k \in DOMAIN resultKeys : q[k] = resultKeys[k]
    BY <1>1, <2>3
  <2>5. \A k \in DOMAIN q : \/ k[1] = "senior" /\ FailuresIn(q[k]) = 0
                            \/ \E i \in Latest(rounds, Len(rounds)) : k = JuniorKey(rounds[i].by)
    BY <1>2, <2>1, <2>4 DEF StoredInv
  <2> QED BY <1>1, <1>2, <2>3, <2>4, <2>5 DEF StoredInv
<1>4. TestRunInv' /\ EndedInv' /\ twice' \in Nat
  BY <1>1 DEF RoundsInv, TestRunInv, EndedInv
<1>5. ReportersInv(who)'
  BY <1>1 DEF RoundsInv, ReportersInv, Gathered
<1>6. SaidInv'
  BY <1>1 DEF RoundsInv, SaidInv, Said
<1> QED BY <1>3, <1>4, <1>5, <1>6 DEF RoundsInv

LEMMA LatestOne ==
  ASSUME NEW rs, NEW n \in Nat, NEW i \in Latest(rs, n), NEW j \in Latest(rs, n), rs[i].by = rs[j].by
  PROVE  i = j
<1>1. i \in 1 .. n /\ j \in 1 .. n /\ rs[i].stored /\ rs[j].stored
  BY DEF Latest
<1>2. ~(i < j)
  <2> SUFFICES ASSUME i < j PROVE FALSE
    OBVIOUS
  <2>1. j \in i + 1 .. n
    BY <1>1
  <2> QED BY <1>1, <2>1 DEF Latest
<1>3. ~(j < i)
  <2> SUFFICES ASSUME j < i PROVE FALSE
    OBVIOUS
  <2>1. i \in j + 1 .. n
    BY <1>1
  <2> QED BY <1>1, <2>1 DEF Latest
<1> QED BY <1>1, <1>2, <1>3

\* What a reporter has stays so when a key is named again.
LEMMA GatheredStays ==
  ASSUME NEW r, NEW rs, NEW n, Gathered(r, rs, n), NEW k, k = 0 => n = 0
  PROVE  Gathered(r, rs, k)
BY DEF Gathered

LEMMA OneReporter ==
  ASSUME NEW who, RoundsInv(who), NEW p \in who, NEW r,
         reporter' = [reporter EXCEPT ![p] = r], UNCHANGED rounds,
         twice' = 0 => twice = 0,
         Gathered(r, rounds, twice')
  PROVE  ReportersInv(who)'
<1>1. ReportersInv(who)
  BY DEF RoundsInv
<1>2. reporter' = [q \in who |-> IF q = p THEN r ELSE reporter[q]]
  BY <1>1 DEF ReportersInv
<1>3. ASSUME NEW q \in who PROVE Gathered(reporter'[q], rounds', twice')
  <2>1. PICK s : s = reporter'[q]
    OBVIOUS
  <2>2. PICK k : k = twice'
    OBVIOUS
  <2>3. Gathered(s, rounds, k)
    <3>1. CASE q = p
      BY <1>2, <2>1, <3>1, <2>2
    <3>2. CASE q # p
      <4>1. s = reporter[q]
        BY <1>2, <2>1, <3>2
      <4>2. Gathered(s, rounds, twice)
        BY <1>1, <4>1 DEF ReportersInv
      <4> QED BY <2>2, <4>2, GatheredStays
    <3> QED BY <3>1, <3>2
  <2> QED BY <2>1, <2>2, <2>3
<1>4. reporter' = [q \in who |-> reporter'[q]]
  BY <1>2
<1> QED BY <1>3, <1>4 DEF ReportersInv

LEMMA ReportBegins ==
  ASSUME NEW who, RoundsInv(who), NEW cap, NEW p \in who,
         NEW raw \in RawResults, Rounds(who, cap)!Report(p, raw)
  PROVE  RoundsInv(who)'
<1>2. PICK r : r = [pc |-> "scan", must |-> DOMAIN resultKeys, took |-> <<>>, keys |-> {},
                    raw |-> raw, from |-> Len(rounds)]
  OBVIOUS
<1>3. /\ reporter' = [reporter EXCEPT ![p] = r]
      /\ UNCHANGED <<run, resultKeys, rounds, reportsTold, twice>>
  <2>1. PICK i : i = [pc |-> "idle", must |-> {}, took |-> <<>>, keys |-> {}, raw |-> <<>>,
                      from |-> 0]
    OBVIOUS
  <2>2. i = Rounds(who, cap)!Idle
    BY <2>1 DEF Rounds!Idle
  <2>3. PICK keys, size : keys = DOMAIN resultKeys /\ size = Len(rounds)
    OBVIOUS
  <2>4. [i EXCEPT !.pc = "scan", !.must = keys, !.raw = raw, !.from = size] = r
    <3>1. PICK s : s = [i EXCEPT !.pc = "scan", !.must = keys, !.raw = raw, !.from = size]
      OBVIOUS
    <3>2. /\ DOMAIN s = {"pc", "must", "took", "keys", "raw", "from"}
          /\ s = [x \in DOMAIN s |-> s[x]]
      BY <2>1, <3>1
    <3>3. /\ s.pc = "scan" /\ s.must = keys /\ s.took = <<>> /\ s.keys = {} /\ s.raw = raw
          /\ s.from = size
      BY <2>1, <3>1
    <3>4. r = [pc |-> "scan", must |-> keys, took |-> <<>>, keys |-> {}, raw |-> raw,
               from |-> size]
      BY <1>2, <2>3
    <3> QED BY <3>1, <3>2, <3>3, <3>4
  <2>5. [i EXCEPT !.pc = "scan", !.must = DOMAIN resultKeys, !.raw = raw, !.from = Len(rounds)] = r
    BY <1>2, <2>3, <2>4, Zenon
  <2> QED BY <2>2, <2>5 DEF Rounds!Report, Rounds!SetReporter
<1>4. EndedInv /\ StoredInv /\ Ended(rounds) /\ Len(rounds) \in Nat
  BY EndedResults DEF RoundsInv
<1>5. Results(raw)
  <2>1. raw \in Seq([raw : [total : Nat, passed : Nat, failed : Nat]])
    BY SiteRounds
  <2> DEFINE S == [raw : [total : Nat, passed : Nat, failed : Nat]]
  <2>2. \A x \in S : FailuresIn(x) \in Nat
    <3> SUFFICES ASSUME NEW x \in [raw : [total : Nat, passed : Nat, failed : Nat]]
                 PROVE  FailuresIn(x) \in Nat
      OBVIOUS
    <3>1. DOMAIN x = {"raw"} /\ x.raw \in [total : Nat, passed : Nat, failed : Nat]
      OBVIOUS
    <3>2. x.raw.failed \in Nat
      BY <3>1
    <3> QED BY <3>1, <3>2 DEF FailuresIn
  <2> HIDE DEF S
  <2>3. IsList(raw) /\ \A n \in 1 .. Len(raw) : raw[n] \in S
    <3>1. raw \in Seq(S)
      BY <2>1 DEF S
    <3>2. \A n \in 1 .. Len(raw) : raw[n] \in S
      BY <3>1
    <3> QED BY <3>1, <3>2 DEF IsList
  <2> QED BY <2>2, <2>3 DEF Results
<1>6. Gathered(r, rounds, twice)
  <2>1. Found(r, rounds) = {}
    BY <1>2 DEF Found
  <2>2. FailedIn(rounds, {}) = 0
    BY <1>4, FailedNone
  <2>3. /\ r.took = <<>> /\ r.raw = raw /\ r.from = Len(rounds) /\ r.pc = "scan"
        /\ r.must = DOMAIN resultKeys /\ Shaped(r)
    BY <1>2 DEF Shaped
  <2>4. \A i \in Latest(rounds, Len(rounds)) : JuniorKey(rounds[i].by) \in r.must
    BY <1>4, <2>3 DEF StoredInv
  <2> QED BY <1>4, <1>5, <2>1, <2>2, <2>3, <2>4, SumNone DEF Gathered
<1>7. ReportersInv(who)'
  BY <1>3, <1>6, OneReporter
<1>8. TestRunInv' /\ EndedInv' /\ StoredInv' /\ twice' \in Nat
  BY <1>3 DEF RoundsInv, TestRunInv, EndedInv, StoredInv
<1>9. SaidInv'
  BY <1>3 DEF RoundsInv, SaidInv, Said
<1> QED BY <1>7, <1>8, <1>9 DEF RoundsInv

\* A key that is named the first time brings the failures of its run, and no other's.
LEMMA Collects ==
  ASSUME NEW who, RoundsInv(who), NEW cap, NEW p \in who,
         NEW key \in DOMAIN resultKeys, Rounds(who, cap)!CollectAgentResults(p, key)
  PROVE  RoundsInv(who)'
<1>1. PICK r : r = reporter[p]
  OBVIOUS
<1>2. PICK d : d = resultKeys[key]
  OBVIOUS
<1>3. PICK s : s = [r EXCEPT !.took = Append(r.took, d), !.keys = r.keys \cup {key}]
  OBVIOUS
<1>4. /\ reporter' = [reporter EXCEPT ![p] = s]
      /\ UNCHANGED <<run, resultKeys, rounds, reportsTold>>
      /\ r.pc = "scan"
      /\ IF key \in r.keys THEN twice' = twice + 1 ELSE twice' = twice
  BY <1>1, <1>2, <1>3 DEF Rounds!CollectAgentResults, Rounds!SetReporter
<1>5. EndedInv /\ StoredInv /\ twice \in Nat /\ Ended(rounds) /\ Len(rounds) \in Nat
  BY EndedResults DEF RoundsInv
<1>6. Gathered(r, rounds, twice)
  BY <1>1 DEF RoundsInv, ReportersInv
<1>7. r.from \in 0 .. Len(rounds) /\ Results(r.took) /\ SumFailed(r.took) \in Int
  BY <1>6, SumJoined DEF Gathered
<1>8. /\ s.took = Append(r.took, d) /\ s.keys = r.keys \cup {key} /\ s.raw = r.raw
      /\ s.must = r.must /\ s.from = r.from /\ s.pc = "scan" /\ Shaped(s)
  BY <1>6, <1>3, <1>4 DEF Gathered, Shaped
<1>9. FailuresIn(d) \in Nat
      /\ \/ FailuresIn(d) = 0 /\ ~\E i \in Latest(rounds, Len(rounds)) : key = JuniorKey(rounds[i].by)
         \/ \E i \in Latest(rounds, Len(rounds)) :
              key = JuniorKey(rounds[i].by) /\ FailuresIn(d) = Len(rounds[i].result.failed)
  <2>1. CASE ~\E i \in Latest(rounds, Len(rounds)) : key = JuniorKey(rounds[i].by)
    BY <1>2, <1>5, <2>1 DEF StoredInv
  <2>2. CASE \E i \in Latest(rounds, Len(rounds)) : key = JuniorKey(rounds[i].by)
    <3>1. PICK i \in Latest(rounds, Len(rounds)) : key = JuniorKey(rounds[i].by)
      BY <2>2
    <3>2. PICK res : res = rounds[i].result
      OBVIOUS
    <3>3. d = [junior |-> res]
      BY <1>2, <1>5, <3>1, <3>2 DEF StoredInv
    <3>4. FailuresIn(d) = Len(res.failed)
      BY <3>3 DEF FailuresIn
    <3>5. Len(res.failed) \in Nat
      BY <1>5, <3>2 DEF Ended, Latest
    <3> QED BY <3>1, <3>2, <3>4, <3>5
  <2> QED BY <2>1, <2>2
<1>10. Results(s.took) /\ SumFailed(s.took) = SumFailed(r.took) + FailuresIn(d)
  BY <1>7, <1>8, <1>9, SumAppended
<1>11. FailedIn(rounds, Found(r, rounds)) \in Int
  BY <1>5, FailedLess
<1>12. /\ SumFailed(s.took) >= FailedIn(rounds, Found(s, rounds))
       /\ s.from = Len(rounds) /\ twice' = 0 => SumFailed(s.took) = FailedIn(rounds, Found(s, rounds))
  <2>1. /\ SumFailed(r.took) >= FailedIn(rounds, Found(r, rounds))
        /\ r.from = Len(rounds) /\ twice = 0 => SumFailed(r.took) = FailedIn(rounds, Found(r, rounds))
    BY <1>6 DEF Gathered
  <2>2. CASE key \in r.keys
    <3>1. Found(s, rounds) = Found(r, rounds)
      BY <1>8, <2>2 DEF Found
    <3>2. twice' # 0
      BY <1>4, <1>5, <2>2
    <3> QED BY <1>7, <1>9, <1>10, <1>11, <2>1, <3>1, <3>2
  <2>3. CASE key \notin r.keys /\ ~\E i \in Latest(rounds, Len(rounds)) : key = JuniorKey(rounds[i].by)
    <3>1. Found(s, rounds) = Found(r, rounds)
      BY <1>8, <2>3 DEF Found, StillLatest
    <3>2. FailuresIn(d) = 0 /\ twice' = twice
      BY <1>4, <1>9, <2>3
    <3> QED BY <1>7, <1>8, <1>10, <1>11, <2>1, <3>1, <3>2
  <2>4. CASE key \notin r.keys /\ \E i \in Latest(rounds, Len(rounds)) : key = JuniorKey(rounds[i].by)
    <3>1. PICK i \in Latest(rounds, Len(rounds)) :
                 key = JuniorKey(rounds[i].by) /\ FailuresIn(d) = Len(rounds[i].result.failed)
      BY <1>9, <2>4
    <3>2. \A j \in Latest(rounds, Len(rounds)) : JuniorKey(rounds[j].by) = key => j = i
      BY <1>5, LatestOne, <3>1 DEF JuniorKey
    <3>3. i \in 1 .. Len(rounds) /\ i \notin Found(r, rounds)
      BY <2>4, <3>1 DEF Found, Latest
    <3>4. twice' = twice
      BY <1>4, <2>4
    <3>5. CASE i \in Latest(rounds, r.from)
      <4>1. Found(s, rounds) = Found(r, rounds) \cup {i}
        BY <1>8, <3>1, <3>2, <3>5 DEF Found, StillLatest
      <4>2. FailedIn(rounds, Found(r, rounds) \cup {i})
              = FailedIn(rounds, Found(r, rounds)) + Len(rounds[i].result.failed)
        BY <1>5, <3>3, FailedMore
      <4> QED BY <1>7, <1>8, <1>9, <1>10, <1>11, <2>1, <3>1, <3>4, <4>1, <4>2
    <3>6. CASE i \notin Latest(rounds, r.from)
      <4>1. Found(s, rounds) = Found(r, rounds)
        BY <1>8, <3>1, <3>2, <3>6 DEF Found, StillLatest
      <4>2. r.from # Len(rounds)
        BY <3>1, <3>6
      <4> QED BY <1>7, <1>8, <1>9, <1>10, <1>11, <2>1, <4>1, <4>2
    <3> QED BY <3>5, <3>6
  <2> QED BY <2>2, <2>3, <2>4
<1>13. Gathered(s, rounds, twice')
  BY <1>6, <1>8, <1>10, <1>12 DEF Gathered
<1>14. ReportersInv(who)'
  <2>1. twice' = 0 => twice = 0
    BY <1>4, <1>5
  <2> QED BY <1>4, <1>13, <2>1, OneReporter
<1>15. TestRunInv' /\ EndedInv' /\ StoredInv' /\ twice' \in Nat
  BY <1>4, <1>5 DEF RoundsInv, TestRunInv, EndedInv, StoredInv
<1>16. SaidInv'
  <2>1. twice' = 0 => twice = 0
    BY <1>4, <1>5
  <2>2. ASSUME NEW n \in 1 .. Len(reportsTold) PROVE Said(n)'
    BY <1>4, <2>1 DEF RoundsInv, SaidInv, Said
  <2> QED BY <1>4, <2>2 DEF RoundsInv, SaidInv
<1> QED BY <1>14, <1>15, <1>16 DEF RoundsInv

LEMMA PreviousRead ==
  ASSUME NEW who, RoundsInv(who), NEW cap, NEW p \in who,
         Rounds(who, cap)!ReadPrevious(p)
  PROVE  RoundsInv(who)'
<1>1. PICK r : r = reporter[p]
  OBVIOUS
<1>2. PICK s : s = [r EXCEPT !.pc = "compare"]
  OBVIOUS
<1>3. /\ reporter' = [reporter EXCEPT ![p] = s]
      /\ UNCHANGED <<run, resultKeys, rounds, reportsTold, twice>>
      /\ r.must \subseteq r.keys
  BY <1>1, <1>2 DEF Rounds!ReadPrevious, Rounds!SetReporter, Rounds!Scanned
<1>4. Gathered(r, rounds, twice)
  BY <1>1 DEF RoundsInv, ReportersInv
<1>6. Gathered(s, rounds, twice)
  <2>1. r = [pc |-> r.pc, must |-> r.must, took |-> r.took, keys |-> r.keys, raw |-> r.raw,
             from |-> r.from]
    BY <1>4 DEF Gathered, Shaped
  <2>2. s = [pc |-> "compare", must |-> r.must, took |-> r.took, keys |-> r.keys, raw |-> r.raw,
             from |-> r.from]
    BY <1>2, <2>1
  <2>3. /\ s.took = r.took /\ s.keys = r.keys /\ s.raw = r.raw /\ s.must = r.must /\ s.from = r.from
        /\ Shaped(s)
    BY <2>2 DEF Shaped
  <2>4. Found(s, rounds) = Found(r, rounds)
    BY <2>3 DEF Found
  <2> QED BY <1>3, <1>4, <2>3, <2>4 DEF Gathered
<1>7. ReportersInv(who)'
  BY <1>3, <1>6, OneReporter
<1>8. TestRunInv' /\ EndedInv' /\ StoredInv' /\ twice' \in Nat
  BY <1>3 DEF RoundsInv, TestRunInv, EndedInv, StoredInv
<1>9. SaidInv'
  BY <1>3 DEF RoundsInv, SaidInv, Said
<1> QED BY <1>7, <1>8, <1>9 DEF RoundsInv

\* The failures a report counts are those of its results.
LEMMA FailedCounted ==
  ASSUME NEW who, NEW cap, NEW rs, Results(rs)
  PROVE  Rounds(who, cap)!SumOf(
           [n \in DOMAIN rs |-> Rounds(who, cap)!Failed(rs[n])]) = SumFailed(rs)
<1> DEFINE N == Len(rs)
<1>1. N \in Nat /\ DOMAIN rs = 1 .. N
  BY ListIs DEF Results
<1>2. PICK m : m = [n \in 1 .. N |-> FailuresIn(rs[n])]
  OBVIOUS
<1>3. PICK l : l = [n \in DOMAIN rs |-> Rounds(who, cap)!Failed(rs[n])]
  OBVIOUS
<1>4. l = m
  BY <1>1, <1>2, <1>3 DEF Rounds!Failed, FailuresIn
<1>5. Len(m) = N
  <2>1. m \in [1 .. N -> Nat]
    BY <1>2 DEF Results
  <2> HIDE DEF N
  <2>2. m \in Seq(Nat)
    BY <1>1, <2>1, SeqDef
  <2> QED BY <1>1, <2>1, <2>2, LenProperties
<1>6. Rounds(who, cap)!SumOf(m) = TotalTo(m, Len(m))
  BY Zenon DEF Rounds!SumOf, TotalTo
<1> QED BY <1>2, <1>3, <1>4, <1>5, <1>6 DEF SumFailed

\* A report counts what it found.
LEMMA Tells ==
  ASSUME NEW who, RoundsInv(who), NEW cap, NEW p \in who,
         Rounds(who, cap)!StoreMetrics(p)
  PROVE  RoundsInv(who)'
<1> DEFINE N == Len(reportsTold)
<1>1. PICK r, rs, m, f : /\ r = reporter[p] /\ rs = r.took \o r.raw
                         /\ m = Rounds(who, cap)!CalculateMetrics(rs)
                         /\ f = Rounds(who, cap)!CategorizeFindings(rs)
  OBVIOUS
<1>2. PICK items : items = Rounds(who, cap)!BuildActionItems(f)
  OBVIOUS
<1>3. PICK t : t = [metrics |-> m, findings |-> f, items |-> items, raw |-> r.raw,
                    from |-> r.from, to |-> Len(rounds)]
  OBVIOUS
<1>4. PICK idle : idle = Rounds(who, cap)!Idle
  OBVIOUS
<1>5. /\ r.pc = "compare" /\ reportsTold' = Append(reportsTold, t)
      /\ reporter' = [reporter EXCEPT ![p] = idle]
      /\ UNCHANGED <<run, resultKeys, rounds, twice>>
  <2>1. rs = Rounds(who, cap)!AllResults(p)
    BY <1>1 DEF Rounds!AllResults
  <2> QED BY <1>1, <1>2, <1>3, <1>4, <2>1 DEF Rounds!StoreMetrics, Rounds!SetReporter
<1>6. EndedInv /\ SaidInv /\ Ended(rounds) /\ Len(rounds) \in Nat
  BY EndedResults DEF RoundsInv
<1>7. Gathered(r, rounds, twice)
  BY <1>1 DEF RoundsInv, ReportersInv
<1>8. /\ IsList(reportsTold) /\ N \in Nat /\ IsList(reportsTold') /\ Len(reportsTold') = N + 1
      /\ reportsTold'[N + 1] = t /\ \A n \in 1 .. N : reportsTold'[n] = reportsTold[n]
  BY <1>6, <1>5, ListIs, ListAppended DEF SaidInv
<1>9. m.failed = SumFailed(rs)
  <2>1. Results(rs)
    BY <1>1, <1>7, SumJoined DEF Gathered
  <2>2. PICK a, b, c : /\ m = [total |-> a, passed |-> b, failed |-> c]
                       /\ c = Rounds(who, cap)!SumOf(
                                [n \in DOMAIN rs |-> Rounds(who, cap)!Failed(rs[n])])
    BY <1>1, Zenon DEF Rounds!CalculateMetrics
  <2>3. c = SumFailed(rs)
    BY <2>1, <2>2, FailedCounted
  <2> QED BY <2>2, <2>3
<1>11. /\ Results(r.raw) /\ r.from \in 0 .. Len(rounds)
       /\ Found(r, rounds) = Latest(rounds, r.from) \cap Latest(rounds, Len(rounds))
  BY <1>5, <1>7 DEF Gathered, Found, StillLatest
<1>12. /\ m.failed >= FailedIn(rounds, Latest(rounds, r.from) \cap Latest(rounds, Len(rounds)))
                        + SumFailed(r.raw)
       /\ r.from = Len(rounds) /\ twice = 0 =>
            m.failed = FailedIn(rounds, Latest(rounds, r.from)) + SumFailed(r.raw)
  <2>1. /\ SumFailed(r.took) \in Int /\ SumFailed(r.raw) \in Int
        /\ SumFailed(rs) = SumFailed(r.took) + SumFailed(r.raw)
    BY <1>1, <1>7, SumJoined DEF Gathered
  <2>2. FailedIn(rounds, Found(r, rounds)) \in Int
    BY <1>6, FailedLess
  <2>3. /\ SumFailed(r.took) >= FailedIn(rounds, Found(r, rounds))
        /\ r.from = Len(rounds) /\ twice = 0 => SumFailed(r.took) = FailedIn(rounds, Found(r, rounds))
    BY <1>7 DEF Gathered
  <2>4. r.from = Len(rounds) => Found(r, rounds) = Latest(rounds, r.from)
    BY <1>11
  <2>5. PICK a, b : a = SumFailed(r.took) /\ b = SumFailed(r.raw)
    OBVIOUS
  <2>6. PICK X : X = Found(r, rounds)
    OBVIOUS
  <2>7. m.failed = a + b /\ a \in Int /\ b \in Int
    BY <1>9, <2>1, <2>5
  <2>8. /\ a + b >= FailedIn(rounds, X) + b
        /\ r.from = Len(rounds) /\ twice = 0 => a + b = FailedIn(rounds, X) + b
    BY <2>2, <2>3, <2>5, <2>6, <2>7
  <2> QED BY <1>11, <2>4, <2>5, <2>6, <2>7, <2>8, Zenon
<1>14. ASSUME NEW n \in 1 .. N PROVE Said(n)'
  <2>1. PICK s : s = reportsTold[n] /\ s = reportsTold'[n]
    BY <1>8
  <2>2. Said(n)
    BY <1>6 DEF SaidInv
  <2> QED BY <1>5, <2>1, <2>2 DEF Said
<1>15. ASSUME NEW n, n = N + 1 PROVE Said(n)'
  <2>1. t.metrics = m /\ t.raw = r.raw /\ t.from = r.from /\ t.to = Len(rounds)
    BY <1>3
  <2>2. reportsTold'[n] = t
    BY <1>8, <1>15
  <2>3. Len(rounds) \in 0 .. Len(rounds) /\ rounds' = rounds /\ twice' = twice
    BY <1>5, <1>6
  <2>4. Results(t.raw) /\ t.to \in 0 .. Len(rounds') /\ t.from \in 0 .. t.to
    BY <1>11, <2>1, <2>3
  <2>5. /\ t.metrics.failed >=
             FailedIn(rounds', Latest(rounds', t.from) \cap Latest(rounds', t.to)) + SumFailed(t.raw)
        /\ t.from = t.to /\ twice' = 0 =>
             t.metrics.failed = FailedIn(rounds', Latest(rounds', t.from)) + SumFailed(t.raw)
    BY <1>12, <2>1, <2>3
  <2> QED BY <2>2, <2>4, <2>5 DEF Said
<1>16. SaidInv'
  <2>2. ASSUME NEW n \in 1 .. N + 1 PROVE Said(n)'
    BY <1>8, <1>14, <1>15
  <2> QED BY <1>8, <2>2 DEF SaidInv
<1>17. ReportersInv(who)'
  <2>2. idle = [pc |-> "idle", must |-> {}, took |-> <<>>, keys |-> {}, raw |-> <<>>, from |-> 0]
    BY <1>4 DEF Rounds!Idle
  <2>3. /\ idle.took = <<>> /\ idle.raw = <<>> /\ idle.from = 0 /\ idle.pc = "idle" /\ Shaped(idle)
        /\ Found(idle, rounds) = {}
    BY <2>2 DEF Shaped, Found
  <2>4. Latest(rounds, 0) = {} /\ FailedIn(rounds, {}) = 0
    BY <1>6, FailedNone DEF Latest
  <2>5. Gathered(idle, rounds, twice)
    BY <1>6, <2>3, <2>4, SumNone DEF Gathered
  <2> QED BY <1>5, <2>5, OneReporter
<1>18. TestRunInv' /\ EndedInv' /\ StoredInv' /\ twice' \in Nat
  BY <1>5 DEF RoundsInv, TestRunInv, EndedInv, StoredInv
<1> QED BY <1>16, <1>17, <1>18 DEF RoundsInv

LEMMA RoundsStep ==
  ASSUME NEW who, RoundsInv(who), NEW cap,
         [Rounds(who, cap)!Next]_roundsVars
  PROVE  RoundsInv(who)'
<1>1. CASE UNCHANGED roundsVars
  BY <1>1, RunAside DEF RoundsInv, TestRunInv, roundsVars
<1>2. CASE \E by, tests : /\ IsList(tests) /\ run' = Rounds(who, cap)!Started(by, tests)
                          /\ UNCHANGED <<resultKeys, rounds, reporter, reportsTold, twice>>
  BY <1>2, RunBegins, RunAside
<1>3. CASE \E s \in Scenarios : Rounds(who, cap)!ExecuteRegression(s)
  BY <1>2, <1>3, SuiteListed DEF Rounds!ExecuteRegression, Rounds!aside
<1>4. CASE \E tests \in CrewSuites : Rounds(who, cap)!CrewRuns(tests)
  BY SiteRounds, <1>2, <1>4 DEF IsList, Rounds!CrewRuns, Rounds!aside
<1>5. CASE \/ Rounds(who, cap)!RunPasses
           \/ \E error \in Errors : Rounds(who, cap)!RunFails(error)
  <2>1. TestRunInv'
    BY <1>5, RunGoesOn DEF RoundsInv
  <2>2. UNCHANGED <<resultKeys, reporter, rounds, reportsTold, twice>>
    BY <1>5 DEF Rounds!RunPasses, Rounds!RunFails, Rounds!aside
  <2> QED BY <2>1, <2>2, RunAside
<1>6. CASE \/ Rounds(who, cap)!CrewTold
           \/ Rounds(who, cap)!RecommendationsRaise
           \/ Rounds(who, cap)!BrowserRaises
  BY <1>6, RunEndKeeps DEF Rounds!CrewTold, Rounds!RecommendationsRaise, Rounds!BrowserRaises
<1>7. CASE Rounds(who, cap)!StoreResult
  BY <1>7, RunEndKeeps DEF Rounds!StoreResult, Rounds!Put, Rounds!Key, JuniorKey
<1>8. CASE \E s \in Scenarios, doc \in SeniorResults :
             Rounds(who, cap)!SeniorStores(s, doc)
  BY <1>8, SeniorKeeps
<1>9. ASSUME NEW p \in who,
             \/ \E raw \in RawResults : Rounds(who, cap)!Report(p, raw)
             \/ \E key \in DOMAIN resultKeys :
                  Rounds(who, cap)!CollectAgentResults(p, key)
             \/ Rounds(who, cap)!ReadPrevious(p)
             \/ Rounds(who, cap)!StoreMetrics(p)
      PROVE  RoundsInv(who)'
  BY <1>9, ReportBegins, Collects, PreviousRead, Tells
<1> QED BY <1>1, <1>3, <1>4, <1>5, <1>6, <1>7, <1>8, <1>9 DEF Rounds!Next

\* A step of another part leaves the rounds alone, and theirs is the step of the one that runs.
LEMMA RoundsApart ==
  [Next]_vars =>
    /\ part' = part
    /\ part = "reporting" => [Rounds(Pair, Overlap)!Next]_roundsVars
    /\ part = "rounds" => [Rounds(Reporters, Limits)!Next]_roundsVars
<1> SUFFICES ASSUME [Next]_vars
             PROVE  /\ part' = part
                    /\ part = "reporting" => Rounds(Pair, Overlap)!Next \/ UNCHANGED roundsVars
                    /\ part = "rounds" => Rounds(Reporters, Limits)!Next
                                          \/ UNCHANGED roundsVars
  OBVIOUS
<1>1. ASSUME NEW p, Only(p)
      PROVE  /\ part = p /\ part' = part
             /\ p \notin {"rounds", "reporting"} => UNCHANGED roundsVars
  BY <1>1 DEF Only
<1>2. CASE Next
  BY <1>1, <1>2 DEF Next
<1>3. CASE UNCHANGED vars
  BY <1>3 DEF vars
<1> QED BY <1>2, <1>3

\* Every run that ended is accounted for, every report counts what was stored when it began
\* and still was (agents/junior/junior_qa.py, agents/analyst/qa_analyst.py).
LEMMA RoundsTrue ==
  ASSUME NEW who, RoundsInv(who), NEW cap
  PROVE  Counted(who, cap)
<1>1. EndedInv /\ SaidInv /\ Ended(rounds) /\ Len(rounds) \in Nat /\ DOMAIN rounds = 1 .. Len(rounds)
  BY EndedResults, ListIs DEF RoundsInv, EndedInv
<1>2. DOMAIN reportsTold = 1 .. Len(reportsTold) /\ Len(reportsTold) \in Nat
  BY <1>1, ListIs DEF SaidInv
<1>3. Rounds(who, cap)!RunAccounted
  <2> SUFFICES ASSUME NEW i \in DOMAIN rounds, rounds[i].finished
               PROVE  LET r == rounds[i].result IN
                 /\ r.passed + Len(r.failed) =
                      Cardinality({n \in DOMAIN rounds[i].tests :
                        rounds[i].tests[n].type \in Rounds(who, cap)!Ui
                          \cup Rounds(who, cap)!Api
                          \cup Rounds(who, cap)!Unit})
                 /\ \A c \in {Rounds(who, cap)!Categories[n] :
                              n \in DOMAIN Rounds(who, cap)!Categories} :
                      Rounds(who, cap)!InCategory(r.failed, c) > 0 =>
                        Rounds(who, cap)!InCategory(r.failed, c)
                          <= Rounds(who, cap)!InCategory(r.failed, r.cause)
    BY Zenon DEF Rounds!RunAccounted, Rounds!Cardinality, Cardinality
  <2> DEFINE r == rounds[i].result
             tests == rounds[i].tests
  <2>2. /\ IsList(tests) /\ r.passed + Len(r.failed) = Cardinality(Grouped(tests))
        /\ \A n \in 1 .. 4 : Falling(r.failed, Areas[n]) > 0 =>
             Falling(r.failed, Areas[n]) <= Falling(r.failed, r.cause)
    BY <1>1 DEF EndedInv, Accounted
  <2>3. {n \in DOMAIN tests : tests[n].type \in Rounds(who, cap)!Ui
           \cup Rounds(who, cap)!Api
           \cup Rounds(who, cap)!Unit} = Grouped(tests)
    <3>1. DOMAIN tests = 1 .. Len(tests)
      BY <2>2, ListIs
    <3> QED BY <3>1 DEF Grouped, RunTypes, Rounds!Ui, Rounds!Api, Rounds!Unit
  <2>4. \A c : Rounds(who, cap)!InCategory(r.failed, c) = Falling(r.failed, c)
    BY Zenon DEF Rounds!InCategory, Falling, Rounds!Cardinality, Cardinality
  <2>5. DOMAIN Areas = 1 .. 4 /\ Rounds(who, cap)!Categories = Areas
    BY DEF Areas, Rounds!Categories
  <2>6. \A c \in {Rounds(who, cap)!Categories[n] :
                  n \in DOMAIN Rounds(who, cap)!Categories} :
          \E n \in 1 .. 4 : c = Areas[n]
    BY <2>5
  <2> QED
    <3>1. r.passed + Len(r.failed) =
            Cardinality({n \in DOMAIN tests : tests[n].type \in Rounds(who, cap)!Ui
                           \cup Rounds(who, cap)!Api
                           \cup Rounds(who, cap)!Unit})
      BY <2>2, <2>3
    <3>2. \A c \in {Rounds(who, cap)!Categories[n] :
                    n \in DOMAIN Rounds(who, cap)!Categories} :
            Rounds(who, cap)!InCategory(r.failed, c) > 0 =>
              Rounds(who, cap)!InCategory(r.failed, c)
                <= Rounds(who, cap)!InCategory(r.failed, r.cause)
      <4> SUFFICES ASSUME NEW n \in 1 .. 4
                   PROVE  Rounds(who, cap)!InCategory(r.failed, Areas[n]) > 0 =>
                            Rounds(who, cap)!InCategory(r.failed, Areas[n])
                              <= Rounds(who, cap)!InCategory(r.failed, r.cause)
        BY <2>6
      <4> QED BY <2>2, <2>4
    <3> QED BY <3>1, <3>2, Zenon
<1>4. Rounds(who, cap)!FailuresReported
  <2>1. \A n : Rounds(who, cap)!LastStored(n) = Latest(rounds, n)
    BY DEF Rounds!LastStored, Latest
  <2>2. ASSUME NEW S
        PROVE  Rounds(who, cap)!SumOf(
                 [i \in DOMAIN rounds |-> IF i \in S THEN Len(rounds[i].result.failed) ELSE 0])
               = FailedIn(rounds, S)
    <3> DEFINE N == Len(rounds)
    <3>1. PICK m : m = [i \in 1 .. N |-> IF i \in S THEN Len(rounds[i].result.failed) ELSE 0]
      OBVIOUS
    <3>2. m \in [1 .. N -> Nat]
      BY <1>1, <3>1 DEF Ended
    <3> HIDE DEF N
    <3>3. Len(m) = N
      BY <1>1, <3>2, SeqDef, LenProperties DEF N
    <3>4. Rounds(who, cap)!SumOf(m) = TotalTo(m, Len(m))
      BY Zenon DEF Rounds!SumOf, TotalTo
    <3> QED BY <1>1, <3>1, <3>3, <3>4 DEF FailedIn, N
  <2> SUFFICES ASSUME NEW n \in DOMAIN reportsTold
               PROVE  LET t == reportsTold[n]
                          InRuns(S) ==
                            Rounds(who, cap)!SumOf(
                              [i \in DOMAIN rounds |->
                                 IF i \in S THEN Len(rounds[i].result.failed) ELSE 0])
                            + Rounds(who, cap)!SumOf(
                                [i \in DOMAIN t.raw |-> Rounds(who, cap)!Failed(t.raw[i])])
                          Last(k) == Rounds(who, cap)!LastStored(k)
                      IN /\ t.metrics.failed >= InRuns(Last(t.from) \cap Last(t.to))
                         /\ t.from = t.to /\ twice = 0 => t.metrics.failed = InRuns(Last(t.from))
    BY Zenon DEF Rounds!FailuresReported
  <2>3. PICK t : t = reportsTold[n]
    OBVIOUS
  <2>4. /\ Results(t.raw)
        /\ t.metrics.failed >=
             FailedIn(rounds, Latest(rounds, t.from) \cap Latest(rounds, t.to)) + SumFailed(t.raw)
        /\ t.from = t.to /\ twice = 0 =>
             t.metrics.failed = FailedIn(rounds, Latest(rounds, t.from)) + SumFailed(t.raw)
    BY <1>1, <1>2, <2>3 DEF SaidInv, Said
  <2>5. Rounds(who, cap)!SumOf(
          [i \in DOMAIN t.raw |-> Rounds(who, cap)!Failed(t.raw[i])])
        = SumFailed(t.raw)
    BY <2>4, FailedCounted
  <2> QED BY <2>1, <2>2, <2>3, <2>4, <2>5
<1> QED BY <1>3, <1>4 DEF Counted

\* Of test runs and reports: every run that ended is accounted for, no failure stored goes
\* unreported and none is counted twice.
THEOREM RoundsHold == Spec => []RoundsCounted
<1> DEFINE TwoReport == In("reporting", RoundsInv(Pair))
           OneReports == In("rounds", RoundsInv(Reporters))
           Own == TwoReport /\ OneReports
<1>1. Init => Own
  <2>1. ASSUME Init, part = "reporting" PROVE RoundsInv(Pair)
    BY <2>1, RoundsInit DEF Init
  <2>2. ASSUME Init, part = "rounds" PROVE RoundsInv(Reporters)
    BY <2>2, RoundsInit DEF Init
  <2> QED BY <2>1, <2>2 DEF In
<1>2. Own /\ [Next]_vars => Own'
  <2> SUFFICES ASSUME Own, [Next]_vars PROVE Own'
    OBVIOUS
  <2>1. /\ part' = part
        /\ part = "reporting" => [Rounds(Pair, Overlap)!Next]_roundsVars
        /\ part = "rounds" => [Rounds(Reporters, Limits)!Next]_roundsVars
    BY RoundsApart
  <2>2. ASSUME part = "reporting" PROVE RoundsInv(Pair)'
    BY <2>2, <2>1, RoundsStep DEF In
  <2>3. ASSUME part = "rounds" PROVE RoundsInv(Reporters)'
    BY <2>3, <2>1, RoundsStep DEF In
  <2> QED BY <2>1, <2>2, <2>3 DEF In
<1>3. Own => RoundsCounted
  BY RoundsTrue DEF In, RoundsCounted
<1> HIDE DEF Own
<1> QED BY <1>1, <1>2, <1>3, PTL DEF Spec
=============================================================================
