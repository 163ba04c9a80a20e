----------------------------- MODULE PortTokens -----------------------------
(* Logging in to the Python port: the login endpoint and its limit, the     *)
(* tokens (webgui/auth/token_manager.py), refreshing them and logging out.  *)
(* One user, whose requests overlap; each action ends at an await on Redis. *)
(*                                                                          *)
(* Data abstracted: a bearer is what it was made as and the number of the   *)
(* create_tokens call that made it; times are ticks. Nothing asks a bearer  *)
(* for its type, so that a refresh token is taken as an access token is.    *)
(* Left out: SecureYeoman's bearers, which are taken without asking Redis   *)
(* (dependencies.py), and a logout by somebody with an API key, who has no  *)
(* session.                                                                 *)
EXTENDS Integers, FiniteSets

CONSTANTS Requests,     \* requests that may be under way at once
          AccessTime,   \* ticks an access token lives (15 minutes)
          RefreshTime,  \* ticks a refresh token lives (7 days)
          BlackTime,    \* ticks a blacklist key lives (1 hour)
          MaxAttempts,  \* _LOGIN_MAX_ATTEMPTS
          MaxTokens,    \* bound: calls of create_tokens
          MaxLosses     \* bound: commands to Redis that fail

VARIABLES at, token,    \* where each request is, and the bearer it presents
          given,        \* calls of create_tokens that were answered to the user
          life,         \* ticks each bearer has left
          black,        \* ticks each bearer is blacklisted for
          refresh,      \* refresh_token:{user}, 0 when the key is not there
          attempts,     \* login_attempts:{email}
          expiring,     \* that key has a time to live
          let,          \* history: attempts let through since the key was created
          out,          \* history: access tokens whose logout was answered
          closed,       \* history: calls answered before the last logout was
          ended,        \* history: a logout deleted the key, or it expired
          made, losses  \* history

tokenVars == <<at, token, given, life, black, refresh, attempts, expiring, let, out, closed,
               ended, made, losses>>
limiter   == <<attempts, expiring, let>>
bearer    == <<life, black, out, closed>>

Tokens   == 1 .. MaxTokens
Bearers  == {"access", "refresh"} \X Tokens
NoBearer == <<"none", 0>>
LifeTime(b) == IF b[1] = "access" THEN AccessTime ELSE RefreshTime

Init ==
  /\ at = [r \in Requests |-> "idle"] /\ token = [r \in Requests |-> NoBearer] /\ given = {}
  /\ life = [b \in Bearers |-> 0] /\ black = [b \in Bearers |-> 0] /\ refresh = 0
  /\ attempts = 0 /\ expiring = FALSE /\ let = 0
  /\ out = {} /\ closed = {} /\ ended = FALSE /\ made = 0 /\ losses = 0

Goto(r, s) == at' = [at EXCEPT ![r] = s]
End(r)     == Goto(r, "idle") /\ token' = [token EXCEPT ![r] = NoBearer]
Lose       == losses < MaxLosses /\ losses' = losses + 1

-----------------------------------------------------------------------------
(* POST /auth/login. The attempt is counted, the key's time to live is set  *)
(* by whoever created it, and what is compared is the count INCR gave.      *)

MayTry(n) == n <= MaxAttempts

IncrAttempts(r) ==
  /\ at[r] = "idle" /\ attempts <= MaxAttempts + 1
  /\ attempts' = attempts + 1
  /\ IF attempts' = 1 THEN Goto(r, "expire") /\ UNCHANGED let
     ELSE IF MayTry(attempts') THEN Goto(r, "authenticate") /\ let' = let + 1
     ELSE UNCHANGED <<at, let>>     \* 429
  /\ UNCHANGED <<token, given, bearer, refresh, expiring, ended, made, losses>>

ExpireAttempts(r) ==
  /\ at[r] = "expire"
  /\ expiring' = TRUE
  /\ Goto(r, "authenticate") /\ let' = let + 1
  /\ UNCHANGED <<token, given, bearer, refresh, attempts, ended, made, losses>>

\* The user is looked up and the password compared; is_active is not asked.
Authenticate(r) ==
  /\ at[r] = "authenticate"
  /\ Goto(r, "create") \/ Goto(r, "idle")
  /\ UNCHANGED <<token, given, bearer, refresh, limiter, ended, made, losses>>

-----------------------------------------------------------------------------
(* TokenManager *)

\* create_tokens: one key per user, so that the last call's token is the one
\* that can be refreshed.
CreateTokens(r) ==
  /\ at[r] = "create" /\ made < MaxTokens
  /\ made' = made + 1 /\ refresh' = made'
  /\ life' = [b \in Bearers |-> IF b[2] = made' THEN LifeTime(b) ELSE life[b]]
  /\ given' = given \cup {made'} /\ ended' = FALSE
  /\ End(r)
  /\ UNCHANGED <<black, out, closed, limiter, losses>>

\* refresh_tokens: a refresh token, not expired, is compared with the stored
\* one, then the user read, and only then the key deleted and written anew.
MayRefresh(t) == refresh = t

RefreshTokens(r, t) ==
  /\ at[r] = "idle" /\ t \in given /\ life[<<"refresh", t>>] > 0 /\ MayRefresh(t)
  /\ Goto(r, "get_user") /\ token' = [token EXCEPT ![r] = <<"refresh", t>>]
  /\ UNCHANGED <<given, bearer, refresh, limiter, ended, made, losses>>

GetUser(r) ==
  /\ at[r] = "get_user"
  /\ \/ Goto(r, "delete") /\ UNCHANGED token
     \/ End(r)     \* no user, or not active
  /\ UNCHANGED <<given, bearer, refresh, limiter, ended, made, losses>>

DeleteRefresh(r) ==
  /\ at[r] = "delete" /\ refresh' = 0 /\ Goto(r, "create")
  /\ UNCHANGED <<token, given, bearer, limiter, ended, made, losses>>

\* verify_token: not expired and not blacklisted; a blacklist that cannot be
\* asked counts as one that lists the token.
Verified(b) == life[b] > 0 /\ black[b] = 0

\* POST /auth/logout, for a bearer of either type get_current_user has verified.
Logout(r, b) ==
  /\ at[r] = "idle" /\ b[2] \in given /\ Verified(b)
  /\ Goto(r, "blacklist") /\ token' = [token EXCEPT ![r] = b]
  /\ UNCHANGED <<given, bearer, refresh, limiter, ended, made, losses>>

\* (A mutant: for as long as the token has left, rounded down.)
BlacklistRounded(r) ==
  /\ at[r] = "blacklist"
  /\ black' = [black EXCEPT ![token[r]] = IF life[token[r]] > 0 THEN life[token[r]] - 1 ELSE 0]
  /\ Goto(r, "forget")
  /\ UNCHANGED <<token, given, life, refresh, limiter, out, closed, ended, made, losses>>

Blacklist(r) ==
  /\ at[r] = "blacklist"
  /\ black' = [black EXCEPT ![token[r]] = BlackTime] /\ Goto(r, "forget")
  /\ UNCHANGED <<token, given, life, refresh, limiter, out, closed, ended, made, losses>>

Forget(r) ==
  /\ at[r] = "forget"
  /\ refresh' = 0 /\ ended' = TRUE /\ closed' = given /\ End(r)
  /\ out' = IF token[r][1] = "access" THEN out \cup {token[r]} ELSE out
  /\ UNCHANGED <<given, life, black, limiter, made, losses>>

\* A command fails: the request answers 503, 401 or 500, and what it had done stays.
Lost(r) ==
  /\ Lose /\ at[r] # "idle" /\ End(r)
  /\ UNCHANGED <<given, bearer, refresh, limiter, ended, made>>

-----------------------------------------------------------------------------
(* Time: tokens and keys run out. *)

Less(f) == [b \in Bearers |-> IF f[b] > 0 THEN f[b] - 1 ELSE 0]
Tick ==
  /\ \E b \in Bearers : life[b] + black[b] > 0
  /\ life' = Less(life) /\ black' = Less(black)
  /\ UNCHANGED <<at, token, given, refresh, limiter, out, closed, ended, made, losses>>

WindowEnds ==
  /\ expiring /\ attempts' = 0 /\ expiring' = FALSE /\ let' = 0
  /\ UNCHANGED <<at, token, given, bearer, refresh, ended, made, losses>>

RefreshExpires ==
  /\ refresh # 0 /\ life[<<"refresh", refresh>>] = 0 /\ refresh' = 0 /\ ended' = TRUE
  /\ UNCHANGED <<at, token, given, bearer, limiter, made, losses>>

Request(r) ==
  \/ IncrAttempts(r) \/ ExpireAttempts(r) \/ Authenticate(r) \/ CreateTokens(r)
  \/ GetUser(r) \/ DeleteRefresh(r) \/ Blacklist(r) \/ Forget(r) \/ Lost(r)
  \/ (\E t \in Tokens : RefreshTokens(r, t)) \/ (\E b \in Bearers : Logout(r, b))

Next == Tick \/ WindowEnds \/ RefreshExpires \/ \E r \in Requests : Request(r)

-----------------------------------------------------------------------------
(* Properties *)

\* An access token whose logout was answered is not taken again, however long
\* it had to live and whatever fails: its blacklist key outlives it. And no
\* refresh token answered before a logout was can be exchanged after it; a
\* refresh that had compared it already may still answer a new one (logout).
\* Nothing is said of refresh tokens as bearers: one is taken until it runs
\* out, also after the logout of its session and its own blacklist key.
LoggedOutForGood ==
  /\ \A b \in out : ~Verified(b)
  /\ \A t \in closed : ~MayRefresh(t)

\* Requests that log in or refresh at once, several with one token, leave the
\* user a token that can be refreshed, unless somebody logged out, the key ran
\* out or a command failed: what the last of them stores it also answers, and
\* the others' deletions come before (refresh_tokens).
SessionSurvives ==
  (\A r \in Requests : at[r] = "idle") /\ made > 0 /\ ~ended /\ losses = 0 => refresh \in given

\* No window lets more attempts through than its limit, however they overlap,
\* and the count goes away in time unless the command that says so failed (login).
AttemptsBounded ==
  /\ let <= MaxAttempts
  /\ attempts > 0 /\ ~expiring /\ (\A r \in Requests : at[r] # "expire") => losses > 0
=============================================================================
