-------------------------------- MODULE Access --------------------------------
(***************************************************************************)
(* Tokens, permissions and rate limits of common/security, as requests     *)
(* meet them: RateLimitMiddleware, then get_current_user, then             *)
(* require_permission.                                                     *)
(*                                                                         *)
(* The module has two JWTHandlers with the same secret: the functions use  *)
(* one, the AuthenticationService the other.  A token is the record of its *)
(* claims, since signatures cannot be made without the secret; passwords   *)
(* are checked before Login.                                               *)
(***************************************************************************)
EXTENDS RateLimiter, Permissions

CONSTANTS
    Users,
    Grants,         \* the roles and permissions that a login may find for its user
    Wanted,         \* bound: permissions that requests require
    AccessLife,     \* access_token_expire_minutes, in ticks
    RefreshLife,    \* refresh_token_expire_days, in ticks
    MaxTokens       \* bound: tokens

ASSUME AccessAssumption ==
    /\ Grants \subseteq [roles : SUBSET STRING, permissions : SUBSET STRING]
    /\ Wanted \subseteq Permission
    /\ AccessLife \in Nat \ {0} /\ RefreshLife \in Nat \ {0}
    /\ MaxTokens \in Nat

VARIABLES
    issued,     \* tokens, with the login they come from as history
    blacklist,  \* jtis revoked at the handler of the AuthenticationService
    reply       \* the last answer: status, token and permission, if the last step was a request

tokenVars == <<issued, blacklist, reply>>
vars == <<now, steady, limiterVars, tokenVars>>

Nobody == [roles |-> {}, permissions |-> {}]

Init ==
    /\ LimiterInit
    /\ issued = {}
    /\ blacklist = {}
    /\ reply = {}

-----------------------------------------------------------------------------
(* Tokens. *)

Token(type, user, grant, life, login) ==
    [jti |-> Cardinality(issued) + 1, type |-> type, sub |-> user, grant |-> grant,
     iat |-> now, exp |-> now + life, login |-> login]

\* Mutant: expiration is not checked.
DecodesExpired(token) == token.iat <= now

\* jwt.decode: not before it was issued, and not when it has expired.
Decodes(token) == token.iat <= now /\ now < token.exp

Verifies(token, type, revoked) ==
    Decodes(token) /\ token.type = type /\ token.jti \notin revoked

\* create_tokens: the access token and then the refresh token, which carries no roles.
Login(user, grant) ==
    LET login == [time |-> now, grant |-> grant]
        access == Token("access", user, grant, AccessLife, login)
        refresh == [Token("refresh", user, Nobody, RefreshLife, login) EXCEPT !.jti = @ + 1]
    IN  /\ Cardinality(issued) + 2 <= MaxTokens
        /\ issued' = issued \union {access, refresh}
        /\ reply' = {}
        /\ UNCHANGED <<now, steady, limiterVars, blacklist>>

\* refresh_access_token: with the roles of the refresh token, which has none.
Refresh(token) ==
    /\ Verifies(token, "refresh", blacklist)
    /\ Cardinality(issued) < MaxTokens
    /\ issued' = issued \union {Token("access", token.sub, token.grant, AccessLife, token.login)}
    /\ reply' = {}
    /\ UNCHANGED <<now, steady, limiterVars, blacklist>>

Logout(token) ==
    /\ blacklist' = IF Verifies(token, "access", blacklist)
                    THEN blacklist \union {token.jti} ELSE blacklist
    /\ reply' = {}
    /\ UNCHANGED <<now, steady, limiterVars, issued>>

-----------------------------------------------------------------------------
(* Requests. *)

\* The handler of the functions never revokes anything.
Status(k, token, permission) ==
    CASE ~Allows(k) -> 429
      [] Allows(k) /\ ~Verifies(token, "access", {}) -> 401
      [] Allows(k) /\ Verifies(token, "access", {}) /\ ~HasPermission(token.grant, permission) -> 403
      [] OTHER -> 200

Request(k, token, permission) ==
    /\ Check(k)
    /\ reply' = {[status |-> Status(k, token, permission), token |-> token, permission |-> permission]}
    /\ UNCHANGED <<now, steady, issued, blacklist>>

\* The clock goes on, or is set back.
Clock ==
    /\ Tick \/ SetBack
    /\ reply' = {}
    /\ UNCHANGED <<limiterVars, issued, blacklist>>

\* Revocations and limits are in memory; tokens are with the clients.
Restart ==
    /\ RestartLimiter
    /\ blacklist' = {}
    /\ reply' = {}
    /\ UNCHANGED <<now, steady, issued>>

Next ==
    \/ \E user \in Users, grant \in Grants : Login(user, grant)
    \/ \E token \in issued : Refresh(token) \/ Logout(token)
    \/ \E k \in Keys, token \in issued, permission \in Wanted : Request(k, token, permission)
    \/ Clock
    \/ Restart

Spec == Init /\ [][Next]_vars

-----------------------------------------------------------------------------

TokenRecords ==
    [jti : Nat, type : {"access", "refresh"}, sub : Users, grant : Grants \union {Nobody},
     iat : Nat, exp : Nat, login : [time : Nat, grant : Grants]]

TypeOK ==
    /\ LimiterTypeOK
    /\ issued \subseteq TokenRecords /\ IsFiniteSet(issued)
    /\ blacklist \subseteq Nat
    /\ reply \subseteq [status : {200, 401, 403, 429}, token : issued, permission : Wanted]

\* A refresh token ends with its life after the login, an access token with its own
\* after that, and neither carries more than was granted at the login.
TokensDescend ==
    \A token \in issued :
        /\ token.exp <= token.login.time + RefreshLife + (IF token.type = "access" THEN AccessLife ELSE 0)
        /\ token.grant \in {token.login.grant, Nobody}
        /\ token.type = "refresh" => token.grant = Nobody

\* A request is answered by the token as it is now.
AnswersAreCurrent ==
    \A answer \in reply :
        answer.status = 200 =>
            now < answer.token.exp /\ HasPermission(answer.token.grant, answer.permission)

\* The inductive invariant.
IInv ==
    /\ TypeOK
    /\ Remembered
    /\ PromisesHold
    /\ WindowsHold
    /\ BucketsHold
    /\ TokensDescend
    /\ AnswersAreCurrent

\* A session ends: whoever is let in with a token, fresh or refreshed any number of
\* times, has logged in no longer ago than a refresh token and an access token live,
\* by the clock as it is, and is let in only for what that login granted.
AccessFollowsLogin ==
    \A answer \in reply :
        answer.status = 200 =>
            /\ now < answer.token.login.time + RefreshLife + AccessLife
            /\ HasPermission(answer.token.login.grant, answer.permission)

\* The two kinds of authorization, by permission and by resource, for every set of roles,
\* known or not, of a user whom an order or courier names, or not (an order without a
\* courier names "None"): exactly who is let in, who may read orders and is refused one,
\* and which role takes access away.  "Restaurant managers can access their restaurant's
\* orders" and "Couriers can access assigned orders" (can_access_order) are not so: no
\* manager can, and no courier who is a customer too.
\* (Inputs and not states: evaluated in the initial state.)
RolesDecide ==
    Init => \A sub \in Users, customer, courier \in Users \union {"None"},
               roles \in SUBSET (Role \union {"visitor"}) :
                LET user == [sub |-> sub, roles |-> roles, permissions |-> {}]
                    order == [customer |-> customer, courier |-> courier]
                IN /\ AccessMatchesPermissions(user, order)
                   /\ RefusedReaders(user, order)
                   /\ \A role \in Role \union {"visitor"} : MoreRolesMoreAccess(user, role, order)
=============================================================================
