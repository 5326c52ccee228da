------------------------------- MODULE Gateway -------------------------------
(***************************************************************************)
(* The api-gateway: which requests it lets through, to which service, and  *)
(* what of them arrives there.  It keeps no state of its own; what it      *)
(* relies on is the access tokens of auth-service, which are stateless:    *)
(* one is good until it expires, whatever happens to its session.  Of each *)
(* user the last token issued is kept, since earlier ones end sooner.      *)
(*                                                                         *)
(* The guards run in the order JwtAuthGuard, ThrottlerGuard.  The throttler*)
(* may refuse any request that the first lets through, as a stutter; its   *)
(* counters are a library's, in the memory of one process.                 *)
(***************************************************************************)
EXTENDS Naturals

CONSTANTS
  User,       \* user ids
  AccessTtl,  \* ACCESS_TOKEN_TTL, in ticks of the clock
  MaxTime,    \* bound: the clock stops here
  null        \* no token, no header, no row, no call

ASSUME GatewayAssumption == AccessTtl \in Nat /\ MaxTime \in Nat /\ null \notin User \union Nat

VARIABLES
  now,      \* the clock
  expires,  \* expires[u]: when the last access token of u expires, or null
  closed    \* closed[u]: when the account of u was deleted and logged out, or null

gateway == <<now, expires, closed>>

GatewayTypeOK ==
  /\ now \in 0 .. MaxTime
  /\ expires \in [User -> Nat \union {null}]
  /\ closed \in [User -> 0 .. MaxTime \union {null}]

GatewayInit ==
  /\ now = 0
  /\ expires = [u \in User |-> null]
  /\ closed = [u \in User |-> null]

(* The handlers of ProxyController.  There is none for v1/search, v1/chat, *)
(* v1/notifications and v1/recommendations.                                *)
Routes == [auth      |-> [service |-> "auth",    public |-> TRUE],
           interests |-> [service |-> "profile", public |-> TRUE],
           profiles  |-> [service |-> "profile", public |-> FALSE],
           media     |-> [service |-> "media",   public |-> FALSE]]

(* mutant: ignoreExpiration *)
ValidTokenAnyAge(u) == u # null /\ expires[u] # null

(* JwtStrategy: signed with a key of the JWKS and not expired. *)
ValidToken(u) == u # null /\ expires[u] # null /\ now < expires[u]

(* JwtAuthGuard *)
Admits(path, bearer) == path \in DOMAIN Routes /\ (Routes[path].public \/ ValidToken(bearer))

(* mutant: the client's headers are copied last *)
UserHeaderOfClient(path, bearer, claim) ==
  IF claim # null \/ Routes[path].public THEN claim ELSE bearer

(* The x-user-id that arrives: on protected routes the subject of the token*)
(* replaces what the client sent, on public ones it is what the client     *)
(* sent.                                                                   *)
UserHeader(path, bearer, claim) == IF Routes[path].public THEN claim ELSE bearer

(* forward sends no body with a GET, a HEAD or a DELETE. *)
CarriesBody(method) == method \notin {"GET", "HEAD", "DELETE"}

(* auth-service answers a login or a refresh that came through the gateway *)
(* with a new access token; Sessions shows that it does so no more for an  *)
(* account that is deleted and logged out.                                 *)
Issue(u) ==
  /\ Admits("auth", null) /\ CarriesBody("POST")
  /\ closed[u] = null
  /\ expires' = [expires EXCEPT ![u] = now + AccessTtl]
  /\ UNCHANGED <<now, closed>>

(* The account is deleted and logged out; the deletion comes from inside   *)
(* the network, because DELETE /v1/auth/account needs its body.            *)
Close(u) ==
  /\ closed[u] = null
  /\ closed' = [closed EXCEPT ![u] = now]
  /\ UNCHANGED <<now, expires>>

Tick ==
  /\ now < MaxTime
  /\ now' = now + 1
  /\ UNCHANGED <<expires, closed>>

Tokens == \E u \in User : Issue(u) \/ Close(u)
=============================================================================
