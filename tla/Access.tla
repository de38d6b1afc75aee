------------------------------- MODULE Access -------------------------------
(***************************************************************************)
(* Credentials and what they may do: the role and scope tables, access      *)
(* tokens of people, the API keys and agent tokens an administrator's       *)
(* credential mints for its own merchant, and the check every route makes.  *)
(*                                                                         *)
(* Tokens are signed, so a credential is the record its issuer signed; keys *)
(* are rows nothing revokes.  Each request is one action.                   *)
(***************************************************************************)
EXTENDS Integers, SequencesExt

CONSTANTS
  Accounts,     \* people: [user, merchant, role]
  AgentIds,     \* agent_id of a token request, any string
  ScopeSets,    \* scopes of a request, grantable or not
  Sessions,     \* sessions of the instance: [merchant, owner]
  AskedFor,     \* permissions of the routes that are called
  TokenLife,    \* jwt_access_expire_minutes
  AgentLives,   \* ttl_seconds of a request
  MaxAgentLife, \* agent_token_max_ttl_seconds
  KeyLives,     \* expires_in_days of a request, or Never
  MaxHour,      \* bound: clock
  MaxCreds,     \* bound: credentials handed out
  Never         \* no expiry, no scopes, no credential, no session

ASSUME AccessAssumption ==
  /\ MaxHour \in Nat /\ AgentLives \subseteq Nat
  /\ Never \notin Nat /\ Never \notin ScopeSets

VARIABLES
  hour,
  creds,        \* credentials handed out, with the one that asked for each
  last          \* the last request that was let through

accessVars == <<hour, creds, last>>

-----------------------------------------------------------------------------
AgentPermissions ==
  {"catalog:read", "session:create", "session:read:own", "order:read:own",
   "authorization:request", "authorization:read"}

(* ROLE_PERMISSIONS; an administrator has every permission.                 *)
RolePermissions ==
  [shopper |-> {"session:create", "session:read:own", "catalog:read", "order:read:own"},
   support_agent |-> {"session:read:any", "catalog:read", "order:read:any", "audit:read",
     "escalation:read", "authorization:read", "growth:read"},
   manager |-> {"session:read:any", "catalog:read", "order:read:any", "audit:read",
     "escalation:read", "escalation:resolve", "admin:escalation", "policy:evaluate",
     "authorization:request", "authorization:read", "authorization:approve",
     "refund:request", "growth:read", "growth:manage"},
   service |-> {"webhook:internal", "session:read:any", "order:read:any", "audit:read",
     "policy:evaluate", "authorization:request", "authorization:read"},
   agent |-> AgentPermissions]

PermissionsForRole(role) ==
  IF role \in DOMAIN RolePermissions THEN RolePermissions[role]
  ELSE UNION {RolePermissions[r] : r \in DOMAIN RolePermissions}
         \union {"admin:policy", "admin:users", "admin:api_keys", "dev:simulate"}

(* AGENT_GRANTABLE_SCOPES, the domain of SCOPE_PERMISSIONS, which maps each *)
(* scope to the permission it is named for.                                 *)
GrantableScopes == AgentPermissions

PermissionsForScopes(scopes) == scopes \intersect GrantableScopes

(* Variant of EffectivePermissions: the scopes add to the role.             *)
EffectiveUnion(role, scopes) ==
  IF scopes = Never THEN PermissionsForRole(role)
  ELSE PermissionsForRole(role) \union scopes

(* effective_permissions: scopes narrow the role, never widen it.           *)
EffectivePermissions(role, scopes) ==
  IF scopes = Never THEN PermissionsForRole(role)
  ELSE PermissionsForRole(role) \intersect PermissionsForScopes(scopes)

-----------------------------------------------------------------------------
AccessInit == hour = 0 /\ creds = <<>> /\ last = [cred |-> Never]

HandOut(cred) ==
  /\ Len(creds) < MaxCreds
  /\ creds' = Append(creds, cred)
  /\ UNCHANGED <<hour, last>>

(* create_access_token of a sign-in or a refresh.                           *)
Welcome(account) ==
  HandOut([kind |-> "user", user |-> account.user, merchant |-> account.merchant,
           role |-> account.role, scopes |-> Never, asked |-> Never,
           expires |-> hour + TokenLife, by |-> 0])

(* get_current_principal: signature, expiry and audience hold.              *)
Authentic(i) ==
  /\ i \in DOMAIN creds
  /\ creds[i].expires # Never => hour <= creds[i].expires

(* require_perm. *)
Permitted(i, permission) ==
  Authentic(i) /\ permission \in EffectivePermissions(creds[i].role, creds[i].scopes)

AgentFor(i, agent, scopes, life) ==
  [kind |-> "agent", user |-> agent, merchant |-> creds[i].merchant, role |-> "agent",
   scopes |-> scopes, asked |-> scopes, expires |-> hour + life, by |-> i]

(* issue_agent_token: refused when a scope is not grantable.                *)
IssueAgentToken(i, agent, scopes, life) ==
  /\ Permitted(i, "admin:api_keys")
  /\ scopes # {} /\ scopes \subseteq GrantableScopes
  /\ life <= MaxAgentLife
  /\ HandOut(AgentFor(i, agent, scopes, life))

(* create_api_key, and the principal authenticate_api_key makes of the row: *)
(* the scopes of the row are not in it.                                     *)
CreateApiKey(i, role, scopes, life) ==
  /\ Permitted(i, "admin:api_keys")
  /\ HandOut([kind |-> "key", user |-> "apikey", merchant |-> creds[i].merchant, role |-> role,
              scopes |-> Never, asked |-> scopes,
              expires |-> IF life = Never THEN Never ELSE hour + life, by |-> i])

(* A route lets the request through.                                        *)
Serve(i, permission) ==
  /\ Permitted(i, permission)
  /\ last' = [cred |-> i, permission |-> permission, session |-> Never]
  /\ UNCHANGED <<hour, creds>>

(* assert_session_visible, which looks at the role alone.                   *)
Visible(i, session) ==
  /\ session.merchant = creds[i].merchant
  /\ \/ "session:read:any" \in PermissionsForRole(creds[i].role)
     \/ session.owner # Never /\ session.owner = creds[i].user

ReadSession(i, session) ==
  /\ Permitted(i, "session:read:own")
  /\ Visible(i, session)
  /\ last' = [cred |-> i, permission |-> "session:read:own", session |-> session]
  /\ UNCHANGED <<hour, creds>>

AccessTick ==
  /\ hour < MaxHour
  /\ hour' = hour + 1
  /\ last' = [cred |-> Never]
  /\ UNCHANGED creds

AccessNext ==
  \/ \E account \in Accounts : Welcome(account)
  \/ \E i \in 1..MaxCreds :
       \/ \E agent \in AgentIds, scopes \in ScopeSets, life \in AgentLives :
            IssueAgentToken(i, agent, scopes, life)
       \/ \E role \in {"service", "admin"}, scopes \in ScopeSets, life \in KeyLives :
            CreateApiKey(i, role, scopes, life)
       \/ \E permission \in AskedFor : Serve(i, permission)
       \/ \E session \in Sessions : ReadSession(i, session)
  \/ AccessTick

AccessSpec == AccessInit /\ [][AccessNext]_accessVars

-----------------------------------------------------------------------------
AccessTypeOK ==
  /\ hour \in 0..MaxHour
  /\ \A i \in DOMAIN creds : creds[i].kind \in {"user", "agent", "key"} /\ creds[i].by < i

(* The credentials that led to credential i, itself among them: those in    *)
(* every set that holds i and, with a credential, the one that asked for it.*)
Lineage(i) ==
  {n \in 1..i :
     \A S \in SUBSET (1..i) :
       /\ i \in S
       /\ \A m \in S : creds[m].by # 0 => creds[m].by \in S
       => n \in S}

(* "An operator can therefore only ever mint a credential for their own     *)
(* merchant, and never one that can approve, refund or capture": whatever   *)
(* chain of keys and tokens a credential comes from, what it is let through *)
(* to is of the merchant of the person at its head; an agent stays within   *)
(* the scopes it was given and its life, and is shown no session but those  *)
(* created under its own id.                                                *)
AccessStaysInBounds ==
  last.cred # Never =>
    LET c == creds[last.cred]
        first == CHOOSE i \in Lineage(last.cred) : creds[i].by = 0
    IN /\ creds[first].kind = "user" /\ creds[first].merchant = c.merchant
       /\ last.session # Never => last.session.merchant = creds[first].merchant
       /\ c.kind = "agent" =>
            /\ last.permission \in c.asked /\ hour <= c.expires
            /\ last.permission \notin {"authorization:approve", "refund:request",
                                       "admin:policy", "admin:api_keys", "growth:manage"}
            /\ last.session # Never => last.session.owner = c.user
=============================================================================
