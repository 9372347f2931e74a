------------------------------- MODULE ApiKeys -------------------------------
(***************************************************************************)
(* Tenants and API keys: query-service's TenantService, AuthService and    *)
(* ApiKeyMiddleware (apps/query-service/src/auth, .../tenant) over the      *)
(* table api_keys, and the validation of presented keys (libs/auth).       *)
(*                                                                         *)
(* A request is in progress at one SQL or Redis command; a step executes   *)
(* that command and runs the code to its next one.  A secret stands for    *)
(* its bcrypt hash too, and a row's generated id is named after the secret *)
(* it was inserted with: both are fresh.                                   *)
(***************************************************************************)
EXTENDS Integers

CONSTANTS Tenant, Secret, Request, None

\* A presented key, <keyId>.<secret>, as issueApiKey returns it.
Key == [id: Secret, secret: Secret]

ASSUME KeysAssumption == None \notin Tenant \cup Secret \cup Key

VARIABLES
  tenants,     \* the table of tenants
  apiKeys,     \* api_keys, at most one row per tenant: [id, secret] or None
  request,     \* requests to query-service in progress
  revoked,     \* messages on auth.revoked under way to ws-service
  subscribed,  \* ws-service listens on auth.revoked
  issued,      \* the presented keys that were handed out
  granted      \* history: the keys that have been valid

keyVars == <<tenants, apiKeys, revoked, issued, granted>>

RequestPc == {"idle", "iss_upsert", "iss_find", "rev_publish", "resolve", "read"}

\* The locals of a request.  One is history: the row was changed between its
\* upsert and its read.
RequestState == [pc: RequestPc, tenant: Tenant \cup {None},
                 secret: Secret \cup {None}, key: Key \cup {None},
                 disturbed: BOOLEAN]
NoRequest == [pc |-> "idle", tenant |-> None, secret |-> None, key |-> None,
              disturbed |-> FALSE]

KeysTypeOK ==
  /\ tenants \in SUBSET Tenant
  /\ apiKeys \in [Tenant -> Key \cup {None}]
  /\ request \in [Request -> RequestState]
  /\ revoked \in [Tenant -> Nat]
  /\ subscribed \in BOOLEAN
  /\ issued \in SUBSET Key
  /\ granted \in SUBSET Key

KeysInit ==
  /\ tenants = {}
  /\ apiKeys = [t \in Tenant |-> None]
  /\ request = [r \in Request |-> NoRequest]
  /\ revoked = [t \in Tenant |-> 0]
  /\ subscribed = FALSE
  /\ issued = {} /\ granted = {}

-----------------------------------------------------------------------------
(* validatePresentedApiKey: the row is looked up by the id in the key, and    *)
(* its hash is compared with the secret.  None is a key that does not parse.  *)
(* Definitions named Mut... are faults a change could introduce.              *)

MutOpens(key, t) ==
  /\ key # None /\ apiKeys[t] # None
  /\ apiKeys[t].id = key.id

Opens(key, t) == key # None /\ apiKeys[t] = key

ValidKeys == {apiKeys[t] : t \in Tenant} \ {None}

-----------------------------------------------------------------------------
(* TenantService *)

CreateTenant(t) ==
  /\ t \notin tenants
  /\ tenants' = tenants \cup {t}
  /\ UNCHANGED <<apiKeys, request, revoked, subscribed, issued, granted>>

-----------------------------------------------------------------------------
(* AuthService *)

Start(r, state) ==
  /\ request[r] = NoRequest
  /\ request' = [request EXCEPT ![r] = state]

Finish(r) == request' = [request EXCEPT ![r] = NoRequest]

\* Request r goes on as state, and the row of t has changed: who is about to
\* read it back will not find his own.
ChangeRow(r, t, state) ==
  request' = [q \in Request |->
    IF q = r THEN state
    ELSE IF request[q].pc = "iss_find" /\ request[q].tenant = t
         THEN [request[q] EXCEPT !.disturbed = TRUE]
         ELSE request[q]]

\* A secret that is in no key yet.
Fresh(x) == /\ \A key \in granted : key.secret # x
            /\ \A r \in Request : request[r].secret # x

\* issueApiKey finds the tenant and makes a secret; without a tenant: 404.
IssueApiKey(r, t, x) ==
  /\ t \in tenants
  /\ Fresh(x)
  /\ Start(r, [NoRequest EXCEPT !.pc = "iss_upsert", !.tenant = t, !.secret = x])
  /\ UNCHANGED <<keyVars, subscribed>>

MutInsertNewKey(r) ==
  LET t == request[r].tenant
      x == request[r].secret
      row == IF apiKeys[t] = None THEN [id |-> x, secret |-> x] ELSE apiKeys[t]
  IN
  /\ request[r].pc = "iss_upsert"
  /\ apiKeys' = [apiKeys EXCEPT ![t] = row]
  /\ granted' = granted \cup {row}
  /\ ChangeRow(r, t, [request[r] EXCEPT !.pc = "iss_find"])
  /\ UNCHANGED <<tenants, revoked, subscribed, issued>>

\* INSERT ... ON CONFLICT (tenant_id) DO UPDATE: a row keeps its id.
UpsertKey(r) ==
  LET t == request[r].tenant
      x == request[r].secret
      row == [id |-> IF apiKeys[t] = None THEN x ELSE apiKeys[t].id,
              secret |-> x]
  IN
  /\ request[r].pc = "iss_upsert"
  /\ apiKeys' = [apiKeys EXCEPT ![t] = row]
  /\ granted' = granted \cup {row}
  /\ ChangeRow(r, t, [request[r] EXCEPT !.pc = "iss_find"])
  /\ UNCHANGED <<tenants, revoked, subscribed, issued>>

\* findOne, and the row may be missing.
MutHandOutKey(r) ==
  LET row == apiKeys[request[r].tenant] IN
  /\ request[r].pc = "iss_find"
  /\ issued' = issued \cup {[id |-> IF row = None THEN None ELSE row.id,
                            secret |-> request[r].secret]}
  /\ Finish(r)
  /\ UNCHANGED <<tenants, apiKeys, revoked, subscribed, granted>>

\* findOneOrFail: the id comes from the row as it is now, the secret is the
\* request's own.
HandOutKey(r) ==
  LET row == apiKeys[request[r].tenant] IN
  /\ request[r].pc = "iss_find"
  /\ \/ /\ row # None
        /\ issued' = issued \cup {[id |-> row.id, secret |-> request[r].secret]}
     \/ /\ row = None
        /\ UNCHANGED issued
  /\ Finish(r)
  /\ UNCHANGED <<tenants, apiKeys, revoked, subscribed, granted>>

MutRevokeUnpublished(r, t) ==
  /\ apiKeys[t] # None
  /\ apiKeys' = [apiKeys EXCEPT ![t] = None]
  /\ request[r] = NoRequest
  /\ ChangeRow(r, t, NoRequest)
  /\ UNCHANGED <<tenants, revoked, subscribed, issued, granted>>

\* revokeApiKey deletes the row; when there is none: 404.
RevokeApiKey(r, t) ==
  /\ apiKeys[t] # None
  /\ apiKeys' = [apiKeys EXCEPT ![t] = None]
  /\ request[r] = NoRequest
  /\ ChangeRow(r, t, [NoRequest EXCEPT !.pc = "rev_publish", !.tenant = t])
  /\ UNCHANGED <<tenants, revoked, subscribed, issued, granted>>

\* PUBLISH reaches the subscribers of the moment.
PublishRevocation(r) ==
  LET t == request[r].tenant IN
  /\ request[r].pc = "rev_publish"
  /\ revoked' = [revoked EXCEPT ![t] = IF subscribed THEN @ + 1 ELSE @]
  /\ Finish(r)
  /\ UNCHANGED <<tenants, apiKeys, subscribed, issued, granted>>

-----------------------------------------------------------------------------
(* A presence read: ApiKeyMiddleware, then AppController and PresenceService, *)
(* whose commands are the module QueryService.                                *)

\* The x-api-key of the request was handed out; None stands for one that does not
\* parse, and for none.
PresentKey(r, key) ==
  /\ Start(r, [NoRequest EXCEPT !.pc = "resolve", !.key = key])
  /\ UNCHANGED <<keyVars, subscribed>>

\* The tenant is that of the key, never one the caller names; no tenant: 401,
\* and nothing is read.
ResolveTenant(r) ==
  LET key == request[r].key IN
  /\ request[r].pc = "resolve"
  /\ \/ \E t \in Tenant :
          /\ Opens(key, t)
          /\ request' = [request EXCEPT ![r].pc = "read", ![r].tenant = t]
     \/ /\ \A t \in Tenant : ~ Opens(key, t)
        /\ Finish(r)
  /\ UNCHANGED <<keyVars, subscribed>>

AnswerPresence(r) ==
  /\ request[r].pc = "read"
  /\ Finish(r)
  /\ UNCHANGED <<keyVars, subscribed>>

\* A command fails, or is executed and its reply is lost (which is the step of
\* the command followed by this one): the request rejects where it is.
RequestFails(r) ==
  /\ request[r] # NoRequest
  /\ Finish(r)
  /\ UNCHANGED <<keyVars, subscribed>>

KeysStep(r) ==
  \/ UpsertKey(r) \/ HandOutKey(r)
  \/ ResolveTenant(r) \/ AnswerPresence(r)
  \/ \E key \in issued \cup {None} : PresentKey(r, key)
  \/ \E t \in Tenant : \/ RevokeApiKey(r, t)
                       \/ \E x \in Secret : IssueApiKey(r, t, x)
=============================================================================
