------------------------- MODULE IdentityFederation -------------------------
(***************************************************************************)
(* Sign-in through an identity provider (services/oidc_sso.py, saml_sso.py,*)
(* enterprise_identity.py), the SCIM directory (scim.py) and the           *)
(* credential it authenticates with (integration_credentials.py), for one  *)
(* tenant with one provider and one credential.                            *)
(*                                                                         *)
(* A handler reads and stages its change in one step and commits in a      *)
(* later one; an insert that meets a unique key committed in between rolls *)
(* the whole request back.  Signatures, claims and roles are left out: an  *)
(* assertion is a number, with the subject and email it speaks of.         *)
(***************************************************************************)
EXTENDS Integers, Sequences, FiniteSets, UnitOfWork

CONSTANTS
  Browsers,    \* sessions of people signing in
  Directories, \* sessions of the SCIM client and of administrators
  Subjects, Emails,
  Settings,
  MaxUsers, MaxLogins, MaxWrites  \* bounds of this model

None == "NONE"
Sessions == Browsers \cup Directories
Kinds == {"OIDC", "SAML", "IDP"}  \* IDP: a SAML answer nobody asked for
TxStatus == {"OPEN", "CONSUMED", "EXPIRED"}

VARIABLES
  provider,  \* enabled, jit_enabled, and whether it links by verified email
  user,      \* the users, oldest first
  identity,  \* identity[p][x]: the user subject x of p is bound to, or 0
  login,     \* the sign-ins started: kind, subject, email, auth transaction
  marker,    \* the assertions with a replay marker
  code,      \* the exchange codes: sign-in, user, transaction
  token,     \* the access tokens issued: user and auth_version
  dead,      \* those, issued or about to be, of a user deactivated since
  cred,      \* the credential of the directory
  writes,    \* writes of a directory so far
  session,   \* session[s]: what a request is about to commit
  setting

tables == <<provider, user, identity, login, marker, code, token, dead, cred>>
vars == <<tables, writes, session, setting>>

Idle == [op |-> "idle"]
UserRows == [email : Emails, status : {"active", "inactive"}, version : Nat]
Local(e) == [email |-> e, status |-> "active", version |-> 1]

TypeOK ==
  /\ provider \in [enabled : BOOLEAN, jit : BOOLEAN, linking : BOOLEAN]
  /\ user \in Seq(UserRows) /\ Len(user) <= MaxUsers
  /\ identity \in [{"sso", "scim"} -> [Subjects -> 0 .. Len(user)]]
  /\ login \in Seq([kind : Kinds, subject : Subjects, email : Emails, tx : TxStatus])
  /\ marker \subseteq DOMAIN login
  /\ code \in Seq([login : DOMAIN login, user : DOMAIN user, tx : TxStatus])
  /\ token \cup dead \subseteq [user : DOMAIN user, version : Nat]
  /\ cred \in [key : Nat, hash : Nat, enabled : BOOLEAN, revoked : BOOLEAN]
  /\ DOMAIN session = Sessions

Init ==
  /\ setting \in Settings
  /\ provider = [enabled |-> TRUE, jit |-> TRUE, linking |-> setting.linking]
  /\ user = <<Local(CHOOSE e \in Emails : TRUE)>>
  /\ identity = [p \in {"sso", "scim"} |-> [x \in Subjects |-> 0]]
  /\ login = << >> /\ marker = {} /\ code = << >>
  /\ token = {} /\ dead = {}
  /\ cred = [key |-> 1, hash |-> 1, enabled |-> TRUE, revoked |-> FALSE]
  /\ writes = 0
  /\ session = [s \in Sessions |-> Idle]

Calls(s, endpoint) == /\ endpoint \in setting.calls /\ s \in setting.clients
                      /\ session[s] = Idle

Begins(s, change) == /\ session' = [session EXCEPT ![s] = change]
                     /\ UNCHANGED <<tables, setting>>

Ends(s) == /\ session' = [session EXCEPT ![s] = Idle]
           /\ UNCHANGED <<writes, setting>>

Writes == writes < MaxWrites /\ writes' = writes + 1

Owner(e) == {u \in DOMAIN user : user[u].email = e}

\* The row of u after this session's UPDATE of what it loaded as `old`.
Updated(u, old, new) ==
  [f \in DOMAIN new |-> FlushColumn(old[f], new[f], user[u][f])]

\* The tokens that exchanges under way are about to issue.
Underway == {[user |-> code[session[s].code].user, version |-> session[s].version] :
               s \in {x \in Browsers : session[x].op = "exchange"}}

\* The tokens of u that a commit of its row as r leaves for dead.
Ended(u, r) == IF user[u].status = "active" /\ r.status = "inactive"
               THEN {t \in token \cup Underway : t.user = u} ELSE {}

-----------------------------------------------------------------------------
\* Sign-in.

\* update_provider: one of its switches.
UpdateProvider(s, field) ==
  /\ Calls(s, "provider") /\ Writes
  /\ provider' = [provider EXCEPT ![field] = ~@]
  /\ UNCHANGED <<user, identity, login, marker, code, token, dead, cred, session, setting>>

Start(s, kind, x, e, tx) ==
  /\ Calls(s, "login") /\ Len(login) < MaxLogins
  /\ kind \in setting.kinds /\ x \in setting.subjects
  /\ login' = Append(login, [kind |-> kind, subject |-> x, email |-> e, tx |-> tx])
  /\ UNCHANGED <<provider, user, identity, marker, code, token, dead, cred, writes,
                 session, setting>>

\* What the assertion will say of the subject is the provider's choice.
StartOidcLogin(s, x, e) == provider.enabled /\ Start(s, "OIDC", x, e, "OPEN")
StartSamlLogin(s, x, e) == provider.enabled /\ Start(s, "SAML", x, e, "OPEN")
ProviderStarts(s, x, e) == Start(s, "IDP", x, e, "CONSUMED")

\* expires_at of an auth transaction passes.
Expire ==
  /\ "expire" \in setting.calls
  /\ \/ \E n \in DOMAIN login : /\ login[n].tx = "OPEN"
                               /\ login' = [login EXCEPT ![n].tx = "EXPIRED"]
                               /\ UNCHANGED code
     \/ \E c \in DOMAIN code : /\ code[c].tx = "OPEN"
                              /\ code' = [code EXCEPT ![c].tx = "EXPIRED"]
                              /\ UNCHANGED login
  /\ UNCHANGED <<provider, user, identity, marker, token, dead, cred, writes, session, setting>>

\* resolve_or_provision_user: the user an assertion stands for, 0 to make one.
\* Only OIDC says that the email is verified.
Linked(n) == identity["sso"][login[n].subject]
ByEmail(n) == IF provider.linking /\ login[n].kind = "OIDC" THEN Owner(login[n].email)
              ELSE {}
Resolved(n) ==
  IF Linked(n) # 0 THEN {u \in {Linked(n)} : user[u].status = "active"}
  ELSE IF ByEmail(n) # {} THEN {u \in ByEmail(n) : user[u].status = "active"}
  ELSE IF provider.jit THEN {0} ELSE {}

Answer(s, n) ==
  /\ Calls(s, "login") /\ provider.enabled /\ n \notin marker
  /\ \E u \in Resolved(n) :
       Begins(s, [op |-> "callback", login |-> n, user |-> u, bind |-> Linked(n) = 0])
  /\ UNCHANGED writes

\* complete_oidc_callback: the auth transaction first, the marker after it.
OidcCallback(s, n) ==
  login[n].kind = "OIDC" /\ login[n].tx = "OPEN" /\ Answer(s, n)

\* process_saml_response: the marker first, then the transaction that an
\* InResponseTo names.
SamlResponse(s, n) ==
  /\ login[n].kind # "OIDC" /\ Answer(s, n)
  /\ login[n].kind = "SAML" => login[n].tx = "OPEN"

\* Mutant: there is no unique key on a consumed answer.
MarkerTakenNever(n) == FALSE
\* The unique keys of the replay marker and of an identity.
MarkerTaken(n) == n \in marker
IdentityTaken(p, x) == identity[p][x] # 0

CallbackCommit(s) ==
  LET S == session[s]  n == S.login  l == login[n]
      u == IF S.user = 0 THEN Len(user) + 1 ELSE S.user IN
  /\ S.op = "callback" /\ Ends(s)
  /\ IF \/ MarkerTaken(n)
        \/ S.bind /\ IdentityTaken("sso", l.subject)
        \/ S.user = 0 /\ Owner(l.email) # {}
     THEN UNCHANGED tables
     ELSE /\ u <= MaxUsers
          /\ marker' = marker \cup {n}
          /\ login' = [login EXCEPT ![n].tx = "CONSUMED"]
          /\ user' = IF S.user = 0 THEN Append(user, Local(l.email)) ELSE user
          /\ identity' = IF S.bind THEN [identity EXCEPT !["sso"][l.subject] = u]
                         ELSE identity
          /\ code' = Append(code, [login |-> n, user |-> u, tx |-> "OPEN"])
          /\ UNCHANGED <<provider, token, dead, cred>>

\* exchange_sso_code: the transaction is read without a lock.
ExchangeRead(s, c) ==
  /\ Calls(s, "login") /\ code[c].tx = "OPEN" /\ user[code[c].user].status = "active"
  /\ Begins(s, [op |-> "exchange", code |-> c, version |-> user[code[c].user].version])
  /\ UNCHANGED writes

ExchangeCommit(s) ==
  LET S == session[s] IN
  /\ S.op = "exchange" /\ Ends(s)
  /\ code' = [code EXCEPT ![S.code].tx = "CONSUMED"]
  /\ token' = token \cup {[user |-> code[S.code].user, version |-> S.version]}
  /\ UNCHANGED <<provider, user, identity, login, marker, dead, cred>>

\* get_current_user
Valid(t) == user[t.user].status = "active" /\ user[t.user].version = t.version

-----------------------------------------------------------------------------
\* The directory.

\* authenticate_integration_credential
Authenticated == cred.enabled /\ ~cred.revoked

WithStatus(r, active) ==
  IF active THEN [r EXCEPT !.status = "active"]
  ELSE IF r.status = "active"
  THEN [r EXCEPT !.status = "inactive", !.version = @ + 1] ELSE r

ScimOf(u) == {x \in Subjects : identity["scim"][x] = u}

\* _bind_external: whether externalId x is to be bound to u; {} is the 409.
Binding(u, x) ==
  IF ScimOf(u) # {} THEN {b \in {FALSE} : ScimOf(u) = {x}}
  ELSE IF identity["scim"][x] = 0 THEN {TRUE}
  ELSE {b \in {FALSE} : identity["scim"][x] = u}

\* scim_create_user: the bound user (Case A), or a new one when the email is
\* free (Case B); an email owned by somebody else is refused (Case C).
ScimCreateRead(s, x, e, active) ==
  LET u == identity["scim"][x] IN
  /\ Calls(s, "directory") /\ Authenticated /\ Writes
  /\ u = 0 => Owner(e) = {}
  /\ Begins(s, IF u = 0
       THEN [op |-> "scim", user |-> 0, subject |-> x, bind |-> TRUE, old |-> Local(e),
             new |-> [Local(e) EXCEPT !.status = IF active THEN "active" ELSE "inactive"]]
       ELSE [op |-> "scim", user |-> u, subject |-> x, bind |-> FALSE, old |-> user[u],
             new |-> WithStatus(user[u], active)])

\* scim_replace_user and scim_patch_user: the attributes the client sends.
ScimUpdateRead(s, u, change) ==
  LET emailed == IF change.email = None THEN user[u]
                 ELSE [user[u] EXCEPT !.email = change.email]
      new == IF change.active = None THEN emailed ELSE WithStatus(emailed, change.active = "yes") IN
  /\ Calls(s, "directory") /\ Authenticated /\ Writes
  /\ \E b \in IF change.subject = None THEN {FALSE} ELSE Binding(u, change.subject) :
       Begins(s, [op |-> "scim", user |-> u, subject |-> change.subject, bind |-> b,
                  old |-> user[u], new |-> new])

ScimCommit(s) ==
  LET S == session[s]
      u == IF S.user = 0 THEN Len(user) + 1 ELSE S.user
      r == IF S.user = 0 THEN S.new ELSE Updated(u, S.old, S.new) IN
  /\ S.op = "scim" /\ Ends(s)
  /\ IF \/ S.bind /\ IdentityTaken("scim", S.subject)
        \/ Owner(r.email) \ {u} # {}
     THEN UNCHANGED tables
     ELSE /\ u <= MaxUsers
          /\ user' = IF S.user = 0 THEN Append(user, r) ELSE [user EXCEPT ![u] = r]
          /\ identity' = IF S.bind THEN [identity EXCEPT !["scim"][S.subject] = u]
                         ELSE identity
          /\ dead' = IF S.user = 0 THEN dead ELSE dead \cup Ended(u, r)
          /\ UNCHANGED <<provider, login, marker, code, token, cred>>

\* rotate_credential, revoke_credential.
CredentialRead(s, op) ==
  /\ Calls(s, "credential") /\ Writes
  /\ Begins(s, [op |-> "credential", old |-> cred, new |->
       IF op = "revoke" THEN [cred EXCEPT !.enabled = FALSE, !.revoked = TRUE]
       ELSE [key |-> writes + 2, hash |-> writes + 2, enabled |-> TRUE, revoked |-> FALSE]])

CredentialColumn(old, new, now) == FlushColumn(old, new, now)

CredentialCommit(s) ==
  LET S == session[s] IN
  /\ S.op = "credential" /\ Ends(s)
  /\ cred' = [f \in DOMAIN cred |-> CredentialColumn(S.old[f], S.new[f], cred[f])]
  /\ UNCHANGED <<provider, user, identity, login, marker, code, token, dead>>

\* One attribute at a time: the handlers treat each on its own.
NoChange == [email |-> None, active |-> None, subject |-> None]
Changes == {[NoChange EXCEPT !.email = e] : e \in Emails}
           \cup {[NoChange EXCEPT !.active = a] : a \in {"yes", "no"}}
           \cup {[NoChange EXCEPT !.subject = x] : x \in Subjects}

Next ==
  \/ \E s \in Browsers :
       \/ \E x \in Subjects, e \in Emails : \/ StartOidcLogin(s, x, e)
                                            \/ StartSamlLogin(s, x, e)
                                            \/ ProviderStarts(s, x, e)
       \/ \E n \in DOMAIN login : OidcCallback(s, n) \/ SamlResponse(s, n)
       \/ \E c \in DOMAIN code : ExchangeRead(s, c)
       \/ CallbackCommit(s) \/ ExchangeCommit(s)
  \/ \E s \in Directories :
       \/ \E f \in {"enabled", "jit", "linking"} : UpdateProvider(s, f)
       \/ \E x \in Subjects, e \in Emails, a \in BOOLEAN : ScimCreateRead(s, x, e, a)
       \/ \E u \in DOMAIN user, c \in Changes : ScimUpdateRead(s, u, c)
       \/ \E op \in {"rotate", "revoke"} : CredentialRead(s, op)
       \/ ScimCommit(s) \/ CredentialCommit(s)
  \/ Expire

Spec == Init /\ [][Next]_vars

-----------------------------------------------------------------------------
\* Properties.

\* A sign-in yields one exchange code, however often its answer is posted and
\* however many requests handle it at once: the replay marker
\* (services/enterprise_identity.py:484) decides between requests that read
\* the transaction before either consumed it.
SignInAnsweredOnce ==
  \A c, d \in DOMAIN code : code[c].login = code[d].login => c = d

\* With one directory client, a token that was in force when its user was
\* deactivated, or that an exchange had read the user for and issues afterwards,
\* is dead for good, also after the user is active again.
DeactivationEndsTokens ==
  Cardinality(setting.clients \cap Directories) = 1 => \A t \in dead : ~Valid(t)

\* With one directory client, a user has at most one SCIM identity; two that
\* bind different externalIds at once both find none and both insert.
OneScimIdentity ==
  Cardinality(setting.clients \cap Directories) = 1 =>
    \A u \in DOMAIN user : Cardinality(ScimOf(u)) <= 1

\* An identity, once bound, stays bound to its user: neither a second sign-in
\* nor a SCIM write moves it, whatever runs at once.
IdentityStays ==
  [][\A p \in {"sso", "scim"}, x \in Subjects :
       identity[p][x] # 0 => identity'[p][x] = identity[p][x]]_vars

\* A revocation outlives the rotations that had already read the credential:
\* only one that read it revoked brings it back.
RevokeOutlivesRotation ==
  [][cred.revoked /\ ~cred'.revoked =>
       \E s \in Directories : session[s].op = "credential" /\ session[s].old.revoked]_vars

\* What the sign-in and the directory keep, whatever runs at once.
SignInsAreSafe ==
  /\ [](SignInAnsweredOnce /\ DeactivationEndsTokens /\ OneScimIdentity)
  /\ IdentityStays
  /\ RevokeOutlivesRotation
=============================================================================
