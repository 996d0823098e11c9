----------------------------- MODULE Dashboard -----------------------------
(***************************************************************************)
(* Who may do what on the dashboard (auth.py, tenancy.py,                  *)
(* dashboard/server.py).  One thread serves each request.  It takes tenant *)
(* and user from the headers, for which it needs the signing secret, enters*)
(* both scopes, and lets a route check one permission before it acts.      *)
(*                                                                         *)
(* Tokens also come from the command line: `token create` is a process of  *)
(* its own, with a runtime secret of its own.  What a route does to the    *)
(* registers, the vault or the evidence is in the modules of those; here   *)
(* it is the fact that it acted, and for which tenant.                     *)
(***************************************************************************)
EXTENDS Integers, FiniteSets

CONSTANTS
    Threads,        \* requests in service at the same time
    Tenants,        \* valid slugs besides "default"
    Roles,          \* the roles tokens are issued for
    Routes,         \* the routes that are asked for
    Lives,          \* expires_in_seconds
    Headers,        \* what X-Tenant-ID may say; "" if it is not there
    MaxTokens, MaxClock, MaxKeys    \* bounds

VARIABLES
    fixed,          \* SENTINEL_AUTH_SECRET is set, for every process
    secret,         \* _EPHEMERAL_SECRET of the server's process
    keys,           \* how many runtime secrets have been drawn
    tokens,         \* the tokens issued so far
    req,            \* what each thread is doing
    places,         \* tenants with a directory below output_base/tenants
    clock,
    answer          \* history: the answer this step gave, if it gave one

vars == <<fixed, secret, keys, tokens, req, places, clock, answer>>

Unset == -1         \* no runtime secret has been drawn
FixedKey == 0       \* the secret of the environment
NoToken == [role |-> "none"]
Forged == [role |-> "SUPER_ADMIN", tid |-> "default", exp |-> MaxClock + 1, key |-> Unset]
Slugs == Tenants \cup {"default"}

(***************************************************************************)
(* Roles and what they permit.                                             *)
(***************************************************************************)
Reads == {"READ_EVIDENCE", "READ_REPORT"}
Audits == Reads \cup {"READ_POLICY", "READ_AUDIT", "VERIFY_INTEGRITY"}
Officer == Audits \cup {"READ_CONFIG", "TRIGGER_COLLECTION", "EXPORT_AUDIT_PACK", "RUN_POLICY"}
Admin == Officer \cup {"MANAGE_CREDENTIALS"}

RolePermissions ==
    [SUPER_ADMIN |-> Admin \cup {"MANAGE_TENANT", "MANAGE_USER", "TOKEN_MANAGE"},
     SECURITY_ADMIN |-> Admin, COMPLIANCE_OFFICER |-> Officer, AUDITOR |-> Audits,
     SYSTEM_USER |-> Reads, VIEWER |-> Reads, UNAUTHENTICATED |-> {}]

HasPermission(user, permission) == permission \in RolePermissions[user.role]

Anonymous(tid) == [role |-> "UNAUTHENTICATED", tid |-> tid]

(* getattr(Role, name, SYSTEM_USER): an unknown role reads. *)
RoleNamed(name) == IF name \in DOMAIN RolePermissions THEN name ELSE "SYSTEM_USER"

(***************************************************************************)
(* The routes and the permission each asks for; "none" asks for none.      *)
(***************************************************************************)
PageRoutes ==
    [page |-> "none", status |-> "none", scorecard |-> "READ_EVIDENCE",
     drift |-> "READ_EVIDENCE", credentials |-> "READ_CONFIG",
     evidence |-> "READ_EVIDENCE", artifact |-> "READ_EVIDENCE", report |-> "READ_REPORT"]
FeedRoutes ==
    [rules |-> "READ_POLICY", tenants |-> "MANAGE_TENANT", stream |-> "READ_AUDIT",
     metrics |-> "READ_REPORT", vcs |-> "READ_EVIDENCE", events |-> "READ_AUDIT"]
RegisterRoutes ==
    [chain |-> "READ_EVIDENCE", vendors |-> "READ_CONFIG", vendorReport |-> "READ_REPORT",
     campaigns |-> "READ_EVIDENCE", trustCenter |-> "none", dogfood |-> "READ_REPORT",
     rooms |-> "READ_AUDIT"]
RoomRoutes == [room |-> "READ_AUDIT"]
DownloadRoutes == [download |-> "READ_REPORT"]
IntegrityPosts ==
    [verify |-> "VERIFY_INTEGRITY", evaluate |-> "RUN_POLICY", createTenant |-> "MANAGE_TENANT",
     createToken |-> "TOKEN_MANAGE", seal |-> "VERIFY_INTEGRITY"]
RegisterPosts ==
    [saveVendor |-> "MANAGE_CREDENTIALS", decide |-> "MANAGE_USER", signoff |-> "MANAGE_USER",
     notify |-> "MANAGE_CREDENTIALS"]
RoomPosts ==
    [createRoom |-> "MANAGE_USER", revokeRoom |-> "MANAGE_USER", exportRoom |-> "READ_REPORT"]
SiemPosts == [ndjson |-> "READ_AUDIT", forward |-> "MANAGE_CREDENTIALS"]
(* Mutant of ScanPosts: a scan asks for what its results ask for. *)
ScanByReaders == [scan |-> "READ_EVIDENCE"]

ScanPosts == [scan |-> "TRIGGER_COLLECTION"]
ExportPosts == [export |-> "READ_REPORT"]

RouteTables ==
    {PageRoutes, FeedRoutes, RegisterRoutes, RoomRoutes, DownloadRoutes, IntegrityPosts,
     RegisterPosts, RoomPosts, SiemPosts, ScanPosts, ExportPosts}

Asks ==
    [route \in UNION {DOMAIN table : table \in RouteTables} |->
        (CHOOSE table \in RouteTables : route \in DOMAIN table)[route]]

(* These do not open a directory of the tenant. *)
Homeless ==
    {"page", "status", "credentials", "rules", "tenants", "stream", "vcs", "events",
     "evaluate", "createTenant", "createToken", "notify"}

(* These resolve the directory, which creates it, before they check. *)
OpensFirst == {"trustCenter", "room", "ndjson", "forward"}

-----------------------------------------------------------------------------
Idle == [phase |-> "idle"]
None == [route |-> "none"]

Init ==
    /\ fixed \in BOOLEAN
    /\ secret = Unset
    /\ keys = 0
    /\ tokens = {}
    /\ req = [t \in Threads |-> Idle]
    /\ places = {}
    /\ clock = 0
    /\ answer = None

(* A request arrives: its bearer token and its X-Tenant-ID, if it has them. *)
Receive(t) ==
    /\ req[t] = Idle
    /\ \E token \in tokens \cup {NoToken, Forged}, header \in Headers :
            req' = [req EXCEPT ![t] =
                [phase |-> IF token = NoToken THEN "context" ELSE "secret",
                 token |-> token, header |-> header, key |-> Unset]]
    /\ answer' = None
    /\ UNCHANGED <<fixed, secret, keys, tokens, places, clock>>

(* Mutant of SecretInForce: the environment is not consulted. *)
RuntimeSecret == secret

SecretInForce == IF fixed THEN FixedKey ELSE secret

(* get_signing_secret: tests, draws, and reads again what is stored. *)
FindSecret(t) ==
    /\ req[t].phase = "secret"
    /\ req' = [req EXCEPT ![t].phase = IF SecretInForce = Unset THEN "draw" ELSE "context",
                          ![t].key = SecretInForce]
    /\ answer' = None
    /\ UNCHANGED <<fixed, secret, keys, tokens, places, clock>>

DrawSecret(t) ==
    /\ req[t].phase = "draw"
    /\ keys < MaxKeys
    /\ keys' = keys + 1
    /\ secret' = keys'
    /\ req' = [req EXCEPT ![t].phase = "secret"]
    /\ answer' = None
    /\ UNCHANGED <<fixed, tokens, places, clock>>

(* verify_token: the signature is this server's and the day has not passed. *)
Verifies(token, key) == token.key = key /\ token.exp >= clock

(* Mutant of TenantOf: the header is believed. *)
TenantOfHeader(r, user) == IF r.header # "" THEN r.header ELSE user.tid

(* The tenant of a verified user is the token's. *)
TenantOf(r, user) == user.tid

(***************************************************************************)
(* _extract_context and the two scopes.  A header that contradicts the     *)
(* token, or names no valid slug, raises outside every try: the connection *)
(* is dropped without an answer.                                           *)
(***************************************************************************)
UserOf(r) ==
    IF r.token # NoToken /\ Verifies(r.token, r.key)
    THEN r.token
    ELSE Anonymous(IF r.header = "" THEN "default" ELSE r.header)

Conflicts(r, user) == user.role # "UNAUTHENTICATED" /\ r.header \notin {"", TenantOf(r, user)}

ExtractContext(t) ==
    LET r == req[t]
        user == UserOf(r)
        tid == TenantOf(r, user)
    IN  /\ r.phase = "context"
        /\ req' = [req EXCEPT ![t] =
                IF Conflicts(r, user) \/ tid \notin Slugs
                THEN Idle
                ELSE [phase |-> "handle", user |-> user, tid |-> tid]]
        /\ answer' = None
        /\ UNCHANGED <<fixed, secret, keys, tokens, places, clock>>

(***************************************************************************)
(* A route answers: "403" without the permission, "done" when it acted,    *)
(* "refused" when it found fault with what was asked or failed; a route    *)
(* that opens the directory first may find fault before it checks.         *)
(* A visitor of an audit room may show the room's own token, which is then *)
(* all that counts, even for a user who could have come without.           *)
(***************************************************************************)
Granted(r, route, guest) ==
    CASE route = "room" /\ guest # "" -> guest = "invited"
      [] route = "room" /\ guest = "" -> HasPermission(r.user, Asks[route])
      [] OTHER -> Asks[route] = "none" \/ HasPermission(r.user, Asks[route])

Answer(t, route, guest, reply) ==
    /\ answer' = [route |-> route, guest |-> guest, reply |-> reply, tid |-> req[t].tid,
                  user |-> req[t].user]
    /\ req' = [req EXCEPT ![t] = Idle]

(* The directory a route opens; the default tenant's is output_base. *)
Opened(t, route, passed) ==
    IF route \notin Homeless /\ (passed \/ route \in OpensFirst)
    THEN {req[t].tid} \ {"default"}
    ELSE {}

Handle(t) ==
    /\ req[t].phase = "handle"
    /\ \E route \in Routes \ {"createTenant", "createToken"} :
       \E guest \in IF route = "room" THEN {"", "invited", "stranger"} ELSE {""} :
            LET passed == Granted(req[t], route, guest) IN
            /\ \E reply \in (IF passed THEN {"done"} ELSE {"403"})
                           \cup (IF passed \/ route \in OpensFirst THEN {"refused"} ELSE {}) :
                    Answer(t, route, guest, reply)
            /\ places' = places \cup Opened(t, route, passed)
    /\ UNCHANGED <<fixed, secret, keys, tokens, clock>>

(* create_tenant: the directories of a new tenant, of any valid slug. *)
CreateTenant(t) ==
    /\ req[t].phase = "handle"
    /\ \E tenant \in Tenants :
            IF Granted(req[t], "createTenant", "")
            THEN \/ Answer(t, "createTenant", "", "done") /\ places' = places \cup {tenant}
                 \/ Answer(t, "createTenant", "", "refused") /\ UNCHANGED places
            ELSE Answer(t, "createTenant", "", "403") /\ UNCHANGED places
    /\ UNCHANGED <<fixed, secret, keys, tokens, clock>>

(***************************************************************************)
(* tokens/create: for any user, role and tenant, also another than the     *)
(* issuer's.  Who gets here has had a token verified, so the secret has    *)
(* been drawn.                                                             *)
(***************************************************************************)
NewToken(role, tid, life, key) ==
    [role |-> RoleNamed(role), tid |-> tid, exp |-> clock + life, key |-> key]

CreateToken(t) ==
    /\ req[t].phase = "handle"
    /\ IF Granted(req[t], "createToken", "")
       THEN /\ Cardinality(tokens) < MaxTokens
            /\ \E role \in Roles, tid \in Slugs, life \in Lives :
                    tokens' = tokens \cup {NewToken(role, tid, life, SecretInForce)}
            /\ Answer(t, "createToken", "", "done")
       ELSE Answer(t, "createToken", "", "403") /\ UNCHANGED tokens
    /\ UNCHANGED <<fixed, secret, keys, places, clock>>

(* `token create` on the command line: another process, another secret. *)
CommandLineToken ==
    /\ Cardinality(tokens) < MaxTokens
    /\ keys < MaxKeys
    /\ keys' = IF fixed THEN keys ELSE keys + 1
    /\ \E role \in Roles, tid \in Slugs, life \in Lives :
            tokens' = tokens \cup {NewToken(role, tid, life, IF fixed THEN FixedKey ELSE keys')}
    /\ answer' = None
    /\ UNCHANGED <<fixed, secret, req, places, clock>>

Tick ==
    /\ clock < MaxClock
    /\ clock' = clock + 1
    /\ answer' = None
    /\ UNCHANGED <<fixed, secret, keys, tokens, req, places>>

(* The server's process ends and is started anew: its secret is gone. *)
Restart ==
    /\ secret' = Unset
    /\ req' = [t \in Threads |-> Idle]
    /\ answer' = None
    /\ UNCHANGED <<fixed, keys, tokens, places, clock>>

Next ==
    \/ \E t \in Threads :
        \/ Receive(t) \/ FindSecret(t) \/ DrawSecret(t) \/ ExtractContext(t)
        \/ Handle(t) \/ CreateTenant(t) \/ CreateToken(t)
    \/ CommandLineToken \/ Tick \/ Restart

Spec == Init /\ [][Next]_vars

-----------------------------------------------------------------------------
(* What changes the registers, the tenants, the tokens or the evidence. *)
Governing ==
    {"saveVendor", "decide", "signoff", "createRoom", "revokeRoom", "createTenant",
     "createToken", "scan"}
ReadOnly == {"AUDITOR", "SYSTEM_USER", "VIEWER", "UNAUTHENTICATED"}

(***************************************************************************)
(* Nothing of what governs the program is changed for a user whose role    *)
(* reads: a vendor, a decision, a signature, a room, a tenant, a token and *)
(* a scan take a token of another role, issued and not forged.             *)
(***************************************************************************)
ReadersGovernNothing ==
    answer.route \in Governing /\ answer.reply = "done" =>
        answer.user \in tokens /\ answer.user.role \notin ReadOnly

(***************************************************************************)
(* A request reaches the directory of a tenant only with a token issued    *)
(* for that tenant, or with the token of one of the tenant's audit rooms,  *)
(* or for its trust centre, which is public.                               *)
(***************************************************************************)
TenantsApart ==
    /\ answer.route \notin Homeless \cup {"none", "trustCenter"}
    /\ answer.reply = "done"
    => \/ \E token \in tokens : token.tid = answer.tid /\ token = answer.user
       \/ answer.route = "room" /\ answer.guest = "invited"

(***************************************************************************)
(* With SENTINEL_AUTH_SECRET set, every token is honoured until the second *)
(* of its expiry, by every thread and after every restart.  Without it     *)
(* none ever is: only a server that honours a token issues one, and those  *)
(* of the command line are signed with a secret that has ended with it.    *)
(***************************************************************************)
TokensAreHonoured ==
    [][\A t \in Threads :
        req[t].phase = "context" /\ req'[t].phase = "handle" /\ req[t].token \in tokens =>
            (req'[t].user = req[t].token) = (fixed /\ req[t].token.exp >= clock)]_vars
=============================================================================
