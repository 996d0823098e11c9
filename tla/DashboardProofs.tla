-------------------------- MODULE DashboardProofs --------------------------
(***************************************************************************)
(* Proofs about Dashboard, for any number of threads, any tenants, roles,  *)
(* headers and lifetimes, and whatever the bounds are.                     *)
(***************************************************************************)
EXTENDS Dashboard, TLAPS

(* The routes asked for exist; a token's life is not negative. *)
Parameters == Routes \subseteq DOMAIN Asks /\ Lives \subseteq Nat

-----------------------------------------------------------------------------
(***************************************************************************)
(* What the table of routes must be for the properties to hold: a route    *)
(* that asks for nothing shows nothing of a tenant but its trust centre,   *)
(* and one that governs asks for what no reading role has.                 *)
(***************************************************************************)
Public == {"page", "status", "trustCenter"}
Powers ==
    {"MANAGE_CREDENTIALS", "MANAGE_USER", "MANAGE_TENANT", "TOKEN_MANAGE", "TRIGGER_COLLECTION"}

Guarded(routes) ==
    \A route \in DOMAIN routes :
        /\ routes[route] = "none" => route \in Public
        /\ route \in Governing => routes[route] \in Powers

LEMMA RoutesGuarded == Guarded(Asks)
<1>1. Guarded(PageRoutes) /\ Guarded(FeedRoutes)
    BY DEF Guarded, PageRoutes, FeedRoutes, Public, Governing, Powers
<1>2. Guarded(RegisterRoutes) /\ Guarded(RoomRoutes) /\ Guarded(DownloadRoutes)
    BY DEF Guarded, RegisterRoutes, RoomRoutes, DownloadRoutes, Public, Governing, Powers
<1>3. Guarded(IntegrityPosts) /\ Guarded(RegisterPosts) /\ Guarded(RoomPosts)
    BY DEF Guarded, IntegrityPosts, RegisterPosts, RoomPosts, Public, Governing, Powers
<1>4. Guarded(SiemPosts) /\ Guarded(ScanPosts) /\ Guarded(ExportPosts)
    BY DEF Guarded, SiemPosts, ScanPosts, ExportPosts, Public, Governing, Powers
<1>5. \A table \in RouteTables : Guarded(table)
    BY <1>1, <1>2, <1>3, <1>4 DEF RouteTables
<1>6. ASSUME NEW route \in DOMAIN Asks
      PROVE  /\ Asks[route] = "none" => route \in Public
             /\ route \in Governing => Asks[route] \in Powers
    <2> DEFINE Its == CHOOSE table \in RouteTables : route \in DOMAIN table
    <2>1. Its \in RouteTables /\ route \in DOMAIN Its
        BY DEF Asks
    <2>2. Asks[route] = Its[route]
        BY DEF Asks
    <2> QED
        BY <1>5, <2>1, <2>2 DEF Guarded
<1> QED
    BY <1>6 DEF Guarded

RoleNames ==
    {"SUPER_ADMIN", "SECURITY_ADMIN", "COMPLIANCE_OFFICER", "AUDITOR", "SYSTEM_USER", "VIEWER",
     "UNAUTHENTICATED"}

LEMMA RoleDomain == DOMAIN RolePermissions = RoleNames
    BY DEF RolePermissions, RoleNames

LEMMA NamedRole == \A name : RoleNamed(name) \in RoleNames
    BY RoleDomain DEF RoleNamed, RoleNames

(* An anonymous user may do nothing, and one who only reads governs nothing. *)
LEMMA Powerless ==
    ASSUME NEW user, NEW permission, HasPermission(user, permission)
    PROVE  /\ user.role # "UNAUTHENTICATED"
           /\ permission \in Powers => user.role \notin ReadOnly
    BY DEF HasPermission, RolePermissions, Powers, ReadOnly, Admin, Officer, Audits, Reads

-----------------------------------------------------------------------------
(***************************************************************************)
(* The inductive invariant.  A request holds a token that was issued, or   *)
(* none, or a forged one; the secret it has found is the one in force, or  *)
(* was before a restart, and no token issued since by another process was  *)
(* signed with it.                                                         *)
(***************************************************************************)
Tokens == [role: RoleNames, tid: Slugs, exp: Nat, key: Nat]

Arrived ==
    [phase: {"secret", "draw", "context"}, token: tokens \cup {NoToken, Forged},
     header: Headers, key: Int]
Known ==
    [phase: {"handle"}, user: tokens \cup {Anonymous(tid) : tid \in Slugs}, tid: Slugs]

TypeOK ==
    /\ fixed \in BOOLEAN
    /\ secret \in Int
    /\ keys \in Nat
    /\ clock \in Nat
    /\ tokens \subseteq Tokens
    /\ req \in [Threads -> {Idle} \cup Arrived \cup Known]

(* No token can be verified with a runtime secret the server has drawn. *)
Barren(key) == key \in 1..keys /\ \A token \in tokens : token.key # key

SecretsInOrder ==
    IF fixed
    THEN \A token \in tokens : token.key = FixedKey
    ELSE /\ \A token \in tokens : token.key \in 1..keys
         /\ secret = Unset \/ Barren(secret)

(* A token is verified with the secret of the environment, or a barren one. *)
FoundSecret(t) ==
    req[t].phase = "context" /\ req[t].token # NoToken =>
        IF fixed THEN req[t].key = FixedKey ELSE Barren(req[t].key)

(* Who is served is anonymous, or came with the token of that tenant. *)
KnownUser(t) ==
    req[t].phase = "handle" =>
        \/ req[t].user = Anonymous(req[t].tid)
        \/ fixed /\ req[t].user \in tokens /\ req[t].user.tid = req[t].tid

Standing ==
    /\ TypeOK
    /\ SecretsInOrder
    /\ \A t \in Threads : FoundSecret(t) /\ KnownUser(t)

IInv == Standing /\ TenantsApart /\ ReadersGovernNothing

LEMMA Initially == Init => IInv
<1> SUFFICES ASSUME Init PROVE IInv
    OBVIOUS
<1>1. TypeOK
    BY DEF Init, TypeOK, Unset, Idle
<1>2. SecretsInOrder
    BY DEF Init, SecretsInOrder
<1>3. \A t \in Threads : FoundSecret(t) /\ KnownUser(t)
    BY DEF Init, Idle, FoundSecret, KnownUser
<1>4. TenantsApart /\ ReadersGovernNothing
    BY DEF Init, None, TenantsApart, ReadersGovernNothing, Governing
<1> QED
    BY <1>1, <1>2, <1>3, <1>4 DEF IInv, Standing

(* A token is not what stands for the absence of one, nor an anonymous user. *)
LEMMA TokenIsNeither ==
    ASSUME NEW token \in Tokens, NEW tid
    PROVE  token # NoToken /\ token # Anonymous(tid) /\ token # Forged
<1>1. token # NoToken
    BY DEF Tokens, NoToken, RoleNames
<1>2. DOMAIN token = {"role", "tid", "exp", "key"}
    BY DEF Tokens
<1>3. DOMAIN Anonymous(tid) = {"role", "tid"}
    BY DEF Anonymous
<1>4. token # Forged
    BY DEF Tokens, Forged, Unset
<1> QED
    BY <1>1, <1>2, <1>3, <1>4

(* A step that answers nobody and issues and verifies nothing. *)
LEMMA QuietStep ==
    ASSUME answer' = None
    PROVE  TenantsApart' /\ ReadersGovernNothing'
    BY DEF None, TenantsApart, ReadersGovernNothing, Governing

LEMMA ReceiveStep ==
    ASSUME Standing, NEW t \in Threads, Receive(t)
    PROVE  Standing'
<1> USE DEF Standing, TypeOK
<1>1. PICK token \in tokens \cup {NoToken, Forged}, header \in Headers :
        req' = [req EXCEPT ![t] =
                    [phase |-> IF token = NoToken THEN "context" ELSE "secret",
                     token |-> token, header |-> header, key |-> Unset]]
    BY DEF Receive
<1>2. UNCHANGED <<fixed, secret, keys, tokens, clock>>
    BY DEF Receive
<1>3. TypeOK'
    BY <1>1, <1>2 DEF Arrived, Known, Unset
<1>4. SecretsInOrder'
    BY <1>2 DEF SecretsInOrder, Barren
<1>5. ASSUME NEW u \in Threads PROVE FoundSecret(u)' /\ KnownUser(u)'
    <2>1. CASE u = t
        BY <1>1, <2>1 DEF FoundSecret, KnownUser
    <2>2. CASE u # t
        BY <1>1, <1>2, <2>2 DEF FoundSecret, KnownUser, Barren
    <2> QED
        BY <2>1, <2>2
<1> QED
    BY <1>3, <1>4, <1>5

LEMMA FindSecretStep ==
    ASSUME Standing, NEW t \in Threads, FindSecret(t)
    PROVE  Standing'
<1> USE DEF Standing, TypeOK
<1>1. /\ req' = [req EXCEPT ![t].phase = IF SecretInForce = Unset THEN "draw" ELSE "context",
                            ![t].key = SecretInForce]
      /\ UNCHANGED <<fixed, secret, keys, tokens, clock>>
      /\ req[t] \in Arrived
    BY DEF FindSecret, Idle, Known
<1>2. SecretInForce \in Int
    BY DEF SecretInForce, FixedKey
<1>3. /\ req'[t] \in Arrived
      /\ req'[t].key = SecretInForce
      /\ req'[t].phase = "context" => SecretInForce # Unset
      /\ req'[t].phase # "handle"
      /\ \A u \in Threads \ {t} : req'[u] = req[u]
    BY <1>1, <1>2 DEF Arrived
<1>4. TypeOK'
    <2>1. Arrived' = Arrived /\ Known' = Known
        BY <1>1 DEF Arrived, Known
    <2> QED
        BY <1>1, <1>3, <2>1
<1>5. SecretsInOrder'
    BY <1>1 DEF SecretsInOrder, Barren
<1>6. ASSUME NEW u \in Threads PROVE FoundSecret(u)' /\ KnownUser(u)'
    <2>1. CASE u = t
        BY <1>1, <1>3, <2>1
        DEF FoundSecret, KnownUser, SecretsInOrder, Barren, SecretInForce
    <2>2. CASE u # t
        BY <1>1, <1>3, <2>2 DEF FoundSecret, KnownUser, Barren
    <2> QED
        BY <2>1, <2>2
<1> QED
    BY <1>4, <1>5, <1>6

LEMMA DrawSecretStep ==
    ASSUME Standing, NEW t \in Threads, DrawSecret(t)
    PROVE  Standing'
<1> USE DEF Standing, TypeOK
<1>1. /\ keys' = keys + 1 /\ secret' = keys'
      /\ req' = [req EXCEPT ![t].phase = "secret"]
      /\ UNCHANGED <<fixed, tokens, clock>>
      /\ req[t] \in Arrived
    BY DEF DrawSecret, Idle, Known
<1>2. /\ req'[t] \in Arrived
      /\ req'[t].phase = "secret"
      /\ \A u \in Threads \ {t} : req'[u] = req[u]
    BY <1>1 DEF Arrived
<1>3. TypeOK'
    <2>1. Arrived' = Arrived /\ Known' = Known
        BY <1>1 DEF Arrived, Known
    <2> QED
        BY <1>1, <1>2, <2>1
<1>4. SecretsInOrder'
    BY <1>1 DEF SecretsInOrder, Barren
<1>5. ASSUME NEW u \in Threads PROVE FoundSecret(u)' /\ KnownUser(u)'
    <2>1. CASE u = t
        BY <1>2, <2>1 DEF FoundSecret, KnownUser
    <2>2. CASE u # t
        BY <1>1, <1>2, <2>2 DEF FoundSecret, KnownUser, Barren
    <2> QED
        BY <2>1, <2>2
<1> QED
    BY <1>3, <1>4, <1>5

LEMMA ExtractContextStep ==
    ASSUME Standing, NEW t \in Threads, ExtractContext(t)
    PROVE  Standing'
<1> USE DEF Standing, TypeOK
<1> DEFINE r == req[t]
           user == UserOf(r)
           next == [phase |-> "handle", user |-> user, tid |-> user.tid]
<1>1. /\ r.phase = "context"
      /\ \/ req' = [req EXCEPT ![t] = Idle]
         \/ user.tid \in Slugs /\ req' = [req EXCEPT ![t] = next]
      /\ UNCHANGED <<fixed, secret, keys, tokens, clock>>
    BY DEF ExtractContext, TenantOf
<1>2. r \in Arrived
    BY <1>1 DEF Idle, Known
<1>3. \/ user = Anonymous(user.tid)
      \/ fixed /\ user \in tokens
    <2>1. CASE r.token # NoToken /\ Verifies(r.token, r.key)
        <3>1. user = r.token /\ r.token.key = r.key
            BY <2>1 DEF UserOf, Verifies
        <3>2. r.token # Forged
            BY <1>1, <2>1, <3>1 DEF FoundSecret, Forged, Unset, FixedKey, Barren
        <3>3. r.token \in tokens
            BY <1>2, <2>1, <3>2 DEF Arrived
        <3>4. fixed
            BY <1>1, <2>1, <3>1, <3>3 DEF FoundSecret, Barren
        <3> QED
            BY <3>1, <3>3, <3>4
    <2>2. CASE ~(r.token # NoToken /\ Verifies(r.token, r.key))
        BY <2>2 DEF UserOf, Anonymous
    <2> QED
        BY <2>1, <2>2
<1>4. TypeOK'
    <2>1. Arrived' = Arrived /\ Known' = Known
        BY <1>1 DEF Arrived, Known
    <2>2. user.tid \in Slugs => next \in Known
        BY <1>3 DEF Known
    <2> QED
        BY <1>1, <2>1, <2>2
<1>5. SecretsInOrder'
    BY <1>1 DEF SecretsInOrder, Barren
<1>6. ASSUME NEW u \in Threads PROVE FoundSecret(u)' /\ KnownUser(u)'
    <2>1. CASE u = t
        BY <1>1, <1>3, <2>1 DEF FoundSecret, KnownUser, Idle
    <2>2. CASE u # t
        BY <1>1, <2>2 DEF FoundSecret, KnownUser, Barren
    <2> QED
        BY <2>1, <2>2
<1> QED
    BY <1>4, <1>5, <1>6

(***************************************************************************)
(* A route that answers frees its thread; no secret is drawn.  Tokens are  *)
(* issued only with the secret of the environment.                         *)
(***************************************************************************)
LEMMA AnswerStep ==
    ASSUME Standing, NEW t \in Threads, req' = [req EXCEPT ![t] = Idle],
           UNCHANGED <<fixed, secret, keys, clock>>,
           tokens \subseteq tokens', tokens' \subseteq Tokens,
           tokens' # tokens => fixed,
           \A token \in tokens' \ tokens : token.key = FixedKey
    PROVE  Standing'
<1> USE DEF Standing, TypeOK
<1>1. Arrived \subseteq Arrived' /\ Known \subseteq Known'
    BY DEF Arrived, Known
<1>2. TypeOK'
    BY <1>1
<1>3. SecretsInOrder'
    BY DEF SecretsInOrder, Barren
<1>4. ASSUME NEW u \in Threads PROVE FoundSecret(u)' /\ KnownUser(u)'
    <2>1. CASE u = t
        BY <2>1 DEF FoundSecret, KnownUser, Idle
    <2>2. CASE u # t
        BY <2>2 DEF FoundSecret, KnownUser, Barren
    <2> QED
        BY <2>1, <2>2
<1> QED
    BY <1>2, <1>3, <1>4

(* Whoever is permitted something came with a token of the tenant served. *)
LEMMA PermittedUser ==
    ASSUME Standing, NEW t \in Threads, req[t].phase = "handle", NEW permission,
           HasPermission(req[t].user, permission)
    PROVE  fixed /\ req[t].user \in tokens /\ req[t].user.tid = req[t].tid
<1>1. req[t].user # Anonymous(req[t].tid)
    BY Powerless DEF Anonymous
<1> QED
    BY <1>1 DEF Standing, KnownUser

(* What any route may answer: the heart of both properties of answers. *)
LEMMA AnswerIsBacked ==
    ASSUME Standing, NEW t \in Threads, req[t].phase = "handle",
           NEW route \in DOMAIN Asks, NEW guest, NEW reply,
           Answer(t, route, guest, reply), tokens \subseteq tokens',
           reply = "done" => Granted(req[t], route, guest)
    PROVE  TenantsApart' /\ ReadersGovernNothing'
<1>1. answer' = [route |-> route, guest |-> guest, reply |-> reply, tid |-> req[t].tid,
                 user |-> req[t].user]
    BY DEF Answer
<1>2. SUFFICES ASSUME reply = "done" PROVE TenantsApart' /\ ReadersGovernNothing'
    BY <1>1 DEF TenantsApart, ReadersGovernNothing
<1>3. /\ Asks[route] = "none" => route \in Public
      /\ route \in Governing => Asks[route] \in Powers
    BY RoutesGuarded DEF Guarded
<1>4. CASE HasPermission(req[t].user, Asks[route])
    <2>1. req[t].user \in tokens' /\ req[t].user.tid = req[t].tid
        BY <1>4, PermittedUser
    <2>2. route \in Governing => req[t].user.role \notin ReadOnly
        BY <1>3, <1>4, Powerless
    <2>3. TenantsApart'
        BY <1>1, <2>1 DEF TenantsApart
    <2>4. ReadersGovernNothing'
        BY <1>1, <2>1, <2>2 DEF ReadersGovernNothing
    <2> QED
        BY <2>3, <2>4
<1>5. CASE ~HasPermission(req[t].user, Asks[route])
    <2>1. (route = "room" /\ guest = "invited") \/ Asks[route] = "none"
        BY <1>2, <1>5 DEF Granted
    <2>2. (route = "room" /\ guest = "invited") \/ route \in Public
        BY <1>3, <2>1
    <2>3. TenantsApart'
        BY <1>1, <2>2 DEF TenantsApart, Public, Homeless
    <2>4. ReadersGovernNothing'
        BY <1>1, <2>2 DEF ReadersGovernNothing, Public, Governing
    <2> QED
        BY <2>3, <2>4
<1> QED
    BY <1>4, <1>5

LEMMA NewTokenType ==
    ASSUME Parameters, NEW role, NEW tid \in Slugs, NEW life \in Lives, NEW key \in Nat, clock \in Nat
    PROVE  NewToken(role, tid, life, key) \in Tokens /\ NewToken(role, tid, life, key).key = key
<1>1. clock + life \in Nat
    BY DEF Parameters
<1> QED
    BY <1>1, NamedRole DEF NewToken, Tokens

LEMMA HandleStep ==
    ASSUME Parameters, Standing, NEW t \in Threads, Handle(t)
    PROVE  IInv'
<1>1. PICK route \in Routes \ {"createTenant", "createToken"} :
       \E guest \in IF route = "room" THEN {"", "invited", "stranger"} ELSE {""} :
       \E reply \in (IF Granted(req[t], route, guest) THEN {"done"} ELSE {"403"})
                    \cup (IF Granted(req[t], route, guest) \/ route \in OpensFirst
                          THEN {"refused"} ELSE {}) :
            Answer(t, route, guest, reply)
    BY DEF Handle
<1>2. req[t].phase = "handle" /\ UNCHANGED <<fixed, secret, keys, tokens, clock>>
    BY DEF Handle
<1>3. PICK guest, reply :
        /\ Answer(t, route, guest, reply)
        /\ reply = "done" => Granted(req[t], route, guest)
    BY <1>1
<1>4. TenantsApart' /\ ReadersGovernNothing'
    BY <1>2, <1>3, AnswerIsBacked DEF Parameters
<1>5. Standing'
    BY <1>2, <1>3, AnswerStep DEF Answer, Standing, TypeOK
<1> QED
    BY <1>4, <1>5 DEF IInv

LEMMA CreateTenantStep ==
    ASSUME Standing, NEW t \in Threads, CreateTenant(t)
    PROVE  IInv'
<1>1. req[t].phase = "handle" /\ UNCHANGED <<fixed, secret, keys, tokens, clock>>
    BY DEF CreateTenant
<1>2. PICK reply \in {"done", "refused", "403"} :
        /\ Answer(t, "createTenant", "", reply)
        /\ reply = "done" => Granted(req[t], "createTenant", "")
    BY DEF CreateTenant
<1>3. "createTenant" \in DOMAIN Asks
    BY DEF Asks, RouteTables, IntegrityPosts
<1>4. TenantsApart' /\ ReadersGovernNothing'
    BY <1>1, <1>2, <1>3, AnswerIsBacked
<1>5. Standing'
    BY <1>1, <1>2, AnswerStep DEF Answer, Standing, TypeOK
<1> QED
    BY <1>4, <1>5 DEF IInv

LEMMA CreateTokenStep ==
    ASSUME Parameters, Standing, NEW t \in Threads, CreateToken(t)
    PROVE  IInv'
<1> DEFINE granted == Granted(req[t], "createToken", "")
<1>1. req[t].phase = "handle" /\ UNCHANGED <<fixed, secret, keys, clock>>
    BY DEF CreateToken
<1>2. "createToken" \in DOMAIN Asks /\ Asks["createToken"] # "none"
    <2>1. "createToken" \in DOMAIN Asks
        BY DEF Asks, RouteTables, IntegrityPosts
    <2> QED
        BY <2>1, RoutesGuarded DEF Guarded, Public
<1>3. granted => fixed
    BY <1>1, <1>2, PermittedUser DEF Granted
<1>4. \/ granted /\ Answer(t, "createToken", "", "done")
      \/ Answer(t, "createToken", "", "403")
    BY DEF CreateToken
<1>5. \/ tokens' = tokens
      \/ /\ granted
         /\ \E role \in Roles, tid \in Slugs, life \in Lives :
                tokens' = tokens \cup {NewToken(role, tid, life, SecretInForce)}
    BY DEF CreateToken
<1>6. /\ tokens \subseteq tokens' /\ tokens' \subseteq Tokens
      /\ tokens' # tokens => fixed
      /\ \A token \in tokens' \ tokens : token.key = FixedKey
    <2>1. CASE tokens' = tokens
        BY <2>1 DEF Standing, TypeOK
    <2>2. CASE granted /\ \E role \in Roles, tid \in Slugs, life \in Lives :
                tokens' = tokens \cup {NewToken(role, tid, life, SecretInForce)}
        <3>1. PICK role \in Roles, tid \in Slugs, life \in Lives :
                tokens' = tokens \cup {NewToken(role, tid, life, SecretInForce)}
            BY <2>2
        <3>2. fixed /\ SecretInForce = FixedKey /\ FixedKey \in Nat
            BY <1>3, <2>2 DEF SecretInForce, FixedKey
        <3>3. /\ NewToken(role, tid, life, SecretInForce) \in Tokens
              /\ NewToken(role, tid, life, SecretInForce).key = FixedKey
            BY <3>2, NewTokenType DEF Standing, TypeOK
        <3> QED
            BY <3>1, <3>2, <3>3 DEF Standing, TypeOK
    <2> QED
        BY <1>5, <2>1, <2>2
<1>7. Standing'
    BY <1>1, <1>4, <1>6, AnswerStep DEF Answer
<1>8. TenantsApart' /\ ReadersGovernNothing'
    BY <1>1, <1>2, <1>4, <1>6, AnswerIsBacked
<1> QED
    BY <1>7, <1>8 DEF IInv

LEMMA CommandLineTokenStep ==
    ASSUME Parameters, Standing, CommandLineToken
    PROVE  Standing'
<1> USE DEF Standing, TypeOK
<1> DEFINE key == IF fixed THEN FixedKey ELSE keys'
<1>1. /\ keys' = IF fixed THEN keys ELSE keys + 1
      /\ UNCHANGED <<fixed, secret, req, clock>>
    BY DEF CommandLineToken
<1>2. PICK role \in Roles, tid \in Slugs, life \in Lives :
        tokens' = tokens \cup {NewToken(role, tid, life, key)}
    BY DEF CommandLineToken
<1>3. key \in Nat /\ keys' \in Nat
    BY <1>1 DEF FixedKey
<1> DEFINE new == NewToken(role, tid, life, key)
<1>4. new \in Tokens /\ new.key = key
    BY <1>3, NewTokenType
<1>5. tokens' = tokens \cup {new}
    BY <1>2
<1> HIDE DEF new
<1>6. TypeOK'
    <2>1. Arrived \subseteq Arrived' /\ Known \subseteq Known'
        BY <1>1, <1>5 DEF Arrived, Known
    <2> QED
        BY <1>1, <1>3, <1>4, <1>5, <2>1
<1>7. ASSUME NEW k, ~fixed, Barren(k) PROVE Barren(k)'
    BY <1>1, <1>4, <1>5, <1>7 DEF Barren
<1>8. SecretsInOrder'
    BY <1>1, <1>4, <1>5, <1>7 DEF SecretsInOrder
<1>9. ASSUME NEW u \in Threads PROVE FoundSecret(u)' /\ KnownUser(u)'
    BY <1>1, <1>5, <1>7 DEF FoundSecret, KnownUser
<1> QED
    BY <1>6, <1>8, <1>9

LEMMA TickStep ==
    ASSUME Standing, Tick
    PROVE  Standing'
<1>1. clock' = clock + 1 /\ UNCHANGED <<fixed, secret, keys, tokens, req>>
    BY DEF Tick
<1>2. Arrived' = Arrived /\ Known' = Known
    BY <1>1 DEF Arrived, Known
<1>3. TypeOK'
    BY <1>1, <1>2 DEF Standing, TypeOK
<1> QED
    BY <1>1, <1>3 DEF Standing, SecretsInOrder, Barren, FoundSecret, KnownUser

LEMMA RestartStep ==
    ASSUME Standing, Restart
    PROVE  Standing'
<1>1. /\ secret' = Unset /\ req' = [t \in Threads |-> Idle]
      /\ UNCHANGED <<fixed, keys, tokens, clock>>
    BY DEF Restart
<1>2. TypeOK'
    BY <1>1 DEF Standing, TypeOK, Unset
<1>3. SecretsInOrder'
    BY <1>1 DEF Standing, SecretsInOrder
<1>4. \A t \in Threads : FoundSecret(t)' /\ KnownUser(t)'
    BY <1>1 DEF Idle, FoundSecret, KnownUser
<1> QED
    BY <1>2, <1>3, <1>4 DEF Standing

LEMMA Step ==
    ASSUME Parameters
    PROVE  IInv /\ [Next]_vars => IInv'
<1> SUFFICES ASSUME IInv, [Next]_vars PROVE IInv'
    OBVIOUS
<1>0. Standing
    BY DEF IInv
<1>1. ASSUME NEW t \in Threads, Receive(t) PROVE IInv'
    BY <1>0, <1>1, ReceiveStep, QuietStep DEF IInv, Receive
<1>2. ASSUME NEW t \in Threads, FindSecret(t) PROVE IInv'
    BY <1>0, <1>2, FindSecretStep, QuietStep DEF IInv, FindSecret
<1>3. ASSUME NEW t \in Threads, DrawSecret(t) PROVE IInv'
    BY <1>0, <1>3, DrawSecretStep, QuietStep DEF IInv, DrawSecret
<1>4. ASSUME NEW t \in Threads, ExtractContext(t) PROVE IInv'
    BY <1>0, <1>4, ExtractContextStep, QuietStep DEF IInv, ExtractContext
<1>5. ASSUME NEW t \in Threads, Handle(t) PROVE IInv'
    BY <1>0, <1>5, HandleStep
<1>6. ASSUME NEW t \in Threads, CreateTenant(t) PROVE IInv'
    BY <1>0, <1>6, CreateTenantStep
<1>7. ASSUME NEW t \in Threads, CreateToken(t) PROVE IInv'
    BY <1>0, <1>7, CreateTokenStep
<1>8. CASE CommandLineToken
    BY <1>0, <1>8, CommandLineTokenStep, QuietStep DEF IInv, CommandLineToken
<1>9. CASE Tick
    BY <1>0, <1>9, TickStep, QuietStep DEF IInv, Tick
<1>10. CASE Restart
    BY <1>0, <1>10, RestartStep, QuietStep DEF IInv, Restart
<1>11. CASE UNCHANGED vars
    BY <1>11 DEF vars, IInv, Standing, TypeOK, Arrived, Known, SecretsInOrder, Barren,
                 FoundSecret, KnownUser, TenantsApart, ReadersGovernNothing
<1> QED
    BY <1>1, <1>2, <1>3, <1>4, <1>5, <1>6, <1>7, <1>8, <1>9, <1>10, <1>11 DEF Next

-----------------------------------------------------------------------------
LEMMA Invariance == ASSUME Parameters PROVE Spec => []IInv
<1>1. Init => IInv
    BY Initially
<1>2. IInv /\ [Next]_vars => IInv'
    BY Step
<1> QED
    BY <1>1, <1>2, PTL DEF Spec

(***************************************************************************)
(* Whatever the routes, tenants and roles, a tenant's directory is reached *)
(* only with a token for it, a room's own token, or as its trust centre:   *)
(* the check of every route, after the scopes were entered.                *)
(***************************************************************************)
THEOREM Apart == ASSUME Parameters PROVE Spec => []TenantsApart
<1>1. IInv => TenantsApart
    BY DEF IInv
<1> QED
    BY <1>1, Invariance, PTL

(* Nobody whose role only reads changes what governs the program. *)
THEOREM Governed == ASSUME Parameters PROVE Spec => []ReadersGovernNothing
<1>1. IInv => ReadersGovernNothing
    BY DEF IInv
<1> QED
    BY <1>1, Invariance, PTL

(* Only the extraction of the context moves a request from there to its route. *)
LEMMA ServedByExtraction ==
    ASSUME Standing, NEW t \in Threads, Next,
           req[t].phase = "context", req'[t].phase = "handle"
    PROVE  ExtractContext(t)
<1> USE DEF Standing, TypeOK
<1>1. ASSUME NEW u \in Threads, u # t,
             Receive(u) \/ FindSecret(u) \/ DrawSecret(u) \/ ExtractContext(u)
             \/ Handle(u) \/ CreateTenant(u) \/ CreateToken(u)
      PROVE  req'[t] = req[t]
    BY <1>1 DEF Receive, FindSecret, DrawSecret, ExtractContext, Handle, CreateTenant,
                CreateToken, Answer
<1>2. ~(Receive(t) \/ FindSecret(t) \/ DrawSecret(t) \/ Handle(t) \/ CreateTenant(t)
        \/ CreateToken(t))
    BY DEF Receive, FindSecret, DrawSecret, Handle, CreateTenant, CreateToken, Idle
<1>3. ~CommandLineToken /\ ~Tick /\ ~Restart
    BY DEF CommandLineToken, Tick, Restart, Idle
<1> QED
    BY <1>1, <1>2, <1>3 DEF Next

LEMMA HonouredStep ==
    ASSUME Standing, NEW t \in Threads, Next,
           req[t].phase = "context", req'[t].phase = "handle", req[t].token \in tokens
    PROVE  (req'[t].user = req[t].token) = (fixed /\ req[t].token.exp >= clock)
<1> USE DEF Standing, TypeOK
<1> DEFINE r == req[t]
           user == UserOf(r)
<1>1. ExtractContext(t)
    BY ServedByExtraction
<1>2. req'[t].user = user
    BY <1>1 DEF ExtractContext, Idle
<1>3. r.token \in Tokens /\ r.token # NoToken
    BY TokenIsNeither
<1>4. user = r.token <=> Verifies(r.token, r.key)
    BY <1>3, TokenIsNeither DEF UserOf
<1>5. r.token.key = r.key <=> fixed
    BY <1>3 DEF FoundSecret, SecretsInOrder, Barren
<1>6. (req'[t].user = r.token) <=> (fixed /\ r.token.exp >= clock)
    BY <1>2, <1>4, <1>5 DEF Verifies
<1>7. fixed \in BOOLEAN /\ (r.token.exp >= clock) \in BOOLEAN
    BY <1>3 DEF Tokens
<1> QED
    BY <1>6, <1>7

(***************************************************************************)
(* With a secret in the environment a token counts until it expires, in    *)
(* every thread and after every restart; without one, no token ever does.  *)
(***************************************************************************)
THEOREM Honoured == ASSUME Parameters PROVE Spec => TokensAreHonoured
<1>1. IInv /\ [Next]_vars =>
        [\A t \in Threads :
            req[t].phase = "context" /\ req'[t].phase = "handle" /\ req[t].token \in tokens =>
                (req'[t].user = req[t].token) = (fixed /\ req[t].token.exp >= clock)]_vars
    BY HonouredStep DEF IInv
<1> QED
    BY <1>1, Invariance, PTL DEF Spec, TokensAreHonoured
=============================================================================
