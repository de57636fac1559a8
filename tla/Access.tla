------------------------------- MODULE Access -------------------------------
(***************************************************************************)
(* Accounts, passwords, login tokens, API tokens and Google sign-in: the   *)
(* REST blueprints auth, users and api_tokens with their DAOs, the flask   *)
(* commands that edit accounts, and the web application's sign-in.         *)
(*                                                                         *)
(* A request reads in one step and commits in another: what it read may be *)
(* stale when it commits.  The unique columns of the database are checked  *)
(* by the commit.  safe_commit() turns a failed commit into a value no     *)
(* handler here looks at; register and logout commit without it.           *)
(* Left out: profile pictures, SSH keys, release commands and timestamps,  *)
(* the refusals that change nothing, and the mail domain check.            *)
(***************************************************************************)
EXTENDS Integers, FiniteSets, FiniteSetsExt, Functions

CONSTANTS Emails,          \* mail addresses: an account is named by one
          Admin, Regular,  \* the addresses populate() makes accounts for
          GoogleIds,       \* people who sign in through Google ("sub")
          Passwords, Names, Reqs, Tabs, None,
          Lifetime,        \* seconds a login token lasts (15600)
          MaxTime, MaxRows, MaxKeys, MaxFaults,     \* bounds of the instance
          MaxEdits,        \* how often accounts are edited by hand
          MaxAsked,        \* how many requests and sign-ins are begun
          MaxMoves         \* how often a person's Google address may change

ASSUME AccessConstants ==
  /\ {Admin, Regular} \subseteq Emails /\ Admin # Regular /\ Passwords # {}
  /\ None \notin Emails \cup GoogleIds \cup Passwords \cup Names
  /\ {Lifetime, MaxTime, MaxRows, MaxKeys, MaxFaults, MaxEdits, MaxAsked, MaxMoves} \subseteq Nat

VARIABLES
  users,     \* row id -> account
  tokens,    \* row id -> API token; the id stands for the secret too
  blacklist, \* login tokens that were logged out
  jwts,      \* login tokens clients hold
  given,     \* API tokens answered with 201
  revoked,   \* API tokens answered with "Token deleted", and if they were
  req,       \* the requests between their reads and their commit
  sso,       \* the browser tabs in the middle of a Google sign-in
  address,   \* the address Google knows a person by
  env        \* [now, user, key, faults, edits,
             \* asked, moves]: the clock and the counters

vars == <<users, tokens, blacklist, jwts, given, revoked, req, sso, address, env>>

Role == {"admin", "user"}
User == [email : Emails, password : Passwords \cup {None},
         google_id : GoogleIds \cup {None}, active : BOOLEAN, role : Role]
Jwt == [sub : Emails, iat : 0..MaxTime, role : Role]
Idle == [op |-> "idle"]
Away == [pc |-> "away"]

UserOf(e) == {u \in DOMAIN users : users[u].email = e}
GoogleUserOf(g) == {u \in DOMAIN users : users[u].google_id = g}
TokenOf(u, n) == {k \in DOMAIN tokens : tokens[k].user = u /\ tokens[k].name = n}

(***************************************************************************)
(* The database: what a commit does besides writing its row.               *)
(***************************************************************************)
\* A commit fails when the connection does; the instance bounds how often.
Fault == /\ env.faults < MaxFaults
         /\ env' = [env EXCEPT !.faults = @ + 1]

\* email and google_id are unique columns.
Unique(row, u) ==
  \A v \in DOMAIN users \ {u} :
    /\ users[v].email # row.email
    /\ row.google_id = None \/ users[v].google_id # row.google_id

\* Every request and tab that has read the account, or its absence, now
\* holds a stale copy: "doubt" is a history of that, no code reads it.
Doubted(f, u, e) ==
  [x \in DOMAIN f |->
     IF "doubt" \in DOMAIN f[x] /\ (f[x].user = u \/ f[x].email = e)
       THEN [f[x] EXCEPT !.doubt = TRUE] ELSE f[x]]

\* A table in which row k is v.
With(table, k, v) == [x \in DOMAIN table \cup {k} |-> IF x = k THEN v ELSE table[x]]

\* Writes the row of account u.
Store(u, row) == users' = With(users, u, row)

\* The row create_user, register and the first sign-in insert.
NewUser(e, p, g) == [email |-> e, password |-> p, google_id |-> g,
                     active |-> TRUE, role |-> "user"]

(***************************************************************************)
(* Who is asking                                                           *)
(***************************************************************************)
\* User.encode_auth_token: signed, so equal claims give the same token.
encode_auth_token(u) ==
  [sub |-> users[u].email, iat |-> env.now, role |-> users[u].role]

\* User.decode_auth_token: the address a token names, {} when it is refused.
decode_auth_token(j) ==
  {e \in {j.sub} : env.now < j.iat + Lifetime /\ j \notin blacklist}

\* ApiTokenDao.authenticate_token
authenticate_token(k) == {tokens[x].user : x \in {k} \cap DOMAIN tokens}

\* What a client can send in an Authorization header.
Credential ==
  [kind : {"jwt"}, jwt : jwts] \cup [kind : {"key"}, key : {g.key : g \in given}]
    \cup {[kind |-> "basic", email |-> users[u].email, password |-> users[u].password]
            : u \in {v \in DOMAIN users : users[v].password # None}}

Caller(c) ==
  CASE c.kind = "jwt" -> UNION {UserOf(e) : e \in decode_auth_token(c.jwt)}
    [] c.kind = "key" -> authenticate_token(c.key)
    [] OTHER -> {u \in UserOf(c.email) : users[u].password = c.password}

\* The decorator: the account, if it is active and has one of the roles.
check_access(c, roles) ==
  {u \in Caller(c) : users[u].active /\ users[u].role \in roles}

\* A form of Resolve in which any caller may name any account.
ResolveAny(u, e) == UserOf(e)

\* _resolve_user: the account whose tokens the caller asks about.
Resolve(u, e) == {v \in UserOf(e) : users[u].role = "admin" \/ users[u].email = e}

\* A request or a sign-in begins; the instance bounds how many there are.
Ask == env.asked < MaxAsked /\ env' = [env EXCEPT !.asked = @ + 1]
Begin(r, q) == Ask /\ req[r] = Idle /\ req' = [req EXCEPT ![r] = q]

\* A form of Taken in which the handler does not look.
TakenNever(v, n) == FALSE

(***************************************************************************)
(* API tokens                                                              *)
(***************************************************************************)
\* Names the account has in use already.
Taken(v, n) == TokenOf(v, n) # {}

CreateToken(r, c, e, n) ==
  \E u \in check_access(c, Role) : \E v \in Resolve(u, e) :
    /\ ~Taken(v, n)
    /\ Begin(r, [op |-> "create_token", caller |-> u, admin |-> users[u].role = "admin",
                 user |-> v, email |-> e, name |-> n, doubt |-> FALSE])
    /\ UNCHANGED <<users, tokens, blacklist, jwts, given, revoked, sso, address>>

\* ApiTokenDao.create_token's insert: 201 and a token are answered whether
\* the row was stored or not.
InsertToken(r) ==
  LET q == req[r]
      stored == q.user \in DOMAIN users /\ ~(TokenOf(q.user, q.name) # {})
      Answer(doubt) ==
        given' = given \cup {[key |-> env.key, user |-> q.user, doubt |-> doubt]}
  IN /\ q.op = "create_token" /\ env.key <= MaxKeys
     /\ \/ /\ stored
           /\ tokens' = With(tokens, env.key, [user |-> q.user, name |-> q.name])
           /\ env' = [env EXCEPT !.key = @ + 1]
           /\ Answer(FALSE)
           /\ req' = [Doubted(req, q.user, q.email) EXCEPT ![r] = Idle]
        \/ /\ ~stored
           /\ Answer(q.doubt)
           /\ env' = [env EXCEPT !.key = @ + 1]
           /\ req' = [req EXCEPT ![r] = Idle] /\ UNCHANGED tokens
        \/ /\ env.faults < MaxFaults
           /\ env' = [env EXCEPT !.faults = @ + 1, !.key = @ + 1]
           /\ Answer(TRUE)
           /\ req' = [req EXCEPT ![r] = Idle] /\ UNCHANGED tokens
     /\ UNCHANGED <<users, blacklist, jwts, revoked, sso, address>>

\* ApiTokenDao.get_token_by_id: the row, of this account only.
get_token_by_id(k, v) == {x \in {k} \cap DOMAIN tokens : tokens[x].user = v}

DeleteToken(r, c, e, k) ==
  \E u \in check_access(c, Role) : \E v \in Resolve(u, e) :
    /\ get_token_by_id(k, v) # {}
    /\ Begin(r, [op |-> "delete_token", caller |-> u, admin |-> users[u].role = "admin",
                 user |-> v, email |-> e, key |-> k, doubt |-> FALSE])
    /\ UNCHANGED <<users, tokens, blacklist, jwts, given, revoked, sso, address>>

\* A form of EraseToken in which the row is marked and never flushed.
EraseTokenNot(r) ==
  /\ req[r].op = "delete_token"
  /\ revoked' = revoked \cup {[key |-> req[r].key, failed |-> FALSE]}
  /\ req' = [req EXCEPT ![r] = Idle]
  /\ UNCHANGED <<users, tokens, blacklist, jwts, given, sso, address, env>>

\* ApiTokenDao.delete_token's commit; a row already gone is no error.
EraseToken(r) ==
  LET q == req[r]
      Answer(failed) == revoked' = revoked \cup {[key |-> q.key, failed |-> failed]}
  IN /\ q.op = "delete_token"
     /\ \/ /\ tokens' = Restrict(tokens, DOMAIN tokens \ {q.key})
           /\ Answer(FALSE) /\ UNCHANGED env
        \/ /\ Fault /\ Answer(TRUE) /\ UNCHANGED tokens
     /\ req' = [req EXCEPT ![r] = Idle]
     /\ UNCHANGED <<users, blacklist, jwts, given, sso, address>>

(***************************************************************************)
(* Registration, login and logout                                          *)
(***************************************************************************)
Registration(op, e, u, p) ==
  [op |-> op, email |-> e, user |-> u, password |-> p, doubt |-> FALSE]

\* register: a new account, or a password for one that has none.
Register(r, e, p) ==
  /\ \A u \in UserOf(e) : users[u].password = None
  /\ \/ UserOf(e) = {} /\ Begin(r, Registration("register", e, 0, p))
     \/ \E u \in UserOf(e) : Begin(r, Registration("set_password", e, u, p))
  /\ UNCHANGED <<users, tokens, blacklist, jwts, given, revoked, sso, address>>

\* The commit of a new account: a row with that address makes it fail, and
\* the client is told to try again.
InsertUser(r) ==
  LET q == req[r]
      row == NewUser(q.email, q.password, None)
  IN /\ q.op = "register" /\ env.user <= MaxRows
     /\ \/ /\ Unique(row, env.user) /\ Store(env.user, row)
           /\ jwts' = jwts \cup {[sub |-> q.email, iat |-> env.now, role |-> "user"]}
           /\ env' = [env EXCEPT !.user = @ + 1]
           /\ req' = [Doubted(req, 0, q.email) EXCEPT ![r] = Idle]
           /\ sso' = Doubted(sso, 0, q.email)
        \/ /\ ~Unique(row, env.user)
           /\ req' = [req EXCEPT ![r] = Idle] /\ UNCHANGED <<users, jwts, sso, env>>
        \/ Fault /\ req' = [req EXCEPT ![r] = Idle] /\ UNCHANGED <<users, jwts, sso>>
     /\ UNCHANGED <<tokens, blacklist, given, revoked, address>>

\* The commit of a first password: an UPDATE by row id, whatever the
\* password is by now; 500 when the row is gone.
SetPassword(r) ==
  LET q == req[r] IN
  /\ q.op = "set_password"
  /\ \/ /\ q.user \in DOMAIN users
        /\ Store(q.user, [users[q.user] EXCEPT !.password = q.password])
        /\ jwts' = jwts \cup {encode_auth_token(q.user)}
        /\ req' = [Doubted(req, q.user, q.email) EXCEPT ![r] = Idle]
        /\ UNCHANGED env
     \/ /\ q.user \notin DOMAIN users
        /\ req' = [req EXCEPT ![r] = Idle] /\ UNCHANGED <<users, jwts, env>>
     \/ Fault /\ req' = [req EXCEPT ![r] = Idle] /\ UNCHANGED <<users, jwts>>
  /\ UNCHANGED <<tokens, blacklist, given, revoked, sso, address>>

Login(u) ==
  /\ Ask /\ users[u].password # None /\ users[u].active
  /\ jwts' = jwts \cup {encode_auth_token(u)}
  /\ UNCHANGED <<users, tokens, blacklist, given, revoked, req, sso, address>>

Logout(r, j) ==
  /\ \E e \in decode_auth_token(j) : UserOf(e) # {}
  /\ Begin(r, [op |-> "logout", jwt |-> j])
  /\ UNCHANGED <<users, tokens, blacklist, jwts, given, revoked, sso, address>>

\* The blacklist holds a token once: the second of two logouts answers 500.
Blacklist(r) ==
  /\ req[r].op = "logout"
  /\ \/ blacklist' = blacklist \cup {req[r].jwt} /\ UNCHANGED env
     \/ Fault /\ UNCHANGED blacklist
  /\ req' = [req EXCEPT ![r] = Idle]
  /\ UNCHANGED <<users, tokens, jwts, given, revoked, sso, address>>

(***************************************************************************)
(* Administration: PATCH /users and the flask commands                     *)
(***************************************************************************)
\* An edit by hand: the instance bounds how many there are.
Edit == env.edits < MaxEdits /\ env' = [env EXCEPT !.edits = @ + 1]
FirstPassword == CHOOSE p \in Passwords : TRUE

\* update_user with "active": it reads and writes one row, so that nothing
\* another request does in between changes the outcome.
Disable(u, b) ==
  /\ Edit
  /\ users[u].active # b
  /\ Store(u, [users[u] EXCEPT !.active = b])
  /\ UNCHANGED <<tokens, blacklist, jwts, given, revoked, req, sso, address>>

\* flask add-user: refused for an address that has an account.
AddUser(e, role) ==
  /\ env.edits < MaxEdits /\ env.user <= MaxRows /\ UserOf(e) = {}
  /\ env' = [env EXCEPT !.edits = @ + 1, !.user = @ + 1]
  /\ Store(env.user, [NewUser(e, FirstPassword, None) EXCEPT !.role = role])
  /\ req' = Doubted(req, 0, e) /\ sso' = Doubted(sso, 0, e)
  /\ UNCHANGED <<tokens, blacklist, jwts, given, revoked, address>>

\* flask mod-user: a password, a role or both.
ModUser(u, p, role) ==
  /\ Edit
  /\ users[u] # [users[u] EXCEPT !.password = p, !.role = role]
  /\ p # None \/ users[u].password = None
  /\ Store(u, [users[u] EXCEPT !.password = p, !.role = role])
  /\ req' = Doubted(req, u, None)
  /\ UNCHANGED <<tokens, blacklist, jwts, given, revoked, sso, address>>

\* A form of RemoveUser in which the tokens stay behind.
RemoveUserOnly(u) ==
  /\ Edit
  /\ users' = Restrict(users, DOMAIN users \ {u})
  /\ req' = Doubted(req, u, users[u].email)
  /\ sso' = Doubted(sso, u, users[u].email)
  /\ UNCHANGED <<tokens, blacklist, jwts, given, revoked, address>>

\* flask delete-user: the account's API tokens go with it.
RemoveUser(u) ==
  /\ Edit
  /\ users' = Restrict(users, DOMAIN users \ {u})
  /\ tokens' = Restrict(tokens, {k \in DOMAIN tokens : tokens[k].user # u})
  /\ req' = Doubted(req, u, users[u].email)
  /\ sso' = Doubted(sso, u, users[u].email)
  /\ UNCHANGED <<blacklist, jwts, given, revoked, address>>

(***************************************************************************)
(* Google sign-in: the web application calls the REST API step by step     *)
(***************************************************************************)
At(t, pc) == sso[t].pc = pc
Go(t, pc) == sso' = [sso EXCEPT ![t].pc = pc]

\* The redirect back from Google, with the person's id and address.
Callback(t, g) ==
  /\ sso[t].pc \in {"away", "in", "failed"} /\ Ask
  /\ sso' = [sso EXCEPT ![t] = [pc |-> "by_google_id", google_id |-> g, user |-> 0,
                                email |-> address[g], doubt |-> FALSE]]
  /\ UNCHANGED <<users, tokens, blacklist, jwts, given, revoked, req, address>>

\* quads_api.get_user(google_id=...), then get_user(email=...)
FindUser(t) ==
  LET s == sso[t]
      Found(u) == sso' = [sso EXCEPT ![t].pc = "last_login", ![t].user = u]
  IN /\ \/ At(t, "by_google_id") /\ \E u \in GoogleUserOf(s.google_id) : Found(u)
        \/ /\ At(t, "by_google_id") /\ GoogleUserOf(s.google_id) = {}
           /\ Go(t, "by_email")
        \/ At(t, "by_email") /\ Go(t, IF UserOf(s.email) = {} THEN "create" ELSE "link")
     /\ UNCHANGED <<users, tokens, blacklist, jwts, given, revoked, req, address, env>>

\* PATCH google_id to the account with this address; a commit that breaks
\* a unique column, or fails, is answered like any other.
Link(t) ==
  LET s == sso[t] IN
  /\ At(t, "link")
  /\ \/ UserOf(s.email) = {} /\ Go(t, "failed") /\ UNCHANGED <<users, req, env>>
     \/ \E u \in UserOf(s.email) :
          LET row == [users[u] EXCEPT !.google_id = s.google_id] IN
          \/ /\ Unique(row, u) /\ Store(u, row)
             /\ sso' = [Doubted(sso, u, s.email) EXCEPT ![t] = [s EXCEPT !.pc = "last_login"]]
             /\ UNCHANGED <<req, env>>
          \/ /\ (~Unique(row, u) /\ UNCHANGED env) \/ Fault
             /\ sso' = [sso EXCEPT ![t].pc = "last_login", ![t].doubt = TRUE]
             /\ UNCHANGED <<users, req>>
  /\ UNCHANGED <<tokens, blacklist, jwts, given, revoked, address>>

\* POST /users: refused when the address is taken by now.
CreateUser(t) ==
  /\ At(t, "create")
  /\ Go(t, IF UserOf(sso[t].email) = {} THEN "insert" ELSE "failed")
  /\ UNCHANGED <<users, tokens, blacklist, jwts, given, revoked, req, address, env>>

\* UserDao.create_user's commit: answered with 201 in any case.
InsertGoogleUser(t) ==
  LET s == sso[t]
      row == NewUser(s.email, None, s.google_id)
      Next(doubt) == [s EXCEPT !.pc = "last_login", !.doubt = @ \/ doubt]
  IN /\ At(t, "insert") /\ env.user <= MaxRows
     /\ \/ /\ Unique(row, env.user) /\ Store(env.user, row)
           /\ env' = [env EXCEPT !.user = @ + 1]
           /\ sso' = [Doubted(sso, 0, s.email) EXCEPT ![t] = Next(FALSE)]
           /\ req' = Doubted(req, 0, s.email)
        \/ /\ ~Unique(row, env.user) /\ sso' = [sso EXCEPT ![t] = Next(FALSE)]
           /\ UNCHANGED <<users, req, env>>
        \/ /\ Fault /\ sso' = [sso EXCEPT ![t] = Next(TRUE)] /\ UNCHANGED <<users, req>>
     /\ UNCHANGED <<tokens, blacklist, jwts, given, revoked, address>>

\* PATCH last_login to the address Google gave: 400 when no account has it.
LastLogin(t) ==
  /\ At(t, "last_login")
  /\ Go(t, IF UserOf(sso[t].email) = {} THEN "failed" ELSE "fetch")
  /\ UNCHANGED <<users, tokens, blacklist, jwts, given, revoked, req, address, env>>

\* The account of that address is signed in; without one login_user raises.
SignIn(t) ==
  /\ At(t, "fetch")
  /\ Go(t, IF UserOf(sso[t].email) = {} THEN "failed" ELSE "in")
  /\ UNCHANGED <<users, tokens, blacklist, jwts, given, revoked, req, address, env>>

SignOut(t) ==
  /\ At(t, "in") /\ sso' = [sso EXCEPT ![t] = Away]
  /\ UNCHANGED <<users, tokens, blacklist, jwts, given, revoked, req, address, env>>

(***************************************************************************)
(* The environment                                                         *)
(***************************************************************************)
Tick ==
  /\ env.now < MaxTime /\ env' = [env EXCEPT !.now = @ + 1]
  /\ UNCHANGED <<users, tokens, blacklist, jwts, given, revoked, req, sso, address>>

\* A person's address changes at Google, to one nobody has there.
Move(g, e) ==
  /\ env.moves < MaxMoves /\ e \notin {Admin} \cup Range(address)
  /\ address' = [address EXCEPT ![g] = e]
  /\ env' = [env EXCEPT !.moves = @ + 1]
  /\ UNCHANGED <<users, tokens, blacklist, jwts, given, revoked, req, sso>>

(***************************************************************************)
(* The specification                                                       *)
(***************************************************************************)
\* populate(): an administrator and a regular user.
Populated ==
  [u \in 1..2 |-> [NewUser(IF u = 1 THEN Admin ELSE Regular,
                           FirstPassword, None)
                     EXCEPT !.role = IF u = 1 THEN "admin" ELSE "user"]]

Init ==
  /\ users = Populated
  /\ tokens = <<>> /\ blacklist = {} /\ jwts = {} /\ given = {} /\ revoked = {}
  /\ req = [r \in Reqs |-> Idle] /\ sso = [t \in Tabs |-> Away]
  /\ address \in {f \in [GoogleIds -> Emails \ {Admin}] : IsInjective(f)}
  /\ env = [now |-> 0, user |-> 3, key |-> 1, faults |-> 0, edits |-> 0,
             asked |-> 0, moves |-> 0]

Request(r) ==
  \/ \E c \in Credential, e \in Emails :
       \/ \E n \in Names : CreateToken(r, c, e, n)
       \/ \E k \in DOMAIN tokens : DeleteToken(r, c, e, k)
  \/ \E e \in Emails, p \in Passwords : Register(r, e, p)
  \/ \E j \in jwts : Logout(r, j)
  \/ InsertToken(r) \/ EraseToken(r) \/ InsertUser(r) \/ SetPassword(r) \/ Blacklist(r)

Administer ==
  \E u \in DOMAIN users :
    \/ Login(u) \/ RemoveUser(u)
    \/ \E b \in BOOLEAN : Disable(u, b)
    \/ \E p \in Passwords \cup {None}, role \in Role : ModUser(u, p, role)

AddAccount == \E e \in Emails, role \in Role : AddUser(e, role)

Browse(t) ==
  \/ \E g \in GoogleIds : Callback(t, g)
  \/ FindUser(t) \/ Link(t) \/ CreateUser(t) \/ InsertGoogleUser(t)
  \/ LastLogin(t) \/ SignIn(t) \/ SignOut(t)

Next ==
  \/ \E r \in Reqs : Request(r)
  \/ \E t \in Tabs : Browse(t)
  \/ Administer \/ AddAccount \/ Tick
  \/ \E g \in GoogleIds, e \in Emails : Move(g, e)

Spec == Init /\ [][Next]_vars

(***************************************************************************)
(* Properties                                                              *)
(***************************************************************************)
\* Rows have the columns' types, unique columns are unique, every API token
\* belongs to an account that exists, and every login token has a subject.
TypeOK ==
  /\ \A u \in DOMAIN users : u < env.user /\ users[u] \in User /\ Unique(users[u], u)
  /\ \A k \in DOMAIN tokens :
       /\ k < env.key /\ tokens[k].user \in DOMAIN users
       /\ TokenOf(tokens[k].user, tokens[k].name) = {k}
  /\ blacklist \subseteq jwts /\ jwts \subseteq Jwt
  /\ IsInjective(address)

\* An API token that was answered with 201 works until it is revoked or its
\* account is deleted, unless the commit failed or something else happened to
\* the account's tokens between the handler's check and its commit
\* (api_tokens.create_token answers whatever safe_commit returned).
GivenWorks ==
  \A g \in given :
    \/ g.doubt \/ g.user \notin DOMAIN users
    \/ authenticate_token(g.key) = {g.user}
    \/ \E x \in revoked : x.key = g.key

\* An API token whose deletion was answered is not accepted again, unless
\* the commit of the deletion failed (api_tokens.delete_token).
RevokedStops ==
  \A x \in revoked : authenticate_token(x.key) # {} => x.failed

\* An account's API tokens are made and deleted by requests of that account or
\* of an administrator, or go with the account (api_tokens._resolve_user and the
\* owner filter of get_token_by_id).
TokensByOwner ==
  [][\A k \in SymDiff(DOMAIN tokens, DOMAIN tokens') :
       LET u == IF k \in DOMAIN tokens THEN tokens[k].user ELSE tokens'[k].user
       IN \/ u \notin DOMAIN users'
          \/ \E r \in Reqs : /\ req[r].op \in {"create_token", "delete_token"}
                             /\ req'[r] = Idle /\ req[r].user = u
                             /\ req[r].admin \/ req[r].caller = u]_vars

\* docs/google-oauth-setup.md:123: "Their account is linked by Google ID (`sub`
\* claim), so email changes on the Google side are handled gracefully."  Whoever
\* signs in with a Google id that an account carries ends in that account, unless
\* the account was changed while he signed in or a commit failed
\* (auth_helpers.get_or_create_oauth_user finds him by id and ends by address).
SignsInAsSelf ==
  [][\A t \in Tabs :
       LET mine == GoogleUserOf(sso[t].google_id) IN
       sso[t].pc \in {"last_login", "fetch"} /\ sso'[t].pc \in {"in", "failed"}
         /\ ~sso[t].doubt /\ mine # {}
       => sso'[t].pc = "in" /\ UserOf(sso[t].email) = mine]_vars
=============================================================================
