---------------------------- MODULE AccessProofs ----------------------------
(***************************************************************************)
(* Proofs about Access: whose API tokens work and until when, that no      *)
(* password is replaced, and whose account a Google sign-in ends in, for   *)
(* any number of accounts, requests, tabs, faults and edits by hand.       *)
(***************************************************************************)
EXTENDS Access, TLAPS

----------------------------------------------------------------------------
(* The inductive invariant.                                                *)

Env == [now : 0..MaxTime, user : Nat, key : Nat, faults : Nat, edits : Nat,
        asked : Nat, moves : Nat]
EnvOK == env \in Env

UsersOK ==
  \A u \in DOMAIN users :
       u \in Nat /\ u < env.user /\ users[u] \in User /\ Unique(users[u], u)

(* An API token belongs to an account, which has no other of its name.     *)
TokensOK ==
  \A k \in DOMAIN tokens :
       /\ k \in Nat /\ k < env.key
       /\ tokens[k] \in [user : DOMAIN users, name : Names]
       /\ \A l \in DOMAIN tokens : tokens[l] = tokens[k] => l = k

LoginsOK ==
  /\ blacklist \subseteq jwts /\ jwts \subseteq Jwt
  /\ address \in [GoogleIds -> Emails] /\ IsInjective(address)

(* What was answered: a token that was given is there, gone with its       *)
(* account, or revoked; one that was revoked is not.                       *)
GivenOK(g) ==
  /\ g \in [key : Nat, user : Nat, doubt : BOOLEAN] /\ g.key < env.key /\ g.user < env.user
  /\ \/ g.doubt \/ g.user \notin DOMAIN users
     \/ g.key \in DOMAIN tokens /\ tokens[g.key].user = g.user
     \/ \E x \in revoked : x.key = g.key
RevokedOK(x) ==
  /\ x \in [key : Nat, failed : BOOLEAN] /\ x.key < env.key
  /\ x.key \in DOMAIN tokens => x.failed
AnsweredOK ==
  /\ \A g \in given : GivenOK(g)
  /\ \A x \in revoked : RevokedOK(x)

(***************************************************************************)
(* What a request still knows at its commit: whose tokens it is about; of  *)
(* a name or a password it has looked for, that there is none, unless it   *)
(* was crossed.                                                            *)
(***************************************************************************)
CreateReq == [op : {"create_token"}, caller : Nat, admin : BOOLEAN, user : Nat,
              email : Emails, name : Names, doubt : BOOLEAN]
DeleteReq == [op : {"delete_token"}, caller : Nat, admin : BOOLEAN, user : Nat,
              email : Emails, key : Nat, doubt : BOOLEAN]
RegisterReq == [op : {"register"}, email : Emails, user : {0}, password : Passwords,
                doubt : BOOLEAN]
PasswordReq == [op : {"set_password"}, email : Emails, user : Nat, password : Passwords,
                doubt : BOOLEAN]
LogoutReq == [op : {"logout"}, jwt : Jwt]

Entitled(q) == q.user < env.user /\ (q.admin \/ q.caller = q.user)

RequestOK(q) ==
  \/ q = Idle
  \/ q \in LogoutReq /\ q.jwt \in jwts
  \/ q \in RegisterReq
  \/ /\ q \in CreateReq /\ Entitled(q)
     /\ \/ q.doubt \/ q.user \notin DOMAIN users
        \/ \A k \in DOMAIN tokens : ~(tokens[k].user = q.user /\ tokens[k].name = q.name)
  \/ /\ q \in DeleteReq /\ Entitled(q) /\ q.key < env.key
     /\ q.key \in DOMAIN tokens => tokens[q.key].user = q.user
  \/ /\ q \in PasswordReq /\ q.user < env.user
     /\ q.doubt \/ q.user \notin DOMAIN users \/ users[q.user].password = None
RequestsOK ==
  /\ DOMAIN req = Reqs
  /\ \A r \in Reqs : RequestOK(req[r])

(***************************************************************************)
(* A sign-in past its look for the account that nothing crossed: nobody    *)
(* has the address (which is so when it is about to insert an account), or *)
(* somebody has both the address and the Google id, or the account that    *)
(* was found still has the Google id.                                      *)
(***************************************************************************)
Tab == [pc : {"by_google_id", "by_email", "link", "create", "insert", "last_login",
              "fetch", "in", "failed"},
        google_id : GoogleIds, user : Nat, email : Emails, doubt : BOOLEAN]
Absent(s) == \A v \in DOMAIN users : users[v].email # s.email
Own(s) == \E v \in DOMAIN users : users[v].email = s.email /\ users[v].google_id = s.google_id
Known(s) == s.user \in DOMAIN users /\ users[s.user].google_id = s.google_id
TabOK(s) ==
  \/ s = Away
  \/ /\ s \in Tab
     /\ s.pc = "insert" => s.doubt \/ Absent(s)
     /\ s.pc \in {"last_login", "fetch"} => s.doubt \/ Absent(s) \/ Own(s) \/ Known(s)
TabsOK ==
  /\ DOMAIN sso = Tabs
  /\ \A t \in Tabs : TabOK(sso[t])

AccessInv ==
  /\ EnvOK /\ UsersOK /\ TokensOK /\ LoginsOK /\ AnsweredOK /\ RequestsOK /\ TabsOK


(* What a step keeps of that, and what is left of it once the account u or *)
(* the address e was written: a record that has read either is crossed.    *)
Crossed(q, u, e) ==
  IF "doubt" \in DOMAIN q /\ (q.user = u \/ q.email = e)
    THEN [q EXCEPT !.doubt = TRUE] ELSE q

Later == /\ env.user <= env'.user /\ env.key <= env'.key
         /\ jwts \subseteq jwts' /\ revoked \subseteq revoked'
TablesKept == UsersOK' /\ TokensOK'
ReqsKept == \A q : RequestOK(q) => RequestOK(q)'
TabsKept == \A s : TabOK(s) => TabOK(s)'
AnswersKept == /\ \A g : GivenOK(g) => GivenOK(g)'
               /\ \A x : RevokedOK(x) => RevokedOK(x)'
ReqsCrossed(u, e) == \A q : RequestOK(q) => RequestOK(Crossed(q, u, e))'
TabsCrossed(u, e) == \A s : TabOK(s) => TabOK(Crossed(s, u, e))'

----------------------------------------------------------------------------
(* Tables and records                                                      *)

(* Doubted crosses every record of a table.                                *)
LEMMA DoubtedIs ==
  ASSUME NEW f, NEW u, NEW e
  PROVE  /\ DOMAIN Doubted(f, u, e) = DOMAIN f
         /\ \A x \in DOMAIN f : Doubted(f, u, e)[x] = Crossed(f[x], u, e)
BY DEF Doubted, Crossed

(* A table in which a row is written has this row and the others.          *)
LEMMA WithIs ==
  ASSUME NEW f, NEW k, NEW v
  PROVE  /\ DOMAIN With(f, k, v) = DOMAIN f \cup {k}
         /\ With(f, k, v)[k] = v
         /\ \A x \in DOMAIN f : x # k => With(f, k, v)[x] = f[x]
BY DEF With

(* A record that is crossed keeps everything but its doubt.                *)
LEMMA CrossedCreate ==
  ASSUME NEW q \in CreateReq, NEW u, NEW e
  PROVE  LET c == Crossed(q, u, e) IN
         /\ c \in CreateReq /\ c.user = q.user /\ c.name = q.name
         /\ c.admin = q.admin /\ c.caller = q.caller
         /\ c.doubt \/ (q.user # u /\ q.email # e /\ c = q)
BY DEF Crossed, CreateReq

LEMMA CrossedDelete ==
  ASSUME NEW q \in DeleteReq, NEW u, NEW e
  PROVE  LET c == Crossed(q, u, e) IN
         /\ c \in DeleteReq /\ c.user = q.user /\ c.key = q.key
         /\ c.admin = q.admin /\ c.caller = q.caller
BY DEF Crossed, DeleteReq

LEMMA CrossedRegister ==
  ASSUME NEW q \in RegisterReq, NEW u, NEW e
  PROVE  Crossed(q, u, e) \in RegisterReq
BY DEF Crossed, RegisterReq

LEMMA CrossedPassword ==
  ASSUME NEW q \in PasswordReq, NEW u, NEW e
  PROVE  LET c == Crossed(q, u, e) IN
         /\ c \in PasswordReq /\ c.user = q.user
         /\ c.doubt \/ (q.user # u /\ q.email # e /\ c = q)
BY DEF Crossed, PasswordReq

LEMMA CrossedLogout ==
  ASSUME NEW q, q = Idle \/ q \in LogoutReq, NEW u, NEW e
  PROVE  Crossed(q, u, e) = q
<1>1. "doubt" \notin DOMAIN q
  BY DEF Idle, LogoutReq
<1> QED
  BY <1>1 DEF Crossed

LEMMA CrossedTab ==
  ASSUME NEW s \in Tab, NEW u, NEW e
  PROVE  LET c == Crossed(s, u, e) IN
         /\ c \in Tab /\ c.pc = s.pc
         /\ c.user = s.user /\ c.email = s.email /\ c.google_id = s.google_id
         /\ c.doubt \/ (s.user # u /\ s.email # e /\ c = s)
BY DEF Crossed, Tab

LEMMA CrossedAway ==
  ASSUME NEW u, NEW e
  PROVE  Crossed(Away, u, e) = Away
BY DEF Crossed, Away

(* A request that is crossed is as good as it was.                         *)
LEMMA CrossedRequest ==
  ASSUME NEW q, RequestOK(q), NEW u, NEW e
  PROVE  RequestOK(Crossed(q, u, e))
<1> DEFINE c == Crossed(q, u, e)
<1>1. CASE q = Idle \/ (q \in LogoutReq /\ q.jwt \in jwts)
  BY <1>1, CrossedLogout DEF RequestOK
<1>2. CASE q \in RegisterReq
  BY <1>2, CrossedRegister DEF RequestOK
<1>3. CASE q \in CreateReq /\ Entitled(q)
  <2>1. /\ c \in CreateReq /\ c.user = q.user /\ c.admin = q.admin /\ c.caller = q.caller
        /\ c.doubt \/ c = q
    BY <1>3, CrossedCreate
  <2>2. CASE c = q
    BY <2>2
  <2>3. CASE c.doubt
    BY <1>3, <2>1, <2>3 DEF RequestOK, Entitled
  <2> QED
    BY <2>1, <2>2, <2>3
<1>4. CASE /\ q \in DeleteReq /\ Entitled(q) /\ q.key < env.key
           /\ q.key \in DOMAIN tokens => tokens[q.key].user = q.user
  BY <1>4, CrossedDelete DEF RequestOK, Entitled
<1>5. CASE q \in PasswordReq /\ q.user < env.user
  <2>1. c \in PasswordReq /\ c.user = q.user /\ (c.doubt \/ c = q)
    BY <1>5, CrossedPassword
  <2>2. CASE c = q
    BY <2>2
  <2>3. CASE c.doubt
    BY <1>5, <2>1, <2>3 DEF RequestOK
  <2> QED
    BY <2>1, <2>2, <2>3
<1> QED
  BY <1>1, <1>2, <1>3, <1>4, <1>5 DEF RequestOK

LEMMA ReqsKeptCrossed ==
  ASSUME ReqsKept, NEW u, NEW e
  PROVE  ReqsCrossed(u, e)
BY CrossedRequest DEF ReqsKept, ReqsCrossed

----------------------------------------------------------------------------
(* Putting requests and tabs back into their tables                        *)

LEMMA IdleOK == RequestOK(Idle)'
BY DEF RequestOK

LEMMA AwayOK == TabOK(Away)'
BY DEF TabOK

LEMMA ReqsSame ==
  ASSUME RequestsOK, ReqsKept, UNCHANGED req
  PROVE  RequestsOK'
BY DEF RequestsOK, ReqsKept

LEMMA ReqsSet ==
  ASSUME RequestsOK, ReqsKept, NEW r \in Reqs, NEW q, RequestOK(q)',
         req' = [req EXCEPT ![r] = q]
  PROVE  RequestsOK'
BY DEF RequestsOK, ReqsKept

LEMMA ReqsDoubted ==
  ASSUME RequestsOK, NEW u, NEW e, ReqsCrossed(u, e), req' = Doubted(req, u, e)
  PROVE  RequestsOK'
BY DoubtedIs DEF RequestsOK, ReqsCrossed

LEMMA ReqsDoubtedDone ==
  ASSUME RequestsOK, NEW u, NEW e, ReqsCrossed(u, e), NEW r \in Reqs,
         req' = [Doubted(req, u, e) EXCEPT ![r] = Idle]
  PROVE  RequestsOK'
<1>1. DOMAIN req' = Reqs
  BY DoubtedIs DEF RequestsOK
<1>2. \A p \in Reqs : req'[p] = IF p = r THEN Idle ELSE Crossed(req[p], u, e)
  BY DoubtedIs DEF RequestsOK
<1> QED
  BY <1>1, <1>2, IdleOK DEF RequestsOK, ReqsCrossed

LEMMA TabsSame ==
  ASSUME TabsOK, TabsKept, UNCHANGED sso
  PROVE  TabsOK'
BY DEF TabsOK, TabsKept

LEMMA TabsSet ==
  ASSUME TabsOK, TabsKept, NEW t \in Tabs, NEW s, TabOK(s)', sso' = [sso EXCEPT ![t] = s]
  PROVE  TabsOK'
BY DEF TabsOK, TabsKept

LEMMA TabsDoubted ==
  ASSUME TabsOK, NEW u, NEW e, TabsCrossed(u, e), sso' = Doubted(sso, u, e)
  PROVE  TabsOK'
BY DoubtedIs DEF TabsOK, TabsCrossed

LEMMA TabsDoubtedSet ==
  ASSUME TabsOK, NEW u, NEW e, TabsCrossed(u, e), NEW t \in Tabs, NEW s, TabOK(s)',
         sso' = [Doubted(sso, u, e) EXCEPT ![t] = s]
  PROVE  TabsOK'
<1>1. DOMAIN sso' = Tabs
  BY DoubtedIs DEF TabsOK
<1>2. \A p \in Tabs : sso'[p] = IF p = t THEN s ELSE Crossed(sso[p], u, e)
  BY DoubtedIs DEF TabsOK
<1> QED
  BY <1>1, <1>2 DEF TabsOK, TabsCrossed

----------------------------------------------------------------------------
(* What the writes of the tables keep                                      *)

(* Neither accounts nor API tokens are written.                            *)
LEMMA NothingWritten ==
  ASSUME AccessInv, EnvOK', Later, UNCHANGED <<users, tokens>>
  PROVE  TablesKept /\ ReqsKept /\ TabsKept /\ AnswersKept
<1>1. EnvOK /\ UsersOK /\ TokensOK
  BY DEF AccessInv
<1>2. UsersOK'
  BY <1>1 DEF UsersOK, Later, EnvOK, Env, Unique
<1>3. TokensOK'
  BY <1>1 DEF TokensOK, Later, EnvOK, Env
<1>4. ReqsKept
  <2> SUFFICES ASSUME NEW q, RequestOK(q)
               PROVE  RequestOK(q)'
    BY DEF ReqsKept
  <2>1. q.user < env.user /\ q.user \in Nat => q.user < env'.user
    BY <1>1 DEF EnvOK, Env, Later
  <2>2. q.key < env.key /\ q.key \in Nat => q.key < env'.key
    BY <1>1 DEF EnvOK, Env, Later
  <2>3. /\ q \in CreateReq => q.user \in Nat
        /\ q \in DeleteReq => q.user \in Nat /\ q.key \in Nat
        /\ q \in PasswordReq => q.user \in Nat
    BY DEF CreateReq, DeleteReq, PasswordReq
  <2>4. q.jwt \in jwts => q.jwt \in jwts'
    BY DEF Later
  <2> QED
    BY <2>1, <2>2, <2>3, <2>4 DEF RequestOK, Entitled
<1>5. TabsKept
  BY DEF TabsKept, TabOK, Absent, Own, Known
<1>6. AnswersKept
  BY <1>1 DEF AnswersKept, GivenOK, RevokedOK, Later, EnvOK, Env
<1> QED
  BY <1>2, <1>3, <1>4, <1>5, <1>6 DEF TablesKept

(* Account u gets another password, state or role.                         *)
LEMMA AccountEdited ==
  ASSUME AccessInv, NEW u \in DOMAIN users, NEW row \in User, Store(u, row),
         row.email = users[u].email, row.google_id = users[u].google_id,
         UNCHANGED <<tokens, env.user, env.key, revoked>>, jwts \subseteq jwts', EnvOK'
  PROVE  /\ TablesKept /\ TabsKept /\ AnswersKept
         /\ row.password = users[u].password => ReqsKept
         /\ \A e : ReqsCrossed(u, e)
<1>1. EnvOK /\ UsersOK /\ TokensOK
  BY DEF AccessInv
<1>2. /\ DOMAIN users' = DOMAIN users /\ users'[u] = row
      /\ \A v \in DOMAIN users : v # u => users'[v] = users[v]
  <2>1. users' = With(users, u, row)
    BY DEF Store
  <2>2. /\ DOMAIN users' = DOMAIN users \cup {u} /\ users'[u] = row
        /\ \A v \in DOMAIN users : v # u => users'[v] = users[v]
    BY <2>1 DEF With
  <2> QED
    BY <2>2
<1>3. \A v \in DOMAIN users : /\ users'[v].email = users[v].email
                             /\ users'[v].google_id = users[v].google_id
  BY <1>2
<1>4. UsersOK'
  BY <1>1, <1>2, <1>3 DEF UsersOK, Unique
<1>5. TokensOK'
  BY <1>1, <1>2 DEF TokensOK
<1>6. TabsKept
  BY <1>2, <1>3 DEF TabsKept, TabOK, Absent, Own, Known
<1>7. AnswersKept
  BY <1>2 DEF AnswersKept, GivenOK, RevokedOK
<1>8. ASSUME NEW q, RequestOK(q),
             \/ q.user # u
             \/ q \notin PasswordReq
             \/ q.doubt
             \/ row.password = users[u].password
      PROVE  RequestOK(q)'
  <2>1. /\ ~q.doubt /\ q \in PasswordReq /\ q.user \in DOMAIN users
           => users'[q.user].password = users[q.user].password
    BY <1>2, <1>8
  <2> QED
    BY <1>2, <1>8, <2>1 DEF RequestOK, Entitled
<1>9. row.password = users[u].password => ReqsKept
  BY <1>8 DEF ReqsKept
<1>10. ASSUME NEW e PROVE ReqsCrossed(u, e)
  <2> SUFFICES ASSUME NEW q, RequestOK(q)
               PROVE  RequestOK(Crossed(q, u, e))'
    BY DEF ReqsCrossed
  <2>1. RequestOK(Crossed(q, u, e))
    BY CrossedRequest
  <2>2. CASE q \in PasswordReq
    <3>1. /\ Crossed(q, u, e).user = q.user
          /\ Crossed(q, u, e).doubt \/ q.user # u
      BY <2>2, CrossedPassword
    <3> QED
      BY <1>8, <2>1, <3>1
  <2>3. CASE q \notin PasswordReq
    <3>1. Crossed(q, u, e).op = q.op /\ q.op # "set_password"
      <4>1. CASE q = Idle \/ q \in LogoutReq
        BY <4>1, CrossedLogout DEF Idle, LogoutReq
      <4>2. CASE q \in RegisterReq
        BY <4>2 DEF Crossed, RegisterReq
      <4>3. CASE q \in CreateReq
        BY <4>3 DEF Crossed, CreateReq
      <4>4. CASE q \in DeleteReq
        BY <4>4 DEF Crossed, DeleteReq
      <4> QED
        BY <2>3, <4>1, <4>2, <4>3, <4>4 DEF RequestOK
    <3>2. Crossed(q, u, e) \notin PasswordReq
      BY <3>1 DEF PasswordReq
    <3> QED
      BY <1>8, <2>1, <3>2
  <2> QED
    BY <2>2, <2>3
<1> QED
  BY <1>4, <1>5, <1>6, <1>7, <1>9, <1>10 DEF TablesKept

(* Account u gets a Google id no other account has.                        *)
LEMMA AccountLinked ==
  ASSUME AccessInv, NEW u \in DOMAIN users, NEW g \in GoogleIds, NEW row,
         row = [users[u] EXCEPT !.google_id = g], Unique(row, u), Store(u, row),
         UNCHANGED <<tokens, env, revoked, jwts>>
  PROVE  /\ TablesKept /\ ReqsKept /\ AnswersKept
         /\ \A e : e = users[u].email => TabsCrossed(u, e)
<1>1. EnvOK /\ UsersOK /\ TokensOK
  BY DEF AccessInv
<1>2. /\ DOMAIN users' = DOMAIN users /\ users'[u] = row
      /\ \A v \in DOMAIN users : v # u => users'[v] = users[v]
  BY DEF Store, With
<1>3. /\ row \in User /\ row.google_id = g
      /\ row.email = users[u].email /\ row.password = users[u].password
  BY <1>1 DEF UsersOK, User
<1>4. UsersOK'
  <2>1. \A v \in DOMAIN users : v \in Nat /\ v < env'.user /\ users'[v] \in User
    BY <1>1, <1>2, <1>3 DEF UsersOK
  <2>2. Unique(users[u], u)'
    BY <1>2 DEF Unique
  <2>3. ASSUME NEW v \in DOMAIN users, v # u PROVE Unique(users[v], v)'
    <3>1. g # None
      BY AccessConstants
    <3>2. Unique(users[v], v)
      BY <1>1 DEF UsersOK
    <3>3. users[v].email # row.email /\ users[v].google_id # row.google_id
      BY <1>3, <2>3, <3>1 DEF Unique
    <3> QED
      BY <1>2, <2>3, <3>2, <3>3 DEF Unique
  <2> QED
    BY <1>2, <2>1, <2>2, <2>3 DEF UsersOK
<1>5. TokensOK'
  BY <1>1, <1>2 DEF TokensOK
<1>6. ReqsKept
  <2>1. \A v \in DOMAIN users : users'[v].password = users[v].password
    BY <1>2, <1>3
  <2>2. ASSUME NEW q, RequestOK(q) PROVE RequestOK(q)'
    BY <1>2, <2>1, <2>2 DEF RequestOK, Entitled
  <2> QED
    BY <2>2 DEF ReqsKept
<1>7. AnswersKept
  BY <1>2 DEF AnswersKept, GivenOK, RevokedOK
<1>8. ASSUME NEW e, e = users[u].email PROVE TabsCrossed(u, e)
  <2>1. SUFFICES ASSUME NEW s, TabOK(s)
                 PROVE  TabOK(Crossed(s, u, e))'
    BY DEF TabsCrossed
  <2>2. CASE s = Away
    BY <2>2, CrossedAway, AwayOK
  <2>3. CASE s \in Tab
    <3> DEFINE c == Crossed(s, u, e)
    <3>1. /\ c \in Tab /\ c.pc = s.pc
          /\ c.doubt \/ (s.user # u /\ s.email # e /\ c = s)
      BY <2>3, CrossedTab
    <3>2. CASE c.doubt
      BY <3>1, <3>2 DEF TabOK
    <3>3. CASE s.user # u /\ s.email # e /\ c = s
      <4>1. \A v \in DOMAIN users : users'[v].email = users[v].email
        BY <1>2, <1>3
      <4>2. Absent(s) => Absent(s)'
        BY <1>2, <4>1 DEF Absent
      <4>3. Own(s) => Own(s)'
        BY <1>2, <1>8, <3>3 DEF Own
      <4>4. Known(s) => Known(s)'
        BY <1>2, <3>3 DEF Known
      <4> QED
        BY <2>1, <3>1, <3>3, <4>2, <4>3, <4>4 DEF TabOK, Tab, Away
    <3> QED
      BY <3>1, <3>2, <3>3
  <2> QED
    BY <2>1, <2>2, <2>3 DEF TabOK
<1> QED
  BY <1>4, <1>5, <1>6, <1>7, <1>8 DEF TablesKept

(* A new account.                                                          *)
LEMMA AccountAdded ==
  ASSUME AccessInv, NEW row \in User, Unique(row, env.user), Store(env.user, row),
         env'.user = env.user + 1, UNCHANGED <<tokens, env.key, revoked>>,
         jwts \subseteq jwts', EnvOK'
  PROVE  /\ TablesKept /\ ReqsKept /\ AnswersKept
         /\ \A u : TabsCrossed(u, row.email)
<1>1. EnvOK /\ UsersOK /\ TokensOK
  BY DEF AccessInv
<1>2. /\ DOMAIN users' = DOMAIN users \cup {env.user} /\ users'[env.user] = row
      /\ \A v \in DOMAIN users : users'[v] = users[v]
      /\ env.user \in Nat /\ env.user \notin DOMAIN users
  BY <1>1 DEF Store, With, UsersOK, EnvOK, Env
<1>3. UsersOK'
  <2>1. \A v \in DOMAIN users' : v \in Nat /\ v < env'.user /\ users'[v] \in User
    BY <1>1, <1>2 DEF UsersOK
  <2>2. \A v \in {env.user} : Unique(users[v], v)'
    BY <1>2 DEF Unique
  <2>3. ASSUME NEW v \in DOMAIN users PROVE Unique(users[v], v)'
    <3>1. Unique(users[v], v)
      BY <1>1 DEF UsersOK
    <3>2. /\ users[v].email # row.email
          /\ users[v].google_id = None \/ users[v].google_id # row.google_id
      BY <1>2, <2>3 DEF Unique
    <3> QED
      BY <1>2, <2>3, <3>1, <3>2 DEF Unique
  <2> QED
    BY <1>2, <2>1, <2>2, <2>3 DEF UsersOK
<1>4. TokensOK'
  BY <1>1, <1>2 DEF TokensOK
<1>5. ReqsKept
  <2> SUFFICES ASSUME NEW q, RequestOK(q)
               PROVE  RequestOK(q)'
    BY DEF ReqsKept
  <2>1. q.user \in Nat /\ q.user < env.user => q.user < env'.user /\ q.user # env.user
    BY <1>2
  <2>2. /\ q \in CreateReq => q.user \in Nat
        /\ q \in DeleteReq => q.user \in Nat
        /\ q \in PasswordReq => q.user \in Nat
    BY DEF CreateReq, DeleteReq, PasswordReq
  <2> QED
    BY <1>2, <2>1, <2>2 DEF RequestOK, Entitled
<1>6. AnswersKept
  BY <1>2 DEF AnswersKept, GivenOK, RevokedOK
<1>7. ASSUME NEW u PROVE TabsCrossed(u, row.email)
  <2>1. SUFFICES ASSUME NEW s, TabOK(s)
                 PROVE  TabOK(Crossed(s, u, row.email))'
    BY DEF TabsCrossed
  <2>2. CASE s = Away
    BY <2>2, CrossedAway, AwayOK
  <2>3. CASE s \in Tab
    <3> DEFINE c == Crossed(s, u, row.email)
    <3>1. /\ c \in Tab /\ c.pc = s.pc
          /\ c.doubt \/ (s.user # u /\ s.email # row.email /\ c = s)
      BY <2>3, CrossedTab
    <3>2. CASE c.doubt
      BY <3>1, <3>2 DEF TabOK
    <3>3. CASE s.email # row.email /\ c = s
      <4>1. Absent(s) => Absent(s)'
        BY <1>2, <3>3 DEF Absent
      <4>2. Own(s) => Own(s)'
        BY <1>2 DEF Own
      <4>3. Known(s) => Known(s)'
        BY <1>2 DEF Known
      <4> QED
        BY <2>1, <3>1, <3>3, <4>1, <4>2, <4>3 DEF TabOK, Tab, Away
    <3> QED
      BY <3>1, <3>2, <3>3
  <2> QED
    BY <2>1, <2>2, <2>3 DEF TabOK
<1> QED
  BY <1>3, <1>4, <1>5, <1>6, <1>7 DEF TablesKept

(* Account u goes, and its API tokens with it.                             *)
LEMMA AccountRemoved ==
  ASSUME AccessInv, NEW u \in DOMAIN users,
         users' = Restrict(users, DOMAIN users \ {u}),
         tokens' = Restrict(tokens, {k \in DOMAIN tokens : tokens[k].user # u}),
         UNCHANGED <<env.user, env.key, revoked, jwts>>
  PROVE  /\ TablesKept /\ ReqsKept /\ AnswersKept
         /\ \A e : e = users[u].email => TabsCrossed(u, e)
<1>1. EnvOK /\ UsersOK /\ TokensOK
  BY DEF AccessInv
<1>2. /\ DOMAIN users' = DOMAIN users \ {u}
      /\ \A v \in DOMAIN users : v # u => users'[v] = users[v]
  BY DEF Restrict
<1>3. /\ \A k : k \in DOMAIN tokens' <=> k \in DOMAIN tokens /\ tokens[k].user # u
      /\ \A k \in DOMAIN tokens' : tokens'[k] = tokens[k]
  BY DEF Restrict
<1>4. UsersOK'
  <2>1. ASSUME NEW v \in DOMAIN users' PROVE Unique(users[v], v)'
    <3>1. Unique(users[v], v)
      BY <1>1, <1>2, <2>1 DEF UsersOK
    <3>2. \A w \in DOMAIN users' : w \in DOMAIN users /\ users'[w] = users[w]
      BY <1>2
    <3> QED
      BY <2>1, <3>1, <3>2 DEF Unique
  <2> QED
    BY <1>1, <1>2, <2>1 DEF UsersOK
<1>5. TokensOK'
  BY <1>1, <1>2, <1>3 DEF TokensOK
<1>6. ReqsKept
  <2>1. ASSUME NEW q, RequestOK(q) PROVE RequestOK(q)'
    BY <1>2, <1>3, <2>1 DEF RequestOK, Entitled
  <2> QED
    BY <2>1 DEF ReqsKept
<1>7. AnswersKept
  BY <1>2, <1>3 DEF AnswersKept, GivenOK, RevokedOK
<1>8. ASSUME NEW e, e = users[u].email PROVE TabsCrossed(u, e)
  <2>1. SUFFICES ASSUME NEW s, TabOK(s)
                 PROVE  TabOK(Crossed(s, u, e))'
    BY DEF TabsCrossed
  <2>2. CASE s = Away
    BY <2>2, CrossedAway, AwayOK
  <2>3. CASE s \in Tab
    <3> DEFINE c == Crossed(s, u, e)
    <3>1. /\ c \in Tab /\ c.pc = s.pc
          /\ c.doubt \/ (s.user # u /\ s.email # e /\ c = s)
      BY <2>3, CrossedTab
    <3>2. CASE c.doubt
      BY <3>1, <3>2 DEF TabOK
    <3>3. CASE s.user # u /\ s.email # e /\ c = s
      <4>1. Absent(s) => Absent(s)'
        BY <1>2 DEF Absent
      <4>2. Own(s) => Own(s)'
        BY <1>2, <1>8, <3>3 DEF Own
      <4>3. Known(s) => Known(s)'
        BY <1>2, <3>3 DEF Known
      <4> QED
        BY <2>1, <3>1, <3>3, <4>1, <4>2, <4>3 DEF TabOK, Tab, Away
    <3> QED
      BY <3>1, <3>2, <3>3
  <2> QED
    BY <2>1, <2>2, <2>3 DEF TabOK
<1> QED
  BY <1>4, <1>5, <1>6, <1>7, <1>8 DEF TablesKept

(* A new API token of account u, by the name n.                            *)
LEMMA TokenAdded ==
  ASSUME AccessInv, NEW u \in DOMAIN users, NEW n \in Names, NEW e,
         TokenOf(u, n) = {}, tokens' = With(tokens, env.key, [user |-> u, name |-> n]),
         env'.key = env.key + 1, UNCHANGED <<users, env.user, revoked, jwts>>
  PROVE  TablesKept /\ ReqsCrossed(u, e) /\ TabsKept /\ AnswersKept
<1>1. EnvOK /\ UsersOK /\ TokensOK
  BY DEF AccessInv
<1>2. /\ DOMAIN tokens' = DOMAIN tokens \cup {env.key}
      /\ tokens'[env.key] = [user |-> u, name |-> n]
      /\ \A k \in DOMAIN tokens : tokens'[k] = tokens[k]
      /\ env.key \in Nat /\ env.key \notin DOMAIN tokens
  BY <1>1 DEF With, TokensOK, EnvOK, Env
<1>3. UsersOK'
  BY <1>1 DEF UsersOK, Unique
<1>4. TokensOK'
  <2>1. \A k \in DOMAIN tokens : tokens[k] # [user |-> u, name |-> n]
    BY DEF TokenOf
  <2>2. \A k \in DOMAIN tokens' : /\ k \in Nat /\ k < env'.key
                                 /\ tokens'[k] \in [user : DOMAIN users', name : Names]
    BY <1>1, <1>2 DEF TokensOK
  <2>3. \A k, l \in DOMAIN tokens' : tokens'[l] = tokens'[k] => l = k
    BY <1>1, <1>2, <2>1 DEF TokensOK
  <2> QED
    BY <2>2, <2>3 DEF TokensOK
<1>5. ReqsCrossed(u, e)
  <2>1. SUFFICES ASSUME NEW q, RequestOK(q)
                 PROVE  RequestOK(Crossed(q, u, e))'
    BY DEF ReqsCrossed
  <2> DEFINE c == Crossed(q, u, e)
  <2>2. RequestOK(c)
    BY <2>1, CrossedRequest
  <2>3. CASE q \in CreateReq
    <3>1. /\ c \in CreateReq /\ c.user = q.user
          /\ c.doubt \/ q.user # u
      BY <2>3, CrossedCreate
    <3>2. Entitled(c)' /\ (c.doubt \/ c.user # u)
      BY <2>2, <3>1 DEF RequestOK, Entitled, CreateReq, DeleteReq, Idle, LogoutReq,
                        RegisterReq, PasswordReq
    <3> QED
      BY <1>2, <2>2, <3>1, <3>2 DEF RequestOK, Entitled, CreateReq, DeleteReq, Idle,
                                    LogoutReq, RegisterReq, PasswordReq
  <2>4. CASE q \in DeleteReq
    <3>1. c \in DeleteReq
      BY <2>4, CrossedDelete
    <3>2. /\ Entitled(c) /\ c.key \in Nat /\ c.key < env.key
          /\ c.key \in DOMAIN tokens => tokens[c.key].user = c.user
      BY <2>2, <3>1 DEF RequestOK, CreateReq, DeleteReq, Idle, LogoutReq,
                        RegisterReq, PasswordReq
    <3>3. c.key < env'.key /\ c.key # env.key
      BY <1>2, <3>2
    <3>4. Entitled(c)'
      BY <3>2 DEF Entitled
    <3> QED
      BY <1>2, <3>1, <3>2, <3>3, <3>4 DEF RequestOK
  <2>5. CASE q \in RegisterReq \/ q \in PasswordReq \/ q \in LogoutReq \/ q = Idle
    <3>1. c \in RegisterReq \/ c \in PasswordReq \/ c \in LogoutReq \/ c = Idle
      BY <2>5, CrossedRegister, CrossedPassword, CrossedLogout
    <3> QED
      BY <2>2, <3>1 DEF RequestOK, CreateReq, DeleteReq, Idle, LogoutReq,
                        RegisterReq, PasswordReq
  <2> QED
    BY <2>1, <2>3, <2>4, <2>5 DEF RequestOK
<1>6. TabsKept
  BY DEF TabsKept, TabOK, Absent, Own, Known
<1>7. AnswersKept
  <2>1. ASSUME NEW g, GivenOK(g) PROVE GivenOK(g)'
    BY <1>2, <2>1 DEF GivenOK
  <2>2. ASSUME NEW x, RevokedOK(x) PROVE RevokedOK(x)'
    BY <1>2, <2>2 DEF RevokedOK
  <2> QED
    BY <2>1, <2>2 DEF AnswersKept
<1> QED
  BY <1>3, <1>4, <1>5, <1>6, <1>7 DEF TablesKept

(* An API token is gone, and its deletion answered.                        *)
LEMMA TokenErased ==
  ASSUME AccessInv, NEW k \in Nat, k < env.key,
         tokens' = Restrict(tokens, DOMAIN tokens \ {k}),
         revoked' = revoked \cup {[key |-> k, failed |-> FALSE]},
         UNCHANGED <<users, env, jwts, given>>
  PROVE  TablesKept /\ ReqsKept /\ TabsKept /\ AnsweredOK'
<1>1. EnvOK /\ UsersOK /\ TokensOK /\ AnsweredOK
  BY DEF AccessInv
<1>2. /\ DOMAIN tokens' = DOMAIN tokens \ {k}
      /\ \A l \in DOMAIN tokens' : tokens'[l] = tokens[l]
  BY DEF Restrict
<1>3. UsersOK'
  BY <1>1 DEF UsersOK, Unique
<1>4. TokensOK'
  BY <1>1, <1>2 DEF TokensOK
<1>5. ReqsKept
  BY <1>2 DEF ReqsKept, RequestOK, Entitled
<1>6. TabsKept
  BY DEF TabsKept, TabOK, Absent, Own, Known
<1>7. AnsweredOK'
  <2>1. [key |-> k, failed |-> FALSE] \in revoked' /\ revoked \subseteq revoked'
    OBVIOUS
  <2>2. ASSUME NEW g \in given PROVE GivenOK(g)'
    <3>1. GivenOK(g)
      BY <1>1 DEF AnsweredOK
    <3>2. CASE g.key = k
      BY <2>1, <3>1, <3>2 DEF GivenOK
    <3>3. CASE g.key # k
      BY <1>2, <2>1, <3>1, <3>3 DEF GivenOK
    <3> QED
      BY <3>2, <3>3
  <2>3. ASSUME NEW x \in revoked' PROVE RevokedOK(x)'
    <3>1. CASE x \in revoked
      BY <1>1, <1>2, <3>1 DEF AnsweredOK, RevokedOK
    <3>2. CASE x = [key |-> k, failed |-> FALSE]
      BY <1>1, <1>2, <3>2 DEF RevokedOK, EnvOK, Env
    <3> QED
      BY <3>1, <3>2
  <2> QED
    BY <2>2, <2>3 DEF AnsweredOK
<1> QED
  BY <1>3, <1>4, <1>5, <1>6, <1>7 DEF TablesKept

----------------------------------------------------------------------------
(* Steps that write no table                                               *)

LEMMA Counted ==
  ASSUME EnvOK, Ask \/ Fault \/ Edit \/ UNCHANGED env
  PROVE  EnvOK' /\ UNCHANGED <<env.now, env.user, env.key>>
BY DEF EnvOK, Env, Ask, Fault, Edit

LEMMA LaterSame ==
  ASSUME EnvOK, UNCHANGED <<env.user, env.key, revoked>>, jwts \subseteq jwts'
  PROVE  Later
BY DEF EnvOK, Env, Later

LEMMA LoginsSame ==
  ASSUME AccessInv, UNCHANGED <<blacklist, jwts, address>>
  PROVE  LoginsOK'
BY DEF AccessInv, LoginsOK

LEMMA AnswersSame ==
  ASSUME AccessInv, AnswersKept, UNCHANGED <<given, revoked>>
  PROVE  AnsweredOK'
BY DEF AccessInv, AnsweredOK, AnswersKept

LEMMA Quiet ==
  ASSUME AccessInv, EnvOK', UNCHANGED <<env.user, env.key>>,
         UNCHANGED <<users, tokens, given, revoked>>, jwts \subseteq jwts'
  PROVE  TablesKept /\ ReqsKept /\ TabsKept /\ AnsweredOK'
BY LaterSame, NothingWritten, AnswersSame DEF AccessInv

(* A request begins.                                                       *)
LEMMA Begun ==
  ASSUME AccessInv, NEW r \in Reqs, NEW q, RequestOK(q), Begin(r, q),
         UNCHANGED <<users, tokens, blacklist, jwts, given, revoked, sso, address>>
  PROVE  AccessInv'
<1>1. EnvOK' /\ UNCHANGED <<env.user, env.key>> /\ req' = [req EXCEPT ![r] = q]
  BY Counted DEF AccessInv, Begin
<1>2. TablesKept /\ ReqsKept /\ TabsKept /\ AnsweredOK'
  BY <1>1, Quiet
<1>3. RequestsOK'
  BY <1>1, <1>2, ReqsSet DEF AccessInv, ReqsKept
<1> QED
  BY <1>1, <1>2, <1>3, LoginsSame, TabsSame DEF AccessInv, TablesKept

(* A request ends and nothing else happens.                                *)
LEMMA Ended ==
  ASSUME AccessInv, NEW r \in Reqs, req' = [req EXCEPT ![r] = Idle],
         Fault \/ UNCHANGED env,
         UNCHANGED <<users, tokens, blacklist, jwts, given, revoked, sso, address>>
  PROVE  AccessInv'
<1>1. EnvOK' /\ UNCHANGED <<env.user, env.key>>
  BY Counted DEF AccessInv
<1>2. TablesKept /\ ReqsKept /\ TabsKept /\ AnsweredOK'
  BY <1>1, Quiet
<1>3. RequestsOK'
  BY <1>2, ReqsSet, IdleOK DEF AccessInv
<1> QED
  BY <1>1, <1>2, <1>3, LoginsSame, TabsSame DEF AccessInv, TablesKept

(* A tab goes on and nothing else happens.                                 *)
LEMMA TabMoved ==
  ASSUME AccessInv, NEW t \in Tabs, NEW s, TabOK(s), sso' = [sso EXCEPT ![t] = s],
         Ask \/ Fault \/ UNCHANGED env,
         UNCHANGED <<users, tokens, blacklist, jwts, given, revoked, req, address>>
  PROVE  AccessInv'
<1>1. EnvOK' /\ UNCHANGED <<env.user, env.key>>
  BY Counted DEF AccessInv
<1>2. TablesKept /\ ReqsKept /\ TabsKept /\ AnsweredOK'
  BY <1>1, Quiet
<1>3. TabsOK'
  BY <1>2, TabsSet DEF AccessInv, TabsKept
<1> QED
  BY <1>1, <1>2, <1>3, LoginsSame, ReqsSame DEF AccessInv, TablesKept

----------------------------------------------------------------------------
(* The steps of a request                                                  *)

(* Who asks has an account, and asks about his own or is an administrator. *)
LEMMA CallerIs ==
  ASSUME AccessInv, NEW c, NEW u \in check_access(c, Role), NEW e, NEW v \in Resolve(u, e)
  PROVE  /\ u \in Nat /\ v \in Nat /\ v < env.user /\ v \in DOMAIN users
         /\ users[u].role = "admin" \/ u = v
<1>1. UsersOK /\ TokensOK
  BY DEF AccessInv
<1>2. u \in DOMAIN users
  <2>1. u \in Caller(c)
    BY DEF check_access
  <2>2. CASE c.kind = "jwt"
    BY <2>1, <2>2 DEF Caller, UserOf
  <2>3. CASE c.kind = "key"
    BY <1>1, <2>1, <2>3 DEF Caller, authenticate_token, TokensOK
  <2>4. CASE c.kind # "jwt" /\ c.kind # "key"
    BY <2>1, <2>4 DEF Caller, UserOf
  <2> QED
    BY <2>2, <2>3, <2>4
<1>3. /\ v \in DOMAIN users /\ users[v].email = e
      /\ users[u].role = "admin" \/ users[u].email = e
  BY DEF Resolve, UserOf
<1> QED
  BY <1>1, <1>2, <1>3 DEF UsersOK, Unique

LEMMA CreateTokenInv ==
  ASSUME AccessInv, NEW r \in Reqs, NEW c, NEW e \in Emails, NEW n \in Names,
         CreateToken(r, c, e, n)
  PROVE  AccessInv'
<1>1. PICK u, v, q :
        /\ u \in check_access(c, Role) /\ v \in Resolve(u, e)
        /\ q = [op |-> "create_token", caller |-> u, admin |-> users[u].role = "admin",
                user |-> v, email |-> e, name |-> n, doubt |-> FALSE]
        /\ ~Taken(v, n) /\ Begin(r, q)
  BY DEF CreateToken
<1>2. /\ u \in Nat /\ v \in Nat /\ v < env.user
      /\ users[u].role = "admin" \/ u = v
  BY <1>1, CallerIs
<1>3. q \in CreateReq /\ q.user = v /\ q.name = n /\ (q.admin \/ q.caller = q.user)
  BY <1>1, <1>2 DEF CreateReq
<1>4. \A k \in DOMAIN tokens : ~(tokens[k].user = v /\ tokens[k].name = n)
  BY <1>1 DEF Taken, TokenOf
<1>5. RequestOK(q)
  BY <1>2, <1>3, <1>4 DEF RequestOK, Entitled
<1> QED
  BY <1>1, <1>5, Begun DEF CreateToken

LEMMA DeleteTokenInv ==
  ASSUME AccessInv, NEW r \in Reqs, NEW c, NEW e \in Emails, NEW k \in DOMAIN tokens,
         DeleteToken(r, c, e, k)
  PROVE  AccessInv'
<1>1. PICK u, v, q :
        /\ u \in check_access(c, Role) /\ v \in Resolve(u, e)
        /\ q = [op |-> "delete_token", caller |-> u, admin |-> users[u].role = "admin",
                user |-> v, email |-> e, key |-> k, doubt |-> FALSE]
        /\ get_token_by_id(k, v) # {} /\ Begin(r, q)
  BY DEF DeleteToken
<1>2. /\ u \in Nat /\ v \in Nat /\ v < env.user
      /\ users[u].role = "admin" \/ u = v
  BY <1>1, CallerIs
<1>3. k \in Nat /\ k < env.key /\ tokens[k].user = v
  BY <1>1 DEF AccessInv, TokensOK, get_token_by_id
<1>4. /\ q \in DeleteReq /\ q.user = v /\ q.key = k
      /\ q.admin \/ q.caller = q.user
  BY <1>1, <1>2, <1>3 DEF DeleteReq
<1>5. RequestOK(q)
  BY <1>2, <1>3, <1>4 DEF RequestOK, Entitled
<1> QED
  BY <1>1, <1>5, Begun DEF DeleteToken

LEMMA RegisterInv ==
  ASSUME AccessInv, NEW r \in Reqs, NEW e \in Emails, NEW p \in Passwords, Register(r, e, p)
  PROVE  AccessInv'
<1>1. PICK q : /\ Begin(r, q)
               /\ \/ q = Registration("register", e, 0, p)
                  \/ \E u \in UserOf(e) : /\ q = Registration("set_password", e, u, p)
                                          /\ users[u].password = None
  BY DEF Register
<1>2. RequestOK(q)
  <2>1. CASE q = Registration("register", e, 0, p)
    BY <2>1 DEF RequestOK, Registration, RegisterReq
  <2>2. ASSUME NEW u \in UserOf(e), q = Registration("set_password", e, u, p),
               users[u].password = None
        PROVE  RequestOK(q)
    <3>1. u \in Nat /\ u < env.user
      BY DEF AccessInv, UsersOK, UserOf
    <3> QED
      BY <2>2, <3>1 DEF RequestOK, Registration, PasswordReq
  <2> QED
    BY <1>1, <2>1, <2>2
<1> QED
  BY <1>1, <1>2, Begun DEF Register

LEMMA LogoutInv ==
  ASSUME AccessInv, NEW r \in Reqs, NEW j \in jwts, Logout(r, j)
  PROVE  AccessInv'
<1>1. PICK q : q = [op |-> "logout", jwt |-> j] /\ Begin(r, q)
  BY DEF Logout
<1>2. RequestOK(q)
  BY <1>1 DEF RequestOK, LogoutReq, AccessInv, LoginsOK
<1> QED
  BY <1>1, <1>2, Begun DEF Logout

(* What a request is, by its name.                                         *)
LEMMA RequestIs ==
  ASSUME AccessInv, NEW r \in Reqs
  PROVE  LET q == req[r] IN
         /\ q.op = "create_token" =>
              /\ q \in CreateReq /\ Entitled(q)
              /\ \/ q.doubt \/ q.user \notin DOMAIN users
                 \/ TokenOf(q.user, q.name) = {}
         /\ q.op = "delete_token" =>
              /\ q \in DeleteReq /\ Entitled(q) /\ q.key < env.key
              /\ q.key \in DOMAIN tokens => tokens[q.key].user = q.user
         /\ q.op = "register" => q \in RegisterReq
         /\ q.op = "set_password" =>
              /\ q \in PasswordReq /\ q.user < env.user
              /\ q.doubt \/ q.user \notin DOMAIN users \/ users[q.user].password = None
         /\ q.op = "logout" => q \in LogoutReq /\ q.jwt \in jwts
<1> DEFINE q == req[r]
<1>1. RequestOK(q)
  BY DEF AccessInv, RequestsOK
<1>2. q = Idle => q.op = "idle"
  BY DEF Idle
<1>3. /\ q \in LogoutReq => q.op = "logout"
      /\ q \in RegisterReq => q.op = "register"
      /\ q \in CreateReq => q.op = "create_token"
      /\ q \in DeleteReq => q.op = "delete_token"
      /\ q \in PasswordReq => q.op = "set_password"
  BY DEF LogoutReq, RegisterReq, CreateReq, DeleteReq, PasswordReq
<1> HIDE DEF q
<1>4. q.op = "create_token" =>
        /\ q \in CreateReq /\ Entitled(q)
        /\ \/ q.doubt \/ q.user \notin DOMAIN users
           \/ TokenOf(q.user, q.name) = {}
  BY <1>1, <1>2, <1>3 DEF RequestOK, TokenOf
<1> QED
  BY <1>1, <1>2, <1>3, <1>4 DEF RequestOK, q

LEMMA InsertTokenInv ==
  ASSUME AccessInv, NEW r \in Reqs, InsertToken(r)
  PROVE  AccessInv'
<1> DEFINE q == req[r]
           stored == q.user \in DOMAIN users /\ ~(TokenOf(q.user, q.name) # {})
<1>1. /\ q \in CreateReq /\ Entitled(q) /\ q.op = "create_token"
      /\ \/ q.doubt \/ q.user \notin DOMAIN users
         \/ TokenOf(q.user, q.name) = {}
  BY RequestIs DEF InsertToken
<1>2. q.user \in Nat /\ q.user < env.user /\ q.name \in Names /\ q.doubt \in BOOLEAN
  BY <1>1 DEF CreateReq, Entitled
<1>3. /\ env'.user = env.user /\ env'.key = env.key + 1 /\ env.key \in Nat /\ EnvOK'
  <2>1. \/ env' = [env EXCEPT !.key = @ + 1]
        \/ env' = [env EXCEPT !.faults = @ + 1, !.key = @ + 1]
    BY DEF InsertToken
  <2>2. CASE env' = [env EXCEPT !.key = @ + 1]
    BY <2>2 DEF AccessInv, EnvOK, Env
  <2>3. CASE env' = [env EXCEPT !.faults = @ + 1, !.key = @ + 1]
    <3>1. env \in Env
      BY DEF AccessInv, EnvOK, Env
    <3>2. PICK mid : mid = [env EXCEPT !.faults = @ + 1]
      OBVIOUS
    <3>3. /\ mid \in Env
          /\ mid.key = env.key /\ mid.user = env.user /\ env.key \in Nat
      BY <3>1, <3>2 DEF Env
    <3>4. env' = [mid EXCEPT !.key = @ + 1]
      BY <2>3, <3>2
    <3> QED
      BY <3>3, <3>4 DEF EnvOK, Env
  <2> QED
    BY <2>1, <2>2, <2>3
<1>4. LoginsOK'
  BY LoginsSame DEF InsertToken
<1>5. CASE /\ stored
           /\ tokens' = With(tokens, env.key, [user |-> q.user, name |-> q.name])
           /\ given' = given \cup {[key |-> env.key, user |-> q.user, doubt |-> FALSE]}
           /\ req' = [Doubted(req, q.user, q.email) EXCEPT ![r] = Idle]
  <2>1. TablesKept /\ ReqsCrossed(q.user, q.email) /\ TabsKept /\ AnswersKept
    BY <1>2, <1>3, <1>5, TokenAdded DEF InsertToken
  <2>2. RequestsOK'
    BY <1>5, <2>1, ReqsDoubtedDone DEF AccessInv
  <2>3. TabsOK'
    BY <2>1, TabsSame DEF AccessInv, InsertToken
  <2>4. AnsweredOK'
    <3>1. ASSUME NEW g, g = [key |-> env.key, user |-> q.user, doubt |-> FALSE]
          PROVE  GivenOK(g)'
      <4>1. env.key \in DOMAIN tokens' /\ tokens'[env.key].user = q.user
        BY <1>5 DEF With
      <4>2. /\ g.key = env.key /\ g.user = q.user
            /\ g \in [key : Nat, user : Nat, doubt : BOOLEAN]
        BY <1>2, <1>3, <3>1
      <4>3. g.key < env'.key /\ g.user < env'.user
        BY <1>2, <1>3, <4>2
      <4> QED
        BY <4>1, <4>2, <4>3 DEF GivenOK
    <3> QED
      BY <1>5, <2>1, <3>1 DEF AccessInv, AnsweredOK, AnswersKept, InsertToken
  <2> QED
    BY <1>3, <1>4, <2>1, <2>2, <2>3, <2>4 DEF AccessInv, TablesKept
<1>6. ASSUME NEW doubt \in BOOLEAN, (~stored /\ doubt = q.doubt) \/ doubt = TRUE,
             given' = given \cup {[key |-> env.key, user |-> q.user, doubt |-> doubt]},
             req' = [req EXCEPT ![r] = Idle], UNCHANGED tokens
      PROVE  AccessInv'
  <2>1. Later /\ UNCHANGED <<users, tokens, revoked>>
    BY <1>3, <1>6 DEF Later, InsertToken, AccessInv, EnvOK, Env
  <2>2. TablesKept /\ ReqsKept /\ TabsKept /\ AnswersKept
    BY <1>3, <2>1, NothingWritten
  <2>3. RequestsOK'
    BY <1>6, <2>2, ReqsSet, IdleOK DEF AccessInv
  <2>4. TabsOK'
    BY <2>2, TabsSame DEF AccessInv, InsertToken
  <2>5. AnsweredOK'
    <3>1. ASSUME NEW g, g = [key |-> env.key, user |-> q.user, doubt |-> doubt]
          PROVE  GivenOK(g)'
      <4>1. /\ g.key = env.key /\ g.user = q.user /\ g.doubt = doubt
            /\ g \in [key : Nat, user : Nat, doubt : BOOLEAN]
        BY <1>2, <1>3, <3>1
      <4>2. g.key < env'.key /\ g.user < env'.user
        BY <1>2, <1>3, <4>1
      <4>3. g.doubt \/ g.user \notin DOMAIN users'
        BY <1>1, <1>6, <2>1, <4>1
      <4> QED
        BY <4>1, <4>2, <4>3 DEF GivenOK
    <3> QED
      BY <1>6, <2>1, <2>2, <3>1 DEF AccessInv, AnsweredOK, AnswersKept
  <2> QED
    BY <1>3, <1>4, <2>2, <2>3, <2>4, <2>5 DEF AccessInv, TablesKept
<1> QED
  BY <1>2, <1>5, <1>6 DEF InsertToken

LEMMA EraseTokenInv ==
  ASSUME AccessInv, NEW r \in Reqs, EraseToken(r)
  PROVE  AccessInv'
<1> DEFINE q == req[r]
<1>1. q \in DeleteReq /\ q.key \in Nat /\ q.key < env.key
  BY RequestIs DEF EraseToken, DeleteReq
<1>2. LoginsOK' /\ UNCHANGED <<users, sso, given, jwts>>
  BY LoginsSame DEF EraseToken
<1>3. CASE /\ tokens' = Restrict(tokens, DOMAIN tokens \ {q.key})
           /\ revoked' = revoked \cup {[key |-> q.key, failed |-> FALSE]}
           /\ UNCHANGED env
  <2>1. TablesKept /\ ReqsKept /\ TabsKept /\ AnsweredOK'
    BY <1>1, <1>2, <1>3, TokenErased
  <2>2. RequestsOK'
    BY <2>1, ReqsSet, IdleOK DEF AccessInv, EraseToken
  <2>3. TabsOK'
    BY <1>2, <2>1, TabsSame DEF AccessInv
  <2>4. EnvOK'
    BY <1>3, Counted DEF AccessInv
  <2> QED
    BY <1>2, <2>1, <2>2, <2>3, <2>4 DEF AccessInv, TablesKept
<1>4. CASE /\ revoked' = revoked \cup {[key |-> q.key, failed |-> TRUE]}
           /\ Fault /\ UNCHANGED tokens
  <2>1. EnvOK' /\ UNCHANGED <<env.user, env.key>> /\ EnvOK
    BY <1>4, Counted DEF AccessInv
  <2>2. Later
    BY <1>2, <1>4, <2>1 DEF Later, EnvOK, Env
  <2>3. TablesKept /\ ReqsKept /\ TabsKept /\ AnswersKept
    BY <1>2, <1>4, <2>1, <2>2, NothingWritten
  <2>4. RequestsOK'
    BY <2>3, ReqsSet, IdleOK DEF AccessInv, EraseToken
  <2>5. TabsOK'
    BY <1>2, <2>3, TabsSame DEF AccessInv
  <2>6. AnsweredOK'
    <3>1. ASSUME NEW x, x = [key |-> q.key, failed |-> TRUE]
          PROVE  RevokedOK(x)'
      BY <1>1, <2>1, <3>1 DEF RevokedOK
    <3> QED
      BY <1>2, <1>4, <2>3, <3>1 DEF AccessInv, AnsweredOK, AnswersKept
  <2> QED
    BY <1>2, <2>1, <2>3, <2>4, <2>5, <2>6 DEF AccessInv, TablesKept
<1> QED
  BY <1>3, <1>4 DEF EraseToken

LEMMA InsertUserInv ==
  ASSUME AccessInv, NEW r \in Reqs, InsertUser(r)
  PROVE  AccessInv'
<1> DEFINE q == req[r]
           row == NewUser(q.email, q.password, None)
<1>1. q \in RegisterReq /\ q.email \in Emails /\ q.password \in Passwords
  BY RequestIs DEF InsertUser, RegisterReq
<1>2. CASE /\ Unique(row, env.user) /\ Store(env.user, row)
           /\ jwts' = jwts \cup {[sub |-> q.email, iat |-> env.now, role |-> "user"]}
           /\ env' = [env EXCEPT !.user = @ + 1]
           /\ req' = [Doubted(req, 0, q.email) EXCEPT ![r] = Idle]
           /\ sso' = Doubted(sso, 0, q.email)
  <2>1. row \in User /\ row.email = q.email
    BY <1>1 DEF User, NewUser, Role
  <2>2. EnvOK' /\ env'.user = env.user + 1 /\ env'.key = env.key
    BY <1>2 DEF AccessInv, EnvOK, Env
  <2>3. UNCHANGED <<tokens, revoked, given, blacklist, address>> /\ jwts \subseteq jwts'
    BY <1>2 DEF InsertUser
  <2>4. /\ TablesKept /\ ReqsKept /\ AnswersKept
        /\ \A u : TabsCrossed(u, row.email)
    BY <1>2, <2>1, <2>2, <2>3, AccountAdded
  <2>5. RequestsOK'
    BY <1>2, <2>4, ReqsKeptCrossed, ReqsDoubtedDone DEF AccessInv
  <2>6. TabsOK'
    BY <1>2, <2>1, <2>4, TabsDoubted DEF AccessInv
  <2>7. AnsweredOK'
    BY <2>3, <2>4, AnswersSame
  <2>8. LoginsOK'
    <3>1. [sub |-> q.email, iat |-> env.now, role |-> "user"] \in Jwt
      BY <1>1 DEF AccessInv, EnvOK, Env, Jwt, Role
    <3> QED
      BY <1>2, <2>3, <3>1 DEF AccessInv, LoginsOK
  <2> QED
    BY <2>2, <2>4, <2>5, <2>6, <2>7, <2>8 DEF AccessInv, TablesKept
<1>3. CASE /\ req' = [req EXCEPT ![r] = Idle] /\ UNCHANGED <<users, jwts, sso>>
           /\ Fault \/ UNCHANGED env
  BY <1>3, Ended DEF InsertUser
<1> QED
  BY <1>2, <1>3 DEF InsertUser

LEMMA SetPasswordInv ==
  ASSUME AccessInv, NEW r \in Reqs, SetPassword(r)
  PROVE  AccessInv'
<1> DEFINE q == req[r]
<1>1. q \in PasswordReq /\ q.password \in Passwords
  BY RequestIs DEF SetPassword, PasswordReq
<1>2. CASE /\ q.user \in DOMAIN users
           /\ Store(q.user, [users[q.user] EXCEPT !.password = q.password])
           /\ jwts' = jwts \cup {encode_auth_token(q.user)}
           /\ req' = [Doubted(req, q.user, q.email) EXCEPT ![r] = Idle]
           /\ UNCHANGED env
  <2>1. users[q.user] \in User
    BY <1>2 DEF AccessInv, UsersOK
  <2>2. PICK row : row = [users[q.user] EXCEPT !.password = q.password]
    OBVIOUS
  <2>3. /\ row \in User
        /\ row.email = users[q.user].email /\ row.google_id = users[q.user].google_id
    BY <1>1, <2>1, <2>2 DEF User
  <2>4. EnvOK' /\ UNCHANGED <<env.user, env.key>>
    BY <1>2, Counted DEF AccessInv
  <2>5. UNCHANGED <<tokens, revoked, given, blacklist, address, sso>> /\ jwts \subseteq jwts'
    BY <1>2 DEF SetPassword
  <2>6. /\ TablesKept /\ TabsKept /\ AnswersKept
        /\ \A e : ReqsCrossed(q.user, e)
    BY <1>2, <2>2, <2>3, <2>4, <2>5, AccountEdited
  <2>7. RequestsOK'
    BY <1>2, <2>6, ReqsDoubtedDone DEF AccessInv
  <2>8. LoginsOK'
    <3>1. encode_auth_token(q.user) \in Jwt
      BY <2>1 DEF encode_auth_token, Jwt, User, AccessInv, EnvOK, Env
    <3> QED
      BY <1>2, <2>5, <3>1 DEF AccessInv, LoginsOK
  <2> QED
    BY <2>4, <2>5, <2>6, <2>7, <2>8, AnswersSame, TabsSame DEF AccessInv, TablesKept
<1>3. CASE /\ req' = [req EXCEPT ![r] = Idle] /\ UNCHANGED <<users, jwts>>
           /\ Fault \/ UNCHANGED env
  BY <1>3, Ended DEF SetPassword
<1> QED
  BY <1>2, <1>3 DEF SetPassword

LEMMA BlacklistInv ==
  ASSUME AccessInv, NEW r \in Reqs, Blacklist(r)
  PROVE  AccessInv'
<1>1. /\ EnvOK' /\ UNCHANGED <<env.user, env.key>>
      /\ UNCHANGED <<users, tokens, jwts, given, revoked, sso, address>>
  <2>1. Fault \/ UNCHANGED env
    BY DEF Blacklist
  <2> QED
    BY <2>1, Counted DEF Blacklist, AccessInv
<1>2. TablesKept /\ ReqsKept /\ TabsKept /\ AnsweredOK'
  BY <1>1, Quiet
<1>3. RequestsOK'
  BY <1>2, ReqsSet, IdleOK DEF Blacklist, AccessInv
<1>4. LoginsOK'
  <2>1. req[r].jwt \in jwts
    BY RequestIs DEF Blacklist
  <2> QED
    BY <1>1, <2>1 DEF Blacklist, AccessInv, LoginsOK
<1> QED
  BY <1>1, <1>2, <1>3, <1>4, TabsSame DEF AccessInv, TablesKept

LEMMA RequestInv ==
  ASSUME AccessInv, NEW r \in Reqs, Request(r)
  PROVE  AccessInv'
BY CreateTokenInv, DeleteTokenInv, RegisterInv, LogoutInv, InsertTokenInv, EraseTokenInv,
   InsertUserInv, SetPasswordInv, BlacklistInv DEF Request

----------------------------------------------------------------------------
(* Accounts edited by hand, and the environment                            *)

LEMMA LoginInv ==
  ASSUME AccessInv, NEW u \in DOMAIN users, Login(u)
  PROVE  AccessInv'
<1>1. /\ EnvOK' /\ UNCHANGED <<env.user, env.key>>
      /\ UNCHANGED <<users, tokens, blacklist, given, revoked, req, sso, address>>
  BY Counted DEF Login, AccessInv
<1>2. jwts' = jwts \cup {encode_auth_token(u)}
  BY DEF Login
<1>3. TablesKept /\ ReqsKept /\ TabsKept /\ AnsweredOK'
  BY <1>1, <1>2, Quiet
<1>4. LoginsOK'
  <2>1. encode_auth_token(u) \in Jwt
    BY DEF encode_auth_token, Jwt, User, AccessInv, EnvOK, Env, UsersOK
  <2> QED
    BY <1>1, <1>2, <2>1 DEF AccessInv, LoginsOK
<1> QED
  BY <1>1, <1>3, <1>4, ReqsSame, TabsSame DEF AccessInv, TablesKept

LEMMA DisableInv ==
  ASSUME AccessInv, NEW u \in DOMAIN users, NEW b \in BOOLEAN, Disable(u, b)
  PROVE  AccessInv'
<1>1. /\ EnvOK' /\ UNCHANGED <<env.user, env.key>>
      /\ UNCHANGED <<tokens, blacklist, jwts, given, revoked, req, sso, address>>
  BY Counted DEF Disable, AccessInv
<1>2. PICK row : row = [users[u] EXCEPT !.active = b]
  OBVIOUS
<1>3. /\ row \in User /\ row.email = users[u].email
      /\ row.google_id = users[u].google_id /\ row.password = users[u].password
  BY <1>2 DEF AccessInv, UsersOK, User
<1>4. Store(u, row)
  BY <1>2 DEF Disable
<1>5. TablesKept /\ TabsKept /\ AnswersKept /\ ReqsKept
  BY <1>1, <1>3, <1>4, AccountEdited
<1> QED
  BY <1>1, <1>5, ReqsSame, TabsSame, AnswersSame, LoginsSame DEF AccessInv, TablesKept

LEMMA ModUserInv ==
  ASSUME AccessInv, NEW u \in DOMAIN users, NEW p \in Passwords \cup {None},
         NEW role \in Role, ModUser(u, p, role)
  PROVE  AccessInv'
<1>1. /\ EnvOK' /\ UNCHANGED <<env.user, env.key>>
      /\ UNCHANGED <<tokens, blacklist, jwts, given, revoked, sso, address>>
  BY Counted DEF ModUser, AccessInv
<1>2. PICK row : row = [users[u] EXCEPT !.password = p, !.role = role]
  OBVIOUS
<1>3. /\ row \in User /\ row.email = users[u].email /\ row.google_id = users[u].google_id
  BY <1>2 DEF AccessInv, UsersOK, User
<1>4. Store(u, row)
  BY <1>2 DEF ModUser
<1>5. TablesKept /\ TabsKept /\ AnswersKept /\ ReqsCrossed(u, None)
  BY <1>1, <1>3, <1>4, AccountEdited
<1>6. RequestsOK'
  BY <1>5, ReqsDoubted DEF ModUser, AccessInv
<1> QED
  BY <1>1, <1>5, <1>6, TabsSame, AnswersSame, LoginsSame DEF AccessInv, TablesKept

LEMMA AddUserInv ==
  ASSUME AccessInv, NEW e \in Emails, NEW role \in Role, AddUser(e, role)
  PROVE  AccessInv'
<1>1. PICK row : row = [NewUser(e, FirstPassword, None) EXCEPT !.role = role]
  OBVIOUS
<1>2. row \in User /\ row.email = e /\ row.google_id = None
  <2>1. FirstPassword \in Passwords
    BY AccessConstants DEF FirstPassword
  <2> QED
    BY <1>1, <2>1 DEF User, NewUser, Role
<1>3. Unique(row, env.user) /\ Store(env.user, row)
  BY <1>1, <1>2 DEF AddUser, Unique, UserOf
<1>4. EnvOK' /\ env'.user = env.user + 1 /\ env'.key = env.key
  <2>1. env' = [env EXCEPT !.edits = @ + 1, !.user = @ + 1]
    BY DEF AddUser
  <2>2. env \in Env
    BY DEF AccessInv, EnvOK, Env
  <2>3. PICK mid : mid = [env EXCEPT !.edits = @ + 1]
    OBVIOUS
  <2>4. /\ mid \in Env
        /\ mid.key = env.key /\ mid.user = env.user
    BY <2>2, <2>3 DEF Env
  <2>5. env' = [mid EXCEPT !.user = @ + 1]
    BY <2>1, <2>3
  <2> QED
    BY <2>4, <2>5 DEF EnvOK, Env
<1>5. /\ req' = Doubted(req, 0, e) /\ sso' = Doubted(sso, 0, e)
      /\ UNCHANGED <<tokens, blacklist, jwts, given, revoked, address>>
  BY DEF AddUser
<1>6. /\ TablesKept /\ ReqsKept /\ AnswersKept
      /\ \A u : TabsCrossed(u, row.email)
  BY <1>2, <1>3, <1>4, <1>5, AccountAdded
<1>7. RequestsOK' /\ TabsOK'
  BY <1>2, <1>5, <1>6, ReqsKeptCrossed, ReqsDoubted, TabsDoubted DEF AccessInv
<1> QED
  BY <1>4, <1>5, <1>6, <1>7, AnswersSame, LoginsSame DEF AccessInv, TablesKept

LEMMA RemoveUserInv ==
  ASSUME AccessInv, NEW u \in DOMAIN users, RemoveUser(u)
  PROVE  AccessInv'
<1>1. /\ EnvOK' /\ UNCHANGED <<env.user, env.key>>
      /\ UNCHANGED <<blacklist, jwts, given, revoked, address>>
  BY Counted DEF RemoveUser, AccessInv
<1>2. PICK e : e = users[u].email
  OBVIOUS
<1>3. req' = Doubted(req, u, e) /\ sso' = Doubted(sso, u, e)
  BY <1>2 DEF RemoveUser
<1>4. /\ TablesKept /\ ReqsKept /\ AnswersKept /\ TabsCrossed(u, e)
  BY <1>1, <1>2, AccountRemoved DEF RemoveUser
<1>5. RequestsOK' /\ TabsOK'
  BY <1>3, <1>4, ReqsKeptCrossed, ReqsDoubted, TabsDoubted DEF AccessInv
<1> QED
  BY <1>1, <1>4, <1>5, AnswersSame, LoginsSame DEF AccessInv, TablesKept

LEMMA TickInv ==
  ASSUME AccessInv, Tick
  PROVE  AccessInv'
<1>1. EnvOK' /\ UNCHANGED <<env.user, env.key>>
  BY AccessConstants DEF Tick, AccessInv, EnvOK, Env
<1>2. UNCHANGED <<users, tokens, blacklist, jwts, given, revoked, req, sso, address>>
  BY DEF Tick
<1> QED
  BY <1>1, <1>2, Quiet, ReqsSame, TabsSame, LoginsSame DEF AccessInv, TablesKept

LEMMA MoveInv ==
  ASSUME AccessInv, NEW g \in GoogleIds, NEW e \in Emails, Move(g, e)
  PROVE  AccessInv'
<1>1. EnvOK' /\ UNCHANGED <<env.user, env.key>>
  BY DEF Move, AccessInv, EnvOK, Env
<1>2. UNCHANGED <<users, tokens, blacklist, jwts, given, revoked, req, sso>>
  BY DEF Move
<1>3. LoginsOK'
  <2>1. address \in [GoogleIds -> Emails] /\ IsInjective(address)
    BY DEF AccessInv, LoginsOK
  <2>2. address' = [address EXCEPT ![g] = e] /\ \A h \in GoogleIds : address[h] # e
    BY <2>1 DEF Move, Range
  <2>3. address' \in [GoogleIds -> Emails] /\ IsInjective(address')
    BY <2>1, <2>2 DEF IsInjective
  <2> QED
    BY <1>2, <2>3 DEF AccessInv, LoginsOK
<1> QED
  BY <1>1, <1>2, <1>3, Quiet, ReqsSame, TabsSame DEF AccessInv, TablesKept

----------------------------------------------------------------------------
(* The steps of a sign-in                                                  *)

LEMMA CallbackInv ==
  ASSUME AccessInv, NEW t \in Tabs, NEW g \in GoogleIds, Callback(t, g)
  PROVE  AccessInv'
<1>1. PICK s : s = [pc |-> "by_google_id", google_id |-> g, user |-> 0,
                    email |-> address[g], doubt |-> FALSE]
  OBVIOUS
<1>2. TabOK(s)
  <2>1. address[g] \in Emails
    BY DEF AccessInv, LoginsOK
  <2>2. s \in Tab /\ s.pc = "by_google_id"
    BY <1>1, <2>1 DEF Tab
  <2> QED
    BY <2>2 DEF TabOK
<1> QED
  BY <1>1, <1>2, TabMoved DEF Callback

(* A tab that is in a sign-in, and where it may go from there.             *)
LEMMA TabIs ==
  ASSUME AccessInv, NEW t \in Tabs, sso[t].pc # "away"
  PROVE  sso[t] \in Tab /\ TabOK(sso[t])
BY DEF AccessInv, TabsOK, TabOK, Away

LEMMA GoIs ==
  ASSUME AccessInv, NEW t \in Tabs, sso[t] \in Tab, NEW pc, Go(t, pc),
         pc \in {"by_email", "link", "create", "insert", "last_login", "fetch", "in", "failed"}
  PROVE  \E s : /\ sso' = [sso EXCEPT ![t] = s] /\ s \in Tab /\ s.pc = pc
                /\ s.email = sso[t].email /\ s.google_id = sso[t].google_id
                /\ s.user = sso[t].user /\ s.doubt = sso[t].doubt
<1>1. PICK s : s = [sso[t] EXCEPT !.pc = pc]
  OBVIOUS
<1>2. sso' = [sso EXCEPT ![t] = s]
  BY <1>1 DEF Go
<1>3. /\ s \in Tab /\ s.pc = pc
      /\ s.email = sso[t].email /\ s.google_id = sso[t].google_id
      /\ s.user = sso[t].user /\ s.doubt = sso[t].doubt
  BY <1>1 DEF Tab
<1> QED
  BY <1>2, <1>3

LEMMA Forgets ==
  ASSUME AccessInv, NEW t \in Tabs, sso[t] \in Tab, NEW pc, Go(t, pc),
         pc \in {"by_email", "link", "create", "in", "failed"},
         UNCHANGED <<users, tokens, blacklist, jwts, given, revoked, req, address, env>>
  PROVE  AccessInv'
<1>1. PICK s : /\ sso' = [sso EXCEPT ![t] = s] /\ s \in Tab /\ s.pc = pc
               /\ s.email = sso[t].email /\ s.google_id = sso[t].google_id
               /\ s.user = sso[t].user /\ s.doubt = sso[t].doubt
  BY GoIs
<1>2. TabOK(s)
  BY <1>1 DEF TabOK
<1> QED
  BY <1>1, <1>2, TabMoved

LEMMA FindUserInv ==
  ASSUME AccessInv, NEW t \in Tabs, FindUser(t)
  PROVE  AccessInv'
<1>1. sso[t] \in Tab
  BY TabIs DEF FindUser, At
<1>2. UNCHANGED <<users, tokens, blacklist, jwts, given, revoked, req, address, env>>
  BY DEF FindUser
<1>3. ASSUME NEW u \in GoogleUserOf(sso[t].google_id),
             sso' = [sso EXCEPT ![t].pc = "last_login", ![t].user = u]
      PROVE  AccessInv'
  <2>1. PICK s : s = [[sso[t] EXCEPT !.pc = "last_login"] EXCEPT !.user = u]
    OBVIOUS
  <2>2. sso' = [sso EXCEPT ![t] = s]
    BY <1>3, <2>1 DEF AccessInv, TabsOK
  <2>3. u \in DOMAIN users /\ u \in Nat /\ users[u].google_id = sso[t].google_id
    BY <1>3 DEF GoogleUserOf, AccessInv, UsersOK
  <2>4. s \in Tab /\ s.pc = "last_login" /\ s.user = u /\ s.google_id = sso[t].google_id
    BY <1>1, <2>1, <2>3 DEF Tab
  <2>5. TabOK(s)
    BY <2>3, <2>4 DEF TabOK, Known
  <2> QED
    BY <1>2, <2>2, <2>5, TabMoved
<1>4. CASE Go(t, "by_email")
  BY <1>1, <1>2, <1>4, Forgets
<1>5. CASE Go(t, IF UserOf(sso[t].email) = {} THEN "create" ELSE "link")
  BY <1>1, <1>2, <1>5, Forgets
<1> QED
  BY <1>3, <1>4, <1>5 DEF FindUser

LEMMA LinkInv ==
  ASSUME AccessInv, NEW t \in Tabs, Link(t)
  PROVE  AccessInv'
<1> DEFINE s == sso[t]
<1>1. s \in Tab /\ s.google_id \in GoogleIds
  BY TabIs DEF Link, At, Tab
<1>2. UNCHANGED <<tokens, blacklist, jwts, given, revoked, address>>
  BY DEF Link
<1>3. CASE Go(t, "failed") /\ UNCHANGED <<users, req, env>>
  BY <1>1, <1>2, <1>3, Forgets
<1>4. ASSUME NEW u \in UserOf(s.email), NEW row,
             row = [users[u] EXCEPT !.google_id = s.google_id], Unique(row, u), Store(u, row),
             sso' = [Doubted(sso, u, s.email) EXCEPT ![t] = [s EXCEPT !.pc = "last_login"]],
             UNCHANGED <<req, env>>
      PROVE  AccessInv'
  <2>1. PICK e, n : e = s.email /\ n = [s EXCEPT !.pc = "last_login"]
    OBVIOUS
  <2>2. u \in DOMAIN users /\ users[u].email = e /\ users[u] \in User
    BY <1>4, <2>1 DEF UserOf, AccessInv, UsersOK
  <2>3. EnvOK' /\ UNCHANGED <<env.user, env.key>>
    BY <1>4, Counted DEF AccessInv
  <2>4. TablesKept /\ ReqsKept /\ AnswersKept /\ TabsCrossed(u, e)
    BY <1>1, <1>2, <1>4, <2>2, AccountLinked
  <2>5. /\ n \in Tab /\ n.pc = "last_login" /\ n.email = e /\ n.google_id = s.google_id
    BY <1>1, <2>1 DEF Tab
  <2>6. TabOK(n)'
    <3>1. /\ u \in DOMAIN users' /\ users'[u].email = e
          /\ users'[u].google_id = s.google_id
      BY <1>4, <2>2 DEF Store, With, User
    <3>2. \E v \in DOMAIN users' : /\ users'[v].email = n.email
                                   /\ users'[v].google_id = n.google_id
      BY <2>5, <3>1
    <3> QED
      BY <2>5, <3>2 DEF TabOK, Own
  <2>7. TabsOK'
    BY <1>4, <2>1, <2>4, <2>6, TabsDoubtedSet DEF AccessInv
  <2> QED
    BY <1>2, <1>4, <2>3, <2>4, <2>7, ReqsSame, AnswersSame, LoginsSame DEF AccessInv, TablesKept
<1>5. CASE /\ sso' = [sso EXCEPT ![t].pc = "last_login", ![t].doubt = TRUE]
           /\ Fault \/ UNCHANGED env
           /\ UNCHANGED <<users, req>>
  <2>1. PICK n : n = [[s EXCEPT !.pc = "last_login"] EXCEPT !.doubt = TRUE]
    OBVIOUS
  <2>2. sso' = [sso EXCEPT ![t] = n]
    BY <1>5, <2>1 DEF AccessInv, TabsOK
  <2>3. n \in Tab /\ n.doubt
    BY <1>1, <2>1 DEF Tab
  <2>4. TabOK(n)
    BY <2>3 DEF TabOK
  <2> QED
    BY <1>2, <1>5, <2>2, <2>4, TabMoved
<1> QED
  BY <1>3, <1>4, <1>5 DEF Link

LEMMA CreateUserInv ==
  ASSUME AccessInv, NEW t \in Tabs, CreateUser(t)
  PROVE  AccessInv'
<1>1. sso[t] \in Tab
  BY TabIs DEF CreateUser, At
<1>2. UNCHANGED <<users, tokens, blacklist, jwts, given, revoked, req, address, env>>
  BY DEF CreateUser
<1>3. CASE Go(t, "failed")
  BY <1>1, <1>2, <1>3, Forgets
<1>4. CASE UserOf(sso[t].email) = {} /\ Go(t, "insert")
  <2>1. PICK s : /\ sso' = [sso EXCEPT ![t] = s] /\ s \in Tab /\ s.pc = "insert"
                 /\ s.email = sso[t].email
    BY <1>1, <1>4, GoIs
  <2>2. TabOK(s)
    BY <1>4, <2>1 DEF TabOK, Absent, UserOf
  <2> QED
    BY <1>2, <2>1, <2>2, TabMoved
<1> QED
  BY <1>3, <1>4 DEF CreateUser

LEMMA InsertGoogleUserInv ==
  ASSUME AccessInv, NEW t \in Tabs, InsertGoogleUser(t)
  PROVE  AccessInv'
<1> DEFINE s == sso[t]
           row == NewUser(s.email, None, s.google_id)
<1>1. s \in Tab /\ s.google_id \in GoogleIds /\ s.email \in Emails /\ s.doubt \in BOOLEAN
      /\ (s.doubt \/ Absent(s))
  <2>1. s \in Tab /\ TabOK(s) /\ s.pc = "insert"
    BY TabIs DEF InsertGoogleUser, At
  <2> QED
    BY <2>1 DEF TabOK, Tab, Away
<1>2. UNCHANGED <<tokens, blacklist, jwts, given, revoked, address>>
  BY DEF InsertGoogleUser
<1>3. ASSUME NEW doubt \in BOOLEAN, NEW n, n = [s EXCEPT !.pc = "last_login", !.doubt = @ \/ doubt]
      PROVE  /\ n \in Tab /\ n.pc = "last_login" /\ n.email = s.email
             /\ n.google_id = s.google_id
             /\ n.doubt \/ (n.doubt = s.doubt /\ ~doubt)
  BY <1>1, <1>3 DEF Tab
<1>4. CASE /\ Unique(row, env.user) /\ Store(env.user, row)
           /\ env' = [env EXCEPT !.user = @ + 1]
           /\ sso' = [Doubted(sso, 0, s.email) EXCEPT ![t] =
                        [s EXCEPT !.pc = "last_login", !.doubt = @ \/ FALSE]]
           /\ req' = Doubted(req, 0, s.email)
  <2>1. PICK e, n : e = s.email /\ n = [s EXCEPT !.pc = "last_login", !.doubt = @ \/ FALSE]
    OBVIOUS
  <2>2. row \in User /\ row.email = e /\ row.google_id = s.google_id
    BY <1>1, <2>1 DEF NewUser, User, Role
  <2>3. EnvOK' /\ env'.user = env.user + 1 /\ env'.key = env.key
    BY <1>4 DEF AccessInv, EnvOK, Env
  <2>4. /\ TablesKept /\ ReqsKept /\ AnswersKept
        /\ \A u : TabsCrossed(u, row.email)
    BY <1>2, <1>4, <2>2, <2>3, AccountAdded
  <2>5. TabOK(n)'
    <3>1. env.user \in DOMAIN users' /\ users'[env.user] = row
      BY <1>4 DEF Store, With
    <3>2. /\ n \in Tab /\ n.pc = "last_login"
          /\ n.email = s.email /\ n.google_id = s.google_id
      BY <1>3, <2>1
    <3>3. \E v \in DOMAIN users' : /\ users'[v].email = n.email
                                   /\ users'[v].google_id = n.google_id
      BY <2>1, <2>2, <3>1, <3>2
    <3> QED
      BY <3>2, <3>3 DEF TabOK, Own
  <2>6. TabsOK' /\ RequestsOK'
    BY <1>4, <2>1, <2>2, <2>4, <2>5, TabsDoubtedSet, ReqsKeptCrossed, ReqsDoubted DEF AccessInv
  <2> QED
    BY <1>2, <2>3, <2>4, <2>6, AnswersSame, LoginsSame DEF AccessInv, TablesKept
<1>5. ASSUME NEW doubt \in BOOLEAN, NEW n,
             n = [s EXCEPT !.pc = "last_login", !.doubt = @ \/ doubt],
             sso' = [sso EXCEPT ![t] = n], Fault \/ UNCHANGED env, UNCHANGED <<users, req>>
      PROVE  AccessInv'
  <2>1. TabOK(n)
    <3>1. /\ n \in Tab /\ n.pc = "last_login" /\ n.email = s.email
          /\ n.doubt \/ n.doubt = s.doubt
      BY <1>3, <1>5
    <3> QED
      BY <1>1, <3>1 DEF TabOK, Absent
  <2> QED
    BY <1>2, <1>5, <2>1, TabMoved
<1> QED
  BY <1>4, <1>5 DEF InsertGoogleUser

LEMMA LastLoginInv ==
  ASSUME AccessInv, NEW t \in Tabs, LastLogin(t)
  PROVE  AccessInv'
<1>1. sso[t] \in Tab /\ TabOK(sso[t]) /\ sso[t].pc = "last_login"
  BY TabIs DEF LastLogin, At
<1>2. UNCHANGED <<users, tokens, blacklist, jwts, given, revoked, req, address, env>>
  BY DEF LastLogin
<1>3. CASE Go(t, "failed")
  BY <1>1, <1>2, <1>3, Forgets
<1>4. CASE Go(t, "fetch")
  <2>1. PICK s : /\ sso' = [sso EXCEPT ![t] = s] /\ s \in Tab /\ s.pc = "fetch"
                 /\ s.email = sso[t].email /\ s.google_id = sso[t].google_id
                 /\ s.user = sso[t].user /\ s.doubt = sso[t].doubt
    BY <1>1, <1>4, GoIs
  <2>2. TabOK(s)
    BY <1>1, <2>1 DEF TabOK, Absent, Own, Known, Tab, Away
  <2> QED
    BY <1>2, <2>1, <2>2, TabMoved
<1> QED
  BY <1>3, <1>4 DEF LastLogin

LEMMA SignInInv ==
  ASSUME AccessInv, NEW t \in Tabs, SignIn(t)
  PROVE  AccessInv'
<1>1. sso[t] \in Tab
  BY TabIs DEF SignIn, At
<1>2. Go(t, "failed") \/ Go(t, "in")
  BY DEF SignIn
<1> QED
  BY <1>1, <1>2, Forgets DEF SignIn

LEMMA SignOutInv ==
  ASSUME AccessInv, NEW t \in Tabs, SignOut(t)
  PROVE  AccessInv'
<1>1. TabOK(Away)
  BY DEF TabOK
<1> QED
  BY <1>1, TabMoved DEF SignOut

LEMMA BrowseInv ==
  ASSUME AccessInv, NEW t \in Tabs, Browse(t)
  PROVE  AccessInv'
BY CallbackInv, FindUserInv, LinkInv, CreateUserInv, InsertGoogleUserInv, LastLoginInv,
   SignInInv, SignOutInv DEF Browse

----------------------------------------------------------------------------
(* The invariant                                                           *)

LEMMA InitInv == Init => AccessInv
<1> SUFFICES ASSUME Init PROVE AccessInv
  OBVIOUS
<1>1. EnvOK
  BY AccessConstants DEF Init, EnvOK, Env
<1>2. UsersOK
  <2>1. FirstPassword \in Passwords
    BY AccessConstants DEF FirstPassword
  <2>2. DOMAIN users = 1..2 /\ env.user = 3
    BY DEF Init, Populated
  <2>3. \A u \in 1..2 : /\ users[u] \in User /\ users[u].google_id = None
                        /\ users[u].email = IF u = 1 THEN Admin ELSE Regular
    BY <2>1, AccessConstants DEF Init, Populated, NewUser, User, Role
  <2>4. \A u \in 1..2 : u \in Nat /\ u < 3 /\ (u = 1 \/ u = 2)
    OBVIOUS
  <2>5. \A u \in DOMAIN users : Unique(users[u], u)
    BY <2>2, <2>3, <2>4, AccessConstants DEF Unique
  <2> QED
    BY <2>2, <2>3, <2>4, <2>5 DEF UsersOK
<1>3. TokensOK
  BY DEF Init, TokensOK
<1>4. LoginsOK
  BY DEF Init, LoginsOK
<1>5. AnsweredOK
  BY DEF Init, AnsweredOK
<1>6. RequestsOK
  BY DEF Init, RequestsOK, RequestOK
<1>7. TabsOK
  BY DEF Init, TabsOK, TabOK
<1> QED
  BY <1>1, <1>2, <1>3, <1>4, <1>5, <1>6, <1>7 DEF AccessInv

LEMMA StutterInv ==
  ASSUME AccessInv, UNCHANGED vars
  PROVE  AccessInv'
<1>1. EnvOK' /\ UNCHANGED <<env.user, env.key>>
  BY Counted DEF vars, AccessInv
<1>2. UNCHANGED <<users, tokens, blacklist, jwts, given, revoked, req, sso, address>>
  BY DEF vars
<1> QED
  BY <1>1, <1>2, Quiet, ReqsSame, TabsSame, LoginsSame DEF AccessInv, TablesKept

(* The inductive invariant of accounts, API tokens and sign-ins.           *)
THEOREM AccessInvariant == Spec => []AccessInv
<1>1. AccessInv /\ [Next]_vars => AccessInv'
  <2> SUFFICES ASSUME AccessInv, [Next]_vars PROVE AccessInv'
    OBVIOUS
  <2>1. CASE \E r \in Reqs : Request(r)
    BY <2>1, RequestInv
  <2>2. CASE \E t \in Tabs : Browse(t)
    BY <2>2, BrowseInv
  <2>3. CASE Administer
    BY <2>3, LoginInv, RemoveUserInv, DisableInv, ModUserInv DEF Administer
  <2>4. CASE AddAccount
    BY <2>4, AddUserInv DEF AddAccount
  <2>5. CASE Tick
    BY <2>5, TickInv
  <2>6. CASE \E g \in GoogleIds, e \in Emails : Move(g, e)
    BY <2>6, MoveInv
  <2>7. CASE UNCHANGED vars
    BY <2>7, StutterInv
  <2> QED
    BY <2>1, <2>2, <2>3, <2>4, <2>5, <2>6, <2>7 DEF Next
<1> QED
  BY <1>1, InitInv, PTL DEF Spec

----------------------------------------------------------------------------
(* What the invariant means for the clients                                *)

(* Rows have the columns' types, unique columns are unique, every API      *)
(* token belongs to an account that exists and is the only one of its      *)
(* name, and every login token has a subject.                              *)
THEOREM AccessTypes == Spec => []TypeOK
<1>1. AccessInv => TypeOK
  <2> SUFFICES ASSUME AccessInv PROVE TypeOK
    OBVIOUS
  <2>1. \A u \in DOMAIN users : u < env.user /\ users[u] \in User /\ Unique(users[u], u)
    BY DEF AccessInv, UsersOK
  <2>2. ASSUME NEW k \in DOMAIN tokens
        PROVE  /\ k < env.key /\ tokens[k].user \in DOMAIN users
               /\ TokenOf(tokens[k].user, tokens[k].name) = {k}
    <3>1. k < env.key /\ tokens[k].user \in DOMAIN users
      BY DEF AccessInv, TokensOK
    <3>2. ASSUME NEW l \in DOMAIN tokens, tokens[l].user = tokens[k].user,
                 tokens[l].name = tokens[k].name
          PROVE  l = k
      BY <3>2 DEF AccessInv, TokensOK
    <3> QED
      BY <3>1, <3>2 DEF TokenOf
  <2>3. blacklist \subseteq jwts /\ jwts \subseteq Jwt /\ IsInjective(address)
    BY DEF AccessInv, LoginsOK
  <2> QED
    BY <2>1, <2>2, <2>3 DEF TypeOK
<1> QED
  BY <1>1, AccessInvariant, PTL

(* An API token that was answered with 201 works until it is revoked or    *)
(* its account deleted, unless its request was crossed or its commit       *)
(* failed (api_tokens.create_token).                                       *)
THEOREM TokensGiven == Spec => []GivenWorks
<1>1. AccessInv => GivenWorks
  <2> SUFFICES ASSUME AccessInv, NEW g \in given, ~g.doubt, g.user \in DOMAIN users,
                      ~\E x \in revoked : x.key = g.key
               PROVE  authenticate_token(g.key) = {g.user}
    BY DEF GivenWorks
  <2>1. g.key \in DOMAIN tokens /\ tokens[g.key].user = g.user
    BY DEF AccessInv, AnsweredOK, GivenOK
  <2> QED
    BY <2>1 DEF authenticate_token
<1> QED
  BY <1>1, AccessInvariant, PTL

(* An API token whose deletion was answered is not accepted again, unless  *)
(* the commit of the deletion failed (api_tokens.delete_token).            *)
THEOREM TokensRevoked == Spec => []RevokedStops
<1>1. AccessInv => RevokedStops
  BY DEF AccessInv, AnsweredOK, RevokedOK, RevokedStops, authenticate_token
<1> QED
  BY <1>1, AccessInvariant, PTL

(* An account's API tokens are made and deleted by requests of that        *)
(* account or of an administrator, or go with the account                  *)
(* (api_tokens._resolve_user, ApiTokenDao.get_token_by_id).                *)
THEOREM TokensOwned == Spec => TokensByOwner
<1> DEFINE Owned(k) ==
      LET u == IF k \in DOMAIN tokens THEN tokens[k].user ELSE tokens'[k].user
      IN \/ u \notin DOMAIN users'
         \/ \E r \in Reqs : /\ req[r].op \in {"create_token", "delete_token"}
                            /\ req'[r] = Idle /\ req[r].user = u
                            /\ req[r].admin \/ req[r].caller = u
<1>1. ASSUME AccessInv, [Next]_vars, NEW k \in SymDiff(DOMAIN tokens, DOMAIN tokens')
      PROVE  Owned(k)
  <2>1. tokens' # tokens
    BY DEF SymDiff
  <2>2. ASSUME NEW r \in Reqs, InsertToken(r)
        PROVE  Owned(k)
    <3>1. /\ tokens' = With(tokens, env.key, [user |-> req[r].user, name |-> req[r].name])
          /\ req' = [Doubted(req, req[r].user, req[r].email) EXCEPT ![r] = Idle]
          /\ req[r].op = "create_token"
      BY <2>1, <2>2 DEF InsertToken
    <3>2. k \notin DOMAIN tokens /\ tokens'[k].user = req[r].user
      BY <3>1 DEF SymDiff, With
    <3>3. req'[r] = Idle
      BY <1>1, <3>1, DoubtedIs DEF AccessInv, RequestsOK
    <3>4. req[r].admin \/ req[r].caller = req[r].user
      BY <1>1, <3>1, RequestIs DEF Entitled
    <3> QED
      BY <3>1, <3>2, <3>3, <3>4
  <2>3. ASSUME NEW r \in Reqs, EraseToken(r)
        PROVE  Owned(k)
    <3>1. /\ tokens' = Restrict(tokens, DOMAIN tokens \ {req[r].key})
          /\ req' = [req EXCEPT ![r] = Idle]
          /\ req[r].op = "delete_token"
      BY <2>1, <2>3 DEF EraseToken
    <3>2. k = req[r].key /\ k \in DOMAIN tokens
      BY <3>1 DEF SymDiff, Restrict
    <3>3. /\ tokens[k].user = req[r].user
          /\ req[r].admin \/ req[r].caller = req[r].user
      BY <1>1, <3>1, <3>2, RequestIs DEF Entitled
    <3>4. req'[r] = Idle
      BY <1>1, <3>1 DEF AccessInv, RequestsOK
    <3> QED
      BY <3>1, <3>2, <3>3, <3>4
  <2>4. ASSUME NEW u \in DOMAIN users, RemoveUser(u)
        PROVE  Owned(k)
    <3>1. /\ tokens' = Restrict(tokens, {l \in DOMAIN tokens : tokens[l].user # u})
          /\ DOMAIN users' = DOMAIN users \ {u}
      BY <2>4 DEF RemoveUser, Restrict
    <3>2. k \in DOMAIN tokens /\ tokens[k].user = u
      BY <3>1 DEF SymDiff, Restrict
    <3> QED
      BY <3>1, <3>2
  <2>5. CASE \E r \in Reqs : Request(r)
    <3>1. PICK r \in Reqs : Request(r)
      BY <2>5
    <3>2. InsertToken(r) \/ EraseToken(r)
      BY <2>1, <3>1 DEF Request, CreateToken, DeleteToken, Register, Logout, InsertUser,
                        SetPassword, Blacklist
    <3> QED
      BY <2>2, <2>3, <3>2
  <2>6. CASE Administer
    <3>1. PICK u \in DOMAIN users : RemoveUser(u)
      BY <2>1, <2>6 DEF Administer, Login, Disable, ModUser
    <3> QED
      BY <2>4, <3>1
  <2>7. UNCHANGED tokens \/ (\E r \in Reqs : Request(r)) \/ Administer
    <3>1. ASSUME NEW t \in Tabs, Browse(t) PROVE UNCHANGED tokens
      BY <3>1 DEF Browse, Callback, FindUser, Link, CreateUser, InsertGoogleUser, LastLogin,
                  SignIn, SignOut
    <3> QED
      BY <1>1, <3>1 DEF Next, vars, AddAccount, AddUser, Tick, Move
  <2> QED
    BY <2>1, <2>5, <2>6, <2>7
<1>2. AccessInv /\ [Next]_vars
        => [\A k \in SymDiff(DOMAIN tokens, DOMAIN tokens') : Owned(k)]_vars
  BY <1>1
<1> QED
  BY <1>2, AccessInvariant, PTL DEF Spec, TokensByOwner
=============================================================================
