---------------------------- MODULE AccountsProofs ----------------------------
(***************************************************************************)
(* Proofs about Accounts, for any number of requests, any emails, teams    *)
(* and passwords, any two lifetimes of tokens and any faults.              *)
(***************************************************************************)
EXTENDS Accounts, TLAPS

-----------------------------------------------------------------------------
(* The inductive invariant.                                                *)

(* A row of the users table was inserted by the registration it is named   *)
(* after, whose client was told so unless the acknowledgement was lost.    *)
MadeBy(u) ==
    LET c == call[u.id]
    IN  /\ pc[u.id] = "done" /\ c \in Body /\ c.op = "register"
        /\ u.email = Clean[c.email] /\ u.team = c.team
        /\ reply[u.id].code \in {"ok", "error"}
        /\ reply[u.id].code = "error" => "ack" \in Faults

UsersInv == OneAccountPerEmail /\ \A u \in users : MadeBy(u)

(* A registration.                                                         *)
RegisterAt(r) ==
    /\ pc[r] \in {"team", "email", "insert"} => call[r].op = "register"
    /\ pc[r] = "done" /\ call[r] \in Body /\ call[r].op = "register" =>
          /\ reply[r].code = "ok" => \E u \in users : /\ u.id = r
                                                      /\ u.email = Clean[call[r].email]
                                                      /\ u.team = call[r].team
          /\ reply[r].code = "emailTaken" => Account(Clean[call[r].email]) # {}

(* The tokens of login r do not outlive its session.                       *)
Covered(r) ==
    /\ life[r]["refresh"] <= sessions[r]
    /\ AccessTTL <= RefreshTTL => life[r]["access"] <= sessions[r]

(* A login: what it found is an account of its email, tokens are handed    *)
(* out only for its password, and they do not outlive the session.         *)
LoginAt(r) ==
    /\ pc[r] \in {"find", "verify", "save"} => call[r].op = "login"
    /\ found[r] # None => pc[r] \in {"verify", "save", "done"}
    /\ found[r] # None \/ pc[r] \in {"verify", "save"} =>
          /\ call[r] \in Body /\ call[r].op = "login"
          /\ found[r] \in users /\ found[r].email = Clean[call[r].email]
    /\ pc[r] = "save" \/ LoggedIn(r) => call[r].password = found[r].password
    /\ LoggedIn(r) => Covered(r)

(* An authentication: the token is one of a login; whatever was dead when  *)
(* it arrived stays dead.                                                  *)
TokenAt(r) ==
    LET c == call[r]
    IN  /\ pc[r] # "done" => reply[r].user = None
        /\ pc[r] \in {"token", "session"} \/ reply[r].user # None =>
              c \in Bearer /\ LoggedIn(c.login)
        /\ pc[r] = "token" /\ c.dead => life[c.login][c.kind] = 0 \/ sessions[c.login] = 0
        /\ pc[r] = "session" => c.kind = "access" /\ (c.dead => sessions[c.login] = 0)
        /\ reply[r].user # None => /\ c.kind = "access" /\ ~c.dead
                                   /\ reply[r].user.id = found[c.login].id
                                   /\ reply[r].user.team = found[c.login].team

RequestsInv == \A r \in Requests : RegisterAt(r) /\ LoginAt(r) /\ TokenAt(r)

AInv == TypeOK /\ UsersInv /\ RequestsInv

-----------------------------------------------------------------------------
LEMMA Lifetimes ==
    /\ RefreshTTL \in Nat /\ 0 \in 0..RefreshTTL
    /\ RefreshTTL \in 0..RefreshTTL /\ AccessTTL \in Nat
    /\ "access" \in Kinds /\ "refresh" \in Kinds
  BY TimesAssumption DEF Kinds

LEMMA InitAInv == Init => AInv
  <1> SUFFICES ASSUME Init PROVE AInv
    OBVIOUS
  <1>1. TypeOK
    BY Lifetimes DEF Init, TypeOK, InFlight, Codes
  <1>2. UsersInv
    BY DEF Init, UsersInv, OneAccountPerEmail
  <1>3. RequestsInv
    BY DEF Init, RequestsInv, RegisterAt, LoginAt, Covered, TokenAt, LoggedIn
  <1> QED
    BY <1>1, <1>2, <1>3 DEF AInv

(* A step of a request that is not done touches nobody else.               *)
OwnStep(r) ==
    /\ pc[r] # "done"
    /\ users \subseteq users'
    /\ \A q \in Requests \ {r} :
          /\ pc'[q] = pc[q] /\ call'[q] = call[q] /\ found'[q] = found[q]
          /\ reply'[q] = reply[q] /\ sessions'[q] = sessions[q] /\ life'[q] = life[q]

LEMMA OthersKept ==
    ASSUME AInv, NEW r \in Requests, OwnStep(r), NEW q \in Requests \ {r}
    PROVE  RegisterAt(q)' /\ LoginAt(q)' /\ TokenAt(q)'
  <1>1. /\ pc'[q] = pc[q] /\ call'[q] = call[q] /\ found'[q] = found[q]
        /\ reply'[q] = reply[q] /\ sessions'[q] = sessions[q] /\ life'[q] = life[q]
        /\ users \subseteq users'
    BY DEF OwnStep
  <1>2. RegisterAt(q)'
    BY <1>1 DEF AInv, RequestsInv, RegisterAt, Account
  <1>3. LoginAt(q)'
    BY <1>1 DEF AInv, RequestsInv, LoginAt, Covered, LoggedIn
  <1>4. TokenAt(q)'
    <2>1. CASE pc[q] \in {"token", "session"} \/ reply[q].user # None
      <3> DEFINE l == call[q].login
      <3>1. l \in Requests /\ LoggedIn(l) /\ l # r
        BY <2>1 DEF AInv, RequestsInv, TokenAt, LoggedIn, Bearer, OwnStep
      <3>2. /\ pc'[l] = pc[l] /\ found'[l] = found[l] /\ reply'[l] = reply[l]
            /\ sessions'[l] = sessions[l] /\ life'[l] = life[l]
        BY <3>1 DEF OwnStep
      <3> QED
        BY <1>1, <2>1, <3>1, <3>2 DEF AInv, RequestsInv, TokenAt, LoggedIn
    <2>2. CASE ~(pc[q] \in {"token", "session"} \/ reply[q].user # None)
      BY <1>1, <2>2 DEF TokenAt
    <2> QED
      BY <2>1, <2>2
  <1> QED
    BY <1>2, <1>3, <1>4

(* What registrations had inserted stays as it was.                        *)
LEMMA UsersKept ==
    ASSUME AInv, NEW r \in Requests, OwnStep(r), users' = users
    PROVE  UsersInv'
  <1>1. OneAccountPerEmail'
    BY DEF AInv, UsersInv, OneAccountPerEmail
  <1>2. ASSUME NEW u \in users
        PROVE  MadeBy(u)'
    <2>1. u.id \in Requests /\ u.id # r
      BY DEF AInv, TypeOK, User, UsersInv, MadeBy, OwnStep
    <2>2. /\ pc'[u.id] = pc[u.id] /\ call'[u.id] = call[u.id] /\ reply'[u.id] = reply[u.id]
      BY <2>1 DEF OwnStep
    <2> QED
      BY <2>2 DEF AInv, UsersInv, MadeBy
  <1> QED
    BY <1>1, <1>2 DEF UsersInv

LEMMA OwnStepKeeps ==
    ASSUME AInv, NEW r \in Requests, OwnStep(r), TypeOK', UsersInv',
           RegisterAt(r)', LoginAt(r)', TokenAt(r)'
    PROVE  AInv'
  BY OthersKept DEF AInv, RequestsInv

(* A request's answer that is no success tells nothing but its code.       *)
LEMMA RefuseKeeps ==
    ASSUME AInv, NEW r \in Requests, pc[r] \in InFlight,
           NEW code \in {"noTeam", "emailTaken", "unauthorized", "error"}, Refuse(r, code),
           UNCHANGED <<users, life, call, found>>,
           sessions' = sessions \/ (pc[r] = "save" /\ Store(r)),
           code = "emailTaken" => Account(Clean[call[r].email]) # {}
    PROVE  AInv'
  <1>1. /\ pc' = [pc EXCEPT ![r] = "done"]
        /\ reply' = [reply EXCEPT ![r] = [code |-> code, user |-> None]]
        /\ pc[r] # "done"
    BY DEF Refuse, Answer, Goto, InFlight
  <1>2. sessions' \in [Requests -> 0..RefreshTTL]
    BY Lifetimes DEF AInv, TypeOK, Store
  <1>3. OwnStep(r)
    BY <1>1 DEF OwnStep, AInv, TypeOK, Store
  <1>4. TypeOK'
    BY <1>1, <1>2 DEF AInv, TypeOK, Codes, InFlight
  <1>5. /\ pc'[r] = "done" /\ reply'[r].code = code /\ reply'[r].user = None
        /\ code # "ok" /\ call'[r] = call[r] /\ found'[r] = found[r]
    BY <1>1 DEF AInv, TypeOK
  <1>6. RegisterAt(r)'
    BY <1>5 DEF RegisterAt, Account
  <1>7. LoginAt(r)'
    BY <1>5 DEF AInv, RequestsInv, LoginAt, Covered, LoggedIn
  <1>8. TokenAt(r)'
    BY <1>5 DEF TokenAt
  <1> QED
    BY <1>3, <1>4, <1>6, <1>7, <1>8, UsersKept, OwnStepKeeps

-----------------------------------------------------------------------------
(* Registrations.                                                          *)

LEMMA ReceiveKeeps ==
    ASSUME AInv, NEW r \in Requests, NEW c \in Calls, Receive(r, c)
    PROVE  AInv'
  <1> DEFINE label == IF c.op = "register" THEN "team" ELSE "find"
  <1>1. /\ c \in Body /\ c.email # None /\ pc[r] = "idle"
        /\ call' = [call EXCEPT ![r] = c] /\ pc' = [pc EXCEPT ![r] = label]
        /\ UNCHANGED <<users, sessions, life, found, reply>>
    BY CallsAssumption DEF Receive, Goto
  <1>2. /\ label \in {"team", "find"}
        /\ label = "team" => c.op = "register"
        /\ label = "find" => c.op = "login"
    BY <1>1 DEF Body
  <1> HIDE DEF label
  <1>3. OwnStep(r)
    BY <1>1 DEF OwnStep, AInv, TypeOK
  <1>4. pc'[r] = label /\ call'[r] = c /\ found'[r] = None /\ reply'[r].user = None
    BY <1>1 DEF AInv, TypeOK, RequestsInv, LoginAt, TokenAt
  <1>5. TypeOK'
    <2>1. /\ pc' \in [Requests -> InFlight \cup {"idle", "done"}]
          /\ call' \in [Requests -> Body \cup Bearer \cup {None}]
      BY <1>1, <1>2 DEF AInv, TypeOK, InFlight
    <2>2. \A q \in Requests \ {r} : pc'[q] = pc[q] /\ call'[q] = call[q]
      BY <1>3 DEF OwnStep
    <2> QED
      BY <1>1, <1>2, <1>4, <2>1, <2>2 DEF AInv, TypeOK
  <1>6. RegisterAt(r)' /\ LoginAt(r)' /\ TokenAt(r)'
    <2>1. RegisterAt(r)'
      BY <1>2, <1>4 DEF RegisterAt
    <2>2. LoginAt(r)'
      BY <1>2, <1>4 DEF LoginAt, Covered, LoggedIn
    <2>3. TokenAt(r)'
      BY <1>2, <1>4 DEF TokenAt
    <2> QED
      BY <2>1, <2>2, <2>3
  <1> QED
    BY <1>1, <1>3, <1>5, <1>6, UsersKept, OwnStepKeeps

(* A body that does not validate, and a request without a token, are       *)
(* answered at once.                                                       *)
LEMMA RejectKeeps ==
    ASSUME AInv, NEW r \in Requests, pc[r] = "idle",
           NEW code \in {"badRequest", "unauthorized"}, Refuse(r, code),
           call' = call \/ (\E c \in Calls : call' = [call EXCEPT ![r] = c]),
           UNCHANGED <<users, sessions, life, found>>
    PROVE  AInv'
  <1>1. /\ pc' = [pc EXCEPT ![r] = "done"]
        /\ reply' = [reply EXCEPT ![r] = [code |-> code, user |-> None]]
    BY DEF Refuse, Answer, Goto
  <1>2. /\ call' \in [Requests -> Body \cup Bearer \cup {None}]
        /\ \A q \in Requests \ {r} : call'[q] = call[q]
    BY CallsAssumption DEF AInv, TypeOK
  <1>3. OwnStep(r)
    BY <1>1, <1>2 DEF OwnStep, AInv, TypeOK
  <1>4. /\ pc'[r] = "done" /\ reply'[r].code = code /\ reply'[r].user = None
        /\ found'[r] = None
    BY <1>1 DEF AInv, TypeOK, RequestsInv, LoginAt
  <1>5. TypeOK'
    <2>1. /\ pc' \in [Requests -> InFlight \cup {"idle", "done"}]
          /\ reply' \in [Requests -> [code : Codes, user : Identity \cup {None}]]
      BY <1>1 DEF AInv, TypeOK, Codes
    <2>2. \A q \in Requests : pc'[q] # "done" => q # r
      BY <1>4
    <2> QED
      BY <1>2, <1>3, <1>4, <2>1, <2>2 DEF AInv, TypeOK, OwnStep
  <1>6. RegisterAt(r)' /\ LoginAt(r)' /\ TokenAt(r)'
    BY <1>4 DEF RegisterAt, LoginAt, Covered, TokenAt, LoggedIn
  <1> QED
    BY <1>3, <1>5, <1>6, UsersKept, OwnStepKeeps

(* A lookup that succeeds moves the registration on.                       *)
LEMMA LookupKeeps ==
    ASSUME AInv, NEW r \in Requests, NEW label \in {"email", "insert"},
           pc[r] \in {"team", "email"}, pc[r] = "team" => call[r].team \in Teams,
           Goto(r, label), UNCHANGED <<users, sessions, life, call, found, reply>>
    PROVE  AInv'
  <1>1. OwnStep(r)
    BY DEF OwnStep, Goto, AInv, TypeOK
  <1>2. TypeOK'
    BY DEF AInv, TypeOK, Goto, InFlight
  <1>3. pc'[r] = label
    BY DEF Goto, AInv, TypeOK
  <1>4. RegisterAt(r)' /\ LoginAt(r)' /\ TokenAt(r)'
    BY <1>3 DEF AInv, RequestsInv, RegisterAt, LoginAt, Covered, TokenAt, LoggedIn
  <1> QED
    BY <1>1, <1>2, <1>4, UsersKept, OwnStepKeeps

(* The insert: the unique index has let the row in, and the answer says    *)
(* so, or its acknowledgement was lost.                                    *)
LEMMA CreateUserKeeps ==
    ASSUME AInv, NEW r \in Requests, CreateUser(r)
    PROVE  AInv'
  <1> DEFINE c == call[r]
             mine == [id |-> r, email |-> Clean[c.email], team |-> c.team, password |-> c.password]
  <1>1. PICK code \in CommitCodes : Refuse(r, code)
    BY DEF CreateUser
  <1>2. /\ pc[r] = "insert" /\ Account(Clean[c.email]) = {}
        /\ users' = users \cup {mine}
        /\ pc' = [pc EXCEPT ![r] = "done"]
        /\ reply' = [reply EXCEPT ![r] = [code |-> code, user |-> None]]
        /\ UNCHANGED <<sessions, life, call, found>>
    BY <1>1 DEF CreateUser, Insert, Refuse, Answer, Goto
  <1>3. /\ c \in Body /\ c.email # None /\ c.op = "register" /\ c.team \in Teams
    BY <1>2 DEF AInv, TypeOK, RequestsInv, RegisterAt
  <1>4. mine \in User
    BY <1>3, NamesAssumption DEF User, Body
  <1>5. code \in {"ok", "error"} /\ (code = "error" => "ack" \in Faults)
    BY DEF CommitCodes
  <1>6. OwnStep(r)
    BY <1>2 DEF OwnStep, AInv, TypeOK
  <1>7. TypeOK'
    <2>1. users' \subseteq User
      BY <1>2, <1>4 DEF AInv, TypeOK
    <2>2. /\ pc' \in [Requests -> InFlight \cup {"idle", "done"}]
          /\ reply' \in [Requests -> [code : Codes, user : Identity \cup {None}]]
          /\ \A q \in Requests : pc'[q] # "done" => pc'[q] = pc[q]
      BY <1>2, <1>5 DEF AInv, TypeOK, Codes
    <2> QED
      BY <1>2, <2>1, <2>2 DEF AInv, TypeOK
  <1>8. /\ pc'[r] = "done" /\ reply'[r].code = code /\ reply'[r].user = None
        /\ call'[r] = c /\ found'[r] = found[r]
    BY <1>2 DEF AInv, TypeOK
  <1>9. PICK row \in User : /\ users' = users \cup {row}
                            /\ row.id = r /\ row.email = Clean[c.email] /\ row.team = c.team
    BY <1>2, <1>4
  <1>10. UsersInv'
    <2>1. \A u \in users : u.email # Clean[c.email]
      BY <1>2 DEF Account
    <2>2. OneAccountPerEmail'
      BY <1>9, <2>1 DEF AInv, UsersInv, OneAccountPerEmail
    <2>3. MadeBy(row)'
      BY <1>3, <1>5, <1>8, <1>9 DEF MadeBy
    <2>4. ASSUME NEW u \in users
          PROVE  MadeBy(u)'
      <3>1. u.id \in Requests /\ u.id # r
        BY <1>2 DEF AInv, TypeOK, User, UsersInv, MadeBy
      <3>2. /\ pc'[u.id] = pc[u.id] /\ call'[u.id] = call[u.id] /\ reply'[u.id] = reply[u.id]
        BY <1>6, <3>1 DEF OwnStep
      <3> QED
        BY <3>2 DEF AInv, UsersInv, MadeBy
    <2> QED
      BY <1>9, <2>2, <2>3, <2>4 DEF UsersInv
  <1>11. RegisterAt(r)'
    BY <1>5, <1>8, <1>9 DEF RegisterAt
  <1>12. LoginAt(r)' /\ TokenAt(r)'
    <2>1. found[r] = None
      BY <1>2 DEF AInv, RequestsInv, LoginAt
    <2> QED
      BY <1>8, <2>1 DEF LoginAt, Covered, TokenAt, LoggedIn
  <1> QED
    BY <1>6, <1>7, <1>10, <1>11, <1>12, OwnStepKeeps

-----------------------------------------------------------------------------
(* Logins.                                                                 *)

LEMMA FindAccountKeeps ==
    ASSUME AInv, NEW r \in Requests, pc[r] = "find", NEW u \in Account(Clean[call[r].email]),
           found' = [found EXCEPT ![r] = u], Goto(r, "verify"),
           UNCHANGED <<users, sessions, life, call, reply>>
    PROVE  AInv'
  <1>1. /\ u \in users /\ u \in User /\ u.email = Clean[call[r].email]
        /\ pc' = [pc EXCEPT ![r] = "verify"]
    BY DEF Account, Goto, AInv, TypeOK
  <1>2. /\ call[r] \in Body /\ call[r].email # None /\ call[r].op = "login"
    BY DEF AInv, TypeOK, RequestsInv, LoginAt
  <1>3. OwnStep(r)
    BY <1>1 DEF OwnStep, AInv, TypeOK
  <1>4. pc'[r] = "verify" /\ found'[r] = u /\ reply'[r].user = None
    BY <1>1 DEF AInv, TypeOK, RequestsInv, TokenAt
  <1>5. TypeOK'
    <2>1. /\ pc' \in [Requests -> InFlight \cup {"idle", "done"}]
          /\ found' \in [Requests -> User \cup {None}]
      BY <1>1 DEF AInv, TypeOK, InFlight
    <2>2. \A q \in Requests \ {r} : pc'[q] = pc[q] /\ found'[q] = found[q]
      BY <1>3 DEF OwnStep
    <2> QED
      BY <1>1, <1>2, <1>4, <2>1, <2>2 DEF AInv, TypeOK
  <1>6. RegisterAt(r)' /\ LoginAt(r)' /\ TokenAt(r)'
    BY <1>1, <1>2, <1>4 DEF RegisterAt, LoginAt, Covered, TokenAt, LoggedIn
  <1> QED
    BY <1>3, <1>5, <1>6, UsersKept, OwnStepKeeps

LEMMA GenerateKeeps ==
    ASSUME AInv, NEW r \in Requests, GenerateTokenPair(r)
    PROVE  AInv'
  <1>1. /\ pc[r] = "verify" /\ call[r].password = found[r].password
        /\ life' = [life EXCEPT ![r] = [access |-> AccessTTL, refresh |-> RefreshTTL]]
        /\ pc' = [pc EXCEPT ![r] = "save"]
        /\ UNCHANGED <<users, sessions, call, found, reply>>
    BY DEF GenerateTokenPair, Goto
  <1>2. [access |-> AccessTTL, refresh |-> RefreshTTL] \in [Kinds -> Nat]
    BY Lifetimes DEF Kinds
  <1>3. OwnStep(r)
    BY <1>1 DEF OwnStep, AInv, TypeOK
  <1>4. /\ pc'[r] = "save" /\ reply'[r].user = None
    BY <1>1 DEF AInv, TypeOK, RequestsInv, TokenAt
  <1>5. TypeOK'
    <2>1. /\ pc' \in [Requests -> InFlight \cup {"idle", "done"}]
          /\ life' \in [Requests -> [Kinds -> Nat]]
          /\ \A q \in Requests : /\ life'[q]["access"] <= AccessTTL
                                /\ life'[q]["refresh"] <= RefreshTTL
      BY <1>1, <1>2, Lifetimes DEF AInv, TypeOK, InFlight
    <2>2. \A q \in Requests \ {r} : pc'[q] = pc[q]
      BY <1>3 DEF OwnStep
    <2> QED
      BY <1>1, <1>4, <2>1, <2>2 DEF AInv, TypeOK
  <1>6. RegisterAt(r)' /\ LoginAt(r)' /\ TokenAt(r)'
    BY <1>1, <1>4 DEF AInv, RequestsInv, RegisterAt, LoginAt, Covered, TokenAt, LoggedIn
  <1> QED
    BY <1>1, <1>3, <1>5, <1>6, UsersKept, OwnStepKeeps

(* The session is stored for as long as the longer-lived token lives.      *)
LEMMA SaveSessionKeeps ==
    ASSUME AInv, NEW r \in Requests, SaveSession(r)
    PROVE  AInv'
  <1>1. /\ pc[r] = "save"
        /\ sessions' = [sessions EXCEPT ![r] = RefreshTTL]
        /\ pc' = [pc EXCEPT ![r] = "done"]
        /\ reply' = [reply EXCEPT ![r] = [code |-> "ok", user |-> None]]
        /\ UNCHANGED <<users, life, call, found>>
    BY DEF SaveSession, Store, Refuse, Answer, Goto
  <1>2. OwnStep(r)
    BY <1>1 DEF OwnStep, AInv, TypeOK
  <1>3. /\ pc'[r] = "done" /\ reply'[r].user = None /\ sessions'[r] = RefreshTTL
    BY <1>1 DEF AInv, TypeOK
  <1>4. TypeOK'
    <2>1. /\ pc' \in [Requests -> InFlight \cup {"idle", "done"}]
          /\ reply' \in [Requests -> [code : Codes, user : Identity \cup {None}]]
          /\ sessions' \in [Requests -> 0..RefreshTTL]
      BY <1>1, Lifetimes DEF AInv, TypeOK, Codes
    <2>2. \A q \in Requests \ {r} : pc'[q] = pc[q]
      BY <1>2 DEF OwnStep
    <2> QED
      BY <1>1, <1>3, <2>1, <2>2 DEF AInv, TypeOK
  <1>5. Covered(r)'
    BY <1>1, <1>3, Lifetimes DEF AInv, TypeOK, Covered
  <1>6. call[r].op = "login" /\ call[r].password = found[r].password
    BY <1>1 DEF AInv, RequestsInv, LoginAt
  <1>7. RegisterAt(r)' /\ LoginAt(r)' /\ TokenAt(r)'
    BY <1>1, <1>3, <1>5, <1>6 DEF AInv, RequestsInv, RegisterAt, LoginAt, Covered, TokenAt, LoggedIn
  <1> QED
    BY <1>1, <1>2, <1>4, <1>7, UsersKept, OwnStepKeeps

-----------------------------------------------------------------------------
(* Authentication.                                                         *)

LEMMA PresentKeeps ==
    ASSUME AInv, NEW r \in Requests, NEW login \in Requests, NEW kind \in Kinds,
           Present(r, login, kind)
    PROVE  AInv'
  <1> DEFINE d == life[login][kind] = 0 \/ sessions[login] = 0
             c == [op |-> "auth", login |-> login, kind |-> kind, dead |-> d]
  <1>1. /\ pc[r] = "idle" /\ LoggedIn(login)
        /\ call' = [call EXCEPT ![r] = c]
        /\ pc' = [pc EXCEPT ![r] = "token"]
        /\ UNCHANGED <<users, sessions, life, found, reply>>
    BY DEF Present, Goto
  <1>2. d \in BOOLEAN
    OBVIOUS
  <1>3. d => life[login][kind] = 0 \/ sessions[login] = 0
    OBVIOUS
  <1> HIDE DEF d
  <1>4. c \in Bearer /\ c.login = login /\ c.kind = kind /\ c.dead = d
    BY <1>2 DEF Bearer
  <1> HIDE DEF c
  <1>5. OwnStep(r)
    BY <1>1 DEF OwnStep, AInv, TypeOK
  <1>6. /\ pc'[r] = "token" /\ reply'[r].user = None /\ found'[r] = None /\ call'[r] = c
    BY <1>1 DEF AInv, TypeOK, RequestsInv, TokenAt, LoginAt
  <1>7. TypeOK'
    <2>1. /\ pc' \in [Requests -> InFlight \cup {"idle", "done"}]
          /\ call' \in [Requests -> Body \cup Bearer \cup {None}]
      BY <1>1, <1>4 DEF AInv, TypeOK, InFlight
    <2>2. \A q \in Requests \ {r} : pc'[q] = pc[q] /\ call'[q] = call[q]
      BY <1>5 DEF OwnStep
    <2> QED
      BY <1>1, <1>4, <1>6, <2>1, <2>2 DEF AInv, TypeOK
  <1>8. LoggedIn(login)'
    <2>1. login # r
      BY <1>1 DEF LoggedIn
    <2> QED
      BY <1>1, <1>5, <2>1 DEF LoggedIn, OwnStep
  <1>9. RegisterAt(r)' /\ LoginAt(r)'
    BY <1>6 DEF RegisterAt, LoginAt, Covered, LoggedIn
  <1>10. TokenAt(r)'
    <2>1. /\ call'[r] \in Bearer /\ call'[r].login = login
          /\ call'[r].dead => life'[call'[r].login][call'[r].kind] = 0
                                   \/ sessions'[call'[r].login] = 0
      BY <1>1, <1>3, <1>4, <1>6
    <2> QED
      BY <1>6, <1>8, <2>1 DEF TokenAt
  <1> QED
    BY <1>1, <1>5, <1>7, <1>9, <1>10, UsersKept, OwnStepKeeps

LEMMA ValidTokenKeeps ==
    ASSUME AInv, NEW r \in Requests, pc[r] = "token", Valid(call[r]), Goto(r, "session"),
           UNCHANGED <<users, sessions, life, call, found, reply>>
    PROVE  AInv'
  <1> DEFINE l == call[r].login
  <1>1. /\ call[r] \in Bearer /\ l \in Requests /\ call[r].kind = "access"
        /\ LoggedIn(l) /\ l # r
        /\ call[r].dead => sessions[l] = 0
    <2>1. /\ call[r] \in Bearer /\ LoggedIn(l)
          /\ call[r].dead => life[l][call[r].kind] = 0 \/ sessions[l] = 0
      BY DEF AInv, RequestsInv, TokenAt
    <2>2. call[r].kind = "access" /\ life[l][call[r].kind] > 0
      BY DEF Valid
    <2> QED
      BY <2>1, <2>2 DEF Bearer, LoggedIn
  <1>2. pc' = [pc EXCEPT ![r] = "session"]
    BY DEF Goto
  <1>3. OwnStep(r)
    BY <1>2 DEF OwnStep, AInv, TypeOK
  <1>4. pc'[r] = "session" /\ reply'[r].user = None /\ found'[r] = None
    BY <1>2 DEF AInv, TypeOK, RequestsInv, TokenAt, LoginAt
  <1>5. TypeOK'
    BY <1>1, <1>2 DEF AInv, TypeOK, InFlight
  <1>6. LoggedIn(l)
    BY <1>1
  <1>7. pc'[l] = "done"
    BY <1>1, <1>3 DEF LoggedIn, OwnStep
  <1>8. RegisterAt(r)' /\ LoginAt(r)'
    BY <1>4 DEF RegisterAt, LoginAt, Covered, LoggedIn
  <1>9. TokenAt(r)'
    BY <1>1, <1>4, <1>7 DEF AInv, RequestsInv, TokenAt, LoggedIn, Valid
  <1> QED
    BY <1>3, <1>5, <1>8, <1>9, UsersKept, OwnStepKeeps

LEMMA GetSessionKeeps ==
    ASSUME AInv, NEW r \in Requests, GetSession(r)
    PROVE  AInv'
  <1> DEFINE l == call[r].login
             u == found[l]
             id == [id |-> u.id, team |-> u.team, session |-> l]
  <1>1. /\ pc[r] = "session" /\ sessions[l] > 0
        /\ pc' = [pc EXCEPT ![r] = "done"]
        /\ reply' = [reply EXCEPT ![r] = [code |-> "ok", user |-> id]]
        /\ UNCHANGED <<users, sessions, life, call, found>>
    BY DEF GetSession, Answer, Goto
  <1>2. /\ call[r] \in Bearer /\ l \in Requests /\ call[r].kind = "access"
        /\ LoggedIn(l) /\ l # r
    BY <1>1 DEF AInv, RequestsInv, TokenAt, Bearer, LoggedIn
  <1>3. ~call[r].dead
    BY <1>1, <1>2 DEF AInv, RequestsInv, TokenAt
  <1>4. u \in User
    BY <1>2 DEF AInv, TypeOK, RequestsInv, LoginAt, Covered, LoggedIn
  <1>5. id \in Identity /\ id.id = u.id /\ id.team = u.team
    BY <1>2, <1>4 DEF Identity, User
  <1>6. OwnStep(r)
    BY <1>1 DEF OwnStep, AInv, TypeOK
  <1>7. /\ pc'[r] = "done" /\ reply'[r].user.id = u.id /\ reply'[r].user.team = u.team
        /\ found'[r] = None
    BY <1>1, <1>5 DEF AInv, TypeOK, RequestsInv, LoginAt
  <1>8. TypeOK'
    <2> HIDE DEF id
    <2>1. /\ pc' \in [Requests -> InFlight \cup {"idle", "done"}]
          /\ reply' \in [Requests -> [code : Codes, user : Identity \cup {None}]]
      BY <1>1, <1>5 DEF AInv, TypeOK, Codes
    <2>2. \A q \in Requests \ {r} : pc'[q] = pc[q]
      BY <1>6 DEF OwnStep
    <2> QED
      BY <1>1, <1>7, <2>1, <2>2 DEF AInv, TypeOK
  <1>9. call[r].op = "auth"
    BY <1>2 DEF Bearer
  <1>10. LoggedIn(l) /\ pc'[l] = pc[l] /\ reply'[l] = reply[l]
    BY <1>2, <1>6 DEF OwnStep
  <1>11. RegisterAt(r)' /\ LoginAt(r)'
    BY <1>1, <1>7, <1>9 DEF RegisterAt, LoginAt, Covered, LoggedIn
  <1>12. TokenAt(r)'
    BY <1>1, <1>2, <1>3, <1>7, <1>10 DEF TokenAt, LoggedIn
  <1> QED
    BY <1>1, <1>6, <1>8, <1>11, <1>12, UsersKept, OwnStepKeeps

-----------------------------------------------------------------------------
(* Time.                                                                   *)

LEMMA LessFacts ==
    ASSUME NEW m \in Nat, NEW n \in Nat
    PROVE  /\ Less(n) \in Nat /\ Less(n) <= n
           /\ m <= n => Less(m) <= Less(n)
           /\ n = 0 => Less(n) = 0
  BY DEF Less

LEMMA TickKeeps ==
    ASSUME AInv, Tick
    PROVE  AInv'
  <1>1. UNCHANGED <<users, pc, call, found, reply>>
    BY DEF Tick
  <1>2. \A r \in Requests : /\ sessions[r] \in 0..RefreshTTL
                            /\ sessions'[r] = Less(sessions[r])
    BY DEF AInv, TypeOK, Tick
  <1>3. \A r \in Requests, k \in Kinds : /\ life[r][k] \in Nat
                                         /\ life'[r][k] = Less(life[r][k])
    BY DEF AInv, TypeOK, Tick
  <1>4. TypeOK'
    <2>1. \A r \in Requests : Less(sessions[r]) \in 0..RefreshTTL
      BY <1>2, Lifetimes, LessFacts
    <2>2. \A r \in Requests, k \in Kinds : /\ Less(life[r][k]) \in Nat
                                           /\ life'[r][k] <= life[r][k]
      BY <1>3, LessFacts
    <2>3. /\ sessions' \in [Requests -> 0..RefreshTTL]
          /\ life' \in [Requests -> [Kinds -> Nat]]
      BY <2>1, <2>2 DEF Tick
    <2>4. \A r \in Requests : /\ life'[r]["access"] <= AccessTTL
                              /\ life'[r]["refresh"] <= RefreshTTL
      BY <1>3, <2>2, <2>3, Lifetimes DEF AInv, TypeOK
    <2> QED
      BY <1>1, <2>3, <2>4 DEF AInv, TypeOK
  <1>5. UsersInv'
    BY <1>1 DEF AInv, UsersInv, OneAccountPerEmail, MadeBy
  <1>6. ASSUME NEW r \in Requests
        PROVE  RegisterAt(r)' /\ LoginAt(r)' /\ TokenAt(r)'
    <2>1. RegisterAt(r)'
      BY <1>1 DEF AInv, RequestsInv, RegisterAt, Account
    <2>2. LoggedIn(r) => Covered(r)'
      BY <1>2, <1>3, Lifetimes, LessFacts DEF AInv, RequestsInv, LoginAt, Covered
    <2>3. LoginAt(r)'
      BY <1>1, <2>2 DEF AInv, RequestsInv, LoginAt, Covered, LoggedIn
    <2>4. TokenAt(r)'
      <3> DEFINE c == call[r]
      <3>1. CASE pc[r] \in {"token", "session"} \/ reply[r].user # None
        <4>1. c \in Bearer /\ LoggedIn(c.login) /\ c.login \in Requests /\ c.kind \in Kinds
          BY <3>1 DEF AInv, RequestsInv, TokenAt, Bearer
        <4>2. /\ life[c.login][c.kind] = 0 => life'[c.login][c.kind] = 0
              /\ sessions[c.login] = 0 => sessions'[c.login] = 0
          BY <1>2, <1>3, <4>1, LessFacts
        <4>3. LoggedIn(c.login)'
          BY <1>1, <4>1 DEF LoggedIn
        <4> QED
          BY <1>1, <4>1, <4>2, <4>3 DEF AInv, RequestsInv, TokenAt
      <3>2. CASE ~(pc[r] \in {"token", "session"} \/ reply[r].user # None)
        BY <1>1, <3>2 DEF TokenAt
      <3> QED
        BY <3>1, <3>2
    <2> QED
      BY <2>1, <2>3, <2>4
  <1> QED
    BY <1>4, <1>5, <1>6 DEF AInv, RequestsInv

-----------------------------------------------------------------------------
(* Every step.                                                             *)

LEMMA HandleKeeps ==
    ASSUME AInv, NEW r \in Requests, Handle(r)
    PROVE  AInv'
  <1>1. CASE FindTeamByID(r)
    <2>1. CASE call[r].team \in Teams /\ Goto(r, "email") /\ reply' = reply
      BY <1>1, <2>1, LookupKeeps DEF FindTeamByID
    <2>2. CASE Refuse(r, "noTeam")
      BY <1>1, <2>2, RefuseKeeps DEF FindTeamByID, InFlight
    <2> QED
      BY <1>1, <2>1, <2>2 DEF FindTeamByID
  <1>2. CASE FindUserByEmail(r)
    <2>1. CASE Goto(r, "insert") /\ reply' = reply
      BY <1>2, <2>1, LookupKeeps DEF FindUserByEmail
    <2>2. CASE Account(Clean[call[r].email]) # {} /\ Refuse(r, "emailTaken")
      BY <1>2, <2>2, RefuseKeeps DEF FindUserByEmail, InFlight
    <2> QED
      BY <1>2, <2>1, <2>2 DEF FindUserByEmail
  <1>3. CASE CreateUser(r)
    BY <1>3, CreateUserKeeps
  <1>4. CASE CreateUserConflicts(r)
    BY <1>4, RefuseKeeps DEF CreateUserConflicts, InFlight
  <1>5. CASE FindAccount(r)
    <2>1. CASE \E u \in Account(Clean[call[r].email]) :
                  found' = [found EXCEPT ![r] = u] /\ Goto(r, "verify") /\ reply' = reply
      BY <1>5, <2>1, FindAccountKeeps DEF FindAccount
    <2>2. CASE Refuse(r, "unauthorized") /\ found' = found
      BY <1>5, <2>2, RefuseKeeps DEF FindAccount, InFlight
    <2> QED
      BY <1>5, <2>1, <2>2 DEF FindAccount
  <1>6. CASE WrongPassword(r)
    BY <1>6, RefuseKeeps DEF WrongPassword, InFlight
  <1>7. CASE GenerateTokenPair(r)
    BY <1>7, GenerateKeeps
  <1>8. CASE SaveSession(r)
    BY <1>8, SaveSessionKeeps
  <1>9. CASE SaveFails(r)
    BY <1>9, RefuseKeeps DEF SaveFails, InFlight
  <1>10. CASE ValidateToken(r)
    <2>1. CASE Valid(call[r]) /\ Goto(r, "session") /\ reply' = reply
      BY <1>10, <2>1, ValidTokenKeeps DEF ValidateToken
    <2>2. CASE Refuse(r, "unauthorized")
      BY <1>10, <2>2, RefuseKeeps DEF ValidateToken, InFlight
    <2> QED
      BY <1>10, <2>1, <2>2 DEF ValidateToken
  <1>11. CASE GetSession(r)
    BY <1>11, GetSessionKeeps
  <1>12. CASE NoSession(r)
    BY <1>12, RefuseKeeps DEF NoSession, InFlight
  <1>13. CASE DbFails(r)
    BY <1>13, RefuseKeeps DEF DbFails, InFlight
  <1> QED
    BY <1>1, <1>2, <1>3, <1>4, <1>5, <1>6, <1>7, <1>8, <1>9, <1>10, <1>11, <1>12, <1>13
       DEF Handle

LEMMA AInvStep ==
    ASSUME AInv, [Next]_vars
    PROVE  AInv'
  <1>1. ASSUME NEW r \in Requests, Handle(r)
        PROVE  AInv'
    BY <1>1, HandleKeeps
  <1>2. ASSUME NEW r \in Requests, NoToken(r)
        PROVE  AInv'
    BY <1>2, RejectKeeps DEF NoToken
  <1>3. ASSUME NEW r \in Requests, NEW c \in Calls, Receive(r, c)
        PROVE  AInv'
    BY <1>3, ReceiveKeeps
  <1>4. ASSUME NEW r \in Requests, NEW c \in Calls, Reject(r, c)
        PROVE  AInv'
    BY <1>4, RejectKeeps DEF Reject
  <1>5. ASSUME NEW r \in Requests, NEW login \in Requests, NEW kind \in Kinds,
               Present(r, login, kind)
        PROVE  AInv'
    BY <1>5, PresentKeeps
  <1>6. CASE Tick
    BY <1>6, TickKeeps
  <1>7. CASE UNCHANGED vars
    <2>1. /\ users' = users /\ sessions' = sessions /\ life' = life /\ pc' = pc
          /\ call' = call /\ found' = found /\ reply' = reply
      BY <1>7 DEF vars
    <2>2. TypeOK' /\ UsersInv'
      BY <2>1 DEF AInv, TypeOK, UsersInv, OneAccountPerEmail, MadeBy
    <2>3. RequestsInv'
      BY <2>1 DEF AInv, RequestsInv, RegisterAt, LoginAt, Covered, TokenAt, LoggedIn, Account
    <2> QED
      BY <2>2, <2>3 DEF AInv
  <1> QED
    BY <1>1, <1>2, <1>3, <1>4, <1>5, <1>6, <1>7 DEF Next

LEMMA AInvariance == Spec => []AInv
  BY InitAInv, AInvStep, PTL DEF Spec

-----------------------------------------------------------------------------
(* What holds of every behaviour.                                          *)

(* Every variable keeps its shape, and a handler past a lookup has found   *)
(* what it looked for (TypeOK).                                            *)
THEOREM AccountTypes == Spec => []TypeOK
  <1>1. AInv => TypeOK
    BY DEF AInv
  <1> QED
    BY <1>1, AInvariance, PTL

(* However many registrations race between the lookup and the insert, an   *)
(* address never gets a second account (OneAccountPerEmail).               *)
THEOREM EmailsAreUnique == Spec => []OneAccountPerEmail
  <1>1. AInv => OneAccountPerEmail
    BY DEF AInv, UsersInv
  <1> QED
    BY <1>1, AInvariance, PTL

(* A registration's answer is true of the users table, and stays true      *)
(* (RegistrationAnswers): rows are never changed or removed here.          *)
THEOREM RegistrationsAnswerTruly == Spec => []RegistrationAnswers
  <1>1. ASSUME AInv
        PROVE  RegistrationAnswers
    <2> SUFFICES ASSUME NEW r \in Requests,
                        pc[r] = "done", call[r] # None, call[r].op = "register"
                 PROVE  LET mine == {u \in users : u.id = r}
                        IN  CASE reply[r].code = "ok" ->
                                   \E u \in mine : /\ u.email = Clean[call[r].email]
                                                   /\ u.team = call[r].team
                              [] reply[r].code = "error" -> mine = {} \/ "ack" \in Faults
                              [] reply[r].code = "emailTaken" ->
                                   /\ mine = {}
                                   /\ Account(Clean[call[r].email]) # {}
                              [] OTHER -> mine = {}
      BY DEF RegistrationAnswers
    <2> DEFINE mine == {u \in users : u.id = r}
    <2>1. call[r] \in Body
      BY <1>1 DEF AInv, TypeOK, Bearer
    <2>2. reply[r].code = "ok" => \E u \in mine : /\ u.email = Clean[call[r].email]
                                                  /\ u.team = call[r].team
      BY <1>1, <2>1 DEF AInv, RequestsInv, RegisterAt
    <2>3. reply[r].code = "error" => mine = {} \/ "ack" \in Faults
      BY <1>1 DEF AInv, UsersInv, MadeBy
    <2>4. reply[r].code \notin {"ok", "error"} => mine = {}
      BY <1>1 DEF AInv, UsersInv, MadeBy
    <2>5. reply[r].code = "emailTaken" => Account(Clean[call[r].email]) # {}
      BY <1>1, <2>1 DEF AInv, RequestsInv, RegisterAt
    <2> QED
      BY <2>2, <2>3, <2>4, <2>5
  <1> QED
    BY <1>1, AInvariance, PTL

(* A token that has not expired finds its session (SessionBacksTokens): a  *)
(* login answers only after the session is stored, for the lifetime of a   *)
(* refresh token, and from there on both count down together.              *)
THEOREM SessionsOutliveTokens == Spec => []SessionBacksTokens
  <1>1. AInv => SessionBacksTokens
    BY DEF AInv, RequestsInv, LoginAt, Covered, SessionBacksTokens
  <1> QED
    BY <1>1, AInvariance, PTL

(* An authenticated request runs as the account whose email and password   *)
(* its login gave (ActsAsLogin).                                           *)
THEOREM RequestsActAsTheirLogin == Spec => []ActsAsLogin
  <1>1. ASSUME AInv
        PROVE  ActsAsLogin
    <2> SUFFICES ASSUME NEW r \in Requests, reply[r].user # None
                 PROVE  LET login == call[call[r].login]
                        IN  /\ call[r].kind = "access"
                            /\ \E u \in users : /\ u.id = reply[r].user.id
                                                /\ u.team = reply[r].user.team
                                                /\ u.email = Clean[login.email]
                                                /\ u.password = login.password
      BY DEF ActsAsLogin
    <2> DEFINE l == call[r].login
    <2>1. /\ call[r] \in Bearer /\ LoggedIn(l) /\ call[r].kind = "access"
          /\ reply[r].user.id = found[l].id /\ reply[r].user.team = found[l].team
      BY <1>1 DEF AInv, RequestsInv, TokenAt
    <2>2. l \in Requests
      BY <2>1 DEF Bearer
    <2>3. /\ found[l] \in users /\ found[l].email = Clean[call[l].email]
          /\ found[l].password = call[l].password
      BY <1>1, <2>1, <2>2 DEF AInv, RequestsInv, LoginAt, Covered, LoggedIn
    <2> QED
      BY <2>1, <2>3
  <1> QED
    BY <1>1, AInvariance, PTL

(* A request whose token or session was gone when it arrived is not let    *)
(* through (DeadTokensRefused), although the two are looked at in steps of *)
(* their own: neither comes back.                                          *)
THEOREM DeadTokensStayDead == Spec => []DeadTokensRefused
  <1>1. AInv => DeadTokensRefused
    BY DEF AInv, RequestsInv, TokenAt, DeadTokensRefused
  <1> QED
    BY <1>1, AInvariance, PTL
=============================================================================
