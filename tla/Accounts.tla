------------------------------ MODULE Accounts ------------------------------
(***************************************************************************)
(* Registration, login and the authentication of requests: the users       *)
(* table with its unique index on the lower-cased email, the sessions in   *)
(* Redis, and the pair of signed tokens that a login hands out.            *)
(*                                                                         *)
(* Each query and each Redis command is a step of its own.  A user, a      *)
(* session and a pair of tokens are named by the request that made them    *)
(* (the code draws UUIDs).  A token cannot be altered, so that what it     *)
(* claims is what its login signed.  Time advances in ticks and may pass   *)
(* between any two steps of a handler.                                     *)
(*                                                                         *)
(* Faults: "db" a failing query, "ack" an insert whose acknowledgement is  *)
(* lost, "save" a failing SET, which may have taken effect, "read" a       *)
(* failing GET.  A request cancelled by its client fails in the same ways. *)
(***************************************************************************)
EXTENDS Naturals

CONSTANTS
    Requests, None,
    Emails,        \* emails as clients spell them
    Addresses,
    Clean,         \* the lower-cased, trimmed form of an email
    TeamIds,       \* every team identifier a client may name ...
    Teams,         \* ... and those of the teams there are
    Passwords,
    AccessTTL,     \* cfg.JWTAccessExpiration, 24 hours
    RefreshTTL,    \* cfg.JWTRefreshExpiration, 7 days
    Calls, Faults

ASSUME NamesAssumption == /\ Clean \in [Emails -> Addresses]
                          /\ Teams \subseteq TeamIds
                          /\ None \notin Emails \cup Requests
ASSUME TimesAssumption == {AccessTTL, RefreshTTL} \subseteq Nat \ {0}
ASSUME FaultsAssumption == Faults \subseteq {"db", "ack", "save", "read"}

Kinds == {"access", "refresh"}

(* A login names no team; a body that does not validate has no email.      *)
Body == [op : {"register", "login"}, email : Emails \cup {None},
         team : TeamIds \cup {None}, password : Passwords]
ASSUME CallsAssumption == Calls \subseteq Body

(* A request that carries a bearer token: whose, of which kind, and, for   *)
(* properties, whether it was dead on arrival, its session included.       *)
Bearer == [op : {"auth"}, login : Requests, kind : Kinds, dead : BOOLEAN]

User == [id : Requests, email : Addresses, team : Teams, password : Passwords]
Identity == [id : Requests, team : Teams, session : Requests]

VARIABLES
    users,     \* users table
    sessions,  \* per login: what is left of its session; 0, none
    life,      \* per login and kind: what is left of the token
    pc, call,
    found,     \* per login: the user row it found, which the tokens copy
    reply      \* per request: code, and for "auth" the identity in the context

vars == <<users, sessions, life, pc, call, found, reply>>

InFlight == {"team", "email", "insert", "find", "verify", "save", "token", "session"}
Codes == {"pending", "ok", "badRequest", "noTeam", "emailTaken", "unauthorized", "error"}

Init ==
    /\ users = {}
    /\ sessions = [r \in Requests |-> 0]
    /\ life = [r \in Requests |-> [k \in Kinds |-> 0]]
    /\ pc = [r \in Requests |-> "idle"]
    /\ call = [r \in Requests |-> None]
    /\ found = [r \in Requests |-> None]
    /\ reply = [r \in Requests |-> [code |-> "pending", user |-> None]]

Goto(r, label) == pc' = [pc EXCEPT ![r] = label]

Answer(r, code, user) ==
    /\ Goto(r, "done")
    /\ reply' = [reply EXCEPT ![r] = [code |-> code, user |-> user]]

Refuse(r, code) == Answer(r, code, None)

Account(address) == {u \in users : u.email = address}

-----------------------------------------------------------------------------
(* Register                                                                *)

Receive(r, c) ==
    /\ pc[r] = "idle" /\ c.email # None
    /\ call' = [call EXCEPT ![r] = c]
    /\ Goto(r, IF c.op = "register" THEN "team" ELSE "find")
    /\ UNCHANGED <<users, sessions, life, found, reply>>

Reject(r, c) ==
    /\ pc[r] = "idle" /\ c.email = None
    /\ call' = [call EXCEPT ![r] = c]
    /\ Refuse(r, "badRequest")
    /\ UNCHANGED <<users, sessions, life, found>>

(* Mutation: the team is not looked up.                                    *)
FindAnyTeam(r) ==
    /\ pc[r] = "team"
    /\ Goto(r, "email")
    /\ UNCHANGED <<users, sessions, life, call, found, reply>>

FindTeamByID(r) ==
    /\ pc[r] = "team"
    /\ \/ call[r].team \in Teams /\ Goto(r, "email") /\ reply' = reply
       \/ call[r].team \notin Teams /\ Refuse(r, "noTeam")
    /\ UNCHANGED <<users, sessions, life, call, found>>

FindUserByEmail(r) ==
    /\ pc[r] = "email"
    /\ \/ Account(Clean[call[r].email]) = {} /\ Goto(r, "insert") /\ reply' = reply
       \/ Account(Clean[call[r].email]) # {} /\ Refuse(r, "emailTaken")
    /\ UNCHANGED <<users, sessions, life, call, found>>

Insert(r) == users' = users \cup {[id |-> r, email |-> Clean[call[r].email],
                                   team |-> call[r].team, password |-> call[r].password]}

CommitCodes == {"ok"} \cup (IF "ack" \in Faults THEN {"error"} ELSE {})

(* Mutation: the table has no unique index.                                *)
CreateUserUnchecked(r) ==
    /\ pc[r] = "insert"
    /\ Insert(r)
    /\ \E code \in CommitCodes : Refuse(r, code)
    /\ UNCHANGED <<sessions, life, call, found>>

CreateUser(r) ==
    /\ pc[r] = "insert"
    /\ Account(Clean[call[r].email]) = {}
    /\ Insert(r)
    /\ \E code \in CommitCodes : Refuse(r, code)
    /\ UNCHANGED <<sessions, life, call, found>>

(* Mutation: the error of the insert is ignored.                           *)
ConflictIgnored(r) ==
    /\ pc[r] = "insert"
    /\ Account(Clean[call[r].email]) # {}
    /\ Refuse(r, "ok")
    /\ UNCHANGED <<users, sessions, life, call, found>>

(* Another registration was faster: the unique index refuses the row.      *)
CreateUserConflicts(r) ==
    /\ pc[r] = "insert"
    /\ Account(Clean[call[r].email]) # {}
    /\ Refuse(r, "error")
    /\ UNCHANGED <<users, sessions, life, call, found>>

-----------------------------------------------------------------------------
(* Login                                                                   *)

FindAccount(r) ==
    /\ pc[r] = "find"
    /\ \/ \E u \in Account(Clean[call[r].email]) :
             found' = [found EXCEPT ![r] = u] /\ Goto(r, "verify") /\ reply' = reply
       \/ Account(Clean[call[r].email]) = {} /\ Refuse(r, "unauthorized") /\ found' = found
    /\ UNCHANGED <<users, sessions, life, call>>

WrongPassword(r) ==
    /\ pc[r] = "verify" /\ call[r].password # found[r].password
    /\ Refuse(r, "unauthorized")
    /\ UNCHANGED <<users, sessions, life, call, found>>

(* Mutation: the password is not compared.                                 *)
GenerateForAnyone(r) ==
    /\ pc[r] = "verify"
    /\ life' = [life EXCEPT ![r] = [access |-> AccessTTL, refresh |-> RefreshTTL]]
    /\ Goto(r, "save")
    /\ UNCHANGED <<users, sessions, call, found, reply>>

GenerateTokenPair(r) ==
    /\ pc[r] = "verify" /\ call[r].password = found[r].password
    /\ life' = [life EXCEPT ![r] = [access |-> AccessTTL, refresh |-> RefreshTTL]]
    /\ Goto(r, "save")
    /\ UNCHANGED <<users, sessions, call, found, reply>>

(* Mutation: the session is stored for the access token's lifetime.        *)
StoreForAccess(r) == sessions' = [sessions EXCEPT ![r] = AccessTTL]

Store(r) == sessions' = [sessions EXCEPT ![r] = RefreshTTL]

SaveSession(r) ==
    /\ pc[r] = "save"
    /\ Store(r)
    /\ Refuse(r, "ok")
    /\ UNCHANGED <<users, life, call, found>>

SaveFails(r) ==
    /\ "save" \in Faults
    /\ pc[r] = "save"
    /\ sessions' = sessions \/ Store(r)
    /\ Refuse(r, "error")
    /\ UNCHANGED <<users, life, call, found>>

LoggedIn(r) == pc[r] = "done" /\ found[r] # None /\ reply[r].code = "ok"

-----------------------------------------------------------------------------
(* Authentication of a request by its bearer token                         *)

(* No header, another scheme, or something that is no token at all.        *)
NoToken(r) ==
    /\ pc[r] = "idle"
    /\ Refuse(r, "unauthorized")
    /\ UNCHANGED <<users, sessions, life, call, found>>

(* A client sends a token that a login gave it.                            *)
Present(r, login, kind) ==
    /\ pc[r] = "idle" /\ LoggedIn(login)
    /\ call' = [call EXCEPT ![r] = [op |-> "auth", login |-> login, kind |-> kind,
                                    dead |-> life[login][kind] = 0 \/ sessions[login] = 0]]
    /\ Goto(r, "token")
    /\ UNCHANGED <<users, sessions, life, found, reply>>

(* Mutation: expiry is not checked.                                        *)
ExpiredIsValid(c) == c.kind = "access"

Valid(c) == c.kind = "access" /\ life[c.login][c.kind] > 0

ValidateToken(r) ==
    /\ pc[r] = "token"
    /\ \/ Valid(call[r]) /\ Goto(r, "session") /\ reply' = reply
       \/ ~Valid(call[r]) /\ Refuse(r, "unauthorized")
    /\ UNCHANGED <<users, sessions, life, call, found>>

GetSession(r) ==
    LET u == found[call[r].login]
    IN  /\ pc[r] = "session"
        /\ sessions[call[r].login] > 0
        /\ Answer(r, "ok", [id |-> u.id, team |-> u.team, session |-> call[r].login])
        /\ UNCHANGED <<users, sessions, life, call, found>>

(* The session is gone, or Redis does not answer: 401 in both cases.       *)
NoSession(r) ==
    /\ pc[r] = "session"
    /\ sessions[call[r].login] = 0 \/ "read" \in Faults
    /\ Refuse(r, "unauthorized")
    /\ UNCHANGED <<users, sessions, life, call, found>>

DbFails(r) ==
    /\ "db" \in Faults
    /\ pc[r] \in {"team", "email", "insert", "find"}
    /\ Refuse(r, "error")
    /\ UNCHANGED <<users, sessions, life, call, found>>

-----------------------------------------------------------------------------
Less(n) == IF n = 0 THEN 0 ELSE n - 1

Tick ==
    /\ sessions' = [r \in Requests |-> Less(sessions[r])]
    /\ life' = [r \in Requests |-> [k \in Kinds |-> Less(life[r][k])]]
    /\ UNCHANGED <<users, pc, call, found, reply>>

Handle(r) ==
    \/ FindTeamByID(r) \/ FindUserByEmail(r) \/ CreateUser(r) \/ CreateUserConflicts(r)
    \/ FindAccount(r) \/ WrongPassword(r) \/ GenerateTokenPair(r)
    \/ SaveSession(r) \/ SaveFails(r)
    \/ ValidateToken(r) \/ GetSession(r) \/ NoSession(r)
    \/ DbFails(r)

Next ==
    \/ \E r \in Requests :
          \/ Handle(r) \/ NoToken(r)
          \/ \E c \in Calls : Receive(r, c) \/ Reject(r, c)
          \/ \E login \in Requests, kind \in Kinds : Present(r, login, kind)
    \/ Tick

Spec == Init /\ [][Next]_vars
-----------------------------------------------------------------------------
(* Properties.                                                             *)

(* Every variable has the shape its comment gives it, and a handler past a *)
(* lookup has found what it looked for.                                    *)
TypeOK ==
    /\ users \subseteq User
    /\ sessions \in [Requests -> 0..RefreshTTL]
    /\ life \in [Requests -> [Kinds -> Nat]]
    /\ \A r \in Requests : life[r]["access"] <= AccessTTL /\ life[r]["refresh"] <= RefreshTTL
    /\ pc \in [Requests -> InFlight \cup {"idle", "done"}]
    /\ call \in [Requests -> Body \cup Bearer \cup {None}]
    /\ found \in [Requests -> User \cup {None}]
    /\ reply \in [Requests -> [code : Codes, user : Identity \cup {None}]]
    /\ \A r \in Requests :
          /\ pc[r] \in {"team", "email", "insert"} => call[r] \in Body /\ call[r].email # None
          /\ pc[r] \in {"email", "insert"} => call[r].team \in Teams
          /\ pc[r] \in {"find", "verify", "save"} => call[r] \in Body /\ call[r].email # None
          /\ pc[r] \in {"verify", "save"} => found[r] \in User
          /\ pc[r] \in {"token", "session"} => call[r] \in Bearer

(* One account per address, however registrations race between the lookup  *)
(* and the insert (service lines 31-53) and however the email is spelt.    *)
OneAccountPerEmail == \A u, v \in users : u.email = v.email => u = v

(* A registration's answer is true: "created" means the account is there,  *)
(* with the team that was asked for; a refusal means it made none, and     *)
(* "already registered" that somebody else has the address.                *)
RegistrationAnswers ==
    \A r \in Requests : pc[r] = "done" /\ call[r] # None /\ call[r].op = "register" =>
        LET mine == {u \in users : u.id = r}
        IN  CASE reply[r].code = "ok" -> \E u \in mine : /\ u.email = Clean[call[r].email]
                                                         /\ u.team = call[r].team
              [] reply[r].code = "error" -> mine = {} \/ "ack" \in Faults
              [] reply[r].code = "emailTaken" -> /\ mine = {}
                                                 /\ Account(Clean[call[r].email]) # {}
              [] OTHER -> mine = {}

(* As long as a token has not expired, the session it refers to is there:  *)
(* a client with a fresh token is not turned away, although the tokens are *)
(* signed before the session is stored (service lines 78 and 98).  For     *)
(* access tokens that is so if they are not configured to live longer than *)
(* sessions, which nothing rejects (config lines 102-103).                 *)
SessionBacksTokens ==
    \A r \in Requests : LoggedIn(r) =>
        /\ life[r]["refresh"] <= sessions[r]
        /\ AccessTTL <= RefreshTTL => life[r]["access"] <= sessions[r]

(* An authenticated request runs as the account whose email and password   *)
(* its login gave, in that account's team, and only for an access token.   *)
ActsAsLogin ==
    \A r \in Requests : reply[r].user # None =>
        LET login == call[call[r].login]
        IN  /\ call[r].kind = "access"
            /\ \E u \in users : /\ u.id = reply[r].user.id
                                /\ u.team = reply[r].user.team
                                /\ u.email = Clean[login.email]
                                /\ u.password = login.password

(* A request whose token had expired when it arrived, or whose session had *)
(* ended, is never let through, whatever happens while it is checked.      *)
DeadTokensRefused ==
    \A r \in Requests : reply[r].user # None => ~call[r].dead
=============================================================================
