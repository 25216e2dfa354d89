------------------------------ MODULE Accounts ------------------------------
(***************************************************************************)
(* Accounts: AuthUsecase.Register and .Login (internal/usecase/auth.go)    *)
(* and seedAdmin (cmd/api/main.go), which every API process runs against   *)
(* the shared database before it serves requests.                          *)
(*                                                                         *)
(* A session is a database session: of a process that is starting, or of a *)
(* caller's request.  Register and seedAdmin end in the same three inserts, *)
(* which become visible together at commit.  The UNIQUE index on           *)
(* users.email makes an insert wait for an open one of the same address.   *)
(***************************************************************************)
EXTENDS Integers, Sequences

CONSTANTS
    Processes,       \* API processes
    Callers,         \* request goroutines
    Spellings,       \* email addresses as typed, "" for a malformed one
    Normalize(_),    \* strings.ToLower(strings.TrimSpace(email))
    Passwords,       \* passwords as typed, "" for a missing one
    ShortPasswords,  \* those of less than 8 characters
    AdminEmails,     \* addresses the admin may be configured with, as typed
    AdminPassword,   \* cfg.Seed.AdminPassword
    None

Sessions == Processes \cup Callers

Emails == {Normalize(e) : e \in Spellings} \cup AdminEmails

\* Seeding is on.  Its address is stored and looked up as it is configured, in whatever
\* spelling.
ASSUME SeedAssumption ==
    /\ "" \notin AdminEmails /\ AdminPassword # ""
    /\ Processes \cap Callers = {}
    /\ None \notin Sessions
    /\ "" \in ShortPasswords /\ ShortPasswords \subseteq Passwords

\* Normalising a normalised address changes nothing.
ASSUME NormalizeAssumption ==
    \A e \in Spellings : Normalize(Normalize(e)) = Normalize(e)

Requests == [op : {"REGISTER", "LOGIN"}, email : Spellings, password : Passwords]

VARIABLES
    adminEmail,  \* cfg.Seed.AdminEmail, the same for all processes
    \* The tables, as committed.
    users,    \* rows; a user's id is its position
    wallets,  \* ids of the users that have a wallet
    audits,   \* the pairs of an action and a user that some audit row has
    \* Sessions.
    claim,    \* claim[e] : the open transaction that inserted address e
    staged,   \* staged[s] : inserts of s that await its commit
    pc,       \* pc[s] : what s does next; a process is down, seeding or up
    host,     \* host[c] : the process that runs caller c's request
    req,
    found,    \* found[c] : id of the row Login read
    reply,    \* reply[c] : the status, and the user a token was issued for
    since     \* since[c] : users committed when c's request arrived

tables == <<users, wallets, audits>>
vars   == <<adminEmail, tables, claim, staged, pc, host, req, found, reply, since>>

NoReply == [status |-> 0, token |-> 0]

Init ==
    /\ adminEmail \in AdminEmails
    /\ users = <<>>
    /\ wallets = {}
    /\ audits = {}
    /\ claim = [e \in Emails |-> None]
    /\ staged = [s \in Sessions |-> {}]
    /\ pc = [s \in Sessions |-> IF s \in Processes THEN "down" ELSE "idle"]
    /\ host = [c \in Callers |-> None]
    /\ req = [c \in Callers |-> None]
    /\ found = [c \in Callers |-> 0]
    /\ reply = [c \in Callers |-> NoReply]
    /\ since = [c \in Callers |-> 0]

Goto(s, place) == pc' = [pc EXCEPT ![s] = place]

Answer(c, status, user) ==
    reply' = [reply EXCEPT ![c] = [status |-> status, token |-> user]]

\* The session's transaction is over: its uncommitted address is free again.
EndTransaction(s) ==
    /\ claim' = [e \in Emails |-> IF claim[e] = s THEN None ELSE claim[e]]
    /\ staged' = [staged EXCEPT ![s] = {}]

Having(email) == {i \in DOMAIN users : users[i].email = email}

-----------------------------------------------------------------------------
(* The call arrives.                                                       *)

\* The checks of the handler and of the use case.
Valid(r) ==
    /\ r.email # ""
    /\ IF r.op = "REGISTER" THEN r.password \notin ShortPasswords
                            ELSE r.password # ""

Receive(c, p, r) ==
    /\ pc[c] = "idle"
    /\ pc[p] = "up"
    /\ host' = [host EXCEPT ![c] = p]
    /\ req' = [req EXCEPT ![c] = r]
    /\ since' = [since EXCEPT ![c] = Len(users)]
    /\ IF Valid(r)
       THEN Goto(c, "lookup") /\ UNCHANGED reply
       ELSE Goto(c, "answered") /\ Answer(c, 400, 0)
    /\ UNCHANGED <<adminEmail, tables, claim, staged, found>>

-----------------------------------------------------------------------------
(* Register and seedAdmin.                                                 *)

\* The row a session inserts.
RowOf(s) ==
    IF s \in Processes
    THEN [email |-> adminEmail, password |-> AdminPassword, role |-> "admin"]
    ELSE [email |-> Normalize(req[s].email), password |-> req[s].password,
          role |-> "user"]

\* Register's GetByEmail, outside the transaction; then bcrypt and BEGIN.
RegisterLookup(c) ==
    /\ pc[c] = "lookup"
    /\ req[c].op = "REGISTER"
    /\ IF Having(Normalize(req[c].email)) # {}
       THEN Goto(c, "answered") /\ Answer(c, 409, 0)
       ELSE Goto(c, "user") /\ UNCHANGED reply
    /\ UNCHANGED <<adminEmail, tables, claim, staged, host, req, found, since>>

\* Mutant: the admin is seeded in the background.
StartServing(p) ==
    /\ pc[p] = "down"
    /\ Goto(p, "up")
    /\ UNCHANGED <<adminEmail, tables, claim, staged, host, req, found, reply, since>>

\* A process starts; seedAdmin's GetByEmail finds the address or not.
Start(p) ==
    /\ pc[p] = "down"
    /\ Goto(p, IF Having(adminEmail) # {} THEN "up" ELSE "user")
    /\ UNCHANGED <<adminEmail, tables, claim, staged, host, req, found, reply, since>>

\* The transaction of s fails.  Register answers; seedAdmin ends the process
\* (log.Fatal).
Abort(s, status) ==
    /\ EndTransaction(s)
    /\ IF s \in Processes
       THEN Goto(s, "down") /\ UNCHANGED reply
       ELSE Goto(s, "answered") /\ Answer(s, status, 0)
    /\ UNCHANGED <<adminEmail, tables, host, req, found, since>>

\* Mutant: the users table has no unique index.
CreateUserNoIndex(s) ==
    /\ pc[s] = "user"
    /\ staged' = [staged EXCEPT ![s] = @ \cup {"user"}]
    /\ Goto(s, "wallet")
    /\ UNCHANGED <<adminEmail, tables, claim, host, req, found, reply, since>>

\* Mutant: an address another transaction has open counts as taken.
CreateUserNoWait(s) ==
    LET e == RowOf(s).email IN
    /\ pc[s] = "user"
    /\ IF Having(e) # {} \/ claim[e] # None THEN Abort(s, 409)
       ELSE /\ claim' = [claim EXCEPT ![e] = s]
            /\ staged' = [staged EXCEPT ![s] = @ \cup {"user"}]
            /\ Goto(s, "wallet")
            /\ UNCHANGED <<adminEmail, tables, host, req, found, reply, since>>

\* users.Create.  A duplicate address is a 409 for Register.  seedAdmin returns
\* nil on it, but the transaction is aborted and COMMIT rolls it back, which the
\* driver reports as an error.
CreateUser(s) ==
    LET e == RowOf(s).email IN
    /\ pc[s] = "user"
    /\ claim[e] = None
    /\ IF Having(e) # {} THEN Abort(s, 409)
       ELSE /\ claim' = [claim EXCEPT ![e] = s]
            /\ staged' = [staged EXCEPT ![s] = @ \cup {"user"}]
            /\ Goto(s, "wallet")
            /\ UNCHANGED <<adminEmail, tables, host, req, found, reply, since>>

Insert(s, place, statement, next) ==
    /\ pc[s] = place
    /\ staged' = [staged EXCEPT ![s] = @ \cup {statement}]
    /\ Goto(s, next)
    /\ UNCHANGED <<adminEmail, tables, claim, host, req, found, reply, since>>

CreateWallet(s) == Insert(s, "wallet", "wallet", "audit")
CreateAudit(s)  == Insert(s, "audit", "audit", "commit")

NewId == Len(users) + 1

Publish(s) ==
    /\ users' = IF "user" \in staged[s] THEN Append(users, RowOf(s)) ELSE users
    /\ wallets' = IF "wallet" \in staged[s] THEN wallets \cup {NewId} ELSE wallets
    /\ audits' = IF "audit" \in staged[s]
                 THEN audits \cup
                      {<<IF s \in Processes THEN "ADMIN_SEEDED"
                         ELSE "USER_REGISTERED", NewId>>}
                 ELSE audits

Commit(s) ==
    /\ pc[s] = "commit"
    /\ Publish(s)
    /\ EndTransaction(s)
    /\ IF s \in Processes
       THEN Goto(s, "up") /\ UNCHANGED reply
       ELSE Goto(s, "answered") /\ Answer(s, 201, 0)
    /\ UNCHANGED <<adminEmail, host, req, found, since>>

\* COMMIT took effect, its acknowledgement is lost.
CommitUnacknowledged(s) ==
    /\ pc[s] = "commit"
    /\ Publish(s)
    /\ EndTransaction(s)
    /\ IF s \in Processes
       THEN Goto(s, "down") /\ UNCHANGED reply
       ELSE Goto(s, "answered") /\ Answer(s, 500, 0)
    /\ UNCHANGED <<adminEmail, host, req, found, since>>

-----------------------------------------------------------------------------
(* Login.                                                                  *)

\* Mutant: the address is looked up as typed.
LoginLookupRaw(c) ==
    LET rows == {i \in Having(req[c].email) : users[i].password = req[c].password}
    IN
    /\ pc[c] = "lookup"
    /\ req[c].op = "LOGIN"
    /\ IF rows = {}
       THEN Goto(c, "answered") /\ Answer(c, 401, 0) /\ UNCHANGED found
       ELSE /\ \E i \in rows : found' = [found EXCEPT ![c] = i]
            /\ Goto(c, "login")
            /\ UNCHANGED reply
    /\ UNCHANGED <<adminEmail, tables, claim, staged, host, req, since>>

\* GetByEmail and the comparison of the password.
LoginLookup(c) ==
    LET rows == {i \in Having(Normalize(req[c].email)) :
                   users[i].password = req[c].password}
    IN
    /\ pc[c] = "lookup"
    /\ req[c].op = "LOGIN"
    /\ IF rows = {}
       THEN Goto(c, "answered") /\ Answer(c, 401, 0) /\ UNCHANGED found
       ELSE /\ \E i \in rows : found' = [found EXCEPT ![c] = i]
            /\ Goto(c, "login")
            /\ UNCHANGED reply
    /\ UNCHANGED <<adminEmail, tables, claim, staged, host, req, since>>

\* The audit row, in a transaction of its own, then the token.
LoginAudit(c) ==
    /\ pc[c] = "login"
    /\ audits' = audits \cup {<<"USER_LOGGED_IN", found[c]>>}
    /\ Answer(c, 200, found[c])
    /\ Goto(c, "answered")
    /\ UNCHANGED <<adminEmail, users, wallets, claim, staged, host, req, found, since>>

\* The audit row is inserted but the driver reports an error: no token.
LoginAuditUnacknowledged(c) ==
    /\ pc[c] = "login"
    /\ audits' = audits \cup {<<"USER_LOGGED_IN", found[c]>>}
    /\ Answer(c, 500, 0)
    /\ Goto(c, "answered")
    /\ UNCHANGED <<adminEmail, users, wallets, claim, staged, host, req, found, since>>

-----------------------------------------------------------------------------
(* The environment.                                                        *)

\* Any call of a session to the database or to bcrypt fails.
Fail(s) ==
    /\ pc[s] \notin {"down", "up", "idle", "answered"}
    /\ Abort(s, 500)

Return(c) ==
    /\ pc[c] = "answered"
    /\ Goto(c, "idle")
    /\ host' = [host EXCEPT ![c] = None]
    /\ req' = [req EXCEPT ![c] = None]
    /\ found' = [found EXCEPT ![c] = 0]
    /\ reply' = [reply EXCEPT ![c] = NoReply]
    /\ since' = [since EXCEPT ![c] = 0]
    /\ UNCHANGED <<adminEmail, tables, claim, staged>>

\* A process dies, and with it the sessions of its requests.
Crash(p) ==
    LET gone(s) == s = p \/ (s \in Callers /\ host[s] = p) IN
    /\ pc[p] # "down"
    /\ claim' = [e \in Emails |->
          IF claim[e] # None /\ gone(claim[e]) THEN None ELSE claim[e]]
    /\ staged' = [s \in Sessions |-> IF gone(s) THEN {} ELSE staged[s]]
    /\ pc' = [s \in Sessions |->
          IF s = p THEN "down" ELSE IF gone(s) THEN "idle" ELSE pc[s]]
    /\ host' = [c \in Callers |-> IF gone(c) THEN None ELSE host[c]]
    /\ req' = [c \in Callers |-> IF gone(c) THEN None ELSE req[c]]
    /\ found' = [c \in Callers |-> IF gone(c) THEN 0 ELSE found[c]]
    /\ reply' = [c \in Callers |-> IF gone(c) THEN NoReply ELSE reply[c]]
    /\ since' = [c \in Callers |-> IF gone(c) THEN 0 ELSE since[c]]
    /\ UNCHANGED <<adminEmail, tables>>

Account(s) ==
    CreateUser(s) \/ CreateWallet(s) \/ CreateAudit(s) \/ Commit(s)

Next ==
    \/ \E c \in Callers :
         \/ \E p \in Processes, r \in Requests : Receive(c, p, r)
         \/ RegisterLookup(c)
         \/ LoginLookup(c)
         \/ LoginAudit(c)
         \/ LoginAuditUnacknowledged(c)
         \/ Return(c)
    \/ \E p \in Processes : Start(p) \/ Crash(p)
    \/ \E s \in Sessions : Account(s) \/ CommitUnacknowledged(s) \/ Fail(s)

Spec == Init /\ [][Next]_vars

-----------------------------------------------------------------------------
(* Properties.                                                             *)

TypeOK ==
    /\ adminEmail \in AdminEmails
    /\ users \in Seq([email : Emails, password : Passwords \cup {AdminPassword},
                      role : {"user", "admin"}])
    /\ wallets \subseteq DOMAIN users
    /\ audits \subseteq {"USER_REGISTERED", "ADMIN_SEEDED", "USER_LOGGED_IN"}
                        \X DOMAIN users
    /\ claim \in [Emails -> Sessions \cup {None}]
    /\ staged \in [Sessions -> SUBSET {"user", "wallet", "audit"}]
    /\ pc \in [Sessions -> {"down", "up", "idle", "lookup", "user", "wallet", "audit",
                            "commit", "login", "answered"}]
    /\ host \in [Callers -> Processes \cup {None}]
    /\ req \in [Callers -> Requests \cup {None}]
    /\ found \in [Callers -> {0} \cup DOMAIN users]
    /\ reply \in [Callers -> [status : {0, 200, 201, 400, 401, 409, 500},
                              token : {0} \cup DOMAIN users]]
    /\ since \in [Callers -> 0 .. Len(users)]

\* However registrations, restarts and failures interleave, an address has one
\* account, and every account has its wallet and the audit row of its creation.
AccountsComplete ==
    /\ \A i, j \in DOMAIN users : users[i].email = users[j].email => i = j
    /\ \A i \in DOMAIN users :
         /\ i \in wallets
         /\ <<IF users[i].role = "admin" THEN "ADMIN_SEEDED"
              ELSE "USER_REGISTERED", i>> \in audits

\* What a caller is told is so: a 201 created this very account, a 409 means the
\* address is taken (never that a registration which failed since was in the
\* way), and a token is for the account of that address and password, with its
\* login on record.
RepliesAreTrue ==
    \A c \in Callers : pc[c] = "answered" =>
        LET e == Normalize(req[c].email) IN
        /\ reply[c].status = 201 => \E i \in Having(e) :
             users[i].password = req[c].password /\ users[i].role = "user"
        /\ reply[c].status = 409 => Having(e) # {}
        /\ reply[c].status = 200 =>
             /\ reply[c].token \in Having(e)
             /\ users[reply[c].token].password = req[c].password
             /\ <<"USER_LOGGED_IN", reply[c].token>> \in audits

\* A login is not refused for an account that was there when the request arrived,
\* however its address is spelled.  The seeded admin is excepted if his address is
\* configured in a spelling that Login does not look up (auth.go:112; main.go:164).
RefusalsAreTrue ==
    \A c \in Callers : pc[c] = "answered" /\ reply[c].status = 401 =>
        ~\E i \in 1 .. since[c] :
            /\ users[i].role = "user" \/ Normalize(adminEmail) = adminEmail
            /\ Normalize(users[i].email) = Normalize(req[c].email)
            /\ users[i].password = req[c].password

\* Then he is locked out for good: no login, whatever address is typed and whoever has
\* registered in the meantime, is given a token of an administrator.
AdminOutOfReach ==
    Normalize(adminEmail) # adminEmail =>
        \A c \in Callers : pc[c] = "answered" /\ reply[c].status = 200 =>
            users[reply[c].token].role = "user"

\* While any process serves, the admin's address belongs to the seeded admin:
\* no request can register it first, though every process seeds for itself and
\* any of them may die on the way (main.go:82 before 125-131).
AdminIsSeeded ==
    (\E p \in Processes : pc[p] = "up") =>
        \E i \in Having(adminEmail) : users[i].role = "admin"
=============================================================================
