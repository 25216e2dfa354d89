-------------------------- MODULE Accounts_proofs --------------------------
(***************************************************************************)
(* Proofs about module Accounts, for any number of processes and callers   *)
(* and any addresses and passwords.                                        *)
(*                                                                         *)
(* What makes the accounts complete is the claim on an address: a session  *)
(* that has inserted an address and not yet committed holds it alone, and  *)
(* no committed user has it.  What keeps the admin's address for the admin *)
(* is that no request is served before some process found or seeded it.    *)
(***************************************************************************)
EXTENDS Accounts, TLAPS

UserRow == [email : Emails, password : Passwords \cup {AdminPassword},
            role : {"user", "admin"}]

\* Where a session holds the address it has inserted.
Open == {"wallet", "audit", "commit"}

\* Where a session is, what it has inserted, and that it holds its address.
SessionInv ==
    \A s \in Sessions :
        /\ s \in Processes => pc[s] \in {"down", "up", "user"} \cup Open
        /\ s \in Callers => pc[s] \in {"idle", "lookup", "user", "login", "answered"} \cup Open
        /\ pc[s] \notin Open => staged[s] = {}
        /\ pc[s] = "wallet" => staged[s] = {"user"}
        /\ pc[s] = "audit" => staged[s] = {"user", "wallet"}
        /\ pc[s] = "commit" => staged[s] = {"user", "wallet", "audit"}
        /\ pc[s] \in Open => claim[RowOf(s).email] = s

\* A claimed address is the one its holder inserts, and no user has it.
ClaimInv ==
    \A e \in Emails : claim[e] # None =>
        /\ pc[claim[e]] \in Open
        /\ RowOf(claim[e]).email = e
        /\ Having(e) = {}

\* A request that is served was read, and Login found the row it was asked for.
CallerInv ==
    \A c \in Callers :
        /\ pc[c] # "idle" => req[c] \in Requests
        /\ pc[c] = "login" =>
             /\ found[c] \in Having(Normalize(req[c].email))
             /\ users[found[c]].password = req[c].password

\* An administrator has the configured address, everybody else one that Login looks up.
Stored(row) ==
    IF row.role = "admin" THEN row.email = adminEmail ELSE Normalize(row.email) = row.email

\* The admin's address is the admin's alone, and taken before anything is served.
SeedInv ==
    /\ \A i \in DOMAIN users : Stored(users[i])
    /\ \A i \in Having(adminEmail) : users[i].role = "admin"
    /\ (\E p \in Processes : pc[p] = "up") \/ (\E c \in Callers : pc[c] # "idle")
         => Having(adminEmail) # {}

\* The inductive invariant.
AccountsInv ==
    /\ TypeOK
    /\ SessionInv
    /\ ClaimInv
    /\ CallerInv
    /\ SeedInv
    /\ AccountsComplete
    /\ RepliesAreTrue
    /\ RefusalsAreTrue

-----------------------------------------------------------------------------
(* Facts about the tables.                                                 *)

\* Rows are only ever appended.
Grown ==
    /\ adminEmail' = adminEmail
    /\ users' \in Seq(UserRow)
    /\ Len(users) <= Len(users')
    /\ \A i \in 1 .. Len(users) : users'[i] = users[i]
    /\ audits \subseteq audits'

\* The users table in terms of its length.
LEMMA UsersFacts ==
    ASSUME TypeOK
    PROVE  /\ users \in Seq(UserRow)
           /\ Len(users) \in Nat
           /\ DOMAIN users = 1 .. Len(users)
           /\ \A i \in 1 .. Len(users) : users[i] \in UserRow
<1>1. users \in Seq(UserRow)
  BY DEF TypeOK, UserRow
<1> QED
  BY <1>1

\* An address that is taken stays taken, by the same users.
LEMMA HavingGrows ==
    ASSUME TypeOK, Grown, NEW e
    PROVE  Having(e) \subseteq Having(e)'
<1>1. DOMAIN users = 1 .. Len(users) /\ DOMAIN users' = 1 .. Len(users')
      /\ Len(users) \in Nat /\ Len(users') \in Nat
  BY UsersFacts DEF Grown
<1> QED
  BY <1>1 DEF Having, Grown

\* What the invariants say of one caller.
CallerGood(c) ==
    /\ pc[c] # "idle" => req[c] \in Requests
    /\ pc[c] = "login" =>
         /\ found[c] \in Having(Normalize(req[c].email))
         /\ users[found[c]].password = req[c].password
    /\ pc[c] = "answered" =>
         LET e == Normalize(req[c].email) IN
         /\ reply[c].status = 201 => \E i \in Having(e) :
              users[i].password = req[c].password /\ users[i].role = "user"
         /\ reply[c].status = 409 => Having(e) # {}
         /\ reply[c].status = 200 =>
              /\ reply[c].token \in Having(e)
              /\ users[reply[c].token].password = req[c].password
              /\ <<"USER_LOGGED_IN", reply[c].token>> \in audits
    /\ pc[c] = "answered" /\ reply[c].status = 401 =>
         ~\E i \in 1 .. since[c] :
             /\ users[i].role = "user" \/ Normalize(adminEmail) = adminEmail
             /\ Normalize(users[i].email) = Normalize(req[c].email)
             /\ users[i].password = req[c].password

\* The three invariants about callers are one for each caller.
LEMMA EachCaller ==
    CallerInv /\ RepliesAreTrue /\ RefusalsAreTrue <=> \A c \in Callers : CallerGood(c)
  BY DEF CallerInv, RepliesAreTrue, RefusalsAreTrue, CallerGood

\* The same after a step.
LEMMA EachCallerAfter ==
    ASSUME \A c \in Callers : CallerGood(c)'
    PROVE  CallerInv' /\ RepliesAreTrue' /\ RefusalsAreTrue'
  BY DEF CallerGood, CallerInv, RepliesAreTrue, RefusalsAreTrue

\* What a caller was told stays true while the tables grow.
LEMMA ToldStaysTrue ==
    ASSUME TypeOK, Grown, NEW c \in Callers, CallerGood(c),
           pc'[c] = pc[c], req'[c] = req[c], found'[c] = found[c],
           reply'[c] = reply[c], since'[c] = since[c]
    PROVE  CallerGood(c)'
<1> DEFINE e == Normalize(req[c].email)
<1>1. Having(e) \subseteq Having(e)'
  BY HavingGrows
<1>2. Having(e)' = {i \in DOMAIN users' : users'[i].email = e'} /\ e' = e
  BY DEF Having
<1> HIDE DEF e
<1>3. \A i \in Having(e) : users'[i] = users[i]
  BY UsersFacts DEF Having, Grown
<1>4. pc'[c] # "idle" => req'[c] \in Requests
  BY DEF CallerGood
<1>5. pc[c] = "login" => /\ found'[c] \in Having(e)'
                         /\ users'[found'[c]].password = req'[c].password
  BY <1>1, <1>3 DEF CallerGood, e
<1>6. pc[c] = "answered" =>
        /\ reply[c].status = 201 => \E i \in Having(e)' :
              users'[i].password = req[c].password /\ users'[i].role = "user"
        /\ reply[c].status = 409 => Having(e)' # {}
        /\ reply[c].status = 200 =>
              /\ reply[c].token \in Having(e)'
              /\ users'[reply[c].token].password = req[c].password
              /\ <<"USER_LOGGED_IN", reply[c].token>> \in audits'
  BY <1>1, <1>3 DEF CallerGood, e, Grown
<1>7. pc[c] = "answered" /\ reply[c].status = 401 =>
        ~\E i \in 1 .. since[c] :
            /\ users'[i].role = "user" \/ Normalize(adminEmail) = adminEmail
            /\ Normalize(users'[i].email) = Normalize(req[c].email)
            /\ users'[i].password = req[c].password
  <2>1. since[c] \in 0 .. Len(users) /\ Len(users) \in Nat
    BY UsersFacts DEF TypeOK
  <2>2. \A i \in 1 .. since[c] : users'[i] = users[i]
    BY <2>1 DEF Grown
  <2> QED
    BY <2>2 DEF CallerGood
<1>8. adminEmail' = adminEmail
  BY DEF Grown
<1> QED
  BY <1>4, <1>5, <1>6, <1>7, <1>8, <1>2 DEF CallerGood, e

-----------------------------------------------------------------------------
(* Steps that open and end no transaction.                                 *)

\* Only session s moves, from a place without a claim to another; at most the audits grow.
LEMMA QuietStep ==
    ASSUME AccountsInv, TypeOK', NEW s \in Sessions, NEW place,
           UNCHANGED <<adminEmail, users, wallets, claim, staged>>,
           audits \subseteq audits',
           pc' = [pc EXCEPT ![s] = place],
           pc[s] \notin Open, place \notin Open,
           s \in Processes => place \in {"down", "up", "user"},
           s \in Callers => place \in {"idle", "lookup", "user", "login", "answered"},
           \A c \in Callers : c # s =>
               /\ req'[c] = req[c] /\ found'[c] = found[c]
               /\ reply'[c] = reply[c] /\ since'[c] = since[c],
           s \in Callers => CallerGood(s)',
           (s \in Processes /\ place = "up") \/ (s \in Callers /\ place # "idle")
             => Having(adminEmail) # {}
    PROVE  AccountsInv'
<1>0. TypeOK /\ SessionInv /\ ClaimInv /\ SeedInv /\ AccountsComplete
  BY DEF AccountsInv
<1>1. Grown
  BY <1>0, UsersFacts DEF Grown
<1>2. pc'[s] = place /\ \A t \in Sessions : t # s => pc'[t] = pc[t]
  BY <1>0 DEF TypeOK
<1>3. \A t \in Sessions : t # s => RowOf(t)' = RowOf(t)
  BY DEF RowOf, Sessions
<1>4. SessionInv'
  <2> SUFFICES ASSUME NEW t \in Sessions
               PROVE  /\ t \in Processes => pc'[t] \in {"down", "up", "user"} \cup Open
                      /\ t \in Callers => pc'[t] \in
                           {"idle", "lookup", "user", "login", "answered"} \cup Open
                      /\ pc'[t] \notin Open => staged'[t] = {}
                      /\ pc'[t] = "wallet" => staged'[t] = {"user"}
                      /\ pc'[t] = "audit" => staged'[t] = {"user", "wallet"}
                      /\ pc'[t] = "commit" => staged'[t] = {"user", "wallet", "audit"}
                      /\ pc'[t] \in Open => claim'[RowOf(t).email'] = t
    BY DEF SessionInv
  <2>1. CASE t = s
    <3>1. pc'[t] = place /\ staged'[t] = {} /\ pc'[t] \notin Open
      BY <1>0, <1>2, <2>1 DEF SessionInv
    <3> QED
      BY <2>1, <3>1 DEF Open
  <2>2. CASE t # s
    <3>1. pc'[t] = pc[t] /\ staged'[t] = staged[t] /\ claim' = claim
          /\ RowOf(t)' = RowOf(t)
      BY <1>2, <1>3, <2>2
    <3> QED
      BY <1>0, <3>1 DEF SessionInv
  <2> QED
    BY <2>1, <2>2
<1>5. ClaimInv'
  <2> SUFFICES ASSUME NEW e \in Emails, claim[e] # None
               PROVE  /\ pc'[claim[e]] \in Open
                      /\ RowOf(claim[e])'.email = e
                      /\ Having(e)' = {}
    BY DEF ClaimInv
  <2>1. /\ claim[e] \in Sessions /\ claim[e] # s /\ pc[claim[e]] \in Open
        /\ RowOf(claim[e]).email = e /\ Having(e) = {}
    BY <1>0 DEF TypeOK, ClaimInv
  <2>2. PICK t \in Sessions : t = claim[e]
    BY <2>1
  <2>3. pc'[t] = pc[t] /\ RowOf(t)' = RowOf(t)
    BY <1>2, <1>3, <2>1, <2>2
  <2>4. RowOf(claim[e])' = RowOf(t)'
    BY <2>2 DEF RowOf
  <2>5. Having(e)' = Having(e)
    BY DEF Having
  <2> QED
    BY <2>1, <2>2, <2>3, <2>4, <2>5
<1>6. \A c \in Callers : CallerGood(c)'
  <2> SUFFICES ASSUME NEW c \in Callers, c # s PROVE CallerGood(c)'
    OBVIOUS
  <2>1. CallerGood(c)
    BY EachCaller DEF AccountsInv
  <2>2. pc'[c] = pc[c]
    BY <1>2 DEF Sessions
  <2> QED
    BY <1>0, <1>1, <2>1, <2>2, ToldStaysTrue
<1>7. CallerInv' /\ RepliesAreTrue' /\ RefusalsAreTrue'
  BY <1>6, EachCallerAfter
<1>8. SeedInv'
  <2>1. Having(adminEmail)' = Having(adminEmail)
    BY DEF Having
  <2> QED
    BY <1>0, <1>2, <2>1 DEF SeedInv, Stored, Sessions
<1>9. AccountsComplete'
  BY <1>0 DEF AccountsComplete
<1> QED
  BY <1>4, <1>5, <1>7, <1>8, <1>9 DEF AccountsInv

\* A step that opens and ends no transaction leaves types to its own changes.
LEMMA QuietTypes ==
    ASSUME TypeOK, NEW s \in Sessions, NEW place,
           UNCHANGED <<adminEmail, users, wallets, claim, staged>>,
           audits' \subseteq {"USER_REGISTERED", "ADMIN_SEEDED", "USER_LOGGED_IN"}
                               \X DOMAIN users,
           pc' = [pc EXCEPT ![s] = place],
           place \in {"down", "up", "idle", "lookup", "user", "login", "answered"},
           host' \in [Callers -> Processes \cup {None}],
           req' \in [Callers -> Requests \cup {None}],
           found' \in [Callers -> {0} \cup DOMAIN users],
           reply' \in [Callers -> [status : {0, 200, 201, 400, 401, 409, 500},
                                   token : {0} \cup DOMAIN users]],
           since' \in [Callers -> 0 .. Len(users)]
    PROVE  TypeOK'
<1>1. pc' \in [Sessions -> {"down", "up", "idle", "lookup", "user", "wallet", "audit",
                            "commit", "login", "answered"}]
  BY DEF TypeOK
<1> QED
  BY <1>1 DEF TypeOK

\* Callers and processes are different sessions.
LEMMA SessionKinds ==
    /\ \A c \in Callers : c \in Sessions /\ c \notin Processes
    /\ \A p \in Processes : p \in Sessions /\ p \notin Callers
    /\ None \notin Sessions
  BY SeedAssumption DEF Sessions

\* While a request is served the admin's address is taken.
LEMMA AdminTaken ==
    ASSUME AccountsInv
    PROVE  /\ \A p \in Processes : pc[p] = "up" => Having(adminEmail) # {}
           /\ \A c \in Callers : pc[c] # "idle" => Having(adminEmail) # {}
  BY DEF AccountsInv, SeedInv

\* A request arrives.
LEMMA ReceiveStep ==
    ASSUME AccountsInv, NEW c \in Callers, NEW p \in Processes, NEW r \in Requests,
           Receive(c, p, r)
    PROVE  AccountsInv'
<1>0. TypeOK /\ c \in Sessions /\ c \notin Processes /\ Len(users) \in 0 .. Len(users)
  BY SessionKinds, UsersFacts DEF AccountsInv
<1>1. /\ pc[c] = "idle" /\ pc[p] = "up"
      /\ host' = [host EXCEPT ![c] = p]
      /\ req' = [req EXCEPT ![c] = r]
      /\ since' = [since EXCEPT ![c] = Len(users)]
      /\ UNCHANGED <<adminEmail, users, wallets, audits, claim, staged, found>>
  BY DEF Receive, tables
<1>2. Having(adminEmail) # {}
  BY <1>1, AdminTaken
<1>3. /\ host' \in [Callers -> Processes \cup {None}]
      /\ req' \in [Callers -> Requests \cup {None}]
      /\ since' \in [Callers -> 0 .. Len(users)]
      /\ found' \in [Callers -> {0} \cup DOMAIN users]
      /\ audits' \subseteq {"USER_REGISTERED", "ADMIN_SEEDED", "USER_LOGGED_IN"}
                             \X DOMAIN users
  BY <1>0, <1>1 DEF TypeOK
<1>4. /\ req'[c] = r
      /\ \A d \in Callers : d # c => /\ req'[d] = req[d] /\ found'[d] = found[d]
                                     /\ since'[d] = since[d]
  BY <1>0, <1>1 DEF TypeOK
<1>5. CASE Valid(r)
  <2>1. pc' = [pc EXCEPT ![c] = "lookup"] /\ reply' = reply
    BY <1>5 DEF Receive, Goto
  <2>2. TypeOK'
    BY <1>0, <1>1, <1>3, <2>1, QuietTypes DEF TypeOK
  <2>3. CallerGood(c)'
    BY <1>0, <1>4, <2>1 DEF CallerGood, TypeOK
  <2> QED
    BY <1>0, <1>1, <1>2, <1>4, <2>1, <2>2, <2>3, QuietStep DEF Open
<1>6. CASE ~Valid(r)
  <2>1. pc' = [pc EXCEPT ![c] = "answered"] /\ Answer(c, 400, 0)
    BY <1>6 DEF Receive, Goto
  <2>2. /\ reply' \in [Callers -> [status : {0, 200, 201, 400, 401, 409, 500},
                                   token : {0} \cup DOMAIN users]]
        /\ reply'[c].status = 400
        /\ \A d \in Callers : d # c => reply'[d] = reply[d]
    BY <1>0, <2>1 DEF Answer, TypeOK
  <2>3. TypeOK'
    BY <1>0, <1>1, <1>3, <2>1, <2>2, QuietTypes DEF TypeOK
  <2>4. CallerGood(c)'
    BY <1>0, <1>4, <2>1, <2>2 DEF CallerGood, TypeOK
  <2>5. \A d \in Callers : d # c =>
          /\ req'[d] = req[d] /\ found'[d] = found[d]
          /\ reply'[d] = reply[d] /\ since'[d] = since[d]
    BY <1>4, <2>2
  <2>6. pc[c] \notin Open
    BY <1>1 DEF Open
  <2> QED
    BY <1>0, <1>1, <1>2, <2>1, <2>3, <2>4, <2>5, <2>6, QuietStep DEF Open
<1> QED
  BY <1>5, <1>6

\* Register's lookup.
LEMMA RegisterLookupStep ==
    ASSUME AccountsInv, NEW c \in Callers, RegisterLookup(c)
    PROVE  AccountsInv'
<1>0. TypeOK /\ c \in Sessions /\ c \notin Processes /\ req[c] \in Requests
  BY SessionKinds DEF AccountsInv, CallerInv, RegisterLookup
<1>1. /\ pc[c] = "lookup"
      /\ UNCHANGED <<adminEmail, users, wallets, audits, claim, staged, host, req,
                     found, since>>
  BY DEF RegisterLookup, tables
<1>2. Having(adminEmail) # {}
  BY <1>1, AdminTaken
<1>3. CASE Having(Normalize(req[c].email)) # {}
  <2>1. pc' = [pc EXCEPT ![c] = "answered"] /\ Answer(c, 409, 0)
    BY <1>3 DEF RegisterLookup, Goto
  <2>2. /\ reply' \in [Callers -> [status : {0, 200, 201, 400, 401, 409, 500},
                                   token : {0} \cup DOMAIN users]]
        /\ reply'[c].status = 409
        /\ \A d \in Callers : d # c => reply'[d] = reply[d]
    BY <1>0, <2>1 DEF Answer, TypeOK
  <2>3. TypeOK'
    BY <1>0, <1>1, <2>1, <2>2, QuietTypes DEF TypeOK
  <2>4. CallerGood(c)'
    BY <1>0, <1>1, <1>3, <2>1, <2>2 DEF CallerGood, TypeOK, Having
  <2>5. \A d \in Callers : d # c =>
          /\ req'[d] = req[d] /\ found'[d] = found[d]
          /\ reply'[d] = reply[d] /\ since'[d] = since[d]
    BY <1>1, <2>2
  <2>6. pc[c] \notin Open
    BY <1>1 DEF Open
  <2> QED
    BY <1>0, <1>1, <1>2, <2>1, <2>3, <2>4, <2>5, <2>6, QuietStep DEF Open
<1>4. CASE Having(Normalize(req[c].email)) = {}
  <2>1. pc' = [pc EXCEPT ![c] = "user"] /\ reply' = reply
    BY <1>4 DEF RegisterLookup, Goto
  <2>2. TypeOK'
    BY <1>0, <1>1, <2>1, QuietTypes DEF TypeOK
  <2>3. CallerGood(c)'
    BY <1>0, <1>1, <2>1 DEF CallerGood, TypeOK
  <2> QED
    BY <1>0, <1>1, <1>2, <2>1, <2>2, <2>3, QuietStep DEF Open
<1> QED
  BY <1>3, <1>4

\* A process starts.
LEMMA StartStep ==
    ASSUME AccountsInv, NEW p \in Processes, Start(p)
    PROVE  AccountsInv'
<1> DEFINE place == IF Having(adminEmail) # {} THEN "up" ELSE "user"
<1>0. TypeOK /\ p \in Sessions /\ p \notin Callers
  BY SessionKinds DEF AccountsInv
<1>1. /\ pc[p] = "down" /\ pc' = [pc EXCEPT ![p] = place]
      /\ UNCHANGED <<adminEmail, users, wallets, audits, claim, staged, host, req,
                     found, reply, since>>
  BY DEF Start, Goto, tables
<1>2. place \in {"up", "user"} /\ (place = "up" => Having(adminEmail) # {})
  OBVIOUS
<1> HIDE DEF place
<1>3. TypeOK'
  BY <1>0, <1>1, <1>2, QuietTypes DEF TypeOK
<1> QED
  BY <1>0, <1>1, <1>2, <1>3, QuietStep DEF Open

\* Login's lookup: a refusal is of the users there are now, among them those there were
\* when the request arrived.
LEMMA LoginLookupStep ==
    ASSUME AccountsInv, NEW c \in Callers, LoginLookup(c)
    PROVE  AccountsInv'
<1> DEFINE e == Normalize(req[c].email)
           rows == {i \in Having(e) : users[i].password = req[c].password}
<1>0. TypeOK /\ c \in Sessions /\ c \notin Processes /\ req[c] \in Requests
  BY SessionKinds DEF AccountsInv, CallerInv, LoginLookup
<1>1. /\ pc[c] = "lookup"
      /\ UNCHANGED <<adminEmail, users, wallets, audits, claim, staged, host, req, since>>
  BY DEF LoginLookup, tables
<1>2. Having(adminEmail) # {} /\ pc[c] \notin Open
  BY <1>1, AdminTaken DEF Open
<1>3. CASE rows = {}
  <2>1. pc' = [pc EXCEPT ![c] = "answered"] /\ Answer(c, 401, 0) /\ found' = found
    BY <1>3 DEF LoginLookup, Goto
  <2>2. /\ reply' \in [Callers -> [status : {0, 200, 201, 400, 401, 409, 500},
                                   token : {0} \cup DOMAIN users]]
        /\ reply'[c].status = 401
        /\ \A d \in Callers : d # c => reply'[d] = reply[d]
    BY <1>0, <2>1 DEF Answer, TypeOK
  <2>3. TypeOK'
    BY <1>0, <1>1, <2>1, <2>2, QuietTypes DEF TypeOK
  <2>4. ~\E i \in 1 .. since[c] :
            /\ users[i].role = "user" \/ Normalize(adminEmail) = adminEmail
            /\ Normalize(users[i].email) = Normalize(req[c].email)
            /\ users[i].password = req[c].password
    <3> SUFFICES ASSUME NEW i \in 1 .. since[c],
                        users[i].role = "user" \/ Normalize(adminEmail) = adminEmail,
                        Normalize(users[i].email) = Normalize(req[c].email),
                        users[i].password = req[c].password
                 PROVE  FALSE
      OBVIOUS
    <3>1. i \in 1 .. Len(users) /\ DOMAIN users = 1 .. Len(users) /\ users[i] \in UserRow
      <4>1. since[c] \in 0 .. Len(users) /\ Len(users) \in Nat
        BY <1>0, UsersFacts DEF TypeOK
      <4> QED
        BY <1>0, <4>1, UsersFacts
    <3>2. users[i].role \in {"user", "admin"}
      BY <3>1 DEF UserRow
    <3>3. Normalize(users[i].email) = users[i].email
      <4>1. Stored(users[i])
        BY <3>1 DEF AccountsInv, SeedInv
      <4> QED
        BY <3>2, <4>1 DEF Stored
    <3>4. i \in rows
      BY <3>1, <3>3 DEF Having
    <3> QED
      BY <1>3, <3>4
  <2>5. CallerGood(c)'
    BY <1>0, <1>1, <2>1, <2>2, <2>4 DEF CallerGood, TypeOK
  <2>6. \A d \in Callers : d # c =>
          /\ req'[d] = req[d] /\ found'[d] = found[d]
          /\ reply'[d] = reply[d] /\ since'[d] = since[d]
    BY <1>1, <2>1, <2>2
  <2> QED
    BY <1>0, <1>1, <1>2, <2>1, <2>3, <2>5, <2>6, QuietStep DEF Open
<1>4. CASE rows # {}
  <2>1. PICK i \in rows : found' = [found EXCEPT ![c] = i]
    BY <1>4 DEF LoginLookup
  <2>2. pc' = [pc EXCEPT ![c] = "login"] /\ reply' = reply
    BY <1>4 DEF LoginLookup, Goto
  <2>3. i \in DOMAIN users /\ i \in Having(e) /\ users[i].password = req[c].password
    BY <2>1 DEF Having
  <2>4. /\ found' \in [Callers -> {0} \cup DOMAIN users]
        /\ found'[c] = i
        /\ \A d \in Callers : d # c => found'[d] = found[d]
    BY <1>0, <2>1, <2>3 DEF TypeOK
  <2>5. TypeOK'
    BY <1>0, <1>1, <2>2, <2>4, QuietTypes DEF TypeOK
  <2>6. CallerGood(c)'
    <3>1. Having(e)' = Having(e) /\ e' = e
      BY <1>1 DEF Having
    <3> QED
      BY <1>0, <1>1, <2>2, <2>3, <2>4, <3>1 DEF CallerGood, TypeOK
  <2>7. \A d \in Callers : d # c =>
          /\ req'[d] = req[d] /\ found'[d] = found[d]
          /\ reply'[d] = reply[d] /\ since'[d] = since[d]
    BY <1>1, <2>2, <2>4
  <2> QED
    BY <1>0, <1>1, <1>2, <2>2, <2>5, <2>6, <2>7, QuietStep DEF Open
<1> QED
  BY <1>3, <1>4

\* The login goes on record, acknowledged or not.
LEMMA LoginAuditStep ==
    ASSUME AccountsInv, NEW c \in Callers, LoginAudit(c) \/ LoginAuditUnacknowledged(c)
    PROVE  AccountsInv'
<1>0. TypeOK /\ c \in Sessions /\ c \notin Processes
  BY SessionKinds DEF AccountsInv
<1>1. /\ pc[c] = "login" /\ pc' = [pc EXCEPT ![c] = "answered"]
      /\ audits' = audits \cup {<<"USER_LOGGED_IN", found[c]>>}
      /\ UNCHANGED <<adminEmail, users, wallets, claim, staged, host, req, found, since>>
  BY DEF LoginAudit, LoginAuditUnacknowledged, Goto
<1>2. Having(adminEmail) # {} /\ pc[c] \notin Open
  BY <1>1, AdminTaken DEF Open
<1>3. /\ req[c] \in Requests
      /\ found[c] \in Having(Normalize(req[c].email))
      /\ users[found[c]].password = req[c].password
      /\ found[c] \in DOMAIN users
  BY <1>1 DEF AccountsInv, CallerInv, Having
<1>4. \/ reply' = [reply EXCEPT ![c] = [status |-> 200, token |-> found[c]]]
      \/ reply' = [reply EXCEPT ![c] = [status |-> 500, token |-> 0]]
  BY DEF LoginAudit, LoginAuditUnacknowledged, Answer
<1>5. /\ reply' \in [Callers -> [status : {0, 200, 201, 400, 401, 409, 500},
                                 token : {0} \cup DOMAIN users]]
      /\ reply'[c].status = 500 \/ (reply'[c].status = 200 /\ reply'[c].token = found[c])
      /\ \A d \in Callers : d # c => reply'[d] = reply[d]
  <2>1. CASE reply' = [reply EXCEPT ![c] = [status |-> 200, token |-> found[c]]]
    <3>1. [status |-> 200, token |-> found[c]]
            \in [status : {0, 200, 201, 400, 401, 409, 500}, token : {0} \cup DOMAIN users]
      BY <1>3
    <3> QED
      BY <1>0, <2>1, <3>1 DEF TypeOK
  <2>2. CASE reply' = [reply EXCEPT ![c] = [status |-> 500, token |-> 0]]
    BY <1>0, <2>2 DEF TypeOK
  <2> QED
    BY <1>4, <2>1, <2>2
<1>6. audits' \subseteq {"USER_REGISTERED", "ADMIN_SEEDED", "USER_LOGGED_IN"} \X DOMAIN users
  BY <1>0, <1>1, <1>3 DEF TypeOK
<1>7. TypeOK'
  BY <1>0, <1>1, <1>5, <1>6, QuietTypes DEF TypeOK
<1>8. CallerGood(c)'
  <2>1. pc'[c] = "answered"
    BY <1>0, <1>1 DEF TypeOK
  <2>2. <<"USER_LOGGED_IN", found[c]>> \in audits'
    BY <1>1
  <2>3. Having(Normalize(req[c].email))' = Having(Normalize(req[c].email))
    BY <1>1 DEF Having
  <2> QED
    BY <1>1, <1>3, <1>5, <2>1, <2>2, <2>3 DEF CallerGood
<1>9. \A d \in Callers : d # c =>
        /\ req'[d] = req[d] /\ found'[d] = found[d]
        /\ reply'[d] = reply[d] /\ since'[d] = since[d]
  BY <1>1, <1>5
<1> QED
  BY <1>0, <1>1, <1>2, <1>7, <1>8, <1>9, QuietStep DEF Open

\* The caller is gone.
LEMMA ReturnStep ==
    ASSUME AccountsInv, NEW c \in Callers, Return(c)
    PROVE  AccountsInv'
<1>0. TypeOK /\ c \in Sessions /\ c \notin Processes
  BY SessionKinds DEF AccountsInv
<1>1. /\ pc[c] = "answered" /\ pc' = [pc EXCEPT ![c] = "idle"]
      /\ host' = [host EXCEPT ![c] = None]
      /\ req' = [req EXCEPT ![c] = None]
      /\ found' = [found EXCEPT ![c] = 0]
      /\ reply' = [reply EXCEPT ![c] = NoReply]
      /\ since' = [since EXCEPT ![c] = 0]
      /\ UNCHANGED <<adminEmail, users, wallets, audits, claim, staged>>
  BY DEF Return, Goto, tables
<1>2. 0 \in 0 .. Len(users)
  BY <1>0, UsersFacts
<1>3. /\ host' \in [Callers -> Processes \cup {None}]
      /\ req' \in [Callers -> Requests \cup {None}]
      /\ found' \in [Callers -> {0} \cup DOMAIN users]
      /\ reply' \in [Callers -> [status : {0, 200, 201, 400, 401, 409, 500},
                                 token : {0} \cup DOMAIN users]]
      /\ since' \in [Callers -> 0 .. Len(users)]
  BY <1>0, <1>1, <1>2 DEF TypeOK, NoReply
<1>4. TypeOK'
  BY <1>0, <1>1, <1>3, QuietTypes DEF TypeOK
<1>5. CallerGood(c)'
  BY <1>0, <1>1 DEF CallerGood, TypeOK
<1>6. \A d \in Callers : d # c =>
        /\ req'[d] = req[d] /\ found'[d] = found[d]
        /\ reply'[d] = reply[d] /\ since'[d] = since[d]
  BY <1>0, <1>1 DEF TypeOK
<1>7. pc[c] \notin Open
  BY <1>1 DEF Open
<1> QED
  BY <1>0, <1>1, <1>4, <1>5, <1>6, <1>7, QuietStep DEF Open

-----------------------------------------------------------------------------
(* The transaction of Register and of seedAdmin.                           *)

\* The row a session inserts is one of the table.
LEMMA RowFacts ==
    ASSUME AccountsInv, NEW s \in Sessions, pc[s] \in {"user"} \cup Open
    PROVE  RowOf(s) \in UserRow
<1>1. CASE s \in Processes
  BY <1>1 DEF RowOf, UserRow, Emails, AccountsInv, TypeOK
<1>2. CASE s \notin Processes
  <2>1. s \in Callers /\ req[s] \in Requests
    BY <1>2 DEF AccountsInv, CallerInv, Sessions, Open
  <2>2. Normalize(req[s].email) \in Emails /\ req[s].password \in Passwords
    BY <2>1 DEF Requests, Emails
  <2> QED
    BY <1>2, <2>2 DEF RowOf, UserRow
<1> QED
  BY <1>1, <1>2

\* It has the configured address or a normalised one.
LEMMA RowStored ==
    ASSUME AccountsInv, NEW s \in Sessions, pc[s] \in {"user"} \cup Open
    PROVE  Stored(RowOf(s))
<1>1. CASE s \in Processes
  BY <1>1 DEF RowOf, Stored
<1>2. CASE s \notin Processes
  <2>1. s \in Callers /\ req[s] \in Requests
    BY <1>2 DEF AccountsInv, CallerInv, Sessions, Open
  <2> QED
    BY <1>2, <2>1, NormalizeAssumption DEF RowOf, Stored, Requests
<1> QED
  BY <1>1, <1>2

\* A step of s inside its transaction: it inserts its address, or one more row.
LEMMA InsideStep ==
    ASSUME AccountsInv, NEW s \in Sessions, NEW place \in Open, NEW inserted,
           UNCHANGED <<adminEmail, tables, host, req, found, reply, since>>,
           pc' = [pc EXCEPT ![s] = place],
           staged' = [staged EXCEPT ![s] = inserted],
           place = "wallet" => inserted = {"user"},
           place = "audit" => inserted = {"user", "wallet"},
           place = "commit" => inserted = {"user", "wallet", "audit"},
           pc[s] \in {"user"} \cup Open,
           \/ claim' = claim /\ claim[RowOf(s).email] = s
           \/ /\ claim' = [claim EXCEPT ![RowOf(s).email] = s]
              /\ claim[RowOf(s).email] = None
              /\ Having(RowOf(s).email) = {}
    PROVE  AccountsInv'
<1>0. /\ TypeOK /\ SessionInv /\ ClaimInv /\ SeedInv /\ AccountsComplete
      /\ users' = users /\ wallets' = wallets /\ audits' = audits
  BY DEF AccountsInv, tables
<1>1. RowOf(s) \in UserRow /\ RowOf(s).email \in Emails
  BY RowFacts DEF UserRow
<1>2. \A t \in Sessions : RowOf(t)' = RowOf(t)
  BY DEF RowOf
<1>3. /\ pc'[s] = place /\ staged'[s] = inserted
      /\ \A t \in Sessions : t # s => pc'[t] = pc[t] /\ staged'[t] = staged[t]
  BY <1>0 DEF TypeOK
<1>4. /\ claim'[RowOf(s).email] = s /\ Having(RowOf(s).email) = {}
      /\ \A e \in Emails : e # RowOf(s).email => claim'[e] = claim[e]
      /\ claim' \in [Emails -> Sessions \cup {None}]
      /\ claim[RowOf(s).email] \in {s, None}
  <2>1. CASE claim' = claim /\ claim[RowOf(s).email] = s
    <3>1. ASSUME NEW e \in Emails, claim[e] = s PROVE Having(e) = {}
      BY <1>0, <3>1, SessionKinds DEF ClaimInv
    <3> QED
      BY <1>0, <1>1, <2>1, <3>1 DEF TypeOK
  <2>2. CASE /\ claim' = [claim EXCEPT ![RowOf(s).email] = s]
             /\ claim[RowOf(s).email] = None
             /\ Having(RowOf(s).email) = {}
    BY <1>0, <1>1, <2>2 DEF TypeOK
  <2> QED
    BY <2>1, <2>2
<1>5. TypeOK'
  <2>1. pc' \in [Sessions -> {"down", "up", "idle", "lookup", "user", "wallet", "audit",
                              "commit", "login", "answered"}]
    BY <1>0 DEF TypeOK, Open
  <2>2. inserted \in SUBSET {"user", "wallet", "audit"}
    BY DEF Open
  <2>3. staged' \in [Sessions -> SUBSET {"user", "wallet", "audit"}]
    BY <1>0, <2>2 DEF TypeOK
  <2> QED
    BY <1>0, <1>4, <2>1, <2>3 DEF TypeOK
<1>6. SessionInv'
  <2> SUFFICES ASSUME NEW t \in Sessions
               PROVE  /\ t \in Processes => pc'[t] \in {"down", "up", "user"} \cup Open
                      /\ t \in Callers => pc'[t] \in
                           {"idle", "lookup", "user", "login", "answered"} \cup Open
                      /\ pc'[t] \notin Open => staged'[t] = {}
                      /\ pc'[t] = "wallet" => staged'[t] = {"user"}
                      /\ pc'[t] = "audit" => staged'[t] = {"user", "wallet"}
                      /\ pc'[t] = "commit" => staged'[t] = {"user", "wallet", "audit"}
                      /\ pc'[t] \in Open => claim'[RowOf(t).email'] = t
    BY DEF SessionInv
  <2>1. CASE t = s
    <3>1. pc'[t] = place /\ staged'[t] = inserted /\ claim'[RowOf(t).email'] = t
      BY <1>2, <1>3, <1>4, <2>1
    <3> QED
      BY <3>1 DEF Open
  <2>2. CASE t # s
    <3>1. pc'[t] = pc[t] /\ staged'[t] = staged[t] /\ RowOf(t)' = RowOf(t)
      BY <1>2, <1>3, <2>2
    <3>2. pc[t] \in Open => claim'[RowOf(t).email] = t
      <4> SUFFICES ASSUME pc[t] \in Open PROVE claim'[RowOf(t).email] = t
        OBVIOUS
      <4>1. claim[RowOf(t).email] = t /\ RowOf(t).email \in Emails
        BY <1>0, RowFacts DEF SessionInv, UserRow
      <4>2. RowOf(t).email # RowOf(s).email
        BY <1>4, <2>2, <4>1, SessionKinds
      <4> QED
        BY <1>4, <4>1, <4>2
    <3> QED
      BY <1>0, <3>1, <3>2 DEF SessionInv
  <2> QED
    BY <2>1, <2>2
<1>7. ClaimInv'
  <2> SUFFICES ASSUME NEW e \in Emails, claim'[e] # None
               PROVE  /\ pc'[claim'[e]] \in Open
                      /\ RowOf(claim[e])'.email = e
                      /\ Having(e)' = {}
    BY DEF ClaimInv
  <2>0. Having(e)' = Having(e)
    BY <1>0 DEF Having
  <2>1. PICK t \in Sessions : t = claim'[e]
    BY <1>4
  <2>2. RowOf(claim[e])' = RowOf(t)'
    BY <2>1 DEF RowOf
  <2>3. CASE e = RowOf(s).email
    <3>1. t = s
      BY <1>4, <2>1, <2>3
    <3> QED
      BY <1>2, <1>3, <1>4, <2>0, <2>1, <2>2, <2>3, <3>1
  <2>4. CASE e # RowOf(s).email
    <3>1. claim[e] = t /\ t # None
      BY <1>4, <2>1, <2>4, SessionKinds
    <3>2. pc[t] \in Open /\ RowOf(t).email = e /\ Having(e) = {}
      BY <1>0, <3>1 DEF ClaimInv
    <3>3. t # s
      BY <2>4, <3>2
    <3> QED
      BY <1>2, <1>3, <2>0, <2>1, <2>2, <3>2, <3>3
  <2> QED
    BY <2>3, <2>4
<1>8. \A c \in Callers : CallerGood(c)'
  <2> SUFFICES ASSUME NEW c \in Callers PROVE CallerGood(c)'
    OBVIOUS
  <2>1. CallerGood(c)
    BY EachCaller DEF AccountsInv
  <2>2. Grown
    BY <1>0, UsersFacts DEF Grown
  <2>3. CASE c = s
    BY <1>3, <2>1, <2>3 DEF CallerGood, Open
  <2>4. CASE c # s
    <3>1. pc'[c] = pc[c]
      BY <1>3, <2>4, SessionKinds
    <3> QED
      BY <1>0, <2>1, <2>2, <3>1, ToldStaysTrue
  <2> QED
    BY <2>3, <2>4
<1>9. CallerInv' /\ RepliesAreTrue' /\ RefusalsAreTrue'
  BY <1>8, EachCallerAfter
<1>10. SeedInv'
  <2>1. Having(adminEmail)' = Having(adminEmail)
    BY <1>0 DEF Having
  <2>2. \A p \in Processes : pc'[p] = "up" => pc[p] = "up"
    BY <1>3, SessionKinds DEF Open
  <2>3. \A c \in Callers : pc'[c] # "idle" => pc[c] # "idle"
    BY <1>3, SessionKinds DEF Open
  <2> QED
    BY <1>0, <2>1, <2>2, <2>3 DEF SeedInv, Stored
<1>11. AccountsComplete'
  BY <1>0 DEF AccountsComplete
<1> QED
  BY <1>5, <1>6, <1>7, <1>9, <1>10, <1>11 DEF AccountsInv

\* users.Create.
LEMMA CreateUserStep ==
    ASSUME AccountsInv, NEW s \in Sessions, CreateUser(s), Having(RowOf(s).email) = {}
    PROVE  AccountsInv'
<1>1. staged[s] = {} /\ pc[s] = "user"
  BY DEF CreateUser, AccountsInv, SessionInv, Open
<1>2. /\ claim[RowOf(s).email] = None
      /\ claim' = [claim EXCEPT ![RowOf(s).email] = s]
      /\ staged' = [staged EXCEPT ![s] = staged[s] \cup {"user"}]
      /\ pc' = [pc EXCEPT ![s] = "wallet"]
      /\ UNCHANGED <<adminEmail, tables, host, req, found, reply, since>>
  BY DEF CreateUser, Goto
<1>3. staged' = [staged EXCEPT ![s] = {"user"}]
  BY <1>1, <1>2
<1> QED
  BY <1>1, <1>2, <1>3, InsideStep DEF Open

\* The wallet and the audit row.
LEMMA InsertStep ==
    ASSUME AccountsInv, NEW s \in Sessions, CreateWallet(s) \/ CreateAudit(s)
    PROVE  AccountsInv'
<1>1. CASE CreateWallet(s)
  <2>1. /\ pc[s] = "wallet" /\ staged[s] = {"user"} /\ claim[RowOf(s).email] = s
        /\ staged' = [staged EXCEPT ![s] = staged[s] \cup {"wallet"}]
        /\ pc' = [pc EXCEPT ![s] = "audit"]
        /\ claim' = claim
        /\ UNCHANGED <<adminEmail, tables, host, req, found, reply, since>>
    BY <1>1 DEF CreateWallet, Insert, Goto, AccountsInv, SessionInv, Open
  <2>2. staged' = [staged EXCEPT ![s] = {"user", "wallet"}]
    <3>1. staged[s] \cup {"wallet"} = {"user", "wallet"}
      BY <2>1
    <3> QED
      BY <2>1, <3>1
  <2> QED
    BY <2>1, <2>2, InsideStep DEF Open
<1>2. CASE CreateAudit(s)
  <2>1. /\ pc[s] = "audit" /\ staged[s] = {"user", "wallet"} /\ claim[RowOf(s).email] = s
        /\ staged' = [staged EXCEPT ![s] = staged[s] \cup {"audit"}]
        /\ pc' = [pc EXCEPT ![s] = "commit"]
        /\ claim' = claim
        /\ UNCHANGED <<adminEmail, tables, host, req, found, reply, since>>
    BY <1>2 DEF CreateAudit, Insert, Goto, AccountsInv, SessionInv, Open
  <2>2. staged' = [staged EXCEPT ![s] = {"user", "wallet", "audit"}]
    <3>1. staged[s] \cup {"audit"} = {"user", "wallet", "audit"}
      BY <2>1
    <3> QED
      BY <2>1, <3>1
  <2> QED
    BY <2>1, <2>2, InsideStep DEF Open
<1> QED
  BY <1>1, <1>2

\* However it ends, a transaction gives up its claim and nobody else's; others' claims
\* stay good if no row of their address has appeared.
LEMMA EndStep ==
    ASSUME AccountsInv, NEW s \in Sessions, EndTransaction(s),
           req' = req, adminEmail' = adminEmail,
           \A t \in Sessions : t # s => pc'[t] = pc[t],
           pc' \in [Sessions -> {"down", "up", "idle", "lookup", "user", "wallet", "audit",
                                 "commit", "login", "answered"}],
           s \in Processes => pc'[s] \in {"down", "up"},
           s \in Callers => pc'[s] = "answered",
           \A e \in Emails : claim[e] # s /\ Having(e) = {} =>
               \A i \in DOMAIN users' : users'[i].email # e
    PROVE  /\ claim' \in [Emails -> Sessions \cup {None}]
           /\ staged' \in [Sessions -> SUBSET {"user", "wallet", "audit"}]
           /\ SessionInv'
           /\ ClaimInv'
<1>0. TypeOK /\ SessionInv /\ ClaimInv /\ s # None
  BY SessionKinds DEF AccountsInv
<1>1. /\ claim' = [e \in Emails |-> IF claim[e] = s THEN None ELSE claim[e]]
      /\ staged' = [staged EXCEPT ![s] = {}]
  BY DEF EndTransaction
<1>2. claim' \in [Emails -> Sessions \cup {None}]
  BY <1>0, <1>1 DEF TypeOK
<1>3. staged' \in [Sessions -> SUBSET {"user", "wallet", "audit"}]
  BY <1>0, <1>1 DEF TypeOK
<1>4. /\ staged'[s] = {} /\ pc'[s] \notin Open
      /\ \A t \in Sessions : t # s => pc'[t] = pc[t] /\ staged'[t] = staged[t]
      /\ \A e \in Emails : claim[e] # s => claim'[e] = claim[e]
      /\ \A e \in Emails : claim'[e] # s /\ (claim'[e] # None => claim'[e] = claim[e])
  BY <1>0, <1>1 DEF TypeOK, Open, Sessions
<1>5. \A t \in Sessions : RowOf(t)' = RowOf(t)
  BY DEF RowOf
<1>6. SessionInv'
  <2> SUFFICES ASSUME NEW t \in Sessions
               PROVE  /\ t \in Processes => pc'[t] \in {"down", "up", "user"} \cup Open
                      /\ t \in Callers => pc'[t] \in
                           {"idle", "lookup", "user", "login", "answered"} \cup Open
                      /\ pc'[t] \notin Open => staged'[t] = {}
                      /\ pc'[t] = "wallet" => staged'[t] = {"user"}
                      /\ pc'[t] = "audit" => staged'[t] = {"user", "wallet"}
                      /\ pc'[t] = "commit" => staged'[t] = {"user", "wallet", "audit"}
                      /\ pc'[t] \in Open => claim'[RowOf(t).email'] = t
    BY DEF SessionInv
  <2>1. CASE t = s
    BY <1>4, <2>1 DEF Open
  <2>2. CASE t # s
    <3>1. pc'[t] = pc[t] /\ staged'[t] = staged[t] /\ RowOf(t)' = RowOf(t)
      BY <1>4, <1>5, <2>2
    <3>2. pc[t] \in Open => claim'[RowOf(t).email] = t
      <4> SUFFICES ASSUME pc[t] \in Open PROVE claim'[RowOf(t).email] = t
        OBVIOUS
      <4>1. claim[RowOf(t).email] = t /\ RowOf(t).email \in Emails
        BY <1>0, RowFacts DEF SessionInv, UserRow
      <4> QED
        BY <1>4, <2>2, <4>1
    <3> QED
      BY <1>0, <3>1, <3>2 DEF SessionInv
  <2> QED
    BY <2>1, <2>2
<1>7. ClaimInv'
  <2> SUFFICES ASSUME NEW e \in Emails, claim'[e] # None
               PROVE  /\ pc'[claim'[e]] \in Open
                      /\ RowOf(claim[e])'.email = e
                      /\ Having(e)' = {}
    BY DEF ClaimInv
  <2>1. PICK t \in Sessions : t = claim'[e]
    BY <1>2
  <2>2. RowOf(claim[e])' = RowOf(t)'
    BY <2>1 DEF RowOf
  <2>3. claim[e] = t /\ t # s /\ t # None
    BY <1>4, <2>1
  <2>4. pc[t] \in Open /\ RowOf(t).email = e /\ Having(e) = {}
    BY <1>0, <2>3 DEF ClaimInv
  <2>5. Having(e)' = {}
    BY <2>3, <2>4 DEF Having
  <2> QED
    BY <1>4, <1>5, <2>1, <2>2, <2>3, <2>4, <2>5
<1> QED
  BY <1>2, <1>3, <1>6, <1>7

\* A transaction that fails changes no table.
LEMMA AbortStep ==
    ASSUME AccountsInv, NEW s \in Sessions, NEW status \in {409, 500}, Abort(s, status),
           pc[s] \notin {"down", "up", "idle", "answered"},
           s \in Callers /\ status = 409 => Having(RowOf(s).email) # {}
    PROVE  AccountsInv'
<1> DEFINE place == IF s \in Processes THEN "down" ELSE "answered"
<1>0. /\ TypeOK /\ SeedInv /\ AccountsComplete
      /\ s \in Callers => s \notin Processes
      /\ s \in Processes \/ s \in Callers
  BY SessionKinds DEF AccountsInv, Sessions
<1>1. /\ EndTransaction(s) /\ pc' = [pc EXCEPT ![s] = place]
      /\ UNCHANGED <<adminEmail, users, wallets, audits, host, req, found, since>>
  BY DEF Abort, Goto, tables
<1>2. /\ s \in Processes => place = "down"
      /\ s \in Callers => place = "answered"
  BY <1>0
<1> HIDE DEF place
<1>3. \A e \in Emails : Having(e)' = Having(e)
  BY <1>1 DEF Having
<1>4. /\ claim' \in [Emails -> Sessions \cup {None}]
      /\ staged' \in [Sessions -> SUBSET {"user", "wallet", "audit"}]
      /\ pc' \in [Sessions -> {"down", "up", "idle", "lookup", "user", "wallet", "audit",
                               "commit", "login", "answered"}]
      /\ SessionInv'
      /\ ClaimInv'
  <2>1. \A e \in Emails : claim[e] # s /\ Having(e) = {} =>
          \A i \in DOMAIN users' : users'[i].email # e
    BY <1>1 DEF Having
  <2>2. pc' \in [Sessions -> {"down", "up", "idle", "lookup", "user", "wallet", "audit",
                              "commit", "login", "answered"}]
    BY <1>0, <1>1, <1>2 DEF TypeOK
  <2>3. /\ \A t \in Sessions : t # s => pc'[t] = pc[t]
        /\ s \in Processes => pc'[s] \in {"down", "up"}
        /\ s \in Callers => pc'[s] = "answered"
    BY <1>0, <1>1, <1>2 DEF TypeOK
  <2> QED
    BY <1>1, <2>1, <2>2, <2>3, EndStep
<1>5. /\ reply' \in [Callers -> [status : {0, 200, 201, 400, 401, 409, 500},
                                 token : {0} \cup DOMAIN users]]
      /\ s \in Callers => reply'[s].status = status
      /\ \A d \in Callers : d # s => reply'[d] = reply[d]
  <2>1. CASE s \in Processes
    BY <1>0, <2>1, SessionKinds DEF Abort, TypeOK
  <2>2. CASE s \in Callers
    <3>1. reply' = [reply EXCEPT ![s] = [status |-> status, token |-> 0]]
      BY <1>0, <2>2 DEF Abort, Answer
    <3>2. [status |-> status, token |-> 0]
            \in [status : {0, 200, 201, 400, 401, 409, 500}, token : {0} \cup DOMAIN users]
      OBVIOUS
    <3> QED
      BY <1>0, <2>2, <3>1, <3>2 DEF TypeOK
  <2> QED
    BY <1>0, <2>1, <2>2
<1>6. TypeOK'
  BY <1>0, <1>1, <1>4, <1>5 DEF TypeOK
<1>7. pc'[s] = place /\ \A t \in Sessions : t # s => pc'[t] = pc[t]
  BY <1>0, <1>1 DEF TypeOK
<1>8. \A c \in Callers : CallerGood(c)'
  <2> SUFFICES ASSUME NEW c \in Callers PROVE CallerGood(c)'
    OBVIOUS
  <2>1. CallerGood(c)
    BY EachCaller DEF AccountsInv
  <2>2. Grown
    BY <1>0, <1>1, UsersFacts DEF Grown
  <2>3. CASE c = s
    <3>1. pc[c] # "idle" /\ pc'[c] = "answered" /\ reply'[c].status = status
      BY <1>2, <1>5, <1>7, <2>3
    <3>2. req'[c] = req[c] /\ req[c] \in Requests
      BY <1>1, <2>1, <3>1 DEF CallerGood
    <3>3. status = 409 => Having(Normalize(req[c].email)) # {}
      BY <1>0, <2>3 DEF RowOf
    <3>4. Having(Normalize(req[c].email))' = Having(Normalize(req[c].email))
      BY <1>1 DEF Having
    <3>5. status # 200 /\ status # 201 /\ status # 401
      OBVIOUS
    <3> QED
      BY <3>1, <3>2, <3>3, <3>4, <3>5 DEF CallerGood
  <2>4. CASE c # s
    <3>1. pc'[c] = pc[c] /\ reply'[c] = reply[c]
      BY <1>5, <1>7, <2>4, SessionKinds
    <3> QED
      BY <1>0, <1>1, <2>1, <2>2, <3>1, ToldStaysTrue
  <2> QED
    BY <2>3, <2>4
<1>9. CallerInv' /\ RepliesAreTrue' /\ RefusalsAreTrue'
  BY <1>8, EachCallerAfter
<1>10. SeedInv'
  <2>1. Having(adminEmail)' = Having(adminEmail)
    BY <1>1 DEF Having
  <2>2. \A p \in Processes : pc'[p] = "up" => pc[p] = "up"
    BY <1>2, <1>7, SessionKinds
  <2>3. \A c \in Callers : pc'[c] # "idle" => pc[c] # "idle"
    BY <1>7, SessionKinds
  <2> QED
    BY <1>0, <1>1, <2>1, <2>2, <2>3 DEF SeedInv, Stored
<1>11. AccountsComplete'
  BY <1>0, <1>1 DEF AccountsComplete
<1> QED
  BY <1>4, <1>6, <1>9, <1>10, <1>11 DEF AccountsInv

\* What a commit makes visible: the user, its wallet and its audit row, together.
LEMMA PublishFacts ==
    ASSUME AccountsInv, NEW s \in Sessions, pc[s] = "commit", Publish(s),
           adminEmail' = adminEmail
    PROVE  /\ RowOf(s) \in UserRow
           /\ Having(RowOf(s).email) = {}
           /\ claim[RowOf(s).email] = s
           /\ users' \in Seq(UserRow)
           /\ Len(users') = Len(users) + 1
           /\ DOMAIN users' = 1 .. Len(users) + 1
           /\ users'[Len(users) + 1] = RowOf(s)
           /\ \A i \in 1 .. Len(users) : users'[i] = users[i]
           /\ wallets' = wallets \cup {Len(users) + 1}
           /\ audits' = audits \cup
                {<<IF s \in Processes THEN "ADMIN_SEEDED" ELSE "USER_REGISTERED",
                   Len(users) + 1>>}
           /\ Grown
<1>0. TypeOK /\ SessionInv /\ ClaimInv
  BY DEF AccountsInv
<1>1. /\ staged[s] = {"user", "wallet", "audit"} /\ claim[RowOf(s).email] = s
  BY <1>0 DEF SessionInv, Open
<1>2. RowOf(s) \in UserRow /\ RowOf(s).email \in Emails
  BY RowFacts DEF UserRow, Open
<1>3. ASSUME NEW e \in Emails, claim[e] = s PROVE Having(e) = {}
  BY <1>0, <1>3, SessionKinds DEF ClaimInv
<1>4. Having(RowOf(s).email) = {}
  BY <1>1, <1>2, <1>3
<1>5. /\ users' = Append(users, RowOf(s))
      /\ wallets' = wallets \cup {Len(users) + 1}
      /\ audits' = audits \cup
           {<<IF s \in Processes THEN "ADMIN_SEEDED" ELSE "USER_REGISTERED",
              Len(users) + 1>>}
  BY <1>1 DEF Publish, NewId
<1>6. users \in Seq(UserRow)
  BY <1>0, UsersFacts
<1>7. /\ users' \in Seq(UserRow)
      /\ Len(users') = Len(users) + 1
      /\ DOMAIN users' = 1 .. Len(users) + 1
      /\ users'[Len(users) + 1] = RowOf(s)
      /\ \A i \in 1 .. Len(users) : users'[i] = users[i]
  <2> DEFINE row == RowOf(s)
  <2>1. row \in UserRow /\ users' = Append(users, row)
    BY <1>2, <1>5
  <2> HIDE DEF row
  <2>2. /\ users' \in Seq(UserRow)
        /\ Len(users') = Len(users) + 1
        /\ DOMAIN users' = 1 .. Len(users) + 1
        /\ users'[Len(users) + 1] = row
        /\ \A i \in 1 .. Len(users) : users'[i] = users[i]
    BY <1>6, <2>1
  <2> QED
    BY <2>2 DEF row
<1>8. Len(users) \in Nat /\ Len(users) <= Len(users')
  BY <1>6, <1>7
<1>9. Grown
  BY <1>5, <1>7, <1>8 DEF Grown
<1> QED
  BY <1>1, <1>2, <1>4, <1>5, <1>7, <1>9

\* COMMIT, acknowledged or not.
LEMMA CommitStep ==
    ASSUME AccountsInv, NEW s \in Sessions, Commit(s) \/ CommitUnacknowledged(s)
    PROVE  AccountsInv'
<1> DEFINE n == Len(users) + 1
<1>0. /\ TypeOK /\ SeedInv /\ AccountsComplete
      /\ s \in Callers => s \notin Processes
      /\ s \in Processes \/ s \in Callers
  BY SessionKinds DEF AccountsInv, Sessions
<1>1. /\ pc[s] = "commit" /\ Publish(s) /\ EndTransaction(s)
      /\ UNCHANGED <<adminEmail, host, req, found, since>>
  BY DEF Commit, CommitUnacknowledged
<1>2. PICK place \in {"down", "up", "answered"}, status \in {201, 500} :
        /\ pc' = [pc EXCEPT ![s] = place]
        /\ s \in Processes => place \in {"down", "up"} /\ reply' = reply
        /\ s \in Callers =>
             /\ place = "answered"
             /\ reply' = [reply EXCEPT ![s] = [status |-> status, token |-> 0]]
  BY <1>0 DEF Commit, CommitUnacknowledged, Goto, Answer
<1>3. /\ RowOf(s) \in UserRow
      /\ Having(RowOf(s).email) = {}
      /\ claim[RowOf(s).email] = s
      /\ users' \in Seq(UserRow)
      /\ Len(users') = n
      /\ DOMAIN users' = 1 .. n
      /\ users'[n] = RowOf(s)
      /\ \A i \in 1 .. Len(users) : users'[i] = users[i]
      /\ wallets' = wallets \cup {n}
      /\ audits' = audits \cup
           {<<IF s \in Processes THEN "ADMIN_SEEDED" ELSE "USER_REGISTERED", n>>}
      /\ Grown
  BY <1>1, PublishFacts
<1>4. /\ Len(users) \in Nat /\ DOMAIN users = 1 .. Len(users)
      /\ n \in Nat /\ n \notin DOMAIN users /\ DOMAIN users' = DOMAIN users \cup {n}
      /\ \A i \in DOMAIN users : users'[i] = users[i]
  BY <1>0, <1>3, UsersFacts
<1> HIDE DEF n
<1>5. /\ claim' \in [Emails -> Sessions \cup {None}]
      /\ staged' \in [Sessions -> SUBSET {"user", "wallet", "audit"}]
      /\ pc' \in [Sessions -> {"down", "up", "idle", "lookup", "user", "wallet", "audit",
                               "commit", "login", "answered"}]
      /\ SessionInv'
      /\ ClaimInv'
  <2>1. ASSUME NEW e \in Emails, claim[e] # s, Having(e) = {}, NEW i \in DOMAIN users'
        PROVE  users'[i].email # e
    <3>1. CASE i = n
      BY <1>3, <2>1, <3>1
    <3>2. CASE i \in DOMAIN users
      BY <1>4, <2>1, <3>2 DEF Having
    <3> QED
      BY <1>4, <3>1, <3>2
  <2>2. pc' \in [Sessions -> {"down", "up", "idle", "lookup", "user", "wallet", "audit",
                              "commit", "login", "answered"}]
    BY <1>0, <1>2 DEF TypeOK
  <2>3. /\ \A t \in Sessions : t # s => pc'[t] = pc[t]
        /\ s \in Processes => pc'[s] \in {"down", "up"}
        /\ s \in Callers => pc'[s] = "answered"
    BY <1>0, <1>2 DEF TypeOK
  <2>4. \A e \in Emails : claim[e] # s /\ Having(e) = {} =>
          \A i \in DOMAIN users' : users'[i].email # e
    BY <2>1
  <2> QED
    BY <1>1, <2>2, <2>3, <2>4, EndStep
<1>6. /\ reply' \in [Callers -> [status : {0, 200, 201, 400, 401, 409, 500},
                                 token : {0} \cup DOMAIN users']]
      /\ s \in Callers => reply'[s].status = status
      /\ \A d \in Callers : d # s => reply'[d] = reply[d]
  <2>0. reply \in [Callers -> [status : {0, 200, 201, 400, 401, 409, 500},
                               token : {0} \cup DOMAIN users']]
    BY <1>0, <1>4 DEF TypeOK
  <2>1. CASE s \in Processes
    BY <1>2, <2>0, <2>1, SessionKinds
  <2>2. CASE s \in Callers
    <3>1. reply' = [reply EXCEPT ![s] = [status |-> status, token |-> 0]]
      BY <1>2, <2>2
    <3>2. [status |-> status, token |-> 0]
            \in [status : {0, 200, 201, 400, 401, 409, 500}, token : {0} \cup DOMAIN users']
      OBVIOUS
    <3> QED
      BY <2>0, <2>2, <3>1, <3>2
  <2> QED
    BY <1>0, <2>1, <2>2
<1>7. TypeOK'
  <2>1. users' \in Seq([email : Emails, password : Passwords \cup {AdminPassword},
                        role : {"user", "admin"}])
    BY <1>3 DEF UserRow
  <2>2. wallets' \subseteq DOMAIN users'
    BY <1>0, <1>3, <1>4 DEF TypeOK
  <2>3. audits' \subseteq {"USER_REGISTERED", "ADMIN_SEEDED", "USER_LOGGED_IN"}
                          \X DOMAIN users'
    <3> DEFINE row == <<IF s \in Processes THEN "ADMIN_SEEDED" ELSE "USER_REGISTERED", n>>
    <3>1. row \in {"USER_REGISTERED", "ADMIN_SEEDED", "USER_LOGGED_IN"} \X DOMAIN users'
      BY <1>4
    <3>2. audits \subseteq {"USER_REGISTERED", "ADMIN_SEEDED", "USER_LOGGED_IN"}
                            \X DOMAIN users'
      BY <1>0, <1>4 DEF TypeOK
    <3>3. audits' = audits \cup {row}
      BY <1>3
    <3> HIDE DEF row
    <3> QED
      BY <3>1, <3>2, <3>3
  <2>4. found' \in [Callers -> {0} \cup DOMAIN users']
    BY <1>0, <1>1, <1>4 DEF TypeOK
  <2>5. since' \in [Callers -> 0 .. Len(users')]
    <3>1. 0 .. Len(users) \subseteq 0 .. Len(users')
      BY <1>3, <1>4 DEF n
    <3> QED
      BY <1>0, <1>1, <3>1 DEF TypeOK
  <2> QED
    BY <1>0, <1>1, <1>5, <1>6, <2>1, <2>2, <2>3, <2>4, <2>5 DEF TypeOK
<1>8. pc'[s] = place /\ \A t \in Sessions : t # s => pc'[t] = pc[t]
  BY <1>0, <1>2 DEF TypeOK
<1>9. \A c \in Callers : CallerGood(c)'
  <2> SUFFICES ASSUME NEW c \in Callers PROVE CallerGood(c)'
    OBVIOUS
  <2>1. CallerGood(c)
    BY EachCaller DEF AccountsInv
  <2>2. CASE c = s
    <3>1. pc[c] # "idle" /\ pc'[c] = "answered" /\ reply'[c].status = status
      BY <1>1, <1>2, <1>6, <1>8, <2>2
    <3>2. req'[c] = req[c] /\ req[c] \in Requests
      BY <1>1, <2>1, <3>1 DEF CallerGood
    <3>3. /\ users'[n].email = Normalize(req'[c].email)
          /\ users'[n].password = req'[c].password
          /\ users'[n].role = "user"
      BY <1>0, <1>3, <2>2, <3>2 DEF RowOf
    <3>4. n \in Having(Normalize(req[c].email))'
      BY <1>4, <3>3 DEF Having
    <3>5. status # 200 /\ status # 409 /\ status # 401
      OBVIOUS
    <3> QED
      BY <3>1, <3>2, <3>3, <3>4, <3>5 DEF CallerGood
  <2>3. CASE c # s
    <3>1. pc'[c] = pc[c] /\ reply'[c] = reply[c]
      BY <1>6, <1>8, <2>3, SessionKinds
    <3> QED
      BY <1>0, <1>1, <1>3, <2>1, <3>1, ToldStaysTrue
  <2> QED
    BY <2>2, <2>3
<1>10. CallerInv' /\ RepliesAreTrue' /\ RefusalsAreTrue'
  BY <1>9, EachCallerAfter
<1>11. SeedInv'
  <2>1. Having(adminEmail) \subseteq Having(adminEmail)'
    BY <1>0, <1>1, <1>3, HavingGrows DEF Having
  <2>2. s \in Processes => n \in Having(adminEmail)' /\ users'[n].role = "admin"
    <3> SUFFICES ASSUME s \in Processes
                 PROVE  n \in Having(adminEmail)' /\ users'[n].role = "admin"
      OBVIOUS
    <3>1. users'[n].email = adminEmail /\ users'[n].role = "admin"
      BY <1>3 DEF RowOf
    <3> QED
      BY <1>1, <1>4, <3>1 DEF Having
  <2>3. s \in Callers => Having(adminEmail) # {} /\ RowOf(s).email # adminEmail
    <3> SUFFICES ASSUME s \in Callers
                 PROVE  Having(adminEmail) # {} /\ RowOf(s).email # adminEmail
      OBVIOUS
    <3>1. Having(adminEmail) # {}
      BY <1>1, AdminTaken
    <3> QED
      BY <1>3, <3>1
  <2>4. ASSUME NEW i \in Having(adminEmail)' PROVE users'[i].role = "admin"
    <3>1. i \in DOMAIN users' /\ users'[i].email = adminEmail
      BY <1>1 DEF Having
    <3>2. CASE i = n
      BY <1>0, <1>3, <2>2, <2>3, <3>1, <3>2
    <3>3. CASE i \in DOMAIN users
      <4>1. i \in Having(adminEmail)
        BY <1>4, <3>1, <3>3 DEF Having
      <4> QED
        BY <1>0, <1>4, <3>3, <4>1 DEF SeedInv
    <3> QED
      BY <1>4, <3>1, <3>2, <3>3
  <2>5. Having(adminEmail)' # {}
    BY <1>0, <2>1, <2>2, <2>3
  <2>6. ASSUME NEW i \in DOMAIN users' PROVE Stored(users[i])'
    <3>1. CASE i \in DOMAIN users
      BY <1>0, <1>1, <1>4, <3>1 DEF SeedInv, Stored
    <3>2. CASE i = n
      <4>1. Stored(RowOf(s))
        BY <1>1, RowStored DEF Open
      <4> QED
        BY <1>1, <1>3, <3>2, <4>1 DEF Stored
    <3> QED
      BY <1>4, <3>1, <3>2
  <2> QED
    BY <2>4, <2>5, <2>6 DEF SeedInv
<1>12. AccountsComplete'
  <2>1. ASSUME NEW i \in DOMAIN users', NEW j \in DOMAIN users',
               users'[i].email = users'[j].email
        PROVE  i = j
    <3>1. \A k \in DOMAIN users : users'[k].email # users'[n].email
      BY <1>3, <1>4 DEF Having
    <3>2. CASE i = n \/ j = n
      BY <1>4, <2>1, <3>1, <3>2
    <3>3. CASE i \in DOMAIN users /\ j \in DOMAIN users
      BY <1>0, <1>4, <2>1, <3>3 DEF AccountsComplete
    <3> QED
      BY <1>4, <2>1, <3>2, <3>3
  <2>2. ASSUME NEW i \in DOMAIN users'
        PROVE  /\ i \in wallets'
               /\ <<IF users'[i].role = "admin" THEN "ADMIN_SEEDED"
                    ELSE "USER_REGISTERED", i>> \in audits'
    <3>1. CASE i = n
      BY <1>3, <3>1 DEF RowOf
    <3>2. CASE i \in DOMAIN users
      <4>1. users'[i] = users[i]
        BY <1>4, <3>2
      <4>2. /\ i \in wallets
            /\ <<IF users[i].role = "admin" THEN "ADMIN_SEEDED"
                 ELSE "USER_REGISTERED", i>> \in audits
        BY <1>0, <3>2 DEF AccountsComplete
      <4> QED
        BY <1>3, <4>1, <4>2
    <3> QED
      BY <1>4, <2>2, <3>1, <3>2
  <2> QED
    BY <2>1, <2>2 DEF AccountsComplete
<1> QED
  BY <1>5, <1>7, <1>10, <1>11, <1>12 DEF AccountsInv

-----------------------------------------------------------------------------
(* Crashes.                                                                *)

\* A process dies: its own transaction and those of its requests end, the tables stay.
LEMMA CrashStep ==
    ASSUME AccountsInv, NEW p \in Processes, Crash(p)
    PROVE  AccountsInv'
<1> DEFINE gone(s) == s = p \/ (s \in Callers /\ host[s] = p)
<1>0. TypeOK /\ SessionInv /\ ClaimInv /\ SeedInv /\ AccountsComplete
  BY DEF AccountsInv
<1>1. /\ claim' = [e \in Emails |->
            IF claim[e] # None /\ gone(claim[e]) THEN None ELSE claim[e]]
      /\ staged' = [s \in Sessions |-> IF gone(s) THEN {} ELSE staged[s]]
      /\ pc' = [s \in Sessions |->
            IF s = p THEN "down" ELSE IF gone(s) THEN "idle" ELSE pc[s]]
      /\ host' = [c \in Callers |-> IF gone(c) THEN None ELSE host[c]]
      /\ req' = [c \in Callers |-> IF gone(c) THEN None ELSE req[c]]
      /\ found' = [c \in Callers |-> IF gone(c) THEN 0 ELSE found[c]]
      /\ reply' = [c \in Callers |-> IF gone(c) THEN NoReply ELSE reply[c]]
      /\ since' = [c \in Callers |-> IF gone(c) THEN 0 ELSE since[c]]
      /\ UNCHANGED <<adminEmail, users, wallets, audits>>
  BY DEF Crash, tables
<1>2. \A s \in Sessions : s \in Processes /\ gone(s) => s = p
  BY SessionKinds
<1> HIDE DEF gone
<1>3. ASSUME NEW s \in Sessions, ~gone(s)
      PROVE  /\ pc'[s] = pc[s] /\ staged'[s] = staged[s] /\ RowOf(s)' = RowOf(s)
             /\ s \in Callers => /\ req'[s] = req[s] /\ found'[s] = found[s]
                                 /\ reply'[s] = reply[s] /\ since'[s] = since[s]
  <2>1. s # p
    BY <1>3 DEF gone
  <2>2. /\ pc'[s] = pc[s] /\ staged'[s] = staged[s]
        /\ s \in Callers => /\ req'[s] = req[s] /\ found'[s] = found[s]
                            /\ reply'[s] = reply[s] /\ since'[s] = since[s]
    BY <1>1, <1>3, <2>1
  <2> QED
    BY <1>1, <2>2 DEF RowOf, Sessions
<1>4. ASSUME NEW s \in Sessions, gone(s)
      PROVE  /\ staged'[s] = {}
             /\ s \in Processes => pc'[s] = "down"
             /\ s \in Callers => pc'[s] = "idle"
  BY <1>1, <1>2, <1>4, SessionKinds
<1>5. ASSUME NEW e \in Emails
      PROVE  /\ claim[e] \in Sessions /\ ~gone(claim[e]) => claim'[e] = claim[e]
             /\ claim'[e] # None => claim'[e] = claim[e] /\ claim[e] \in Sessions
                                    /\ ~gone(claim[e])
  BY <1>0, <1>1 DEF TypeOK
<1>6. TypeOK'
  <2>1. claim' \in [Emails -> Sessions \cup {None}]
    BY <1>0, <1>1 DEF TypeOK
  <2>2. /\ staged' \in [Sessions -> SUBSET {"user", "wallet", "audit"}]
        /\ pc' \in [Sessions -> {"down", "up", "idle", "lookup", "user", "wallet", "audit",
                                 "commit", "login", "answered"}]
        /\ host' \in [Callers -> Processes \cup {None}]
        /\ req' \in [Callers -> Requests \cup {None}]
        /\ found' \in [Callers -> {0} \cup DOMAIN users]
    BY <1>0, <1>1 DEF TypeOK
  <2>3. since' \in [Callers -> 0 .. Len(users)]
    <3>1. 0 \in 0 .. Len(users)
      BY <1>0, UsersFacts
    <3> QED
      BY <1>0, <1>1, <3>1 DEF TypeOK
  <2>4. reply' \in [Callers -> [status : {0, 200, 201, 400, 401, 409, 500},
                                token : {0} \cup DOMAIN users]]
    <3>1. NoReply \in [status : {0, 200, 201, 400, 401, 409, 500},
                       token : {0} \cup DOMAIN users]
      BY DEF NoReply
    <3> QED
      BY <1>0, <1>1, <3>1 DEF TypeOK
  <2> QED
    BY <1>0, <1>1, <2>1, <2>2, <2>3, <2>4 DEF TypeOK
<1>7. SessionInv'
  <2> SUFFICES ASSUME NEW t \in Sessions
               PROVE  /\ t \in Processes => pc'[t] \in {"down", "up", "user"} \cup Open
                      /\ t \in Callers => pc'[t] \in
                           {"idle", "lookup", "user", "login", "answered"} \cup Open
                      /\ pc'[t] \notin Open => staged'[t] = {}
                      /\ pc'[t] = "wallet" => staged'[t] = {"user"}
                      /\ pc'[t] = "audit" => staged'[t] = {"user", "wallet"}
                      /\ pc'[t] = "commit" => staged'[t] = {"user", "wallet", "audit"}
                      /\ pc'[t] \in Open => claim'[RowOf(t).email'] = t
    BY DEF SessionInv
  <2>1. CASE gone(t)
    <3>1. staged'[t] = {} /\ pc'[t] \in {"down", "idle"}
      BY <1>4, <2>1 DEF Sessions
    <3> QED
      BY <1>4, <2>1, <3>1 DEF Open
  <2>2. CASE ~gone(t)
    <3>1. pc'[t] = pc[t] /\ staged'[t] = staged[t] /\ RowOf(t)' = RowOf(t)
      BY <1>3, <2>2
    <3>2. pc[t] \in Open => claim'[RowOf(t).email] = t
      <4> SUFFICES ASSUME pc[t] \in Open PROVE claim'[RowOf(t).email] = t
        OBVIOUS
      <4>1. claim[RowOf(t).email] = t /\ RowOf(t).email \in Emails
        BY <1>0, RowFacts DEF SessionInv, UserRow
      <4> QED
        BY <1>5, <2>2, <4>1
    <3> QED
      BY <1>0, <3>1, <3>2 DEF SessionInv
  <2> QED
    BY <2>1, <2>2
<1>8. ClaimInv'
  <2> SUFFICES ASSUME NEW e \in Emails, claim'[e] # None
               PROVE  /\ pc'[claim'[e]] \in Open
                      /\ RowOf(claim[e])'.email = e
                      /\ Having(e)' = {}
    BY DEF ClaimInv
  <2>1. PICK t \in Sessions : t = claim'[e] /\ t = claim[e] /\ ~gone(t)
    BY <1>5
  <2>2. RowOf(claim[e])' = RowOf(t)'
    BY <2>1 DEF RowOf
  <2>3. t # None
    BY <2>1
  <2>4. pc[t] \in Open /\ RowOf(t).email = e /\ Having(e) = {}
    BY <1>0, <2>1, <2>3 DEF ClaimInv
  <2>5. Having(e)' = {}
    BY <1>1, <2>4 DEF Having
  <2>6. pc'[t] = pc[t] /\ RowOf(t)' = RowOf(t)
    BY <1>3, <2>1
  <2> QED
    BY <2>1, <2>2, <2>4, <2>5, <2>6
<1>9. \A c \in Callers : CallerGood(c)'
  <2> SUFFICES ASSUME NEW c \in Callers PROVE CallerGood(c)'
    OBVIOUS
  <2>1. CallerGood(c) /\ c \in Sessions
    BY EachCaller, SessionKinds DEF AccountsInv
  <2>2. Grown
    BY <1>0, <1>1, UsersFacts DEF Grown
  <2>3. CASE gone(c)
    <3>1. pc'[c] = "idle"
      BY <1>4, <2>1, <2>3
    <3> QED
      BY <3>1 DEF CallerGood
  <2>4. CASE ~gone(c)
    <3>1. /\ pc'[c] = pc[c] /\ req'[c] = req[c] /\ found'[c] = found[c]
          /\ reply'[c] = reply[c] /\ since'[c] = since[c]
      BY <1>3, <2>1, <2>4
    <3> QED
      BY <1>0, <2>1, <2>2, <3>1, ToldStaysTrue
  <2> QED
    BY <2>3, <2>4
<1>10. CallerInv' /\ RepliesAreTrue' /\ RefusalsAreTrue'
  BY <1>9, EachCallerAfter
<1>11. SeedInv'
  <2>1. Having(adminEmail)' = Having(adminEmail)
    BY <1>1 DEF Having
  <2>2. \A q \in Processes : pc'[q] = "up" => pc[q] = "up"
    BY <1>3, <1>4, SessionKinds
  <2>3. \A c \in Callers : pc'[c] # "idle" => pc[c] # "idle"
    BY <1>3, <1>4, SessionKinds
  <2> QED
    BY <1>0, <1>1, <2>1, <2>2, <2>3 DEF SeedInv, Stored
<1>12. AccountsComplete'
  BY <1>0, <1>1 DEF AccountsComplete
<1> QED
  BY <1>6, <1>7, <1>8, <1>10, <1>11, <1>12 DEF AccountsInv

-----------------------------------------------------------------------------
(* The theorems.                                                           *)

\* The tables are empty, no process is up.
LEMMA InitAccounts == Init => AccountsInv
<1> SUFFICES ASSUME Init PROVE AccountsInv
  OBVIOUS
<1>1. users = <<>> /\ wallets = {} /\ audits = {} /\ DOMAIN users = {} /\ Len(users) = 0
  BY DEF Init
<1>2. TypeOK
  <2>1. users \in Seq([email : Emails, password : Passwords \cup {AdminPassword},
                       role : {"user", "admin"}])
    BY <1>1
  <2>2. reply \in [Callers -> [status : {0, 200, 201, 400, 401, 409, 500},
                               token : {0} \cup DOMAIN users]]
    BY DEF Init, NoReply
  <2>3. since \in [Callers -> 0 .. Len(users)]
    BY <1>1 DEF Init
  <2> QED
    BY <1>1, <2>1, <2>2, <2>3 DEF Init, TypeOK
<1>3. \A s \in Sessions : /\ staged[s] = {}
                          /\ s \in Processes => pc[s] = "down"
                          /\ s \in Callers => pc[s] = "idle"
  BY SessionKinds DEF Init
<1>4. SessionInv
  BY <1>3 DEF SessionInv, Open, Sessions
<1>5. ClaimInv
  BY DEF Init, ClaimInv
<1>6. \A c \in Callers : CallerGood(c)
  BY <1>3, SessionKinds DEF CallerGood
<1>7. SeedInv
  BY <1>1, <1>3, SessionKinds DEF SeedInv, Having
<1>8. AccountsComplete
  BY <1>1 DEF AccountsComplete
<1> QED
  BY <1>2, <1>4, <1>5, <1>6, <1>7, <1>8, EachCaller DEF AccountsInv

\* The invariant is inductive.
LEMMA NextAccounts == AccountsInv /\ [Next]_vars => AccountsInv'
<1> SUFFICES ASSUME AccountsInv, [Next]_vars PROVE AccountsInv'
  OBVIOUS
<1>1. CASE UNCHANGED vars
  BY <1>1 DEF vars, tables, AccountsInv, TypeOK, SessionInv, ClaimInv, CallerInv, SeedInv,
     Stored, AccountsComplete, RepliesAreTrue, RefusalsAreTrue, Having, RowOf
<1>2. ASSUME NEW s \in Sessions, CreateUser(s) PROVE AccountsInv'
  <2>1. CASE Having(RowOf(s).email) = {}
    BY <1>2, <2>1, CreateUserStep
  <2>2. CASE Having(RowOf(s).email) # {}
    <3>1. Abort(s, 409) /\ pc[s] = "user"
      BY <1>2, <2>2 DEF CreateUser
    <3>2. pc[s] \notin {"down", "up", "idle", "answered"}
      BY <3>1
    <3> QED
      BY <2>2, <3>1, <3>2, AbortStep
  <2> QED
    BY <2>1, <2>2
<1>3. ASSUME NEW s \in Sessions, Fail(s) PROVE AccountsInv'
  <2>1. Abort(s, 500) /\ pc[s] \notin {"down", "up", "idle", "answered"}
    BY <1>3 DEF Fail
  <2> QED
    BY <2>1, AbortStep
<1> QED
  BY <1>1, <1>2, <1>3, ReceiveStep, RegisterLookupStep, LoginLookupStep, LoginAuditStep,
     ReturnStep, StartStep, CrashStep, InsertStep, CommitStep DEF Next, Account

\* The inductive invariant holds of every behaviour.
THEOREM AccountsCorrect == Spec => []AccountsInv
  BY InitAccounts, NextAccounts, PTL DEF Spec

\* The type invariant of the specification.
THEOREM TypeCorrect == Spec => []TypeOK
<1>1. AccountsInv => TypeOK
  BY DEF AccountsInv
<1> QED
  BY <1>1, AccountsCorrect, PTL

\* However many registrations, restarts and failures interleave, an address has one
\* account, and every account has its wallet and the audit row of its creation.
THEOREM Complete == Spec => []AccountsComplete
<1>1. AccountsInv => AccountsComplete
  BY DEF AccountsInv
<1> QED
  BY <1>1, AccountsCorrect, PTL

\* A 201, a 409 and a token are true when they are given and stay so.
THEOREM Replies == Spec => []RepliesAreTrue
<1>1. AccountsInv => RepliesAreTrue
  BY DEF AccountsInv
<1> QED
  BY <1>1, AccountsCorrect, PTL

\* A login is refused only for an account that was not there when it arrived, or for
\* the admin's if its configured address is not the one that Login looks up.
THEOREM Refusals == Spec => []RefusalsAreTrue
<1>1. AccountsInv => RefusalsAreTrue
  BY DEF AccountsInv
<1> QED
  BY <1>1, AccountsCorrect, PTL

\* If the admin's address is configured in a spelling that Login does not look up, no
\* login is ever given a token of an administrator.
THEOREM OutOfReach == Spec => []AdminOutOfReach
<1>1. AccountsInv => AdminOutOfReach
  <2> SUFFICES ASSUME AccountsInv, Normalize(adminEmail) # adminEmail,
                      NEW c \in Callers, pc[c] = "answered", reply[c].status = 200
               PROVE  users[reply[c].token].role = "user"
    BY DEF AdminOutOfReach
  <2> DEFINE i == reply[c].token
  <2>1. req[c] \in Requests /\ i \in Having(Normalize(req[c].email))
    BY DEF AccountsInv, CallerInv, RepliesAreTrue
  <2>2. i \in DOMAIN users /\ users[i].email = Normalize(req[c].email)
    BY <2>1 DEF Having
  <2>3. Normalize(users[i].email) = users[i].email
    BY <2>1, <2>2, NormalizeAssumption DEF Requests
  <2>4. users[i] \in UserRow /\ Stored(users[i])
    BY <2>2, UsersFacts DEF AccountsInv, SeedInv
  <2> QED
    BY <2>2, <2>3, <2>4 DEF Stored, UserRow
<1> QED
  BY <1>1, AccountsCorrect, PTL

\* While any process serves, the admin's address is the seeded admin's.
THEOREM AdminSeeded == Spec => []AdminIsSeeded
<1>1. AccountsInv => AdminIsSeeded
  BY DEF AccountsInv, SeedInv, AdminIsSeeded
<1> QED
  BY <1>1, AccountsCorrect, PTL
=============================================================================
