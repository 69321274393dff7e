---------------------------- MODULE AccountStore ----------------------------
(***************************************************************************)
(* The account database of the payment server (src/src/Database.cpp): the  *)
(* table CLIENT and the member functions of class Database that read and   *)
(* write it.                                                               *)
(*                                                                         *)
(* Every function opens its own sqlite_orm storage and runs one to four    *)
(* statements on it.  No transaction and no lock spans two statements, so  *)
(* each statement is an atomic step of its own here, and the calls of the  *)
(* server's pool threads (Workers) interleave between any two of them.     *)
(* Writes replace a WHOLE row by the copy the call read earlier.           *)
(*                                                                         *)
(* A statement that meets a lock held by another thread's statement fails  *)
(* with SQLITE_BUSY (no busy handler is installed); sqlite_orm throws and  *)
(* the call ends there, whatever it has already written.                   *)
(*                                                                         *)
(* sync_schema() finds the schema in place and changes nothing: the table  *)
(* was synchronised when the database was reset, or by an earlier server.  *)
(***************************************************************************)
EXTENDS Integers, FiniteSets

CONSTANTS
    Users,          \* user names
    Workers,        \* threads of the pool: at most one call each at a time
    Addrs,          \* (ip, public_port) pairs: the remote ends of connections
    Ports,          \* private ports, on which clients accept peers
    NoAddr, NoPort, \* the "" / -1 of a row that is not logged in
    NoRow,          \* a local variable that holds no row yet
    Amounts,        \* transfer amounts, in 1/Scale of the unit of a balance
    Scale,
    InitialBalance, \* Database::initial_balance
    Kept            \* rows an earlier server left in the database file

Row == [username : Users, addr : Addrs \cup {NoAddr},
        private_port : Ports \cup {NoPort},
        online_status : {0, 1}, balance : Int]

\* The username column is the primary key.
PrimaryKey(rows) ==
    \A r, s \in rows : r.username = s.username => r = s

\* A row describes a session completely or not at all.
Coherent(r) ==
    /\ r.online_status = 1 <=> r.addr # NoAddr
    /\ r.online_status = 1 <=> r.private_port # NoPort

ASSUME StoreAssumption ==
    /\ NoAddr \notin Addrs
    /\ NoPort \notin Ports
    /\ NoRow \notin Row
    /\ Amounts \subseteq Int
    /\ Scale \in Nat \ {0}
    /\ InitialBalance \in Nat
    /\ Kept \subseteq Row
    /\ PrimaryKey(Kept)
    /\ \A r \in Kept : Coherent(r) /\ r.balance >= 0

\* A database file holds finitely many rows.
ASSUME KeptAssumption == IsFiniteSet(Kept)

VARIABLES
    clients,        \* the rows of table CLIENT
    pc,             \* the statement each worker runs next
    req,            \* the call each worker makes
    own,            \* check_user[0] of login and logout; sender
    other,          \* receiver
    reply           \* what the last call returned or threw; "none" while it runs

vars == <<clients, pc, req, own, other, reply>>

(***************************************************************************)
(* The calls and their statements.                                         *)
(***************************************************************************)
NoRequest == [op |-> "none"]

Requests ==
    [op : {"register"}, username : Users]
      \cup [op : {"login"}, username : Users, addr : Addrs, private_port : Ports]
      \cup [op : {"logout"}, addr : Addrs]
      \cup [op : {"transaction"}, snd : Users, rcv : Users, pay : Amounts]
      \cup [op : {"list"}]

FirstStatement ==
    [register |-> "register_check", login |-> "login_check",
     logout |-> "logout_check", transaction |-> "sender_check",
     list |-> "list_select"]

Statements ==
    {"register_check", "register_replace",
     "login_check", "login_online", "login_update",
     "logout_check", "logout_update",
     "sender_check", "receiver_check", "debit", "credit",
     "list_select"}

Replies ==
    {"none", "REGISTER_OK", "REGISTER_FAIL",
     "LOGIN_SUCCESS", "LOGIN_AUTH_FAIL", "LOGIN_EXIST",
     "LOGOUT_SUCCESS", "LOGOUT_FAIL",
     "TRANSFER_OK", "TRANSFER_FAIL", "TRANSFER_SENDER_BANKRUPT",
     "TRANSFER_SELF_FAIL", "rows", "SQLITE_BUSY"}

(***************************************************************************)
(* SELECT, REPLACE and UPDATE on the table.                                *)
(***************************************************************************)
Named(u) == {r \in clients : r.username = u}

OnlineNamed(u) == {r \in Named(u) : r.online_status = 1}

OnlineAt(a) == {r \in clients : r.addr = a /\ r.online_status = 1}

\* The result set has exactly one row.
Single(rows) == \E r \in rows : rows = {r}

Replace(row) == {r \in clients : r.username # row.username} \cup {row}

\* Mutant: writing a row that is offline removes it.
UpdateDropsOffline(row) ==
    IF row.online_status = 0 THEN clients \ Named(row.username) ELSE Replace(row)

\* Mutant: the row is written whether it is still there or not.
Upsert(row) == Replace(row)

\* An UPDATE of a row that is not there changes nothing.
Update(row) == IF Named(row.username) = {} THEN clients ELSE Replace(row)

NewUser(u) == [username |-> u, addr |-> NoAddr, private_port |-> NoPort,
               online_status |-> 0, balance |-> InitialBalance]

LoggedIn(row, a, p) == [row EXCEPT !.addr = a, !.private_port = p,
                                   !.online_status = 1]

\* Mutant: the address and the port are cleared with each other's value.
LoggedOutSwapped(row) == [row EXCEPT !.addr = NoPort, !.private_port = NoAddr,
                                     !.online_status = 0]

\* Mutant: the private port is not cleared.
LoggedOutKeepsPort(row) == [row EXCEPT !.addr = NoAddr, !.online_status = 0]

LoggedOut(row) == [row EXCEPT !.addr = NoAddr, !.private_port = NoPort,
                              !.online_status = 0]

(***************************************************************************)
(* A balance is an int and an amount a double: the check compares them     *)
(* exactly, the assignments -= and += truncate (neither result is          *)
(* negative, so truncation is \div).                                       *)
(***************************************************************************)
\* Mutant: the check asks for a balance, not for enough of it.
BankruptBefore(row, pay) == row.balance < 0

Bankrupt(row, pay) == row.balance * Scale - pay < 0

Debited(row, pay) ==
    [row EXCEPT !.balance = (row.balance * Scale - pay) \div Scale]

Credited(row, pay) ==
    [row EXCEPT !.balance = (row.balance * Scale + pay) \div Scale]

-----------------------------------------------------------------------------

Init ==
    /\ clients = Kept
    /\ pc = [w \in Workers |-> "idle"]
    /\ req = [w \in Workers |-> NoRequest]
    /\ own = [w \in Workers |-> NoRow]
    /\ other = [w \in Workers |-> NoRow]
    /\ reply = [w \in Workers |-> "none"]

Goto(w, statement) ==
    /\ pc' = [pc EXCEPT ![w] = statement]
    /\ UNCHANGED <<req, reply>>

Return(w, code) ==
    /\ pc' = [pc EXCEPT ![w] = "idle"]
    /\ reply' = [reply EXCEPT ![w] = code]
    /\ own' = [own EXCEPT ![w] = NoRow]
    /\ other' = [other EXCEPT ![w] = NoRow]
    /\ req' = [req EXCEPT ![w] = NoRequest]

\* Mutant: a payment to oneself is let through.
RejectedAmountOnly(r) == r.op = "transaction" /\ r.pay <= 0

\* user_transaction rejects an amount or a payee before any statement.
Rejected(r) == r.op = "transaction" /\ (r.pay <= 0 \/ r.snd = r.rcv)

Call(w, r) ==
    /\ pc[w] = "idle"
    /\ ~Rejected(r)
    /\ pc' = [pc EXCEPT ![w] = FirstStatement[r.op]]
    /\ req' = [req EXCEPT ![w] = r]
    /\ reply' = [reply EXCEPT ![w] = "none"]
    /\ UNCHANGED <<clients, own, other>>

RejectedCall(w, r) ==
    /\ pc[w] = "idle"
    /\ Rejected(r)
    /\ reply' = [reply EXCEPT ![w] = IF r.snd = r.rcv THEN "TRANSFER_SELF_FAIL"
                                                      ELSE "TRANSFER_FAIL"]
    /\ UNCHANGED <<clients, pc, req, own, other>>

(***************************************************************************)
(* user_register                                                           *)
(***************************************************************************)
\* Mutant: the name is not looked up.
RegisterUnchecked(w) ==
    /\ pc[w] = "register_check"
    /\ Goto(w, "register_replace")
    /\ UNCHANGED <<clients, own, other>>

RegisterCheck(w) ==
    /\ pc[w] = "register_check"
    /\ IF Named(req[w].username) # {}
       THEN Return(w, "REGISTER_FAIL")
       ELSE Goto(w, "register_replace") /\ UNCHANGED <<own, other>>
    /\ UNCHANGED clients

RegisterReplace(w) ==
    /\ pc[w] = "register_replace"
    /\ clients' = Replace(NewUser(req[w].username))
    /\ Return(w, "REGISTER_OK")

(***************************************************************************)
(* user_login                                                              *)
(***************************************************************************)
LoginCheck(w) ==
    /\ pc[w] = "login_check"
    /\ \/ /\ Named(req[w].username) = {}
          /\ Return(w, "LOGIN_AUTH_FAIL")
       \/ \E row \in Named(req[w].username) :
             /\ own' = [own EXCEPT ![w] = row]
             /\ Goto(w, "login_online")
             /\ UNCHANGED other
    /\ UNCHANGED clients

\* Mutant: the check for a session elsewhere is missing.
LoginOnlineUnchecked(w) ==
    /\ pc[w] = "login_online"
    /\ Goto(w, "login_update")
    /\ UNCHANGED <<clients, own, other>>

LoginOnline(w) ==
    /\ pc[w] = "login_online"
    /\ IF Single(OnlineNamed(req[w].username))
       THEN Return(w, "LOGIN_EXIST")
       ELSE Goto(w, "login_update") /\ UNCHANGED <<own, other>>
    /\ UNCHANGED clients

LoginUpdate(w) ==
    /\ pc[w] = "login_update"
    /\ clients' = Update(LoggedIn(own[w], req[w].addr, req[w].private_port))
    /\ Return(w, "LOGIN_SUCCESS")

(***************************************************************************)
(* user_logout: the session is found by the address of the connection.     *)
(***************************************************************************)
LogoutCheck(w) ==
    /\ pc[w] = "logout_check"
    /\ \/ /\ ~Single(OnlineAt(req[w].addr))
          /\ Return(w, "LOGOUT_FAIL")
       \/ \E row \in clients :
             /\ OnlineAt(req[w].addr) = {row}
             /\ own' = [own EXCEPT ![w] = row]
             /\ Goto(w, "logout_update")
             /\ UNCHANGED other
    /\ UNCHANGED clients

\* Mutant: the row is changed in memory only.
LogoutUnwritten(w) ==
    /\ pc[w] = "logout_update"
    /\ Return(w, "LOGOUT_SUCCESS")
    /\ UNCHANGED clients

LogoutUpdate(w) ==
    /\ pc[w] = "logout_update"
    /\ clients' = Update(LoggedOut(own[w]))
    /\ Return(w, "LOGOUT_SUCCESS")

(***************************************************************************)
(* user_transaction: both SELECTs run whatever the first one found.        *)
(***************************************************************************)
SenderCheck(w) ==
    /\ pc[w] = "sender_check"
    /\ \/ /\ ~Single(OnlineNamed(req[w].snd))
          /\ UNCHANGED own
       \/ \E row \in clients :
             /\ OnlineNamed(req[w].snd) = {row}
             /\ own' = [own EXCEPT ![w] = row]
    /\ Goto(w, "receiver_check")
    /\ UNCHANGED <<clients, other>>

ReceiverCheck(w) ==
    /\ pc[w] = "receiver_check"
    /\ \/ /\ \/ own[w] = NoRow
             \/ ~Single(OnlineNamed(req[w].rcv))
          /\ Return(w, "TRANSFER_FAIL")
       \/ \E row \in clients :
             /\ own[w] # NoRow
             /\ OnlineNamed(req[w].rcv) = {row}
             /\ IF Bankrupt(own[w], req[w].pay)
                THEN Return(w, "TRANSFER_SENDER_BANKRUPT")
                ELSE /\ other' = [other EXCEPT ![w] = row]
                     /\ Goto(w, "debit")
                     /\ UNCHANGED own
    /\ UNCHANGED clients

Debit(w) ==
    /\ pc[w] = "debit"
    /\ clients' = Update(Debited(own[w], req[w].pay))
    /\ Goto(w, "credit")
    /\ UNCHANGED <<own, other>>

Credit(w) ==
    /\ pc[w] = "credit"
    /\ clients' = Update(Credited(other[w], req[w].pay))
    /\ Return(w, "TRANSFER_OK")

(***************************************************************************)
(* user_info, list and user_num: one SELECT, nothing written.              *)
(***************************************************************************)
ListSelect(w) ==
    /\ pc[w] = "list_select"
    /\ Return(w, "rows")
    /\ UNCHANGED clients

(***************************************************************************)
(* The statement fails because a statement of another call holds the lock. *)
(***************************************************************************)
Busy(w) ==
    /\ pc[w] # "idle"
    /\ \E v \in Workers \ {w} : pc[v] # "idle"
    /\ Return(w, "SQLITE_BUSY")
    /\ UNCHANGED clients

-----------------------------------------------------------------------------

Step(w) ==
    \/ RegisterCheck(w) \/ RegisterReplace(w)
    \/ LoginCheck(w) \/ LoginOnline(w) \/ LoginUpdate(w)
    \/ LogoutCheck(w) \/ LogoutUpdate(w)
    \/ SenderCheck(w) \/ ReceiverCheck(w) \/ Debit(w) \/ Credit(w)
    \/ ListSelect(w)
    \/ Busy(w)

Next ==
    \E w \in Workers :
        \/ \E r \in Requests : Call(w, r)
        \/ \E r \in Requests : RejectedCall(w, r)
        \/ Step(w)

Spec == Init /\ [][Next]_vars

-----------------------------------------------------------------------------
(***************************************************************************)
(* What holds however the calls interleave.                                *)
(***************************************************************************)

\* The types of the table, of each call and of the rows it has read; a call
\* has read the rows that its next statement uses.
TypeOK ==
    /\ clients \subseteq Row
    /\ pc \in [Workers -> Statements \cup {"idle"}]
    /\ req \in [Workers -> Requests \cup {NoRequest}]
    /\ own \in [Workers -> Row \cup {NoRow}]
    /\ other \in [Workers -> Row \cup {NoRow}]
    /\ reply \in [Workers -> Replies]

\* No account is ever overdrawn.  The check of user_transaction looks at a
\* balance that may be long stale when the debit is written; the account
\* stays solvent because the write stores the checked balance less the
\* amount, not the current balance less the amount (Database.cpp:185-190).
NoOverdraft == \A r \in clients : r.balance >= 0

\* No interleaving of whole-row writes leaves half a session in the table or
\* two rows for one user: a user is online exactly when the row has the
\* address and the private port peers are told to connect to.
NoTornRow == PrimaryKey(clients) /\ \A r \in clients : Coherent(r)

\* An acknowledged registration is never lost: user_register returns
\* REGISTER_OK only with the user in the table, and no later write of any call,
\* made from however old a copy, takes a user out of it.
Usernames == {r.username : r \in clients}

RegistrationStep ==
    /\ Usernames \subseteq Usernames'
    /\ \A w \in Workers :
          reply[w] = "none" /\ reply'[w] = "REGISTER_OK"
             => req[w].username \in Usernames'

RegistrationIsPermanent == [][RegistrationStep]_vars

=============================================================================
