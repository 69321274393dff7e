------------------------- MODULE AccountStoreProofs -------------------------
(***************************************************************************)
(* Proofs about AccountStore, for any users, workers, addresses, amounts   *)
(* and any database kept from an earlier server.                           *)
(*                                                                         *)
(* The calls write back rows they read earlier, so what the table holds    *)
(* depends on what the calls in progress hold.  The inductive invariant    *)
(* IInv therefore says of every local row what it says of the table (it    *)
(* is well typed, solvent and describes a session completely or not at     *)
(* all), and of a transfer past its checks that the debit still leaves the *)
(* row it will write solvent.                                              *)
(***************************************************************************)
EXTENDS AccountStore, TLAPS

GoodRow(r) ==
    /\ r \in Row
    /\ Coherent(r)
    /\ r.balance >= 0

GoodTable(rows) ==
    /\ PrimaryKey(rows)
    /\ \A r \in rows : GoodRow(r)

\* What each worker's program counter says of its request and of its rows.
RegisterCall(w) ==
    pc[w] \in {"register_check", "register_replace"} => req[w].op = "register"

LoginCall(w) ==
    pc[w] \in {"login_check", "login_online", "login_update"} =>
        /\ req[w].op = "login"
        /\ pc[w] # "login_check" => own[w] # NoRow

LogoutCall(w) ==
    pc[w] \in {"logout_check", "logout_update"} =>
        /\ req[w].op = "logout"
        /\ pc[w] = "logout_update" => own[w] # NoRow

TransferCall(w) ==
    pc[w] \in {"sender_check", "receiver_check", "debit", "credit"} =>
        /\ req[w].op = "transaction"
        /\ req[w].pay > 0
        /\ pc[w] \in {"debit", "credit"} =>
              /\ own[w] # NoRow
              /\ other[w] # NoRow
              /\ ~Bankrupt(own[w], req[w].pay)

LocalRows(w) ==
    /\ own[w] # NoRow => GoodRow(own[w])
    /\ other[w] # NoRow => GoodRow(other[w])

WorkerInv(w) ==
    /\ RegisterCall(w)
    /\ LoginCall(w)
    /\ LogoutCall(w)
    /\ TransferCall(w)
    /\ LocalRows(w)

IInv ==
    /\ TypeOK
    /\ GoodTable(clients)
    /\ \A w \in Workers : WorkerInv(w)

-----------------------------------------------------------------------------
(***************************************************************************)
(* The rows the calls write are good rows.                                 *)
(***************************************************************************)

\* Truncating division of a non-negative amount yields a natural number.
LEMMA DivNat ==
    ASSUME NEW n \in Int, n >= 0, NEW k \in Nat \ {0}
    PROVE  n \div k \in Int /\ n \div k >= 0
OBVIOUS

\* user_register's new row is offline and owns the initial balance.
LEMMA NewUserGood ==
    ASSUME NEW u \in Users
    PROVE  GoodRow(NewUser(u))
BY StoreAssumption DEF NewUser, GoodRow, Row, Coherent

\* user_login's row has the whole session.
LEMMA LoggedInGood ==
    ASSUME NEW r, GoodRow(r), NEW a \in Addrs, NEW p \in Ports
    PROVE  GoodRow(LoggedIn(r, a, p))
BY StoreAssumption DEF LoggedIn, GoodRow, Row, Coherent

\* user_logout's row has none of it.
LEMMA LoggedOutGood ==
    ASSUME NEW r, GoodRow(r)
    PROVE  GoodRow(LoggedOut(r))
<1> DEFINE s == LoggedOut(r)
<1>1. r \in Row /\ r.balance >= 0
  BY DEF GoodRow
<1>2. s \in Row
  BY <1>1 DEF LoggedOut, Row
<1>3. s.addr = NoAddr /\ s.private_port = NoPort /\ s.online_status = 0
        /\ s.balance = r.balance
  BY <1>1 DEF LoggedOut, Row
<1>4. Coherent(s)
  BY <1>3 DEF Coherent
<1> HIDE DEF s
<1> QED
  BY <1>1, <1>2, <1>3, <1>4 DEF GoodRow, s

\* A debit that the bankruptcy check let through leaves the row solvent.
LEMMA DebitedGood ==
    ASSUME NEW r, GoodRow(r), NEW x \in Int, ~Bankrupt(r, x)
    PROVE  GoodRow(Debited(r, x))
<1> DEFINE n == r.balance * Scale - x
<1>1. n \in Int /\ n >= 0
  BY StoreAssumption DEF GoodRow, Row, Bankrupt
<1>2. n \div Scale \in Int /\ n \div Scale >= 0
  BY <1>1, DivNat, StoreAssumption
<1>3. Debited(r, x) = [r EXCEPT !.balance = n \div Scale]
  BY DEF Debited
<1> QED
  BY <1>2, <1>3 DEF GoodRow, Row, Coherent

\* A credit of a positive amount leaves the row solvent.
LEMMA CreditedGood ==
    ASSUME NEW r, GoodRow(r), NEW x \in Int, x > 0
    PROVE  GoodRow(Credited(r, x))
<1> DEFINE n == r.balance * Scale + x
<1>1. n \in Int /\ n >= 0
  BY StoreAssumption DEF GoodRow, Row
<1>2. n \div Scale \in Int /\ n \div Scale >= 0
  BY <1>1, DivNat, StoreAssumption
<1>3. Credited(r, x) = [r EXCEPT !.balance = n \div Scale]
  BY DEF Credited
<1> QED
  BY <1>2, <1>3 DEF GoodRow, Row, Coherent

(***************************************************************************)
(* The two writes keep a good table good and drop no user.                 *)
(***************************************************************************)
LEMMA ReplaceGood ==
    ASSUME GoodTable(clients), NEW row, GoodRow(row)
    PROVE  GoodTable(Replace(row))
BY DEF GoodTable, PrimaryKey, Replace

LEMMA UpdateGood ==
    ASSUME GoodTable(clients), NEW row, GoodRow(row)
    PROVE  GoodTable(Update(row))
BY ReplaceGood DEF Update

LEMMA ReplaceKeepsUsers ==
    ASSUME NEW row
    PROVE  Usernames \cup {row.username} = {r.username : r \in Replace(row)}
BY DEF Usernames, Replace

LEMMA UpdateKeepsUsers ==
    ASSUME NEW row
    PROVE  Usernames = {r.username : r \in Update(row)}
BY ReplaceKeepsUsers DEF Update, Named, Usernames

\* A good table is a set of rows.
LEMMA GoodTableRows ==
    ASSUME NEW rows, GoodTable(rows)
    PROVE  rows \subseteq Row
BY DEF GoodTable, GoodRow

(***************************************************************************)
(* A step of one worker leaves what is known of the others alone.          *)
(***************************************************************************)
LEMMA OthersUndisturbed ==
    ASSUME NEW v, WorkerInv(v), pc'[v] = pc[v], req'[v] = req[v],
           own'[v] = own[v], other'[v] = other[v]
    PROVE  WorkerInv(v)'
BY DEF WorkerInv, RegisterCall, LoginCall, LogoutCall, TransferCall, LocalRows

\* Ending a call keeps the invariant whenever the table stays good.
LEMMA ReturnKeeps ==
    ASSUME IInv, NEW w \in Workers, NEW code \in Replies, Return(w, code),
           GoodTable(clients')
    PROVE  IInv'
<1>1. TypeOK'
  BY GoodTableRows DEF IInv, TypeOK, Return
<1>2. ASSUME NEW v \in Workers
      PROVE  WorkerInv(v)'
  <2>1. CASE v = w
    BY <2>1 DEF IInv, TypeOK, Return, WorkerInv, RegisterCall, LoginCall,
                LogoutCall, TransferCall, LocalRows
  <2>2. CASE v # w
    <3>1. /\ pc'[v] = pc[v] /\ req'[v] = req[v]
          /\ own'[v] = own[v] /\ other'[v] = other[v]
      BY <2>2 DEF IInv, TypeOK, Return
    <3> QED
      BY <3>1, OthersUndisturbed DEF IInv
  <2> QED
    BY <2>1, <2>2
<1> QED
  BY <1>1, <1>2 DEF IInv

\* So does going on to the next statement, if the worker's own part holds.
LEMMA GotoKeeps ==
    ASSUME IInv, NEW w \in Workers, NEW l \in Statements, Goto(w, l),
           NEW r \in Row \cup {NoRow}, own' = [own EXCEPT ![w] = r],
           NEW s \in Row \cup {NoRow}, other' = [other EXCEPT ![w] = s],
           GoodTable(clients'), WorkerInv(w)'
    PROVE  IInv'
<1>1. TypeOK'
  BY GoodTableRows DEF IInv, TypeOK, Goto
<1>2. ASSUME NEW v \in Workers
      PROVE  WorkerInv(v)'
  <2>1. CASE v = w
    BY <2>1
  <2>2. CASE v # w
    <3>1. /\ pc'[v] = pc[v] /\ req'[v] = req[v]
          /\ own'[v] = own[v] /\ other'[v] = other[v]
      BY <2>2 DEF IInv, TypeOK, Goto
    <3> QED
      BY <3>1, OthersUndisturbed DEF IInv
  <2> QED
    BY <2>1, <2>2
<1> QED
  BY <1>1, <1>2 DEF IInv

(***************************************************************************)
(* Each statement keeps the invariant.                                     *)
(***************************************************************************)
LEMMA CallKeeps ==
    ASSUME IInv, NEW w \in Workers, NEW r \in Requests,
           Call(w, r) \/ RejectedCall(w, r)
    PROVE  IInv'
<1>1. CASE Call(w, r)
  <2>1. r.op \in {"register", "login", "logout", "transaction", "list"}
    BY DEF Requests
  <2>2. FirstStatement[r.op] \in Statements
    BY <2>1 DEF FirstStatement, Statements
  <2>3. TypeOK'
    BY <1>1, <2>2 DEF IInv, TypeOK, Call, Replies
  <2>4. GoodTable(clients')
    BY <1>1 DEF IInv, Call
  <2>5. pc'[w] = FirstStatement[r.op] /\ req'[w] = r
          /\ own'[w] = own[w] /\ other'[w] = other[w]
    BY <1>1 DEF IInv, TypeOK, Call
  <2>6. r.op = "transaction" => r.pay > 0
    <3> SUFFICES ASSUME r.op = "transaction" PROVE r.pay > 0
      OBVIOUS
    <3>1. r.pay \in Int
      BY StoreAssumption DEF Requests
    <3> QED
      BY <1>1, <3>1 DEF Call, Rejected
  <2>7. WorkerInv(w)'
    BY <2>1, <2>5, <2>6 DEF IInv, WorkerInv, RegisterCall, LoginCall,
       LogoutCall, TransferCall, LocalRows, FirstStatement
  <2>8. ASSUME NEW v \in Workers, v # w
        PROVE  WorkerInv(v)'
    <3>1. /\ pc'[v] = pc[v] /\ req'[v] = req[v]
          /\ own'[v] = own[v] /\ other'[v] = other[v]
      BY <1>1, <2>8 DEF IInv, TypeOK, Call
    <3> QED
      BY <3>1, OthersUndisturbed DEF IInv
  <2> QED
    BY <2>3, <2>4, <2>7, <2>8 DEF IInv
<1>2. CASE RejectedCall(w, r)
  <2>1. TypeOK'
    BY <1>2 DEF IInv, TypeOK, RejectedCall, Replies
  <2>2. UNCHANGED <<clients, pc, req, own, other>>
    BY <1>2 DEF RejectedCall
  <2> QED
    BY <2>1, <2>2 DEF IInv, WorkerInv, RegisterCall, LoginCall, LogoutCall,
       TransferCall, LocalRows
<1> QED
  BY <1>1, <1>2

LEMMA RegisterKeeps ==
    ASSUME IInv, NEW w \in Workers, RegisterCheck(w) \/ RegisterReplace(w)
    PROVE  IInv'
<1>1. own[w] \in Row \cup {NoRow} /\ other[w] \in Row \cup {NoRow}
        /\ own = [own EXCEPT ![w] = own[w]]
        /\ other = [other EXCEPT ![w] = other[w]]
  BY DEF IInv, TypeOK
<1>2. pc[w] \in {"register_check", "register_replace"}
  BY DEF RegisterCheck, RegisterReplace
<1>3. req[w].op = "register" /\ LocalRows(w) /\ req[w] \in Requests \cup {NoRequest}
  BY <1>2 DEF IInv, TypeOK, WorkerInv, RegisterCall
<1>4. CASE RegisterCheck(w) /\ Named(req[w].username) # {}
  <2>1. Return(w, "REGISTER_FAIL") /\ clients' = clients
    BY <1>4 DEF RegisterCheck
  <2> QED
    BY <2>1, ReturnKeeps DEF Replies, IInv
<1>5. CASE RegisterCheck(w) /\ Named(req[w].username) = {}
  <2>1. Goto(w, "register_replace") /\ UNCHANGED <<clients, own, other>>
    BY <1>5 DEF RegisterCheck
  <2>2. GoodTable(clients')
    BY <2>1 DEF IInv
  <2>3. pc'[w] = "register_replace" /\ req'[w] = req[w]
    BY <2>1 DEF Goto, IInv, TypeOK
  <2>4. WorkerInv(w)'
    BY <1>3, <2>1, <2>3 DEF WorkerInv, RegisterCall, LoginCall, LogoutCall,
       TransferCall, LocalRows
  <2> QED
    BY <1>1, <2>1, <2>2, <2>4, GotoKeeps DEF Statements
<1>6. CASE RegisterReplace(w)
  <2>1. req[w].username \in Users
    BY <1>3 DEF Requests, NoRequest
  <2>2. GoodTable(clients')
    BY <1>6, <2>1, NewUserGood, ReplaceGood DEF RegisterReplace, IInv
  <2> QED
    BY <1>6, <2>2, ReturnKeeps DEF RegisterReplace, Replies
<1> QED
  BY <1>4, <1>5, <1>6

LEMMA LoginKeeps ==
    ASSUME IInv, NEW w \in Workers,
           LoginCheck(w) \/ LoginOnline(w) \/ LoginUpdate(w)
    PROVE  IInv'
<1>1. own[w] \in Row \cup {NoRow} /\ other[w] \in Row \cup {NoRow}
        /\ own = [own EXCEPT ![w] = own[w]]
        /\ other = [other EXCEPT ![w] = other[w]]
  BY DEF IInv, TypeOK
<1>2. pc[w] \in {"login_check", "login_online", "login_update"}
  BY DEF LoginCheck, LoginOnline, LoginUpdate
<1>3. req[w].op = "login" /\ (pc[w] # "login_check" => own[w] # NoRow)
        /\ LocalRows(w) /\ req[w] \in Requests \cup {NoRequest}
  BY <1>2 DEF IInv, TypeOK, WorkerInv, LoginCall
<1>4. CASE LoginCheck(w)
  <2>1. clients' = clients /\ GoodTable(clients')
    BY <1>4 DEF LoginCheck, IInv
  <2>2. CASE Return(w, "LOGIN_AUTH_FAIL")
    BY <2>1, <2>2, ReturnKeeps DEF Replies
  <2>3. ASSUME NEW row \in Named(req[w].username),
               own' = [own EXCEPT ![w] = row], Goto(w, "login_online"),
               UNCHANGED other
        PROVE  IInv'
    <3>1. row \in Row /\ GoodRow(row) /\ row # NoRow
      BY StoreAssumption DEF Named, IInv, GoodTable, GoodRow
    <3>2. pc'[w] = "login_online" /\ req'[w] = req[w] /\ own'[w] = row
      BY <2>3 DEF Goto, IInv, TypeOK
    <3>3. WorkerInv(w)'
      BY <1>3, <2>3, <3>1, <3>2 DEF WorkerInv, RegisterCall, LoginCall,
         LogoutCall, TransferCall, LocalRows
    <3> QED
      BY <1>1, <2>1, <2>3, <3>1, <3>3, GotoKeeps DEF Statements
  <2> QED
    BY <1>4, <2>2, <2>3 DEF LoginCheck
<1>5. CASE LoginOnline(w)
  <2>1. clients' = clients /\ GoodTable(clients')
    BY <1>5 DEF LoginOnline, IInv
  <2>2. CASE Return(w, "LOGIN_EXIST")
    BY <2>1, <2>2, ReturnKeeps DEF Replies
  <2>3. CASE Goto(w, "login_update") /\ UNCHANGED <<own, other>>
    <3>1. pc'[w] = "login_update" /\ req'[w] = req[w]
      BY <2>3 DEF Goto, IInv, TypeOK
    <3>2. own[w] # NoRow
      BY <1>3, <1>5 DEF LoginOnline
    <3>3. WorkerInv(w)'
      BY <1>3, <2>3, <3>1, <3>2 DEF WorkerInv, RegisterCall, LoginCall,
         LogoutCall, TransferCall, LocalRows
    <3> QED
      BY <1>1, <2>1, <2>3, <3>3, GotoKeeps DEF Statements
  <2> QED
    BY <1>5, <2>2, <2>3 DEF LoginOnline
<1>6. CASE LoginUpdate(w)
  <2>1. GoodRow(own[w])
    BY <1>3, <1>6 DEF LoginUpdate, LocalRows
  <2>2. req[w].addr \in Addrs /\ req[w].private_port \in Ports
    BY <1>3 DEF Requests, NoRequest
  <2>3. GoodTable(clients')
    BY <1>6, <2>1, <2>2, LoggedInGood, UpdateGood DEF LoginUpdate, IInv
  <2> QED
    BY <1>6, <2>3, ReturnKeeps DEF LoginUpdate, Replies
<1> QED
  BY <1>4, <1>5, <1>6

LEMMA LogoutKeeps ==
    ASSUME IInv, NEW w \in Workers, LogoutCheck(w) \/ LogoutUpdate(w)
    PROVE  IInv'
<1>1. other[w] \in Row \cup {NoRow} /\ other = [other EXCEPT ![w] = other[w]]
  BY DEF IInv, TypeOK
<1>2. pc[w] \in {"logout_check", "logout_update"}
  BY DEF LogoutCheck, LogoutUpdate
<1>3. req[w].op = "logout" /\ (pc[w] = "logout_update" => own[w] # NoRow)
        /\ LocalRows(w)
  BY <1>2 DEF IInv, WorkerInv, LogoutCall
<1>4. CASE LogoutCheck(w)
  <2>1. clients' = clients /\ GoodTable(clients')
    BY <1>4 DEF LogoutCheck, IInv
  <2>2. CASE Return(w, "LOGOUT_FAIL")
    BY <2>1, <2>2, ReturnKeeps DEF Replies
  <2>3. ASSUME NEW row \in clients,
               own' = [own EXCEPT ![w] = row], Goto(w, "logout_update"),
               UNCHANGED other
        PROVE  IInv'
    <3>1. row \in Row /\ GoodRow(row) /\ row # NoRow
      BY StoreAssumption DEF IInv, GoodTable, GoodRow
    <3>2. pc'[w] = "logout_update" /\ req'[w] = req[w] /\ own'[w] = row
      BY <2>3 DEF Goto, IInv, TypeOK
    <3>3. WorkerInv(w)'
      BY <1>3, <2>3, <3>1, <3>2 DEF WorkerInv, RegisterCall, LoginCall,
         LogoutCall, TransferCall, LocalRows
    <3> QED
      BY <1>1, <2>1, <2>3, <3>1, <3>3, GotoKeeps DEF Statements
  <2> QED
    BY <1>4, <2>2, <2>3 DEF LogoutCheck
<1>5. CASE LogoutUpdate(w)
  <2>1. GoodRow(own[w])
    BY <1>3, <1>5 DEF LogoutUpdate, LocalRows
  <2>2. GoodTable(clients')
    BY <1>5, <2>1, LoggedOutGood, UpdateGood DEF LogoutUpdate, IInv
  <2> QED
    BY <1>5, <2>2, ReturnKeeps DEF LogoutUpdate, Replies
<1> QED
  BY <1>4, <1>5

LEMMA TransferKeeps ==
    ASSUME IInv, NEW w \in Workers,
           SenderCheck(w) \/ ReceiverCheck(w) \/ Debit(w) \/ Credit(w)
    PROVE  IInv'
<1>1. own[w] \in Row \cup {NoRow} /\ other[w] \in Row \cup {NoRow}
        /\ own = [own EXCEPT ![w] = own[w]]
        /\ other = [other EXCEPT ![w] = other[w]]
  BY DEF IInv, TypeOK
<1>2. pc[w] \in {"sender_check", "receiver_check", "debit", "credit"}
  BY DEF SenderCheck, ReceiverCheck, Debit, Credit
<1>3. /\ req[w].op = "transaction" /\ req[w].pay > 0
      /\ pc[w] \in {"debit", "credit"} =>
            own[w] # NoRow /\ other[w] # NoRow /\ ~Bankrupt(own[w], req[w].pay)
      /\ LocalRows(w)
      /\ req[w] \in Requests \cup {NoRequest}
  BY <1>2 DEF IInv, TypeOK, WorkerInv, TransferCall
<1>4. req[w].pay \in Int
  <2>1. req[w] \in Requests
    BY <1>3 DEF NoRequest
  <2>2. req[w].pay \in Amounts
    BY <1>3, <2>1 DEF Requests
  <2> QED
    BY <2>2, StoreAssumption
<1>5. CASE SenderCheck(w)
  <2>1. /\ clients' = clients /\ GoodTable(clients')
        /\ Goto(w, "receiver_check") /\ other' = other
    BY <1>5 DEF SenderCheck, IInv
  <2>2. pc'[w] = "receiver_check" /\ req'[w] = req[w]
    BY <2>1 DEF Goto, IInv, TypeOK
  <2>3. PICK row \in Row \cup {NoRow} :
           own' = [own EXCEPT ![w] = row] /\ (row # NoRow => GoodRow(row))
    <3>1. CASE UNCHANGED own
      BY <1>1, <1>3, <3>1 DEF LocalRows
    <3>2. CASE \E row \in clients : own' = [own EXCEPT ![w] = row]
      BY <3>2 DEF IInv, GoodTable, GoodRow
    <3> QED
      BY <1>5, <3>1, <3>2 DEF SenderCheck
  <2>4. own'[w] = row
    BY <2>3 DEF IInv, TypeOK
  <2>5. WorkerInv(w)'
    BY <1>3, <2>1, <2>2, <2>3, <2>4 DEF WorkerInv, RegisterCall, LoginCall,
       LogoutCall, TransferCall, LocalRows
  <2> QED
    BY <1>1, <2>1, <2>3, <2>5, GotoKeeps DEF Statements
<1>6. CASE ReceiverCheck(w)
  <2>1. clients' = clients /\ GoodTable(clients')
    BY <1>6 DEF ReceiverCheck, IInv
  <2>2. CASE Return(w, "TRANSFER_FAIL") \/ Return(w, "TRANSFER_SENDER_BANKRUPT")
    BY <2>1, <2>2, ReturnKeeps DEF Replies
  <2>3. ASSUME NEW row \in clients, own[w] # NoRow,
               ~Bankrupt(own[w], req[w].pay),
               other' = [other EXCEPT ![w] = row], Goto(w, "debit"),
               UNCHANGED own
        PROVE  IInv'
    <3>1. row \in Row /\ GoodRow(row) /\ row # NoRow
      BY StoreAssumption DEF IInv, GoodTable, GoodRow
    <3>2. pc'[w] = "debit" /\ req'[w] = req[w] /\ own'[w] = own[w]
            /\ other'[w] = row
      BY <2>3 DEF Goto, IInv, TypeOK
    <3>3. ~Bankrupt(own[w], req[w].pay)'
      BY <2>3, <3>2 DEF Bankrupt
    <3>4. WorkerInv(w)'
      BY <1>3, <2>3, <3>1, <3>2, <3>3 DEF WorkerInv, RegisterCall, LoginCall,
         LogoutCall, TransferCall, LocalRows
    <3> QED
      BY <1>1, <2>1, <2>3, <3>1, <3>4, GotoKeeps DEF Statements
  <2> QED
    BY <1>6, <2>2, <2>3 DEF ReceiverCheck
<1>7. CASE Debit(w)
  <2>1. GoodRow(own[w]) /\ ~Bankrupt(own[w], req[w].pay)
    BY <1>3, <1>7 DEF Debit, LocalRows
  <2>2. GoodTable(clients')
    BY <1>4, <1>7, <2>1, DebitedGood, UpdateGood DEF Debit, IInv
  <2>3. Goto(w, "credit") /\ own' = own /\ other' = other
    BY <1>7 DEF Debit
  <2>4. pc'[w] = "credit" /\ req'[w] = req[w]
    BY <2>3 DEF Goto, IInv, TypeOK
  <2>5. ~Bankrupt(own[w], req[w].pay)'
    BY <2>1, <2>3, <2>4 DEF Bankrupt
  <2>6. own[w] # NoRow /\ other[w] # NoRow
    BY <1>3, <1>7 DEF Debit
  <2>7. WorkerInv(w)'
    BY <1>3, <2>3, <2>4, <2>5, <2>6 DEF WorkerInv, RegisterCall, LoginCall,
       LogoutCall, TransferCall, LocalRows
  <2> QED
    BY <1>1, <2>2, <2>3, <2>7, GotoKeeps DEF Statements
<1>8. CASE Credit(w)
  <2>1. GoodRow(other[w])
    BY <1>3, <1>8 DEF Credit, LocalRows
  <2>2. GoodTable(clients')
    BY <1>3, <1>4, <1>8, <2>1, CreditedGood, UpdateGood DEF Credit, IInv
  <2> QED
    BY <1>8, <2>2, ReturnKeeps DEF Credit, Replies
<1> QED
  BY <1>5, <1>6, <1>7, <1>8

LEMMA ListOrBusyKeeps ==
    ASSUME IInv, NEW w \in Workers, ListSelect(w) \/ Busy(w)
    PROVE  IInv'
<1>1. Return(w, "rows") \/ Return(w, "SQLITE_BUSY")
  BY DEF ListSelect, Busy
<1>2. GoodTable(clients')
  BY DEF ListSelect, Busy, IInv
<1> QED
  BY <1>1, <1>2, ReturnKeeps DEF Replies

-----------------------------------------------------------------------------

LEMMA InitEstablishes == Init => IInv
<1> SUFFICES ASSUME Init PROVE IInv
  OBVIOUS
<1>1. GoodTable(clients)
  BY StoreAssumption DEF Init, GoodTable, GoodRow
<1>2. TypeOK
  BY StoreAssumption DEF Init, TypeOK, Replies
<1>3. \A w \in Workers : WorkerInv(w)
  BY DEF Init, WorkerInv, RegisterCall, LoginCall, LogoutCall, TransferCall,
         LocalRows
<1> QED
  BY <1>1, <1>2, <1>3 DEF IInv

LEMMA StepKeeps == IInv /\ [Next]_vars => IInv'
<1> SUFFICES ASSUME IInv, [Next]_vars PROVE IInv'
  OBVIOUS
<1>1. CASE UNCHANGED vars
  BY <1>1 DEF vars, IInv, TypeOK, GoodTable, WorkerInv, RegisterCall, LoginCall,
         LogoutCall, TransferCall, LocalRows
<1>2. ASSUME NEW w \in Workers, NEW r \in Requests, Call(w, r) \/ RejectedCall(w, r)
      PROVE  IInv'
  BY <1>2, CallKeeps
<1>3. ASSUME NEW w \in Workers, Step(w)
      PROVE  IInv'
  BY <1>3, RegisterKeeps, LoginKeeps, LogoutKeeps, TransferKeeps,
     ListOrBusyKeeps DEF Step
<1> QED
  BY <1>1, <1>2, <1>3 DEF Next

\* The invariant that the safety theorems below are read off.
THEOREM Invariance == Spec => []IInv
BY InitEstablishes, StepKeeps, PTL DEF Spec

\* Type correctness of the table and of every call in progress.
THEOREM TypeCorrect == Spec => []TypeOK
<1>1. IInv => TypeOK
  BY DEF IInv
<1> QED
  BY <1>1, Invariance, PTL

\* However the calls interleave or fail, no account is overdrawn: user_transaction
\* writes the balance it checked less the amount.
THEOREM NeverOverdrawn == Spec => []NoOverdraft
<1>1. IInv => NoOverdraft
  BY DEF IInv, GoodTable, GoodRow, NoOverdraft
<1> QED
  BY <1>1, Invariance, PTL

\* Every row always has a whole session or none, and each user one row.
THEOREM NeverTorn == Spec => []NoTornRow
<1>1. IInv => NoTornRow
  BY DEF IInv, GoodTable, GoodRow, NoTornRow
<1> QED
  BY <1>1, Invariance, PTL

\* A write through UPDATE leaves the set of users as it is.
LEMMA UpdateStep ==
    ASSUME NEW row, clients' = Update(row)
    PROVE  Usernames' = Usernames
BY UpdateKeepsUsers DEF Usernames

\* A step that ends no registration, with the users it had.
LEMMA NoRegistration ==
    ASSUME IInv, NEW w \in Workers, Usernames' = Usernames,
           \/ reply' = reply
           \/ \E c \in Replies \ {"REGISTER_OK"} : reply' = [reply EXCEPT ![w] = c]
    PROVE  RegistrationStep
<1>1. ASSUME NEW v \in Workers, reply[v] = "none", reply'[v] = "REGISTER_OK"
      PROVE  FALSE
  BY <1>1 DEF IInv, TypeOK
<1> QED
  BY <1>1 DEF RegistrationStep

LEMMA RegistrationSteps == IInv /\ [Next]_vars => [RegistrationStep]_vars
<1> SUFFICES ASSUME IInv, Next PROVE RegistrationStep
  OBVIOUS
<1>1. ASSUME NEW w \in Workers, NEW r \in Requests, Call(w, r) \/ RejectedCall(w, r)
      PROVE  RegistrationStep
  <2>1. Usernames' = Usernames
    BY <1>1 DEF Call, RejectedCall, Usernames
  <2>2. \E c \in Replies \ {"REGISTER_OK"} : reply' = [reply EXCEPT ![w] = c]
    BY <1>1 DEF Call, RejectedCall, Replies
  <2> QED
    BY <2>1, <2>2, NoRegistration
<1>2. ASSUME NEW w \in Workers, RegisterReplace(w)
      PROVE  RegistrationStep
  <2>1. Usernames' = Usernames \cup {req[w].username}
    <3>1. NewUser(req[w].username).username = req[w].username
      BY DEF NewUser
    <3> QED
      BY <1>2, <3>1, ReplaceKeepsUsers DEF RegisterReplace, Usernames
  <2>2. ASSUME NEW v \in Workers, reply[v] = "none", reply'[v] = "REGISTER_OK"
        PROVE  v = w
    BY <1>2, <2>2 DEF RegisterReplace, Return, IInv, TypeOK
  <2> QED
    BY <2>1, <2>2 DEF RegistrationStep
<1>3. ASSUME NEW w \in Workers, Step(w), ~RegisterReplace(w)
      PROVE  RegistrationStep
  <2>1. CASE clients' = clients
    <3>1. Usernames' = Usernames
      BY <2>1 DEF Usernames
    <3>2. \/ reply' = reply
          \/ \E c \in Replies \ {"REGISTER_OK"} : reply' = [reply EXCEPT ![w] = c]
      BY <1>3 DEF Step, RegisterCheck, LoginCheck, LoginOnline, LoginUpdate,
         LogoutCheck, LogoutUpdate, SenderCheck, ReceiverCheck, Debit, Credit,
         ListSelect, Busy, Goto, Return, Replies
    <3> QED
      BY <3>1, <3>2, NoRegistration
  <2>2. CASE LoginUpdate(w) \/ LogoutUpdate(w) \/ Debit(w) \/ Credit(w)
    <3>1. Usernames' = Usernames
      BY <2>2, UpdateStep DEF LoginUpdate, LogoutUpdate, Debit, Credit
    <3>2. \/ reply' = reply
          \/ \E c \in Replies \ {"REGISTER_OK"} : reply' = [reply EXCEPT ![w] = c]
      BY <2>2 DEF LoginUpdate, LogoutUpdate, Debit, Credit, Goto, Return, Replies
    <3> QED
      BY <3>1, <3>2, NoRegistration
  <2> QED
    BY <1>3, <2>1, <2>2 DEF Step, RegisterCheck, LoginCheck, LoginOnline,
       LogoutCheck, SenderCheck, ReceiverCheck, ListSelect, Busy
<1> QED
  BY <1>1, <1>2, <1>3 DEF Next

\* However calls interleave, a user whose registration was acknowledged is in
\* the table from then on.
THEOREM RegistrationLasts == Spec => RegistrationIsPermanent
BY Invariance, RegistrationSteps, PTL DEF Spec, RegistrationIsPermanent

=============================================================================
