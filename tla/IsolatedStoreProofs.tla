------------------------- MODULE IsolatedStoreProofs -------------------------
(***************************************************************************)
(* Proofs about the calls of the account database while the ones in        *)
(* progress concern different users, for any users, workers, addresses,    *)
(* amounts and any kept database.                                          *)
(*                                                                         *)
(* The inductive invariant says that what a call has read is still what    *)
(* the table holds: no other worker can have written those rows.           *)
(*                                                                         *)
(* That makes the database a bank, and the money of all users together a   *)
(* sum that each step of the bank moves in a known way.                    *)
(***************************************************************************)
EXTENDS StoreMoney, AccountStoreProofs, FiniteSetTheorems, WellFoundedInduction

\* Nothing has been read before and at the start of a call.
NothingRead(w) ==
    pc[w] \in {"idle", "login_check", "logout_check", "sender_check"} => own[w] = NoRow

NameFree(w) ==
    pc[w] = "register_replace" => Named(req[w].username) = {}

LoginRowCurrent(w) ==
    /\ pc[w] \in {"login_online", "login_update"} =>
          Named(req[w].username) = {own[w]}
    /\ pc[w] = "login_update" => own[w].online_status = 0

LogoutRowCurrent(w) ==
    pc[w] = "logout_update" => OnlineAt(req[w].addr) = {own[w]}

SenderCurrent(w) ==
    /\ pc[w] = "receiver_check" /\ own[w] = NoRow => OnlineNamed(req[w].snd) = {}
    /\ pc[w] \in {"receiver_check", "debit"} /\ own[w] # NoRow =>
          OnlineNamed(req[w].snd) = {own[w]}
    /\ pc[w] = "credit" =>
          OnlineNamed(req[w].snd) = {Debited(own[w], req[w].pay)}

ReceiverCurrent(w) ==
    pc[w] \in {"debit", "credit"} => OnlineNamed(req[w].rcv) = {other[w]}

PayeeDiffers(w) ==
    InTransfer(w) => req[w].snd # req[w].rcv

Current(w) ==
    /\ NothingRead(w)
    /\ NameFree(w)
    /\ LoginRowCurrent(w)
    /\ LogoutRowCurrent(w)
    /\ SenderCurrent(w)
    /\ ReceiverCurrent(w)
    /\ PayeeDiffers(w)

IsolatedInv ==
    /\ IInv
    /\ Isolated
    /\ \A w \in Workers : Current(w)

-----------------------------------------------------------------------------
(***************************************************************************)
(* The table under its primary key.                                        *)
(***************************************************************************)
LEMMA OneRow ==
    ASSUME GoodTable(clients), NEW r \in clients
    PROVE  Named(r.username) = {r} /\ RowOf(r.username, clients) = r
BY DEF GoodTable, PrimaryKey, Named, RowOf

\* A result set on one name that is not a single row is empty.
LEMMA NoneOnline ==
    ASSUME GoodTable(clients), NEW u, ~Single(OnlineNamed(u))
    PROVE  OnlineNamed(u) = {}
BY DEF GoodTable, PrimaryKey, Named, OnlineNamed, Single

LEMMA ReplaceOthers ==
    ASSUME GoodTable(clients), NEW row, clients' = Replace(row),
           NEW u, u # row.username
    PROVE  /\ Named(u)' = Named(u)
           /\ OnlineNamed(u)' = OnlineNamed(u)
           /\ RowOf(u, clients)' = RowOf(u, clients)
<1>1. Named(u)' = Named(u)
  BY DEF Named, Replace
<1>2. RowOf(u, clients)' = RowOf(u, clients)
  <2>1. \A r : r \in clients' /\ r.username = u <=> r \in clients /\ r.username = u
    BY DEF Replace
  <2> QED
    BY <2>1 DEF RowOf
<1> QED
  BY <1>1, <1>2 DEF OnlineNamed

LEMMA ReplaceOwn ==
    ASSUME GoodTable(clients), NEW row, clients' = Replace(row)
    PROVE  /\ Named(row.username)' = {row}
           /\ RowOf(row.username, clients)' = row
BY DEF Named, Replace, RowOf

(***************************************************************************)
(* What a request's names and addresses are.                               *)
(***************************************************************************)
LEMMA RequestTypes ==
    ASSUME IInv, NEW w \in Workers
    PROVE  /\ InRegister(w) \/ InLogin(w) => req[w].username \in Users
           /\ InLogin(w) => req[w].addr \in Addrs /\ req[w].private_port \in Ports
           /\ InLogout(w) => req[w].addr \in Addrs
           /\ InTransfer(w) => /\ req[w].snd \in Users
                               /\ req[w].rcv \in Users
                               /\ req[w].pay \in Amounts
                               /\ req[w].pay \in Int /\ req[w].pay > 0
<1>1. req[w] \in Requests \cup {NoRequest}
  BY DEF IInv, TypeOK
<1>2. /\ InRegister(w) => req[w].op = "register"
      /\ InLogin(w) => req[w].op = "login"
      /\ InLogout(w) => req[w].op = "logout"
      /\ InTransfer(w) => req[w].op = "transaction" /\ req[w].pay > 0
  BY DEF IInv, WorkerInv, RegisterCall, LoginCall, LogoutCall, TransferCall,
         InRegister, InLogin, InLogout, InTransfer
<1>3. InRegister(w) \/ InLogin(w) => req[w].username \in Users
  BY <1>1, <1>2 DEF Requests, NoRequest
<1>4. InLogin(w) => req[w].addr \in Addrs /\ req[w].private_port \in Ports
  BY <1>1, <1>2 DEF Requests, NoRequest
<1>5. InLogout(w) => req[w].addr \in Addrs
  BY <1>1, <1>2 DEF Requests, NoRequest
<1>6. InTransfer(w) => /\ req[w].snd \in Users
                       /\ req[w].rcv \in Users
                       /\ req[w].pay \in Amounts
  BY <1>1, <1>2 DEF Requests, NoRequest
<1> QED
  BY <1>2, <1>3, <1>4, <1>5, <1>6, StoreAssumption

\* A call's own users are among the ones it touches.
LEMMA TouchedUsers ==
    ASSUME IInv, NEW w \in Workers
    PROVE  /\ InRegister(w) \/ InLogin(w) => req[w].username \in Touched(w)
           /\ InTransfer(w) => req[w].snd \in Touched(w) /\ req[w].rcv \in Touched(w)
           /\ pc[w] = "logout_update" => own[w].username \in Touched(w)
           /\ InLogin(w) \/ InLogout(w) => req[w].addr \in Connection(w)
<1>1. pc[w] = "logout_update" => own[w].username \in Users
  BY DEF IInv, WorkerInv, LogoutCall, LocalRows, GoodRow, Row
<1> QED
  BY <1>1, RequestTypes DEF Touched, Connection

\* The step leaves the calls of the other workers where they are.
OthersSame(w) ==
    \A v \in Workers : v # w =>
        /\ pc'[v] = pc[v] /\ req'[v] = req[v]
        /\ own'[v] = own[v] /\ other'[v] = other[v]

\* A step that writes nothing leaves what the others have read current.
LEMMA ReadsDisturbNobody ==
    ASSUME NEW w \in Workers, OthersSame(w), clients' = clients,
           NEW v \in Workers, v # w, Current(v)
    PROVE  Current(v)'
BY DEF OthersSame, Current, NothingRead, NameFree, LoginRowCurrent, LogoutRowCurrent,
       SenderCurrent, ReceiverCurrent, PayeeDiffers, InTransfer, Named, OnlineNamed,
       OnlineAt

\* Nor does a write to the row of a user the call touches, which puts nobody
\* at an address but the call's own or the one the user already had.
LEMMA WritesDisturbNobody ==
    ASSUME IsolatedInv, NEW w \in Workers, OthersSame(w),
           NEW row, clients' = Replace(row), row.username \in Touched(w),
           \/ row.online_status = 0
           \/ row.addr \in Connection(w)
           \/ \E q \in clients : q.username = row.username /\ q.online_status = 1
                                 /\ q.addr = row.addr,
           NEW v \in Workers, v # w
    PROVE  Current(v)'
<1>1. Current(v) /\ IInv /\ GoodTable(clients)
  BY DEF IsolatedInv, IInv
<1>2. row.username \notin Touched(v) /\ Connection(v) \cap Connection(w) = {}
  BY DEF IsolatedInv, Isolated
<1>3. /\ pc'[v] = pc[v] /\ req'[v] = req[v]
      /\ own'[v] = own[v] /\ other'[v] = other[v]
  BY DEF OthersSame
<1>4. \A u : u # row.username => Named(u)' = Named(u) /\ OnlineNamed(u)' = OnlineNamed(u)
  BY <1>1, ReplaceOthers
<1>5. NothingRead(v)' /\ PayeeDiffers(v)'
  BY <1>1, <1>3 DEF Current, NothingRead, PayeeDiffers, InTransfer
<1>6. NameFree(v)' /\ LoginRowCurrent(v)'
  <2>1. InRegister(v) \/ InLogin(v) => req[v].username # row.username
    BY <1>1, <1>2, TouchedUsers
  <2>2. pc[v] = "register_replace" =>
            (Named(req[v].username))' = Named(req[v].username)
    BY <1>3, <1>4, <2>1 DEF InRegister, Named
  <2>3. pc[v] \in {"login_online", "login_update"} =>
            (Named(req[v].username))' = Named(req[v].username)
    BY <1>3, <1>4, <2>1 DEF InLogin, Named
  <2> QED
    BY <1>1, <1>3, <2>2, <2>3 DEF Current, NameFree, LoginRowCurrent
<1>7. LogoutRowCurrent(v)'
  <2> SUFFICES ASSUME pc[v] = "logout_update"
               PROVE  (OnlineAt(req[v].addr))' = {own[v]}
    BY <1>3 DEF LogoutRowCurrent
  <2>1. OnlineAt(req[v].addr) = {own[v]} /\ own[v] \in clients
    BY <1>1 DEF Current, LogoutRowCurrent, OnlineAt
  <2>2. own[v].username # row.username
    BY <1>1, <1>2, TouchedUsers
  <2>3. req[v].addr \in Connection(v)
    BY <1>1, TouchedUsers DEF InLogout
  <2>4. ~(row.addr = req[v].addr /\ row.online_status = 1)
    <3> SUFFICES ASSUME row.addr = req[v].addr, row.online_status = 1
                 PROVE  FALSE
      OBVIOUS
    <3>1. row.addr \notin Connection(w)
      BY <1>2, <2>3
    <3>2. PICK q \in clients : q.username = row.username /\ q.online_status = 1
                               /\ q.addr = row.addr
      BY <3>1
    <3>3. q = own[v]
      BY <2>1, <3>2 DEF OnlineAt
    <3> QED
      BY <2>2, <3>2, <3>3
  <2>5. (OnlineAt(req[v].addr))' = {r \in Replace(row) : r.addr = req[v].addr
                                                     /\ r.online_status = 1}
    BY <1>3 DEF OnlineAt
  <2> QED
    BY <2>1, <2>2, <2>4, <2>5 DEF OnlineAt, Replace
<1>8. SenderCurrent(v)' /\ ReceiverCurrent(v)'
  <2>1. InTransfer(v) => req[v].snd # row.username /\ req[v].rcv # row.username
    BY <1>1, <1>2, TouchedUsers
  <2>2. InTransfer(v) =>
            /\ (OnlineNamed(req[v].snd))' = OnlineNamed(req[v].snd)
            /\ (OnlineNamed(req[v].rcv))' = OnlineNamed(req[v].rcv)
    BY <1>3, <1>4, <2>1 DEF OnlineNamed, Named
  <2>3. (Debited(own[v], req[v].pay))' = Debited(own[v], req[v].pay)
    BY <1>3 DEF Debited
  <2> QED
    BY <1>1, <1>3, <2>2, <2>3 DEF Current, SenderCurrent, ReceiverCurrent, InTransfer
<1> QED
  BY <1>5, <1>6, <1>7, <1>8 DEF Current

-----------------------------------------------------------------------------
(***************************************************************************)
(* What a worker has read itself stays current at each of its steps.       *)
(***************************************************************************)
LEMMA ReturnCurrent ==
    ASSUME IInv, NEW w \in Workers, NEW code, Return(w, code)
    PROVE  OthersSame(w) /\ Current(w)'
<1>1. OthersSame(w)
  BY DEF IInv, TypeOK, Return, OthersSame
<1>2. pc'[w] = "idle" /\ own'[w] = NoRow
  BY DEF IInv, TypeOK, Return
<1> QED
  BY <1>1, <1>2 DEF Current, NothingRead, NameFree, LoginRowCurrent, LogoutRowCurrent,
     SenderCurrent, ReceiverCurrent, PayeeDiffers, InTransfer

LEMMA GotoSame ==
    ASSUME IInv, NEW w \in Workers, NEW l, Goto(w, l),
           own' = own \/ \E r : own' = [own EXCEPT ![w] = r],
           other' = other \/ \E r : other' = [other EXCEPT ![w] = r]
    PROVE  OthersSame(w) /\ pc'[w] = l /\ req'[w] = req[w]
BY DEF IInv, TypeOK, Goto, OthersSame

LEMMA CallCurrent ==
    ASSUME IsolatedInv, NEW w \in Workers, NEW r \in Requests,
           Call(w, r) \/ RejectedCall(w, r)
    PROVE  \A v \in Workers : Current(v)'
<1>1. IInv /\ (\A v \in Workers : Current(v))
  BY DEF IsolatedInv
<1>2. clients' = clients
  BY DEF Call, RejectedCall
<1>3. OthersSame(w)
  BY <1>1 DEF Call, RejectedCall, OthersSame, IInv, TypeOK
<1>4. CASE Call(w, r)
  <2>1. pc[w] = "idle" /\ own'[w] = own[w] /\ req'[w] = r
          /\ pc'[w] = FirstStatement[r.op]
    BY <1>1, <1>4 DEF Call, IInv, TypeOK
  <2>2. own[w] = NoRow
    BY <1>1, <2>1 DEF Current, NothingRead
  <2>3. r.op \in {"register", "login", "logout", "transaction", "list"}
    BY DEF Requests
  <2>4. r.op = "transaction" => r.snd # r.rcv
    BY <1>4 DEF Call, Rejected
  <2>5. Current(w)'
    BY <2>1, <2>2, <2>3, <2>4 DEF Current, NothingRead, NameFree, LoginRowCurrent,
       LogoutRowCurrent, SenderCurrent, ReceiverCurrent, PayeeDiffers, InTransfer,
       FirstStatement
  <2> QED
    BY <1>1, <1>2, <1>3, <2>5, ReadsDisturbNobody
<1>5. CASE RejectedCall(w, r)
  <2>1. Current(w)'
    BY <1>1, <1>5 DEF RejectedCall, Current, NothingRead, NameFree, LoginRowCurrent,
       LogoutRowCurrent, SenderCurrent, ReceiverCurrent, PayeeDiffers, InTransfer,
       Named, OnlineNamed, OnlineAt
  <2> QED
    BY <1>1, <1>2, <1>3, <2>1, ReadsDisturbNobody
<1> QED
  BY <1>4, <1>5

LEMMA RegisterCurrent ==
    ASSUME IsolatedInv, NEW w \in Workers, RegisterCheck(w) \/ RegisterReplace(w)
    PROVE  \A v \in Workers : Current(v)'
<1>1. IInv /\ GoodTable(clients) /\ (\A v \in Workers : Current(v))
  BY DEF IsolatedInv, IInv
<1>2. CASE RegisterCheck(w)
  <2>1. clients' = clients
    BY <1>2 DEF RegisterCheck
  <2>2. OthersSame(w) /\ Current(w)'
    <3>1. CASE Return(w, "REGISTER_FAIL")
      BY <1>1, <3>1, ReturnCurrent
    <3>2. CASE /\ Goto(w, "register_replace") /\ UNCHANGED <<own, other>>
               /\ Named(req[w].username) = {}
      <4>1. OthersSame(w) /\ pc'[w] = "register_replace" /\ req'[w] = req[w]
        BY <1>1, <3>2, GotoSame
      <4>2. (Named(req[w].username))' = {}
        BY <2>1, <3>2, <4>1 DEF Named
      <4> QED
        BY <4>1, <4>2 DEF Current, NothingRead, NameFree, LoginRowCurrent,
           LogoutRowCurrent, SenderCurrent, ReceiverCurrent, PayeeDiffers, InTransfer
    <3> QED
      BY <1>2, <3>1, <3>2 DEF RegisterCheck
  <2> QED
    BY <1>1, <2>1, <2>2, ReadsDisturbNobody
<1>3. CASE RegisterReplace(w)
  <2> DEFINE row == NewUser(req[w].username)
  <2>1. Return(w, "REGISTER_OK") /\ clients' = Replace(row) /\ InRegister(w)
    BY <1>3 DEF RegisterReplace, InRegister
  <2>2. row.online_status = 0 /\ row.username = req[w].username
    BY DEF NewUser
  <2>3. row.username \in Touched(w)
    BY <1>1, <2>1, <2>2, TouchedUsers
  <2>4. OthersSame(w) /\ Current(w)'
    BY <1>1, <2>1, ReturnCurrent
  <2> HIDE DEF row
  <2> QED
    BY <2>1, <2>2, <2>3, <2>4, WritesDisturbNobody
<1> QED
  BY <1>2, <1>3

LEMMA LoginCurrent ==
    ASSUME IsolatedInv, NEW w \in Workers,
           LoginCheck(w) \/ LoginOnline(w) \/ LoginUpdate(w)
    PROVE  \A v \in Workers : Current(v)'
<1>1. IInv /\ GoodTable(clients) /\ (\A v \in Workers : Current(v))
  BY DEF IsolatedInv, IInv
<1>2. CASE LoginCheck(w)
  <2>1. clients' = clients
    BY <1>2 DEF LoginCheck
  <2>2. OthersSame(w) /\ Current(w)'
    <3>1. CASE Return(w, "LOGIN_AUTH_FAIL")
      BY <1>1, <3>1, ReturnCurrent
    <3>2. ASSUME NEW row \in Named(req[w].username),
                 own' = [own EXCEPT ![w] = row], Goto(w, "login_online"),
                 UNCHANGED other
          PROVE  OthersSame(w) /\ Current(w)'
      <4>1. OthersSame(w) /\ pc'[w] = "login_online" /\ req'[w] = req[w]
        BY <1>1, <3>2, GotoSame
      <4>2. own'[w] = row
        BY <1>1, <3>2 DEF IInv, TypeOK
      <4>3. Named(req[w].username) = {row}
        BY <1>1, OneRow DEF Named
      <4>4. (Named(req[w].username))' = {row}
        BY <2>1, <4>1, <4>3 DEF Named
      <4> QED
        BY <4>1, <4>2, <4>4 DEF Current, NothingRead, NameFree, LoginRowCurrent,
           LogoutRowCurrent, SenderCurrent, ReceiverCurrent, PayeeDiffers, InTransfer
    <3> QED
      BY <1>2, <3>1, <3>2 DEF LoginCheck
  <2> QED
    BY <1>1, <2>1, <2>2, ReadsDisturbNobody
<1>3. CASE LoginOnline(w)
  <2>1. clients' = clients /\ pc[w] = "login_online"
    BY <1>3 DEF LoginOnline
  <2>2. OthersSame(w) /\ Current(w)'
    <3>1. CASE Return(w, "LOGIN_EXIST")
      BY <1>1, <3>1, ReturnCurrent
    <3>2. CASE /\ Goto(w, "login_update") /\ UNCHANGED <<own, other>>
               /\ ~Single(OnlineNamed(req[w].username))
      <4>1. OthersSame(w) /\ pc'[w] = "login_update" /\ req'[w] = req[w]
        BY <1>1, <3>2, GotoSame
      <4>2. Named(req[w].username) = {own[w]}
        BY <1>1, <2>1 DEF Current, LoginRowCurrent
      <4>3. OnlineNamed(req[w].username) = {}
        BY <1>1, <3>2, NoneOnline
      <4>4. own[w].online_status = 0
        <5>1. own[w] \in Row
          BY <1>1, <4>2 DEF Named, GoodTable, GoodRow
        <5> QED
          BY <4>2, <4>3, <5>1 DEF OnlineNamed, Row
      <4>5. (Named(req[w].username))' = {own[w]}
        BY <2>1, <4>1, <4>2 DEF Named
      <4> QED
        BY <3>2, <4>1, <4>4, <4>5 DEF Current, NothingRead, NameFree,
           LoginRowCurrent, LogoutRowCurrent, SenderCurrent, ReceiverCurrent,
           PayeeDiffers, InTransfer
    <3> QED
      BY <1>3, <3>1, <3>2 DEF LoginOnline
  <2> QED
    BY <1>1, <2>1, <2>2, ReadsDisturbNobody
<1>4. CASE LoginUpdate(w)
  <2> DEFINE row == LoggedIn(own[w], req[w].addr, req[w].private_port)
  <2>1. Return(w, "LOGIN_SUCCESS") /\ clients' = Update(row) /\ InLogin(w)
          /\ pc[w] = "login_update"
    BY <1>4 DEF LoginUpdate, InLogin
  <2>2. Named(req[w].username) = {own[w]}
    BY <1>1, <2>1 DEF Current, LoginRowCurrent
  <2>3. own[w] \in Row /\ own[w].username = req[w].username
    BY <1>1, <2>2 DEF Named, GoodTable, GoodRow
  <2>4. row.username = req[w].username /\ row.addr = req[w].addr
    BY <2>3 DEF LoggedIn, Row
  <2>5. clients' = Replace(row)
    BY <2>1, <2>2, <2>4 DEF Update
  <2>6. row.username \in Touched(w) /\ row.addr \in Connection(w)
    BY <1>1, <2>1, <2>4, TouchedUsers
  <2>7. OthersSame(w) /\ Current(w)'
    BY <1>1, <2>1, ReturnCurrent
  <2> HIDE DEF row
  <2> QED
    BY <2>5, <2>6, <2>7, WritesDisturbNobody
<1> QED
  BY <1>2, <1>3, <1>4

LEMMA LogoutCurrent ==
    ASSUME IsolatedInv, NEW w \in Workers, LogoutCheck(w) \/ LogoutUpdate(w)
    PROVE  \A v \in Workers : Current(v)'
<1>1. IInv /\ GoodTable(clients) /\ (\A v \in Workers : Current(v))
  BY DEF IsolatedInv, IInv
<1>2. CASE LogoutCheck(w)
  <2>1. clients' = clients
    BY <1>2 DEF LogoutCheck
  <2>2. OthersSame(w) /\ Current(w)'
    <3>1. CASE Return(w, "LOGOUT_FAIL")
      BY <1>1, <3>1, ReturnCurrent
    <3>2. ASSUME NEW row \in clients, OnlineAt(req[w].addr) = {row},
                 own' = [own EXCEPT ![w] = row], Goto(w, "logout_update"),
                 UNCHANGED other
          PROVE  OthersSame(w) /\ Current(w)'
      <4>1. OthersSame(w) /\ pc'[w] = "logout_update" /\ req'[w] = req[w]
        BY <1>1, <3>2, GotoSame
      <4>2. own'[w] = row
        BY <1>1, <3>2 DEF IInv, TypeOK
      <4>3. (OnlineAt(req[w].addr))' = {row}
        BY <2>1, <3>2, <4>1 DEF OnlineAt
      <4> QED
        BY <4>1, <4>2, <4>3 DEF Current, NothingRead, NameFree, LoginRowCurrent,
           LogoutRowCurrent, SenderCurrent, ReceiverCurrent, PayeeDiffers, InTransfer
    <3> QED
      BY <1>2, <3>1, <3>2 DEF LogoutCheck
  <2> QED
    BY <1>1, <2>1, <2>2, ReadsDisturbNobody
<1>3. CASE LogoutUpdate(w)
  <2> DEFINE row == LoggedOut(own[w])
  <2>1. Return(w, "LOGOUT_SUCCESS") /\ clients' = Update(row)
          /\ pc[w] = "logout_update"
    BY <1>3 DEF LogoutUpdate
  <2>2. own[w] \in clients /\ own[w] \in Row
    BY <1>1, <2>1 DEF Current, LogoutRowCurrent, OnlineAt, GoodTable, GoodRow
  <2>3. row.username = own[w].username /\ row.online_status = 0
    BY <2>2 DEF LoggedOut, Row
  <2>4. clients' = Replace(row)
    BY <2>1, <2>2, <2>3 DEF Update, Named
  <2>5. row.username \in Touched(w)
    BY <1>1, <2>1, <2>3, TouchedUsers
  <2>6. OthersSame(w) /\ Current(w)'
    BY <1>1, <2>1, ReturnCurrent
  <2> HIDE DEF row
  <2> QED
    BY <2>3, <2>4, <2>5, <2>6, WritesDisturbNobody
<1> QED
  BY <1>2, <1>3

\* The rows a transfer holds are the payer's and the payee's, both online.
LEMMA TransferRows ==
    ASSUME IsolatedInv, NEW w \in Workers, pc[w] \in {"debit", "credit"}
    PROVE  /\ own[w] \in Row /\ own[w].username = req[w].snd
           /\ own[w].online_status = 1
           /\ other[w] \in Row /\ other[w].username = req[w].rcv
           /\ other[w].online_status = 1
           /\ other[w] \in clients
           /\ pc[w] = "debit" => own[w] \in clients
           /\ pc[w] = "credit" => Debited(own[w], req[w].pay) \in clients
           /\ req[w].snd # req[w].rcv
<1>1. Current(w) /\ IInv
  BY DEF IsolatedInv
<1>2. OnlineNamed(req[w].rcv) = {other[w]}
  BY <1>1 DEF Current, ReceiverCurrent
<1>3. own[w] # NoRow /\ own[w] \in Row /\ other[w] \in Row
  BY <1>1 DEF IInv, TypeOK, WorkerInv, TransferCall
<1>4. CASE pc[w] = "debit"
  <2>1. OnlineNamed(req[w].snd) = {own[w]}
    BY <1>1, <1>3, <1>4 DEF Current, SenderCurrent
  <2> QED
    BY <1>1, <1>2, <1>3, <1>4, <2>1
       DEF OnlineNamed, Named, Current, PayeeDiffers, InTransfer
<1>5. CASE pc[w] = "credit"
  <2> DEFINE debited == Debited(own[w], req[w].pay)
  <2>1. OnlineNamed(req[w].snd) = {debited}
    BY <1>1, <1>5 DEF Current, SenderCurrent
  <2>2. debited.username = own[w].username
          /\ debited.online_status = own[w].online_status
    BY <1>3 DEF Debited, Row
  <2> HIDE DEF debited
  <2> QED
    BY <1>1, <1>2, <1>3, <1>5, <2>1, <2>2
       DEF OnlineNamed, Named, Current, PayeeDiffers, InTransfer, debited
<1> QED
  BY <1>4, <1>5

\* A debit or credit changes nothing but the balance.
LEMMA PaidRows ==
    ASSUME NEW r \in Row, NEW x
    PROVE  /\ Debited(r, x).username = r.username
           /\ Debited(r, x).addr = r.addr
           /\ Debited(r, x).private_port = r.private_port
           /\ Debited(r, x).online_status = r.online_status
           /\ Debited(r, x).balance = (r.balance * Scale - x) \div Scale
           /\ Credited(r, x).username = r.username
           /\ Credited(r, x).addr = r.addr
           /\ Credited(r, x).private_port = r.private_port
           /\ Credited(r, x).online_status = r.online_status
           /\ Credited(r, x).balance = (r.balance * Scale + x) \div Scale
BY DEF Debited, Credited, Row

LEMMA ChecksCurrent ==
    ASSUME IsolatedInv, NEW w \in Workers, SenderCheck(w) \/ ReceiverCheck(w)
    PROVE  \A v \in Workers : Current(v)'
<1>1. IInv /\ GoodTable(clients) /\ (\A v \in Workers : Current(v))
  BY DEF IsolatedInv, IInv
<1>2. clients' = clients
  BY DEF SenderCheck, ReceiverCheck
<1>3. req[w].snd # req[w].rcv
  BY <1>1 DEF SenderCheck, ReceiverCheck, Current, PayeeDiffers, InTransfer
<1>4. CASE SenderCheck(w)
  <2>1. Goto(w, "receiver_check") /\ UNCHANGED other /\ pc[w] = "sender_check"
    BY <1>4 DEF SenderCheck
  <2>2. CASE own' = own /\ ~Single(OnlineNamed(req[w].snd))
    <3>1. OthersSame(w) /\ pc'[w] = "receiver_check" /\ req'[w] = req[w]
      BY <1>1, <2>1, <2>2, GotoSame
    <3>2. own'[w] = NoRow
      BY <1>1, <2>1, <2>2 DEF Current, NothingRead
    <3>3. (OnlineNamed(req[w].snd))' = {}
      BY <1>1, <1>2, <2>2, <3>1, NoneOnline DEF OnlineNamed, Named
    <3>4. Current(w)'
      BY <1>3, <3>1, <3>2, <3>3 DEF Current, NothingRead, NameFree, LoginRowCurrent,
         LogoutRowCurrent, SenderCurrent, ReceiverCurrent, PayeeDiffers, InTransfer
    <3> QED
      BY <1>1, <1>2, <3>1, <3>4, ReadsDisturbNobody
  <2>3. ASSUME NEW row \in clients, OnlineNamed(req[w].snd) = {row},
               own' = [own EXCEPT ![w] = row]
        PROVE  \A v \in Workers : Current(v)'
    <3>1. OthersSame(w) /\ pc'[w] = "receiver_check" /\ req'[w] = req[w]
      BY <1>1, <2>1, <2>3, GotoSame
    <3>2. own'[w] = row /\ row # NoRow
      BY <1>1, <2>3, StoreAssumption DEF IInv, TypeOK
    <3>3. (OnlineNamed(req[w].snd))' = {row}
      BY <1>2, <2>3, <3>1 DEF OnlineNamed, Named
    <3>4. Current(w)'
      BY <1>3, <3>1, <3>2, <3>3 DEF Current, NothingRead, NameFree, LoginRowCurrent,
         LogoutRowCurrent, SenderCurrent, ReceiverCurrent, PayeeDiffers, InTransfer
    <3> QED
      BY <1>1, <1>2, <3>1, <3>4, ReadsDisturbNobody
  <2> QED
    BY <1>4, <2>2, <2>3 DEF SenderCheck
<1>5. CASE ReceiverCheck(w)
  <2>1. CASE Return(w, "TRANSFER_FAIL") \/ Return(w, "TRANSFER_SENDER_BANKRUPT")
    BY <1>1, <1>2, <2>1, ReturnCurrent, ReadsDisturbNobody
  <2>2. ASSUME NEW row \in clients, own[w] # NoRow, OnlineNamed(req[w].rcv) = {row},
               other' = [other EXCEPT ![w] = row], Goto(w, "debit"), UNCHANGED own
        PROVE  \A v \in Workers : Current(v)'
    <3>1. OthersSame(w) /\ pc'[w] = "debit" /\ req'[w] = req[w]
      BY <1>1, <2>2, GotoSame
    <3>2. other'[w] = row /\ own'[w] = own[w]
      BY <1>1, <2>2 DEF IInv, TypeOK
    <3>3. OnlineNamed(req[w].snd) = {own[w]}
      BY <1>1, <1>5, <2>2 DEF ReceiverCheck, Current, SenderCurrent
    <3>4. (OnlineNamed(req[w].snd))' = {own[w]} /\ (OnlineNamed(req[w].rcv))' = {row}
      BY <1>2, <2>2, <3>1, <3>3 DEF OnlineNamed, Named
    <3>5. Current(w)'
      BY <1>3, <3>1, <3>2, <3>4 DEF Current, NothingRead, NameFree, LoginRowCurrent,
         LogoutRowCurrent, SenderCurrent, ReceiverCurrent, PayeeDiffers, InTransfer
    <3> QED
      BY <1>1, <1>2, <3>1, <3>5, ReadsDisturbNobody
  <2> QED
    BY <1>5, <2>1, <2>2 DEF ReceiverCheck
<1> QED
  BY <1>4, <1>5

LEMMA PaymentCurrent ==
    ASSUME IsolatedInv, NEW w \in Workers, Debit(w) \/ Credit(w)
    PROVE  \A v \in Workers : Current(v)'
<1>1. IInv /\ GoodTable(clients) /\ (\A v \in Workers : Current(v))
  BY DEF IsolatedInv, IInv
<1>2. InTransfer(w) /\ req[w].snd \in Touched(w) /\ req[w].rcv \in Touched(w)
  BY <1>1, TouchedUsers DEF Debit, Credit, InTransfer
<1>3. CASE Debit(w)
  <2> DEFINE row == Debited(own[w], req[w].pay)
  <2>1. clients' = Update(row) /\ Goto(w, "credit") /\ UNCHANGED <<own, other>>
          /\ pc[w] = "debit"
    BY <1>3 DEF Debit
  <2>2. /\ own[w] \in clients /\ own[w] \in Row
        /\ own[w].username = req[w].snd /\ own[w].online_status = 1
        /\ req[w].snd # req[w].rcv
    BY <2>1, TransferRows
  <2>3. /\ row.username = req[w].snd /\ row.online_status = 1
        /\ row.addr = own[w].addr
    BY <2>2, PaidRows
  <2>4. clients' = Replace(row)
    BY <2>1, <2>2, <2>3 DEF Update, Named
  <2>5. OthersSame(w) /\ pc'[w] = "credit" /\ req'[w] = req[w]
    BY <1>1, <2>1, GotoSame
  <2>6. (Debited(own[w], req[w].pay))' = row
    BY <2>1, <2>5 DEF Debited
  <2>7. (OnlineNamed(req[w].snd))' = {row}
    <3>1. Named(req[w].snd)' = {row}
      BY <1>1, <2>3, <2>4, <2>5, ReplaceOwn DEF Named
    <3> QED
      BY <2>3, <2>5, <3>1 DEF OnlineNamed, Named
  <2>8. (OnlineNamed(req[w].rcv))' = {other[w]}
    <3>1. OnlineNamed(req[w].rcv) = {other[w]}
      BY <1>1, <2>1 DEF Current, ReceiverCurrent
    <3>2. OnlineNamed(req[w].rcv)' = OnlineNamed(req[w].rcv)
      BY <1>1, <2>2, <2>3, <2>4, <2>5, ReplaceOthers DEF OnlineNamed, Named
    <3> QED
      BY <2>5, <3>1, <3>2 DEF OnlineNamed, Named
  <2> HIDE DEF row
  <2>9. Current(w)'
    BY <2>1, <2>2, <2>5, <2>6, <2>7, <2>8 DEF Current, NothingRead, NameFree,
       LoginRowCurrent, LogoutRowCurrent, SenderCurrent, ReceiverCurrent,
       PayeeDiffers, InTransfer
  <2> QED
    BY <1>2, <2>2, <2>3, <2>4, <2>5, <2>9, WritesDisturbNobody
<1>4. CASE Credit(w)
  <2> DEFINE row == Credited(other[w], req[w].pay)
  <2>1. clients' = Update(row) /\ Return(w, "TRANSFER_OK") /\ pc[w] = "credit"
    BY <1>4 DEF Credit
  <2>2. /\ other[w] \in clients /\ other[w] \in Row
        /\ other[w].username = req[w].rcv /\ other[w].online_status = 1
    BY <2>1, TransferRows
  <2>3. /\ row.username = req[w].rcv /\ row.online_status = 1
        /\ row.addr = other[w].addr
    BY <2>2, PaidRows
  <2>4. clients' = Replace(row)
    BY <2>1, <2>2, <2>3 DEF Update, Named
  <2>5. OthersSame(w) /\ Current(w)'
    BY <1>1, <2>1, ReturnCurrent
  <2> HIDE DEF row
  <2> QED
    BY <1>2, <2>2, <2>3, <2>4, <2>5, WritesDisturbNobody
<1> QED
  BY <1>3, <1>4

LEMMA ListOrBusyCurrent ==
    ASSUME IsolatedInv, NEW w \in Workers, ListSelect(w) \/ Busy(w)
    PROVE  \A v \in Workers : Current(v)'
<1>1. IInv /\ (\A v \in Workers : Current(v)) /\ clients' = clients
  BY DEF IsolatedInv, ListSelect, Busy
<1>2. OthersSame(w) /\ Current(w)'
  BY <1>1, ReturnCurrent DEF ListSelect, Busy
<1> QED
  BY <1>1, <1>2, ReadsDisturbNobody

-----------------------------------------------------------------------------

LEMMA IsolatedInit == Init => IsolatedInv
<1> SUFFICES ASSUME Init PROVE IsolatedInv
  OBVIOUS
<1>1. IInv
  BY InitEstablishes
<1>2. ASSUME NEW w \in Workers
      PROVE  pc[w] = "idle" /\ own[w] = NoRow
  BY DEF Init
<1>3. Isolated
  BY <1>2 DEF Isolated, Touched, Connection, InRegister, InLogin, InLogout, InTransfer
<1>4. \A w \in Workers : Current(w)
  BY <1>2 DEF Current, NothingRead, NameFree, LoginRowCurrent, LogoutRowCurrent,
     SenderCurrent, ReceiverCurrent, PayeeDiffers, InTransfer
<1> QED
  BY <1>1, <1>3, <1>4 DEF IsolatedInv

LEMMA IsolatedStep == IsolatedInv /\ [Next /\ Isolated']_vars => IsolatedInv'
<1> SUFFICES ASSUME IsolatedInv, [Next /\ Isolated']_vars PROVE IsolatedInv'
  OBVIOUS
<1>1. IInv'
  BY StepKeeps DEF IsolatedInv
<1>2. CASE UNCHANGED vars
  BY <1>1, <1>2 DEF vars, IsolatedInv, Isolated, Touched, Connection, InRegister, InLogin,
     InLogout, InTransfer, Current, NothingRead, NameFree, LoginRowCurrent,
     LogoutRowCurrent, SenderCurrent, ReceiverCurrent, PayeeDiffers, Named, OnlineNamed,
     OnlineAt, Debited
<1>3. CASE Next /\ Isolated'
  <2>1. \A v \in Workers : Current(v)'
    BY <1>3, CallCurrent, RegisterCurrent, LoginCurrent, LogoutCurrent, ChecksCurrent,
       PaymentCurrent, ListOrBusyCurrent DEF Next, Step
  <2> QED
    BY <1>1, <1>3, <2>1 DEF IsolatedInv
<1> QED
  BY <1>2, <1>3

\* While calls in progress concern different users, what a call has read is what
\* the table still holds when the call writes.
THEOREM ReadsStayCurrent == IsolatedSpec => []IsolatedInv
BY IsolatedInit, IsolatedStep, PTL DEF IsolatedSpec

-----------------------------------------------------------------------------
(***************************************************************************)
(* AccountStore implements Bank while the calls in progress concern        *)
(* different users: the initial states map to initial states, and every    *)
(* statement of a call maps to a step of the bank or to a stutter.  The    *)
(* statement that ends a call is the bank's operation; the earlier ones    *)
(* are stutters, the debit too, because the sender owns the amount until   *)
(* it is credited.                                                         *)
(***************************************************************************)
(***************************************************************************)
(* The bank's view of a good table.                                        *)
(***************************************************************************)
LEMMA UserRow ==
    ASSUME GoodTable(clients), NEW u \in Usernames
    PROVE  /\ RowOf(u, clients) \in clients /\ RowOf(u, clients) \in Row
           /\ RowOf(u, clients).username = u
           /\ Named(u) = {RowOf(u, clients)}
<1>1. PICK r \in clients : r.username = u
  BY DEF Usernames
<1>2. RowOf(u, clients) = r /\ Named(u) = {r}
  BY <1>1, OneRow
<1> QED
  BY <1>1, <1>2 DEF GoodTable, GoodRow

LEMMA NamesInView == B!Registered = Usernames /\ DOMAIN Sessions = Usernames
BY DEF B!Registered, Balances, Sessions

LEMMA RegisteredHasRow ==
    ASSUME NEW u
    PROVE  u \in Usernames <=> Named(u) # {}
BY DEF Usernames, Named

\* A row is online exactly when it describes a session.
LEMMA SessionOfRow ==
    ASSUME NEW r, GoodRow(r)
    PROVE  SessionIn(r) # NoSession <=> r.online_status = 1
<1>1. SessionIn(r).addr = r.addr /\ SessionIn(r).private_port = r.private_port
  BY DEF SessionIn
<1>2. r.addr = NoAddr /\ r.private_port = NoPort => SessionIn(r) = NoSession
  BY DEF SessionIn, NoSession
<1>3. NoSession.addr = NoAddr
  BY DEF NoSession
<1> QED
  BY <1>1, <1>2, <1>3 DEF GoodRow, Coherent

LEMMA OnlineInView ==
    ASSUME GoodTable(clients), NEW u
    PROVE  u \in B!Online <=> OnlineNamed(u) # {}
<1>1. CASE u \in Usernames
  <2>1. Named(u) = {RowOf(u, clients)} /\ GoodRow(RowOf(u, clients))
    BY <1>1, UserRow DEF GoodTable
  <2>2. Sessions[u] = SessionIn(RowOf(u, clients))
    BY <1>1 DEF Sessions
  <2>3. u \in B!Online <=> RowOf(u, clients).online_status = 1
    BY <1>1, <2>1, <2>2, NamesInView, SessionOfRow DEF B!Online
  <2> QED
    BY <2>1, <2>3 DEF OnlineNamed
<1>2. CASE u \notin Usernames
  BY <1>2, NamesInView, RegisteredHasRow DEF B!Online, OnlineNamed
<1> QED
  BY <1>1, <1>2

LEMMA AtInView ==
    ASSUME GoodTable(clients), NEW a
    PROVE  B!At(a) = {r.username : r \in OnlineAt(a)}
<1>1. ASSUME NEW u \in B!At(a)
      PROVE  u \in {r.username : r \in OnlineAt(a)}
  <2>1. u \in B!Online /\ Sessions[u].addr = a /\ u \in Usernames
    BY <1>1, NamesInView DEF B!At, B!Online
  <2>2. PICK r \in OnlineNamed(u) : TRUE
    BY <2>1, OnlineInView
  <2>3. r \in clients /\ r.username = u /\ r.online_status = 1
    BY DEF OnlineNamed, Named
  <2>4. RowOf(u, clients) = r
    BY <2>3, OneRow
  <2>5. r.addr = a
    BY <2>1, <2>4 DEF Sessions, SessionIn
  <2> QED
    BY <2>3, <2>5 DEF OnlineAt
<1>2. ASSUME NEW r \in OnlineAt(a)
      PROVE  r.username \in B!At(a)
  <2>1. r \in clients /\ r.addr = a /\ r.online_status = 1
    BY <1>2 DEF OnlineAt
  <2>2. RowOf(r.username, clients) = r /\ r.username \in Usernames
    BY <2>1, OneRow DEF Usernames
  <2>3. OnlineNamed(r.username) # {}
    BY <2>1 DEF OnlineNamed, Named
  <2>4. Sessions[r.username].addr = a
    BY <2>1, <2>2 DEF Sessions, SessionIn
  <2> QED
    BY <2>3, <2>4, OnlineInView DEF B!At
<1> QED
  BY <1>1, <1>2

-----------------------------------------------------------------------------
(***************************************************************************)
(* What a user owns changes only with the user's row or debit.             *)
(***************************************************************************)
LEMMA OwnedKept ==
    ASSUME NEW w \in Workers, OthersSame(w), NEW u,
           w \notin Debiting(u), w \notin Debiting(u)',
           RowOf(u, clients)'.balance = RowOf(u, clients).balance
    PROVE  Owned(u)' = Owned(u)
<1>1. Debiting(u)' = Debiting(u)
  BY DEF OthersSame, Debiting
<1>2. CASE Debiting(u) = {}
  BY <1>1, <1>2 DEF Owned
<1>3. CASE Debiting(u) # {}
  <2>1. (CHOOSE v \in Debiting(u) : TRUE) \in Debiting(u)
    BY <1>3
  <2>2. \A v \in Debiting(u) : v \in Workers /\ v # w
    BY DEF Debiting
  <2>3. (CHOOSE v \in Debiting(u) : TRUE)' = (CHOOSE v \in Debiting(u) : TRUE)
    BY <1>1
  <2>4. \A v \in Debiting(u) : own'[v] = own[v]
    BY <2>2 DEF OthersSame
  <2> QED
    BY <1>1, <1>3, <2>1, <2>3, <2>4 DEF Owned
<1> QED
  BY <1>2, <1>3

\* Only the call that touches a user can be debiting the user.
LEMMA DebitingTouched ==
    ASSUME IInv, Isolated, NEW w \in Workers, NEW u \in Touched(w)
    PROVE  Debiting(u) \subseteq {w}
<1> SUFFICES ASSUME NEW v \in Debiting(u), v # w PROVE FALSE
  OBVIOUS
<1>1. v \in Workers /\ InTransfer(v) /\ req[v].snd = u
  BY DEF Debiting, InTransfer
<1>2. u \in Touched(v)
  BY <1>1, TouchedUsers
<1> QED
  BY <1>1, <1>2 DEF Isolated

LEMMA OwnedInRow ==
    ASSUME NEW u, Debiting(u) = {}
    PROVE  Owned(u) = RowOf(u, clients).balance
BY DEF Owned

LEMMA OwnedInDebit ==
    ASSUME NEW u, NEW w, Debiting(u) = {w}
    PROVE  Owned(u) = own[w].balance
BY DEF Owned

-----------------------------------------------------------------------------
(***************************************************************************)
(* Steps that write nothing: stutters, refusals and failures.              *)
(***************************************************************************)
LEMMA ReadView ==
    ASSUME NEW w \in Workers, OthersSame(w), clients' = clients,
           pc[w] # "credit", pc'[w] # "credit"
    PROVE  Balances' = Balances /\ Sessions' = Sessions
<1>1. Usernames' = Usernames
  BY DEF Usernames
<1>2. ASSUME NEW u
      PROVE  Owned(u)' = Owned(u) /\ RowOf(u, clients)' = RowOf(u, clients)
  <2>1. RowOf(u, clients)' = RowOf(u, clients)
    BY DEF RowOf
  <2>2. w \notin Debiting(u) /\ w \notin Debiting(u)'
    BY DEF Debiting
  <2> QED
    BY <2>1, <2>2, OwnedKept
<1>3. Sessions' = Sessions
  BY <1>1, <1>2 DEF Sessions, SessionIn
<1> QED
  BY <1>1, <1>2, <1>3 DEF Balances

LEMMA RefusalView ==
    ASSUME IInv, NEW w \in Workers, NEW code, Return(w, code), clients' = clients,
           pc[w] # "credit"
    PROVE  B!Refuse(w, code)
<1>1. OthersSame(w) /\ pc'[w] = "idle"
  BY ReturnCurrent DEF Return, IInv, TypeOK
<1>2. Balances' = Balances /\ Sessions' = Sessions
  BY <1>1, ReadView
<1> QED
  BY <1>2 DEF B!Refuse, B!Answer, Return

LEMMA StutterView ==
    ASSUME IInv, NEW w \in Workers, NEW l, Goto(w, l), clients' = clients,
           own' = own \/ \E r : own' = [own EXCEPT ![w] = r],
           other' = other \/ \E r : other' = [other EXCEPT ![w] = r],
           pc[w] # "credit", l # "credit"
    PROVE  UNCHANGED B!vars
<1>1. OthersSame(w) /\ pc'[w] = l
  BY GotoSame
<1>2. Balances' = Balances /\ Sessions' = Sessions
  BY <1>1, ReadView
<1> QED
  BY <1>2 DEF B!vars, Goto

LEMMA CallView ==
    ASSUME IsolatedInv, NEW w \in Workers, NEW r \in Requests,
           Call(w, r) \/ RejectedCall(w, r)
    PROVE  B!Next
<1>1. IInv
  BY DEF IsolatedInv
<1>2. OthersSame(w) /\ clients' = clients /\ pc[w] = "idle"
  BY <1>1 DEF Call, RejectedCall, OthersSame, IInv, TypeOK
<1>3. pc'[w] # "credit"
  <2>1. r.op \in {"register", "login", "logout", "transaction", "list"}
    BY DEF Requests
  <2> QED
    BY <1>1, <1>2, <2>1 DEF Call, RejectedCall, FirstStatement, IInv, TypeOK
<1>4. Balances' = Balances /\ Sessions' = Sessions
  BY <1>2, <1>3, ReadView
<1>5. CASE Call(w, r)
  <2>1. B!Ask(w)
    BY <1>4, <1>5 DEF Call, B!Ask
  <2> QED
    BY <2>1 DEF B!Next
<1>6. CASE RejectedCall(w, r)
  <2>1. r.snd \in Users /\ r.rcv \in Users /\ r.pay \in Amounts
    BY <1>6 DEF RejectedCall, Rejected, Requests
  <2>2. B!Transfer(w, r.snd, r.rcv, r.pay)
    BY <1>4, <1>6 DEF RejectedCall, Rejected, B!Transfer, B!Refuse, B!Answer
  <2> QED
    BY <2>1, <2>2 DEF B!Next
<1> QED
  BY <1>5, <1>6

LEMMA ListView ==
    ASSUME IsolatedInv, NEW w \in Workers, ListSelect(w)
    PROVE  B!Next
<1>1. B!Refuse(w, "rows")
  BY RefusalView DEF IsolatedInv, ListSelect
<1> QED
  BY <1>1 DEF B!Next, B!List

-----------------------------------------------------------------------------
(***************************************************************************)
(* Steps that write the row of a user and start or end no debit.           *)
(***************************************************************************)
LEMMA WriteView ==
    ASSUME IInv, Isolated, NEW w \in Workers, OthersSame(w),
           NEW row, clients' = Replace(row), row.username \in Touched(w),
           pc[w] # "credit", pc'[w] # "credit"
    PROVE  /\ Usernames' = Usernames \cup {row.username}
           /\ \A v \in Usernames \ {row.username} :
                 Balances'[v] = Balances[v] /\ Sessions'[v] = Sessions[v]
           /\ Balances'[row.username] = row.balance
           /\ Sessions'[row.username] = SessionIn(row)
           /\ row.username \in Usernames =>
                 Balances[row.username] = RowOf(row.username, clients).balance
<1>1. GoodTable(clients)
  BY DEF IInv
<1>2. Usernames' = Usernames \cup {row.username}
  BY ReplaceKeepsUsers DEF Usernames
<1>3. \A u : w \notin Debiting(u) /\ w \notin Debiting(u)'
  BY DEF Debiting
<1>4. ASSUME NEW v \in Usernames, v # row.username
      PROVE  Balances'[v] = Balances[v] /\ Sessions'[v] = Sessions[v]
  <2>1. RowOf(v, clients)' = RowOf(v, clients)
    BY <1>1, <1>4, ReplaceOthers
  <2>2. Owned(v)' = Owned(v)
    BY <1>3, <2>1, OwnedKept
  <2> QED
    BY <1>2, <2>1, <2>2 DEF Balances, Sessions, SessionIn
<1>5. Debiting(row.username) = {}
  BY <1>3, DebitingTouched
<1>6. (Debiting(row.username))' = {}
  <2>1. \A v \in Workers : v # w =>
           ~(pc'[v] = "credit" /\ req'[v].snd = row.username)
    BY <1>5 DEF Debiting, OthersSame
  <2> QED
    BY <2>1 DEF Debiting
<1>7. RowOf(row.username, clients)' = row
  BY <1>1, ReplaceOwn
<1>8. (Owned(row.username))' = row.balance
  BY <1>6, <1>7 DEF Owned
<1>9. Balances'[row.username] = row.balance /\ Sessions'[row.username] = SessionIn(row)
  BY <1>2, <1>7, <1>8 DEF Balances, Sessions, SessionIn
<1>10. row.username \in Usernames =>
           Balances[row.username] = RowOf(row.username, clients).balance
  BY <1>5, OwnedInRow DEF Balances
<1> QED
  BY <1>2, <1>4, <1>9, <1>10

\* A user has registered.
AccountOpened ==
    \E u : /\ u \notin Usernames
          /\ Balances' = [v \in Usernames \cup {u} |->
                            IF v = u THEN InitialBalance ELSE Balances[v]]

LEMMA RegisterView ==
    ASSUME IsolatedInv, NEW w \in Workers, RegisterCheck(w) \/ RegisterReplace(w)
    PROVE  /\ B!Next \/ UNCHANGED B!vars
           /\ AccountOpened \/ Balances' = Balances
<1> DEFINE u == req[w].username
<1>1. IInv /\ Isolated /\ GoodTable(clients)
  BY DEF IsolatedInv, IInv
<1>2. InRegister(w) /\ u \in Users /\ u \in Touched(w)
  BY <1>1, RequestTypes, TouchedUsers DEF RegisterCheck, RegisterReplace, InRegister
<1>3. SUFFICES B!Register(w, u) \/ UNCHANGED B!vars
  BY <1>2, NamesInView DEF B!Next, B!Register, B!Refuse, B!vars, AccountOpened
<1>4. CASE RegisterCheck(w)
  <2>1. CASE Named(u) # {} /\ Return(w, "REGISTER_FAIL")
    <3>1. B!Refuse(w, "REGISTER_FAIL")
      BY <1>1, <1>4, <2>1, RefusalView DEF RegisterCheck
    <3>2. u \in B!Registered
      BY <2>1, RegisteredHasRow, NamesInView
    <3> QED
      BY <3>1, <3>2 DEF B!Register
  <2>2. CASE Goto(w, "register_replace") /\ UNCHANGED <<own, other>>
    BY <1>1, <1>4, <2>2, StutterView DEF RegisterCheck
  <2> QED
    BY <1>4, <2>1, <2>2 DEF RegisterCheck
<1>5. CASE RegisterReplace(w)
  <2> DEFINE row == NewUser(u)
  <2>1. Return(w, "REGISTER_OK") /\ clients' = Replace(row) /\ pc[w] = "register_replace"
    BY <1>5 DEF RegisterReplace
  <2>2. OthersSame(w) /\ pc'[w] = "idle"
    BY <1>1, <2>1, ReturnCurrent DEF Return, IInv, TypeOK
  <2>3. row.username = u /\ row.balance = InitialBalance /\ SessionIn(row) = NoSession
    BY DEF NewUser, SessionIn, NoSession
  <2>4. u \notin Usernames
    BY <2>1, RegisteredHasRow DEF IsolatedInv, Current, NameFree
  <2> HIDE DEF row, u
  <2>5. /\ Usernames' = Usernames \cup {u}
        /\ \A v \in Usernames :
              Balances'[v] = Balances[v] /\ Sessions'[v] = Sessions[v]
        /\ Balances'[u] = InitialBalance
        /\ Sessions'[u] = NoSession
    BY <1>1, <1>2, <2>1, <2>2, <2>3, <2>4, WriteView
  <2>6. Balances' = [v \in Usernames' |-> Balances'[v]]
          /\ Sessions' = [v \in Usernames' |-> Sessions'[v]]
    BY DEF Balances, Sessions
  <2> QED
    BY <2>1, <2>4, <2>5, <2>6, NamesInView DEF B!Register, B!Answer, Return
<1> QED
  BY <1>4, <1>5

\* A write that keeps what the user owns is a change of session.
LEMMA SessionView ==
    ASSUME IInv, Isolated, NEW w \in Workers, OthersSame(w),
           NEW row, clients' = Replace(row), row.username \in Touched(w),
           pc[w] # "credit", pc'[w] # "credit",
           NEW q \in clients, q.username = row.username, q.balance = row.balance
    PROVE  /\ Balances' = Balances
           /\ Sessions' = [Sessions EXCEPT ![row.username] = SessionIn(row)]
<1>1. GoodTable(clients)
  BY DEF IInv
<1>2. row.username \in Usernames /\ RowOf(row.username, clients) = q
  BY <1>1, OneRow DEF Usernames
<1>3. /\ Usernames' = Usernames
      /\ \A v \in Usernames \ {row.username} :
            Balances'[v] = Balances[v] /\ Sessions'[v] = Sessions[v]
      /\ Balances'[row.username] = Balances[row.username]
      /\ Sessions'[row.username] = SessionIn(row)
  <2>1. Usernames \cup {row.username} = Usernames
    BY <1>2
  <2> QED
    BY <1>2, <2>1, WriteView
<1>4. /\ Balances = [v \in Usernames |-> Balances[v]]
      /\ Sessions = [v \in Usernames |-> Sessions[v]]
      /\ Balances' = [v \in Usernames' |-> Balances'[v]]
      /\ Sessions' = [v \in Usernames' |-> Sessions'[v]]
  BY DEF Balances, Sessions
<1> QED
  BY <1>2, <1>3, <1>4

LEMMA LoginView ==
    ASSUME IsolatedInv, NEW w \in Workers,
           LoginCheck(w) \/ LoginOnline(w) \/ LoginUpdate(w)
    PROVE  /\ B!Next \/ UNCHANGED B!vars
           /\ Balances' = Balances
<1> DEFINE u == req[w].username
           a == req[w].addr
           p == req[w].private_port
<1>1. IInv /\ Isolated /\ GoodTable(clients) /\ Current(w)
  BY DEF IsolatedInv, IInv
<1>2. InLogin(w) /\ u \in Users /\ a \in Addrs /\ p \in Ports /\ u \in Touched(w)
  BY <1>1, RequestTypes, TouchedUsers DEF LoginCheck, LoginOnline, LoginUpdate, InLogin
<1>3. SUFFICES B!Login(w, u, a, p) \/ UNCHANGED B!vars
  BY <1>2 DEF B!Next, B!Login, B!Refuse, B!vars
<1>4. CASE LoginCheck(w)
  <2>1. CASE Named(u) = {} /\ Return(w, "LOGIN_AUTH_FAIL")
    <3>1. B!Refuse(w, "LOGIN_AUTH_FAIL")
      BY <1>1, <1>4, <2>1, RefusalView DEF LoginCheck
    <3>2. u \notin B!Registered
      BY <2>1, RegisteredHasRow, NamesInView
    <3> QED
      BY <3>1, <3>2 DEF B!Login
  <2>2. CASE \E row \in Named(u) : /\ own' = [own EXCEPT ![w] = row]
                                   /\ Goto(w, "login_online")
                                   /\ UNCHANGED other
    BY <1>1, <1>4, <2>2, StutterView DEF LoginCheck
  <2> QED
    BY <1>4, <2>1, <2>2 DEF LoginCheck
<1>5. CASE LoginOnline(w)
  <2>1. CASE Single(OnlineNamed(u)) /\ Return(w, "LOGIN_EXIST")
    <3>1. B!Refuse(w, "LOGIN_EXIST")
      BY <1>1, <1>5, <2>1, RefusalView DEF LoginOnline
    <3>2. u \in B!Online
      BY <1>1, <2>1, OnlineInView DEF Single
    <3> QED
      BY <3>1, <3>2 DEF B!Login
  <2>2. CASE Goto(w, "login_update") /\ UNCHANGED <<own, other>>
    BY <1>1, <1>5, <2>2, StutterView DEF LoginOnline
  <2> QED
    BY <1>5, <2>1, <2>2 DEF LoginOnline
<1>6. CASE LoginUpdate(w)
  <2> DEFINE row == LoggedIn(own[w], a, p)
  <2>1. /\ Return(w, "LOGIN_SUCCESS") /\ clients' = Update(row)
        /\ pc[w] = "login_update"
    BY <1>6 DEF LoginUpdate
  <2>2. Named(u) = {own[w]} /\ own[w].online_status = 0
    BY <1>1, <2>1 DEF Current, LoginRowCurrent
  <2>3. own[w] \in clients /\ own[w] \in Row /\ own[w].username = u
    BY <1>1, <2>2 DEF Named, GoodTable, GoodRow
  <2>4. /\ row.username = u /\ row.balance = own[w].balance
        /\ SessionIn(row) = [addr |-> a, private_port |-> p]
    BY <2>3 DEF LoggedIn, Row, SessionIn
  <2>5. clients' = Replace(row)
    BY <2>1, <2>2, <2>4 DEF Update
  <2>6. OthersSame(w) /\ pc'[w] = "idle"
    BY <1>1, <2>1, ReturnCurrent DEF Return, IInv, TypeOK
  <2>7. u \in B!Registered /\ u \notin B!Online
    <3>1. u \in Usernames
      BY <2>2, RegisteredHasRow
    <3>2. OnlineNamed(u) = {}
      BY <2>2 DEF OnlineNamed
    <3> QED
      BY <1>1, <3>1, <3>2, NamesInView, OnlineInView
  <2> HIDE DEF row, u, a, p
  <2>8. /\ Balances' = Balances
        /\ Sessions' = [Sessions EXCEPT ![u] = [addr |-> a, private_port |-> p]]
    BY <1>1, <1>2, <2>1, <2>3, <2>4, <2>5, <2>6, SessionView
  <2> QED
    BY <2>1, <2>7, <2>8 DEF B!Login, B!Answer, Return
<1> QED
  BY <1>4, <1>5, <1>6

LEMMA LogoutView ==
    ASSUME IsolatedInv, NEW w \in Workers, LogoutCheck(w) \/ LogoutUpdate(w)
    PROVE  /\ B!Next \/ UNCHANGED B!vars
           /\ Balances' = Balances
<1> DEFINE a == req[w].addr
<1>1. IInv /\ Isolated /\ GoodTable(clients) /\ Current(w)
  BY DEF IsolatedInv, IInv
<1>2. a \in Addrs
  BY <1>1, RequestTypes DEF LogoutCheck, LogoutUpdate, InLogout
<1>3. SUFFICES B!Logout(w, a) \/ UNCHANGED B!vars
  BY <1>2 DEF B!Next, B!Logout, B!Refuse, B!vars
<1>4. CASE LogoutCheck(w)
  <2>1. CASE ~Single(OnlineAt(a)) /\ Return(w, "LOGOUT_FAIL")
    <3>1. B!Refuse(w, "LOGOUT_FAIL")
      BY <1>1, <1>4, <2>1, RefusalView DEF LogoutCheck
    <3>2. ASSUME NEW u \in B!At(a), B!At(a) = {u}
          PROVE  FALSE
      <4>1. PICK r \in OnlineAt(a) : r.username = u
        BY <1>1, <3>2, AtInView
      <4>2. ASSUME NEW q \in OnlineAt(a) PROVE q = r
        <5>1. q.username = u
          BY <1>1, <3>2, AtInView
        <5> QED
          BY <1>1, <4>1, <5>1 DEF GoodTable, PrimaryKey, OnlineAt
      <4>3. OnlineAt(a) = {r} /\ r \in OnlineAt(a)
        BY <4>1, <4>2
      <4> QED
        BY <2>1, <4>3 DEF Single
    <3> QED
      BY <3>1, <3>2 DEF B!Logout
  <2>2. CASE \E row \in clients : /\ OnlineAt(a) = {row}
                                  /\ own' = [own EXCEPT ![w] = row]
                                  /\ Goto(w, "logout_update")
                                  /\ UNCHANGED other
    BY <1>1, <1>4, <2>2, StutterView DEF LogoutCheck
  <2> QED
    BY <1>4, <2>1, <2>2 DEF LogoutCheck
<1>5. CASE LogoutUpdate(w)
  <2> DEFINE row == LoggedOut(own[w])
             u == own[w].username
  <2>1. /\ Return(w, "LOGOUT_SUCCESS") /\ clients' = Update(row)
        /\ pc[w] = "logout_update"
    BY <1>5 DEF LogoutUpdate
  <2>2. OnlineAt(a) = {own[w]} /\ own[w] \in clients /\ own[w] \in Row
    BY <1>1, <2>1 DEF Current, LogoutRowCurrent, OnlineAt, GoodTable, GoodRow
  <2>3. row.username = u /\ row.balance = own[w].balance /\ SessionIn(row) = NoSession
    BY <2>2 DEF LoggedOut, Row, SessionIn, NoSession
  <2>4. clients' = Replace(row)
    BY <2>1, <2>2, <2>3 DEF Update, Named
  <2>5. OthersSame(w) /\ pc'[w] = "idle"
    BY <1>1, <2>1, ReturnCurrent DEF Return, IInv, TypeOK
  <2>6. u \in Touched(w)
    BY <1>1, <2>1, TouchedUsers
  <2>7. B!At(a) = {u}
    BY <1>1, <2>2, AtInView
  <2> HIDE DEF row
  <2>8. Balances' = Balances /\ Sessions' = [Sessions EXCEPT ![u] = NoSession]
    BY <1>1, <2>1, <2>2, <2>3, <2>4, <2>5, <2>6, SessionView
  <2> QED
    BY <2>1, <2>7, <2>8 DEF B!Logout, B!Answer, Return
<1> QED
  BY <1>4, <1>5

-----------------------------------------------------------------------------
(***************************************************************************)
(* Transfers.                                                              *)
(***************************************************************************)
LEMMA ChecksView ==
    ASSUME IsolatedInv, NEW w \in Workers, SenderCheck(w) \/ ReceiverCheck(w)
    PROVE  B!Next \/ UNCHANGED B!vars
<1> DEFINE s == req[w].snd
           r == req[w].rcv
           x == req[w].pay
<1>1. IInv /\ GoodTable(clients) /\ Current(w)
  BY DEF IsolatedInv, IInv
<1>2. /\ InTransfer(w) /\ s \in Users /\ r \in Users
      /\ x \in Amounts /\ x \in Int /\ x > 0
  BY <1>1, RequestTypes DEF SenderCheck, ReceiverCheck, InTransfer
<1>3. s # r
  BY <1>1, <1>2 DEF Current, PayeeDiffers
<1>4. SUFFICES B!Transfer(w, s, r, x) \/ UNCHANGED B!vars
  BY <1>2 DEF B!Next
<1>5. CASE SenderCheck(w)
  BY <1>1, <1>5, StutterView DEF SenderCheck
<1>6. CASE ReceiverCheck(w)
  <2>0. pc[w] = "receiver_check" /\ clients' = clients
    BY <1>6 DEF ReceiverCheck
  <2>1. CASE (own[w] = NoRow \/ ~Single(OnlineNamed(r))) /\ Return(w, "TRANSFER_FAIL")
    <3>1. B!Refuse(w, "TRANSFER_FAIL")
      BY <1>1, <2>0, <2>1, RefusalView
    <3>2. s \notin B!Online \/ r \notin B!Online
      <4>1. CASE own[w] = NoRow
        BY <1>1, <2>0, <4>1, OnlineInView DEF Current, SenderCurrent
      <4>2. CASE ~Single(OnlineNamed(r))
        BY <1>1, <4>2, NoneOnline, OnlineInView
      <4> QED
        BY <2>1, <4>1, <4>2
    <3> QED
      BY <1>3, <3>1, <3>2 DEF B!Transfer
  <2>2. ASSUME NEW row \in clients, own[w] # NoRow, OnlineNamed(r) = {row},
               Bankrupt(own[w], x), Return(w, "TRANSFER_SENDER_BANKRUPT")
        PROVE  B!Transfer(w, s, r, x)
    <3>1. B!Refuse(w, "TRANSFER_SENDER_BANKRUPT")
      BY <1>1, <2>0, <2>2, RefusalView
    <3>2. OnlineNamed(s) = {own[w]}
      BY <1>1, <2>0, <2>2 DEF Current, SenderCurrent
    <3>3. s \in B!Online /\ r \in B!Online
      BY <1>1, <2>2, <3>2, OnlineInView
    <3>4. own[w] \in clients /\ own[w] \in Row /\ own[w].username = s
      BY <1>1, <3>2 DEF OnlineNamed, Named, GoodTable, GoodRow
    <3>5. Balances[s] = own[w].balance
      <4>1. s \in Usernames /\ RowOf(s, clients) = own[w]
        BY <1>1, <3>4, OneRow DEF Usernames
      <4>2. Debiting(s) \subseteq {w} /\ w \notin Debiting(s)
        <5>1. s \in Touched(w)
          BY <1>1, <1>2, TouchedUsers
        <5>2. Debiting(s) \subseteq {w}
          BY <1>1, <5>1, DebitingTouched DEF IsolatedInv
        <5> QED
          BY <2>0, <5>2 DEF Debiting
      <4>3. Debiting(s) = {}
        BY <4>2
      <4>4. Owned(s) = own[w].balance
        BY <4>1, <4>3, OwnedInRow
      <4> QED
        BY <4>1, <4>4 DEF Balances
    <3>6. own[w].balance * Scale < x
      BY <1>2, <2>2, <3>4, StoreAssumption DEF Bankrupt, Row
    <3> QED
      BY <1>2, <1>3, <3>1, <3>3, <3>5, <3>6 DEF B!Transfer
  <2>3. CASE \E row \in clients : /\ other' = [other EXCEPT ![w] = row]
                                  /\ Goto(w, "debit")
                                  /\ UNCHANGED own
    BY <1>1, <2>0, <2>3, StutterView
  <2> QED
    BY <1>6, <2>1, <2>2, <2>3 DEF ReceiverCheck
<1> QED
  BY <1>5, <1>6

\* Before its credit a transfer has done the debit and nothing that shows.
LEMMA DebitView ==
    ASSUME IsolatedInv, NEW w \in Workers, Debit(w)
    PROVE  UNCHANGED B!vars
<1> DEFINE s == req[w].snd
           row == Debited(own[w], req[w].pay)
<1>1. IInv /\ Isolated /\ GoodTable(clients) /\ Current(w)
  BY DEF IsolatedInv, IInv
<1>2. pc[w] = "debit" /\ clients' = Update(row) /\ Goto(w, "credit")
        /\ own' = own /\ other' = other
  BY DEF Debit
<1>3. own[w] \in clients /\ own[w] \in Row /\ own[w].username = s
  BY <1>2, TransferRows
<1>4. row.username = s /\ SessionIn(row) = SessionIn(own[w])
  BY <1>3, PaidRows DEF SessionIn
<1>5. clients' = Replace(row)
  BY <1>2, <1>3, <1>4 DEF Update, Named
<1>6. OthersSame(w) /\ pc'[w] = "credit" /\ req'[w] = req[w]
  BY <1>1, <1>2, GotoSame
<1>7. Debiting(s) = {}
  <2>1. s \in Touched(w)
    BY <1>1, <1>2, TouchedUsers DEF InTransfer
  <2>2. Debiting(s) \subseteq {w}
    BY <1>1, <2>1, DebitingTouched
  <2> QED
    BY <1>2, <2>2 DEF Debiting
<1>8. s \in Usernames /\ RowOf(s, clients) = own[w]
  BY <1>1, <1>3, OneRow DEF Usernames
<1>9. Usernames' = Usernames
  <2>1. Usernames' = Usernames \cup {s}
    BY <1>4, <1>5, ReplaceKeepsUsers DEF Usernames
  <2> QED
    BY <1>8, <2>1
<1> HIDE DEF row, s
<1>10. ASSUME NEW v \in Usernames
       PROVE  Owned(v)' = Owned(v) /\ SessionIn(RowOf(v, clients))' = SessionIn(RowOf(v, clients))
  <2>1. CASE v # s
    <3>1. RowOf(v, clients)' = RowOf(v, clients)
      BY <1>1, <1>4, <1>5, <2>1, ReplaceOthers
    <3>2. w \notin Debiting(v) /\ w \notin Debiting(v)'
      BY <1>2, <1>6, <2>1 DEF Debiting, s
    <3> QED
      BY <1>6, <3>1, <3>2, OwnedKept DEF SessionIn
  <2>2. CASE v = s
    <3>1. Owned(v) = own[w].balance
      BY <1>7, <1>8, <2>2, OwnedInRow
    <3>2. Debiting(v)' = {w}
      <4>1. \A t \in Workers : t # w => ~(pc'[t] = "credit" /\ req'[t].snd = v)
        BY <1>6, <1>7, <2>2 DEF Debiting, OthersSame
      <4>2. pc'[w] = "credit" /\ req'[w].snd = v
        BY <1>6, <2>2 DEF s
      <4> QED
        BY <4>1, <4>2 DEF Debiting
    <3>3. Owned(v)' = own[w].balance
      BY <1>2, <3>2 DEF Owned
    <3>4. RowOf(v, clients)' = row
      BY <1>1, <1>4, <1>5, <2>2, ReplaceOwn
    <3>5. SessionIn(RowOf(v, clients))' = SessionIn(RowOf(v, clients))
      BY <1>4, <1>8, <2>2, <3>4 DEF SessionIn
    <3> QED
      BY <3>1, <3>3, <3>5
  <2> QED
    BY <2>1, <2>2
<1>11. Balances' = Balances
  BY <1>9, <1>10 DEF Balances
<1>12. Sessions' = Sessions
  BY <1>9, <1>10 DEF Sessions
<1> QED
  BY <1>2, <1>11, <1>12 DEF B!vars, Goto

\* What the bank sees of the call that is about to credit.
LEMMA BeforeCredit ==
    ASSUME IsolatedInv, NEW w \in Workers, pc[w] = "credit",
           NEW s, s = req[w].snd, NEW r, r = req[w].rcv, NEW x, x = req[w].pay
    PROVE  /\ s \in B!Online /\ r \in B!Online /\ s # r
           /\ s \in Users /\ r \in Users /\ s \in Usernames /\ r \in Usernames
           /\ x \in Amounts /\ x > 0
           /\ Debiting(s) = {w} /\ Debiting(r) = {}
           /\ Balances[s] = own[w].balance /\ Balances[s] * Scale >= x
           /\ B!Less(s, x) = RowOf(s, clients).balance
           /\ Balances[r] = other[w].balance
           /\ RowOf(r, clients) = other[w]
<1>1. IInv /\ Isolated /\ GoodTable(clients) /\ InTransfer(w)
  BY DEF IsolatedInv, IInv, InTransfer
<1>2. /\ own[w] \in Row /\ own[w].username = s /\ own[w].online_status = 1
      /\ other[w] \in Row /\ other[w] \in clients
      /\ other[w].username = r /\ other[w].online_status = 1
      /\ Debited(own[w], x) \in clients /\ s # r
  BY TransferRows
<1>3. s \in Users /\ r \in Users /\ x \in Amounts /\ x \in Int /\ x > 0
  BY <1>1, RequestTypes
<1>4. s \in Touched(w) /\ r \in Touched(w)
  BY <1>1, TouchedUsers
<1> DEFINE row == Debited(own[w], x)
<1>5. /\ row.username = s /\ row.online_status = 1
      /\ row.balance = (own[w].balance * Scale - x) \div Scale
  <2>1. row.username = s /\ row.online_status = 1
    BY <1>2, PaidRows
  <2>2. row.balance = (own[w].balance * Scale - x) \div Scale
    BY <1>2 DEF Debited, Row
  <2> QED
    BY <2>1, <2>2
<1>6. row \in clients
  BY <1>2
<1> HIDE DEF row
<1>7. /\ s \in Usernames /\ RowOf(s, clients) = row
      /\ r \in Usernames /\ RowOf(r, clients) = other[w]
  BY <1>1, <1>2, <1>5, <1>6, OneRow DEF Usernames
<1>8. s \in B!Online /\ r \in B!Online
  BY <1>1, <1>2, <1>5, <1>6, OnlineInView DEF OnlineNamed, Named
<1>9. Debiting(s) = {w} /\ Debiting(r) = {}
  <2>1. Debiting(s) \subseteq {w} /\ Debiting(r) \subseteq {w}
    BY <1>1, <1>4, DebitingTouched
  <2>2. w \in Debiting(s) /\ w \notin Debiting(r)
    BY <1>2 DEF Debiting
  <2> QED
    BY <2>1, <2>2
<1>10. Balances[s] = own[w].balance /\ Balances[r] = other[w].balance
  BY <1>7, <1>9, OwnedInRow, OwnedInDebit DEF Balances
<1>11. own[w].balance * Scale >= x
  <2>1. ~Bankrupt(own[w], x)
    BY <1>1, <1>2 DEF IInv, WorkerInv, TransferCall
  <2> QED
    BY <1>2, <1>3, <2>1, StoreAssumption DEF Bankrupt, Row
<1>12. B!Less(s, x) = RowOf(s, clients).balance
  BY <1>5, <1>7, <1>10 DEF B!Less
<1> QED
  BY <1>2, <1>3, <1>7, <1>8, <1>9, <1>10, <1>11, <1>12

\* Once the call has ended, the sender owns what is left in the row.
LEMMA DebitEnds ==
    ASSUME NEW w \in Workers, OthersSame(w), pc'[w] = "idle", NEW s, Debiting(s) = {w}
    PROVE  Owned(s)' = RowOf(s, clients)'.balance
<1>1. \A t \in Workers : t # w => ~(pc'[t] = "credit" /\ req'[t].snd = s)
  BY DEF Debiting, OthersSame
<1>2. Debiting(s)' = {}
  BY <1>1 DEF Debiting
<1> QED
  BY <1>2 DEF Owned

LEMMA CreditView ==
    ASSUME IsolatedInv, NEW w \in Workers, Credit(w)
    PROVE  /\ B!Next
           /\ \E s, r, x :
                 /\ s = req[w].snd /\ r = req[w].rcv /\ x = req[w].pay
                 /\ Balances' = [Balances EXCEPT ![s] = B!Less(s, x), ![r] = B!More(r, x)]
<1> DEFINE row == Credited(other[w], req[w].pay)
<1>1. IInv /\ Isolated /\ GoodTable(clients)
  BY DEF IsolatedInv, IInv
<1>2. pc[w] = "credit" /\ clients' = Update(row) /\ Return(w, "TRANSFER_OK")
  BY DEF Credit
<1>3. PICK s, r, x : s = req[w].snd /\ r = req[w].rcv /\ x = req[w].pay
  OBVIOUS
<1>4. /\ s \in B!Online /\ r \in B!Online /\ s # r
      /\ s \in Users /\ r \in Users /\ s \in Usernames /\ r \in Usernames
      /\ x \in Amounts /\ x > 0
      /\ Debiting(s) = {w} /\ Debiting(r) = {}
      /\ Balances[s] * Scale >= x
      /\ B!Less(s, x) = RowOf(s, clients).balance
      /\ Balances[r] = other[w].balance
      /\ RowOf(r, clients) = other[w]
  BY <1>2, <1>3, BeforeCredit
<1>5. /\ other[w] \in Row /\ other[w] \in clients
      /\ other[w].username = r
  BY <1>2, <1>3, TransferRows
<1>6. row.username = r /\ SessionIn(row) = SessionIn(other[w])
  BY <1>5, PaidRows DEF SessionIn
<1>7. row.balance = B!More(r, x)
  BY <1>3, <1>4, <1>5 DEF B!More, Credited, Row
<1>8. clients' = Replace(row)
  BY <1>2, <1>5, <1>6 DEF Update, Named
<1>9. OthersSame(w) /\ pc'[w] = "idle"
  BY <1>1, <1>2, ReturnCurrent DEF Return, IInv, TypeOK
<1> HIDE DEF row
<1>10. Usernames' = Usernames
  <2>1. Usernames' = Usernames \cup {r}
    BY <1>6, <1>8, ReplaceKeepsUsers DEF Usernames
  <2> QED
    BY <1>4, <2>1
<1>11. ASSUME NEW v \in Usernames, v # r
       PROVE  RowOf(v, clients)' = RowOf(v, clients)
  BY <1>1, <1>6, <1>8, <1>11, ReplaceOthers
<1>12. RowOf(r, clients)' = row
  BY <1>1, <1>6, <1>8, ReplaceOwn
<1>13. Owned(s)' = B!Less(s, x)
  BY <1>4, <1>9, <1>11, DebitEnds
<1>14. Owned(r)' = B!More(r, x)
  <2>1. Debiting(r)' = {}
    BY <1>4, <1>9 DEF Debiting, OthersSame
  <2> QED
    BY <1>7, <1>12, <2>1 DEF Owned
<1>15. ASSUME NEW v \in Usernames, v # s, v # r
       PROVE  Owned(v)' = Owned(v)
  <2>1. w \notin Debiting(v) /\ w \notin Debiting(v)'
    BY <1>3, <1>9, <1>15 DEF Debiting
  <2> QED
    BY <1>9, <1>11, <1>15, <2>1, OwnedKept
<1>16. Balances' = [Balances EXCEPT ![s] = B!Less(s, x), ![r] = B!More(r, x)]
  BY <1>4, <1>10, <1>13, <1>14, <1>15 DEF Balances
<1>17. Sessions' = Sessions
  BY <1>4, <1>6, <1>10, <1>11, <1>12 DEF Sessions, SessionIn
<1>18. B!Transfer(w, s, r, x)
  BY <1>2, <1>4, <1>16, <1>17 DEF B!Transfer, B!Answer, Return
<1>19. B!Next
  BY <1>4, <1>18 DEF B!Next
<1> QED
  BY <1>3, <1>16, <1>19

LEMMA BusyView ==
    ASSUME IsolatedInv, NEW w \in Workers, Busy(w)
    PROVE  /\ B!Next
           /\ pc[w] # "credit" => Balances' = Balances
           /\ pc[w] = "credit" =>
                 \E s, x :
                    /\ s = req[w].snd /\ x = req[w].pay
                    /\ Balances' = [Balances EXCEPT ![s] = B!Less(s, x)]
<1>1. IInv /\ Return(w, "SQLITE_BUSY") /\ clients' = clients
  BY DEF IsolatedInv, Busy
<1>2. CASE pc[w] # "credit"
  <2>1. B!Refuse(w, "SQLITE_BUSY")
    BY <1>1, <1>2, RefusalView
  <2> QED
    BY <1>2, <2>1 DEF B!Next, B!Fail, B!Refuse
<1>3. CASE pc[w] = "credit"
  <2>1. PICK s, r, x : s = req[w].snd /\ r = req[w].rcv /\ x = req[w].pay
    OBVIOUS
  <2>2. /\ s \in B!Online /\ s \in Usernames
        /\ x \in Amounts /\ x > 0
        /\ Debiting(s) = {w}
        /\ Balances[s] * Scale >= x
        /\ B!Less(s, x) = RowOf(s, clients).balance
    BY <1>3, <2>1, BeforeCredit
  <2>3. OthersSame(w) /\ pc'[w] = "idle"
    BY <1>1, ReturnCurrent DEF Return, IInv, TypeOK
  <2>4. Usernames' = Usernames /\ \A v : RowOf(v, clients)' = RowOf(v, clients)
    BY <1>1 DEF Usernames, RowOf
  <2>5. Owned(s)' = B!Less(s, x)
    BY <2>2, <2>3, <2>4, DebitEnds
  <2>6. ASSUME NEW v \in Usernames, v # s
        PROVE  Owned(v)' = Owned(v)
    <3>1. w \notin Debiting(v) /\ w \notin Debiting(v)'
      BY <2>1, <2>3, <2>6 DEF Debiting
    <3> QED
      BY <2>3, <2>4, <3>1, OwnedKept
  <2>7. Balances' = [Balances EXCEPT ![s] = B!Less(s, x)]
    BY <2>2, <2>4, <2>5, <2>6 DEF Balances
  <2>8. Sessions' = Sessions
    BY <2>4 DEF Sessions, SessionIn
  <2>9. B!Fail(w)
    BY <1>1, <2>2, <2>7, <2>8 DEF B!Fail, B!Answer, Return
  <2>10. B!Next
    BY <2>9 DEF B!Next
  <2> QED
    BY <1>3, <2>1, <2>7, <2>10
<1> QED
  BY <1>2, <1>3

-----------------------------------------------------------------------------

LEMMA InitView == Init => B!Init
<1> SUFFICES ASSUME Init PROVE B!Init
  OBVIOUS
<1>1. Usernames = KeptNames /\ clients = Kept
  BY DEF Init, Usernames, KeptNames
<1>2. ASSUME NEW u
      PROVE  Owned(u) = RowOf(u, Kept).balance
  <2>1. Debiting(u) = {}
    BY DEF Init, Debiting
  <2> QED
    BY <1>1, <2>1, OwnedInRow
<1>3. Balances = [u \in KeptNames |-> RowOf(u, Kept).balance]
  BY <1>1, <1>2 DEF Balances
<1>4. Sessions = [u \in KeptNames |-> SessionIn(RowOf(u, Kept))]
  BY <1>1 DEF Sessions
<1> QED
  BY <1>3, <1>4 DEF B!Init, Init

LEMMA StepView == IsolatedInv /\ [Next /\ Isolated']_vars => [B!Next]_B!vars
<1> SUFFICES ASSUME IsolatedInv, [Next /\ Isolated']_vars
             PROVE  B!Next \/ UNCHANGED B!vars
  OBVIOUS
<1>1. CASE UNCHANGED vars
  BY <1>1 DEF vars, B!vars, Balances, Sessions, Owned, Debiting, RowOf, SessionIn, Usernames
<1>2. CASE Next
  BY <1>2, CallView, RegisterView, LoginView, LogoutView, ChecksView, DebitView,
     CreditView, ListView, BusyView DEF Next, Step
<1> QED
  BY <1>1, <1>2

\* While calls in progress concern different users the account database is the
\* bank: each call of class Database takes effect at one moment, whatever the
\* statements of the other calls do in between.
THEOREM StoreImplementsBank == IsolatedSpec => ActsAsBank
<1>1. IsolatedSpec => []IsolatedInv
  BY ReadsStayCurrent
<1> QED
  BY <1>1, InitView, StepView, PTL DEF IsolatedSpec, ActsAsBank, B!Spec

-----------------------------------------------------------------------------
(***************************************************************************)
(* Sums over finite sets.  The library's sum is a fold; what it computes   *)
(* is shown by looking at a smallest set for which it would not hold.      *)
(***************************************************************************)
\* The sum of a function over a set of its arguments.
SumOf(f, S) == MapThenSumSet(LAMBDA x : f[x], S)

\* A function that does what the fold does on the subsets of S.
IsSum(h, f, S) ==
    h = [s \in SUBSET S |->
            IF s = {} THEN 0
            ELSE LET x == CHOOSE x \in s : TRUE IN f[x] + h[s \ {x}]]

LEMMA SumUnfolds ==
    ASSUME NEW f, NEW S
    PROVE  SumOf(f, S) = (CHOOSE h : IsSum(h, f, S))[S]
BY DEF SumOf, MapThenSumSet, MapThenFoldSet, IsSum

\* Of some subsets of a finite set, one holds no other of them.
LEMMA SmallestSet ==
    ASSUME NEW S, IsFiniteSet(S), NEW C, C \subseteq SUBSET S, C # {}
    PROVE  \E s \in C : \A t \in C : t \subseteq s => t = s
<1>1. IsWellFoundedOn(StrictSubsetOrdering(S), FiniteSubsetsOf(S))
  BY FS_StrictSubsetOrderingWellFounded
<1>2. C \subseteq FiniteSubsetsOf(S)
  BY FS_FiniteSubsetsOfFinite
<1>3. \E s \in C : \A t \in C : ~ (<<t, s>> \in StrictSubsetOrdering(S))
  BY <1>1, <1>2, WFMin
<1>4. PICK s \in C : \A t \in C : ~ (<<t, s>> \in StrictSubsetOrdering(S))
  BY <1>3
<1>5. ASSUME NEW t \in C, t \subseteq s, t # s PROVE FALSE
  <2>1. <<t, s>> \in (SUBSET S) \X (SUBSET S)
    OBVIOUS
  <2>2. <<t, s>>[1] = t /\ <<t, s>>[2] = s
    OBVIOUS
  <2>3. <<t, s>> \in StrictSubsetOrdering(S)
    BY <1>5, <2>1, <2>2 DEF StrictSubsetOrdering
  <2> QED
    BY <1>4, <2>3
<1> QED
  BY <1>5

LEMMA SumsAgree ==
    ASSUME NEW f, NEW S, NEW T, NEW g, NEW h, IsSum(g, f, S), IsSum(h, f, T),
           NEW s \in SUBSET S, s \in SUBSET T, IsFiniteSet(s)
    PROVE  g[s] = h[s]
<1> SUFFICES ASSUME g[s] # h[s] PROVE FALSE
  OBVIOUS
<1> DEFINE C == {t \in SUBSET s : g[t] # h[t]}
<1>1. PICK t \in C : \A r \in C : r \subseteq t => r = t
  <2>1. C \subseteq SUBSET s /\ C # {}
    OBVIOUS
  <2> HIDE DEF C
  <2> QED
    BY <2>1, SmallestSet
<1> DEFINE x == CHOOSE y \in t : TRUE
<1>2. t \in SUBSET S /\ t \in SUBSET T
  OBVIOUS
<1>3. g[t] = IF t = {} THEN 0 ELSE f[x] + g[t \ {x}]
  BY <1>2 DEF IsSum
<1>4. h[t] = IF t = {} THEN 0 ELSE f[x] + h[t \ {x}]
  BY <1>2 DEF IsSum
<1>5. CASE t = {}
  BY <1>3, <1>4, <1>5
<1>6. CASE t # {}
  <2>1. x \in t
    BY <1>6
  <2> HIDE DEF x
  <2>2. t \ {x} \notin C
    BY <1>1, <2>1
  <2>3. g[t \ {x}] = h[t \ {x}]
    BY <2>2
  <2> QED
    BY <1>3, <1>4, <1>6, <2>3
<1> QED
  BY <1>5, <1>6

\* The equation the sums of the subsets of S satisfy.
SumEquation(f, s) ==
    SumOf(f, s) = IF s = {} THEN 0
                  ELSE LET x == CHOOSE x \in s : TRUE
                       IN  f[x] + SumOf(f, s \ {x})

\* With the equation for smaller sets, there is a function as the fold needs.
LEMMA SumStep ==
    ASSUME NEW f, NEW S, IsFiniteSet(S),
           \A t \in SUBSET S : t # S =>
               SumEquation(f, t) /\ \E h : IsSum(h, f, t)
    PROVE  SumEquation(f, S) /\ \E h : IsSum(h, f, S)
<1> DEFINE x == CHOOSE y \in S : TRUE
           top == IF S = {} THEN 0 ELSE f[x] + SumOf(f, S \ {x})
           g == [s \in SUBSET S |-> IF s = S THEN top ELSE SumOf(f, s)]
<1>1. ASSUME NEW s \in SUBSET S
      PROVE  g[s] = IF s = {} THEN 0
                    ELSE LET y == CHOOSE y \in s : TRUE IN f[y] + g[s \ {y}]
  <2> DEFINE y == CHOOSE z \in s : TRUE
  <2>1. CASE s = {}
    BY <2>1 DEF SumEquation
  <2>2. CASE s # {}
    <3>1. y \in s
      BY <2>2
    <3>2. s \ {y} \in SUBSET S /\ s \ {y} # S
      BY <3>1
    <3>3. g[s \ {y}] = SumOf(f, s \ {y})
      BY <3>2
    <3>4. CASE s = S
      BY <2>2, <3>3, <3>4
    <3>5. CASE s # S
      <4>1. SumEquation(f, s)
        BY <3>5
      <4>2. SumOf(f, s) = f[y] + SumOf(f, s \ {y})
        BY <2>2, <4>1 DEF SumEquation
      <4>3. g[s] = SumOf(f, s)
        BY <3>5
      <4> QED
        BY <2>2, <3>3, <4>2, <4>3
    <3> QED
      BY <3>4, <3>5
  <2> QED
    BY <2>1, <2>2
<1>2. IsSum(g, f, S)
  <2>1. g = [s \in SUBSET S |-> g[s]]
    OBVIOUS
  <2> HIDE DEF g
  <2> QED
    BY <1>1, <2>1 DEF IsSum
<1> DEFINE c == CHOOSE h : IsSum(h, f, S)
<1>3. IsSum(c, f, S)
  <2> HIDE DEF g
  <2> QED BY <1>2
<1>4. SumOf(f, S) = c[S]
  BY SumUnfolds
<1>5. c[S] = g[S]
  <2>1. S \in SUBSET S
    OBVIOUS
  <2> HIDE DEF c, g
  <2> QED
    BY <1>2, <1>3, <2>1, SumsAgree
<1>6. g[S] = top
  OBVIOUS
<1>7. SumEquation(f, S)
  <2> HIDE DEF c, g
  <2> QED BY <1>4, <1>5, <1>6 DEF SumEquation
<1> QED
  BY <1>2, <1>7

LEMMA SumHolds ==
    ASSUME NEW f, NEW S, IsFiniteSet(S)
    PROVE  SumEquation(f, S) /\ \E h : IsSum(h, f, S)
<1> DEFINE good(t) == SumEquation(f, t) /\ \E h : IsSum(h, f, t)
           C == {t \in SUBSET S : ~good(t)}
<1> SUFFICES ASSUME ~good(S) PROVE FALSE
  OBVIOUS
<1>1. PICK t \in C : \A r \in C : r \subseteq t => r = t
  <2>1. C \subseteq SUBSET S /\ C # {}
    OBVIOUS
  <2> HIDE DEF C
  <2> QED
    BY <2>1, SmallestSet
<1>2. IsFiniteSet(t)
  BY FS_Subset
<1>3. \A r \in SUBSET t : r # t => good(r)
  BY <1>1
<1> QED
  BY <1>2, <1>3, SumStep

LEMMA SumEmpty ==
    ASSUME NEW f
    PROVE  SumOf(f, {}) = 0
BY SumHolds, FS_EmptySet DEF SumEquation

LEMMA SumChoice ==
    ASSUME NEW f, NEW S, IsFiniteSet(S), S # {}
    PROVE  \E x \in S : SumOf(f, S) = f[x] + SumOf(f, S \ {x})
<1> DEFINE x == CHOOSE y \in S : TRUE
<1>1. x \in S
  OBVIOUS
<1>2. SumOf(f, S) = f[x] + SumOf(f, S \ {x})
  BY SumHolds DEF SumEquation
<1> QED
  BY <1>1, <1>2

LEMMA SumInt ==
    ASSUME NEW f, NEW S, IsFiniteSet(S), \A x \in S : f[x] \in Int
    PROVE  SumOf(f, S) \in Int
<1> DEFINE C == {t \in SUBSET S : SumOf(f, t) \notin Int}
<1> SUFFICES ASSUME SumOf(f, S) \notin Int PROVE FALSE
  OBVIOUS
<1>1. PICK t \in C : \A r \in C : r \subseteq t => r = t
  <2>1. C \subseteq SUBSET S /\ C # {}
    OBVIOUS
  <2> HIDE DEF C
  <2> QED
    BY <2>1, SmallestSet
<1>2. IsFiniteSet(t) /\ t # {}
  <2>1. SumOf(f, t) \notin Int
    OBVIOUS
  <2>2. SumOf(f, {}) \in Int
    BY SumEmpty
  <2> QED
    BY <2>1, <2>2, FS_Subset
<1>3. PICK x \in t : SumOf(f, t) = f[x] + SumOf(f, t \ {x})
  BY <1>2, SumChoice
<1>4. SumOf(f, t \ {x}) \in Int
  BY <1>1
<1> QED
  BY <1>3, <1>4

\* Any element can be the last one added.
LEMMA SumAdd ==
    ASSUME NEW f, NEW S, IsFiniteSet(S), \A x \in S : f[x] \in Int, NEW a \in S
    PROVE  SumOf(f, S) = f[a] + SumOf(f, S \ {a})
<1> DEFINE C == {t \in SUBSET S : \E b \in t : SumOf(f, t) # f[b] + SumOf(f, t \ {b})}
<1> SUFFICES ASSUME SumOf(f, S) # f[a] + SumOf(f, S \ {a}) PROVE FALSE
  OBVIOUS
<1>1. PICK t \in C : \A r \in C : r \subseteq t => r = t
  <2>1. C \subseteq SUBSET S /\ C # {}
    OBVIOUS
  <2> HIDE DEF C
  <2> QED
    BY <2>1, SmallestSet
<1>2. PICK b \in t : SumOf(f, t) # f[b] + SumOf(f, t \ {b})
  OBVIOUS
<1>3. IsFiniteSet(t) /\ t # {}
  BY FS_Subset
<1>4. PICK x \in t : SumOf(f, t) = f[x] + SumOf(f, t \ {x})
  BY <1>3, SumChoice
<1>5. x # b
  BY <1>2, <1>4
<1>6. SumOf(f, t \ {x}) = f[b] + SumOf(f, (t \ {x}) \ {b})
  <2>1. t \ {x} \notin C /\ b \in t \ {x} /\ t \ {x} \in SUBSET S
    BY <1>1, <1>5
  <2> QED
    BY <2>1
<1>7. SumOf(f, t \ {b}) = f[x] + SumOf(f, (t \ {b}) \ {x})
  <2>1. t \ {b} \notin C /\ x \in t \ {b} /\ t \ {b} \in SUBSET S
    BY <1>1, <1>5
  <2> QED
    BY <2>1
<1>8. (t \ {x}) \ {b} = (t \ {b}) \ {x}
  OBVIOUS
<1>9. SumOf(f, (t \ {b}) \ {x}) \in Int
  <2>1. IsFiniteSet((t \ {b}) \ {x})
    BY <1>3, FS_RemoveElement
  <2> QED
    BY <2>1, SumInt
<1>10. f[x] \in Int /\ f[b] \in Int
  OBVIOUS
<1> DEFINE rest == SumOf(f, (t \ {b}) \ {x})
<1>11. SumOf(f, t) = f[x] + (f[b] + rest)
  BY <1>4, <1>6, <1>8
<1>12. f[b] + SumOf(f, t \ {b}) = f[b] + (f[x] + rest)
  BY <1>7
<1>13. f[x] + (f[b] + rest) = f[b] + (f[x] + rest)
  <2>1. rest \in Int
    BY <1>9
  <2> HIDE DEF rest
  <2> QED
    BY <1>10, <2>1
<1> QED
  BY <1>2, <1>11, <1>12, <1>13

LEMMA SumSame ==
    ASSUME NEW f, NEW g, NEW S, IsFiniteSet(S), \A x \in S : f[x] \in Int,
           \A x \in S : f[x] = g[x]
    PROVE  SumOf(f, S) = SumOf(g, S)
<1> DEFINE C == {t \in SUBSET S : SumOf(f, t) # SumOf(g, t)}
<1> SUFFICES ASSUME SumOf(f, S) # SumOf(g, S) PROVE FALSE
  OBVIOUS
<1>1. PICK t \in C : \A r \in C : r \subseteq t => r = t
  <2>1. C \subseteq SUBSET S /\ C # {}
    OBVIOUS
  <2> HIDE DEF C
  <2> QED
    BY <2>1, SmallestSet
<1>2. IsFiniteSet(t) /\ t # {}
  BY FS_Subset, SumEmpty
<1>3. PICK x \in t : SumOf(f, t) = f[x] + SumOf(f, t \ {x})
  BY <1>2, SumChoice
<1>4. SumOf(g, t) = g[x] + SumOf(g, t \ {x})
  <2>1. \A y \in t : g[y] \in Int
    OBVIOUS
  <2> QED
    BY <1>2, <2>1, SumAdd
<1>5. SumOf(f, t \ {x}) = SumOf(g, t \ {x})
  BY <1>1
<1> QED
  BY <1>3, <1>4, <1>5

\* Naming the arguments otherwise does not change the sum, nor their number.
Renames(m, f, S, g, T) ==
    /\ T = {m[x] : x \in S}
    /\ \A x, y \in S : m[x] = m[y] => x = y
    /\ \A x \in S : f[x] \in Int
    /\ \A x \in S : g[m[x]] = f[x]

LEMMA SumRenamed ==
    ASSUME NEW f, NEW g, NEW m, NEW S, NEW T, IsFiniteSet(S), Renames(m, f, S, g, T)
    PROVE  /\ IsFiniteSet(T)
           /\ Cardinality(T) = Cardinality(S)
           /\ SumOf(g, T) = SumOf(f, S)
<1> DEFINE image(t) == {m[x] : x \in t}
           good(t) == /\ IsFiniteSet(image(t))
                      /\ Cardinality(image(t)) = Cardinality(t)
                      /\ SumOf(g, image(t)) = SumOf(f, t)
           C == {t \in SUBSET S : ~good(t)}
<1>1. /\ T = image(S)
      /\ \A x, y \in S : m[x] = m[y] => x = y
      /\ \A x \in S : f[x] \in Int
      /\ \A x \in S : g[m[x]] = f[x]
  BY DEF Renames
<1> SUFFICES ASSUME ~good(S) PROVE FALSE
  BY <1>1
<1>2. PICK t \in C : \A r \in C : r \subseteq t => r = t
  <2>1. C \subseteq SUBSET S /\ C # {}
    OBVIOUS
  <2> HIDE DEF C
  <2> QED
    BY <2>1, SmallestSet
<1>3. IsFiniteSet(t)
  BY FS_Subset
<1>4. CASE t = {}
  <2>1. image(t) = {}
    BY <1>4
  <2>2. good(t)
    BY <1>4, <2>1, FS_EmptySet, SumEmpty
  <2> QED
    BY <2>2
<1>5. CASE t # {}
  <2>1. PICK x \in t : SumOf(f, t) = f[x] + SumOf(f, t \ {x})
    BY <1>3, <1>5, SumChoice
  <2>2. good(t \ {x})
    BY <1>2
  <2>3. image(t) = image(t \ {x}) \cup {m[x]} /\ m[x] \notin image(t \ {x})
    BY <1>1
  <2>4. image(t) \ {m[x]} = image(t \ {x})
    BY <2>3
  <2>5. /\ IsFiniteSet(image(t))
        /\ Cardinality(image(t)) = Cardinality(image(t \ {x})) + 1
    <3>1. IsFiniteSet(image(t \ {x}))
      BY <2>2
    <3> HIDE DEF image, good, C
    <3> QED
      BY <2>3, <3>1, FS_AddElement
  <2>6. Cardinality(t \ {x}) = Cardinality(t) - 1 /\ Cardinality(t) \in Nat
    BY <1>3, FS_RemoveElement, FS_CardinalityType
  <2>7. SumOf(g, image(t)) = g[m[x]] + SumOf(g, image(t) \ {m[x]})
    <3>1. \A u \in image(t) : g[u] \in Int
      BY <1>1
    <3>2. m[x] \in image(t)
      OBVIOUS
    <3> HIDE DEF image
    <3> QED
      BY <2>5, <3>1, <3>2, SumAdd
  <2>8. g[m[x]] = f[x]
    BY <1>1
  <2>9. SumOf(g, image(t)) = SumOf(f, t)
    BY <2>1, <2>2, <2>4, <2>7, <2>8
  <2>10. Cardinality(image(t)) = Cardinality(t)
    <3> HIDE DEF image
    <3> QED BY <2>2, <2>5, <2>6
  <2> QED
    BY <2>5, <2>9, <2>10
<1> QED
  BY <1>4, <1>5

\* One value changes.
Changed(g, f, S, a, v) ==
    /\ a \in S /\ v \in Int
    /\ \A x \in S : f[x] \in Int
    /\ \A x \in S : g[x] = IF x = a THEN v ELSE f[x]

LEMMA SumExcept ==
    ASSUME NEW S, IsFiniteSet(S), NEW f, NEW g, NEW a, NEW v, Changed(g, f, S, a, v)
    PROVE  /\ SumOf(f, S) \in Int
           /\ SumOf(g, S) = SumOf(f, S) - f[a] + v
<1> DEFINE T == S \ {a}
<1>1. a \in S /\ v \in Int /\ \A x \in S : f[x] \in Int
  BY DEF Changed
<1>2. g[a] = v /\ \A x \in T : g[x] = f[x]
  BY DEF Changed
<1>3. \A x \in S : g[x] \in Int
  BY DEF Changed
<1>4. IsFiniteSet(T)
  BY FS_RemoveElement
<1>5. SumOf(f, S) = f[a] + SumOf(f, T)
  BY <1>1, SumAdd
<1>6. SumOf(g, S) = g[a] + SumOf(g, T)
  BY <1>1, <1>3, SumAdd
<1>7. \A x \in T : f[x] \in Int
  BY <1>1
<1>8. SumOf(f, T) = SumOf(g, T) /\ SumOf(f, T) \in Int
  <2> HIDE DEF T
  <2> QED
    BY <1>2, <1>4, <1>7, SumSame, SumInt
<1>9. f[a] \in Int
  BY <1>1
<1>10. f[a] + SumOf(f, T) \in Int /\ v + SumOf(f, T) = (f[a] + SumOf(f, T)) - f[a] + v
  BY <1>1, <1>8, <1>9
<1>11. SumOf(g, S) = v + SumOf(f, T)
  BY <1>2, <1>6, <1>8
<1> QED
  BY <1>5, <1>10, <1>11

\* One argument is added.
LEMMA SumExtended ==
    ASSUME NEW S, IsFiniteSet(S), NEW f, \A x \in S : f[x] \in Int,
           NEW a, a \notin S, NEW v \in Int,
           NEW T, T = S \cup {a},
           NEW g, g = [x \in T |-> IF x = a THEN v ELSE f[x]]
    PROVE  SumOf(g, T) = SumOf(f, S) + v
<1>1. g[a] = v /\ \A x \in S : g[x] = f[x]
  OBVIOUS
<1>2. \A x \in T : g[x] \in Int
  OBVIOUS
<1>3. IsFiniteSet(T) /\ a \in T /\ T \ {a} = S
  BY FS_AddElement
<1>4. SumOf(g, T) = g[a] + SumOf(g, S)
  BY <1>2, <1>3, SumAdd
<1>5. SumOf(f, S) = SumOf(g, S) /\ SumOf(f, S) \in Int
  BY <1>1, SumSame, SumInt
<1>6. SumOf(g, T) = v + SumOf(f, S)
  BY <1>1, <1>4, <1>5
<1> QED
  BY <1>5, <1>6

-----------------------------------------------------------------------------
(***************************************************************************)
(* Truncating division.                                                    *)
(***************************************************************************)
\* The remainder is between zero and the divisor.
LEMMA DivBound ==
    ASSUME NEW n \in Int, NEW k \in Nat \ {0}
    PROVE  /\ n \div k \in Int
           /\ k * (n \div k) <= n
           /\ n < k * (n \div k) + k
OBVIOUS

\* A positive factor can be cancelled.
LEMMA CancelFactor ==
    ASSUME NEW a \in Int, NEW b \in Int, NEW k \in Nat \ {0}
    PROVE  /\ k * a <= k * b => a <= b
           /\ k * a < k * b => a < b
<1>1. ASSUME NEW c \in Int, NEW d \in Nat
      PROVE  k * c <= k * (c + d)
  <2>1. k * (c + d) = k * c + k * d
    OBVIOUS
  <2>2. k * c \in Int /\ k * d \in Int /\ k * d >= 0
    OBVIOUS
  <2> QED
    BY <2>1, <2>2
<1>2. ASSUME b < a PROVE k * b < k * a
  <2>1. a - (b + 1) \in Nat /\ a = (b + 1) + (a - (b + 1)) /\ b + 1 \in Int
    BY <1>2
  <2>2. k * (b + 1) <= k * a
    BY <1>1, <2>1
  <2>3. k * (b + 1) = k * b + k /\ k * b \in Int /\ k * a \in Int
    OBVIOUS
  <2> QED
    BY <2>2, <2>3
<1>3. ASSUME b <= a PROVE k * b <= k * a
  <2>1. a - b \in Nat /\ a = b + (a - b)
    BY <1>3
  <2> QED
    BY <1>1, <2>1
<1>4. k * a \in Int /\ k * b \in Int
  OBVIOUS
<1> QED
  BY <1>2, <1>3, <1>4

\* Truncation takes less than a unit.
LEMMA DivNear ==
    ASSUME NEW n \in Int, NEW k \in Nat \ {0}, NEW m \in Int
    PROVE  /\ n <= k * m => n \div k <= m
           /\ k * m <= n => m <= n \div k
<1> DEFINE q == n \div k
<1>1. q \in Int /\ k * q <= n /\ n < k * q + k
  BY DivBound
<1> HIDE DEF q
<1>2. k * (q + 1) = k * q + k /\ k * q \in Int /\ k * m \in Int
  BY <1>1
<1>3. n <= k * m => q <= m
  BY <1>1, <1>2, CancelFactor
<1>4. k * m <= n => m < q + 1
  BY <1>1, <1>2, CancelFactor
<1> QED
  BY <1>1, <1>3, <1>4 DEF q

\* A debit lowers a balance.
LEMMA DebitLowers ==
    ASSUME NEW b \in Int, NEW x \in Int, x >= 0, NEW k \in Nat \ {0}
    PROVE  (b * k - x) \div k \in Int /\ (b * k - x) \div k <= b
<1>1. b * k - x \in Int /\ b * k - x <= k * b
  OBVIOUS
<1> QED
  BY <1>1, DivNear, DivBound

\* Debit and credit together lose at most a unit, and that only of an amount
\* with a fraction.
LEMMA PaidTogether ==
    ASSUME NEW b \in Int, NEW c \in Int, NEW x \in Int, NEW k \in Nat \ {0}
    PROVE  LET p == (b * k - x) \div k
               q == (c * k + x) \div k
           IN  /\ p \in Int /\ q \in Int
               /\ p + q <= b + c
               /\ b + c - 1 <= p + q
               /\ x % k = 0 => b + c <= p + q
<1> DEFINE p == (b * k - x) \div k
           q == (c * k + x) \div k
<1>1. b * k - x \in Int /\ c * k + x \in Int
  OBVIOUS
<1>2. PICK e \in Int, f \in 0..(k - 1) : x = k * e + f /\ f = x % k
  <2>1. x = k * (x \div k) + (x % k) /\ x \div k \in Int /\ x % k \in 0..(k - 1)
    OBVIOUS
  <2> QED
    BY <2>1
<1>3. p \in Int /\ q \in Int
  BY <1>1, DivBound
<1>4. /\ k * (b - e) = b * k - k * e /\ k * (b - e - 1) = b * k - k * e - k
      /\ k * (c + e) = c * k + k * e /\ k * (c + e + 1) = c * k + k * e + k
      /\ b * k \in Int /\ c * k \in Int /\ k * e \in Int
      /\ b - e \in Int /\ b - e - 1 \in Int /\ c + e \in Int
  OBVIOUS
<1>5. p <= b - e /\ b - e - 1 <= p
  <2>1. b * k - x <= k * (b - e) /\ k * (b - e - 1) <= b * k - x
    BY <1>2, <1>4
  <2> QED
    BY <1>1, <1>4, <2>1, DivNear
<1>6. f = 0 => b - e <= p
  <2>1. f = 0 => k * (b - e) <= b * k - x
    BY <1>2, <1>4
  <2> QED
    BY <1>1, <1>4, <2>1, DivNear
<1>7. c + e <= q
  <2>1. k * (c + e) <= c * k + x
    BY <1>2, <1>4
  <2> QED
    BY <1>1, <1>4, <2>1, DivNear
<1>8. q <= c + e
  <2>1. k * q <= c * k + x
    BY <1>1, DivBound
  <2>2. c * k + x < k * (c + e + 1)
    BY <1>2, <1>4
  <2>3. k * q \in Int /\ k * (c + e + 1) \in Int /\ c + e + 1 \in Int
    BY <1>3
  <2>4. k * q < k * (c + e + 1)
    <3> HIDE DEF q
    <3> QED BY <1>1, <2>1, <2>2, <2>3
  <2>5. q < c + e + 1
    <3> HIDE DEF q
    <3> QED BY <1>3, <2>3, <2>4, CancelFactor
  <2> QED
    BY <1>3, <1>4, <2>5
<1> HIDE DEF p, q
<1>9. p + q <= b + c /\ b + c - 1 <= p + q /\ (f = 0 => b + c <= p + q)
  BY <1>3, <1>4, <1>5, <1>6, <1>7, <1>8
<1> QED
  BY <1>2, <1>3, <1>9 DEF p, q

-----------------------------------------------------------------------------
(***************************************************************************)
(* Nobody makes money, and what is lost has a cause.  With the keys of     *)
(* the table the number of rows is the number of users, so both sides of   *)
(* the comparison are sums and counts over Usernames.                      *)
(***************************************************************************)
KeptMoney == MapThenSumSet(LAMBDA r : r.balance, Kept)

LEMMA RowsCounted ==
    ASSUME NEW rows, PrimaryKey(rows), NEW names, names = {r.username : r \in rows},
           IsFiniteSet(names)
    PROVE  IsFiniteSet(rows) /\ Cardinality(rows) = Cardinality(names)
<1> DEFINE m == [u \in names |-> RowOf(u, rows)]
           zero == [u \in names |-> 0]
           nought == [r \in rows |-> 0]
<1>1. ASSUME NEW r \in rows PROVE m[r.username] = r /\ r.username \in names
  BY <1>1 DEF RowOf, PrimaryKey
<1>2. ASSUME NEW u \in names PROVE m[u] \in rows /\ m[u].username = u
  BY <1>1
<1>3. {m[u] : u \in names} = rows
  BY <1>1, <1>2
<1>4. \A u, v \in names : m[u] = m[v] => u = v
  BY <1>2
<1>5. \A u \in names : zero[u] \in Int /\ nought[m[u]] = zero[u]
  BY <1>2
<1>6. Renames(m, zero, names, nought, rows)
  <2> HIDE DEF m, zero, nought
  <2> QED
    BY <1>3, <1>4, <1>5 DEF Renames
<1> HIDE DEF m, zero, nought
<1> QED
  BY <1>6, SumRenamed

\* The fold over the kept rows is a sum over their balances.
LEMMA KeptSum ==
    LET f == [r \in Kept |-> r.balance]
    IN  KeptMoney = SumOf(f, Kept) /\ KeptMoney \in Int
<1> DEFINE f == [r \in Kept |-> r.balance]
           rowSum(h) == h = [s \in SUBSET Kept |->
                               IF s = {} THEN 0
                               ELSE LET x == CHOOSE x \in s : TRUE
                                    IN  x.balance + h[s \ {x}]]
           c == CHOOSE h : rowSum(h)
           d == CHOOSE h : IsSum(h, f, Kept)
<1>1. KeptMoney = c[Kept]
  BY DEF KeptMoney, MapThenSumSet, MapThenFoldSet
<1>2. SumOf(f, Kept) = d[Kept]
  BY SumUnfolds
<1>3. ASSUME NEW h PROVE rowSum(h) <=> IsSum(h, f, Kept)
  <2>1. ASSUME NEW s \in SUBSET Kept, s # {}
        PROVE  f[CHOOSE x \in s : TRUE] = (CHOOSE x \in s : TRUE).balance
    <3>1. (CHOOSE x \in s : TRUE) \in Kept
      BY <2>1
    <3> QED
      BY <3>1
  <2> HIDE DEF f
  <2> QED
    BY <2>1 DEF IsSum
<1>4. IsFiniteSet(Kept) /\ \E h : IsSum(h, f, Kept)
  BY KeptAssumption, SumHolds
<1> HIDE DEF f
<1>5. IsSum(d, f, Kept)
  BY <1>4
<1>6. \E h : rowSum(h)
  <2> HIDE DEF rowSum
  <2> QED
    BY <1>3, <1>4
<1>7. rowSum(c)
  <2> HIDE DEF rowSum
  <2> QED
    BY <1>6
<1>8. IsSum(c, f, Kept)
  BY <1>3, <1>7
<1>9. Kept \in SUBSET Kept
  OBVIOUS
<1> HIDE DEF c, d, rowSum
<1>10. c[Kept] = d[Kept]
  BY <1>4, <1>5, <1>8, <1>9, SumsAgree
<1>11. \A r \in Kept : f[r] \in Int
  BY StoreAssumption DEF Row, f
<1>12. SumOf(f, Kept) \in Int
  BY <1>4, <1>11, SumInt
<1> QED
  BY <1>1, <1>2, <1>10, <1>12 DEF f

\* Both sides of the comparison, in this state and in the next one.
LEMMA MoneyUnfolds ==
    /\ AllOwned = SumOf(Balances, Usernames)
    /\ AllOwned' = SumOf(Balances', Usernames')
    /\ Granted = KeptMoney + InitialBalance * (Cardinality(clients) - Cardinality(Kept))
    /\ Granted' = KeptMoney + InitialBalance * (Cardinality(clients') - Cardinality(Kept))
<1>1. AllOwned = SumOf(Balances, Usernames) /\ AllOwned' = SumOf(Balances', Usernames')
  BY DEF AllOwned, SumOf, MapThenSumSet, MapThenFoldSet
<1>2. /\ Granted = KeptMoney + InitialBalance * (Cardinality(clients) - Cardinality(Kept))
      /\ Granted' = KeptMoney + InitialBalance * (Cardinality(clients') - Cardinality(Kept))
  BY DEF Granted, KeptMoney, MapThenSumSet, MapThenFoldSet
<1> QED
  BY <1>1, <1>2

LEMMA BalancesWhole ==
    ASSUME IInv
    PROVE  DOMAIN Balances = Usernames /\ \A u \in Usernames : Balances[u] \in Int
<1>1. ASSUME NEW u \in Usernames PROVE Owned(u) \in Int
  <2>1. CASE Debiting(u) = {}
    <3>1. RowOf(u, clients) \in Row
      BY UserRow DEF IInv
    <3> QED
      BY <2>1, <3>1, OwnedInRow DEF Row
  <2>2. CASE Debiting(u) # {}
    <3>1. PICK w \in Debiting(u) : w = CHOOSE v \in Debiting(u) : TRUE
      BY <2>2
    <3>2. w \in Workers /\ pc[w] = "credit"
      BY DEF Debiting
    <3>3. own[w] \in Row
      BY <3>2 DEF IInv, WorkerInv, TransferCall, LocalRows, GoodRow
    <3> QED
      BY <2>2, <3>1, <3>3 DEF Owned, Row
  <2> QED
    BY <2>1, <2>2
<1> QED
  BY <1>1 DEF Balances

\* At the start the users own what the kept rows say.
LEMMA NothingMissingAtStart ==
    Init => IsFiniteSet(Usernames) /\ Shortfall = 0
<1> SUFFICES ASSUME Init PROVE IsFiniteSet(Usernames) /\ Shortfall = 0
  OBVIOUS
<1> DEFINE f == [r \in Kept |-> r.balance]
           m == [r \in Kept |-> r.username]
<1>1. clients = Kept /\ Usernames = {r.username : r \in Kept}
  BY DEF Init, Usernames
<1>2. {m[r] : r \in Kept} = Usernames
  BY <1>1
<1>3. ASSUME NEW r \in Kept PROVE Balances[m[r]] = f[r] /\ f[r] \in Int
  <2>1. RowOf(r.username, clients) = r
    BY <1>1, StoreAssumption DEF PrimaryKey, RowOf
  <2>2. Debiting(r.username) = {}
    BY DEF Init, Debiting
  <2>3. Owned(r.username) = r.balance
    BY <2>1, <2>2, OwnedInRow
  <2>4. r.username \in Usernames
    BY <1>1
  <2> QED
    BY <2>3, <2>4, StoreAssumption DEF Balances, Row
<1>4. \A r, q \in Kept : m[r] = m[q] => r = q
  BY StoreAssumption DEF PrimaryKey
<1>5. KeptMoney = SumOf(f, Kept) /\ KeptMoney \in Int
  BY KeptSum
<1> HIDE DEF f, m
<1>6. IsFiniteSet(Usernames) /\ SumOf(Balances, Usernames) = SumOf(f, Kept)
  <2>1. Renames(m, f, Kept, Balances, Usernames)
    BY <1>2, <1>3, <1>4 DEF Renames
  <2> QED
    BY <2>1, KeptAssumption, SumRenamed
<1>7. Cardinality(Kept) \in Nat
  BY KeptAssumption, FS_CardinalityType
<1>8. AllOwned = KeptMoney
        /\ Granted = KeptMoney + InitialBalance * (Cardinality(Kept) - Cardinality(Kept))
  BY <1>1, <1>5, <1>6, MoneyUnfolds
<1>9. InitialBalance * (Cardinality(Kept) - Cardinality(Kept)) = 0
  BY <1>7, StoreAssumption
<1> QED
  BY <1>5, <1>6, <1>8, <1>9 DEF Shortfall

LEMMA ShortfallWhole ==
    ASSUME IInv, IsFiniteSet(Usernames)
    PROVE  /\ Cardinality(clients) = Cardinality(Usernames)
           /\ Cardinality(clients) \in Nat /\ Cardinality(Kept) \in Nat
           /\ KeptMoney \in Int
           /\ SumOf(Balances, Usernames) \in Int
           /\ Shortfall \in Int
<1>1. Cardinality(clients) = Cardinality(Usernames)
  BY RowsCounted DEF IInv, GoodTable, Usernames
<1>2. Cardinality(Usernames) \in Nat /\ Cardinality(Kept) \in Nat
  BY KeptAssumption, FS_CardinalityType
<1>3. KeptMoney \in Int
  BY KeptSum
<1>4. SumOf(Balances, Usernames) \in Int
  BY BalancesWhole, SumInt
<1>5. InitialBalance * (Cardinality(clients) - Cardinality(Kept)) \in Int
  BY <1>1, <1>2, StoreAssumption
<1>6. Shortfall \in Int
  BY <1>3, <1>4, <1>5, MoneyUnfolds DEF Shortfall
<1> QED
  BY <1>1, <1>2, <1>3, <1>4, <1>6

\* Without a registration the shortfall grows by what the sum loses.
LEMMA SumMoves ==
    ASSUME IInv, IInv', IsFiniteSet(Usernames), Usernames' = Usernames,
           NEW d \in Int,
           SumOf(Balances', Usernames) = SumOf(Balances, Usernames) + d
    PROVE  Shortfall' = Shortfall - d
<1> DEFINE given == InitialBalance * (Cardinality(clients) - Cardinality(Kept))
           sum == SumOf(Balances, Usernames)
<1>1. Cardinality(clients') = Cardinality(clients)
  <2>1. PrimaryKey(clients') /\ Usernames' = {r.username : r \in clients'}
    BY DEF IInv, GoodTable, Usernames
  <2>2. Cardinality(clients') = Cardinality(Usernames)
    BY <2>1, RowsCounted
  <2> QED
    BY <2>2, ShortfallWhole
<1>2. given \in Int /\ KeptMoney \in Int /\ sum \in Int
  BY ShortfallWhole, StoreAssumption
<1>3. Shortfall = (KeptMoney + given) - sum
  <2>1. Granted = KeptMoney + given /\ AllOwned = sum
    BY MoneyUnfolds
  <2> HIDE DEF given, sum
  <2> QED
    BY <2>1 DEF Shortfall
<1>4. Shortfall' = (KeptMoney + given) - (sum + d)
  <2>1. Granted' = KeptMoney + given /\ AllOwned' = sum + d
    BY <1>1, MoneyUnfolds
  <2> HIDE DEF given, sum
  <2> QED
    BY <2>1 DEF Shortfall
<1> HIDE DEF given, sum
<1> QED
  BY <1>2, <1>3, <1>4

\* A registration adds to the accounts what it grants.
LEMMA RegistrationBalanced ==
    ASSUME IInv, IInv', IsFiniteSet(Usernames), AccountOpened
    PROVE  IsFiniteSet(Usernames') /\ Shortfall' = Shortfall
<1>1. PICK u : /\ u \notin Usernames
               /\ Balances' = [v \in Usernames \cup {u} |->
                                 IF v = u THEN InitialBalance ELSE Balances[v]]
  BY DEF AccountOpened
<1>2. Usernames' = Usernames \cup {u}
  <2>1. DOMAIN Balances' = Usernames'
    BY DEF Balances
  <2> QED
    BY <1>1, <2>1
<1>3. IsFiniteSet(Usernames') /\ Cardinality(Usernames') = Cardinality(Usernames) + 1
  BY <1>1, <1>2, FS_AddElement
<1>4. Cardinality(clients') = Cardinality(clients) + 1
  <2>1. PrimaryKey(clients') /\ Usernames' = {r.username : r \in clients'}
    BY DEF IInv, GoodTable, Usernames
  <2>2. Cardinality(clients') = Cardinality(Usernames')
    BY <1>3, <2>1, RowsCounted
  <2> QED
    BY <1>3, <2>2, ShortfallWhole
<1> DEFINE sum == SumOf(Balances, Usernames)
           n == Cardinality(clients)
           k == Cardinality(Kept)
<1>5. SumOf(Balances', Usernames') = sum + InitialBalance
  <2>1. \A v \in Usernames : Balances[v] \in Int
    BY BalancesWhole
  <2>2. InitialBalance \in Int
    BY StoreAssumption
  <2> QED
    BY <1>1, <1>2, <2>1, <2>2, SumExtended
<1>6. n \in Nat /\ k \in Nat /\ KeptMoney \in Int /\ sum \in Int
  BY ShortfallWhole
<1>7. Shortfall = (KeptMoney + InitialBalance * (n - k)) - sum
  <2>1. Granted = KeptMoney + InitialBalance * (n - k) /\ AllOwned = sum
    BY MoneyUnfolds
  <2> HIDE DEF n, k, sum
  <2> QED
    BY <2>1 DEF Shortfall
<1>8. Shortfall' = (KeptMoney + InitialBalance * ((n + 1) - k)) - (sum + InitialBalance)
  <2>1. /\ Granted' = KeptMoney + InitialBalance * ((n + 1) - k)
        /\ AllOwned' = sum + InitialBalance
    <3> HIDE DEF sum, k
    <3> QED
      BY <1>4, <1>5, MoneyUnfolds DEF k
  <2> HIDE DEF n, k, sum
  <2> QED
    BY <2>1 DEF Shortfall
<1> HIDE DEF sum, n, k
<1>9. /\ InitialBalance * ((n + 1) - k) = InitialBalance * (n - k) + InitialBalance
      /\ InitialBalance * (n - k) \in Int /\ InitialBalance \in Int
  BY <1>6, StoreAssumption
<1>10. Shortfall' = Shortfall
  BY <1>6, <1>7, <1>8, <1>9
<1> QED
  BY <1>3, <1>10

\* A payment's two writes keep the sum, or lose a unit of it.
LEMMA PaymentBalanced ==
    ASSUME IsolatedInv, IsolatedInv', IsFiniteSet(Usernames),
           NEW w \in Workers, Credit(w)
    PROVE  /\ Usernames' = Usernames
           /\ Shortfall' \in Int /\ Shortfall <= Shortfall'
           /\ Shortfall' - Shortfall <= IF req[w].pay % Scale # 0 THEN 1 ELSE 0
<1>1. PICK s, r, x :
        /\ s = req[w].snd /\ r = req[w].rcv /\ x = req[w].pay
        /\ Balances' = [Balances EXCEPT ![s] = B!Less(s, x), ![r] = B!More(r, x)]
  BY CreditView
<1>2. s # r /\ s \in Usernames /\ r \in Usernames /\ x \in Amounts
  BY <1>1, BeforeCredit DEF Credit
<1>3. IInv /\ IInv'
  BY DEF IsolatedInv
<1>4. DOMAIN Balances = Usernames /\ \A u \in Usernames : Balances[u] \in Int
  BY <1>3, BalancesWhole
<1>5. Usernames' = Usernames
  <2>1. DOMAIN Balances' = Usernames'
    BY DEF Balances
  <2> QED
    BY <1>1, <1>4, <2>1
<1> DEFINE b == Balances[s]
           c == Balances[r]
           p == B!Less(s, x)
           q == B!More(r, x)
           once == [Balances EXCEPT ![s] = p]
           sum == SumOf(Balances, Usernames)
<1>6. /\ b \in Int /\ c \in Int /\ p \in Int /\ q \in Int
      /\ p + q <= b + c /\ b + c - 1 <= p + q
      /\ x % Scale = 0 => b + c <= p + q
  <2>1. b \in Int /\ c \in Int /\ x \in Int /\ Scale \in Nat \ {0}
    BY <1>2, <1>4, StoreAssumption
  <2>2. p = (b * Scale - x) \div Scale /\ q = (c * Scale + x) \div Scale
    BY DEF B!Less, B!More
  <2> HIDE DEF b, c, p, q
  <2> QED
    BY <2>1, <2>2, PaidTogether
<1>7. DOMAIN once = Usernames /\ once[r] = c /\ Balances' = [once EXCEPT ![r] = q]
  BY <1>1, <1>2, <1>4
<1>8. \A u \in Usernames : once[u] \in Int
  <2> HIDE DEF p
  <2> QED
    BY <1>4, <1>6
<1> HIDE DEF p, q
<1>9. Changed(once, Balances, Usernames, s, p)
  <2> HIDE DEF b, c
  <2> QED
    BY <1>2, <1>4, <1>6 DEF Changed
<1> HIDE DEF once
<1>10. sum \in Int /\ SumOf(once, Usernames) = sum - b + p
  BY <1>9, SumExcept
<1>11. Changed(Balances', once, Usernames, r, q)
  <2> HIDE DEF b, c
  <2> QED
    BY <1>2, <1>6, <1>7, <1>8 DEF Changed
<1>12. SumOf(Balances', Usernames) = SumOf(once, Usernames) - once[r] + q
  BY <1>11, SumExcept
<1> HIDE DEF b, c, sum
<1>13. SumOf(Balances', Usernames) = sum + (p + q - b - c) /\ p + q - b - c \in Int
  BY <1>6, <1>7, <1>10, <1>12
<1>14. Shortfall' = Shortfall - (p + q - b - c) /\ Shortfall \in Int
  BY <1>3, <1>5, <1>13, SumMoves, ShortfallWhole DEF sum
<1> QED
  BY <1>1, <1>5, <1>6, <1>14

\* A payment cut short after its debit loses the amount of the debit.
LEMMA BrokenPayment ==
    ASSUME IsolatedInv, IsolatedInv', IsFiniteSet(Usernames),
           NEW w \in Workers, Busy(w), pc[w] = "credit"
    PROVE  /\ Usernames' = Usernames
           /\ Shortfall' \in Int /\ Shortfall <= Shortfall'
           /\ Shortfall' - Shortfall <= own[w].balance - Debited(own[w], req[w].pay).balance
<1>1. PICK s, x : /\ s = req[w].snd /\ x = req[w].pay
                  /\ Balances' = [Balances EXCEPT ![s] = B!Less(s, x)]
  BY BusyView
<1>2. /\ s \in Usernames /\ x \in Amounts /\ x > 0
      /\ Balances[s] = own[w].balance
  <2>1. PICK r : r = req[w].rcv
    OBVIOUS
  <2> QED
    BY <1>1, <2>1, BeforeCredit
<1>3. IInv /\ IInv'
  BY DEF IsolatedInv
<1>4. DOMAIN Balances = Usernames /\ \A u \in Usernames : Balances[u] \in Int
  BY <1>3, BalancesWhole
<1>5. Usernames' = Usernames
  <2>1. DOMAIN Balances' = Usernames'
    BY DEF Balances
  <2> QED
    BY <1>1, <1>4, <2>1
<1> DEFINE b == Balances[s]
           p == B!Less(s, x)
           sum == SumOf(Balances, Usernames)
<1>6. b \in Int /\ p \in Int /\ p <= b
  <2>1. b \in Int /\ x \in Int /\ x >= 0 /\ Scale \in Nat \ {0}
    BY <1>2, <1>4, StoreAssumption
  <2>2. p = (b * Scale - x) \div Scale
    BY DEF B!Less
  <2> HIDE DEF b, p
  <2> QED
    BY <2>1, <2>2, DebitLowers
<1>7. Debited(own[w], req[w].pay).balance = p
  <2>1. own[w] \in Row
    BY <1>3 DEF IInv, WorkerInv, TransferCall, LocalRows, GoodRow
  <2> QED
    BY <1>1, <1>2, <2>1 DEF Debited, Row, B!Less
<1>8. Changed(Balances', Balances, Usernames, s, p)
  <2>1. Balances' = [Balances EXCEPT ![s] = p]
    BY <1>1
  <2> HIDE DEF p, b
  <2> QED
    BY <1>2, <1>4, <1>6, <2>1 DEF Changed
<1> HIDE DEF p
<1>9. sum \in Int /\ SumOf(Balances', Usernames) = sum - b + p
  BY <1>8, SumExcept
<1> HIDE DEF b, sum
<1>10. SumOf(Balances', Usernames) = sum + (p - b) /\ p - b \in Int
  BY <1>6, <1>9
<1>11. Shortfall' = Shortfall - (p - b) /\ Shortfall \in Int
  BY <1>3, <1>5, <1>10, SumMoves, ShortfallWhole DEF sum
<1>12. own[w].balance = b
  BY <1>2 DEF b
<1> QED
  BY <1>5, <1>6, <1>7, <1>11, <1>12

\* No other statement moves money, but for a registration.
LEMMA OtherStepsMoveNothing ==
    ASSUME IsolatedInv, NEW w \in Workers,
           \/ \E r \in Requests : Call(w, r) \/ RejectedCall(w, r)
           \/ Step(w) /\ ~Credit(w) /\ ~(Busy(w) /\ pc[w] = "credit")
    PROVE  AccountOpened \/ Balances' = Balances
<1>1. IInv
  BY DEF IsolatedInv
<1>2. CASE \E r \in Requests : Call(w, r) \/ RejectedCall(w, r)
  <2>1. PICK r \in Requests : Call(w, r) \/ RejectedCall(w, r)
    BY <1>2
  <2>2. OthersSame(w) /\ clients' = clients /\ pc[w] = "idle"
    BY <1>1, <2>1 DEF Call, RejectedCall, OthersSame, IInv, TypeOK
  <2>3. r.op \in {"register", "login", "logout", "transaction", "list"}
    BY DEF Requests
  <2>4. pc'[w] # "credit"
    BY <1>1, <2>1, <2>2, <2>3 DEF Call, RejectedCall, FirstStatement, IInv, TypeOK
  <2> QED
    BY <2>2, <2>4, ReadView
<1>3. CASE RegisterCheck(w) \/ RegisterReplace(w)
  BY <1>3, RegisterView
<1>4. CASE LoginCheck(w) \/ LoginOnline(w) \/ LoginUpdate(w)
  BY <1>4, LoginView
<1>5. CASE LogoutCheck(w) \/ LogoutUpdate(w)
  BY <1>5, LogoutView
<1>6. CASE SenderCheck(w)
  <2>1. pc[w] = "sender_check" /\ clients' = clients
    BY <1>6 DEF SenderCheck
  <2>2. OthersSame(w) /\ pc'[w] = "receiver_check"
    BY <1>1, <1>6, GotoSame DEF SenderCheck
  <2> QED
    BY <2>1, <2>2, ReadView
<1>7. CASE ReceiverCheck(w)
  <2>1. pc[w] = "receiver_check" /\ clients' = clients
    BY <1>7 DEF ReceiverCheck
  <2>2. OthersSame(w) /\ pc'[w] \in {"idle", "debit"}
    <3>1. CASE \E code : Return(w, code)
      BY <1>1, <3>1, ReturnCurrent DEF Return, IInv, TypeOK
    <3>2. CASE /\ Goto(w, "debit") /\ UNCHANGED own
               /\ \E row : other' = [other EXCEPT ![w] = row]
      BY <1>1, <3>2, GotoSame
    <3> QED
      BY <1>7, <3>1, <3>2 DEF ReceiverCheck
  <2> QED
    BY <2>1, <2>2, ReadView
<1>8. CASE Debit(w)
  BY <1>8, DebitView DEF B!vars
<1>9. CASE ListSelect(w)
  <2>1. B!Refuse(w, "rows")
    BY <1>1, <1>9, RefusalView DEF ListSelect
  <2> QED
    BY <2>1 DEF B!Refuse
<1>10. CASE Busy(w) /\ pc[w] # "credit"
  BY <1>10, BusyView
<1> QED
  BY <1>2, <1>3, <1>4, <1>5, <1>6, <1>7, <1>8, <1>9, <1>10 DEF Step

MoneyInv ==
    /\ IsolatedInv
    /\ IsFiniteSet(Usernames)
    /\ Shortfall >= 0

\* The shortfall never shrinks, and grows only as LossHasCause says.
LEMMA MoneyStep ==
    ASSUME IsolatedInv, IsolatedInv', IsFiniteSet(Usernames), [Next /\ Isolated']_vars
    PROVE  /\ IsFiniteSet(Usernames')
           /\ Shortfall \in Int /\ Shortfall' \in Int /\ Shortfall <= Shortfall'
           /\ \/ Shortfall' <= Shortfall
              \/ \E w \in Workers :
                    /\ pc[w] = "credit" /\ pc'[w] # "credit"
                    /\ Shortfall' - Shortfall <= Loss(w)
<1>1. IInv /\ IInv' /\ Shortfall \in Int
  BY ShortfallWhole DEF IsolatedInv
<1>2. SUFFICES /\ IsFiniteSet(Usernames') /\ Shortfall' \in Int
               /\ \/ Shortfall' = Shortfall
                  \/ /\ Shortfall <= Shortfall'
                     /\ \E w \in Workers :
                           /\ pc[w] = "credit" /\ pc'[w] # "credit"
                           /\ Shortfall' - Shortfall <= Loss(w)
  BY <1>1
<1>3. CASE Balances' = Balances
  <2>1. Usernames' = Usernames
    BY <1>3 DEF Balances
  <2>2. SumOf(Balances', Usernames) = SumOf(Balances, Usernames) + 0
    BY <1>1, <1>3, ShortfallWhole
  <2>3. Shortfall' = Shortfall - 0
    BY <1>1, <2>1, <2>2, SumMoves
  <2> QED
    BY <1>1, <2>1, <2>3
<1>4. CASE AccountOpened
  BY <1>1, <1>4, RegistrationBalanced
<1>5. CASE UNCHANGED vars
  <2>1. Balances' = Balances
    BY <1>5 DEF vars, Balances, Owned, Debiting, RowOf, Usernames
  <2> QED
    BY <1>3, <2>1
<1>6. ASSUME NEW w \in Workers, Credit(w)
      PROVE  /\ IsFiniteSet(Usernames') /\ Shortfall <= Shortfall'
             /\ Shortfall' \in Int
             /\ pc[w] = "credit" /\ pc'[w] # "credit"
             /\ Shortfall' - Shortfall <= Loss(w)
  <2>1. /\ Usernames' = Usernames /\ Shortfall' \in Int /\ Shortfall <= Shortfall'
        /\ Shortfall' - Shortfall <= IF req[w].pay % Scale # 0 THEN 1 ELSE 0
    BY <1>6, PaymentBalanced
  <2>2. pc[w] = "credit" /\ pc'[w] = "idle" /\ reply'[w] = "TRANSFER_OK"
    BY <1>1, <1>6 DEF Credit, Return, IInv, TypeOK
  <2> QED
    BY <2>1, <2>2 DEF Loss
<1>7. ASSUME NEW w \in Workers, Busy(w), pc[w] = "credit"
      PROVE  /\ IsFiniteSet(Usernames') /\ Shortfall <= Shortfall'
             /\ Shortfall' \in Int
             /\ pc[w] = "credit" /\ pc'[w] # "credit"
             /\ Shortfall' - Shortfall <= Loss(w)
  <2>1. /\ Usernames' = Usernames /\ Shortfall' \in Int /\ Shortfall <= Shortfall'
        /\ Shortfall' - Shortfall <= own[w].balance - Debited(own[w], req[w].pay).balance
    BY <1>7, BrokenPayment
  <2>2. pc'[w] = "idle" /\ reply'[w] = "SQLITE_BUSY"
    BY <1>1, <1>7 DEF Busy, Return, IInv, TypeOK
  <2> QED
    BY <1>7, <2>1, <2>2 DEF Loss
<1>9. CASE Next
  <2>1. PICK w \in Workers :
           \/ \E r \in Requests : Call(w, r) \/ RejectedCall(w, r)
           \/ Step(w)
    BY <1>9 DEF Next
  <2>2. CASE Credit(w) \/ (Busy(w) /\ pc[w] = "credit")
    BY <1>6, <1>7, <2>2
  <2>3. CASE ~Credit(w) /\ ~(Busy(w) /\ pc[w] = "credit")
    <3>1. AccountOpened \/ Balances' = Balances
      BY <2>1, <2>3, OtherStepsMoveNothing
    <3> QED
      BY <1>3, <1>4, <3>1
  <2> QED
    BY <2>2, <2>3
<1> QED
  BY <1>5, <1>9

LEMMA MoneyInvariant == IsolatedSpec => []MoneyInv
<1>1. IsolatedSpec => []IsolatedInv
  BY ReadsStayCurrent
<1>2. IsolatedInv /\ Init => MoneyInv
  BY NothingMissingAtStart DEF MoneyInv
<1>3. IsolatedInv /\ IsolatedInv' /\ MoneyInv /\ [Next /\ Isolated']_vars => MoneyInv'
  <2> SUFFICES ASSUME IsolatedInv, IsolatedInv', MoneyInv, [Next /\ Isolated']_vars
               PROVE  MoneyInv'
    OBVIOUS
  <2>1. IsFiniteSet(Usernames) /\ Shortfall >= 0
    BY DEF MoneyInv
  <2>2. /\ IsFiniteSet(Usernames')
        /\ Shortfall \in Int /\ Shortfall' \in Int /\ Shortfall <= Shortfall'
    BY <2>1, MoneyStep
  <2>3. Shortfall' >= 0
    BY <2>1, <2>2
  <2> QED
    BY <2>2, <2>3 DEF MoneyInv
<1> QED
  BY <1>1, <1>2, <1>3, PTL DEF IsolatedSpec

\* While calls in progress concern different users, the users together never own
\* more than registration has given them: a payment moves money or loses it, a
\* failed statement never makes any.
THEOREM NobodyMakesMoney == IsolatedSpec => []NoMoneyMade
<1>1. MoneyInv => NoMoneyMade
  <2> SUFFICES ASSUME MoneyInv PROVE NoMoneyMade
    OBVIOUS
  <2>1. IInv /\ IsFiniteSet(Usernames) /\ Shortfall >= 0
    BY DEF MoneyInv, IsolatedInv
  <2>2. AllOwned \in Int /\ Granted \in Int
    BY <2>1, ShortfallWhole, MoneyUnfolds, StoreAssumption
  <2> QED
    BY <2>1, <2>2 DEF NoMoneyMade, Shortfall
<1> QED
  BY <1>1, MoneyInvariant, PTL

\* And money is lost only at the end of a payment: all of the debit if the second
\* UPDATE fails, at most a unit if the amount has a fraction, none otherwise.
THEOREM LossesExplained == IsolatedSpec => LossHasCause
<1>1. /\ MoneyInv /\ MoneyInv' /\ [Next /\ Isolated']_vars
      => [\/ Shortfall' <= Shortfall
          \/ \E w \in Workers :
                /\ pc[w] = "credit" /\ pc'[w] # "credit"
                /\ Shortfall' - Shortfall <= Loss(w)]_vars
  BY MoneyStep DEF MoneyInv
<1> QED
  BY <1>1, MoneyInvariant, PTL DEF IsolatedSpec, LossHasCause

=============================================================================
