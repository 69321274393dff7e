--------------------------- MODULE LifecycleProofs ---------------------------
(***************************************************************************)
(* Proofs about Lifecycle, for any users, workers and addresses and any    *)
(* database an earlier server left: its invariants and what a step may do  *)
(* to the set of users, through any number of resets, erasures, crashes    *)
(* and restarts.                                                           *)
(*                                                                         *)
(* The invariant of AccountStore is kept by everything that happens around *)
(* the calls.  LifeInv adds where calls can be: in a server that serves,   *)
(* for a connection of their own (Served), with that connection's address  *)
(* (OwnAddress); that a table to be reset is never left as the constructor *)
(* made it (ResetFirst); and whom a logout that has found its user still   *)
(* leaves online at the address (LogoutRow).                               *)
(***************************************************************************)
EXTENDS Lifecycle, AccountStoreProofs

\* Calls are made for connections, and each connection has its address.
Served ==
    /\ \A w \in Workers : conn[w] = NoAddr => pc[w] = "idle" /\ sync[w] = "no"
    /\ \A w \in Workers : server \notin Alive => conn[w] = NoAddr
    /\ \A v, w \in Workers : v # w /\ conn[v] = conn[w] => conn[w] = NoAddr

ResetFirst ==
    /\ server \in {"sync", "remove"} => reset
    /\ reset /\ server \in {"remove"} \cup Alive => table # "raw"
    /\ \A w \in Workers : sync[w] = "drop" => ~reset

OwnAddress ==
    \A w \in Workers :
        /\ sync[w] # "no" => FromConnection(w, call[w])
        /\ pc[w] # "idle" => FromConnection(w, req[w])
        /\ pc[w] = "list_select" => req[w].op # "logout"

\* Between the two statements of a logout only its own user is online at the
\* address, but for those who were left there.
LogoutRow ==
    \A w \in Workers : pc[w] = "logout_update" =>
        \A r \in OnlineAt(conn[w]) : r.username \in left \cup {own[w].username}

LifeInv ==
    /\ LifeTypeOK
    /\ IInv
    /\ Served
    /\ ResetFirst
    /\ OwnAddress
    /\ OnlineIsExplained
    /\ LogoutRow

-----------------------------------------------------------------------------
(***************************************************************************)
(* Who was left online.                                                    *)
(***************************************************************************)
LEMMA LeaveType ==
    ASSUME NEW users, Leave(users), clients' \subseteq Row
    PROVE  left' \subseteq Users
BY DEF Leave, Row

LEMMA LeaveKeeps ==
    ASSUME NEW users, Leave(users), NEW r \in clients', r.online_status = 1,
           r.username \in left \cup users
    PROVE  r.username \in left'
BY DEF Leave

LEMMA OnlineHasAddr ==
    ASSUME IInv, NEW r \in clients, r.online_status = 1
    PROVE  r.addr \in Addrs /\ r.addr # NoAddr
BY StoreAssumption DEF IInv, GoodTable, GoodRow, Coherent, Row

LEMMA RowsTyped == IInv => clients \subseteq Row
BY GoodTableRows DEF IInv

\* The accounts are left alone.
LEMMA StoreRests == ASSUME IInv, UNCHANGED vars PROVE IInv'
BY StepKeeps

\* All rows go, the calls in progress stay.
LEMMA RowsGo ==
    ASSUME IInv, clients' = {}, UNCHANGED <<pc, req, own, other, reply>>
    PROVE  IInv'
<1>1. TypeOK'
  BY DEF IInv, TypeOK
<1>2. GoodTable(clients')
  BY DEF GoodTable, PrimaryKey
<1>3. ASSUME NEW w \in Workers
      PROVE  WorkerInv(w)'
  BY OthersUndisturbed DEF IInv
<1> QED
  BY <1>1, <1>2, <1>3 DEF IInv

\* The calls in progress end with the process.
LEMMA CallsGo ==
    ASSUME IInv, Down
    PROVE  IInv'
<1>1. TypeOK'
  BY DEF IInv, TypeOK, Down, Replies
<1>2. GoodTable(clients')
  BY DEF IInv, Down
<1>3. ASSUME NEW w \in Workers
      PROVE  WorkerInv(w)'
  BY DEF Down, WorkerInv, RegisterCall, LoginCall, LogoutCall, TransferCall, LocalRows
<1> QED
  BY <1>1, <1>2, <1>3 DEF IInv

-----------------------------------------------------------------------------
(***************************************************************************)
(* The start and the end.                                                  *)
(***************************************************************************)
LEMMA StartKeeps ==
    ASSUME LifeInv,
           \/ \E e, r \in BOOLEAN : Start(e, r)
           \/ CreateTable \/ ResetSync
           \/ server = "serving" /\ server' = "interrupted"
              /\ UNCHANGED <<vars, erase, reset, conn, file, left>>
    PROVE  LifeInv'
<1>1. UNCHANGED <<vars, conn, sync, call, left>>
  BY DEF Start, CreateTable, ResetSync, file
<1>2. IInv'
  BY <1>1, StoreRests DEF LifeInv
<1>3. LifeTypeOK'
  <2>1. TypeOK'
    BY <1>2 DEF IInv
  <2>2. /\ server' \in Starting \cup Alive \cup {"down"}
        /\ erase' \in BOOLEAN /\ reset' \in BOOLEAN
        /\ table' \in {"none", "raw", "synced"}
    BY DEF LifeInv, LifeTypeOK, Start, CreateTable, AfterCreate, ResetSync, file,
           Starting, Alive
  <2>3. table' # "synced" => table # "synced"
    BY DEF Start, CreateTable, ResetSync, file
  <2> QED
    BY <1>1, <2>1, <2>2, <2>3 DEF LifeInv, LifeTypeOK, vars
<1>4. Served'
  BY <1>1 DEF LifeInv, Served, vars, Start, CreateTable, AfterCreate, ResetSync, Alive
<1>5. ResetFirst'
  BY <1>1 DEF LifeInv, Served, ResetFirst, vars, Start, CreateTable, AfterCreate, ResetSync,
              file, Alive
<1>6. OwnAddress' /\ LogoutRow' /\ OnlineIsExplained'
  BY <1>1 DEF LifeInv, OwnAddress, FromConnection, LogoutRow, OnlineAt, OnlineIsExplained, vars
<1> QED
  BY <1>2, <1>3, <1>4, <1>5, <1>6 DEF LifeInv

LEMMA DownKeeps == ASSUME LifeInv, Down PROVE LifeInv'
<1>1. IInv'
  BY CallsGo DEF LifeInv
<1>2. LifeTypeOK'
  <2>1. TypeOK' /\ left' \subseteq Users
    BY <1>1, LeaveType DEF IInv, TypeOK, Down
  <2> QED
    BY <2>1 DEF LifeInv, LifeTypeOK, Down
<1>3. Served' /\ ResetFirst' /\ OwnAddress' /\ LogoutRow'
  BY DEF Served, ResetFirst, OwnAddress, LogoutRow, Down, Alive
<1>4. OnlineIsExplained'
  <2> SUFFICES ASSUME NEW r \in clients', r.online_status = 1
               PROVE  r.username \in left'
    BY DEF OnlineIsExplained
  <2>1. r.username \in Usernames
    BY DEF Usernames, Down
  <2> QED
    BY <2>1, LeaveKeeps DEF Down
<1> QED
  BY <1>1, <1>2, <1>3, <1>4 DEF LifeInv

LEMMA RemoveAllKeeps == ASSUME LifeInv, RemoveAll PROVE LifeInv'
<1>1. clients' = {} /\ UNCHANGED <<pc, req, own, other, reply, conn, sync, call, table, reset>>
  BY DEF RemoveAll, file
<1>2. IInv'
  BY <1>1, RowsGo DEF LifeInv
<1>3. LifeTypeOK'
  <2>1. TypeOK' /\ left' \subseteq Users
    BY <1>1, <1>2, LeaveType DEF IInv, RemoveAll
  <2> QED
    BY <1>1, <2>1 DEF LifeInv, LifeTypeOK, RemoveAll, Alive
<1>4. Served' /\ ResetFirst'
  BY <1>1 DEF LifeInv, Served, ResetFirst, RemoveAll, Alive
<1>5. OwnAddress' /\ LogoutRow' /\ OnlineIsExplained'
  BY <1>1 DEF LifeInv, OwnAddress, FromConnection, LogoutRow, OnlineAt, OnlineIsExplained
<1> QED
  BY <1>2, <1>3, <1>4, <1>5 DEF LifeInv

LEMMA DeleteDbKeeps == ASSUME LifeInv, DeleteDb PROVE LifeInv'
<1>1. UNCHANGED <<pc, req, own, other, reply, erase, reset, conn, call>>
      /\ server = "interrupted" /\ server' = "deleted"
  BY DEF DeleteDb
<1>2. CASE ~erase /\ UNCHANGED <<clients, table, sync, left>>
  <2>1. IInv'
    BY <1>1, <1>2, StoreRests DEF LifeInv, vars
  <2>2. LifeTypeOK'
    BY <1>1, <1>2, <2>1 DEF LifeInv, LifeTypeOK, IInv, Alive
  <2>3. Served' /\ ResetFirst'
    BY <1>1, <1>2 DEF LifeInv, Served, ResetFirst, Alive
  <2>4. OwnAddress' /\ LogoutRow' /\ OnlineIsExplained'
    BY <1>1, <1>2 DEF LifeInv, OwnAddress, FromConnection, LogoutRow, OnlineAt,
       OnlineIsExplained
  <2> QED
    BY <2>1, <2>2, <2>3, <2>4 DEF LifeInv
<1>3. CASE /\ table' = "none"
           /\ clients' = {}
           /\ sync' = [w \in Workers |->
                          IF sync[w] \in {"drop", "create"} THEN "lost" ELSE sync[w]]
           /\ Leave({})
  <2>1. IInv'
    BY <1>1, <1>3, RowsGo DEF LifeInv
  <2>2. LifeTypeOK'
    <3>1. TypeOK' /\ left' \subseteq Users
      BY <1>3, <2>1, LeaveType DEF IInv
    <3>2. /\ sync' \in [Workers -> {"no", "check", "drop", "create", "lost"}]
          /\ \A w \in Workers : sync'[w] # "no" => sync[w] # "no"
      BY <1>3 DEF LifeInv, LifeTypeOK
    <3> QED
      BY <1>1, <1>3, <3>1, <3>2 DEF LifeInv, LifeTypeOK, Alive
  <2>3. Served' /\ ResetFirst'
    BY <1>1, <1>3 DEF LifeInv, Served, ResetFirst, Alive
  <2>4. OwnAddress' /\ LogoutRow' /\ OnlineIsExplained'
    BY <1>1, <1>3 DEF LifeInv, OwnAddress, FromConnection, LogoutRow, OnlineAt,
       OnlineIsExplained
  <2> QED
    BY <2>1, <2>2, <2>3, <2>4 DEF LifeInv
<1> QED
  BY <1>2, <1>3 DEF DeleteDb

-----------------------------------------------------------------------------
(***************************************************************************)
(* The workers, before their statements.                                   *)
(***************************************************************************)
LEMMA AcceptKeeps ==
    ASSUME LifeInv, NEW w \in Workers, NEW a \in Addrs, Accept(w, a)
    PROVE  LifeInv'
<1>1. /\ UNCHANGED <<vars, server, erase, reset, table, sync, call, left>>
      /\ server = "serving" /\ conn[w] = NoAddr /\ a # NoAddr
      /\ \A v \in Workers : conn[v] # a
      /\ conn' = [conn EXCEPT ![w] = a]
  BY StoreAssumption DEF Accept, file
<1>2. IInv'
  BY <1>1, StoreRests DEF LifeInv
<1>3. LifeTypeOK'
  BY <1>1, <1>2 DEF LifeInv, LifeTypeOK, IInv, vars
<1>4. conn \in [Workers -> Addrs \cup {NoAddr}]
  BY DEF LifeInv, LifeTypeOK
<1>5. Served' /\ ResetFirst'
  BY <1>1, <1>4 DEF LifeInv, Served, ResetFirst, vars, Alive
<1>6. OwnAddress' /\ LogoutRow'
  <2>1. \A v \in Workers : pc[v] # "idle" \/ sync[v] # "no" => conn'[v] = conn[v]
    BY <1>1, <1>4 DEF LifeInv, Served
  <2> QED
    BY <1>1, <2>1 DEF LifeInv, OwnAddress, FromConnection, LogoutRow, OnlineAt, vars
<1>7. OnlineIsExplained'
  <2> SUFFICES ASSUME NEW r \in clients, r.online_status = 1,
                      NEW v \in Workers, conn[v] = r.addr
               PROVE  \E x \in Workers : conn'[x] = r.addr
    BY <1>1 DEF LifeInv, OnlineIsExplained, vars
  <2>1. r.addr # NoAddr
    BY OnlineHasAddr DEF LifeInv
  <2> QED
    BY <1>1, <1>4, <2>1
<1> QED
  BY <1>2, <1>3, <1>5, <1>6, <1>7 DEF LifeInv

LEMMA CommandKeeps ==
    ASSUME LifeInv, NEW w \in Workers, NEW r \in Requests, Command(w, r)
    PROVE  LifeInv'
<1>1. /\ UNCHANGED <<vars, server, erase, reset, conn, table, left>>
      /\ conn[w] # NoAddr /\ pc[w] = "idle" /\ FromConnection(w, r)
      /\ sync' = [sync EXCEPT ![w] = "check"]
      /\ call' = [call EXCEPT ![w] = r]
      /\ r # NoRequest
  BY DEF Command, process, Requests, NoRequest
<1>2. IInv'
  BY <1>1, StoreRests DEF LifeInv
<1>3. LifeTypeOK'
  BY <1>1, <1>2 DEF LifeInv, LifeTypeOK, IInv, vars
<1>4. sync \in [Workers -> {"no", "check", "drop", "create", "lost"}]
      /\ call \in [Workers -> Requests \cup {NoRequest}]
  BY DEF LifeInv, LifeTypeOK
<1>5. Served' /\ ResetFirst' /\ OwnAddress' /\ LogoutRow' /\ OnlineIsExplained'
  BY <1>1, <1>4 DEF LifeInv, Served, ResetFirst, OwnAddress, FromConnection, LogoutRow,
     OnlineAt, OnlineIsExplained, vars
<1> QED
  BY <1>2, <1>3, <1>5 DEF LifeInv

LEMMA SyncedKeeps ==
    ASSUME LifeInv, NEW w \in Workers, sync[w] # "no", Synced(w),
           table # "raw", table' = "synced"
    PROVE  LifeInv'
<1>1. call[w] \in Requests /\ pc[w] = "idle" /\ FromConnection(w, call[w])
  BY DEF LifeInv, LifeTypeOK, OwnAddress
<1>2. /\ UNCHANGED <<clients, own, other, server, erase, reset, conn, left>>
      /\ sync' = [sync EXCEPT ![w] = "no"]
      /\ call' = [call EXCEPT ![w] = NoRequest]
      /\ \/ UNCHANGED <<pc, req>>
         \/ /\ pc' = [pc EXCEPT ![w] = FirstStatement[call[w].op]]
            /\ req' = [req EXCEPT ![w] = call[w]]
  BY DEF Synced, Call, RejectedCall, process
<1>3. IInv'
  BY <1>1, CallKeeps DEF LifeInv, Synced
<1>4. sync \in [Workers -> {"no", "check", "drop", "create", "lost"}]
      /\ pc \in [Workers -> Statements \cup {"idle"}]
      /\ req \in [Workers -> Requests \cup {NoRequest}]
      /\ call \in [Workers -> Requests \cup {NoRequest}]
  BY DEF LifeInv, LifeTypeOK, TypeOK
<1>5. LifeTypeOK'
  BY <1>2, <1>3, <1>4 DEF LifeInv, LifeTypeOK, IInv
<1>6. Served' /\ ResetFirst' /\ OnlineIsExplained'
  BY <1>2, <1>4 DEF LifeInv, Served, ResetFirst, OnlineIsExplained
<1>7. FirstStatement[call[w].op] # "logout_update"
      /\ (FirstStatement[call[w].op] = "list_select" => call[w].op # "logout")
  BY <1>1 DEF FirstStatement, Requests
<1>8. OwnAddress'
  <2> SUFFICES ASSUME NEW v \in Workers
               PROVE  /\ sync'[v] # "no" => FromConnection(v, call[v])' /\ call'[v] = call[v]
                      /\ pc'[v] # "idle" => FromConnection(v, req[v])'
                      /\ pc'[v] = "list_select" => req'[v].op # "logout"
    BY DEF OwnAddress
  <2>1. CASE v = w
    BY <1>1, <1>2, <1>4, <1>7, <2>1 DEF FromConnection
  <2>2. CASE v # w
    BY <1>2, <1>4, <2>2 DEF LifeInv, OwnAddress, FromConnection
  <2> QED
    BY <2>1, <2>2
<1>9. LogoutRow'
  BY <1>2, <1>4, <1>7 DEF LifeInv, LogoutRow, OnlineAt
<1> QED
  BY <1>3, <1>5, <1>6, <1>8, <1>9 DEF LifeInv

LEMMA SyncKeeps ==
    ASSUME LifeInv, NEW w \in Workers, SyncCheck(w) \/ SyncDrop(w) \/ SyncCreate(w)
    PROVE  LifeInv'
<1>1. CASE Synced(w) /\ sync[w] # "no" /\ table # "raw" /\ table' = "synced"
  BY <1>1, SyncedKeeps
<1>2. CASE /\ sync[w] = "check" /\ table # "synced"
           /\ sync' = [sync EXCEPT ![w] = IF table = "raw" THEN "drop" ELSE "create"]
           /\ UNCHANGED <<vars, process, table, call, left>>
  <2>1. IInv'
    BY <1>2, StoreRests DEF LifeInv
  <2>2. LifeTypeOK'
    BY <1>2, <2>1 DEF LifeInv, LifeTypeOK, IInv, vars, process
  <2>3. sync \in [Workers -> {"no", "check", "drop", "create", "lost"}]
    BY DEF LifeInv, LifeTypeOK
  <2>4. server \in Alive
    BY <1>2 DEF LifeInv, Served
  <2>5. Served' /\ ResetFirst'
    BY <1>2, <2>3, <2>4 DEF LifeInv, Served, ResetFirst, vars, process
  <2>6. OwnAddress' /\ LogoutRow' /\ OnlineIsExplained'
    BY <1>2, <2>3 DEF LifeInv, OwnAddress, FromConnection, LogoutRow, OnlineAt,
       OnlineIsExplained, vars, process
  <2> QED
    BY <2>1, <2>2, <2>5, <2>6 DEF LifeInv
<1>3. CASE SyncDrop(w)
  <2>1. /\ clients' = {} /\ table' = "none" /\ sync[w] = "drop"
        /\ sync' = [sync EXCEPT ![w] = "create"]
        /\ UNCHANGED <<pc, req, own, other, reply, server, erase, reset, conn, call>>
    BY <1>3 DEF SyncDrop, process
  <2>2. IInv'
    BY <2>1, RowsGo DEF LifeInv
  <2>3. sync \in [Workers -> {"no", "check", "drop", "create", "lost"}]
    BY DEF LifeInv, LifeTypeOK
  <2>4. LifeTypeOK'
    <3>1. TypeOK' /\ left' \subseteq Users
      BY <1>3, <2>1, <2>2, LeaveType DEF IInv, SyncDrop
    <3> QED
      BY <2>1, <2>3, <3>1 DEF LifeInv, LifeTypeOK
  <2>5. Served' /\ ResetFirst'
    BY <2>1, <2>3 DEF LifeInv, Served, ResetFirst
  <2>6. OwnAddress' /\ LogoutRow' /\ OnlineIsExplained'
    BY <2>1, <2>3 DEF LifeInv, OwnAddress, FromConnection, LogoutRow, OnlineAt,
       OnlineIsExplained
  <2> QED
    BY <2>2, <2>4, <2>5, <2>6 DEF LifeInv
<1> QED
  BY <1>1, <1>2, <1>3 DEF SyncCheck, SyncCreate

\* A call that ends with an exception leaves its session's user online.
LEMMA ThrowKeeps ==
    ASSUME LifeInv, NEW w \in Workers, Throw(w)
    PROVE  LifeInv'
<1>1. /\ UNCHANGED <<clients, server, erase, reset, table>>
      /\ pc' = [pc EXCEPT ![w] = "idle"]
      /\ req' = [req EXCEPT ![w] = NoRequest]
      /\ own' = [own EXCEPT ![w] = NoRow]
      /\ sync' = [sync EXCEPT ![w] = "no"]
      /\ call' = [call EXCEPT ![w] = NoRequest]
      /\ conn' = [conn EXCEPT ![w] = NoAddr]
  BY DEF Throw, Return
<1>2. IInv'
  BY <1>1, ReturnKeeps DEF LifeInv, IInv, Throw, Replies
<1>3. /\ sync \in [Workers -> {"no", "check", "drop", "create", "lost"}]
      /\ pc \in [Workers -> Statements \cup {"idle"}]
      /\ req \in [Workers -> Requests \cup {NoRequest}]
      /\ call \in [Workers -> Requests \cup {NoRequest}]
      /\ conn \in [Workers -> Addrs \cup {NoAddr}]
      /\ own \in [Workers -> Row \cup {NoRow}]
  BY DEF LifeInv, LifeTypeOK, TypeOK
<1>4. LifeTypeOK'
  <2>1. TypeOK' /\ left' \subseteq Users
    BY <1>2, LeaveType DEF IInv, TypeOK, Throw
  <2> QED
    BY <1>1, <1>3, <2>1 DEF LifeInv, LifeTypeOK
<1>5. Served' /\ ResetFirst' /\ OwnAddress'
  BY <1>1, <1>3 DEF LifeInv, Served, ResetFirst, OwnAddress, FromConnection
<1>6. ASSUME NEW r \in clients, r.online_status = 1, r.username \in left \cup NamesAt(conn[w])
      PROVE  r.username \in left'
  BY <1>1, <1>6, LeaveKeeps DEF Throw
<1>7. OnlineIsExplained'
  BY <1>1, <1>3, <1>6 DEF LifeInv, OnlineIsExplained, NamesAt, OnlineAt
<1>8. LogoutRow'
  BY <1>1, <1>3, <1>6 DEF LifeInv, LogoutRow, OnlineAt
<1> QED
  BY <1>2, <1>4, <1>5, <1>7, <1>8 DEF LifeInv

-----------------------------------------------------------------------------
(***************************************************************************)
(* The statements.                                                         *)
(***************************************************************************)
LEMMA StepShape ==
    ASSUME IInv, NEW w \in Workers, Step(w)
    PROVE  /\ pc[w] # "idle"
           /\ \A v \in Workers \ {w} :
                 pc'[v] = pc[v] /\ req'[v] = req[v] /\ own'[v] = own[v]
           /\ \/ pc'[w] = "idle"
              \/ pc'[w] \notin {"idle", "list_select"} /\ req'[w] = req[w]
           /\ pc'[w] = "logout_update" => LogoutCheck(w)
<1>1. /\ pc \in [Workers -> Statements \cup {"idle"}]
      /\ req \in [Workers -> Requests \cup {NoRequest}]
      /\ own \in [Workers -> Row \cup {NoRow}]
  BY DEF IInv, TypeOK
<1>2. CASE \E code \in Replies : Return(w, code)
  BY <1>1, <1>2 DEF Return, Step, RegisterCheck, RegisterReplace, LoginCheck, LoginOnline,
     LoginUpdate, LogoutCheck, LogoutUpdate, SenderCheck, ReceiverCheck, Debit, Credit,
     ListSelect, Busy
<1>3. CASE /\ \E r \in Row \cup {NoRow} : own' = [own EXCEPT ![w] = r]
           /\ \/ pc[w] # "idle" /\ \E l \in Statements \ {"list_select", "logout_update"} : Goto(w, l)
              \/ LogoutCheck(w) /\ Goto(w, "logout_update")
  BY <1>1, <1>3 DEF Goto, LogoutCheck, Statements
<1>4. own = [own EXCEPT ![w] = own[w]] /\ own[w] \in Row \cup {NoRow}
  BY <1>1
<1>5. clients \subseteq Row
  BY DEF IInv, TypeOK
<1>6. CASE RegisterCheck(w) \/ RegisterReplace(w) \/ ListSelect(w) \/ Busy(w)
  BY <1>2, <1>3, <1>4, <1>6 DEF RegisterCheck, RegisterReplace, ListSelect, Busy, Replies,
     Statements
<1>7. CASE LoginCheck(w) \/ LoginOnline(w) \/ LoginUpdate(w)
  BY <1>2, <1>3, <1>4, <1>5, <1>7 DEF LoginCheck, LoginOnline, LoginUpdate, Replies,
     Statements, Named
<1>8. CASE LogoutCheck(w) \/ LogoutUpdate(w)
  BY <1>2, <1>3, <1>4, <1>5, <1>8 DEF LogoutCheck, LogoutUpdate, Replies
<1>9. CASE SenderCheck(w) \/ ReceiverCheck(w) \/ Debit(w) \/ Credit(w)
  BY <1>2, <1>3, <1>4, <1>5, <1>9 DEF SenderCheck, ReceiverCheck, Debit, Credit, Replies,
     Statements
<1> QED
  BY <1>6, <1>7, <1>8, <1>9 DEF Step

\* What a statement's row can be when it is online.
LEMMA UpdateRow ==
    ASSUME NEW row, clients' = Update(row) \/ clients' = Replace(row), NEW r \in clients'
    PROVE  r \in clients \/ r = row
BY DEF Update, Replace

\* A row that is online after a statement is that of a user who was online there
\* before, or of a login at the worker's own address, or of a user the statement
\* leaves online.
LEMMA WrittenRow ==
    ASSUME LifeInv, NEW w \in Workers, Statement(w), NEW r \in clients', r.online_status = 1
    PROVE  \/ \E s \in OnlineAt(r.addr) : s.username = r.username
           \/ pc[w] = "login_update" /\ r.addr = conn[w]
           \/ r.username \in left'
<1>1. IInv /\ WorkerInv(w) /\ OwnAddress /\ reply \in [Workers -> Replies]
  BY DEF LifeInv, IInv, TypeOK
<1>2. ASSUME NEW u, u \in WrittenBack(w), r.username = u
      PROVE  r.username \in left'
  BY <1>2, LeaveKeeps DEF Statement
<1>3. CASE r \in clients
  BY <1>3 DEF OnlineAt
<1>4. CASE RegisterReplace(w)
  BY <1>3, <1>4, UpdateRow DEF RegisterReplace, NewUser
<1>5. CASE LoginUpdate(w)
  <2>1. GoodRow(own[w]) /\ req[w].addr = conn[w] /\ pc[w] = "login_update"
    BY <1>1, <1>5 DEF LoginUpdate, WorkerInv, LoginCall, LocalRows, OwnAddress, FromConnection
  <2>2. LoggedIn(own[w], req[w].addr, req[w].private_port).addr = req[w].addr
    BY <2>1 DEF LoggedIn, GoodRow, Row
  <2> QED
    BY <1>3, <1>5, <2>1, <2>2, UpdateRow DEF LoginUpdate
<1>6. CASE LogoutUpdate(w)
  <2>1. GoodRow(own[w])
    BY <1>1, <1>6 DEF LogoutUpdate, WorkerInv, LogoutCall, LocalRows
  <2>2. LoggedOut(own[w]).online_status = 0
    BY <2>1 DEF LoggedOut, GoodRow, Row
  <2> QED
    BY <1>3, <1>6, <2>2, UpdateRow DEF LogoutUpdate
<1>7. CASE Debit(w)
  <2>1. GoodRow(own[w])
    BY <1>1, <1>7 DEF Debit, WorkerInv, TransferCall, LocalRows
  <2>2. r = Debited(own[w], req[w].pay) => r.username = own[w].username /\ r.addr = own[w].addr
    BY <2>1 DEF Debited, GoodRow, Row
  <2>3. WrittenBack(w) = BroughtBack(own[w])
    BY <1>7 DEF Debit, WrittenBack
  <2> QED
    BY <1>2, <1>3, <1>7, <2>2, <2>3, UpdateRow DEF Debit, BroughtBack
<1>8. CASE Credit(w)
  <2>1. GoodRow(other[w])
    BY <1>1, <1>8 DEF Credit, WorkerInv, TransferCall, LocalRows
  <2>2. r = Credited(other[w], req[w].pay) => r.username = other[w].username /\ r.addr = other[w].addr
    BY <2>1 DEF Credited, GoodRow, Row
  <2>3. WrittenBack(w) = BroughtBack(other[w])
    BY <1>8 DEF Credit, WrittenBack
  <2> QED
    BY <1>2, <1>3, <1>8, <2>2, <2>3, UpdateRow DEF Credit, BroughtBack
<1> QED
  BY <1>3, <1>4, <1>5, <1>6, <1>7, <1>8
  DEF Statement, Step, RegisterCheck, LoginCheck, LoginOnline, LogoutCheck, SenderCheck,
      ReceiverCheck, ListSelect, Busy

\* Of those online at its address a session that ends by a logout leaves nobody
\* but the users left there.
LEMMA OverIsOut ==
    ASSUME LifeInv, NEW w \in Workers, Statement(w), SessionOver(w),
           NEW r \in clients', r.online_status = 1,
           NEW s \in OnlineAt(conn[w]), s.username = r.username
    PROVE  r.username \in left'
<1>1. /\ IInv /\ WorkerInv(w) /\ pc[w] # "idle" /\ req[w].op = "logout"
      /\ pc[w] # "list_select" /\ FromConnection(w, req[w])
      /\ s \in clients /\ reply \in [Workers -> Replies]
      /\ pc \in [Workers -> Statements \cup {"idle"}]
  BY StepShape DEF LifeInv, IInv, TypeOK, Statement, SessionOver, OwnAddress, OnlineAt
<1>2. pc[w] \in {"logout_check", "logout_update"}
  BY <1>1 DEF WorkerInv, RegisterCall, LoginCall, TransferCall, Statements
<1>3. ~Busy(w)
  BY <1>1 DEF Busy, Return, Statement
<1>4. CASE LogoutCheck(w)
  <2>1. pc[w] = "logout_check" /\ ~Single(OnlineAt(conn[w]))
    BY <1>1, <1>4 DEF LogoutCheck, Goto, SessionOver, FromConnection
  <2>2. r.username \in NotLoggedOut(w)
    BY <1>1, <2>1 DEF NotLoggedOut, NamesAt
  <2> QED
    BY <2>2, LeaveKeeps DEF Statement
<1>5. CASE LogoutUpdate(w)
  <2>1. pc[w] = "logout_update" /\ GoodRow(own[w])
    BY <1>1, <1>5 DEF LogoutUpdate, WorkerInv, LogoutCall, LocalRows
  <2>2. r.username \in left \cup {own[w].username}
    BY <1>1, <2>1 DEF LifeInv, LogoutRow
  <2>3. ASSUME r.username = own[w].username
        PROVE  FALSE
    <3>1. LoggedOut(own[w]).username = own[w].username /\ LoggedOut(own[w]).online_status = 0
      BY <2>1 DEF LoggedOut, GoodRow, Row
    <3>2. s \in Named(own[w].username)
      BY <1>1, <2>3 DEF Named
    <3> QED
      BY <1>5, <2>3, <3>1, <3>2 DEF LogoutUpdate, Update, Replace
  <2> QED
    BY <2>2, <2>3, LeaveKeeps DEF Statement
<1> QED
  BY <1>1, <1>2, <1>3, <1>4, <1>5
  DEF Statement, Step, RegisterCheck, RegisterReplace, LoginCheck, LoginOnline, LoginUpdate,
      SenderCheck, ReceiverCheck, Debit, Credit, ListSelect

LEMMA StatementKeeps ==
    ASSUME LifeInv, NEW w \in Workers, Statement(w)
    PROVE  LifeInv'
<1>1. /\ Step(w) /\ table = "synced"
      /\ UNCHANGED <<server, erase, reset, table, sync, call>>
      /\ conn' = IF SessionOver(w) THEN [conn EXCEPT ![w] = NoAddr] ELSE conn
  BY DEF Statement, file
<1>2. IInv'
  BY <1>1, StepKeeps DEF LifeInv, Next
<1>3. /\ pc[w] # "idle"
      /\ \A v \in Workers \ {w} :
            pc'[v] = pc[v] /\ req'[v] = req[v] /\ own'[v] = own[v] /\ conn'[v] = conn[v]
      /\ \/ pc'[w] = "idle"
         \/ pc'[w] \notin {"idle", "list_select"} /\ req'[w] = req[w] /\ conn'[w] = conn[w]
      /\ pc'[w] = "logout_update" => LogoutCheck(w)
      /\ conn'[w] \in {conn[w], NoAddr} /\ (conn'[w] # conn[w] => SessionOver(w))
  BY <1>1, StepShape DEF LifeInv, LifeTypeOK, SessionOver
<1>4. conn[w] # NoAddr /\ sync[w] = "no"
  BY <1>3 DEF LifeInv, LifeTypeOK, Served
<1>5. LifeTypeOK'
  <2>1. TypeOK' /\ left' \subseteq Users
    BY <1>2, LeaveType DEF IInv, TypeOK, Statement
  <2>2. conn' \in [Workers -> Addrs \cup {NoAddr}]
    BY <1>1 DEF LifeInv, LifeTypeOK
  <2>3. \A v \in Workers : sync[v] # "no" => pc'[v] = "idle"
    BY <1>3, <1>4 DEF LifeInv, LifeTypeOK
  <2> QED
    BY <1>1, <2>1, <2>2, <2>3 DEF LifeInv, LifeTypeOK
<1>6. Served' /\ ResetFirst'
  <2>1. \A v \in Workers : conn'[v] = NoAddr => pc'[v] = "idle" /\ sync[v] = "no"
    BY <1>3, <1>4 DEF LifeInv, Served, SessionOver
  <2>2. \A v \in Workers : server \notin Alive => conn'[v] = NoAddr
    BY <1>3 DEF LifeInv, Served
  <2>3. \A u, v \in Workers : u # v /\ conn'[u] = conn'[v] => conn'[v] = NoAddr
    BY <1>3 DEF LifeInv, Served
  <2> QED
    BY <1>1, <2>1, <2>2, <2>3 DEF LifeInv, Served, ResetFirst
<1>7. OwnAddress'
  BY <1>1, <1>3, <1>4 DEF LifeInv, OwnAddress, FromConnection
<1>8. OnlineIsExplained'
  <2> SUFFICES ASSUME NEW r \in clients', r.online_status = 1, r.username \notin left'
               PROVE  \E v \in Workers : conn'[v] = r.addr
    BY DEF OnlineIsExplained
  <2>1. ASSUME NEW s \in OnlineAt(r.addr), s.username = r.username
        PROVE  \E v \in Workers : conn'[v] = r.addr
    <3>1. s.username \notin left
      BY <2>1, LeaveKeeps DEF Statement
    <3>2. PICK v \in Workers : conn[v] = r.addr
      BY <3>1 DEF LifeInv, OnlineIsExplained, OnlineAt
    <3>3. conn'[v] = conn[v]
      BY <1>3, <2>1, <3>2, OverIsOut
    <3> QED
      BY <3>2, <3>3
  <2>2. CASE pc[w] = "login_update" /\ r.addr = conn[w]
    <3>1. ~SessionOver(w)
      BY <2>2 DEF LifeInv, IInv, WorkerInv, LoginCall, SessionOver
    <3> QED
      BY <1>3, <2>2, <3>1
  <2> QED
    BY <2>1, <2>2, WrittenRow
<1>9. LogoutRow'
  <2> SUFFICES ASSUME NEW v \in Workers, pc'[v] = "logout_update",
                      NEW r \in clients', r.online_status = 1, r.addr = conn'[v],
                      r.username \notin left'
               PROVE  r.username = own'[v].username
    BY DEF LogoutRow, OnlineAt
  <2>1. CASE v = w
    <3>1. /\ LogoutCheck(w) /\ req[w].addr = conn[w] /\ conn'[w] = conn[w]
          /\ clients' = clients
      BY <1>3, <2>1 DEF LogoutCheck, LifeInv, OwnAddress, IInv, WorkerInv, LogoutCall,
         FromConnection
    <3>2. OnlineAt(conn[w]) = {own'[w]}
      BY <2>1, <3>1 DEF LogoutCheck, Return, LifeInv, IInv, TypeOK
    <3>3. r \in OnlineAt(conn[w])
      BY <2>1, <3>1 DEF OnlineAt
    <3> QED
      BY <2>1, <3>2, <3>3
  <2>2. CASE v # w
    <3>1. pc[v] = "logout_update" /\ own'[v] = own[v] /\ conn[v] = r.addr
      BY <1>3, <2>2
    <3>2. r.username \notin left
      BY LeaveKeeps DEF Statement
    <3>3. conn[v] # conn[w]
      BY <1>4, <2>2 DEF LifeInv, Served
    <3>4. PICK s \in OnlineAt(conn[v]) : s.username = r.username
      BY <2>2, <3>1, <3>3, WrittenRow
    <3> QED
      BY <3>1, <3>2, <3>4 DEF LifeInv, LogoutRow
  <2> QED
    BY <2>1, <2>2
<1> QED
  BY <1>2, <1>5, <1>6, <1>7, <1>8, <1>9 DEF LifeInv

-----------------------------------------------------------------------------
(***************************************************************************)
(* Whatever the server did or whatever became of it, the invariant holds.  *)
(***************************************************************************)
LEMMA LifeInitEstablishes == LifeInit => LifeInv
<1> SUFFICES ASSUME LifeInit PROVE LifeInv
  OBVIOUS
<1>1. IInv /\ clients = Kept
  BY InitEstablishes DEF LifeInit, Init
<1>2. LifeTypeOK
  BY <1>1, StoreAssumption DEF IInv, LifeInit, LifeTypeOK, Row
<1>3. Served /\ ResetFirst /\ OwnAddress /\ LogoutRow
  BY DEF LifeInit, Init, Served, ResetFirst, OwnAddress, LogoutRow, Alive
<1>4. OnlineIsExplained
  BY <1>1 DEF LifeInit, OnlineIsExplained
<1> QED
  BY <1>1, <1>2, <1>3, <1>4 DEF LifeInv

LEMMA LifeStepKeeps == LifeInv /\ [LifeNext]_lifeVars => LifeInv'
<1> SUFFICES ASSUME LifeInv, [LifeNext]_lifeVars PROVE LifeInv'
  OBVIOUS
<1>1. CASE UNCHANGED lifeVars
  <2>1. IInv'
    BY <1>1, StoreRests DEF LifeInv, lifeVars
  <2> QED
    BY <1>1, <2>1
    DEF lifeVars, vars, process, file, LifeInv, LifeTypeOK, IInv, Served, ResetFirst, OwnAddress,
        FromConnection, LogoutRow, OnlineAt, OnlineIsExplained
<1>2. CASE (\E e, r \in BOOLEAN : Start(e, r)) \/ CreateTable \/ ResetSync
  BY <1>2, StartKeeps
<1>3. CASE Interrupt \/ Exit \/ Die
  BY <1>3, StartKeeps, DownKeeps DEF Interrupt, Exit, Die
<1>4. CASE RemoveAll \/ DeleteDb
  BY <1>4, RemoveAllKeeps, DeleteDbKeeps
<1>5. ASSUME NEW w \in Workers, NEW a \in Addrs, Accept(w, a)
      PROVE  LifeInv'
  BY <1>5, AcceptKeeps
<1>6. ASSUME NEW w \in Workers, NEW r \in Requests, Command(w, r)
      PROVE  LifeInv'
  BY <1>6, CommandKeeps
<1>7. ASSUME NEW w \in Workers, SyncCheck(w) \/ SyncDrop(w) \/ SyncCreate(w)
      PROVE  LifeInv'
  BY <1>7, SyncKeeps
<1>8. ASSUME NEW w \in Workers, SyncFails(w) \/ StatementFails(w)
      PROVE  LifeInv'
  BY <1>8, ThrowKeeps DEF SyncFails, StatementFails
<1>9. ASSUME NEW w \in Workers, Statement(w)
      PROVE  LifeInv'
  BY <1>9, StatementKeeps
<1> QED
  BY <1>1, <1>2, <1>3, <1>4, <1>5, <1>6, <1>7, <1>8, <1>9 DEF LifeNext

\* The invariant holds in every server on the file, the first and the later ones.
THEOREM LifeInvariance == LifeSpec => []LifeInv
BY LifeInitEstablishes, LifeStepKeeps, PTL DEF LifeSpec

\* Type correctness of the server's process, of its file and of the calls.
THEOREM LifecycleTyped == LifeSpec => []LifeTypeOK
<1>1. LifeInv => LifeTypeOK
  BY DEF LifeInv
<1> QED
  BY <1>1, LifeInvariance, PTL

\* Neither a crash, nor the removal of the table or of its file under the calls,
\* nor the next server on what is left makes half a session or a second row.
THEOREM NeverTornByCrash == LifeSpec => []NoTornRow
<1>1. LifeInv => NoTornRow
  BY DEF LifeInv, IInv, GoodTable, GoodRow, NoTornRow
<1> QED
  BY <1>1, LifeInvariance, PTL

\* Whoever is online in the table without a connection that is served was left
\* there by the end of a process, by an exception, by a logout that found two
\* users or by a transfer's row of a session that is over, and by nothing else.
THEOREM OnlineForCause == LifeSpec => []OnlineIsExplained
<1>1. LifeInv => OnlineIsExplained
  BY DEF LifeInv
<1> QED
  BY <1>1, LifeInvariance, PTL

-----------------------------------------------------------------------------
(***************************************************************************)
(* Who leaves the table and who enters it.                                 *)
(***************************************************************************)
\* A statement takes no user out, and only a registration's puts one in.
LEMMA StatementUsers ==
    ASSUME NEW w \in Workers, Step(w)
    PROVE  /\ Usernames \subseteq Usernames'
           /\ \A u \in Usernames' \ Usernames :
                 pc[w] = "register_replace" /\ req[w].username = u
<1>1. CASE RegisterReplace(w)
  <2>1. NewUser(req[w].username).username = req[w].username
    BY DEF NewUser
  <2>2. Usernames' = Usernames \cup {req[w].username}
    BY <1>1, <2>1, ReplaceKeepsUsers DEF RegisterReplace, Usernames
  <2> QED
    BY <1>1, <2>2 DEF RegisterReplace
<1>2. CASE LoginUpdate(w) \/ LogoutUpdate(w) \/ Debit(w) \/ Credit(w)
  BY <1>2, UpdateStep DEF LoginUpdate, LogoutUpdate, Debit, Credit
<1>3. CASE clients' = clients
  BY <1>3 DEF Usernames
<1> QED
  BY <1>1, <1>2, <1>3 DEF Step, RegisterCheck, LoginCheck, LoginOnline, LogoutCheck,
     SenderCheck, ReceiverCheck, ListSelect, Busy

\* The steps that change the table.
LEMMA TableChanges ==
    ASSUME [LifeNext]_lifeVars, clients' # clients
    PROVE  \/ RemoveAll
           \/ DeleteDb /\ erase /\ clients' = {}
           \/ \E w \in Workers : SyncDrop(w) \/ Step(w)
BY DEF LifeNext, lifeVars, vars, Start, CreateTable, ResetSync, Interrupt, DeleteDb, Exit, Die,
   Down, Accept, Command, Synced, Call, RejectedCall, Throw, SyncCheck, SyncCreate, SyncFails,
   Statement, StatementFails

LEMMA UserSteps ==
    ASSUME LifeInv, [LifeNext]_lifeVars
    PROVE  UsersLeave /\ UsersEnter
<1>1. CASE clients' = clients
  BY <1>1 DEF Usernames, UsersLeave, UsersEnter
<1>2. CASE RemoveAll
  <2>1. server = "remove" /\ reset /\ Usernames' = {}
    BY <1>2 DEF RemoveAll, LifeInv, ResetFirst, Usernames
  <2> QED
    BY <2>1 DEF UsersLeave, UsersEnter
<1>3. CASE DeleteDb /\ erase /\ clients' = {}
  <2>1. Usernames' = {}
    BY <1>3 DEF Usernames
  <2> QED
    BY <1>3, <2>1 DEF DeleteDb, UsersLeave, UsersEnter
<1>4. ASSUME NEW w \in Workers, SyncDrop(w)
      PROVE  UsersLeave /\ UsersEnter
  <2>1. Usernames' = {}
    BY <1>4 DEF SyncDrop, Usernames
  <2>2. ~reset /\ sync[w] = "drop" /\ sync'[w] = "create"
    BY <1>4 DEF SyncDrop, LifeInv, LifeTypeOK, ResetFirst
  <2> QED
    BY <2>1, <2>2 DEF UsersLeave, UsersEnter
<1>5. ASSUME NEW w \in Workers, Step(w)
      PROVE  UsersLeave /\ UsersEnter
  BY <1>5, StatementUsers DEF UsersLeave, UsersEnter
<1> QED
  BY <1>1, <1>2, <1>3, <1>4, <1>5, TableChanges

\* Users leave the table only by the reset or the erasure that was asked for, or,
\* in a server told not to reset it, by a call that finds the table still as
\* the constructor made it.
THEOREM RegistrationsSurvive == LifeSpec => RegistrationsKept
<1>1. LifeInv /\ [LifeNext]_lifeVars => [UsersLeave]_lifeVars
  BY UserSteps
<1> QED
  BY <1>1, LifeInvariance, PTL DEF LifeSpec, RegistrationsKept

\* A user who is gone with the table comes back by a registration only, however
\* old the rows are that the calls in progress still write.
THEOREM NobodyComesBack == LifeSpec => OnlyRegistrationsEnter
<1>1. LifeInv /\ [LifeNext]_lifeVars => [UsersEnter]_lifeVars
  BY UserSteps
<1> QED
  BY <1>1, LifeInvariance, PTL DEF LifeSpec, OnlyRegistrationsEnter

=============================================================================
