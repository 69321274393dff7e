----------------------------- MODULE Lifecycle ------------------------------
(***************************************************************************)
(* The life of the server around its database file: the two questions at   *)
(* the start, the constructor and destructor of class Database, SIGINT,    *)
(* the ends without any handler, and the next server on the file that is   *)
(* left.  The calls of the workers are those of AccountStore, statement by *)
(* statement; here they also run sync_schema first, may find the file      *)
(* removed or the table dropped under them, and end with the process.      *)
(*                                                                         *)
(* The constructor creates the table with columns sqlite_orm does not      *)
(* describe ("raw"); the first sync_schema that sees it drops it and       *)
(* creates it anew.  A file without the table and no file at all are one   *)
(* state, "none": every open creates the file.                             *)
(***************************************************************************)
EXTENDS AccountStore

VARIABLES
    server,     \* what the main thread, or the signal handler, does next
    erase,      \* Database::erase: delete the file at the end
    reset,      \* empty the table at the start
    table,      \* the table CLIENT in the file
    sync,       \* the step of sync_schema each worker's call has reached
    call,       \* the call that waits for its sync_schema
    conn,       \* the address of the connection each worker serves
    left        \* history: users online in the table for want of a logout

process == <<server, erase, reset, conn>>
file == <<table, sync, call>>
lifeVars == <<vars, process, file, left>>

Starting == {"open", "sync", "remove"}
Alive == {"serving", "interrupted", "deleted"}

LifeTypeOK ==
    /\ TypeOK
    /\ server \in Starting \cup Alive \cup {"down"}
    /\ erase \in BOOLEAN /\ reset \in BOOLEAN
    /\ table \in {"none", "raw", "synced"}
    /\ sync \in [Workers -> {"no", "check", "drop", "create", "lost"}]
    /\ call \in [Workers -> Requests \cup {NoRequest}]
    /\ conn \in [Workers -> Addrs \cup {NoAddr}]
    /\ left \subseteq Users
    /\ table # "synced" => clients = {}
    /\ \A w \in Workers : sync[w] # "no" => pc[w] = "idle" /\ call[w] # NoRequest

\* An earlier server may have left a database, or none.
LifeInit ==
    /\ Init
    /\ server = "down"
    /\ erase = FALSE /\ reset = FALSE
    /\ table = IF Kept = {} THEN "none" ELSE "synced"
    /\ sync = [w \in Workers |-> "no"]
    /\ call = [w \in Workers |-> NoRequest]
    /\ conn = [w \in Workers |-> NoAddr]
    /\ left = {r.username : r \in {s \in Kept : s.online_status = 1}}

\* Of the users left online before or by this step, those who still are.
Leave(users) == left' = {u \in left \cup users : \E r \in clients' :
                             r.username = u /\ r.online_status = 1}

NamesAt(a) == {r.username : r \in OnlineAt(a)}

-----------------------------------------------------------------------------
(***************************************************************************)
(* The start: check_db_status, then the constructor.                       *)
(***************************************************************************)
Start(e, r) ==
    /\ server = "down"
    /\ server' = "open"
    /\ erase' = e
    /\ reset' = r
    /\ UNCHANGED <<vars, file, conn, left>>

\* Mutant: the answer about the reset is not looked at.
AlwaysReset == "sync"

AfterCreate == IF reset THEN "sync" ELSE "serving"

\* CREATE TABLE; that it fails because the table exists is only printed.
CreateTable ==
    /\ server = "open"
    /\ table' = IF table = "none" THEN "raw" ELSE table
    /\ server' = AfterCreate
    /\ UNCHANGED <<vars, erase, reset, conn, sync, call, left>>

\* sync_schema of the constructor: DROP TABLE and CREATE TABLE are two
\* statements, and the process may end between them.
ResetSync ==
    /\ server = "sync"
    /\ \/ table = "raw" /\ table' = "none" /\ UNCHANGED server
       \/ table # "raw" /\ table' = "synced" /\ server' = "remove"
    /\ UNCHANGED <<vars, erase, reset, conn, sync, call, left>>

RemoveAll ==
    /\ server = "remove"
    /\ server' = "serving"
    /\ clients' = {}
    /\ Leave({})
    /\ UNCHANGED <<pc, req, own, other, reply, erase, reset, conn, file>>

-----------------------------------------------------------------------------
(***************************************************************************)
(* The workers.                                                            *)
(***************************************************************************)
Accept(w, a) ==
    /\ server = "serving"
    /\ conn[w] = NoAddr
    /\ \A v \in Workers : conn[v] # a
    /\ conn' = [conn EXCEPT ![w] = a]
    /\ UNCHANGED <<vars, server, erase, reset, file, left>>

\* The calls process_request makes for its connection.
FromConnection(w, r) == r.op \in {"login", "logout"} => r.addr = conn[w]

\* A command read from the connection makes a call.  One that was read before
\* SIGINT is still carried out until the process ends.
Command(w, r) ==
    /\ conn[w] # NoAddr
    /\ pc[w] = "idle" /\ sync[w] = "no"
    /\ FromConnection(w, r)
    /\ sync' = [sync EXCEPT ![w] = "check"]
    /\ call' = [call EXCEPT ![w] = r]
    /\ UNCHANGED <<vars, process, table, left>>

\* The call goes on with its own statements.
Synced(w) ==
    /\ Call(w, call[w]) \/ RejectedCall(w, call[w])
    /\ sync' = [sync EXCEPT ![w] = "no"]
    /\ call' = [call EXCEPT ![w] = NoRequest]
    /\ UNCHANGED <<process, left>>

\* An exception ends the call and its session: nobody logs the user out.
Throw(w) ==
    /\ Return(w, "SQLITE_BUSY")
    /\ sync' = [sync EXCEPT ![w] = "no"]
    /\ call' = [call EXCEPT ![w] = NoRequest]
    /\ conn' = [conn EXCEPT ![w] = NoAddr]
    /\ UNCHANGED <<clients, server, erase, reset, table>>
    /\ Leave(NamesAt(conn[w]))

SyncCheck(w) ==
    /\ sync[w] = "check"
    /\ \/ table = "synced" /\ Synced(w) /\ UNCHANGED table
       \/ /\ table # "synced"
          /\ sync' = [sync EXCEPT ![w] = IF table = "raw" THEN "drop" ELSE "create"]
          /\ UNCHANGED <<vars, process, table, call, left>>

\* Whatever table is there by now is dropped, with its rows.
SyncDrop(w) ==
    /\ sync[w] = "drop"
    /\ table # "none"
    /\ table' = "none"
    /\ clients' = {}
    /\ sync' = [sync EXCEPT ![w] = "create"]
    /\ Leave({})
    /\ UNCHANGED <<pc, req, own, other, reply, process, call>>

SyncCreate(w) ==
    /\ sync[w] = "create"
    /\ table = "none"
    /\ table' = "synced"
    /\ Synced(w)

\* DROP of a table that is gone, CREATE of one that is there, either on a file
\* that was removed since it was opened, or a lock held by another statement.
SyncFails(w) ==
    /\ \/ sync[w] = "drop" /\ table = "none"
       \/ sync[w] = "create" /\ table # "none"
       \/ sync[w] = "lost"
       \/ /\ sync[w] # "no"
          /\ \E v \in Workers \ {w} : pc[v] # "idle" \/ sync[v] # "no"
    /\ Throw(w)

\* The user of an old row, unless he is still in the session the row has.
BroughtBack(row) ==
    IF \E r \in OnlineAt(row.addr) : r.username = row.username THEN {} ELSE {row.username}

\* Whom a transfer brings back into a session that ended since it read the row.
WrittenBack(w) ==
    IF pc[w] = "debit" THEN BroughtBack(own[w])
    ELSE IF pc[w] = "credit" THEN BroughtBack(other[w]) ELSE {}

\* A logout that finds two users at its address logs neither out.
NotLoggedOut(w) == IF pc[w] = "logout_check" /\ ~Single(OnlineAt(conn[w]))
                   THEN NamesAt(conn[w]) ELSE {}

SessionOver(w) == pc'[w] = "idle" /\ req[w].op = "logout"

Statement(w) ==
    /\ table = "synced"
    /\ Step(w)
    /\ reply'[w] # "SQLITE_BUSY"
    /\ conn' = IF SessionOver(w) THEN [conn EXCEPT ![w] = NoAddr] ELSE conn
    /\ Leave(WrittenBack(w) \cup NotLoggedOut(w))
    /\ UNCHANGED <<server, erase, reset, file>>

\* No such table, or SQLITE_BUSY.
StatementFails(w) ==
    /\ pc[w] # "idle"
    /\ \/ table # "synced"
       \/ \E v \in Workers \ {w} : pc[v] # "idle" \/ sync[v] # "no"
    /\ Throw(w)

-----------------------------------------------------------------------------
(***************************************************************************)
(* The end.                                                                *)
(***************************************************************************)
\* The process is gone, with its connections and the calls in progress; the
\* file stays as it is.
Down ==
    /\ server' = "down"
    /\ pc' = [w \in Workers |-> "idle"]
    /\ req' = [w \in Workers |-> NoRequest]
    /\ own' = [w \in Workers |-> NoRow]
    /\ other' = [w \in Workers |-> NoRow]
    /\ reply' = [w \in Workers |-> "none"]
    /\ sync' = [w \in Workers |-> "no"]
    /\ call' = [w \in Workers |-> NoRequest]
    /\ conn' = [w \in Workers |-> NoAddr]
    /\ UNCHANGED <<clients, erase, reset, table>>
    /\ Leave(Usernames)

\* The handler closes the sockets and sets termination_flag.  Before the
\* constructor has returned db is null, and delete does nothing.
Interrupt ==
    \/ server \in Starting /\ Down
    \/ /\ server = "serving"
       /\ server' = "interrupted"
       /\ UNCHANGED <<vars, erase, reset, conn, file, left>>

\* delete db: with erase the file is removed, open or not.
DeleteDb ==
    /\ server = "interrupted"
    /\ server' = "deleted"
    /\ \/ /\ erase
          /\ table' = "none"
          /\ clients' = {}
          /\ sync' = [w \in Workers |->
                         IF sync[w] \in {"drop", "create"} THEN "lost" ELSE sync[w]]
          /\ Leave({})
       \/ ~erase /\ UNCHANGED <<clients, table, sync, left>>
    /\ UNCHANGED <<pc, req, own, other, reply, erase, reset, conn, call>>

Exit == server = "deleted" /\ Down

\* exit(0) in recv_P3 and send_P3, or a signal without a handler.
Die == server # "down" /\ Down

LifeNext ==
    \/ \E e, r \in BOOLEAN : Start(e, r)
    \/ CreateTable \/ ResetSync \/ RemoveAll
    \/ Interrupt \/ DeleteDb \/ Exit \/ Die
    \/ \E w \in Workers :
         \/ \E a \in Addrs : Accept(w, a)
         \/ \E r \in Requests : Command(w, r)
         \/ SyncCheck(w) \/ SyncDrop(w) \/ SyncCreate(w) \/ SyncFails(w)
         \/ Statement(w) \/ StatementFails(w)

LifeSpec == LifeInit /\ [][LifeNext]_lifeVars

-----------------------------------------------------------------------------

\* The table may be dropped by the sync_schema of a call only in a server that was
\* told not to reset it: whoever answers the second question with Y registers
\* users that last (server.cpp:494-506, Database.cpp:85-89).  Besides that a user
\* leaves the table by the reset or by the erasure that was asked for, in no
\* crash, restart or race of calls with them.
UsersLeave ==
    \/ Usernames \subseteq Usernames'
    \/ server = "remove" /\ reset
    \/ server = "interrupted" /\ server' = "deleted" /\ erase
    \/ ~reset /\ \E w \in Workers : sync[w] = "drop" /\ sync'[w] = "create"

RegistrationsKept == [][UsersLeave]_lifeVars

\* Nobody comes back: after the file was removed or the table dropped while calls
\* were in progress, none of them puts a user into the new table but by a
\* registration of that user (Database.cpp:97, 141, 164, 190-191 write with UPDATE).
UsersEnter ==
    \A u \in Usernames' \ Usernames : \E w \in Workers :
        pc[w] = "register_replace" /\ req[w].username = u

OnlyRegistrationsEnter == [][UsersEnter]_lifeVars

\* A user is online in the table at the address of a connection that is being
\* served, or was left online by one of four things: the end of the process,
\* an exception, a logout that found two users at its address, or a transfer that
\* wrote back a row of a session that had ended since it was read (server.cpp:218,
\* Database.cpp:154, 188-191).  A transfer between users whose sessions last leaves
\* nobody online.
OnlineIsExplained ==
    \A r \in clients : r.online_status = 1 =>
        \/ r.username \in left
        \/ \E w \in Workers : conn[w] = r.addr

=============================================================================
