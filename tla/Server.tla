------------------------------- MODULE Server -------------------------------
(***************************************************************************)
(* The payment server (server.cpp): the accepting thread, the pool's       *)
(* workers, each running process_request for one connection at a time,     *)
(* and what the clients (client.cpp) do with their connection.             *)
(*                                                                         *)
(* user_register and user_login look first and write in a later statement: *)
(* each is two steps.  A transfer and a logout are one step, that of Bank. *)
(* Every specification here has the condition of IsolatedStore, under      *)
(* which that is what they are (StoreImplementsBank): the calls that are   *)
(* in progress at once concern different users.  AccountStore is about the *)
(* rest, such as two logins of one user that both succeed.                 *)
(*                                                                         *)
(* client_fds is shared by all workers without a lock: each turn of a loop *)
(* over it, push_back and erase are steps.  Its entries point to the       *)
(* variable connection of a worker's stack frame.                          *)
(*                                                                         *)
(* A client waits for the answer to one command before it sends the next,  *)
(* as its menu does; its receive thread reports payments at any time.      *)
(***************************************************************************)
EXTENDS Naturals, Sequences, FiniteSets, SequencesExt

CONSTANTS
    Users, Workers,
    Conns,           \* connections, named by the client's address
    Amounts, InitialBalance,
    KeptUsers,       \* the users registered in the database the server opens
    NoUser, NoConn, NoSession,
    Faults,          \* which of the disturbances below happen
    SocketBuffer     \* bound: messages unread in one direction of a connection

ASSUME ServerAssumption ==
    /\ NoUser \notin Users
    /\ NoConn \notin Conns
    /\ KeptUsers \subseteq Users
    /\ Amounts \subseteq Nat
    /\ InitialBalance \in Nat
    /\ NoSession \notin [addr : Conns, private_port : {"port"}]
    /\ Faults \subseteq {"busy", "depart", "interrupt", "relogin"}
    /\ SocketBuffer \in Nat

VARIABLES
    balance, session, status,            \* the accounts; each call's result
    up,                                  \* the server process runs
    line,                                \* connections that wait for a worker
    pc, conn, username,                  \* locals of process_request
    cmd,                                 \* the command; what is left in the buffer
    fds, at, target,                     \* client_fds; i and sender_fd
    mode, asked, me,                     \* the clients
    wire, back, mail                     \* to the server, to the client, to the peer

accounts == <<balance, session, status>>
search == <<fds, at, target>>
locals == <<pc, conn, username, cmd>>
clients == <<mode, asked, me, mail>>
vars == <<accounts, up, line, locals, search, clients, wire, back>>

Store == INSTANCE Bank WITH
            Tellers <- Workers, Addrs <- Conns, Ports <- {"port"}, Scale <- 1,
            OpeningBalance <- [u \in KeptUsers |-> InitialBalance],
            OpeningSession <- [u \in KeptUsers |-> NoSession],
            reply <- status

\* What parse_command makes of a frame.
Plain(kind) == [kind |-> kind]
About(kind, u) == [kind |-> kind, name |-> u]
Payment(s, r, x) == [kind |-> "TRANSACTION", payer |-> s, payee |-> r, amount |-> x]

Payments == {Payment(s, r, x) : s \in Users, r \in Users, x \in Amounts}

Commands ==
    {Plain(k) : k \in {"LIST", "EXIT", "ERR"}}
        \cup {About(k, u) : k \in {"REGISTER", "LOGIN"}, u \in Users}
        \cup Payments

Serving == {w \in Workers : pc[w] # "idle"}

Connected(c) == mode[c] # "away"

-----------------------------------------------------------------------------

Init ==
    /\ Store!Init
    /\ up = TRUE
    /\ line = << >>
    /\ pc = [w \in Workers |-> "idle"]
    /\ conn = [w \in Workers |-> NoConn]
    /\ username = [w \in Workers |-> NoUser]
    /\ cmd = [w \in Workers |-> Plain("ERR")]
    /\ fds = << >>
    /\ at = [w \in Workers |-> 1]
    /\ target = [w \in Workers |-> {}]
    /\ mode = [c \in Conns |-> "away"]
    /\ asked = [c \in Conns |-> Plain("ERR")]
    /\ me = [c \in Conns |-> {}]
    /\ wire = [c \in Conns |-> << >>]
    /\ back = [c \in Conns |-> << >>]
    /\ mail = [c \in Conns |-> << >>]

(***************************************************************************)
(* The clients.  An address is free again when both ends have closed.      *)
(***************************************************************************)
Process == <<accounts, up, locals, search>>

Connect(c) ==
    /\ up /\ mode[c] = "away"
    /\ \A w \in Workers : conn[w] # c
    /\ \A i \in DOMAIN line : line[i] # c
    /\ mode' = [mode EXCEPT ![c] = "line"]
    /\ line' = Append(line, c)
    /\ wire' = [wire EXCEPT ![c] = << >>]
    /\ UNCHANGED <<Process, asked, me, mail, back>>

Send(c, k) ==
    /\ Len(wire[c]) < SocketBuffer
    /\ wire' = [wire EXCEPT ![c] = Append(@, k)]

\* A client that is logged in does not offer to log in; one whose private
\* port could not be bound is logged in and does not know it.
MayAsk(c, k) ==
    /\ k.kind \in {"REGISTER", "LOGIN", "LIST"}
    /\ k.kind = "LOGIN" => me[c] = {}

Ask(c, k) ==
    /\ mode[c] = "free"
    /\ MayAsk(c, k)
    /\ Send(c, k)
    /\ mode' = [mode EXCEPT ![c] = "asked"]
    /\ asked' = [asked EXCEPT ![c] = k]
    /\ UNCHANGED <<Process, line, me, mail, back>>

\* A payment goes to the client at the address the server has just listed for
\* the payee; the payer's waits for the server.
Pay(c, d, k) ==
    /\ mode[c] = "free"
    /\ k.kind = "TRANSACTION"
    /\ k.payer \in me[c] /\ k.payee \in me[d]
    /\ k.payee \in Store!Online /\ session[k.payee].addr = d
    /\ Len(mail[d]) < SocketBuffer
    /\ mail' = [mail EXCEPT ![d] = Append(@, k)]
    /\ mode' = [mode EXCEPT ![c] = "asked"]
    /\ asked' = [asked EXCEPT ![c] = k]
    /\ UNCHANGED <<Process, line, me, wire, back>>

Report(d) ==
    /\ mail[d] # << >>
    /\ Send(d, Head(mail[d]))
    /\ mail' = [mail EXCEPT ![d] = Tail(@)]
    /\ UNCHANGED <<Process, line, mode, asked, me, back>>

\* Exit from the menu; interrupted, also while it waits for an answer.
Leave(c) ==
    /\ mode[c] = "free" \/ ("interrupt" \in Faults /\ mode[c] = "asked")
    /\ Send(c, Plain("EXIT"))
    /\ mode' = [mode EXCEPT ![c] = "leaving"]
    /\ asked' = [asked EXCEPT ![c] = Plain("EXIT")]
    /\ UNCHANGED <<Process, line, me, mail, back>>

Closed(c) ==
    /\ mode' = [mode EXCEPT ![c] = "away"]
    /\ me' = [me EXCEPT ![c] = {}]
    /\ mail' = [mail EXCEPT ![c] = << >>]
    /\ back' = [back EXCEPT ![c] = << >>]
    /\ asked' = [asked EXCEPT ![c] = Plain("ERR")]
    /\ UNCHANGED <<Process, line, wire>>

\* The client takes the next message for the answer it waits for.
Take(c) ==
    /\ back[c] # << >>
    /\ \/ mode[c] = "leaving" /\ Closed(c)
       \/ /\ mode[c] = "asked"
          /\ mode' = [mode EXCEPT ![c] = "free"]
          /\ \/ /\ asked[c].kind = "LOGIN" /\ Head(back[c]).code = "LOGIN_SUCCESS"
                /\ me' = [me EXCEPT ![c] = {asked[c].name}]
             \/ /\ asked[c].kind = "LOGIN" /\ Head(back[c]).code = "LOGIN_SUCCESS"
                   => "relogin" \in Faults
                /\ UNCHANGED me
          /\ back' = [back EXCEPT ![c] = Tail(@)]
          /\ asked' = [asked EXCEPT ![c] = Plain("ERR")]
          /\ UNCHANGED <<Process, line, mail, wire>>

\* The client is killed, or its connection breaks.
Depart(c) ==
    /\ "depart" \in Faults
    /\ Connected(c)
    /\ Closed(c)

(***************************************************************************)
(* A worker takes a connection and sends the public key, which the client  *)
(* waits for, then receives commands.                                      *)
(***************************************************************************)
Begin(w) ==
    /\ up /\ pc[w] = "idle" /\ line # << >>
    /\ line' = Tail(line)
    /\ conn' = [conn EXCEPT ![w] = Head(line)]
    /\ username' = [username EXCEPT ![w] = NoUser]
    /\ pc' = [pc EXCEPT ![w] = "receive"]
    /\ mode' = IF Connected(Head(line)) THEN [mode EXCEPT ![Head(line)] = "free"] ELSE mode
    /\ UNCHANGED <<accounts, up, cmd, search, asked, me, mail, wire, back>>

First(kind) ==
    CASE kind = "REGISTER"    -> "register"
      [] kind = "LOGIN"       -> "login"
      [] kind = "LIST"        -> "list"
      [] kind = "TRANSACTION" -> "transfer"
      [] kind = "EXIT"        -> "logout"
      [] kind = "ERR"         -> "reply"

Parsed(w, k) ==
    /\ cmd' = [cmd EXCEPT ![w] = k]
    /\ pc' = [pc EXCEPT ![w] = First(k.kind)]

Receive(w) ==
    /\ up /\ pc[w] = "receive" /\ wire[conn[w]] # << >>
    /\ Parsed(w, Head(wire[conn[w]]))
    /\ wire' = [wire EXCEPT ![conn[w]] = Tail(@)]
    /\ UNCHANGED <<accounts, up, line, conn, username, search, clients, back>>

\* recv has nothing to read any more, and what its buffer happens to hold is
\* decrypted all the same: an earlier frame, something else, nothing, or what
\* cannot be decrypted, which ends the server.
Hangup(w) ==
    /\ up /\ pc[w] = "receive" /\ wire[conn[w]] = << >> /\ ~Connected(conn[w])
    /\ \/ \E k \in {cmd[w], Plain("ERR")} : Parsed(w, k) /\ UNCHANGED up
       \/ /\ pc' = [pc EXCEPT ![w] = "drop"]
          /\ UNCHANGED <<up, cmd>>
       \/ /\ up' = FALSE
          /\ UNCHANGED <<pc, cmd>>
    /\ UNCHANGED <<accounts, line, conn, username, search, clients, wire, back>>

(***************************************************************************)
(* The commands.                                                           *)
(***************************************************************************)
Goto(w, l) == pc' = [pc EXCEPT ![w] = l]

Calls == <<up, line, conn, cmd, search, clients, wire, back>>

\* A new row, or one that replaces the row of the same name.
Replaced(f, u, x) == [v \in Store!Registered \cup {u} |-> IF v = u THEN x ELSE f[v]]

RegisterCheck(w) ==
    /\ up /\ pc[w] = "register"
    /\ \/ /\ cmd[w].name \in Store!Registered
          /\ Store!Refuse(w, "REGISTER_FAIL")
          /\ Goto(w, "reply")
       \/ /\ cmd[w].name \notin Store!Registered
          /\ UNCHANGED accounts
          /\ Goto(w, "register_replace")
    /\ UNCHANGED <<Calls, username>>

RegisterReplace(w) ==
    /\ up /\ pc[w] = "register_replace"
    /\ balance' = Replaced(balance, cmd[w].name, InitialBalance)
    /\ session' = Replaced(session, cmd[w].name, NoSession)
    /\ Store!Answer(w, "REGISTER_OK")
    /\ Goto(w, "reply")
    /\ UNCHANGED <<Calls, username>>

\* Mutant: it is not asked whether the user is online already.
LoginUnchecked(w) ==
    /\ up /\ pc[w] = "login"
    /\ \/ /\ cmd[w].name \notin Store!Registered
          /\ Store!Refuse(w, "LOGIN_AUTH_FAIL")
          /\ Goto(w, "reply")
       \/ /\ cmd[w].name \in Store!Registered
          /\ UNCHANGED accounts
          /\ Goto(w, "login_update")
    /\ UNCHANGED <<Calls, username>>

LoginCheck(w) ==
    /\ up /\ pc[w] = "login"
    /\ \/ /\ cmd[w].name \notin Store!Registered
          /\ Store!Refuse(w, "LOGIN_AUTH_FAIL")
          /\ Goto(w, "reply")
       \/ /\ cmd[w].name \in Store!Online
          /\ Store!Refuse(w, "LOGIN_EXIST")
          /\ Goto(w, "reply")
       \/ /\ cmd[w].name \in Store!Registered \ Store!Online
          /\ UNCHANGED accounts
          /\ Goto(w, "login_update")
    /\ UNCHANGED <<Calls, username>>

\* The balance it writes back is the one it has read and that is still there
\* (ReadsStayCurrent).
LoginUpdate(w) ==
    /\ up /\ pc[w] = "login_update"
    /\ session' = [session EXCEPT ![cmd[w].name] = [addr |-> conn[w], private_port |-> "port"]]
    /\ UNCHANGED balance
    /\ Store!Answer(w, "LOGIN_SUCCESS")
    /\ username' = [username EXCEPT ![w] = cmd[w].name]
    /\ Goto(w, "push")
    /\ UNCHANGED Calls

Register(w) == RegisterCheck(w) \/ RegisterReplace(w)

Login(w) == LoginCheck(w) \/ LoginUpdate(w)

\* Mutant: the session is not entered in client_fds.
PushForgotten(w) ==
    /\ up /\ pc[w] = "push"
    /\ Goto(w, "compose")
    /\ UNCHANGED <<accounts, Calls, username>>

PushBack(w) ==
    /\ up /\ pc[w] = "push"
    /\ fds' = Append(fds, [name |-> username[w], frame |-> w])
    /\ Goto(w, "compose")
    /\ UNCHANGED <<accounts, up, line, conn, username, cmd, at, target, clients,
                   wire, back>>

\* Mutant: who is not logged in gets no answer.
ListSilent(w) ==
    /\ up /\ pc[w] = "list"
    /\ Goto(w, IF username[w] = NoUser THEN "receive" ELSE "compose")
    /\ UNCHANGED <<accounts, Calls, username>>

List(w) ==
    /\ up /\ pc[w] = "list"
    /\ Goto(w, IF Store!Online = {} \/ username[w] = NoUser THEN "reply" ELSE "compose")
    /\ UNCHANGED <<accounts, Calls, username>>

Transfer(w) ==
    /\ up /\ pc[w] = "transfer"
    /\ Store!Transfer(w, cmd[w].payer, cmd[w].payee, cmd[w].amount)
    /\ Goto(w, "sender")
    /\ UNCHANGED <<Calls, username>>

\* Mutant: EXIT says goodbye and does not log out.
LogoutForgotten(w) ==
    /\ up /\ pc[w] \in {"logout", "drop"}
    /\ Store!Refuse(w, "LOGOUT_SUCCESS")
    /\ Goto(w, IF pc[w] = "logout" THEN "reply" ELSE "count")
    /\ UNCHANGED <<Calls, username>>

Logout(w) ==
    /\ up /\ pc[w] \in {"logout", "drop"}
    /\ Store!Logout(w, conn[w])
    /\ Goto(w, IF pc[w] = "logout" THEN "reply" ELSE "count")
    /\ UNCHANGED <<Calls, username>>

\* user_info, user_num and user_list_info, whose results go into the answer.
Read(w) ==
    /\ up
    /\ \/ pc[w] = "compose" /\ Goto(w, "reply")
       \/ pc[w] = "sender" /\ Goto(w, "search")
       \/ pc[w] = "count" /\ Goto(w, "find")
    /\ UNCHANGED <<accounts, Calls, username>>

(***************************************************************************)
(* The loops over client_fds, one turn a step.                             *)
(***************************************************************************)
Seek(w, name, found, missed) ==
    \/ /\ at[w] > Len(fds)
       /\ Goto(w, missed)
       /\ UNCHANGED <<at, target>>
    \/ /\ at[w] <= Len(fds) /\ fds[at[w]].name # name
       /\ at' = [at EXCEPT ![w] = @ + 1]
       /\ UNCHANGED <<pc, target>>
    \/ /\ at[w] <= Len(fds) /\ fds[at[w]].name = name
       /\ target' = [target EXCEPT ![w] = {fds[at[w]].frame}]
       /\ Goto(w, found)
       /\ UNCHANGED at

Loops == <<accounts, up, line, conn, username, cmd, fds, clients, wire, back>>

Search(w) ==
    /\ up /\ pc[w] = "search"
    /\ Seek(w, cmd[w].payer, "result", "result")
    /\ UNCHANGED Loops

Find(w) ==
    /\ up /\ pc[w] = "find"
    /\ Seek(w, username[w], "erase", "close")
    /\ UNCHANGED Loops

\* Mutant: erase(begin()), without the index.
EraseFirst(w) ==
    /\ up /\ pc[w] = "erase"
    /\ fds' = Tail(fds)
    /\ Goto(w, "close")
    /\ UNCHANGED <<accounts, up, line, conn, username, cmd, at, target, clients, wire,
                   back>>

\* Erasing past the end of the vector is undefined.
Erase(w) ==
    /\ up /\ pc[w] = "erase"
    /\ \/ at[w] <= Len(fds) /\ fds' = RemoveAt(fds, at[w]) /\ UNCHANGED up
       \/ at[w] > Len(fds) /\ UNCHANGED <<fds, up>>
       \/ at[w] > Len(fds) /\ up' = FALSE /\ UNCHANGED fds
    /\ Goto(w, "close")
    /\ UNCHANGED <<accounts, line, conn, username, cmd, at, target, clients, wire, back>>

(***************************************************************************)
(* Answers.  send waits while the client's socket is full.                 *)
(***************************************************************************)
\* Mutant: the answer to a duplicate login is that to a login.
AnswerUnchecked(w) ==
    [of |-> cmd[w], code |-> IF status[w] = "LOGIN_EXIST" THEN "LOGIN_SUCCESS" ELSE status[w]]

Answer(w) == [of |-> cmd[w], code |-> status[w]]

Room(c) == Len(back[c]) < SocketBuffer

Deliver(c, r) ==
    back' = IF Connected(c) THEN [back EXCEPT ![c] = Append(@, r)] ELSE back

\* The locals of a turn of the loop of process_request end with it.
Answered(w) ==
    /\ Store!Ask(w)
    /\ at' = [at EXCEPT ![w] = 1]
    /\ target' = [target EXCEPT ![w] = {}]
    /\ UNCHANGED <<line, conn, username, cmd, fds, clients, wire>>

Reply(w) ==
    /\ up /\ pc[w] = "reply" /\ Room(conn[w])
    /\ Deliver(conn[w], Answer(w))
    /\ Goto(w, IF cmd[w].kind = "EXIT" THEN "count" ELSE "receive")
    /\ Answered(w)
    /\ UNCHANGED up

\* The result of a payment goes where sender_fd points to.  It points nowhere
\* if no entry was found, and to a dead variable if the worker it belongs to
\* has left process_request: then it is sent to any connection or to none, or
\* the server crashes.
Live(w) == {v \in target[w] : pc[v] # "idle"}

\* Mutant: the result goes to the client that reported the payment.
ResultToPayee(w) ==
    /\ up /\ pc[w] = "result" /\ Room(conn[w])
    /\ Deliver(conn[w], Answer(w))
    /\ Goto(w, "receive")
    /\ Answered(w)
    /\ UNCHANGED up

Result(w) ==
    /\ up /\ pc[w] = "result"
    /\ \/ \E v \in Live(w) : Room(conn[v]) /\ Deliver(conn[v], Answer(w)) /\ UNCHANGED up
       \/ /\ Live(w) = {}
          /\ \/ \E c \in Conns : Room(c) /\ Deliver(c, Answer(w)) /\ UNCHANGED up
             \/ UNCHANGED <<back, up>>
             \/ up' = FALSE /\ UNCHANGED back
    /\ Goto(w, "receive")
    /\ Answered(w)

\* Mutant: the next session of the worker starts with the connection of this one.
EndedKeepsConn(w) ==
    /\ pc' = [pc EXCEPT ![w] = "idle"]
    /\ username' = [username EXCEPT ![w] = NoUser]
    /\ cmd' = [cmd EXCEPT ![w] = Plain("ERR")]
    /\ at' = [at EXCEPT ![w] = 1]
    /\ target' = [target EXCEPT ![w] = {}]
    /\ UNCHANGED <<up, line, conn, fds, clients, wire, back>>

Ended(w) ==
    /\ pc' = [pc EXCEPT ![w] = "idle"]
    /\ conn' = [conn EXCEPT ![w] = NoConn]
    /\ username' = [username EXCEPT ![w] = NoUser]
    /\ cmd' = [cmd EXCEPT ![w] = Plain("ERR")]
    /\ at' = [at EXCEPT ![w] = 1]
    /\ target' = [target EXCEPT ![w] = {}]
    /\ UNCHANGED <<up, line, fds, clients, wire, back>>

Close(w) ==
    /\ up /\ pc[w] = "close"
    /\ Ended(w)
    /\ Store!Ask(w)

(***************************************************************************)
(* A statement finds the database locked by another worker's: the          *)
(* exception ends process_request with the connection open and the user    *)
(* logged in.  A transfer may have debited the payer already.              *)
(***************************************************************************)
InDatabase(w) ==
    pc[w] \in {"register", "register_replace", "login", "login_update", "list", "transfer",
               "logout", "drop", "compose", "sender", "count"}

Debtors(w) ==
    {u \in Store!Online :
        /\ pc[w] = "transfer" /\ u = cmd[w].payer
        /\ cmd[w].payee \in Store!Online \ {u}
        /\ cmd[w].amount > 0 /\ balance[u] >= cmd[w].amount}

Busy(w) ==
    /\ "busy" \in Faults
    /\ up /\ InDatabase(w)
    /\ \E v \in Workers \ {w} : InDatabase(v)
    /\ Store!Answer(w, "SQLITE_BUSY")
    /\ balance' \in {balance} \cup
                    {[balance EXCEPT ![u] = @ - cmd[w].amount] : u \in Debtors(w)}
    /\ UNCHANGED session
    /\ Ended(w)

-----------------------------------------------------------------------------

ClientStep(c) ==
    \/ Connect(c) \/ Report(c) \/ Leave(c) \/ Take(c) \/ Depart(c)
    \/ \E k \in Commands : Ask(c, k) \/ \E d \in Conns : Pay(c, d, k)

Work(w) ==
    \/ Begin(w) \/ Receive(w) \/ Hangup(w)
    \/ Register(w) \/ Login(w) \/ PushBack(w) \/ List(w) \/ Transfer(w) \/ Logout(w)
    \/ Read(w) \/ Search(w) \/ Find(w) \/ Erase(w)
    \/ Reply(w) \/ Result(w) \/ Close(w)

Next ==
    \/ \E c \in Conns : ClientStep(c)
    \/ \E w \in Workers : Work(w) \/ Busy(w)

(***************************************************************************)
(* The condition of IsolatedStore: the users whose rows a call reads or    *)
(* writes, from the command's arrival to its last statement.  The code     *)
(* does not see to it; it holds with one pool thread, and as long as no    *)
(* two clients' commands about one user arrive at the same moment.  (Each  *)
(* worker has a connection of its own.)                                    *)
(***************************************************************************)
Touched(w) ==
    {u \in Users :
        \/ /\ pc[w] \in {"register", "register_replace", "login", "login_update"}
           /\ u = cmd[w].name
        \/ pc[w] = "transfer" /\ u \in {cmd[w].payer, cmd[w].payee}
        \/ pc[w] \in {"logout", "drop"} /\ u \in Store!At(conn[w])}

Isolated == \A v, w \in Workers : v # w => Touched(v) \cap Touched(w) = {}

Spec == Init /\ [][Next /\ Isolated']_vars

-----------------------------------------------------------------------------

Places == {"idle", "receive", "register", "register_replace", "login", "login_update",
           "push", "list", "transfer", "logout", "drop", "compose", "sender", "count",
           "search", "find", "erase", "reply", "result", "close"}

\* The types; who serves a connection, who is logged in and who waits for what.
TypeOK ==
    /\ DOMAIN balance = DOMAIN session /\ DOMAIN balance \subseteq Users
    /\ \A u \in Store!Registered : balance[u] \in Nat
    /\ \A u \in Store!Online : session[u].addr \in Conns
    /\ up \in BOOLEAN
    /\ line \in Seq(Conns)
    /\ pc \in [Workers -> Places]
    /\ conn \in [Workers -> Conns \cup {NoConn}]
    /\ \A w \in Workers : conn[w] = NoConn <=> pc[w] = "idle"
    /\ username \in [Workers -> Users \cup {NoUser}]
    /\ cmd \in [Workers -> Commands]
    /\ fds \in Seq([name : Users, frame : Workers])
    /\ at \in [Workers -> Nat \ {0}]
    /\ target \in [Workers -> SUBSET Workers]
    /\ mode \in [Conns -> {"away", "line", "free", "asked", "leaving"}]
    /\ asked \in [Conns -> Commands]
    /\ me \in [Conns -> SUBSET Users]
    /\ wire \in [Conns -> Seq(Commands)]
    /\ mail \in [Conns -> Seq(Commands)]

\* The session is over, only the entry in client_fds is left to be erased.
Leaving(w) ==
    \/ pc[w] \in {"count", "find", "erase", "close"}
    \/ pc[w] = "reply" /\ cmd[w].kind = "EXIT"

(***************************************************************************)
(* client_fds is right only while sessions do not end at the same time as  *)
(* each other or as a payment's result is sent.  OrderlySpec is the server *)
(* without that race, and with Isolated.  The code sees to neither.  Its   *)
(* workers and its clients' reading and reporting threads go on; what      *)
(* users do is up to them.                                                 *)
(***************************************************************************)
Routing(w) == pc[w] \in {"search", "result"}

Undisturbed ==
    \A v, w \in Workers : v # w /\ Leaving(v) => ~Leaving(w) /\ ~Routing(w)

OrderlySpec == Init /\ [][Next /\ Isolated' /\ Undisturbed']_vars

FairSpec ==
    /\ OrderlySpec
    /\ \A w \in Workers : SF_vars(Work(w) /\ Isolated' /\ Undisturbed')
    /\ \A c \in Conns : WF_vars(Take(c)) /\ WF_vars(Report(c))

-----------------------------------------------------------------------------

InSession(w) == pc[w] # "idle" /\ username[w] # NoUser /\ ~Leaving(w)

(***************************************************************************)
(* All these hold under Isolated only: two logins of one user at the same  *)
(* moment both succeed (Database.cpp:126-141), after which client_fds has  *)
(* two entries with his name, the first of which gets his results and is   *)
(* erased first, and the table has the address of the second.  Those below *)
(* the first are about OrderlySpec.                                        *)
(***************************************************************************)
\* However connections break, calls fail and clients stop waiting, as long as
\* calls in progress at once concern different users: no two connections are
\* logged in as one user (Database.cpp:126-146, server.cpp:373-379).
OneSessionPerUser ==
    \A v, w \in Workers :
        v # w /\ InSession(v) /\ InSession(w) => username[v] # username[w]

\* When sessions end one at a time, a session has its entry in client_fds for as
\* long as it lasts: the erase at the end of another session does not hit it
\* (server.cpp:330-334, 440-444).
SessionHasEntry ==
    \A w \in Workers : InSession(w) /\ pc[w] # "push" =>
        \E i \in DOMAIN fds : fds[i] = [name |-> username[w], frame |-> w]

\* A client gets one answer to what it asked and no other message: the result
\* of a payment, which the payee's session sends, reaches the payer and never
\* comes between another client's question and its answer (server.cpp:421-431).
AnswersFit ==
    \A c \in Conns : back[c] # << >> =>
        /\ mode[c] \in {"asked", "leaving"}
        /\ Len(back[c]) = 1
        /\ Head(back[c]).of = asked[c]

\* Whoever is online has a connection that is being served: a session that
\* ends logs its user out (server.cpp:327, 435).
NobodyLeftOnline ==
    \A u \in Store!Online : \E w \in Workers : conn[w] = session[u].addr

\* A client that believes it is logged in is, at its own address.
LoginsAreTrue ==
    \A c \in Conns : mode[c] # "leaving" =>
        \A u \in me[c] : u \in Store!Online /\ session[u].addr = c

\* Every command is answered, and every payment unless the client it was handed
\* to leaves before it has reported it.
CommandsAnswered ==
    \A c \in Conns :
        mode[c] = "asked" /\ asked[c].kind # "TRANSACTION" ~> mode[c] = "free"

Stays(d) == mode[d] \notin {"leaving", "away"}

PaymentsAnswered ==
    \A c, d \in Conns :
        mode[c] = "asked" /\ Stays(d) /\ Contains(mail[d], asked[c])
            ~> mode[c] # "asked" \/ ~Stays(d)

=============================================================================
