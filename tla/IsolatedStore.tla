---------------------------- MODULE IsolatedStore ----------------------------
(***************************************************************************)
(* AccountStore as long as no two calls in progress concern the same user. *)
(* That is what the database needs from the server to be correct, and what *)
(* the server gives when it runs one pool thread (thread limit 1) or while *)
(* its users do not deal with each other at the same moment.  Under this   *)
(* condition, and whatever the interleaving and the SQLITE_BUSY failures,  *)
(* the table behaves as the Bank.                                          *)
(***************************************************************************)
EXTENDS AccountStore

InRegister(w) == pc[w] \in {"register_check", "register_replace"}
InLogin(w) == pc[w] \in {"login_check", "login_online", "login_update"}
InLogout(w) == pc[w] \in {"logout_check", "logout_update"}
InTransfer(w) == pc[w] \in {"sender_check", "receiver_check", "debit", "credit"}

\* The users whose rows a worker's call reads or writes.
Touched(w) ==
    {u \in Users :
        \/ (InRegister(w) \/ InLogin(w)) /\ u = req[w].username
        \/ InTransfer(w) /\ u \in {req[w].snd, req[w].rcv}
        \/ pc[w] = "logout_check" /\ \E r \in OnlineAt(req[w].addr) : r.username = u
        \/ pc[w] = "logout_update" /\ u = own[w].username}

\* The connection a call is made for; connections have different addresses.
Connection(w) == {a \in Addrs : (InLogin(w) \/ InLogout(w)) /\ a = req[w].addr}

Isolated ==
    \A v, w \in Workers : v # w =>
        /\ Touched(v) \cap Touched(w) = {}
        /\ Connection(v) \cap Connection(w) = {}

IsolatedSpec == Init /\ [][Next /\ Isolated']_vars

-----------------------------------------------------------------------------
(***************************************************************************)
(* The table as a bank sees it: a transfer happens when its credit is      *)
(* written, so between debit and credit the sender still owns the amount.  *)
(***************************************************************************)
RowOf(u, rows) == CHOOSE r \in rows : r.username = u

SessionIn(row) == [addr |-> row.addr, private_port |-> row.private_port]

NoSession == [addr |-> NoAddr, private_port |-> NoPort]

Debiting(u) == {w \in Workers : pc[w] = "credit" /\ req[w].snd = u}

Owned(u) ==
    IF Debiting(u) = {} THEN RowOf(u, clients).balance
    ELSE own[CHOOSE w \in Debiting(u) : TRUE].balance

Balances == [u \in Usernames |-> Owned(u)]

Sessions == [u \in Usernames |-> SessionIn(RowOf(u, clients))]

KeptNames == {r.username : r \in Kept}

B == INSTANCE Bank WITH
        Tellers <- Workers,
        OpeningBalance <- [u \in KeptNames |-> RowOf(u, Kept).balance],
        OpeningSession <- [u \in KeptNames |-> SessionIn(RowOf(u, Kept))],
        balance <- Balances,
        session <- Sessions

\* Calls that concern different users are each atomic, in the order of their
\* last statements: the accounts, the sessions and every reply code are those
\* of a bank that serves one call at a time.
ActsAsBank == B!Spec

=============================================================================
