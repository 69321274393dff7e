-------------------------------- MODULE Bank --------------------------------
(***************************************************************************)
(* What the account database promises the server: register, login, logout, *)
(* transfer and list as single indivisible operations on the balances and  *)
(* the sessions of the users.  A teller (a thread of the server's pool)    *)
(* asks, and is answered in one step that also changes the accounts.       *)
(*                                                                         *)
(* A call may also fail because the database was busy: it then did nothing *)
(* or, if it was a transfer, debited the sender and did not credit anyone. *)
(***************************************************************************)
EXTENDS Integers, FiniteSets

CONSTANTS
    Users, Tellers, Addrs, Ports, Amounts, Scale, InitialBalance,
    NoSession,        \* the session of a user who is not logged in
    OpeningBalance,   \* what the users of the kept database own
    OpeningSession

VARIABLES
    balance,          \* what each registered user owns
    session,          \* where each registered user is logged in
    reply             \* the answer to each teller; "none" while it is pending

vars == <<balance, session, reply>>

Registered == DOMAIN balance

Online == {u \in Registered : session[u] # NoSession}

At(a) == {u \in Online : session[u].addr = a}

-----------------------------------------------------------------------------

Init ==
    /\ balance = OpeningBalance
    /\ session = OpeningSession
    /\ reply = [t \in Tellers |-> "none"]

Ask(t) ==
    /\ reply' = [reply EXCEPT ![t] = "none"]
    /\ UNCHANGED <<balance, session>>

Answer(t, code) == reply' = [reply EXCEPT ![t] = code]

Refuse(t, code) == Answer(t, code) /\ UNCHANGED <<balance, session>>

Register(t, u) ==
    \/ /\ u \in Registered
       /\ Refuse(t, "REGISTER_FAIL")
    \/ /\ u \notin Registered
       /\ balance' = [v \in Registered \cup {u} |->
                        IF v = u THEN InitialBalance ELSE balance[v]]
       /\ session' = [v \in Registered \cup {u} |->
                        IF v = u THEN NoSession ELSE session[v]]
       /\ Answer(t, "REGISTER_OK")

Login(t, u, a, p) ==
    \/ /\ u \notin Registered
       /\ Refuse(t, "LOGIN_AUTH_FAIL")
    \/ /\ u \in Online
       /\ Refuse(t, "LOGIN_EXIST")
    \/ /\ u \in Registered \ Online
       /\ session' = [session EXCEPT ![u] = [addr |-> a, private_port |-> p]]
       /\ UNCHANGED balance
       /\ Answer(t, "LOGIN_SUCCESS")

\* The session is named by its address: it can be ended only while it is the
\* only one there.
Logout(t, a) ==
    \/ /\ \A u \in At(a) : At(a) # {u}
       /\ Refuse(t, "LOGOUT_FAIL")
    \/ \E u \in At(a) :
          /\ At(a) = {u}
          /\ session' = [session EXCEPT ![u] = NoSession]
          /\ UNCHANGED balance
          /\ Answer(t, "LOGOUT_SUCCESS")

Less(s, x) == (balance[s] * Scale - x) \div Scale

More(r, x) == (balance[r] * Scale + x) \div Scale

Transfer(t, s, r, x) ==
    \/ /\ s = r
       /\ Refuse(t, "TRANSFER_SELF_FAIL")
    \/ /\ s # r
       /\ x <= 0 \/ s \notin Online \/ r \notin Online
       /\ Refuse(t, "TRANSFER_FAIL")
    \/ /\ s # r /\ x > 0 /\ {s, r} \subseteq Online
       /\ balance[s] * Scale < x
       /\ Refuse(t, "TRANSFER_SENDER_BANKRUPT")
    \/ /\ s # r /\ x > 0 /\ {s, r} \subseteq Online
       /\ balance[s] * Scale >= x
       /\ balance' = [balance EXCEPT ![s] = Less(s, x), ![r] = More(r, x)]
       /\ UNCHANGED session
       /\ Answer(t, "TRANSFER_OK")

List(t) == Refuse(t, "rows")

\* The call was cut short: nothing was done, or half of a transfer.
Fail(t) ==
    \/ Refuse(t, "SQLITE_BUSY")
    \/ \E s \in Online, x \in Amounts :
          /\ x > 0
          /\ balance[s] * Scale >= x
          /\ balance' = [balance EXCEPT ![s] = Less(s, x)]
          /\ UNCHANGED session
          /\ Answer(t, "SQLITE_BUSY")

Next ==
    \E t \in Tellers :
        \/ Ask(t)
        \/ \E u \in Users : Register(t, u)
        \/ \E u \in Users, a \in Addrs, p \in Ports : Login(t, u, a, p)
        \/ \E a \in Addrs : Logout(t, a)
        \/ \E s, r \in Users, x \in Amounts : Transfer(t, s, r, x)
        \/ List(t)
        \/ Fail(t)

Spec == Init /\ [][Next]_vars

=============================================================================
