------------------------------- MODULE Client -------------------------------
(***************************************************************************)
(* The client (client.cpp): its menu, its list of peers, the port on which *)
(* its receive thread accepts payments, and the payment from one client to *)
(* another and on to the server.                                           *)
(*                                                                         *)
(* The server's answers are indivisible here but for the list: user_num    *)
(* and user_list_info read the table one after the other (server.cpp:399,  *)
(* 402).  How the server's workers interleave is in module Server, what    *)
(* becomes of the money in AccountStore.                                   *)
(***************************************************************************)
EXTENDS Naturals, FiniteSets

CONSTANTS
    Clients, Users, Ports,
    NoUser, NoPort,
    MaxInbox        \* bound on the payments a client has not reported yet

ASSUME ClientAssumption ==
    /\ IsFiniteSet(Users)
    /\ NoUser \notin Users
    /\ NoPort \notin Ports
    /\ MaxInbox \in Nat

Peer == [user : Users, port : Ports]
Payment == [payer : Users, payee : Users, from : Clients]

VARIABLES
    registered,     \* table CLIENT: who has a row,
    online,         \* who is logged in, over which connection, at which port
    user,           \* username of process_request, for each connection
    mode,           \* where the menu thread is
    then,           \* what it does when it has the list
    name,           \* the user it takes itself for
    open,           \* client_server_open
    login_port,
    listening,      \* the port its socket is bound to
    announced,      \* the number of users in the answer that is being made
    peers,          \* peer_list
    inbox           \* payments its receive thread has got and not yet reported

server == <<registered, online, user>>
vars == <<server, mode, then, name, open, login_port, listening, announced, peers, inbox>>

Row == [user : Users, client : Clients, port : Ports]

Init ==
    /\ registered = {}
    /\ online = {}
    /\ user = [c \in Clients |-> NoUser]
    /\ mode = [c \in Clients |-> "gone"]
    /\ then = [c \in Clients |-> "menu"]
    /\ name = [c \in Clients |-> NoUser]
    /\ open = [c \in Clients |-> FALSE]
    /\ login_port = [c \in Clients |-> NoPort]
    /\ listening = [c \in Clients |-> NoPort]
    /\ announced = [c \in Clients |-> 0]
    /\ peers = [c \in Clients |-> {}]
    /\ inbox = [c \in Clients |-> {}]

Running(c) == mode[c] \notin {"gone", "broken"}

At(c, m) == mode' = [mode EXCEPT ![c] = m]

-----------------------------------------------------------------------------
(***************************************************************************)
(* Start, REGISTER and LOGIN.                                              *)
(***************************************************************************)
Start(c) ==
    /\ mode[c] = "gone"
    /\ At(c, "menu")
    /\ UNCHANGED <<server, then, name, open, login_port, listening, announced, peers, inbox>>

\* A client that is logged in keeps its name.
Register(c, u) ==
    /\ mode[c] = "menu"
    /\ registered' = registered \cup {u}
    /\ name' = IF open[c] THEN name ELSE [name EXCEPT ![c] = u]
    /\ UNCHANGED <<online, user, mode, then, open, login_port, listening, announced, peers,
                   inbox>>

Free(p) == \A d \in Clients : listening[d] # p

\* Mutant: a user who is online is not refused.
LoginTwice(c, u, p) ==
    /\ mode[c] = "menu" /\ ~open[c]
    /\ name' = [name EXCEPT ![c] = u]
    /\ login_port' = [login_port EXCEPT ![c] = p]
    /\ Free(p) /\ u \in registered
    /\ online' = online \cup {[user |-> u, client |-> c, port |-> p]}
    /\ user' = [user EXCEPT ![c] = u]
    /\ At(c, "bind")
    /\ UNCHANGED <<registered, then, open, listening, announced, peers, inbox>>

\* The port is tried first.  The name is taken over whatever the answer is.
Login(c, u, p) ==
    /\ mode[c] = "menu" /\ ~open[c]
    /\ name' = [name EXCEPT ![c] = u]
    /\ login_port' = [login_port EXCEPT ![c] = p]
    /\ \/ /\ Free(p) /\ u \in registered /\ \A r \in online : r.user # u
          /\ online' = online \cup {[user |-> u, client |-> c, port |-> p]}
          /\ user' = [user EXCEPT ![c] = u]
          /\ At(c, "bind")
       \/ /\ ~Free(p) \/ u \notin registered \/ \E r \in online : r.user = u
          /\ UNCHANGED <<online, user, mode>>
    /\ UNCHANGED <<registered, then, open, listening, announced, peers, inbox>>

\* Mutant: that the port cannot be bound is only printed.
BindAnyway(c) ==
    /\ mode[c] = "bind"
    /\ open' = [open EXCEPT ![c] = TRUE]
    /\ listening' = IF Free(login_port[c]) THEN [listening EXCEPT ![c] = login_port[c]]
                    ELSE listening
    /\ At(c, "list")
    /\ then' = [then EXCEPT ![c] = "menu"]
    /\ UNCHANGED <<server, name, login_port, announced, peers, inbox>>

\* The keys are made before the port is bound for good: another client may have
\* bound it since, and then this one is logged in at the server only.
Bind(c) ==
    /\ mode[c] = "bind"
    /\ \/ /\ Free(login_port[c])
          /\ listening' = [listening EXCEPT ![c] = login_port[c]]
          /\ open' = [open EXCEPT ![c] = TRUE]
          /\ At(c, "list")
          /\ then' = [then EXCEPT ![c] = "menu"]
       \/ /\ ~Free(login_port[c])
          /\ At(c, "menu")
          /\ UNCHANGED <<listening, open, then>>
    /\ UNCHANGED <<server, name, login_port, announced, peers, inbox>>

-----------------------------------------------------------------------------
(***************************************************************************)
(* LIST, and TRANSACTION as far as its list.                               *)
(***************************************************************************)
Want(c, t) ==
    /\ mode[c] = "menu"
    /\ At(c, "list")
    /\ then' = [then EXCEPT ![c] = t]
    /\ UNCHANGED <<server, name, open, login_port, listening, announced, peers, inbox>>

\* user_num.  Who is not logged in is told so and keeps the list there is.
Announce(c) ==
    /\ mode[c] = "list"
    /\ \/ /\ online # {} /\ user[c] # NoUser
          /\ announced' = [announced EXCEPT ![c] = Cardinality(online)]
          /\ At(c, "lines")
       \/ /\ online = {} \/ user[c] = NoUser
          /\ At(c, then[c])
          /\ UNCHANGED announced
    /\ UNCHANGED <<server, then, name, open, login_port, listening, peers, inbox>>

Listed == {[user |-> r.user, port |-> r.port] : r \in online}

\* user_list_info, and parse_list_info, which reads as many lines as announced,
\* also if there are less.
Parse(c) ==
    /\ mode[c] = "lines"
    /\ \/ \E lines \in SUBSET Listed :
             /\ Cardinality(lines) = announced[c]
             /\ peers' = [peers EXCEPT ![c] = lines]
             /\ At(c, then[c])
       \/ /\ Cardinality(Listed) < announced[c]
          /\ At(c, "broken")
          /\ UNCHANGED peers
    /\ announced' = [announced EXCEPT ![c] = 0]
    /\ UNCHANGED <<server, then, name, open, login_port, listening, inbox>>

-----------------------------------------------------------------------------
(***************************************************************************)
(* TRANSACTION.                                                            *)
(***************************************************************************)
\* The payee is looked up in the list.  Whoever listens on its port by now gets
\* the payment; if nobody does, there is no key to encrypt it with, and the
\* client ends.
Pay(c, u) ==
    /\ mode[c] = "choose"
    /\ \/ \E p \in peers[c] :
             /\ p.user = u
             /\ \/ \E d \in Clients :
                      /\ listening[d] = p.port
                      /\ Cardinality(inbox[d]) < MaxInbox
                      /\ inbox' = [inbox EXCEPT ![d] =
                            @ \cup {[payer |-> name[c], payee |-> u, from |-> c]}]
                      /\ At(c, "wait")
                \/ /\ Free(p.port)
                   /\ At(c, "broken")
                   /\ UNCHANGED inbox
       \/ /\ \A p \in peers[c] : p.user # u
          /\ At(c, "menu")
          /\ UNCHANGED inbox
    /\ UNCHANGED <<server, then, name, open, login_port, listening, announced, peers>>

\* The client at the other end of the payer's connection takes the result for
\* the answer it waits for.
Answered(u) ==
    LET to == {r.client : r \in {s \in online : s.user = u}}
    IN  /\ mode' = [d \in Clients |->
                       IF d \in to /\ mode[d] = "wait" THEN "list" ELSE mode[d]]
        /\ then' = [d \in Clients |->
                       IF d \in to /\ mode[d] = "wait" THEN "menu" ELSE then[d]]

\* Mutant: the payee's client is told the result.
ReportToPayee(d) ==
    \E x \in inbox[d] :
        /\ Running(d)
        /\ inbox' = [inbox EXCEPT ![d] = @ \ {x}]
        /\ Answered(x.payee)
        /\ UNCHANGED <<server, name, open, login_port, listening, announced, peers>>

\* The receive thread hands the payment to the server, which tells the payer.
Report(d) ==
    \E x \in inbox[d] :
        /\ Running(d)
        /\ inbox' = [inbox EXCEPT ![d] = @ \ {x}]
        /\ Answered(x.payer)
        /\ UNCHANGED <<server, name, open, login_port, listening, announced, peers>>

-----------------------------------------------------------------------------
(***************************************************************************)
(* The end.                                                                *)
(***************************************************************************)
\* user_logout goes by the address and wants exactly one row there.
Logout(c) ==
    online' = IF Cardinality({r \in online : r.client = c}) = 1
              THEN {r \in online : r.client # c} ELSE online

Gone(c) ==
    /\ At(c, "gone")
    /\ then' = [then EXCEPT ![c] = "menu"]
    /\ name' = [name EXCEPT ![c] = NoUser]
    /\ open' = [open EXCEPT ![c] = FALSE]
    /\ login_port' = [login_port EXCEPT ![c] = NoPort]
    /\ listening' = [listening EXCEPT ![c] = NoPort]
    /\ announced' = [announced EXCEPT ![c] = 0]
    /\ peers' = [peers EXCEPT ![c] = {}]
    /\ inbox' = [inbox EXCEPT ![c] = {}]

\* Exit from the menu, SIGINT anywhere, or the end of a client that broke.
Leave(c) ==
    /\ mode[c] # "gone"
    /\ Logout(c)
    /\ user' = [user EXCEPT ![c] = NoUser]
    /\ Gone(c)
    /\ UNCHANGED registered

ClientNext(c) ==
    \/ Start(c)
    \/ \E u \in Users : Register(c, u) \/ Pay(c, u)
    \/ \E u \in Users, p \in Ports : Login(c, u, p)
    \/ \E t \in {"menu", "choose"} : Want(c, t)
    \/ Bind(c) \/ Announce(c) \/ Parse(c) \/ Report(c) \/ Leave(c)

Next == \E c \in Clients : ClientNext(c)

Spec == Init /\ [][Next]_vars

\* A receive thread that has got a payment hands it on.
FairSpec == Spec /\ \A c \in Clients : WF_vars(Report(c))

-----------------------------------------------------------------------------

ClientTypeOK ==
    /\ registered \subseteq Users
    /\ online \subseteq Row
    /\ \A r, s \in online : r.user = s.user => r = s
    /\ user \in [Clients -> Users \cup {NoUser}]
    /\ mode \in [Clients -> {"gone", "menu", "bind", "list", "lines", "choose", "wait",
                             "broken"}]
    /\ then \in [Clients -> {"menu", "choose"}]
    /\ name \in [Clients -> Users \cup {NoUser}]
    /\ open \in [Clients -> BOOLEAN]
    /\ login_port \in [Clients -> Ports \cup {NoPort}]
    /\ listening \in [Clients -> Ports \cup {NoPort}]
    /\ announced \in [Clients -> 0 .. Cardinality(Users)]
    /\ peers \in [Clients -> SUBSET Peer]
    /\ inbox \in [Clients -> SUBSET Payment]

\* A client with an open receive thread is who it takes itself for, and the server
\* lists that user at the port where this client listens: other clients' ports,
\* failed logins and lost races for a port do not change that
\* (client.cpp:192-246, 480-483).
OpenIsTrue ==
    \A c \in Clients : open[c] =>
        /\ [user |-> name[c], client |-> c, port |-> listening[c]] \in online
        /\ user[c] = name[c]

\* An open client that has paid gets a result, unless the client that holds its
\* payment leaves before it has reported it.
PayersAnswered ==
    \A c, d \in Clients :
        (open[c] /\ mode[c] = "wait" /\ \E x \in inbox[d] : x.from = c)
            ~> (mode[c] # "wait" \/ ~Running(d))

=============================================================================
