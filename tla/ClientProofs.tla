---------------------------- MODULE ClientProofs ----------------------------
(***************************************************************************)
(* Proofs about Client, for any clients, finitely many users and any       *)
(* ports: a client with an open receive thread is logged in as whom it     *)
(* takes itself for, and listed at the port where it listens.              *)
(*                                                                         *)
(* A client opens when the answer to its login is a while old.  ClientInv  *)
(* therefore says the same of a client that has been logged in and has yet *)
(* to bind its port (BindIsLogged).  Both survive the other clients        *)
(* because a logout takes away rows of its own connection only, and        *)
(* because a client that is open or about to bind neither logs in again    *)
(* nor changes its name.  Nameless is for the types: a payment has a payer. *)
(***************************************************************************)
EXTENDS Client, FiniteSetTheorems, TLAPS

\* The session of a client that has yet to bind its port.
BindIsLogged ==
    \A c \in Clients : mode[c] = "bind" =>
        /\ ~open[c]
        /\ [user |-> name[c], client |-> c, port |-> login_port[c]] \in online
        /\ user[c] = name[c]

\* A client that has no name yet has no session and has been listed no peers.
Nameless ==
    \A c \in Clients : name[c] = NoUser =>
        user[c] = NoUser /\ peers[c] = {} /\ mode[c] # "lines"

ClientInv == ClientTypeOK /\ BindIsLogged /\ Nameless /\ OpenIsTrue

-----------------------------------------------------------------------------
\* Nobody is online twice, so as many lines fit the table as there are users.
LEMMA OnlineFits ==
    ASSUME ClientTypeOK
    PROVE  Cardinality(online) \in 0 .. Cardinality(Users)
<1> DEFINE f == [r \in online |-> r.user]
<1>1. f \in Injection(online, Users)
  BY DEF ClientTypeOK, Row, Injection, IsInjective
<1>2. IsFiniteSet(online) /\ Cardinality(online) <= Cardinality(Users)
  BY <1>1, FS_Injection, ClientAssumption
<1>3. Cardinality(online) \in Nat /\ Cardinality(Users) \in Nat
  BY <1>2, FS_CardinalityType, ClientAssumption
<1> QED
  BY <1>2, <1>3

LEMMA ClientInitEstablishes == Init => ClientInv
<1>1. IsFiniteSet({}) /\ 0 \in 0 .. Cardinality(Users)
  BY FS_CardinalityType, FS_EmptySet, ClientAssumption
<1> QED
  BY <1>1 DEF Init, ClientInv, ClientTypeOK, BindIsLogged, Nameless, OpenIsTrue

\* A step that changes nothing the session is made of: not the users online, not
\* who has which connection, not the names and ports of the clients.
LEMMA SessionsRest ==
    ASSUME ClientInv, ClientTypeOK', Nameless',
           UNCHANGED <<online, user, name, login_port, open, listening>>,
           \A c \in Clients : mode'[c] = "bind" => mode[c] = "bind"
    PROVE  ClientInv'
BY DEF ClientInv, BindIsLogged, OpenIsTrue

LEMMA MenuKeeps ==
    ASSUME ClientInv, NEW c \in Clients,
           \/ Start(c)
           \/ \E u \in Users : Register(c, u)
           \/ \E t \in {"menu", "choose"} : Want(c, t)
    PROVE  ClientInv'
<1>1. ClientTypeOK'
  BY DEF ClientInv, ClientTypeOK, Start, Register, Want, At, server
<1>2. Nameless'
  BY ClientAssumption
  DEF ClientInv, ClientTypeOK, Nameless, Start, Register, Want, At, server
<1>3. CASE Start(c) \/ \E t \in {"menu", "choose"} : Want(c, t)
  BY <1>1, <1>2, <1>3, SessionsRest DEF ClientInv, ClientTypeOK, Start, Want, At, server
<1>4. CASE \E u \in Users : Register(c, u)
  BY <1>1, <1>2, <1>4 DEF ClientInv, ClientTypeOK, Register, BindIsLogged, OpenIsTrue
<1> QED
  BY <1>3, <1>4

LEMMA LoginKeepsSessions ==
    ASSUME ClientInv, NEW c \in Clients, NEW u \in Users, NEW p \in Ports, Login(c, u, p)
    PROVE  ClientInv'
<1>1. CASE /\ online' = online \cup {[user |-> u, client |-> c, port |-> p]}
           /\ user' = [user EXCEPT ![c] = u]
           /\ At(c, "bind")
           /\ \A r \in online : r.user # u
  <2>1. [user |-> u, client |-> c, port |-> p] \in Row
    BY DEF Row
  <2>2. ClientTypeOK'
    BY <1>1, <2>1 DEF ClientInv, ClientTypeOK, Login, At
  <2>3. BindIsLogged' /\ OpenIsTrue'
    BY <1>1 DEF ClientInv, ClientTypeOK, Login, At, BindIsLogged, OpenIsTrue
  <2>4. Nameless'
    BY <1>1, ClientAssumption DEF ClientInv, ClientTypeOK, Login, At, Nameless
  <2> QED
    BY <2>2, <2>3, <2>4 DEF ClientInv
<1>2. CASE UNCHANGED <<online, user, mode>>
  <2>1. ClientTypeOK'
    BY <1>2 DEF ClientInv, ClientTypeOK, Login
  <2>2. BindIsLogged' /\ OpenIsTrue'
    BY <1>2 DEF ClientInv, ClientTypeOK, Login, BindIsLogged, OpenIsTrue
  <2>3. Nameless'
    BY <1>2, ClientAssumption DEF ClientInv, ClientTypeOK, Login, Nameless
  <2> QED
    BY <2>1, <2>2, <2>3 DEF ClientInv
<1> QED
  BY <1>1, <1>2 DEF Login

\* The port that is bound is the port that was tried and told to the server.
LEMMA BindKeeps ==
    ASSUME ClientInv, NEW c \in Clients, Bind(c)
    PROVE  ClientInv'
<1>1. ClientTypeOK'
  BY DEF ClientInv, ClientTypeOK, Bind, At, server
<1>2. BindIsLogged' /\ Nameless' /\ OpenIsTrue'
  BY DEF ClientInv, ClientTypeOK, Bind, At, server, BindIsLogged, Nameless, OpenIsTrue
<1> QED
  BY <1>1, <1>2 DEF ClientInv

LEMMA ListKeeps ==
    ASSUME ClientInv, NEW c \in Clients, Announce(c) \/ Parse(c)
    PROVE  ClientInv'
<1>1. Cardinality(online) \in 0 .. Cardinality(Users) /\ 0 \in 0 .. Cardinality(Users)
  <2>1. Cardinality(Users) \in Nat
    BY FS_CardinalityType, ClientAssumption
  <2>2. Cardinality(online) \in 0 .. Cardinality(Users)
    BY OnlineFits DEF ClientInv
  <2> QED
    BY <2>1, <2>2
<1>2. Listed \subseteq Peer
  BY DEF Listed, Peer, ClientInv, ClientTypeOK, Row
<1>3. /\ UNCHANGED <<registered, online, user, then, name, login_port, open, listening, inbox>>
      /\ \E m \in {"lines", "broken", "menu", "choose"} : At(c, m)
      /\ announced' = announced \/ \E n \in 0 .. Cardinality(Users) :
                                       announced' = [announced EXCEPT ![c] = n]
      /\ peers' = peers \/ \E lines \in SUBSET Peer : peers' = [peers EXCEPT ![c] = lines]
  BY <1>1, <1>2 DEF Announce, Parse, server, ClientInv, ClientTypeOK
<1>4. ClientTypeOK'
  BY <1>3 DEF ClientInv, ClientTypeOK, At
<1>5. Nameless'
  <2>1. name[c] = NoUser => ~Parse(c) /\ mode'[c] # "lines"
    BY DEF Announce, Parse, At, ClientInv, ClientTypeOK, Nameless
  <2>2. ~Parse(c) => peers' = peers
    BY DEF Announce
  <2> QED
    BY <1>3, <2>1, <2>2 DEF ClientInv, ClientTypeOK, Nameless, At
<1> QED
  BY <1>3, <1>4, <1>5, SessionsRest DEF ClientInv, ClientTypeOK, At

LEMMA PaymentKeeps ==
    ASSUME ClientInv, NEW c \in Clients, Report(c) \/ \E u \in Users : Pay(c, u)
    PROVE  ClientInv'
<1>1. CASE Report(c)
  <2>1. PICK x \in inbox[c] : /\ inbox' = [inbox EXCEPT ![c] = @ \ {x}]
                              /\ Answered(x.payer)
                              /\ UNCHANGED <<server, name, open, login_port, listening,
                                             announced, peers>>
    BY <1>1 DEF Report
  <2>2. \A d \in Clients : mode'[d] \in {mode[d], "list"} /\ then'[d] \in {then[d], "menu"}
    BY <2>1 DEF Answered
  <2>3. mode' = [d \in Clients |-> mode'[d]] /\ then' = [d \in Clients |-> then'[d]]
    BY <2>1 DEF Answered
  <2>4. ClientTypeOK'
    <3> DEFINE Modes == {"gone", "menu", "bind", "list", "lines", "choose", "wait", "broken"}
    <3>1. mode' \in [Clients -> Modes]
      <4>1. \A d \in Clients : mode'[d] \in Modes
        BY <2>2 DEF ClientInv, ClientTypeOK
      <4> HIDE DEF Modes
      <4> QED
        BY <2>3, <4>1
    <3>2. then' \in [Clients -> {"menu", "choose"}]
      <4>1. \A d \in Clients : then'[d] \in {"menu", "choose"}
        BY <2>2 DEF ClientInv, ClientTypeOK
      <4> QED
        BY <2>3, <4>1
    <3>3. inbox' \in [Clients -> SUBSET Payment]
      BY <2>1 DEF ClientInv, ClientTypeOK
    <3> QED
      BY <2>1, <3>1, <3>2, <3>3 DEF ClientInv, ClientTypeOK, server
  <2>5. Nameless'
    BY <2>1, <2>2 DEF ClientInv, Nameless, server
  <2> QED
    BY <2>1, <2>2, <2>4, <2>5, SessionsRest DEF server
<1>2. ASSUME NEW u \in Users, Pay(c, u)
      PROVE  ClientInv'
  <2>1. /\ UNCHANGED <<server, then, name, open, login_port, listening, announced, peers>>
        /\ \E m \in {"wait", "broken", "menu"} : At(c, m)
    BY <1>2 DEF Pay
  <2>2. inbox' \in [Clients -> SUBSET Payment]
    <3>1. peers[c] # {} => [payer |-> name[c], payee |-> u, from |-> c] \in Payment
      BY DEF ClientInv, ClientTypeOK, Nameless, Payment
    <3> QED
      BY <1>2, <3>1 DEF Pay, ClientInv, ClientTypeOK
  <2>3. ClientTypeOK'
    BY <2>1, <2>2 DEF ClientInv, ClientTypeOK, At, server
  <2>4. Nameless'
    BY <2>1 DEF ClientInv, ClientTypeOK, Nameless, At, server
  <2> QED
    BY <2>1, <2>3, <2>4, SessionsRest DEF ClientInv, ClientTypeOK, At, server
<1> QED
  BY <1>1, <1>2

\* A logout takes rows of the connection that ends and of no other.
LEMMA LeaveKeeps ==
    ASSUME ClientInv, NEW c \in Clients, Leave(c)
    PROVE  ClientInv'
<1>1. /\ online' \subseteq online
      /\ \A r \in online \ online' : r.client = c
  BY DEF Leave, Logout
<1>2. 0 \in 0 .. Cardinality(Users)
  BY FS_CardinalityType, ClientAssumption
<1>3. ClientTypeOK'
  BY <1>1, <1>2 DEF Leave, Gone, At, ClientInv, ClientTypeOK
<1>4. BindIsLogged' /\ OpenIsTrue'
  BY <1>1 DEF Leave, Gone, At, ClientInv, ClientTypeOK, BindIsLogged, OpenIsTrue
<1>5. Nameless'
  BY DEF Leave, Gone, At, ClientInv, ClientTypeOK, Nameless
<1> QED
  BY <1>3, <1>4, <1>5 DEF ClientInv

LEMMA ClientStepKeeps == ClientInv /\ [Next]_vars => ClientInv'
<1> SUFFICES ASSUME ClientInv, [Next]_vars PROVE ClientInv'
  OBVIOUS
<1>1. CASE UNCHANGED vars
  BY <1>1 DEF vars, server, ClientInv, ClientTypeOK, BindIsLogged, Nameless, OpenIsTrue
<1>2. ASSUME NEW c \in Clients, ClientNext(c)
      PROVE  ClientInv'
  BY <1>2, MenuKeeps, LoginKeepsSessions, BindKeeps, ListKeeps, PaymentKeeps, LeaveKeeps
  DEF ClientNext
<1> QED
  BY <1>1, <1>2 DEF Next

\* The invariant of the clients and of the server's view of them.
THEOREM ClientInvariance == Spec => []ClientInv
BY ClientInitEstablishes, ClientStepKeeps, PTL DEF Spec

\* Types: no more users are announced than there are, and every payment has a payer.
THEOREM ClientTyped == Spec => []ClientTypeOK
<1>1. ClientInv => ClientTypeOK
  BY DEF ClientInv
<1> QED
  BY <1>1, ClientInvariance, PTL

\* A client with an open receive thread is logged in as whom it takes itself for,
\* at the port where it listens.
THEOREM OpenClientsAreTrue == Spec => []OpenIsTrue
<1>1. ClientInv => OpenIsTrue
  BY DEF ClientInv
<1> QED
  BY <1>1, ClientInvariance, PTL

=============================================================================
