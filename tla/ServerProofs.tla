---------------------------- MODULE ServerProofs ----------------------------
(***************************************************************************)
(* Proofs about Server, for any users, workers, connections, amounts and   *)
(* bounds.                                                                 *)
(*                                                                         *)
(* All but TypeCorrect rest on Isolated, the condition of every            *)
(* specification of Server that the code does not see to: calls in         *)
(* progress at once concern different users.  CallsCurrent says what it is *)
(* good for: what user_register and user_login have found in the table is  *)
(* still so when they write.                                               *)
(*                                                                         *)
(* Three invariants build on it.  SessionInv, of Spec with any faults: the *)
(* user of a session is online at the address of its connection, which one *)
(* worker serves.  EntryInv, of OrderlySpec with any faults: a session has *)
(* its entry in client_fds, and one that ends erases its own entry,        *)
(* because an entry of the same user's next session follows it.  TalkInv,  *)
(* of OrderlySpec without faults: each command is in one place between the *)
(* client that asks and the answer it takes.                               *)
(***************************************************************************)
EXTENDS Server, SequenceTheorems, TLAPS

Codes == {"none", "REGISTER_OK", "REGISTER_FAIL", "LOGIN_AUTH_FAIL", "LOGIN_EXIST",
          "LOGIN_SUCCESS", "LOGOUT_FAIL", "LOGOUT_SUCCESS", "TRANSFER_SELF_FAIL",
          "TRANSFER_FAIL", "TRANSFER_SENDER_BANKRUPT", "TRANSFER_OK", "SQLITE_BUSY"}

Messages == [of : Commands, code : Codes]

Sessions == [addr : Conns, private_port : {"port"}]

\* What TypeOK leaves open.
AccountTypes ==
    /\ DOMAIN balance \subseteq Users
    /\ balance \in [DOMAIN balance -> Nat]
    /\ session \in [DOMAIN balance -> Sessions \cup {NoSession}]
    /\ status \in [Workers -> Codes]

FullTypes == TypeOK /\ AccountTypes /\ back \in [Conns -> Seq(Messages)]

\* Where a worker is tells which command it carries out.
CommandAt(w) ==
    /\ pc[w] \in {"register", "register_replace"} => cmd[w].kind = "REGISTER"
    /\ pc[w] \in {"login", "login_update", "push"} => cmd[w].kind = "LOGIN"
    /\ pc[w] \in {"transfer", "sender", "search", "result"} => cmd[w].kind = "TRANSACTION"
    /\ pc[w] = "list" => cmd[w].kind = "LIST"
    /\ pc[w] = "compose" => cmd[w].kind \in {"LOGIN", "LIST"}
    /\ pc[w] = "logout" => cmd[w].kind = "EXIT"
    /\ pc[w] = "push" => username[w] # NoUser

CommandFits == \A w \in Workers : CommandAt(w)

-----------------------------------------------------------------------------
(***************************************************************************)
(* Commands.                                                               *)
(***************************************************************************)
LEMMA CommandFields ==
    ASSUME NEW k \in Commands
    PROVE  /\ k.kind \in {"REGISTER", "LOGIN", "LIST", "TRANSACTION", "EXIT", "ERR"}
           /\ k.kind \in {"REGISTER", "LOGIN"} => k.name \in Users
           /\ k.kind = "TRANSACTION" => k \in Payments
BY DEF Commands, Plain, About, Payments, Payment

LEMMA PaymentFields ==
    ASSUME NEW k \in Payments
    PROVE  k.payer \in Users /\ k.payee \in Users /\ k.amount \in Amounts /\ k.amount \in Nat
BY ServerAssumption DEF Payments, Payment

LEMMA PlainCommands == \A k \in {"LIST", "EXIT", "ERR"} : Plain(k) \in Commands /\ Plain(k).kind = k
BY DEF Commands, Plain

LEMMA FirstPlace ==
    ASSUME NEW k \in Commands
    PROVE  /\ First(k.kind) \in Places \ {"idle", "push", "drop"}
           /\ First(k.kind) \in {"register", "login", "list", "transfer", "logout", "reply"}
           /\ First(k.kind) = "register" => k.kind = "REGISTER"
           /\ First(k.kind) = "login" => k.kind = "LOGIN"
           /\ First(k.kind) = "list" => k.kind = "LIST"
           /\ First(k.kind) = "transfer" => k.kind = "TRANSACTION"
           /\ First(k.kind) = "logout" <=> k.kind = "EXIT"
BY CommandFields DEF First, Places

(***************************************************************************)
(* Sequences.                                                              *)
(***************************************************************************)
LEMMA RemovedAt ==
    ASSUME NEW S, NEW s \in Seq(S), NEW i \in 1 .. Len(s)
    PROVE  /\ RemoveAt(s, i) \in Seq(S)
           /\ Len(RemoveAt(s, i)) = Len(s) - 1
           /\ \A j \in 1 .. (Len(s) - 1) :
                 RemoveAt(s, i)[j] = IF j < i THEN s[j] ELSE s[j + 1]
<1> DEFINE a == SubSeq(s, 1, i - 1)
           b == SubSeq(s, i + 1, Len(s))
<1>1. Len(s) \in Nat /\ i \in Int /\ \A j \in 1 .. Len(s) : s[j] \in S
  BY LenProperties, ElementOfSeq
<1>2. a \in Seq(S) /\ Len(a) = i - 1 /\ \A j \in 1 .. (i - 1) : a[j] = s[j]
  <2>1. 1 \in Int /\ i - 1 \in Int /\ \A j \in 1 .. (i - 1) : s[j] \in S
    BY <1>1
  <2> HIDE DEF a
  <2>2. /\ a \in Seq(S)
        /\ Len(a) = IF 1 <= i - 1 THEN (i - 1) - 1 + 1 ELSE 0
        /\ \A j \in 1 .. (i - 1) - 1 + 1 : a[j] = s[1 + j - 1]
    BY <2>1, SubSeqProperties DEF a
  <2> QED
    BY <1>1, <2>2
<1>3. b \in Seq(S) /\ Len(b) = Len(s) - i /\ \A j \in 1 .. (Len(s) - i) : b[j] = s[i + j]
  <2>1. i + 1 \in Int /\ Len(s) \in Int /\ \A j \in i + 1 .. Len(s) : s[j] \in S
    BY <1>1
  <2>2. /\ b \in Seq(S)
        /\ Len(b) = IF i + 1 <= Len(s) THEN Len(s) - (i + 1) + 1 ELSE 0
        /\ \A j \in 1 .. Len(s) - (i + 1) + 1 : b[j] = s[(i + 1) + j - 1]
    BY <2>1, SubSeqProperties
  <2> HIDE DEF b
  <2> QED
    BY <1>1, <2>2
<1>4. RemoveAt(s, i) = a \o b
  BY DEF RemoveAt
<1> HIDE DEF a, b
<1>5. /\ a \o b \in Seq(S)
      /\ Len(a \o b) = Len(a) + Len(b)
      /\ \A j \in 1 .. Len(a) + Len(b) : (a \o b)[j] = IF j <= Len(a) THEN a[j] ELSE b[j - Len(a)]
  BY <1>2, <1>3, ConcatProperties
<1> QED
  BY <1>1, <1>2, <1>3, <1>4, <1>5

-----------------------------------------------------------------------------
(***************************************************************************)
(* The types.                                                              *)
(***************************************************************************)
\* What TypeOK says of the accounts follows from their types.
LEMMA AccountsTyped ==
    ASSUME AccountTypes
    PROVE  /\ DOMAIN balance = DOMAIN session
           /\ \A u \in Store!Registered : balance[u] \in Nat
           /\ \A u \in Store!Online : session[u].addr \in Conns /\ session[u] \in Sessions
BY DEF AccountTypes, Store!Registered, Store!Online, Sessions

\* The calls of the database.
LEMMA StoreTypes ==
    ASSUME AccountTypes, NEW w \in Workers,
           \/ \E c \in Conns : Store!Logout(w, c)
           \/ \E s, r \in Users, x \in Nat : Store!Transfer(w, s, r, x)
           \/ Store!Ask(w)
    PROVE  AccountTypes'
<1>1. ASSUME NEW c \in Conns, Store!Logout(w, c)
      PROVE  AccountTypes'
  BY <1>1 DEF AccountTypes, Store!Logout, Store!At, Store!Registered, Store!Online, Store!Refuse,
     Store!Answer, Codes
<1>2. ASSUME NEW s \in Users, NEW r \in Users, NEW x \in Nat, Store!Transfer(w, s, r, x)
      PROVE  AccountTypes'
  <2>1. CASE \E code \in Codes : Store!Refuse(w, code)
    BY <2>1 DEF AccountTypes, Store!Refuse, Store!Answer
  <2>2. CASE /\ s # r /\ {s, r} \subseteq Store!Online
             /\ balance[s] * 1 >= x
             /\ balance' = [balance EXCEPT ![s] = Store!Less(s, x), ![r] = Store!More(r, x)]
             /\ UNCHANGED session
             /\ Store!Answer(w, "TRANSFER_OK")
    <3>1. s \in DOMAIN balance /\ r \in DOMAIN balance /\ balance[s] \in Nat /\ balance[r] \in Nat
      BY <2>2 DEF AccountTypes, Store!Online, Store!Registered
    <3>2. Store!Less(s, x) \in Nat /\ Store!More(r, x) \in Nat
      BY <2>2, <3>1 DEF Store!Less, Store!More
    <3> QED
      BY <2>2, <3>1, <3>2 DEF AccountTypes, Store!Answer, Codes
  <2> QED
    BY <1>2, <2>1, <2>2 DEF Store!Transfer, Codes
<1>3. CASE Store!Ask(w)
  BY <1>3 DEF AccountTypes, Store!Ask, Codes
<1> QED
  BY <1>1, <1>2, <1>3

\* The statements of user_register and user_login.
LEMMA StatementTypes ==
    ASSUME AccountTypes, NEW w \in Workers, cmd[w].name \in Users, conn[w] \in Conns,
           Register(w) \/ Login(w)
    PROVE  AccountTypes'
<1>1. CASE UNCHANGED accounts
  BY <1>1 DEF AccountTypes, accounts
<1>2. CASE \E code \in Codes : Store!Refuse(w, code)
  BY <1>2 DEF AccountTypes, Store!Refuse, Store!Answer
<1>3. CASE RegisterReplace(w)
  BY <1>3, ServerAssumption DEF AccountTypes, RegisterReplace, Replaced, Store!Registered,
     Store!Answer, Codes
<1>4. CASE LoginUpdate(w)
  BY <1>4 DEF AccountTypes, LoginUpdate, Store!Answer, Codes, Sessions
<1> QED
  BY <1>1, <1>2, <1>3, <1>4 DEF Register, RegisterCheck, Login, LoginCheck, Codes

BasicInv == FullTypes /\ CommandFits

LEMMA InitBasic == Init => BasicInv
<1> SUFFICES ASSUME Init PROVE BasicInv
  OBVIOUS
<1>1. AccountTypes
  BY ServerAssumption DEF Init, Store!Init, AccountTypes, Codes
<1>2. TypeOK
  BY <1>1, AccountsTyped, PlainCommands, ServerAssumption
  DEF Init, Store!Init, TypeOK, Places, AccountTypes
<1>3. back \in [Conns -> Seq(Messages)]
  BY DEF Init
<1>4. CommandFits
  BY DEF Init, CommandFits, CommandAt
<1> QED
  BY <1>1, <1>2, <1>3, <1>4 DEF BasicInv, FullTypes

\* The types when the process is left alone.
LEMMA ClientTypes ==
    ASSUME FullTypes, UNCHANGED <<accounts, up, locals, search>>,
           line' \in Seq(Conns),
           mode' \in [Conns -> {"away", "line", "free", "asked", "leaving"}],
           asked' \in [Conns -> Commands], me' \in [Conns -> SUBSET Users],
           wire' \in [Conns -> Seq(Commands)], mail' \in [Conns -> Seq(Commands)],
           back' \in [Conns -> Seq(Messages)]
    PROVE  FullTypes'
BY DEF FullTypes, TypeOK, AccountTypes, Store!Registered, Store!Online, accounts, locals, search

LEMMA ClientBasic ==
    ASSUME BasicInv, NEW c \in Conns, ClientStep(c)
    PROVE  BasicInv'
<1> USE DEF BasicInv
<1>1. /\ line \in Seq(Conns)
      /\ mode \in [Conns -> {"away", "line", "free", "asked", "leaving"}]
      /\ asked \in [Conns -> Commands] /\ me \in [Conns -> SUBSET Users]
      /\ wire \in [Conns -> Seq(Commands)] /\ mail \in [Conns -> Seq(Commands)]
      /\ back \in [Conns -> Seq(Messages)]
  BY DEF FullTypes, TypeOK
<1>2. UNCHANGED <<accounts, up, locals, search>>
  BY DEF ClientStep, Connect, Ask, Pay, Report, Leave, Take, Depart, Closed, Process
<1>3. CommandFits'
  BY <1>2 DEF CommandFits, CommandAt, locals
<1>4. CASE Connect(c)
  BY <1>1, <1>2, <1>3, <1>4, ClientTypes DEF Connect
<1>5. CASE Report(c)
  <2>1. Head(mail[c]) \in Commands /\ Tail(mail[c]) \in Seq(Commands)
    BY <1>1, <1>5 DEF Report
  <2> QED
    BY <1>1, <1>2, <1>3, <1>5, <2>1, ClientTypes DEF Report, Send
<1>6. CASE Leave(c)
  BY <1>1, <1>2, <1>3, <1>6, PlainCommands, ClientTypes DEF Leave, Send
<1>7. CASE Closed(c)
  BY <1>1, <1>2, <1>3, <1>7, PlainCommands, ClientTypes DEF Closed
<1>8. CASE Take(c) /\ ~Closed(c)
  <2>1. Tail(back[c]) \in Seq(Messages)
    BY <1>1, <1>8 DEF Take
  <2>2. asked[c].kind = "LOGIN" => asked[c].name \in Users
    BY <1>1, CommandFields
  <2>3. UNCHANGED <<line, mail, wire>> /\ mode' = [mode EXCEPT ![c] = "free"]
        /\ asked' = [asked EXCEPT ![c] = Plain("ERR")] /\ back' = [back EXCEPT ![c] = Tail(@)]
    BY <1>8 DEF Take
  <2>4. me' = me \/ (asked[c].kind = "LOGIN" /\ me' = [me EXCEPT ![c] = {asked[c].name}])
    BY <1>8 DEF Take
  <2>5. me' \in [Conns -> SUBSET Users]
    BY <1>1, <2>2, <2>4
  <2> QED
    BY <1>1, <1>2, <1>3, <2>1, <2>3, <2>5, PlainCommands, ClientTypes
<1>9. ASSUME NEW k \in Commands, Ask(c, k)
      PROVE  BasicInv'
  BY <1>1, <1>2, <1>3, <1>9, ClientTypes DEF Ask, Send
<1>10. ASSUME NEW k \in Commands, NEW d \in Conns, Pay(c, d, k)
       PROVE  BasicInv'
  BY <1>1, <1>2, <1>3, <1>10, ClientTypes DEF Pay
<1> QED
  BY <1>4, <1>5, <1>6, <1>7, <1>8, <1>9, <1>10 DEF ClientStep, Take, Depart

\* A worker changes its own locals only.
OwnStep(w) ==
    /\ pc' = [pc EXCEPT ![w] = pc'[w]]
    /\ conn' = [conn EXCEPT ![w] = conn'[w]]
    /\ username' = [username EXCEPT ![w] = username'[w]]
    /\ cmd' = [cmd EXCEPT ![w] = cmd'[w]]
    /\ at' = [at EXCEPT ![w] = at'[w]]
    /\ target' = [target EXCEPT ![w] = target'[w]]

LEMMA EachWorkerItsOwn ==
    ASSUME TypeOK, NEW w \in Workers, Work(w) \/ Busy(w)
    PROVE  OwnStep(w)
<1>1. /\ pc = [pc EXCEPT ![w] = pc[w]] /\ conn = [conn EXCEPT ![w] = conn[w]]
      /\ username = [username EXCEPT ![w] = username[w]] /\ cmd = [cmd EXCEPT ![w] = cmd[w]]
      /\ at = [at EXCEPT ![w] = at[w]] /\ target = [target EXCEPT ![w] = target[w]]
      /\ w \in DOMAIN pc /\ w \in DOMAIN conn /\ w \in DOMAIN username /\ w \in DOMAIN cmd
      /\ w \in DOMAIN at /\ w \in DOMAIN target
  BY DEF TypeOK
<1>2. CASE Begin(w)
  BY <1>1, <1>2 DEF OwnStep, Begin, search
<1>3. CASE Receive(w) \/ Hangup(w)
  BY <1>1, <1>3 DEF OwnStep, Receive, Hangup, Parsed, search
<1>4. CASE Register(w) \/ Login(w) \/ PushBack(w) \/ List(w) \/ Transfer(w) \/ Logout(w) \/ Read(w)
  BY <1>1, <1>4 DEF OwnStep, Register, RegisterCheck, RegisterReplace, Login, LoginCheck,
     LoginUpdate, PushBack, List, Transfer, Logout, Read, Goto, Calls, search
<1>5. CASE Search(w) \/ Find(w)
  BY <1>1, <1>5 DEF OwnStep, Search, Find, Seek, Goto, Loops
<1>6. CASE Erase(w)
  BY <1>1, <1>6 DEF OwnStep, Erase, Goto
<1>7. CASE Reply(w) \/ Result(w)
  BY <1>1, <1>7 DEF OwnStep, Reply, Result, Answered, Goto
<1>8. CASE Close(w) \/ Busy(w)
  BY <1>1, <1>8 DEF OwnStep, Close, Busy, Ended
<1> QED
  BY <1>2, <1>3, <1>4, <1>5, <1>6, <1>7, <1>8 DEF Work

\* The types of a worker's step.
LEMMA WorkerTypes ==
    ASSUME FullTypes, NEW w \in Workers, OwnStep(w), AccountTypes',
           UNCHANGED <<asked, me, mail>>,
           mode' \in [Conns -> {"away", "line", "free", "asked", "leaving"}],
           up' \in BOOLEAN, line' \in Seq(Conns),
           pc'[w] \in Places, conn'[w] \in Conns \cup {NoConn},
           conn'[w] = NoConn <=> pc'[w] = "idle",
           username'[w] \in Users \cup {NoUser}, cmd'[w] \in Commands,
           fds' \in Seq([name : Users, frame : Workers]),
           at'[w] \in Nat \ {0}, target'[w] \in SUBSET Workers,
           wire' \in [Conns -> Seq(Commands)], back' \in [Conns -> Seq(Messages)]
    PROVE  FullTypes'
<1>1. /\ DOMAIN balance' = DOMAIN session' /\ DOMAIN balance' \subseteq Users
      /\ \A v \in Store!Registered' : balance'[v] \in Nat
      /\ \A v \in Store!Online' : session'[v].addr \in Conns
  BY DEF AccountTypes, Store!Registered, Store!Online, Sessions
<1>2. /\ pc' \in [Workers -> Places]
      /\ conn' \in [Workers -> Conns \cup {NoConn}]
      /\ \A v \in Workers : conn'[v] = NoConn <=> pc'[v] = "idle"
  BY DEF FullTypes, TypeOK, OwnStep
<1>3. /\ username' \in [Workers -> Users \cup {NoUser}]
      /\ cmd' \in [Workers -> Commands]
      /\ at' \in [Workers -> Nat \ {0}]
      /\ target' \in [Workers -> SUBSET Workers]
  BY DEF FullTypes, TypeOK, OwnStep
<1>4. /\ asked' \in [Conns -> Commands]
      /\ me' \in [Conns -> SUBSET Users]
      /\ mail' \in [Conns -> Seq(Commands)]
  BY DEF FullTypes, TypeOK
<1>5. TypeOK'
  BY <1>1, <1>2, <1>3, <1>4 DEF TypeOK, Store!Registered, Store!Online
<1> QED
  BY <1>5 DEF FullTypes

\* A worker's own step leaves what the commands of the others say.
LEMMA CommandsOfOthers ==
    ASSUME FullTypes, CommandFits, NEW w \in Workers, OwnStep(w), CommandAt(w)'
    PROVE  CommandFits'
<1> SUFFICES ASSUME NEW v \in Workers, v # w PROVE CommandAt(v)'
  BY DEF CommandFits
<1>1. pc'[v] = pc[v] /\ cmd'[v] = cmd[v] /\ username'[v] = username[v]
  BY DEF OwnStep, FullTypes, TypeOK
<1> QED
  BY <1>1 DEF CommandFits, CommandAt

LEMMA DeliverTypes ==
    ASSUME FullTypes, NEW w \in Workers, NEW c \in Conns, Deliver(c, Answer(w))
    PROVE  back' \in [Conns -> Seq(Messages)]
<1>1. Answer(w) \in Messages
  BY DEF FullTypes, TypeOK, AccountTypes, Answer, Messages
<1> QED
  BY <1>1 DEF Deliver, FullTypes

LEMMA WorkerBasic ==
    ASSUME BasicInv, NEW w \in Workers, Work(w) \/ Busy(w)
    PROVE  BasicInv'
<1> USE DEF BasicInv
<1>1. FullTypes /\ OwnStep(w) /\ CommandAt(w) /\ AccountTypes
  BY EachWorkerItsOwn DEF FullTypes, CommandFits
<1>2. /\ up \in BOOLEAN /\ line \in Seq(Conns)
      /\ pc[w] \in Places /\ conn[w] \in Conns \cup {NoConn}
      /\ conn[w] = NoConn <=> pc[w] = "idle"
      /\ username[w] \in Users \cup {NoUser} /\ cmd[w] \in Commands
      /\ fds \in Seq([name : Users, frame : Workers])
      /\ at[w] \in Nat \ {0} /\ target[w] \in SUBSET Workers
      /\ mode \in [Conns -> {"away", "line", "free", "asked", "leaving"}]
      /\ wire \in [Conns -> Seq(Commands)] /\ back \in [Conns -> Seq(Messages)]
  BY DEF FullTypes, TypeOK
<1>3. UNCHANGED accounts => AccountTypes'
  BY <1>1 DEF AccountTypes, accounts
<1>4. CASE Begin(w)
  <2>1. Head(line) \in Conns /\ Tail(line) \in Seq(Conns)
    BY <1>2, <1>4 DEF Begin
  <2>2. /\ UNCHANGED <<accounts, up, cmd, fds, at, target, asked, me, mail, wire, back>>
        /\ line' = Tail(line) /\ pc'[w] = "receive" /\ conn'[w] = Head(line)
        /\ username'[w] = NoUser
        /\ mode' \in [Conns -> {"away", "line", "free", "asked", "leaving"}]
    BY <1>1, <1>2, <1>4, <2>1 DEF Begin, search, FullTypes, TypeOK
  <2>3. CommandAt(w)'
    BY <2>2 DEF CommandAt
  <2>4. Head(line) # NoConn /\ "receive" \in Places
    BY <2>1, ServerAssumption DEF Places
  <2> QED
    BY <1>1, <1>2, <1>3, <2>1, <2>2, <2>3, <2>4, WorkerTypes, CommandsOfOthers
<1>5. CASE Receive(w) \/ Hangup(w)
  <2>1. conn[w] \in Conns
    BY <1>2, <1>5 DEF Receive, Hangup
  <2>2. wire[conn[w]] # << >> =>
            Head(wire[conn[w]]) \in Commands /\ Tail(wire[conn[w]]) \in Seq(Commands)
    BY <1>2, <2>1
  <2>3. /\ UNCHANGED <<accounts, line, conn, username, fds, at, target, mode, asked, me, mail, back>>
        /\ wire' \in [Conns -> Seq(Commands)] /\ up' \in BOOLEAN
    BY <1>2, <1>5, <2>1, <2>2 DEF Receive, Hangup, search, clients
  <2>4. /\ cmd'[w] \in Commands /\ CommandAt(w)' /\ pc'[w] \in Places \ {"idle"}
    <3>1. ASSUME NEW k \in Commands, Parsed(w, k)
          PROVE  cmd'[w] = k /\ pc'[w] = First(k.kind)
      BY <3>1 DEF Parsed, FullTypes, TypeOK
    <3>2. ASSUME NEW k \in Commands, Parsed(w, k)
          PROVE  cmd'[w] \in Commands /\ CommandAt(w)' /\ pc'[w] \in Places \ {"idle"}
      BY <3>1, <3>2, FirstPlace DEF CommandAt
    <3>3. CASE pc'[w] \in {"receive", "drop"} /\ cmd' = cmd
      BY <1>2, <3>3 DEF CommandAt, Places
    <3> QED
      BY <1>2, <1>5, <2>2, <3>2, <3>3, PlainCommands DEF Receive, Hangup, FullTypes, TypeOK
  <2> QED
    BY <1>1, <1>2, <1>3, <1>5, <2>1, <2>3, <2>4, WorkerTypes, CommandsOfOthers
    DEF Receive, Hangup
<1>6. CASE Register(w) \/ Login(w) \/ Transfer(w) \/ Logout(w)
  <2>1. /\ UNCHANGED <<up, line, conn, cmd, fds, at, target, mode, asked, me, mail, wire, back>>
        /\ pc'[w] \in Places \ {"idle"} /\ pc[w] # "idle"
    BY <1>6 DEF Register, RegisterCheck, RegisterReplace, Login, LoginCheck, LoginUpdate,
       Transfer, Logout, Calls, search, clients, Goto, Places, FullTypes, TypeOK
  <2>2. AccountTypes' /\ username'[w] \in Users \cup {NoUser} /\ CommandAt(w)'
    <3>1. CASE Register(w)
      <4>1. /\ pc[w] \in {"register", "register_replace"} /\ pc'[w] \in {"register_replace", "reply"}
            /\ username' = username
        BY <3>1 DEF Register, RegisterCheck, RegisterReplace, Goto, FullTypes, TypeOK
      <4>2. cmd[w].name \in Users /\ conn[w] \in Conns
        BY <1>1, <1>2, <4>1, CommandFields DEF CommandAt
      <4>3. CommandAt(w)'
        BY <1>1, <2>1, <4>1 DEF CommandAt
      <4> QED
        BY <1>1, <1>2, <3>1, <4>1, <4>2, <4>3, StatementTypes
    <3>2. CASE Login(w)
      <4>1. /\ pc[w] \in {"login", "login_update"}
            /\ \/ pc'[w] \in {"login_update", "reply"} /\ username'[w] = username[w]
               \/ pc'[w] = "push" /\ username'[w] = cmd[w].name
        BY <3>2 DEF Login, LoginCheck, LoginUpdate, Goto, FullTypes, TypeOK
      <4>2. cmd[w].name \in Users /\ conn[w] \in Conns
        BY <1>1, <1>2, <4>1, CommandFields DEF CommandAt
      <4>3. CommandAt(w)'
        BY <1>1, <2>1, <4>1, <4>2, ServerAssumption DEF CommandAt
      <4> QED
        BY <1>1, <1>2, <3>2, <4>1, <4>2, <4>3, StatementTypes
    <3>3. CASE Transfer(w)
      <4>1. cmd[w] \in Payments
        BY <1>1, <1>2, <3>3, CommandFields DEF Transfer, CommandAt
      <4>2. pc'[w] = "sender" /\ username' = username
        BY <3>3 DEF Transfer, Goto, FullTypes, TypeOK
      <4>3. CommandAt(w)'
        BY <1>1, <2>1, <3>3, <4>2 DEF CommandAt, Transfer
      <4> QED
        BY <1>1, <1>2, <3>3, <4>1, <4>2, <4>3, PaymentFields, StoreTypes DEF Transfer
    <3>4. CASE Logout(w)
      <4>1. conn[w] \in Conns
        BY <1>2, <3>4 DEF Logout
      <4>2. pc'[w] \in {"reply", "count"} /\ username' = username
        BY <3>4 DEF Logout, Goto, FullTypes, TypeOK
      <4> QED
        BY <1>1, <1>2, <3>4, <4>1, <4>2, StoreTypes DEF Logout, CommandAt
    <3> QED
      BY <1>6, <3>1, <3>2, <3>3, <3>4
  <2> QED
    BY <1>1, <1>2, <2>1, <2>2, WorkerTypes, CommandsOfOthers
<1>7. CASE PushBack(w)
  <2>1. username[w] \in Users
    BY <1>1, <1>2, <1>7 DEF PushBack, CommandAt
  <2>2. /\ fds' \in Seq([name : Users, frame : Workers])
        /\ UNCHANGED <<accounts, up, line, conn, username, cmd, at, target, mode, asked, me, mail,
                       wire, back>>
        /\ pc'[w] = "compose" /\ pc[w] = "push"
    BY <1>2, <1>7, <2>1 DEF PushBack, Goto, clients, FullTypes, TypeOK
  <2>3. CommandAt(w)' /\ "compose" \in Places
    BY <1>1, <2>2 DEF CommandAt, Places
  <2> QED
    BY <1>1, <1>2, <1>3, <2>2, <2>3, WorkerTypes, CommandsOfOthers
<1>8. CASE List(w) \/ Read(w)
  <2>1. /\ UNCHANGED <<accounts, up, line, conn, username, cmd, fds, at, target, mode, asked, me,
                       mail, wire, back>>
        /\ pc'[w] \in {"reply", "compose", "search", "find"} /\ pc[w] # "idle"
        /\ pc'[w] = "compose" => pc[w] = "list"
        /\ pc'[w] = "search" => pc[w] = "sender"
    BY <1>8 DEF List, Read, Goto, Calls, search, clients, FullTypes, TypeOK
  <2>2. CommandAt(w)' /\ pc'[w] \in Places \ {"idle"}
    BY <1>1, <2>1 DEF CommandAt, Places
  <2> QED
    BY <1>1, <1>2, <1>3, <2>1, <2>2, WorkerTypes, CommandsOfOthers
<1>9. CASE Search(w) \/ Find(w)
  <2>1. /\ UNCHANGED <<accounts, up, line, conn, username, cmd, fds, mode, asked, me, mail,
                       wire, back>>
        /\ pc'[w] \in {pc[w], "result", "erase", "close"} /\ pc[w] \in {"search", "find"}
        /\ pc'[w] = "result" => pc[w] = "search"
    BY <1>9 DEF Search, Find, Loops, Seek, Goto, clients, FullTypes, TypeOK
  <2>2. CommandAt(w)' /\ pc'[w] \in Places \ {"idle"}
    BY <1>1, <2>1 DEF CommandAt, Places
  <2>3. at'[w] \in Nat \ {0} /\ target'[w] \in SUBSET Workers
    <3>1. at[w] <= Len(fds) => fds[at[w]] \in [name : Users, frame : Workers]
      <4>1. at[w] <= Len(fds) => at[w] \in 1 .. Len(fds)
        BY <1>2
      <4> QED
        BY <1>2, <4>1, ElementOfSeq
    <3>2. \/ UNCHANGED <<at, target>>
          \/ at' = [at EXCEPT ![w] = @ + 1] /\ target' = target
          \/ at[w] <= Len(fds) /\ target' = [target EXCEPT ![w] = {fds[at[w]].frame}] /\ at' = at
      BY <1>9 DEF Search, Find, Seek
    <3> QED
      BY <1>2, <3>1, <3>2 DEF FullTypes, TypeOK
  <2> QED
    BY <1>1, <1>2, <1>3, <2>1, <2>2, <2>3, WorkerTypes, CommandsOfOthers
<1>10. CASE Erase(w)
  <2>1. /\ UNCHANGED <<accounts, line, conn, username, cmd, at, target, mode, asked, me, mail,
                       wire, back>>
        /\ pc'[w] = "close" /\ pc[w] = "erase" /\ up' \in BOOLEAN
        /\ fds' = fds \/ (at[w] <= Len(fds) /\ fds' = RemoveAt(fds, at[w]))
    BY <1>2, <1>10 DEF Erase, Goto, clients, FullTypes, TypeOK
  <2>2. fds' \in Seq([name : Users, frame : Workers])
    <3>1. at[w] <= Len(fds) => at[w] \in 1 .. Len(fds)
      BY <1>2
    <3> QED
      BY <1>2, <2>1, <3>1, RemovedAt
  <2>3. CommandAt(w)' /\ "close" \in Places
    BY <2>1 DEF CommandAt, Places
  <2> QED
    BY <1>1, <1>2, <1>3, <2>1, <2>2, <2>3, WorkerTypes, CommandsOfOthers
<1>11. CASE Reply(w) \/ Result(w)
  <2>1. /\ UNCHANGED <<line, conn, username, cmd, fds, mode, asked, me, mail, wire>>
        /\ pc'[w] \in {"count", "receive"} /\ pc[w] # "idle" /\ up' \in BOOLEAN
        /\ at'[w] = 1 /\ target'[w] = {} /\ Store!Ask(w)
    BY <1>2, <1>11 DEF Reply, Result, Answered, Goto, clients, FullTypes, TypeOK
  <2>2. AccountTypes'
    BY <1>1, <2>1, StoreTypes
  <2>3. CommandAt(w)' /\ pc'[w] \in Places \ {"idle"}
    BY <2>1 DEF CommandAt, Places
  <2>4. back' \in [Conns -> Seq(Messages)]
    <3>1. \A v \in Workers : pc[v] # "idle" => conn[v] \in Conns
      BY DEF FullTypes, TypeOK
    <3>2. back' = back \/ \E c \in Conns : Deliver(c, Answer(w))
      BY <1>1, <1>2, <1>11, <3>1 DEF Reply, Result, Live
    <3> QED
      BY <1>1, <1>2, <3>2, DeliverTypes
  <2>5. {} \in SUBSET Workers /\ 1 \in Nat \ {0}
    OBVIOUS
  <2> QED
    BY <1>1, <1>2, <2>1, <2>2, <2>3, <2>4, <2>5, WorkerTypes, CommandsOfOthers
<1>12. CASE Close(w) \/ Busy(w)
  <2>1. /\ UNCHANGED <<up, line, fds, mode, asked, me, mail, wire, back>>
        /\ pc'[w] = "idle" /\ conn'[w] = NoConn /\ username'[w] = NoUser
        /\ cmd'[w] = Plain("ERR") /\ at'[w] = 1 /\ target'[w] = {}
    BY <1>12 DEF Close, Busy, Ended, clients, FullTypes, TypeOK
  <2>2. AccountTypes'
    <3>1. CASE Close(w)
      BY <1>1, <3>1, StoreTypes DEF Close
    <3>2. CASE Busy(w)
      <4>1. ASSUME NEW u \in Debtors(w)
            PROVE  u \in DOMAIN balance /\ balance[u] - cmd[w].amount \in Nat
        <5>1. cmd[w].amount \in Nat
          BY <1>1, <1>2, <4>1, CommandFields, PaymentFields DEF Debtors, CommandAt
        <5> QED
          BY <1>1, <4>1, <5>1 DEF Debtors, Store!Online, Store!Registered, AccountTypes
      <4>2. /\ session' = session /\ status' = [status EXCEPT ![w] = "SQLITE_BUSY"]
            /\ balance' = balance \/ \E u \in Debtors(w) :
                                        balance' = [balance EXCEPT ![u] = @ - cmd[w].amount]
        BY <3>2 DEF Busy, Store!Answer
      <4>3. DOMAIN balance' = DOMAIN balance /\ balance' \in [DOMAIN balance -> Nat]
        BY <1>1, <4>1, <4>2 DEF AccountTypes
      <4> QED
        BY <1>1, <4>2, <4>3 DEF AccountTypes, Codes
    <3> QED
      BY <1>12, <3>1, <3>2
  <2>3. CommandAt(w)' /\ "idle" \in Places /\ 1 \in Nat \ {0}
    BY <2>1 DEF CommandAt, Places
  <2> QED
    BY <1>1, <1>2, <2>1, <2>2, <2>3, PlainCommands, WorkerTypes, CommandsOfOthers
<1> QED
  BY <1>4, <1>5, <1>6, <1>7, <1>8, <1>9, <1>10, <1>11, <1>12 DEF Work

LEMMA BasicStep == BasicInv /\ [Next]_vars => BasicInv'
<1>1. ASSUME BasicInv, Next PROVE BasicInv'
  BY <1>1, ClientBasic, WorkerBasic DEF Next
<1>2. ASSUME BasicInv, UNCHANGED vars PROVE BasicInv'
  <2>1. UNCHANGED <<accounts, up, line, pc, conn, username, cmd, fds, at, target, mode, asked, me,
                    mail, wire, back>>
    BY <1>2 DEF vars, locals, search, clients
  <2>2. AccountTypes' /\ CommandFits'
    BY <1>2, <2>1 DEF BasicInv, FullTypes, AccountTypes, CommandFits, CommandAt, accounts
  <2>3. TypeOK'
    BY <1>2, <2>1 DEF BasicInv, FullTypes, TypeOK, accounts, Store!Registered, Store!Online
  <2> QED
    BY <1>2, <2>1, <2>2, <2>3 DEF BasicInv, FullTypes
<1> QED
  BY <1>1, <1>2

LEMMA BasicAlways == Spec => []BasicInv
<1>1. BasicInv /\ [Next /\ Isolated']_vars => BasicInv'
  BY BasicStep
<1> QED
  BY <1>1, InitBasic, PTL DEF Spec

\* The types, and which connections are served and which users are online
\* (TypeOK), whatever goes wrong around the server.
THEOREM TypeCorrect == Spec => []TypeOK
<1>1. BasicInv => TypeOK
  BY DEF BasicInv, FullTypes
<1> QED
  BY <1>1, BasicAlways, PTL

-----------------------------------------------------------------------------
(***************************************************************************)
(* The calls.  What user_register and user_login have found in the table   *)
(* still holds when they write: meanwhile no other worker's call changes   *)
(* the row, since it would touch the user too.                             *)
(***************************************************************************)
CallAt(w) ==
    /\ pc[w] = "register_replace" => cmd[w].name \notin Store!Registered
    /\ pc[w] = "login_update" => cmd[w].name \in Store!Registered \ Store!Online

CallsCurrent == Isolated /\ \A w \in Workers : CallAt(w)

\* A worker's step changes the rows of users that its call touches.
LEMMA RowKept ==
    ASSUME BasicInv, NEW w \in Workers, Work(w) \/ Busy(w), NEW u \in Users, u \notin Touched(w)
    PROVE  /\ u \in Store!Registered' <=> u \in Store!Registered
           /\ u \in Store!Online' <=> u \in Store!Online
<1>1. /\ DOMAIN session = DOMAIN balance /\ DOMAIN balance \subseteq Users
  BY DEF BasicInv, FullTypes, AccountTypes
<1>2. CASE /\ session' = session \/ \E x \in Users : x # u /\ \E y : session' = [session EXCEPT ![x] = y]
           /\ DOMAIN balance' = DOMAIN balance
  BY <1>1, <1>2 DEF Store!Online, Store!Registered
<1>3. CASE Register(w)
  <2>1. CASE RegisterReplace(w)
    <3>1. cmd[w].name # u
      BY <2>1 DEF RegisterReplace, Touched
    <3> QED
      BY <1>1, <2>1, <3>1 DEF RegisterReplace, Replaced, Store!Online, Store!Registered
  <2>2. CASE RegisterCheck(w)
    BY <1>2, <2>2 DEF RegisterCheck, Store!Refuse, accounts
  <2> QED
    BY <1>3, <2>1, <2>2 DEF Register
<1>4. CASE Login(w)
  <2>1. CASE LoginUpdate(w)
    <3>1. cmd[w].name # u /\ cmd[w].name \in Users
      BY <2>1, CommandFields DEF LoginUpdate, Touched, BasicInv, FullTypes, TypeOK, CommandFits, CommandAt
    <3> QED
      BY <1>2, <2>1, <3>1 DEF LoginUpdate
  <2>2. CASE LoginCheck(w)
    BY <1>2, <2>2 DEF LoginCheck, Store!Refuse, accounts
  <2> QED
    BY <1>4, <2>1, <2>2 DEF Login
<1>5. CASE Logout(w)
  <2>1. u \notin Store!At(conn[w])
    BY <1>5 DEF Logout, Touched
  <2>2. /\ UNCHANGED balance
        /\ \/ UNCHANGED session
           \/ \E x \in Store!At(conn[w]) : session' = [session EXCEPT ![x] = NoSession]
    BY <1>5 DEF Logout, Store!Logout, Store!Refuse
  <2>3. Store!At(conn[w]) \subseteq Users
    BY <1>1 DEF Store!At, Store!Online, Store!Registered
  <2> QED
    BY <1>2, <2>1, <2>2, <2>3
<1>6. CASE Transfer(w) \/ Busy(w)
  <2>1. UNCHANGED session /\ DOMAIN balance' = DOMAIN balance
    BY <1>6 DEF Transfer, Store!Transfer, Store!Refuse, Busy
  <2> QED
    BY <1>2, <2>1
<1>7. CASE UNCHANGED <<balance, session>>
  BY <1>2, <1>7
<1> QED
  BY <1>3, <1>4, <1>5, <1>6, <1>7 DEF Work, Begin, Receive, Hangup, PushBack, List,
     Read, Search, Find, Erase, Reply, Result, Close, Answered, Store!Ask, Loops, accounts

\* A worker goes on to write with what it has just found.
LEMMA CallOwn ==
    ASSUME BasicInv, NEW w \in Workers, Work(w) \/ Busy(w)
    PROVE  CallAt(w)'
<1> SUFFICES ASSUME pc'[w] \in {"register_replace", "login_update"} PROVE CallAt(w)'
  BY DEF CallAt
<1>1. pc \in [Workers -> Places] /\ cmd[w] \in Commands
  BY DEF BasicInv, FullTypes, TypeOK
<1>2. CASE RegisterCheck(w) \/ LoginCheck(w)
  <2>1. UNCHANGED <<accounts, cmd>>
    BY <1>1, <1>2 DEF RegisterCheck, LoginCheck, Goto, Calls
  <2>2. /\ pc'[w] = "register_replace" => cmd[w].name \notin Store!Registered
        /\ pc'[w] = "login_update" => cmd[w].name \in Store!Registered \ Store!Online
    BY <1>1, <1>2 DEF RegisterCheck, LoginCheck, Goto
  <2> QED
    BY <2>1, <2>2 DEF CallAt, Store!Online, Store!Registered, accounts
<1>3. CASE Receive(w) \/ Hangup(w)
  <2>1. pc'[w] \in {"receive", "drop"} \/ \E k \in Commands : pc'[w] = First(k.kind)
    <3>1. wire[conn[w]] # << >> /\ pc[w] = "receive" => Head(wire[conn[w]]) \in Commands
      BY DEF BasicInv, FullTypes, TypeOK
    <3> QED
      BY <1>1, <1>3, <3>1, PlainCommands DEF Receive, Hangup, Parsed
  <2> QED
    BY <2>1, FirstPlace
<1>4. CASE Begin(w) \/ PushBack(w) \/ List(w) \/ Transfer(w) \/ Logout(w) \/ Read(w) \/ RegisterReplace(w)
           \/ LoginUpdate(w)
  BY <1>1, <1>4 DEF Begin, PushBack, List, Transfer, Logout, Read, RegisterReplace, LoginUpdate, Goto
<1>5. CASE Search(w) \/ Find(w) \/ Erase(w) \/ Reply(w) \/ Result(w) \/ Close(w) \/ Busy(w)
  BY <1>1, <1>5 DEF Search, Find, Seek, Erase, Reply, Result, Close, Busy, Ended, Goto
<1> QED
  BY <1>2, <1>3, <1>4, <1>5 DEF Work, Register, Login

LEMMA CallsStep ==
    ASSUME BasicInv, CallsCurrent, [Next /\ Isolated']_vars
    PROVE  CallsCurrent'
<1>1. CASE UNCHANGED <<accounts, locals>>
  BY <1>1 DEF CallsCurrent, Isolated, Touched, CallAt, Store!At, Store!Online, Store!Registered,
     accounts, locals
<1>2. ASSUME NEW c \in Conns, ClientStep(c)
      PROVE  UNCHANGED <<accounts, locals>>
  BY <1>2 DEF ClientStep, Connect, Ask, Pay, Report, Leave, Take, Depart, Closed, Process
<1>3. ASSUME NEW w \in Workers, Work(w) \/ Busy(w), Isolated'
      PROVE  CallsCurrent'
  <2>1. SUFFICES ASSUME NEW v \in Workers, v # w PROVE CallAt(v)'
    BY <1>3, CallOwn DEF CallsCurrent
  <2>2. pc'[v] = pc[v] /\ cmd'[v] = cmd[v] /\ pc[v] \in Places /\ cmd[v] \in Commands /\ CommandAt(v)
    BY <1>3, <2>1, EachWorkerItsOwn DEF OwnStep, BasicInv, FullTypes, TypeOK, CommandFits
  <2>3. SUFFICES ASSUME pc[v] \in {"register_replace", "login_update"} PROVE CallAt(v)'
    BY <2>2 DEF CallAt
  <2>4. cmd[v].name \in Users
    BY <2>2, <2>3, CommandFields DEF CommandAt
  <2>5. cmd[v].name \in Touched(v) /\ cmd[v].name \notin Touched(w)
    BY <2>1, <2>3, <2>4 DEF Touched, CallsCurrent, Isolated
  <2> QED
    BY <1>3, <2>2, <2>4, <2>5, RowKept DEF CallsCurrent, CallAt
<1> QED
  BY <1>1, <1>2, <1>3 DEF Next, vars

-----------------------------------------------------------------------------
(***************************************************************************)
(* One session per user.  A connection is served by one worker, and the    *)
(* user of a session is online at the address of its connection: a login   *)
(* of the same user finds him online, and a logout from another connection *)
(* does not concern him.                                                   *)
(***************************************************************************)
ConnServed ==
    /\ \A v, w \in Workers : v # w /\ conn[v] # NoConn => conn[v] # conn[w]
    /\ \A i, j \in 1 .. Len(line) : i # j => line[i] # line[j]
    /\ \A w \in Workers : \A i \in 1 .. Len(line) : line[i] # conn[w]

AtItsConn(w) ==
    InSession(w) => username[w] \in Store!Online /\ session[username[w]].addr = conn[w]

SessionOnline == \A w \in Workers : AtItsConn(w)

SessionInv == BasicInv /\ CallsCurrent /\ ConnServed /\ SessionOnline

LEMMA OneUserOneConn == SessionInv => OneSessionPerUser
BY DEF SessionInv, BasicInv, FullTypes, TypeOK, ConnServed, SessionOnline, AtItsConn, InSession,
   OneSessionPerUser

LEMMA InitSession == Init => SessionInv
<1> SUFFICES ASSUME Init PROVE SessionInv
  OBVIOUS
<1>1. conn = [w \in Workers |-> NoConn] /\ line = << >> /\ pc = [w \in Workers |-> "idle"]
  BY DEF Init
<1> QED
  BY <1>1, InitBasic DEF SessionInv, ConnServed, SessionOnline, AtItsConn, InSession, CallsCurrent,
     CallAt, Isolated, Touched

LEMMA ClientServed ==
    ASSUME SessionInv, NEW c \in Conns, ClientStep(c)
    PROVE  ConnServed'
<1>1. UNCHANGED conn /\ line \in Seq(Conns)
  BY DEF ClientStep, Connect, Ask, Pay, Report, Leave, Take, Depart, Closed, Process, locals,
     SessionInv, BasicInv, FullTypes, TypeOK
<1>2. CASE Connect(c)
  <2>1. /\ line' = Append(line, c) /\ \A v \in Workers : conn[v] # c
        /\ \A i \in 1 .. Len(line) : line[i] # c
    BY <1>1, <1>2 DEF Connect
  <2>2. /\ Len(line') = Len(line) + 1 /\ Len(line) \in Nat /\ line'[Len(line) + 1] = c
        /\ \A i \in 1 .. Len(line) : line'[i] = line[i]
    BY <1>1, <2>1
  <2> HIDE <1>2
  <2>3. \A i \in 1 .. Len(line') : i \in 1 .. Len(line) \/ i = Len(line) + 1
    BY <2>2
  <2> QED
    BY <1>1, <2>1, <2>2, <2>3 DEF SessionInv, ConnServed
<1>3. CASE UNCHANGED line
  BY <1>1, <1>3 DEF SessionInv, ConnServed
<1> QED
  BY <1>2, <1>3 DEF ClientStep, Ask, Pay, Report, Leave, Take, Depart, Closed

LEMMA WorkerServed ==
    ASSUME SessionInv, NEW w \in Workers, Work(w) \/ Busy(w)
    PROVE  ConnServed'
<1>1. OwnStep(w) /\ line \in Seq(Conns) /\ conn \in [Workers -> Conns \cup {NoConn}]
  BY EachWorkerItsOwn DEF SessionInv, BasicInv, FullTypes, TypeOK
<1>2. \A v \in Workers : v # w => conn'[v] = conn[v]
  BY <1>1 DEF OwnStep
<1>3. CASE Begin(w)
  <2>1. line # << >> /\ line' = Tail(line) /\ conn'[w] = line[1]
    BY <1>1, <1>3 DEF Begin
  <2>2. /\ Len(line) \in Nat \ {0} /\ Len(line') = Len(line) - 1
        /\ \A i \in 1 .. Len(line') : line'[i] = line[i + 1] /\ i + 1 \in 1 .. Len(line) /\ i + 1 # 1
        /\ 1 \in 1 .. Len(line)
    BY <1>1, <2>1
  <2> QED
    BY <1>2, <2>1, <2>2 DEF SessionInv, ConnServed
<1>4. CASE conn'[w] = NoConn /\ UNCHANGED line
  <2>1. \A i \in 1 .. Len(line) : line[i] # NoConn
    BY <1>1, ServerAssumption
  <2> QED
    BY <1>2, <1>4, <2>1 DEF SessionInv, ConnServed
<1>5. CASE UNCHANGED <<conn, line>>
  BY <1>5 DEF SessionInv, ConnServed
<1>6. Close(w) \/ Busy(w) => conn'[w] = NoConn /\ UNCHANGED line
  BY <1>1 DEF Close, Busy, Ended
<1> QED
  BY <1>3, <1>4, <1>5, <1>6 DEF Work, Receive, Hangup, Register, RegisterCheck, RegisterReplace,
     Login, LoginCheck, LoginUpdate, PushBack, List, Transfer, Logout, Read, Search, Find, Erase,
     Reply, Result, Answered, Calls, Loops

\* Only a logout from its own address ends a session.
LEMMA SessionStays ==
    ASSUME BasicInv, NEW w \in Workers, CallAt(w), Work(w) \/ Busy(w), NEW u \in Store!Online,
           ~(Logout(w) /\ session[u].addr = conn[w])
    PROVE  u \in Store!Online' /\ session'[u] = session[u]
<1>1. AccountTypes /\ u \in DOMAIN balance /\ DOMAIN session = DOMAIN balance /\ session[u] # NoSession
  BY DEF BasicInv, FullTypes, AccountTypes, Store!Online, Store!Registered
<1>2. CASE session' = session /\ DOMAIN balance' = DOMAIN balance
  BY <1>1, <1>2 DEF Store!Online, Store!Registered
<1>3. CASE Register(w)
  <2>1. CASE RegisterReplace(w)
    BY <1>1, <2>1 DEF RegisterReplace, Replaced, CallAt, Store!Online, Store!Registered
  <2>2. CASE RegisterCheck(w)
    BY <1>2, <2>2 DEF RegisterCheck, Store!Refuse, accounts
  <2> QED
    BY <1>3, <2>1, <2>2 DEF Register
<1>4. CASE Login(w)
  <2>1. CASE LoginUpdate(w)
    BY <1>1, <2>1 DEF LoginUpdate, CallAt, Store!Online, Store!Registered
  <2>2. CASE LoginCheck(w)
    BY <1>2, <2>2 DEF LoginCheck, Store!Refuse, accounts
  <2> QED
    BY <1>4, <2>1, <2>2 DEF Login
<1>5. CASE Logout(w)
  <2>1. Store!Logout(w, conn[w]) /\ session[u].addr # conn[w]
    BY <1>5 DEF Logout
  <2>2. CASE UNCHANGED <<balance, session>>
    BY <1>2, <2>2
  <2>3. CASE \E x \in Store!At(conn[w]) : session' = [session EXCEPT ![x] = NoSession] /\ UNCHANGED balance
    BY <1>1, <2>1, <2>3 DEF Store!At, Store!Online, Store!Registered
  <2> QED
    BY <2>1, <2>2, <2>3 DEF Store!Logout, Store!Refuse
<1>6. CASE Transfer(w)
  <2>1. UNCHANGED session /\ DOMAIN balance' = DOMAIN balance
    BY <1>6 DEF Transfer, Store!Transfer, Store!Refuse
  <2> QED
    BY <1>2, <2>1
<1>7. CASE Busy(w)
  <2>1. UNCHANGED session /\ DOMAIN balance' = DOMAIN balance
    BY <1>7 DEF Busy
  <2> QED
    BY <1>2, <2>1
<1>8. CASE UNCHANGED <<balance, session>>
  BY <1>2, <1>8
<1> QED
  BY <1>3, <1>4, <1>5, <1>6, <1>7, <1>8 DEF Work, Begin, Receive, Hangup, PushBack, List,
     Read, Search, Find, Erase, Reply, Result, Close, Answered, Store!Ask, Loops, accounts

\* A session begins with a login and ends with a logout.
LEMMA SessionMoves ==
    ASSUME BasicInv, NEW w \in Workers, CallAt(w), Work(w) \/ Busy(w), InSession(w)'
    PROVE  /\ conn'[w] = conn[w]
           /\ \/ InSession(w) /\ username'[w] = username[w] /\ ~Logout(w)
              \/ /\ LoginUpdate(w) /\ username'[w] = cmd[w].name /\ pc'[w] = "push"
                 /\ username'[w] \in Store!Online' \ Store!Online
                 /\ session'[username'[w]].addr = conn[w]
<1>1. pc \in [Workers -> Places] /\ conn \in [Workers -> Conns \cup {NoConn}]
      /\ cmd \in [Workers -> Commands] /\ username \in [Workers -> Users \cup {NoUser}]
      /\ CommandAt(w)
  BY DEF BasicInv, FullTypes, TypeOK, CommandFits
<1>2. CASE Begin(w)
  BY <1>1, <1>2 DEF Begin, InSession
<1>3. CASE Receive(w) \/ Hangup(w)
  <2>1. UNCHANGED <<conn, username>> /\ pc[w] = "receive"
    BY <1>3 DEF Receive, Hangup
  <2> QED
    BY <1>3, <2>1 DEF InSession, Leaving, Logout
<1>4. CASE Login(w)
  <2>1. CASE LoginCheck(w)
    BY <1>1, <2>1 DEF LoginCheck, Goto, Calls, CommandAt, InSession, Leaving, Logout
  <2>2. CASE LoginUpdate(w)
    <3>1. UNCHANGED conn /\ username'[w] = cmd[w].name /\ pc'[w] = "push" /\ pc[w] = "login_update"
      BY <1>1, <2>2 DEF LoginUpdate, Goto, Calls
    <3>2. /\ cmd[w].name \in Store!Registered \ Store!Online
          /\ session' = [session EXCEPT ![cmd[w].name] = [addr |-> conn[w], private_port |-> "port"]]
          /\ UNCHANGED balance
      BY <2>2, <3>1 DEF LoginUpdate, CallAt
    <3>3. session \in [DOMAIN balance -> Sessions \cup {NoSession}]
      BY DEF BasicInv, FullTypes, AccountTypes
    <3>4. conn[w] \in Conns /\ [addr |-> conn[w], private_port |-> "port"] # NoSession
      BY <1>1, <3>1, ServerAssumption DEF BasicInv, FullTypes, TypeOK
    <3> QED
      BY <2>2, <3>1, <3>2, <3>3, <3>4 DEF Store!Online, Store!Registered
  <2> QED
    BY <1>4, <2>1, <2>2 DEF Login
<1>5. CASE Logout(w)
  <2>1. pc'[w] = "count" \/ (pc'[w] = "reply" /\ cmd'[w].kind = "EXIT")
    BY <1>1, <1>5 DEF Logout, Goto, Calls, CommandAt
  <2> QED
    BY <2>1 DEF InSession, Leaving
<1>6. CASE Close(w) \/ Busy(w)
  BY <1>1, <1>6 DEF Close, Busy, Ended, InSession
<1>7. CASE Register(w) \/ Transfer(w) \/ PushBack(w) \/ List(w) \/ Read(w)
  <2>1. UNCHANGED <<conn, username>> /\ pc[w] \notin {"idle", "logout", "drop"}
        /\ \/ pc[w] \in {"register", "register_replace", "transfer", "push", "list", "compose", "sender"}
           \/ pc'[w] = "find"
    BY <1>1, <1>7 DEF Register, RegisterCheck, RegisterReplace, Transfer, PushBack, List, Read, Goto, Calls
  <2>2. Leaving(w) => pc'[w] = "find"
    BY <1>1, <2>1 DEF Leaving
  <2> QED
    BY <2>1, <2>2 DEF InSession, Leaving, Logout
<1>8. CASE Search(w) \/ Find(w) \/ Erase(w) \/ Reply(w) \/ Result(w)
  <2>1. /\ UNCHANGED <<conn, username, cmd>>
        /\ pc[w] \in {"search", "find", "erase", "reply", "result"}
        /\ pc[w] \in {"find", "erase"} => pc'[w] \in {"find", "erase", "close"}
        /\ pc[w] = "reply" /\ cmd[w].kind = "EXIT" => pc'[w] = "count"
    BY <1>1, <1>8 DEF Search, Find, Erase, Reply, Result, Answered, Seek, Goto, Loops
  <2>2. ~Logout(w)
    BY <2>1 DEF Logout
  <2>3. Leaving(w) => Leaving(w)'
    BY <2>1 DEF Leaving
  <2> QED
    BY <2>1, <2>2, <2>3 DEF InSession
<1> QED
  BY <1>2, <1>3, <1>4, <1>5, <1>6, <1>7, <1>8 DEF Work

LEMMA SessionStep == SessionInv /\ [Next /\ Isolated']_vars => SessionInv'
<1> SUFFICES ASSUME SessionInv, [Next /\ Isolated']_vars PROVE ConnServed' /\ SessionOnline'
  BY BasicStep, CallsStep DEF SessionInv
<1>1. CASE UNCHANGED <<accounts, locals, line>>
  BY <1>1 DEF SessionInv, ConnServed, SessionOnline, AtItsConn, InSession, Leaving, Store!Online,
     Store!Registered, accounts, locals
<1>2. ASSUME NEW c \in Conns, ClientStep(c)
      PROVE  ConnServed' /\ SessionOnline'
  <2>1. UNCHANGED <<accounts, locals>>
    BY <1>2 DEF ClientStep, Connect, Ask, Pay, Report, Leave, Take, Depart, Closed, Process
  <2>2. SessionOnline'
    BY <2>1 DEF SessionInv, SessionOnline, AtItsConn, InSession, Leaving, Store!Online,
       Store!Registered, accounts, locals
  <2> QED
    BY <1>2, <2>2, ClientServed
<1>3. ASSUME NEW w \in Workers, Work(w) \/ Busy(w)
      PROVE  ConnServed' /\ SessionOnline'
  <2>1. SUFFICES ASSUME NEW v \in Workers, InSession(v)'
                 PROVE  username'[v] \in Store!Online' /\ session'[username'[v]].addr = conn'[v]
    BY <1>3, WorkerServed DEF SessionOnline, AtItsConn
  <2>2. BasicInv /\ CallAt(w) /\ ConnServed /\ AtItsConn(v) /\ OwnStep(w)
    BY <1>3, EachWorkerItsOwn DEF SessionInv, CallsCurrent, SessionOnline, BasicInv, FullTypes
  <2>3. CASE v = w
    BY <1>3, <2>1, <2>2, <2>3, SessionMoves, SessionStays DEF AtItsConn
  <2>4. CASE v # w
    <3>1. /\ InSession(v) /\ username'[v] = username[v] /\ conn'[v] = conn[v]
      BY <2>1, <2>2, <2>4 DEF OwnStep, InSession, Leaving, BasicInv, FullTypes, TypeOK
    <3>2. conn[v] # conn[w]
      BY <2>2, <2>4, <3>1 DEF ConnServed, InSession, BasicInv, FullTypes, TypeOK
    <3> QED
      BY <1>3, <2>2, <3>1, <3>2, SessionStays DEF AtItsConn
  <2> QED
    BY <2>3, <2>4
<1> QED
  BY <1>1, <1>2, <1>3 DEF Next, vars

LEMMA SessionAlways == Spec => []SessionInv
BY InitSession, SessionStep, PTL DEF Spec

\* As long as calls in progress at once concern different users (Isolated), no
\* two connections are logged in as one user, however connections break, calls
\* fail and clients stop waiting (OneSessionPerUser).  Without the condition two
\* logins of one user both succeed (Database.cpp:126-141).
THEOREM UsersOnce == Spec => []OneSessionPerUser
BY SessionAlways, OneUserOneConn, PTL

-----------------------------------------------------------------------------
(***************************************************************************)
(* The entries of client_fds, when sessions end one at a time.  A session  *)
(* that ends has an entry with its user's name until it erases the first   *)
(* such entry.  The same user may log in again before that; the entry of   *)
(* his new session then follows that of the old one, so that it is not     *)
(* the one erased.                                                         *)
(***************************************************************************)
ToErase(w) ==
    \/ pc[w] \in {"count", "find", "erase"}
    \/ pc[w] = "reply" /\ cmd[w].kind = "EXIT"

Entered(v) == InSession(v) /\ pc[v] # "push"

Entry(v) == [name |-> username[v], frame |-> v]

HasEntry(v) == Entered(v) => \E i \in 1 .. Len(fds) : fds[i] = Entry(v)

EntryLeft(w) ==
    ToErase(w) /\ username[w] # NoUser =>
        /\ \E i \in 1 .. Len(fds) : fds[i].name = username[w]
        /\ \A v \in Workers : v # w /\ Entered(v) /\ username[v] = username[w] =>
              \E i, j \in 1 .. Len(fds) : i < j /\ fds[i].name = username[w] /\ fds[j] = Entry(v)

\* Where a worker's search has got to.
Index(w) ==
    /\ pc[w] \notin {"search", "result", "find", "erase", "close"} => at[w] = 1
    /\ pc[w] \in {"find", "erase"} =>
          at[w] <= Len(fds) + 1 /\ \A k \in 1 .. (at[w] - 1) : fds[k].name # username[w]
    /\ pc[w] = "erase" => at[w] <= Len(fds) /\ fds[at[w]].name = username[w]

EntryInv ==
    /\ Undisturbed
    /\ \A w \in Workers : HasEntry(w) /\ EntryLeft(w) /\ Index(w)

\* An ending session ended with a logout.
LEMMA LeavingMoves ==
    ASSUME BasicInv, NEW w \in Workers, Work(w) \/ Busy(w), ToErase(w)'
    PROVE  /\ username'[w] = username[w]
           /\ ToErase(w) \/ (pc[w] \in {"logout", "drop"} /\ UNCHANGED fds)
<1>1. pc \in [Workers -> Places] /\ cmd \in [Workers -> Commands] /\ CommandAt(w)
  BY DEF BasicInv, FullTypes, TypeOK, CommandFits
<1>2. CASE Begin(w)
  BY <1>1, <1>2 DEF Begin, ToErase
<1>3. CASE Receive(w) \/ Hangup(w)
  <2>1. ASSUME NEW k \in Commands, Parsed(w, k)
        PROVE  ~ToErase(w)'
    <3>1. cmd'[w] = k /\ pc'[w] = First(k.kind)
      BY <1>1, <2>1 DEF Parsed
    <3> QED
      BY <3>1, FirstPlace DEF ToErase
  <2>2. CASE Receive(w)
    <3>1. wire[conn[w]] \in Seq(Commands) /\ wire[conn[w]] # << >>
      BY <2>2 DEF Receive, BasicInv, FullTypes, TypeOK
    <3>2. Head(wire[conn[w]]) \in Commands
      BY <3>1
    <3> QED
      BY <2>1, <2>2, <3>2 DEF Receive
  <2>3. CASE Hangup(w)
    <3>1. (\E k \in Commands : Parsed(w, k)) \/ pc'[w] \in {"drop", "receive"}
      BY <1>1, <2>3, PlainCommands DEF Hangup
    <3> QED
      BY <2>1, <3>1 DEF ToErase
  <2> QED
    BY <1>3, <2>2, <2>3
<1>4. CASE Register(w) \/ Login(w) \/ Transfer(w) \/ PushBack(w) \/ List(w)
  <2>1. /\ cmd' = cmd /\ cmd[w].kind # "EXIT"
        /\ pc'[w] \in {"reply", "register_replace", "login_update", "push", "compose", "sender"}
    BY <1>1, <1>4 DEF Register, RegisterCheck, RegisterReplace, Login, LoginCheck, LoginUpdate,
       Transfer, PushBack, List, Goto, Calls, CommandAt
  <2> QED
    BY <2>1 DEF ToErase
<1>5. CASE Logout(w)
  BY <1>5 DEF Logout, Calls, search
<1>6. CASE Read(w)
  <2>1. /\ UNCHANGED <<cmd, username>>
        /\ \/ pc[w] = "compose" /\ pc'[w] = "reply"
           \/ pc[w] = "sender" /\ pc'[w] = "search"
           \/ pc[w] = "count"
    BY <1>1, <1>6 DEF Read, Goto, Calls
  <2> QED
    BY <1>1, <2>1 DEF ToErase, CommandAt
<1>7. CASE Search(w) \/ Find(w) \/ Erase(w)
  <2>1. /\ UNCHANGED <<cmd, username>>
        /\ \/ pc[w] = "search" /\ pc'[w] \in {"search", "result"}
           \/ pc[w] \in {"find", "erase"}
    BY <1>1, <1>7 DEF Search, Find, Erase, Seek, Goto, Loops
  <2> QED
    BY <2>1 DEF ToErase
<1>8. CASE Reply(w) \/ Result(w)
  <2>1. /\ UNCHANGED <<cmd, username>>
        /\ pc'[w] = "receive" \/ (pc[w] = "reply" /\ cmd[w].kind = "EXIT")
    BY <1>1, <1>8 DEF Reply, Result, Answered, Goto
  <2> QED
    BY <2>1 DEF ToErase
<1>9. CASE Close(w) \/ Busy(w)
  BY <1>1, <1>9 DEF Close, Busy, Ended, ToErase
<1> QED
  BY <1>2, <1>3, <1>4, <1>5, <1>6, <1>7, <1>8, <1>9 DEF Work

\* How client_fds changes.
LEMMA EntriesMove ==
    ASSUME BasicInv, NEW w \in Workers, Work(w) \/ Busy(w)
    PROVE  \/ UNCHANGED fds /\ pc[w] # "push"
           \/ PushBack(w)
           \/ Erase(w)
BY DEF Work, Busy, Begin, Receive, Hangup, Register, RegisterCheck, RegisterReplace, Login,
   LoginCheck, LoginUpdate, List, Transfer, Logout, Read, Search, Find, Reply, Result, Close, Answered, Ended, Calls, Loops, search, InDatabase

LEMMA IndexOwn ==
    ASSUME BasicInv, NEW w \in Workers, Work(w) \/ Busy(w), Index(w)
    PROVE  Index(w)'
<1>1. /\ pc \in [Workers -> Places] /\ at \in [Workers -> Nat \ {0}]
      /\ cmd \in [Workers -> Commands]
      /\ fds \in Seq([name : Users, frame : Workers]) /\ Len(fds) \in Nat
  BY LenProperties DEF BasicInv, FullTypes, TypeOK
<1>2. CASE pc'[w] \notin {"find", "erase"} /\ at'[w] = 1
  BY <1>2 DEF Index
<1>3. CASE pc'[w] \in {"search", "result", "close"}
  BY <1>3 DEF Index
<1>4. CASE /\ pc[w] \notin {"search", "result", "find", "erase", "close"}
           /\ pc'[w] # "find" /\ pc'[w] # "erase" /\ UNCHANGED at
  BY <1>2, <1>4 DEF Index
<1>5. CASE Read(w)
  <2>1. UNCHANGED <<at, fds>> /\ pc'[w] \in {"reply", "search", "find"}
        /\ pc[w] \in {"compose", "sender", "count"}
    BY <1>1, <1>5 DEF Read, Goto, Calls, search
  <2> QED
    BY <1>1, <2>1 DEF Index
<1>6. CASE Find(w)
  <2>1. pc[w] = "find" /\ UNCHANGED <<fds, username>> /\ Seek(w, username[w], "erase", "close")
    BY <1>6 DEF Find, Loops
  <2>2. CASE pc'[w] = "close"
    BY <1>3, <2>2
  <2>3. CASE at[w] <= Len(fds) /\ fds[at[w]].name # username[w] /\ at' = [at EXCEPT ![w] = @ + 1]
             /\ UNCHANGED pc
    <3>1. at'[w] = at[w] + 1 /\ \A k \in 1 .. at[w] : k \in 1 .. (at[w] - 1) \/ k = at[w]
      BY <1>1, <2>3
    <3> QED
      BY <1>1, <2>1, <2>3, <3>1 DEF Index
  <2>4. CASE at[w] <= Len(fds) /\ fds[at[w]].name = username[w] /\ pc'[w] = "erase" /\ UNCHANGED at
    BY <1>1, <2>1, <2>4 DEF Index
  <2> QED
    BY <1>1, <2>1, <2>2, <2>3, <2>4 DEF Seek, Goto
<1>7. CASE Search(w) \/ Erase(w)
  BY <1>1, <1>3, <1>7 DEF Search, Erase, Seek, Goto
<1>8. CASE Reply(w) \/ Result(w)
  <2>1. at'[w] = 1 /\ pc'[w] \in {"count", "receive"}
    BY <1>1, <1>8 DEF Reply, Result, Answered, Goto
  <2> QED
    BY <1>2, <2>1
<1>9. CASE Close(w) \/ Busy(w)
  <2>1. at'[w] = 1 /\ pc'[w] = "idle"
    BY <1>1, <1>9 DEF Close, Busy, Ended
  <2> QED
    BY <1>2, <2>1
<1>10. CASE Begin(w)
  BY <1>1, <1>4, <1>10 DEF Begin, search
<1>11. CASE Receive(w) \/ Hangup(w)
  <2>1. UNCHANGED at /\ pc[w] = "receive"
    BY <1>11 DEF Receive, Hangup, search
  <2>2. pc'[w] # "find" /\ pc'[w] # "erase"
    <3>1. \A k : Parsed(w, k) => pc'[w] = First(k.kind)
      BY <1>1 DEF Parsed
    <3>2. \A k \in Commands : First(k.kind) \notin {"find", "erase"}
      BY FirstPlace
    <3>3. wire[conn[w]] # << >> /\ conn[w] \in Conns => Head(wire[conn[w]]) \in Commands
      BY DEF BasicInv, FullTypes, TypeOK
    <3>4. conn[w] \in Conns
      BY <2>1 DEF BasicInv, FullTypes, TypeOK
    <3> QED
      BY <1>1, <1>11, <2>1, <3>1, <3>2, <3>3, <3>4, PlainCommands DEF Receive, Hangup
  <2> QED
    BY <1>4, <2>1, <2>2
<1>12. CASE Register(w) \/ Login(w) \/ Transfer(w) \/ List(w) \/ Logout(w)
  <2>1. UNCHANGED at /\ pc[w] \in {"register", "register_replace", "login", "login_update",
                                   "transfer", "list", "logout", "drop"}
        /\ pc'[w] # "find" /\ pc'[w] # "erase"
    BY <1>1, <1>12 DEF Register, RegisterCheck, RegisterReplace, Login, LoginCheck, LoginUpdate,
       Transfer, List, Logout, Goto, Calls, search
  <2> QED
    BY <1>4, <2>1
<1>13. CASE PushBack(w)
  BY <1>1, <1>4, <1>13 DEF PushBack, Goto
<1> QED
  BY <1>5, <1>6, <1>7, <1>8, <1>9, <1>10, <1>11, <1>12, <1>13 DEF Work

\* What a worker's step leaves alone of the others.
LEMMA OthersAlone ==
    ASSUME FullTypes, NEW w \in Workers, OwnStep(w), NEW v \in Workers, v # w
    PROVE  /\ pc'[v] = pc[v] /\ conn'[v] = conn[v] /\ username'[v] = username[v]
           /\ cmd'[v] = cmd[v] /\ at'[v] = at[v] /\ target'[v] = target[v]
           /\ Entered(v)' = Entered(v) /\ ToErase(v)' = ToErase(v) /\ Entry(v)' = Entry(v)
<1>1. /\ pc'[v] = pc[v] /\ conn'[v] = conn[v] /\ username'[v] = username[v]
      /\ cmd'[v] = cmd[v] /\ at'[v] = at[v] /\ target'[v] = target[v]
  BY DEF OwnStep, FullTypes, TypeOK
<1> QED
  BY <1>1 DEF Entered, InSession, Leaving, ToErase, Entry

\* A session that had no entry yet gets it by push_back only.
LEMMA EnteredMoves ==
    ASSUME BasicInv, NEW w \in Workers, CallAt(w), Work(w) \/ Busy(w), pc[w] # "push", Entered(w)'
    PROVE  Entered(w) /\ Entry(w)' = Entry(w)
BY SessionMoves DEF Entered, Entry

\* Steps that leave client_fds as it is.
LEMMA EntriesUnchanged ==
    ASSUME SessionInv, EntryInv, NEW w \in Workers, Work(w) \/ Busy(w),
           UNCHANGED fds, pc[w] # "push", NEW v \in Workers
    PROVE  HasEntry(v)' /\ EntryLeft(v)' /\ Index(v)'
<1>1. BasicInv /\ FullTypes /\ CallAt(w) /\ OwnStep(w)
  BY EachWorkerItsOwn DEF SessionInv, CallsCurrent, BasicInv, FullTypes
<1>2. \A x \in Workers : Entered(x)' => Entered(x) /\ Entry(x)' = Entry(x)
  BY <1>1, OthersAlone, EnteredMoves
<1>3. \A x \in Workers : HasEntry(x) /\ EntryLeft(x) /\ Index(x)
  BY DEF EntryInv
<1>4. HasEntry(v)'
  BY <1>2, <1>3 DEF HasEntry
<1>5. Index(v)'
  BY <1>1, <1>3, IndexOwn, OthersAlone DEF Index
<1>6. EntryLeft(v)'
  <2>1. SUFFICES ASSUME ToErase(v)', username'[v] # NoUser PROVE EntryLeft(v)'
    BY DEF EntryLeft
  <2>2. username'[v] = username[v]
    BY <1>1, <2>1, LeavingMoves, OthersAlone
  <2>3. \A x \in Workers : Entered(x)' => username'[x] = username[x]
    BY <1>2 DEF Entry
  <2>4. CASE ToErase(v)
    BY <1>2, <1>3, <2>1, <2>2, <2>3, <2>4 DEF EntryLeft
  <2>5. CASE ~ToErase(v)
    <3>1. v = w /\ pc[v] \in {"logout", "drop"}
      BY <1>1, <2>1, <2>5, LeavingMoves, OthersAlone
    <3>2. Entered(v)
      BY <2>1, <2>2, <3>1 DEF Entered, InSession, Leaving
    <3>3. PICK i \in 1 .. Len(fds) : fds[i] = Entry(v)
      BY <1>3, <3>2 DEF HasEntry
    <3>4. fds[i].name = username[v]
      BY <3>3 DEF Entry
    <3>5. \A x \in Workers : x # v /\ Entered(x)' => username'[x] # username'[v]
      BY <1>2, <2>2, <2>3, <3>2, OneUserOneConn DEF OneSessionPerUser, Entered
    <3> QED
      BY <2>2, <3>4, <3>5 DEF EntryLeft
  <2> QED
    BY <2>4, <2>5
<1> QED
  BY <1>4, <1>5, <1>6

LEMMA EntriesPushed ==
    ASSUME SessionInv, EntryInv, NEW w \in Workers, PushBack(w), NEW v \in Workers
    PROVE  HasEntry(v)' /\ EntryLeft(v)' /\ Index(v)'
<1>1. BasicInv /\ FullTypes /\ OwnStep(w) /\ Work(w)
  BY EachWorkerItsOwn DEF SessionInv, BasicInv, FullTypes, Work
<1>2. \A x \in Workers : HasEntry(x) /\ EntryLeft(x) /\ Index(x)
  BY DEF EntryInv
<1>3. /\ pc'[w] = "compose" /\ username' = username /\ username[w] # NoUser
      /\ username[w] \in Users /\ fds' = Append(fds, Entry(w))
  BY <1>1 DEF PushBack, Goto, Entry, BasicInv, FullTypes, TypeOK, CommandFits, CommandAt
<1>4. /\ Len(fds) \in Nat /\ Len(fds') = Len(fds) + 1 /\ fds'[Len(fds) + 1] = Entry(w)
      /\ \A i \in 1 .. Len(fds) : fds'[i] = fds[i] /\ i \in 1 .. Len(fds') /\ i < Len(fds) + 1
      /\ Len(fds) + 1 \in 1 .. Len(fds')
  <2>1. fds \in Seq([name : Users, frame : Workers])
    BY <1>1 DEF FullTypes, TypeOK
  <2> QED
    BY <1>3, <2>1
<1>5. \A x \in Workers : Entry(x)' = Entry(x)
  BY <1>3 DEF Entry
<1>6. \A x \in Workers : Entered(x)' => Entered(x) \/ x = w
  BY <1>1, OthersAlone
<1>7. ~ToErase(w)'
  BY <1>3 DEF ToErase
<1>8. HasEntry(v)'
  BY <1>2, <1>4, <1>5, <1>6 DEF HasEntry
<1>9. Index(v)'
  <2>1. CASE v = w
    BY <1>1, <1>2, <2>1, IndexOwn
  <2>2. CASE v # w
    <3>1. /\ pc'[v] = pc[v] /\ at'[v] = at[v] /\ username'[v] = username[v]
          /\ at[v] \in Nat \ {0} /\ Index(v)
      BY <1>1, <1>2, <2>2, OthersAlone DEF FullTypes, TypeOK
    <3>2. CASE pc[v] \in {"find", "erase"}
      <4>1. /\ at[v] <= Len(fds) + 1 /\ \A k \in 1 .. (at[v] - 1) : fds[k].name # username[v]
            /\ pc[v] = "erase" => at[v] <= Len(fds) /\ fds[at[v]].name = username[v]
        BY <3>1, <3>2 DEF Index
      <4>2. \A k \in 1 .. (at[v] - 1) : k \in 1 .. Len(fds)
        BY <1>4, <3>1, <4>1
      <4>3. at[v] <= Len(fds) => at[v] \in 1 .. Len(fds)
        BY <1>4, <3>1
      <4>4. at[v] <= Len(fds') + 1 /\ (at[v] <= Len(fds) => at[v] <= Len(fds'))
        BY <1>4, <3>1, <4>1
      <4> QED
        BY <1>4, <3>1, <3>2, <4>1, <4>2, <4>3, <4>4 DEF Index
    <3>3. CASE pc[v] \notin {"find", "erase"}
      BY <3>1, <3>3 DEF Index
    <3> QED
      BY <3>2, <3>3
  <2> QED
    BY <2>1, <2>2
<1>10. EntryLeft(v)'
  <2>1. SUFFICES ASSUME ToErase(v)', username'[v] # NoUser PROVE EntryLeft(v)'
    BY DEF EntryLeft
  <2>2. v # w /\ ToErase(v) /\ username[v] # NoUser
    BY <1>1, <1>3, <1>7, <2>1, OthersAlone
  <2>3. PICK i \in 1 .. Len(fds) : fds[i].name = username[v]
    BY <1>2, <2>2 DEF EntryLeft
  <2>4. ASSUME NEW x \in Workers, x # v, Entered(x)', username'[x] = username'[v]
        PROVE  \E k, j \in 1 .. Len(fds') :
                  k < j /\ fds'[k].name = username'[v] /\ fds'[j] = Entry(x)'
    <3>1. CASE x = w
      BY <1>3, <1>4, <1>5, <2>3, <3>1
    <3>2. CASE x # w
      <4>1. PICK k, j \in 1 .. Len(fds) : k < j /\ fds[k].name = username[v] /\ fds[j] = Entry(x)
        BY <1>2, <1>3, <1>6, <2>2, <2>4, <3>2 DEF EntryLeft
      <4> QED
        BY <1>3, <1>4, <1>5, <4>1
    <3> QED
      BY <3>1, <3>2
  <2>5. fds'[i].name = username'[v] /\ i \in 1 .. Len(fds')
    BY <1>3, <1>4, <2>3
  <2> QED
    BY <2>4, <2>5 DEF EntryLeft
<1> QED
  BY <1>8, <1>9, <1>10

\* The erase at the end of a session takes the first entry with its user's
\* name, after which no session is left that is ending.
LEMMA EntriesErased ==
    ASSUME SessionInv, EntryInv, NEW w \in Workers, Erase(w), NEW v \in Workers
    PROVE  HasEntry(v)' /\ EntryLeft(v)' /\ Index(v)'
<1>1. BasicInv /\ FullTypes /\ OwnStep(w) /\ Work(w)
  BY EachWorkerItsOwn DEF SessionInv, BasicInv, FullTypes, Work
<1>2. \A x \in Workers : HasEntry(x) /\ EntryLeft(x) /\ Index(x)
  BY DEF EntryInv
<1>3. /\ fds \in Seq([name : Users, frame : Workers]) /\ Len(fds) \in Nat
      /\ at[w] \in Nat \ {0} /\ pc \in [Workers -> Places]
  BY <1>1, LenProperties DEF FullTypes, TypeOK
<1>4. pc[w] = "erase" /\ pc'[w] = "close"
  BY <1>3 DEF Erase, Goto
<1>5. /\ at[w] \in 1 .. Len(fds) /\ fds[at[w]].name = username[w]
      /\ \A k \in 1 .. (at[w] - 1) : fds[k].name # username[w]
      /\ fds' = RemoveAt(fds, at[w])
  <2>1. /\ at[w] <= Len(fds) /\ fds[at[w]].name = username[w]
        /\ \A k \in 1 .. (at[w] - 1) : fds[k].name # username[w]
    BY <1>2, <1>4 DEF Index
  <2>2. ~(at[w] > Len(fds)) /\ at[w] \in 1 .. Len(fds)
    BY <1>3, <2>1
  <2>3. fds' = RemoveAt(fds, at[w])
    BY <2>2 DEF Erase
  <2> QED
    BY <2>1, <2>2, <2>3
<1>6. /\ Len(fds') = Len(fds) - 1
      /\ \A j \in 1 .. (Len(fds) - 1) : fds'[j] = IF j < at[w] THEN fds[j] ELSE fds[j + 1]
  BY <1>3, <1>5, RemovedAt
<1>7. username[w] # NoUser
  <2>1. fds[at[w]] \in [name : Users, frame : Workers]
    BY <1>3, <1>5, ElementOfSeq
  <2> QED
    BY <1>5, <2>1, ServerAssumption
<1>8. v # w => ~Leaving(v)
  BY <1>4 DEF EntryInv, Undisturbed, Leaving
<1>9. EntryLeft(v)'
  <2>1. ~ToErase(v)'
    BY <1>1, <1>4, <1>8, OthersAlone DEF Leaving, ToErase
  <2> QED
    BY <2>1 DEF EntryLeft
<1>10. Index(v)'
  <2>1. CASE v = w
    BY <1>1, <1>2, <2>1, IndexOwn
  <2>2. CASE v # w
    <3>1. pc'[v] = pc[v] /\ at'[v] = at[v] /\ pc[v] \notin {"find", "erase"} /\ Index(v)
      BY <1>1, <1>2, <1>8, <2>2, OthersAlone DEF Leaving
    <3> QED
      BY <3>1 DEF Index
  <2> QED
    BY <2>1, <2>2
<1>11. HasEntry(v)'
  <2>1. SUFFICES ASSUME Entered(v)' PROVE \E i \in 1 .. Len(fds') : fds'[i] = Entry(v)'
    BY DEF HasEntry
  <2>2. v # w /\ Entered(v) /\ Entry(v)' = Entry(v)
    BY <1>1, <1>4, <2>1, OthersAlone DEF Entered, InSession, Leaving
  <2>3. \E j \in 1 .. Len(fds) : j # at[w] /\ fds[j] = Entry(v)
    <3>1. PICK j \in 1 .. Len(fds) : fds[j] = Entry(v)
      BY <1>2, <2>2 DEF HasEntry
    <3>2. CASE j = at[w]
      <4>1. username[v] = username[w]
        BY <1>5, <3>1, <3>2 DEF Entry
      <4>2. ToErase(w)
        BY <1>4 DEF ToErase
      <4>3. PICK k, m \in 1 .. Len(fds) : k < m /\ fds[k].name = username[w] /\ fds[m] = Entry(v)
        BY <1>2, <1>7, <2>2, <4>1, <4>2 DEF EntryLeft
      <4>4. at[w] <= k
        BY <1>3, <1>5, <4>3
      <4> QED
        BY <1>3, <4>3, <4>4
    <3> QED
      BY <3>1, <3>2
  <2>4. PICK j \in 1 .. Len(fds) : j # at[w] /\ fds[j] = Entry(v)
    BY <2>3
  <2>5. CASE j < at[w]
    <3>1. j \in 1 .. (Len(fds) - 1)
      BY <1>3, <1>5, <2>5
    <3> QED
      BY <1>6, <2>2, <2>4, <2>5, <3>1
  <2>6. CASE at[w] < j
    <3>1. j - 1 \in 1 .. (Len(fds) - 1) /\ ~(j - 1 < at[w]) /\ (j - 1) + 1 = j
      BY <1>3, <1>5, <2>6
    <3>2. fds'[j - 1] = fds[j]
      BY <1>6, <3>1
    <3> QED
      BY <1>6, <2>2, <2>4, <3>1, <3>2
  <2> QED
    BY <1>3, <2>4, <2>5, <2>6
<1> QED
  BY <1>9, <1>10, <1>11

LEMMA InitEntries == Init => EntryInv
<1> SUFFICES ASSUME Init PROVE EntryInv
  OBVIOUS
<1>1. \A w \in Workers : pc[w] = "idle" /\ at[w] = 1
  BY DEF Init
<1>2. Undisturbed
  BY <1>1 DEF Undisturbed, Leaving
<1>3. \A w \in Workers : HasEntry(w) /\ EntryLeft(w) /\ Index(w)
  BY <1>1 DEF HasEntry, Entered, InSession, EntryLeft, ToErase, Index
<1> QED
  BY <1>2, <1>3 DEF EntryInv

LEMMA EntryStep ==
    SessionInv /\ EntryInv /\ [Next /\ Isolated' /\ Undisturbed']_vars => EntryInv'
<1> SUFFICES ASSUME SessionInv, EntryInv, [Next /\ Isolated' /\ Undisturbed']_vars
             PROVE  EntryInv'
  OBVIOUS
<1>1. CASE UNCHANGED <<locals, search>>
  <2>1. UNCHANGED <<pc, username, cmd, fds, at>>
    BY <1>1 DEF locals, search
  <2>2. Undisturbed'
    BY <2>1 DEF EntryInv, Undisturbed, Leaving, Routing
  <2>3. \A v \in Workers : HasEntry(v)' /\ EntryLeft(v)' /\ Index(v)'
    BY <2>1 DEF EntryInv, HasEntry, EntryLeft, Index, Entered, Entry, InSession, Leaving, ToErase
  <2> QED
    BY <2>2, <2>3 DEF EntryInv
<1>2. ASSUME NEW c \in Conns, ClientStep(c)
      PROVE  UNCHANGED <<locals, search>>
  BY <1>2 DEF ClientStep, Connect, Ask, Pay, Report, Leave, Take, Depart, Closed, Process
<1>3. ASSUME NEW w \in Workers, Work(w) \/ Busy(w), Undisturbed'
      PROVE  EntryInv'
  <2>1. SUFFICES ASSUME NEW v \in Workers PROVE HasEntry(v)' /\ EntryLeft(v)' /\ Index(v)'
    BY <1>3 DEF EntryInv
  <2>2. CASE UNCHANGED fds /\ pc[w] # "push"
    BY <1>3, <2>2, EntriesUnchanged
  <2>3. CASE PushBack(w)
    BY <2>3, EntriesPushed
  <2>4. CASE Erase(w)
    BY <2>4, EntriesErased
  <2> QED
    BY <1>3, <2>2, <2>3, <2>4, EntriesMove DEF SessionInv
<1> QED
  BY <1>1, <1>2, <1>3 DEF Next, vars

LEMMA OrderlyIsSpec == OrderlySpec => Spec
<1>1. [Next /\ Isolated' /\ Undisturbed']_vars => [Next /\ Isolated']_vars
  OBVIOUS
<1> QED
  BY <1>1, PTL DEF OrderlySpec, Spec

LEMMA EntriesAlways == OrderlySpec => []EntryInv
BY InitEntries, EntryStep, OrderlyIsSpec, SessionAlways, PTL DEF OrderlySpec

\* As long as calls in progress at once concern different users and sessions
\* end one at a time, and however connections break and calls fail, each
\* session keeps its entry in client_fds (SessionHasEntry): the entry erased at
\* the end of another is not the one of a session that goes on, not even of the
\* same user, who may log in again before the entry is erased.
THEOREM EntriesKept == OrderlySpec => []SessionHasEntry
<1>1. SessionInv /\ EntryInv => SessionHasEntry
  <2>1. SessionInv => DOMAIN fds = 1 .. Len(fds)
    BY LenProperties DEF SessionInv, BasicInv, FullTypes, TypeOK
  <2> QED
    BY <2>1 DEF EntryInv, HasEntry, Entered, Entry, SessionHasEntry
<1> QED
  BY <1>1, EntriesAlways, OrderlyIsSpec, SessionAlways, PTL

-----------------------------------------------------------------------------
(***************************************************************************)
(* What the clients are told, when calls in progress at once concern       *)
(* different users, sessions end one at a time and nothing else goes wrong *)
(* (Faults = {}).  The invariant TalkInv follows a command from the client *)
(* that asks to the answer it takes, by way of the payee when it is a      *)
(* payment: a client waits for one answer, exactly one command, message or *)
(* answer of it is on its way, and the entry of client_fds that the result *)
(* of a payment is sent through is that of the payer's session, since who  *)
(* waits does not leave.                                                   *)
(***************************************************************************)
\* The commands in a queue, which never holds the same one twice.
Cmds(s) == {s[i] : i \in 1 .. Len(s)}

NoTwice(s) == \A i, j \in 1 .. Len(s) : s[i] = s[j] => i = j

Past(w) == pc[w] \in {"idle", "count", "find", "erase", "close"}

\* The worker answers its client; it carries a payment.
Handling(w) ==
    pc[w] \in {"register", "register_replace", "login", "login_update", "push", "list", "logout",
              "compose", "reply"}

Carrying(w) == pc[w] \in {"transfer", "sender", "search", "result"}

LoggingIn(w) ==
    cmd[w].kind = "LOGIN" /\ pc[w] \in {"push", "compose", "reply"} /\ status[w] = "LOGIN_SUCCESS"

LoginGranted(c) ==
    /\ mode[c] = "asked" /\ asked[c].kind = "LOGIN"
    /\ back[c] # << >> /\ Head(back[c]).code = "LOGIN_SUCCESS"

Waits(c) == mode[c] \in {"asked", "leaving"} /\ back[c] = << >>

-----------------------------------------------------------------------------
(***************************************************************************)
(* One connection.                                                         *)
(***************************************************************************)
Queues(c) ==
    /\ NoTwice(wire[c]) /\ NoTwice(mail[c])
    /\ \A k \in Cmds(mail[c]) : k.kind = "TRANSACTION"
    /\ mode[c] \in {"away", "line"} => me[c] = {} /\ mail[c] = << >>
    /\ mode[c] = "line" => wire[c] = << >>

Question(c) ==
    /\ mode[c] = "asked" => asked[c].kind \in {"REGISTER", "LOGIN", "LIST", "TRANSACTION"}
    /\ mode[c] = "asked" /\ asked[c].kind = "LOGIN" => me[c] = {}
    /\ mode[c] = "leaving" => asked[c] = Plain("EXIT")

\* What the client asked is on its way to the server,
OnTheWay(c) ==
    \A k \in Cmds(wire[c]) : k.kind # "TRANSACTION" =>
        /\ k = asked[c] /\ Waits(c)
        /\ \A w \in Workers : conn[w] = c => ~Handling(w)

\* or is being carried out,
CarriedOut(c) ==
    \A w \in Workers : conn[w] = c =>
        /\ ~Past(w) => mode[c] \in {"free", "asked", "leaving"} /\ pc[w] # "drop"
        /\ Handling(w) => cmd[w] = asked[c] /\ Waits(c) /\ cmd[w].kind # "TRANSACTION"
        /\ ~Past(w) /\ me[c] = {} /\ username[w] # NoUser => LoggingIn(w) \/ LoginGranted(c)

\* or has been answered.
AnsweredRight(c) ==
    back[c] # << >> =>
        /\ mode[c] \in {"asked", "leaving"} /\ Len(back[c]) = 1 /\ Head(back[c]).of = asked[c]
        /\ mode[c] = "leaving" => \A w \in Workers : conn[w] = c => Past(w)
        /\ LoginGranted(c) =>
              \E w \in Workers : conn[w] = c /\ username[w] = asked[c].name /\ Entered(w)

\* Who the client believes it is.
MeServed(c) ==
    mode[c] \in {"free", "asked"} =>
        \A u \in me[c] : \E w \in Workers : conn[w] = c /\ username[w] = u /\ Entered(w)

ConnInv(c) ==
    Queues(c) /\ Question(c) /\ OnTheWay(c) /\ CarriedOut(c) /\ AnsweredRight(c) /\ MeServed(c)

(***************************************************************************)
(* The payments on their way.  Each is in one place, and its payer waits   *)
(* for its result.                                                         *)
(***************************************************************************)
Spots == ({"mail", "wire"} \X Conns) \cup ({"worker"} \X Workers)

Held(p) ==
    IF p[1] = "mail" THEN Cmds(mail[p[2]])
    ELSE IF p[1] = "wire" THEN {k \in Cmds(wire[p[2]]) : k.kind = "TRANSACTION"}
    ELSE {k \in {cmd[p[2]]} : Carrying(p[2])}

OwedTo(c, k) == mode[c] = "asked" /\ asked[c] = k /\ k.payer \in me[c] /\ back[c] = << >>

TokenInv ==
    \A p \in Spots : \A k \in Held(p) :
        /\ \E c \in Conns : OwedTo(c, k)
        /\ \A q \in Spots : k \in Held(q) => q = p

(***************************************************************************)
(* Workers, who is online, and client_fds.                                 *)
(***************************************************************************)
LoginInv(w) ==
    /\ LoggingIn(w) => username[w] = cmd[w].name
    /\ pc[w] \in {"push", "compose"} /\ cmd[w].kind = "LOGIN" => status[w] = "LOGIN_SUCCESS"

LineInv == \A i \in 1 .. Len(line) : mode[line[i]] = "line"

OnlineInv ==
    \A u \in Store!Online :
        \E w \in Workers : conn[w] = session[u].addr /\ username[w] = u /\ InSession(w)

LiveEntry(i) ==
    /\ username[fds[i].frame] = fds[i].name
    /\ Entered(fds[i].frame) \/ ToErase(fds[i].frame)

LiveInv ==
    /\ \A i \in 1 .. Len(fds) : LiveEntry(i)
    /\ \A i, j \in 1 .. Len(fds) : fds[i].frame = fds[j].frame => i = j

RouteInv(w) ==
    /\ pc[w] = "search" =>
          at[w] <= Len(fds) + 1 /\ \A k \in 1 .. (at[w] - 1) : fds[k].name # cmd[w].payer
    /\ pc[w] = "result" =>
          \E v \in Workers : target[w] = {v} /\ Entered(v) /\ username[v] = cmd[w].payer

TalkInv ==
    /\ SessionInv /\ EntryInv
    /\ \A c \in Conns : ConnInv(c)
    /\ TokenInv /\ LineInv /\ OnlineInv /\ LiveInv
    /\ \A w \in Workers : LoginInv(w) /\ RouteInv(w)

-----------------------------------------------------------------------------
(***************************************************************************)
(* Queues.                                                                 *)
(***************************************************************************)
LEMMA EmptyQueue == Cmds(<< >>) = {} /\ NoTwice(<< >>)
BY DEF Cmds, NoTwice

LEMMA QueueAppend ==
    ASSUME NEW S, NEW s \in Seq(S), NEW x \in S
    PROVE  /\ Cmds(Append(s, x)) = Cmds(s) \cup {x}
           /\ NoTwice(s) /\ x \notin Cmds(s) => NoTwice(Append(s, x))
<1>1. /\ Len(s) \in Nat /\ Len(Append(s, x)) = Len(s) + 1
      /\ \A i \in 1 .. Len(s) : Append(s, x)[i] = s[i]
      /\ Append(s, x)[Len(s) + 1] = x
  OBVIOUS
<1>2. \A i : i \in 1 .. (Len(s) + 1) <=> i \in 1 .. Len(s) \/ i = Len(s) + 1
  BY <1>1
<1>3. Cmds(Append(s, x)) = Cmds(s) \cup {x}
  BY <1>1, <1>2 DEF Cmds
<1>4. ASSUME NoTwice(s), x \notin Cmds(s)
      PROVE  NoTwice(Append(s, x))
  <2>1. \A i \in 1 .. Len(s) : s[i] # x
    BY <1>4 DEF Cmds
  <2> QED
    BY <1>1, <1>2, <1>4, <2>1 DEF NoTwice
<1> QED
  BY <1>3, <1>4

LEMMA QueueTail ==
    ASSUME NEW S, NEW s \in Seq(S), s # << >>, NoTwice(s)
    PROVE  /\ Head(s) \in Cmds(s) /\ Head(s) \in S
           /\ Cmds(Tail(s)) = Cmds(s) \ {Head(s)}
           /\ NoTwice(Tail(s))
<1>1. /\ Len(s) \in Nat \ {0} /\ Len(Tail(s)) = Len(s) - 1 /\ Head(s) = s[1]
      /\ \A i \in 1 .. (Len(s) - 1) : Tail(s)[i] = s[i + 1]
  OBVIOUS
<1>2. 1 \in 1 .. Len(s) /\ s[1] \in S
  BY <1>1, ElementOfSeq
<1>3. \A i : i \in 1 .. (Len(s) - 1) => i + 1 \in 1 .. Len(s) /\ i + 1 # 1
  BY <1>1
<1>4. \A i : i \in 1 .. Len(s) => i = 1 \/ (i - 1 \in 1 .. (Len(s) - 1) /\ (i - 1) + 1 = i)
  BY <1>1
<1>5. \A i \in 1 .. (Len(s) - 1) : Tail(s)[i] \in Cmds(s) /\ Tail(s)[i] # Head(s)
  BY <1>1, <1>2, <1>3 DEF Cmds, NoTwice
<1>6. \A i \in 1 .. Len(s) : s[i] # Head(s) => s[i] \in Cmds(Tail(s))
  BY <1>1, <1>4 DEF Cmds
<1>7. Cmds(Tail(s)) = Cmds(s) \ {Head(s)}
  BY <1>1, <1>5, <1>6 DEF Cmds
<1>8. NoTwice(Tail(s))
  <2>1. SUFFICES ASSUME NEW i \in 1 .. (Len(s) - 1), NEW j \in 1 .. (Len(s) - 1),
                        s[i + 1] = s[j + 1]
                 PROVE  i = j
    BY <1>1 DEF NoTwice
  <2>2. i + 1 = j + 1
    BY <1>3, <2>1 DEF NoTwice
  <2> QED
    BY <2>2
<1> QED
  BY <1>1, <1>2, <1>7, <1>8 DEF Cmds

LEMMA QueueTyped ==
    ASSUME NEW S, NEW s \in Seq(S)
    PROVE  Cmds(s) \subseteq S
BY ElementOfSeq DEF Cmds

-----------------------------------------------------------------------------
(***************************************************************************)
(* What the invariant says of a state.                                     *)
(***************************************************************************)
LEMMA TypesOfTalk ==
    ASSUME TalkInv
    PROVE  /\ BasicInv /\ FullTypes /\ ConnServed /\ SessionInv /\ EntryInv
           /\ pc \in [Workers -> Places] /\ conn \in [Workers -> Conns \cup {NoConn}]
           /\ \A w \in Workers : conn[w] = NoConn <=> pc[w] = "idle"
           /\ username \in [Workers -> Users \cup {NoUser}] /\ cmd \in [Workers -> Commands]
           /\ status \in [Workers -> Codes] /\ at \in [Workers -> Nat \ {0}]
           /\ target \in [Workers -> SUBSET Workers]
           /\ fds \in Seq([name : Users, frame : Workers])
           /\ line \in Seq(Conns)
           /\ mode \in [Conns -> {"away", "line", "free", "asked", "leaving"}]
           /\ asked \in [Conns -> Commands] /\ me \in [Conns -> SUBSET Users]
           /\ wire \in [Conns -> Seq(Commands)] /\ mail \in [Conns -> Seq(Commands)]
           /\ back \in [Conns -> Seq(Messages)]
BY DEF TalkInv, SessionInv, BasicInv, FullTypes, TypeOK, AccountTypes

\* A connection is served by one worker.
LEMMA OneWorker ==
    ASSUME TalkInv, NEW v \in Workers, NEW w \in Workers, conn[v] = conn[w], conn[v] \in Conns
    PROVE  v = w
BY TypesOfTalk, ServerAssumption DEF ConnServed

\* A user is served on one connection.
LEMMA OneSession ==
    ASSUME TalkInv, NEW v \in Workers, NEW w \in Workers, Entered(v), Entered(w),
           username[v] = username[w]
    PROVE  v = w
BY OneUserOneConn DEF TalkInv, OneSessionPerUser, Entered

\* Who logs in was not logged in, on his connection either.
LEMMA AtLogin ==
    ASSUME TalkInv, NEW w \in Workers, pc[w] \in {"login", "login_update"}
    PROVE  /\ conn[w] \in Conns /\ mode[conn[w]] = "asked" /\ me[conn[w]] = {}
           /\ cmd[w] = asked[conn[w]] /\ back[conn[w]] = << >>
           /\ username[w] = NoUser
<1>1. conn[w] \in Conns /\ cmd[w].kind = "LOGIN"
  BY TypesOfTalk DEF BasicInv, CommandFits, CommandAt
<1>2. CarriedOut(conn[w]) /\ Question(conn[w])
  BY <1>1 DEF TalkInv, ConnInv
<1>3. cmd[w] = asked[conn[w]] /\ Waits(conn[w]) /\ ~Past(w)
  BY <1>1, <1>2 DEF CarriedOut, Handling, Past
<1>4. mode[conn[w]] = "asked" /\ me[conn[w]] = {}
  BY <1>1, <1>2, <1>3 DEF Question, Waits, Plain
<1>5. ~LoggingIn(w) /\ ~LoginGranted(conn[w])
  BY <1>3 DEF LoggingIn, LoginGranted, Waits
<1> QED
  BY <1>1, <1>2, <1>3, <1>4, <1>5 DEF CarriedOut, Waits

\* Who asks to end the session waits for the answer.
LEMMA AtLogout ==
    ASSUME TalkInv, NEW w \in Workers, Logout(w)
    PROVE  conn[w] \in Conns /\ mode[conn[w]] = "leaving" /\ pc[w] = "logout" /\ cmd[w].kind = "EXIT"
<1>1. conn[w] \in Conns /\ pc[w] \in {"logout", "drop"}
  BY TypesOfTalk DEF Logout
<1>2. CarriedOut(conn[w]) /\ Question(conn[w])
  BY <1>1 DEF TalkInv, ConnInv
<1>3. pc[w] = "logout" /\ cmd[w] = asked[conn[w]] /\ Waits(conn[w])
  BY <1>1, <1>2 DEF CarriedOut, Handling, Past
<1>4. cmd[w].kind = "EXIT"
  BY <1>3, TypesOfTalk DEF BasicInv, CommandFits, CommandAt
<1> QED
  BY <1>1, <1>2, <1>3, <1>4 DEF Question, Waits

\* The payer of a payment that is carried out has a session and waits.
LEMMA PayerWaits ==
    ASSUME TalkInv, NEW w \in Workers, Carrying(w)
    PROVE  \E v \in Workers :
              /\ Entered(v) /\ username[v] = cmd[w].payer
              /\ conn[v] \in Conns /\ OwedTo(conn[v], cmd[w])
<1>1. <<"worker", w>> \in Spots /\ cmd[w] \in Held(<<"worker", w>>)
  BY DEF Spots, Held
<1>2. PICK c \in Conns : OwedTo(c, cmd[w])
  BY <1>1 DEF TalkInv, TokenInv
<1>3. MeServed(c)
  BY DEF TalkInv, ConnInv
<1> QED
  BY <1>2, <1>3 DEF MeServed, OwedTo

\* Nobody hangs up and no call of the database fails.
LEMMA NoDisturbance ==
    ASSUME TalkInv, Faults = {}, NEW w \in Workers
    PROVE  ~Hangup(w) /\ ~Busy(w)
<1>1. ASSUME Hangup(w)
      PROVE  FALSE
  <2>1. conn[w] \in Conns /\ pc[w] = "receive" /\ mode[conn[w]] = "away"
    BY <1>1, TypesOfTalk DEF Hangup, Connected
  <2>2. CarriedOut(conn[w])
    BY <2>1 DEF TalkInv, ConnInv
  <2> QED
    BY <2>1, <2>2 DEF CarriedOut, Past
<1> QED
  BY <1>1 DEF Busy

\* A session whose user did not log out or in goes on.
LEMMA SessionGoesOn ==
    ASSUME TalkInv, Faults = {}, NEW w \in Workers, Work(w), InSession(w), ~Logout(w)
    PROVE  /\ InSession(w)' /\ username'[w] = username[w] /\ conn'[w] = conn[w]
           /\ Entered(w) => Entered(w)'
<1> USE TypesOfTalk
<1>1. pc[w] # "idle" /\ ~Leaving(w) /\ username[w] # NoUser /\ ~Hangup(w) /\ CommandAt(w)
      /\ pc[w] \notin {"login", "login_update"}
  BY NoDisturbance, AtLogin DEF InSession, BasicInv, CommandFits
<1>2. CASE Receive(w)
  <2>1. wire[conn[w]] \in Seq(Commands) /\ wire[conn[w]] # << >>
    BY <1>2 DEF Receive
  <2>2. Head(wire[conn[w]]) \in Commands
    BY <2>1
  <2>3. /\ cmd'[w] = Head(wire[conn[w]]) /\ pc'[w] = First(cmd'[w].kind)
        /\ UNCHANGED <<conn, username>>
    BY <1>2 DEF Receive, Parsed
  <2> QED
    BY <1>1, <2>2, <2>3, FirstPlace DEF InSession, Leaving, Entered
<1>3. CASE Register(w) \/ PushBack(w) \/ List(w) \/ Transfer(w) \/ Read(w)
  <2>1. /\ UNCHANGED <<conn, username, cmd>> /\ cmd[w].kind # "EXIT"
        /\ pc'[w] \in {"reply", "register_replace", "compose", "sender", "search"}
    BY <1>1, <1>3 DEF Register, RegisterCheck, RegisterReplace, PushBack, List, Transfer, Read,
       Goto, Calls, CommandAt, Leaving
  <2> QED
    BY <1>1, <2>1 DEF InSession, Leaving, Entered
<1>4. CASE Search(w)
  <2>1. UNCHANGED <<conn, username>> /\ pc'[w] \in {"search", "result"}
    BY <1>4 DEF Search, Seek, Goto, Loops
  <2> QED
    BY <1>1, <2>1 DEF InSession, Leaving, Entered
<1>5. CASE Reply(w) \/ Result(w)
  <2>1. UNCHANGED <<conn, username>> /\ pc'[w] = "receive"
    BY <1>1, <1>5 DEF Reply, Result, Goto, Answered, Leaving
  <2> QED
    BY <1>1, <2>1 DEF InSession, Leaving, Entered
<1> QED
  BY <1>1, <1>2, <1>3, <1>4, <1>5 DEF Work, Begin, Login, LoginCheck, LoginUpdate, Find,
     Erase, Close, Leaving

-----------------------------------------------------------------------------
(***************************************************************************)
(* Steps that leave a connection alone; the payments.                      *)
(***************************************************************************)
ServedAlike(w) ==
    /\ pc'[w] = pc[w] /\ conn'[w] = conn[w] /\ username'[w] = username[w]
    /\ cmd'[w] = cmd[w] /\ status'[w] = status[w]

LEMMA ConnKept ==
    ASSUME NEW c \in Conns, ConnInv(c),
           mode'[c] = mode[c], asked'[c] = asked[c], me'[c] = me[c],
           wire'[c] = wire[c], mail'[c] = mail[c], back'[c] = back[c],
           \A w \in Workers : conn[w] = c \/ conn'[w] = c => ServedAlike(w)
    PROVE  ConnInv(c)'
<1>1. \A w \in Workers : conn'[w] = c =>
        /\ conn[w] = c /\ (Handling(w)' <=> Handling(w)) /\ (Past(w)' <=> Past(w))
        /\ (LoggingIn(w)' <=> LoggingIn(w)) /\ pc'[w] = pc[w] /\ cmd'[w] = cmd[w]
        /\ username'[w] = username[w]
  BY DEF ServedAlike, Handling, Past, LoggingIn
<1>2. \A w \in Workers : conn[w] = c =>
        conn'[w] = c /\ (Entered(w)' <=> Entered(w)) /\ username'[w] = username[w]
  BY DEF ServedAlike, Entered, InSession, Leaving
<1>3. (Waits(c)' <=> Waits(c)) /\ (LoginGranted(c)' <=> LoginGranted(c))
  BY DEF Waits, LoginGranted
<1>4. Queues(c)' /\ Question(c)'
  BY DEF ConnInv, Queues, Question
<1>5. OnTheWay(c)'
  BY <1>1, <1>3 DEF ConnInv, OnTheWay
<1>6. CarriedOut(c)'
  BY <1>1, <1>3 DEF ConnInv, CarriedOut
<1>7. AnsweredRight(c)'
  BY <1>1, <1>2, <1>3 DEF ConnInv, AnsweredRight
<1>8. MeServed(c)'
  BY <1>2 DEF ConnInv, MeServed
<1> QED
  BY <1>4, <1>5, <1>6, <1>7, <1>8 DEF ConnInv

\* A payment at most moves from one place to another, or is new in one.
LEMMA TokenMoves ==
    ASSUME TokenInv, NEW q \in Spots, NEW h,
           \A p \in Spots : Held(p)' \subseteq Held(p) \cup (IF p = q THEN {h} ELSE {}),
           \A p \in Spots : p # q => h \notin Held(p)',
           \A p \in Spots : \A k \in Held(p)' : \E c \in Conns : OwedTo(c, k)'
    PROVE  TokenInv'
<1>1. SUFFICES ASSUME NEW p \in Spots, NEW k, k \in Held(p)', NEW r \in Spots, k \in Held(r)'
               PROVE  r = p
  BY DEF TokenInv, Spots
<1>2. CASE k = h
  BY <1>1, <1>2
<1>3. CASE k # h
  <2>1. k \in Held(p) /\ k \in Held(r)
    BY <1>1, <1>3
  <2> QED
    BY <2>1 DEF TokenInv
<1> QED
  BY <1>2, <1>3

\* Steps that move no payment.
LEMMA TokenStays ==
    ASSUME TokenInv,
           \A p \in Spots : Held(p)' \subseteq Held(p),
           \A p \in Spots : \A k \in Held(p)' : \E c \in Conns : OwedTo(c, k)'
    PROVE  TokenInv'
BY DEF TokenInv, Spots

LEMMA HeldWhere ==
    /\ \A d \in Conns : /\ <<"mail", d>> \in Spots /\ Held(<<"mail", d>>) = Cmds(mail[d])
                        /\ <<"wire", d>> \in Spots
                        /\ Held(<<"wire", d>>) = {k \in Cmds(wire[d]) : k.kind = "TRANSACTION"}
    /\ \A w \in Workers : /\ <<"worker", w>> \in Spots
                          /\ Held(<<"worker", w>>) = {k \in {cmd[w]} : Carrying(w)}
    /\ \A p \in Spots :
          \/ \E d \in Conns : p = <<"mail", d>> \/ p = <<"wire", d>>
          \/ \E w \in Workers : p = <<"worker", w>>
BY DEF Spots, Held

LEMMA HeldInQueues ==
    ASSUME NEW d \in Conns
    PROVE  /\ mail'[d] = mail[d] => Held(<<"mail", d>>)' = Held(<<"mail", d>>)
           /\ wire'[d] = wire[d] => Held(<<"wire", d>>)' = Held(<<"wire", d>>)
BY DEF Held

\* The workers hold no other payments than before.
LEMMA HeldByWorkers ==
    ASSUME UNCHANGED <<pc, cmd>>
    PROVE  \A w \in Workers : Held(<<"worker", w>>)' = Held(<<"worker", w>>)
BY DEF Held, Carrying

LEMMA TokenQueues ==
    ASSUME TokenInv, UNCHANGED <<pc, cmd>>,
           \A d \in Conns : Cmds(mail'[d]) \subseteq Cmds(mail[d]),
           \A d \in Conns : \A k \in Cmds(wire'[d]) : k.kind = "TRANSACTION" => k \in Cmds(wire[d]),
           \A c \in Conns : \A k : OwedTo(c, k) => OwedTo(c, k)'
    PROVE  TokenInv'
<1>1. ASSUME NEW p \in Spots
      PROVE  Held(p)' \subseteq Held(p)
  <2>1. CASE \E d \in Conns : p = <<"mail", d>>
    BY <2>1 DEF Held
  <2>2. CASE \E d \in Conns : p = <<"wire", d>>
    BY <2>2 DEF Held
  <2>3. CASE \E w \in Workers : p = <<"worker", w>>
    BY <2>3, HeldByWorkers
  <2> QED
    BY <2>1, <2>2, <2>3, HeldWhere
<1>2. ASSUME NEW p \in Spots, NEW k \in Held(p)'
      PROVE  \E c \in Conns : OwedTo(c, k)'
  BY <1>1, <1>2 DEF TokenInv
<1> QED
  BY <1>1, <1>2, TokenStays

-----------------------------------------------------------------------------
(***************************************************************************)
(* The steps of the clients.                                               *)
(***************************************************************************)
Talks == (\A c \in Conns : ConnInv(c)) /\ TokenInv /\ LineInv

LEMMA TalkConn ==
    ASSUME TalkInv, NEW c \in Conns
    PROVE  /\ ConnInv(c) /\ Queues(c) /\ Question(c) /\ OnTheWay(c) /\ CarriedOut(c)
           /\ AnsweredRight(c) /\ MeServed(c)
BY DEF TalkInv, ConnInv

LEMMA HeldPayments ==
    ASSUME TalkInv, NEW p \in Spots, NEW k \in Held(p)
    PROVE  k.kind = "TRANSACTION"
<1>1. CASE \E d \in Conns : p = <<"mail", d>>
  BY <1>1, TalkConn DEF Held, Queues
<1>2. CASE \E d \in Conns : p = <<"wire", d>>
  BY <1>2 DEF Held
<1>3. CASE \E v \in Workers : p = <<"worker", v>>
  BY <1>3, TypesOfTalk DEF Held, Carrying, BasicInv, CommandFits, CommandAt
<1> QED
  BY <1>1, <1>2, <1>3, HeldWhere

\* A step that concerns one connection.
LEMMA OneConn ==
    ASSUME TalkInv, NEW c \in Conns, UNCHANGED <<accounts, locals>>,
           \A d \in Conns : d # c => /\ mode'[d] = mode[d] /\ asked'[d] = asked[d] /\ me'[d] = me[d]
                                     /\ wire'[d] = wire[d] /\ mail'[d] = mail[d] /\ back'[d] = back[d],
           ConnInv(c)'
    PROVE  \A d \in Conns : ConnInv(d)'
<1>1. \A w \in Workers : ServedAlike(w)
  BY DEF ServedAlike, accounts, locals
<1>2. ASSUME NEW d \in Conns, d # c
      PROVE  ConnInv(d)'
  BY <1>1, <1>2, TalkConn, ConnKept
<1> QED
  BY <1>2

LEMMA ConnectTalks ==
    ASSUME TalkInv, NEW c \in Conns, Connect(c)
    PROVE  Talks'
<1> USE TypesOfTalk
<1>1. /\ mode[c] = "away" /\ \A w \in Workers : conn[w] # c
      /\ \A i \in 1 .. Len(line) : line[i] # c
      /\ mode' = [mode EXCEPT ![c] = "line"] /\ line' = Append(line, c)
      /\ wire' = [wire EXCEPT ![c] = << >>]
      /\ UNCHANGED <<accounts, locals, asked, me, mail, back>>
  BY DEF Connect, Process
<1>2. ConnInv(c)'
  <2>1. back[c] = << >> /\ me[c] = {} /\ mail[c] = << >> /\ NoTwice(mail[c])
    BY <1>1, TalkConn DEF Queues, AnsweredRight
  <2>2. /\ mode'[c] = "line" /\ wire'[c] = << >> /\ back'[c] = << >> /\ me'[c] = {}
        /\ mail'[c] = << >> /\ \A w \in Workers : conn'[w] # c
    BY <1>1, <2>1 DEF locals
  <2>3. Queues(c)' /\ Question(c)' /\ OnTheWay(c)'
    BY <2>2, EmptyQueue DEF Queues, Question, OnTheWay
  <2> QED
    BY <2>2, <2>3 DEF ConnInv, CarriedOut, AnsweredRight, MeServed
<1>3. LineInv'
  <2>1. /\ Len(line) \in Nat /\ Len(line') = Len(line) + 1 /\ line'[Len(line) + 1] = c
        /\ \A i \in 1 .. Len(line) : line'[i] = line[i] /\ line[i] \in Conns
    BY <1>1
  <2>2. \A i \in 1 .. Len(line') : i \in 1 .. Len(line) \/ i = Len(line) + 1
    BY <2>1
  <2>3. \A i \in 1 .. Len(line) : mode[line[i]] = "line"
    BY DEF TalkInv, LineInv
  <2>4. mode'[c] = "line" /\ \A i \in 1 .. Len(line) : mode'[line[i]] = "line"
    BY <1>1, <2>1, <2>3
  <2> HIDE TypesOfTalk
  <2> QED
    BY <2>1, <2>2, <2>4 DEF LineInv
<1>4. TokenInv'
  <2>1. \A d \in Conns : Cmds(wire'[d]) \subseteq Cmds(wire[d])
    BY <1>1, EmptyQueue
  <2>2. \A d \in Conns : \A k : OwedTo(d, k) => OwedTo(d, k)'
    BY <1>1 DEF OwedTo
  <2> QED
    BY <1>1, <2>1, <2>2, TokenQueues DEF locals, TalkInv
<1> QED
  BY <1>1, <1>2, <1>3, <1>4, OneConn DEF Talks

\* The client asks something else than a payment, or to leave.
LEMMA AskingTalks ==
    ASSUME TalkInv, NEW c \in Conns, NEW k \in Commands, NEW m \in {"asked", "leaving"},
           mode[c] = "free", wire' = [wire EXCEPT ![c] = Append(@, k)],
           mode' = [mode EXCEPT ![c] = m], asked' = [asked EXCEPT ![c] = k],
           UNCHANGED <<accounts, locals, line, me, mail, back>>,
           m = "asked" => k.kind \in {"REGISTER", "LOGIN", "LIST"},
           m = "asked" /\ k.kind = "LOGIN" => me[c] = {},
           m = "leaving" => k = Plain("EXIT")
    PROVE  Talks'
<1> USE TypesOfTalk
<1>1. k.kind # "TRANSACTION"
  BY DEF Plain
<1>2. back[c] = << >> /\ ~Waits(c) /\ ~LoginGranted(c)
  BY TalkConn DEF AnsweredRight, Waits, LoginGranted
<1>3. /\ \A x \in Cmds(wire[c]) : x.kind = "TRANSACTION"
      /\ \A w \in Workers : conn[w] = c => ~Handling(w) /\ ~LoggingIn(w)
  BY <1>2, TalkConn DEF OnTheWay, CarriedOut, LoggingIn, Handling
<1>4. wire'[c] = Append(wire[c], k) /\ mode'[c] = m /\ asked'[c] = k /\ UNCHANGED <<pc, conn, cmd, username, status>>
  BY DEF locals, accounts
<1>5. Cmds(wire'[c]) = Cmds(wire[c]) \cup {k} /\ NoTwice(wire'[c])
  BY <1>1, <1>3, <1>4, TalkConn, QueueAppend DEF Queues
<1>6. Waits(c)' /\ back'[c] = << >>
  BY <1>2, <1>4 DEF Waits
<1>7. ConnInv(c)'
  <2>1. Queues(c)'
    BY <1>4, <1>5, TalkConn DEF Queues
  <2>2. Question(c)'
    BY <1>4 DEF Question
  <2>3. OnTheWay(c)'
    BY <1>3, <1>4, <1>5, <1>6 DEF OnTheWay, Handling
  <2>4. CarriedOut(c)'
    BY <1>2, <1>3, <1>4, TalkConn DEF CarriedOut, Handling, Past
  <2>5. AnsweredRight(c)'
    BY <1>6 DEF AnsweredRight
  <2>6. MeServed(c)'
    BY <1>4, TalkConn DEF MeServed, Entered, InSession, Leaving
  <2> QED
    BY <2>1, <2>2, <2>3, <2>4, <2>5, <2>6 DEF ConnInv
<1>8. LineInv'
  BY <1>4 DEF TalkInv, LineInv
<1>9. TokenInv'
  <2>1. \A d \in Conns : \A x \in Cmds(wire'[d]) : x.kind = "TRANSACTION" => x \in Cmds(wire[d])
    BY <1>1, <1>4, <1>5
  <2>2. \A d \in Conns : \A x : OwedTo(d, x) => OwedTo(d, x)'
    BY DEF OwedTo
  <2> QED
    BY <1>4, <2>1, <2>2, TokenQueues DEF TalkInv
<1> QED
  BY <1>7, <1>8, <1>9, OneConn DEF Talks

LEMMA AskTalks ==
    ASSUME TalkInv, NEW c \in Conns, NEW k \in Commands, Ask(c, k)
    PROVE  Talks'
<1>1. \A i \in {"asked"} : i \in {"asked", "leaving"}
  OBVIOUS
<1> QED
  BY <1>1, AskingTalks DEF Ask, MayAsk, Send, Process

LEMMA LeaveTalks ==
    ASSUME TalkInv, Faults = {}, NEW c \in Conns, Leave(c)
    PROVE  Talks'
BY AskingTalks, PlainCommands DEF Leave, Send, Process

LEMMA PayTalks ==
    ASSUME TalkInv, NEW c \in Conns, NEW d \in Conns, NEW k \in Commands, Pay(c, d, k)
    PROVE  Talks'
<1> USE TypesOfTalk
<1>1. /\ mode[c] = "free" /\ k.kind = "TRANSACTION" /\ k.payer \in me[c] /\ me[d] # {}
      /\ mail' = [mail EXCEPT ![d] = Append(@, k)]
      /\ mode' = [mode EXCEPT ![c] = "asked"] /\ asked' = [asked EXCEPT ![c] = k]
      /\ UNCHANGED <<accounts, locals, line, me, wire, back>>
      /\ UNCHANGED <<pc, conn, cmd, username, status>>
  BY DEF Pay, Process, locals, accounts
<1>2. back[c] = << >> /\ ~Waits(c) /\ ~LoginGranted(c)
  BY <1>1, TalkConn DEF AnsweredRight, Waits, LoginGranted
<1>3. \A x \in Conns : ~OwedTo(x, k)
  <2>1. SUFFICES ASSUME NEW x \in Conns, OwedTo(x, k) PROVE FALSE
    OBVIOUS
  <2>2. PICK v \in Workers : conn[v] = x /\ username[v] = k.payer /\ Entered(v)
    BY <2>1, TalkConn DEF OwedTo, MeServed
  <2>3. PICK w \in Workers : conn[w] = c /\ username[w] = k.payer /\ Entered(w)
    BY <1>1, TalkConn DEF MeServed
  <2> QED
    BY <1>1, <2>1, <2>2, <2>3, OneSession DEF OwedTo
<1>4. \A p \in Spots : k \notin Held(p)
  BY <1>3 DEF TalkInv, TokenInv
<1>5. /\ Cmds(mail'[d]) = Cmds(mail[d]) \cup {k} /\ NoTwice(mail'[d])
      /\ \A x \in Conns : x # d => mail'[x] = mail[x]
  <2>1. k \notin Cmds(mail[d])
    BY <1>4, HeldWhere
  <2> QED
    BY <1>1, <2>1, TalkConn, QueueAppend DEF Queues
<1>6. /\ mode'[c] = "asked" /\ asked'[c] = k /\ Waits(c)' /\ back'[c] = << >>
      /\ \A x \in Conns : x # c => mode'[x] = mode[x] /\ asked'[x] = asked[x]
  BY <1>1, <1>2 DEF Waits
<1>7. \A x \in Conns : Queues(x)'
  <2>1. ASSUME NEW x \in Conns
        PROVE  Queues(x)'
    <3>1. /\ NoTwice(mail'[x]) /\ \A y \in Cmds(mail'[x]) : y.kind = "TRANSACTION"
      BY <1>1, <1>5, TalkConn DEF Queues
    <3>2. mode'[x] \in {"away", "line"} => x # d /\ x # c
      BY <1>1, <1>6, TalkConn DEF Queues
    <3> QED
      BY <1>1, <1>5, <1>6, <3>1, <3>2, TalkConn DEF Queues
  <2> QED
    BY <2>1
<1>8. \A x \in Conns : Question(x)' /\ OnTheWay(x)' /\ CarriedOut(x)' /\ AnsweredRight(x)' /\ MeServed(x)'
  <2>2. ASSUME NEW x \in Conns, x # c
        PROVE  /\ Question(x)' /\ OnTheWay(x)' /\ CarriedOut(x)' /\ AnsweredRight(x)'
               /\ MeServed(x)'
    <3>1. /\ mode'[x] = mode[x] /\ asked'[x] = asked[x] /\ me'[x] = me[x] /\ wire'[x] = wire[x]
          /\ back'[x] = back[x] /\ (Waits(x)' <=> Waits(x)) /\ (LoginGranted(x)' <=> LoginGranted(x))
      BY <1>1, <1>6, <2>2 DEF Waits, LoginGranted
    <3>2. \A w \in Workers : /\ (Handling(w)' <=> Handling(w)) /\ (Past(w)' <=> Past(w))
                             /\ (LoggingIn(w)' <=> LoggingIn(w)) /\ (Entered(w)' <=> Entered(w))
      BY <1>1 DEF Handling, Past, LoggingIn, Entered, InSession, Leaving
    <3>3. Question(x)' /\ OnTheWay(x)' /\ CarriedOut(x)'
      BY <1>1, <3>1, <3>2, TalkConn DEF Question, OnTheWay, CarriedOut
    <3> QED
      BY <1>1, <3>1, <3>2, <3>3, TalkConn DEF AnsweredRight, MeServed
  <2>3. Question(c)' /\ AnsweredRight(c)'
    BY <1>1, <1>6 DEF Question, AnsweredRight
  <2>4. OnTheWay(c)'
    <3>1. \A y \in Cmds(wire[c]) : y.kind = "TRANSACTION"
      BY <1>2, TalkConn DEF OnTheWay
    <3> QED
      BY <1>1, <3>1 DEF OnTheWay
  <2>5. CarriedOut(c)'
    <3>1. \A w \in Workers : conn[w] = c => ~Handling(w) /\ ~LoggingIn(w)
      BY <1>2, TalkConn DEF CarriedOut, LoggingIn, Handling
    <3> QED
      BY <1>1, <1>2, <1>6, <3>1, TalkConn DEF CarriedOut, Handling, Past
  <2>6. MeServed(c)'
    BY <1>1, TalkConn DEF MeServed, Entered, InSession, Leaving
  <2> QED
    BY <2>2, <2>3, <2>4, <2>5, <2>6
<1>9. LineInv'
  <2>1. \A i \in 1 .. Len(line) : line[i] # c /\ line[i] \in Conns
    BY <1>1 DEF TalkInv, LineInv
  <2> QED
    BY <1>1, <1>6, <2>1 DEF TalkInv, LineInv
<1>10. TokenInv'
  <2>1. ASSUME NEW p \in Spots
        PROVE  /\ Held(p)' \subseteq Held(p) \cup (IF p = <<"mail", d>> THEN {k} ELSE {})
               /\ p # <<"mail", d>> => k \notin Held(p)'
    <3>1. CASE \E x \in Conns : p = <<"mail", x>>
      BY <1>4, <1>5, <3>1 DEF Held
    <3>2. CASE \E x \in Conns : p = <<"wire", x>>
      <4>1. Held(p)' = Held(p)
        BY <1>1, <3>2, HeldInQueues
      <4> QED
        BY <1>4, <4>1
    <3>3. CASE \E w \in Workers : p = <<"worker", w>>
      <4>1. Held(p)' = Held(p)
        BY <1>1, <3>3, HeldByWorkers
      <4> QED
        BY <1>4, <4>1
    <3> QED
      BY <3>1, <3>2, <3>3, HeldWhere
  <2>2. \A x \in Conns : \A y : OwedTo(x, y) => OwedTo(x, y)'
    BY <1>1, <1>6 DEF OwedTo
  <2>3. OwedTo(c, k)'
    BY <1>1, <1>6 DEF OwedTo
  <2>4. ASSUME NEW p \in Spots, NEW y \in Held(p)'
        PROVE  \E x \in Conns : OwedTo(x, y)'
    <3>1. y = k \/ y \in Held(p)
      BY <2>1, <2>4
    <3> QED
      BY <2>2, <2>3, <3>1 DEF TalkInv, TokenInv
  <2>5. <<"mail", d>> \in Spots
    BY DEF Spots
  <2> QED
    BY <2>1, <2>4, <2>5, TokenMoves DEF TalkInv
<1> QED
  BY <1>7, <1>8, <1>9, <1>10 DEF Talks, ConnInv

LEMMA ReportTalks ==
    ASSUME TalkInv, NEW d \in Conns, Report(d)
    PROVE  Talks'
<1> USE TypesOfTalk
<1> DEFINE h == Head(mail[d])
<1>1. /\ mail[d] # << >> /\ wire' = [wire EXCEPT ![d] = Append(@, h)]
      /\ mail' = [mail EXCEPT ![d] = Tail(@)]
      /\ UNCHANGED <<accounts, locals, line, mode, asked, me, back>>
      /\ UNCHANGED <<pc, conn, cmd, username, status>>
  BY DEF Report, Send, Process, locals, accounts
<1>2. /\ h \in Cmds(mail[d]) /\ h \in Commands /\ Cmds(mail'[d]) = Cmds(mail[d]) \ {h}
      /\ NoTwice(mail'[d]) /\ h.kind = "TRANSACTION"
  <2>1. mail[d] \in Seq(Commands) /\ NoTwice(mail[d])
        /\ \A k \in Cmds(mail[d]) : k.kind = "TRANSACTION"
    BY TalkConn DEF Queues
  <2> QED
    BY <1>1, <2>1, QueueTail
<1> HIDE DEF h
<1>3. h \in Held(<<"mail", d>>) /\ \A p \in Spots : h \in Held(p) => p = <<"mail", d>>
  BY <1>2, HeldWhere DEF TalkInv, TokenInv
<1>4. h \notin Cmds(wire[d])
  <2>1. <<"wire", d>> # <<"mail", d>>
    OBVIOUS
  <2> QED
    BY <1>2, <1>3, <2>1, HeldWhere
<1>5. /\ Cmds(wire'[d]) = Cmds(wire[d]) \cup {h} /\ NoTwice(wire'[d])
      /\ \A x \in Conns : x # d => mail'[x] = mail[x] /\ wire'[x] = wire[x]
  BY <1>1, <1>2, <1>4, TalkConn, QueueAppend DEF Queues
<1>6. ConnInv(d)'
  <2>1. mode[d] \notin {"away", "line"}
    BY <1>1, TalkConn DEF Queues
  <2>2. Queues(d)'
    BY <1>1, <1>2, <1>5, <2>1, TalkConn DEF Queues
  <2>3. (Waits(d)' <=> Waits(d)) /\ (LoginGranted(d)' <=> LoginGranted(d))
    BY <1>1 DEF Waits, LoginGranted
  <2>4. \A w \in Workers : /\ (Handling(w)' <=> Handling(w)) /\ (Past(w)' <=> Past(w))
                           /\ (LoggingIn(w)' <=> LoggingIn(w)) /\ (Entered(w)' <=> Entered(w))
    BY <1>1 DEF Handling, Past, LoggingIn, Entered, InSession, Leaving
  <2>5. Question(d)' /\ CarriedOut(d)'
    BY <1>1, <2>3, <2>4, TalkConn DEF Question, CarriedOut
  <2>6. OnTheWay(d)'
    BY <1>1, <1>2, <1>5, <2>3, <2>4, TalkConn DEF OnTheWay
  <2>7. AnsweredRight(d)' /\ MeServed(d)'
    BY <1>1, <2>3, <2>4, TalkConn DEF AnsweredRight, MeServed
  <2> QED
    BY <2>2, <2>5, <2>6, <2>7 DEF ConnInv
<1>7. LineInv'
  BY <1>1 DEF TalkInv, LineInv
<1>8. TokenInv'
  <2>1. ASSUME NEW p \in Spots
        PROVE  /\ Held(p)' \subseteq Held(p) \cup (IF p = <<"wire", d>> THEN {h} ELSE {})
               /\ p # <<"wire", d>> => h \notin Held(p)'
    <3>1. CASE p = <<"mail", d>>
      BY <1>2, <3>1 DEF Held
    <3>2. CASE p = <<"wire", d>>
      BY <1>5, <3>2 DEF Held
    <3>3. CASE p # <<"mail", d>> /\ p # <<"wire", d>>
      <4>1. Held(p)' = Held(p)
        <5>1. CASE \E x \in Conns : p = <<"mail", x>> \/ p = <<"wire", x>>
          BY <1>5, <3>3, <5>1, HeldInQueues
        <5>2. CASE \E w \in Workers : p = <<"worker", w>>
          BY <1>1, <5>2, HeldByWorkers
        <5> QED
          BY <5>1, <5>2, HeldWhere
      <4> QED
        BY <1>3, <3>3, <4>1
    <3> QED
      BY <3>1, <3>2, <3>3
  <2>2. \A x \in Conns : \A y : OwedTo(x, y) => OwedTo(x, y)'
    BY <1>1 DEF OwedTo
  <2>3. ASSUME NEW p \in Spots, NEW y \in Held(p)'
        PROVE  \E x \in Conns : OwedTo(x, y)'
    <3>1. y = h \/ y \in Held(p)
      BY <2>1, <2>3
    <3>2. \E r \in Spots : y \in Held(r)
      <4>1. <<"mail", d>> \in Spots
        BY DEF Spots
      <4> QED
        BY <1>3, <3>1, <4>1
    <3>3. \E x \in Conns : OwedTo(x, y)
      BY <3>2 DEF TalkInv, TokenInv
    <3> QED
      BY <2>2, <3>3
  <2>4. <<"wire", d>> \in Spots
    BY DEF Spots
  <2> QED
    BY <2>1, <2>3, <2>4, TokenMoves DEF TalkInv
<1> QED
  BY <1>1, <1>5, <1>6, <1>7, <1>8, OneConn DEF Talks

LEMMA TakeTalks ==
    ASSUME TalkInv, Faults = {}, NEW c \in Conns, Take(c)
    PROVE  Talks'
<1> USE TypesOfTalk
<1>1. /\ back[c] # << >> /\ mode[c] \in {"asked", "leaving"} /\ Len(back[c]) = 1
      /\ UNCHANGED <<accounts, locals, line, wire>>
      /\ UNCHANGED <<pc, conn, cmd, username, status>>
  <2>1. back[c] # << >> /\ UNCHANGED <<accounts, locals, line, wire>>
    BY DEF Take, Closed, Process
  <2> QED
    BY <2>1, TalkConn DEF AnsweredRight, accounts, locals
<1>2. ~Waits(c) /\ \A w \in Workers : conn[w] = c => ~Handling(w) /\ ~LoggingIn(w)
  BY <1>1, TalkConn DEF CarriedOut, LoggingIn, Handling, Waits
<1>3. \A k \in Cmds(wire[c]) : k.kind = "TRANSACTION"
  BY <1>2, TalkConn DEF OnTheWay
<1>4. /\ \A d \in Conns : d # c =>
            /\ mode'[d] = mode[d] /\ asked'[d] = asked[d] /\ me'[d] = me[d]
            /\ wire'[d] = wire[d] /\ mail'[d] = mail[d] /\ back'[d] = back[d]
      /\ wire'[c] = wire[c] /\ back'[c] = << >>
      /\ mail'[c] = mail[c] \/ mail'[c] = << >>
  <2>1. CASE Closed(c)
    BY <2>1 DEF Closed
  <2>2. CASE ~Closed(c)
    <3>1. /\ back' = [back EXCEPT ![c] = Tail(@)] /\ mode' = [mode EXCEPT ![c] = "free"]
          /\ asked' = [asked EXCEPT ![c] = Plain("ERR")] /\ UNCHANGED <<mail, wire>>
          /\ me' = me \/ me' = [me EXCEPT ![c] = {asked[c].name}]
      BY <2>2 DEF Take
    <3>2. Tail(back[c]) = << >>
      <4>1. back[c] \in Seq(Messages)
        OBVIOUS
      <4>2. Len(Tail(back[c])) = 0 /\ Tail(back[c]) \in Seq(Messages)
        BY <1>1, <4>1
      <4> QED
        BY <4>2, EmptySeq
    <3> QED
      BY <3>1, <3>2
  <2> QED
    BY <2>1, <2>2
<1>5. Cmds(mail'[c]) \subseteq Cmds(mail[c]) /\ NoTwice(mail'[c])
  BY <1>4, EmptyQueue, TalkConn DEF Queues
<1>6. Queues(c)' /\ Question(c)' /\ OnTheWay(c)' /\ AnsweredRight(c)'
  <2>1. CASE Closed(c)
    <3>1. mode'[c] = "away" /\ me'[c] = {} /\ mail'[c] = << >>
      BY <2>1 DEF Closed
    <3> QED
      BY <1>3, <1>4, <1>5, <3>1, EmptyQueue, TalkConn
      DEF Queues, Question, OnTheWay, AnsweredRight
  <2>2. CASE ~Closed(c)
    <3>1. mode'[c] = "free" /\ mail'[c] = mail[c]
      BY <2>2 DEF Take
    <3> QED
      BY <1>3, <1>4, <1>5, <3>1, TalkConn DEF Queues, Question, OnTheWay, AnsweredRight
  <2> QED
    BY <2>1, <2>2
<1>7. CarriedOut(c)' /\ MeServed(c)'
  <2>1. CASE Closed(c) /\ mode[c] = "leaving"
    <3>1. mode'[c] = "away" /\ \A w \in Workers : conn[w] = c => Past(w)
      BY <1>1, <2>1, TalkConn DEF Closed, AnsweredRight
    <3> QED
      BY <1>1, <3>1 DEF CarriedOut, MeServed, Past, Handling
  <2>2. CASE mode[c] = "asked" /\ mode' = [mode EXCEPT ![c] = "free"]
    <3>1. mode'[c] = "free"
      BY <2>2
    <3>2. \/ LoginGranted(c) /\ me'[c] = {asked[c].name}
          \/ ~LoginGranted(c) /\ me'[c] = me[c]
      BY <2>2 DEF Take, Closed, LoginGranted
    <3>3. CarriedOut(c)'
      BY <1>1, <1>2, <3>1, <3>2, TalkConn DEF CarriedOut, Handling, Past
    <3>4. MeServed(c)'
      <4>1. \A w \in Workers : Entered(w)' <=> Entered(w)
        BY <1>1 DEF Entered, InSession, Leaving
      <4>2. CASE LoginGranted(c) /\ me'[c] = {asked[c].name}
        BY <1>1, <4>1, <4>2, TalkConn DEF MeServed, AnsweredRight
      <4>3. CASE me'[c] = me[c]
        BY <1>1, <2>2, <4>1, <4>3, TalkConn DEF MeServed
      <4> QED
        BY <3>2, <4>2, <4>3
    <3> QED
      BY <3>3, <3>4
  <2> QED
    BY <2>1, <2>2 DEF Take
<1>8. LineInv'
  <2>1. \A i \in 1 .. Len(line) : line[i] # c /\ line[i] \in Conns
    BY <1>1 DEF TalkInv, LineInv
  <2> QED
    BY <1>1, <1>4, <2>1 DEF TalkInv, LineInv
<1>9. TokenInv'
  <2>1. \A d \in Conns : Cmds(mail'[d]) \subseteq Cmds(mail[d])
    BY <1>4, <1>5
  <2>2. \A d \in Conns : Cmds(wire'[d]) = Cmds(wire[d])
    BY <1>1
  <2>3. \A x \in Conns : \A y : OwedTo(x, y) => OwedTo(x, y)'
    BY <1>1, <1>4 DEF OwedTo
  <2> QED
    BY <1>1, <2>1, <2>2, <2>3, TokenQueues DEF TalkInv
<1> QED
  BY <1>1, <1>4, <1>6, <1>7, <1>8, <1>9, OneConn DEF Talks, ConnInv

LEMMA ClientTalks ==
    ASSUME TalkInv, Faults = {}, NEW c \in Conns, ClientStep(c)
    PROVE  Talks'
<1>1. ~Depart(c)
  BY DEF Depart
<1> QED
  BY <1>1, ConnectTalks, ReportTalks, LeaveTalks, TakeTalks, AskTalks, PayTalks DEF ClientStep

-----------------------------------------------------------------------------
(***************************************************************************)
(* The steps of the workers.                                               *)
(***************************************************************************)
LEMMA OwnStatus ==
    ASSUME TalkInv, NEW w \in Workers, Work(w), NEW v \in Workers, v # w
    PROVE  ServedAlike(v)
<1> USE TypesOfTalk
<1>1. OwnStep(w)
  BY EachWorkerItsOwn DEF FullTypes
<1>2. status'[v] = status[v]
  <2>1. CASE Register(w) \/ Login(w) \/ Transfer(w) \/ Logout(w)
    <3>1. CASE Register(w)
      BY <3>1 DEF Register, RegisterCheck, RegisterReplace, Store!Refuse, Store!Answer, accounts
    <3>2. CASE Login(w)
      BY <3>2 DEF Login, LoginCheck, LoginUpdate, Store!Refuse, Store!Answer, accounts
    <3>3. CASE Transfer(w) \/ Logout(w)
      BY <3>3 DEF Transfer, Logout, Store!Transfer, Store!Logout, Store!Refuse, Store!Answer
    <3> QED
      BY <2>1, <3>1, <3>2, <3>3
  <2>2. CASE Reply(w) \/ Result(w) \/ Close(w)
    BY <2>2 DEF Reply, Result, Close, Answered, Store!Ask
  <2>3. CASE UNCHANGED accounts
    BY <2>3 DEF accounts
  <2> QED
    BY <2>1, <2>2, <2>3 DEF Work, Begin, Receive, Hangup, PushBack, List, Read, Search, Find, Erase,
       Loops
<1> QED
  BY <1>1, <1>2, OthersAlone DEF ServedAlike

\* The other connections, when a worker's step concerns its own only.
LEMMA OtherConns ==
    ASSUME TalkInv, NEW w \in Workers, Work(w), conn'[w] = conn[w], UNCHANGED <<mode, asked, me, mail>>,
           NEW d \in Conns, d # conn[w], wire'[d] = wire[d], back'[d] = back[d]
    PROVE  ConnInv(d)'
<1>1. \A v \in Workers : conn[v] = d \/ conn'[v] = d => ServedAlike(v)
  BY OwnStatus
<1>2. ConnInv(d)
  BY TalkConn
<1> QED
  BY <1>1, <1>2, ConnKept

\* A worker goes on with what it does.
LEMMA GoesOn ==
    ASSUME TalkInv, Faults = {}, NEW w \in Workers, Work(w), pc[w] # "idle", conn'[w] = conn[w],
           UNCHANGED <<line, cmd, mode, asked, me, mail, wire, back>>,
           Handling(w)' <=> Handling(w), Past(w)' <=> Past(w), Carrying(w)' => Carrying(w),
           pc'[w] # "drop",
           me[conn[w]] = {} /\ username'[w] # NoUser /\ ~Past(w) =>
                LoggingIn(w)' \/ LoginGranted(conn[w])
    PROVE  Talks'
<1> USE TypesOfTalk
<1>0. PICK c \in Conns : c = conn[w]
  OBVIOUS
<1>1. c \in Conns /\ \A v \in Workers : conn[v] = c <=> v = w
  BY <1>0, OneWorker
<1>2. \A v \in Workers : v # w => ServedAlike(v)
  BY OwnStatus
<1>3. \A v \in Workers : conn'[v] = c <=> v = w
  BY <1>0, <1>1, <1>2 DEF ServedAlike
<1>4. mode'[c] = mode[c] /\ asked'[c] = asked[c] /\ me'[c] = me[c] /\ (Waits(c)' <=> Waits(c))
      /\ (LoginGranted(c)' <=> LoginGranted(c))
  BY DEF Waits, LoginGranted
<1>5. mode[c] # "leaving" /\ Entered(w) => Entered(w)' /\ username'[w] = username[w]
  BY <1>0, AtLogout, SessionGoesOn DEF Entered
<1>6. ConnInv(c)'
  <2>1. Queues(c)' /\ Question(c)'
    BY <1>1, TalkConn DEF Queues, Question
  <2>2. OnTheWay(c)'
    BY <1>1, <1>3, <1>4, TalkConn DEF OnTheWay
  <2>3. CarriedOut(c)'
    BY <1>0, <1>1, <1>3, <1>4, TalkConn DEF CarriedOut
  <2>4. AnsweredRight(c)'
    <3>1. LoginGranted(c) => mode[c] # "leaving"
      BY DEF LoginGranted
    <3> QED
      BY <1>1, <1>3, <1>4, <1>5, <3>1, TalkConn DEF AnsweredRight
  <2>5. MeServed(c)'
    BY <1>1, <1>3, <1>4, <1>5, TalkConn DEF MeServed
  <2> QED
    BY <2>1, <2>2, <2>3, <2>4, <2>5 DEF ConnInv
<1>7. \A d \in Conns : ConnInv(d)'
  BY <1>0, <1>6, OtherConns
<1>8. LineInv'
  BY DEF TalkInv, LineInv
<1>9. TokenInv'
  <2>1. ASSUME NEW p \in Spots
        PROVE  Held(p)' \subseteq Held(p)
    <3>1. CASE \E x \in Conns : p = <<"mail", x>> \/ p = <<"wire", x>>
      BY <3>1, HeldInQueues
    <3>2. CASE \E v \in Workers : p = <<"worker", v>>
      <4>1. \A v \in Workers : Carrying(v)' => Carrying(v)
        BY <1>2 DEF Carrying, ServedAlike
      <4> QED
        BY <3>2, <4>1 DEF Held
    <3> QED
      BY <3>1, <3>2, HeldWhere
  <2>2. \A x \in Conns : \A y : OwedTo(x, y) => OwedTo(x, y)'
    BY DEF OwedTo
  <2>3. ASSUME NEW p \in Spots, NEW y \in Held(p)'
        PROVE  \E x \in Conns : OwedTo(x, y)'
    BY <2>1, <2>2, <2>3 DEF TalkInv, TokenInv
  <2> QED
    BY <2>1, <2>3, TokenStays DEF TalkInv
<1> QED
  BY <1>7, <1>8, <1>9 DEF Talks

LEMMA WorkTalks ==
    ASSUME TalkInv, Faults = {}, NEW w \in Workers,
           \/ Register(w) \/ Login(w) \/ PushBack(w) \/ List(w) \/ Transfer(w) \/ Logout(w)
           \/ Read(w) \/ Search(w) \/ Find(w) \/ Erase(w)
    PROVE  Talks'
<1> USE TypesOfTalk
<1>1. /\ Work(w) /\ pc[w] # "idle" /\ CommandAt(w) /\ LoginInv(w)
      /\ UNCHANGED <<line, conn, cmd, mode, asked, me, mail, wire, back>>
  BY DEF Work, Register, RegisterCheck, RegisterReplace, Login, LoginCheck, LoginUpdate, PushBack,
     List, Transfer, Logout, Read, Search, Find, Erase, Calls, Loops, clients, BasicInv, CommandFits, TalkInv
<1>2. conn[w] \in Conns /\ conn'[w] = conn[w]
  BY <1>1
<1>3. me[conn[w]] = {} /\ username[w] # NoUser /\ ~Past(w) => LoggingIn(w) \/ LoginGranted(conn[w])
  BY <1>2, TalkConn DEF CarriedOut
<1>4. CASE Register(w) \/ List(w)
  <2>1. /\ UNCHANGED username /\ pc[w] \in {"register", "register_replace", "list"}
        /\ pc'[w] \in {"reply", "register_replace", "compose"}
        /\ cmd[w].kind # "LOGIN"
    BY <1>1, <1>4 DEF Register, RegisterCheck, RegisterReplace, List, Calls, Goto, CommandAt
  <2> QED
    BY <1>1, <1>2, <1>3, <2>1, GoesOn DEF Handling, Past, Carrying, LoggingIn
<1>5. CASE Login(w)
  <2>1. pc[w] \in {"login", "login_update"} /\ username[w] = NoUser /\ cmd[w].kind = "LOGIN"
    BY <1>1, <1>5, AtLogin DEF Login, LoginCheck, LoginUpdate, CommandAt
  <2>2. \/ status'[w] = "LOGIN_SUCCESS" /\ pc'[w] = "push"
        \/ username'[w] = NoUser /\ pc'[w] \in {"reply", "login_update"}
    BY <1>5, <2>1 DEF Login, LoginCheck, LoginUpdate, Goto, Store!Answer
  <2>3. username'[w] # NoUser => LoggingIn(w)'
    BY <1>1, <2>1, <2>2 DEF LoggingIn
  <2> QED
    BY <1>1, <1>2, <2>1, <2>2, <2>3, GoesOn DEF Handling, Past, Carrying
<1>6. CASE PushBack(w) \/ (pc[w] = "compose" /\ Read(w))
  <2>1. /\ UNCHANGED <<username, status>> /\ pc[w] \in {"push", "compose"}
        /\ pc'[w] \in {"reply", "compose"}
    BY <1>1, <1>6 DEF PushBack, Read, Goto, accounts
  <2>2. LoggingIn(w) => LoggingIn(w)'
    BY <1>1, <2>1 DEF LoggingIn
  <2> QED
    BY <1>1, <1>2, <1>3, <2>1, <2>2, GoesOn DEF Handling, Past, Carrying
<1>7. CASE Logout(w)
  <2>1. /\ UNCHANGED username /\ pc[w] = "logout" /\ pc'[w] = "reply" /\ cmd[w].kind = "EXIT"
    BY <1>7, AtLogout DEF Logout, Goto
  <2> QED
    BY <1>1, <1>2, <1>3, <2>1, GoesOn DEF Handling, Past, Carrying, LoggingIn
<1>8. CASE Transfer(w) \/ Search(w) \/ (pc[w] = "sender" /\ Read(w))
  <2>1. /\ UNCHANGED username /\ pc[w] \in {"transfer", "sender", "search"}
        /\ pc'[w] \in {"sender", "search", "result"}
    BY <1>8 DEF Transfer, Search, Read, Seek, Goto, Loops
  <2> QED
    BY <1>1, <1>2, <1>3, <2>1, GoesOn DEF Handling, Past, Carrying, LoggingIn
<1>9. CASE Find(w) \/ Erase(w) \/ (pc[w] = "count" /\ Read(w))
  <2>1. /\ pc[w] \in {"count", "find", "erase"} /\ pc'[w] \in {"find", "erase", "close"}
    BY <1>9 DEF Find, Erase, Read, Seek, Goto
  <2> QED
    BY <1>1, <1>2, <2>1, GoesOn DEF Handling, Past, Carrying
<1> QED
  BY <1>4, <1>5, <1>6, <1>7, <1>8, <1>9 DEF Read

LEMMA CloseTalks ==
    ASSUME TalkInv, NEW w \in Workers, Close(w)
    PROVE  Talks'
<1> USE TypesOfTalk
<1>1. /\ Work(w) /\ pc[w] = "close" /\ pc'[w] = "idle" /\ conn'[w] = NoConn
      /\ UNCHANGED <<line, mode, asked, me, mail, wire, back>>
      /\ \A v \in Workers : v # w => ServedAlike(v)
  BY OwnStatus DEF Work, Close, Ended, clients
<1>2. /\ ~Past(w) = FALSE /\ ~Entered(w)
      /\ \A c \in Conns : \A v \in Workers : conn'[v] = c => v # w /\ conn[v] = c
  BY <1>1, ServerAssumption DEF Past, Entered, InSession, Leaving, ServedAlike
<1>3. ASSUME NEW c \in Conns
      PROVE  ConnInv(c)'
  <2>1. (Waits(c)' <=> Waits(c)) /\ (LoginGranted(c)' <=> LoginGranted(c))
    BY <1>1 DEF Waits, LoginGranted
  <2>2. \A v \in Workers : v # w =>
          /\ (Handling(v)' <=> Handling(v)) /\ (Past(v)' <=> Past(v))
          /\ (LoggingIn(v)' <=> LoggingIn(v)) /\ (Entered(v)' <=> Entered(v))
          /\ pc'[v] = pc[v] /\ cmd'[v] = cmd[v] /\ username'[v] = username[v] /\ conn'[v] = conn[v]
    BY <1>1 DEF ServedAlike, Handling, Past, LoggingIn, Entered, InSession, Leaving
  <2>3. Queues(c)' /\ Question(c)'
    BY <1>1, TalkConn DEF Queues, Question
  <2>4. OnTheWay(c)'
    BY <1>1, <1>2, <2>1, <2>2, TalkConn DEF OnTheWay
  <2>5. CarriedOut(c)'
    BY <1>1, <1>2, <2>1, <2>2, TalkConn DEF CarriedOut
  <2>6. AnsweredRight(c)' /\ MeServed(c)'
    <3>1. \A v \in Workers : conn[v] = c /\ Entered(v) => conn'[v] = c /\ Entered(v)' /\ username'[v] = username[v]
      BY <1>2, <2>2
    <3>2. \A v \in Workers : conn'[v] = c => conn[v] = c /\ (Past(v)' <=> Past(v))
      BY <1>2, <2>2
    <3> HIDE TypesOfTalk
    <3>3. AnsweredRight(c)'
      BY <1>1, <2>1, <3>1, <3>2, TalkConn DEF AnsweredRight
    <3>4. MeServed(c)'
      BY <1>1, <3>1, TalkConn DEF MeServed
    <3> QED
      BY <3>3, <3>4
  <2> QED
    BY <2>3, <2>4, <2>5, <2>6 DEF ConnInv
<1>4. LineInv'
  BY <1>1 DEF TalkInv, LineInv
<1>5. TokenInv'
  <2>1. ASSUME NEW p \in Spots
        PROVE  Held(p)' \subseteq Held(p)
    <3>1. CASE \E x \in Conns : p = <<"mail", x>> \/ p = <<"wire", x>>
      BY <1>1, <3>1, HeldInQueues
    <3>2. CASE \E v \in Workers : p = <<"worker", v>>
      <4>1. \A v \in Workers : Carrying(v)' => Carrying(v) /\ cmd'[v] = cmd[v]
        BY <1>1 DEF Carrying, ServedAlike
      <4> QED
        BY <3>2, <4>1 DEF Held
    <3> QED
      BY <3>1, <3>2, HeldWhere
  <2>2. \A x \in Conns : \A y : OwedTo(x, y) => OwedTo(x, y)'
    BY <1>1 DEF OwedTo
  <2>3. ASSUME NEW p \in Spots, NEW y \in Held(p)'
        PROVE  \E x \in Conns : OwedTo(x, y)'
    BY <2>1, <2>2, <2>3 DEF TalkInv, TokenInv
  <2> QED
    BY <2>1, <2>3, TokenStays DEF TalkInv
<1> QED
  BY <1>3, <1>4, <1>5 DEF Talks

LEMMA BeginTalks ==
    ASSUME TalkInv, NEW w \in Workers, Begin(w)
    PROVE  Talks'
<1> USE TypesOfTalk
<1>1. PICK c \in Conns : c = Head(line)
  BY DEF Begin
<1>2. /\ Len(line) \in Nat \ {0} /\ 1 \in 1 .. Len(line) /\ line[1] = c
      /\ Len(line') = Len(line) - 1
      /\ \A i \in 1 .. Len(line') : line'[i] = line[i + 1] /\ i + 1 \in 1 .. Len(line) /\ i + 1 # 1
  <2>1. line # << >> /\ line' = Tail(line)
    BY DEF Begin
  <2> QED
    BY <1>1, <2>1
<1>3. mode[c] = "line" /\ \A v \in Workers : conn[v] # c
  BY <1>2 DEF TalkInv, LineInv, ConnServed
<1>4. /\ Work(w) /\ pc[w] = "idle" /\ pc'[w] = "receive" /\ conn'[w] = c /\ username'[w] = NoUser
      /\ mode' = [mode EXCEPT ![c] = "free"] /\ UNCHANGED <<accounts, cmd, asked, me, mail, wire, back>>
  BY <1>1, <1>3 DEF Begin, Work, Connected
<1>5. /\ \A v \in Workers : v # w => ServedAlike(v)
      /\ \A v \in Workers : conn'[v] = c <=> v = w
  BY <1>3, <1>4, OwnStatus DEF ServedAlike
<1>6. ConnInv(c)'
  <2>1. me'[c] = {} /\ mail'[c] = << >> /\ wire'[c] = << >> /\ back'[c] = << >> /\ mode'[c] = "free"
    BY <1>3, <1>4, TalkConn DEF Queues, AnsweredRight
  <2>2. Queues(c)' /\ Question(c)' /\ OnTheWay(c)'
    BY <2>1, EmptyQueue DEF Queues, Question, OnTheWay
  <2>3. CarriedOut(c)'
    BY <1>4, <1>5, <2>1 DEF CarriedOut, Handling
  <2> QED
    BY <2>1, <2>2, <2>3 DEF ConnInv, AnsweredRight, MeServed
<1>7. ASSUME NEW d \in Conns, d # c
      PROVE  ConnInv(d)'
  <2>1. \A v \in Workers : conn[v] = d \/ conn'[v] = d => ServedAlike(v)
    <3>1. conn[w] = NoConn
      BY <1>4
    <3> QED
      BY <1>4, <1>5, <1>7, <3>1, ServerAssumption
  <2> QED
    BY <1>4, <1>7, <2>1, TalkConn, ConnKept
<1>8. LineInv'
  <2>1. \A i \in 1 .. Len(line) : i # 1 => line[i] # c /\ line[i] \in Conns /\ mode[line[i]] = "line"
    BY <1>2 DEF TalkInv, LineInv, ConnServed
  <2>2. \A i \in 1 .. Len(line') : mode'[line[i + 1]] = "line"
    BY <1>2, <1>4, <2>1
  <2> HIDE TypesOfTalk
  <2> QED
    BY <1>2, <2>2 DEF LineInv
<1>9. TokenInv'
  <2>1. ASSUME NEW p \in Spots
        PROVE  Held(p)' \subseteq Held(p)
    <3>1. CASE \E x \in Conns : p = <<"mail", x>> \/ p = <<"wire", x>>
      BY <1>4, <3>1, HeldInQueues
    <3>2. CASE \E v \in Workers : p = <<"worker", v>>
      <4>1. \A v \in Workers : Carrying(v)' => Carrying(v) /\ cmd'[v] = cmd[v]
        BY <1>4, <1>5 DEF Carrying, ServedAlike
      <4> QED
        BY <3>2, <4>1 DEF Held
    <3> QED
      BY <3>1, <3>2, HeldWhere
  <2>2. \A x \in Conns : \A y : OwedTo(x, y) => OwedTo(x, y)'
    BY <1>3, <1>4 DEF OwedTo
  <2>3. ASSUME NEW p \in Spots, NEW y \in Held(p)'
        PROVE  \E x \in Conns : OwedTo(x, y)'
    BY <2>1, <2>2, <2>3 DEF TalkInv, TokenInv
  <2> QED
    BY <2>1, <2>3, TokenStays DEF TalkInv
<1> QED
  BY <1>6, <1>7, <1>8, <1>9 DEF Talks

LEMMA ReceiveTalks ==
    ASSUME TalkInv, Faults = {}, NEW w \in Workers, Receive(w)
    PROVE  Talks'
<1> USE TypesOfTalk
<1>1. PICK c \in Conns : c = conn[w]
  BY DEF Receive
<1>2. PICK k \in Commands : k = Head(wire[c])
  <2>1. wire[c] # << >> /\ wire[c] \in Seq(Commands)
    BY <1>1 DEF Receive
  <2> QED
    BY <2>1
<1>3. /\ Work(w) /\ pc[w] = "receive" /\ wire[c] # << >>
      /\ cmd' = [cmd EXCEPT ![w] = k] /\ pc'[w] = First(k.kind)
      /\ wire' = [wire EXCEPT ![c] = Tail(@)]
      /\ UNCHANGED <<accounts, line, conn, username, mode, asked, me, mail, back>>
  BY <1>1, <1>2 DEF Receive, Parsed, Work, clients
<1>4. /\ k \in Cmds(wire[c]) /\ Cmds(wire'[c]) = Cmds(wire[c]) \ {k} /\ NoTwice(wire'[c])
      /\ \A d \in Conns : d # c => wire'[d] = wire[d]
  <2>1. wire[c] \in Seq(Commands) /\ NoTwice(wire[c])
    BY TalkConn DEF Queues
  <2> QED
    BY <1>2, <1>3, <2>1, QueueTail
<1>5. /\ \A v \in Workers : v # w => ServedAlike(v)
      /\ \A v \in Workers : conn[v] = c <=> v = w
  BY <1>1, <1>3, OwnStatus, OneWorker
<1>6. /\ ~Handling(w) /\ ~LoggingIn(w) /\ ~Past(w) /\ ~Carrying(w)
      /\ ~Past(w)' /\ pc'[w] # "drop" /\ cmd'[w] = k
      /\ Handling(w)' <=> k.kind # "TRANSACTION"
      /\ Carrying(w)' <=> k.kind = "TRANSACTION"
  <2>1. /\ k.kind = "TRANSACTION" => First(k.kind) = "transfer"
        /\ k.kind # "TRANSACTION" => First(k.kind) \in {"register", "login", "list", "logout", "reply"}
    BY CommandFields DEF First
  <2> QED
    BY <1>3, <2>1 DEF Handling, LoggingIn, Past, Carrying
<1>7. ConnInv(c)'
  <2>1. /\ mode'[c] = mode[c] /\ asked'[c] = asked[c] /\ me'[c] = me[c] /\ mail'[c] = mail[c]
        /\ back'[c] = back[c] /\ (Waits(c)' <=> Waits(c)) /\ (LoginGranted(c)' <=> LoginGranted(c))
    BY <1>3 DEF Waits, LoginGranted
  <2>2. k.kind # "TRANSACTION" => k = asked[c] /\ Waits(c)
    BY <1>4, TalkConn DEF OnTheWay
  <2>3. Queues(c)' /\ Question(c)'
    <3>1. mode[c] # "line"
      BY <1>3, TalkConn DEF Queues
    <3> QED
      BY <1>4, <2>1, <3>1, TalkConn DEF Queues, Question
  <2>4. OnTheWay(c)'
    <3>1. ASSUME NEW x \in Cmds(wire'[c]), x.kind # "TRANSACTION"
          PROVE  x = asked[c] /\ Waits(c) /\ k.kind = "TRANSACTION"
      BY <1>4, <2>2, <3>1, TalkConn DEF OnTheWay
    <3> QED
      BY <1>3, <1>5, <1>6, <2>1, <3>1 DEF OnTheWay
  <2>5. CarriedOut(c)'
    BY <1>3, <1>5, <1>6, <2>1, <2>2, TalkConn DEF CarriedOut
  <2>6. AnsweredRight(c)' /\ MeServed(c)'
    <3>1. Entered(w) => Entered(w)' /\ username'[w] = username[w]
      <4>1. ~Logout(w)
        BY <1>3 DEF Logout
      <4> QED
        BY <1>3, <4>1, SessionGoesOn DEF Entered
    <3>2. \A v \in Workers : conn[v] = c /\ Entered(v) =>
            conn'[v] = c /\ Entered(v)' /\ username'[v] = username[v]
      BY <1>3, <1>5, <3>1
    <3>3. \A v \in Workers : conn'[v] = c => conn[v] = c /\ ~Past(v)
      BY <1>3, <1>5, <1>6
    <3> HIDE TypesOfTalk
    <3>4. AnsweredRight(c)'
      BY <1>3, <1>5, <1>6, <2>1, <3>2, <3>3, TalkConn DEF AnsweredRight
    <3>5. MeServed(c)'
      BY <2>1, <3>2, TalkConn DEF MeServed
    <3> QED
      BY <3>4, <3>5
  <2> QED
    BY <2>3, <2>4, <2>5, <2>6 DEF ConnInv
<1>8. \A d \in Conns : ConnInv(d)'
  <2>1. ASSUME NEW d \in Conns, d # c
        PROVE  ConnInv(d)'
    BY <1>1, <1>3, <1>4, <2>1, OtherConns
  <2> QED
    BY <1>7, <2>1
<1>9. LineInv'
  BY <1>3 DEF TalkInv, LineInv
<1>10. TokenInv'
  <2>1. /\ <<"worker", w>> \in Spots /\ <<"wire", c>> \in Spots
        /\ <<"worker", w>> # <<"wire", c>>
    BY DEF Spots
  <2>2. ASSUME NEW p \in Spots
        PROVE  /\ Held(p)' \subseteq Held(p) \cup (IF p = <<"worker", w>> THEN {k} ELSE {})
               /\ p # <<"worker", w>> => k \notin Held(p)'
               /\ k \in Held(p)' => k \in Held(<<"wire", c>>)
    <3>1. k.kind = "TRANSACTION" => k \in Held(<<"wire", c>>)
      BY <1>4, HeldWhere
    <3>2. k \in Held(p) => k.kind = "TRANSACTION"
      BY HeldPayments
    <3>3. k \in Held(p) => p = <<"wire", c>>
      BY <2>1, <3>1, <3>2 DEF TalkInv, TokenInv
    <3>4. CASE p = <<"worker", w>>
      <4>1. Held(p)' = {x \in {k} : x.kind = "TRANSACTION"}
        BY <1>6, <3>4 DEF Held
      <4> QED
        BY <3>1, <3>4, <4>1
    <3>5. CASE p = <<"wire", c>>
      <4>1. Held(p)' = Held(p) \ {k}
        BY <1>4, <3>5 DEF Held
      <4> QED
        BY <2>1, <3>5, <4>1
    <3>6. CASE p # <<"worker", w>> /\ p # <<"wire", c>>
      <4>1. Held(p)' = Held(p)
        <5>1. CASE \E x \in Conns : p = <<"mail", x>> \/ p = <<"wire", x>>
          BY <1>3, <1>4, <3>6, <5>1, HeldInQueues
        <5>2. CASE \E v \in Workers : p = <<"worker", v>>
          BY <1>5, <3>6, <5>2 DEF Held, ServedAlike, Carrying
        <5> QED
          BY <5>1, <5>2, HeldWhere
      <4> QED
        BY <3>3, <3>6, <4>1
    <3> QED
      BY <3>4, <3>5, <3>6
  <2>3. \A x \in Conns : \A y : OwedTo(x, y) => OwedTo(x, y)'
    BY <1>3 DEF OwedTo
  <2>4. ASSUME NEW p \in Spots, NEW y \in Held(p)'
        PROVE  \E x \in Conns : OwedTo(x, y)'
    <3>1. \E r \in Spots : y \in Held(r)
      BY <2>1, <2>2, <2>4
    <3>2. \E x \in Conns : OwedTo(x, y)
      BY <3>1 DEF TalkInv, TokenInv
    <3> QED
      BY <2>3, <3>2
  <2>5. \A p \in Spots : Held(p)' \subseteq Held(p) \cup (IF p = <<"worker", w>> THEN {k} ELSE {})
    BY <2>2
  <2>6. \A p \in Spots : p # <<"worker", w>> => k \notin Held(p)'
    BY <2>2
  <2> HIDE TypesOfTalk
  <2> QED
    BY <2>1, <2>4, <2>5, <2>6, TokenMoves DEF TalkInv
<1> QED
  BY <1>8, <1>9, <1>10 DEF Talks

LEMMA FirstMessage ==
    ASSUME NEW m
    PROVE  LET s == Append(<< >>, m) IN s # << >> /\ Len(s) = 1 /\ Head(s) = m
OBVIOUS

LEMMA ReplyTalks ==
    ASSUME TalkInv, Faults = {}, NEW w \in Workers, Reply(w)
    PROVE  Talks'
<1> USE TypesOfTalk
<1>1. PICK c \in Conns : c = conn[w]
  BY DEF Reply
<1>2. /\ Work(w) /\ pc[w] = "reply" /\ UNCHANGED <<line, conn, username, cmd, mode, asked, me, mail, wire>>
      /\ pc'[w] = IF cmd[w].kind = "EXIT" THEN "count" ELSE "receive"
  BY DEF Reply, Goto, Answered, Work, clients
<1>3. /\ \A v \in Workers : v # w => ServedAlike(v)
      /\ \A v \in Workers : conn[v] = c <=> v = w
  BY <1>1, <1>2, OwnStatus, OneWorker
<1>4. /\ cmd[w] = asked[c] /\ Waits(c) /\ back[c] = << >> /\ cmd[w].kind # "TRANSACTION"
      /\ Handling(w) /\ ~Past(w)
  <2>1. Handling(w) /\ ~Past(w)
    BY <1>2 DEF Handling, Past
  <2> QED
    BY <1>1, <2>1, TalkConn DEF CarriedOut, Waits
<1>5. /\ mode[c] = "leaving" <=> cmd[w].kind = "EXIT"
      /\ mode[c] \in {"asked", "leaving"}
      /\ cmd[w].kind # "EXIT" => mode[c] = "asked"
  <2>1. Question(c) /\ mode[c] \in {"asked", "leaving"} /\ Plain("EXIT").kind = "EXIT"
    BY <1>4, TalkConn, PlainCommands DEF Waits
  <2> HIDE TypesOfTalk
  <2>2. mode[c] = "leaving" => cmd[w].kind = "EXIT"
    BY <1>4, <2>1 DEF Question
  <2>3. mode[c] = "asked" => cmd[w].kind # "EXIT"
    BY <1>4, <2>1 DEF Question
  <2> QED
    BY <2>1, <2>2, <2>3
<1>6. back' = [back EXCEPT ![c] = Append(<< >>, Answer(w))]
  BY <1>1, <1>4, <1>5 DEF Reply, Deliver, Connected
<1>7. /\ back'[c] # << >> /\ Len(back'[c]) = 1 /\ Head(back'[c]) = Answer(w)
      /\ \A d \in Conns : d # c => back'[d] = back[d]
  BY <1>6, FirstMessage
<1>8. /\ \A v \in Workers : conn'[v] = c <=> v = w
      /\ ~Handling(w)' /\ ~Carrying(w)' /\ pc'[w] # "drop"
      /\ mode[c] = "leaving" <=> Past(w)'
  BY <1>2, <1>3, <1>5 DEF Handling, Carrying, Past
<1>9. LoggingIn(w) <=> LoginGranted(c)'
  BY <1>2, <1>4, <1>5, <1>7 DEF LoggingIn, LoginGranted, Answer
<1>10. ConnInv(c)'
  <2>1. Queues(c)' /\ Question(c)'
    BY <1>2, TalkConn DEF Queues, Question
  <2>2. OnTheWay(c)'
    <3>1. \A k \in Cmds(wire[c]) : k.kind = "TRANSACTION"
      BY <1>3, <1>4, TalkConn DEF OnTheWay
    <3> QED
      BY <1>2, <3>1 DEF OnTheWay
  <2>3. CarriedOut(c)'
    <3>1. ~LoginGranted(c)
      BY <1>4 DEF LoginGranted
    <3>2. me[c] = {} /\ username[w] # NoUser => LoggingIn(w)
      BY <1>1, <1>4, <3>1, TalkConn DEF CarriedOut
    <3> QED
      BY <1>2, <1>5, <1>8, <1>9, <3>2 DEF CarriedOut
  <2>4. AnsweredRight(c)'
    <3>1. LoggingIn(w) => username'[w] = asked'[c].name /\ Entered(w)'
      <4>1. LoggingIn(w) => username[w] = cmd[w].name /\ cmd[w].name \in Users
        BY CommandFields DEF TalkInv, LoginInv, LoggingIn
      <4>2. LoggingIn(w) => pc'[w] = "receive"
        BY <1>2 DEF LoggingIn
      <4> QED
        BY <1>2, <1>4, <4>1, <4>2, ServerAssumption DEF Entered, InSession, Leaving
    <3>2. Head(back'[c]).of = asked'[c]
      BY <1>2, <1>4, <1>7 DEF Answer
    <3> HIDE TypesOfTalk
    <3> QED
      BY <1>2, <1>5, <1>7, <1>8, <1>9, <3>1, <3>2 DEF AnsweredRight
  <2>5. MeServed(c)'
    <3>1. mode[c] # "leaving" /\ Entered(w) => Entered(w)'
      BY <1>2, <1>5, <1>8 DEF Entered, InSession, Leaving, Past
    <3> QED
      BY <1>2, <1>3, <3>1, TalkConn DEF MeServed
  <2> QED
    BY <2>1, <2>2, <2>3, <2>4, <2>5 DEF ConnInv
<1>11. ASSUME NEW d \in Conns, d # c
       PROVE  ConnInv(d)'
  BY <1>1, <1>2, <1>7, <1>11, OtherConns
<1>12. LineInv'
  BY <1>2 DEF TalkInv, LineInv
<1>13. TokenInv'
  <2>1. ASSUME NEW p \in Spots
        PROVE  Held(p)' \subseteq Held(p)
    <3>1. CASE \E x \in Conns : p = <<"mail", x>> \/ p = <<"wire", x>>
      BY <1>2, <3>1, HeldInQueues
    <3>2. CASE \E v \in Workers : p = <<"worker", v>>
      <4>1. \A v \in Workers : Carrying(v)' => Carrying(v) /\ cmd'[v] = cmd[v]
        BY <1>3, <1>8 DEF Carrying, ServedAlike
      <4> QED
        BY <3>2, <4>1 DEF Held
    <3> QED
      BY <3>1, <3>2, HeldWhere
  <2>2. ASSUME NEW p \in Spots, NEW y \in Held(p)'
        PROVE  \E x \in Conns : OwedTo(x, y)'
    <3>1. PICK x \in Conns : OwedTo(x, y)
      BY <2>1, <2>2 DEF TalkInv, TokenInv
    <3>2. y.kind = "TRANSACTION"
      BY <2>1, <2>2, HeldPayments
    <3>3. x # c
      BY <1>4, <3>1, <3>2 DEF OwedTo
    <3> QED
      BY <1>2, <1>7, <3>1, <3>3 DEF OwedTo
  <2> QED
    BY <2>1, <2>2, TokenStays DEF TalkInv
<1> QED
  BY <1>10, <1>11, <1>12, <1>13 DEF Talks

\* The result of a payment goes to its payer, who waits for it.
LEMMA ResultReaches ==
    ASSUME TalkInv, NEW w \in Workers, Result(w)
    PROVE  \E e \in Conns :
              /\ OwedTo(e, cmd[w]) /\ UNCHANGED up
              /\ back' = [back EXCEPT ![e] = Append(<< >>, Answer(w))]
<1> USE TypesOfTalk
<1>1. pc[w] = "result" /\ Carrying(w)
  BY DEF Result, Carrying
<1>2. PICK v \in Workers : target[w] = {v} /\ Entered(v) /\ username[v] = cmd[w].payer
  BY <1>1 DEF TalkInv, RouteInv
<1>3. PICK x \in Workers : /\ Entered(x) /\ username[x] = cmd[w].payer
                           /\ conn[x] \in Conns /\ OwedTo(conn[x], cmd[w])
  BY <1>1, PayerWaits
<1>4. v = x
  BY <1>2, <1>3, OneSession
<1>5. Live(w) = {v}
  BY <1>2 DEF Live, Entered, InSession
<1>6. Deliver(conn[v], Answer(w)) /\ UNCHANGED up
  BY <1>5 DEF Result
<1>7. Connected(conn[v]) /\ back[conn[v]] = << >>
  BY <1>3, <1>4 DEF Connected, OwedTo
<1> QED
  BY <1>3, <1>4, <1>6, <1>7 DEF Deliver

LEMMA ResultTalks ==
    ASSUME TalkInv, Faults = {}, NEW w \in Workers, Result(w)
    PROVE  Talks'
<1> USE TypesOfTalk
<1>1. PICK e \in Conns : /\ OwedTo(e, cmd[w])
                         /\ back' = [back EXCEPT ![e] = Append(<< >>, Answer(w))]
  BY ResultReaches
<1>2. /\ Work(w) /\ pc[w] = "result" /\ pc'[w] = "receive"
      /\ UNCHANGED <<line, conn, username, cmd, mode, asked, me, mail, wire>>
  BY DEF Result, Goto, Answered, Work, clients
<1>3. /\ back'[e] # << >> /\ Len(back'[e]) = 1 /\ Head(back'[e]) = Answer(w)
      /\ \A d \in Conns : d # e => back'[d] = back[d]
  BY <1>1, FirstMessage
<1>4. /\ Carrying(w) /\ ~Carrying(w)' /\ ~Handling(w) /\ ~Handling(w)' /\ ~Past(w) /\ ~Past(w)'
      /\ ~LoggingIn(w) /\ ~LoggingIn(w)' /\ cmd[w].kind = "TRANSACTION" /\ pc'[w] # "drop"
  BY <1>2 DEF Carrying, Handling, Past, LoggingIn, BasicInv, CommandFits, CommandAt
<1>5. \A v \in Workers : v # w => ServedAlike(v)
  BY <1>2, OwnStatus
<1>6. \A v \in Workers :
        /\ (Handling(v)' <=> Handling(v)) /\ (Past(v)' <=> Past(v)) /\ (LoggingIn(v)' <=> LoggingIn(v))
        /\ (pc'[v] = "drop" => pc[v] = "drop") /\ (Entered(v) => Entered(v)')
        /\ conn'[v] = conn[v] /\ username'[v] = username[v] /\ cmd'[v] = cmd[v]
  <2>1. ASSUME NEW v \in Workers, v # w
        PROVE  /\ (Handling(v)' <=> Handling(v)) /\ (Past(v)' <=> Past(v))
               /\ (LoggingIn(v)' <=> LoggingIn(v)) /\ pc'[v] = pc[v] /\ (Entered(v) => Entered(v)')
    BY <1>5, <2>1 DEF ServedAlike, Handling, Past, LoggingIn, Entered, InSession, Leaving
  <2>2. Entered(w) => Entered(w)'
    BY <1>2 DEF Entered, InSession, Leaving
  <2> QED
    BY <1>2, <1>4, <2>1, <2>2
<1>7. ASSUME NEW d \in Conns
      PROVE  ConnInv(d)'
  <2>1. CASE d # e
    <3>1. /\ back'[d] = back[d] /\ (Waits(d)' <=> Waits(d)) /\ (LoginGranted(d)' <=> LoginGranted(d))
      BY <1>2, <1>3, <2>1 DEF Waits, LoginGranted
    <3> HIDE TypesOfTalk
    <3>2. Queues(d)' /\ Question(d)'
      BY <1>2, TalkConn DEF Queues, Question
    <3>3. OnTheWay(d)' /\ CarriedOut(d)'
      BY <1>2, <1>6, <3>1, TalkConn DEF OnTheWay, CarriedOut
    <3>4. AnsweredRight(d)'
      BY <1>2, <1>6, <3>1, TalkConn DEF AnsweredRight
    <3>5. MeServed(d)'
      BY <1>2, <1>6, TalkConn DEF MeServed
    <3> QED
      BY <3>2, <3>3, <3>4, <3>5 DEF ConnInv
  <2>2. CASE d = e
    <3>1. /\ mode[d] = "asked" /\ asked[d] = cmd[w] /\ back[d] = << >>
          /\ ~LoginGranted(d) /\ ~LoginGranted(d)'
      BY <1>1, <1>2, <1>4, <2>2 DEF OwedTo, LoginGranted
    <3>2. \A k \in Cmds(wire[d]) : k.kind = "TRANSACTION"
      BY <1>4, <3>1, TalkConn DEF OnTheWay
    <3>3. \A v \in Workers : conn[v] = d => ~Handling(v)
      BY <1>4, <3>1, TalkConn DEF CarriedOut
    <3> HIDE TypesOfTalk
    <3>4. Queues(d)' /\ Question(d)'
      BY <1>2, TalkConn DEF Queues, Question
    <3>5. OnTheWay(d)'
      BY <1>2, <3>2 DEF OnTheWay
    <3>6. CarriedOut(d)'
      BY <1>2, <1>6, <3>1, <3>3, TalkConn DEF CarriedOut
    <3>7. Head(back'[d]).of = asked'[d]
      BY <1>2, <1>3, <2>2, <3>1 DEF Answer
    <3>8. AnsweredRight(d)'
      BY <1>2, <1>3, <2>2, <3>1, <3>7 DEF AnsweredRight
    <3>9. MeServed(d)'
      BY <1>2, <1>6, TalkConn DEF MeServed
    <3> QED
      BY <3>4, <3>5, <3>6, <3>8, <3>9 DEF ConnInv
  <2> QED
    BY <2>1, <2>2
<1>8. LineInv'
  BY <1>2 DEF TalkInv, LineInv
<1>9. TokenInv'
  <2>1. ASSUME NEW p \in Spots
        PROVE  Held(p)' \subseteq Held(p) /\ (p = <<"worker", w>> => Held(p)' = {})
    <3>1. CASE \E x \in Conns : p = <<"mail", x>> \/ p = <<"wire", x>>
      <4>1. Held(p)' = Held(p)
        BY <1>2, <3>1, HeldInQueues
      <4>2. p # <<"worker", w>>
        BY <3>1
      <4> QED
        BY <4>1, <4>2
    <3>2. CASE \E v \in Workers : p = <<"worker", v>>
      <4>1. PICK v \in Workers : p = <<"worker", v>>
        BY <3>2
      <4>2. Held(p) = {k \in {cmd[v]} : Carrying(v)} /\ Held(p)' = {k \in {cmd[v]} : Carrying(v)'}
        BY <1>2, <4>1 DEF Held
      <4>3. Carrying(v)' => Carrying(v) /\ v # w
        BY <1>4, <1>5 DEF Carrying, ServedAlike
      <4> QED
        BY <4>1, <4>2, <4>3
    <3> QED
      BY <3>1, <3>2, HeldWhere
  <2>2. <<"worker", w>> \in Spots /\ cmd[w] \in Held(<<"worker", w>>)
    BY <1>4, HeldWhere
  <2>3. ASSUME NEW p \in Spots, NEW y \in Held(p)'
        PROVE  \E x \in Conns : OwedTo(x, y)'
    <3>1. y \in Held(p) /\ p # <<"worker", w>>
      BY <2>1, <2>3
    <3>2. PICK x \in Conns : OwedTo(x, y)
      BY <3>1 DEF TalkInv, TokenInv
    <3>3. y # cmd[w]
      BY <2>2, <3>1 DEF TalkInv, TokenInv
    <3>4. x # e
      BY <1>1, <3>2, <3>3 DEF OwedTo
    <3> QED
      BY <1>2, <1>3, <3>2, <3>4 DEF OwedTo
  <2> QED
    BY <2>1, <2>3, TokenStays DEF TalkInv
<1> QED
  BY <1>7, <1>8, <1>9 DEF Talks

LEMMA WorkerTalks ==
    ASSUME TalkInv, Faults = {}, NEW w \in Workers, Work(w)
    PROVE  Talks'
BY NoDisturbance, BeginTalks, ReceiveTalks, WorkTalks, ReplyTalks, ResultTalks, CloseTalks DEF Work

-----------------------------------------------------------------------------
(***************************************************************************)
(* Logins and who is online.                                               *)
(***************************************************************************)
LEMMA LoginStep ==
    ASSUME TalkInv, Faults = {}, NEW w \in Workers, Work(w)
    PROVE  LoginInv(w)'
<1> USE TypesOfTalk
<1>1. LoginInv(w) /\ CommandAt(w) /\ ~Hangup(w)
  BY NoDisturbance DEF TalkInv, BasicInv, CommandFits
<1>2. CASE pc'[w] \notin {"push", "compose", "reply"}
  BY <1>2 DEF LoginInv, LoggingIn
<1>3. CASE cmd'[w].kind # "LOGIN"
  BY <1>3 DEF LoginInv, LoggingIn
<1>4. CASE Receive(w)
  <2>1. PICK k \in Commands : cmd'[w] = k /\ pc'[w] = First(k.kind)
    <3>1. wire[conn[w]] # << >> /\ wire[conn[w]] \in Seq(Commands)
      BY <1>4 DEF Receive
    <3>2. Head(wire[conn[w]]) \in Commands
      BY <3>1
    <3> QED
      BY <1>4, <3>2 DEF Receive, Parsed
  <2>2. k.kind = "LOGIN" => First(k.kind) = "login"
    BY DEF First
  <2> QED
    BY <1>2, <1>3, <2>1, <2>2
<1>5. CASE Register(w) \/ List(w) \/ Logout(w)
  <2>1. (cmd' = cmd /\ cmd[w].kind # "LOGIN") \/ pc'[w] = "count"
    BY <1>1, <1>5 DEF Register, RegisterCheck, RegisterReplace, List, Logout, Calls, Goto, CommandAt
  <2> QED
    BY <1>2, <1>3, <2>1
<1>6. CASE Login(w)
  <2>1. \/ status'[w] = "LOGIN_SUCCESS" /\ username'[w] = cmd'[w].name
        \/ status'[w] # "LOGIN_SUCCESS" /\ pc'[w] = "reply"
        \/ pc'[w] = "login_update"
    BY <1>6 DEF Login, LoginCheck, LoginUpdate, Goto, Calls, Store!Refuse, Store!Answer
  <2> QED
    BY <2>1 DEF LoginInv, LoggingIn
<1>7. CASE PushBack(w) \/ (pc[w] = "compose" /\ Read(w))
  <2>1. /\ UNCHANGED <<cmd, username, status>> /\ pc[w] \in {"push", "compose"}
    BY <1>7 DEF PushBack, Read, Calls, accounts
  <2> QED
    BY <1>1, <2>1 DEF LoginInv, LoggingIn
<1>8. CASE \/ Begin(w) \/ Transfer(w) \/ (pc[w] # "compose" /\ Read(w)) \/ Search(w) \/ Find(w)
           \/ Erase(w) \/ Reply(w) \/ Result(w) \/ Close(w)
  <2>1. pc'[w] \notin {"push", "compose", "reply"}
    BY <1>8 DEF Begin, Transfer, Read, Search, Find, Erase, Reply, Result, Close, Ended, Seek, Goto
  <2> QED
    BY <1>2, <2>1
<1> QED
  BY <1>1, <1>4, <1>5, <1>6, <1>7, <1>8 DEF Work

\* Only a login puts a user online.
LEMMA NewOnline ==
    ASSUME TalkInv, Faults = {}, NEW w \in Workers, Work(w), NEW u \in Store!Online', u \notin Store!Online
    PROVE  /\ LoginUpdate(w) /\ username'[w] = u /\ InSession(w)' /\ conn'[w] = conn[w]
           /\ session'[u].addr = conn[w]
<1> USE TypesOfTalk
<1>1. AccountTypes /\ DOMAIN session = DOMAIN balance
  BY DEF FullTypes, AccountTypes
<1>2. ~(session' = session /\ DOMAIN balance' = DOMAIN balance)
  BY DEF Store!Online, Store!Registered
<1>3. ~RegisterCheck(w) /\ ~RegisterReplace(w)
  BY <1>1, <1>2 DEF RegisterCheck, RegisterReplace, Replaced, Store!Refuse, Store!Online,
     Store!Registered, accounts
<1>4. ~Logout(w)
  <2>1. SUFFICES ASSUME Logout(w) PROVE FALSE
    OBVIOUS
  <2>2. Store!Logout(w, conn[w])
    BY <2>1 DEF Logout
  <2>3. PICK x \in Store!At(conn[w]) : session' = [session EXCEPT ![x] = NoSession] /\ UNCHANGED balance
    BY <1>2, <2>2 DEF Store!Logout, Store!Refuse
  <2> QED
    BY <1>1, <2>3 DEF Store!Online, Store!Registered
<1>5. ~Transfer(w)
  BY <1>2 DEF Transfer, Store!Transfer, Store!Refuse
<1>6. LoginUpdate(w)
  <2>1. ~LoginCheck(w)
    BY <1>2 DEF LoginCheck, Store!Refuse, accounts
  <2> QED
    BY <1>2, <1>3, <1>4, <1>5, <2>1, NoDisturbance DEF Work, Register, Login, Begin, Receive,
       PushBack, List, Read, Search, Find, Erase, Reply, Result, Close, Answered, Store!Ask, Loops,
       accounts
<1>7. pc[w] = "login_update" /\ conn'[w] = conn[w] /\ conn[w] \in Conns
  BY <1>6, AtLogin DEF LoginUpdate, Calls
<1>8. /\ cmd[w].name \in Store!Registered \ Store!Online
      /\ session' = [session EXCEPT ![cmd[w].name] = [addr |-> conn[w], private_port |-> "port"]]
      /\ UNCHANGED balance
  BY <1>6, <1>7 DEF LoginUpdate, SessionInv, CallsCurrent, CallAt
<1>9. u = cmd[w].name /\ session'[u].addr = conn[w]
  BY <1>1, <1>8 DEF Store!Online, Store!Registered
<1>10. pc'[w] = "push" /\ username'[w] = u
  BY <1>6, <1>9 DEF LoginUpdate, Goto
<1>11. u # NoUser
  BY <1>1, <1>8, <1>9, ServerAssumption DEF AccountTypes, Store!Registered
<1> QED
  BY <1>6, <1>7, <1>9, <1>10, <1>11 DEF InSession, Leaving

LEMMA OnlineStep ==
    ASSUME TalkInv, Faults = {}, NEW w \in Workers, Work(w)
    PROVE  OnlineInv'
<1> USE TypesOfTalk
<1>1. SUFFICES ASSUME NEW u \in Store!Online'
               PROVE  \E v \in Workers : conn'[v] = session'[u].addr /\ username'[v] = u /\ InSession(v)'
  BY DEF OnlineInv
<1>2. CASE u \notin Store!Online
  BY <1>2, NewOnline
<1>3. CASE u \in Store!Online
  <2>1. PICK v \in Workers : conn[v] = session[u].addr /\ username[v] = u /\ InSession(v)
    BY <1>3 DEF TalkInv, OnlineInv
  <2>2. ~(Logout(w) /\ session[u].addr = conn[w])
    <3>1. SUFFICES ASSUME Logout(w), session[u].addr = conn[w] PROVE FALSE
      OBVIOUS
    <3>2. /\ Store!Logout(w, conn[w]) /\ conn[w] \in Conns
      BY <3>1, AtLogout DEF Logout
    <3>3. \A x \in Store!At(conn[w]) : x = u
      <4>1. SUFFICES ASSUME NEW x \in Store!Online, session[x].addr = conn[w] PROVE x = u
        BY DEF Store!At
      <4>2. PICK y \in Workers : conn[y] = session[x].addr /\ username[y] = x
        BY <4>1 DEF TalkInv, OnlineInv
      <4>3. y = v
        BY <2>1, <3>1, <3>2, <4>1, <4>2, OneWorker
      <4> QED
        BY <2>1, <4>2, <4>3
    <3>4. Store!At(conn[w]) = {u}
      BY <1>3, <3>1, <3>3 DEF Store!At
    <3>5. session' = [session EXCEPT ![u] = NoSession]
      BY <3>2, <3>4 DEF Store!Logout
    <3>6. u \in DOMAIN session
      BY <1>3 DEF FullTypes, AccountTypes, Store!Online, Store!Registered
    <3> QED
      BY <1>1, <3>5, <3>6 DEF Store!Online
  <2>3. session'[u] = session[u]
    BY <1>3, <2>2, SessionStays DEF SessionInv, CallsCurrent
  <2>4. CASE v # w
    <3>1. ServedAlike(v)
      BY <2>4, OwnStatus
    <3> HIDE TypesOfTalk
    <3>2. InSession(v)' /\ conn'[v] = conn[v] /\ username'[v] = username[v]
      BY <2>1, <3>1 DEF ServedAlike, InSession, Leaving
    <3> QED
      BY <2>1, <2>3, <3>2
  <2>5. CASE v = w
    BY <2>1, <2>2, <2>3, <2>5, SessionGoesOn
  <2> QED
    BY <2>4, <2>5
<1> QED
  BY <1>2, <1>3

-----------------------------------------------------------------------------
(***************************************************************************)
(* client_fds: every entry is that of a session, the search for the payer  *)
(* finds his.                                                              *)
(***************************************************************************)
LEMMA EntryTyped ==
    ASSUME TalkInv, NEW i \in 1 .. Len(fds)
    PROVE  /\ fds[i].name \in Users /\ fds[i].name # NoUser /\ fds[i].frame \in Workers
           /\ username[fds[i].frame] = fds[i].name
           /\ Entered(fds[i].frame) \/ ToErase(fds[i].frame)
<1>1. fds[i] \in [name : Users, frame : Workers]
  BY TypesOfTalk, ElementOfSeq
<1> QED
  BY <1>1, ServerAssumption DEF TalkInv, LiveInv, LiveEntry

\* The session of an entry lasts until the entry is erased.
LEMMA OwnerStays ==
    ASSUME TalkInv, Faults = {}, NEW w \in Workers, Work(w), ~Erase(w),
           NEW i \in 1 .. Len(fds), fds[i].frame = w
    PROVE  username'[w] = username[w] /\ (Entered(w)' \/ ToErase(w)')
<1> USE TypesOfTalk
<1>1. username[w] = fds[i].name /\ username[w] # NoUser /\ (Entered(w) \/ ToErase(w))
  BY EntryTyped
<1>2. CASE Logout(w)
  <2>1. pc'[w] = "reply" /\ cmd'[w].kind = "EXIT" /\ UNCHANGED username
    BY <1>2, AtLogout DEF Logout, Goto, Calls
  <2> QED
    BY <2>1 DEF ToErase
<1>3. CASE Entered(w) /\ ~Logout(w)
  BY <1>3, SessionGoesOn DEF Entered
<1>4. CASE ToErase(w)
  <2>1. CASE pc[w] = "count"
    <3>1. Read(w)
      BY <2>1, NoDisturbance DEF Work, Begin, Receive, Register, RegisterCheck, RegisterReplace, Login,
         LoginCheck, LoginUpdate, PushBack, List, Transfer, Logout, Search, Find, Erase, Reply, Result, Close
    <3> QED
      BY <2>1, <3>1 DEF Read, Goto, ToErase
  <2>2. CASE pc[w] = "find"
    <3>1. Find(w)
      BY <2>2, NoDisturbance DEF Work, Begin, Receive, Register, RegisterCheck, RegisterReplace, Login,
         LoginCheck, LoginUpdate, PushBack, List, Transfer, Logout, Read, Search, Erase, Reply, Result, Close
    <3>2. at[w] <= Len(fds)
      <4>1. \A k \in 1 .. (at[w] - 1) : fds[k].name # username[w]
        BY <2>2 DEF EntryInv, Index
      <4>2. ~(i \in 1 .. (at[w] - 1))
        BY <1>1, <4>1
      <4>3. Len(fds) \in Nat /\ at[w] \in Nat
        BY LenProperties
      <4> QED
        BY <4>2, <4>3
    <3>3. ~(at[w] > Len(fds))
      BY <3>2, LenProperties
    <3>4. UNCHANGED username /\ pc'[w] \in {"find", "erase"}
      BY <2>2, <3>1, <3>3 DEF Find, Seek, Goto, Loops
    <3> QED
      BY <3>4 DEF ToErase
  <2>3. CASE pc[w] = "reply" /\ cmd[w].kind = "EXIT"
    <3>1. Reply(w)
      BY <2>3, NoDisturbance DEF Work, Begin, Receive, Register, RegisterCheck, RegisterReplace, Login,
         LoginCheck, LoginUpdate, PushBack, List, Transfer, Logout, Read, Search, Find, Erase, Result, Close
    <3> QED
      BY <2>3, <3>1 DEF Reply, Goto, Answered, ToErase
  <2>4. pc[w] # "erase"
    BY NoDisturbance DEF Work, Begin, Receive, Register, RegisterCheck, RegisterReplace, Login,
       LoginCheck, LoginUpdate, PushBack, List, Transfer, Logout, Read, Search, Find, Reply, Result, Close
  <2> QED
    BY <1>4, <2>1, <2>2, <2>3, <2>4 DEF ToErase
<1> QED
  BY <1>1, <1>2, <1>3, <1>4

\* The owner of an entry that stays goes on.
LEMMA OwnersStay ==
    ASSUME TalkInv, Faults = {}, NEW w \in Workers, Work(w), NEW i \in 1 .. Len(fds),
           NEW v \in Workers, fds[i].frame = v, ~(Erase(w) /\ v = w)
    PROVE  username'[v] = fds[i].name /\ (Entered(v)' \/ ToErase(v)')
<1>1. username[v] = fds[i].name /\ (Entered(v) \/ ToErase(v))
  BY EntryTyped
<1>2. CASE v = w
  BY <1>1, <1>2, OwnerStays
<1>3. CASE v # w
  <2>1. ServedAlike(v)
    BY <1>3, OwnStatus
  <2>2. (Entered(v)' <=> Entered(v)) /\ (ToErase(v)' <=> ToErase(v)) /\ username'[v] = username[v]
    BY <2>1 DEF ServedAlike, Entered, InSession, Leaving, ToErase
  <2> QED
    BY <1>1, <2>2
<1> QED
  BY <1>2, <1>3

LEMMA LiveAfter ==
    ASSUME \A i \in 1 .. Len(fds') : \E v \in Workers :
              fds'[i].frame = v /\ username'[v] = fds'[i].name /\ (Entered(v)' \/ ToErase(v)'),
           \A i, j \in 1 .. Len(fds') : fds'[i].frame = fds'[j].frame => i = j
    PROVE  LiveInv'
<1>1. SUFFICES ASSUME NEW i \in 1 .. Len(fds') PROVE LiveEntry(i)'
  BY DEF LiveInv
<1>2. PICK v \in Workers :
        fds'[i].frame = v /\ username'[v] = fds'[i].name /\ (Entered(v)' \/ ToErase(v)')
  OBVIOUS
<1> QED
  BY <1>2 DEF LiveEntry, Entered, InSession, Leaving, ToErase

\* A worker that has not entered its session yet has no entry.
LEMMA NoEntryYet ==
    ASSUME TalkInv, NEW w \in Workers, pc[w] = "push", NEW i \in 1 .. Len(fds)
    PROVE  fds[i].frame # w
<1>1. ~Entered(w) /\ ~ToErase(w)
  BY DEF Entered, ToErase
<1>2. SUFFICES ASSUME NEW v \in Workers, v = fds[i].frame PROVE v # w
  BY EntryTyped
<1>3. Entered(v) \/ ToErase(v)
  BY <1>2, EntryTyped
<1> QED
  BY <1>1, <1>3

LEMMA LivePushed ==
    ASSUME TalkInv, Faults = {}, NEW w \in Workers, PushBack(w)
    PROVE  LiveInv'
<1>1. /\ fds \in Seq([name : Users, frame : Workers]) /\ Work(w) /\ pc[w] = "push"
      /\ username[w] \in Users /\ CommandAt(w)
  BY TypesOfTalk DEF PushBack, Work, BasicInv, CommandFits, CommandAt
<1>2. /\ fds' = Append(fds, [name |-> username[w], frame |-> w])
      /\ pc'[w] = "compose" /\ username' = username /\ username[w] # NoUser
  BY <1>1, TypesOfTalk DEF PushBack, Goto, CommandAt
<1>3. /\ Len(fds) \in Nat /\ Len(fds') = Len(fds) + 1
      /\ fds'[Len(fds) + 1] = [name |-> username[w], frame |-> w]
      /\ \A i \in 1 .. Len(fds) : fds'[i] = fds[i]
  BY <1>1, <1>2
<1>4. \A i : i \in 1 .. Len(fds') <=> i \in 1 .. Len(fds) \/ i = Len(fds) + 1
  BY <1>3
<1>5. \A i \in 1 .. Len(fds) : fds[i].frame \in Workers /\ fds[i].frame # w
  BY <1>1, NoEntryYet, EntryTyped
<1>6. Entered(w)'
  BY <1>2 DEF Entered, InSession, Leaving
<1>7. ASSUME NEW i \in 1 .. Len(fds')
      PROVE  \E v \in Workers :
                fds'[i].frame = v /\ username'[v] = fds'[i].name /\ (Entered(v)' \/ ToErase(v)')
  <2>1. CASE i = Len(fds) + 1
    BY <1>2, <1>3, <1>6, <2>1
  <2>2. CASE i \in 1 .. Len(fds)
    <3>1. PICK v \in Workers : v = fds[i].frame
      BY <1>5, <2>2
    <3>2. username'[v] = fds[i].name /\ (Entered(v)' \/ ToErase(v)')
      BY <1>1, <1>5, <2>2, <3>1, OwnersStay
    <3> QED
      BY <1>3, <2>2, <3>1, <3>2
  <2> QED
    BY <1>4, <2>1, <2>2
<1>8. ASSUME NEW i \in 1 .. Len(fds'), NEW j \in 1 .. Len(fds'), fds'[i].frame = fds'[j].frame
      PROVE  i = j
  <2>1. fds'[Len(fds) + 1].frame = w
    BY <1>3
  <2>2. i \in 1 .. Len(fds) /\ j \in 1 .. Len(fds) => i = j
    BY <1>3, <1>8 DEF TalkInv, LiveInv
  <2> QED
    BY <1>3, <1>4, <1>5, <1>8, <2>1, <2>2
<1> QED
  BY <1>7, <1>8, LiveAfter

\* The entry that is erased is that of the worker that erases it.
LEMMA ErasesOwn ==
    ASSUME TalkInv, NEW w \in Workers, Erase(w)
    PROVE  /\ at[w] \in 1 .. Len(fds) /\ fds[at[w]].frame = w
           /\ fds' = RemoveAt(fds, at[w]) /\ pc[w] = "erase"
<1>1. /\ fds \in Seq([name : Users, frame : Workers]) /\ Len(fds) \in Nat /\ at[w] \in Nat \ {0}
  BY TypesOfTalk, LenProperties
<1>2. pc[w] = "erase" /\ Index(w) /\ EntryLeft(w) /\ Undisturbed
  BY DEF Erase, TalkInv, EntryInv
<1>3. /\ at[w] <= Len(fds) /\ fds[at[w]].name = username[w]
      /\ \A k \in 1 .. (at[w] - 1) : fds[k].name # username[w]
  BY <1>2 DEF Index
<1>4. at[w] \in 1 .. Len(fds) /\ ~(at[w] > Len(fds))
  BY <1>1, <1>3
<1>5. fds' = RemoveAt(fds, at[w])
  BY <1>4 DEF Erase
<1>6. ASSUME NEW x \in Workers, x = fds[at[w]].frame, x # w
      PROVE  FALSE
  <2>1. username[x] = username[w] /\ username[w] # NoUser /\ (Entered(x) \/ ToErase(x))
    BY <1>3, <1>4, <1>6, EntryTyped
  <2>2. ~ToErase(x)
    BY <1>2, <1>6 DEF Undisturbed, Leaving, ToErase
  <2>3. ToErase(w)
    BY <1>2 DEF ToErase
  <2>4. PICK i, j \in 1 .. Len(fds) : i < j /\ fds[i].name = username[w] /\ fds[j] = Entry(x)
    BY <1>2, <1>6, <2>1, <2>2, <2>3 DEF EntryLeft
  <2>5. fds[j].frame = x
    BY <2>4 DEF Entry
  <2>6. j = at[w]
    BY <1>4, <1>6, <2>5 DEF TalkInv, LiveInv
  <2>7. i \in 1 .. (at[w] - 1)
    BY <1>1, <2>4, <2>6
  <2> QED
    BY <1>3, <2>4, <2>7
<1> QED
  BY <1>2, <1>4, <1>5, <1>6, EntryTyped

LEMMA LiveErased ==
    ASSUME TalkInv, Faults = {}, NEW w \in Workers, Erase(w)
    PROVE  LiveInv'
<1>1. /\ fds \in Seq([name : Users, frame : Workers]) /\ Len(fds) \in Nat /\ Work(w)
  BY TypesOfTalk, LenProperties DEF Work
<1>2. /\ at[w] \in 1 .. Len(fds) /\ fds[at[w]].frame = w /\ fds' = RemoveAt(fds, at[w])
  BY ErasesOwn
<1>3. /\ Len(fds') = Len(fds) - 1
      /\ \A j \in 1 .. (Len(fds) - 1) : fds'[j] = IF j < at[w] THEN fds[j] ELSE fds[j + 1]
  BY <1>1, <1>2, RemovedAt
<1> DEFINE from(j) == IF j < at[w] THEN j ELSE j + 1
<1>4. \A j \in 1 .. Len(fds') : /\ from(j) \in 1 .. Len(fds) /\ from(j) # at[w]
                                /\ fds'[j] = fds[from(j)]
  BY <1>1, <1>2, <1>3
<1>5. \A i, j \in 1 .. Len(fds') : from(i) = from(j) => i = j
  BY <1>1, <1>2, <1>3
<1> HIDE DEF from
<1>6. \A i, j \in 1 .. Len(fds) : fds[i].frame = fds[j].frame => i = j
  BY DEF TalkInv, LiveInv
<1>7. ASSUME NEW i \in 1 .. Len(fds')
      PROVE  \E v \in Workers :
                fds'[i].frame = v /\ username'[v] = fds'[i].name /\ (Entered(v)' \/ ToErase(v)')
  <2>1. PICK k \in 1 .. Len(fds) : k # at[w] /\ fds'[i] = fds[k]
    BY <1>4
  <2>2. PICK v \in Workers : v = fds[k].frame
    BY EntryTyped
  <2>3. v # w
    BY <1>2, <1>6, <2>1, <2>2
  <2>4. username'[v] = fds[k].name /\ (Entered(v)' \/ ToErase(v)')
    BY <1>1, <2>2, <2>3, OwnersStay
  <2> QED
    BY <2>1, <2>2, <2>4
<1>8. \A i, j \in 1 .. Len(fds') : fds'[i].frame = fds'[j].frame => i = j
  BY <1>4, <1>5, <1>6
<1> QED
  BY <1>7, <1>8, LiveAfter

LEMMA LiveStep ==
    ASSUME TalkInv, Faults = {}, NEW w \in Workers, Work(w)
    PROVE  LiveInv'
<1>1. CASE UNCHANGED fds /\ ~Erase(w)
  <2>1. ASSUME NEW i \in 1 .. Len(fds')
        PROVE  \E v \in Workers :
                  fds'[i].frame = v /\ username'[v] = fds'[i].name /\ (Entered(v)' \/ ToErase(v)')
    <3>1. i \in 1 .. Len(fds)
      BY <1>1
    <3>2. PICK v \in Workers : v = fds[i].frame
      BY <3>1, EntryTyped
    <3>3. username'[v] = fds[i].name /\ (Entered(v)' \/ ToErase(v)')
      BY <1>1, <3>1, <3>2, OwnersStay
    <3> QED
      BY <1>1, <3>2, <3>3
  <2>2. \A i, j \in 1 .. Len(fds') : fds'[i].frame = fds'[j].frame => i = j
    BY <1>1 DEF TalkInv, LiveInv
  <2> QED
    BY <2>1, <2>2, LiveAfter
<1> QED
  BY <1>1, LivePushed, LiveErased, TypesOfTalk, EntriesMove

\* The payer's entry: he is in session, so it is there, and it is his own.
LEMMA PayersEntry ==
    ASSUME TalkInv, NEW w \in Workers, pc[w] = "search"
    PROVE  \E v \in Workers :
              /\ Entered(v) /\ username[v] = cmd[w].payer
              /\ \E i \in 1 .. Len(fds) : fds[i].name = cmd[w].payer
              /\ \A i \in 1 .. Len(fds) : fds[i].name = cmd[w].payer => fds[i].frame = v
<1>1. Carrying(w)
  BY DEF Carrying
<1>2. PICK v \in Workers : Entered(v) /\ username[v] = cmd[w].payer
  BY <1>1, PayerWaits
<1>3. PICK i \in 1 .. Len(fds) : fds[i] = Entry(v)
  BY <1>2 DEF TalkInv, EntryInv, HasEntry
<1>4. fds[i].name = cmd[w].payer
  BY <1>2, <1>3 DEF Entry
<1>5. ASSUME NEW j \in 1 .. Len(fds), fds[j].name = cmd[w].payer
      PROVE  fds[j].frame = v
  <2>1. PICK x \in Workers : x = fds[j].frame
    BY EntryTyped
  <2>2. username[x] = username[v] /\ (Entered(x) \/ ToErase(x))
    BY <1>2, <1>5, <2>1, EntryTyped
  <2>3. ~ToErase(x)
    <3>1. Routing(w) /\ ~ToErase(w) /\ Undisturbed
      BY DEF Routing, ToErase, TalkInv, EntryInv
    <3>2. ToErase(x) => Leaving(x)
      BY DEF ToErase, Leaving
    <3> QED
      BY <3>1, <3>2 DEF Undisturbed
  <2> QED
    BY <1>2, <2>1, <2>2, <2>3, OneSession
<1> QED
  BY <1>2, <1>4, <1>5

\* A search that goes on is at the payer's entry or before it.
LEMMA RouteOwn ==
    ASSUME TalkInv, Faults = {}, NEW w \in Workers, Work(w)
    PROVE  RouteInv(w)'
<1> USE TypesOfTalk
<1>1. RouteInv(w) /\ Index(w) /\ ~Hangup(w) /\ fds \in Seq([name : Users, frame : Workers])
  BY NoDisturbance DEF TalkInv, EntryInv
<1>2. Len(fds) \in Nat /\ at[w] \in Nat \ {0}
  BY <1>1, LenProperties
<1>3. CASE pc'[w] \notin {"search", "result"}
  BY <1>3 DEF RouteInv
<1>4. CASE pc[w] = "sender" /\ Read(w)
  <2>1. pc'[w] = "search" /\ at'[w] = 1 /\ fds' = fds
    BY <1>1, <1>4 DEF Read, Goto, Calls, search, Index
  <2>2. 1 <= Len(fds) + 1 /\ \A k \in 1 .. (1 - 1) : FALSE
    BY <1>2
  <2> QED
    BY <2>1, <2>2 DEF RouteInv
<1>5. CASE Search(w)
  <2>1. UNCHANGED <<fds, cmd, username>> /\ pc[w] = "search"
    BY <1>5 DEF Search, Loops
  <2>2. PICK v \in Workers :
          /\ Entered(v) /\ username[v] = cmd[w].payer
          /\ \E i \in 1 .. Len(fds) : fds[i].name = cmd[w].payer
          /\ \A i \in 1 .. Len(fds) : fds[i].name = cmd[w].payer => fds[i].frame = v
    BY <2>1, PayersEntry
  <2>3. /\ at[w] <= Len(fds) + 1 /\ \A k \in 1 .. (at[w] - 1) : fds[k].name # cmd[w].payer
    BY <1>1, <2>1 DEF RouteInv
  <2>4. at[w] \in 1 .. Len(fds) /\ ~(at[w] > Len(fds))
    BY <1>2, <2>2, <2>3
  <2>5. CASE fds[at[w]].name # cmd[w].payer
    <3>1. at'[w] = at[w] + 1 /\ pc' = pc
      BY <1>5, <2>4, <2>5 DEF Search, Seek
    <3>2. \A k \in 1 .. (at'[w] - 1) : k \in 1 .. (at[w] - 1) \/ k = at[w]
      BY <1>2, <3>1
    <3>3. at'[w] <= Len(fds) + 1
      BY <1>2, <2>4, <3>1
    <3> QED
      BY <2>1, <2>3, <2>5, <3>1, <3>2, <3>3 DEF RouteInv
  <2>6. CASE fds[at[w]].name = cmd[w].payer
    <3>1. target'[w] = {v} /\ pc'[w] = "result"
      BY <1>5, <2>2, <2>4, <2>6 DEF Search, Seek, Goto
    <3>2. Entered(v)'
      <4>1. CASE v = w
        BY <1>5, <2>1, <2>2, <4>1, SessionGoesOn DEF Work, Logout, Entered
      <4>2. CASE v # w
        BY <2>2, <4>2, OwnStatus DEF ServedAlike, Entered, InSession, Leaving, Work
      <4> QED
        BY <4>1, <4>2
    <3> QED
      BY <2>1, <2>2, <3>1, <3>2 DEF RouteInv
  <2> QED
    BY <2>5, <2>6
<1>6. CASE Receive(w)
  <2>1. wire[conn[w]] # << >> /\ wire[conn[w]] \in Seq(Commands)
    BY <1>6 DEF Receive
  <2>2. Head(wire[conn[w]]) \in Commands
    BY <2>1
  <2>3. pc'[w] = First(Head(wire[conn[w]]).kind)
    BY <1>6 DEF Receive, Parsed
  <2> QED
    BY <1>3, <2>2, <2>3, FirstPlace
<1>7. CASE \/ Begin(w) \/ Register(w) \/ Login(w) \/ PushBack(w) \/ List(w) \/ Transfer(w) \/ Logout(w)
           \/ (pc[w] # "sender" /\ Read(w)) \/ Find(w) \/ Erase(w) \/ Reply(w) \/ Result(w) \/ Close(w)
  <2>1. pc'[w] \notin {"search", "result"}
    <3>1. CASE Begin(w) \/ Register(w) \/ Login(w) \/ PushBack(w) \/ List(w) \/ Transfer(w) \/ Logout(w)
      BY <3>1 DEF Begin, Register, RegisterCheck, RegisterReplace, Login, LoginCheck, LoginUpdate,
         PushBack, List, Transfer, Logout, Goto
    <3>2. CASE (pc[w] # "sender" /\ Read(w)) \/ Find(w) \/ Erase(w)
      BY <3>2 DEF Read, Find, Erase, Seek, Goto
    <3>3. CASE Reply(w) \/ Result(w) \/ Close(w)
      BY <3>3 DEF Reply, Result, Close, Ended, Goto
    <3> QED
      BY <1>7, <3>1, <3>2, <3>3
  <2> QED
    BY <1>3, <2>1
<1> QED
  BY <1>1, <1>4, <1>5, <1>6, <1>7 DEF Work

\* The searches of the others: no session ends meanwhile.
LEMMA RouteOthers ==
    ASSUME TalkInv, Faults = {}, NEW w \in Workers, Work(w), Undisturbed', NEW v \in Workers, v # w
    PROVE  RouteInv(v)'
<1> USE TypesOfTalk
<1>1. RouteInv(v) /\ fds \in Seq([name : Users, frame : Workers]) /\ Len(fds) \in Nat /\ Undisturbed
  BY LenProperties DEF TalkInv, EntryInv
<1>2. pc'[v] = pc[v] /\ cmd'[v] = cmd[v] /\ at'[v] = at[v] /\ target'[v] = target[v]
  BY EachWorkerItsOwn, OthersAlone DEF FullTypes
<1>3. CASE pc[v] \notin {"search", "result"}
  BY <1>2, <1>3 DEF RouteInv
<1>4. CASE pc[v] \in {"search", "result"}
  <2>1. Routing(v) /\ Routing(v)'
    BY <1>2, <1>4 DEF Routing
  <2>2. ~Leaving(w) /\ ~Leaving(w)'
    BY <1>1, <2>1 DEF Undisturbed
  <2>3. CASE pc[v] = "search"
    <3>1. ~Erase(w)
      BY <2>2 DEF Erase, Leaving
    <3>2. \/ fds' = fds
          \/ fds' = Append(fds, [name |-> username[w], frame |-> w]) /\ username[w] \in Users
      BY <3>1, EntriesMove DEF PushBack, BasicInv, CommandFits, CommandAt
    <3>3. Len(fds') >= Len(fds) /\ Len(fds') \in Nat /\ \A i \in 1 .. Len(fds) : fds'[i] = fds[i]
      <4>1. CASE fds' = fds
        BY <1>1, <4>1
      <4>2. ASSUME NEW e \in [name : Users, frame : Workers], fds' = Append(fds, e)
            PROVE  Len(fds') >= Len(fds) /\ Len(fds') \in Nat /\ \A i \in 1 .. Len(fds) : fds'[i] = fds[i]
        <5>1. /\ Len(Append(fds, e)) = Len(fds) + 1
              /\ \A i \in 1 .. Len(fds) : Append(fds, e)[i] = fds[i]
          BY <1>1, AppendProperties
        <5> QED
          BY <1>1, <4>2, <5>1
      <4> QED
        BY <3>2, <4>1, <4>2
    <3>4. at[v] <= Len(fds) + 1 /\ \A k \in 1 .. (at[v] - 1) : fds[k].name # cmd[v].payer
      BY <1>1, <2>3 DEF RouteInv
    <3>5. at[v] \in Nat \ {0} /\ \A k \in 1 .. (at[v] - 1) : k \in 1 .. Len(fds)
      BY <1>1, <3>4
    <3>6. at[v] <= Len(fds') + 1
      BY <1>1, <3>3, <3>4, <3>5
    <3> QED
      BY <1>2, <2>3, <3>3, <3>4, <3>5, <3>6 DEF RouteInv
  <2>4. CASE pc[v] = "result"
    <3>1. PICK x \in Workers : target[v] = {x} /\ Entered(x) /\ username[x] = cmd[v].payer
      BY <1>1, <2>4 DEF RouteInv
    <3>2. Entered(x)' /\ username'[x] = username[x]
      <4>1. CASE x = w
        <5>1. ~Logout(w)
          <6>1. SUFFICES ASSUME Logout(w) PROVE FALSE
            OBVIOUS
          <6>2. pc'[w] = "reply" /\ cmd'[w].kind = "EXIT"
            BY <6>1, AtLogout DEF Logout, Goto, Calls
          <6> QED
            BY <2>2, <6>2 DEF Leaving
        <5> QED
          BY <3>1, <4>1, <5>1, SessionGoesOn DEF Entered
      <4>2. CASE x # w
        BY <3>1, <4>2, OwnStatus DEF ServedAlike, Entered, InSession, Leaving
      <4> QED
        BY <4>1, <4>2
    <3> QED
      BY <1>2, <2>4, <3>1, <3>2 DEF RouteInv
  <2> QED
    BY <1>4, <2>3, <2>4
<1> QED
  BY <1>3, <1>4

-----------------------------------------------------------------------------
(***************************************************************************)
(* The invariant is kept.                                                  *)
(***************************************************************************)
LEMMA InitTalk == Init => TalkInv
<1> SUFFICES ASSUME Init PROVE TalkInv
  OBVIOUS
<1>1. SessionInv /\ EntryInv
  BY InitSession, InitEntries
<1>2. /\ \A w \in Workers : pc[w] = "idle" /\ conn[w] = NoConn
      /\ \A c \in Conns : mode[c] = "away" /\ me[c] = {} /\ wire[c] = << >> /\ mail[c] = << >>
                          /\ back[c] = << >>
      /\ fds = << >> /\ line = << >>
  BY DEF Init
<1>3. \A c \in Conns : \A w \in Workers : conn[w] # c
  BY <1>2, ServerAssumption
<1>4. ASSUME NEW c \in Conns
      PROVE  ConnInv(c)
  <2>1. Queues(c) /\ OnTheWay(c)
    BY <1>2, EmptyQueue DEF Queues, OnTheWay
  <2>2. Question(c) /\ CarriedOut(c) /\ AnsweredRight(c) /\ MeServed(c)
    BY <1>2, <1>3 DEF Question, CarriedOut, AnsweredRight, MeServed
  <2> QED
    BY <2>1, <2>2 DEF ConnInv
<1>5. \A p \in Spots : Held(p) = {}
  BY <1>2, EmptyQueue DEF Spots, Held, Carrying
<1>6. Store!Online = {}
  BY ServerAssumption DEF Init, Store!Init, Store!Online, Store!Registered
<1>7. \A w \in Workers : LoginInv(w) /\ RouteInv(w)
  BY <1>2 DEF LoginInv, LoggingIn, RouteInv
<1>8. LineInv /\ LiveInv
  BY <1>2 DEF LineInv, LiveInv
<1> QED
  BY <1>1, <1>4, <1>5, <1>6, <1>7, <1>8 DEF TalkInv, TokenInv, OnlineInv

\* What only the process changes.
LEMMA ProcessAlone ==
    ASSUME TalkInv, UNCHANGED <<accounts, locals, search>>
    PROVE  OnlineInv' /\ LiveInv' /\ \A w \in Workers : LoginInv(w)' /\ RouteInv(w)'
<1>1. UNCHANGED <<balance, session, status, pc, conn, username, cmd, fds, at, target>>
  BY DEF accounts, locals, search
<1>2. OnlineInv'
  BY <1>1 DEF TalkInv, OnlineInv, InSession, Leaving, Store!Online, Store!Registered
<1>3. LiveInv'
  BY <1>1 DEF TalkInv, LiveInv, LiveEntry, Entered, InSession, Leaving, ToErase
<1>4. ASSUME NEW w \in Workers
      PROVE  LoginInv(w)' /\ RouteInv(w)'
  <2>1. LoginInv(w)'
    BY <1>1 DEF TalkInv, LoginInv, LoggingIn
  <2>2. RouteInv(w)'
    BY <1>1 DEF TalkInv, RouteInv, Entered, InSession, Leaving
  <2> QED
    BY <2>1, <2>2
<1> QED
  BY <1>2, <1>3, <1>4

LEMMA NothingHappens ==
    ASSUME TalkInv, UNCHANGED vars
    PROVE  Talks'
<1>1. /\ UNCHANGED <<accounts, locals, line, mode, asked, me, mail, wire, back>>
      /\ UNCHANGED <<pc, conn, username, cmd, status>>
  BY DEF vars, accounts, locals, clients
<1>2. \A c \in Conns : ConnInv(c)'
  BY <1>1, ConnKept DEF TalkInv, ServedAlike
<1>3. TokenInv'
  BY <1>1, TokenQueues DEF TalkInv, OwedTo
<1>4. LineInv'
  BY <1>1 DEF TalkInv, LineInv
<1> QED
  BY <1>2, <1>3, <1>4 DEF Talks

LEMMA TalkStep ==
    ASSUME TalkInv, Faults = {}, [Next /\ Isolated' /\ Undisturbed']_vars
    PROVE  TalkInv'
<1>1. SessionInv' /\ EntryInv'
  BY SessionStep, EntryStep DEF TalkInv
<1>2. CASE UNCHANGED vars
  <2>1. UNCHANGED <<accounts, locals, search>>
    BY <1>2 DEF vars
  <2> QED
    BY <1>1, <1>2, <2>1, ProcessAlone, NothingHappens DEF TalkInv, Talks
<1>3. ASSUME NEW c \in Conns, ClientStep(c)
      PROVE  TalkInv'
  <2>1. UNCHANGED <<accounts, locals, search>>
    BY <1>3 DEF ClientStep, Connect, Ask, Pay, Report, Leave, Take, Depart, Closed, Process
  <2> QED
    BY <1>1, <1>3, <2>1, ProcessAlone, ClientTalks DEF TalkInv, Talks
<1>4. ASSUME NEW w \in Workers, Work(w), Undisturbed'
      PROVE  TalkInv'
  <2>1. ASSUME NEW v \in Workers
        PROVE  LoginInv(v)' /\ RouteInv(v)'
    <3>1. CASE v = w
      BY <1>4, <3>1, LoginStep, RouteOwn
    <3>2. CASE v # w
      <4>1. LoginInv(v)'
        BY <1>4, <3>2, OwnStatus DEF ServedAlike, TalkInv, LoginInv, LoggingIn
      <4> QED
        BY <1>4, <3>2, <4>1, RouteOthers
    <3> QED
      BY <3>1, <3>2
  <2> QED
    BY <1>1, <1>4, <2>1, WorkerTalks, OnlineStep, LiveStep DEF TalkInv, Talks
<1>5. \A w \in Workers : ~Busy(w)
  BY NoDisturbance
<1> QED
  BY <1>2, <1>3, <1>4, <1>5 DEF Next

LEMMA TalkAlways ==
    ASSUME Faults = {}
    PROVE  OrderlySpec => []TalkInv
<1>1. TalkInv /\ [Next /\ Isolated' /\ Undisturbed']_vars => TalkInv'
  BY TalkStep
<1> QED
  BY <1>1, InitTalk, PTL DEF OrderlySpec

\* As long as calls in progress at once concern different users and sessions
\* end one at a time, and if nothing else goes wrong (Faults = {}), a client
\* gets one answer to what it asked and no other message (AnswersFit): the
\* payee's worker sends the result of a payment to the payer, who still waits
\* for it.
THEOREM AnswersReachWhoAsked ==
    ASSUME Faults = {}
    PROVE  OrderlySpec => []AnswersFit
<1>1. TalkInv => AnswersFit
  BY DEF TalkInv, ConnInv, AnsweredRight, AnswersFit
<1> QED
  BY <1>1, TalkAlways, PTL

\* Under the same three conditions a session that ends logs its user out
\* (NobodyLeftOnline).
THEOREM SessionsEndOffline ==
    ASSUME Faults = {}
    PROVE  OrderlySpec => []NobodyLeftOnline
<1>1. TalkInv => NobodyLeftOnline
  BY DEF TalkInv, OnlineInv, NobodyLeftOnline
<1> QED
  BY <1>1, TalkAlways, PTL

\* Under the same three conditions a client that believes it is logged in is, and the
\* server lists it at its own address (LoginsAreTrue).
THEOREM ClientsKnow ==
    ASSUME Faults = {}
    PROVE  OrderlySpec => []LoginsAreTrue
<1>1. ASSUME TalkInv, NEW c \in Conns, mode[c] # "leaving", NEW u \in me[c]
      PROVE  u \in Store!Online /\ session[u].addr = c
  <2>1. Queues(c) /\ MeServed(c) /\ SessionOnline
    BY <1>1 DEF TalkInv, ConnInv, SessionInv
  <2>2. mode[c] \in {"free", "asked"}
    BY <1>1, <2>1, TypesOfTalk DEF Queues
  <2>3. PICK w \in Workers : conn[w] = c /\ username[w] = u /\ Entered(w)
    BY <1>1, <2>1, <2>2 DEF MeServed
  <2> QED
    BY <2>1, <2>3 DEF SessionOnline, AtItsConn, Entered
<1>2. TalkInv => LoginsAreTrue
  BY <1>1 DEF LoginsAreTrue
<1> QED
  BY <1>2, TalkAlways, PTL

=============================================================================
