------------------------------- MODULE Parser -------------------------------
(***************************************************************************)
(* How a message becomes a command: split and parse_command of server.cpp, *)
(* run by the pool's threads on messages that the client's menu composes.  *)
(* split calls strtok until it returns NULL.  strtok remembers where it is *)
(* in ONE static variable of the process, so that the splits of two        *)
(* threads go on in each other's messages.                                 *)
(*                                                                         *)
(* The static variable is not synchronised either: a call reads it when it *)
(* begins and writes it when it ends, and another thread's call may come   *)
(* between.  A message is a copy that is gone when its split returns; what *)
(* strtok finds in a dead copy is anything.                                *)
(***************************************************************************)
EXTENDS Naturals, Sequences

CONSTANTS
    Threads,
    Names,          \* what users call themselves
    Numbers,        \* what is_number takes: digits, as in a port
    Amounts,        \* amounts as the client prints them, also below zero
    Garbage,        \* what is found in a dead copy
    NoMessage,
    MaxMessages     \* bound on the messages parsed

\* A name may look like a number, but must not be that of a command: the login
\* of a user called REGISTER reads as the registration of a port.
ASSUME ParserAssumption ==
    /\ {"REGISTER", "Exit", "List"} \cap Names = {}
    /\ Garbage \notin Names \cup Numbers \cup Amounts \cup Threads
    /\ MaxMessages \in Nat

\* What the client means, and the fields it sends, joined by #.
Messages ==
    [kind : {"REGISTER"}, fields : {<<"REGISTER", n>> : n \in Names}]
      \cup [kind : {"LOGIN"}, fields : Names \X Numbers]
      \cup [kind : {"TRANSACTION"}, fields : Names \X Amounts \X Names]
      \cup {[kind |-> "LIST", fields |-> <<"List">>], [kind |-> "EXIT", fields |-> <<"Exit">>]}

ASSUME MessageAssumption == NoMessage \notin Messages

VARIABLES
    message,        \* the message each thread parses
    pc,             \* "idle", or at the beginning or the end of a call of strtok
    place,          \* where that call looks: field i of the message of thread t
    saved,          \* strtok's static variable
    args,           \* the fields found so far
    alone,          \* history: no other split has run since this one began
    count           \* messages begun

vars == <<message, pc, place, saved, args, alone, count>>

Nowhere == [thread |-> Garbage, field |-> 0]

Init ==
    /\ message = [t \in Threads |-> NoMessage]
    /\ pc = [t \in Threads |-> "idle"]
    /\ place = [t \in Threads |-> Nowhere]
    /\ saved = Nowhere
    /\ args = [t \in Threads |-> << >>]
    /\ alone = [t \in Threads |-> FALSE]
    /\ count = 0

-----------------------------------------------------------------------------
(***************************************************************************)
(* parse_command                                                           *)
(***************************************************************************)
is_number(s) == s \in Numbers

is_double(s) == s \in Numbers \cup Amounts

\* Mutant: an amount with a sign is no number.
ClassifyUnsigned(a) ==
    CASE Len(a) = 1 /\ a[1] = "Exit"                          -> "EXIT"
      [] Len(a) = 1 /\ a[1] = "List"                          -> "LIST"
      [] Len(a) = 2 /\ a[1] = "REGISTER"                      -> "REGISTER"
      [] Len(a) = 2 /\ a[1] # "REGISTER" /\ is_number(a[2])   -> "LOGIN"
      [] Len(a) = 3 /\ is_number(a[2])                        -> "TRANSACTION"
      [] OTHER                                                -> "ERR"

Classify(a) ==
    CASE Len(a) = 1 /\ a[1] = "Exit"                          -> "EXIT"
      [] Len(a) = 1 /\ a[1] = "List"                          -> "LIST"
      [] Len(a) = 2 /\ a[1] = "REGISTER"                      -> "REGISTER"
      [] Len(a) = 2 /\ a[1] # "REGISTER" /\ is_number(a[2])   -> "LOGIN"
      [] Len(a) = 3 /\ is_double(a[2])                        -> "TRANSACTION"
      [] OTHER                                                -> "ERR"

(***************************************************************************)
(* split                                                                   *)
(***************************************************************************)
\* Mutant: the first call passes NULL as the others do.
BeginWhereLeft(t, m) ==
    /\ pc[t] = "idle"
    /\ count < MaxMessages
    /\ count' = count + 1
    /\ message' = [message EXCEPT ![t] = m]
    /\ place' = [place EXCEPT ![t] =
                   IF saved = Nowhere THEN [thread |-> t, field |-> 1] ELSE saved]
    /\ pc' = [pc EXCEPT ![t] = "find"]
    /\ UNCHANGED <<args, alone, saved>>

Begin(t, m) ==
    /\ pc[t] = "idle"
    /\ count < MaxMessages
    /\ count' = count + 1
    /\ message' = [message EXCEPT ![t] = m]
    /\ args' = [args EXCEPT ![t] = << >>]
    /\ place' = [place EXCEPT ![t] = [thread |-> t, field |-> 1]]
    /\ pc' = [pc EXCEPT ![t] = "find"]
    /\ alone' = [u \in Threads |->
                    IF u = t THEN \A v \in Threads : pc[v] = "idle"
                    ELSE alone[u] /\ pc[u] = "idle"]
    /\ UNCHANGED saved

\* strtok(NULL, sep) reads the static variable.
Continue(t) ==
    /\ pc[t] = "continue"
    /\ place' = [place EXCEPT ![t] = saved]
    /\ pc' = [pc EXCEPT ![t] = "find"]
    /\ UNCHANGED <<message, saved, args, alone, count>>

Alive(p) == pc[p.thread] # "idle"

Fields(p) == message[p.thread].fields

\* Mutant: the static variable stays at the field that is returned.
FoundAgain(t, word, rest) ==
    /\ args' = [args EXCEPT ![t] = IF Len(@) < 3 THEN Append(@, word) ELSE @]
    /\ saved' = place[t]
    /\ pc' = [pc EXCEPT ![t] = "continue"]
    /\ UNCHANGED <<message, place, alone, count>>

\* Mutant: strtok goes past the zero that ends the message.
FoundPastEnd(t, word, rest) ==
    /\ args' = [args EXCEPT ![t] = Append(@, word)]
    /\ saved' = [rest EXCEPT !.field = @ + 1]
    /\ pc' = [pc EXCEPT ![t] = "continue"]
    /\ UNCHANGED <<message, place, alone, count>>

\* strtok returns a field and leaves the static variable behind it.
Found(t, word, rest) ==
    /\ args' = [args EXCEPT ![t] = Append(@, word)]
    /\ saved' = rest
    /\ pc' = [pc EXCEPT ![t] = "continue"]
    /\ UNCHANGED <<message, place, alone, count>>

Find(t) ==
    /\ pc[t] = "find"
    /\ LET p == place[t] IN
       \/ /\ Alive(p) /\ p.field <= Len(Fields(p))
          /\ Found(t, Fields(p)[p.field], [p EXCEPT !.field = @ + 1])
       \/ /\ ~Alive(p) /\ \A i \in DOMAIN args[t] : args[t][i] # Garbage
          /\ Found(t, Garbage, p)

\* strtok returns NULL: the split returns, and its copy of the message is gone.
Finish(t) ==
    /\ pc[t] = "find"
    /\ LET p == place[t] IN
       /\ Alive(p) => p.field > Len(Fields(p))
       /\ saved' = p
    /\ pc' = [pc EXCEPT ![t] = "idle"]
    /\ message' = [message EXCEPT ![t] = NoMessage]
    /\ args' = [args EXCEPT ![t] = << >>]
    /\ place' = [place EXCEPT ![t] = Nowhere]
    /\ alone' = [alone EXCEPT ![t] = FALSE]
    /\ UNCHANGED count

Next ==
    \E t \in Threads :
        \/ \E m \in Messages : Begin(t, m)
        \/ Continue(t) \/ Find(t) \/ Finish(t)

Spec == Init /\ [][Next]_vars

\* A thread that is in strtok goes on.
Parse(t) == Continue(t) \/ Find(t) \/ Finish(t)

FairSpec == Spec /\ \A t \in Threads : WF_vars(Parse(t))

-----------------------------------------------------------------------------

\* What strtok can return.
Words == Names \cup Numbers \cup Amounts \cup {"REGISTER", "Exit", "List", Garbage}

ParserTypeOK ==
    /\ message \in [Threads -> Messages \cup {NoMessage}]
    /\ pc \in [Threads -> {"idle", "find", "continue"}]
    /\ \A t \in Threads : (pc[t] = "idle") = (message[t] = NoMessage)
    /\ place \in [Threads -> [thread : Threads \cup {Garbage}, field : 0 .. 4]]
    /\ saved \in [thread : Threads \cup {Garbage}, field : 0 .. 4]
    /\ args \in [Threads -> Seq(Words)]
    /\ alone \in [Threads -> BOOLEAN]
    /\ count \in 0 .. MaxMessages

\* The split of thread t returns.
Returns(t) == pc[t] = "find" /\ pc'[t] = "idle"

\* A message whose split no other overlaps is the command that the client meant,
\* with its fields, whatever earlier splits, mixed or not, have left in strtok's
\* static variable (server.cpp:234-283, client.cpp:295-305, 476-592).
AloneIsRight ==
    [][\A t \in Threads : Returns(t) /\ alone[t] =>
          args[t] = message[t].fields /\ Classify(args[t]) = message[t].kind]_vars

\* Even when messages mix, nobody is charged or logged in by the first field of
\* another's message, and nobody is sent off who has not asked for it.
MixedKeepsFirst ==
    [][\A t \in Threads : Returns(t) =>
          /\ args[t] # << >> /\ args[t][1] = message[t].fields[1]
          /\ Classify(args[t]) \in {"EXIT", "LIST"} => Classify(args[t]) = message[t].kind]_vars

\* Every split returns, although each may take the other back to where it was.
SplitsReturn == \A t \in Threads : pc[t] # "idle" ~> pc[t] = "idle"

=============================================================================
