---------------------------- MODULE ParserProofs ----------------------------
(***************************************************************************)
(* Proofs about Parser, for any threads and messages: what comes out right *)
(* of splits that share strtok's position, and what of those that do not   *)
(* overlap.                                                                *)
(***************************************************************************)
EXTENDS Parser, SequenceTheorems, TLAPS

Active(t) == pc[t] # "idle"

\* strtok looks into some thread's message.
Spots == [thread : Threads, field : 1 .. 4]

Types ==
    /\ ParserTypeOK
    /\ \A t \in Threads : pc[t] = "find" => place[t] \in Spots
    /\ \A t \in Threads : pc[t] = "continue" => saved \in Spots

\* A split begins with the first field of its own message.
FirstIsOwn(t) ==
    Active(t) =>
        /\ args[t] = << >> => pc[t] = "find" /\ place[t] = [thread |-> t, field |-> 1]
        /\ args[t] # << >> => args[t][1] = message[t].fields[1]

\* Where a split that no other overlaps has got to.
Progress(t, p) ==
    /\ p.thread = t /\ p.field = Len(args[t]) + 1
    /\ Len(args[t]) <= Len(message[t].fields)
    /\ \A i \in 1 .. Len(args[t]) : args[t][i] = message[t].fields[i]

OnItsOwn(t) ==
    Active(t) /\ alone[t] =>
        /\ \A u \in Threads : u # t => ~Active(u)
        /\ pc[t] = "find" => Progress(t, place[t])
        /\ pc[t] = "continue" => Progress(t, saved)

SplitInv == Types /\ \A t \in Threads : FirstIsOwn(t) /\ OnItsOwn(t)

-----------------------------------------------------------------------------
(***************************************************************************)
(* Messages.                                                               *)
(***************************************************************************)
LEMMA MessageShape ==
    ASSUME NEW m \in Messages
    PROVE  /\ m.kind \in {"REGISTER", "LOGIN", "TRANSACTION", "LIST", "EXIT"}
           /\ m.kind = "REGISTER" => \E n \in Names : m.fields = <<"REGISTER", n>>
           /\ m.kind = "LOGIN" => \E n \in Names, p \in Numbers : m.fields = <<n, p>>
           /\ m.kind = "TRANSACTION" =>
                 \E s \in Names, x \in Amounts, r \in Names : m.fields = <<s, x, r>>
           /\ m.kind = "LIST" => m.fields = <<"List">>
           /\ m.kind = "EXIT" => m.fields = <<"Exit">>
BY DEF Messages

LEMMA FieldsTyped ==
    ASSUME NEW m \in Messages
    PROVE  m.fields \in Seq(Words) /\ Len(m.fields) \in 1 .. 3
<1>1. ASSUME NEW n \in Words, NEW p \in Words, NEW q \in Words
      PROVE  /\ <<n>> \in Seq(Words) /\ Len(<<n>>) = 1
             /\ <<n, p>> \in Seq(Words) /\ Len(<<n, p>>) = 2
             /\ <<n, p, q>> \in Seq(Words) /\ Len(<<n, p, q>>) = 3
  OBVIOUS
<1>2. /\ Names \subseteq Words /\ Numbers \subseteq Words /\ Amounts \subseteq Words
      /\ "REGISTER" \in Words /\ "List" \in Words /\ "Exit" \in Words
  BY DEF Words
<1>3. \A i \in {1, 2, 3} : i \in 1 .. 3
  OBVIOUS
<1>4. CASE m.kind \in {"LIST", "EXIT"}
  BY <1>1, <1>2, <1>3, <1>4, MessageShape
<1>5. CASE m.kind = "REGISTER"
  <2>1. PICK n \in Names : m.fields = <<"REGISTER", n>>
    BY <1>5, MessageShape
  <2> QED
    BY <1>1, <1>2, <1>3, <2>1
<1>6. CASE m.kind = "LOGIN"
  <2>1. PICK n \in Names, p \in Numbers : m.fields = <<n, p>>
    BY <1>6, MessageShape
  <2> QED
    BY <1>1, <1>2, <1>3, <2>1
<1>7. CASE m.kind = "TRANSACTION"
  <2>1. PICK n \in Names, x \in Amounts, r \in Names : m.fields = <<n, x, r>>
    BY <1>7, MessageShape
  <2> QED
    BY <1>1, <1>2, <1>3, <2>1
<1> QED
  BY <1>4, <1>5, <1>6, <1>7, MessageShape

\* parse_command finds out what the client meant.
LEMMA ClassifiedRight ==
    ASSUME NEW m \in Messages
    PROVE  Classify(m.fields) = m.kind
<1>1. CASE m.kind = "REGISTER"
  BY <1>1, MessageShape DEF Classify
<1>2. CASE m.kind = "LOGIN"
  <2>1. PICK n \in Names, p \in Numbers : m.fields = <<n, p>>
    BY <1>2, MessageShape
  <2>2. n # "REGISTER" /\ is_number(p)
    BY ParserAssumption DEF is_number
  <2> QED
    BY <1>2, <2>1, <2>2 DEF Classify
<1>3. CASE m.kind = "TRANSACTION"
  <2>1. PICK s \in Names, x \in Amounts, r \in Names : m.fields = <<s, x, r>>
    BY <1>3, MessageShape
  <2>2. is_double(x)
    BY DEF is_double
  <2> QED
    BY <1>3, <2>1, <2>2 DEF Classify
<1>4. CASE m.kind \in {"LIST", "EXIT"}
  BY <1>4, MessageShape DEF Classify
<1> QED
  BY <1>1, <1>2, <1>3, <1>4, MessageShape

\* Only Exit and List begin with the words they consist of.
LEMMA FirstWords ==
    ASSUME NEW m \in Messages
    PROVE  /\ m.fields[1] = "Exit" => m.kind = "EXIT"
           /\ m.fields[1] = "List" => m.kind = "LIST"
<1>1. CASE m.kind = "LOGIN"
  BY <1>1, MessageShape, ParserAssumption
<1>2. CASE m.kind = "TRANSACTION"
  BY <1>2, MessageShape, ParserAssumption
<1>3. CASE m.kind \in {"REGISTER", "LIST", "EXIT"}
  BY <1>3, MessageShape
<1> QED
  BY <1>1, <1>2, <1>3, MessageShape

-----------------------------------------------------------------------------
(***************************************************************************)
(* The invariant.                                                          *)
(***************************************************************************)
LEMMA InitSplits == Init => SplitInv
BY ParserAssumption DEF Init, SplitInv, Types, ParserTypeOK, FirstIsOwn, OnItsOwn, Active, Nowhere

LEMMA BeginSplit ==
    ASSUME SplitInv, NEW t \in Threads, NEW m \in Messages, Begin(t, m)
    PROVE  SplitInv'
<1>1. Types'
  <2> USE DEF SplitInv, Types, ParserTypeOK, Begin
  <2>1. /\ message' \in [Threads -> Messages \cup {NoMessage}]
        /\ pc' \in [Threads -> {"idle", "find", "continue"}]
        /\ place' \in [Threads -> [thread : Threads \cup {Garbage}, field : 0 .. 4]]
        /\ args' \in [Threads -> Seq(Words)] /\ saved' = saved
    OBVIOUS
  <2>2. count' \in 0 .. MaxMessages
    BY ParserAssumption
  <2>3. alone' \in [Threads -> BOOLEAN]
    <3>1. \A u \in Threads :
            (IF u = t THEN \A v \in Threads : pc[v] = "idle" ELSE alone[u] /\ pc[u] = "idle") \in BOOLEAN
      OBVIOUS
    <3> QED
      BY <3>1, Zenon
  <2>4. \A u \in Threads : (pc'[u] = "idle") = (message'[u] = NoMessage)
    BY MessageAssumption
  <2>5. \A u \in Threads : /\ pc'[u] = "find" => place'[u] \in Spots
                           /\ pc'[u] = "continue" => saved' \in Spots
    BY DEF Spots
  <2> QED
    BY <2>1, <2>2, <2>3, <2>4, <2>5
<1>2. ASSUME NEW u \in Threads
      PROVE  FirstIsOwn(u)' /\ OnItsOwn(u)'
  <2>1. CASE u = t
    <3>1. /\ pc'[t] = "find" /\ args'[t] = << >> /\ place'[t] = [thread |-> t, field |-> 1]
          /\ message'[t] = m
      BY DEF Begin, SplitInv, Types, ParserTypeOK
    <3>2. alone'[t] => \A v \in Threads : v # t => pc'[v] = "idle"
      BY DEF Begin, SplitInv, Types, ParserTypeOK
    <3>3. Len(m.fields) \in 1 .. 3
      BY FieldsTyped
    <3>4. Progress(t, place[t])'
      BY <3>1, <3>3 DEF Progress
    <3> QED
      BY <2>1, <3>1, <3>2, <3>4 DEF FirstIsOwn, OnItsOwn, Active
  <2>2. CASE u # t
    <3>1. /\ pc'[u] = pc[u] /\ args'[u] = args[u] /\ place'[u] = place[u]
          /\ message'[u] = message[u]
      BY <2>2 DEF Begin, SplitInv, Types, ParserTypeOK
    <3>2. alone'[u] => pc[u] = "idle"
      BY <2>2 DEF Begin
    <3>3. FirstIsOwn(u)'
      BY <3>1 DEF FirstIsOwn, Active, SplitInv
    <3>4. OnItsOwn(u)'
      BY <3>1, <3>2 DEF OnItsOwn, Active
    <3> QED
      BY <3>3, <3>4
  <2> QED
    BY <2>1, <2>2
<1> QED
  BY <1>1, <1>2 DEF SplitInv

\* What a step of another leaves alone.
LEMMA OthersSplit ==
    ASSUME SplitInv, NEW t \in Threads, Continue(t) \/ Find(t) \/ Finish(t),
           NEW u \in Threads, u # t
    PROVE  FirstIsOwn(u)' /\ OnItsOwn(u)'
<1>1. /\ pc'[u] = pc[u] /\ args'[u] = args[u] /\ place'[u] = place[u]
      /\ message'[u] = message[u] /\ alone'[u] = alone[u] /\ Active(t)
  BY DEF Continue, Find, Found, Finish, SplitInv, Types, ParserTypeOK, Active
<1>2. FirstIsOwn(u)'
  BY <1>1 DEF SplitInv, FirstIsOwn, Active
<1>3. OnItsOwn(u)'
  <2>1. ~(Active(u) /\ alone[u])
    BY <1>1 DEF SplitInv, OnItsOwn
  <2> QED
    BY <1>1, <2>1 DEF OnItsOwn, Active
<1> QED
  BY <1>2, <1>3

LEMMA ContinueSplit ==
    ASSUME SplitInv, NEW t \in Threads, Continue(t)
    PROVE  SplitInv'
<1>1. /\ pc[t] = "continue" /\ pc' = [pc EXCEPT ![t] = "find"] /\ place' = [place EXCEPT ![t] = saved]
      /\ UNCHANGED <<args, message, alone, saved, count>> /\ saved \in Spots
  BY DEF Continue, SplitInv, Types
<1>2. Types'
  BY <1>1 DEF SplitInv, Types, ParserTypeOK, Spots
<1>3. pc'[t] = "find" /\ place'[t] = saved /\ \A u \in Threads : pc'[u] = "idle" <=> pc[u] = "idle"
  BY <1>1 DEF SplitInv, Types, ParserTypeOK
<1>4. FirstIsOwn(t)'
  BY <1>1, <1>3 DEF SplitInv, FirstIsOwn, Active
<1>5. OnItsOwn(t)'
  BY <1>1, <1>3 DEF SplitInv, OnItsOwn, Active, Progress
<1> QED
  BY <1>2, <1>4, <1>5, OthersSplit DEF SplitInv

\* A field that strtok returns.
LEMMA FoundSplit ==
    ASSUME SplitInv, NEW t \in Threads, pc[t] = "find",
           NEW word \in Words, NEW rest \in Spots, Found(t, word, rest),
           args[t] = << >> => word = message[t].fields[1],
           alone[t] => /\ place[t].field <= Len(message[t].fields)
                       /\ word = message[t].fields[place[t].field]
                       /\ rest = [thread |-> t, field |-> place[t].field + 1]
    PROVE  Types' /\ FirstIsOwn(t)' /\ OnItsOwn(t)'
<1>1. args[t] \in Seq(Words) /\ Len(args[t]) \in Nat
  BY DEF SplitInv, Types, ParserTypeOK
<1>2. /\ args' = [args EXCEPT ![t] = Append(args[t], word)] /\ saved' = rest
      /\ pc' = [pc EXCEPT ![t] = "continue"] /\ UNCHANGED <<message, place, alone, count>>
  BY DEF Found
<1>3. /\ Append(args[t], word) \in Seq(Words) /\ Append(args[t], word) # << >>
      /\ Len(Append(args[t], word)) = Len(args[t]) + 1
      /\ \A i \in 1 .. Len(args[t]) : Append(args[t], word)[i] = args[t][i]
      /\ Append(args[t], word)[Len(args[t]) + 1] = word
  BY <1>1, AppendProperties
<1>4. /\ args'[t] = Append(args[t], word) /\ pc'[t] = "continue"
      /\ \A u \in Threads : pc'[u] = "idle" <=> pc[u] = "idle"
  BY <1>2 DEF SplitInv, Types, ParserTypeOK
<1>5. Types'
  BY <1>2, <1>3 DEF SplitInv, Types, ParserTypeOK, Spots
<1>6. args'[t][1] = message[t].fields[1]
  <2>1. CASE args[t] = << >>
    BY <1>3, <1>4, <2>1
  <2>2. CASE args[t] # << >>
    <3>1. 1 \in 1 .. Len(args[t])
      BY <1>1, <2>2
    <3> QED
      BY <1>3, <1>4, <2>2, <3>1 DEF SplitInv, FirstIsOwn, Active
  <2> QED
    BY <2>1, <2>2
<1>7. FirstIsOwn(t)'
  BY <1>2, <1>3, <1>4, <1>6 DEF FirstIsOwn
<1>8. OnItsOwn(t)'
  <2>1. SUFFICES ASSUME alone[t] PROVE OnItsOwn(t)'
    BY <1>2 DEF OnItsOwn
  <2>2. Progress(t, place[t]) /\ \A u \in Threads : u # t => ~Active(u)
    BY <2>1 DEF SplitInv, OnItsOwn, Active
  <2>3. /\ place[t].field = Len(args[t]) + 1 /\ word = message[t].fields[Len(args[t]) + 1]
        /\ Len(args[t]) + 1 <= Len(message[t].fields)
        /\ rest.thread = t /\ rest.field = Len(args[t]) + 2
    BY <1>1, <2>1, <2>2 DEF Progress
  <2>4. \A i \in 1 .. (Len(args[t]) + 1) : i \in 1 .. Len(args[t]) \/ i = Len(args[t]) + 1
    BY <1>1
  <2>5. \A i \in 1 .. Len(args'[t]) : args'[t][i] = message'[t].fields[i]
    BY <1>2, <1>3, <1>4, <2>2, <2>3, <2>4 DEF Progress
  <2>6. saved'.thread = t /\ saved'.field = Len(args'[t]) + 1
        /\ Len(args'[t]) <= Len(message'[t].fields)
    BY <1>1, <1>2, <1>3, <1>4, <2>3
  <2> QED
    BY <1>4, <2>2, <2>5, <2>6 DEF OnItsOwn, Progress, Active
<1> QED
  BY <1>5, <1>7, <1>8

LEMMA FindSplit ==
    ASSUME SplitInv, NEW t \in Threads, Find(t)
    PROVE  SplitInv'
<1>1. PICK p \in Spots : p = place[t] /\ pc[t] = "find"
  BY DEF Find, SplitInv, Types
<1>2. message[t] \in Messages
  BY <1>1 DEF SplitInv, Types, ParserTypeOK
<1>3. args[t] = << >> => p = [thread |-> t, field |-> 1]
  BY <1>1 DEF SplitInv, FirstIsOwn, Active
<1>4. alone[t] => p.thread = t
  BY <1>1 DEF SplitInv, OnItsOwn, Active, Progress
<1>5. Types' /\ FirstIsOwn(t)' /\ OnItsOwn(t)'
  <2>1. CASE /\ Alive(p) /\ p.field <= Len(Fields(p))
             /\ Found(t, Fields(p)[p.field], [p EXCEPT !.field = @ + 1])
    <3>1. PICK m \in Messages : m = message[p.thread]
      BY <1>1, <2>1 DEF Alive, Spots, SplitInv, Types, ParserTypeOK
    <3>2. p.field \in 1 .. Len(m.fields) /\ m.fields[p.field] \in Words
      <4>1. p.field \in Nat \ {0} /\ p.field <= Len(m.fields) /\ m.fields \in Seq(Words)
        BY <2>1, <3>1, FieldsTyped DEF Spots, Fields
      <4>2. p.field \in 1 .. Len(m.fields)
        BY <4>1
      <4> QED
        BY <4>1, <4>2, ElementOfSeq
    <3>3. PICK rest \in Spots : /\ rest = [p EXCEPT !.field = @ + 1]
                                /\ rest = [thread |-> p.thread, field |-> p.field + 1]
      <4>1. p.field + 1 \in 1 .. 4
        BY <3>2, FieldsTyped
      <4>2. [p EXCEPT !.field = @ + 1] = [thread |-> p.thread, field |-> p.field + 1]
        BY DEF Spots
      <4>3. [thread |-> p.thread, field |-> p.field + 1] \in Spots
        BY <4>1 DEF Spots
      <4> QED
        BY <4>2, <4>3
    <3>4. Found(t, m.fields[p.field], rest)
      BY <2>1, <3>1, <3>3 DEF Fields
    <3>5. args[t] = << >> => m.fields[p.field] = message[t].fields[1]
      BY <1>3, <3>1
    <3>6. alone[t] => /\ place[t].field <= Len(message[t].fields)
                      /\ m.fields[p.field] = message[t].fields[place[t].field]
                      /\ rest = [thread |-> t, field |-> place[t].field + 1]
      BY <1>1, <1>4, <3>1, <3>2, <3>3
    <3> QED
      BY <1>1, <3>2, <3>3, <3>4, <3>5, <3>6, FoundSplit
  <2>2. CASE ~Alive(p) /\ Found(t, Garbage, p)
    <3>1. args[t] # << >> /\ ~alone[t]
      BY <1>1, <1>3, <1>4, <2>2 DEF Alive
    <3> QED
      BY <1>1, <2>2, <3>1, FoundSplit DEF Words
  <2> QED
    BY <1>1, <2>1, <2>2 DEF Find
<1> QED
  BY <1>5, OthersSplit DEF SplitInv

LEMMA FinishSplit ==
    ASSUME SplitInv, NEW t \in Threads, Finish(t)
    PROVE  SplitInv'
<1>1. /\ place[t] \in Spots /\ saved' = place[t]
      /\ pc' = [pc EXCEPT ![t] = "idle"] /\ message' = [message EXCEPT ![t] = NoMessage]
      /\ args' = [args EXCEPT ![t] = << >>] /\ place' = [place EXCEPT ![t] = Nowhere]
      /\ alone' = [alone EXCEPT ![t] = FALSE] /\ count' = count
  BY DEF Finish, SplitInv, Types
<1>2. ParserTypeOK'
  BY <1>1 DEF SplitInv, Types, ParserTypeOK, Spots, Nowhere
<1>3. Types'
  BY <1>1, <1>2 DEF SplitInv, Types, ParserTypeOK
<1>4. FirstIsOwn(t)' /\ OnItsOwn(t)'
  BY <1>1 DEF SplitInv, Types, ParserTypeOK, FirstIsOwn, OnItsOwn, Active
<1> QED
  BY <1>3, <1>4, OthersSplit DEF SplitInv

LEMMA SplitStep == SplitInv /\ [Next]_vars => SplitInv'
<1> SUFFICES ASSUME SplitInv, [Next]_vars PROVE SplitInv'
  OBVIOUS
<1>1. CASE UNCHANGED vars
  BY <1>1 DEF vars, SplitInv, Types, ParserTypeOK, FirstIsOwn, OnItsOwn, Progress, Active
<1> QED
  BY <1>1, BeginSplit, ContinueSplit, FindSplit, FinishSplit DEF Next

LEMMA SplitAlways == Spec => []SplitInv
BY InitSplits, SplitStep, PTL DEF Spec

-----------------------------------------------------------------------------
(***************************************************************************)
(* The results.                                                            *)
(***************************************************************************)
\* strtok stays within the four positions of a message, whoever left it there
\* (ParserTypeOK).
THEOREM ParserTyped == Spec => []ParserTypeOK
<1>1. SplitInv => ParserTypeOK
  BY DEF SplitInv, Types
<1> QED
  BY <1>1, SplitAlways, PTL

LEMMA ReturnsAtEnd ==
    ASSUME SplitInv, [Next]_vars, NEW t \in Threads, Returns(t)
    PROVE  Finish(t)
<1>1. pc[t] = "find" /\ pc'[t] = "idle"
  BY DEF Returns
<1>2. ~UNCHANGED vars
  BY <1>1 DEF vars
<1>3. PICK u \in Threads : (\E m \in Messages : Begin(u, m)) \/ Continue(u) \/ Find(u) \/ Finish(u)
  BY <1>2 DEF Next
<1>4. u = t
  BY <1>1, <1>3 DEF Begin, Continue, Find, Found, Finish, SplitInv, Types, ParserTypeOK
<1> QED
  BY <1>1, <1>3, <1>4 DEF Begin, Continue, Find, Found, SplitInv, Types, ParserTypeOK

LEMMA WholeMessage ==
    ASSUME SplitInv, NEW t \in Threads, Finish(t), alone[t]
    PROVE  args[t] = message[t].fields
<1>1. /\ message[t] \in Messages /\ args[t] \in Seq(Words) /\ pc[t] = "find"
      /\ Alive(place[t]) => place[t].field > Len(Fields(place[t]))
  BY DEF Finish, SplitInv, Types, ParserTypeOK
<1>2. Progress(t, place[t])
  BY <1>1 DEF SplitInv, OnItsOwn, Active
<1>3. place[t].field > Len(message[t].fields)
  BY <1>1, <1>2 DEF Progress, Alive, Fields
<1>4. message[t].fields \in Seq(Words)
  BY <1>1, FieldsTyped
<1>5. Len(args[t]) = Len(message[t].fields)
  <2>1. Len(args[t]) \in Nat /\ Len(message[t].fields) \in Nat
    BY <1>1, <1>4
  <2> QED
    BY <1>2, <1>3, <2>1 DEF Progress
<1> QED
  BY <1>1, <1>2, <1>4, <1>5, SeqEqual DEF Progress

\* A message whose split no other overlaps is the command that the client
\* meant, with its fields, wherever earlier splits have left strtok
\* (AloneIsRight).
THEOREM AloneParsedRight == Spec => AloneIsRight
<1>1. SplitInv /\ [Next]_vars =>
        [\A t \in Threads : Returns(t) /\ alone[t] =>
            args[t] = message[t].fields /\ Classify(args[t]) = message[t].kind]_vars
  <2> SUFFICES ASSUME SplitInv, [Next]_vars, NEW t \in Threads, Returns(t), alone[t]
               PROVE  args[t] = message[t].fields /\ Classify(args[t]) = message[t].kind
    OBVIOUS
  <2>1. Finish(t)
    BY ReturnsAtEnd
  <2>2. message[t] \in Messages
    BY <2>1 DEF Finish, SplitInv, Types, ParserTypeOK
  <2>3. args[t] = message[t].fields
    BY <2>1, WholeMessage
  <2> QED
    BY <2>2, <2>3, ClassifiedRight
<1> QED
  BY <1>1, SplitAlways, PTL DEF Spec, AloneIsRight

\* However many splits mix, the first field is the message's own, and only who
\* asked for it is sent off or gets the list (MixedKeepsFirst).
THEOREM FirstFieldKept == Spec => MixedKeepsFirst
<1>1. SplitInv /\ [Next]_vars =>
        [\A t \in Threads : Returns(t) =>
            /\ args[t] # << >> /\ args[t][1] = message[t].fields[1]
            /\ Classify(args[t]) \in {"EXIT", "LIST"} => Classify(args[t]) = message[t].kind]_vars
  <2> SUFFICES ASSUME SplitInv, [Next]_vars, NEW t \in Threads, Returns(t)
               PROVE  /\ args[t] # << >> /\ args[t][1] = message[t].fields[1]
                      /\ Classify(args[t]) \in {"EXIT", "LIST"} => Classify(args[t]) = message[t].kind
    OBVIOUS
  <2>1. Finish(t)
    BY ReturnsAtEnd
  <2>2. message[t] \in Messages /\ pc[t] = "find"
    BY <2>1 DEF Finish, SplitInv, Types, ParserTypeOK
  <2>3. args[t] # << >>
    <3>1. SUFFICES ASSUME args[t] = << >> PROVE FALSE
      OBVIOUS
    <3>2. place[t] = [thread |-> t, field |-> 1]
      BY <2>2, <3>1 DEF SplitInv, FirstIsOwn, Active
    <3>3. place[t].thread = t /\ place[t].field = 1
      BY <3>2
    <3>4. 1 > Len(message[t].fields)
      BY <2>1, <2>2, <3>3 DEF Finish, Alive, Fields
    <3>5. Len(message[t].fields) \in 1 .. 3
      BY <2>2, FieldsTyped
    <3> QED
      BY <3>4, <3>5
  <2>4. args[t][1] = message[t].fields[1]
    BY <2>2, <2>3 DEF SplitInv, FirstIsOwn, Active
  <2>5. /\ Classify(args[t]) = "EXIT" => args[t][1] = "Exit"
        /\ Classify(args[t]) = "LIST" => args[t][1] = "List"
    BY DEF Classify
  <2> QED
    BY <2>2, <2>3, <2>4, <2>5, FirstWords
<1> QED
  BY <1>1, SplitAlways, PTL DEF Spec, MixedKeepsFirst

=============================================================================
