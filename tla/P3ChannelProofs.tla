--------------------------- MODULE P3ChannelProofs ---------------------------
(***************************************************************************)
(* Proofs about P3Channel, for every size of frame and block: the types,   *)
(* that the transport ends the receiver only for a cause, and that it      *)
(* implements Delivery.                                                    *)
(*                                                                         *)
(* As long as the receiver runs, its buffer holds the block of the message *)
(* handed over last, and the stream stands behind the first byte of that   *)
(* message's frame and not beyond its end (InFrame).  A block that         *)
(* decrypts begins where a frame begins, so it can only be the next one.   *)
(***************************************************************************)
EXTENDS P3Channel, TLAPS

Latest == D!Latest

\* Everything was read that was sent, and no more will be.
Drained == sender = "gone" /\ taken = sent * Frame

InFrame == Start(Latest) < taken /\ taken <= Latest * Frame

InvRunning ==
    receiver = "running" =>
        /\ InFrame \/ Drained
        /\ IF handed = << >> THEN buffer = [i \in Cells |-> Junk]
           ELSE Decrypts(buffer, Latest)

\* Whole frames have been read.
InvWhole ==
    split \/ sender = "gone" \/ (receiver = "running" /\ taken = Latest * Frame)

InvBehind == \A i \in Cells : buffer[i] < taken

Inv == ChannelTypeOK /\ InvRunning /\ InvWhole /\ InvBehind

-----------------------------------------------------------------------------
(***************************************************************************)
(* Multiples of the size of a frame.                                       *)
(***************************************************************************)
LEMMA FrameSize == Frame \in Nat /\ Frame >= 1 /\ Block \in Nat /\ Block >= 1 /\ Block <= Frame
BY ChannelAssumption

LEMMA Monotone ==
    ASSUME NEW a \in Int, NEW b \in Int, a <= b
    PROVE  a * Frame <= b * Frame
<1> DEFINE c == b - a
<1>1. c \in Nat /\ b = a + c
  OBVIOUS
<1>2. b * Frame = a * Frame + c * Frame
  BY <1>1, FrameSize
<1>3. c * Frame >= 0
  BY <1>1, FrameSize
<1>4. a * Frame \in Int /\ c * Frame \in Int
  BY <1>1, FrameSize
<1> HIDE DEF c
<1> QED
  BY <1>2, <1>3, <1>4

LEMMA NextFrame ==
    ASSUME NEW a \in Int
    PROVE  (a + 1) * Frame = a * Frame + Frame
BY FrameSize

\* A frame begins in the range that InFrame allows only at its end.
LEMMA FrameStart ==
    ASSUME NEW d \in Int, NEW m \in Int, Start(d) < Start(m), Start(m) <= d * Frame
    PROVE  m = d + 1
<1>1. ~(m - 1 <= d - 1)
  BY Monotone, FrameSize DEF Start
<1>2. ~(m - 1 >= d + 1)
  <2>1. (d + 1) * Frame = d * Frame + Frame
    BY NextFrame
  <2>2. d * Frame \in Int /\ (m - 1) * Frame \in Int
    BY FrameSize
  <2>3. m - 1 >= d + 1 => (m - 1) * Frame >= d * Frame + Frame
    BY <2>1, Monotone
  <2> QED
    BY <2>2, <2>3, FrameSize DEF Start
<1> QED
  BY <1>1, <1>2

LEMMA SameStart ==
    ASSUME NEW d \in Int, NEW m \in Int, Start(d) = Start(m)
    PROVE  m = d
<1>1. d * Frame = Start(d) + Frame
  <2>1. d = (d - 1) + 1
    OBVIOUS
  <2> QED
    BY <2>1, NextFrame, FrameSize DEF Start
<1>2. (d - 1) * Frame = (d - 2) * Frame + Frame
  <2>1. d - 1 = (d - 2) + 1
    OBVIOUS
  <2> QED
    BY <2>1, NextFrame, FrameSize
<1>3. Start(d - 1) < Start(m) /\ Start(m) <= (d - 1) * Frame
  BY <1>2, FrameSize DEF Start
<1> QED
  BY <1>3, FrameStart

LEMMA LatestType ==
    ASSUME ChannelTypeOK
    PROVE  /\ Latest \in 0 .. sent
           /\ handed = << >> => Latest = 0
           /\ handed # << >> => Latest \in 1 .. sent
BY DEF ChannelTypeOK, Latest, D!Latest

LEMMA LatestAppended ==
    ASSUME ChannelTypeOK, NEW m \in 1 .. sent, handed' = Append(handed, m)
    PROVE  Latest' = m /\ handed' # << >>
BY DEF ChannelTypeOK, Latest, D!Latest

-----------------------------------------------------------------------------
(***************************************************************************)
(* What a buffer decrypts to.                                              *)
(***************************************************************************)
Filled(n, old) == [i \in Cells |-> IF i < n THEN taken + i ELSE old[i]]

LEMMA FirstCell == 0 \in Cells
BY FrameSize DEF Cells

LEMMA StaleType ==
    ASSUME ChannelTypeOK, InvBehind, NEW old \in Stale
    PROVE  old \in [Cells -> -1 .. sent * Frame] /\ \A i \in Cells : old[i] < taken
BY FrameSize DEF Stale, ChannelTypeOK, InvBehind, Junk, Cells

\* What recv returned decrypts only if it was the whole block of the frame at
\* which the stream stood.
LEMMA BlockFilled ==
    ASSUME ChannelTypeOK, InvBehind, NEW old \in Stale, NEW n \in 1 .. Room, NEW m \in 1 .. sent,
           Decrypts(Filled(n, old), m)
    PROVE  taken = Start(m) /\ Block <= n
<1>1. taken \in Nat /\ n \in Nat /\ n >= 1
  BY FrameSize DEF ChannelTypeOK, Room
<1>2. Filled(n, old)[0] = taken /\ Filled(n, old)[0] = Start(m) + 0
  BY <1>1, FirstCell DEF Filled, Decrypts
<1>3. Start(m) \in Int
  BY FrameSize DEF Start
<1>4. taken = Start(m)
  BY <1>1, <1>2, <1>3
<1>5. CASE n < Block
  <2>1. n \in Cells
    BY <1>1, <1>5, FrameSize DEF Cells
  <2>2. Filled(n, old)[n] = old[n] /\ Filled(n, old)[n] = Start(m) + n
    BY <1>1, <2>1 DEF Filled, Decrypts
  <2>3. old[n] < taken /\ old[n] \in Int
    BY <2>1, StaleType
  <2> QED
    BY <1>1, <1>3, <1>4, <2>2, <2>3
<1> QED
  BY <1>1, <1>4, <1>5, FrameSize

\* The block that recv fills is that of the next message, if of any.
LEMMA NextBlock ==
    ASSUME Inv, receiver = "running", NEW old \in Stale, NEW n \in 1 .. Room, n <= Pending,
           NEW m \in 1 .. sent, Decrypts(Filled(n, old), m)
    PROVE  m = Latest + 1 /\ Start(m) < taken + n /\ taken + n <= m * Frame
<1>1. taken = Start(m) /\ taken \in Nat /\ n \in Nat /\ n >= 1
  BY BlockFilled, FrameSize DEF Inv, ChannelTypeOK, Room
<1>2. InFrame
  BY <1>1, FrameSize DEF Inv, InvRunning, Drained, Pending
<1>3. Latest \in Int /\ m \in Int
  BY LatestType DEF Inv
<1>4. m = Latest + 1
  BY <1>1, <1>2, <1>3, FrameStart DEF InFrame
<1>5. m * Frame = Start(m) + Frame
  <2>1. m = (m - 1) + 1
    BY <1>3
  <2> QED
    BY <1>3, <2>1, NextFrame, FrameSize DEF Start
<1>6. n <= Frame /\ Start(m) \in Int
  BY <1>3, FrameSize DEF Room, Start
<1> QED
  BY <1>1, <1>4, <1>5, <1>6, FrameSize

\* A buffer that recv did not touch decrypts to the message handed over last, if
\* to any.
LEMMA OldBlock ==
    ASSUME Inv, receiver = "running", NEW old \in Stale, NEW m \in 1 .. sent, Decrypts(old, m)
    PROVE  handed # << >> /\ m = Latest /\ old = buffer
<1>1. old[0] = Start(m) + 0 /\ Start(m) >= 0 /\ Start(m) \in Int
  <2>1. m - 1 \in Nat
    OBVIOUS
  <2>2. (m - 1) * Frame >= 0
    BY <2>1, FrameSize
  <2> QED
    BY <2>2, FirstCell, FrameSize DEF Decrypts, Start
<1>2. old # [i \in Cells |-> Junk]
  BY <1>1, FirstCell DEF Junk
<1>3. old = buffer
  BY <1>2 DEF Stale
<1>4. handed # << >> /\ Decrypts(buffer, Latest)
  BY <1>2, <1>3 DEF Inv, InvRunning
<1>5. Latest \in Int /\ Start(Latest) \in Int
  BY LatestType, FrameSize DEF Inv, Start
<1>6. Start(Latest) = Start(m)
  BY <1>1, <1>3, <1>4, <1>5, FirstCell DEF Decrypts
<1> QED
  BY <1>3, <1>4, <1>5, <1>6, SameStart

-----------------------------------------------------------------------------
(***************************************************************************)
(* The invariant is inductive.                                             *)
(***************************************************************************)
LEMMA InitInv == Init => Inv
<1> SUFFICES ASSUME Init PROVE Inv
  OBVIOUS
<1>1. Latest = 0
  BY DEF Init, Latest, D!Latest
<1>2. 0 * Frame = 0 /\ Start(0) < 0
  BY FrameSize DEF Start
<1>3. ChannelTypeOK
  <2>1. sent = 0 /\ sent * Frame = 0
    BY <1>2 DEF Init
  <2>2. buffer \in [Cells -> -1 .. 0] /\ handed \in Seq(1 .. 0)
    BY DEF Init, Junk
  <2>3. buffer \in [Cells -> -1 .. sent * Frame] /\ taken \in 0 .. sent * Frame
    BY <2>1, <2>2 DEF Init
  <2>4. sent \in 0 .. MaxMessages /\ handed \in Seq(1 .. sent)
    BY <2>1, <2>2, ChannelAssumption
  <2> QED
    BY <2>3, <2>4 DEF Init, ChannelTypeOK
<1>4. InvRunning /\ InvWhole
  BY <1>1, <1>2 DEF Init, InvRunning, InvWhole, InFrame
<1>5. InvBehind
  BY DEF Init, InvBehind, Junk
<1> QED
  BY <1>3, <1>4, <1>5 DEF Inv

LEMMA SendKeeps == ASSUME Inv, Send PROVE Inv'
<1>1. sent \in Nat /\ (sent + 1) * Frame = sent * Frame + Frame
  BY NextFrame DEF Inv, ChannelTypeOK
<1>2. sent * Frame \in Nat
  BY <1>1, FrameSize
<1>3. ChannelTypeOK'
  <2>1. handed' \in Seq(1 .. sent')
    BY <1>1 DEF Inv, ChannelTypeOK, Send
  <2>2. buffer' \in [Cells -> -1 .. sent' * Frame] /\ taken' \in 0 .. sent' * Frame
    BY <1>1, <1>2, FrameSize DEF Inv, ChannelTypeOK, Send
  <2> QED
    BY <2>1, <2>2, ChannelAssumption DEF Inv, ChannelTypeOK, Send
<1>4. Latest' = Latest
  BY DEF Send, Latest, D!Latest
<1>5. InvRunning'
  BY <1>4 DEF Inv, InvRunning, InFrame, Drained, Send, Decrypts
<1> QED
  BY <1>3, <1>4, <1>5 DEF Inv, InvWhole, InvBehind, Send

LEMMA GoKeeps == ASSUME Inv, Go PROVE Inv'
<1>1. Latest' = Latest
  BY DEF Go, Latest, D!Latest
<1> QED
  BY <1>1 DEF Inv, ChannelTypeOK, InvRunning, InvWhole, InvBehind, InFrame, Drained, Go,
              Decrypts

\* What recv_P3 has read is typed and lies behind the place it has read up to.
LEMMA ReceiveTypes ==
    ASSUME Inv, NEW n \in 1 .. Room, Receive(n)
    PROVE  ChannelTypeOK' /\ InvBehind'
<1>1. PICK old \in Stale : HandOver(Filled(n, old))
  BY DEF Receive, Filled
<1>2. n \in Nat /\ n >= 1 /\ taken \in Nat /\ sent \in Nat /\ sent * Frame \in Nat
  BY FrameSize DEF Inv, ChannelTypeOK, Room
<1>3. taken + n <= sent * Frame /\ taken' = taken + n
  BY <1>2 DEF Receive, Pending
<1>4. buffer' = Filled(n, old)
  BY <1>1 DEF HandOver
<1>5. ASSUME NEW i \in Cells
      PROVE  Filled(n, old)[i] \in -1 .. sent * Frame /\ Filled(n, old)[i] < taken + n
  <2>1. Filled(n, old)[i] = IF i < n THEN taken + i ELSE old[i]
    BY DEF Filled
  <2>2. old[i] \in -1 .. sent * Frame /\ old[i] < taken
    BY StaleType DEF Inv
  <2>3. i \in Nat
    BY FrameSize DEF Cells
  <2> QED
    BY <1>2, <1>3, <2>1, <2>2, <2>3
<1>6. buffer' \in [Cells -> -1 .. sent * Frame] /\ \A i \in Cells : buffer'[i] < taken'
  BY <1>3, <1>4, <1>5 DEF Filled
<1>7. handed' \in Seq(1 .. sent) /\ receiver' \in {"running", "left", "ended"}
  BY <1>1 DEF HandOver, Inv, ChannelTypeOK
<1> QED
  BY <1>2, <1>3, <1>6, <1>7 DEF Inv, ChannelTypeOK, InvBehind, Receive

LEMMA ReceiveKeeps ==
    ASSUME Inv, NEW n \in 1 .. Room, Receive(n)
    PROVE  Inv'
<1>1. PICK old \in Stale : HandOver(Filled(n, old))
  BY DEF Receive, Filled
<1>2. receiver = "running" /\ n <= Pending /\ taken' = taken + n /\ sent' = sent
      /\ buffer' = Filled(n, old) /\ sender' = sender
  BY <1>1 DEF Receive, HandOver
<1>3. n \in Nat /\ n >= 1 /\ taken \in Nat /\ sent \in Nat /\ sent * Frame \in Nat
  BY FrameSize DEF Inv, ChannelTypeOK, Room
<1>4. ~split' => ~split /\ (n = Frame \/ n = Pending)
  <2>1. ~split' => ~split /\ ~(n < Room /\ n < Pending)
    BY DEF Receive
  <2> QED
    BY <1>2, <1>3, <2>1, FrameSize DEF Room, Pending
<1>5. CASE \E m \in 1 .. sent : /\ Decrypts(Filled(n, old), m)
                                /\ handed' = Append(handed, m)
                                /\ UNCHANGED receiver
  <2>1. PICK m \in 1 .. sent : /\ Decrypts(Filled(n, old), m)
                               /\ handed' = Append(handed, m)
                               /\ UNCHANGED receiver
    BY <1>5
  <2>2. Latest' = m /\ handed' # << >>
    BY <2>1, LatestAppended DEF Inv
  <2>3. m = Latest + 1 /\ Start(m) < taken + n /\ taken + n <= m * Frame
    BY <1>2, <2>1, NextBlock
  <2>4. InFrame'
    BY <1>2, <2>2, <2>3 DEF InFrame, Start
  <2>5. InvRunning'
    BY <1>2, <2>1, <2>2, <2>4 DEF InvRunning, Decrypts, Start
  <2>6. InvWhole'
    <3> SUFFICES ASSUME ~split', sender # "gone"
                 PROVE  taken' = m * Frame
      BY <1>2, <2>1, <2>2 DEF InvWhole
    <3>1. taken = Latest * Frame /\ (n = Frame \/ n = Pending)
      BY <1>4 DEF Inv, InvWhole
    <3>2. Latest \in Int /\ m * Frame = Latest * Frame + Frame
      BY <2>3, LatestType, NextFrame DEF Inv
    <3>3. m * Frame <= sent * Frame
      BY <1>3, Monotone
    <3>4. m * Frame \in Int /\ n <= Frame
      BY FrameSize DEF Room
    <3> QED
      BY <1>2, <1>3, <3>1, <3>2, <3>3, <3>4, FrameSize DEF Pending
  <2> QED
    BY <2>5, <2>6, ReceiveTypes DEF Inv
<1>6. CASE /\ \A m \in 1 .. sent : ~Decrypts(Filled(n, old), m)
           /\ receiver' = "ended"
           /\ UNCHANGED handed
  <2>1. InvRunning'
    BY <1>6 DEF InvRunning
  <2>2. split' \/ sender = "gone"
    <3> SUFFICES ASSUME ~split', sender # "gone"
                 PROVE  FALSE
      OBVIOUS
    <3>1. taken = Latest * Frame /\ (n = Frame \/ n = Pending)
      BY <1>4 DEF Inv, InvWhole
    <3> DEFINE m == Latest + 1
    <3>2. Latest \in Nat /\ m \in Nat /\ m >= 1 /\ Latest <= sent
      BY LatestType, <1>3 DEF Inv
    <3>3. m * Frame = Latest * Frame + Frame /\ Latest * Frame \in Int
      BY <3>2, NextFrame, FrameSize
    <3>4. m <= sent
      <4>1. sent <= Latest => sent * Frame <= Latest * Frame
        BY <1>3, <3>2, Monotone
      <4>2. Latest * Frame < sent * Frame
        BY <1>2, <1>3, <3>1, <3>3 DEF Pending
      <4> QED
        BY <1>3, <3>2, <3>3, <4>1, <4>2
    <3>5. n = Frame
      <4>1. m * Frame <= sent * Frame
        BY <1>3, <3>2, <3>4, Monotone
      <4>2. n <= Frame /\ m * Frame \in Int
        BY <3>2, FrameSize DEF Room
      <4> QED
        BY <1>3, <3>1, <3>3, <4>1, <4>2, FrameSize DEF Pending
    <3>6. Start(m) = taken
      BY <3>1, <3>2 DEF Start
    <3>7. Decrypts(Filled(n, old), m)
      BY <3>5, <3>6, FrameSize DEF Decrypts, Filled, Cells
    <3> QED
      BY <1>3, <1>6, <3>2, <3>4, <3>7
  <2> QED
    BY <1>2, <2>1, <2>2, ReceiveTypes DEF Inv, InvWhole
<1> QED
  BY <1>1, <1>5, <1>6 DEF HandOver

LEMMA NothingTypes ==
    ASSUME Inv, Nothing
    PROVE  /\ sent * Frame \in Nat /\ sent' * Frame = sent * Frame
           /\ taken <= taken' /\ taken' \in 0 .. sent * Frame
BY FrameSize DEF Inv, ChannelTypeOK, Nothing

LEMMA RepeatedKeeps == ASSUME Inv, Repeated PROVE Inv'
<1>1. PICK old \in Stale : HandOver(old)
  BY DEF Repeated
<1>2. Nothing
  BY DEF Repeated
<1>3. ChannelTypeOK' /\ InvBehind'
  <2>1. old \in [Cells -> -1 .. sent * Frame] /\ \A i \in Cells : old[i] < taken
    BY StaleType DEF Inv
  <2>2. taken <= taken' /\ taken' \in 0 .. sent * Frame /\ taken \in Int
    BY <1>2, NothingTypes DEF Inv, ChannelTypeOK
  <2>3. \A i \in Cells : old[i] < taken'
    BY <2>1, <2>2
  <2>4. handed' \in Seq(1 .. sent) /\ receiver' \in {"running", "left", "ended"}
    BY <1>1 DEF HandOver, Inv, ChannelTypeOK
  <2> QED
    BY <1>1, <1>2, <2>1, <2>2, <2>3, <2>4
       DEF HandOver, Nothing, Inv, ChannelTypeOK, InvBehind
<1>4. Drained' /\ InvWhole'
  BY <1>2 DEF Nothing, Drained, InvWhole
<1>5. InvRunning'
  <2>1. CASE \E m \in 1 .. sent : Decrypts(old, m) /\ handed' = Append(handed, m)
                                  /\ UNCHANGED receiver
    <3>1. PICK m \in 1 .. sent : Decrypts(old, m) /\ handed' = Append(handed, m)
      BY <2>1
    <3>2. Latest' = m /\ handed' # << >>
      BY <3>1, LatestAppended DEF Inv
    <3> QED
      BY <1>1, <1>4, <3>1, <3>2 DEF InvRunning, HandOver, Decrypts
  <2>2. CASE receiver' = "ended"
    BY <2>2 DEF InvRunning
  <2> QED
    BY <1>1, <2>1, <2>2 DEF HandOver
<1> QED
  BY <1>3, <1>4, <1>5 DEF Inv

LEMMA DroppedKeeps == ASSUME Inv, Dropped PROVE Inv'
<1>1. Nothing /\ receiver' = "left" /\ buffer' = buffer /\ handed' = handed
  BY DEF Dropped
<1>2. taken <= taken' /\ taken' \in 0 .. sent * Frame /\ taken \in Int /\ sent' = sent
  BY <1>1, NothingTypes DEF Inv, ChannelTypeOK, Nothing
<1>3. InvBehind'
  <2>1. \A i \in Cells : buffer[i] < taken /\ buffer[i] \in Int
    BY FrameSize DEF Inv, InvBehind, ChannelTypeOK
  <2> QED
    BY <1>1, <1>2, <2>1 DEF InvBehind
<1>4. ChannelTypeOK'
  BY <1>1, <1>2 DEF Inv, ChannelTypeOK, Nothing
<1> QED
  BY <1>1, <1>3, <1>4 DEF Inv, InvRunning, InvWhole, Nothing

LEMMA NextKeeps == Inv /\ [Next]_vars => Inv'
<1> SUFFICES ASSUME Inv, [Next]_vars PROVE Inv'
  OBVIOUS
<1>1. CASE UNCHANGED vars
  <2>1. Latest' = Latest
    BY <1>1 DEF vars, Latest, D!Latest
  <2> QED
    BY <1>1, <2>1 DEF vars, Inv, ChannelTypeOK, InvRunning, InvWhole, InvBehind, InFrame,
                      Drained, Decrypts
<1> QED
  BY <1>1, SendKeeps, GoKeeps, ReceiveKeeps, RepeatedKeeps, DroppedKeeps DEF Next

LEMMA Invariance == Spec => []Inv
BY InitInv, NextKeeps, PTL DEF Spec

-----------------------------------------------------------------------------
(***************************************************************************)
(* Every step is one of Delivery or a stutter.                             *)
(***************************************************************************)
LEMMA ReceiveDelivers ==
    ASSUME Inv, NEW n \in 1 .. Room, Receive(n)
    PROVE  D!Deliver \/ D!Stop
<1>1. PICK old \in Stale : HandOver(Filled(n, old))
  BY DEF Receive, Filled
<1>2. receiver = "running" /\ n <= Pending /\ UNCHANGED <<sent, sender>>
  BY DEF Receive
<1>3. ASSUME NEW m \in 1 .. sent, Decrypts(Filled(n, old), m), handed' = Append(handed, m),
             UNCHANGED receiver
      PROVE  D!Deliver
  <2>1. m = Latest + 1 /\ Latest \in Int
    BY <1>2, <1>3, NextBlock, LatestType DEF Inv
  <2>2. D!Latest < sent /\ handed' = Append(handed, D!Latest + 1)
    BY <1>3, <2>1 DEF Latest, Inv, ChannelTypeOK
  <2> QED
    BY <1>2, <1>3, <2>2 DEF D!Deliver
<1>4. receiver' = "ended" /\ handed' = handed => D!Stop
  BY <1>2 DEF D!Stop
<1> QED
  BY <1>1, <1>3, <1>4 DEF HandOver

LEMMA RepeatedDelivers == ASSUME Inv, Repeated PROVE D!Repeat \/ D!Stop
<1>1. PICK old \in Stale : HandOver(old)
  BY DEF Repeated
<1>2. receiver = "running" /\ sender = "gone" /\ UNCHANGED <<sent, sender>>
  BY DEF Repeated, Nothing
<1>3. ASSUME NEW m \in 1 .. sent, Decrypts(old, m), handed' = Append(handed, m),
             UNCHANGED receiver
      PROVE  D!Repeat
  <2>1. handed # << >> /\ m = Latest
    BY <1>2, <1>3, OldBlock
  <2> QED
    BY <1>2, <1>3, <2>1 DEF D!Repeat, Latest
<1>4. receiver' = "ended" /\ handed' = handed => D!Stop
  BY <1>2 DEF D!Stop
<1> QED
  BY <1>1, <1>3, <1>4 DEF HandOver

LEMMA StepDelivers == Inv /\ [Next]_vars => [D!Next]_D!vars
<1> SUFFICES ASSUME Inv, [Next]_vars PROVE D!Next \/ UNCHANGED D!vars
  OBVIOUS
<1>1. Send => D!Send
  BY DEF Send, D!Send
<1>2. Go => D!Go
  BY DEF Go, D!Go
<1>3. Dropped => D!Stop
  BY DEF Dropped, Nothing, D!Stop
<1>4. UNCHANGED vars => UNCHANGED D!vars
  BY DEF vars, D!vars
<1> QED
  BY <1>1, <1>2, <1>3, <1>4, ReceiveDelivers, RepeatedDelivers DEF Next, D!Next

-----------------------------------------------------------------------------

\* The stream, the buffer and the messages handed over are well typed, for every
\* size of frame and block.
THEOREM ChannelTyped == Spec => []ChannelTypeOK
BY Invariance, PTL DEF Inv

\* The transport ends the receiving process only after a recv that split a frame
\* or the departure of the sender: frames that are read whole stay aligned.
THEOREM EndsOnlyForCause == Spec => []EndsForCause
<1>1. Inv => EndsForCause
  BY DEF Inv, InvWhole, EndsForCause
<1> QED
  BY <1>1, Invariance, PTL

\* recv_P3 hands over the messages in the order in which send_P3 sent them, each
\* unchanged and once, however recv splits them, but that the last one may come
\* again when the sender is gone.
THEOREM MessagesInOrder == Spec => InOrder
<1>1. Init => D!Init
  BY DEF Init, D!Init
<1> QED
  BY <1>1, Invariance, StepDelivers, PTL DEF Spec, InOrder, D!Spec

=============================================================================
