------------------------------ MODULE P3Channel -----------------------------
(***************************************************************************)
(* One direction of a connection as send_P3 and recv_P3 use it (util.hpp): *)
(* each message is one RSA block at the head of a frame of fixed size, the *)
(* rest of which is zero, and the receiver calls recv once for each        *)
(* message, into a buffer on its stack that it does not initialise.        *)
(*                                                                         *)
(* A byte is its offset in everything sent: the frame of message m begins  *)
(* at (m - 1) * Frame.  The buffer is its first Block bytes, which are     *)
(* what is decrypted, whatever recv has returned.                          *)
(***************************************************************************)
EXTENDS Integers, Sequences

CONSTANTS
    Frame,          \* sizeof(encrypted)
    Block,          \* the 256 bytes of the cipher block
    MaxMessages,    \* bound on the messages sent
    MaxRepeats      \* bound on the messages handed over more than once

ASSUME ChannelAssumption ==
    /\ Block \in Nat \ {0}
    /\ Frame \in Nat
    /\ Block <= Frame
    /\ MaxMessages \in Nat
    /\ MaxRepeats \in Nat

Junk == -1

VARIABLES
    sent,       \* messages sent whole
    sender,     \* the sending process
    taken,      \* bytes read
    buffer,     \* encrypted[0 .. 255] of recv_P3
    handed,     \* the messages recv_P3 has returned
    receiver,   \* "running", "left" the connection, or "ended" by exit(0)
    split       \* history: a recv returned less than there was room and data for

vars == <<sent, sender, taken, buffer, handed, receiver, split>>

Cells == 0 .. Block - 1

Init ==
    /\ sent = 0
    /\ sender = "running"
    /\ taken = 0
    /\ buffer = [i \in Cells |-> Junk]
    /\ handed = << >>
    /\ receiver = "running"
    /\ split = FALSE

(***************************************************************************)
(* send_P3                                                                 *)
(***************************************************************************)
Send ==
    /\ sender = "running"
    /\ sent < MaxMessages
    /\ sent' = sent + 1
    /\ UNCHANGED <<sender, taken, buffer, handed, receiver, split>>

\* The sender closes its end, is killed, or has a message that does not fit
\* into a block: encryption fails and exit(0) ends it.
Go ==
    /\ sender = "running"
    /\ sender' = "gone"
    /\ UNCHANGED <<sent, taken, buffer, handed, receiver, split>>

(***************************************************************************)
(* recv_P3                                                                 *)
(***************************************************************************)
Start(m) == (m - 1) * Frame

\* The block of message m, whole, decrypts to it; anything else fails.
Decrypts(b, m) == \A i \in Cells : b[i] = Start(m) + i

\* What the uninitialised buffer holds: what the last call left, or what other
\* calls have written there since.
Stale == {buffer, [i \in Cells |-> Junk]}

\* Mutant: room is left for a final zero.
RoomLess == Frame - 1

Room == Frame

\* Mutant: the frame that is being sent is read already.
PendingEarly == (sent + 1) * Frame - taken

Pending == sent * Frame - taken

\* Mutant: a message that does not decrypt is skipped.
HandOverOrSkip(b) ==
    /\ buffer' = b
    /\ \/ \E m \in 1 .. sent : Decrypts(b, m) /\ handed' = Append(handed, m)
       \/ (\A m \in 1 .. sent : ~Decrypts(b, m)) /\ UNCHANGED handed
    /\ UNCHANGED receiver

HandOver(b) ==
    /\ buffer' = b
    /\ \/ \E m \in 1 .. sent :
            /\ Decrypts(b, m)
            /\ handed' = Append(handed, m)
            /\ UNCHANGED receiver
       \/ /\ \A m \in 1 .. sent : ~Decrypts(b, m)
          /\ receiver' = "ended"
          /\ UNCHANGED handed

Receive(n) ==
    /\ receiver = "running"
    /\ n <= Pending
    /\ \E old \in Stale :
          HandOver([i \in Cells |-> IF i < n THEN taken + i ELSE old[i]])
    /\ taken' = taken + n
    /\ split' = (split \/ (n < Room /\ n < Pending))
    /\ UNCHANGED <<sent, sender>>

\* recv returns 0, or -1 when the connection was reset, and then what was unread is
\* lost.  The buffer is decrypted all the same.
Nothing ==
    /\ receiver = "running"
    /\ sender = "gone"
    /\ taken' = sent * Frame
    /\ UNCHANGED <<sent, sender, split>>

Repeated ==
    /\ Nothing
    /\ Len(handed) < sent + MaxRepeats
    /\ \E old \in Stale : HandOver(old)

\* The server looks at a -1, after decryption: it leaves the connection.
Dropped ==
    /\ Nothing
    /\ \E m \in 1 .. sent : Decrypts(buffer, m)
    /\ receiver' = "left"
    /\ UNCHANGED <<buffer, handed>>

Next == Send \/ Go \/ (\E n \in 1 .. Room : Receive(n)) \/ Repeated \/ Dropped

Spec == Init /\ [][Next]_vars

\* The receiver keeps calling recv.
FairSpec == Spec /\ WF_vars(\E n \in 1 .. Room : Receive(n))

-----------------------------------------------------------------------------

ChannelTypeOK ==
    /\ sent \in 0 .. MaxMessages
    /\ sender \in {"running", "gone"}
    /\ taken \in 0 .. sent * Frame
    /\ buffer \in [Cells -> -1 .. sent * Frame]
    /\ handed \in Seq(1 .. sent)
    /\ receiver \in {"running", "left", "ended"}
    /\ split \in BOOLEAN

\* The n-th message handed over is the n-th sent, however recv splits frames and
\* whatever the buffer held before: a torn or a shifted frame ends the receiver and is
\* never taken for a message.  Only when the sender is gone may the last one come
\* twice (util.hpp:278-309).
D == INSTANCE Delivery WITH
        gone <- (sender = "gone"), over <- (receiver # "running")

InOrder == D!Spec

\* The receiving process is ended by the transport only if some recv has split a
\* frame or the sender is gone: 4096 bytes written are 4096 bytes read, so that
\* frames stay aligned for ever once none is split (util.hpp:281, 346).
EndsForCause == receiver = "ended" => split \/ sender = "gone"

\* While the sender stays, what was sent is handed over, or the receiver ends.
EverythingArrives ==
    \A m \in 1 .. MaxMessages :
        sent >= m ~> (Len(handed) >= m \/ sender = "gone" \/ receiver = "ended")

=============================================================================
