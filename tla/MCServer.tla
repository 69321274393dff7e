------------------------------ MODULE MCServer ------------------------------
(***************************************************************************)
(* Finite instances of Server for TLC.                                     *)
(***************************************************************************)
EXTENDS Server

CONSTANT MaxFds      \* bound: entries left behind in client_fds

ServerSymmetry ==
    Permutations(Users) \cup Permutations(Workers) \cup Permutations(Conns)

\* The server without the condition Isolated.  No run assumes it: put in the place
\* of Spec in sessions_faults.cfg it breaks OneSessionPerUser by two logins of one
\* user that both succeed (Database.cpp:126-141).
RacingSpec == Init /\ [][Next]_vars

FewEntries == Len(fds) <= MaxFds

=============================================================================
