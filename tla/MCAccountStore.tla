--------------------------- MODULE MCAccountStore ---------------------------
(***************************************************************************)
(* Finite instances of AccountStore and IsolatedStore for TLC.             *)
(***************************************************************************)
EXTENDS StoreMoney, TLC

CONSTANTS
    MaxBalance        \* bound on the balances the races can create

\* Amounts in halves of a unit: one that user_transaction rejects, a fraction,
\* a whole amount and a fraction above one.
HalfAmounts == {0, 1, 2, 3}

\* An amount below zero, half a unit and a whole one.
SignedAmounts == {-1, 1, 2}

\* The rows of an earlier server whose users have all logged out.
AllOffline ==
    {[username |-> u, addr |-> NoAddr, private_port |-> NoPort,
      online_status |-> 0, balance |-> InitialBalance] : u \in Users}

SmallBalances == \A r \in clients : r.balance <= MaxBalance

\* Each user calls over a connection of his own.
OwnConnections ==
    /\ \A v, w \in Workers : v # w => Connection(v) \cap Connection(w) = {}
    /\ \A r, s \in clients : r # s /\ r.online_status = 1 => r.addr # s.addr

Symmetry == Permutations(Users) \cup Permutations(Workers) \cup Permutations(Addrs)

=============================================================================
