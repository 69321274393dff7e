----------------------------- MODULE StoreMoney ------------------------------
(***************************************************************************)
(* The money in the accounts of AccountStore, all users together, against  *)
(* what registration has given out.                                        *)
(***************************************************************************)
EXTENDS IsolatedStore, FiniteSetsExt

Granted ==
    MapThenSumSet(LAMBDA r : r.balance, Kept)
      + InitialBalance * (Cardinality(clients) - Cardinality(Kept))

\* What the users own, the amount of a transfer between its two writes included.
AllOwned == MapThenSumSet(LAMBDA u : Balances[u], Usernames)

\* While calls in progress concern different users, the users together never own
\* more than registration gave them: neither a failed statement nor the
\* truncation of a fractional amount makes money (Database.cpp:188-191).
NoMoneyMade == AllOwned <= Granted

\* Money is lost in two ways only, and no more of it than that: a transfer whose
\* second UPDATE fails has taken the amount from the sender for nothing, and one of
\* a fractional amount may credit a unit less than it debits.  No registration,
\* login, logout, refused payment or failure anywhere else loses any
\* (Database.cpp:107-197).
Shortfall == Granted - AllOwned

Loss(w) ==
    IF reply'[w] = "SQLITE_BUSY" THEN own[w].balance - Debited(own[w], req[w].pay).balance
    ELSE IF req[w].pay % Scale # 0 THEN 1 ELSE 0

LossHasCause ==
    [][\/ Shortfall' <= Shortfall
       \/ \E w \in Workers :
             /\ pc[w] = "credit" /\ pc'[w] # "credit"
             /\ Shortfall' - Shortfall <= Loss(w)]_vars

-----------------------------------------------------------------------------
(***************************************************************************)
(* What the documentation expects of the database without the condition,   *)
(* stated of Spec: the runs that check these find the race that breaks     *)
(* them.                                                                   *)
(***************************************************************************)

\* docs/phase02.md:268 and README.md:236 chose a database so that simultaneous
\* reads and writes are handled: with no call in progress there is no more money
\* than registration gave out.  A logout that has read the payer's row before
\* the debit and writes it back after it (Database.cpp:153-164) makes some.
NoMoneyMadeAtRest == (\A w \in Workers : pc[w] = "idle") => AllOwned <= Granted

=============================================================================
