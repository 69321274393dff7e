----------------------------- MODULE MCLifecycle ----------------------------
(***************************************************************************)
(* Finite instances of Lifecycle for TLC.                                  *)
(***************************************************************************)
EXTENDS Lifecycle, TLC

InTransaction(w) == req[w].op = "transaction" \/ call[w].op = "transaction"

\* One transfer at a time, in a server that was asked neither to reset nor to erase
\* and before SIGINT.
FewTransfers ==
    \A w \in Workers : InTransaction(w) =>
        /\ server = "serving" /\ ~reset /\ ~erase
        /\ \A v \in Workers \ {w} : ~InTransaction(v)

LifeSymmetry == Permutations(Users) \cup Permutations(Workers) \cup Permutations(Addrs)

=============================================================================
