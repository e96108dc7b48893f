--------------------------- MODULE SpendingBudget ---------------------------
(***************************************************************************)
(* What the persisted policy of the subkey contract promises, without the  *)
(* counters that implement it.  Each signer has at most one budget: a      *)
(* number of transfers and an amount for every kind of transfer, per       *)
(* window.  Assigning a budget starts a new account of what it has paid    *)
(* for; a transfer is accounted in a window no earlier than any other.     *)
(***************************************************************************)
EXTENDS Naturals

CONSTANTS None, Signers, Kinds, Windows, Amounts

OptNat == Nat \cup {None}

Budgets == [maxTxCount : OptNat, cap : [Kinds -> OptNat]]

Uses == [kinds : SUBSET Kinds, txs : [Windows -> Nat],
         spent : [Kinds -> [Windows -> Nat]]]

VARIABLES budget, used

vars == <<budget, used>>

NoUse == [kinds |-> {}, txs |-> [w \in Windows |-> 0],
          spent |-> [k \in Kinds |-> [w \in Windows |-> 0]]]

Used(u, kind, amount, w) ==
  [kinds |-> u.kinds \cup {kind},
   txs   |-> [u.txs EXCEPT ![w] = @ + 1],
   spent |-> [u.spent EXCEPT ![kind][w] = @ + amount]]

TypeOK ==
  /\ budget \in [Signers -> Budgets \cup {None}]
  /\ used \in [Signers -> Uses]

\* Every window's transfers stay within the count.  The amount is promised
\* for a budget that pays for a single kind of transfer.
Covers(b, u) ==
  /\ b.maxTxCount # None => \A w \in Windows : u.txs[w] <= b.maxTxCount
  /\ \A k \in Kinds : u.kinds \subseteq {k} /\ b.cap[k] # None =>
       \A w \in Windows : u.spent[k][w] <= b.cap[k]

Init ==
  /\ budget = [s \in Signers |-> None]
  /\ used = [s \in Signers |-> NoUse]

Assign(s) ==
  /\ budget' \in [Signers -> Budgets \cup {None}]
  /\ \A r \in Signers \ {s} : budget'[r] = budget[r]
  /\ used' = [used EXCEPT ![s] = NoUse]

Spend(s, kind, w) ==
  /\ budget[s] # None
  /\ \A v \in Windows : v > w => used[s].txs[v] = 0
  /\ \E amount \in Amounts :
       used' = [used EXCEPT ![s] = Used(@, kind, amount, w)]
  /\ Covers(budget[s], used'[s])
  /\ UNCHANGED budget

Next ==
  \E s \in Signers :
    \/ Assign(s)
    \/ \E kind \in Kinds, w \in Windows : Spend(s, kind, w)

Spec == Init /\ [][Next]_vars
=============================================================================
