--------------------------- MODULE TransferLedger ---------------------------
(***************************************************************************)
(* What the signers promise the wallet about a transaction, whatever fails *)
(* between them and the server: each transfer uses up a signature that the *)
(* NEAR contract has charged, and only a transfer that is on the chain is  *)
(* recorded as transmitted, once and for all.                              *)
(***************************************************************************)
EXTENDS Naturals

CONSTANT Jobs

VARIABLES
  outcome,   \* job -> what the server records
  charged,   \* job -> signatures charged
  landed     \* job -> transfers on the chain

vars == <<outcome, charged, landed>>

Outcomes == {"open", "transmitted", "failed"}

Init ==
  /\ outcome = [j \in Jobs |-> "open"]
  /\ charged = [j \in Jobs |-> 0]
  /\ landed = [j \in Jobs |-> 0]

Charge(j) ==
  /\ charged' = [charged EXCEPT ![j] = @ + 1]
  /\ UNCHANGED <<outcome, landed>>

Transfer(j) ==
  /\ landed[j] < charged[j]
  /\ landed' = [landed EXCEPT ![j] = @ + 1]
  /\ UNCHANGED <<outcome, charged>>

Record(j, result) ==
  /\ outcome[j] = "open"
  /\ result = "transmitted" => landed[j] > 0
  /\ outcome' = [outcome EXCEPT ![j] = result]
  /\ UNCHANGED <<charged, landed>>

Next ==
  \E j \in Jobs :
    \/ Charge(j)
    \/ Transfer(j)
    \/ \E result \in {"transmitted", "failed"} : Record(j, result)

Spec == Init /\ [][Next]_vars
=============================================================================
