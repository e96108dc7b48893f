------------------------------ MODULE RpcPool ------------------------------
(***************************************************************************)
(* The NEAR RPC endpoints as a signer sees them                            *)
(* (rust-signer-external/near_client.rs): how healthy each has been, the   *)
(* order a call tries them in, and the loop that polls for the result of a *)
(* signing request.  Pure operators; the health is a state of the process. *)
(*                                                                         *)
(* Times are abstracted: a cooldown, whatever its length, lapses at some   *)
(* later moment, and of two failures only which one was later matters.     *)
(***************************************************************************)
EXTENDS Naturals, Sequences, FiniteSets

CONSTANTS
  RpcCount,      \* endpoints of the network, 4 in the code
  FailureCap,    \* 8 in the code
  PollAttempts   \* 60 in the code

ASSUME PoolAssumption ==
  /\ RpcCount \in Nat \ {0}
  /\ FailureCap \in Nat /\ PollAttempts \in Nat \ {0}

Rpcs == 1 .. RpcCount

\* The class of an error text; "reused" is an error of class "other" that
\* says that the request id was used already.
RpcErrors == {"rate_limited", "timeout", "transport", "other", "reused"}
Rotating == {"rate_limited", "timeout", "transport"}

Health == [failures : 0 .. FailureCap, cooling : BOOLEAN, lastFailure : Nat]

AllHealthy ==
  [rpc \in Rpcs |-> [failures |-> 0, cooling |-> FALSE, lastFailure |-> 0]]

Lower(a, b) == IF a < b THEN a ELSE b

---------------------------------------------------------------------------
(* Health and ranking.                                                     *)

\* By cooldown, failures and last failure; the sort is stable.
RankedBefore(health, q, r) ==
  LET a == health[q]
      b == health[r]
  IN \/ ~a.cooling /\ b.cooling
     \/ /\ a.cooling = b.cooling
        /\ \/ a.failures < b.failures
           \/ /\ a.failures = b.failures
              /\ \/ a.lastFailure < b.lastFailure
                 \/ a.lastFailure = b.lastFailure /\ q < r

Candidates(health) ==
  [n \in Rpcs |-> CHOOSE r \in Rpcs :
     Cardinality({q \in Rpcs : RankedBefore(health, q, r)}) = n - 1]

MarkSuccess(health, rpc) ==
  [health EXCEPT ![rpc].failures = IF @ = 0 THEN 0 ELSE @ - 1,
                 ![rpc].cooling = FALSE]

\* Later than every failure so far.
Later(health) ==
  1 + (CHOOSE t \in {health[r].lastFailure : r \in Rpcs} :
         \A r \in Rpcs : health[r].lastFailure <= t)

\* Slip: the count of failures is not capped.
MarkFailureUncapped(health, rpc, error) ==
  [health EXCEPT ![rpc] =
     [failures |-> @.failures + 1, cooling |-> TRUE,
      lastFailure |-> Later(health)]]

MarkFailure(health, rpc, error) ==
  [health EXCEPT ![rpc] =
     [failures |-> IF error = "reused" THEN @.failures
                   ELSE Lower(@.failures + 1, FailureCap),
      cooling |-> TRUE,
      lastFailure |-> Later(health)]]

CoolOff(health, rpc) == [health EXCEPT ![rpc].cooling = FALSE]

---------------------------------------------------------------------------
(* One call, tried on every candidate in turn: the first ones fail with    *)
(* the given errors and the next one answers, if one is left.              *)

AllFail(errors) == Len(errors) = RpcCount

Marked(health, errors) ==
  LET order == Candidates(health)
      after[n \in 0 .. Len(errors)] ==
        IF n = 0 THEN health
        ELSE MarkFailure(after[n - 1], order[n], errors[n])
  IN after[Len(errors)]

Called(health, errors) ==
  IF AllFail(errors) THEN Marked(health, errors)
  ELSE MarkSuccess(Marked(health, errors),
                   Candidates(health)[Len(errors) + 1])

---------------------------------------------------------------------------
(* poll_sign_result.  The candidates are ranked once.  The fields asked,   *)
(* erred and stuck are auxiliary: the endpoints polled so far, and whether *)
(* one failed and whether one failed with an error that does not rotate.   *)

Polls == [order : [Rpcs -> Rpcs], rpc : 0 .. (RpcCount - 1), sticky : 0 .. 3,
          attempt : 0 .. PollAttempts, asked : SUBSET Rpcs,
          erred : BOOLEAN, stuck : BOOLEAN]

PollStart(health) ==
  [order |-> Candidates(health), rpc |-> 0, sticky |-> Lower(PollAttempts, 3),
   attempt |-> 0, asked |-> {}, erred |-> FALSE, stuck |-> FALSE]

Polled(poll) == poll.order[poll.rpc + 1]
Exhausted(poll) == poll.attempt = PollAttempts

Attempted(poll) ==
  [poll EXCEPT !.attempt = @ + 1, !.asked = @ \cup {Polled(poll)}]

Rotated(poll) ==
  [Attempted(poll) EXCEPT !.rpc = (@ + 1) % RpcCount,
                          !.sticky = Lower(PollAttempts - poll.attempt - 1, 2)]

\* Slip: the endpoint is kept after its burst.
PollPendingSticky(poll) ==
  [Attempted(poll) EXCEPT !.sticky = IF @ = 0 THEN 2 ELSE @ - 1]

\* No result yet: the endpoint is kept for a short burst.
PollPending(poll) ==
  IF poll.sticky > 0 THEN [Attempted(poll) EXCEPT !.sticky = @ - 1]
  ELSE Rotated(poll)

PollError(poll, error) ==
  [(IF error \in Rotating THEN Rotated(poll) ELSE Attempted(poll)) EXCEPT
     !.erred = TRUE, !.stuck = @ \/ error \notin Rotating]
=============================================================================
