-------------------------- MODULE SigningPromises --------------------------
(***************************************************************************)
(* The asynchronous half of a signing request in the NEAR subkey contract. *)
(* An accepted request places a call on the MPC contract; NEAR runs it in  *)
(* a later block and then, for the v2 requests, the contract's callback    *)
(* on_sign_complete, which stores the outcome under the request id for the *)
(* client to poll.  Between the two any other contract call may run.       *)
(*                                                                         *)
(* The MPC contract is external: every call is answered in the end, with a *)
(* signature, with no bytes or with a failure.                             *)
(***************************************************************************)
EXTENDS Naturals

CONSTANTS
  None,
  Requests,      \* what an accepted request asks to be signed
  RequestIds,    \* the ids that clients choose for v2 requests
  MpcContracts,
  MaxCalls       \* bound on the number of calls placed

CallIds == 1 .. MaxCalls
Outcomes == {"signature", "empty", "failed"}

VARIABLES
  sign_results,     \* request id -> stored outcome or None
  mpc_contract_id,  \* where new calls are placed
  calls             \* call id -> the call placed, or None

vars == <<sign_results, mpc_contract_id, calls>>

\* A call without a request id has no callback.  The field beside is
\* auxiliary: the calls that were in flight when this one was placed.
Calls == [request : Requests, id : RequestIds \cup {None},
          mpc : MpcContracts, answer : Outcomes \cup {None},
          delivered : BOOLEAN, beside : SUBSET CallIds]

ASSUME NoneCallAssumption ==
  /\ None \notin RequestIds \cup Outcomes
  /\ None \notin Calls

ASSUME MaxCallsAssumption == MaxCalls \in Nat

TypeOK ==
  /\ sign_results \in [RequestIds -> Outcomes \cup {None}]
  /\ mpc_contract_id \in MpcContracts
  /\ calls \in [CallIds -> Calls \cup {None}]

Init ==
  /\ sign_results = [id \in RequestIds |-> None]
  /\ mpc_contract_id \in MpcContracts
  /\ calls = [c \in CallIds |-> None]

Placed(c) == calls[c] # None
InFlight(c) == Placed(c) /\ ~calls[c].delivered
NextCall(c) == ~Placed(c) /\ \A d \in CallIds : d < c => Placed(d)

Place(request, id) ==
  \E c \in CallIds :
    /\ NextCall(c)
    /\ calls' = [calls EXCEPT ![c] =
         [request |-> request, id |-> id, mpc |-> mpc_contract_id,
          answer |-> None, delivered |-> FALSE,
          beside |-> {d \in CallIds : InFlight(d)}]]

\* request_sign and request_template_sign: the promise is returned as it is.
Submit(request) ==
  /\ Place(request, None)
  /\ UNCHANGED <<sign_results, mpc_contract_id>>

\* Slip: the id of a stored result is accepted again.
SubmitV2Anyway(request, id) ==
  /\ Place(request, id)
  /\ UNCHANGED <<sign_results, mpc_contract_id>>

\* The v2 requests: refused only while a result is stored under the id.
SubmitV2(request, id) ==
  /\ sign_results[id] = None
  /\ Place(request, id)
  /\ UNCHANGED <<sign_results, mpc_contract_id>>

MpcAnswer(c, outcome) ==
  /\ Placed(c)
  /\ calls[c].answer = None
  /\ calls' = [calls EXCEPT ![c].answer = outcome]
  /\ UNCHANGED <<sign_results, mpc_contract_id>>

Deliver(c, result) ==
  /\ sign_results' = [sign_results EXCEPT ![calls[c].id] = result]
  /\ calls' = [calls EXCEPT ![c].delivered = TRUE]
  /\ UNCHANGED mpc_contract_id

\* Slip: a promise that is not ready is stored instead of a panic.
OnSignCompleteNotReady(c) ==
  /\ InFlight(c)
  /\ calls[c].id # None
  /\ Deliver(c, IF calls[c].answer = None THEN "pending" ELSE calls[c].answer)

\* Slip: a success without bytes is stored as a signature.
OnSignCompleteAnyBytes(c) ==
  /\ InFlight(c)
  /\ calls[c].id # None
  /\ calls[c].answer # None
  /\ Deliver(c, IF calls[c].answer = "empty" THEN "signature"
                ELSE calls[c].answer)

\* Slip: a failed promise leaves nothing to poll.
OnSignCompleteSilent(c) ==
  /\ InFlight(c)
  /\ calls[c].id # None
  /\ calls[c].answer # None
  /\ Deliver(c, IF calls[c].answer = "failed" THEN sign_results[calls[c].id]
                ELSE calls[c].answer)

\* Stores the outcome whatever is stored already.
OnSignComplete(c) ==
  /\ InFlight(c)
  /\ calls[c].id # None
  /\ calls[c].answer # None
  /\ Deliver(c, calls[c].answer)

\* The owner removes stored results; ids without one are skipped.
CleanupResults(ids) ==
  /\ sign_results' = [id \in RequestIds |->
       IF id \in ids THEN None ELSE sign_results[id]]
  /\ UNCHANGED <<mpc_contract_id, calls>>

SetMpc(mpc) ==
  /\ mpc_contract_id' = mpc
  /\ UNCHANGED <<sign_results, calls>>

Next ==
  \/ \E request \in Requests :
       \/ Submit(request)
       \/ \E id \in RequestIds : SubmitV2(request, id)
  \/ \E c \in CallIds :
       \/ \E outcome \in Outcomes : MpcAnswer(c, outcome)
       \/ OnSignComplete(c)
  \/ \E ids \in SUBSET RequestIds : CleanupResults(ids)
  \/ \E mpc \in MpcContracts : SetMpc(mpc)

\* NEAR executes every receipt it has accepted, and the MPC contract's
\* yielded requests time out into a failure.
Fairness ==
  \A c \in CallIds :
    /\ WF_vars(\E outcome \in Outcomes : MpcAnswer(c, outcome))
    /\ WF_vars(OnSignComplete(c))

Spec == Init /\ [][Next]_vars /\ Fairness

---------------------------------------------------------------------------
(* Properties.                                                             *)

\* What a client polls under an id is the outcome of a call placed with
\* that id whose callback has run, and never an answer still under way.
ResultBacked ==
  \A id \in RequestIds : sign_results[id] # None =>
    \E c \in CallIds :
      /\ Placed(c) /\ calls[c].id = id
      /\ calls[c].delivered /\ calls[c].answer = sign_results[id]

Overlap(c, d) == c \in calls[d].beside \/ d \in calls[c].beside

\* A client that has one request of an id in flight at a time polls a stable
\* result: a stored result becomes another one only by the callback of a
\* call that was in flight together with a call that has delivered before.
OverwrittenByOverlap ==
  [][\A id \in RequestIds :
       /\ sign_results[id] # None /\ sign_results'[id] # None
       /\ sign_results'[id] # sign_results[id]
       => \E c, d \in CallIds :
            /\ Placed(c) /\ calls[c].id = id /\ calls[c].delivered
            /\ InFlight(d) /\ calls[d].id = id /\ calls'[d].delivered
            /\ Overlap(c, d)]_vars

\* Every accepted v2 request has a result to poll in the end, whatever is
\* cleaned up or moved to another MPC contract meanwhile.
EventuallyPolled ==
  \A id \in RequestIds :
    (\E c \in CallIds : InFlight(c) /\ calls[c].id = id)
      ~> sign_results[id] # None

\* No id is used for a second request before the first one's callback has
\* written its result.
OneInFlight ==
  \A c, d \in CallIds :
    InFlight(c) /\ InFlight(d) /\ calls[c].id # None
      /\ calls[c].id = calls[d].id => c = d

---------------------------------------------------------------------------
(* Why a result is overwritten by an overlapping call alone.               *)

InFlightOverlap ==
  \A c, d \in CallIds : InFlight(c) /\ InFlight(d) /\ c # d => Overlap(c, d)

ResultOverlap ==
  \A id \in RequestIds : sign_results[id] # None =>
    \E c \in CallIds :
      /\ Placed(c) /\ calls[c].id = id /\ calls[c].delivered
      /\ \A d \in CallIds :
           InFlight(d) /\ calls[d].id = id => Overlap(c, d)
=============================================================================
