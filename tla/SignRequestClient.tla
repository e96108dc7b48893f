------------------------- MODULE SignRequestClient -------------------------
(***************************************************************************)
(* A client of the NEAR subkey contract (frontend-lib/near/                *)
(* subkeyContract.ts) over the contract's own side: it submits a request   *)
(* under an id of its own to one RPC endpoint after the other, polls for   *)
(* the result and has it removed.                                          *)
(*                                                                         *)
(* External: the endpoints, which may fail, leave a submission unanswered  *)
(* whose transaction runs later or never, or be behind; the helper that    *)
(* goes through the endpoints until one answers; and the server that owns  *)
(* the contract, which removes a result when it is asked to.  Whoever uses *)
(* the other ids does so at any time.                                      *)
(***************************************************************************)
EXTENDS SigningPromises, FiniteSets

CONSTANTS
  ClientIds,   \* ids that a client may use, for one request
  Endpoints,   \* how many RPC endpoints there are
  Attempts     \* how often a result is polled for

ASSUME ClientAssumption ==
  /\ ClientIds \subseteq RequestIds
  /\ Endpoints \in Nat \ {0} /\ Attempts \in Nat \ {0}

VARIABLES
  clients,  \* the ids that are used by a client
  step,     \* id -> where its client is
  tries,    \* id -> endpoints that failed to take the request, then polls
  late,     \* id -> unanswered submissions that may still run
  failure,  \* id -> whether a poll has seen a failure
  answer,   \* id -> what the client has in the end
  unanswered, removed    \* auxiliary: id -> submissions without an answer,
                         \* and the calls whose result the removal has
                         \* met, None while there was none

client == <<clients, step, tries, late, failure, answer, unanswered, removed>>
allvars == <<vars, client>>

Steps == {"submit", "poll", "cleanup", "done"}
Answers == {"signature", "error", "nothing"}

ClientTypeOK ==
  /\ clients \subseteq ClientIds
  /\ step \in [ClientIds -> Steps]
  /\ tries \in [ClientIds -> Nat]
  /\ late \in [ClientIds -> 0 .. Endpoints]
  /\ failure \in [ClientIds -> BOOLEAN]
  /\ answer \in [ClientIds -> Answers \cup {None}]
  /\ unanswered \in [ClientIds -> 0 .. Endpoints]
  /\ removed \in [ClientIds -> (SUBSET CallIds) \cup {None}]

\* Bound: with clients, the MPC contract is the same one all the time.
ClientInit ==
  /\ Init
  /\ clients \in SUBSET ClientIds
  /\ clients # {} => mpc_contract_id = CHOOSE mpc \in MpcContracts : TRUE
  /\ step = [id \in ClientIds |-> "submit"]
  /\ tries = [id \in ClientIds |-> 0]
  /\ late = [id \in ClientIds |-> 0]
  /\ failure = [id \in ClientIds |-> FALSE]
  /\ answer = [id \in ClientIds |-> None]
  /\ unanswered = [id \in ClientIds |-> 0]
  /\ removed = [id \in ClientIds |-> None]

CallsOf(id) == {c \in CallIds : Placed(c) /\ calls[c].id = id}
Delivered(id) == {c \in CallsOf(id) : calls[c].delivered}

---------------------------------------------------------------------------
(* request_sign_v2 and request_template_sign_v2.                           *)

Goto(id, next) == step' = [step EXCEPT ![id] = next]

\* On to the next loop, or out of the last one.
Enters(id, next) ==
  /\ Goto(id, next)
  /\ tries' = [tries EXCEPT ![id] = 0]
  /\ failure' = [failure EXCEPT ![id] = FALSE]

Ends(id, result) ==
  /\ Enters(id, "done")
  /\ answer' = [answer EXCEPT ![id] = result]

TriesAgain(id) ==
  /\ tries' = [tries EXCEPT ![id] = @ + 1]
  /\ UNCHANGED <<step, answer>>

\* On to the next endpoint; after the last one the call throws.
NextEndpoint(id) ==
  IF tries[id] + 1 = Endpoints THEN Ends(id, "error")
                               ELSE TriesAgain(id) /\ UNCHANGED failure

\* Slip: the answer of the endpoint is not waited for.
RequestSignV2Unawaited(id) ==
  /\ step[id] = "submit"
  /\ \E request \in Requests : SubmitV2(request, id)
  /\ NextEndpoint(id)
  /\ UNCHANGED <<clients, late, unanswered, removed>>

RequestSignV2(id) ==
  /\ step[id] = "submit"
  /\ \E request \in Requests : SubmitV2(request, id)
  /\ Enters(id, "poll")
  /\ UNCHANGED <<clients, late, answer, unanswered, removed>>

\* An endpoint fails, or the contract refuses the request.
RequestFails(id) ==
  /\ step[id] = "submit"
  /\ NextEndpoint(id)
  /\ UNCHANGED <<vars, clients, late, unanswered, removed>>

\* No answer in time: the same request goes to the next endpoint.
RequestTimesOut(id) ==
  /\ step[id] = "submit"
  /\ late' = [late EXCEPT ![id] = @ + 1]
  /\ unanswered' = [unanswered EXCEPT ![id] = @ + 1]
  /\ NextEndpoint(id)
  /\ UNCHANGED <<vars, clients, removed>>

LateRequest(id) ==
  /\ late[id] > 0
  /\ late' = [late EXCEPT ![id] = @ - 1]
  /\ \/ \E request \in Requests : SubmitV2(request, id)
     \/ UNCHANGED vars
  /\ UNCHANGED <<clients, step, tries, failure, answer, unanswered, removed>>

---------------------------------------------------------------------------
(* pollSignResult, at the endpoint that took the request.                  *)

\* A poll without a final answer; after the last one the client has the
\* failure it has seen, if any.
PollAgain(id, failed) ==
  /\ IF tries[id] + 1 = Attempts
     THEN Ends(id, IF failed THEN "error" ELSE "nothing")
     ELSE TriesAgain(id) /\ failure' = [failure EXCEPT ![id] = failed]
  /\ UNCHANGED <<vars, clients, late, unanswered, removed>>

\* Nothing is stored, a result without a payload is, or the endpoint is
\* behind.
PollPending(id) == step[id] = "poll" /\ PollAgain(id, failure[id])

\* The poll fails, or the MPC contract has failed to sign.
PollError(id) == step[id] = "poll" /\ PollAgain(id, TRUE)

\* Slip: a result without a payload is taken.
PollSignatureOk(id) ==
  /\ step[id] = "poll"
  /\ sign_results[id] \in {"signature", "empty"}
  /\ Enters(id, "cleanup")
  /\ answer' = [answer EXCEPT ![id] = "signature"]
  /\ UNCHANGED <<vars, clients, late, unanswered, removed>>

\* Slip: any stored result is handed out as it is.
PollStored(id) ==
  /\ step[id] = "poll"
  /\ sign_results[id] # None
  /\ Enters(id, "cleanup")
  /\ answer' = [answer EXCEPT ![id] = sign_results[id]]
  /\ UNCHANGED <<vars, clients, late, unanswered, removed>>

PollSignature(id) ==
  /\ step[id] = "poll"
  /\ sign_results[id] = "signature"
  /\ Enters(id, "cleanup")
  /\ answer' = [answer EXCEPT ![id] = "signature"]
  /\ UNCHANGED <<vars, clients, late, unanswered, removed>>

\* Slip: the removal is taken for done before it is asked for.
FinalizeForgotten(id) ==
  /\ step[id] = "cleanup"
  /\ Goto(id, "done")
  /\ removed' = [removed EXCEPT ![id] = Delivered(id)]
  /\ UNCHANGED <<vars, clients, tries, late, failure, answer, unanswered>>

\* The removal is asked for once and may fail.
Finalize(id) ==
  /\ step[id] = "cleanup"
  /\ Goto(id, "done")
  /\ \/ /\ CleanupResults({id})
        /\ removed' = [removed EXCEPT ![id] = Delivered(id)]
     \/ UNCHANGED <<vars, removed>>
  /\ UNCHANGED <<clients, tries, late, failure, answer, unanswered>>

---------------------------------------------------------------------------
(* The specification.                                                      *)

\* What runs on NEAR by itself, and what other clients do.
ContractNext ==
  \/ \E request \in Requests :
       \/ Submit(request)
       \/ \E id \in RequestIds \ clients : SubmitV2(request, id)
  \/ \E c \in CallIds :
       \/ \E outcome \in Outcomes : MpcAnswer(c, outcome)
       \/ OnSignComplete(c)
  \/ \E ids \in SUBSET (RequestIds \ clients) : CleanupResults(ids)
  \/ \E mpc \in MpcContracts : clients = {} /\ SetMpc(mpc)

ClientNext ==
  \/ ContractNext /\ UNCHANGED client
  \/ \E id \in clients :
       \/ RequestSignV2(id) \/ RequestFails(id) \/ RequestTimesOut(id)
       \/ LateRequest(id)
       \/ PollPending(id) \/ PollError(id) \/ PollSignature(id)
       \/ Finalize(id)

ClientSpec == ClientInit /\ [][ClientNext]_allvars /\ Fairness

---------------------------------------------------------------------------
(* Properties.                                                             *)

\* The signature that pollSignResult hands out is one that the MPC contract
\* has given for a call with the client's id, whatever has overwritten or
\* removed the stored result since.
SignatureDelivered ==
  \A id \in clients : answer[id] = "signature" =>
    \E c \in CallsOf(id) : calls[c].delivered /\ calls[c].answer = "signature"

\* One request of a client is placed, and paid for, a second time only when
\* an endpoint has left a submission unanswered: the failover of
\* requestSignV2 resends what has failed and nothing else.
PlacedAgainUnanswered ==
  \A id \in clients : Cardinality(CallsOf(id)) <= 1 + unanswered[id]

\* Once the result of a client is removed, what the contract stores under its
\* id is the answer of a call that came in after the removal, and there are
\* no more of those than submissions without an answer: a client that was
\* answered at once leaves nothing, and one that timed out leaves no result
\* that was there to be removed.
NothingLeftBehind ==
  \A id \in clients : removed[id] # None =>
    LET later == Delivered(id) \ removed[id]
    IN /\ sign_results[id] # None =>
            \E c \in later : calls[c].answer = sign_results[id]
       /\ Cardinality(later) <= unanswered[id]
=============================================================================
