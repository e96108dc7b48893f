---------------------- MODULE SignRequestClientProofs ----------------------
(***************************************************************************)
(* Clients of the contract: their steps are steps of the promises, so that *)
(* what is proved of those holds; and for any number of clients, endpoints *)
(* and attempts, a request is placed again only for a submission without   *)
(* an answer, and the signature handed out is one of the client's calls.   *)
(* The argument: nobody else uses the client's id, so that its calls are   *)
(* counted by its own submissions (Counted), and one of them has delivered *)
(* when the result is removed, so that only the others can answer after it *)
(* (Cleaned).                                                              *)
(***************************************************************************)
EXTENDS SignRequestClient, SigningPromisesProofs, FiniteSetTheorems

---------------------------------------------------------------------------
(* Steps of clients are steps of the promises.                             *)

LEMMA StepOfPromises ==
  clients \subseteq ClientIds /\ [ClientNext]_allvars => [Next]_vars
<1> SUFFICES ASSUME clients \subseteq ClientIds, [ClientNext]_allvars
             PROVE  [Next]_vars
  OBVIOUS
<1>1. ASSUME ContractNext
      PROVE  Next
  BY <1>1 DEF ContractNext, Next
<1>2. ASSUME NEW id \in clients, NEW request \in Requests, SubmitV2(request, id)
      PROVE  Next
  BY <1>2, ClientAssumption DEF Next
<1>3. ASSUME NEW id \in clients, RequestSignV2(id) \/ LateRequest(id)
      PROVE  [Next]_vars
  BY <1>2, <1>3 DEF RequestSignV2, LateRequest
<1>4. ASSUME NEW id \in clients,
             RequestFails(id) \/ RequestTimesOut(id) \/ PollPending(id)
               \/ PollError(id) \/ PollSignature(id)
      PROVE  UNCHANGED vars
  BY <1>4 DEF RequestFails, RequestTimesOut, PollPending, PollError,
              PollAgain, PollSignature, vars
<1>5. ASSUME NEW id \in clients, Finalize(id)
      PROVE  [Next]_vars
  <2>1. {id} \in SUBSET RequestIds
    BY ClientAssumption
  <2> QED
    BY <1>5, <2>1 DEF Finalize, Next
<1>6. CASE UNCHANGED allvars
  BY <1>6 DEF allvars
<1> QED
  BY <1>1, <1>3, <1>4, <1>5, <1>6 DEF ClientNext

LEMMA ClientsFixed == [ClientNext]_allvars => UNCHANGED clients
  BY DEF ClientNext, RequestFails, RequestTimesOut, RequestSignV2, LateRequest,
         PollPending, PollError, PollAgain, PollSignature, Finalize, client,
         allvars

\* A behaviour with clients is one of the promises, apart from fairness.
THEOREM ClientsOfPromises == ClientSpec => Init /\ [][Next]_vars
<1> DEFINE Those == clients \subseteq ClientIds
<1>1. ClientInit => Init /\ Those
  BY DEF ClientInit
<1>2. Those /\ [ClientNext]_allvars => Those'
  BY ClientsFixed
<1>3. Those /\ [ClientNext]_allvars => [Next]_vars
  BY StepOfPromises
<1> QED
  BY <1>1, <1>2, <1>3, PTL DEF ClientSpec

---------------------------------------------------------------------------
(* The invariant.                                                          *)

Shapes ==
  /\ clients \subseteq ClientIds
  /\ step \in [ClientIds -> Steps] /\ tries \in [ClientIds -> Nat]
  /\ late \in [ClientIds -> Nat] /\ unanswered \in [ClientIds -> Nat]
  /\ failure \in [ClientIds -> BOOLEAN]
  /\ removed \in [ClientIds -> (SUBSET CallIds) \cup {None}]
  /\ answer \in [ClientIds -> Answers \cup {None}]

Bounded(id) ==
  /\ late[id] <= unanswered[id] /\ unanswered[id] <= Endpoints
  /\ step[id] = "submit" => unanswered[id] <= tries[id] /\ tries[id] < Endpoints

\* Each call is the answered submission or one of the unanswered ones.
Counted(id) ==
  /\ Cardinality(CallsOf(id)) + late[id] <= 1 + unanswered[id]
  /\ step[id] = "submit" => Cardinality(CallsOf(id)) + late[id] <= unanswered[id]

Signed(id) ==
  \E c \in CallsOf(id) : calls[c].delivered /\ calls[c].answer = "signature"

Served(id) ==
  /\ step[id] = "cleanup" => answer[id] = "signature"
  /\ answer[id] = "signature" => step[id] \in {"cleanup", "done"} /\ Signed(id)

\* What was delivered when the result was removed, and what came after it.
Cleaned(id) ==
  removed[id] # None =>
    /\ removed[id] \subseteq Delivered(id) /\ removed[id] # {}
    /\ sign_results[id] # None =>
         \E c \in Delivered(id) \ removed[id] : calls[c].answer = sign_results[id]

ClientOK(id) == Bounded(id) /\ Counted(id) /\ Served(id) /\ Cleaned(id)

\* An id that no client uses has no submissions.
Unused == \A id \in ClientIds \ clients : late[id] = 0 /\ unanswered[id] = 0

ClientInv ==
  /\ Inv /\ Shapes /\ Unused
  /\ \A id \in ClientIds : id \in clients => ClientOK(id)

LEMMA CallsFinite ==
  ASSUME NEW id
  PROVE  IsFiniteSet(CallsOf(id)) /\ Cardinality(CallsOf(id)) \in Nat
<1>1. IsFiniteSet(CallIds)
  BY FS_Interval, MaxCallsAssumption DEF CallIds
<1>2. CallsOf(id) \in SUBSET CallIds
  BY DEF CallsOf
<1> QED
  BY <1>1, <1>2, FS_Subset, FS_CardinalityType

---------------------------------------------------------------------------
(* What a step of the contract does to the calls of an id.                 *)

\* A call keeps its id and, once delivered, its answer.
LEMMA CallsKept ==
  ASSUME Inv, [Next]_vars, NEW c \in CallIds, Placed(c)
  PROVE  /\ Placed(c)' /\ calls'[c].id = calls[c].id
         /\ calls[c].delivered => calls'[c].delivered
         /\ calls[c].answer # None => calls'[c].answer = calls[c].answer
<1>1. calls \in [CallIds -> Calls \cup {None}] /\ calls[c] \in Calls
  BY DEF Inv, TypeOK, Placed
<1>2. ASSUME NEW request, NEW id, Place(request, id)
      PROVE  calls'[c] = calls[c]
  BY <1>1, <1>2 DEF Place, NextCall
<1>3. ASSUME NEW d \in CallIds, NEW outcome \in Outcomes, MpcAnswer(d, outcome)
      PROVE  /\ calls'[c] \in Calls /\ calls'[c].id = calls[c].id
             /\ calls'[c].delivered = calls[c].delivered
             /\ calls[c].answer # None => calls'[c].answer = calls[c].answer
  BY <1>1, <1>3 DEF MpcAnswer, Calls
<1>4. ASSUME NEW d \in CallIds, OnSignComplete(d)
      PROVE  /\ calls'[c] \in Calls /\ calls'[c].id = calls[c].id
             /\ calls[c].delivered => calls'[c].delivered
             /\ calls'[c].answer = calls[c].answer
  BY <1>1, <1>4 DEF OnSignComplete, Deliver, Calls
<1>5. CASE \/ \E ids \in SUBSET RequestIds : CleanupResults(ids)
           \/ \E mpc \in MpcContracts : SetMpc(mpc)
           \/ UNCHANGED vars
  BY <1>5 DEF CleanupResults, SetMpc, vars, Placed
<1>6. CASE \E request \in Requests :
             Submit(request) \/ \E id \in RequestIds : SubmitV2(request, id)
  BY <1>2, <1>6 DEF Submit, SubmitV2, Placed
<1>7. CASE \E d \in CallIds :
             (\E outcome \in Outcomes : MpcAnswer(d, outcome)) \/ OnSignComplete(d)
  BY <1>3, <1>4, <1>7, NoneCallAssumption DEF Placed
<1> QED
  BY <1>5, <1>6, <1>7 DEF Next

\* Placing a call adds one, with the id that it is placed with.
LEMMA CallAdded ==
  ASSUME Inv, NEW request \in Requests, NEW i \in RequestIds \cup {None},
         Place(request, i), NEW id \in RequestIds
  PROVE  \E c \in CallIds :
           /\ c \notin CallsOf(id)
           /\ CallsOf(id)' = IF i = id THEN CallsOf(id) \cup {c} ELSE CallsOf(id)
<1> DEFINE new == [request |-> request, id |-> i, mpc |-> mpc_contract_id,
                   answer |-> None, delivered |-> FALSE,
                   beside |-> {d \in CallIds : InFlight(d)}]
<1>1. PICK c \in CallIds : NextCall(c) /\ calls' = [calls EXCEPT ![c] = new]
  BY DEF Place
<1>2. calls \in [CallIds -> Calls \cup {None}] /\ calls[c] = None
  BY <1>1 DEF Inv, TypeOK, NextCall, Placed
<1>3. \A d \in CallIds : calls'[d] = IF d = c THEN new ELSE calls[d]
  BY <1>1, <1>2
<1>4. new \in Calls
  <2>1. /\ mpc_contract_id \in MpcContracts /\ FALSE \in BOOLEAN
        /\ {d \in CallIds : InFlight(d)} \in SUBSET CallIds
    BY DEF Inv, TypeOK
  <2> QED
    BY <2>1 DEF Calls
<1>5. new # None /\ new.id = i
  BY <1>4, NoneCallAssumption
<1> HIDE DEF new
<1> QED
  BY <1>2, <1>3, <1>5 DEF CallsOf, Placed

LEMMA CallOfClient ==
  ASSUME Inv, NEW id \in RequestIds, NEW request \in Requests,
         SubmitV2(request, id)
  PROVE  \E c \in CallIds :
           c \notin CallsOf(id) /\ CallsOf(id)' = CallsOf(id) \cup {c}
  BY CallAdded DEF SubmitV2

\* Steps that place no call with an id.
Elsewhere(id) ==
  \/ \E request \in Requests :
       Submit(request) \/ \E i \in RequestIds \ {id} : SubmitV2(request, i)
  \/ \E c \in CallIds :
       (\E outcome \in Outcomes : MpcAnswer(c, outcome)) \/ OnSignComplete(c)
  \/ \E ids \in SUBSET RequestIds : CleanupResults(ids)
  \/ \E mpc \in MpcContracts : SetMpc(mpc)
  \/ UNCHANGED vars

LEMMA ElsewhereNext ==
  ASSUME NEW id, Elsewhere(id) PROVE [Next]_vars
  BY DEF Elsewhere, Next

\* They change none of its calls' ids.
LEMMA SameCalls ==
  ASSUME Inv, NEW id \in RequestIds, Elsewhere(id)
  PROVE  CallsOf(id)' = CallsOf(id)
<1>1. ASSUME NEW request \in Requests,
             NEW i \in RequestIds \cup {None}, i # id, Place(request, i)
      PROVE  CallsOf(id)' = CallsOf(id)
  BY <1>1, CallAdded
<1>2. CASE \E request \in Requests :
             Submit(request) \/ \E i \in RequestIds \ {id} : SubmitV2(request, i)
  BY <1>1, <1>2, NoneCallAssumption DEF Submit, SubmitV2
<1>3. CASE \/ \E ids \in SUBSET RequestIds : CleanupResults(ids)
           \/ \E mpc \in MpcContracts : SetMpc(mpc)
           \/ UNCHANGED vars
  BY <1>3 DEF CleanupResults, SetMpc, vars, CallsOf, Placed
<1>4. ASSUME NEW d \in CallIds,
             (\E outcome \in Outcomes : MpcAnswer(d, outcome)) \/ OnSignComplete(d)
      PROVE  CallsOf(id)' = CallsOf(id)
  <2>1. calls \in [CallIds -> Calls \cup {None}]
    BY DEF Inv, TypeOK
  <2>2. \A c \in CallIds : c # d => calls'[c] = calls[c]
    BY <1>4, <2>1 DEF MpcAnswer, OnSignComplete, Deliver
  <2>3. Placed(d)
    BY <1>4 DEF MpcAnswer, OnSignComplete, InFlight
  <2>4. Placed(d)' /\ calls'[d].id = calls[d].id
    BY <1>4, <2>3, CallsKept DEF Next
  <2> QED
    BY <2>2, <2>3, <2>4 DEF CallsOf, Placed
<1> QED
  BY <1>2, <1>3, <1>4 DEF Elsewhere

\* A result is stored only by the callback of a call in flight.
LEMMA ResultWritten ==
  ASSUME Inv, [Next]_vars, NEW id \in RequestIds,
         sign_results'[id] # sign_results[id], sign_results'[id] # None
  PROVE  \E c \in CallsOf(id) :
           /\ ~calls[c].delivered
           /\ calls'[c].delivered /\ calls'[c].answer = sign_results'[id]
<1>1. PICK c \in CallIds : OnSignComplete(c)
  BY DEF Next, Submit, SubmitV2, MpcAnswer, CleanupResults, SetMpc, vars
<1>2. calls[c].id = id /\ InFlight(c) /\ calls[c] \in Calls
  BY <1>1 DEF OnSignComplete, Deliver, Inv, TypeOK, InFlight, Placed
<1>3. calls'[c].delivered /\ calls'[c].answer = sign_results'[id]
  BY <1>1, <1>2 DEF OnSignComplete, Deliver, Inv, TypeOK, Calls
<1> QED
  BY <1>2, <1>3 DEF CallsOf, InFlight

\* What has delivered stays delivered, with its answer.
LEMMA DeliveredKept ==
  ASSUME Inv, [Next]_vars, NEW id \in RequestIds, NEW c \in Delivered(id)
  PROVE  /\ c \in Delivered(id)'
         /\ calls[c].answer # None => calls'[c].answer = calls[c].answer
  BY CallsKept DEF Delivered, CallsOf

---------------------------------------------------------------------------
(* The steps.                                                              *)

Idle(id) ==
  /\ step'[id] = step[id] /\ tries'[id] = tries[id] /\ late'[id] = late[id]
  /\ answer'[id] = answer[id] /\ unanswered'[id] = unanswered[id]
  /\ removed'[id] = removed[id]

LEMMA SignedKept ==
  ASSUME Inv, [Next]_vars, NEW id \in RequestIds, Signed(id)
  PROVE  Signed(id)'
<1>1. PICK c \in CallsOf(id) : calls[c].delivered /\ calls[c].answer = "signature"
  BY DEF Signed
<1>2. c \in Delivered(id) /\ calls[c].answer # None
  BY <1>1, NoneCallAssumption DEF Outcomes, Delivered
<1> QED
  BY <1>1, <1>2, DeliveredKept DEF Signed, Delivered

\* What is stored after the removal is stored by a call that came later.
LEMMA CleanedKept ==
  ASSUME Inv, [Next]_vars, NEW id \in RequestIds, Cleaned(id),
         removed'[id] = removed[id]
  PROVE  Cleaned(id)'
<1> SUFFICES ASSUME removed[id] # None
             PROVE  /\ removed[id] \subseteq Delivered(id)'
                    /\ removed[id] # {}
                    /\ sign_results'[id] # None =>
                         \E c \in Delivered(id)' \ removed[id] :
                           calls'[c].answer = sign_results'[id]
  BY DEF Cleaned
<1>1. removed[id] \subseteq Delivered(id)' /\ removed[id] # {}
  BY DeliveredKept DEF Cleaned
<1>2. ASSUME sign_results'[id] # None, sign_results'[id] = sign_results[id]
      PROVE  \E c \in Delivered(id)' \ removed[id] :
               calls'[c].answer = sign_results'[id]
  BY <1>2, DeliveredKept DEF Cleaned
<1>3. ASSUME sign_results'[id] # None, sign_results'[id] # sign_results[id]
      PROVE  \E c \in Delivered(id)' \ removed[id] :
               calls'[c].answer = sign_results'[id]
  <2>1. PICK c \in CallsOf(id) :
          /\ ~calls[c].delivered
          /\ calls'[c].delivered /\ calls'[c].answer = sign_results'[id]
    BY <1>3, ResultWritten
  <2>2. c \in CallsOf(id)'
    BY CallsKept DEF CallsOf
  <2>3. c \notin removed[id]
    BY <2>1 DEF Cleaned, Delivered
  <2> QED
    BY <2>1, <2>2, <2>3 DEF Delivered
<1> QED
  BY <1>1, <1>2, <1>3

LEMMA IdleKept ==
  ASSUME Inv, NEW id \in RequestIds, ClientOK(id), Idle(id), Elsewhere(id)
  PROVE  ClientOK(id)'
<1>1. CallsOf(id)' = CallsOf(id) /\ [Next]_vars
  BY SameCalls, ElsewhereNext
<1>2. Served(id)'
  BY <1>1, SignedKept DEF Idle, ClientOK, Served
<1>3. Cleaned(id)'
  BY <1>1, CleanedKept DEF Idle, ClientOK
<1> QED
  BY <1>1, <1>2, <1>3 DEF Idle, ClientOK, Bounded, Counted

\* A submission that is run adds one call, which is counted as the answered
\* one or as one that was late.
LEMMA PlacedKept ==
  ASSUME Inv, NEW id \in RequestIds, NEW request \in Requests,
         SubmitV2(request, id), ClientOK(id),
         late[id] \in Nat, late'[id] \in Nat, unanswered[id] \in Nat,
         UNCHANGED <<answer, unanswered, removed>>,
         \/ /\ step[id] = "submit" /\ step'[id] = "poll" /\ late'[id] = late[id]
         \/ /\ step'[id] = step[id] /\ tries'[id] = tries[id]
            /\ late[id] > 0 /\ late'[id] = late[id] - 1
  PROVE  ClientOK(id)'
<1>1. PICK c \in CallIds :
        c \notin CallsOf(id) /\ CallsOf(id)' = CallsOf(id) \cup {c}
  BY CallOfClient
<1>2. /\ Cardinality(CallsOf(id)') = Cardinality(CallsOf(id)) + 1
      /\ Cardinality(CallsOf(id)) \in Nat
  BY <1>1, CallsFinite, FS_AddElement
<1>3. [Next]_vars
  BY DEF Next
<1>4. Bounded(id)'
  BY DEF ClientOK, Bounded
<1>5. Counted(id)'
  BY <1>2 DEF ClientOK, Counted
<1>6. Served(id)'
  BY <1>3, SignedKept DEF ClientOK, Served
<1>7. Cleaned(id)'
  BY <1>3, CleanedKept DEF ClientOK
<1> QED
  BY <1>4, <1>5, <1>6, <1>7 DEF ClientOK

\* A client that gets no further: it tries again, or ends without a
\* signature.
LEMMA WaitingKept ==
  ASSUME UNCHANGED vars, NEW id \in RequestIds, ClientOK(id),
         step[id] \in {"submit", "poll"}, step'[id] \in {step[id], "done"},
         step'[id] = "submit" => tries'[id] = tries[id] + 1 /\ tries'[id] < Endpoints,
         answer'[id] \in {answer[id], "error", "nothing"},
         removed'[id] = removed[id],
         \/ late'[id] = late[id] /\ unanswered'[id] = unanswered[id]
         \/ /\ late'[id] = late[id] + 1 /\ unanswered'[id] = unanswered[id] + 1
            /\ step[id] = "submit",
         tries[id] \in Nat, late[id] \in Nat, unanswered[id] \in Nat
  PROVE  ClientOK(id)'
<1>1. CallsOf(id)' = CallsOf(id)
  BY DEF CallsOf, Placed, vars
<1>2. answer[id] # "signature"
  BY DEF ClientOK, Served
<1>3. Served(id)'
  BY <1>2 DEF Served
<1>4. Bounded(id)'
  BY ClientAssumption DEF ClientOK, Bounded
<1>5. Counted(id)'
  BY <1>1, CallsFinite DEF ClientOK, Counted
<1>6. Cleaned(id)'
  BY <1>1 DEF ClientOK, Cleaned, Delivered, vars
<1> QED
  BY <1>3, <1>4, <1>5, <1>6 DEF ClientOK

\* Each action of a client leaves it in order, and the others where they are.
LEMMA OwnStep ==
  ASSUME ClientInv, NEW id \in clients,
         \/ RequestSignV2(id) \/ RequestFails(id) \/ RequestTimesOut(id)
         \/ LateRequest(id)
         \/ PollPending(id) \/ PollError(id) \/ PollSignature(id)
         \/ Finalize(id)
  PROVE  ClientOK(id)'
<1>1. /\ id \in ClientIds /\ id \in RequestIds /\ ClientOK(id) /\ Inv /\ Shapes
      /\ tries[id] \in Nat /\ late[id] \in Nat /\ unanswered[id] \in Nat
  BY ClientAssumption DEF ClientInv, Shapes
<1>2. CASE RequestSignV2(id)
  <2>1. PICK request \in Requests : SubmitV2(request, id)
    BY <1>2 DEF RequestSignV2
  <2>2. /\ step[id] = "submit" /\ step'[id] = "poll"
        /\ UNCHANGED <<late, answer, unanswered, removed>>
    BY <1>1, <1>2 DEF RequestSignV2, Enters, Goto, Shapes
  <2> QED
    BY <1>1, <2>1, <2>2, PlacedKept
<1>3. CASE LateRequest(id)
  <2>1. /\ late[id] > 0 /\ late'[id] = late[id] - 1 /\ late'[id] \in Nat
        /\ UNCHANGED <<step, tries, answer, unanswered, removed>>
    BY <1>1, <1>3 DEF LateRequest, Shapes
  <2>2. CASE UNCHANGED vars
    <3>1. CallsOf(id)' = CallsOf(id) /\ sign_results' = sign_results /\ calls' = calls
      BY <2>2 DEF CallsOf, Placed, vars
    <3>2. Bounded(id)' /\ Counted(id)'
      BY <1>1, <2>1, <3>1, CallsFinite DEF ClientOK, Bounded, Counted
    <3>3. Served(id)' /\ Cleaned(id)'
      BY <1>1, <2>1, <3>1 DEF ClientOK, Served, Signed, Cleaned, Delivered
    <3> QED
      BY <3>2, <3>3 DEF ClientOK
  <2>3. ASSUME NEW request \in Requests, SubmitV2(request, id)
        PROVE  ClientOK(id)'
    BY <1>1, <2>1, <2>3, PlacedKept
  <2> QED
    BY <1>3, <2>2, <2>3 DEF LateRequest
<1>4. ASSUME NextEndpoint(id), step[id] = "submit"
      PROVE  /\ step'[id] \in {step[id], "done"}
             /\ step'[id] = "submit" =>
                  tries'[id] = tries[id] + 1 /\ tries'[id] < Endpoints
             /\ answer'[id] \in {answer[id], "error", "nothing"}
  BY <1>1, <1>4, ClientAssumption
     DEF NextEndpoint, Ends, Enters, Goto, TriesAgain, Shapes, ClientOK, Bounded
<1>5. CASE RequestFails(id)
  BY <1>1, <1>4, <1>5, WaitingKept DEF RequestFails
<1>6. CASE RequestTimesOut(id)
  <2>1. late'[id] = late[id] + 1 /\ unanswered'[id] = unanswered[id] + 1
    BY <1>1, <1>6 DEF RequestTimesOut, Shapes
  <2> QED
    BY <1>1, <1>4, <1>6, <2>1, WaitingKept DEF RequestTimesOut
<1>7. CASE PollPending(id) \/ PollError(id)
  <2>1. PICK failed : PollAgain(id, failed)
    BY <1>7 DEF PollPending, PollError
  <2>2. /\ step[id] = "poll" /\ step'[id] \in {step[id], "done"}
        /\ answer'[id] \in {answer[id], "error", "nothing"}
    BY <1>1, <1>7, <2>1
       DEF PollPending, PollError, PollAgain, Ends, Enters, Goto, TriesAgain, Shapes
  <2>3. /\ UNCHANGED vars /\ late'[id] = late[id] /\ unanswered'[id] = unanswered[id]
        /\ removed'[id] = removed[id]
    BY <2>1 DEF PollAgain
  <2> QED
    BY <1>1, <2>2, <2>3, WaitingKept
<1>8. CASE PollSignature(id)
  <2>1. /\ step'[id] = "cleanup" /\ answer'[id] = "signature"
        /\ UNCHANGED <<late, unanswered, removed>> /\ step[id] = "poll"
        /\ sign_results[id] = "signature"
        /\ CallsOf(id)' = CallsOf(id) /\ UNCHANGED <<calls, sign_results>>
    BY <1>1, <1>8 DEF PollSignature, Enters, Goto, Shapes, CallsOf, Placed, vars
  <2>2. Signed(id)
    BY <1>1, <2>1, NoneCallAssumption DEF Inv, ResultBacked, CallsOf, Outcomes, Signed
  <2>3. Served(id)'
    BY <2>1, <2>2 DEF Served, Signed
  <2>4. Cleaned(id)'
    BY <1>1, <2>1 DEF ClientOK, Cleaned, Delivered
  <2> QED
    BY <1>1, <2>1, <2>3, <2>4 DEF ClientOK, Bounded, Counted
<1>9. CASE Finalize(id)
  <2>1. /\ step[id] = "cleanup" /\ step'[id] = "done"
        /\ UNCHANGED <<tries, late, answer, unanswered>>
    BY <1>1, <1>9 DEF Finalize, Goto, Shapes
  <2>2. Elsewhere(id)
    BY <1>1, <1>9 DEF Finalize, Elsewhere
  <2>3. CallsOf(id)' = CallsOf(id) /\ [Next]_vars
    BY <1>1, <2>2, SameCalls, ElsewhereNext
  <2>4. Served(id)'
    BY <1>1, <2>1, <2>3, SignedKept DEF ClientOK, Served
  <2>5. ASSUME UNCHANGED removed
        PROVE  Cleaned(id)'
    BY <1>1, <2>3, <2>5, CleanedKept DEF ClientOK
  <2>6. ASSUME CleanupResults({id}),
               removed' = [removed EXCEPT ![id] = Delivered(id)]
        PROVE  Cleaned(id)'
    <3>1. sign_results'[id] = None /\ removed'[id] = Delivered(id)
      BY <1>1, <2>6 DEF CleanupResults, Shapes
    <3>2. Delivered(id) # {}
      BY <1>1, <2>1 DEF ClientOK, Served, Signed, Delivered
    <3>3. Delivered(id) \subseteq Delivered(id)'
      BY <1>1, <2>3, DeliveredKept
    <3> QED
      BY <3>1, <3>2, <3>3 DEF Cleaned
  <2>7. Cleaned(id)'
    BY <1>9, <2>5, <2>6 DEF Finalize
  <2> QED
    BY <1>1, <2>1, <2>3, <2>4, <2>7 DEF ClientOK, Bounded, Counted
<1> QED
  BY <1>2, <1>3, <1>5, <1>6, <1>7, <1>8, <1>9

\* The client id of a step, among all the actions of clients.
OwnAction(id) ==
  \/ RequestSignV2(id) \/ RequestFails(id) \/ RequestTimesOut(id)
  \/ LateRequest(id)
  \/ PollPending(id) \/ PollError(id) \/ PollSignature(id)
  \/ Finalize(id)

\* A step of one client does not touch another one.
LEMMA OtherStep ==
  ASSUME ClientInv, NEW id \in clients, OwnAction(id),
         NEW j \in ClientIds, j # id
  PROVE  Idle(j) /\ Elsewhere(j)
<1>1. id \in RequestIds /\ j \in RequestIds /\ id \in RequestIds \ {j} /\ Shapes
  BY ClientAssumption DEF ClientInv, Shapes
<1>2. CASE RequestSignV2(id)
  <2>1. Idle(j)
    BY <1>1, <1>2 DEF RequestSignV2, Enters, Goto, Idle, Shapes
  <2>2. Elsewhere(j)
    BY <1>1, <1>2 DEF RequestSignV2, Elsewhere
  <2> QED
    BY <2>1, <2>2
<1>3. CASE LateRequest(id)
  <2>1. Idle(j)
    BY <1>1, <1>3 DEF LateRequest, Idle, Shapes
  <2>2. Elsewhere(j)
    BY <1>1, <1>3 DEF LateRequest, Elsewhere
  <2> QED
    BY <2>1, <2>2
<1>4. CASE RequestFails(id) \/ RequestTimesOut(id)
  <2>1. Idle(j)
    BY <1>1, <1>4 DEF RequestFails, RequestTimesOut, NextEndpoint, Ends, Enters,
                      Goto, TriesAgain, Idle, Shapes
  <2>2. Elsewhere(j)
    BY <1>4 DEF RequestFails, RequestTimesOut, Elsewhere, vars
  <2> QED
    BY <2>1, <2>2
<1>5. CASE PollPending(id) \/ PollError(id)
  <2>1. Idle(j)
    BY <1>1, <1>5 DEF PollPending, PollError, PollAgain, Ends, Enters, Goto,
                      TriesAgain, Idle, Shapes
  <2>2. Elsewhere(j)
    BY <1>5 DEF PollPending, PollError, PollAgain, Elsewhere, vars
  <2> QED
    BY <2>1, <2>2
<1>6. CASE PollSignature(id)
  <2>1. Idle(j)
    BY <1>1, <1>6 DEF PollSignature, Enters, Goto, Idle, Shapes
  <2>2. Elsewhere(j)
    BY <1>6 DEF PollSignature, Elsewhere, vars
  <2> QED
    BY <2>1, <2>2
<1>7. CASE Finalize(id)
  <2>1. Idle(j)
    BY <1>1, <1>7 DEF Finalize, Goto, Idle, Shapes
  <2>2. Elsewhere(j)
    BY <1>1, <1>7 DEF Finalize, Elsewhere
  <2> QED
    BY <2>1, <2>2
<1> QED
  BY <1>2, <1>3, <1>4, <1>5, <1>6, <1>7 DEF OwnAction

\* Steps of the contract leave the clients where they are.
LEMMA ContractStep ==
  ASSUME ContractNext, UNCHANGED client, NEW j \in clients
  PROVE  Idle(j) /\ Elsewhere(j)
<1>1. Idle(j)
  BY DEF client, Idle
<1>2. Elsewhere(j)
  BY DEF ContractNext, Elsewhere
<1> QED
  BY <1>1, <1>2

LEMMA ShapesStep ==
  ASSUME Shapes, NEW id \in clients, OwnAction(id)
  PROVE  Shapes'
<1>1. id \in ClientIds /\ Steps = {"submit", "poll", "cleanup", "done"}
      /\ Answers = {"signature", "error", "nothing"}
  BY DEF Shapes, Steps, Answers
<1>2. CASE RequestSignV2(id)
  BY <1>1, <1>2 DEF RequestSignV2, Enters, Goto, Shapes
<1>3. CASE LateRequest(id)
  <2>1. late[id] - 1 \in Nat
    BY <1>1, <1>3 DEF LateRequest, Shapes
  <2> QED
    BY <1>1, <1>3, <2>1 DEF LateRequest, Shapes
<1>4. ASSUME NextEndpoint(id)
      PROVE  /\ step' \in [ClientIds -> Steps] /\ tries' \in [ClientIds -> Nat]
             /\ failure' \in [ClientIds -> BOOLEAN]
             /\ answer' \in [ClientIds -> Answers \cup {None}]
  <2>1. CASE Ends(id, "error")
    BY <1>1, <2>1 DEF Ends, Enters, Goto, Shapes
  <2>2. CASE TriesAgain(id) /\ UNCHANGED failure
    BY <1>1, <2>2 DEF TriesAgain, Shapes
  <2> QED
    BY <1>4, <2>1, <2>2 DEF NextEndpoint
<1>5. CASE RequestFails(id)
  BY <1>4, <1>5 DEF RequestFails, Shapes
<1>6. CASE RequestTimesOut(id)
  BY <1>4, <1>6 DEF RequestTimesOut, Shapes
<1>7. ASSUME NEW failed \in BOOLEAN, PollAgain(id, failed)
      PROVE  Shapes'
  <2>1. ASSUME NEW result \in Answers, Ends(id, result)
        PROVE  Shapes'
    BY <1>1, <1>7, <2>1 DEF PollAgain, Ends, Enters, Goto, Shapes
  <2>2. CASE TriesAgain(id) /\ failure' = [failure EXCEPT ![id] = failed]
    BY <1>1, <1>7, <2>2 DEF PollAgain, TriesAgain, Shapes
  <2> QED
    BY <1>1, <1>7, <2>1, <2>2 DEF PollAgain
<1>8. CASE PollPending(id) \/ PollError(id)
  BY <1>1, <1>7, <1>8 DEF PollPending, PollError, Shapes
<1>9. CASE PollSignature(id)
  BY <1>1, <1>9 DEF PollSignature, Enters, Goto, Shapes
<1>10. CASE Finalize(id)
  <2>1. Delivered(id) \in SUBSET CallIds
    BY DEF Delivered, CallsOf
  <2> QED
    BY <1>1, <1>10, <2>1 DEF Finalize, Goto, Shapes
<1> QED
  BY <1>2, <1>3, <1>5, <1>6, <1>8, <1>9, <1>10 DEF OwnAction

---------------------------------------------------------------------------
(* The specification keeps the invariant.                                  *)

LEMMA ClientInitInv == ClientInit => ClientInv
<1> SUFFICES ASSUME ClientInit PROVE ClientInv
  OBVIOUS
<1>1. Inv /\ Shapes
  BY InitInv DEF ClientInit, Shapes, Steps
<1>2. ASSUME NEW id \in ClientIds
      PROVE  ClientOK(id)
  <2>1. CallsOf(id) = {} /\ Cardinality(CallsOf(id)) = 0
    BY FS_EmptySet DEF ClientInit, Init, CallsOf, Placed
  <2>2. /\ step[id] = "submit" /\ tries[id] = 0 /\ late[id] = 0
        /\ unanswered[id] = 0 /\ answer[id] # "signature"
    BY <1>2, NoneCallAssumption DEF ClientInit, Outcomes
  <2>3. Bounded(id)
    BY <2>2, ClientAssumption DEF Bounded
  <2>4. Counted(id)
    BY <2>1, <2>2 DEF Counted
  <2>5. Served(id)
    BY <2>2 DEF Served
  <2>6. Cleaned(id)
    BY <1>2 DEF Cleaned, ClientInit
  <2> QED
    BY <2>3, <2>4, <2>5, <2>6 DEF ClientOK
<1> QED
  BY <1>1, <1>2 DEF ClientInv, ClientInit, Unused

LEMMA ClientNextInv == ClientInv /\ [ClientNext]_allvars => ClientInv'
<1> SUFFICES ASSUME ClientInv, [ClientNext]_allvars PROVE ClientInv'
  OBVIOUS
<1>1. Inv'
  BY StepOfPromises, NextInv DEF ClientInv, Shapes
<1>2. clients' = clients /\ clients \subseteq ClientIds
  BY ClientsFixed DEF ClientInv, Shapes
<1>3. ASSUME NEW j \in clients, Idle(j), Elsewhere(j)
      PROVE  ClientOK(j)'
  BY <1>2, <1>3, IdleKept, ClientAssumption DEF ClientInv
<1>4. CASE ContractNext /\ UNCHANGED client
  <2>1. Shapes'
    BY <1>4 DEF client, ClientInv, Shapes
  <2>2. Unused'
    BY <1>4 DEF client, ClientInv, Unused
  <2>3. \A j \in clients : ClientOK(j)'
    BY <1>3, <1>4, ContractStep
  <2> QED
    BY <1>1, <1>2, <2>1, <2>2, <2>3 DEF ClientInv
<1>5. ASSUME NEW id \in clients, OwnAction(id)
      PROVE  ClientInv'
  <2>1. Shapes'
    BY <1>5, ShapesStep DEF ClientInv
  <2>2. ClientOK(id)'
    BY <1>5, OwnStep DEF OwnAction
  <2>3. \A j \in clients : j # id => ClientOK(j)'
    BY <1>2, <1>3, <1>5, OtherStep
  <2>4. Unused'
    BY <1>2, <1>5, OtherStep DEF ClientInv, Unused, Idle
  <2> QED
    BY <1>1, <1>2, <2>1, <2>2, <2>3, <2>4 DEF ClientInv
<1>6. CASE UNCHANGED allvars
  <2>1. Shapes'
    BY <1>6 DEF allvars, client, ClientInv, Shapes
  <2>2. \A j \in clients : Idle(j) /\ Elsewhere(j)
    BY <1>6 DEF allvars, client, Idle, Elsewhere
  <2>3. Unused'
    BY <1>6 DEF allvars, client, ClientInv, Unused
  <2> QED
    BY <1>1, <1>2, <1>3, <2>1, <2>2, <2>3 DEF ClientInv
<1> QED
  BY <1>4, <1>5, <1>6 DEF ClientNext, OwnAction

\* ClientInv: what the clients hold stays backed by the contract's promises.
THEOREM ClientInvariance == ClientSpec => []ClientInv
<1> QED
  BY ClientInitInv, ClientNextInv, PTL DEF ClientSpec

\* ClientTypeOK: the clients' variables keep their types, and no more
\* submissions are unanswered than there are endpoints.
THEOREM ClientTypesCorrect == ClientSpec => []ClientTypeOK
<1>1. ASSUME ClientInv, NEW id \in ClientIds
      PROVE  late[id] \in 0 .. Endpoints /\ unanswered[id] \in 0 .. Endpoints
  <2>1. late[id] \in Nat /\ unanswered[id] \in Nat /\ Endpoints \in Nat \ {0}
    BY <1>1, ClientAssumption DEF ClientInv, Shapes
  <2>2. CASE id \in clients
    BY <1>1, <2>1, <2>2 DEF ClientInv, ClientOK, Bounded
  <2>3. CASE id \notin clients
    BY <1>1, <2>1, <2>3 DEF ClientInv, Unused
  <2> QED
    BY <2>2, <2>3
<1>2. ClientInv => ClientTypeOK
  BY <1>1 DEF ClientInv, Shapes, ClientTypeOK
<1> QED
  BY <1>2, ClientInvariance, PTL

\* SignatureDelivered: what pollSignResult hands out as a signature is the
\* answer of a call with the client's id.
THEOREM DeliveredSignatures == ClientSpec => []SignatureDelivered
<1>1. ClientInv => SignatureDelivered
  BY DEF ClientInv, Shapes, ClientOK, Served, Signed, SignatureDelivered
<1> QED
  BY <1>1, ClientInvariance, PTL

\* PlacedAgainUnanswered: the failover of requestSignV2 pays a second time
\* only for what an endpoint has left without an answer.
THEOREM PaidOnce == ClientSpec => []PlacedAgainUnanswered
<1>1. ASSUME ClientInv, NEW id \in clients
      PROVE  Cardinality(CallsOf(id)) <= 1 + unanswered[id]
  <2>1. late[id] \in Nat /\ unanswered[id] \in Nat /\ Counted(id)
    BY <1>1 DEF ClientInv, Shapes, ClientOK
  <2> QED
    BY <2>1, CallsFinite DEF Counted
<1>2. ClientInv => PlacedAgainUnanswered
  BY <1>1 DEF PlacedAgainUnanswered
<1> QED
  BY <1>2, ClientInvariance, PTL

\* NothingLeftBehind: after the removal the contract stores an answer of the
\* client's id only if it came in later, and each such answer belongs to a
\* submission that was not answered in time.
THEOREM ResultsRemoved == ClientSpec => []NothingLeftBehind
<1>1. ASSUME ClientInv, NEW id \in clients, removed[id] # None
      PROVE  Cardinality(Delivered(id) \ removed[id]) <= unanswered[id]
  <2>1. /\ late[id] \in Nat /\ unanswered[id] \in Nat /\ Counted(id)
        /\ removed[id] \subseteq Delivered(id) /\ removed[id] # {}
    BY <1>1 DEF ClientInv, Shapes, ClientOK, Cleaned
  <2>2. PICK c \in CallsOf(id) : c \in removed[id]
    BY <2>1 DEF Delivered
  <2>3. Delivered(id) \ removed[id] \in SUBSET (CallsOf(id) \ {c})
    BY <2>2 DEF Delivered
  <2>4. /\ IsFiniteSet(CallsOf(id) \ {c})
        /\ Cardinality(CallsOf(id) \ {c}) = Cardinality(CallsOf(id)) - 1
    BY <2>2, CallsFinite, FS_RemoveElement
  <2>5. /\ Cardinality(Delivered(id) \ removed[id]) <= Cardinality(CallsOf(id) \ {c})
        /\ Cardinality(Delivered(id) \ removed[id]) \in Nat
    BY <2>3, <2>4, FS_Subset, FS_CardinalityType
  <2> QED
    BY <2>1, <2>4, <2>5, CallsFinite DEF Counted
<1>2. ClientInv => NothingLeftBehind
  BY <1>1 DEF ClientInv, Shapes, ClientOK, Cleaned, NothingLeftBehind
<1> QED
  BY <1>2, ClientInvariance, PTL

\* ResultBacked holds with clients as it does without.
THEOREM ResultsBackedWithClients == ClientSpec => []ResultBacked
<1>1. ClientInv => ResultBacked
  BY DEF ClientInv, Inv
<1> QED
  BY <1>1, ClientInvariance, PTL
=============================================================================
