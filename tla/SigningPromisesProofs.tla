----------------------- MODULE SigningPromisesProofs -----------------------
(***************************************************************************)
(* Polled results are those of delivered calls, and stable for clients     *)
(* that do not overlap requests of an id, for any number of calls, ids and *)
(* MPC contracts.  The argument for the second: calls in flight together   *)
(* know of each other, and whenever a result is stored, one delivered call *)
(* with its id overlaps every call with that id still in flight, since no  *)
(* call can be placed while the result is there (ResultOverlap).           *)
(***************************************************************************)
EXTENDS SigningPromises, TLAPS

Inv == TypeOK /\ ResultBacked /\ InFlightOverlap /\ ResultOverlap

\* Nothing is stored or in flight at first.
LEMMA InitInv == Init => Inv
  BY DEF Init, Inv, TypeOK, ResultBacked, InFlightOverlap, ResultOverlap,
         InFlight, Placed

\* What placing a call leaves as it was.
LEMMA PlaceInv ==
  ASSUME Inv, NEW request \in Requests, NEW id \in RequestIds \cup {None},
         id # None => sign_results[id] = None,
         Place(request, id), UNCHANGED <<sign_results, mpc_contract_id>>
  PROVE  Inv'
<1>1. PICK c \in CallIds :
        /\ NextCall(c)
        /\ calls' = [calls EXCEPT ![c] =
             [request |-> request, id |-> id, mpc |-> mpc_contract_id,
              answer |-> None, delivered |-> FALSE,
              beside |-> {d \in CallIds : InFlight(d)}]]
  BY DEF Place
<1> DEFINE new == [request |-> request, id |-> id, mpc |-> mpc_contract_id,
                   answer |-> None, delivered |-> FALSE,
                   beside |-> {d \in CallIds : InFlight(d)}]
<1>2. new \in Calls /\ new # None
  <2>1. /\ mpc_contract_id \in MpcContracts /\ FALSE \in BOOLEAN
        /\ {d \in CallIds : InFlight(d)} \in SUBSET CallIds
    BY DEF Inv, TypeOK
  <2>2. new \in Calls
    BY <2>1 DEF Calls
  <2> QED
    BY <2>2, NoneCallAssumption
<1>3. calls \in [CallIds -> Calls \cup {None}] /\ calls[c] = None
  BY <1>1 DEF Inv, TypeOK, NextCall, Placed
<1>4. \A d \in CallIds : calls'[d] = IF d = c THEN new ELSE calls[d]
  BY <1>1, <1>3
<1>5. /\ new.id = id /\ new.delivered = FALSE
      /\ \A d \in CallIds : d \in new.beside <=> InFlight(d)
  OBVIOUS
<1>6. TypeOK'
  BY <1>1, <1>2, <1>3 DEF Inv, TypeOK
<1> HIDE DEF new
<1>7. ~InFlight(c) /\ InFlight(c)'
  BY <1>2, <1>3, <1>4, <1>5 DEF InFlight, Placed
<1>8. \A d \in CallIds : d # c => /\ calls'[d] = calls[d]
                                  /\ InFlight(d)' <=> InFlight(d)
  BY <1>4 DEF InFlight, Placed
<1>9. ResultBacked'
  BY <1>3, <1>8 DEF Inv, ResultBacked, Placed
<1>10. InFlightOverlap'
  BY <1>4, <1>5, <1>7, <1>8 DEF Inv, InFlightOverlap, Overlap
<1>11. ResultOverlap'
  <2> SUFFICES ASSUME NEW i \in RequestIds, sign_results[i] # None
               PROVE  \E e \in CallIds :
                        /\ Placed(e)' /\ calls'[e].id = i /\ calls'[e].delivered
                        /\ \A d \in CallIds :
                             InFlight(d)' /\ calls'[d].id = i => Overlap(e, d)'
    BY DEF ResultOverlap
  <2>1. i # id
    BY NoneCallAssumption
  <2>2. PICK e \in CallIds :
          /\ Placed(e) /\ calls[e].id = i /\ calls[e].delivered
          /\ \A d \in CallIds :
               InFlight(d) /\ calls[d].id = i => Overlap(e, d)
    BY DEF Inv, ResultOverlap
  <2>3. e # c
    BY <1>3, <2>2 DEF Placed
  <2>4. Placed(e)' /\ calls'[e].id = i /\ calls'[e].delivered
    BY <1>8, <2>2, <2>3 DEF Placed
  <2>5. ASSUME NEW d \in CallIds, InFlight(d)', calls'[d].id = i
        PROVE  Overlap(e, d)'
    <3>1. d # c
      BY <1>4, <1>5, <2>1, <2>5
    <3> QED
      BY <1>8, <2>2, <2>3, <2>5, <3>1 DEF Overlap
  <2> QED
    BY <2>4, <2>5
<1> QED
  BY <1>6, <1>9, <1>10, <1>11 DEF Inv

\* An answer changes no stored result and no overlap.
LEMMA AnswerInv ==
  ASSUME Inv, NEW c \in CallIds, NEW outcome \in Outcomes,
         MpcAnswer(c, outcome)
  PROVE  Inv'
<1>1. /\ calls \in [CallIds -> Calls \cup {None}] /\ calls[c] \in Calls
      /\ calls[c].answer = None /\ UNCHANGED sign_results
      /\ calls' = [calls EXCEPT ![c].answer = outcome]
  BY DEF Inv, TypeOK, MpcAnswer, Placed
<1>2. /\ calls' \in [CallIds -> Calls \cup {None}]
      /\ \A d \in CallIds : d # c => calls'[d] = calls[d]
      /\ calls'[c] \in Calls /\ calls'[c].id = calls[c].id
      /\ calls'[c].delivered = calls[c].delivered
      /\ calls'[c].beside = calls[c].beside
      /\ calls'[c].answer = outcome
  BY <1>1 DEF Calls
<1>3. \A d \in CallIds :
        /\ Placed(d)' <=> Placed(d)
        /\ InFlight(d)' <=> InFlight(d)
        /\ calls'[d].id = calls[d].id
        /\ calls'[d].delivered = calls[d].delivered
        /\ calls'[d].beside = calls[d].beside
  BY <1>1, <1>2, NoneCallAssumption DEF Placed, InFlight
<1>4. TypeOK'
  BY <1>2 DEF Inv, TypeOK, MpcAnswer
<1>5. ResultBacked'
  <2>1. \A id \in RequestIds : sign_results[id] # None =>
          \E d \in CallIds :
            /\ d # c /\ Placed(d) /\ calls[d].id = id
            /\ calls[d].delivered /\ calls[d].answer = sign_results[id]
    BY <1>1 DEF Inv, ResultBacked
  <2> QED
    BY <1>1, <1>2, <1>3, <2>1 DEF ResultBacked
<1>6. InFlightOverlap'
  BY <1>3 DEF Inv, InFlightOverlap, Overlap
<1>7. ResultOverlap'
  BY <1>1, <1>3 DEF Inv, ResultOverlap, Overlap
<1> QED
  BY <1>4, <1>5, <1>6, <1>7 DEF Inv

\* The callback stores the outcome of its call.
LEMMA CompleteInv ==
  ASSUME Inv, NEW c \in CallIds, OnSignComplete(c)
  PROVE  Inv'
<1> DEFINE id == calls[c].id
           answer == calls[c].answer
<1>1. /\ calls \in [CallIds -> Calls \cup {None}] /\ calls[c] \in Calls
      /\ sign_results \in [RequestIds -> Outcomes \cup {None}]
      /\ InFlight(c)
      /\ id # None /\ answer # None
      /\ sign_results' = [sign_results EXCEPT ![id] = answer]
      /\ calls' = [calls EXCEPT ![c].delivered = TRUE]
      /\ UNCHANGED mpc_contract_id
  BY DEF Inv, TypeOK, OnSignComplete, Deliver, InFlight, Placed
<1>2. id \in RequestIds /\ answer \in Outcomes
  BY <1>1 DEF Calls
<1>3. /\ calls' \in [CallIds -> Calls \cup {None}]
      /\ \A d \in CallIds : d # c => calls'[d] = calls[d]
      /\ calls'[c] \in Calls /\ calls'[c].id = id
      /\ calls'[c].answer = answer
      /\ calls'[c].delivered = TRUE
      /\ calls'[c].beside = calls[c].beside
  BY <1>1 DEF Calls
<1>4. \A i \in RequestIds :
        sign_results'[i] = IF i = id THEN answer ELSE sign_results[i]
  BY <1>1, <1>2
<1>5. TypeOK'
  BY <1>1, <1>2, <1>3 DEF Inv, TypeOK
<1> HIDE DEF id, answer
<1>6. /\ ~InFlight(c)' /\ Placed(c)'
      /\ \A d \in CallIds :
           /\ Placed(d)' <=> Placed(d)
           /\ calls'[d].id = calls[d].id
           /\ calls'[d].beside = calls[d].beside
           /\ calls[d].delivered => calls'[d].delivered
           /\ InFlight(d)' => InFlight(d) /\ d # c
  BY <1>1, <1>3, NoneCallAssumption DEF Placed, InFlight, id
<1>7. ResultBacked'
  <2> SUFFICES ASSUME NEW i \in RequestIds, sign_results'[i] # None
               PROVE  \E d \in CallIds :
                        /\ Placed(d)' /\ calls'[d].id = i
                        /\ calls'[d].delivered
                        /\ calls'[d].answer = sign_results'[i]
    BY DEF ResultBacked
  <2>1. CASE i = id
    BY <2>1, <1>2, <1>3, <1>4, <1>6
  <2>2. CASE i # id
    <3>1. PICK d \in CallIds :
            /\ Placed(d) /\ calls[d].id = i
            /\ calls[d].delivered /\ calls[d].answer = sign_results[i]
      BY <2>2, <1>4 DEF Inv, ResultBacked
    <3>2. d # c
      BY <3>1, <2>2 DEF id
    <3> QED
      BY <3>1, <3>2, <2>2, <1>3, <1>4, <1>6
  <2> QED
    BY <2>1, <2>2
<1>8. InFlightOverlap'
  BY <1>6 DEF Inv, InFlightOverlap, Overlap
<1>9. ResultOverlap'
  <2> SUFFICES ASSUME NEW i \in RequestIds, sign_results'[i] # None
               PROVE  \E e \in CallIds :
                        /\ Placed(e)' /\ calls'[e].id = i /\ calls'[e].delivered
                        /\ \A d \in CallIds :
                             InFlight(d)' /\ calls'[d].id = i => Overlap(e, d)'
    BY DEF ResultOverlap
  <2>1. CASE sign_results[i] # None
    <3>1. PICK e \in CallIds :
            /\ Placed(e) /\ calls[e].id = i /\ calls[e].delivered
            /\ \A d \in CallIds :
                 InFlight(d) /\ calls[d].id = i => Overlap(e, d)
      BY <2>1 DEF Inv, ResultOverlap
    <3> QED
      BY <3>1, <1>6 DEF Overlap
  <2>2. CASE sign_results[i] = None
    <3>1. i = id
      BY <2>2, <1>4
    <3>2. \A d \in CallIds : InFlight(d)' => Overlap(c, d)
      BY <1>1, <1>6 DEF Inv, InFlightOverlap
    <3> QED
      BY <3>1, <3>2, <1>3, <1>6 DEF Overlap
  <2> QED
    BY <2>1, <2>2
<1> QED
  BY <1>5, <1>7, <1>8, <1>9 DEF Inv

\* Cleanup forgets results.
LEMMA CleanupInv ==
  ASSUME Inv, NEW ids \in SUBSET RequestIds, CleanupResults(ids)
  PROVE  Inv'
<1>1. /\ \A i \in RequestIds : sign_results'[i] # None =>
           sign_results'[i] = sign_results[i]
      /\ UNCHANGED <<mpc_contract_id, calls>>
  BY DEF CleanupResults
<1>2. TypeOK'
  BY DEF Inv, TypeOK, CleanupResults
<1> QED
  BY <1>1, <1>2 DEF Inv, ResultBacked, InFlightOverlap, ResultOverlap,
                    InFlight, Placed, Overlap

LEMMA NextInv == Inv /\ [Next]_vars => Inv'
<1> SUFFICES ASSUME Inv, [Next]_vars PROVE Inv'
  OBVIOUS
<1>1. ASSUME NEW request \in Requests, Submit(request) PROVE Inv'
  BY <1>1, PlaceInv DEF Submit
<1>2. ASSUME NEW request \in Requests, NEW id \in RequestIds,
             SubmitV2(request, id)
      PROVE  Inv'
  BY <1>2, PlaceInv DEF SubmitV2
<1>3. ASSUME NEW c \in CallIds, NEW outcome \in Outcomes,
             MpcAnswer(c, outcome)
      PROVE  Inv'
  BY <1>3, AnswerInv
<1>4. ASSUME NEW c \in CallIds, OnSignComplete(c) PROVE Inv'
  BY <1>4, CompleteInv
<1>5. ASSUME NEW ids \in SUBSET RequestIds, CleanupResults(ids) PROVE Inv'
  BY <1>5, CleanupInv
<1>6. CASE (\E mpc \in MpcContracts : SetMpc(mpc)) \/ UNCHANGED vars
  BY <1>6 DEF SetMpc, vars, Inv, TypeOK, ResultBacked, InFlightOverlap,
              ResultOverlap, InFlight, Placed, Overlap
<1> QED
  BY <1>1, <1>2, <1>3, <1>4, <1>5, <1>6 DEF Next

THEOREM Invariance == Spec => []Inv
<1> QED
  BY InitInv, NextInv, PTL DEF Spec

\* The results, the calls and the MPC contract keep their types.
THEOREM TypeCorrect == Spec => []TypeOK
<1>1. Inv => TypeOK
  BY DEF Inv
<1> QED
  BY <1>1, Invariance, PTL

\* A polled result is the outcome of a delivered call with its id.
THEOREM ResultsBacked == Spec => []ResultBacked
<1>1. Inv => ResultBacked
  BY DEF Inv
<1> QED
  BY <1>1, Invariance, PTL

\* A result is replaced only by a call that overlapped a delivered one.
THEOREM OverwriteNeedsOverlap == Spec => OverwrittenByOverlap
<1> DEFINE Overwrites ==
      \A id \in RequestIds :
        /\ sign_results[id] # None /\ sign_results'[id] # None
        /\ sign_results'[id] # sign_results[id]
        => \E c, d \in CallIds :
             /\ Placed(c) /\ calls[c].id = id /\ calls[c].delivered
             /\ InFlight(d) /\ calls[d].id = id /\ calls'[d].delivered
             /\ Overlap(c, d)
<1>1. Inv /\ [Next]_vars => [Overwrites]_vars
  <2> SUFFICES ASSUME Inv, Next, NEW id \in RequestIds,
                      sign_results[id] # None, sign_results'[id] # None,
                      sign_results'[id] # sign_results[id]
               PROVE  \E c, d \in CallIds :
                        /\ Placed(c) /\ calls[c].id = id /\ calls[c].delivered
                        /\ InFlight(d) /\ calls[d].id = id
                        /\ calls'[d].delivered
                        /\ Overlap(c, d)
    OBVIOUS
  <2>1. PICK d \in CallIds : OnSignComplete(d)
    BY DEF Next, Submit, SubmitV2, MpcAnswer, CleanupResults, SetMpc
  <2>2. InFlight(d) /\ calls[d].id = id /\ calls'[d].delivered
    BY <2>1 DEF OnSignComplete, Deliver, Inv, TypeOK, Calls, InFlight, Placed
  <2>3. PICK c \in CallIds :
          /\ Placed(c) /\ calls[c].id = id /\ calls[c].delivered
          /\ \A e \in CallIds :
               InFlight(e) /\ calls[e].id = id => Overlap(c, e)
    BY DEF Inv, ResultOverlap
  <2> QED
    BY <2>2, <2>3
<1> QED
  BY <1>1, Invariance, PTL DEF Spec, OverwrittenByOverlap

=============================================================================
