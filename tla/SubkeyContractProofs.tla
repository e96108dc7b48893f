------------------------ MODULE SubkeyContractProofs ------------------------
(***************************************************************************)
(* The whole contract implements its registry, and the calls it places on  *)
(* the MPC contract stay within the policies and equal their counters, for *)
(* any accounts, policies, requests, templates and bounds.  The argument:  *)
(* a raw request adds one call and one transfer to the ledger in the same  *)
(* step, and nothing else adds either (LedgerMatches); what the registry's *)
(* proofs show of the ledger then holds of the calls.                      *)
(***************************************************************************)
EXTENDS SubkeyContract, SubkeyRegistryProofs, FiniteSetTheorems

---------------------------------------------------------------------------
(* The contract implements the registry.                                   *)

\* Every step of the contract is one of the registry or none to it.
LEMMA RegistryStep == [ContractNext]_contractVars => [Next]_vars
<1> SUFFICES ASSUME [ContractNext]_contractVars PROVE [Next]_vars
  OBVIOUS
<1>1. CASE AdvanceTime
  BY <1>1 DEF AdvanceTime, Next
<1>2. CASE OwnerCalls
  BY <1>2 DEF OwnerCalls, SetTemplate, RemoveTemplate, SetTokenCap,
              RemoveTokenCap, CleanupResults, SetMpc, registryVars
<1>3. ASSUME NEW a \in Accounts, NEW k \in Keys,
             ManageKeys(a, k) \/ ManagePolicy(a, k)
      PROVE  Next
  BY <1>3 DEF ManageKeys, ManagePolicy, Next
<1>4. ASSUME NEW a \in Accounts, NEW k \in Keys, SignCalls(<<a, k>>)
      PROVE  [Next]_vars
  <2>1. CASE \E req \in RawRequests : AuthorizeRaw(<<a, k>>, req)
    BY <2>1 DEF Next
  <2>2. CASE UNCHANGED registryVars
    BY <2>2 DEF registryVars
  <2> QED
    BY <1>4, <2>1, <2>2 DEF SignCalls, RequestSign, RequestSignV2,
                            RequestTemplateSign, RequestTemplateSignV2
<1>5. ASSUME NEW c \in Signing!CallIds, MpcAnswer(c) \/ OnSignComplete(c)
      PROVE  [Next]_vars
  BY <1>5 DEF MpcAnswer, OnSignComplete, registryVars
<1>6. CASE UNCHANGED contractVars
  BY <1>6 DEF contractVars
<1> QED
  BY <1>1, <1>2, <1>3, <1>4, <1>5, <1>6 DEF ContractNext

\* The whole contract changes its registry only as the registry allows, so
\* that the theorems of SubkeyRegistryProofs hold of the contract.
THEOREM ImplementsRegistry == ContractSpec => RegistrySpec
<1>1. ContractInit => Init
  BY DEF ContractInit
<1> QED
  BY <1>1, RegistryStep, PTL DEF ContractSpec, RegistrySpec, Spec

---------------------------------------------------------------------------
(* What the signing steps do to the calls.                                 *)

\* An accepted request places exactly one call and touches no other.
LEMMA PlacedCall ==
  ASSUME Signing!TypeOK, NEW request \in Requests,
         NEW id \in RequestIds \cup {None}, Signing!Place(request, id)
  PROVE  \E c \in Signing!CallIds :
           /\ calls[c] = None /\ NewCalls = {c}
           /\ calls' \in [Signing!CallIds -> Signing!Calls \cup {None}]
           /\ calls'[c] # None /\ calls'[c].request = request
           /\ \A d \in Signing!CallIds : d # c => calls'[d] = calls[d]
<1> DEFINE beside == {d \in Signing!CallIds : Signing!InFlight(d)}
           new == [request |-> request, id |-> id, mpc |-> mpc_contract_id,
                   answer |-> None, delivered |-> FALSE, beside |-> beside]
<1>1. PICK c \in Signing!CallIds :
        /\ Signing!NextCall(c)
        /\ calls' = [calls EXCEPT ![c] = new]
  BY DEF Signing!Place
<1>2. calls \in [Signing!CallIds -> Signing!Calls \cup {None}]
      /\ mpc_contract_id \in MpcContracts
  BY DEF Signing!TypeOK
<1>3. calls[c] = None
  BY <1>1 DEF Signing!NextCall, Signing!Placed
<1>4. new \in Signing!Calls /\ new.request = request
  <2>1. beside \in SUBSET Signing!CallIds
    OBVIOUS
  <2> HIDE DEF beside
  <2> QED
    BY <1>2, <2>1 DEF Signing!Calls
<1>5. new # None
  BY <1>4, SigningAssumption
<1> HIDE DEF new
<1>6. /\ calls' \in [Signing!CallIds -> Signing!Calls \cup {None}]
      /\ calls'[c] = new
      /\ \A d \in Signing!CallIds : d # c => calls'[d] = calls[d]
  BY <1>1, <1>2, <1>4
<1>7. NewCalls = {c}
  BY <1>3, <1>5, <1>6 DEF NewCalls
<1> QED
  BY <1>3, <1>4, <1>5, <1>6, <1>7

\* A call that has been placed keeps its request.
SameRequests ==
  \A c \in Signing!CallIds :
    calls[c] # None => calls'[c] # None /\ calls'[c].request = calls[c].request

\* A step that places a call for a request.
Places(request) ==
  \E id \in RequestIds \cup {None} :
    Signing!Place(request, id) /\ UNCHANGED <<sign_results, mpc_contract_id>>

\* Both ways to submit place a call.
LEMMA SubmitPlaces ==
  ASSUME NEW request
  PROVE  /\ Signing!Submit(request) => Places(request)
         /\ \A id \in RequestIds : Signing!SubmitV2(request, id) => Places(request)
  BY DEF Signing!Submit, Signing!SubmitV2, Places

\* Placing a call keeps the types and the requests of the others.
LEMMA PlacesKeeps ==
  ASSUME Signing!TypeOK, NEW request \in Requests, Places(request)
  PROVE  Signing!TypeOK' /\ SameRequests
<1>1. PICK c \in Signing!CallIds :
        /\ calls[c] = None
        /\ calls' \in [Signing!CallIds -> Signing!Calls \cup {None}]
        /\ \A d \in Signing!CallIds : d # c => calls'[d] = calls[d]
  BY PlacedCall DEF Places
<1> QED
  BY <1>1 DEF Places, Signing!TypeOK, SameRequests

\* So do the answers, the callbacks, the clean-up and a new MPC contract.
LEMMA OthersKeep ==
  ASSUME Signing!TypeOK,
         \/ \E c \in Signing!CallIds :
              \/ \E outcome \in Signing!Outcomes : Signing!MpcAnswer(c, outcome)
              \/ Signing!OnSignComplete(c)
         \/ \E ids \in SUBSET RequestIds : Signing!CleanupResults(ids)
         \/ \E mpc \in MpcContracts : Signing!SetMpc(mpc)
         \/ UNCHANGED signingVars
  PROVE  Signing!TypeOK' /\ SameRequests
<1>1. /\ sign_results \in [RequestIds -> Signing!Outcomes \cup {None}]
      /\ calls \in [Signing!CallIds -> Signing!Calls \cup {None}]
      /\ mpc_contract_id \in MpcContracts
  BY DEF Signing!TypeOK
<1>2. ASSUME NEW c \in Signing!CallIds, NEW outcome \in Signing!Outcomes,
             Signing!MpcAnswer(c, outcome)
      PROVE  Signing!TypeOK' /\ SameRequests
  <2>1. /\ calls[c] \in Signing!Calls
        /\ calls' = [calls EXCEPT ![c].answer = outcome]
        /\ UNCHANGED <<sign_results, mpc_contract_id>>
    BY <1>1, <1>2 DEF Signing!MpcAnswer, Signing!Placed
  <2>2. /\ calls'[c] \in Signing!Calls
        /\ calls'[c].request = calls[c].request
        /\ \A d \in Signing!CallIds : d # c => calls'[d] = calls[d]
        /\ calls' \in [Signing!CallIds -> Signing!Calls \cup {None}]
    BY <1>1, <2>1 DEF Signing!Calls
  <2> QED
    BY <1>1, <2>1, <2>2, SigningAssumption DEF Signing!TypeOK, SameRequests
<1>3. ASSUME NEW c \in Signing!CallIds, Signing!OnSignComplete(c)
      PROVE  Signing!TypeOK' /\ SameRequests
  <2>1. /\ calls[c] \in Signing!Calls /\ calls[c].answer \in Signing!Outcomes
        /\ sign_results' = [sign_results EXCEPT ![calls[c].id] = calls[c].answer]
        /\ calls' = [calls EXCEPT ![c].delivered = TRUE]
        /\ UNCHANGED mpc_contract_id
    BY <1>1, <1>3 DEF Signing!OnSignComplete, Signing!InFlight, Signing!Placed,
                      Signing!Deliver, Signing!Calls
  <2>2. /\ calls'[c] \in Signing!Calls
        /\ calls'[c].request = calls[c].request
        /\ \A d \in Signing!CallIds : d # c => calls'[d] = calls[d]
        /\ calls' \in [Signing!CallIds -> Signing!Calls \cup {None}]
    BY <1>1, <2>1 DEF Signing!Calls
  <2>3. sign_results' \in [RequestIds -> Signing!Outcomes \cup {None}]
    BY <1>1, <2>1
  <2> QED
    BY <1>1, <2>1, <2>2, <2>3, SigningAssumption DEF Signing!TypeOK, SameRequests
<1>4. ASSUME NEW ids \in SUBSET RequestIds, Signing!CleanupResults(ids)
      PROVE  Signing!TypeOK' /\ SameRequests
  BY <1>1, <1>4 DEF Signing!CleanupResults, Signing!TypeOK, SameRequests
<1>5. ASSUME NEW mpc \in MpcContracts, Signing!SetMpc(mpc)
      PROVE  Signing!TypeOK' /\ SameRequests
  BY <1>1, <1>5 DEF Signing!SetMpc, Signing!TypeOK, SameRequests
<1>6. CASE UNCHANGED signingVars
  BY <1>1, <1>6 DEF signingVars, Signing!TypeOK, SameRequests
<1> QED
  BY <1>2, <1>3, <1>4, <1>5, <1>6

---------------------------------------------------------------------------
(* The inductive invariant of the calls.                                   *)

CallInv ==
  /\ Inv
  /\ Signing!TypeOK
  /\ fresh \in [Signers -> SUBSET Signing!CallIds]
  /\ FreshPlaced
  /\ LedgerMatches

\* There are no calls at first.
LEMMA CallInit == ContractInit => CallInv
<1> SUFFICES ASSUME ContractInit PROVE CallInv
  OBVIOUS
<1>1. Inv
  BY InitInv DEF ContractInit
<1>2. Signing!TypeOK
  BY DEF ContractInit, Signing!Init, Signing!TypeOK
<1> QED
  BY <1>1, <1>2 DEF ContractInit, Init, CallInv, FreshPlaced, LedgerMatches

\* A signer whose period and fresh calls stay has the same metered calls.
LEMMA SameMetered ==
  ASSUME CallInv, SameRequests, NEW s \in Signers, fresh'[s] = fresh[s],
         api_key_policies'[s].period = api_key_policies[s].period
  PROVE  \A w : MeteredCalls(s, w)' = MeteredCalls(s, w)
<1>1. \A c \in fresh[s] : calls'[c].request = calls[c].request
  BY DEF CallInv, FreshPlaced, SameRequests
<1> QED
  BY <1>1 DEF MeteredCalls

\* A step without effect on policies, ledger and fresh calls keeps both.
LEMMA QuietKeeps ==
  ASSUME CallInv, SameRequests, UNCHANGED <<api_key_policies, ledger, fresh>>
  PROVE  FreshPlaced' /\ LedgerMatches'
<1>1. FreshPlaced'
  BY DEF CallInv, FreshPlaced, SameRequests
<1>2. \A s \in Signers : \A w : MeteredCalls(s, w)' = MeteredCalls(s, w)
  BY SameMetered
<1> QED
  BY <1>1, <1>2 DEF CallInv, LedgerMatches

\* A write of the policy starts an empty account and no fresh calls.
LEMMA WriteKeeps ==
  ASSUME CallInv, SameRequests, NEW s \in Signers,
         ledger' = [ledger EXCEPT ![s] = Promise!NoUse],
         fresh' = [fresh EXCEPT ![s] = {}],
         \A r \in Signers : r # s => api_key_policies'[r] = api_key_policies[r]
  PROVE  FreshPlaced' /\ LedgerMatches'
<1>1. /\ fresh'[s] = {} /\ ledger'[s] = Promise!NoUse
      /\ \A r \in Signers : r # s => fresh'[r] = fresh[r] /\ ledger'[r] = ledger[r]
  BY DEF CallInv, Inv, TypeOK
<1>2. FreshPlaced'
  BY <1>1 DEF CallInv, FreshPlaced, SameRequests
<1>3. \A w : MeteredCalls(s, w)' = {}
  BY <1>1 DEF MeteredCalls
<1>4. \A w \in Times : ledger'[s].txs[w] = 0
  BY <1>1 DEF Promise!NoUse
<1>5. \A r \in Signers : r # s => \A w : MeteredCalls(r, w)' = MeteredCalls(r, w)
  BY <1>1, SameMetered
<1>6. ASSUME NEW w \in Times
      PROVE  ledger'[s].txs[w] = Cardinality(MeteredCalls(s, w)')
  BY <1>3, <1>4, FS_EmptySet
<1> QED
  BY <1>1, <1>2, <1>5, <1>6 DEF CallInv, LedgerMatches

\* What a raw request asks to be signed is a request of SigningPromises.
LEMMA RawCallRequest ==
  ASSUME Inv, NEW s \in Signers, NEW req \in RawRequests
  PROVE  RawCall(s, req) \in Requests
<1>1. /\ MeteredKind(s, req) \in Kinds \cup {None}
      /\ req.payload.amount \in Amounts /\ now \in Times
  BY DEF MeteredKind, Amounts, Inv, TypeOK
<1> QED
  BY <1>1 DEF RawCall, Requests

\* The sets of metered calls are finite.
LEMMA MeteredFinite ==
  ASSUME CallInv, NEW s \in Signers, NEW w
  PROVE  IsFiniteSet(MeteredCalls(s, w)) /\ Cardinality(MeteredCalls(s, w)) \in Nat
<1>1. IsFiniteSet(Signing!CallIds)
  BY SigningAssumption, FS_Interval DEF Signing!CallIds
<1>2. MeteredCalls(s, w) \in SUBSET Signing!CallIds
  BY DEF MeteredCalls, CallInv
<1> QED
  BY <1>1, <1>2, FS_Subset, FS_CardinalityType

\* A raw request places a call that its policy meters in the current window
\* when, and only when, the ledger gets a transfer there.
LEMMA RequestKeeps ==
  ASSUME CallInv, NEW s \in Signers, NEW req \in RawRequests,
         AuthorizeRaw(s, req), Places(RawCall(s, req)),
         fresh' = [fresh EXCEPT ![s] = @ \cup NewCalls]
  PROVE  CallInv'
<1> DEFINE p == api_key_policies[s]
           W == WindowStart(now, p.period)
           kind == MeteredKind(s, req)
<1>1. Inv'
  BY AuthorizeInv DEF CallInv
<1>2. Signing!TypeOK' /\ SameRequests
  BY RawCallRequest, PlacesKeeps DEF CallInv
<1>3. PICK c \in Signing!CallIds :
        /\ calls[c] = None /\ NewCalls = {c}
        /\ calls'[c] # None /\ calls'[c].request = RawCall(s, req)
  BY RawCallRequest, PlacedCall DEF CallInv, Places
<1>4. /\ fresh \in [Signers -> SUBSET Signing!CallIds]
      /\ api_key_policies \in [Signers -> StoredPolicies \cup {None}]
      /\ ledger \in [Signers -> Promise!Uses] /\ now \in Times
  BY DEF CallInv, Inv, TypeOK
<1>5. /\ fresh'[s] = fresh[s] \cup {c}
      /\ \A r \in Signers : r # s => fresh'[r] = fresh[r]
      /\ fresh' \in [Signers -> SUBSET Signing!CallIds]
  BY <1>3, <1>4
<1>6. FreshPlaced'
  BY <1>2, <1>3, <1>5 DEF CallInv, FreshPlaced, SameRequests
<1>7. \A r \in Signers : r # s => /\ api_key_policies'[r] = api_key_policies[r]
                                 /\ ledger'[r] = ledger[r]
  BY <1>4 DEF AuthorizeRaw
<1>8. c \notin fresh[s]
  BY <1>3 DEF CallInv, FreshPlaced
<1>9. \A d \in fresh[s] : calls'[d].request = calls[d].request
  BY <1>2 DEF CallInv, FreshPlaced, SameRequests
<1>10. calls'[c].request.kind = kind /\ calls'[c].request.time = now
  BY <1>3 DEF RawCall
<1>11. ASSUME NEW r \in Signers, r # s
       PROVE  \A w : MeteredCalls(r, w)' = MeteredCalls(r, w)
  BY <1>2, <1>5, <1>7, <1>11, SameMetered
<1>12. ASSUME api_key_policies'[s] # None, api_key_policies'[s].period # None,
              NEW w \in Times
       PROVE  ledger'[s].txs[w] = Cardinality(MeteredCalls(s, w)')
  <2>1. CASE ~ChainRequiresPolicy(req.chain)
    <3>1. kind = None /\ UNCHANGED <<api_key_policies, ledger>>
      BY <2>1 DEF MeteredKind, AuthorizeRaw
    <3>2. MeteredCalls(s, w)' = MeteredCalls(s, w)
      BY <3>1, <1>5, <1>9, <1>10 DEF MeteredCalls
    <3> QED
      BY <3>1, <3>2, <1>12 DEF CallInv, LedgerMatches
  <2>2. CASE ChainRequiresPolicy(req.chain)
    <3> DEFINE governing == GoverningKind(p, req.chain, req.payload)
               amount == req.payload.amount
    <3>1. /\ p # None
          /\ RawAdmits(p, req.chain, req.payload, now)
          /\ api_key_policies'[s] = RawCharged(p, req.chain, req.payload, now)
          /\ ledger'[s] = Recorded(ledger[s], p, req, now)
      BY <2>2, <1>4 DEF AuthorizeRaw, Authorized
    <3>2. p \in StoredPolicies /\ p.period \in OptNat \ {0} /\ amount \in Nat
      BY <3>1, <1>4, RawRequestsAssumption
      DEF StoredPolicies, Policies, Payloads
    <3>3. CASE governing \notin Kinds
      <4>1. kind = None
        BY <3>3 DEF MeteredKind
      <4>2. api_key_policies'[s] = p /\ ledger'[s] = ledger[s]
        BY <3>1, <3>3 DEF RawCharged, Recorded
      <4>3. MeteredCalls(s, w)' = MeteredCalls(s, w)
        BY <4>1, <4>2, <1>5, <1>9, <1>10 DEF MeteredCalls
      <4> QED
        BY <4>2, <4>3, <1>12 DEF CallInv, LedgerMatches
    <3>4. CASE governing \in Kinds
      <4>1. kind = governing /\ kind # None
        BY <2>2, <3>4, SigningAssumption DEF MeteredKind
      <4>2. api_key_policies'[s].period = p.period
        BY <3>1, <3>2, <3>4 DEF RawCharged, Charged, StoredPolicies, Policies
      <4>3. p.period # None /\ p.period \in Nat \ {0} /\ W \in Times
        BY <1>12, <3>2, <4>2, <1>4, WindowBound DEF OptNat
      <4>4. ledger'[s] = Promise!Used(ledger[s], governing, amount, W)
        BY <3>1, <3>4, <4>3 DEF Recorded
      <4>5. ledger'[s].txs[w] = IF w = W THEN ledger[s].txs[w] + 1
                                ELSE ledger[s].txs[w]
        BY <1>4, <3>2, <3>4, <4>3, <4>4, UsedUse
      <4>6. MeteredCalls(s, w)' = IF w = W THEN MeteredCalls(s, w) \cup {c}
                                  ELSE MeteredCalls(s, w)
        BY <4>1, <4>2, <1>5, <1>9, <1>10 DEF MeteredCalls
      <4>7. ledger[s].txs[w] = Cardinality(MeteredCalls(s, w))
        BY <3>1, <4>3 DEF CallInv, LedgerMatches
      <4>8. c \notin MeteredCalls(s, w)
        BY <1>8 DEF MeteredCalls
      <4>9. Cardinality(MeteredCalls(s, w) \cup {c}) =
              Cardinality(MeteredCalls(s, w)) + 1
        BY <4>8, MeteredFinite, FS_AddElement
      <4> QED
        BY <4>5, <4>6, <4>7, <4>9
    <3> QED
      BY <3>3, <3>4
  <2> QED
    BY <2>1, <2>2
<1>13. LedgerMatches'
  BY <1>7, <1>11, <1>12 DEF CallInv, LedgerMatches
<1> QED
  BY <1>1, <1>2, <1>5, <1>6, <1>13 DEF CallInv

\* A template request places a call that no policy meters.
LEMMA TemplateKeeps ==
  ASSUME CallInv, NEW s \in Signers, Places(TemplateCall(s)),
         UNCHANGED <<registryVars, fresh>>
  PROVE  CallInv'
<1>1. TemplateCall(s) \in Requests
  BY DEF CallInv, Inv, TypeOK, TemplateCall, Requests
<1>2. Signing!TypeOK' /\ SameRequests
  BY <1>1, PlacesKeeps DEF CallInv
<1>3. Inv'
  BY NextInv DEF CallInv, registryVars
<1>4. FreshPlaced' /\ LedgerMatches'
  BY <1>2, QuietKeeps DEF registryVars, vars
<1> QED
  BY <1>2, <1>3, <1>4 DEF CallInv

\* Every step of the contract keeps the invariant.
LEMMA CallNext == CallInv /\ [ContractNext]_contractVars => CallInv'
<1> SUFFICES ASSUME CallInv, [ContractNext]_contractVars PROVE CallInv'
  OBVIOUS
<1>1. Inv'
  BY RegistryStep, NextInv DEF CallInv
<1>2. \A a \in Accounts, k \in Keys : <<a, k>> \in Signers
  BY DEF Signers
<1>3. CASE UNCHANGED signingVars /\ UNCHANGED <<api_key_policies, ledger, fresh>>
  BY <1>1, <1>3, OthersKeep, QuietKeeps DEF CallInv
<1>4. CASE /\ \/ \E c \in Signing!CallIds : MpcAnswer(c) \/ OnSignComplete(c)
              \/ \E ids \in SUBSET RequestIds : CleanupResults(ids)
              \/ \E mpc \in MpcContracts : SetMpc(mpc)
           /\ UNCHANGED <<api_key_policies, ledger, fresh>>
  <2>1. Signing!TypeOK' /\ SameRequests
    BY <1>4, OthersKeep DEF CallInv, MpcAnswer, OnSignComplete,
                            CleanupResults, SetMpc
  <2> QED
    BY <1>1, <1>4, <2>1, QuietKeeps DEF CallInv
<1>5. ASSUME NEW a \in Accounts, NEW k \in Keys, ManagePolicy(a, k)
      PROVE  CallInv'
  <2>1. Signing!TypeOK' /\ SameRequests
    BY <1>5, OthersKeep DEF CallInv, ManagePolicy
  <2>2. /\ ledger' = [ledger EXCEPT ![<<a, k>>] = Promise!NoUse]
        /\ fresh' = [fresh EXCEPT ![<<a, k>>] = {}]
        /\ \A r \in Signers : r # <<a, k>> =>
             api_key_policies'[r] = api_key_policies[r]
    BY <1>5 DEF ManagePolicy, PolicyCalls, SetSignerPolicy, OwnerSetSignerPolicy,
                UpsertSignerPolicy, RemoveSignerPolicy, OwnerRemoveSignerPolicy,
                DropSignerPolicy, CallInv, Inv, TypeOK
  <2>3. FreshPlaced' /\ LedgerMatches'
    BY <1>2, <2>1, <2>2, WriteKeeps
  <2>4. fresh' \in [Signers -> SUBSET Signing!CallIds]
    BY <2>2 DEF CallInv
  <2> QED
    BY <1>1, <2>1, <2>3, <2>4 DEF CallInv
<1>6. ASSUME NEW a \in Accounts, NEW k \in Keys, NEW req \in RawRequests,
             \/ RequestSign(<<a, k>>, req)
             \/ \E id \in RequestIds : RequestSignV2(<<a, k>>, id, req)
      PROVE  CallInv'
  <2>1. /\ AuthorizeRaw(<<a, k>>, req)
        /\ Places(RawCall(<<a, k>>, req))
        /\ fresh' = [fresh EXCEPT ![<<a, k>>] = @ \cup NewCalls]
    BY <1>6, SubmitPlaces DEF RequestSign, RequestSignV2
  <2> QED
    BY <1>2, <2>1, RequestKeeps
<1>7. ASSUME NEW a \in Accounts, NEW k \in Keys, NEW req \in TemplateRequests,
             \/ RequestTemplateSign(<<a, k>>, req)
             \/ \E id \in RequestIds : RequestTemplateSignV2(<<a, k>>, id, req)
      PROVE  CallInv'
  <2>1. Places(TemplateCall(<<a, k>>)) /\ UNCHANGED <<registryVars, fresh>>
    BY <1>7, SubmitPlaces DEF RequestTemplateSign, RequestTemplateSignV2
  <2> QED
    BY <1>2, <2>1, TemplateKeeps
<1>8. CASE AdvanceTime
  BY <1>3, <1>8 DEF AdvanceTime, Tick
<1>9. ASSUME NEW a \in Accounts, NEW k \in Keys, ManageKeys(a, k)
      PROVE  CallInv'
  BY <1>3, <1>9 DEF ManageKeys, KeyCalls, AddSubkey, SetSubkeyPaths,
                    RemoveSubkey, GrantPolicyManager, RevokePolicyManager
<1>10. CASE OwnerCalls
  BY <1>3, <1>4, <1>10 DEF OwnerCalls, SetTemplate, RemoveTemplate, SetTokenCap,
                           RemoveTokenCap, CleanupResults, SetMpc,
                           registryVars, vars
<1>11. ASSUME NEW c \in Signing!CallIds, MpcAnswer(c) \/ OnSignComplete(c)
       PROVE  CallInv'
  BY <1>4, <1>11 DEF MpcAnswer, OnSignComplete, registryVars, vars
<1>12. CASE UNCHANGED contractVars
  BY <1>3, <1>12 DEF contractVars, vars, signingVars
<1> QED
  BY <1>5, <1>6, <1>7, <1>8, <1>9, <1>10, <1>11, <1>12
  DEF ContractNext, SignCalls

\* The invariant holds in every reachable state.
LEMMA CallInvariance == ContractSpec => []CallInv
<1> QED
  BY CallInit, CallNext, PTL DEF ContractSpec

\* In no window does a subkey get more metered raw calls onto the MPC
\* contract than its policy counts, whatever runs in between.
THEOREM CallsKept == ContractSpec => []CallsWithinBudget
<1>1. CallInv => CallsWithinBudget
  <2> SUFFICES ASSUME CallInv, NEW s \in Signers, NEW w \in Times,
                      api_key_policies[s] # None,
                      api_key_policies[s].maxTxCount # None
               PROVE  Cardinality(MeteredCalls(s, w))
                        <= api_key_policies[s].maxTxCount
    BY DEF CallsWithinBudget
  <2>1. ledger[s].txs[w] <= api_key_policies[s].maxTxCount
    BY DEF CallInv, Inv, LedgerAccounted, Accounted, CountCovers
  <2>2. api_key_policies[s].period # None
    BY DEF CallInv, Inv, TypeOK, StoredPolicies
  <2>3. ledger[s].txs[w] = Cardinality(MeteredCalls(s, w))
    BY <2>2 DEF CallInv, LedgerMatches
  <2> QED
    BY <2>1, <2>3
<1> QED
  BY <1>1, CallInvariance, PTL

\* Every variable of the contract keeps its type.
THEOREM ContractTypeCorrect == ContractSpec => []ContractTypeOK
<1> DEFINE OwnerTypes ==
      /\ templates \in [TemplateKeys -> TemplateRecords \cup {None}]
      /\ token_caps \in [CapKeys -> OptNat]
<1>1. ContractInit => OwnerTypes
  BY DEF ContractInit, OptNat
<1>2. OwnerTypes /\ [ContractNext]_contractVars => OwnerTypes'
  <2> SUFFICES ASSUME OwnerTypes, [ContractNext]_contractVars
               PROVE  OwnerTypes'
    OBVIOUS
  <2>1. CASE UNCHANGED ownerVars
    BY <2>1 DEF ownerVars
  <2>2. CASE OwnerCalls
    BY <2>2, OwnerInputsAssumption
    DEF OwnerCalls, SetTemplate, RemoveTemplate, SetTokenCap, RemoveTokenCap,
        CleanupResults, SetMpc, ownerVars, OptNat
  <2> QED
    BY <2>1, <2>2
    DEF ContractNext, SignCalls, RequestSign, RequestSignV2,
        RequestTemplateSign, RequestTemplateSignV2, AdvanceTime, ManageKeys,
        ManagePolicy, MpcAnswer, OnSignComplete, contractVars, ownerVars
<1>3. CallInv /\ OwnerTypes => ContractTypeOK
  BY DEF CallInv, Inv, ContractTypeOK
<1> HIDE DEF OwnerTypes
<1> QED
  BY <1>1, <1>2, <1>3, CallInvariance, PTL DEF ContractSpec

---------------------------------------------------------------------------
(* The contract implements the safety part of SigningPromises.             *)

\* A step of the contract is one of the signing state machine or none to it.
LEMMA SigningStep ==
  Inv /\ [ContractNext]_contractVars => [Signing!Next]_(Signing!vars)
<1> SUFFICES ASSUME Inv, [ContractNext]_contractVars
             PROVE  Signing!Next \/ UNCHANGED Signing!vars
  OBVIOUS
<1>1. CASE UNCHANGED signingVars
  BY <1>1 DEF signingVars, Signing!vars
<1>2. ASSUME NEW request \in Requests,
             \/ Signing!Submit(request)
             \/ \E id \in RequestIds : Signing!SubmitV2(request, id)
      PROVE  Signing!Next
  BY <1>2 DEF Signing!Next
<1>3. ASSUME NEW s \in Signers, SignCalls(s)
      PROVE  Signing!Next
  <2>1. TemplateCall(s) \in Requests
    BY DEF Inv, TypeOK, TemplateCall, Requests
  <2> QED
    BY <1>2, <1>3, <2>1, RawCallRequest
    DEF SignCalls, RequestSign, RequestSignV2, RequestTemplateSign,
        RequestTemplateSignV2
<1>4. ASSUME NEW c \in Signing!CallIds, MpcAnswer(c) \/ OnSignComplete(c)
      PROVE  Signing!Next
  BY <1>4 DEF MpcAnswer, OnSignComplete, Signing!Next
<1>5. CASE \/ \E ids \in SUBSET RequestIds : CleanupResults(ids)
           \/ \E mpc \in MpcContracts : SetMpc(mpc)
  BY <1>5 DEF CleanupResults, SetMpc, Signing!Next
<1>6. \A a \in Accounts, k \in Keys : <<a, k>> \in Signers
  BY DEF Signers
<1> QED
  BY <1>1, <1>3, <1>4, <1>5, <1>6
  DEF ContractNext, OwnerCalls, AdvanceTime, ManageKeys, ManagePolicy,
      SetTemplate, RemoveTemplate, SetTokenCap, RemoveTokenCap,
      contractVars, signingVars

\* Every behaviour of the contract is, on the results and the calls, one of
\* SigningPromises without its fairness.
THEOREM ImplementsSigning ==
  ContractSpec => Signing!Init /\ [][Signing!Next]_(Signing!vars)
<1>1. ContractInit => Signing!Init
  BY DEF ContractInit
<1>2. CallInv => Inv
  BY DEF CallInv
<1> QED
  BY <1>1, <1>2, SigningStep, CallInvariance, PTL DEF ContractSpec

---------------------------------------------------------------------------
(* The stored counter is exact.                                            *)

\* A charge goes on from the counter of its window, and a window that is
\* not the stored one has nothing in the ledger yet.
LEMMA CounterNext ==
  ASSUME Inv, CounterMatchesLedger, [Next]_vars
  PROVE  CounterMatchesLedger'
<1> SUFFICES ASSUME \A input \in PolicyInputs : input.periodStart = None,
                    NEW s \in Signers,
                    api_key_policies'[s] # None,
                    api_key_policies'[s].maxTxCount # None,
                    api_key_policies'[s].periodStart # None
             PROVE  LET q == api_key_policies'[s] IN
                    /\ q.periodStart \in Times
                    /\ q.txCount = ledger'[s].txs[q.periodStart]
  BY DEF CounterMatchesLedger
<1>1. /\ api_key_policies \in [Signers -> StoredPolicies \cup {None}]
      /\ ledger \in [Signers -> Promise!Uses] /\ now \in Times
  BY DEF Inv, TypeOK
<1>2. CASE /\ api_key_policies'[s] = api_key_policies[s]
           /\ ledger'[s] = ledger[s]
  BY <1>2 DEF CounterMatchesLedger
<1>3. ASSUME NEW r \in Signers, NEW input \in PolicyInputs,
             UpsertSignerPolicy(r, input)
      PROVE  api_key_policies'[s] = api_key_policies[s] /\ ledger'[s] = ledger[s]
  <2>1. Normalized(input).periodStart = None
    BY PolicyInputsAssumption DEF Normalized, Policies
  <2>2. r # s
    BY <1>1, <1>3, <2>1 DEF UpsertSignerPolicy
  <2> QED
    BY <1>1, <1>3, <2>2 DEF UpsertSignerPolicy
<1>4. ASSUME NEW r \in Signers, DropSignerPolicy(r)
      PROVE  api_key_policies'[s] = api_key_policies[s] /\ ledger'[s] = ledger[s]
  BY <1>1, <1>4 DEF DropSignerPolicy
<1>5. ASSUME NEW req \in RawRequests, AuthorizeRaw(s, req)
      PROVE  LET q == api_key_policies'[s] IN
             /\ q.periodStart \in Times
             /\ q.txCount = ledger'[s].txs[q.periodStart]
  <2> DEFINE p == api_key_policies[s]
             W == WindowStart(now, p.period)
             kind == GoverningKind(p, req.chain, req.payload)
             amount == req.payload.amount
  <2>1. CASE ~ChainRequiresPolicy(req.chain)
    BY <1>2, <1>5, <2>1 DEF AuthorizeRaw
  <2>2. CASE ChainRequiresPolicy(req.chain)
    <3>1. /\ p # None
          /\ api_key_policies'[s] = RawCharged(p, req.chain, req.payload, now)
          /\ ledger'[s] = Recorded(ledger[s], p, req, now)
      BY <1>1, <1>5, <2>2 DEF AuthorizeRaw, Authorized
    <3>2. /\ p \in StoredPolicies /\ p \in Policies /\ amount \in Nat
          /\ Accounted(p, ledger[s], now)
      BY <3>1, <1>1, RawRequestsAssumption
      DEF StoredPolicies, Payloads, Inv, LedgerAccounted
    <3>3. CASE kind \notin Kinds
      BY <1>2, <3>1, <3>3 DEF RawCharged, Recorded
    <3>4. CASE kind \in Kinds
      <4> DEFINE q == Charged(p, kind, amount, now)
      <4>1. api_key_policies'[s] = q
        BY <3>1, <3>4 DEF RawCharged
      <4>2. q.maxTxCount = p.maxTxCount
        BY <3>2 DEF Charged, Policies
      <4>3. /\ p.maxTxCount # None /\ p.period # None
            /\ p.period \in Nat \ {0} /\ W \in Times
        BY <4>1, <4>2, <3>2, <1>1, WindowBound
        DEF StoredPolicies, Policies, OptNat
      <4>4. q.periodStart = W /\ q.txCount = NextTxCount(p, now)
        <5>1. Metered(p, kind)
          BY <4>3 DEF Metered
        <5> QED
          BY <3>2, <5>1 DEF Charged, Policies
      <4>5. ledger'[s].txs[W] = ledger[s].txs[W] + 1
        BY <3>1, <3>2, <3>4, <4>3, <1>1, UsedUse DEF Recorded
      <4>6. CASE p.periodStart = W
        <5>1. W # None
          BY <4>3, NoneAssumption DEF Times
        <5>2. p.txCount = ledger[s].txs[W]
          BY <3>1, <4>3, <4>6, <5>1 DEF CounterMatchesLedger
        <5>3. ledger[s].txs[W] \in Nat
          BY <4>3, <1>1 DEF Promise!Uses
        <5>4. NextTxCount(p, now) = ledger[s].txs[W] + 1
          BY <4>6, <5>2, <5>3, NoneAssumption DEF NextTxCount, Rolled, OrZero
        <5> QED
          BY <4>1, <4>3, <4>4, <4>5, <5>4
      <4>7. CASE p.periodStart # W
        <5>1. ledger[s].txs[W] = 0
          <6>1. ledger[s].txs[W] \in Nat
            BY <4>3, <1>1 DEF Promise!Uses
          <6>2. ledger[s].txs[W] > 0 => p.periodStart = W
            BY <3>2, <4>3 DEF Accounted, CountCovers
          <6> QED
            BY <6>1, <6>2, <4>7
        <5>2. NextTxCount(p, now) = 1
          <6>1. Rolled(p, now).txCount = 0
            BY <3>2, <4>7 DEF Rolled, Policies
          <6> QED
            BY <6>1, NoneAssumption DEF NextTxCount, OrZero
        <5> QED
          BY <4>1, <4>3, <4>4, <4>5, <5>1, <5>2
      <4> QED
        BY <4>6, <4>7
    <3> QED
      BY <3>3, <3>4
  <2> QED
    BY <2>1, <2>2
<1>6. ASSUME NEW r \in Signers, r # s, NEW req \in RawRequests,
             AuthorizeRaw(r, req)
      PROVE  api_key_policies'[s] = api_key_policies[s] /\ ledger'[s] = ledger[s]
  BY <1>1, <1>6 DEF AuthorizeRaw
<1>7. \A a \in Accounts, k \in Keys : <<a, k>> \in Signers
  BY DEF Signers
<1>8. CASE UNCHANGED <<api_key_policies, ledger>>
  BY <1>2, <1>8
<1> QED
  BY <1>2, <1>3, <1>4, <1>5, <1>6, <1>7, <1>8
  DEF Next, KeyCalls, PolicyCalls, vars, Tick, AddSubkey, SetSubkeyPaths,
      RemoveSubkey, GrantPolicyManager, RevokePolicyManager, SetSignerPolicy,
      OwnerSetSignerPolicy, RemoveSignerPolicy, OwnerRemoveSignerPolicy

\* Policies written without counters have exact ones from then on: the
\* stored count is the number of calls placed in the stored window.
THEOREM CounterExact == ContractSpec => []CounterMatchesCalls
<1>1. ContractInit => CounterMatchesLedger
  BY DEF ContractInit, Init, CounterMatchesLedger
<1>2. /\ CallInv /\ CounterMatchesLedger /\ [ContractNext]_contractVars
      => CounterMatchesLedger'
  BY RegistryStep, CounterNext DEF CallInv
<1>3. CallInv /\ CounterMatchesLedger => CounterMatchesCalls
  <2> SUFFICES ASSUME CallInv, CounterMatchesLedger,
                      \A input \in PolicyInputs : input.periodStart = None,
                      NEW s \in Signers, api_key_policies[s] # None,
                      api_key_policies[s].maxTxCount # None,
                      api_key_policies[s].periodStart # None
               PROVE  api_key_policies[s].txCount = Cardinality(
                        MeteredCalls(s, api_key_policies[s].periodStart))
    BY DEF CounterMatchesCalls
  <2> DEFINE p == api_key_policies[s]
  <2>1. p.periodStart \in Times /\ p.txCount = ledger[s].txs[p.periodStart]
    BY DEF CounterMatchesLedger
  <2>2. p.period # None
    BY DEF CallInv, Inv, TypeOK, StoredPolicies
  <2> QED
    BY <2>1, <2>2 DEF CallInv, LedgerMatches
<1> QED
  BY <1>1, <1>2, <1>3, CallInvariance, PTL DEF ContractSpec
=============================================================================
