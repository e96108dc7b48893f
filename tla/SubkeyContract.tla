--------------------------- MODULE SubkeyContract ---------------------------
(***************************************************************************)
(* The whole NEAR subkey contract (near/src/lib.rs): the registry and its  *)
(* policies, the owner's templates and token caps, and the signing         *)
(* requests, which are authorized against the first and then wait for the  *)
(* MPC contract.  A request_sign charges the policy in the block that      *)
(* places the call; the outcome is stored in a later one.                  *)
(***************************************************************************)
EXTENDS SubkeyRegistry, FiniteSets

CONSTANTS
  RequestIds, MpcContracts, MaxCalls,  \* as in SigningPromises
  Templates,         \* what the owner sets as templates
  Caps,              \* what the owner sets as token caps
  TemplateRequests   \* the template requests a caller makes

VARIABLES
  templates,        \* chain and template id -> template or None
  token_caps,       \* chain and token, None for native -> cap or None
  sign_results,
  mpc_contract_id,
  calls,
  fresh             \* auxiliary: signer -> the raw calls placed since its
                    \* policy was last written

ownerVars == <<templates, token_caps>>
signingVars == <<sign_results, mpc_contract_id, calls>>
registryVars == vars
contractVars == <<vars, ownerVars, signingVars, fresh>>

\* Who placed a call, and for a raw call what it transfers and when.
Requests ==
  [signer : Signers, raw : BOOLEAN, kind : Kinds \cup {None},
   amount : Amounts \cup {0}, time : Times]

Signing == INSTANCE SigningPromises

ASSUME SigningAssumption ==
  /\ MaxCalls \in Nat
  /\ None \notin RequestIds \cup Signing!Outcomes \cup Kinds
  /\ None \notin Signing!Calls

TemplateKeys == Chains \X TemplateIds
CapKeys == Chains \X (Tokens \cup {None})

\* kind is the asset type of the template's transaction kind.
TemplateRecords == [kind : {"native", "token"},
                    allowedTokens : (SUBSET Tokens) \cup {None}]

ASSUME OwnerInputsAssumption ==
  /\ \A x \in Templates : x.key \in TemplateKeys /\ x.template \in TemplateRecords
  /\ \A x \in Caps : x.key \in CapKeys /\ x.max \in Nat

ContractTypeOK ==
  /\ TypeOK
  /\ templates \in [TemplateKeys -> TemplateRecords \cup {None}]
  /\ token_caps \in [CapKeys -> OptNat]
  /\ Signing!TypeOK
  /\ fresh \in [Signers -> SUBSET Signing!CallIds]

ContractInit ==
  /\ Init
  /\ templates = [key \in TemplateKeys |-> None]
  /\ token_caps = [key \in CapKeys |-> None]
  /\ Signing!Init
  /\ fresh = [s \in Signers |-> {}]

---------------------------------------------------------------------------
(* The owner's templates and caps.                                         *)

SetTemplate(key, template) ==
  /\ templates' = [templates EXCEPT ![key] = template]
  /\ UNCHANGED <<registryVars, token_caps, signingVars, fresh>>

RemoveTemplate(key) ==
  /\ templates[key] # None
  /\ templates' = [templates EXCEPT ![key] = None]
  /\ UNCHANGED <<registryVars, token_caps, signingVars, fresh>>

SetTokenCap(key, max) ==
  /\ token_caps' = [token_caps EXCEPT ![key] = max]
  /\ UNCHANGED <<registryVars, templates, signingVars, fresh>>

RemoveTokenCap(key) ==
  /\ token_caps[key] # None
  /\ token_caps' = [token_caps EXCEPT ![key] = None]
  /\ UNCHANGED <<registryVars, templates, signingVars, fresh>>

---------------------------------------------------------------------------
(* Raw requests.                                                           *)

NewCalls == {c \in Signing!CallIds : calls[c] = None /\ calls'[c] # None}

\* The kind under which the signer's policy meters the request, if it does.
MeteredKind(s, req) ==
  LET p == api_key_policies[s]
      kind == GoverningKind(p, req.chain, req.payload) IN
  IF ChainRequiresPolicy(req.chain) /\ kind \in Kinds THEN kind ELSE None

RawCall(s, req) ==
  [signer |-> s, raw |-> TRUE, kind |-> MeteredKind(s, req),
   amount |-> req.payload.amount, time |-> now]

RequestSign(s, req) ==
  /\ AuthorizeRaw(s, req)
  /\ Signing!Submit(RawCall(s, req))
  /\ fresh' = [fresh EXCEPT ![s] = @ \cup NewCalls]
  /\ UNCHANGED ownerVars

\* Slip: the v2 request checks the policy and does not charge it.
RequestSignV2Uncharged(s, id, req) ==
  /\ Authorized(s, req)
  /\ Signing!SubmitV2(RawCall(s, req), id)
  /\ fresh' = [fresh EXCEPT ![s] = @ \cup NewCalls]
  /\ UNCHANGED <<registryVars, ownerVars>>

\* Slip: a used id ends the call after the policy is charged, without a
\* panic that would revert it.
RequestSignV2ChargedFirst(s, id, req) ==
  /\ AuthorizeRaw(s, req)
  /\ IF sign_results[id] = None
       THEN Signing!SubmitV2(RawCall(s, req), id)
       ELSE UNCHANGED signingVars
  /\ fresh' = [fresh EXCEPT ![s] = @ \cup NewCalls]
  /\ UNCHANGED ownerVars

RequestSignV2(s, id, req) ==
  /\ AuthorizeRaw(s, req)
  /\ Signing!SubmitV2(RawCall(s, req), id)
  /\ fresh' = [fresh EXCEPT ![s] = @ \cup NewCalls]
  /\ UNCHANGED ownerVars

---------------------------------------------------------------------------
(* Template requests: the policy is read and not charged.                  *)

TemplateAuthorized(s, req) ==
  LET tpl == templates[<<req.chain, req.template>>] IN
  /\ IsAllowed(subkeys[s], req.chain, req.path)
  /\ tpl # None
  /\ ValidTemplateRequest(tpl, req)
  /\ TemplateAdmits(api_key_policies[s], tpl, req)
  /\ AtMost(req.amount, token_caps[<<req.chain, req.token>>])

TemplateCall(s) ==
  [signer |-> s, raw |-> FALSE, kind |-> None, amount |-> 0, time |-> now]

\* Slip: a template request is charged like a raw one.
RequestTemplateSignCharged(s, req) ==
  /\ TemplateAuthorized(s, req)
  /\ Signing!Submit(TemplateCall(s))
  /\ api_key_policies' = [api_key_policies EXCEPT ![s] =
       IF @ = None THEN @ ELSE Charged(@, "yocto", req.amount, now)]
  /\ UNCHANGED <<subkeys, subkey_index, policy_managers, now, ledger,
                 ownerVars, fresh>>

RequestTemplateSign(s, req) ==
  /\ TemplateAuthorized(s, req)
  /\ Signing!Submit(TemplateCall(s))
  /\ UNCHANGED <<registryVars, ownerVars, fresh>>

\* Slip: the template request does not check its id.
RequestTemplateSignV2Anyway(s, id, req) ==
  /\ TemplateAuthorized(s, req)
  /\ req.chain = "evm" => req.buildable
  /\ Signing!SubmitV2Anyway(TemplateCall(s), id)
  /\ UNCHANGED <<registryVars, ownerVars, fresh>>

\* On EVM the contract builds what is signed and refuses what it cannot.
RequestTemplateSignV2(s, id, req) ==
  /\ TemplateAuthorized(s, req)
  /\ req.chain = "evm" => req.buildable
  /\ Signing!SubmitV2(TemplateCall(s), id)
  /\ UNCHANGED <<registryVars, ownerVars, fresh>>

---------------------------------------------------------------------------
(* The calls of the components that leave the others alone.                *)

ManageKeys(a, k) ==
  /\ KeyCalls(a, k)
  /\ UNCHANGED <<ownerVars, signingVars, fresh>>

ManagePolicy(a, target) ==
  /\ PolicyCalls(a, target)
  /\ fresh' = [fresh EXCEPT ![<<a, target>>] = {}]
  /\ UNCHANGED <<ownerVars, signingVars>>

AdvanceTime ==
  /\ Tick
  /\ UNCHANGED <<ownerVars, signingVars, fresh>>

MpcAnswer(c) ==
  /\ \E outcome \in Signing!Outcomes : Signing!MpcAnswer(c, outcome)
  /\ UNCHANGED <<registryVars, ownerVars, fresh>>

OnSignComplete(c) ==
  /\ Signing!OnSignComplete(c)
  /\ UNCHANGED <<registryVars, ownerVars, fresh>>

CleanupResults(ids) ==
  /\ Signing!CleanupResults(ids)
  /\ UNCHANGED <<registryVars, ownerVars, fresh>>

SetMpc(mpc) ==
  /\ Signing!SetMpc(mpc)
  /\ UNCHANGED <<registryVars, ownerVars, fresh>>

OwnerCalls ==
  \/ \E x \in Templates : SetTemplate(x.key, x.template)
  \/ \E key \in TemplateKeys : RemoveTemplate(key)
  \/ \E x \in Caps : SetTokenCap(x.key, x.max)
  \/ \E key \in CapKeys : RemoveTokenCap(key)
  \/ \E ids \in SUBSET RequestIds : CleanupResults(ids)
  \/ \E mpc \in MpcContracts : SetMpc(mpc)

SignCalls(s) ==
  \/ \E req \in RawRequests :
       \/ RequestSign(s, req)
       \/ \E id \in RequestIds : RequestSignV2(s, id, req)
  \/ \E req \in TemplateRequests :
       \/ RequestTemplateSign(s, req)
       \/ \E id \in RequestIds : RequestTemplateSignV2(s, id, req)

ContractNext ==
  \/ AdvanceTime
  \/ OwnerCalls
  \/ \E a \in Accounts, k \in Keys :
       ManageKeys(a, k) \/ ManagePolicy(a, k) \/ SignCalls(<<a, k>>)
  \/ \E c \in Signing!CallIds : MpcAnswer(c) \/ OnSignComplete(c)

\* The fairness of SigningPromises: NEAR executes accepted receipts.
ContractFairness ==
  \A c \in Signing!CallIds :
    WF_contractVars(MpcAnswer(c)) /\ WF_contractVars(OnSignComplete(c))

ContractSpec ==
  ContractInit /\ [][ContractNext]_contractVars /\ ContractFairness

---------------------------------------------------------------------------
(* Properties.                                                             *)

\* The fresh calls of a signer that its policy meters in a window.
MeteredCalls(s, w) ==
  {c \in fresh[s] :
     LET request == calls[c].request IN
     /\ request.kind # None
     /\ WindowStart(request.time, api_key_policies[s].period) = w}

\* Every call on the MPC contract that a policy meters is charged once: with
\* the count a policy allows per window, no interleaving of requests,
\* answers, clean-ups, template requests and re-registrations gets more raw
\* calls of a subkey onto the MPC contract in a window.
CallsWithinBudget ==
  \A s \in Signers :
    LET p == api_key_policies[s] IN
    p # None /\ p.maxTxCount # None =>
      \A w \in Times : Cardinality(MeteredCalls(s, w)) <= p.maxTxCount

\* The stored counter is exact: it counts the calls really placed in its
\* window.  A request charged and not placed would use up the budget for
\* nothing, one placed and not charged would exceed it.  A policy that is
\* submitted with counters starts from those instead.
CounterMatchesCalls ==
  (\A input \in PolicyInputs : input.periodStart = None) =>
    \A s \in Signers :
      LET p == api_key_policies[s] IN
      p # None /\ p.maxTxCount # None /\ p.periodStart # None =>
        p.txCount = Cardinality(MeteredCalls(s, p.periodStart))

\* The composition implements the registry: signing, answers and owner calls
\* change the registry only as the registry allows.
RegistrySpec == Spec

\* The composition implements the asynchronous signing of SigningPromises,
\* so that every result and every answer there is one here.
SigningSpec == Signing!Spec

---------------------------------------------------------------------------
(* Why the calls stay within the budget: they are what the ledger has.     *)

FreshPlaced ==
  \A s \in Signers : \A c \in fresh[s] : calls[c] # None

LedgerMatches ==
  \A s \in Signers :
    LET p == api_key_policies[s] IN
    p # None /\ p.period # None =>
      \A w \in Times : ledger[s].txs[w] = Cardinality(MeteredCalls(s, w))

\* The stored counter is what the ledger has for the stored window.
CounterMatchesLedger ==
  (\A input \in PolicyInputs : input.periodStart = None) =>
    \A s \in Signers :
      LET p == api_key_policies[s] IN
      p # None /\ p.maxTxCount # None /\ p.periodStart # None =>
        p.periodStart \in Times /\ p.txCount = ledger[s].txs[p.periodStart]
=============================================================================
