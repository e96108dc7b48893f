--------------------------- MODULE SubkeyRegistry ---------------------------
(***************************************************************************)
(* The registry of the NEAR subkey contract (near/src/lib.rs): the subkeys *)
(* of each account and their paths, the policy managers, and the policy    *)
(* persisted for each subkey with its per-window counters.  A contract     *)
(* call runs alone and reverts when it panics, so each call is one action  *)
(* whose guard is the conjunction of its checks.                           *)
(*                                                                         *)
(* A signer <<a, k>> is the storage key "account|public key".  A direct    *)
(* call of account a is signed by some key k of a, registered or not.      *)
(***************************************************************************)
EXTENDS PolicyRules

CONSTANTS
  Accounts, Keys,
  PathSets,      \* the path lists a caller registers
  PolicyInputs,  \* the policies a caller submits
  RawRequests,   \* the raw requests a caller makes
  MaxTime        \* bound on the block time, in seconds

Signers == Accounts \X Keys
Times == 0 .. MaxTime

ASSUME PathSetsAssumption == PathSets \subseteq (SUBSET PathEntries) \ {{}}
ASSUME PolicyInputsAssumption == PolicyInputs \subseteq Policies
ASSUME RawRequestsAssumption ==
  \A r \in RawRequests :
    /\ r.chain \in Chains /\ r.path \in Paths /\ r.payload \in Payloads
    /\ Decodes(r.chain, r.payload)
ASSUME MaxTimeAssumption == MaxTime \in Nat

VARIABLES
  subkeys,           \* signer -> its paths, {} when it is not registered
  subkey_index,      \* account -> its listed keys
  policy_managers,   \* signer -> its grant or None
  api_key_policies,  \* signer -> its policy or None
  now,               \* block time in seconds
  ledger             \* auxiliary: what each signer was let to transfer in
                     \* each window since its policy was last written

vars == <<subkeys, subkey_index, policy_managers, api_key_policies, now,
          ledger>>

Grants == [can_manage_policies : BOOLEAN, can_manage_self_policy : BOOLEAN]

Amounts == {r.payload.amount : r \in RawRequests}

\* A policy as the ledger's readers see it: without counters, each limit
\* as the kind's own parser reads it.
BudgetOf(p) ==
  IF p = None THEN None
  ELSE [maxTxCount |-> p.maxTxCount,
        cap |-> [kind \in Kinds |-> Parse(kind, p.maxPerPeriod)]]

Promise == INSTANCE SpendingBudget
  WITH Windows <- Times, used <- ledger,
       budget <- [s \in Signers |-> BudgetOf(api_key_policies[s])]

ASSUME NoneBudgetAssumption == None \notin Promise!Budgets

\* What normalize_api_key_policy stores: a limit per transfer, no zero where
\* absence is meant, and no limit per period without a period.
StoredPolicies ==
  {p \in Policies :
     /\ p.maxPerTx # None
     /\ p.period # 0 /\ p.maxTxCount # 0
     /\ p.maxPerPeriod # None \/ p.maxTxCount # None => p.period # None}

TypeOK ==
  /\ subkeys \in [Signers -> SUBSET PathEntries]
  /\ subkey_index \in [Accounts -> SUBSET Keys]
  /\ policy_managers \in [Signers -> Grants \cup {None}]
  /\ api_key_policies \in [Signers -> StoredPolicies \cup {None}]
  /\ now \in Times
  /\ ledger \in [Signers -> Promise!Uses]

Init ==
  /\ subkeys = [s \in Signers |-> {}]
  /\ subkey_index = [a \in Accounts |-> {}]
  /\ policy_managers = [s \in Signers |-> None]
  /\ api_key_policies = [s \in Signers |-> None]
  /\ now = 0
  /\ ledger = [s \in Signers |-> Promise!NoUse]

Registered(s) == subkeys[s] # {}

---------------------------------------------------------------------------
(* Subkeys.  Grants and policies of the subkey are left as they are.       *)

\* Slip: a re-added subkey starts with fresh counters.
AddSubkeyRestarting(a, k, paths) ==
  /\ subkeys' = [subkeys EXCEPT ![<<a, k>>] = paths]
  /\ subkey_index' = [subkey_index EXCEPT ![a] = @ \cup {k}]
  /\ api_key_policies' = [api_key_policies EXCEPT ![<<a, k>>] =
       IF @ = None THEN None
       ELSE [@ EXCEPT !.periodStart = None, !.spent = None, !.txCount = None]]
  /\ UNCHANGED <<policy_managers, now, ledger>>

AddSubkey(a, k, paths) ==
  /\ subkeys' = [subkeys EXCEPT ![<<a, k>>] = paths]
  /\ subkey_index' = [subkey_index EXCEPT ![a] = @ \cup {k}]
  /\ UNCHANGED <<policy_managers, api_key_policies, now, ledger>>

SetSubkeyPaths(a, k, paths) ==
  /\ Registered(<<a, k>>)
  /\ subkeys' = [subkeys EXCEPT ![<<a, k>>] = paths]
  /\ UNCHANGED <<subkey_index, policy_managers, api_key_policies, now, ledger>>

\* Slip: the removed key stays listed.
RemoveSubkeyListed(a, k) ==
  /\ Registered(<<a, k>>)
  /\ subkeys' = [subkeys EXCEPT ![<<a, k>>] = {}]
  /\ UNCHANGED <<subkey_index, policy_managers, api_key_policies, now, ledger>>

RemoveSubkey(a, k) ==
  /\ Registered(<<a, k>>)
  /\ subkeys' = [subkeys EXCEPT ![<<a, k>>] = {}]
  /\ subkey_index' = [subkey_index EXCEPT ![a] = @ \ {k}]
  /\ UNCHANGED <<policy_managers, api_key_policies, now, ledger>>

---------------------------------------------------------------------------
(* Policy managers.                                                        *)

GrantPolicyManager(a, k, self) ==
  /\ Registered(<<a, k>>)
  /\ policy_managers' = [policy_managers EXCEPT ![<<a, k>>] =
       [can_manage_policies |-> TRUE, can_manage_self_policy |-> self]]
  /\ UNCHANGED <<subkeys, subkey_index, api_key_policies, now, ledger>>

RevokePolicyManager(a, k) ==
  /\ policy_managers[<<a, k>>] # None
  /\ policy_managers' = [policy_managers EXCEPT ![<<a, k>>] = None]
  /\ UNCHANGED <<subkeys, subkey_index, api_key_policies, now, ledger>>

\* Whether a call signed by key k of a may write the policy of target: an
\* unregistered key counts as the root wallet's.
CanManagePolicy(a, k, target) ==
  LET grant == policy_managers[<<a, k>>] IN
  \/ ~Registered(<<a, k>>)
  \/ /\ grant # None
     /\ \/ grant.can_manage_policies
        \/ grant.can_manage_self_policy /\ k = target

---------------------------------------------------------------------------
(* Policies.                                                               *)

\* The submitted counters are stored with the policy.
UpsertSignerPolicy(s, p) ==
  /\ Registered(s)
  /\ Storable(p)
  /\ api_key_policies' = [api_key_policies EXCEPT ![s] = Normalized(p)]
  /\ ledger' = [ledger EXCEPT ![s] = Promise!NoUse]
  /\ UNCHANGED <<subkeys, subkey_index, policy_managers, now>>

DropSignerPolicy(s) ==
  /\ api_key_policies[s] # None
  /\ api_key_policies' = [api_key_policies EXCEPT ![s] = None]
  /\ ledger' = [ledger EXCEPT ![s] = Promise!NoUse]
  /\ UNCHANGED <<subkeys, subkey_index, policy_managers, now>>

SetSignerPolicy(a, k, target, p) ==
  /\ CanManagePolicy(a, k, target)
  /\ UpsertSignerPolicy(<<a, target>>, p)

OwnerSetSignerPolicy(a, target, p) == UpsertSignerPolicy(<<a, target>>, p)

RemoveSignerPolicy(a, k, target) ==
  /\ CanManagePolicy(a, k, target)
  /\ DropSignerPolicy(<<a, target>>)

OwnerRemoveSignerPolicy(a, target) == DropSignerPolicy(<<a, target>>)

---------------------------------------------------------------------------
(* Raw signing requests, up to the call of the MPC contract.               *)

Authorized(s, req) ==
  /\ IsAllowed(subkeys[s], req.chain, req.path)
  /\ req.chain # "evm"
  /\ MemoAdmits(req.memo, req.chain, req.payload)
  /\ ChainRequiresPolicy(req.chain) =>
       /\ api_key_policies[s] # None
       /\ RawAdmits(api_key_policies[s], req.chain, req.payload, now)

Recorded(u, p, req, t) ==
  LET kind == GoverningKind(p, req.chain, req.payload) IN
  IF kind \in Kinds /\ p.period # None
    THEN Promise!Used(u, kind, req.payload.amount, WindowStart(t, p.period))
    ELSE u

\* Slip: a request whose memo was checked is not charged again.
AuthorizeTrustingMemo(s, req) ==
  LET p == api_key_policies[s] IN
  /\ Authorized(s, req)
  /\ IF ChainRequiresPolicy(req.chain)
       THEN /\ api_key_policies' = [api_key_policies EXCEPT ![s] =
                 IF req.memo # None THEN p
                 ELSE RawCharged(p, req.chain, req.payload, now)]
            /\ ledger' = [ledger EXCEPT ![s] = Recorded(@, p, req, now)]
       ELSE UNCHANGED <<api_key_policies, ledger>>
  /\ UNCHANGED <<subkeys, subkey_index, policy_managers, now>>

AuthorizeRaw(s, req) ==
  /\ Authorized(s, req)
  /\ IF ChainRequiresPolicy(req.chain)
       THEN LET p == api_key_policies[s] IN
            /\ api_key_policies' = [api_key_policies EXCEPT ![s] =
                 RawCharged(p, req.chain, req.payload, now)]
            /\ ledger' = [ledger EXCEPT ![s] = Recorded(@, p, req, now)]
       ELSE UNCHANGED <<api_key_policies, ledger>>
  /\ UNCHANGED <<subkeys, subkey_index, policy_managers, now>>

\* Blocks do not go back in time.
Tick ==
  /\ now < MaxTime
  /\ now' = now + 1
  /\ UNCHANGED <<subkeys, subkey_index, policy_managers, api_key_policies,
                 ledger>>

KeyCalls(a, k) ==
  \/ \E paths \in PathSets :
       \/ AddSubkey(a, k, paths)
       \/ SetSubkeyPaths(a, k, paths)
  \/ RemoveSubkey(a, k)
  \/ \E self \in BOOLEAN : GrantPolicyManager(a, k, self)
  \/ RevokePolicyManager(a, k)

\* The calls that write the policy of <<a, target>>.
PolicyCalls(a, target) ==
  \/ \E k \in Keys, p \in PolicyInputs : SetSignerPolicy(a, k, target, p)
  \/ \E p \in PolicyInputs : OwnerSetSignerPolicy(a, target, p)
  \/ \E k \in Keys : RemoveSignerPolicy(a, k, target)
  \/ OwnerRemoveSignerPolicy(a, target)

Next ==
  \/ Tick
  \/ \E a \in Accounts, k \in Keys :
       \/ KeyCalls(a, k)
       \/ PolicyCalls(a, k)
       \/ \E req \in RawRequests : AuthorizeRaw(<<a, k>>, req)

Spec == Init /\ [][Next]_vars

---------------------------------------------------------------------------
(* Properties.                                                             *)

\* The listing of list_subkeys is exact: after any sequence of additions,
\* re-additions and removals a key is listed once it can sign and only then.
IndexMatchesSubkeys ==
  \A a \in Accounts : subkey_index[a] = {k \in Keys : Registered(<<a, k>>)}

\* In no window does a subkey get more metered transfers than its policy
\* counts, over all the kinds of transfer the policy meters and through
\* removals and re-additions of the subkey in between.
TxCountBudget ==
  \A s \in Signers, w \in Times :
    /\ api_key_policies[s] # None
    /\ api_key_policies[s].maxTxCount # None
    => ledger[s].txs[w] <= api_key_policies[s].maxTxCount

\* A subkey whose policy meters one kind of transfer is let to transfer at
\* most the period limit in a window, although the sum is kept as a decimal
\* string and restarted when the stored window differs from the current one.
PeriodBudget ==
  \A s \in Signers, kind \in Kinds, w \in Times :
    LET p == api_key_policies[s] IN
    /\ p # None
    /\ ledger[s].kinds \subseteq {kind}
    /\ Parse(kind, p.maxPerPeriod) # None
    => ledger[s].spent[kind][w] <= Parse(kind, p.maxPerPeriod)

\* The native cap of a policy that serves Solana and NEAR transfers holds
\* for the transfers of both together.
NativePeriodBudget ==
  \A s \in Signers, w \in Times :
    LET p == api_key_policies[s] IN
    /\ p # None
    /\ Parse("lamports", p.maxPerPeriod) # None
    => ledger[s].spent["lamports"][w] + ledger[s].spent["yocto"][w]
         <= p.maxPerPeriod

\* The registry implements the budget: a transfer is let through only when
\* the account of its window covers it, and no other call spends.
KeepsBudget == Promise!Spec

---------------------------------------------------------------------------
(* Why the budgets hold: the stored counters of the current window are at  *)
(* least what the ledger has, and the ledger has nothing in later windows. *)

UsedBy(p, u, t) ==
  \A w \in Times :
    /\ u.txs[w] > 0 => p.period # None /\ w <= WindowStart(t, p.period)
    /\ u.txs[w] = 0 => \A kind \in Kinds : u.spent[kind][w] = 0

CountCovers(p, u, t) ==
  p.maxTxCount # None =>
    \A w \in Times :
      /\ u.txs[w] <= p.maxTxCount
      /\ u.txs[w] > 0 /\ w = WindowStart(t, p.period) =>
           p.periodStart = w /\ u.txs[w] <= OrZero(p.txCount)

SpentCovers(p, u, t, kind) ==
  u.kinds \subseteq {kind} /\ Parse(kind, p.maxPerPeriod) # None =>
    \A w \in Times :
      /\ u.spent[kind][w] <= Parse(kind, p.maxPerPeriod)
      /\ u.txs[w] > 0 /\ w = WindowStart(t, p.period) =>
           p.periodStart = w /\ u.spent[kind][w] <= OrZero(Parse(kind, p.spent))

Accounted(p, u, t) ==
  /\ UsedBy(p, u, t)
  /\ CountCovers(p, u, t)
  /\ \A kind \in Kinds : SpentCovers(p, u, t, kind)

LedgerAccounted ==
  \A s \in Signers :
    IF api_key_policies[s] = None THEN ledger[s] = Promise!NoUse
    ELSE Accounted(api_key_policies[s], ledger[s], now)
=============================================================================
