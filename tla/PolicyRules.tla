---------------------------- MODULE PolicyRules ----------------------------
(***************************************************************************)
(* The pure rules of the NEAR subkey contract (near/src/lib.rs): which     *)
(* paths a subkey may sign on, how a decimal limit is read, which policies *)
(* can be stored, and what a stored policy admits.  Nothing here has state *)
(* of its own; SubkeyRegistry applies these rules to the stored policies.  *)
(*                                                                         *)
(* An amount is a natural number of the finest unit in use (1 yocto =      *)
(* 10^-24 coin), so a decimal string is its value.  A parser for d         *)
(* decimals accepts the values that are multiples of its grain (10^(24-d)) *)
(* and fit its integer type.  A panic reverts the whole call, so every     *)
(* require! is a conjunct of a guard.                                      *)
(***************************************************************************)
EXTENDS Naturals

CONSTANTS
  None,            \* the absent value of an Option
  Paths,           \* derivation paths
  Dests,           \* destination addresses
  Tokens,          \* token contracts
  OtherTemplates,  \* template ids without a raw-payload parser
  Grain,           \* parser -> size of its smallest unit
  MaxUnits,        \* parser -> largest amount its integer type holds
  MaxU64           \* largest value of a u64 counter

Chains == {"solana", "evm", "bitcoin", "near"}

Kinds == {"lamports", "yocto", "tokens"}

Parsers == Kinds \cup {"lamports128", "wei", "sats"}

ASSUME NoneAssumption ==
  /\ None \notin Nat
  /\ None \notin Tokens
ASSUME GrainAssumption == Grain \in [Parsers -> Nat \ {0}]
ASSUME MaxUnitsAssumption == MaxUnits \in [Parsers -> Nat]
ASSUME MaxU64Assumption == MaxU64 \in Nat

AssetTypes == {"native", "token", "other"}
TemplateIds == {"sol_native_transfer_v1", "near_native_transfer_v1",
                "near_ft_transfer_v1"} \cup OtherTemplates
OptNat == Nat \cup {None}

Policies == [template : TemplateIds, asset : AssetTypes,
             assetId : Tokens \cup {None},
             maxPerTx : OptNat, maxPerPeriod : OptNat, period : OptNat,
             maxTxCount : OptNat, allow : SUBSET Dests,
             periodStart : OptNat, spent : OptNat, txCount : OptNat]

ASSUME NonePolicyAssumption == None \notin Policies

PathEntries == [chain : Chains, path : Paths]

\* What the payload bytes decode to; "other" is a payload no parser accepts.
Payloads == [kind : {"native", "ft", "other"}, dest : Dests,
             token : Tokens \cup {None}, amount : Nat]

---------------------------------------------------------------------------
(* Paths.                                                                  *)

\* Near falls back to the paths registered for Solana.
IsAllowed(entries, chain, path) ==
  \/ [chain |-> chain, path |-> path] \in entries
  \/ chain = "near" /\ [chain |-> "solana", path |-> path] \in entries

ChainRequiresPolicy(chain) == chain \in {"solana", "evm", "near"}

---------------------------------------------------------------------------
(* Amounts.                                                                *)

\* The amount as the parser reads it, or None when it has too many
\* fractional digits or overflows the integer type.
Parse(parser, s) ==
  IF s = None THEN None
  ELSE IF s % Grain[parser] = 0 /\ s <= MaxUnits[parser] THEN s ELSE None

\* Transaction bytes carry an amount in the chain's own unit.
Decodes(chain, payload) ==
  /\ payload.kind = "native" =>
       \/ chain = "solana" /\ Parse("lamports", payload.amount) # None
       \/ chain = "near" /\ Parse("yocto", payload.amount) # None
  /\ payload.kind = "ft" =>
       /\ chain = "near" /\ payload.token # None
       /\ payload.amount > 0 /\ Parse("tokens", payload.amount) # None

AtMost(n, limit) == limit # None => n <= limit

OrZero(x) == IF x = None THEN 0 ELSE x

---------------------------------------------------------------------------
(* Storing a policy.                                                       *)

Storable(p) ==
  /\ Parse("wei", p.maxPerTx) # None
  /\ (p.maxPerPeriod # None \/ p.maxTxCount # None) => OrZero(p.period) > 0
  /\ p.maxPerPeriod # None => Parse("wei", p.maxPerPeriod) # None
  /\ p.spent # None => Parse("wei", p.spent) # None

\* Slip: the zeros of a submitted policy are stored as they are.
NormalizedAsGiven(p) == p

Normalized(p) ==
  [p EXCEPT !.period = IF @ = 0 THEN None ELSE @,
            !.maxTxCount = IF @ = 0 THEN None ELSE @]

---------------------------------------------------------------------------
(* The caller's policy memo.  It can refuse a request, never admit one:    *)
(* the stored policy is enforced after it on the same parsed payload.      *)

RuleAdmits(rule, kind, payload) ==
  IF kind = "tokens"
    THEN /\ rule.asset = "token" /\ rule.assetId = payload.token
         /\ AtMost(payload.amount, Parse(kind, rule.cap))
    ELSE rule.asset = "native" => AtMost(payload.amount, Parse(kind, rule.cap))

SnapshotAdmits(memo, kind, payload) ==
  LET snap == memo.snapshot IN
  snap # None =>
    /\ snap.templates # {} => memo.template \in snap.templates
    /\ snap.dests # {} => payload.dest \in snap.dests
    /\ snap.rule # None => RuleAdmits(snap.rule, kind, payload)

\* The transfer kind a memo describes on a chain, None when it is ignored.
MemoKind(memo, chain) ==
  CASE /\ chain = "solana"
       /\ memo.template = "sol_native_transfer_v1" -> "lamports"
    [] /\ chain = "near"
       /\ memo.template \in {"near_native_transfer_v1",
                             "sol_native_transfer_v1"} -> "yocto"
    [] /\ chain = "near"
       /\ memo.template = "near_ft_transfer_v1" -> "tokens"
    [] OTHER -> None

MemoAdmits(memo, chain, payload) ==
  memo # None =>
    LET kind == MemoKind(memo, chain) IN
    kind # None =>
      /\ payload.kind = IF kind = "tokens" THEN "ft" ELSE "native"
      /\ memo.params = payload
      /\ SnapshotAdmits(memo, kind, payload)

---------------------------------------------------------------------------
(* The stored policy on a raw payload.                                     *)

\* Under which kind of transfer policy p meters the payload: one of Kinds,
\* "unmetered" (admitted without a check) or "refused".
GoverningKind(p, chain, payload) ==
  CASE chain = "solana" ->
         IF p.asset # "native" \/ p.template # "sol_native_transfer_v1"
           THEN "unmetered"
         ELSE IF payload.kind = "native" THEN "lamports" ELSE "refused"
    [] chain = "near" ->
         IF p.asset = "token" \/ p.template = "near_ft_transfer_v1"
           THEN IF /\ p.asset = "token"
                   /\ p.template = "near_ft_transfer_v1"
                   /\ payload.kind = "ft"
                  THEN "tokens" ELSE "refused"
         ELSE IF \/ p.asset # "native"
                 \/ p.template \notin {"near_native_transfer_v1",
                                       "sol_native_transfer_v1"}
           THEN "unmetered"
         ELSE IF payload.kind = "native" THEN "yocto"
         ELSE IF payload.kind = "ft" /\ p.allow = {} THEN "unmetered"
         ELSE "refused"
    [] OTHER -> "refused"

WindowStart(t, period) == t - (t % period)

\* The policy with its counters restarted unless they belong to the
\* window that contains t.
Rolled(p, t) ==
  IF p.periodStart = WindowStart(t, p.period) THEN p
  ELSE [p EXCEPT !.periodStart = WindowStart(t, p.period),
                 !.spent = 0, !.txCount = 0]

\* A limit the parser cannot read counts as no limit.
Metered(p, kind) ==
  Parse(kind, p.maxPerPeriod) # None \/ p.maxTxCount # None

NextSpent(p, kind, amount, t) ==
  OrZero(Parse(kind, Rolled(p, t).spent)) + amount

NextTxCount(p, t) == OrZero(Rolled(p, t).txCount) + 1

\* Slip: the counters are compared before the transfer is added to them.
AdmitsBeforeCounting(p, kind, payload, t) ==
  /\ p.allow # {} => payload.dest \in p.allow
  /\ AtMost(payload.amount, Parse(kind, p.maxPerTx))
  /\ Metered(p, kind) =>
       /\ p.period # None
       /\ NextSpent(p, kind, payload.amount, t) <= MaxUnits[kind]
       /\ AtMost(OrZero(Parse(kind, Rolled(p, t).spent)),
                 Parse(kind, p.maxPerPeriod))
       /\ AtMost(OrZero(Rolled(p, t).txCount), p.maxTxCount)

\* The checks and the counter update are the same for the three kinds.
AdmitsTransfer(p, kind, payload, t) ==
  /\ p.allow # {} => payload.dest \in p.allow
  /\ AtMost(payload.amount, Parse(kind, p.maxPerTx))
  /\ Metered(p, kind) =>
       /\ p.period # None
       /\ NextSpent(p, kind, payload.amount, t) <= MaxUnits[kind]
       /\ AtMost(NextSpent(p, kind, payload.amount, t),
                 Parse(kind, p.maxPerPeriod))
       /\ NextTxCount(p, t) <= MaxU64
       /\ AtMost(NextTxCount(p, t), p.maxTxCount)

\* Slip: the window the counters belong to is not stored with them.
ChargedWithoutWindow(p, kind, amount, t) ==
  IF Metered(p, kind)
    THEN [p EXCEPT !.spent = NextSpent(p, kind, amount, t),
                   !.txCount = NextTxCount(p, t)]
    ELSE p

\* Slip: a transfer of a policy without an amount limit is not counted.
ChargedByAmount(p, kind, amount, t) ==
  IF Parse(kind, p.maxPerPeriod) # None
    THEN [p EXCEPT !.periodStart = WindowStart(t, p.period),
                   !.spent = NextSpent(p, kind, amount, t),
                   !.txCount = NextTxCount(p, t)]
    ELSE p

Charged(p, kind, amount, t) ==
  IF Metered(p, kind)
    THEN [p EXCEPT !.periodStart = WindowStart(t, p.period),
                   !.spent = NextSpent(p, kind, amount, t),
                   !.txCount = NextTxCount(p, t)]
    ELSE p

AdmitsFt(p, payload, t) ==
  /\ p.assetId # None
  /\ p.assetId = payload.token
  /\ AdmitsTransfer(p, "tokens", payload, t)

RawAdmits(p, chain, payload, t) ==
  LET kind == GoverningKind(p, chain, payload) IN
  \/ kind = "unmetered"
  \/ kind \in {"lamports", "yocto"} /\ AdmitsTransfer(p, kind, payload, t)
  \/ kind = "tokens" /\ AdmitsFt(p, payload, t)

RawCharged(p, chain, payload, t) ==
  LET kind == GoverningKind(p, chain, payload) IN
  IF kind \in Kinds THEN Charged(p, kind, payload.amount, t) ELSE p

---------------------------------------------------------------------------
(* The stored policy on a template request.  It has no period accounting.  *)

TemplateParser(chain) ==
  CASE chain = "solana" -> "lamports128"
    [] chain = "evm" -> "wei"
    [] chain = "bitcoin" -> "sats"
    [] chain = "near" -> "yocto"

\* tpl.kind is the asset type of the template's transaction kind.
ValidTemplateRequest(tpl, req) ==
  /\ tpl.kind = "native" => req.token = None
  /\ tpl.kind = "token" => req.token # None
  /\ tpl.allowedTokens # None => req.token \in tpl.allowedTokens

TemplateAdmits(p, tpl, req) ==
  \/ ~ChainRequiresPolicy(req.chain)
  \/ /\ p # None
     /\ p.template = req.template
     /\ p.allow # {} => req.dest \in p.allow
     /\ p.asset = tpl.kind
     /\ \/ /\ tpl.kind = "token"
           /\ p.assetId # None => p.assetId = req.token
        \/ /\ tpl.kind = "native"
           /\ p.maxPerTx # None =>
                /\ Parse(TemplateParser(req.chain), p.maxPerTx) # None
                /\ req.amount <= Parse(TemplateParser(req.chain), p.maxPerTx)
=============================================================================
