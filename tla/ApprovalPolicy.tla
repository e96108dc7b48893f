--------------------------- MODULE ApprovalPolicy ---------------------------
(***************************************************************************)
(* The decision whether a submitted transaction is signed at once or waits *)
(* for an approval in the wallet (policy/decision.rs).  A pure operator on *)
(* what the decision reads; amounts and limits are numbers of one scale.   *)
(***************************************************************************)
EXTENDS Naturals, Sequences, FiniteSets

CONSTANTS None, Tokens, Amounts

ASSUME AmountsAssumption ==
  /\ Amounts \subseteq Nat
  /\ None \notin Amounts \cup Tokens

MaybeAmounts == Amounts \cup {None}

\* A rule without tokens is for every token.  The field derived is the
\* limit of the quote whose scope is the rule's id.
AssetRules == [tokens : SUBSET Tokens, maxUsd : MaybeAmounts,
               maxNative : MaybeAmounts, derived : MaybeAmounts]

\* The field record is None without a policy record, else whether it parses,
\* is enabled, and its rules.  Legacy is None or the older settings.
\* The amount is None when it is absent, not a number or not positive.
IsRequest(request) ==
  /\ request.vault \in BOOLEAN /\ request.signable \in BOOLEAN
  /\ request.token \in Tokens \cup {None}
  /\ request.usd \in MaybeAmounts
  /\ request.amount \in MaybeAmounts \ {0}
  /\ \/ request.record = None
     \/ /\ request.record.parses \in BOOLEAN
        /\ request.record.enabled \in BOOLEAN
        /\ request.record.rules \in Seq(AssetRules)
  /\ \/ request.legacy = None
     \/ /\ request.legacy.enabled \in BOOLEAN
        /\ request.legacy.max \in MaybeAmounts

Above(amount, limit) == amount # None /\ limit # None /\ amount > limit

LegacyEligible(request) ==
  /\ request.legacy # None
  /\ request.legacy.enabled
  /\ ~Above(request.usd, request.legacy.max)

Applies(rule, request) == rule.tokens = {} \/ request.token \in rule.tokens

\* Slip: the limit of a quote is not looked up.
NativeLimitOfRule(rule) == rule.maxNative

NativeLimit(rule) ==
  IF rule.maxNative # None THEN rule.maxNative ELSE rule.derived

\* A dollar limit and a dollar amount settle it; a native limit of zero is
\* no limit, and so is a limit that there is no amount to compare with.
RuleEligible(rule, request) ==
  IF rule.maxUsd # None /\ request.usd # None
  THEN ~Above(request.usd, rule.maxUsd)
  ELSE \/ NativeLimit(rule) = 0
       \/ ~Above(request.amount, NativeLimit(rule))

\* The first rule that applies decides.
RulesEligible(rules, request) ==
  \E n \in DOMAIN rules :
    /\ Applies(rules[n], request)
    /\ \A k \in 1 .. (n - 1) : ~Applies(rules[k], request)
    /\ RuleEligible(rules[n], request)

Eligible(request) ==
  /\ request.vault      \* a near_vault or remote_signer key
  /\ request.signable   \* on a Solana, EVM or Hedera network
  /\ IF request.record = None THEN LegacyEligible(request)
     ELSE /\ request.record.parses
          /\ request.record.enabled
          /\ RulesEligible(request.record.rules, request)
=============================================================================
