------------------------ MODULE SubkeyRegistryProofs ------------------------
(***************************************************************************)
(* The registry keeps every budget, for any accounts, keys, policies,      *)
(* requests, units and integer widths.  The argument: the counters of the  *)
(* current window are at least what the ledger has for it, because a sum   *)
(* of amounts of one kind stays a multiple of the kind's grain and is read *)
(* back exactly, and because windows never come back (LedgerAccounted).    *)
(***************************************************************************)
EXTENDS SubkeyRegistry, TLAPS

---------------------------------------------------------------------------
(* Arithmetic of grains and windows.                                       *)

\* A multiple of g, as a product.
LEMMA MultipleIsProduct ==
  ASSUME NEW g \in Nat \ {0}, NEW a \in Nat, a % g = 0
  PROVE  \E q \in Nat : a = g * q
<1>1. a \div g \in Nat /\ a = g * (a \div g)
  BY SMT
<1> QED
  BY <1>1, Zenon

\* A sum of multiples of a grain is one: no fraction of a unit appears.
LEMMA GrainSum ==
  ASSUME NEW g \in Nat \ {0}, NEW a \in Nat, NEW b \in Nat,
         a % g = 0, b % g = 0
  PROVE  (a + b) % g = 0
<1>1. PICK m \in Nat : a = g * m
  BY MultipleIsProduct
<1>2. PICK n \in Nat : b = g * n
  BY MultipleIsProduct
<1>3. m + n \in Nat /\ a + b = g * (m + n)
  BY <1>1, <1>2, SMT
<1>4. \A q \in Nat : (g * q) % g = 0
  BY SMT
<1> QED
  BY <1>3, <1>4, Zenon

\* A window starts no later than the time it contains.
LEMMA WindowBound ==
  ASSUME NEW period \in Nat \ {0}, NEW t \in Times
  PROVE  WindowStart(t, period) \in Times /\ WindowStart(t, period) <= t
<1>1. t \in Nat /\ t <= MaxTime /\ MaxTime \in Nat
  BY MaxTimeAssumption DEF Times
<1>2. t % period \in Nat /\ t % period <= t
  BY <1>1, SMT
<1> QED
  BY <1>1, <1>2 DEF WindowStart, Times

\* Windows do not go back when time does not.
LEMMA WindowMonotone ==
  ASSUME NEW period \in Nat \ {0}, NEW t \in Nat, NEW u \in Nat, t <= u
  PROVE  WindowStart(t, period) <= WindowStart(u, period)
  BY SMT DEF WindowStart

---------------------------------------------------------------------------
(* The operators of PolicyRules.                                           *)

\* An amount a parser reads is the amount written.
LEMMA ParseReads ==
  ASSUME NEW kind \in Kinds, NEW x \in OptNat
  PROVE  /\ Parse(kind, x) \in OptNat
         /\ Parse(kind, x) # None =>
              /\ x \in Nat /\ Parse(kind, x) = x
              /\ x % Grain[kind] = 0 /\ x <= MaxUnits[kind]
         /\ OrZero(Parse(kind, x)) \in Nat
         /\ OrZero(Parse(kind, x)) % Grain[kind] = 0
         /\ OrZero(x) \in Nat
<1>1. Grain[kind] \in Nat \ {0} /\ MaxUnits[kind] \in Nat
  BY GrainAssumption, MaxUnitsAssumption DEF Parsers
<1>2. 0 % Grain[kind] = 0
  BY <1>1, SMT
<1> QED
  BY <1>1, <1>2, NoneAssumption DEF Parse, OptNat, OrZero

\* What normalize_api_key_policy stores is a policy without zero limits.
LEMMA NormalizedStored ==
  ASSUME NEW p \in Policies, Storable(p)
  PROVE  Normalized(p) \in StoredPolicies
<1>1. Normalized(p) \in Policies
  <2>1. \A x, y \in OptNat :
          [p EXCEPT !.period = x, !.maxTxCount = y] \in Policies
    BY DEF Policies
  <2>2. /\ p.period \in OptNat /\ p.maxTxCount \in OptNat
        /\ None \in OptNat
    BY DEF Policies, OptNat
  <2> QED
    BY <2>1, <2>2 DEF Normalized
<1>2. /\ Normalized(p).period = IF p.period = 0 THEN None ELSE p.period
      /\ Normalized(p).maxPerPeriod = p.maxPerPeriod
      /\ Normalized(p).maxPerTx = p.maxPerTx
      /\ Normalized(p).maxTxCount = IF p.maxTxCount = 0 THEN None
                                    ELSE p.maxTxCount
  BY DEF Normalized, Policies
<1>3. p.period \in OptNat
  BY DEF Policies
<1>4. p.maxPerTx # None
  BY DEF Storable, Parse
<1> QED
  BY <1>1, <1>2, <1>3, <1>4, NoneAssumption
  DEF Storable, StoredPolicies, OrZero, OptNat

\* The sum a transfer leaves is read back exactly by the same parser, and
\* the counters go on from those of the policy within a window.
LEMMA NextCounters ==
  ASSUME NEW p \in Policies, NEW kind \in Kinds, NEW amount \in Nat,
         NEW t \in Times, p.period # None,
         Parse(kind, amount) # None
  PROVE  LET next == NextSpent(p, kind, amount, t) IN
         /\ next \in Nat /\ NextTxCount(p, t) \in Nat \ {0}
         /\ amount <= next
         /\ next <= MaxUnits[kind] => Parse(kind, next) = next
         /\ p.periodStart = WindowStart(t, p.period) =>
              /\ next = OrZero(Parse(kind, p.spent)) + amount
              /\ NextTxCount(p, t) = OrZero(p.txCount) + 1
<1>1. /\ p.spent \in OptNat /\ p.txCount \in OptNat
      /\ 0 \in OptNat
  BY DEF Policies, OptNat
<1>2. /\ Rolled(p, t).spent \in OptNat /\ Rolled(p, t).txCount \in OptNat
      /\ p.periodStart = WindowStart(t, p.period) => Rolled(p, t) = p
  BY <1>1 DEF Rolled, Policies
<1> DEFINE spent == OrZero(Parse(kind, Rolled(p, t).spent))
<1>3. spent \in Nat /\ spent % Grain[kind] = 0
  BY <1>2, ParseReads
<1>4. amount % Grain[kind] = 0
  BY ParseReads DEF OptNat, Parse
<1>5. Grain[kind] \in Nat \ {0} /\ MaxUnits[kind] \in Nat
  BY GrainAssumption, MaxUnitsAssumption DEF Parsers
<1>6. (spent + amount) % Grain[kind] = 0
  BY <1>3, <1>4, <1>5, GrainSum
<1>7. spent + amount \in Nat /\ amount <= spent + amount
      /\ spent + amount # None
  BY <1>3, NoneAssumption
<1>8. OrZero(Rolled(p, t).txCount) \in Nat
  BY <1>2, ParseReads
<1>9. NextSpent(p, kind, amount, t) = spent + amount
  BY DEF NextSpent
<1>10. NextTxCount(p, t) \in Nat \ {0}
  BY <1>8 DEF NextTxCount
<1>11. spent + amount <= MaxUnits[kind]
         => Parse(kind, spent + amount) = spent + amount
  BY <1>6, <1>7 DEF Parse
<1>12. p.periodStart = WindowStart(t, p.period) =>
         /\ spent = OrZero(Parse(kind, p.spent))
         /\ NextTxCount(p, t) = OrZero(p.txCount) + 1
  BY <1>2 DEF NextTxCount
<1> HIDE DEF spent
<1> QED
  BY <1>7, <1>9, <1>10, <1>11, <1>12

\* Charging writes the three counters and nothing else.
LEMMA ChargedPolicy ==
  ASSUME NEW p \in StoredPolicies, NEW kind \in Kinds, NEW amount \in Nat,
         NEW t \in Times, p.period # None,
         Parse(kind, amount) # None
  PROVE  LET q == Charged(p, kind, amount, t) IN
         /\ q \in StoredPolicies
         /\ q.period = p.period /\ q.maxPerPeriod = p.maxPerPeriod
         /\ q.maxTxCount = p.maxTxCount
         /\ Metered(p, kind) =>
              /\ q.periodStart = WindowStart(t, p.period)
              /\ q.spent = NextSpent(p, kind, amount, t)
              /\ q.txCount = NextTxCount(p, t)
<1>1. p \in Policies /\ p.period \in Nat \ {0}
  BY DEF StoredPolicies, Policies, OptNat
<1>2. WindowStart(t, p.period) \in OptNat
  BY <1>1, WindowBound DEF OptNat, Times
<1>3. /\ NextSpent(p, kind, amount, t) \in OptNat
      /\ NextTxCount(p, t) \in OptNat
  BY <1>1, NextCounters DEF OptNat
<1> DEFINE q == [p EXCEPT !.periodStart = WindowStart(t, p.period),
                          !.spent = NextSpent(p, kind, amount, t),
                          !.txCount = NextTxCount(p, t)]
<1>4. /\ q \in Policies /\ q.maxPerTx = p.maxPerTx
      /\ q.period = p.period /\ q.maxPerPeriod = p.maxPerPeriod
      /\ q.maxTxCount = p.maxTxCount
      /\ q.periodStart = WindowStart(t, p.period)
      /\ q.spent = NextSpent(p, kind, amount, t)
      /\ q.txCount = NextTxCount(p, t)
  BY <1>1, <1>2, <1>3 DEF Policies
<1>5. Charged(p, kind, amount, t) = IF Metered(p, kind) THEN q ELSE p
  BY DEF Charged
<1> HIDE DEF q
<1> QED
  BY <1>4, <1>5 DEF StoredPolicies

\* A use adds one transfer and its amount to one window.
LEMMA UsedUse ==
  ASSUME NEW u \in Promise!Uses, NEW kind \in Kinds, NEW amount \in Nat,
         NEW w \in Times
  PROVE  LET v == Promise!Used(u, kind, amount, w) IN
         /\ v \in Promise!Uses
         /\ v.kinds = u.kinds \cup {kind}
         /\ \A x \in Times :
              v.txs[x] = IF x = w THEN u.txs[x] + 1 ELSE u.txs[x]
         /\ \A k \in Kinds, x \in Times :
              v.spent[k][x] = IF k = kind /\ x = w
                                THEN u.spent[k][x] + amount ELSE u.spent[k][x]
<1>1. /\ u.kinds \in SUBSET Kinds /\ u.txs \in [Times -> Nat]
      /\ u.spent \in [Kinds -> [Times -> Nat]]
  BY DEF Promise!Uses
<1> DEFINE txs == [u.txs EXCEPT ![w] = @ + 1]
           spent == [u.spent EXCEPT ![kind][w] = @ + amount]
<1>2. txs \in [Times -> Nat]
  BY <1>1
<1>3. spent \in [Kinds -> [Times -> Nat]]
  BY <1>1
<1>4. /\ \A x \in Times : txs[x] = IF x = w THEN u.txs[x] + 1 ELSE u.txs[x]
      /\ \A k \in Kinds, x \in Times :
           spent[k][x] = IF k = kind /\ x = w
                           THEN u.spent[k][x] + amount ELSE u.spent[k][x]
  BY <1>1
<1>5. Promise!Used(u, kind, amount, w) =
        [kinds |-> u.kinds \cup {kind}, txs |-> txs, spent |-> spent]
  BY DEF Promise!Used
<1> HIDE DEF txs, spent
<1> QED
  BY <1>1, <1>2, <1>3, <1>4, <1>5 DEF Promise!Uses

\* The heart of the argument: a transfer the policy admits leaves counters
\* that cover the ledger's account of it.
LEMMA TransferAccounted ==
  ASSUME NEW p \in StoredPolicies, NEW u \in Promise!Uses, NEW t \in Times,
         NEW kind \in Kinds, NEW payload \in Payloads,
         p.period # None, Parse(kind, payload.amount) # None,
         Accounted(p, u, t), AdmitsTransfer(p, kind, payload, t)
  PROVE  Accounted(Charged(p, kind, payload.amount, t),
                   Promise!Used(u, kind, payload.amount,
                                WindowStart(t, p.period)), t)
<1> DEFINE amount == payload.amount
           W == WindowStart(t, p.period)
           q == Charged(p, kind, amount, t)
           v == Promise!Used(u, kind, amount, W)
           next == NextSpent(p, kind, amount, t)
           count == NextTxCount(p, t)
<1>1. amount \in Nat /\ Parse(kind, amount) # None
  BY DEF Payloads
<1>2. p \in Policies /\ p.period \in Nat \ {0}
  BY DEF StoredPolicies, Policies, OptNat
<1>3. W \in Times
  BY <1>2, WindowBound
<1>4. /\ u.kinds \in SUBSET Kinds /\ u.txs \in [Times -> Nat]
      /\ u.spent \in [Kinds -> [Times -> Nat]]
  BY DEF Promise!Uses
<1>5. /\ v \in Promise!Uses
      /\ v.kinds = u.kinds \cup {kind}
      /\ \A x \in Times :
           v.txs[x] = IF x = W THEN u.txs[x] + 1 ELSE u.txs[x]
      /\ \A k \in Kinds, x \in Times :
           v.spent[k][x] = IF k = kind /\ x = W
                             THEN u.spent[k][x] + amount ELSE u.spent[k][x]
  BY <1>1, <1>3, UsedUse
<1>6. /\ q \in StoredPolicies
      /\ q.period = p.period /\ q.maxPerPeriod = p.maxPerPeriod
      /\ q.maxTxCount = p.maxTxCount
      /\ Metered(p, kind) =>
           q.periodStart = W /\ q.spent = next /\ q.txCount = count
  BY <1>1, <1>2, ChargedPolicy
<1>7. /\ next \in Nat /\ count \in Nat \ {0} /\ amount <= next
      /\ next <= MaxUnits[kind] => Parse(kind, next) = next
      /\ p.periodStart = W =>
           /\ next = OrZero(Parse(kind, p.spent)) + amount
           /\ count = OrZero(p.txCount) + 1
  BY <1>1, <1>2, NextCounters
<1>8. Metered(p, kind) =>
        /\ next <= MaxUnits[kind]
        /\ AtMost(next, Parse(kind, p.maxPerPeriod))
        /\ AtMost(count, p.maxTxCount)
  BY DEF AdmitsTransfer
<1>9. /\ p.maxPerPeriod \in OptNat /\ p.maxTxCount \in OptNat
      /\ p.spent \in OptNat /\ p.txCount \in OptNat
  BY <1>2 DEF Policies
<1>10. WindowStart(t, q.period) = W
  BY <1>6
<1> HIDE DEF amount, W, q, v, next, count
<1>11. UsedBy(q, v, t)
  <2> SUFFICES ASSUME NEW w \in Times
               PROVE  /\ v.txs[w] > 0 => w <= W
                      /\ v.txs[w] = 0 => \A k \in Kinds : v.spent[k][w] = 0
    BY <1>6, <1>10 DEF UsedBy
  <2>1. /\ u.txs[w] \in Nat
        /\ u.txs[w] > 0 => w <= W
        /\ u.txs[w] = 0 => \A k \in Kinds : u.spent[k][w] = 0
    BY <1>4 DEF Accounted, UsedBy, W
  <2>2. CASE w = W
    BY <2>1, <2>2, <1>3, <1>5 DEF Times
  <2>3. CASE w # W
    BY <2>1, <2>3, <1>5
  <2> QED
    BY <2>2, <2>3
<1>12. CountCovers(q, v, t)
  <2> SUFFICES ASSUME q.maxTxCount # None, NEW w \in Times
               PROVE  /\ v.txs[w] <= q.maxTxCount
                      /\ v.txs[w] > 0 /\ w = W =>
                           q.periodStart = w /\ v.txs[w] <= OrZero(q.txCount)
    BY <1>10 DEF CountCovers
  <2>1. /\ u.txs[w] \in Nat /\ u.txs[w] <= p.maxTxCount
        /\ u.txs[w] > 0 /\ w = W =>
             p.periodStart = w /\ u.txs[w] <= OrZero(p.txCount)
    BY <1>4, <1>6 DEF Accounted, CountCovers, W
  <2>2. /\ q.periodStart = W /\ q.txCount = count
        /\ count <= p.maxTxCount /\ p.maxTxCount \in Nat
    BY <1>6, <1>8, <1>9 DEF Metered, AtMost, OptNat
  <2>3. OrZero(q.txCount) = count
    BY <2>2, <1>7, NoneAssumption DEF OrZero
  <2>4. CASE w = W
    <3>1. OrZero(p.txCount) \in Nat
      BY <1>9, ParseReads
    <3>2. u.txs[w] + 1 <= count
      BY <2>1, <2>4, <3>1, <1>7
    <3> QED
      BY <3>2, <2>1, <2>2, <2>3, <2>4, <1>5, <1>6, <1>7
  <2>5. CASE w # W
    BY <2>1, <2>5, <1>5, <1>6
  <2> QED
    BY <2>4, <2>5
<1>13. ASSUME NEW k \in Kinds PROVE SpentCovers(q, v, t, k)
  <2> SUFFICES ASSUME v.kinds \subseteq {k},
                      Parse(k, q.maxPerPeriod) # None, NEW w \in Times
               PROVE  /\ v.spent[k][w] <= Parse(k, q.maxPerPeriod)
                      /\ v.txs[w] > 0 /\ w = W =>
                           /\ q.periodStart = w
                           /\ v.spent[k][w] <= OrZero(Parse(k, q.spent))
    BY <1>10 DEF SpentCovers
  <2>1. k = kind /\ u.kinds \subseteq {k}
    BY <1>5
  <2>2. /\ u.spent[k][w] \in Nat /\ u.txs[w] \in Nat
        /\ u.spent[k][w] <= Parse(k, p.maxPerPeriod)
        /\ u.txs[w] > 0 /\ w = W =>
             /\ p.periodStart = w
             /\ u.spent[k][w] <= OrZero(Parse(k, p.spent))
    BY <2>1, <1>4, <1>6 DEF Accounted, SpentCovers, W
  <2>3. u.txs[w] = 0 => u.spent[k][w] = 0
    BY DEF Accounted, UsedBy
  <2>4. /\ q.periodStart = W /\ q.spent = next
        /\ next <= Parse(k, p.maxPerPeriod)
        /\ Parse(k, next) = next
    BY <2>1, <1>6, <1>7, <1>8 DEF Metered, AtMost
  <2>5. OrZero(Parse(k, q.spent)) = next
    BY <2>4, <1>7, NoneAssumption DEF OrZero
  <2>6. CASE w = W
    <3>1. OrZero(Parse(k, p.spent)) \in Nat
      BY <1>9, ParseReads
    <3>2. u.spent[k][w] + amount <= next
      BY <2>1, <2>2, <2>3, <2>6, <3>1, <1>1, <1>7 DEF amount
    <3>3. Parse(k, p.maxPerPeriod) \in Nat
      BY <1>6, <1>9, ParseReads
    <3> QED
      BY <3>2, <3>3, <2>1, <2>2, <2>4, <2>5, <2>6, <1>1, <1>5, <1>6, <1>7
      DEF amount
  <2>7. CASE w # W
    BY <2>2, <2>7, <1>5, <1>6
  <2> QED
    BY <2>6, <2>7
<1> QED
  BY <1>11, <1>12, <1>13 DEF Accounted, q, v, W, amount

\* The same for a policy that did not meter the transfer or the request.
LEMMA RawAccounted ==
  ASSUME NEW p \in StoredPolicies, NEW u \in Promise!Uses, NEW t \in Times,
         NEW req \in RawRequests, Accounted(p, u, t),
         RawAdmits(p, req.chain, req.payload, t)
  PROVE  LET q == RawCharged(p, req.chain, req.payload, t)
             v == Recorded(u, p, req, t)
         IN  /\ q \in StoredPolicies /\ v \in Promise!Uses
             /\ BudgetOf(q) = BudgetOf(p)
             /\ Accounted(q, v, t)
<1> DEFINE kind == GoverningKind(p, req.chain, req.payload)
           amount == req.payload.amount
<1>1. /\ req.chain \in Chains /\ req.payload \in Payloads
      /\ Decodes(req.chain, req.payload)
  BY RawRequestsAssumption
<1>2. amount \in Nat
  BY <1>1 DEF Payloads
<1>3. p \in Policies /\ p # None /\ p.period \in OptNat \ {0}
  BY NonePolicyAssumption DEF StoredPolicies, Policies
<1>4. CASE kind \notin Kinds
  BY <1>3, <1>4 DEF RawCharged, Recorded
<1>5. CASE kind \in Kinds
  <2>1. /\ Parse(kind, amount) # None
        /\ AdmitsTransfer(p, kind, req.payload, t)
    <3>1. AdmitsTransfer(p, kind, req.payload, t)
      BY <1>5 DEF RawAdmits, AdmitsFt, Kinds
    <3>2. \/ /\ req.chain = "solana" /\ kind = "lamports"
             /\ req.payload.kind = "native"
          \/ /\ req.chain = "near" /\ kind = "yocto"
             /\ req.payload.kind = "native"
          \/ /\ req.chain = "near" /\ kind = "tokens"
             /\ req.payload.kind = "ft"
      BY <1>1, <1>5 DEF GoverningKind, Kinds, Chains
    <3> QED
      BY <3>1, <3>2, <1>1 DEF Decodes
  <2>2. CASE p.period = None
    <3>1. ~Metered(p, kind)
      BY <2>1, <2>2 DEF AdmitsTransfer
    <3> QED
      BY <3>1, <2>2, <1>3 DEF RawCharged, Recorded, Charged
  <2>3. CASE p.period # None
    <3> DEFINE q == Charged(p, kind, amount, t)
               v == Promise!Used(u, kind, amount, WindowStart(t, p.period))
    <3>1. /\ RawCharged(p, req.chain, req.payload, t) = q
          /\ Recorded(u, p, req, t) = v
      BY <1>5, <2>3 DEF RawCharged, Recorded
    <3>2. /\ q \in StoredPolicies /\ q.maxPerPeriod = p.maxPerPeriod
          /\ q.maxTxCount = p.maxTxCount
      BY <1>2, <1>3, <1>5, <2>1, <2>3, ChargedPolicy
    <3>3. WindowStart(t, p.period) \in Times
      BY <1>3, <2>3, WindowBound DEF OptNat
    <3>4. v \in Promise!Uses
      BY <1>2, <1>5, <3>3, UsedUse
    <3>5. Accounted(q, v, t)
      BY <1>1, <1>5, <2>1, <2>3, TransferAccounted
    <3>6. BudgetOf(q) = BudgetOf(p)
      BY <3>2, <1>3, NonePolicyAssumption DEF BudgetOf, StoredPolicies
    <3> HIDE DEF q, v
    <3> QED
      BY <3>1, <3>2, <3>4, <3>5, <3>6
  <2> QED
    BY <2>2, <2>3
<1> QED
  BY <1>4, <1>5

\* A policy just written covers the empty account, whatever counters came
\* with it.
LEMMA FreshAccounted ==
  ASSUME NEW p \in StoredPolicies, NEW t \in Times
  PROVE  Promise!NoUse \in Promise!Uses /\ Accounted(p, Promise!NoUse, t)
<1>1. /\ Promise!NoUse.kinds = {}
      /\ \A w \in Times : Promise!NoUse.txs[w] = 0
      /\ \A k \in Kinds, w \in Times : Promise!NoUse.spent[k][w] = 0
  BY DEF Promise!NoUse
<1>2. Promise!NoUse \in Promise!Uses
  BY DEF Promise!NoUse, Promise!Uses
<1>3. UsedBy(p, Promise!NoUse, t)
  BY <1>1 DEF UsedBy
<1>4. CountCovers(p, Promise!NoUse, t)
  BY <1>1 DEF CountCovers, StoredPolicies, Policies, OptNat
<1>5. ASSUME NEW k \in Kinds PROVE SpentCovers(p, Promise!NoUse, t, k)
  <2>1. Parse(k, p.maxPerPeriod) \in OptNat
    BY ParseReads DEF StoredPolicies, Policies
  <2> QED
    BY <1>1, <2>1 DEF SpentCovers, OptNat
<1> QED
  BY <1>2, <1>3, <1>4, <1>5 DEF Accounted

\* Time only empties the current window.
LEMMA LaterAccounted ==
  ASSUME NEW p \in StoredPolicies, NEW u \in Promise!Uses, NEW t \in Times,
         t + 1 \in Times, Accounted(p, u, t)
  PROVE  Accounted(p, u, t + 1)
<1>1. p.period \in OptNat \ {0}
  BY DEF StoredPolicies, Policies
<1>2. u.txs \in [Times -> Nat]
  BY DEF Promise!Uses
<1>3. ASSUME NEW w \in Times, u.txs[w] > 0
      PROVE  /\ p.period # None
             /\ w <= WindowStart(t + 1, p.period)
             /\ w = WindowStart(t + 1, p.period) => w = WindowStart(t, p.period)
  <2>1. p.period \in Nat \ {0} /\ w <= WindowStart(t, p.period)
    BY <1>1, <1>3 DEF Accounted, UsedBy, OptNat
  <2>2. t \in Nat /\ t + 1 \in Nat /\ t <= t + 1 /\ w \in Nat
    BY DEF Times
  <2>3. WindowStart(t, p.period) <= WindowStart(t + 1, p.period)
    BY <2>1, <2>2, WindowMonotone
  <2>4. /\ WindowStart(t, p.period) \in Times
        /\ WindowStart(t + 1, p.period) \in Times
    BY <2>1, WindowBound
  <2> QED
    BY <2>1, <2>2, <2>3, <2>4, NoneAssumption DEF Times
<1>4. UsedBy(p, u, t + 1)
  BY <1>3 DEF Accounted, UsedBy
<1>5. CountCovers(p, u, t + 1)
  BY <1>3 DEF Accounted, CountCovers
<1>6. ASSUME NEW k \in Kinds PROVE SpentCovers(p, u, t + 1, k)
  BY <1>3 DEF Accounted, SpentCovers
<1> QED
  BY <1>4, <1>5, <1>6 DEF Accounted

---------------------------------------------------------------------------
(* The inductive invariant.                                                *)

Inv == TypeOK /\ LedgerAccounted

\* An empty contract has nothing to account for.
LEMMA InitInv == Init => Inv
<1> SUFFICES ASSUME Init PROVE Inv
  OBVIOUS
<1>1. Promise!NoUse \in Promise!Uses
  BY DEF Promise!NoUse, Promise!Uses
<1>2. 0 \in Times
  BY MaxTimeAssumption DEF Times
<1> QED
  BY <1>1, <1>2 DEF Init, Inv, TypeOK, LedgerAccounted

\* A policy write keeps the invariant.
LEMMA UpsertInv ==
  ASSUME Inv, NEW s \in Signers, NEW p \in PolicyInputs,
         UpsertSignerPolicy(s, p)
  PROVE  Inv'
<1> DEFINE q == Normalized(p)
<1>1. q \in StoredPolicies
  BY PolicyInputsAssumption, NormalizedStored DEF UpsertSignerPolicy
<1>2. now \in Times
  BY DEF Inv, TypeOK
<1>3. Promise!NoUse \in Promise!Uses /\ Accounted(q, Promise!NoUse, now)
  BY <1>1, <1>2, FreshAccounted
<1> HIDE DEF q
<1>4. TypeOK'
  BY <1>1, <1>3 DEF Inv, TypeOK, UpsertSignerPolicy, q
<1>5. LedgerAccounted'
  BY <1>3 DEF Inv, TypeOK, LedgerAccounted, UpsertSignerPolicy, q
<1> QED
  BY <1>4, <1>5 DEF Inv

\* So does the removal of a policy.
LEMMA DropInv ==
  ASSUME Inv, NEW s \in Signers, DropSignerPolicy(s)
  PROVE  Inv'
<1>1. Promise!NoUse \in Promise!Uses
  BY DEF Promise!NoUse, Promise!Uses
<1> QED
  BY <1>1 DEF Inv, TypeOK, LedgerAccounted, DropSignerPolicy

\* A raw request keeps the invariant.
LEMMA AuthorizeInv ==
  ASSUME Inv, NEW s \in Signers, NEW req \in RawRequests,
         AuthorizeRaw(s, req)
  PROVE  Inv'
<1>1. CASE ~ChainRequiresPolicy(req.chain)
  BY <1>1 DEF Inv, TypeOK, LedgerAccounted, AuthorizeRaw
<1>2. CASE ChainRequiresPolicy(req.chain)
  <2> DEFINE p == api_key_policies[s]
             q == RawCharged(p, req.chain, req.payload, now)
             v == Recorded(ledger[s], p, req, now)
  <2>1. /\ p # None /\ RawAdmits(p, req.chain, req.payload, now)
        /\ api_key_policies' = [api_key_policies EXCEPT ![s] = q]
        /\ ledger' = [ledger EXCEPT ![s] = v]
        /\ UNCHANGED <<subkeys, subkey_index, policy_managers, now>>
    BY <1>2 DEF AuthorizeRaw, Authorized
  <2>2. /\ p \in StoredPolicies /\ ledger[s] \in Promise!Uses /\ now \in Times
        /\ Accounted(p, ledger[s], now)
    BY <2>1 DEF Inv, TypeOK, LedgerAccounted
  <2>3. /\ q \in StoredPolicies /\ v \in Promise!Uses
        /\ Accounted(q, v, now)
    BY <2>1, <2>2, RawAccounted
  <2>4. q # None
    BY <2>3, NonePolicyAssumption DEF StoredPolicies
  <2> HIDE DEF p, q, v
  <2> QED
    BY <2>1, <2>3, <2>4 DEF Inv, TypeOK, LedgerAccounted
<1> QED
  BY <1>1, <1>2

\* Every call, and the passing of time, keep the invariant.
LEMMA NextInv == Inv /\ [Next]_vars => Inv'
<1> SUFFICES ASSUME Inv, [Next]_vars PROVE Inv'
  OBVIOUS
<1>1. ASSUME NEW a \in Accounts, NEW k \in Keys
      PROVE  <<a, k>> \in Signers
  BY DEF Signers
<1>2. CASE Tick
  <2>1. /\ now \in Times /\ now + 1 \in Times
        /\ now' = now + 1
        /\ UNCHANGED <<subkeys, subkey_index, policy_managers,
                       api_key_policies, ledger>>
    BY <1>2, MaxTimeAssumption DEF Tick, Inv, TypeOK, Times
  <2>2. TypeOK'
    BY <2>1 DEF Inv, TypeOK
  <2>3. ASSUME NEW s \in Signers, api_key_policies[s] # None
        PROVE  Accounted(api_key_policies[s], ledger[s], now + 1)
    <3>1. /\ api_key_policies[s] \in StoredPolicies /\ ledger[s] \in Promise!Uses
          /\ Accounted(api_key_policies[s], ledger[s], now)
      BY <2>3 DEF Inv, TypeOK, LedgerAccounted
    <3> QED
      BY <3>1, <2>1, LaterAccounted
  <2>4. LedgerAccounted'
    BY <2>1, <2>3 DEF Inv, LedgerAccounted
  <2> QED
    BY <2>2, <2>4 DEF Inv
<1>3. ASSUME NEW a \in Accounts, NEW k \in Keys, NEW paths \in PathSets,
             AddSubkey(a, k, paths) \/ SetSubkeyPaths(a, k, paths)
      PROVE  Inv'
  BY <1>1, <1>3, PathSetsAssumption
  DEF Inv, TypeOK, LedgerAccounted, AddSubkey, SetSubkeyPaths
<1>4. ASSUME NEW a \in Accounts, NEW k \in Keys, RemoveSubkey(a, k)
      PROVE  Inv'
  BY <1>1, <1>4 DEF Inv, TypeOK, LedgerAccounted, RemoveSubkey
<1>5. ASSUME NEW a \in Accounts, NEW k \in Keys, NEW self \in BOOLEAN,
             GrantPolicyManager(a, k, self)
      PROVE  Inv'
  BY <1>1, <1>5
  DEF Inv, TypeOK, LedgerAccounted, GrantPolicyManager, Grants
<1>6. ASSUME NEW a \in Accounts, NEW k \in Keys, RevokePolicyManager(a, k)
      PROVE  Inv'
  BY <1>1, <1>6 DEF Inv, TypeOK, LedgerAccounted, RevokePolicyManager
<1>7. ASSUME NEW a \in Accounts, NEW k \in Keys, NEW target \in Keys,
             NEW p \in PolicyInputs, SetSignerPolicy(a, k, target, p)
      PROVE  Inv'
  BY <1>1, <1>7, UpsertInv DEF SetSignerPolicy
<1>8. ASSUME NEW a \in Accounts, NEW k \in Keys, NEW p \in PolicyInputs,
             OwnerSetSignerPolicy(a, k, p)
      PROVE  Inv'
  BY <1>1, <1>8, UpsertInv DEF OwnerSetSignerPolicy
<1>9. ASSUME NEW a \in Accounts, NEW k \in Keys, NEW target \in Keys,
             RemoveSignerPolicy(a, k, target)
      PROVE  Inv'
  BY <1>1, <1>9, DropInv DEF RemoveSignerPolicy
<1>10. ASSUME NEW a \in Accounts, NEW k \in Keys,
              OwnerRemoveSignerPolicy(a, k)
       PROVE  Inv'
  BY <1>1, <1>10, DropInv DEF OwnerRemoveSignerPolicy
<1>11. ASSUME NEW a \in Accounts, NEW k \in Keys, NEW req \in RawRequests,
              AuthorizeRaw(<<a, k>>, req)
       PROVE  Inv'
  BY <1>1, <1>11, AuthorizeInv
<1>12. CASE UNCHANGED vars
  BY <1>12 DEF vars, Inv, TypeOK, LedgerAccounted
<1> QED
  BY <1>2, <1>3, <1>4, <1>5, <1>6, <1>7, <1>8, <1>9, <1>10, <1>11, <1>12
  DEF Next, KeyCalls, PolicyCalls

\* The invariant holds in every reachable state.
THEOREM Invariance == Spec => []Inv
<1> QED
  BY InitInv, NextInv, PTL DEF Spec

\* Every variable keeps its type: in particular every stored policy stays
\* normalised, and its counters numbers, through every charge.
THEOREM TypeCorrect == Spec => []TypeOK
<1>1. Inv => TypeOK
  BY DEF Inv
<1> QED
  BY <1>1, Invariance, PTL

\* The counters cover the ledger in every reachable state.
THEOREM LedgerCovered == Spec => []LedgerAccounted
<1>1. Inv => LedgerAccounted
  BY DEF Inv
<1> QED
  BY <1>1, Invariance, PTL

\* In no window does a subkey get more metered transfers than its policy
\* counts.
THEOREM TxCountKept == Spec => []TxCountBudget
<1>1. Inv => TxCountBudget
  BY DEF Inv, LedgerAccounted, Accounted, CountCovers, TxCountBudget
<1> QED
  BY <1>1, Invariance, PTL

\* A subkey that makes one kind of transfer stays within the period limit
\* in every window.
THEOREM PeriodKept == Spec => []PeriodBudget
<1>1. Inv => PeriodBudget
  BY DEF Inv, LedgerAccounted, Accounted, SpentCovers, PeriodBudget
<1> QED
  BY <1>1, Invariance, PTL

\* The listing is exact.
THEOREM IndexExact == Spec => []IndexMatchesSubkeys
<1>1. TypeOK /\ Init => IndexMatchesSubkeys
  BY DEF TypeOK, Init, IndexMatchesSubkeys, Registered, Signers
<1>2. TypeOK /\ IndexMatchesSubkeys /\ [Next]_vars => IndexMatchesSubkeys'
  <2> SUFFICES ASSUME TypeOK, IndexMatchesSubkeys, [Next]_vars
               PROVE  IndexMatchesSubkeys'
    OBVIOUS
  <2>1. \A a \in Accounts, k \in Keys : <<a, k>> \in Signers
    BY DEF Signers
  <2>2. CASE UNCHANGED <<subkeys, subkey_index>>
    BY <2>2 DEF IndexMatchesSubkeys, Registered
  <2>3. ASSUME NEW a \in Accounts, NEW k \in Keys, NEW paths \in PathSets,
               AddSubkey(a, k, paths) \/ SetSubkeyPaths(a, k, paths)
        PROVE  IndexMatchesSubkeys'
    <3>1. paths # {}
      BY PathSetsAssumption
    <3>2. \A b \in Accounts, j \in Keys :
            subkeys'[<<b, j>>] = IF b = a /\ j = k THEN paths
                                 ELSE subkeys[<<b, j>>]
      BY <2>1, <2>3 DEF TypeOK, AddSubkey, SetSubkeyPaths
    <3>3. \A b \in Accounts :
            subkey_index'[b] = IF b = a THEN subkey_index[b] \cup {k}
                               ELSE subkey_index[b]
      BY <2>3 DEF TypeOK, IndexMatchesSubkeys, AddSubkey, SetSubkeyPaths
    <3> QED
      BY <3>1, <3>2, <3>3 DEF IndexMatchesSubkeys, Registered
  <2>4. ASSUME NEW a \in Accounts, NEW k \in Keys, RemoveSubkey(a, k)
        PROVE  IndexMatchesSubkeys'
    <3>1. \A b \in Accounts, j \in Keys :
            subkeys'[<<b, j>>] = IF b = a /\ j = k THEN {}
                                 ELSE subkeys[<<b, j>>]
      BY <2>1, <2>4 DEF TypeOK, RemoveSubkey
    <3>2. \A b \in Accounts :
            subkey_index'[b] = IF b = a THEN subkey_index[b] \ {k}
                               ELSE subkey_index[b]
      BY <2>4 DEF TypeOK, RemoveSubkey
    <3> QED
      BY <3>1, <3>2 DEF IndexMatchesSubkeys, Registered
  <2> QED
    BY <2>2, <2>3, <2>4
    DEF Next, KeyCalls, PolicyCalls, vars, Tick, GrantPolicyManager, RevokePolicyManager,
        SetSignerPolicy, OwnerSetSignerPolicy, UpsertSignerPolicy,
        RemoveSignerPolicy, OwnerRemoveSignerPolicy, DropSignerPolicy,
        AuthorizeRaw
<1>3. Init => IndexMatchesSubkeys
  BY InitInv, <1>1 DEF Inv
<1> QED
  BY <1>2, <1>3, TypeCorrect, PTL DEF Spec

---------------------------------------------------------------------------
(* The registry implements SpendingBudget.                                 *)

\* Every stored policy is a budget to the ledger's readers.
LEMMA BudgetType ==
  ASSUME NEW p \in StoredPolicies \cup {None}
  PROVE  BudgetOf(p) \in Promise!Budgets \cup {None}
<1>1. CASE p = None
  BY <1>1 DEF BudgetOf
<1>2. CASE p \in StoredPolicies
  <2>1. p # None /\ p.maxTxCount \in OptNat /\ p.maxPerPeriod \in OptNat
    BY <1>2, NonePolicyAssumption DEF StoredPolicies, Policies
  <2>2. \A kind \in Kinds : Parse(kind, p.maxPerPeriod) \in OptNat
    BY <2>1, ParseReads
  <2> QED
    BY <2>1, <2>2 DEF BudgetOf, Promise!Budgets, Promise!OptNat, OptNat
<1> QED
  BY <1>1, <1>2

\* Accounted policies cover what was used, as the budget reads it.
LEMMA AccountedCovers ==
  ASSUME NEW p \in StoredPolicies, NEW u \in Promise!Uses, NEW t \in Times,
         Accounted(p, u, t)
  PROVE  BudgetOf(p) # None /\ Promise!Covers(BudgetOf(p), u)
<1>1. p # None
  BY NonePolicyAssumption DEF StoredPolicies
<1>2. /\ BudgetOf(p).maxTxCount = p.maxTxCount
      /\ \A kind \in Kinds : BudgetOf(p).cap[kind] = Parse(kind, p.maxPerPeriod)
  BY <1>1 DEF BudgetOf
<1>3. BudgetOf(p) # None
  <2>1. p.maxTxCount \in OptNat /\ p.maxPerPeriod \in OptNat
    BY DEF StoredPolicies, Policies
  <2>2. \A kind \in Kinds : Parse(kind, p.maxPerPeriod) \in OptNat
    BY <2>1, ParseReads
  <2>3. BudgetOf(p) \in Promise!Budgets
    BY <1>1, <2>1, <2>2 DEF BudgetOf, Promise!Budgets, Promise!OptNat, OptNat
  <2> QED
    BY <2>3, NoneBudgetAssumption
<1> QED
  BY <1>2, <1>3 DEF Accounted, CountCovers, SpentCovers, Promise!Covers

\* Writing or removing a policy assigns a budget.
LEMMA WriteAssigns ==
  ASSUME Inv, Inv', NEW s \in Signers,
         ledger' = [ledger EXCEPT ![s] = Promise!NoUse],
         \A r \in Signers \ {s} : api_key_policies'[r] = api_key_policies[r]
  PROVE  Promise!Next
<1>1. \A r \in Signers : BudgetOf(api_key_policies'[r])
                           \in Promise!Budgets \cup {None}
  BY BudgetType DEF Inv, TypeOK
<1>2. Promise!Assign(s)
  BY <1>1 DEF Promise!Assign
<1> QED
  BY <1>2 DEF Promise!Next

\* A recorded transfer spends from the budget.
LEMMA RecordSpends ==
  ASSUME Inv, Inv', NEW s \in Signers, NEW req \in RawRequests,
         AuthorizeRaw(s, req)
  PROVE  Promise!Next \/ UNCHANGED Promise!vars
<1> DEFINE p == api_key_policies[s]
           q == RawCharged(p, req.chain, req.payload, now)
           v == Recorded(ledger[s], p, req, now)
           kind == GoverningKind(p, req.chain, req.payload)
           W == WindowStart(now, p.period)
<1>1. CASE ~ChainRequiresPolicy(req.chain)
  BY <1>1 DEF AuthorizeRaw, Promise!vars
<1>2. CASE ChainRequiresPolicy(req.chain)
  <2>1. /\ p # None /\ RawAdmits(p, req.chain, req.payload, now)
        /\ api_key_policies' = [api_key_policies EXCEPT ![s] = q]
        /\ ledger' = [ledger EXCEPT ![s] = v]
    BY <1>2 DEF AuthorizeRaw, Authorized
  <2>2. /\ p \in StoredPolicies /\ ledger[s] \in Promise!Uses /\ now \in Times
        /\ Accounted(p, ledger[s], now)
        /\ api_key_policies \in [Signers -> StoredPolicies \cup {None}]
        /\ ledger \in [Signers -> Promise!Uses]
    BY <2>1 DEF Inv, TypeOK, LedgerAccounted
  <2>3. /\ q \in StoredPolicies /\ v \in Promise!Uses
        /\ BudgetOf(q) = BudgetOf(p)
        /\ Accounted(q, v, now)
    BY <2>1, <2>2, RawAccounted
  <2>4. BudgetOf(p) # None /\ Promise!Covers(BudgetOf(p), v)
    BY <2>2, <2>3, AccountedCovers
  <2> DEFINE b == [r \in Signers |-> BudgetOf(api_key_policies[r])]
             c == [r \in Signers |-> BudgetOf(api_key_policies'[r])]
  <2>5. b = c
    <3>1. ASSUME NEW r \in Signers
          PROVE  BudgetOf(api_key_policies'[r]) = BudgetOf(api_key_policies[r])
      <4>1. CASE r = s
        <5>1. api_key_policies'[s] = q
          BY <2>1, <2>2
        <5> QED
          BY <4>1, <5>1, <2>3
      <4>2. CASE r # s
        <5>1. api_key_policies'[r] = api_key_policies[r]
          BY <4>2, <2>1, <2>2
        <5> QED
          BY <5>1
      <4> QED
        BY <4>1, <4>2
    <3> QED
      BY <3>1
  <2>6. CASE kind \in Kinds /\ p.period # None
    <3>1. v = Promise!Used(ledger[s], kind, req.payload.amount, W)
      BY <2>6 DEF Recorded
    <3>2. W \in Times
      BY <2>2, <2>6, WindowBound DEF StoredPolicies, Policies, OptNat
    <3>3. \A w \in Times : w > W => ledger[s].txs[w] = 0
      <4>1. ledger[s].txs \in [Times -> Nat] /\ W \in Nat
        BY <2>2, <3>2 DEF Promise!Uses, Times
      <4>2. \A w \in Times : ledger[s].txs[w] > 0 => w <= W
        BY <2>2 DEF Accounted, UsedBy
      <4>3. Times \subseteq Nat
        BY DEF Times
      <4> HIDE DEF W, p
      <4> QED
        BY <4>1, <4>2, <4>3
    <3>4. req.payload.amount \in Amounts
      BY DEF Amounts
    <3>5. ledger'[s] = v
      BY <2>1, <2>2
    <3> HIDE DEF v, W, kind, q
    <3>6. b[s] # None /\ Promise!Covers(b[s], ledger'[s])
      BY <2>4, <3>5
    <3>7. \E amount \in Amounts :
            ledger' = [ledger EXCEPT ![s] = Promise!Used(@, kind, amount, W)]
      BY <2>1, <3>1, <3>4
    <3>8. Promise!Spend(s, kind, W)
      BY <2>5, <3>3, <3>6, <3>7 DEF Promise!Spend
    <3> QED
      BY <2>6, <3>2, <3>8 DEF Promise!Next
  <2>7. CASE ~(kind \in Kinds /\ p.period # None)
    <3>1. v = ledger[s]
      BY <2>7 DEF Recorded
    <3>2. ledger' = ledger
      BY <2>1, <2>2, <3>1
    <3> QED
      BY <2>5, <3>2 DEF Promise!vars
  <2> QED
    BY <2>6, <2>7
<1> QED
  BY <1>1, <1>2

\* Every behaviour of the registry is one of SpendingBudget.
THEOREM Refinement == Spec => KeepsBudget
<1>1. Init => Promise!Init
  BY DEF Init, Promise!Init, BudgetOf
<1>2. Inv /\ Inv' /\ [Next]_vars => [Promise!Next]_(Promise!vars)
  <2> SUFFICES ASSUME Inv, Inv', [Next]_vars
               PROVE  Promise!Next \/ UNCHANGED Promise!vars
    OBVIOUS
  <2>1. \A a \in Accounts, k \in Keys : <<a, k>> \in Signers
    BY DEF Signers
  <2>2. CASE UNCHANGED <<api_key_policies, ledger>>
    BY <2>2 DEF Promise!vars
  <2>3. ASSUME NEW s \in Signers, NEW p \in PolicyInputs,
               UpsertSignerPolicy(s, p)
        PROVE  Promise!Next
    BY <2>3, WriteAssigns DEF UpsertSignerPolicy, Inv, TypeOK
  <2>4. ASSUME NEW s \in Signers, DropSignerPolicy(s)
        PROVE  Promise!Next
    BY <2>4, WriteAssigns DEF DropSignerPolicy, Inv, TypeOK
  <2>5. ASSUME NEW s \in Signers, NEW req \in RawRequests,
               AuthorizeRaw(s, req)
        PROVE  Promise!Next \/ UNCHANGED Promise!vars
    BY <2>5, RecordSpends
  <2> QED
    BY <2>1, <2>2, <2>3, <2>4, <2>5
    DEF Next, KeyCalls, PolicyCalls, vars, Tick, AddSubkey, SetSubkeyPaths, RemoveSubkey,
        GrantPolicyManager, RevokePolicyManager, SetSignerPolicy,
        OwnerSetSignerPolicy, RemoveSignerPolicy, OwnerRemoveSignerPolicy
<1> QED
  BY <1>1, <1>2, Invariance, PTL DEF Spec, KeepsBudget, Promise!Spec

=============================================================================
