--------------------------- MODULE RpcPoolProofs ---------------------------
(***************************************************************************)
(* What the operators on the RPC endpoints promise, for any number of      *)
(* endpoints, failures and polls: the ranking lists every endpoint once    *)
(* and the best first, the marks keep a health, and the loop of            *)
(* poll_sign_result has asked every endpoint when it gives up.             *)
(*                                                                         *)
(* Facts about every n are proved from the least n that has none, because  *)
(* a set of naturals has a least element (LeastNatural).                   *)
(***************************************************************************)
EXTENDS RpcPool, TLAPS, FiniteSetTheorems

Healths == [Rpcs -> Health]

\* The endpoints that are ranked before another.
Ahead(h, r) == {q \in Rpcs : RankedBefore(h, q, r)}

\* Every endpoint is in the list.
Lists(order) ==
  /\ order \in [Rpcs -> Rpcs]
  /\ \A r \in Rpcs : \E n \in Rpcs : order[n] = r

\* The loop of poll_sign_result: the endpoints before the present one have
\* been asked, and it has been given no more than its burst.
Loop(poll) ==
  /\ poll \in Polls /\ Lists(poll.order)
  /\ poll.stuck \/ poll.asked = Rpcs
     \/ /\ \A n \in 1 .. poll.rpc : poll.order[n] \in poll.asked
        /\ poll.attempt + poll.sticky <= 3 * (poll.rpc + 1)
        /\ Polled(poll) \notin poll.asked => poll.attempt <= 3 * poll.rpc + 1

---------------------------------------------------------------------------
(* Naturals.                                                               *)

LEMMA LeastNatural ==
  ASSUME NEW S \in SUBSET Nat, S # {}
  PROVE  \E n \in S : \A m \in S : n <= m
<1> DEFINE Below(n) == 0 .. (n - 1)
           Segments == {Below(n) : n \in S}
<1>1. Segments \in SUBSET FiniteSubsetsOf(Nat) /\ Segments # {}
  <2>1. ASSUME NEW n \in S
        PROVE  Below(n) \in SUBSET Nat /\ IsFiniteSet(Below(n))
    BY FS_Interval
  <2> QED
    BY <2>1 DEF FiniteSubsetsOf
<1>2. PICK X \in Segments :
        \A Y \in Segments : <<Y, X>> \notin StrictSubsetOrdering(Nat)
  <2> HIDE DEF Segments
  <2> QED
    BY <1>1, FS_StrictSubsetOrderingWellFounded, WFMin
<1>3. PICK n \in S : X = Below(n)
  OBVIOUS
<1>4. ASSUME NEW m \in S, m < n
      PROVE  FALSE
  <2>1. /\ Below(m) \in Segments /\ Below(m) \subseteq X
        /\ n - 1 \in X /\ n - 1 \notin Below(m)
    BY <1>3, <1>4
  <2>2. <<Below(m), X>> \in (SUBSET Nat) \X (SUBSET Nat)
    BY <1>3
  <2>3. <<Below(m), X>> \in StrictSubsetOrdering(Nat)
    BY <2>1, <2>2 DEF StrictSubsetOrdering
  <2> QED
    BY <1>2, <2>1, <2>3
<1> QED
  BY <1>4

\* The set of the numbers up to N that a fact holds of is all of them, when
\* it has 0 and with each number the next.
LEMMA UpTo ==
  ASSUME NEW N \in Nat, NEW S, 0 \in S,
         \A n \in 1 .. N : n - 1 \in S => n \in S
  PROVE  \A n \in 0 .. N : n \in S
<1> DEFINE Rest == (0 .. N) \ S
<1> SUFFICES ASSUME Rest # {} PROVE FALSE
  OBVIOUS
<1>1. PICK n \in Rest : \A m \in Rest : n <= m
  <2>1. Rest \in SUBSET Nat
    OBVIOUS
  <2> QED
    BY <2>1, LeastNatural
<1>2. n # 0 /\ n \in 1 .. N /\ n - 1 \in 0 .. N
  BY <1>1
<1>3. n - 1 \notin Rest
  BY <1>1, <1>2
<1> QED
  BY <1>1, <1>2, <1>3

---------------------------------------------------------------------------
(* The ranking.                                                            *)

LEMMA RankIsOrder ==
  ASSUME NEW h \in Healths, NEW q \in Rpcs, NEW r \in Rpcs, NEW s \in Rpcs
  PROVE  /\ ~RankedBefore(h, q, q)
         /\ RankedBefore(h, q, r) /\ RankedBefore(h, r, s) => RankedBefore(h, q, s)
         /\ RankedBefore(h, q, r) \/ RankedBefore(h, r, q) \/ q = r
<1>1. \A p \in Rpcs : /\ p \in Nat
                      /\ h[p].failures \in Nat /\ h[p].lastFailure \in Nat
                      /\ h[p].cooling \in BOOLEAN
  BY PoolAssumption DEF Rpcs, Healths, Health
<1> QED
  BY <1>1 DEF RankedBefore

LEMMA RpcsFinite ==
  /\ IsFiniteSet(Rpcs) /\ Cardinality(Rpcs) = RpcCount
  /\ IsFiniteSet(0 .. (RpcCount - 1)) /\ Cardinality(0 .. (RpcCount - 1)) = RpcCount
  BY PoolAssumption, FS_Interval DEF Rpcs

LEMMA AheadGrows ==
  ASSUME NEW h \in Healths, NEW q \in Rpcs, NEW r \in Rpcs
  PROVE  /\ Cardinality(Ahead(h, r)) \in 0 .. (RpcCount - 1)
         /\ RankedBefore(h, q, r)
              => Cardinality(Ahead(h, q)) < Cardinality(Ahead(h, r))
<1>1. \A s \in Rpcs : /\ IsFiniteSet(Ahead(h, s))
                      /\ Cardinality(Ahead(h, s)) \in Nat
  BY RpcsFinite, FS_Subset, FS_CardinalityType DEF Ahead
<1>2. Cardinality(Ahead(h, r)) < RpcCount
  <2>1. Ahead(h, r) \in SUBSET Rpcs /\ Ahead(h, r) # Rpcs
    BY RankIsOrder DEF Ahead
  <2>2. /\ Cardinality(Ahead(h, r)) <= RpcCount
        /\ Cardinality(Ahead(h, r)) # RpcCount
    BY <2>1, RpcsFinite, FS_Subset
  <2> QED
    BY <1>1, <2>2, PoolAssumption
<1>3. ASSUME RankedBefore(h, q, r)
      PROVE  Cardinality(Ahead(h, q)) < Cardinality(Ahead(h, r))
  <2>1. Ahead(h, q) \in SUBSET Ahead(h, r) /\ Ahead(h, q) # Ahead(h, r)
    BY <1>3, RankIsOrder DEF Ahead
  <2>2. /\ Cardinality(Ahead(h, q)) <= Cardinality(Ahead(h, r))
        /\ Cardinality(Ahead(h, q)) # Cardinality(Ahead(h, r))
    BY <1>1, <2>1, FS_Subset
  <2> QED
    BY <1>1, <2>2
<1> QED
  BY <1>1, <1>2, <1>3, PoolAssumption

\* The candidates are every endpoint once and the best first: the sort of
\* ordered_rpc_candidates loses none, whatever has failed.
THEOREM RanksEveryEndpoint ==
  ASSUME NEW h \in Healths
  PROVE  /\ Lists(Candidates(h))
         /\ \A m, n \in Rpcs : m < n =>
              RankedBefore(h, Candidates(h)[m], Candidates(h)[n])
<1> DEFINE Rank == [r \in Rpcs |-> Cardinality(Ahead(h, r))]
           Places == 0 .. (RpcCount - 1)
<1>1. Rank \in Injection(Rpcs, Places)
  <2>1. Rank \in [Rpcs -> Places]
    BY AheadGrows
  <2>2. ASSUME NEW q \in Rpcs, NEW r \in Rpcs, q # r
        PROVE  Rank[q] # Rank[r]
    <3>1. RankedBefore(h, q, r) \/ RankedBefore(h, r, q)
      BY <2>2, RankIsOrder
    <3>2. Cardinality(Ahead(h, q)) \in Nat /\ Cardinality(Ahead(h, r)) \in Nat
      BY AheadGrows
    <3> QED
      BY <3>1, <3>2, AheadGrows
  <2> QED
    BY <2>1, <2>2 DEF Injection, IsInjective
<1>2. Rank \in Surjection(Rpcs, Places)
  <2> HIDE DEF Rank
  <2> QED
    BY <1>1, RpcsFinite, FS_Injection
<1>3. ASSUME NEW n \in Rpcs
      PROVE  Candidates(h)[n] \in Rpcs /\ Cardinality(Ahead(h, Candidates(h)[n])) = n - 1
  <2>1. n - 1 \in Places
    BY <1>3, PoolAssumption DEF Rpcs
  <2>2. \E r \in Rpcs : Cardinality(Ahead(h, r)) = n - 1
    BY <1>2, <2>1 DEF Surjection
  <2> QED
    BY <1>3, <2>2 DEF Candidates, Ahead
<1>4. Candidates(h) \in [Rpcs -> Rpcs]
  BY <1>3 DEF Candidates
<1>5. ASSUME NEW r \in Rpcs
      PROVE  \E n \in Rpcs : Candidates(h)[n] = r
  <2> DEFINE n == Cardinality(Ahead(h, r)) + 1
  <2>1. n \in Rpcs /\ n - 1 = Cardinality(Ahead(h, r))
    BY AheadGrows, PoolAssumption DEF Rpcs
  <2>2. /\ Candidates(h)[n] \in Rpcs
        /\ Cardinality(Ahead(h, Candidates(h)[n])) = Cardinality(Ahead(h, r))
    BY <1>3, <2>1
  <2>3. Candidates(h)[n] = r
    BY <1>1, <2>2 DEF Injection, IsInjective
  <2> QED
    BY <2>1, <2>3
<1>6. ASSUME NEW m \in Rpcs, NEW n \in Rpcs, m < n
      PROVE  RankedBefore(h, Candidates(h)[m], Candidates(h)[n])
  <2> DEFINE q == Candidates(h)[m]
             r == Candidates(h)[n]
  <2>1. /\ q \in Rpcs /\ r \in Rpcs
        /\ Cardinality(Ahead(h, q)) = m - 1 /\ Cardinality(Ahead(h, r)) = n - 1
    BY <1>3
  <2>2. m - 1 < n - 1 /\ m \in Nat /\ n \in Nat
    BY <1>6, PoolAssumption DEF Rpcs
  <2> HIDE DEF q, r
  <2>3. q # r /\ ~RankedBefore(h, r, q)
    <3>1. CASE RankedBefore(h, r, q)
      <4>1. n - 1 < m - 1
        BY <2>1, <3>1, AheadGrows
      <4> QED
        BY <2>2, <4>1
    <3> QED
      BY <2>1, <2>2, <3>1
  <2>4. RankedBefore(h, q, r)
    BY <2>1, <2>3, RankIsOrder
  <2> QED
    BY <2>4 DEF q, r
<1> QED
  BY <1>4, <1>5, <1>6 DEF Lists

---------------------------------------------------------------------------
(* The marks.                                                              *)

\* There is a failure that none is later than.
LEMMA LaterThanAll ==
  ASSUME NEW h \in Healths
  PROVE  /\ Later(h) \in Nat
         /\ \A r \in Rpcs : h[r].lastFailure < Later(h)
<1> DEFINE Times == {h[r].lastFailure : r \in Rpcs}
           Bounded == {n \in 0 .. RpcCount : n = 0 \/
             \E t \in Times : \A r \in 1 .. n : h[r].lastFailure <= t}
<1>1. \A r \in Rpcs : h[r].lastFailure \in Nat
  BY DEF Healths, Health
<1>2. ASSUME NEW n \in 1 .. RpcCount, n - 1 \in Bounded
      PROVE  n \in Bounded
  <2>1. n \in Rpcs /\ n \in Nat /\ h[n].lastFailure \in Times
        /\ \A r \in 1 .. n : r = n \/ r \in 1 .. (n - 1)
    BY PoolAssumption DEF Rpcs
  <2>2. CASE n = 1
    <3>1. \A r \in 1 .. n : r = n
      BY <2>2
    <3>2. \A r \in 1 .. n : h[r].lastFailure <= h[n].lastFailure
      BY <1>1, <2>1, <3>1
    <3> QED
      BY <2>1, <3>2
  <2>3. CASE n # 1
    <3>1. PICK t \in Times : \A r \in 1 .. (n - 1) : h[r].lastFailure <= t
      BY <1>2, <2>1, <2>3
    <3>2. t \in Nat /\ h[n].lastFailure \in Nat
          /\ \A r \in 1 .. n : r \in Rpcs
      BY <1>1, <2>1, PoolAssumption DEF Rpcs
    <3>3. CASE h[n].lastFailure <= t
      BY <2>1, <3>1, <3>3
    <3>4. CASE t <= h[n].lastFailure
      <4>1. \A r \in 1 .. n : h[r].lastFailure <= h[n].lastFailure
        BY <1>1, <2>1, <3>1, <3>2, <3>4
      <4> QED
        BY <2>1, <4>1
    <3> QED
      BY <3>2, <3>3, <3>4
  <2> QED
    BY <2>2, <2>3
<1>3. RpcCount \in Bounded
  <2>1. 0 \in Bounded /\ RpcCount \in 0 .. RpcCount
    BY PoolAssumption
  <2> HIDE DEF Bounded
  <2> QED
    BY <1>2, <2>1, UpTo, PoolAssumption
<1>4. \E t \in Times : \A r \in Rpcs : h[r].lastFailure <= t
  BY <1>3, PoolAssumption DEF Rpcs
<1> DEFINE last == CHOOSE t \in Times : \A r \in Rpcs : h[r].lastFailure <= t
<1>5. last \in Times /\ \A r \in Rpcs : h[r].lastFailure <= last
  BY <1>4
<1>6. last \in Nat /\ Later(h) = 1 + last
  BY <1>1, <1>5 DEF Later
<1> HIDE DEF last
<1> QED
  BY <1>1, <1>5, <1>6

\* A mark keeps a health, and the count of failures its bounds.
LEMMA MarksTyped ==
  ASSUME NEW h \in Healths, NEW r \in Rpcs
  PROVE  /\ MarkSuccess(h, r) \in Healths
         /\ \A error : MarkFailure(h, r, error) \in Healths
         /\ CoolOff(h, r) \in Healths
<1>1. /\ h[r].failures \in 0 .. FailureCap /\ h[r].cooling \in BOOLEAN
      /\ h[r].lastFailure \in Nat
      /\ h[r] = [failures |-> h[r].failures, cooling |-> h[r].cooling,
                 lastFailure |-> h[r].lastFailure]
  BY DEF Healths, Health
<1>2. /\ (IF h[r].failures = 0 THEN 0 ELSE h[r].failures - 1) \in 0 .. FailureCap
      /\ Lower(h[r].failures + 1, FailureCap) \in 0 .. FailureCap
  BY <1>1, PoolAssumption DEF Lower
<1>3. \A e \in Health : [h EXCEPT ![r] = e] \in Healths
  BY DEF Healths
<1>4. MarkSuccess(h, r) \in Healths
  <2>1. [h[r] EXCEPT !.failures = IF @ = 0 THEN 0 ELSE @ - 1, !.cooling = FALSE]
          \in Health
    BY <1>1, <1>2 DEF Health
  <2> QED
    BY <1>3, <2>1 DEF MarkSuccess
<1>5. ASSUME NEW error
      PROVE  MarkFailure(h, r, error) \in Healths
  <2>1. [failures |-> IF error = "reused" THEN h[r].failures
                      ELSE Lower(h[r].failures + 1, FailureCap),
         cooling |-> TRUE, lastFailure |-> Later(h)] \in Health
    BY <1>1, <1>2, LaterThanAll DEF Health
  <2> QED
    BY <1>3, <2>1 DEF MarkFailure
<1>6. CoolOff(h, r) \in Healths
  <2>1. [h[r] EXCEPT !.cooling = FALSE] \in Health
    BY <1>1 DEF Health
  <2> QED
    BY <1>3, <2>1 DEF CoolOff
<1> QED
  BY <1>4, <1>5, <1>6

LEMMA AllHealthyTyped == AllHealthy \in Healths
  BY PoolAssumption DEF AllHealthy, Healths, Health

---------------------------------------------------------------------------
(* One call.                                                               *)

\* What the recursion of Marked defines.
MarksUpTo(h, errors, after, n) ==
  after = [k \in 0 .. n |->
             IF k = 0 THEN h
             ELSE MarkFailure(after[k - 1], Candidates(h)[k], errors[k])]

LEMMA MarkedBy ==
  ASSUME NEW h, NEW errors, \E after : MarksUpTo(h, errors, after, Len(errors))
  PROVE  \E after : /\ MarksUpTo(h, errors, after, Len(errors))
                    /\ Marked(h, errors) = after[Len(errors)]
<1> DEFINE chosen == CHOOSE after : MarksUpTo(h, errors, after, Len(errors))
<1>1. MarksUpTo(h, errors, chosen, Len(errors))
  OBVIOUS
<1>2. Marked(h, errors) = chosen[Len(errors)]
  BY DEF Marked, MarksUpTo
<1> QED
  BY <1>1, <1>2

\* The errors of one call, no more than there are endpoints.
CallErrors == UNION {[1 .. n -> RpcErrors] : n \in 0 .. RpcCount}

LEMMA ErrorsLength ==
  ASSUME NEW errors \in CallErrors
  PROVE  /\ Len(errors) \in 0 .. RpcCount
         /\ \A k \in 1 .. Len(errors) : k \in Rpcs
<1>1. PICK n \in 0 .. RpcCount : errors \in [1 .. n -> RpcErrors]
  BY DEF CallErrors
<1>2. n \in Nat /\ Len(errors) = n
  BY <1>1, PoolAssumption
<1> QED
  BY <1>1, <1>2, PoolAssumption DEF Rpcs

LEMMA MarkingExists ==
  ASSUME NEW h \in Healths, NEW errors \in CallErrors
  PROVE  \E after : MarksUpTo(h, errors, after, Len(errors))
<1> DEFINE Made == {n \in 0 .. Len(errors) :
                      \E after : MarksUpTo(h, errors, after, n)}
<1>1. Len(errors) \in Nat
  BY ErrorsLength, PoolAssumption
<1>2. 0 \in Made
  <2>1. MarksUpTo(h, errors, [k \in 0 .. 0 |-> h], 0)
    BY DEF MarksUpTo
  <2> QED
    BY <1>1, <2>1
<1>3. ASSUME NEW n \in 1 .. Len(errors), n - 1 \in Made
      PROVE  n \in Made
  <2>1. PICK before : MarksUpTo(h, errors, before, n - 1)
    BY <1>3
  <2> DEFINE after == [k \in 0 .. n |->
                IF k = n THEN MarkFailure(before[n - 1], Candidates(h)[n], errors[n])
                ELSE before[k]]
  <2>2. n \in Nat /\ n # 0 /\ n - 1 \in 0 .. n
    BY <1>1
  <2>3. ASSUME NEW k \in 0 .. n
        PROVE  after[k] = IF k = 0 THEN h
                          ELSE MarkFailure(after[k - 1], Candidates(h)[k], errors[k])
    <3>1. CASE k = n
      <4>1. after[k - 1] = before[n - 1]
        BY <2>2, <3>1
      <4> QED
        BY <2>2, <3>1, <4>1
    <3>2. CASE k # n
      <4>1. k \in 0 .. (n - 1) /\ (k # 0 => k - 1 \in 0 .. n /\ k - 1 # n)
        BY <2>2, <3>2
      <4>2. after[k] = before[k] /\ (k # 0 => after[k - 1] = before[k - 1])
        BY <3>2, <4>1
      <4>3. before[k] = IF k = 0 THEN h
                        ELSE MarkFailure(before[k - 1], Candidates(h)[k], errors[k])
        BY <2>1, <4>1 DEF MarksUpTo
      <4> QED
        BY <4>1, <4>2, <4>3
    <3> QED
      BY <3>1, <3>2
  <2>4. after = [k \in 0 .. n |->
                   IF k = 0 THEN h
                   ELSE MarkFailure(after[k - 1], Candidates(h)[k], errors[k])]
    <3>1. DOMAIN after = 0 .. n /\ after = [k \in 0 .. n |-> after[k]]
      OBVIOUS
    <3> HIDE DEF after
    <3> QED
      BY <2>3, <3>1
  <2>5. MarksUpTo(h, errors, after, n)
    BY <2>4 DEF MarksUpTo
  <2> QED
    BY <2>5, <1>1
<1>4. Len(errors) \in Made
  <2>1. Len(errors) \in 0 .. Len(errors)
    BY <1>1
  <2> HIDE DEF Made
  <2> QED
    BY <1>1, <1>2, <1>3, <2>1, UpTo
<1> QED
  BY <1>4

\* Whatever the endpoints of a call answer, their health stays one, and the
\* count of failures is capped and never negative.
LEMMA CallTyped ==
  ASSUME NEW h \in Healths, NEW errors \in CallErrors
  PROVE  Called(h, errors) \in Healths
<1>1. Len(errors) \in Nat /\ Len(errors) <= RpcCount
      /\ \A k \in 1 .. Len(errors) : k \in Rpcs
  BY ErrorsLength, PoolAssumption
<1>2. Candidates(h) \in [Rpcs -> Rpcs]
  BY RanksEveryEndpoint DEF Lists
<1>3. PICK after : /\ MarksUpTo(h, errors, after, Len(errors))
                   /\ Marked(h, errors) = after[Len(errors)]
  BY MarkingExists, MarkedBy
<1> DEFINE Typed == {n \in 0 .. Len(errors) : after[n] \in Healths}
<1>4. \A n \in 0 .. Len(errors) :
        after[n] = IF n = 0 THEN h
                   ELSE MarkFailure(after[n - 1], Candidates(h)[n], errors[n])
  BY <1>3 DEF MarksUpTo
<1>5. 0 \in Typed
  BY <1>1, <1>4
<1>6. ASSUME NEW n \in 1 .. Len(errors), n - 1 \in Typed
      PROVE  n \in Typed
  <2>1. n \in 0 .. Len(errors) /\ n # 0 /\ n \in Rpcs
    BY <1>1
  <2>2. after[n] = MarkFailure(after[n - 1], Candidates(h)[n], errors[n])
    BY <1>4, <2>1
  <2>3. Candidates(h)[n] \in Rpcs
    BY <1>2, <2>1
  <2> QED
    BY <1>6, <2>1, <2>2, <2>3, MarksTyped
<1>7. Len(errors) \in Typed
  <2>1. Len(errors) \in 0 .. Len(errors)
    BY <1>1
  <2> HIDE DEF Typed
  <2> QED
    BY <1>1, <1>5, <1>6, <2>1, UpTo
<1>8. Marked(h, errors) \in Healths
  BY <1>3, <1>7
<1>9. CASE AllFail(errors)
  BY <1>8, <1>9 DEF Called
<1>10. CASE ~AllFail(errors)
  <2>1. Len(errors) + 1 \in Rpcs
    BY <1>1, <1>10, PoolAssumption DEF AllFail, Rpcs
  <2> QED
    BY <1>2, <1>8, <1>10, <2>1, MarksTyped DEF Called
<1> QED
  BY <1>9, <1>10

---------------------------------------------------------------------------
(* The loop of poll_sign_result.                                           *)

LEMMA LoopStarts ==
  ASSUME NEW h \in Healths
  PROVE  Loop(PollStart(h))
<1>1. Lists(Candidates(h))
  BY RanksEveryEndpoint
<1>2. /\ 0 \in 0 .. (RpcCount - 1) /\ 0 \in 0 .. PollAttempts
      /\ Lower(PollAttempts, 3) \in 0 .. 3
  BY PoolAssumption DEF Lower
<1> QED
  BY <1>1, <1>2 DEF PollStart, Loop, Polls, Lists

LEMMA PollFields ==
  ASSUME NEW poll \in Polls
  PROVE  /\ poll.order \in [Rpcs -> Rpcs] /\ poll.rpc \in 0 .. (RpcCount - 1)
         /\ poll.sticky \in 0 .. 3 /\ poll.attempt \in 0 .. PollAttempts
         /\ poll.asked \in SUBSET Rpcs /\ poll.erred \in BOOLEAN
         /\ poll.stuck \in BOOLEAN
         /\ poll = [order |-> poll.order, rpc |-> poll.rpc, sticky |-> poll.sticky,
                    attempt |-> poll.attempt, asked |-> poll.asked,
                    erred |-> poll.erred, stuck |-> poll.stuck]
         /\ poll.rpc + 1 \in Rpcs /\ Polled(poll) \in Rpcs
<1>1. /\ poll.order \in [Rpcs -> Rpcs] /\ poll.rpc \in 0 .. (RpcCount - 1)
      /\ poll.sticky \in 0 .. 3 /\ poll.attempt \in 0 .. PollAttempts
      /\ poll.asked \in SUBSET Rpcs /\ poll.erred \in BOOLEAN
      /\ poll.stuck \in BOOLEAN
      /\ poll = [order |-> poll.order, rpc |-> poll.rpc, sticky |-> poll.sticky,
                 attempt |-> poll.attempt, asked |-> poll.asked,
                 erred |-> poll.erred, stuck |-> poll.stuck]
  BY DEF Polls
<1>2. poll.rpc + 1 \in Rpcs
  BY <1>1, PoolAssumption DEF Rpcs
<1> QED
  BY <1>1, <1>2 DEF Polled

\* The next poll asks the endpoint in turn, and keeps it or goes to the next.
Asks(poll, next) ==
  /\ next \in Polls /\ next.order = poll.order
  /\ next.attempt = poll.attempt + 1
  /\ next.asked = poll.asked \cup {Polled(poll)}
  /\ poll.stuck => next.stuck
  /\ next.stuck \/ (poll.sticky > 0 /\ next.rpc = poll.rpc
                      /\ next.sticky = poll.sticky - 1)
       \/ (next.rpc = (poll.rpc + 1) % RpcCount /\ next.sticky <= 2)

LEMMA Wraps ==
  ASSUME NEW n \in 0 .. (RpcCount - 1)
  PROVE  (n + 1) % RpcCount = IF n + 1 = RpcCount THEN 0 ELSE n + 1
<1>1. RpcCount \in Nat /\ RpcCount > 0 /\ n \in Nat /\ n + 1 <= RpcCount
  BY PoolAssumption
<1>2. CASE n + 1 = RpcCount
  BY <1>1, <1>2
<1>3. CASE n + 1 # RpcCount
  <2>1. n + 1 \in 0 .. (RpcCount - 1)
    BY <1>1, <1>3
  <2> QED
    BY <1>1, <1>3, <2>1
<1> QED
  BY <1>2, <1>3

LEMMA LoopGoesOn ==
  ASSUME NEW poll, Loop(poll), NEW next, Asks(poll, next)
  PROVE  Loop(next)
<1>1. poll \in Polls /\ next \in Polls /\ Lists(next.order)
  BY DEF Loop, Asks
<1> SUFFICES ASSUME ~next.stuck, next.asked # Rpcs
             PROVE  /\ \A n \in 1 .. next.rpc : next.order[n] \in next.asked
                    /\ next.attempt + next.sticky <= 3 * (next.rpc + 1)
                    /\ Polled(next) \notin next.asked
                         => next.attempt <= 3 * next.rpc + 1
  BY <1>1 DEF Loop
<1>2. /\ \A n \in 1 .. poll.rpc : poll.order[n] \in poll.asked
      /\ poll.attempt + poll.sticky <= 3 * (poll.rpc + 1)
  <2>1. ~poll.stuck
    BY DEF Asks
  <2>2. poll.asked # Rpcs
    BY <1>1, PollFields DEF Asks
  <2> QED
    BY <2>1, <2>2 DEF Loop
<1>3. \A n \in 1 .. (poll.rpc + 1) : poll.order[n] \in next.asked
  <2>1. ASSUME NEW n \in 1 .. (poll.rpc + 1)
        PROVE  n \in 1 .. poll.rpc \/ n = poll.rpc + 1
    BY <1>1, PollFields, PoolAssumption
  <2> QED
    BY <1>2, <2>1 DEF Asks, Polled
<1>4. /\ poll.rpc \in Nat /\ poll.sticky \in Nat /\ poll.attempt \in Nat
      /\ next.rpc \in Nat /\ next.sticky \in Nat /\ next.attempt \in Nat
  BY <1>1, PollFields, PoolAssumption
<1>5. CASE poll.sticky > 0 /\ next.rpc = poll.rpc /\ next.sticky = poll.sticky - 1
  <2>1. Polled(next) \in next.asked
    BY <1>5 DEF Asks, Polled
  <2>2. \A n \in 1 .. next.rpc : n \in 1 .. (poll.rpc + 1)
    BY <1>4, <1>5
  <2>3. next.attempt + next.sticky <= 3 * (next.rpc + 1)
    BY <1>2, <1>4, <1>5 DEF Asks
  <2> QED
    BY <1>3, <2>1, <2>2, <2>3 DEF Asks
<1>6. CASE next.rpc = (poll.rpc + 1) % RpcCount /\ next.sticky <= 2
  <2>1. next.rpc = IF poll.rpc + 1 = RpcCount THEN 0 ELSE poll.rpc + 1
    BY <1>1, <1>6, PollFields, Wraps
  <2>2. poll.rpc + 1 # RpcCount
    <3>1. ASSUME poll.rpc + 1 = RpcCount
          PROVE  Rpcs \subseteq next.asked
      BY <1>1, <1>3, <3>1 DEF Rpcs, Asks, Lists
    <3> QED
      BY <1>1, <3>1, PollFields
  <2>3. next.rpc = poll.rpc + 1
    BY <2>1, <2>2
  <2>4. next.attempt = poll.attempt + 1
    BY DEF Asks
  <2>5. /\ next.attempt <= 3 * next.rpc + 1
        /\ next.attempt + next.sticky <= 3 * (next.rpc + 1)
    BY <1>2, <1>4, <1>6, <2>3, <2>4
  <2> QED
    BY <1>3, <2>3, <2>5 DEF Asks
<1> QED
  BY <1>5, <1>6 DEF Asks

LEMMA StepsOfLoop ==
  ASSUME NEW poll \in Polls, ~Exhausted(poll)
  PROVE  /\ Asks(poll, PollPending(poll))
         /\ \A error : Asks(poll, PollError(poll, error))
<1>1. poll.attempt + 1 \in 0 .. PollAttempts
  BY PollFields, PoolAssumption DEF Exhausted
<1>2. /\ Lower(PollAttempts - poll.attempt - 1, 2) \in 0 .. 2
      /\ (poll.rpc + 1) % RpcCount \in 0 .. (RpcCount - 1)
  <2>1. Lower(PollAttempts - poll.attempt - 1, 2) \in 0 .. 2
    BY <1>1, PollFields, PoolAssumption DEF Lower
  <2> QED
    BY <2>1, PollFields, Wraps, PoolAssumption
<1>3. poll.asked \cup {Polled(poll)} \in SUBSET Rpcs
  BY PollFields
<1> DEFINE Counts(next) ==
             /\ next \in Polls /\ next.order = poll.order
             /\ next.attempt = poll.attempt + 1
             /\ next.asked = poll.asked \cup {Polled(poll)}
<1>4. /\ Counts(Attempted(poll)) /\ Attempted(poll).rpc = poll.rpc
      /\ Attempted(poll).sticky = poll.sticky /\ Attempted(poll).stuck = poll.stuck
  <2>1. Attempted(poll) \in Polls
    BY <1>1, <1>3 DEF Attempted, Polls
  <2> QED
    BY <2>1 DEF Attempted, Polls
<1>5. /\ Counts(Rotated(poll)) /\ Rotated(poll).rpc = (poll.rpc + 1) % RpcCount
      /\ Rotated(poll).sticky \in 0 .. 2 /\ Rotated(poll).stuck = poll.stuck
  <2> DEFINE a == Attempted(poll)
             rpc == (poll.rpc + 1) % RpcCount
             sticky == Lower(PollAttempts - poll.attempt - 1, 2)
  <2>1. Rotated(poll) = [a EXCEPT !.rpc = rpc, !.sticky = sticky]
    BY <1>4 DEF Rotated
  <2>2. Rotated(poll) \in Polls
    <3>1. rpc \in 0 .. (RpcCount - 1) /\ sticky \in 0 .. 3 /\ a \in Polls
      BY <1>2, <1>4
    <3> HIDE DEF a, rpc, sticky
    <3> QED
      BY <2>1, <3>1 DEF Polls
  <2> QED
    BY <1>2, <1>4, <2>2 DEF Rotated, Polls
<1>6. Asks(poll, PollPending(poll))
  <2>1. CASE poll.sticky > 0
    <3>1. PollPending(poll) = [Attempted(poll) EXCEPT !.sticky = poll.sticky - 1]
      BY <1>4, <2>1 DEF PollPending
    <3>2. poll.sticky - 1 \in 0 .. 3
      BY <2>1, PollFields
    <3>3. PollPending(poll) \in Polls
      BY <1>4, <3>1, <3>2 DEF Polls
    <3> QED
      BY <1>4, <2>1, <3>1, <3>3 DEF Asks, Polls
  <2>2. CASE ~(poll.sticky > 0)
    BY <1>5, <2>2 DEF Asks, PollPending
  <2> QED
    BY <2>1, <2>2
<1>7. ASSUME NEW error
      PROVE  Asks(poll, PollError(poll, error))
  <2>1. CASE error \in Rotating
    <3>1. PollError(poll, error)
            = [Rotated(poll) EXCEPT !.erred = TRUE, !.stuck = poll.stuck]
      BY <1>5, <2>1, PollFields DEF PollError
    <3>2. PollError(poll, error) \in Polls
      BY <1>5, <3>1, PollFields DEF Polls
    <3>3. /\ Counts(PollError(poll, error))
          /\ PollError(poll, error).stuck = poll.stuck
          /\ PollError(poll, error).rpc = Rotated(poll).rpc
          /\ PollError(poll, error).sticky = Rotated(poll).sticky
      BY <1>5, <3>1, <3>2, PollFields DEF Polls
    <3> QED
      BY <1>5, <3>3 DEF Asks
  <2>2. CASE error \notin Rotating
    <3>1. PollError(poll, error)
            = [Attempted(poll) EXCEPT !.erred = TRUE, !.stuck = TRUE]
      BY <2>2 DEF PollError
    <3>2. PollError(poll, error) \in Polls
      BY <1>4, <3>1 DEF Polls
    <3>3. Counts(PollError(poll, error)) /\ PollError(poll, error).stuck
      BY <1>4, <3>1, <3>2 DEF Polls
    <3> QED
      BY <3>3 DEF Asks
  <2> QED
    BY <2>1, <2>2
<1> QED
  BY <1>6, <1>7

\* An answer without a result, or an error, goes on with the loop.
THEOREM LoopKept ==
  ASSUME NEW poll, Loop(poll), ~Exhausted(poll)
  PROVE  /\ Loop(PollPending(poll))
         /\ \A error : Loop(PollError(poll, error))
  BY StepsOfLoop, LoopGoesOn DEF Loop

\* The loop ends with every endpoint asked, if it has polls enough for the
\* burst of four of the first endpoint, three of each other and one of the
\* last: one poll less leaves the last endpoint out.
THEOREM LoopAsksAll ==
  ASSUME NEW poll, Loop(poll), Exhausted(poll), ~poll.stuck,
         PollAttempts >= 3 * RpcCount - 1
  PROVE  poll.asked = Rpcs
<1> SUFFICES ASSUME poll.asked # Rpcs PROVE FALSE
  OBVIOUS
<1>1. /\ \A n \in 1 .. poll.rpc : poll.order[n] \in poll.asked
      /\ poll.attempt + poll.sticky <= 3 * (poll.rpc + 1)
      /\ Polled(poll) \notin poll.asked => poll.attempt <= 3 * poll.rpc + 1
  BY DEF Loop
<1>2. /\ poll.rpc \in Nat /\ poll.rpc <= RpcCount - 1 /\ RpcCount \in Nat
      /\ poll.sticky \in Nat /\ poll.attempt = PollAttempts
      /\ PollAttempts \in Nat
  BY PollFields, PoolAssumption DEF Loop, Exhausted
<1>3. poll.rpc = RpcCount - 1
  BY <1>1, <1>2
<1>4. Polled(poll) \in poll.asked
  BY <1>1, <1>2, <1>3
<1>5. ASSUME NEW n \in Rpcs
      PROVE  poll.order[n] \in poll.asked
  <2>1. n \in 1 .. poll.rpc \/ n = poll.rpc + 1
    BY <1>2, <1>3 DEF Rpcs
  <2> QED
    BY <1>1, <1>4, <2>1 DEF Polled
<1>6. Rpcs \subseteq poll.asked
  BY <1>5 DEF Loop, Lists
<1> QED
  BY <1>6, PollFields DEF Loop
=============================================================================
