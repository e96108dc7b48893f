------------------------- MODULE SignerDaemonProofs -------------------------
(***************************************************************************)
(* The signers keep the ledger of paid transfers, transfer once at most    *)
(* for every time they take up a job and pay once at most for an attempt,  *)
(* and sign without an approval in the wallet only within the rules'       *)
(* limits, for any number of processes, jobs, retries and faults.  The     *)
(* argument: a process that polls or sends stands for a signature that is  *)
(* charged and not used up (Paid), and one that signs for an opening that  *)
(* has not transferred (Unsent); an opening's charges and the attempts it  *)
(* has left never exceed its allowance (Budgeted); what waits in a batch   *)
(* has been cleared by the rules or by hand (Cleared).  The types need the *)
(* loop of the polling (RpcPoolProofs), and that a second transfer has an  *)
(* excuse needs to know who has a job that has none (Tracked): one process *)
(* at most, under its lease or for an agent that waits.  That a daemon     *)
(* skips no open job needs what waits in its batch to have been queued     *)
(* (Handed).                                                               *)
(***************************************************************************)
EXTENDS SignerDaemon, RpcPoolProofs, SequenceTheorems

SigningSteps == {"build", "account", "request", "poll", "send"}
PaidSteps == {"poll", "send"}

Paying(d, j) == at[d] \in PaidSteps /\ Job(d) = j
Signing(d, j) == at[d] \in SigningSteps /\ Job(d) = j
PaidBy(j) == {d \in Daemons : Paying(d, j)}
SignedBy(j) == {d \in Daemons : Signing(d, j)}

Cleared(j) == byHand[j] \/ Eligible(request[j])
Past == {"queued", "transmitted", "failed"}

Placed ==
  /\ at \in [Daemons -> Steps]
  /\ batch \in [Daemons -> Seq(Jobs)]
  /\ \A d \in Daemons : at[d] \notin {"down", "idle"} => batch[d] # <<>>

Numbers ==
  /\ opened \in [Jobs -> Nat] /\ charged \in [Jobs -> Nat]
  /\ landed \in [Jobs -> Nat]

Paid == \A j \in Jobs : landed[j] + Cardinality(PaidBy(j)) <= charged[j]

Unsent == \A j \in Jobs : landed[j] + Cardinality(SignedBy(j)) <= opened[j]

Sent == \A d \in Daemons : at[d] = "notify" => landed[Job(d)] > 0

Approved ==
  /\ status \in [Jobs -> Statuses] /\ byHand \in [Jobs -> BOOLEAN]
  /\ \A j \in Jobs : IsRequest(request[j])
  /\ \A j \in Jobs : status[j] \in Past \/ opened[j] > 0 => Cleared(j)
  /\ \A d \in Daemons : \A n \in DOMAIN batch[d] : Cleared(batch[d][n])

Inv == Placed /\ Numbers /\ Paid /\ Unsent /\ Sent /\ Approved

---------------------------------------------------------------------------
(* What a step does to a process.                                          *)

\* Only the process d moves.
OneMoves(d) ==
  /\ at' \in [Daemons -> Steps] /\ batch' \in [Daemons -> Seq(Jobs)]
  /\ \A e \in Daemons \ {d} : at'[e] = at[e] /\ batch'[e] = batch[e]

\* It leaves its job, or reports it failed.
Quits(d) ==
  /\ OneMoves(d)
  /\ at'[d] \in {"down", "idle", "job", "report"}
  /\ at'[d] \in {"job", "report"} => batch'[d] # <<>>
  /\ \A n \in DOMAIN batch'[d] : \E k \in DOMAIN batch[d] : batch'[d][n] = batch[d][k]

\* It goes on with its job.
Advances(d, step) ==
  /\ OneMoves(d)
  /\ at'[d] = step /\ batch' = batch

LEMMA TailFacts ==
  ASSUME NEW s \in Seq(Jobs), s # <<>>
  PROVE  /\ Tail(s) \in Seq(Jobs)
         /\ Len(s) > 1 => Tail(s) # <<>>
         /\ \A n \in DOMAIN Tail(s) : n + 1 \in DOMAIN s /\ Tail(s)[n] = s[n + 1]
         /\ Head(s) \in Jobs /\ 1 \in DOMAIN s /\ Head(s) = s[1]
<1>1. /\ Tail(s) \in Seq(Jobs) /\ Len(Tail(s)) = Len(s) - 1
      /\ Head(s) \in Jobs /\ Head(s) = s[1]
      /\ \A n \in 1 .. Len(Tail(s)) : Tail(s)[n] = s[n + 1]
  BY HeadTailProperties
<1>2. Len(s) \in Nat \ {0} /\ DOMAIN s = 1 .. Len(s)
  BY EmptySeq, LenProperties
<1>3. DOMAIN Tail(s) = 1 .. Len(Tail(s))
  BY <1>1, LenProperties
<1>4. Len(s) > 1 => Tail(s) # <<>>
  <2>1. ASSUME Tail(s) = <<>>
        PROVE  Len(Tail(s)) = 0
    BY <2>1, EmptySeq
  <2>2. Len(s) > 1 => Len(Tail(s)) # 0
    BY <1>1, <1>2
  <2> QED
    BY <2>1, <2>2
<1> QED
  BY <1>1, <1>2, <1>3, <1>4

LEMMA LeaveQuits ==
  ASSUME Placed, NEW d \in Daemons, batch[d] # <<>>, Leave(d)
  PROVE  Quits(d)
<1>1. batch[d] \in Seq(Jobs)
  BY DEF Placed
<1>2. batch' = [batch EXCEPT ![d] = Tail(batch[d])]
  BY DEF Leave
<1>3. batch' \in [Daemons -> Seq(Jobs)] /\ batch'[d] = Tail(batch[d])
      /\ \A e \in Daemons \ {d} : batch'[e] = batch[e]
  BY <1>1, <1>2, TailFacts DEF Placed
<1>4. /\ at' \in [Daemons -> Steps] /\ at'[d] \in {"down", "idle", "job"}
      /\ \A e \in Daemons \ {d} : at'[e] = at[e]
      /\ at'[d] = "job" => Len(batch[d]) > 1
  BY DEF Leave, Goto, Placed, Steps
<1>5. \A n \in DOMAIN batch'[d] : \E k \in DOMAIN batch[d] : batch'[d][n] = batch[d][k]
  BY <1>1, <1>3, TailFacts
<1> QED
  BY <1>1, <1>3, <1>4, <1>5, TailFacts DEF Quits, OneMoves

LEMMA GotoMoves ==
  ASSUME Placed, NEW d \in Daemons, NEW step \in Steps, Goto(d, step),
         UNCHANGED batch
  PROVE  Advances(d, step)
  BY DEF Goto, Placed, Advances, OneMoves

LEMMA ErrorQuits ==
  ASSUME Placed, NEW d \in Daemons, batch[d] # <<>>, NEW kind,
         HandleError(d, kind)
  PROVE  Quits(d)
<1>1. CASE Leave(d)
  BY <1>1, LeaveQuits
<1>2. CASE Goto(d, "report") /\ UNCHANGED batch
  <2>1. Advances(d, "report")
    BY <1>2, GotoMoves DEF Steps
  <2> QED
    BY <2>1 DEF Quits, Advances
<1> QED
  BY <1>1, <1>2 DEF HandleError

---------------------------------------------------------------------------
(* The steps of Next, by what they do to the ledger.                       *)

Counts == <<opened, charged, landed>>

\* Neither a process nor the ledger moves.
Quiet == UNCHANGED <<at, batch, opened, charged, landed>>

\* A process leaves its job, goes on with it without coming closer to a
\* signature than it was, or is handed jobs that are queued.
Turns(d) ==
  /\ UNCHANGED Counts
  /\ \/ Quits(d)
     \/ \E step \in {"build", "account", "request"} :
          at[d] \in SigningSteps /\ Advances(d, step)
     \/ at[d] \in PaidSteps /\ \E step \in PaidSteps : Advances(d, step)
     \/ at[d] = "down" /\ Advances(d, "idle")
     \/ /\ at[d] = "idle" /\ OneMoves(d)
        /\ at'[d] = "job" /\ batch'[d] # <<>>
        /\ \A n \in DOMAIN batch'[d] : status[batch'[d][n]] = "queued"

\* It takes up a job, from its batch or from an agent.
Opens(d, j) ==
  /\ OneMoves(d)
  /\ at[d] \in {"down", "idle", "job"} /\ at'[d] = "build"
  /\ batch'[d] # <<>> /\ Head(batch'[d]) = j
  /\ \/ at[d] = "job" /\ batch' = batch
     \/ batch'[d] = <<j>> /\ status[j] = "queued"
  /\ opened' = Counted(opened, j)
  /\ UNCHANGED <<charged, landed>>

\* The contract charges a request.
Pays(d) ==
  /\ at[d] = "request"
  /\ Quits(d) \/ Advances(d, "poll")
  /\ charged' = Counted(charged, Job(d))
  /\ UNCHANGED <<opened, landed>>

\* The chain takes a transfer.
Lands(d) ==
  /\ Sendable(d)
  /\ Quits(d) \/ Advances(d, "notify")
  /\ landed' = Counted(landed, Job(d))
  /\ UNCHANGED <<opened, charged>>

\* What becomes of a status.
Decides == \E j \in Jobs : Decide(j) \/ ApproveByHand(j)

Settles(d) ==
  /\ UNCHANGED <<opened, charged, landed, byHand>>
  /\ \/ at[d] = "notify" /\ Recorded(Job(d), "transmitted")
     \/ at[d] = "report" /\ Recorded(Job(d), "failed")

LEMMA HandledJob ==
  ASSUME Placed, NEW d \in Daemons, at[d] \notin {"down", "idle"}
  PROVE  /\ batch[d] \in Seq(Jobs) /\ batch[d] # <<>>
         /\ Job(d) \in Jobs /\ 1 \in DOMAIN batch[d] /\ Job(d) = batch[d][1]
  BY TailFacts DEF Placed, Job

LEMMA ForgetTurn ==
  ASSUME Placed, NEW d \in Daemons, at[d] \notin {"down", "idle"},
         UNCHANGED Counts,
         Leave(d) \/ \E kind : HandleError(d, kind)
  PROVE  Turns(d)
  BY HandledJob, LeaveQuits, ErrorQuits DEF Turns

LEMMA ServerMoves ==
  ASSUME ServerNext
  PROVE  Quiet /\ (UNCHANGED <<status, byHand>> \/ Decides)
<1>1. ASSUME NEW j \in Jobs, Decide(j) \/ ApproveByHand(j)
      PROVE  Quiet /\ Decides
  BY <1>1 DEF Decide, ApproveByHand, Quiet, ledger, Decides
<1>2. ASSUME NEW j \in Jobs, LeaseLapses(j) \/ LeaseOverrun(j) \/ JobExpires(j)
      PROVE  Quiet /\ UNCHANGED <<status, byHand>>
  BY <1>2 DEF LeaseLapses, LeaseOverrun, JobExpires, Quiet, ledger
<1> QED
  BY <1>1, <1>2 DEF ServerNext

LEMMA DisturbanceMoves ==
  ASSUME Placed, NEW d \in Daemons, Disturbance(d)
  PROVE  (Quiet \/ Turns(d)) /\ UNCHANGED <<status, byHand>>
<1>1. CASE Stop(d)
  <2>1. /\ at' = [at EXCEPT ![d] = "down"] /\ batch' = [batch EXCEPT ![d] = <<>>]
        /\ <<>> \in Seq(Jobs) /\ DOMAIN <<>> = {}
    BY <1>1, EmptySeq DEF Stop, Goto
  <2>2. Quits(d)
    BY <2>1 DEF Placed, Quits, OneMoves, Steps
  <2>3. UNCHANGED Counts /\ UNCHANGED <<status, byHand>>
    BY <1>1 DEF Stop, Counts, server
  <2> QED
    BY <2>2, <2>3 DEF Turns
<1>2. CASE TokenExpires(d) \/ CmdExportKey(d)
           \/ \E identity \in Identities :
                CmdInit(d, identity) \/ CmdImportKey(d, identity)
  BY <1>2 DEF TokenExpires, CmdExportKey, CmdInit, CmdImportKey, Quiet, ledger,
              server
<1>3. CASE \E rpc \in Rpcs : CoolsOff(d, rpc)
  BY <1>3 DEF CoolsOff, Quiet, ledger, server
<1> QED
  BY <1>1, <1>2, <1>3 DEF Disturbance

LEMMA OrderFacts ==
  ASSUME NEW jobs \in SUBSET Jobs, jobs # {}, NEW order \in Orders(jobs)
  PROVE  /\ order \in Seq(Jobs) /\ order # <<>>
         /\ \A n \in DOMAIN order : order[n] \in jobs
<1>1. Cardinality(jobs) \in Nat \ {0}
  BY DaemonAssumption, FS_Subset, FS_CardinalityType, FS_EmptySet
<1>2. order \in [1 .. Cardinality(jobs) -> jobs]
  BY DEF Orders
<1>3. order \in Seq(jobs)
  BY <1>1, <1>2, SeqDef
<1>4. 1 \in DOMAIN order /\ DOMAIN <<>> = {}
  BY <1>1, <1>2
<1> QED
  BY <1>2, <1>3, <1>4, SeqMonotonic

LEMMA CycleMoves ==
  ASSUME Placed, NEW d \in Daemons, Cycle(d)
  PROVE  (Quiet \/ Turns(d)) /\ UNCHANGED <<status, byHand>>
<1>1. CASE Start(d)
  <2>1. at[d] = "down" /\ Advances(d, "idle")
    BY <1>1, GotoMoves DEF Start, Steps
  <2> QED
    BY <1>1, <2>1 DEF Turns, Start, Counts, ledger, server
<1>2. CASE PollJobs(d)
  <2>1. PICK order \in Orders(Offered) : batch' = [batch EXCEPT ![d] = order]
    BY <1>2 DEF PollJobs
  <2>2. Offered \in SUBSET Jobs /\ Offered # {}
        /\ \A j \in Offered : status[j] = "queued"
    BY <1>2 DEF PollJobs, Offered
  <2>3. /\ order \in Seq(Jobs) /\ order # <<>>
        /\ \A n \in DOMAIN order : order[n] \in Offered
    BY <2>2, OrderFacts
  <2>4. at[d] = "idle" /\ at' = [at EXCEPT ![d] = "job"]
    BY <1>2 DEF PollJobs, Goto
  <2>5. OneMoves(d) /\ at'[d] = "job" /\ batch'[d] = order
    BY <2>1, <2>3, <2>4 DEF OneMoves, Placed, Steps
  <2> QED
    BY <1>2, <2>2, <2>3, <2>4, <2>5 DEF Turns, PollJobs, Counts, ledger
<1>3. CASE RefreshToken(d) \/ Sleep(d)
  BY <1>3 DEF RefreshToken, Sleep, Quiet, ledger, server, vars
<1> QED
  BY <1>1, <1>2, <1>3 DEF Cycle

LEMMA TakeMoves ==
  ASSUME Placed, NEW d \in Daemons, Take(d)
  PROVE  /\ Turns(d) \/ \E j \in Jobs : Opens(d, j)
         /\ UNCHANGED <<status, byHand>>
<1>1. CASE SkipFailed(d) \/ RefuseJob(d) \/ UnwrapFails(d)
  <2>1. at[d] = "job" /\ UNCHANGED Counts /\ UNCHANGED <<status, byHand>>
        /\ (Leave(d) \/ \E kind : HandleError(d, kind))
    BY <1>1 DEF SkipFailed, RefuseJob, UnwrapFails, Taken, Counts, ledger, server
  <2> QED
    BY <2>1, ForgetTurn
<1>2. CASE OpenJob(d)
  <2>1. at[d] = "job" /\ Job(d) \in Jobs /\ batch[d] # <<>>
    BY <1>2, HandledJob DEF OpenJob, Taken
  <2>2. Advances(d, "build")
    BY <1>2, GotoMoves DEF OpenJob, Begin, Steps
  <2>3. Opens(d, Job(d))
    BY <1>2, <2>1, <2>2 DEF OpenJob, Begin, Opens, Advances, Job
  <2> QED
    BY <1>2, <2>1, <2>3 DEF OpenJob, Begin, server
<1> QED
  BY <1>1, <1>2 DEF Take

LEMMA SubmitMoves ==
  ASSUME Placed, NEW d \in Daemons, NEW j \in Jobs,
         SubmitLocally(d, j) \/ CmdSign(d, j)
  PROVE  Opens(d, j) /\ UNCHANGED <<status, byHand>>
<1>1. at[d] \in {"down", "idle"} /\ Submitted(d, j)
  BY DEF SubmitLocally, CmdSign
<1>2. /\ status[j] = "queued" /\ batch' = [batch EXCEPT ![d] = <<j>>]
      /\ at' = [at EXCEPT ![d] = "build"] /\ opened' = Counted(opened, j)
      /\ UNCHANGED <<charged, landed, status, byHand>>
  BY <1>1 DEF Submitted, ReadyForExternalSigning, Begin, Goto, server
<1>3. <<j>> \in Seq(Jobs) /\ <<j>> # <<>> /\ Head(<<j>>) = j
  OBVIOUS
<1>4. OneMoves(d) /\ at'[d] = "build" /\ batch'[d] = <<j>>
  BY <1>2, <1>3 DEF OneMoves, Placed, Steps
<1> QED
  BY <1>1, <1>2, <1>3, <1>4 DEF Opens

LEMMA SignMoves ==
  ASSUME Placed, NEW d \in Daemons, Sign(d)
  PROVE  (Turns(d) \/ Pays(d)) /\ UNCHANGED <<status, byHand>>
<1>1. CASE \/ UnknownChain(d) \/ BuildFails(d) \/ RequestRefused(d)
           \/ PollsFailure(d) \/ PollGivesUp(d)
  <2>1. /\ at[d] \in SigningSteps
        /\ UNCHANGED Counts /\ UNCHANGED <<status, byHand>>
        /\ \E kind : HandleError(d, kind)
    BY <1>1 DEF UnknownChain, BuildFails, RequestRefused, PollsFailure, Polling,
                PollGivesUp, Counts, ledger, server, SigningSteps
  <2> QED
    BY <2>1, ForgetTurn DEF SigningSteps
<1>2. CASE Build(d)
  <2>1. Advances(d, "account")
    BY <1>2, GotoMoves DEF Build, Steps
  <2> QED
    BY <1>2, <2>1 DEF Build, Turns, Counts, ledger, server, SigningSteps
<1>3. CASE ReadAccount(d)
  <2>1. /\ at[d] = "account" /\ UNCHANGED Counts /\ UNCHANGED <<status, byHand>>
        /\ \/ \E kind : HandleError(d, kind)
           \/ Goto(d, "request") /\ UNCHANGED batch
    BY <1>3 DEF ReadAccount, Counts, ledger, server
  <2>2. ASSUME Goto(d, "request"), UNCHANGED batch
        PROVE  Turns(d)
    <3>1. Advances(d, "request")
      BY <2>2, GotoMoves DEF Steps
    <3> QED
      BY <2>1, <3>1 DEF Turns, SigningSteps
  <2> QED
    BY <2>1, <2>2, ForgetTurn
<1>4. CASE RequestAccepted(d)
  <2>1. Advances(d, "poll")
    BY <1>4, GotoMoves DEF RequestAccepted, Steps
  <2> QED
    BY <1>4, <2>1 DEF RequestAccepted, Pays, server
<1>5. CASE RequestUnanswered(d)
  <2>1. at[d] = "request" /\ \E kind : HandleError(d, kind)
    BY <1>5 DEF RequestUnanswered
  <2>2. Quits(d)
    BY <2>1, HandledJob, ErrorQuits
  <2> QED
    BY <1>5, <2>1, <2>2 DEF RequestUnanswered, Pays, server
<1>6. CASE (\E error \in RpcErrors \ {"reused"} : PollFails(d, error))
             \/ PollsPending(d)
  BY <1>6 DEF PollFails, PollsPending, Polling, Turns, Counts, ledger, server,
              PaidSteps, Advances, OneMoves, Placed
<1>7. CASE PollsSignature(d)
  <2>1. at[d] = "poll" /\ Advances(d, "send")
    BY <1>7, GotoMoves DEF PollsSignature, Polling, Steps
  <2> QED
    BY <1>7, <2>1 DEF PollsSignature, Turns, Counts, ledger, server, PaidSteps
<1> QED
  BY <1>1, <1>2, <1>3, <1>4, <1>5, <1>6, <1>7 DEF Sign

LEMMA TransferMoves ==
  ASSUME Placed, NEW d \in Daemons, Transfer(d)
  PROVE  /\ Turns(d) \/ Lands(d)
         /\ UNCHANGED <<status, byHand>> \/ (Turns(d) /\ Settles(d))
<1>1. CASE SendOk(d)
  <2>1. Advances(d, "notify")
    BY <1>1, GotoMoves DEF SendOk, Steps
  <2> QED
    BY <1>1, <2>1 DEF SendOk, Lands, server
<1>2. CASE SendUnanswered(d)
  <2>1. at[d] = "send" /\ \E kind : HandleError(d, kind)
    BY <1>2 DEF SendUnanswered, Sendable
  <2>2. Quits(d)
    BY <2>1, HandledJob, ErrorQuits
  <2> QED
    BY <1>2, <2>2 DEF SendUnanswered, Lands, server
<1>3. CASE SendStale(d) \/ SendUnverified(d) \/ NonceRefused(d) \/ SendFails(d)
  <2>1. /\ at[d] = "send" /\ UNCHANGED Counts /\ UNCHANGED <<status, byHand>>
        /\ Retry(d) \/ \E kind : HandleError(d, kind)
    BY <1>3 DEF SendStale, SendUnverified, NonceRefused, SendFails, Counts,
                ledger, server
  <2>2. ASSUME Retry(d)
        PROVE  Turns(d)
    <3>1. Advances(d, "build")
      BY <2>2, GotoMoves DEF Retry, Steps
    <3> QED
      BY <2>1, <3>1 DEF Turns, SigningSteps
  <2> QED
    BY <2>1, <2>2, ForgetTurn
<1>4. CASE Notify(d) \/ ReportFailed(d)
  <2>1. /\ at[d] \in {"notify", "report"} /\ Leave(d) /\ UNCHANGED Counts
        /\ Settles(d)
    BY <1>4 DEF Notify, ReportFailed, Counts, Settles, ledger
  <2> QED
    BY <2>1, ForgetTurn
<1>5. CASE CompleteJobFails(d)
  <2>1. /\ at[d] = "notify" /\ UNCHANGED Counts
        /\ \E kind : HandleError(d, kind)
        /\ Settles(d) \/ UNCHANGED <<status, byHand>>
    BY <1>5 DEF CompleteJobFails, Counts, Settles
  <2> QED
    BY <2>1, ForgetTurn
<1>6. CASE NotifyLost(d) \/ ReportLost(d)
  <2>1. /\ at[d] \in {"notify", "report"} /\ Leave(d) /\ UNCHANGED Counts
        /\ UNCHANGED <<status, byHand>>
    BY <1>6 DEF NotifyLost, ReportLost, Counts, server
  <2> QED
    BY <2>1, ForgetTurn
<1> QED
  BY <1>1, <1>2, <1>3, <1>4, <1>5, <1>6 DEF Transfer

\* A decision moves no process; an outcome is recorded by a process that
\* turns from its job.
LEMMA Moves ==
  ASSUME Placed, [Next]_vars
  PROVE  \/ Quiet /\ (UNCHANGED <<status, byHand>> \/ Decides)
         \/ \E d \in Daemons : Turns(d) /\ (UNCHANGED <<status, byHand>> \/ Settles(d))
         \/ /\ UNCHANGED <<status, byHand>>
            /\ \E d \in Daemons : Pays(d) \/ Lands(d) \/ \E j \in Jobs : Opens(d, j)
<1>1. CASE UNCHANGED vars
  BY <1>1 DEF vars, Quiet, server, ledger
<1>2. CASE ServerNext
  BY <1>2, ServerMoves
<1>3. ASSUME NEW d \in Daemons,
             \/ Disturbance(d) \/ Cycle(d) \/ Take(d) \/ Sign(d) \/ Transfer(d)
             \/ \E j \in Jobs : SubmitLocally(d, j) \/ CmdSign(d, j)
      PROVE  \/ Quiet /\ UNCHANGED <<status, byHand>>
             \/ Turns(d) /\ (UNCHANGED <<status, byHand>> \/ Settles(d))
             \/ /\ UNCHANGED <<status, byHand>>
                /\ Pays(d) \/ Lands(d) \/ \E j \in Jobs : Opens(d, j)
  BY <1>3, DisturbanceMoves, CycleMoves, TakeMoves, SubmitMoves, SignMoves,
     TransferMoves
<1> QED
  BY <1>1, <1>2, <1>3 DEF Next

LEMMA ChosenFixed == [Next]_vars => UNCHANGED <<tx, request>>
<1> SUFFICES ASSUME [Next]_vars PROVE UNCHANGED <<tx, request>>
  OBVIOUS
<1>1. CASE ServerNext
  BY <1>1 DEF ServerNext, Decide, ApproveByHand, LeaseLapses, LeaseOverrun,
              JobExpires, host
<1>2. ASSUME NEW d \in Daemons, Disturbance(d) \/ Cycle(d) \/ Take(d)
      PROVE  UNCHANGED <<tx, request>>
  BY <1>2 DEF Disturbance, Stop, TokenExpires, CmdExportKey, CmdInit,
              CmdImportKey, CoolsOff, Cycle, Start, PollJobs, RefreshToken, Sleep,
              Take, SkipFailed, RefuseJob, UnwrapFails, OpenJob, host, vars
<1>3. ASSUME NEW d \in Daemons, NEW j \in Jobs, SubmitLocally(d, j) \/ CmdSign(d, j)
      PROVE  UNCHANGED <<tx, request>>
  BY <1>3 DEF SubmitLocally, CmdSign, Submitted, host
<1>4. ASSUME NEW d \in Daemons, Sign(d) \/ Transfer(d)
      PROVE  UNCHANGED <<tx, request>>
  BY <1>4 DEF Sign, Build, UnknownChain, BuildFails, ReadAccount,
              RequestAccepted, RequestRefused, RequestUnanswered, PollFails,
              PollsPending, PollsSignature, PollsFailure, PollGivesUp,
              Transfer, SendOk, SendStale, SendUnverified, NonceRefused, SendFails,
              SendUnanswered, Notify, NotifyLost, CompleteJobFails, ReportFailed,
              ReportLost, host
<1>5. CASE UNCHANGED vars
  BY <1>5 DEF vars, host
<1> QED
  BY <1>1, <1>2, <1>3, <1>4, <1>5 DEF Next

---------------------------------------------------------------------------
(* The invariant is kept.                                                  *)

\* Each process stands for one, and a step moves one process.
LEMMA Balance ==
  ASSUME NEW S, NEW T, IsFiniteSet(S), IsFiniteSet(T), NEW d, S \ {d} = T \ {d},
         NEW a \in Nat, NEW b \in Nat, NEW a2 \in Nat, NEW b2 \in Nat,
         a + Cardinality(S) <= b,
         \/ a2 = a /\ b2 = b /\ (d \in T => d \in S)
         \/ a2 = a /\ b2 = b + 1
         \/ a2 = a + 1 /\ b2 = b /\ d \in S /\ d \notin T
  PROVE  a2 + Cardinality(T) <= b2
<1>1. /\ Cardinality(S) \in Nat /\ Cardinality(T) \in Nat
      /\ Cardinality(S \ {d}) = IF d \in S THEN Cardinality(S) - 1 ELSE Cardinality(S)
      /\ Cardinality(T \ {d}) = IF d \in T THEN Cardinality(T) - 1 ELSE Cardinality(T)
  BY FS_RemoveElement, FS_CardinalityType
<1> QED
  BY <1>1

LEMMA Sides ==
  ASSUME NEW j
  PROVE  /\ IsFiniteSet(PaidBy(j)) /\ IsFiniteSet(PaidBy(j)')
         /\ IsFiniteSet(SignedBy(j)) /\ IsFiniteSet(SignedBy(j)')
<1>1. /\ PaidBy(j) \in SUBSET Daemons /\ PaidBy(j)' \in SUBSET Daemons
      /\ SignedBy(j) \in SUBSET Daemons /\ SignedBy(j)' \in SUBSET Daemons
  BY DEF PaidBy, SignedBy
<1> QED
  BY <1>1, DaemonAssumption, FS_Subset

LEMMA MovedSides ==
  ASSUME NEW d \in Daemons, OneMoves(d), NEW j
  PROVE  /\ PaidBy(j) \ {d} = PaidBy(j)' \ {d}
         /\ SignedBy(j) \ {d} = SignedBy(j)' \ {d}
  BY DEF OneMoves, PaidBy, SignedBy, Paying, Signing, Job

LEMMA PlacedKept ==
  ASSUME Placed, [Next]_vars
  PROVE  Placed'
<1>1. CASE Quiet
  BY <1>1 DEF Quiet, Placed
<1>2. ASSUME NEW d \in Daemons, NEW step, Advances(d, step), batch[d] # <<>>
      PROVE  Placed'
  BY <1>2 DEF Advances, OneMoves, Placed
<1>3. ASSUME NEW d \in Daemons, Quits(d)
      PROVE  Placed'
  BY <1>3 DEF Quits, OneMoves, Placed
<1>4. ASSUME NEW d \in Daemons, Turns(d)
      PROVE  Placed'
  <2>1. CASE at[d] = "down" /\ Advances(d, "idle")
    BY <2>1 DEF Advances, OneMoves, Placed
  <2>2. CASE OneMoves(d) /\ batch'[d] # <<>>
    BY <2>2 DEF OneMoves, Placed
  <2>3. at[d] \in SigningSteps => batch[d] # <<>>
    BY HandledJob DEF SigningSteps
  <2>4. at[d] \in PaidSteps => batch[d] # <<>>
    BY HandledJob DEF PaidSteps
  <2> QED
    BY <1>2, <1>3, <1>4, <2>1, <2>2, <2>3, <2>4 DEF Turns
<1>5. ASSUME NEW d \in Daemons, Pays(d) \/ Lands(d)
      PROVE  Placed'
  <2>1. batch[d] # <<>>
    BY <1>5, HandledJob DEF Pays, Lands, Sendable
  <2> QED
    BY <1>2, <1>3, <1>5, <2>1 DEF Pays, Lands
<1>6. ASSUME NEW d \in Daemons, NEW j \in Jobs, Opens(d, j)
      PROVE  Placed'
  BY <1>6 DEF Opens, OneMoves, Placed
<1> QED
  BY <1>1, <1>4, <1>5, <1>6, Moves

LEMMA NumbersKept ==
  ASSUME Placed, Numbers, [Next]_vars
  PROVE  /\ Numbers'
         /\ \A j \in Jobs : landed'[j] >= landed[j]
<1>1. ASSUME NEW count \in [Jobs -> Nat], NEW j \in Jobs
      PROVE  /\ Counted(count, j) \in [Jobs -> Nat]
             /\ \A i \in Jobs : Counted(count, j)[i]
                                  = IF i = j THEN count[i] + 1 ELSE count[i]
  BY DEF Counted
<1>2. CASE Quiet \/ \E d \in Daemons : Turns(d)
  BY <1>2 DEF Quiet, Turns, Counts, Numbers
<1>3. ASSUME NEW d \in Daemons, Pays(d) \/ Lands(d) \/ \E j \in Jobs : Opens(d, j)
      PROVE  Numbers' /\ \A j \in Jobs : landed'[j] >= landed[j]
  <2>1. Pays(d) \/ Lands(d) => Job(d) \in Jobs
    BY HandledJob DEF Pays, Lands, Sendable
  <2>2. CASE Pays(d)
    BY <1>1, <2>1, <2>2 DEF Pays, Numbers
  <2>3. CASE Lands(d)
    BY <1>1, <2>1, <2>3 DEF Lands, Numbers
  <2>4. ASSUME NEW j \in Jobs, Opens(d, j)
        PROVE  Numbers' /\ landed' = landed
    BY <1>1, <2>4 DEF Opens, Numbers
  <2> QED
    BY <1>3, <2>2, <2>3, <2>4 DEF Numbers
<1> QED
  BY <1>2, <1>3, Moves

\* What a step does to one process's part in the balance of a job.
LEMMA TurnSides ==
  ASSUME Placed, NEW d \in Daemons, NEW j \in Jobs
  PROVE  /\ Turns(d) => /\ OneMoves(d)
                        /\ d \in PaidBy(j)' => d \in PaidBy(j)
                        /\ d \in SignedBy(j)' => d \in SignedBy(j)
         /\ Pays(d) => /\ OneMoves(d)
                       /\ d \in PaidBy(j)' => j = Job(d)
                       /\ d \in SignedBy(j)' => d \in SignedBy(j)
         /\ Lands(d) => /\ OneMoves(d)
                        /\ d \notin PaidBy(j)' /\ d \notin SignedBy(j)'
                        /\ Job(d) = j => d \in PaidBy(j) /\ d \in SignedBy(j)
         /\ \A i \in Jobs : Opens(d, i) =>
              /\ OneMoves(d) /\ d \notin PaidBy(j)'
              /\ d \in SignedBy(j)' => i = j
<1>1. ASSUME Quits(d)
      PROVE  OneMoves(d) /\ d \notin PaidBy(j)' /\ d \notin SignedBy(j)'
  BY <1>1 DEF Quits, PaidBy, Paying, PaidSteps, SignedBy, Signing, SigningSteps
<1>2. ASSUME NEW step, Advances(d, step)
      PROVE  /\ OneMoves(d)
             /\ d \in PaidBy(j)' <=> step \in PaidSteps /\ Job(d) = j
             /\ d \in SignedBy(j)' <=> step \in SigningSteps /\ Job(d) = j
  BY <1>2 DEF Advances, PaidBy, Paying, SignedBy, Signing, Job
<1>3. /\ d \in PaidBy(j) <=> at[d] \in PaidSteps /\ Job(d) = j
      /\ d \in SignedBy(j) <=> at[d] \in SigningSteps /\ Job(d) = j
      /\ PaidSteps = {"poll", "send"}
      /\ SigningSteps = {"build", "account", "request", "poll", "send"}
  BY DEF PaidBy, Paying, SignedBy, Signing, PaidSteps, SigningSteps
<1>4. ASSUME Turns(d)
      PROVE  /\ OneMoves(d)
             /\ d \in PaidBy(j)' => d \in PaidBy(j)
             /\ d \in SignedBy(j)' => d \in SignedBy(j)
  <2>1. CASE OneMoves(d) /\ at'[d] = "job"
    BY <2>1, <1>3 DEF PaidBy, Paying, PaidSteps, SignedBy, Signing, SigningSteps
  <2> QED
    BY <1>1, <1>2, <1>3, <1>4, <2>1 DEF Turns
<1>5. ASSUME Pays(d)
      PROVE  /\ OneMoves(d)
             /\ d \in PaidBy(j)' => j = Job(d)
             /\ d \in SignedBy(j)' => d \in SignedBy(j)
  BY <1>1, <1>2, <1>3, <1>5 DEF Pays
<1>6. ASSUME Lands(d)
      PROVE  /\ OneMoves(d)
             /\ d \notin PaidBy(j)' /\ d \notin SignedBy(j)'
             /\ Job(d) = j => d \in PaidBy(j) /\ d \in SignedBy(j)
  BY <1>1, <1>2, <1>3, <1>6 DEF Lands, Sendable
<1>7. ASSUME NEW i \in Jobs, Opens(d, i)
      PROVE  /\ OneMoves(d) /\ d \notin PaidBy(j)'
             /\ d \in SignedBy(j)' => i = j
  BY <1>7 DEF Opens, PaidBy, Paying, PaidSteps, SignedBy, Signing, Job
<1> QED
  BY <1>4, <1>5, <1>6, <1>7

LEMMA PaidKept ==
  ASSUME Placed, Numbers, Paid, [Next]_vars
  PROVE  Paid'
<1> SUFFICES ASSUME NEW j \in Jobs
             PROVE  landed'[j] + Cardinality(PaidBy(j)') <= charged'[j]
  BY DEF Paid
<1>1. /\ landed[j] + Cardinality(PaidBy(j)) <= charged[j]
      /\ landed[j] \in Nat /\ charged[j] \in Nat
      /\ landed'[j] \in Nat /\ charged'[j] \in Nat
  BY NumbersKept DEF Paid, Numbers
<1>2. CASE Quiet
  BY <1>1, <1>2 DEF Quiet, PaidBy, Paying, Job
<1>3. ASSUME NEW d \in Daemons, OneMoves(d),
             \/ /\ landed'[j] = landed[j] /\ charged'[j] = charged[j]
                /\ d \in PaidBy(j)' => d \in PaidBy(j)
             \/ landed'[j] = landed[j] /\ charged'[j] = charged[j] + 1
             \/ /\ landed'[j] = landed[j] + 1 /\ charged'[j] = charged[j]
                /\ d \in PaidBy(j) /\ d \notin PaidBy(j)'
      PROVE  landed'[j] + Cardinality(PaidBy(j)') <= charged'[j]
  <2> DEFINE S == PaidBy(j)
             T == PaidBy(j)'
  <2>1. IsFiniteSet(S) /\ IsFiniteSet(T) /\ S \ {d} = T \ {d}
    BY <1>3, Sides, MovedSides
  <2>2. S = PaidBy(j) /\ T = PaidBy(j)'
    OBVIOUS
  <2> HIDE DEF S, T
  <2> QED
    BY <1>1, <1>3, <2>1, <2>2, Balance
<1>4. ASSUME NEW d \in Daemons, Turns(d)
      PROVE  landed'[j] + Cardinality(PaidBy(j)') <= charged'[j]
  BY <1>3, <1>4, TurnSides DEF Turns, Counts
<1>5. ASSUME NEW d \in Daemons, Pays(d)
      PROVE  landed'[j] + Cardinality(PaidBy(j)') <= charged'[j]
  <2>1. landed'[j] = landed[j]
        /\ charged'[j] = IF j = Job(d) THEN charged[j] + 1 ELSE charged[j]
    BY <1>5 DEF Pays, Counted, Numbers
  <2> QED
    BY <1>3, <1>5, <2>1, TurnSides
<1>6. ASSUME NEW d \in Daemons, Lands(d)
      PROVE  landed'[j] + Cardinality(PaidBy(j)') <= charged'[j]
  <2>1. charged'[j] = charged[j]
        /\ landed'[j] = IF j = Job(d) THEN landed[j] + 1 ELSE landed[j]
    BY <1>6 DEF Lands, Counted, Numbers
  <2> QED
    BY <1>3, <1>6, <2>1, TurnSides
<1>7. ASSUME NEW d \in Daemons, NEW i \in Jobs, Opens(d, i)
      PROVE  landed'[j] + Cardinality(PaidBy(j)') <= charged'[j]
  BY <1>3, <1>7, TurnSides DEF Opens
<1> QED
  BY <1>2, <1>4, <1>5, <1>6, <1>7, Moves

LEMMA UnsentKept ==
  ASSUME Placed, Numbers, Unsent, [Next]_vars
  PROVE  Unsent'
<1> SUFFICES ASSUME NEW j \in Jobs
             PROVE  landed'[j] + Cardinality(SignedBy(j)') <= opened'[j]
  BY DEF Unsent
<1>1. /\ landed[j] + Cardinality(SignedBy(j)) <= opened[j]
      /\ landed[j] \in Nat /\ opened[j] \in Nat
      /\ landed'[j] \in Nat /\ opened'[j] \in Nat
  BY NumbersKept DEF Unsent, Numbers
<1>2. CASE Quiet
  BY <1>1, <1>2 DEF Quiet, SignedBy, Signing, Job
<1>3. ASSUME NEW d \in Daemons, OneMoves(d),
             \/ /\ landed'[j] = landed[j] /\ opened'[j] = opened[j]
                /\ d \in SignedBy(j)' => d \in SignedBy(j)
             \/ landed'[j] = landed[j] /\ opened'[j] = opened[j] + 1
             \/ /\ landed'[j] = landed[j] + 1 /\ opened'[j] = opened[j]
                /\ d \in SignedBy(j) /\ d \notin SignedBy(j)'
      PROVE  landed'[j] + Cardinality(SignedBy(j)') <= opened'[j]
  <2> DEFINE S == SignedBy(j)
             T == SignedBy(j)'
  <2>1. IsFiniteSet(S) /\ IsFiniteSet(T) /\ S \ {d} = T \ {d}
    BY <1>3, Sides, MovedSides
  <2>2. S = SignedBy(j) /\ T = SignedBy(j)'
    OBVIOUS
  <2> HIDE DEF S, T
  <2> QED
    BY <1>1, <1>3, <2>1, <2>2, Balance
<1>4. ASSUME NEW d \in Daemons, Turns(d)
      PROVE  landed'[j] + Cardinality(SignedBy(j)') <= opened'[j]
  BY <1>3, <1>4, TurnSides DEF Turns, Counts
<1>5. ASSUME NEW d \in Daemons, Pays(d)
      PROVE  landed'[j] + Cardinality(SignedBy(j)') <= opened'[j]
  BY <1>3, <1>5, TurnSides DEF Pays
<1>6. ASSUME NEW d \in Daemons, Lands(d)
      PROVE  landed'[j] + Cardinality(SignedBy(j)') <= opened'[j]
  <2>1. opened'[j] = opened[j]
        /\ landed'[j] = IF j = Job(d) THEN landed[j] + 1 ELSE landed[j]
    BY <1>6 DEF Lands, Counted, Numbers
  <2> QED
    BY <1>3, <1>6, <2>1, TurnSides
<1>7. ASSUME NEW d \in Daemons, NEW i \in Jobs, Opens(d, i)
      PROVE  landed'[j] + Cardinality(SignedBy(j)') <= opened'[j]
  <2>1. landed'[j] = landed[j]
        /\ opened'[j] = IF j = i THEN opened[j] + 1 ELSE opened[j]
    BY <1>7 DEF Opens, Counted, Numbers
  <2> QED
    BY <1>3, <1>7, <2>1, TurnSides
<1> QED
  BY <1>2, <1>4, <1>5, <1>6, <1>7, Moves

LEMMA SentKept ==
  ASSUME Placed, Numbers, Sent, [Next]_vars
  PROVE  Sent'
<1> SUFFICES ASSUME NEW e \in Daemons, at'[e] = "notify"
             PROVE  landed'[Job(e)'] > 0
  BY DEF Sent
<1>1. ASSUME at[e] = "notify", Job(e)' = Job(e)
      PROVE  landed'[Job(e)'] > 0
  <2>1. Job(e) \in Jobs /\ landed[Job(e)] > 0
    BY <1>1, HandledJob DEF Sent
  <2>2. landed[Job(e)] \in Nat /\ landed'[Job(e)] \in Nat
        /\ landed'[Job(e)] >= landed[Job(e)]
    BY <2>1, NumbersKept DEF Numbers
  <2> QED
    BY <1>1, <2>1, <2>2
<1>2. ASSUME NEW d \in Daemons, OneMoves(d), e # d
      PROVE  landed'[Job(e)'] > 0
  BY <1>1, <1>2 DEF OneMoves, Job
<1>3. CASE Quiet
  BY <1>1, <1>3 DEF Quiet, Job
<1>4. ASSUME NEW d \in Daemons, Turns(d) \/ Pays(d)
      PROVE  landed'[Job(e)'] > 0
  <2>1. at'[d] # "notify" /\ OneMoves(d)
    BY <1>4 DEF Turns, Pays, Quits, Advances, PaidSteps
  <2> QED
    BY <1>2, <2>1
<1>5. ASSUME NEW d \in Daemons, Lands(d)
      PROVE  landed'[Job(e)'] > 0
  <2>1. Job(d) \in Jobs /\ OneMoves(d) /\ landed[Job(d)] \in Nat
        /\ landed'[Job(d)] = landed[Job(d)] + 1
    BY <1>5, HandledJob
       DEF Lands, Sendable, Quits, Advances, Counted, Numbers
  <2>2. e = d => Job(e)' = Job(d)
    BY <1>5 DEF Lands, Quits, Advances, Job
  <2> QED
    BY <1>2, <2>1, <2>2
<1>6. ASSUME NEW d \in Daemons, NEW j \in Jobs, Opens(d, j)
      PROVE  landed'[Job(e)'] > 0
  <2>1. at'[d] # "notify" /\ OneMoves(d)
    BY <1>6 DEF Opens
  <2> QED
    BY <1>2, <2>1
<1> QED
  BY <1>3, <1>4, <1>5, <1>6, Moves

---------------------------------------------------------------------------
(* Approval.                                                               *)

\* What has been cleared stays cleared, and a status that a job gets by a
\* decision is one it is cleared for.
LEMMA StatusKept ==
  ASSUME Placed, Approved, [Next]_vars
  PROVE  /\ status' \in [Jobs -> Statuses] /\ byHand' \in [Jobs -> BOOLEAN]
         /\ \A j \in Jobs : Cleared(j) => Cleared(j)'
         /\ \A j \in Jobs : status'[j] \in Past => Cleared(j)'
<1>1. request' = request
  BY ChosenFixed
<1>2. CASE UNCHANGED <<status, byHand>>
  BY <1>1, <1>2 DEF Approved, Cleared
<1>3. ASSUME NEW j \in Jobs, Decide(j)
      PROVE  /\ status' = [status EXCEPT ![j] =
                             IF Eligible(request[j]) THEN "queued" ELSE "waiting"]
             /\ byHand' = byHand
  BY <1>3 DEF Decide, ledger
<1>4. ASSUME NEW j \in Jobs, ApproveByHand(j)
      PROVE  /\ status' = [status EXCEPT ![j] = "queued"]
             /\ byHand' = [byHand EXCEPT ![j] = TRUE]
  BY <1>4 DEF ApproveByHand
<1>5. CASE Decides
  <2>1. PICK j \in Jobs : Decide(j) \/ ApproveByHand(j)
    BY <1>5 DEF Decides
  <2>2. CASE Decide(j)
    BY <1>1, <1>3, <2>2 DEF Approved, Cleared, Past, Statuses
  <2>3. CASE ApproveByHand(j)
    BY <1>1, <1>4, <2>3 DEF Approved, Cleared, Past, Statuses
  <2> QED
    BY <2>1, <2>2, <2>3
<1>6. ASSUME NEW d \in Daemons, Settles(d)
      PROVE  /\ status' \in [Jobs -> Statuses] /\ byHand' = byHand
             /\ \A j \in Jobs : status'[j] \in Past => status[j] \in Past
  <2>1. ASSUME NEW outcome \in {"transmitted", "failed"}, Recorded(Job(d), outcome)
        PROVE  /\ status' \in [Jobs -> Statuses]
               /\ \A j \in Jobs : status'[j] \in Past => status[j] \in Past
    BY <2>1 DEF Recorded, Approved, Past, Statuses
  <2> QED
    BY <1>6, <2>1 DEF Settles
<1>7. ASSUME NEW d \in Daemons, Settles(d)
      PROVE  /\ status' \in [Jobs -> Statuses] /\ byHand' \in [Jobs -> BOOLEAN]
             /\ \A j \in Jobs : Cleared(j) => Cleared(j)'
             /\ \A j \in Jobs : status'[j] \in Past => Cleared(j)'
  BY <1>1, <1>6, <1>7 DEF Approved, Cleared
<1> QED
  BY <1>2, <1>5, <1>7, Moves

LEMMA ApprovedKept ==
  ASSUME Placed, Numbers, Approved, [Next]_vars
  PROVE  Approved'
<1> DEFINE Waiting(d) == \A n \in DOMAIN batch[d] : Cleared(batch[d][n])
<1>1. \A d \in Daemons : batch[d] \in Seq(Jobs) /\ batch'[d] \in Seq(Jobs)
  BY PlacedKept DEF Placed
<1>2. \A d \in Daemons : batch'[d] = batch[d] => Waiting(d)'
  <2>1. ASSUME NEW d \in Daemons, batch'[d] = batch[d], NEW n \in DOMAIN batch[d]
        PROVE  Cleared(batch[d][n])'
    <3>1. batch[d][n] \in Jobs
      BY <1>1, <2>1, LenProperties, ElementOfSeq
    <3> QED
      BY <2>1, <3>1, StatusKept DEF Approved
  <2> QED
    BY <2>1
<1>3. ASSUME NEW d \in Daemons, OneMoves(d),
             \A n \in DOMAIN batch'[d] :
               \/ \E k \in DOMAIN batch[d] : batch'[d][n] = batch[d][k]
               \/ status[batch'[d][n]] = "queued"
      PROVE  \A e \in Daemons : Waiting(e)'
  <2>1. ASSUME NEW n \in DOMAIN batch'[d]
        PROVE  Cleared(batch[d][n])'
    <3>1. PICK i \in Jobs : i = batch'[d][n]
      BY <1>1, <2>1, LenProperties, ElementOfSeq
    <3>2. Cleared(i)
      BY <1>3, <2>1, <3>1 DEF Approved, Past
    <3>3. Cleared(i)'
      BY <3>2, StatusKept
    <3> QED
      BY <3>1, <3>3 DEF Cleared
  <2> QED
    BY <1>2, <1>3, <2>1 DEF OneMoves
<1>4. \A e \in Daemons : Waiting(e)'
  <2>1. CASE Quiet
    BY <1>2, <2>1 DEF Quiet
  <2>2. ASSUME NEW d \in Daemons, Quits(d)
        PROVE  \A e \in Daemons : Waiting(e)'
    BY <1>3, <2>2 DEF Quits
  <2>3. ASSUME NEW d \in Daemons, NEW step, Advances(d, step)
        PROVE  \A e \in Daemons : Waiting(e)'
    BY <1>2, <2>3 DEF Advances
  <2>4. ASSUME NEW d \in Daemons, Turns(d) \/ Pays(d) \/ Lands(d)
        PROVE  \A e \in Daemons : Waiting(e)'
    BY <1>3, <2>2, <2>3, <2>4 DEF Turns, Pays, Lands
  <2>5. ASSUME NEW d \in Daemons, NEW j \in Jobs, Opens(d, j)
        PROVE  \A e \in Daemons : Waiting(e)'
    <3>1. CASE batch' = batch
      BY <1>2, <3>1
    <3>2. CASE batch'[d] = <<j>> /\ status[j] = "queued"
      BY <1>3, <2>5, <3>2 DEF Opens
    <3> QED
      BY <2>5, <3>1, <3>2 DEF Opens
  <2> QED
    BY <2>1, <2>4, <2>5, Moves
<1>5. \A j \in Jobs : opened'[j] > 0 => opened[j] > 0 \/ Cleared(j)
  <2>1. ASSUME NEW d \in Daemons, NEW i \in Jobs, Opens(d, i)
        PROVE  Cleared(i)
    <3>1. CASE at[d] = "job" /\ batch' = batch
      BY <2>1, <3>1, HandledJob DEF Opens, Approved, Job
    <3>2. CASE status[i] = "queued"
      BY <3>2 DEF Approved, Past
    <3> QED
      BY <2>1, <3>1, <3>2 DEF Opens
  <2>2. ASSUME NEW d \in Daemons, NEW i \in Jobs, Opens(d, i)
        PROVE  \A j \in Jobs : j # i => opened'[j] = opened[j]
    BY <2>2 DEF Opens, Counted, Numbers
  <2>3. CASE UNCHANGED opened
    BY <2>3
  <2> QED
    BY <2>1, <2>2, <2>3, Moves DEF Quiet, Turns, Counts, Pays, Lands
<1>6. \A j \in Jobs : IsRequest(request'[j])
  BY ChosenFixed DEF Approved
<1> QED
  BY <1>4, <1>5, <1>6, StatusKept DEF Approved

---------------------------------------------------------------------------
(* Charges.  A process that signs may still ask for as many signatures as  *)
(* it has attempts left; each is a pair of the process and an attempt.     *)

Left(d) ==
  IF at[d] \in PaidSteps THEN (attempt[d] + 1) .. MaxRetries
                         ELSE attempt[d] .. MaxRetries

Chances(j) ==
  {p \in Daemons \X (0 .. MaxRetries) : Signing(p[1], j) /\ p[2] \in Left(p[1])}

AttemptMoves(d) ==
  at'[d] \in SigningSteps =>
    attempt'[d] = IF at[d] \in PaidSteps /\ at'[d] \notin PaidSteps
                  THEN attempt[d] + 1 ELSE attempt[d]

Attempts == attempt \in [Daemons -> 0 .. MaxRetries]

Limit(n) == (MaxRetries + 1) * n

Budgeted == \A j \in Jobs : charged[j] + Cardinality(Chances(j)) <= Limit(opened[j])

LEMMA LimitFacts ==
  /\ Limit(0) = 0
  /\ \A n \in Nat : Limit(n) \in Nat /\ Limit(n + 1) = Limit(n) + (MaxRetries + 1)
  BY DaemonAssumption DEF Limit

\* The ways a step treats the attempt: it keeps it, forgets it with the job,
\* or counts it for another signature.
LEMMA KeptAttempt ==
  ASSUME Placed, Attempts, UNCHANGED attempt,
         \/ UNCHANGED at
         \/ \E d \in Daemons, step \in Steps :
              /\ Goto(d, step)
              /\ at[d] \notin PaidSteps \/ step \notin SigningSteps \ PaidSteps
  PROVE  Attempts' /\ \A e \in Daemons : AttemptMoves(e)
  BY DEF Placed, Attempts, Goto, AttemptMoves, PaidSteps, SigningSteps

LEMMA ForgottenAttempt ==
  ASSUME Placed, Attempts, NEW d \in Daemons, Forget(d),
         NEW step \in Steps \ SigningSteps, Goto(d, step)
  PROVE  Attempts' /\ \A e \in Daemons : AttemptMoves(e)
<1>1. 0 \in 0 .. MaxRetries
  BY DaemonAssumption
<1> QED
  BY <1>1 DEF Placed, Attempts, Forget, Goto, AttemptMoves, PaidSteps, SigningSteps

LEMMA CountedAttempt ==
  ASSUME Placed, Attempts, NEW d \in Daemons, at[d] = "send", Retry(d)
  PROVE  Attempts' /\ \A e \in Daemons : AttemptMoves(e)
<1>1. attempt[d] + 1 \in 0 .. MaxRetries
  BY DaemonAssumption DEF Attempts, Retry
<1> QED
  BY <1>1 DEF Placed, Attempts, Retry, Goto, AttemptMoves, PaidSteps, SigningSteps

LEMMA QuitAttempt ==
  ASSUME Placed, Attempts, NEW d \in Daemons,
         Leave(d) \/ \E kind : HandleError(d, kind)
  PROVE  Attempts' /\ \A e \in Daemons : AttemptMoves(e)
<1>1. ASSUME Leave(d)
      PROVE  Forget(d) /\ \E step \in Steps \ SigningSteps : Goto(d, step)
  BY <1>1 DEF Leave, Steps, SigningSteps
<1>2. "report" \in Steps \ SigningSteps
  BY DEF Steps, SigningSteps
<1> QED
  BY <1>1, <1>2, ForgottenAttempt DEF HandleError

LEMMA AttemptKept ==
  ASSUME Placed, Attempts, [Next]_vars
  PROVE  Attempts' /\ \A e \in Daemons : AttemptMoves(e)
<1>1. CASE ServerNext \/ UNCHANGED vars
  <2>1. UNCHANGED <<at, attempt>>
    BY <1>1 DEF ServerNext, Decide, ApproveByHand, LeaseLapses, LeaseOverrun,
                JobExpires, signing, vars
  <2> QED
    BY <2>1, KeptAttempt
<1>2. ASSUME NEW d \in Daemons, Disturbance(d)
      PROVE  Attempts' /\ \A e \in Daemons : AttemptMoves(e)
  <2>1. CASE Stop(d)
    <3>1. "down" \in Steps \ SigningSteps
      BY DEF Steps, SigningSteps
    <3> QED
      BY <2>1, <3>1, ForgottenAttempt DEF Stop
  <2>2. CASE ~Stop(d)
    <3>1. UNCHANGED <<at, attempt>>
      BY <1>2, <2>2 DEF Disturbance, TokenExpires, CmdExportKey, CmdInit,
                        CmdImportKey, CoolsOff, signing
    <3> QED
      BY <3>1, KeptAttempt
  <2> QED
    BY <2>1, <2>2
<1>3. ASSUME NEW d \in Daemons, Cycle(d)
      PROVE  Attempts' /\ \A e \in Daemons : AttemptMoves(e)
  <2>1. UNCHANGED attempt
    BY <1>3 DEF Cycle, Start, PollJobs, RefreshToken, Sleep, signing, vars
  <2>2. UNCHANGED at \/ \E step \in {"idle", "job"} : Goto(d, step)
    BY <1>3 DEF Cycle, Start, PollJobs, RefreshToken, Sleep, vars
  <2>3. {"idle", "job"} \subseteq Steps \ SigningSteps
    BY DEF Steps, SigningSteps
  <2> QED
    BY <2>1, <2>2, <2>3, KeptAttempt
<1>4. ASSUME NEW d \in Daemons,
             Take(d) \/ \E j \in Jobs : SubmitLocally(d, j) \/ CmdSign(d, j)
      PROVE  Attempts' /\ \A e \in Daemons : AttemptMoves(e)
  <2>1. CASE SkipFailed(d) \/ RefuseJob(d) \/ UnwrapFails(d)
    BY <2>1, QuitAttempt DEF SkipFailed, RefuseJob, UnwrapFails
  <2>2. CASE OpenJob(d) \/ \E j \in Jobs : SubmitLocally(d, j) \/ CmdSign(d, j)
    <3>1. /\ UNCHANGED attempt /\ Goto(d, "build")
          /\ at[d] \in {"down", "idle", "job"}
      BY <2>2 DEF OpenJob, Taken, SubmitLocally, CmdSign, Submitted, Begin
    <3>2. "build" \in Steps /\ at[d] \notin PaidSteps
      BY <3>1 DEF Steps, PaidSteps
    <3> QED
      BY <3>1, <3>2, KeptAttempt
  <2> QED
    BY <1>4, <2>1, <2>2 DEF Take
<1>5. ASSUME NEW d \in Daemons, Sign(d)
      PROVE  Attempts' /\ \A e \in Daemons : AttemptMoves(e)
  <2>1. CASE \/ UnknownChain(d) \/ BuildFails(d) \/ RequestRefused(d)
             \/ RequestUnanswered(d) \/ PollsFailure(d) \/ PollGivesUp(d)
    BY <2>1, QuitAttempt
       DEF UnknownChain, BuildFails, RequestRefused, RequestUnanswered,
           PollsFailure, PollGivesUp
  <2>2. CASE ReadAccount(d)
    <3>1. CASE \E kind : HandleError(d, kind)
      BY <3>1, QuitAttempt
    <3>2. CASE ~\E kind : HandleError(d, kind)
      <4>1. Goto(d, "request") /\ UNCHANGED attempt /\ at[d] = "account"
        BY <2>2, <3>2 DEF ReadAccount, signing
      <4>2. "request" \in Steps /\ at[d] \notin PaidSteps
        BY <4>1 DEF Steps, PaidSteps
      <4> QED
        BY <4>1, <4>2, KeptAttempt
    <3> QED
      BY <3>1, <3>2
  <2>3. CASE Build(d) \/ RequestAccepted(d) \/ PollsSignature(d)
    <3>1. /\ UNCHANGED attempt
          /\ \/ at[d] = "build" /\ Goto(d, "account")
             \/ \E step \in PaidSteps : Goto(d, step)
      BY <2>3 DEF Build, RequestAccepted, PollsSignature, signing, PaidSteps
    <3>2. /\ "account" \in Steps /\ PaidSteps \subseteq Steps
          /\ "build" \notin PaidSteps
          /\ \A step \in PaidSteps : step \notin SigningSteps \ PaidSteps
      BY DEF Steps, PaidSteps, SigningSteps
    <3> QED
      BY <3>1, <3>2, KeptAttempt
  <2>4. CASE (\E error \in RpcErrors \ {"reused"} : PollFails(d, error))
               \/ PollsPending(d)
    BY <2>4, KeptAttempt DEF PollFails, PollsPending
  <2> QED
    BY <1>5, <2>1, <2>2, <2>3, <2>4 DEF Sign
<1>6. ASSUME NEW d \in Daemons, Transfer(d)
      PROVE  Attempts' /\ \A e \in Daemons : AttemptMoves(e)
  <2>1. CASE SendOk(d)
    <3>1. "notify" \in Steps \ SigningSteps
      BY DEF Steps, SigningSteps
    <3> QED
      BY <2>1, <3>1, KeptAttempt DEF SendOk, signing
  <2>2. CASE SendStale(d) \/ SendUnverified(d)
    BY <2>2, CountedAttempt, QuitAttempt DEF SendStale, SendUnverified
  <2>3. CASE \/ NonceRefused(d) \/ SendFails(d) \/ SendUnanswered(d) \/ Notify(d)
             \/ NotifyLost(d) \/ CompleteJobFails(d) \/ ReportFailed(d)
             \/ ReportLost(d)
    BY <2>3, QuitAttempt
       DEF NonceRefused, SendFails, SendUnanswered, Notify, NotifyLost,
           CompleteJobFails, ReportFailed, ReportLost
  <2> QED
    BY <1>6, <2>1, <2>2, <2>3 DEF Transfer
<1> QED
  BY <1>1, <1>2, <1>3, <1>4, <1>5, <1>6 DEF Next

LEMMA ChancesFinite ==
  ASSUME NEW j
  PROVE  /\ IsFiniteSet(Chances(j)) /\ IsFiniteSet(Chances(j)')
         /\ Cardinality(Chances(j)) \in Nat /\ Cardinality(Chances(j)') \in Nat
<1>1. IsFiniteSet(Daemons \X (0 .. MaxRetries))
  <2>1. IsFiniteSet(0 .. MaxRetries)
    <3>1. 0 \in Int /\ MaxRetries \in Int
      BY DaemonAssumption
    <3> QED
      BY <3>1, FS_Interval
  <2> QED
    BY <2>1, DaemonAssumption, FS_Product
<1>2. /\ Chances(j) \in SUBSET (Daemons \X (0 .. MaxRetries))
      /\ Chances(j)' \in SUBSET (Daemons \X (0 .. MaxRetries))
  BY DEF Chances
<1> QED
  BY <1>1, <1>2, FS_Subset, FS_CardinalityType

\* The chances of the process that moves; the others keep theirs.
LEMMA ChancesMove ==
  ASSUME Placed, Attempts, NEW d \in Daemons, OneMoves(d), NEW j \in Jobs,
         \A e \in Daemons : AttemptMoves(e)
  PROVE  /\ \A p \in Chances(j)' : p[1] # d => p \in Chances(j)
         /\ \A p \in Chances(j)' :
              p[1] = d => d \in SignedBy(j)' /\ p[2] \in Left(d)'
         /\ d \in SignedBy(j) /\ d \in SignedBy(j)' => Left(d)' \subseteq Left(d)
<1>1. \A e \in Daemons \ {d} :
        Signing(e, j)' => Signing(e, j) /\ Left(e)' = Left(e)
  BY DEF OneMoves, Signing, Job, AttemptMoves, Left, PaidSteps, SigningSteps
<1>2. d \in SignedBy(j)' => Left(d)' \subseteq Left(d)
  BY DaemonAssumption DEF SignedBy, Signing, AttemptMoves, Left, Attempts
<1> QED
  BY <1>1, <1>2 DEF Chances, SignedBy

LEMMA ChancesKept ==
  ASSUME Placed, Attempts, NEW d \in Daemons, OneMoves(d), NEW j \in Jobs,
         \A e \in Daemons : AttemptMoves(e),
         d \in SignedBy(j)' => d \in SignedBy(j)
  PROVE  /\ Chances(j)' \subseteq Chances(j)
         /\ Cardinality(Chances(j)') <= Cardinality(Chances(j))
<1>1. Chances(j)' \subseteq Chances(j)
  <2>1. ASSUME NEW p \in Chances(j)', p[1] = d
        PROVE  p \in Chances(j)
    BY <2>1, ChancesMove DEF Chances, SignedBy
  <2> QED
    BY <2>1, ChancesMove
<1>2. DEFINE S == Chances(j)
             T == Chances(j)'
<1>3. IsFiniteSet(S) /\ T \in SUBSET S
  BY <1>1, ChancesFinite
<1>4. Cardinality(T) <= Cardinality(S)
  <2> HIDE DEF S, T
  <2> QED
    BY <1>3, FS_Subset
<1> QED
  BY <1>1, <1>4

LEMMA BudgetKept ==
  ASSUME Placed, Numbers, Attempts, Budgeted, [Next]_vars
  PROVE  Budgeted'
<1> SUFFICES ASSUME NEW j \in Jobs
             PROVE  charged'[j] + Cardinality(Chances(j)') <= Limit(opened'[j])
  BY DEF Budgeted
<1> DEFINE S == Chances(j)
           T == Chances(j)'
<1>1. /\ charged[j] + Cardinality(S) <= Limit(opened[j])
      /\ charged[j] \in Nat /\ charged'[j] \in Nat
      /\ opened[j] \in Nat /\ opened'[j] \in Nat
      /\ Cardinality(S) \in Nat /\ Cardinality(T) \in Nat
      /\ Limit(opened[j]) \in Nat
  BY NumbersKept, ChancesFinite, LimitFacts DEF Budgeted, Numbers
<1>2. \A e \in Daemons : AttemptMoves(e)
  BY AttemptKept
<1>3. CASE Quiet
  <2>1. UNCHANGED <<at, batch>>
    BY <1>3 DEF Quiet
  <2>2. T \subseteq S
    BY <1>2, <2>1 DEF Chances, Signing, Job, AttemptMoves, Left, PaidSteps, SigningSteps
  <2>3. Cardinality(T) <= Cardinality(S)
    <3>1. IsFiniteSet(S)
      BY ChancesFinite
    <3> HIDE DEF S, T
    <3> QED
      BY <2>2, <3>1, FS_Subset
  <2>4. charged'[j] = charged[j] /\ opened'[j] = opened[j]
    BY <1>3 DEF Quiet
  <2> QED
    BY <1>1, <2>3, <2>4
<1>4. ASSUME NEW d \in Daemons, OneMoves(d), d \in SignedBy(j)' => d \in SignedBy(j),
             charged'[j] = charged[j], opened'[j] = opened[j]
      PROVE  charged'[j] + Cardinality(T) <= Limit(opened'[j])
  <2>1. Cardinality(T) <= Cardinality(S)
    BY <1>2, <1>4, ChancesKept
  <2> HIDE DEF S, T
  <2> QED
    BY <1>1, <1>4, <2>1
<1>5. ASSUME NEW d \in Daemons, Turns(d)
      PROVE  charged'[j] + Cardinality(T) <= Limit(opened'[j])
  BY <1>4, <1>5, TurnSides DEF Turns, Counts
<1>6. ASSUME NEW d \in Daemons, Lands(d)
      PROVE  charged'[j] + Cardinality(T) <= Limit(opened'[j])
  BY <1>4, <1>6, TurnSides DEF Lands
<1>7. ASSUME NEW d \in Daemons, Pays(d)
      PROVE  charged'[j] + Cardinality(T) <= Limit(opened'[j])
  <2>1. /\ OneMoves(d)
        /\ d \in SignedBy(j)' => d \in SignedBy(j)
        /\ opened'[j] = opened[j] /\ at[d] = "request"
        /\ charged'[j] = IF j = Job(d) THEN charged[j] + 1 ELSE charged[j]
        /\ at'[d] \in SigningSteps => at'[d] = "poll"
    BY <1>7, TurnSides DEF Pays, Counted, Numbers, Quits, SigningSteps, Advances
  <2>2. CASE j # Job(d)
    <3> HIDE DEF S, T
    <3> QED
      BY <1>4, <2>1, <2>2
  <2>3. CASE j = Job(d)
    <3> DEFINE chance == <<d, attempt[d]>>
    <3>1. attempt[d] \in 0 .. MaxRetries
      BY DEF Attempts
    <3>2. chance \in S
      BY <2>1, <2>3, <3>1, DaemonAssumption
         DEF Chances, Signing, SigningSteps, Left, PaidSteps
    <3>3. chance \notin T
      BY <1>2, <2>1, <3>1, DaemonAssumption
         DEF Chances, Signing, SigningSteps, Left, PaidSteps, AttemptMoves
    <3>4. T \subseteq S
      <4>1. d \in SignedBy(j)' => d \in SignedBy(j)
        BY <2>1
      <4> QED
        BY <1>2, <2>1, <4>1, ChancesKept
    <3>5. Cardinality(T) <= Cardinality(S) - 1
      <4>1. IsFiniteSet(S)
        BY ChancesFinite
      <4> HIDE DEF S, T, chance
      <4>2. IsFiniteSet(S \ {chance}) /\ Cardinality(S \ {chance}) = Cardinality(S) - 1
        BY <3>2, <4>1, FS_RemoveElement
      <4>3. T \in SUBSET (S \ {chance})
        BY <3>3, <3>4
      <4> QED
        BY <4>2, <4>3, FS_Subset
    <3>6. charged'[j] = charged[j] + 1 /\ opened'[j] = opened[j]
      BY <2>1, <2>3
    <3> HIDE DEF S, T
    <3> QED
      BY <1>1, <3>5, <3>6
  <2> QED
    BY <2>2, <2>3
<1>8. ASSUME NEW d \in Daemons, NEW i \in Jobs, Opens(d, i)
      PROVE  charged'[j] + Cardinality(T) <= Limit(opened'[j])
  <2>1. /\ OneMoves(d)
        /\ d \in SignedBy(j)' => i = j
        /\ charged'[j] = charged[j] /\ at[d] \notin SigningSteps
        /\ opened'[j] = IF j = i THEN opened[j] + 1 ELSE opened[j]
    BY <1>8, TurnSides DEF Opens, Counted, Numbers, SigningSteps
  <2>2. CASE i # j
    <3>1. /\ OneMoves(d)
          /\ d \in SignedBy(j)' => d \in SignedBy(j)
          /\ charged'[j] = charged[j] /\ opened'[j] = opened[j]
      BY <2>1, <2>2
    <3> HIDE DEF S, T
    <3> QED
      BY <1>4, <3>1
  <2>3. CASE i = j
    <3> DEFINE own == {d} \X (0 .. MaxRetries)
    <3>1. T \subseteq S \cup own
      <4>1. ASSUME NEW p \in T, p[1] = d
            PROVE  p \in own
        BY <4>1 DEF Chances
      <4> QED
        BY <1>2, <2>1, <4>1, ChancesMove
    <3>2. IsFiniteSet(own) /\ Cardinality(own) = MaxRetries + 1
      <4>1. /\ IsFiniteSet({d}) /\ Cardinality({d}) = 1
            /\ IsFiniteSet(0 .. MaxRetries) /\ Cardinality(0 .. MaxRetries) = MaxRetries + 1
        <5>1. 0 \in Int /\ MaxRetries \in Int /\ ~(0 > MaxRetries)
          BY DaemonAssumption
        <5>2. IsFiniteSet(0 .. MaxRetries)
              /\ Cardinality(0 .. MaxRetries)
                   = IF 0 > MaxRetries THEN 0 ELSE MaxRetries - 0 + 1
          BY <5>1, FS_Interval
        <5>3. IsFiniteSet({d}) /\ Cardinality({d}) = 1
          BY FS_Singleton
        <5>4. MaxRetries - 0 + 1 = MaxRetries + 1
          BY DaemonAssumption
        <5> QED
          BY <5>1, <5>2, <5>3, <5>4
      <4>2. Cardinality(own) = Cardinality({d}) * Cardinality(0 .. MaxRetries)
            /\ IsFiniteSet(own)
        BY <4>1, FS_Product
      <4> QED
        BY <4>1, <4>2, DaemonAssumption
    <3>3. Cardinality(T) <= Cardinality(S) + (MaxRetries + 1)
      <4>1. IsFiniteSet(S)
        BY ChancesFinite
      <4> HIDE DEF S, T, own
      <4>2. IsFiniteSet(S \cup own) /\ IsFiniteSet(S \cap own)
            /\ Cardinality(S \cup own)
                 = Cardinality(S) + Cardinality(own) - Cardinality(S \cap own)
        <5>1. S \cap own \in SUBSET S
          OBVIOUS
        <5> QED
          BY <3>2, <4>1, <5>1, FS_Union, FS_Subset
      <4>3. Cardinality(T) <= Cardinality(S \cup own)
        BY <3>1, <4>2, FS_Subset
      <4>4. Cardinality(S \cap own) \in Nat /\ Cardinality(S) \in Nat
            /\ Cardinality(T) \in Nat /\ MaxRetries \in Nat
        BY <1>1, <4>2, FS_CardinalityType, DaemonAssumption
      <4> QED
        BY <3>2, <4>2, <4>3, <4>4
    <3>4. Limit(opened[j] + 1) = Limit(opened[j]) + (MaxRetries + 1)
          /\ Limit(opened[j]) \in Nat
      BY <1>1, LimitFacts
    <3> HIDE DEF S, T
    <3> QED
      BY <1>1, <2>1, <2>3, <3>3, <3>4, DaemonAssumption
  <2> QED
    BY <2>2, <2>3
<1> QED
  BY <1>3, <1>5, <1>6, <1>7, <1>8, Moves

---------------------------------------------------------------------------
(* The specification.                                                      *)

LEMMA InitInv == Init => Inv
<1> SUFFICES ASSUME Init PROVE Inv
  OBVIOUS
<1>1. PICK s \in Scenarios :
        /\ request = s.request
        /\ status = [j \in Jobs |->
             IF j \in s.submitted THEN "submitted" ELSE "draft"]
  BY DEF Init
<1>2. \A d \in Daemons : at[d] = "down" /\ batch[d] = <<>>
  BY DEF Init
<1>3. <<>> \in Seq(Jobs) /\ DOMAIN <<>> = {}
  BY EmptySeq
<1>4. Placed /\ Numbers /\ Sent
  BY <1>2, <1>3 DEF Init, Placed, Numbers, Sent, Steps
<1>5. \A j \in Jobs : PaidBy(j) = {} /\ SignedBy(j) = {}
  BY <1>2 DEF PaidBy, SignedBy, Paying, Signing, PaidSteps, SigningSteps
<1>6. Paid /\ Unsent
  <2>1. ASSUME NEW j \in Jobs
        PROVE  /\ Cardinality(PaidBy(j)) = 0 /\ Cardinality(SignedBy(j)) = 0
               /\ landed[j] = 0 /\ charged[j] = 0 /\ opened[j] = 0
    BY <1>5, <2>1, FS_EmptySet DEF Init
  <2> QED
    BY <2>1 DEF Paid, Unsent
<1>7. Approved
  BY <1>1, <1>2, <1>3, DaemonAssumption
     DEF Init, Approved, Statuses, Past
<1> QED
  BY <1>4, <1>6, <1>7 DEF Inv

LEMMA NextInv == Inv /\ [Next]_vars => Inv'
  BY PlacedKept, NumbersKept, PaidKept, UnsentKept, SentKept, ApprovedKept DEF Inv

\* Inv: processes, charges and approvals stay in step in every behaviour.
THEOREM Invariance == Spec => []Inv
<1> QED
  BY InitInv, NextInv, PTL DEF Spec

\* OneTransferPerOpening: what the retry loop of sign_and_broadcast_solana
\* repeats has not been sent.
THEOREM OneTransfer == Spec => []OneTransferPerOpening
<1>1. ASSUME Inv, NEW j \in Jobs
      PROVE  landed[j] <= opened[j]
  <2>1. Cardinality(SignedBy(j)) \in Nat
    BY Sides, FS_CardinalityType
  <2> QED
    BY <1>1, <2>1 DEF Inv, Unsent, Numbers
<1>2. Inv => OneTransferPerOpening
  BY <1>1 DEF OneTransferPerOpening
<1> QED
  BY <1>2, Invariance, PTL

\* ChargesPerOpening: each attempt of the Solana loop draws a request of its
\* own, and no path of the pipeline asks for more than one an attempt.
THEOREM OneChargePerAttempt == Spec => []ChargesPerOpening
<1> DEFINE Charging == Inv /\ Attempts /\ Budgeted
<1>1. Init => Attempts /\ Budgeted
  <2> SUFFICES ASSUME Init PROVE Attempts /\ Budgeted
    OBVIOUS
  <2>1. Attempts
    BY DaemonAssumption DEF Init, Attempts
  <2>2. \A j \in Jobs : Chances(j) = {}
    BY DEF Init, Chances, Signing, SigningSteps
  <2>3. Budgeted
    <3>1. ASSUME NEW j \in Jobs
          PROVE  /\ Cardinality(Chances(j)) = 0
                 /\ charged[j] = 0 /\ opened[j] = 0
      BY <2>2, FS_EmptySet DEF Init
    <3> QED
      BY <3>1, LimitFacts DEF Budgeted
  <2> QED
    BY <2>1, <2>3
<1>2. Charging /\ [Next]_vars => Charging'
  BY NextInv, AttemptKept, BudgetKept DEF Inv
<1>3. Charging => ChargesPerOpening
  <2> SUFFICES ASSUME Charging, NEW j \in Jobs
               PROVE  charged[j] <= (MaxRetries + 1) * opened[j]
    BY DEF ChargesPerOpening
  <2>1. /\ charged[j] + Cardinality(Chances(j)) <= Limit(opened[j])
        /\ charged[j] \in Nat /\ Cardinality(Chances(j)) \in Nat
        /\ Limit(opened[j]) \in Nat
    BY ChancesFinite, LimitFacts DEF Budgeted, Inv, Numbers
  <2>2. charged[j] <= Limit(opened[j])
    BY <2>1
  <2> QED
    BY <2>2 DEF Limit
<1> QED
  BY <1>1, <1>2, <1>3, InitInv, PTL DEF Spec

LEMMA LimitsOfRule ==
  ASSUME NEW r, IsRequest(r), NEW rule \in AssetRules, RuleEligible(rule, r)
  PROVE  LimitSet(rule, r) # None => LimitSet(rule, r)[1] <= LimitSet(rule, r)[2]
<1>1. /\ r.usd \in MaybeAmounts /\ r.amount \in MaybeAmounts
      /\ rule.maxUsd \in MaybeAmounts /\ NativeLimit(rule) \in MaybeAmounts
  BY DEF IsRequest, AssetRules, NativeLimit
<1>2. \A x, y \in MaybeAmounts : x # None /\ y # None /\ ~Above(x, y) => x <= y
  BY AmountsAssumption DEF MaybeAmounts, Above
<1>3. CASE rule.maxUsd # None /\ r.usd # None
  BY <1>1, <1>2, <1>3 DEF RuleEligible, LimitSet
<1>4. CASE ~(rule.maxUsd # None /\ r.usd # None)
  <2>1. CASE NativeLimit(rule) \in {None, 0} \/ r.amount = None
    BY <1>4, <2>1 DEF LimitSet, NativeLimit
  <2>2. CASE NativeLimit(rule) \notin {None, 0} /\ r.amount # None
    <3>1. LimitSet(rule, r) = <<r.amount, NativeLimit(rule)>>
      BY <1>4, <2>2 DEF LimitSet, NativeLimit
    <3>2. r.amount <= NativeLimit(rule)
      BY <1>1, <1>2, <1>4, <2>2 DEF RuleEligible
    <3> QED
      BY <3>1, <3>2
  <2> QED
    BY <2>1, <2>2
<1> QED
  BY <1>3, <1>4

\* ApprovedWithinLimits: process_jobs takes up only what the decision or the
\* wallet let into the queue, and the decision sets the first rule's dollar,
\* native or quoted limit against it in the order of the code.
THEOREM WithinLimits == Spec => []ApprovedWithinLimits
<1>1. ASSUME Inv, NEW j \in Jobs, opened[j] > 0, ~byHand[j],
             request[j].record # None
      PROVE  LET rules == request[j].record.rules
                 fits == {n \in DOMAIN rules :
                            rules[n].tokens = {} \/ request[j].token \in rules[n].tokens}
                 limit == LimitSet(rules[CHOOSE n \in fits : \A k \in fits : n <= k],
                                   request[j])
             IN fits # {} /\ (limit # None => limit[1] <= limit[2])
  <2> DEFINE rules == request[j].record.rules
             fits == {n \in DOMAIN rules :
                        rules[n].tokens = {} \/ request[j].token \in rules[n].tokens}
             first == CHOOSE n \in fits : \A k \in fits : n <= k
             limit == LimitSet(rules[first], request[j])
  <2>1. IsRequest(request[j]) /\ Eligible(request[j])
    BY <1>1 DEF Inv, Approved, Cleared
  <2>2. rules \in Seq(AssetRules) /\ RulesEligible(rules, request[j])
    BY <1>1, <2>1 DEF IsRequest, Eligible
  <2>3. PICK n \in DOMAIN rules :
          /\ Applies(rules[n], request[j])
          /\ \A k \in 1 .. (n - 1) : ~Applies(rules[k], request[j])
          /\ RuleEligible(rules[n], request[j])
    BY <2>2 DEF RulesEligible
  <2>4. DOMAIN rules = 1 .. Len(rules) /\ Len(rules) \in Nat
        /\ rules[n] \in AssetRules
    BY <2>2, <2>3, LenProperties, ElementOfSeq
  <2>5. n \in fits /\ \A k \in fits : n <= k
    BY <2>3, <2>4 DEF Applies
  <2>6. first = n
    <3>1. first \in fits /\ \A k \in fits : first <= k
      BY <2>5
    <3>2. fits \subseteq Nat
      BY <2>4
    <3> HIDE DEF first, fits
    <3> QED
      BY <2>5, <3>1, <3>2
  <2>7. limit # None => limit[1] <= limit[2]
    <3>1. LimitSet(rules[n], request[j]) # None
            => LimitSet(rules[n], request[j])[1] <= LimitSet(rules[n], request[j])[2]
      BY <2>1, <2>3, <2>4, LimitsOfRule
    <3> HIDE DEF first
    <3> QED
      BY <2>6, <3>1
  <2> QED
    BY <2>5, <2>7
<1>2. Inv => ApprovedWithinLimits
  BY <1>1 DEF ApprovedWithinLimits
<1> QED
  BY <1>2, Invariance, PTL

---------------------------------------------------------------------------
(* The ledger of paid transfers.                                           *)

LEMMA OutcomeOf ==
  ASSUME UNCHANGED status
  PROVE  [j \in Jobs |-> Outcome(j)]' = [j \in Jobs |-> Outcome(j)]
  BY DEF Outcome

LEMMA DecidedOpen ==
  ASSUME Approved, Decides
  PROVE  [j \in Jobs |-> Outcome(j)]' = [j \in Jobs |-> Outcome(j)]
<1>1. PICK j \in Jobs : Decide(j) \/ ApproveByHand(j)
  BY DEF Decides
<1>2. /\ status[j] \in {"submitted", "waiting"}
      /\ \E next \in {"queued", "waiting"} : status' = [status EXCEPT ![j] = next]
  BY <1>1 DEF Decide, ApproveByHand
<1>3. \A i \in Jobs : Outcome(i)' = Outcome(i)
  BY <1>2 DEF Outcome, Approved
<1> QED
  BY <1>3

LEMMA SettledOnce ==
  ASSUME Inv, NEW d \in Daemons, Settles(d)
  PROVE  [Ledger!Next]_Ledger!vars
<1> DEFINE outcomes == [j \in Jobs |-> Outcome(j)]
<1>1. /\ Job(d) \in Jobs /\ UNCHANGED <<charged, landed>>
      /\ \E result \in {"transmitted", "failed"} :
           /\ Recorded(Job(d), result)
           /\ result = "transmitted" => landed[Job(d)] > 0
  BY HandledJob DEF Settles, Inv, Sent
<1>2. PICK result \in {"transmitted", "failed"} :
        /\ Recorded(Job(d), result)
        /\ result = "transmitted" => landed[Job(d)] > 0
  BY <1>1
<1>3. status \in [Jobs -> Statuses]
  BY DEF Inv, Approved
<1>4. CASE status[Job(d)] = "queued"
  <2>1. status' = [status EXCEPT ![Job(d)] = result]
    BY <1>2, <1>4 DEF Recorded
  <2>2. outcomes[Job(d)] = "open"
    BY <1>1, <1>4 DEF Outcome
  <2>3. \A j \in Jobs : Outcome(j)' = IF j = Job(d) THEN result ELSE Outcome(j)
    BY <1>1, <1>3, <2>1 DEF Outcome
  <2>4. outcomes' = [outcomes EXCEPT ![Job(d)] = result]
    BY <1>1, <2>3
  <2>5. Ledger!Record(Job(d), result)
    BY <1>1, <1>2, <2>2, <2>4 DEF Ledger!Record
  <2> QED
    BY <1>1, <2>5 DEF Ledger!Next
<1>5. CASE status[Job(d)] # "queued"
  <2>1. status' = status
    BY <1>2, <1>3, <1>5 DEF Recorded
  <2> QED
    BY <1>1, <2>1, OutcomeOf DEF Ledger!vars
<1> QED
  BY <1>4, <1>5

\* LedgerSpec: the pipeline transfers only what the contract has charged,
\* and reports as transmitted only what is on the chain.
THEOREM KeepsLedger == Spec => LedgerSpec
<1>1. Init => Ledger!Init
  <2>1. ASSUME Init, NEW j \in Jobs
        PROVE  Outcome(j) = "open"
    BY <2>1 DEF Init, Outcome
  <2> QED
    BY <2>1 DEF Init, Ledger!Init
<1>2. Inv /\ [Next]_vars => [Ledger!Next]_Ledger!vars
  <2> SUFFICES ASSUME Inv, [Next]_vars
               PROVE  [Ledger!Next]_Ledger!vars
    OBVIOUS
  <2>1. CASE Quiet /\ (UNCHANGED <<status, byHand>> \/ Decides)
    BY <2>1, OutcomeOf, DecidedOpen DEF Quiet, Ledger!vars, Inv
  <2>2. ASSUME NEW d \in Daemons, Turns(d),
               UNCHANGED <<status, byHand>> \/ Settles(d)
        PROVE  [Ledger!Next]_Ledger!vars
    <3>1. CASE UNCHANGED <<status, byHand>>
      BY <2>2, <3>1, OutcomeOf DEF Turns, Counts, Ledger!vars
    <3> QED
      BY <2>2, <3>1, SettledOnce
  <2>3. ASSUME NEW d \in Daemons, Pays(d), UNCHANGED status
        PROVE  Ledger!Next
    <3>1. Job(d) \in Jobs
      BY <2>3, HandledJob DEF Pays, Inv
    <3>2. Ledger!Charge(Job(d))
      BY <2>3, OutcomeOf DEF Pays, Counted, Ledger!Charge
    <3> QED
      BY <3>1, <3>2 DEF Ledger!Next
  <2>4. ASSUME NEW d \in Daemons, Lands(d), UNCHANGED status
        PROVE  Ledger!Next
    <3>1. Job(d) \in Jobs /\ d \in PaidBy(Job(d))
      BY <2>4, HandledJob
         DEF Lands, Sendable, Inv, PaidBy, Paying, PaidSteps
    <3>2. IsFiniteSet(PaidBy(Job(d))) /\ PaidBy(Job(d)) # {}
      BY <3>1, Sides
    <3>3. Cardinality(PaidBy(Job(d))) \in Nat \ {0}
      BY <3>2, FS_CardinalityType, FS_EmptySet
    <3>4. landed[Job(d)] < charged[Job(d)]
      BY <3>1, <3>3 DEF Inv, Paid, Numbers
    <3>5. Ledger!Transfer(Job(d))
      BY <2>4, <3>4, OutcomeOf DEF Lands, Counted, Ledger!Transfer
    <3> QED
      BY <3>1, <3>5 DEF Ledger!Next
  <2>5. ASSUME NEW d \in Daemons, NEW j \in Jobs, Opens(d, j), UNCHANGED status
        PROVE  UNCHANGED Ledger!vars
    BY <2>5, OutcomeOf DEF Opens, Ledger!vars
  <2> QED
    BY <2>1, <2>2, <2>3, <2>4, <2>5, Moves DEF Inv
<1> QED
  BY <1>1, <1>2, Invariance, PTL DEF Spec, LedgerSpec, Ledger!Spec

---------------------------------------------------------------------------
(* Types.                                                                  *)

Hosted ==
  /\ mode \in [Daemons -> Modes] /\ tx \in [Jobs -> Transactions]
  /\ place \in [Daemons -> Places]
  /\ device \in [Daemons -> Identities \cup {None}]
  /\ keyFile \in [Daemons -> [Places -> Identities \cup {None}]]
  /\ bundles \subseteq Identities

Leased ==
  /\ faults \in [Faults -> Nat]
  /\ lease \in [Jobs -> Daemons \cup {None}] /\ expired \in [Jobs -> BOOLEAN]
  /\ excuse \in [Jobs -> SUBSET Excuses]

Processes ==
  /\ loaded \in [Daemons -> SUBSET Identities] /\ token \in [Daemons -> BOOLEAN]
  /\ failedIds \in [Daemons -> SUBSET Jobs] /\ health \in [Daemons -> Healths]

Pipelines ==
  /\ path \in [Daemons -> {"0", "deep"}] /\ fallback \in [Daemons -> BOOLEAN]
  /\ poll \in [Daemons -> Polls \cup {None}]
  /\ \A d \in Daemons : at[d] = "poll" => Loop(poll[d])

Typed == Hosted /\ Leased /\ Processes /\ Pipelines

\* What the error paths and the end of a job have in common.
Ends(d) ==
  /\ path' = [path EXCEPT ![d] = "0"]
  /\ fallback' = [fallback EXCEPT ![d] = FALSE]
  /\ poll' = [poll EXCEPT ![d] = None]
  /\ \E step \in Steps \ {"poll"} : at' = [at EXCEPT ![d] = step]
  /\ failedIds' \in [Daemons -> SUBSET Jobs]

LEMMA EndsOf ==
  ASSUME Placed, Processes, NEW d \in Daemons
  PROVE  /\ Leave(d) /\ UNCHANGED failedIds => Ends(d)
         /\ at[d] \notin {"down", "idle"} /\ (\E kind : HandleError(d, kind)) => Ends(d)
<1>1. Leave(d) => \E step \in {"job", "down", "idle"} : at' = [at EXCEPT ![d] = step]
  BY DEF Leave, Goto
<1>2. Leave(d) /\ UNCHANGED failedIds => Ends(d)
  BY <1>1 DEF Leave, Forget, Ends, Processes, Steps
<1>3. ASSUME Goto(d, "report"), Forget(d), failedIds' \in [Daemons -> SUBSET Jobs]
      PROVE  Ends(d)
  BY <1>3 DEF Goto, Forget, Ends, Steps
<1>4. ASSUME at[d] \notin {"down", "idle"}
      PROVE  [failedIds EXCEPT ![d] = @ \cup {Job(d)}] \in [Daemons -> SUBSET Jobs]
  BY <1>4, HandledJob DEF Processes
<1> QED
  BY <1>2, <1>3, <1>4 DEF HandleError, Processes

LEMMA EndsTyped ==
  ASSUME Placed, Pipelines, NEW d \in Daemons, Ends(d)
  PROVE  Pipelines' /\ failedIds' \in [Daemons -> SUBSET Jobs]
<1>1. \A e \in Daemons \ {d} : at'[e] = at[e] /\ poll'[e] = poll[e]
  BY DEF Ends, Placed, Pipelines
<1>2. at'[d] # "poll"
  BY DEF Ends, Placed
<1> QED
  BY <1>1, <1>2 DEF Ends, Pipelines

\* A step that neither starts nor goes on with polling.
LEMMA PipelinesStay ==
  ASSUME Placed, Pipelines, UNCHANGED signing,
         UNCHANGED at \/ \E d \in Daemons : \E step \in Steps \ {"poll"} : Goto(d, step)
  PROVE  Pipelines'
  BY DEF Placed, Pipelines, signing, Goto

LEMMA HostedKept ==
  ASSUME Hosted, [Next]_vars
  PROVE  Hosted'
<1>1. CASE ServerNext
  BY <1>1 DEF ServerNext, Decide, ApproveByHand, LeaseLapses, LeaseOverrun,
              JobExpires, host, Hosted
<1>2. ASSUME NEW d \in Daemons,
             Stop(d) \/ TokenExpires(d) \/ (\E rpc \in Rpcs : CoolsOff(d, rpc))
               \/ Cycle(d) \/ Take(d)
      PROVE  Hosted'
  BY <1>2 DEF Stop, TokenExpires, CoolsOff, Cycle, Start, PollJobs, RefreshToken,
              Sleep, Take, SkipFailed, RefuseJob, UnwrapFails, OpenJob, host,
              vars, Hosted
<1>3. ASSUME NEW d \in Daemons, CmdExportKey(d)
      PROVE  Hosted'
  <2>1. keyFile[d]["default"] \in Identities
    BY <1>3 DEF CmdExportKey, Hosted, Places
  <2> QED
    BY <1>3, <2>1 DEF CmdExportKey, Hosted
<1>4. ASSUME NEW d \in Daemons, NEW identity \in Identities,
             CmdInit(d, identity) \/ CmdImportKey(d, identity)
      PROVE  Hosted'
  <2>1. keyFile' \in [Daemons -> [Places -> Identities \cup {None}]]
    <3>1. /\ keyFile' = [keyFile EXCEPT ![d]["default"] = identity]
          /\ keyFile[d] \in [Places -> Identities \cup {None}]
      BY <1>4 DEF CmdInit, CmdImportKey, Written, Hosted
    <3>2. [keyFile[d] EXCEPT !["default"] = identity]
            \in [Places -> Identities \cup {None}]
      BY <3>1
    <3> QED
      BY <3>1, <3>2 DEF Hosted
  <2> QED
    BY <1>4, <2>1 DEF CmdInit, CmdImportKey, Hosted
<1>5. ASSUME NEW d \in Daemons, NEW j \in Jobs, SubmitLocally(d, j) \/ CmdSign(d, j)
      PROVE  Hosted'
  BY <1>5 DEF SubmitLocally, CmdSign, Submitted, host, Hosted
<1>6. ASSUME NEW d \in Daemons, Sign(d) \/ Transfer(d)
      PROVE  UNCHANGED host
  BY <1>6 DEF Sign, Build, UnknownChain, BuildFails, ReadAccount,
              RequestAccepted, RequestRefused, RequestUnanswered, PollFails,
              PollsPending, PollsSignature, PollsFailure, PollGivesUp,
              Transfer, SendOk, SendStale, SendUnverified, NonceRefused, SendFails,
              SendUnanswered, Notify, NotifyLost, CompleteJobFails, ReportFailed,
              ReportLost
<1>7. CASE UNCHANGED vars
  BY <1>7 DEF vars, host, Hosted
<1> QED
  BY <1>1, <1>2, <1>3, <1>4, <1>5, <1>6, <1>7 DEF Next, Disturbance, host, Hosted

LEMMA RpcFailuresTyped ==
  ASSUME Leased, NEW errors \in RpcFailures
  PROVE  /\ errors \in CallErrors
         /\ Len(errors) \in Nat /\ Len(errors) <= faults["rpc"]
<1>1. faults["rpc"] \in Nat
  BY DEF Leased, Faults
<1>2. PICK n \in 0 .. Lower(RpcCount, faults["rpc"]) : errors \in [1 .. n -> RpcErrors]
  BY DEF RpcFailures
<1>3. n \in 0 .. RpcCount /\ n <= faults["rpc"] /\ n \in Nat
  BY <1>1, <1>2, PoolAssumption DEF Lower
<1>4. errors \in CallErrors
  BY <1>2, <1>3 DEF CallErrors
<1>5. Len(errors) = n
  BY <1>2, <1>3
<1> QED
  BY <1>3, <1>4, <1>5

LEMMA SpentTyped ==
  ASSUME Leased, NEW errors \in RpcFailures, NEW others,
         others \in SUBSET {f \in {"error", "loss"} : faults[f] > 0},
         Spent(errors, others)
  PROVE  faults' \in [Faults -> Nat]
<1>1. ASSUME NEW f \in Faults
      PROVE  faults[f] - (IF f = "rpc" THEN Len(errors) ELSE 0)
                       - (IF f \in others THEN 1 ELSE 0) \in Nat
  <2>1. faults[f] \in Nat /\ Len(errors) \in Nat /\ Len(errors) <= faults["rpc"]
    BY <1>1, RpcFailuresTyped DEF Leased
  <2>2. CASE f = "rpc"
    BY <2>1, <2>2
  <2>3. CASE f # "rpc" /\ f \in others
    <3>1. faults[f] > 0
      BY <2>3
    <3> QED
      BY <2>1, <2>3, <3>1
  <2>4. CASE f # "rpc" /\ f \notin others
    BY <2>1, <2>4
  <2> QED
    BY <2>2, <2>3, <2>4
<1> QED
  BY <1>1 DEF Spent

LEMMA HappensTyped ==
  ASSUME Leased, NEW fault \in Faults, Happens(fault)
  PROVE  faults' \in [Faults -> Nat]
  BY DEF Happens, Leased

LEMMA ExcusedTyped ==
  ASSUME Leased, NEW j, NEW why \in Excuses, Excused(j, why)
  PROVE  excuse' \in [Jobs -> SUBSET Excuses]
  BY DEF Excused, Leased

LEMMA LeasedKept ==
  ASSUME Leased, [Next]_vars
  PROVE  Leased'
<1> DEFINE Still == UNCHANGED <<lease, expired>>
<1>1. \A fault \in Faults : Happens(fault) => faults' \in [Faults -> Nat]
  BY HappensTyped
<1>2. \A j : \A why \in Excuses : Excused(j, why) => excuse' \in [Jobs -> SUBSET Excuses]
  BY ExcusedTyped
<1>3. {"rpc", "error", "loss", "stale", "overrun", "stop", "token", "expiry", "key"}
        = Faults
  BY DEF Faults
<1>4. {"unanswered", "report_lost", "overrun", "stopped", "failure_lost"} = Excuses
  BY DEF Excuses
<1>5. ASSUME NEW j \in Jobs, Decide(j) \/ ApproveByHand(j) \/ LeaseLapses(j)
      PROVE  Leased'
  BY <1>5 DEF Decide, ApproveByHand, LeaseLapses, ledger, Leased
<1>6. ASSUME NEW j \in Jobs, LeaseOverrun(j)
      PROVE  Leased'
  BY <1>1, <1>2, <1>3, <1>4, <1>6 DEF LeaseOverrun, Leased
<1>7. ASSUME NEW j \in Jobs, JobExpires(j)
      PROVE  Leased'
  BY <1>1, <1>3, <1>7 DEF JobExpires, ledger, Leased
<1>8. ASSUME NEW d \in Daemons, Stop(d)
      PROVE  Leased'
  BY <1>1, <1>2, <1>3, <1>4, <1>8 DEF Stop, server, Leased
<1>9. ASSUME NEW d \in Daemons, TokenExpires(d)
      PROVE  Leased'
  BY <1>1, <1>3, <1>9 DEF TokenExpires, server, ledger, Leased
<1>10. ASSUME NEW d \in Daemons, NEW identity,
              CmdInit(d, identity) \/ CmdImportKey(d, identity)
       PROVE  Leased'
  BY <1>1, <1>3, <1>10 DEF CmdInit, CmdImportKey, server, ledger, Leased
<1>11. ASSUME NEW d \in Daemons,
              \/ CmdExportKey(d) \/ (\E rpc \in Rpcs : CoolsOff(d, rpc))
              \/ Start(d) \/ RefreshToken(d) \/ Sleep(d) \/ Take(d)
       PROVE  Leased'
  BY <1>11 DEF CmdExportKey, CoolsOff, Start, RefreshToken, Sleep, Take, SkipFailed,
               RefuseJob, UnwrapFails, OpenJob, Begin, server, ledger, vars, Leased
<1>12. ASSUME NEW d \in Daemons, PollJobs(d)
       PROVE  Leased'
  BY <1>12 DEF PollJobs, ledger, Leased
<1>13. ASSUME NEW d \in Daemons, NEW j \in Jobs, SubmitLocally(d, j) \/ CmdSign(d, j)
       PROVE  Leased'
  BY <1>13 DEF SubmitLocally, CmdSign, Submitted, Begin, server, Leased
<1>14. ASSUME NEW d \in Daemons,
              \/ Build(d) \/ UnknownChain(d) \/ PollsPending(d) \/ PollsSignature(d)
              \/ PollGivesUp(d) \/ SendOk(d) \/ SendUnverified(d)
              \/ NonceRefused(d) \/ Notify(d) \/ ReportFailed(d)
       PROVE  Leased'
  BY <1>14 DEF Build, UnknownChain, PollsPending, PollsSignature, PollGivesUp, SendOk,
               SendUnverified, NonceRefused, Notify, ReportFailed, server,
               ledger, Leased
<1>15. ASSUME NEW d \in Daemons,
              BuildFails(d) \/ PollsFailure(d) \/ SendStale(d) \/ SendFails(d)
                \/ \E error : PollFails(d, error)
       PROVE  Leased'
  BY <1>1, <1>3, <1>15 DEF BuildFails, PollsFailure, SendStale, SendFails, PollFails,
                           server, ledger, Leased
<1>16. ASSUME NEW d \in Daemons,
              \/ ReadAccount(d) \/ RequestAccepted(d) \/ RequestRefused(d)
              \/ RequestUnanswered(d)
       PROVE  Leased'
  <2>1. PICK errors \in RpcFailures, others \in SUBSET {"error", "loss"} :
          /\ Spent(errors, others)
          /\ \A f \in others : faults[f] > 0
    BY <1>16 DEF ReadAccount, RequestAccepted, RequestRefused, RequestUnanswered
  <2>2. faults' \in [Faults -> Nat]
    BY <2>1, SpentTyped
  <2> QED
    BY <1>16, <2>2 DEF ReadAccount, RequestAccepted, RequestRefused,
                       RequestUnanswered, server, ledger, Leased
<1>17. ASSUME NEW d \in Daemons, SendUnanswered(d) \/ NotifyLost(d)
                \/ CompleteJobFails(d) \/ ReportLost(d)
       PROVE  Leased'
  BY <1>1, <1>2, <1>3, <1>4, <1>17
     DEF SendUnanswered, NotifyLost, CompleteJobFails, ReportLost, server, Leased
<1>18. CASE UNCHANGED vars
  BY <1>18 DEF vars, server, ledger, Leased
<1> QED
  BY <1>5, <1>6, <1>7, <1>8, <1>9, <1>10, <1>11, <1>12, <1>13, <1>14, <1>15, <1>16,
     <1>17, <1>18 DEF Next, ServerNext, Disturbance, Cycle, Sign, Transfer

LEMMA OwnTyped ==
  ASSUME Hosted, NEW d \in Daemons
  PROVE  OwnIdentities(d) \in SUBSET Identities
<1>1. /\ mode[d] \in Modes /\ keyFile[d][place[d]] \in Identities \cup {None}
      /\ device[d] \in Identities \cup {None}
  BY DEF Hosted
<1> QED
  BY <1>1 DEF OwnIdentities, Modes, Proxies

LEMMA HealthKept ==
  ASSUME Leased, Processes, NEW d \in Daemons,
         \/ UNCHANGED health
         \/ \E h \in Healths : health' = [health EXCEPT ![d] = h]
         \/ \E errors \in RpcFailures : Tried(d, errors)
  PROVE  health' \in [Daemons -> Healths]
<1>1. health[d] \in Healths
  BY DEF Processes
<1>2. \A errors \in RpcFailures : Called(health[d], errors) \in Healths
  BY <1>1, RpcFailuresTyped, CallTyped
<1> QED
  BY <1>2 DEF Tried, Processes

LEMMA ProcessesKept ==
  ASSUME Placed, Typed, [Next]_vars
  PROVE  Processes'
<1>1. ServerNext => Processes'
  BY DEF ServerNext, Decide, ApproveByHand, LeaseLapses, LeaseOverrun,
         JobExpires, process, Typed, Processes
<1>2. ASSUME NEW d \in Daemons, Stop(d)
      PROVE  Processes'
  <2>1. health' \in [Daemons -> Healths]
    BY <1>2, AllHealthyTyped, HealthKept DEF Stop, Typed
  <2> QED
    BY <1>2, <2>1 DEF Stop, Typed, Processes
<1>3. ASSUME NEW d \in Daemons, NEW rpc \in Rpcs, CoolsOff(d, rpc)
      PROVE  Processes'
  <2>1. CoolOff(health[d], rpc) \in Healths
    BY MarksTyped DEF Typed, Processes
  <2> QED
    BY <1>3, <2>1, HealthKept DEF CoolsOff, process, Typed, Processes
<1>4. ASSUME NEW d \in Daemons, Start(d)
      PROVE  Processes'
  <2>1. loaded' \in [Daemons -> SUBSET Identities]
    BY <1>4, OwnTyped DEF Start, Typed, Processes
  <2>2. token' \in [Daemons -> BOOLEAN]
    BY <1>4 DEF Start, Typed, Processes
  <2> QED
    BY <1>4, <2>1, <2>2 DEF Start, Typed, Processes
<1>5. ASSUME NEW d \in Daemons, NEW identity,
             \/ TokenExpires(d) \/ CmdExportKey(d) \/ CmdInit(d, identity)
             \/ CmdImportKey(d, identity) \/ PollJobs(d) \/ RefreshToken(d)
             \/ Sleep(d) \/ SkipFailed(d) \/ OpenJob(d)
      PROVE  Processes'
  BY <1>5 DEF TokenExpires, CmdExportKey, CmdInit, CmdImportKey, PollJobs,
              RefreshToken, Sleep, SkipFailed, OpenJob, process, vars, Typed, Processes
<1>6. ASSUME NEW d \in Daemons, NEW j \in Jobs, SubmitLocally(d, j) \/ CmdSign(d, j)
      PROVE  Processes'
  <2>1. health' \in [Daemons -> Healths]
    BY <1>6, AllHealthyTyped, HealthKept DEF SubmitLocally, CmdSign, Typed
  <2> QED
    BY <1>6, <2>1 DEF SubmitLocally, CmdSign, Submitted, process, Typed, Processes
<1>7. ASSUME NEW d \in Daemons, at[d] \notin {"down", "idle"},
             \/ UNCHANGED failedIds
             \/ \E kind : HandleError(d, kind)
      PROVE  failedIds' \in [Daemons -> SUBSET Jobs]
  BY <1>7, EndsOf DEF Ends, Typed, Processes
<1>8. ASSUME NEW d \in Daemons,
             \/ RefuseJob(d) \/ UnwrapFails(d) \/ UnknownChain(d) \/ BuildFails(d)
             \/ PollGivesUp(d) \/ SendUnverified(d) \/ NonceRefused(d)
             \/ SendFails(d) \/ SendUnanswered(d) \/ CompleteJobFails(d)
             \/ SendStale(d)
      PROVE  Processes'
  <2>1. /\ at[d] \notin {"down", "idle"} /\ UNCHANGED <<loaded, token, health>>
        /\ UNCHANGED failedIds \/ \E kind : HandleError(d, kind)
    BY <1>8 DEF RefuseJob, UnwrapFails, Taken, UnknownChain, BuildFails, PollGivesUp,
                SendUnverified, NonceRefused, SendFails, SendUnanswered, Sendable,
                CompleteJobFails, SendStale, Retry
  <2> QED
    BY <1>7, <2>1 DEF Typed, Processes
<1>9. ASSUME NEW d \in Daemons,
             Build(d) \/ SendOk(d) \/ Notify(d) \/ NotifyLost(d)
               \/ ReportFailed(d) \/ ReportLost(d)
      PROVE  Processes'
  BY <1>9 DEF Build, SendOk, Notify, NotifyLost, ReportFailed, ReportLost, process,
              Typed, Processes
<1>10. ASSUME NEW d \in Daemons,
              \/ ReadAccount(d) \/ RequestAccepted(d) \/ RequestRefused(d)
              \/ RequestUnanswered(d)
       PROVE  Processes'
  <2>1. /\ at[d] \notin {"down", "idle"} /\ UNCHANGED <<loaded, token>>
        /\ \E errors \in RpcFailures : Tried(d, errors)
        /\ UNCHANGED failedIds \/ \E kind : HandleError(d, kind)
    BY <1>10 DEF ReadAccount, RequestAccepted, RequestRefused, RequestUnanswered,
                 process
  <2>2. health' \in [Daemons -> Healths]
    BY <2>1, HealthKept DEF Typed
  <2> QED
    BY <1>7, <2>1, <2>2 DEF Typed, Processes
<1>11. ASSUME NEW d \in Daemons, Polling(d),
              PolledOk(d) \/ (\E error :
                health' = [health EXCEPT ![d] = MarkFailure(@, Polled(poll[d]), error)])
       PROVE  health' \in [Daemons -> Healths]
  <2>1. Polled(poll[d]) \in Rpcs
    BY <1>11, PollFields DEF Polling, Typed, Pipelines, Loop
  <2> QED
    BY <1>11, <2>1, MarksTyped, HealthKept DEF PolledOk, Typed, Processes
<1>12. ASSUME NEW d \in Daemons,
              \/ (\E error \in RpcErrors : PollFails(d, error)) \/ PollsPending(d)
              \/ PollsSignature(d) \/ PollsFailure(d)
       PROVE  Processes'
  <2>1. /\ at[d] = "poll" /\ UNCHANGED <<loaded, token>>
        /\ UNCHANGED failedIds \/ \E kind : HandleError(d, kind)
    BY <1>12 DEF PollFails, PollsPending, PollsSignature, PollsFailure, Polling, process
  <2>2. health' \in [Daemons -> Healths]
    BY <1>11, <1>12 DEF PollFails, PollsPending, PollsSignature, PollsFailure
  <2> QED
    BY <1>7, <2>1, <2>2 DEF Typed, Processes
<1>13. UNCHANGED vars => Processes'
  BY DEF vars, process, Typed, Processes
<1> QED
  BY <1>1, <1>2, <1>3, <1>4, <1>5, <1>6, <1>8, <1>9, <1>10, <1>12, <1>13
     DEF Next, Disturbance, Cycle, Take, Sign, Transfer

\* A step of the polling loop, or its first.
LEMMA PollMoves ==
  ASSUME Placed, Pipelines, NEW d \in Daemons, NEW next, Loop(next),
         poll' = [poll EXCEPT ![d] = next], UNCHANGED <<path, fallback>>,
         at' = at \/ Goto(d, "poll")
  PROVE  Pipelines'
<1>1. next \in Polls
  BY DEF Loop
<1>2. poll' \in [Daemons -> Polls \cup {None}]
  BY <1>1 DEF Pipelines
<1>3. \A e \in Daemons : at'[e] = "poll" => Loop(poll'[e])
  BY DEF Pipelines, Placed, Goto
<1> QED
  BY <1>2, <1>3 DEF Pipelines

LEMMA PipelinesKept ==
  ASSUME Placed, Typed, [Next]_vars
  PROVE  Pipelines'
<1> USE DEF Typed
<1>1. CASE ServerNext \/ UNCHANGED vars
  <2>1. UNCHANGED <<at, signing>>
    BY <1>1 DEF ServerNext, Decide, ApproveByHand, LeaseLapses, LeaseOverrun,
                JobExpires, vars
  <2> QED
    BY <2>1, PipelinesStay
<1>2. ASSUME NEW d \in Daemons,
             (Disturbance(d) /\ ~Stop(d)) \/ RefreshToken(d) \/ Sleep(d)
      PROVE  Pipelines'
  <2>1. UNCHANGED <<at, signing>>
    BY <1>2 DEF Disturbance, TokenExpires, CmdExportKey, CmdInit, CmdImportKey,
                CoolsOff, RefreshToken, Sleep, vars
  <2> QED
    BY <2>1, PipelinesStay
<1>3. ASSUME NEW d \in Daemons,
             \/ Start(d) \/ PollJobs(d) \/ Build(d) \/ PollsSignature(d) \/ SendOk(d)
      PROVE  Pipelines'
  <2>1. /\ UNCHANGED signing
        /\ \E step \in Steps \ {"poll"} : Goto(d, step)
    BY <1>3 DEF Start, PollJobs, Build, PollsSignature, SendOk, Steps
  <2> QED
    BY <2>1, PipelinesStay
<1>4. ASSUME NEW d \in Daemons, Ends(d)
      PROVE  Pipelines'
  BY <1>4, EndsTyped
<1>5. ASSUME NEW d \in Daemons, Stop(d)
      PROVE  Ends(d)
  BY <1>5 DEF Stop, Goto, Forget, Ends, Steps, Processes
<1>6. ASSUME NEW d \in Daemons,
             SkipFailed(d) \/ Notify(d) \/ NotifyLost(d) \/ ReportFailed(d)
               \/ ReportLost(d)
      PROVE  Ends(d)
  BY <1>6, EndsOf DEF SkipFailed, Notify, NotifyLost, ReportFailed, ReportLost, process
<1>7. ASSUME NEW d \in Daemons,
             \/ RefuseJob(d) \/ UnwrapFails(d) \/ UnknownChain(d) \/ BuildFails(d)
             \/ RequestRefused(d) \/ RequestUnanswered(d) \/ PollsFailure(d)
             \/ PollGivesUp(d) \/ NonceRefused(d) \/ SendFails(d)
             \/ SendUnanswered(d) \/ CompleteJobFails(d)
      PROVE  Ends(d)
  <2>1. at[d] \notin {"down", "idle"} /\ \E kind : HandleError(d, kind)
    BY <1>7 DEF RefuseJob, UnwrapFails, Taken, UnknownChain, BuildFails, RequestRefused,
                RequestUnanswered, PollsFailure, Polling, PollGivesUp,
                NonceRefused, SendFails, SendUnanswered, Sendable, CompleteJobFails
  <2> QED
    BY <2>1, EndsOf
<1>8. ASSUME NEW d \in Daemons, NEW j \in Jobs, Begin(d, j)
      PROVE  Pipelines'
  <2>1. tx[j].path \in {"0", "deep"}
    BY DEF Hosted, Transactions
  <2>2. path' \in [Daemons -> {"0", "deep"}] /\ poll' = poll
        /\ at' = [at EXCEPT ![d] = "build"]
    BY <1>8, <2>1 DEF Begin, Goto, Pipelines
  <2>3. fallback' \in [Daemons -> BOOLEAN]
    BY <1>8 DEF Begin, Pipelines
  <2> QED
    BY <2>2, <2>3 DEF Pipelines, Placed
<1>9. ASSUME NEW d \in Daemons, OpenJob(d)
      PROVE  Pipelines'
  BY <1>8, <1>9, HandledJob DEF OpenJob, Taken
<1>10. ASSUME NEW d \in Daemons, NEW j \in Jobs, SubmitLocally(d, j) \/ CmdSign(d, j)
       PROVE  Pipelines'
  BY <1>8, <1>10 DEF SubmitLocally, CmdSign, Submitted
<1>11. ASSUME NEW d \in Daemons, ReadAccount(d)
       PROVE  Pipelines'
  <2>1. CASE \E kind : HandleError(d, kind)
    BY <1>4, <1>11, <2>1, EndsOf DEF ReadAccount
  <2>2. CASE Goto(d, "request") /\ UNCHANGED signing
    BY <2>2, PipelinesStay DEF Steps
  <2> QED
    BY <1>11, <2>1, <2>2 DEF ReadAccount
<1>12. ASSUME NEW d \in Daemons, RequestAccepted(d)
       PROVE  Pipelines'
  <2>1. PICK errors \in RpcFailures :
          poll' = [poll EXCEPT ![d] = PollStart(Called(health[d], errors))]
    BY <1>12 DEF RequestAccepted
  <2>2. Called(health[d], errors) \in Healths
    BY RpcFailuresTyped, CallTyped DEF Processes
  <2>3. Loop(PollStart(Called(health[d], errors)))
    BY <2>2, LoopStarts
  <2> QED
    BY <1>12, <2>1, <2>3, PollMoves DEF RequestAccepted
<1>13. ASSUME NEW d \in Daemons,
              (\E error \in RpcErrors : PollFails(d, error)) \/ PollsPending(d)
       PROVE  Pipelines'
  <2>1. Loop(poll[d]) /\ ~Exhausted(poll[d])
    BY <1>13 DEF PollFails, PollsPending, Polling, Pipelines
  <2>2. /\ at' = at /\ UNCHANGED <<path, fallback>>
        /\ \E next : Loop(next) /\ poll' = [poll EXCEPT ![d] = next]
    BY <1>13, <2>1, LoopKept DEF PollFails, PollsPending
  <2> QED
    BY <2>2, PollMoves
<1>14. ASSUME NEW d \in Daemons, Retry(d),
              \/ UNCHANGED <<path, fallback>>
              \/ /\ path' = [path EXCEPT ![d] = "0"]
                 /\ fallback' = [fallback EXCEPT ![d] = FALSE]
       PROVE  Pipelines'
  BY <1>14 DEF Retry, Goto, Pipelines, Placed
<1>15. ASSUME NEW d \in Daemons, SendStale(d) \/ SendUnverified(d)
       PROVE  Pipelines'
  <2>1. CASE \E kind : HandleError(d, kind)
    BY <1>4, <1>15, <2>1, EndsOf DEF SendStale, SendUnverified
  <2>2. CASE Retry(d) /\ ~\E kind : HandleError(d, kind)
    BY <1>14, <1>15, <2>2 DEF SendStale, SendUnverified
  <2> QED
    BY <1>15, <2>1, <2>2 DEF SendStale, SendUnverified
<1> QED
  BY <1>1, <1>2, <1>3, <1>4, <1>5, <1>6, <1>7, <1>9, <1>10, <1>11, <1>12, <1>13, <1>15
     DEF Next, Disturbance, Cycle, Take, Sign, Transfer

LEMMA InitTyped == Init => Typed
<1> SUFFICES ASSUME Init PROVE Typed
  OBVIOUS
<1>1. PICK s \in Scenarios :
        /\ mode = s.mode /\ tx = s.tx /\ faults = s.faults /\ place = s.place
        /\ device = s.device /\ keyFile = s.keyFile
  BY DEF Init
<1>2. Hosted
  BY <1>1, DaemonAssumption DEF Init, Hosted
<1>3. Leased
  BY <1>1, DaemonAssumption DEF Init, Leased
<1>4. Processes
  BY AllHealthyTyped DEF Init, Processes
<1>5. Pipelines
  BY DEF Init, Pipelines
<1> QED
  BY <1>2, <1>3, <1>4, <1>5 DEF Typed

\* What every reachable state has, besides Inv.
LEMMA TypedAlways == Spec => [](Placed /\ Typed)
<1>1. Init => Placed
  BY InitInv DEF Inv
<1>2. Placed /\ Typed /\ [Next]_vars => (Placed /\ Typed)'
  BY PlacedKept, HostedKept, LeasedKept, ProcessesKept, PipelinesKept DEF Typed
<1> QED
  BY <1>1, <1>2, InitTyped, PTL DEF Spec

\* TypeOK: in particular a count of faults, of failures of an endpoint and
\* of polls never leaves its range.
THEOREM TypeCorrect == Spec => []TypeOK
<1>1. Init => Attempts
  BY DaemonAssumption DEF Init, Attempts
<1>2. Placed /\ Attempts /\ [Next]_vars => Attempts'
  BY AttemptKept
<1>3. Inv /\ Typed /\ Attempts => TypeOK
  BY DEF Inv, Placed, Numbers, Approved, Attempts, Typed, Hosted, Leased, Processes,
         Pipelines, Healths, TypeOK
<1> QED
  BY <1>1, <1>2, <1>3, Invariance, TypedAlways, PTL DEF Spec

\* EveryEndpointAsked: poll_sign_result gives up with every endpoint asked,
\* if it has polls enough for the bursts (60 for 4 endpoints in the code).
THEOREM EndpointsAsked ==
  ASSUME PollAttempts >= 3 * RpcCount - 1
  PROVE  Spec => []EveryEndpointAsked
<1>1. Placed /\ Typed => EveryEndpointAsked
  BY LoopAsksAll DEF Typed, Pipelines, EveryEndpointAsked
<1> QED
  BY <1>1, TypedAlways, PTL

---------------------------------------------------------------------------
(* What explains a second transfer.                                        *)

Explained(j) == excuse[j] \ {"failure_lost"} # {}
Has(d, j) == \E n \in DOMAIN batch[d] : batch[d][n] = j
Transferring(d, j) == at[d] = "notify" /\ Job(d) = j

\* One process has the job, once, under its lease or from an agent that
\* waits for its answer.
HeldOnce(j) ==
  \A d \in Daemons :
    /\ \A e \in Daemons : Has(d, j) /\ Has(e, j) => d = e
    /\ \A n, m \in DOMAIN batch[d] : batch[d][n] = j /\ batch[d][m] = j => n = m

HeldByRight(j) ==
  \A d \in Daemons : Has(d, j) =>
    IF tx[j].agent THEN batch[d] = <<j>> /\ Handling(d) ELSE lease[j] = d

\* While it has it, the job is queued, and transferred only when the report
\* comes next; once nobody has it, it is transferred if the server knows.
HeldFate(j) ==
  \A d \in Daemons : Has(d, j) =>
    /\ status[j] = "queued"
    /\ landed[j] = IF Transferring(d, j) THEN 1 ELSE 0

FreeFate(j) ==
  (\A d \in Daemons : ~Has(d, j)) =>
    landed[j] = IF status[j] = "transmitted" THEN 1 ELSE 0

InOrder(j) == HeldOnce(j) /\ HeldByRight(j) /\ HeldFate(j) /\ FreeFate(j)
Tracked == \A j \in Jobs : ~Explained(j) => InOrder(j)

\* The ways a process treats its job: it goes on, gives it or its batch up,
\* transfers, reports the transfer, ends with an excuse, or takes jobs.
GoesOn(d) ==
  /\ OneMoves(d) /\ batch' = batch
  /\ at[d] # "notify" /\ at'[d] # "notify"
  /\ Handling(d) => Handling(d)'
  /\ UNCHANGED <<lease, status, landed, excuse>>

GivesUp(d) ==
  /\ OneMoves(d)
  /\ \/ batch[d] # <<>> /\ batch'[d] = Tail(batch[d])
     \/ batch'[d] = <<>> /\ status' = status
  /\ at[d] # "notify" /\ at'[d] # "notify"
  /\ UNCHANGED <<lease, landed>>
  /\ status' = status \/ (at[d] = "report" /\ Recorded(Job(d), "failed"))
  /\ excuse' = excuse \/ Excused(Job(d), "failure_lost")

Sends(d) ==
  /\ OneMoves(d) /\ batch' = batch
  /\ at[d] = "send" /\ at'[d] = "notify"
  /\ landed' = Counted(landed, Job(d))
  /\ UNCHANGED <<lease, status, excuse>>

Reports(d) ==
  /\ OneMoves(d) /\ batch'[d] = Tail(batch[d])
  /\ at[d] = "notify" /\ at'[d] # "notify"
  /\ Recorded(Job(d), "transmitted")
  /\ UNCHANGED <<lease, landed, excuse>>

EndsExcused(d) ==
  /\ OneMoves(d)
  /\ batch'[d] \in {batch[d], Tail(batch[d]), <<>>}
  /\ at[d] \notin {"down", "idle"} /\ at'[d] # "notify"
  /\ \E why \in Excuses \ {"failure_lost"} : Excused(Job(d), why)
  /\ UNCHANGED lease
  /\ \A i \in Jobs \ {Job(d)} : landed'[i] = landed[i] /\ status'[i] = status[i]

Submits(d, j) ==
  /\ OneMoves(d) /\ batch'[d] = <<j>> /\ at'[d] = "build"
  /\ at[d] \in {"down", "idle"} /\ ReadyForExternalSigning(j)
  /\ ~\E e \in Daemons : Handling(e) /\ Job(e) = j
  /\ UNCHANGED <<lease, status, landed, excuse>>

LEMMA LeaveTail ==
  ASSUME Placed, NEW d \in Daemons, batch[d] # <<>>, Leave(d)
  PROVE  /\ OneMoves(d) /\ batch'[d] = Tail(batch[d])
         /\ at'[d] \in {"down", "idle", "job"}
  BY LeaveQuits DEF Leave, Placed, Quits, Goto

LEMMA ErrorOutcome ==
  ASSUME Placed, NEW d \in Daemons, at[d] \notin {"down", "idle"},
         NEW kind, HandleError(d, kind)
  PROVE  /\ OneMoves(d)
         /\ \/ batch'[d] = Tail(batch[d]) /\ at'[d] \in {"down", "idle", "job"}
            \/ batch' = batch /\ at'[d] = "report"
<1>1. batch[d] # <<>>
  BY HandledJob
<1>2. CASE Leave(d)
  BY <1>1, <1>2, LeaveTail
<1>3. CASE Goto(d, "report") /\ UNCHANGED batch
  BY <1>3, GotoMoves DEF Advances, Steps
<1> QED
  BY <1>2, <1>3 DEF HandleError

LEMMA ErrorGoesOn ==
  ASSUME Placed, NEW d \in Daemons, at[d] \notin {"down", "idle", "notify"},
         NEW kind, HandleError(d, kind), UNCHANGED <<lease, status, landed, excuse>>
  PROVE  GoesOn(d) \/ GivesUp(d)
<1>1. batch[d] # <<>>
  BY HandledJob
<1> QED
  BY <1>1, ErrorOutcome DEF GoesOn, GivesUp, Handling

LEMMA GotoGoesOn ==
  ASSUME Placed, NEW d \in Daemons, at[d] # "notify", NEW step \in Steps,
         step \notin {"down", "idle", "job", "notify"} \/ ~Handling(d),
         step # "notify",
         Goto(d, step), UNCHANGED <<batch, lease, status, landed, excuse>>
  PROVE  GoesOn(d)
<1>1. Advances(d, step)
  BY GotoMoves
<1> QED
  BY <1>1 DEF Advances, GoesOn, Handling

\* The steps of a process.
Treats(d) ==
  \/ GoesOn(d) \/ GivesUp(d) \/ Sends(d) \/ Reports(d) \/ EndsExcused(d)
  \/ PollJobs(d) \/ \E j \in Jobs : Submits(d, j)

LEMMA DisturbanceTreats ==
  ASSUME Placed, NEW d \in Daemons, Disturbance(d)
  PROVE  Treats(d) \/ UNCHANGED <<at, batch, lease, status, landed, excuse>>
<1>1. CASE Stop(d)
  <2>1. OneMoves(d) /\ at'[d] = "down" /\ batch'[d] = <<>>
    <3>1. /\ at' = [at EXCEPT ![d] = "down"] /\ batch' = [batch EXCEPT ![d] = <<>>]
          /\ <<>> \in Seq(Jobs)
      BY <1>1, EmptySeq DEF Stop, Goto
    <3> QED
      BY <3>1 DEF OneMoves, Placed, Steps
  <2>2. CASE at[d] = "notify"
    BY <1>1, <2>1, <2>2 DEF Stop, server, EndsExcused, Treats, Excuses
  <2>3. CASE at[d] # "notify"
    BY <1>1, <2>1, <2>3 DEF Stop, server, GivesUp, Treats
  <2> QED
    BY <2>2, <2>3
<1>2. CASE ~Stop(d)
  BY <1>2 DEF Disturbance, TokenExpires, CmdExportKey, CmdInit, CmdImportKey, CoolsOff,
              server, ledger
<1> QED
  BY <1>1, <1>2

LEMMA CycleTreats ==
  ASSUME Placed, NEW d \in Daemons, Cycle(d)
  PROVE  Treats(d) \/ UNCHANGED <<at, batch, lease, status, landed, excuse>>
<1>1. CASE Start(d)
  BY <1>1, GotoGoesOn DEF Start, server, ledger, Treats, Handling, Steps
<1>2. CASE PollJobs(d)
  BY <1>2 DEF Treats
<1>3. CASE RefreshToken(d) \/ Sleep(d)
  BY <1>3 DEF RefreshToken, Sleep, server, ledger, vars
<1> QED
  BY <1>1, <1>2, <1>3 DEF Cycle

LEMMA TakeTreats ==
  ASSUME Placed, NEW d \in Daemons, Take(d)
  PROVE  Treats(d)
<1>1. CASE SkipFailed(d)
  <2>1. batch[d] # <<>> /\ at[d] = "job" /\ Leave(d)
        /\ UNCHANGED <<lease, status, landed, excuse>>
    BY <1>1, HandledJob DEF SkipFailed, server, ledger
  <2> QED
    BY <2>1, LeaveTail DEF GivesUp, Treats
<1>2. CASE RefuseJob(d) \/ UnwrapFails(d)
  <2>1. at[d] = "job" /\ (\E kind : HandleError(d, kind))
        /\ UNCHANGED <<lease, status, landed, excuse>>
    BY <1>2 DEF RefuseJob, UnwrapFails, Taken, server, ledger
  <2> QED
    BY <2>1, ErrorGoesOn DEF Treats
<1>3. CASE OpenJob(d)
  BY <1>3, GotoGoesOn DEF OpenJob, Taken, Begin, server, Treats, Steps
<1> QED
  BY <1>1, <1>2, <1>3 DEF Take

LEMMA SubmitTreats ==
  ASSUME Placed, NEW d \in Daemons, NEW j \in Jobs,
         SubmitLocally(d, j) \/ CmdSign(d, j)
  PROVE  Submits(d, j)
<1>1. OneMoves(d)
  BY SubmitMoves DEF Opens
<1> QED
  BY <1>1 DEF SubmitLocally, CmdSign, Submitted, Begin, Goto, server, Submits, Placed

LEMMA SignTreats ==
  ASSUME Placed, NEW d \in Daemons, Sign(d)
  PROVE  Treats(d)
<1>1. CASE \/ UnknownChain(d) \/ BuildFails(d) \/ RequestRefused(d)
           \/ RequestUnanswered(d) \/ PollsFailure(d) \/ PollGivesUp(d)
  <2>1. /\ at[d] \notin {"down", "idle", "notify"} /\ (\E kind : HandleError(d, kind))
        /\ UNCHANGED <<lease, status, landed, excuse>>
    BY <1>1 DEF UnknownChain, BuildFails, RequestRefused, RequestUnanswered,
                PollsFailure, Polling, PollGivesUp, server, ledger
  <2> QED
    BY <2>1, ErrorGoesOn DEF Treats
<1>2. ASSUME NEW step \in {"account", "request", "poll", "send"}, Goto(d, step),
             UNCHANGED <<batch, lease, status, landed, excuse>>, at[d] # "notify"
      PROVE  Treats(d)
  BY <1>2, GotoGoesOn DEF Treats, Steps
<1>3. CASE Build(d) \/ RequestAccepted(d) \/ PollsSignature(d)
  <2>1. /\ \E step \in {"account", "request", "poll", "send"} : Goto(d, step)
        /\ UNCHANGED <<batch, lease, status, landed, excuse>> /\ at[d] # "notify"
    BY <1>3 DEF Build, RequestAccepted, PollsSignature, Polling, server, ledger
  <2> QED
    BY <1>2, <2>1
<1>4. CASE ReadAccount(d)
  <2>1. /\ at[d] = "account" /\ UNCHANGED <<lease, status, landed, excuse>>
        /\ \/ \E kind : HandleError(d, kind)
           \/ Goto(d, "request") /\ UNCHANGED batch
    BY <1>4 DEF ReadAccount, server, ledger
  <2> QED
    BY <1>2, <2>1, ErrorGoesOn DEF Treats
<1>5. CASE (\E error \in RpcErrors : PollFails(d, error)) \/ PollsPending(d)
  BY <1>5 DEF PollFails, PollsPending, Polling, server, ledger, Treats, GoesOn, OneMoves,
              Placed, Handling
<1> QED
  BY <1>1, <1>3, <1>4, <1>5 DEF Sign

LEMMA TransferTreats ==
  ASSUME Placed, Approved, NEW d \in Daemons, Transfer(d)
  PROVE  Treats(d)
<1>1. ASSUME at[d] \notin {"down", "idle"}
      PROVE  /\ batch[d] # <<>> /\ Job(d) \in Jobs
             /\ Leave(d) => /\ OneMoves(d) /\ batch'[d] = Tail(batch[d])
                            /\ at'[d] \in {"down", "idle", "job"}
             /\ (\E kind : HandleError(d, kind))
                  => OneMoves(d) /\ batch'[d] \in {batch[d], Tail(batch[d])}
                     /\ at'[d] # "notify"
  <2>1. batch[d] # <<>> /\ Job(d) \in Jobs
    BY <1>1, HandledJob
  <2> QED
    BY <1>1, <2>1, LeaveTail, ErrorOutcome
<1>2. CASE SendOk(d)
  <2>1. Advances(d, "notify")
    BY <1>2, GotoMoves DEF SendOk, Steps
  <2> QED
    BY <1>2, <2>1 DEF SendOk, Sendable, Advances, server, Sends, Treats
<1>3. CASE SendStale(d) \/ SendUnverified(d) \/ NonceRefused(d) \/ SendFails(d)
  <2>1. /\ at[d] = "send" /\ UNCHANGED <<lease, status, landed, excuse>>
        /\ Retry(d) \/ \E kind : HandleError(d, kind)
    BY <1>3 DEF SendStale, SendUnverified, NonceRefused, SendFails, server, ledger
  <2>2. CASE Retry(d)
    <3>1. Goto(d, "build") /\ UNCHANGED batch
      BY <2>2 DEF Retry
    <3> QED
      BY <2>1, <3>1, GotoGoesOn DEF Treats, Steps
  <2>3. CASE \E kind : HandleError(d, kind)
    BY <2>1, <2>3, ErrorGoesOn DEF Treats
  <2> QED
    BY <2>1, <2>2, <2>3
<1>4. CASE SendUnanswered(d)
  <2>1. /\ at[d] = "send" /\ Excused(Job(d), "unanswered")
        /\ \E kind : HandleError(d, kind)
        /\ landed' = Counted(landed, Job(d)) /\ UNCHANGED <<lease, status>>
    BY <1>4 DEF SendUnanswered, Sendable, server
  <2>2. \A i \in Jobs \ {Job(d)} : landed'[i] = landed[i]
    BY <2>1 DEF Counted
  <2>3. \E why \in Excuses \ {"failure_lost"} : Excused(Job(d), why)
    BY <2>1 DEF Excuses
  <2> QED
    BY <1>1, <2>1, <2>2, <2>3 DEF EndsExcused, Treats
<1>5. CASE Notify(d)
  <2>1. /\ at[d] = "notify" /\ Leave(d) /\ Recorded(Job(d), "transmitted")
        /\ UNCHANGED <<lease, landed, excuse>>
    BY <1>5 DEF Notify, ledger
  <2> QED
    BY <1>1, <2>1 DEF Reports, Treats
<1>6. CASE NotifyLost(d) \/ CompleteJobFails(d)
  <2>1. /\ at[d] = "notify" /\ Excused(Job(d), "report_lost")
        /\ Leave(d) \/ \E kind : HandleError(d, kind)
        /\ UNCHANGED <<lease, landed>>
        /\ UNCHANGED status \/ Recorded(Job(d), "transmitted")
    BY <1>6 DEF NotifyLost, CompleteJobFails, server
  <2>2. \A i \in Jobs \ {Job(d)} : landed'[i] = landed[i] /\ status'[i] = status[i]
    BY <2>1 DEF Recorded, Approved
  <2>3. \E why \in Excuses \ {"failure_lost"} : Excused(Job(d), why)
    BY <2>1 DEF Excuses
  <2> QED
    BY <1>1, <2>1, <2>2, <2>3 DEF EndsExcused, Treats
<1>7. CASE ReportFailed(d) \/ ReportLost(d)
  <2>1. /\ at[d] = "report" /\ Leave(d) /\ UNCHANGED <<lease, landed>>
        /\ status' = status \/ Recorded(Job(d), "failed")
        /\ excuse' = excuse \/ Excused(Job(d), "failure_lost")
    BY <1>7 DEF ReportFailed, ReportLost, server, ledger
  <2> QED
    BY <1>1, <2>1 DEF GivesUp, Treats
<1> QED
  BY <1>2, <1>3, <1>4, <1>5, <1>6, <1>7 DEF Transfer

---------------------------------------------------------------------------
(* What becomes of a batch.                                                *)

\* The batch of d keeps what it has, loses its first job or all of them.
Shrinks(d) ==
  /\ OneMoves(d)
  /\ batch'[d] \in {batch[d], Tail(batch[d]), <<>>}
  /\ batch'[d] = Tail(batch[d]) => batch[d] # <<>> \/ batch'[d] = <<>>

\* The first job is lost with the head, and the others stay.
LEMMA HasTail ==
  ASSUME Placed, NEW d \in Daemons, batch[d] # <<>>, batch'[d] = Tail(batch[d]),
         NEW j \in Jobs
  PROVE  /\ Has(d, Job(d)) /\ (Has(d, j)' => Has(d, j))
         /\ HeldOnce(j) => (Has(d, j)' <=> Has(d, j) /\ j # Job(d))
         /\ HeldOnce(j) => \A n, m \in DOMAIN batch'[d] :
              batch'[d][n] = j /\ batch'[d][m] = j => n = m
<1> DEFINE s == batch[d]
           t == Tail(s)
<1>1. s \in Seq(Jobs) /\ s # <<>> /\ Job(d) = s[1] /\ 1 \in DOMAIN s
      /\ \A n \in DOMAIN t : n + 1 \in DOMAIN s /\ t[n] = s[n + 1]
  BY TailFacts DEF Placed, Job
<1>2. /\ DOMAIN s = 1 .. Len(s) /\ Len(s) \in Nat
      /\ DOMAIN t = 1 .. (Len(s) - 1)
  BY <1>1, HeadTailProperties, LenProperties
<1>3. Has(d, Job(d)) /\ (Has(d, j)' => Has(d, j))
  BY <1>1 DEF Has
<1>4. ASSUME HeldOnce(j)
      PROVE  \A n, m \in DOMAIN s : s[n] = j /\ s[m] = j => n = m
  BY <1>4 DEF HeldOnce
<1>5. ASSUME HeldOnce(j), NEW n \in DOMAIN t, NEW m \in DOMAIN t, t[n] = j, t[m] = j
      PROVE  n = m
  <2>1. n + 1 = m + 1
    BY <1>1, <1>4, <1>5
  <2> QED
    BY <1>2, <2>1
<1>6. ASSUME HeldOnce(j), NEW n \in DOMAIN t, t[n] = j
      PROVE  j # Job(d)
  <2>1. j = Job(d) => n + 1 = 1
    BY <1>1, <1>4, <1>6
  <2> QED
    BY <1>2, <2>1
<1>7. ASSUME NEW n \in DOMAIN s, s[n] = j, j # Job(d)
      PROVE  n - 1 \in DOMAIN t /\ t[n - 1] = j
  <2>1. n # 1 /\ n \in 1 .. Len(s)
    BY <1>1, <1>2, <1>7
  <2>2. n - 1 \in DOMAIN t /\ (n - 1) + 1 = n
    BY <1>2, <2>1
  <2> QED
    BY <1>1, <1>7, <2>2
<1>8. HeldOnce(j) => (Has(d, j)' <=> Has(d, j) /\ j # Job(d))
  BY <1>3, <1>6, <1>7 DEF Has
<1> QED
  BY <1>3, <1>5, <1>8

LEMMA HasEmpty ==
  ASSUME NEW d, batch'[d] = <<>>, NEW j
  PROVE  ~Has(d, j)' /\ DOMAIN batch'[d] = {}
  BY EmptySeq DEF Has

LEMMA HasElsewhere ==
  ASSUME NEW d \in Daemons, OneMoves(d), NEW e \in Daemons \ {d}, NEW j
  PROVE  /\ Has(e, j)' = Has(e, j) /\ Transferring(e, j)' = Transferring(e, j)
         /\ Handling(e)' = Handling(e)
  BY DEF OneMoves, Has, Transferring, Job, Handling

LEMMA HeldOnceKept ==
  ASSUME Placed, NEW d \in Daemons, Shrinks(d), NEW j \in Jobs, HeldOnce(j)
  PROVE  HeldOnce(j)'
<1>1. /\ Has(d, j)' => Has(d, j)
      /\ \A n, m \in DOMAIN batch'[d] : batch'[d][n] = j /\ batch'[d][m] = j => n = m
  BY HasTail, HasEmpty DEF Shrinks, Has, HeldOnce
<1>2. \A e \in Daemons : Has(e, j)' => Has(e, j)
  BY <1>1, HasElsewhere DEF Shrinks
<1>3. \A e \in Daemons \ {d} : batch'[e] = batch[e]
  BY DEF Shrinks, OneMoves
<1> QED
  BY <1>1, <1>2, <1>3 DEF HeldOnce

---------------------------------------------------------------------------
(* Order is kept, job by job.                                              *)

\* What an unexplained job needs to stay in order, when d is the process
\* that moves and its batch shrinks.
LEMMA OrderKept ==
  ASSUME Placed, NEW d \in Daemons, Shrinks(d), NEW j \in Jobs, InOrder(j),
         UNCHANGED tx, lease'[j] = lease[j],
         Has(d, j)' => \/ Handling(d)' /\ batch' = batch
                       \/ j # Job(d) /\ batch[d] # <<>>
                       \/ ~Handling(d) /\ batch' = batch,
         ~Has(d, j) => landed'[j] = landed[j] /\ status'[j] = status[j],
         Has(d, j)' => status'[j] = "queued"
                       /\ landed'[j] = IF Transferring(d, j)' THEN 1 ELSE 0,
         Has(d, j) /\ ~Has(d, j)'
           => landed'[j] = IF status'[j] = "transmitted" THEN 1 ELSE 0
  PROVE  InOrder(j)'
<1>1. HeldOnce(j)'
  BY HeldOnceKept DEF InOrder
<1>2. Has(d, j)' => Has(d, j)
  BY HasTail, HasEmpty DEF Shrinks, Has
<1>3. ASSUME NEW e \in Daemons \ {d}
      PROVE  /\ Has(e, j)' = Has(e, j) /\ Transferring(e, j)' = Transferring(e, j)
             /\ Handling(e)' = Handling(e) /\ batch'[e] = batch[e]
             /\ Has(e, j) => ~Has(d, j)
  BY HasElsewhere DEF Shrinks, InOrder, HeldOnce, OneMoves
<1>4. ASSUME Has(d, j)', tx[j].agent
      PROVE  batch'[d] = <<j>> /\ Handling(d)'
  <2>1. Has(d, j) /\ batch[d] = <<j>> /\ Handling(d)
    BY <1>2, <1>4 DEF InOrder, HeldByRight
  <2>2. Job(d) = j
    BY <2>1 DEF Job
  <2> QED
    BY <1>4, <2>1, <2>2
<1>5. HeldByRight(j)'
  <2> SUFFICES ASSUME NEW e \in Daemons, Has(e, j)'
               PROVE  IF tx'[j].agent THEN batch'[e] = <<j>> /\ Handling(e)'
                                      ELSE lease'[j] = e
    BY DEF HeldByRight
  <2>1. CASE e = d
    BY <1>2, <1>4, <2>1 DEF InOrder, HeldByRight
  <2>2. CASE e # d
    BY <1>3, <2>2 DEF InOrder, HeldByRight
  <2> QED
    BY <2>1, <2>2
<1>6. HeldFate(j)'
  <2> SUFFICES ASSUME NEW e \in Daemons, Has(e, j)'
               PROVE  /\ status'[j] = "queued"
                      /\ landed'[j] = IF Transferring(e, j)' THEN 1 ELSE 0
    BY DEF HeldFate
  <2>1. CASE e = d
    BY <2>1
  <2>2. CASE e # d
    BY <1>3, <2>2 DEF InOrder, HeldFate
  <2> QED
    BY <2>1, <2>2
<1>7. FreeFate(j)'
  <2> SUFFICES ASSUME \A e \in Daemons : ~Has(e, j)'
               PROVE  landed'[j] = IF status'[j] = "transmitted" THEN 1 ELSE 0
    BY DEF FreeFate
  <2>1. CASE Has(d, j)
    BY <2>1
  <2>2. CASE ~Has(d, j)
    <3>1. \A e \in Daemons : ~Has(e, j)
      BY <1>3, <2>2
    <3> QED
      BY <2>2, <3>1 DEF InOrder, FreeFate
  <2> QED
    BY <2>1, <2>2
<1> QED
  BY <1>1, <1>5, <1>6, <1>7 DEF InOrder

\* A step of a process keeps an unexplained job in order.
LEMMA GoesOnOrder ==
  ASSUME Placed, NEW d \in Daemons, GoesOn(d), NEW j \in Jobs, InOrder(j),
         UNCHANGED tx
  PROVE  InOrder(j)'
<1>1. Shrinks(d)
  BY DEF GoesOn, Shrinks
<1>2. Has(d, j)' = Has(d, j) /\ ~Transferring(d, j) /\ ~Transferring(d, j)'
  BY DEF GoesOn, Has, Transferring
<1>3. Has(d, j) => status[j] = "queued" /\ landed[j] = 0
  BY <1>2 DEF InOrder, HeldFate
<1> QED
  BY <1>1, <1>2, <1>3, OrderKept DEF GoesOn

LEMMA GivesUpOrder ==
  ASSUME Placed, Approved, NEW d \in Daemons, GivesUp(d), NEW j \in Jobs,
         InOrder(j), UNCHANGED tx
  PROVE  InOrder(j)'
<1>1. Shrinks(d)
  BY DEF GivesUp, Shrinks
<1>2. ~Transferring(d, j) /\ ~Transferring(d, j)'
  BY DEF GivesUp, Transferring
<1>3. Has(d, j) => status[j] = "queued" /\ landed[j] = 0
  BY <1>2 DEF InOrder, HeldFate
<1>4. Has(d, j)' => batch[d] # <<>> /\ j # Job(d) /\ Has(d, j)
  BY HasTail, HasEmpty DEF GivesUp, InOrder
<1>5. status'[j] # status[j] => j = Job(d) /\ Has(d, j) /\ status'[j] = "failed"
  <2>1. ASSUME status'[j] # status[j]
        PROVE  batch[d] # <<>> /\ batch'[d] = Tail(batch[d])
    BY <2>1 DEF GivesUp
  <2> QED
    BY <2>1, HasTail DEF GivesUp, Recorded, Approved
<1> QED
  BY <1>1, <1>2, <1>3, <1>4, <1>5, OrderKept DEF GivesUp

LEMMA SendsOrder ==
  ASSUME Placed, Numbers, NEW d \in Daemons, Sends(d), NEW j \in Jobs, InOrder(j),
         UNCHANGED tx
  PROVE  InOrder(j)'
<1>1. Shrinks(d)
  BY DEF Sends, Shrinks
<1>2. Has(d, j)' = Has(d, j) /\ ~Transferring(d, j)
      /\ (Transferring(d, j)' <=> Job(d) = j)
  BY DEF Sends, Has, Transferring, Job
<1>3. Has(d, j) => status[j] = "queued" /\ landed[j] = 0
  BY <1>2 DEF InOrder, HeldFate
<1>4. Has(d, Job(d)) /\ Job(d) \in Jobs
  BY HandledJob DEF Sends, Has
<1>5. landed'[j] = IF Job(d) = j THEN landed[j] + 1 ELSE landed[j]
  BY <1>4 DEF Sends, Counted, Numbers
<1>6. Handling(d)'
  BY DEF Sends, Handling
<1> QED
  BY <1>1, <1>2, <1>3, <1>4, <1>5, <1>6, OrderKept DEF Sends

LEMMA ReportsOrder ==
  ASSUME Placed, Approved, NEW d \in Daemons, Reports(d), NEW j \in Jobs, InOrder(j),
         UNCHANGED tx
  PROVE  InOrder(j)'
<1>1. batch[d] # <<>> /\ Job(d) \in Jobs
  BY HandledJob DEF Reports
<1>2. Shrinks(d)
  BY <1>1 DEF Reports, Shrinks
<1>3. (Transferring(d, j) <=> Job(d) = j) /\ ~Transferring(d, j)'
  BY DEF Reports, Transferring
<1>4. Has(d, j) => /\ status[j] = "queued"
                   /\ landed[j] = IF Job(d) = j THEN 1 ELSE 0
  BY <1>3 DEF InOrder, HeldFate
<1>5. Has(d, Job(d)) /\ (Has(d, j)' <=> Has(d, j) /\ j # Job(d))
  BY <1>1, HasTail DEF Reports, InOrder
<1>6. status'[j] = IF j = Job(d) /\ status[j] = "queued" THEN "transmitted"
                   ELSE status[j]
  BY <1>1 DEF Reports, Recorded, Approved
<1> QED
  BY <1>1, <1>2, <1>3, <1>4, <1>5, <1>6, OrderKept DEF Reports

LEMMA ExcusedOrder ==
  ASSUME Placed, Leased, NEW d \in Daemons, EndsExcused(d), NEW j \in Jobs,
         ~Explained(j)', InOrder(j), UNCHANGED tx
  PROVE  InOrder(j)'
<1>1. batch[d] # <<>> /\ Job(d) \in Jobs
  BY HandledJob DEF EndsExcused
<1>2. j # Job(d)
  <2>1. PICK why \in Excuses \ {"failure_lost"} : Excused(Job(d), why)
    BY DEF EndsExcused
  <2>2. why \in excuse'[Job(d)]
    BY <1>1, <2>1 DEF Excused, Leased
  <2> QED
    BY <2>1, <2>2 DEF Explained
<1>3. Shrinks(d)
  BY <1>1 DEF EndsExcused, Shrinks
<1>4. ~Transferring(d, j) /\ ~Transferring(d, j)'
  BY <1>2 DEF EndsExcused, Transferring
<1>5. Has(d, j) => status[j] = "queued" /\ landed[j] = 0
  BY <1>4 DEF InOrder, HeldFate
<1>6. Has(d, j)' => Has(d, j)
  BY <1>3, HasTail, HasEmpty DEF Shrinks, Has
<1> QED
  BY <1>1, <1>2, <1>3, <1>4, <1>5, <1>6, OrderKept DEF EndsExcused

\* Only jobs that nobody has are offered.
LEMMA OfferedFree ==
  ASSUME NEW j \in Jobs, j \in Offered, InOrder(j)
  PROVE  (\A e \in Daemons : ~Has(e, j)) /\ landed[j] = 0
<1>1. ~tx[j].agent /\ status[j] = "queued" /\ lease[j] = None
  BY DEF Offered
<1>2. \A e \in Daemons : ~Has(e, j)
  BY <1>1, DaemonAssumption DEF InOrder, HeldByRight
<1> QED
  BY <1>1, <1>2 DEF InOrder, FreeFate

LEMMA PollJobsOrder ==
  ASSUME Placed, NEW d \in Daemons, PollJobs(d), NEW j \in Jobs, InOrder(j),
         UNCHANGED tx
  PROVE  InOrder(j)'
<1>1. PICK order \in Orders(Offered) : batch' = [batch EXCEPT ![d] = order]
  BY DEF PollJobs
<1>2. /\ order \in Seq(Jobs) /\ \A n \in DOMAIN order : order[n] \in Offered
      /\ \A n, m \in DOMAIN order : order[n] = order[m] => n = m
  <2>1. Offered \in SUBSET Jobs /\ Offered # {}
    BY DEF PollJobs, Offered
  <2>2. \A n, m \in DOMAIN order : order[n] = order[m] => n = m
    BY DEF Orders
  <2> QED
    BY <2>1, <2>2, OrderFacts
<1>3. /\ at[d] = "idle" /\ at' = [at EXCEPT ![d] = "job"]
      /\ \A i \in Jobs : lease'[i] = IF i \in Offered THEN d ELSE lease[i]
      /\ UNCHANGED <<status, landed>>
  BY DEF PollJobs, Goto, ledger
<1>4. batch'[d] = order /\ OneMoves(d) /\ at'[d] = "job"
  BY <1>1, <1>2, <1>3 DEF OneMoves, Placed, Steps
<1>5. ASSUME NEW e \in Daemons \ {d}
      PROVE  /\ Has(e, j)' = Has(e, j) /\ Transferring(e, j)' = Transferring(e, j)
             /\ Handling(e)' = Handling(e) /\ batch'[e] = batch[e]
  BY <1>4, HasElsewhere DEF OneMoves
<1>6. Has(d, j)' => j \in Offered
  BY <1>2, <1>4 DEF Has
<1>7. ~Handling(d) /\ ~Transferring(d, j) /\ ~Transferring(d, j)'
  BY <1>3, <1>4 DEF Handling, Transferring
<1>8. CASE j \in Offered
  <2>1. (\A e \in Daemons : ~Has(e, j)) /\ landed[j] = 0
    BY <1>8, OfferedFree
  <2>2. \A e \in Daemons : Has(e, j)' => e = d
    BY <1>5, <2>1
  <2>3. ~tx[j].agent /\ status[j] = "queued" /\ lease'[j] = d
    BY <1>3, <1>8 DEF Offered
  <2>4. \A e \in Daemons : \A n \in DOMAIN batch'[e] : batch'[e][n] = j => e = d
    BY <2>2 DEF Has
  <2>5. HeldOnce(j)'
    BY <1>2, <1>4, <2>2, <2>4 DEF HeldOnce
  <2> QED
    BY <1>3, <1>7, <2>1, <2>2, <2>3, <2>5
       DEF InOrder, HeldByRight, HeldFate, FreeFate
<1>9. CASE j \notin Offered
  <2>1. ~Has(d, j)' /\ lease'[j] = lease[j]
    BY <1>3, <1>6, <1>9
  <2>2. \A e \in Daemons : Has(e, j)' => e # d /\ Has(e, j)
    BY <1>5, <2>1
  <2>3. \A n \in DOMAIN batch'[d] : batch'[d][n] # j
    BY <2>1 DEF Has
  <2>4. HeldOnce(j)'
    BY <1>5, <2>2, <2>3 DEF InOrder, HeldOnce
  <2>5. HeldByRight(j)' /\ HeldFate(j)'
    BY <1>3, <1>5, <2>1, <2>2 DEF InOrder, HeldByRight, HeldFate
  <2>6. FreeFate(j)'
    <3> SUFFICES ASSUME \A e \in Daemons : ~Has(e, j)'
                 PROVE  landed[j] = IF status[j] = "transmitted" THEN 1 ELSE 0
      BY <1>3 DEF FreeFate
    <3>1. CASE Has(d, j)
      BY <1>7, <3>1 DEF InOrder, HeldFate
    <3>2. CASE ~Has(d, j)
      BY <1>5, <3>2 DEF InOrder, FreeFate
    <3> QED
      BY <3>1, <3>2
  <2> QED
    BY <2>4, <2>5, <2>6 DEF InOrder
<1> QED
  BY <1>8, <1>9

LEMMA SubmitsOrder ==
  ASSUME Placed, NEW d \in Daemons, NEW i \in Jobs, Submits(d, i), NEW j \in Jobs,
         InOrder(j), UNCHANGED tx
  PROVE  InOrder(j)'
<1>1. /\ OneMoves(d) /\ batch'[d] = <<i>> /\ at'[d] = "build"
      /\ at[d] \in {"down", "idle"} /\ tx[i].agent /\ status[i] = "queued"
      /\ UNCHANGED <<lease, status, landed>>
  BY DEF Submits, ReadyForExternalSigning
<1>2. DOMAIN batch'[d] = {1} /\ batch'[d][1] = i /\ Handling(d)'
  BY <1>1 DEF Handling
<1>3. Has(d, j)' <=> j = i
  BY <1>2 DEF Has
<1>4. ASSUME NEW e \in Daemons \ {d}
      PROVE  /\ Has(e, j)' = Has(e, j) /\ Transferring(e, j)' = Transferring(e, j)
             /\ Handling(e)' = Handling(e) /\ batch'[e] = batch[e]
  BY <1>1, HasElsewhere DEF OneMoves
<1>5. ~Handling(d) /\ ~Transferring(d, j) /\ ~Transferring(d, j)'
  BY <1>1 DEF Handling, Transferring
<1>6. Has(d, j) => status[j] = "queued" /\ landed[j] = 0
  BY <1>5 DEF InOrder, HeldFate
<1>7. CASE j = i
  <2>1. \A e \in Daemons : ~Has(e, j)
    <3>1. ASSUME NEW e \in Daemons, Has(e, j)
          PROVE  batch[e] = <<j>> /\ Handling(e)
      BY <1>1, <1>7, <3>1 DEF InOrder, HeldByRight
    <3>2. ASSUME NEW e \in Daemons, Has(e, j)
          PROVE  Handling(e) /\ Job(e) = i
      BY <1>7, <3>1, <3>2 DEF Job
    <3> QED
      BY <3>2 DEF Submits
  <2>2. landed[j] = 0
    BY <1>1, <1>7, <2>1 DEF InOrder, FreeFate
  <2>3. \A e \in Daemons : Has(e, j)' => e = d
    BY <1>4, <2>1
  <2>4. \A e \in Daemons : \A n \in DOMAIN batch'[e] : batch'[e][n] = j => e = d
    BY <2>3 DEF Has
  <2>5. HeldOnce(j)'
    BY <1>2, <2>3, <2>4 DEF HeldOnce
  <2> QED
    BY <1>1, <1>2, <1>3, <1>5, <1>7, <2>2, <2>3, <2>5
       DEF InOrder, HeldByRight, HeldFate, FreeFate
<1>8. CASE j # i
  <2>1. \A e \in Daemons : Has(e, j)' => e # d /\ Has(e, j)
    BY <1>3, <1>4, <1>8
  <2>2. \A n \in DOMAIN batch'[d] : batch'[d][n] # j
    BY <1>2, <1>8
  <2>3. HeldOnce(j)'
    BY <1>4, <2>1, <2>2 DEF InOrder, HeldOnce
  <2>4. HeldByRight(j)' /\ HeldFate(j)'
    BY <1>1, <1>4, <2>1 DEF InOrder, HeldByRight, HeldFate
  <2>5. FreeFate(j)'
    <3> SUFFICES ASSUME \A e \in Daemons : ~Has(e, j)'
                 PROVE  landed[j] = IF status[j] = "transmitted" THEN 1 ELSE 0
      BY <1>1 DEF FreeFate
    <3>1. CASE Has(d, j)
      BY <1>6, <3>1
    <3>2. CASE ~Has(d, j)
      BY <1>4, <3>2 DEF InOrder, FreeFate
    <3> QED
      BY <3>1, <3>2
  <2> QED
    BY <2>3, <2>4, <2>5 DEF InOrder
<1> QED
  BY <1>7, <1>8

LEMMA ServerOrder ==
  ASSUME Placed, Approved, Leased, ServerNext \/ UNCHANGED <<at, batch, lease, status, landed, excuse>>,
         NEW j \in Jobs, ~Explained(j)', InOrder(j), UNCHANGED tx
  PROVE  InOrder(j)'
<1>1. ASSUME UNCHANGED <<at, batch>>
      PROVE  \A d \in Daemons :
               /\ Has(d, j)' = Has(d, j) /\ Transferring(d, j)' = Transferring(d, j)
               /\ Handling(d)' = Handling(d) /\ batch'[d] = batch[d]
  BY <1>1 DEF Has, Transferring, Job, Handling
<1>2. ASSUME UNCHANGED <<at, batch, landed, status>>,
             lease'[j] = lease[j] \/ \A d \in Daemons : Has(d, j) => tx[j].agent
      PROVE  InOrder(j)'
  <2>1. HeldOnce(j)' /\ HeldFate(j)' /\ FreeFate(j)'
    BY <1>1, <1>2 DEF InOrder, HeldOnce, HeldFate, FreeFate
  <2>2. HeldByRight(j)'
    BY <1>1, <1>2 DEF InOrder, HeldByRight
  <2> QED
    BY <2>1, <2>2 DEF InOrder
<1>3. ASSUME UNCHANGED <<at, batch, lease, landed>>,
             status[j] \in {"submitted", "waiting"}, status'[j] \in {"queued", "waiting"}
      PROVE  InOrder(j)'
  <2>1. \A d \in Daemons : ~Has(d, j) /\ ~Has(d, j)'
    BY <1>1, <1>3 DEF InOrder, HeldFate
  <2>2. landed'[j] = 0
    BY <1>3, <2>1 DEF InOrder, FreeFate
  <2>3. HeldOnce(j)'
    BY <2>1 DEF HeldOnce, Has
  <2> QED
    BY <1>3, <2>1, <2>2, <2>3 DEF InOrder, HeldByRight, HeldFate, FreeFate
<1>4. ASSUME UNCHANGED <<at, batch, lease, landed>>, status'[j] = status[j]
      PROVE  InOrder(j)'
  BY <1>1, <1>4 DEF InOrder, HeldOnce, HeldByRight, HeldFate, FreeFate
<1>5. ASSUME NEW i \in Jobs, Decide(i) \/ ApproveByHand(i)
      PROVE  InOrder(j)'
  <2>1. /\ UNCHANGED <<at, batch, lease, landed>>
        /\ status[i] \in {"submitted", "waiting"}
        /\ \E next \in {"queued", "waiting"} : status' = [status EXCEPT ![i] = next]
    BY <1>5 DEF Decide, ApproveByHand, ledger
  <2> QED
    BY <1>3, <1>4, <2>1 DEF Approved
<1>6. ASSUME NEW i \in Jobs, LeaseLapses(i)
      PROVE  InOrder(j)'
  <2>1. UNCHANGED <<at, batch, landed, status>> /\ ~Held(i)
        /\ lease' = [lease EXCEPT ![i] = None]
    BY <1>6 DEF LeaseLapses, ledger
  <2>2. CASE i = j
    BY <1>2, <2>1, <2>2 DEF InOrder, HeldByRight, Held, Has
  <2>3. CASE i # j
    BY <1>2, <2>1, <2>3 DEF Leased
  <2> QED
    BY <2>2, <2>3
<1>7. ASSUME NEW i \in Jobs, LeaseOverrun(i)
      PROVE  InOrder(j)'
  <2>1. /\ UNCHANGED <<at, batch, landed, status>> /\ Excused(i, "overrun")
        /\ lease' = [lease EXCEPT ![i] = None]
    BY <1>7 DEF LeaseOverrun
  <2>2. i # j
    BY <2>1 DEF Excused, Explained, Leased
  <2> QED
    BY <1>2, <2>1, <2>2 DEF Leased
<1>8. ASSUME NEW i \in Jobs, JobExpires(i)
      PROVE  InOrder(j)'
  BY <1>2, <1>8 DEF JobExpires, ledger
<1>9. CASE UNCHANGED <<at, batch, lease, status, landed, excuse>>
  BY <1>2, <1>9
<1> QED
  BY <1>5, <1>6, <1>7, <1>8, <1>9 DEF ServerNext

\* An excuse is never withdrawn.
LEMMA ExcusesStay ==
  ASSUME Leased, [Next]_vars, NEW j \in Jobs
  PROVE  excuse[j] \subseteq excuse'[j]
<1>1. \A i, why : Excused(i, why) => excuse[j] \subseteq excuse'[j]
  BY DEF Excused, Leased
<1>2. UNCHANGED excuse \/ (\E i, why : Excused(i, why))
  <2>1. ServerNext => UNCHANGED excuse \/ (\E i, why : Excused(i, why))
    BY DEF ServerNext, Decide, ApproveByHand, LeaseLapses, LeaseOverrun, JobExpires,
           ledger
  <2>2. ASSUME NEW d \in Daemons, Disturbance(d) \/ Cycle(d) \/ Take(d)
        PROVE  UNCHANGED excuse \/ (\E i, why : Excused(i, why))
    BY <2>2 DEF Disturbance, Stop, TokenExpires, CmdExportKey, CmdInit,
                CmdImportKey, CoolsOff, Cycle, Start, PollJobs, RefreshToken, Sleep,
                Take, SkipFailed, RefuseJob, UnwrapFails, OpenJob, Begin, ledger, vars
  <2>3. ASSUME NEW d \in Daemons, NEW i \in Jobs, SubmitLocally(d, i) \/ CmdSign(d, i)
        PROVE  UNCHANGED excuse
    BY <2>3 DEF SubmitLocally, CmdSign, Submitted, Begin
  <2>4. ASSUME NEW d \in Daemons, Sign(d) \/ Transfer(d)
        PROVE  UNCHANGED excuse \/ (\E i, why : Excused(i, why))
    BY <2>4 DEF Sign, Build, UnknownChain, BuildFails, ReadAccount,
                RequestAccepted, RequestRefused, RequestUnanswered, PollFails,
                PollsPending, PollsSignature, PollsFailure, PollGivesUp,
                Transfer, SendOk, SendStale, SendUnverified, NonceRefused, SendFails,
                SendUnanswered, Notify, NotifyLost, CompleteJobFails, ReportFailed,
                ReportLost, ledger
  <2> QED
    BY <2>1, <2>2, <2>3, <2>4 DEF Next, vars, ledger
<1> QED
  BY <1>1, <1>2

LEMMA TrackedKept ==
  ASSUME Inv, Typed, Tracked, [Next]_vars
  PROVE  Tracked'
<1> SUFFICES ASSUME NEW j \in Jobs, ~Explained(j)'
             PROVE  InOrder(j)'
  BY DEF Tracked
<1>1. InOrder(j) /\ UNCHANGED tx
  BY ExcusesStay, ChosenFixed DEF Tracked, Typed, Explained
<1>2. ASSUME NEW d \in Daemons, Treats(d)
      PROVE  InOrder(j)'
  BY <1>1, <1>2, GoesOnOrder, GivesUpOrder, SendsOrder, ReportsOrder, ExcusedOrder,
     PollJobsOrder, SubmitsOrder DEF Treats, Inv, Typed
<1>3. CASE ServerNext \/ UNCHANGED <<at, batch, lease, status, landed, excuse>>
  BY <1>1, <1>3, ServerOrder DEF Inv, Typed
<1>4. CASE UNCHANGED vars
  BY <1>3, <1>4 DEF vars, server, ledger
<1>5. ASSUME NEW d \in Daemons,
             \/ Disturbance(d) \/ Cycle(d) \/ Take(d) \/ Sign(d) \/ Transfer(d)
             \/ \E i \in Jobs : SubmitLocally(d, i) \/ CmdSign(d, i)
      PROVE  Treats(d) \/ UNCHANGED <<at, batch, lease, status, landed, excuse>>
  BY <1>5, DisturbanceTreats, CycleTreats, TakeTreats, SignTreats, TransferTreats,
     SubmitTreats DEF Treats, Inv
<1> QED
  BY <1>2, <1>3, <1>4, <1>5 DEF Next

LEMMA InitTracked == Init => Tracked
<1> SUFFICES ASSUME Init, NEW j \in Jobs PROVE InOrder(j)
  BY DEF Tracked
<1>1. \A d \in Daemons : batch[d] = <<>> /\ ~Has(d, j)
  BY EmptySeq DEF Init, Has
<1>2. landed[j] = 0 /\ status[j] \in {"submitted", "draft"}
  BY DEF Init
<1>3. HeldOnce(j)
  BY <1>1 DEF HeldOnce, Has
<1> QED
  BY <1>1, <1>2, <1>3 DEF InOrder, HeldByRight, HeldFate, FreeFate

\* Tracked: while no answer, report or lease of a job was lost and no process
\* stopped over it, one process has it at most, and what the server records
\* of it is what happened on its chain.
THEOREM RecordExact == Spec => []Tracked
<1>1. Init => Inv /\ Typed /\ Tracked
  BY InitInv, InitTyped, InitTracked
<1>2. Inv /\ Typed /\ Tracked /\ [Next]_vars => Tracked'
  BY TrackedKept
<1> QED
  BY <1>1, <1>2, Invariance, TypedAlways, PTL DEF Spec

\* TransfersExplained: a second transfer, or one that the server records as
\* failed, has a lost answer or report, an overrun lease or a stopped
\* process behind it.
THEOREM TransfersHaveExcuses == Spec => []TransfersExplained
<1>1. Tracked => TransfersExplained
  <2> SUFFICES ASSUME Tracked, NEW j \in Jobs, ~Explained(j)
               PROVE  ~(landed[j] > 1 \/ (landed[j] > 0 /\ status[j] = "failed"))
    BY DEF TransfersExplained, Explained
  <2>1. InOrder(j)
    BY DEF Tracked
  <2>2. CASE \E d \in Daemons : Has(d, j)
    BY <2>1, <2>2 DEF InOrder, HeldFate
  <2>3. CASE \A d \in Daemons : ~Has(d, j)
    BY <2>1, <2>3 DEF InOrder, FreeFate
  <2> QED
    BY <2>2, <2>3
<1> QED
  BY <1>1, RecordExact, PTL

---------------------------------------------------------------------------
(* What a daemon remembers.                                                *)

Reported(j) ==
  status[j] \in {"transmitted", "failed"} \/ "failure_lost" \in excuse[j]
Reporting(d, j) == at[d] = "report" /\ Job(d) = j

\* Whatever waits in a batch has been queued.
Handed == \A d \in Daemons : \A n \in DOMAIN batch[d] : status[batch[d][n]] \in Past

\* A step of d: a job that it comes to remember, or whose report it ends, is
\* reported or about to be.
Remembers(d) ==
  /\ OneMoves(d)
  /\ \A e \in Daemons \ {d} : failedIds'[e] = failedIds[e]
  /\ \A j \in failedIds'[d] :
       \/ j \in failedIds[d] /\ ~Reporting(d, j)
       \/ Reported(j)'
       \/ Reporting(d, j)'

LEMMA StatusForward ==
  ASSUME Placed, Approved, [Next]_vars, NEW j \in Jobs
  PROVE  /\ status[j] \in Past => status'[j] \in Past
         /\ status[j] \in {"transmitted", "failed"} => status'[j] = status[j]
<1>1. CASE Decides
  <2>1. PICK i \in Jobs : Decide(i) \/ ApproveByHand(i)
    BY <1>1 DEF Decides
  <2>2. /\ status[i] \in {"submitted", "waiting"}
        /\ \E next : status' = [status EXCEPT ![i] = next]
    BY <2>1 DEF Decide, ApproveByHand
  <2> QED
    BY <2>2 DEF Approved, Past
<1>2. ASSUME NEW d \in Daemons, Settles(d)
      PROVE  /\ status[j] \in Past => status'[j] \in Past
             /\ status[j] \in {"transmitted", "failed"} => status'[j] = status[j]
  BY <1>2 DEF Settles, Recorded, Approved, Past
<1> QED
  BY <1>1, <1>2, Moves

LEMMA HandedKept ==
  ASSUME Placed, Approved, Handed, [Next]_vars
  PROVE  Handed'
<1> DEFINE Waiting(d) == \A n \in DOMAIN batch[d] : status[batch[d][n]] \in Past
<1>1. \A d \in Daemons : batch[d] \in Seq(Jobs) /\ batch'[d] \in Seq(Jobs)
  BY PlacedKept DEF Placed
<1>2. ASSUME NEW d \in Daemons, NEW n \in DOMAIN batch'[d],
             \/ \E k \in DOMAIN batch[d] : batch'[d][n] = batch[d][k]
             \/ status[batch'[d][n]] = "queued"
      PROVE  status'[batch'[d][n]] \in Past
  <2>1. batch'[d][n] \in Jobs
    BY <1>1, <1>2, LenProperties, ElementOfSeq
  <2>2. status[batch'[d][n]] \in Past
    BY <1>2 DEF Handed, Past
  <2> QED
    BY <2>1, <2>2, StatusForward
<1>3. \A d \in Daemons : batch'[d] = batch[d] => Waiting(d)'
  BY <1>2
<1>4. ASSUME NEW d \in Daemons, OneMoves(d),
             \A n \in DOMAIN batch'[d] :
               \/ \E k \in DOMAIN batch[d] : batch'[d][n] = batch[d][k]
               \/ status[batch'[d][n]] = "queued"
      PROVE  \A e \in Daemons : Waiting(e)'
  BY <1>2, <1>3, <1>4 DEF OneMoves
<1>5. ASSUME NEW d \in Daemons, Quits(d) \/ \E step : Advances(d, step)
      PROVE  \A e \in Daemons : Waiting(e)'
  BY <1>3, <1>4, <1>5 DEF Quits, Advances
<1>6. ASSUME NEW d \in Daemons, Turns(d) \/ Pays(d) \/ Lands(d)
      PROVE  \A e \in Daemons : Waiting(e)'
  BY <1>4, <1>5, <1>6 DEF Turns, Pays, Lands
<1>7. ASSUME NEW d \in Daemons, NEW j \in Jobs, Opens(d, j)
      PROVE  \A e \in Daemons : Waiting(e)'
  <2>1. CASE batch' = batch
    BY <1>3, <2>1
  <2>2. CASE batch'[d] = <<j>> /\ status[j] = "queued"
    BY <1>4, <1>7, <2>2 DEF Opens
  <2> QED
    BY <1>7, <2>1, <2>2 DEF Opens
<1>8. Quiet => \A e \in Daemons : Waiting(e)'
  BY <1>3 DEF Quiet
<1>9. \A e \in Daemons : Waiting(e)'
  BY <1>6, <1>7, <1>8, Moves
<1> QED
  BY <1>9 DEF Handed

LEMMA TurnsOne ==
  ASSUME NEW d, Turns(d)
  PROVE  OneMoves(d)
  BY DEF Turns, Quits, Advances

\* A step that leaves the memory alone and is not that of a report.
LEMMA SameMemory ==
  ASSUME NEW d \in Daemons, OneMoves(d), UNCHANGED failedIds, at[d] # "report"
  PROVE  Remembers(d)
  BY DEF Remembers, Reporting

LEMMA ErrorMemory ==
  ASSUME Placed, Processes, NEW d \in Daemons, at[d] \notin {"down", "idle", "report"},
         NEW kind, HandleError(d, kind)
  PROVE  Remembers(d)
<1>1. OneMoves(d)
  BY ErrorOutcome
<1>2. CASE UNCHANGED failedIds
  BY <1>1, <1>2, SameMemory
<1>3. CASE failedIds' = [failedIds EXCEPT ![d] = @ \cup {Job(d)}]
           /\ Goto(d, "report") /\ UNCHANGED batch
  <2>1. Advances(d, "report")
    BY <1>3, GotoMoves DEF Steps
  <2>3. /\ \A j \in failedIds'[d] : j \in failedIds[d] \/ j = Job(d)
        /\ \A e \in Daemons \ {d} : failedIds'[e] = failedIds[e]
    BY <1>3 DEF Processes
  <2>4. \A j : ~Reporting(d, j)
    BY DEF Reporting
  <2>6. ASSUME NEW j, j = Job(d)
        PROVE  Reporting(d, j)'
    BY <1>3, <2>1, <2>6 DEF Reporting, Advances, Job
  <2> QED
    BY <1>1, <2>3, <2>4, <2>6 DEF Remembers
<1> QED
  BY <1>2, <1>3 DEF HandleError

LEMMA DisturbanceMemory ==
  ASSUME Placed, Processes, NEW d \in Daemons, Disturbance(d)
  PROVE  Remembers(d) \/ UNCHANGED <<at, batch, failedIds>>
<1>1. CASE Stop(d)
  <2>1. /\ at' = [at EXCEPT ![d] = "down"] /\ batch' = [batch EXCEPT ![d] = <<>>]
        /\ failedIds' = [failedIds EXCEPT ![d] = {}] /\ <<>> \in Seq(Jobs)
    BY <1>1, EmptySeq DEF Stop, Goto
  <2> QED
    BY <2>1 DEF Placed, Processes, Remembers, OneMoves, Steps
<1>2. CASE ~Stop(d)
  BY <1>2 DEF Disturbance, TokenExpires, CmdExportKey, CmdInit, CmdImportKey, CoolsOff,
              process
<1> QED
  BY <1>1, <1>2

LEMMA CycleMemory ==
  ASSUME Placed, NEW d \in Daemons, Cycle(d)
  PROVE  Remembers(d) \/ UNCHANGED <<at, batch, failedIds>>
<1>1. CASE Start(d)
  <2>1. Advances(d, "idle") /\ UNCHANGED failedIds /\ at[d] = "down"
    BY <1>1, GotoMoves DEF Start, Steps
  <2> QED
    BY <2>1, SameMemory DEF Advances
<1>2. CASE PollJobs(d)
  <2>1. at[d] = "idle" /\ at'[d] = "job" /\ UNCHANGED failedIds
    BY <1>2 DEF PollJobs, Goto, process, Placed
  <2>2. OneMoves(d)
    BY <1>2, <2>1, CycleMoves, TurnsOne DEF Cycle, Quiet
  <2> QED
    BY <2>1, <2>2, SameMemory
<1>3. CASE RefreshToken(d) \/ Sleep(d)
  BY <1>3 DEF RefreshToken, Sleep, process, vars
<1> QED
  BY <1>1, <1>2, <1>3 DEF Cycle

LEMMA TakeMemory ==
  ASSUME Placed, Processes, NEW d \in Daemons, Take(d)
  PROVE  Remembers(d)
<1>1. OneMoves(d)
  BY TakeMoves, TurnsOne DEF Opens
<1>2. /\ at[d] = "job"
      /\ UNCHANGED failedIds \/ \E kind : HandleError(d, kind)
  BY DEF Take, SkipFailed, RefuseJob, UnwrapFails, OpenJob, Taken, process
<1> QED
  BY <1>1, <1>2, SameMemory, ErrorMemory

LEMMA SubmitMemory ==
  ASSUME Placed, NEW d \in Daemons, NEW j \in Jobs,
         SubmitLocally(d, j) \/ CmdSign(d, j)
  PROVE  Remembers(d)
<1>1. OneMoves(d) /\ at[d] # "report" /\ UNCHANGED failedIds
  BY SubmitMoves DEF Opens, SubmitLocally, CmdSign, Submitted, process
<1> QED
  BY <1>1, SameMemory

LEMMA SignMemory ==
  ASSUME Placed, Processes, NEW d \in Daemons, Sign(d)
  PROVE  Remembers(d)
<1>1. OneMoves(d)
  BY SignMoves, TurnsOne DEF Pays, Quits, Advances
<1>2. /\ at[d] \in {"build", "account", "request", "poll"}
      /\ UNCHANGED failedIds \/ \E kind : HandleError(d, kind)
  BY DEF Sign, Build, UnknownChain, BuildFails, ReadAccount, RequestAccepted,
         RequestRefused, RequestUnanswered, PollFails, PollsPending, PollsSignature,
         PollsFailure, Polling, PollGivesUp, process
<1> QED
  BY <1>1, <1>2, SameMemory, ErrorMemory

LEMMA TransferMemory ==
  ASSUME Inv, Typed, Handed, NEW d \in Daemons, Transfer(d)
  PROVE  Remembers(d)
<1>1. OneMoves(d)
  BY TransferMoves, TurnsOne DEF Inv, Lands, Quits, Advances
<1>2. ASSUME at[d] # "report", at[d] \notin {"down", "idle"},
             UNCHANGED failedIds \/ \E kind : HandleError(d, kind)
      PROVE  Remembers(d)
  BY <1>1, <1>2, SameMemory, ErrorMemory DEF Inv, Typed
<1>3. CASE ~(ReportFailed(d) \/ ReportLost(d))
  <2>1. /\ at[d] \in {"send", "notify"}
        /\ UNCHANGED failedIds \/ \E kind : HandleError(d, kind)
    BY <1>3 DEF Transfer, SendOk, Sendable, SendStale, Retry, SendUnverified, NonceRefused,
                SendFails, SendUnanswered, Notify, NotifyLost, CompleteJobFails, process
  <2> QED
    BY <1>2, <2>1
<1>4. CASE ReportFailed(d) \/ ReportLost(d)
  <2>1. at[d] = "report" /\ UNCHANGED failedIds
    BY <1>4 DEF ReportFailed, ReportLost, process
  <2>2. PICK i \in Jobs : i = Job(d) /\ status[i] \in Past
    BY <2>1, HandledJob DEF Inv, Handed
  <2>3. Reported(i)'
    <3>1. CASE Recorded(Job(d), "failed")
      BY <2>2, <3>1 DEF Recorded, Reported, Inv, Approved, Past
    <3>2. CASE Excused(Job(d), "failure_lost")
      BY <2>2, <3>2 DEF Excused, Reported, Typed, Leased
    <3> QED
      BY <1>4, <3>1, <3>2 DEF ReportFailed, ReportLost
  <2>4. \A j : Reporting(d, j) => j = i
    BY <2>2 DEF Reporting
  <2>5. \A j \in failedIds'[d] :
          (j \in failedIds[d] /\ ~Reporting(d, j)) \/ Reported(j)'
    BY <2>1, <2>3, <2>4
  <2> QED
    BY <1>1, <2>1, <2>5 DEF Remembers
<1> QED
  BY <1>3, <1>4

LEMMA ReportedStays ==
  ASSUME Placed, Approved, Leased, [Next]_vars, NEW j \in Jobs, Reported(j)
  PROVE  Reported(j)'
<1>1. excuse[j] \subseteq excuse'[j]
  BY ExcusesStay
<1>2. status[j] \in {"transmitted", "failed"} => status'[j] = status[j]
  BY StatusForward
<1> QED
  BY <1>1, <1>2 DEF Reported

LEMMA MemoryKept ==
  ASSUME Inv, Typed, Handed, RememberedReported, [Next]_vars
  PROVE  RememberedReported'
<1>1. \A e \in Daemons : \A j \in failedIds[e] :
        j \in Jobs /\ (Reported(j) \/ Reporting(e, j))
  BY DEF RememberedReported, Reported, Reporting, Typed, Processes
<1>2. \A j \in Jobs : Reported(j) => Reported(j)'
  BY ReportedStays DEF Inv, Typed
<1>3. SUFFICES \A e \in Daemons : \A j \in failedIds'[e] : Reported(j)' \/ Reporting(e, j)'
  BY DEF RememberedReported, Reported, Reporting
<1>4. CASE UNCHANGED <<at, batch, failedIds>>
  <2>1. \A e \in Daemons : \A j : Reporting(e, j)' = Reporting(e, j)
    BY <1>4 DEF Reporting, Job
  <2> QED
    BY <1>1, <1>2, <1>4, <2>1
<1>5. ASSUME NEW d \in Daemons, Remembers(d)
      PROVE  \A e \in Daemons : \A j \in failedIds'[e] : Reported(j)' \/ Reporting(e, j)'
  <2>1. \A e \in Daemons \ {d} : \A j : Reporting(e, j)' = Reporting(e, j)
    BY <1>5 DEF Remembers, OneMoves, Reporting, Job
  <2>2. \A e \in Daemons \ {d} : \A j \in failedIds'[e] : Reported(j)' \/ Reporting(e, j)'
    BY <1>1, <1>2, <1>5, <2>1 DEF Remembers
  <2>3. \A j \in failedIds'[d] : Reported(j)' \/ Reporting(d, j)'
    BY <1>1, <1>2, <1>5 DEF Remembers
  <2> QED
    BY <2>2, <2>3
<1>6. CASE ServerNext
  BY <1>4, <1>6 DEF ServerNext, Decide, ApproveByHand, LeaseLapses, LeaseOverrun,
     JobExpires, process
<1>7. ASSUME NEW d \in Daemons,
             \/ Disturbance(d) \/ Cycle(d) \/ Take(d) \/ Sign(d) \/ Transfer(d)
             \/ \E j \in Jobs : SubmitLocally(d, j) \/ CmdSign(d, j)
      PROVE  Remembers(d) \/ UNCHANGED <<at, batch, failedIds>>
  BY <1>7, DisturbanceMemory, CycleMemory, TakeMemory, SignMemory, TransferMemory,
     SubmitMemory DEF Inv, Typed
<1>8. CASE UNCHANGED vars
  BY <1>4, <1>8 DEF vars, process
<1> QED
  BY <1>4, <1>5, <1>6, <1>7, <1>8 DEF Next

\* RememberedReported: what run_http_daemon puts in failed_tx_ids is
\* reported next, and no outcome the server has is taken back, whoever else
\* signs the job.
THEOREM MemoryReported == Spec => []RememberedReported
<1>1. Init => Inv /\ Typed /\ Handed /\ RememberedReported
  <2>1. ASSUME Init
        PROVE  Handed /\ RememberedReported
    BY <2>1, EmptySeq DEF Init, Handed, RememberedReported
  <2> QED
    BY <2>1, InitInv, InitTyped
<1>2. Inv /\ Typed /\ Handed /\ RememberedReported /\ [Next]_vars
        => Handed' /\ RememberedReported'
  BY HandedKept, MemoryKept DEF Inv
<1> QED
  BY <1>1, <1>2, Invariance, TypedAlways, PTL DEF Spec
=============================================================================
