---------------------------- MODULE SignerDaemon ----------------------------
(***************************************************************************)
(* The external signers (rust-signer-external): daemons that poll the      *)
(* wallet server for signing jobs over HTTP or gRPC, and local proxies     *)
(* that an agent submits a transaction through.  Both open the subkey of   *)
(* the job, pay for a signing request to the NEAR contract, poll for its   *)
(* result, broadcast the transfer and report to the server.                *)
(*                                                                         *)
(* External, and modelled by what the signers see of them: the server with *)
(* its leases, the NEAR contract (one charge and one answer for a request  *)
(* it accepts) and the chain the transfer goes to.  A server keeps the     *)
(* first outcome reported for a job and offers every queued job that has   *)
(* no lease; a lease lapses at some later moment, even while its holder is *)
(* still working.  What goes wrong is bounded by faults.                   *)
(***************************************************************************)
EXTENDS RpcPool, ApprovalPolicy

CONSTANTS
  Daemons,     \* the processes, daemons and local proxies
  Jobs,        \* the transactions
  Identities,  \* identity keys that subkeys are wrapped for
  MaxRetries,  \* further Solana attempts, 2 in the code
  MaxSubmits,  \* bound on how often an agent submits a transaction
  Scenarios    \* what is submitted, to whom, and what may go wrong

\* A proxy stays for further requests; the command "sign" serves one.
Modes == {"http", "grpc", "local", "once"}
Proxies == {"local", "once"}

\* The path the job asks for and the one its public key belongs to; whether
\* the EVM nonce and fees come with the job; who it is submitted through.
Transactions ==
  [chain : {"solana", "evm", "unknown"}, path : {"0", "deep"},
   keyPath : {"0", "deep"}, given : BOOLEAN, wrap : Identities,
   readable : BOOLEAN, agent : BOOLEAN]

Faults == {"rpc",      \* failing calls to NEAR endpoints
           "error",    \* definite errors of a service or a chain
           "loss",     \* answers that are lost after the effect, or before
           "stale",    \* Solana blockhashes that expire
           "overrun",  \* leases that lapse while their holder works
           "stop",     \* daemons that are stopped or killed
           "token",    \* session tokens that expire
           "expiry",   \* jobs that expire
           "key"}      \* identity keys that are replaced

\* A draft is a transaction that has not been submitted.
Statuses == {"draft", "submitted", "waiting", "queued", "transmitted", "failed"}

\* Where a process is: between two cycles, before the next job of a batch,
\* and at the calls of the signing pipeline.
Steps == {"down", "idle", "job", "build", "account", "request", "poll",
          "send", "notify", "report"}

\* Where a key file may be: at the path the commands use, or at the one of
\* config.signer_ec_key_path.
Places == {"default", "custom"}

\* Why a transfer may have been made twice, or be unknown to the server.
\* A failure whose report is lost excuses nothing but that it is not settled.
Excuses == {"unanswered", "report_lost", "overrun", "stopped", "failure_lost"}

VARIABLES
  mode, tx, request,   \* chosen in the beginning
  faults,              \* fault -> how often it may still happen
  status, lease, expired,     \* the server's view of a job
  place, device,       \* process -> where it loads its identity from, and
                       \* the identity of a second backend
  keyFile, bundles,    \* process -> its key files; identities exported
  at, batch,           \* process -> its step and the jobs it has been given
  loaded, token, failedIds,   \* process -> what it keeps while it runs
  health,              \* process -> its RPC_HEALTH
  path, fallback, attempt, poll,  \* process -> the signing under way
  opened, charged, landed, excuse, byHand
  \* auxiliary: how often a signer has begun a job, requests the contract
  \* has charged, transfers on the chain, and what explains a second one

server == <<status, lease, expired>>
host == <<mode, tx, request, place, device, keyFile, bundles>>
process == <<loaded, token, failedIds>>
signing == <<path, fallback, attempt, poll>>
ledger == <<opened, charged, landed, excuse, byHand>>
vars == <<host, faults, server, at, batch, process, health, signing, ledger>>

TypeOK ==
  /\ mode \in [Daemons -> Modes]
  /\ tx \in [Jobs -> Transactions]
  /\ \A j \in Jobs : IsRequest(request[j])
  /\ faults \in [Faults -> Nat]
  /\ status \in [Jobs -> Statuses]
  /\ lease \in [Jobs -> Daemons \cup {None}]
  /\ expired \in [Jobs -> BOOLEAN]
  /\ place \in [Daemons -> Places]
  /\ device \in [Daemons -> Identities \cup {None}]
  /\ keyFile \in [Daemons -> [Places -> Identities \cup {None}]]
  /\ bundles \subseteq Identities
  /\ at \in [Daemons -> Steps]
  /\ batch \in [Daemons -> Seq(Jobs)]
  /\ loaded \in [Daemons -> SUBSET Identities]
  /\ token \in [Daemons -> BOOLEAN]
  /\ failedIds \in [Daemons -> SUBSET Jobs]
  /\ health \in [Daemons -> [Rpcs -> Health]]
  /\ path \in [Daemons -> {"0", "deep"}]
  /\ fallback \in [Daemons -> BOOLEAN]
  /\ attempt \in [Daemons -> 0 .. MaxRetries]
  /\ poll \in [Daemons -> Polls \cup {None}]
  /\ opened \in [Jobs -> Nat] /\ charged \in [Jobs -> Nat]
  /\ landed \in [Jobs -> Nat]
  /\ excuse \in [Jobs -> SUBSET Excuses]
  /\ byHand \in [Jobs -> BOOLEAN]

ASSUME DaemonAssumption ==
  /\ IsFiniteSet(Daemons) /\ IsFiniteSet(Jobs)
  /\ None \notin Daemons
  /\ MaxRetries \in Nat
  /\ \A s \in Scenarios :
       /\ s.mode \in [Daemons -> Modes]
       /\ s.tx \in [Jobs -> Transactions]
       /\ \A j \in Jobs : IsRequest(s.request[j])
       /\ s.faults \in [Faults -> Nat]
       /\ s.place \in [Daemons -> Places]
       /\ s.device \in [Daemons -> Identities \cup {None}]
       /\ s.keyFile \in [Daemons -> [Places -> Identities \cup {None}]]

Init ==
  /\ \E s \in Scenarios :
       /\ mode = s.mode /\ tx = s.tx /\ request = s.request
       /\ faults = s.faults /\ place = s.place /\ device = s.device
       /\ keyFile = s.keyFile
       /\ status = [j \in Jobs |->
            IF j \in s.submitted THEN "submitted" ELSE "draft"]
  /\ bundles = {}
  /\ lease = [j \in Jobs |-> None]
  /\ expired = [j \in Jobs |-> FALSE]
  /\ at = [d \in Daemons |-> "down"]
  /\ batch = [d \in Daemons |-> <<>>]
  /\ loaded = [d \in Daemons |-> {}]
  /\ token = [d \in Daemons |-> FALSE]
  /\ failedIds = [d \in Daemons |-> {}]
  /\ health = [d \in Daemons |-> AllHealthy]
  /\ path = [d \in Daemons |-> "0"]
  /\ fallback = [d \in Daemons |-> FALSE]
  /\ attempt = [d \in Daemons |-> 0]
  /\ poll = [d \in Daemons |-> None]
  /\ opened = [j \in Jobs |-> 0]
  /\ charged = [j \in Jobs |-> 0]
  /\ landed = [j \in Jobs |-> 0]
  /\ excuse = [j \in Jobs |-> {}]
  /\ byHand = [j \in Jobs |-> FALSE]

---------------------------------------------------------------------------
(* Helpers.                                                                *)

Happens(fault) ==
  /\ faults[fault] > 0
  /\ faults' = [faults EXCEPT ![fault] = @ - 1]

Job(d) == Head(batch[d])
Handling(d) == at[d] \notin {"down", "idle", "job"}
Goto(d, step) == at' = [at EXCEPT ![d] = step]
Counted(count, j) == [count EXCEPT ![j] = @ + 1]
Excused(j, why) == excuse' = [excuse EXCEPT ![j] = @ \cup {why}]

\* The locals of the pipeline go with the job.
Forget(d) ==
  /\ path' = [path EXCEPT ![d] = "0"]
  /\ fallback' = [fallback EXCEPT ![d] = FALSE]
  /\ attempt' = [attempt EXCEPT ![d] = 0]
  /\ poll' = [poll EXCEPT ![d] = None]

\* On to the next job of the batch, or to the next cycle.
Leave(d) ==
  /\ batch' = [batch EXCEPT ![d] = Tail(@)]
  /\ Goto(d, IF Len(batch[d]) > 1 THEN "job"
             ELSE IF mode[d] = "once" THEN "down" ELSE "idle")
  /\ Forget(d)

\* Slip: an HTTP daemon remembers a job before it classifies the error.
HandleErrorRemembered(d, kind) ==
  /\ failedIds' = [failedIds EXCEPT ![d] = @ \cup {Job(d)}]
  /\ \/ mode[d] = "http" /\ kind # "permanent" /\ Leave(d)
     \/ /\ mode[d] = "http" => kind = "permanent"
        /\ Goto(d, "report")
        /\ Forget(d)
        /\ UNCHANGED batch

\* An HTTP daemon reads the kind of an error off its text: it leaves an
\* unwrapping error and a transient one to the lease, remembers any other
\* and reports it.  The gRPC daemon reports every error, and the local
\* proxy answers the agent.
HandleError(d, kind) ==
  \/ /\ mode[d] \in Proxies \/ (mode[d] = "http" /\ kind # "permanent")
     /\ Leave(d)
     /\ UNCHANGED failedIds
  \/ /\ mode[d] = "grpc"
     /\ Goto(d, "report")
     /\ Forget(d)
     /\ UNCHANGED <<batch, failedIds>>
  \/ /\ mode[d] = "http" /\ kind = "permanent"
     /\ failedIds' = [failedIds EXCEPT ![d] = @ \cup {Job(d)}]
     /\ Goto(d, "report")
     /\ Forget(d)
     /\ UNCHANGED batch

\* Any text may say "timeout", "429" or the like.
ErrorKinds == {"transient", "permanent"}

\* The server keeps the first outcome.
Recorded(j, outcome) ==
  status' = [status EXCEPT ![j] = IF @ = "queued" THEN outcome ELSE @]

---------------------------------------------------------------------------
(* The server.                                                             *)

\* Eligible transactions are queued, the others wait for the wallet.
Decide(j) ==
  /\ status[j] = "submitted"
  /\ status' = [status EXCEPT ![j] =
                  IF Eligible(request[j]) THEN "queued" ELSE "waiting"]
  /\ UNCHANGED <<host, faults, lease, expired, at, batch, process, health,
                 signing, ledger>>

ApproveByHand(j) ==
  /\ status[j] = "waiting"
  /\ status' = [status EXCEPT ![j] = "queued"]
  /\ byHand' = [byHand EXCEPT ![j] = TRUE]
  /\ UNCHANGED <<host, faults, lease, expired, at, batch, process, health,
                 signing, opened, charged, landed, excuse>>

Offered == {j \in Jobs : ~tx[j].agent /\ status[j] = "queued" /\ lease[j] = None}

Held(j) == \E d \in Daemons : lease[j] = d /\ \E n \in DOMAIN batch[d] : batch[d][n] = j

LeaseLapses(j) ==
  /\ lease[j] # None /\ ~Held(j)
  /\ lease' = [lease EXCEPT ![j] = None]
  /\ UNCHANGED <<host, faults, status, expired, at, batch, process, health,
                 signing, ledger>>

LeaseOverrun(j) ==
  /\ lease[j] # None /\ Held(j)
  /\ Happens("overrun")
  /\ lease' = [lease EXCEPT ![j] = None]
  /\ Excused(j, "overrun")
  /\ UNCHANGED <<host, status, expired, at, batch, process, health, signing,
                 opened, charged, landed, byHand>>

JobExpires(j) ==
  /\ ~expired[j] /\ Happens("expiry")
  /\ expired' = [expired EXCEPT ![j] = TRUE]
  /\ UNCHANGED <<host, status, lease, at, batch, process, health, signing,
                 ledger>>

TokenExpires(d) ==
  /\ token[d] /\ Happens("token")
  /\ token' = [token EXCEPT ![d] = FALSE]
  /\ UNCHANGED <<host, server, at, batch, loaded, failedIds, health, signing,
                 ledger>>

---------------------------------------------------------------------------
(* A process: start and stop, identity key, polling.                       *)

\* The identities a process loads: an HTTP daemon opens every backend there
\* is, a gRPC daemon one, and a proxy decrypts with a passphrase.
OwnIdentities(d) ==
  CASE mode[d] = "http" -> {keyFile[d][place[d]], device[d]} \ {None}
    [] mode[d] = "grpc" -> {keyFile[d][place[d]]} \ {None}
    [] mode[d] \in Proxies -> {}

\* A daemon that cannot load an identity exits.  A proxy that no agent uses
\* stays down.
Runs(d) ==
  CASE mode[d] = "local" -> \E j \in Jobs : tx[j].agent
    [] mode[d] = "once" -> FALSE
    [] OTHER -> OwnIdentities(d) # {}

\* A daemon loads its identities and authenticates.
Start(d) ==
  /\ at[d] = "down" /\ Runs(d)
  /\ Goto(d, "idle")
  /\ loaded' = [loaded EXCEPT ![d] = OwnIdentities(d)]
  /\ token' = [token EXCEPT ![d] = (mode[d] = "http")]
  /\ UNCHANGED <<host, faults, server, batch, failedIds, health, signing,
                 ledger>>

\* Ctrl-C between two cycles, or the end of the process at any other step.
\* So is a call that never returns: few clients here have a timeout, and a
\* process that hangs does nothing until it is killed and started again.  One
\* that hangs after the effect of its call takes the step, then this one.
Stop(d) ==
  /\ at[d] # "down" /\ Happens("stop")
  /\ Goto(d, "down")
  /\ batch' = [batch EXCEPT ![d] = <<>>]
  /\ loaded' = [loaded EXCEPT ![d] = {}]
  /\ token' = [token EXCEPT ![d] = FALSE]
  /\ failedIds' = [failedIds EXCEPT ![d] = {}]
  /\ health' = [health EXCEPT ![d] = AllHealthy]
  /\ Forget(d)
  /\ IF at[d] = "notify" THEN Excused(Job(d), "stopped")
                         ELSE UNCHANGED excuse
  /\ UNCHANGED <<host, server, opened, charged, landed, byHand>>

\* A key file is written at the default path, wherever the daemon loads its
\* own from, and a running daemon keeps what it has loaded.
Written(d, identity) ==
  keyFile' = [keyFile EXCEPT ![d]["default"] = identity]

\* init, with --force over an existing key.
CmdInit(d, identity) ==
  /\ mode[d] \notin Proxies /\ Happens("key")
  /\ identity \notin bundles
  /\ \A e \in Daemons :
       identity # device[e] /\ \A p \in Places : identity # keyFile[e][p]
  /\ Written(d, identity)
  /\ UNCHANGED <<mode, tx, request, place, device, bundles, server, at, batch,
                 process, health, signing, ledger>>

\* export-key and, with --force, import-key.
CmdExportKey(d) ==
  /\ faults["key"] > 0
  /\ keyFile[d]["default"] \notin bundles \cup {None}
  /\ bundles' = bundles \cup {keyFile[d]["default"]}
  /\ UNCHANGED <<mode, tx, request, place, device, keyFile, faults, server, at,
                 batch, process, health, signing, ledger>>

CmdImportKey(d, identity) ==
  /\ mode[d] \notin Proxies /\ Happens("key")
  /\ identity \in bundles \ {keyFile[d]["default"]}
  /\ Written(d, identity)
  /\ UNCHANGED <<mode, tx, request, place, device, bundles, server, at, batch,
                 process, health, signing, ledger>>

CoolsOff(d, rpc) ==
  /\ health[d][rpc].cooling
  /\ health' = [health EXCEPT ![d] = CoolOff(@, rpc)]
  /\ UNCHANGED <<host, faults, server, at, batch, process, signing, ledger>>

Orders(jobs) ==
  LET n == Cardinality(jobs)
  IN {order \in [1 .. n -> jobs] :
        \A i, k \in 1 .. n : order[i] = order[k] => i = k}

\* What is offered comes with a lease.
PollJobs(d) ==
  /\ at[d] = "idle" /\ Offered # {}
  /\ mode[d] = "grpc" \/ (mode[d] = "http" /\ token[d])
  /\ \E order \in Orders(Offered) : batch' = [batch EXCEPT ![d] = order]
  /\ lease' = [j \in Jobs |-> IF j \in Offered THEN d ELSE lease[j]]
  /\ Goto(d, "job")
  /\ UNCHANGED <<host, faults, status, expired, process, health, signing,
                 ledger>>

\* Nothing is offered, or the poll fails: the daemon sleeps.
Sleep(d) ==
  /\ at[d] = "idle"
  /\ UNCHANGED vars

\* The poll is answered with 401.
RefreshToken(d) ==
  /\ at[d] = "idle" /\ mode[d] = "http" /\ ~token[d]
  /\ token' = [token EXCEPT ![d] = TRUE]
  /\ UNCHANGED <<host, faults, server, at, batch, loaded, failedIds, health,
                 signing, ledger>>

---------------------------------------------------------------------------
(* The next job of a batch.                                                *)

Taken(d) == at[d] = "job" /\ Job(d) \notin failedIds[d]
Refusable(j) == expired[j] \/ ~tx[j].readable

\* Only HTTP daemons remember jobs that failed.
SkipFailed(d) ==
  /\ at[d] = "job" /\ Job(d) \in failedIds[d]
  /\ Leave(d)
  /\ UNCHANGED <<host, faults, server, process, health, ledger>>

RefuseJob(d) ==
  /\ Taken(d) /\ Refusable(Job(d))
  /\ \E kind \in ErrorKinds : HandleError(d, kind)
  /\ UNCHANGED <<host, faults, server, loaded, token, health, ledger>>

\* The subkey is wrapped for none of the identities that are loaded.
UnwrapFails(d) ==
  /\ Taken(d) /\ ~Refusable(Job(d)) /\ tx[Job(d)].wrap \notin loaded[d]
  /\ HandleError(d, "unwrap")
  /\ UNCHANGED <<host, faults, server, loaded, token, health, ledger>>

Begin(d, j) ==
  /\ path' = [path EXCEPT ![d] = tx[j].path]
  /\ fallback' = [fallback EXCEPT ![d] = tx[j].path # "0"]
  /\ opened' = Counted(opened, j)
  /\ Goto(d, "build")
  /\ UNCHANGED <<attempt, poll, charged, landed, excuse, byHand>>

OpenJob(d) ==
  /\ Taken(d) /\ ~Refusable(Job(d)) /\ tx[Job(d)].wrap \in loaded[d]
  /\ Begin(d, Job(d))
  /\ UNCHANGED <<host, faults, server, batch, process, health>>

\* A submission is signed if the server still calls it ready and the
\* passphrase opens the subkey; otherwise it changes nothing.
ReadyForExternalSigning(j) == tx[j].agent /\ status[j] = "queued"

\* The agent waits for an answer before it submits a transaction again.
Submitted(d, j) ==
  /\ ReadyForExternalSigning(j) /\ opened[j] < MaxSubmits
  /\ ~\E e \in Daemons : Handling(e) /\ Job(e) = j
  /\ batch' = [batch EXCEPT ![d] = <<j>>]
  /\ Begin(d, j)
  /\ UNCHANGED <<host, faults, server, process>>

SubmitLocally(d, j) ==
  /\ mode[d] = "local" /\ at[d] = "idle"
  /\ Submitted(d, j)
  /\ UNCHANGED health

\* The command "sign" is a process of its own each time.
CmdSign(d, j) ==
  /\ mode[d] = "once" /\ at[d] = "down"
  /\ Submitted(d, j)
  /\ health' = [health EXCEPT ![d] = AllHealthy]

---------------------------------------------------------------------------
(* The signing pipeline.                                                   *)

Solana(d) == tx[Job(d)].chain = "solana"

Build(d) ==
  /\ at[d] = "build" /\ tx[Job(d)].chain # "unknown"
  /\ Goto(d, "account")
  /\ UNCHANGED <<host, faults, server, batch, process, health, signing, ledger>>

UnknownChain(d) ==
  /\ at[d] = "build" /\ tx[Job(d)].chain = "unknown"
  /\ HandleError(d, "permanent")
  /\ UNCHANGED <<host, faults, server, loaded, token, health, ledger>>

\* Only Solana needs an answer to build; EVM has defaults.
BuildFails(d) ==
  /\ at[d] = "build" /\ Solana(d) /\ Happens("error")
  /\ \E kind \in ErrorKinds : HandleError(d, kind)
  /\ UNCHANGED <<host, server, loaded, token, health, ledger>>

\* What the endpoints answer before one of them answers, or none does.
RpcFailures ==
  UNION {[1 .. n -> RpcErrors] : n \in 0 .. Lower(RpcCount, faults["rpc"])}

Tried(d, errors) ==
  health' = [health EXCEPT ![d] = Called(@, errors)]

Spent(errors, others) ==
  faults' = [f \in Faults |-> faults[f] - (IF f = "rpc" THEN Len(errors) ELSE 0)
                                        - (IF f \in others THEN 1 ELSE 0)]

\* get_access_key_info, for the nonce of the request.
ReadAccount(d) ==
  /\ at[d] = "account"
  /\ \E errors \in RpcFailures :
       /\ Tried(d, errors) /\ Spent(errors, {})
       /\ IF AllFail(errors)
          THEN \E kind \in ErrorKinds : HandleError(d, kind)
          ELSE Goto(d, "request") /\ UNCHANGED <<batch, failedIds, signing>>
  /\ UNCHANGED <<host, server, loaded, token, ledger>>

\* The same signed request goes to every endpoint, so that it is charged
\* once at most; the candidates of the polling are ranked afterwards.
RequestAccepted(d) ==
  /\ at[d] = "request"
  /\ \E errors \in RpcFailures :
       /\ ~AllFail(errors)
       /\ Tried(d, errors) /\ Spent(errors, {})
       /\ poll' = [poll EXCEPT ![d] = PollStart(Called(health[d], errors))]
  /\ charged' = Counted(charged, Job(d))
  /\ Goto(d, "poll")
  /\ UNCHANGED <<host, server, batch, process, path, fallback, attempt,
                 opened, landed, excuse, byHand>>

\* The contract refuses the request, or no endpoint takes it.
RequestRefused(d) ==
  /\ at[d] = "request"
  /\ \E errors \in RpcFailures :
       /\ AllFail(errors) \/ faults["error"] > 0
       /\ Tried(d, errors)
       /\ Spent(errors, IF AllFail(errors) THEN {} ELSE {"error"})
  /\ \E kind \in ErrorKinds : HandleError(d, kind)
  /\ UNCHANGED <<host, server, loaded, token, ledger>>

\* The request is accepted and every endpoint fails to say so.
RequestUnanswered(d) ==
  /\ at[d] = "request" /\ faults["loss"] > 0
  /\ \E errors \in RpcFailures :
       AllFail(errors) /\ Tried(d, errors) /\ Spent(errors, {"loss"})
  /\ charged' = Counted(charged, Job(d))
  /\ \E kind \in ErrorKinds : HandleError(d, kind)
  /\ UNCHANGED <<host, server, loaded, token, opened, landed, excuse, byHand>>

Polling(d) == at[d] = "poll" /\ ~Exhausted(poll[d])

PollFails(d, error) ==
  /\ Polling(d) /\ Happens("rpc")
  /\ poll' = [poll EXCEPT ![d] = PollError(@, error)]
  /\ health' = [health EXCEPT ![d] = MarkFailure(@, Polled(poll[d]), error)]
  /\ UNCHANGED <<host, server, at, batch, process, path, fallback, attempt,
                 ledger>>

PolledOk(d) ==
  health' = [health EXCEPT ![d] = MarkSuccess(@, Polled(poll[d]))]

\* The contract answers at any time, with a signature or a failure, and an
\* endpoint may be behind the one that runs the contract.
PollsPending(d) ==
  /\ Polling(d) /\ PolledOk(d)
  /\ poll' = [poll EXCEPT ![d] = PollPending(@)]
  /\ UNCHANGED <<host, faults, server, at, batch, process, path, fallback,
                 attempt, ledger>>

PollsSignature(d) ==
  /\ Polling(d) /\ PolledOk(d)
  /\ Goto(d, "send")
  /\ UNCHANGED <<host, faults, server, batch, process, signing, ledger>>

PollsFailure(d) ==
  /\ Polling(d) /\ PolledOk(d) /\ Happens("error")
  /\ \E kind \in ErrorKinds : HandleError(d, kind)
  /\ UNCHANGED <<host, server, loaded, token, ledger>>

\* "MPC signing timed out", with the text of the last error.
PollGivesUp(d) ==
  /\ at[d] = "poll" /\ Exhausted(poll[d])
  /\ \E kind \in (IF poll[d].erred THEN ErrorKinds ELSE {"permanent"}) :
       HandleError(d, kind)
  /\ UNCHANGED <<host, faults, server, loaded, token, health, ledger>>

---------------------------------------------------------------------------
(* Broadcasting the transfer.                                              *)

\* The signature is by the key of the path that was asked for.
Verifies(d) == path[d] = tx[Job(d)].keyPath

\* An EVM account takes a nonce once, and the one that comes with a job is
\* used each time the job is signed; a Solana retry is another transaction.
NonceSpent(j) == tx[j].chain = "evm" /\ tx[j].given /\ landed[j] > 0

Sendable(d) == at[d] = "send" /\ Verifies(d) /\ ~NonceSpent(Job(d))

\* Slip: the attempt is not counted.
RetryUncounted(d) ==
  /\ Goto(d, "build")
  /\ poll' = [poll EXCEPT ![d] = None]
  /\ UNCHANGED <<attempt, batch, failedIds>>

\* Another attempt asks for a signature of its own; after the last one the
\* loop ends with an error.
Retry(d) ==
  /\ attempt[d] < MaxRetries
  /\ attempt' = [attempt EXCEPT ![d] = @ + 1]
  /\ Goto(d, "build")
  /\ poll' = [poll EXCEPT ![d] = None]
  /\ UNCHANGED <<batch, failedIds>>

SendOk(d) ==
  /\ Sendable(d)
  /\ landed' = Counted(landed, Job(d))
  /\ Goto(d, "notify")
  /\ UNCHANGED <<host, faults, server, batch, process, health, signing,
                 opened, charged, excuse, byHand>>

\* Slip: after the last expired attempt the loop ends as if it had sent.
SendStaleTaken(d) ==
  /\ at[d] = "send" /\ Solana(d) /\ Happens("stale")
  /\ \/ Retry(d) /\ UNCHANGED <<path, fallback>>
     \/ /\ attempt[d] = MaxRetries
        /\ Goto(d, "notify")
        /\ UNCHANGED <<batch, failedIds, signing>>
  /\ UNCHANGED <<host, server, loaded, token, health, ledger>>

\* The blockhash is no longer known: the message is built anew.
SendStale(d) ==
  /\ at[d] = "send" /\ Solana(d) /\ Happens("stale")
  /\ \/ Retry(d) /\ UNCHANGED <<path, fallback>>
     \/ /\ attempt[d] = MaxRetries
        /\ \E kind \in ErrorKinds : HandleError(d, kind)
  /\ UNCHANGED <<host, server, loaded, token, health, ledger>>

\* The signature does not verify: path 0 is tried once, if an attempt is
\* left.  An EVM transaction comes from another account and is refused.
SendUnverified(d) ==
  /\ at[d] = "send" /\ ~Verifies(d)
  /\ \/ /\ Solana(d) /\ fallback[d] /\ Retry(d)
        /\ path' = [path EXCEPT ![d] = "0"]
        /\ fallback' = [fallback EXCEPT ![d] = FALSE]
     \/ /\ ~Solana(d) \/ ~fallback[d] \/ attempt[d] = MaxRetries
        /\ HandleError(d, "permanent")
  /\ UNCHANGED <<host, faults, server, loaded, token, health, ledger>>

NonceRefused(d) ==
  /\ at[d] = "send" /\ Verifies(d) /\ NonceSpent(Job(d))
  /\ HandleError(d, "permanent")
  /\ UNCHANGED <<host, faults, server, loaded, token, health, ledger>>

SendFails(d) ==
  /\ at[d] = "send" /\ Happens("error")
  /\ \E kind \in ErrorKinds : HandleError(d, kind)
  /\ UNCHANGED <<host, server, loaded, token, health, ledger>>

\* Slip: an unanswered broadcast is tried again.
SendUnansweredRetried(d) ==
  /\ Sendable(d) /\ Happens("loss")
  /\ landed' = Counted(landed, Job(d))
  /\ Excused(Job(d), "unanswered")
  /\ Retry(d)
  /\ UNCHANGED <<host, server, loaded, token, health, path, fallback, opened,
                 charged, byHand>>

\* The node takes the transfer and its answer is lost.
SendUnanswered(d) ==
  /\ Sendable(d) /\ Happens("loss")
  /\ landed' = Counted(landed, Job(d))
  /\ Excused(Job(d), "unanswered")
  /\ \E kind \in ErrorKinds : HandleError(d, kind)
  /\ UNCHANGED <<host, server, loaded, token, health, opened, charged, byHand>>

---------------------------------------------------------------------------
(* Reporting.                                                              *)

\* Slip: the pipeline ends without a report.
NotifyForgotten(d) ==
  /\ at[d] = "notify"
  /\ Leave(d)
  /\ UNCHANGED <<host, faults, server, process, health, ledger>>

Notify(d) ==
  /\ at[d] = "notify"
  /\ mode[d] = "http" => token[d]
  /\ Recorded(Job(d), "transmitted")
  /\ Leave(d)
  /\ UNCHANGED <<host, faults, lease, expired, process, health, ledger>>

\* A REST report that fails is logged only; one whose token has expired
\* fails by itself.
NotifyLost(d) ==
  /\ at[d] = "notify" /\ mode[d] # "grpc"
  /\ IF mode[d] = "http" /\ ~token[d] THEN UNCHANGED faults
     ELSE Happens("loss")
  /\ Excused(Job(d), "report_lost")
  /\ Leave(d)
  /\ UNCHANGED <<host, server, process, health, opened, charged, landed, byHand>>

\* A CompleteJob call that fails makes the job a failed one, whether the
\* server has received it or not.
CompleteJobFails(d) ==
  /\ at[d] = "notify" /\ mode[d] = "grpc" /\ Happens("loss")
  /\ Recorded(Job(d), "transmitted") \/ UNCHANGED status
  /\ Excused(Job(d), "report_lost")
  /\ HandleError(d, "permanent")
  /\ UNCHANGED <<host, lease, expired, loaded, token, health, opened, charged,
                 landed, byHand>>

ReportFailed(d) ==
  /\ at[d] = "report"
  /\ mode[d] = "http" => token[d]
  /\ Recorded(Job(d), "failed")
  /\ Leave(d)
  /\ UNCHANGED <<host, faults, lease, expired, process, health, ledger>>

\* Whatever comes of the report of a failure is ignored.
ReportLost(d) ==
  /\ at[d] = "report"
  /\ IF mode[d] = "http" /\ ~token[d] THEN UNCHANGED faults
     ELSE Happens("loss")
  /\ Excused(Job(d), "failure_lost")
  /\ Leave(d)
  /\ UNCHANGED <<host, server, process, health, opened, charged, landed, byHand>>

---------------------------------------------------------------------------
(* The specification.                                                      *)

ServerNext ==
  \E j \in Jobs :
    \/ Decide(j)
    \/ ApproveByHand(j)
    \/ LeaseLapses(j)
    \/ LeaseOverrun(j)
    \/ JobExpires(j)

Disturbance(d) ==
  \/ Stop(d)
  \/ TokenExpires(d)
  \/ CmdExportKey(d)
  \/ \E identity \in Identities : CmdInit(d, identity) \/ CmdImportKey(d, identity)
  \/ \E rpc \in Rpcs : CoolsOff(d, rpc)

Cycle(d) ==
  \/ Start(d)
  \/ PollJobs(d)
  \/ RefreshToken(d)
  \/ Sleep(d)

Take(d) ==
  \/ SkipFailed(d)
  \/ RefuseJob(d)
  \/ UnwrapFails(d)
  \/ OpenJob(d)

Sign(d) ==
  \/ Build(d)
  \/ UnknownChain(d)
  \/ BuildFails(d)
  \/ ReadAccount(d)
  \/ RequestAccepted(d)
  \/ RequestRefused(d)
  \/ RequestUnanswered(d)
  \/ \E error \in RpcErrors \ {"reused"} : PollFails(d, error)
  \/ PollsPending(d)
  \/ PollsSignature(d)
  \/ PollsFailure(d)
  \/ PollGivesUp(d)

Transfer(d) ==
  \/ SendOk(d)
  \/ SendStale(d)
  \/ SendUnverified(d)
  \/ NonceRefused(d)
  \/ SendFails(d)
  \/ SendUnanswered(d)
  \/ Notify(d)
  \/ NotifyLost(d)
  \/ CompleteJobFails(d)
  \/ ReportFailed(d)
  \/ ReportLost(d)

Next ==
  \/ ServerNext
  \/ \E d \in Daemons :
       \/ Disturbance(d)
       \/ Cycle(d)
       \/ Take(d)
       \/ Sign(d)
       \/ Transfer(d)
       \/ \E j \in Jobs : SubmitLocally(d, j) \/ CmdSign(d, j)

\* A process that runs goes on, unless a call hangs (Stop), and a lease that
\* nobody works under lapses.  Nothing starts a process again: the service is
\* optional, and none is installed unless the user asks for it.
Fairness ==
  /\ \A d \in Daemons :
       WF_vars(at[d] # "down" /\ (Cycle(d) \/ Take(d) \/ Sign(d) \/ Transfer(d)))
  /\ \A j \in Jobs : WF_vars(LeaseLapses(j))

Spec == Init /\ [][Next]_vars /\ Fairness

---------------------------------------------------------------------------
(* Properties.                                                             *)

\* Every time a signer takes up a job it makes one transfer at most: what
\* the retry loop of sign_and_broadcast_solana repeats has not been sent.
OneTransferPerOpening == \A j \in Jobs : landed[j] <= opened[j]

\* It asks the contract for one signature per attempt, whatever fails.
ChargesPerOpening ==
  \A j \in Jobs : charged[j] <= (MaxRetries + 1) * opened[j]

\* A second transfer, or one that the server records as failed, goes back to
\* a lost answer or report, a lease that lapsed under its holder or a
\* process that ended between the transfer and its report.
TransfersExplained ==
  \A j \in Jobs :
    landed[j] > 1 \/ (landed[j] > 0 /\ status[j] = "failed")
      => excuse[j] \ {"failure_lost"} # {}

\* A job that a daemon remembers, and so never signs again while it runs, has
\* an outcome at the server, is about to be reported failed by that daemon,
\* or the report of its failure was lost.
RememberedReported ==
  \A d \in Daemons : \A j \in failedIds[d] :
    \/ status[j] \in {"transmitted", "failed"}
    \/ at[d] = "report" /\ Job(d) = j
    \/ "failure_lost" \in excuse[j]

\* poll_sign_result gives up only when every endpoint has been asked, unless
\* one answered with an error that keeps the loop where it is.
EveryEndpointAsked ==
  \A d \in Daemons :
    at[d] = "poll" /\ Exhausted(poll[d]) /\ ~poll[d].stuck
      => poll[d].asked = Rpcs

\* What a rule sets against a request: its dollar limit if there is a dollar
\* amount; else its native limit, or without one the limit of its quote, if
\* there is a native amount and the limit is not zero.
LimitSet(rule, r) ==
  IF rule.maxUsd # None /\ r.usd # None THEN <<r.usd, rule.maxUsd>>
  ELSE LET native == IF rule.maxNative = None THEN rule.derived ELSE rule.maxNative
       IN IF native \in {None, 0} \/ r.amount = None THEN None
          ELSE <<r.amount, native>>

\* A transaction that is signed without an approval in the wallet does not
\* exceed the limit that the first rule for its token sets against it.  This
\* is the decision as the code makes it: a native amount without a dollar
\* amount passes a rule whose only limit is in dollars, although the comment
\* of extract_amount_usd wants it not eligible.
ApprovedWithinLimits ==
  \A j \in Jobs : opened[j] > 0 /\ ~byHand[j] /\ request[j].record # None =>
    LET rules == request[j].record.rules
        fits == {n \in DOMAIN rules :
                   rules[n].tokens = {} \/ request[j].token \in rules[n].tokens}
        limit == LimitSet(rules[CHOOSE n \in fits : \A k \in fits : n <= k],
                          request[j])
    IN fits # {} /\ (limit # None => limit[1] <= limit[2])

\* A daemon runs, and all that run have the identity of the job.
Attended(j) ==
  /\ \E d \in Daemons : at[d] # "down" /\ mode[d] \notin Proxies
  /\ \A d \in Daemons :
       at[d] # "down" /\ mode[d] \notin Proxies => tx[j].wrap \in loaded[d]

\* A queued job is settled as long as it is attended, whatever class of error
\* each attempt ends with: a lease always gives it back.  A lost report of a
\* failure, an expiry and a job that cannot be read are left out.
Settled ==
  \A j \in Jobs :
    status[j] = "queued" /\ ~tx[j].agent ~>
      \/ status[j] # "queued"
      \/ "failure_lost" \in excuse[j]
      \/ Refusable(j)
      \/ ~Attended(j)

\* The signers implement the ledger of paid transfers.
Outcome(j) ==
  IF status[j] \in {"transmitted", "failed"} THEN status[j] ELSE "open"

Ledger == INSTANCE TransferLedger WITH
  outcome <- [j \in Jobs |-> Outcome(j)]

LedgerSpec == Ledger!Spec
=============================================================================
