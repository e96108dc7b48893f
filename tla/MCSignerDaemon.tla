--------------------------- MODULE MCSignerDaemon ---------------------------
(***************************************************************************)
(* Two processes and two jobs under a choice of scenarios: each scenario   *)
(* says which processes and transactions there are and how often each      *)
(* fault may happen, so that the faults of one are explored together and   *)
(* those of different scenarios are not.                                   *)
(***************************************************************************)
EXTENDS SignerDaemon, TLC

CONSTANTS d1, d2, j1, j2, k1, k2, Usdc, Sol

NoFaults == [f \in Faults |-> 0]

SolanaJob ==
  [chain |-> "solana", path |-> "0", keyPath |-> "0", given |-> FALSE,
   wrap |-> k1, readable |-> TRUE, agent |-> FALSE]
DeepJob == [SolanaJob EXCEPT !.path = "deep"]
EvmJob == [SolanaJob EXCEPT !.chain = "evm"]
NonceJob == [EvmJob EXCEPT !.given = TRUE]

NoRule == [tokens |-> {}, maxUsd |-> None, maxNative |-> None, derived |-> None]
Record(rules) == [parses |-> TRUE, enabled |-> TRUE, rules |-> rules]
PlainRequest ==
  [vault |-> TRUE, signable |-> TRUE, token |-> Sol, usd |-> None,
   amount |-> None, record |-> Record(<<NoRule>>), legacy |-> None]

Pair(a, b) == d1 :> a @@ d2 :> b
At(jobs, j) == IF j = j1 THEN jobs[1] ELSE jobs[Len(jobs)]

Asking(modes, jobs, faultSet, requests) ==
  [mode |-> modes, tx |-> [j \in Jobs |-> At(jobs, j)],
   submitted |-> IF Len(jobs) = 1 THEN {j1} ELSE Jobs,
   request |-> [j \in Jobs |-> At(requests, j)],
   faults |-> [f \in Faults |->
                 IF f \in DOMAIN faultSet THEN faultSet[f] ELSE 0],
   place |-> [d \in Daemons |-> "default"], device |-> [d \in Daemons |-> None],
   keyFile |-> [d \in Daemons |-> [default |-> k1, custom |-> None]]]

Scenario(modes, jobs, faultSet) ==
  Asking(modes, jobs, faultSet, <<PlainRequest>>)

\* A second process of mode "local" has nothing to do.
Alone(m) == Pair(m, "local")

\* A batch outlives its leases.
Overruns ==
  {Scenario(Pair("http", "http"), <<SolanaJob, NonceJob>>, [overrun |-> 1])}

\* Calls fail, and answers and reports are lost.
Losses ==
  {Scenario(Pair("http", "grpc"), <<job>>,
            [overrun |-> 1, loss |-> 1, error |-> 1]) :
     job \in {SolanaJob, NonceJob}}
  \cup {Scenario(Alone(m), <<job>>, [loss |-> 3]) :
          m \in {"http", "grpc"}, job \in {SolanaJob, NonceJob}}

\* The Solana loop.
Retries ==
  {Scenario(Alone(m), <<job>>, [stale |-> 3, error |-> 1, loss |-> 1]) :
     m \in {"http", "grpc"}, job \in {SolanaJob, DeepJob}}

\* Failing endpoints.
Endpoints ==
  {Scenario(Alone("http"), <<SolanaJob>>, [rpc |-> 3, loss |-> 1])}

\* Restarts and identity keys: a job is wrapped for an identity that is on
\* a device, made or imported later, or not where the daemon looks.
Keyed(scenario, where, second, file) ==
  [scenario EXCEPT !.place[d1] = where, !.device[d1] = second,
                   !.keyFile[d1]["custom"] = file]

Restarts ==
  {Keyed(Scenario(Alone(m), jobs, [key |-> 2, stop |-> 1]),
         setting[1], setting[2], setting[3]) :
     m \in {"http", "grpc"},
     jobs \in {<<EvmJob>>, <<[EvmJob EXCEPT !.wrap = k2]>>},
     setting \in {<<"default", None, None>>, <<"default", k2, None>>,
                  <<"custom", None, k1>>}}

\* Session tokens that expire and jobs that are refused.
Refusals ==
  {Scenario(Alone(m), <<job>>, [token |-> 2, expiry |-> 1, stop |-> 1]) :
     m \in {"http", "grpc"},
     job \in {EvmJob, [SolanaJob EXCEPT !.readable = FALSE],
              [SolanaJob EXCEPT !.chain = "unknown"]}}

\* An agent with two local proxies, or one and the command.
Agents ==
  {Scenario(Pair("local", second), <<[job EXCEPT !.agent = TRUE]>>,
            [loss |-> 2, error |-> 1, stop |-> 1]) :
     second \in {"local", "once"}, job \in {SolanaJob, NonceJob}}

\* The approval decision, with no faults.
Rules ==
  {[tokens |-> tokens, maxUsd |-> usd, maxNative |-> native, derived |-> derived] :
     tokens \in {{}, {Usdc}}, usd \in {None, 1}, native \in {None, 0, 1},
     derived \in {None, 1}}

\* The second rule, which decides for the other token.
Strict == [NoRule EXCEPT !.maxUsd = 1, !.maxNative = 1]

AskedRequests ==
  {[PlainRequest EXCEPT !.token = asset, !.usd = usd, !.amount = amount,
                        !.record = Record(rules)] :
     asset \in {Usdc, Sol}, usd \in {None, 2}, amount \in {None, 1, 2},
     rules \in {<<>>} \cup {<<rule, Strict>> : rule \in Rules}}
  \cup {[PlainRequest EXCEPT !.record = None, !.usd = usd, !.legacy = legacy] :
          usd \in {None, 2},
          legacy \in {None} \cup [enabled : BOOLEAN, max : {None, 1}]}
  \cup {[PlainRequest EXCEPT !.vault = vault, !.signable = ~vault,
                             !.record.parses = parses,
                             !.record.enabled = ~parses] :
          vault \in BOOLEAN, parses \in BOOLEAN}

Approvals ==
  {Asking(Alone("http"), <<SolanaJob>>, [error |-> 0], <<r>>) : r \in AskedRequests}

MCScenarios ==
  Overruns \cup Losses \cup Retries \cup Endpoints \cup Restarts \cup Refusals
    \cup Agents \cup Approvals
=============================================================================
