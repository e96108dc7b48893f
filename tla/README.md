# Verification of Holder core security

TLA+ models of this repository, TLC configurations that check them on small
instances, and TLAPS proofs of what matters most for every instance. The
models cover the NEAR subkey contract (`near/src/lib.rs`), which decides what may
be signed and how much may be spent; the client that asks it for signatures
(`frontend-lib/near/subkeyContract.ts`); the external signers that sign and
broadcast approved transactions (`rust-signer-external/`) and the decision which
ones need no approval (`policy/`); and the wallet itself: its seed stores, its
session and its core in WebAssembly (`frontend-lib/custody/`, `rust-wasm/`).

    tlc -workers 2 -config signer_jobs.cfg MCSignerDaemon.tla
    tlapm SignerDaemonProofs.tla

## The system

A wallet's root account registers *subkeys* on the contract. A subkey may ask
the contract for signatures on listed derivation paths, within a policy. The
contract forwards an admitted request to the MPC network and stores the
outcome, which a frontend client or an external signer polls for. The server
queues transactions that the auto-approval decision or the wallet approves, and
leases them to signer daemons, which open the subkey, ask for a signature,
broadcast the transfer and report.

| Component | State | Operations | Interacts with |
|---|---|---|---|
| Contract: registry (`near/`) | `subkeys`, `subkey_index`, `policy_managers`, `api_key_policies` with the counters of a window | add, set paths, remove; grant, revoke; set and remove a policy; the enforcement of a raw request | called by provisioning; consulted by every signing request |
| Contract: promises (`near/`) | `sign_results`, `mpc_contract_id`, promises in flight | `request_*_sign(_v2)`, `on_sign_complete`, `cleanup_results`, `set_mpc` | MPC contract, by asynchronous calls and a callback |
| Contract: templates and caps (`near/`) | `templates`, `token_caps` | set and remove, by the owner; read by the template requests | the daemon's EVM path |
| Contract client (`frontend-lib/near`) | RPC choice, request id, polls | `requestSignV2` with failover, `pollSignResult`, the removal of the result | the contract, through RPC endpoints that fail and time out |
| Provisioning (`services/apiKeys.ts`) | none of its own | `registerSubkeyOnChain`, `ensureSubkeyOnChain`, `revokeSubkeyOnChain` | the contract |
| External signers (`rust-signer-external/`) | jobs of a batch, failed ids, session token, RPC health, loaded identities | poll, refuse, open, sign, poll, retry, broadcast, report; the commands `daemon`, `connect`, `sign` | server, contract, chain RPCs |
| Key store, identity, config (`rust-signer-external/`) | key files | `init`, `export-key`, `import-key`, load | the signers |
| Auto-approval decision (`policy/`) | none | `resolve_policy_decision` | server |
| Custody vault (`frontend-lib/custody/`) | unified and legacy seed stores, wallet record, session phrase, backup flag | save, import, migrate, unlock, load, forget, reset, mark, confirm | key-value storage behind awaits; WASM core |
| WASM core (`rust-wasm/`) | `is_initialized`, `current_keypair`, `secured_mnemonic` | generate, import, derive, sign, export, clear; vault encryption | custody vault |
| Signing library (`rust-signer/`), derivation and transfer templates | none | unwrap, sign, build | signers, frontend |

What is hard here, and what has to hold:

* **Registry.** The counters are decimal strings, read by a parser of 9, 24 or
  0 decimals and restarted when the window changes; a subkey's policy outlives
  its removal; a memo and the stored policy are both checked. A subkey must
  never get more transfers, or spend more, in a window than its policy says.
* **Promises.** Anything may run between a request and its callback. A result
  must be the answer of a call with that id, and every request must get one.
* **Composition.** The charge happens in one block and the answer in another.
  Each metered call must be charged exactly once.
* **Client.** A timeout is not a failure: a request that is sent again may run
  twice. What the client hands out must be the answer to its own request.
* **Signers.** Reports, answers and leases are lost or late, processes stop, a
  Solana attempt is repeated. A transfer must use up a signature that was paid
  for, a job must not be transferred twice without a fault that explains it,
  and every job must be settled.
* **Decision.** Limits in dollars, in the native coin and derived from a quote
  stand in for each other; the first rule that applies must be the one that binds.
* **Custody.** Read, await, write: concurrent imports, a reset during an
  unlock, a load that ends in another session, a partial migration. No stored seed
  may be lost or overwritten, what is signed and shown must belong to one phrase, and
  the reminder to back up a new phrase must survive until it is confirmed, and no
  longer.

The full list, line by line, is under "hazards" in `PROJECT.json`.

## Modules

| Module | Models |
|---|---|
| `PolicyRules` | the pure rules of the contract: path check, amount parsers, what can be stored as a policy, what a memo and a stored policy admit, what a transfer is charged, the template checks |
| `SpendingBudget` | the abstract specification of a policy: per signer a budget, per window what was used of it |
| `SubkeyRegistry` | the state machine of the registry, one action per contract call, and the refinement mapping to `SpendingBudget` |
| `SigningPromises` | request ids, calls on the MPC contract, callbacks, clean-up, with fairness |
| `SubkeyContract` | the contract: the four signing requests over the two modules above, the owner's templates and caps |
| `SignRequestClient` | clients of the contract over `SigningPromises`: submission with failover, polling, removal of the result |
| `RpcPool` | RPC health of a signer: ranking, marking, one call over the candidates, the polling loop; pure operators |
| `ApprovalPolicy` | the auto-approval decision; pure operators |
| `TransferLedger` | the abstract specification of the signers: per transaction charges, transfers and what the server records |
| `SignerDaemon` | the external signers over `RpcPool` and `ApprovalPolicy`, with the server, its leases and the faults; the refinement mapping to `TransferLedger` |
| `SeedNumbers` | the abstract specification of the seed stores: which seed has which number, and which numbers callers were given |
| `UnifiedSeeds` | the unified and the legacy seed stores, with calls that interleave at each await: import, migration, unlock, conversion, reset; the mapping to `SeedNumbers` |
| `WalletCore` | the WalletManager in WebAssembly, derivation and vault encryption |
| `WalletSession` | an unlocked session over `WalletCore`: session phrase, wallet record, loads, backup flag |
| `SubkeyRegistryProofs`, `SigningPromisesProofs`, `SubkeyContractProofs`, `SignRequestClientProofs`, `RpcPoolProofs`, `SignerDaemonProofs`, `UnifiedSeedsProofs`, `WalletSessionProofs` | theorems and proofs |
| `MCSubkeyRegistry`, `MCSigningPromises`, `MCSubkeyContract`, `MCSignRequestClient`, `MCSignerDaemon`, `MCUnifiedSeeds`, `MCWalletSession` | small instances |

### How the models correspond to the code

A NEAR contract call runs alone and a panic reverts it. A call is therefore one
action; every `require!`, `unwrap_or_else(panic)` and early return up to the
last write is a conjunct of its guard, and a refused call is no step.

*Amounts.* An amount is a natural number of the finest unit. A decimal string
is its value, and `Parse(parser, s)` is what `parse_decimal_amount_to_units`
makes of it: `None` when the value is not a multiple of the parser's unit or
overflows its integer type. That keeps what the properties tell apart (limits
that a parser cannot read, sums written with 24 decimals and read with 9, u64
and u128 overflow) without digits. Limits are taken to be written canonically
(no `+`, no leading zeros). A token amount is in whole units, which is the value
of its string without decimals.

*Registry.* `subkeys[s]` is the path set of storage key `account|public key`
and `{}` when absent (`validate_paths` refuses an empty list). The actions of
`SubkeyRegistry` have the names of the contract's methods; `AuthorizeRaw` is
`enforce_contract_policy_for_raw_request` with the path check before it, and it
is the part of `request_sign` and `request_sign_v2` that writes policies. The
three `enforce_persisted_api_key_policy*` functions differ in their parser and
in the token check, so they are one operator, `AdmitsTransfer` with `Charged`,
over the kind of transfer. `now` is the block time in seconds. `ledger` is
auxiliary: what each signer was let to transfer since its policy was last
written. It has no influence on any action.

*Promises.* A call record holds the request, its id (`None` for the requests
without callback), the MPC contract it went to, the answer once there is one,
and whether the callback ran. The field `beside` is auxiliary: the calls in
flight when this one was placed.

*Composition.* `RequestSign` is `AuthorizeRaw` and `Submit` in one step, as in
the code, and so on for the other three. A template request reads the policy
and charges nothing. On EVM, `request_template_sign_v2` builds what is signed;
whether it can (chain id, addresses, parameters, memo) is the field
`buildable` of the request. `fresh` is auxiliary: the raw calls of a signer
since its policy was last written.

*Callers.* `assert_owner` guards the owner's actions, which are therefore
always enabled for the owner; `assert_direct_call` holds because only direct
calls are modelled. `remove_subkey`, `grant_policy_manager` and the
`owner_*_signer_policy` calls have no check of the signing key in the contract;
that only the root wallet's key may call them comes from the method lists of
NEAR access keys, which is outside this repository. An unregistered key counts
as the root wallet's in `assert_can_manage_policy`, and so it does here.

*Contract client.* A client is the id it draws. `RequestSignV2`, `RequestFails`
and `RequestTimesOut` are what an endpoint can make of a submission: it runs and
is answered, it fails, or it is not answered and runs later (`LateRequest`) or
never. `NextEndpoint` is the failover loop, `PollAgain` one round of
`pollSignResult`: a failure is remembered to the end of the loop. A stored result that is marked ok and has no bytes is not taken for a
signature, and the client goes on polling; `PollPending` covers it. `Finalize` asks
the server once to remove the result. The other ids are used by anyone at any time
(`ContractNext`).

*Signers.* One process is at one step of the pipeline (`at`): between cycles,
before the next job of its batch, at a call, or at its report. What the pipeline
does between two calls is part of the action before. `http` and `grpc` are the two
daemons, `local` the proxy of `connect`, `once` the command `sign`; they share
`sign_pipeline.rs` and differ in the treatment of errors (`HandleError`), in what
they load (`OwnIdentities`) and in how they report. An error is its class, and any
text may fall in either class unless the code writes the text itself. `Called`
is a call that goes through the ranked candidates until one answers;
`PollPending` and `PollError` are the branches of the polling loop with its
sticky bursts. `Retry` is another round of the Solana loop, which asks for a
signature of its own. `opened`, `charged`, `landed`, `excuse` and `byHand` are
auxiliary; only `Submitted` reads `opened`, for its bound, and `NonceSpent` reads
`landed`, where it is the chain's account nonce.

*What the signers do not contain.* The server, the NEAR contract and the chains
are modelled by what the signers see of them: a queued job without a lease is
offered to every daemon that polls and leased with the answer (over gRPC too); a
lease lapses at some later moment; the first outcome that is reported is kept; the
contract charges a request it accepts once and answers once; a chain takes each
signed transfer it is sent, except for an EVM nonce that is used. The daemon's calls
of the `safu_network` crate are taken to be the functions of the same names in
`near_client.rs` and `solana.rs`. A daemon has one session key.

*Decision.* `Eligible` is `resolve_policy_decision` and what it calls; amounts and
limits are numbers of one scale, `None` where the code has no number.

*Seed stores.* JavaScript runs one piece of code at a time and switches only at
an `await`. A call is therefore a task: what it does up to the waiting for the
cryptography is one action that records what was read, and what it does after it
is another. `saveUnifiedSeed` reads the array after its last await, so
`SaveUnifiedSeed` changes the store as it is then, while the slot was chosen
earlier; `saveImportedSeed` and `decryptWalletData` write back what they read
before, and so do `WriteImportedSeed` and `LoadWalletData`. Failures of the
cryptography and wrong passwords are the `Fail` actions, which go on where the
code goes on. `Close` ends every task at any point. A slot that is `None` below a
filled one is a null placeholder. `nextSeedNumber` is the first free number, since
nothing removes an imported seed. `epoch`, `returned` and `overlapped` are
auxiliary. The methods are called by screens outside this repository, so any of
them may be called at any time; only a new main seed is tied to `hasWallet`, as
its name and its use for a new wallet say. Phrases are told apart by `SeedHash`,
which may collide.

*Wallet core.* A key is the phrase and the path it is derived from, an address its
public half, a blob its content, the key it was sealed with and the iterations it
records. A call that fails answers `None`. The derivation is written out in several
places of `lib.rs` and `networks/`; each is an operator of its own, so that
`KeysAgree` compares them. `GenerateNewWallet` and the imports keep the order of
the code: the phrase on display is replaced before the key is derived. `apart` is
auxiliary: why the phrase on display need not be the one of the key.

*Session.* `loadWalletData` waits several times after it has read the record;
`LoadWalletData` is the part before and `LoadEnds`, `LoadImports` and
`LoadUnderived` the ways it ends, which import into whatever session there is by
then and write back the record that was read with a repaired address. One load and
one mark of the backup flag are under way at a time. The flag is in `localStorage`
(which may be unusable), in `walletKV`, which answers from memory and is flushed
later, and in the `sessionStorage` of older versions. `Reload` is a new page:
memory is gone, and so is what was not flushed. The flows (`CreateWallet`, `Unlock`,
`ConfirmSeedBackup`, ...) are those of `frontend-lib/custody/MNEMONIC.md`; the
screens are outside the repository. There is no lock in the model because there is
none in the code: `logout` and the session timeout (`encryptedSessionManager.ts:877`
to 943) remove the session information, which is not modelled, and call
`clearMemory`, which scrubs the stack of the cryptography; `resetWallet` (`ResetWallet`)
clears the stores and the flag and leaves phrase, key and a waiting load. What a lock
would be made of are `clearSessionMnemonic` and `clear_wallet`, two calls that the
screens may make at any time (`ForgetPhrase`, `ForgetKey`). Writes of the wallet
record are taken as durable at once. `wallet`, `revived`, `gate` and `unflushed` are
auxiliary.

## Runs

| Run | Instance | Shows |
|---|---|---|
| `registry_accounting` | 1 subkey; 6 policies (each kind, a resubmitted one, a limit finer than a lamport, an unlimited one); 5 requests; block times 0..3, windows of 2 | the types, both budgets, the inductive invariant behind them and the refinement of `SpendingBudget` |
| `registry_roles` | 2 subkeys that manage each other; 2 path sets; requests with a matching and a mismatching memo; block times 0..2 | the listing is exact, the count survives removal, re-addition and the memo path |
| `registry_mixed` | 1 subkey, one native policy for both chains | **violation**, see Findings |
| `signing_promises` | 3 calls, 2 ids, one of which a client may use; 2 endpoints, 2 polls; 2 MPC contracts without a client | results are delivered answers, a result changes only through overlapping calls, every request has a result in the end; a client hands out the answer of its own call, is charged again only for an unanswered submission, and removes its result for good: only a submission without an answer can store another, once each |
| `signing_one_in_flight` | 2 calls, 1 id | **violation**, see Findings |
| `contract_budget` | 1 subkey, raw and template requests, 2 calls, block times 0..1, windows of 1 | calls placed on the MPC contract stay within the policy and equal its counter |
| `contract_templates` | 1 subkey, EVM template, policy and cap, buildable and not, 2 calls | the composition implements both components, with fairness |
| `signer_jobs` | 2 processes, 2 jobs, 2 identities, 2 endpoints, 5 polls, 3 Solana attempts; eight groups of scenarios | each time a job is taken up it transfers once at most and is charged once an attempt; a second transfer has one of four causes; a job that a daemon skips has an outcome, its report under way or a lost one; polling reaches every endpoint; what is signed without approval is within the limits; attended jobs are settled; the refinement of `TransferLedger` |
| `seeds_vault` | two calls, 2 phrases, 2 imported numbers, 5 legacy vaults, 1 reset | without overlap the stores implement `SeedNumbers`: a number is written once, for one seed, and stays that through migrations, failures and closings until a reset clears all; converting a plain wallet never loses its phrase, whatever interleaves or stops |
| `seeds_imports`, `seeds_migration` | two calls, 3 phrases, one wallet with one imported seed | **violations**, see Findings |
| `wallet_session` | 2 phrases and a misspelt one, 2 passwords, 3 indices one of which cannot be derived, no vault or one of two made by older versions | the backup flag survives and goes, the phrase on display is the one of the key, every vault opens, all derivations agree |

*Bounds of the contract.* Two windows and a block time that is not a window start
exercise the roll-over; the lamport holds 4 yocto and the coin 8, so a sum can be
unreadable for one parser and readable for another; `MaxUnits` of 3 lamports and
20 yocto is small enough to overflow; limits of 1 to 3 transfers are reached and
refused. Two calls are enough for two requests of one id to overlap, three for a
third one that does not, and for a client's two submissions beside another call.
`MaxCalls` and `MaxTime` are the only bounds on counters. Policies with no limit have
no period in the instances, so the ledger is bounded by the limits. With a client
the MPC contract is the same one all the time, and a start without clients has the
whole contract.

*Bounds of the signers.* What goes wrong is bounded by `faults`: each scenario of
`MCSignerDaemon` says how often each fault may happen, one to three times, and
which processes and jobs there are, so that the faults of one group are explored
together and those of different groups are not. The groups are a batch that
outlives its leases; lost answers and reports, with a second daemon or alone; the
Solana loop with expired blockhashes and the fallback path; failing endpoints;
restarts with replaced and misplaced keys; expired tokens and refused jobs; agents
with two proxies; and the decision over 300-odd requests with no fault. Three losses
are one more than a transfer and its report can have. Two endpoints and five polls
are enough for a burst, a rotation and the next burst; the failure cap of 2 is
reached. `MaxSubmits` of 2 bounds how often an agent submits a transaction.

*Bounds of the wallet.* Two calls, two imported numbers and one reset are what the
races of the seed stores need, and `MaxSeed` of 1 in the violation runs leaves one
number to compete for; `MaxSeed` and `MaxResets` bound those counters. One password
is enough there: a wrong one does what a failed decryption does. `WalletSession` has
no counter.

*Fairness.* Of the contract only the NEAR runtime is fair: an accepted receipt is
executed, so each call on the MPC contract is answered in the end (the MPC
contract's requests time out into a failure) and each callback runs. No client,
owner or clock is fair; liveness there is that a v2 request has a result. Of the
signers, a process that runs goes on, since its loops have no exit but the ones
modelled, and a lease that nobody works under lapses. Neither `reqwest::Client::new()`
nor the tonic endpoints have a timeout, so a call may hang: such a process takes no
step again, and neither does one that was stopped, so `Stop` stands for both, at any
point of the scenarios with stops. Nothing starts a process again: installing the service is optional and off by
default (`main.rs:311`). Faults are not fair and finitely many. `Settled` therefore
promises only what follows: a job that stays queued and attended, by daemons that run
and have its identity, is settled whatever class of error each attempt ended with. It
leaves out a job that cannot be read or has expired, and one whose failure was
reported in vain; that a daemon skips no other job is `RememberedReported`, which
needs no fairness. No
user action is fair, and the wallet has no liveness property.

## Findings

* **Two requests of one id in flight.** `assert_new_request_id`
  (`near/src/lib.rs:1081`) says that it prevents a second submit before the
  first callback has written its result. It looks at stored results only, so it
  prevents a second submit *after* that. `signing_one_in_flight` shows two calls
  of one id in flight; `OverwrittenByOverlap` states what is left of the claim
  (without overlap a polled result never changes) and it is proved.
* **A native sum that restarts.** A `sol_native_transfer_v1` policy meters NEAR
  transfers too (`near/src/lib.rs:1855`). Their sum may have more than 9
  decimals; the next Solana transfer cannot read it and counts from zero
  (`unwrap_or(0)`, line 1944). `registry_mixed` shows both transfers together
  above the period limit in one window. `PeriodBudget` is therefore stated, and
  proved, for a policy that has metered a single kind of transfer since it was
  written; the transfer count has no such restriction.
* **A number given twice.** `getOrAssignSeedNumber` requires that the unified
  storage exists and takes that for a finished migration (line 1098). The storage
  exists once the main seed is saved: in `seeds_imports` an import then gets the
  number of a seed that the migration saves next, over it.
* **A migration that is never finished.** Line 292 speaks of re-running an
  incomplete migration; line 287 does that only when nothing was saved.
  In `seeds_migration` one fails after the main seed, and the next import takes the
  number of the seed left behind (`apiKeys.ts` looks numbers up in the unified
  store first).

Read while modelling and not shown by a run of its own; where a property has an
exception, this is why:

* Seed stores. `resetWallet` clears all stores at once, but a save or an unlock that
  is waiting writes afterwards, so `SequentialReset` is stated for calls that do not
  meet. A null placeholder that is not replaced (line 227) makes `loadUnifiedSeed`
  (line 164) fail for every later seed.
* Session. `logout`, the session timeout and `resetWallet` clear less than is said of
  them: their logs and comments speak of cleared memory and wiped keys
  (`encryptedSessionManager.ts:888`, 908, 911, 837, 852) and the comments of `sessionSeed.ts`
  (lines 4 and 22), `seedBackupGate.ts:3` and `MNEMONIC.md` 5.4 of a lock or a logout
  that clears the phrase, the key and the flag; the code leaves phrase and key where
  they are, and `logout` the flag too. No property claims otherwise. A load may import
  its phrase into any session there is when it ends (line 532). One that ends after a
  reset or a new wallet writes an older record back (line 551), so `EveryVaultOpens`
  excepts that (`revived`). A mark whose flush fails after the backup was confirmed is
  written again (`seedBackupGate.ts:58`) and the confirmed backup asked for once more;
  `ClearedStays` excepts it, and a removal that was not flushed when the page went. An import at index 0 replaces the phrase on display before the text
  is found not to be a phrase (`rust-wasm/src/lib.rs:333`). `MNEMONIC.md` (line 72)
  has `secured_mnemonic` cleared after the backup is confirmed; the next unlock at
  index 0 sets it again.
* Signers. When `CompleteJob` fails after the transfer (`grpc_daemon.rs:151`) the job
  is reported as failed, which is one of the causes in `TransfersExplained`; a job
  signed again after its lease lapsed is another. A batch that holds only jobs that
  have failed before counts as work, so the HTTP daemon polls again without its pause
  while they are offered (lines 417 and 487). The polling loop stays on an endpoint
  that answers with an error of no known class; `EveryEndpointAsked` excepts it
  (`stuck`). A job that expires while it is signed is transferred all the same (the one
  check is `grpc_daemon.rs:123`). The EVM chain id defaults to the network's when the request is made
  (`sign_pipeline.rs:163`) and to 84532 when the transaction is assembled (line 224).
  `init` and `import-key` write the default path while the daemon reads
  `signer_ec_key_path` (`main.rs:211`), one of the ways a job is not settled.
* Decision. The comment at `policy/decision.rs:219` to 222 wants a native amount
  without a dollar amount to be not eligible. A rule that has only a dollar limit lets
  such a transaction pass, with no amount compared at all (line 167), and a native limit
  decides when there is one. `ApprovedWithinLimits` states the decision as it is: the
  limit that the rule sets against what is known of the amount, the dollar limit first,
  then the native one, then the one derived from a quote (`LimitSet`). It does not claim
  what the comment wants.
* Provisioning. `ensureSubkeyOnChain` sets the bootstrap policy of a subkey again that
  it finds registered.

## Proofs

All theorems are for arbitrary constants: accounts, keys, paths, policies, requests,
processes, jobs, phrases, and any value of the bounds. They use the named
assumptions on the constants only: `None` is no value of any type, grains are
positive, inputs and scenarios have their types, processes and jobs are finitely many,
stored vaults were sealed as older versions did, legacy seeds are from before the first
reset, and a wallet that is stored both plain and encrypted is one whose conversion was
interrupted, so that both have one phrase.

`SubkeyRegistryProofs`. The budgets are not inductive: the contract never sees
the ledger. `LedgerAccounted` is the strengthening. For each signer: the ledger
has nothing in windows after the current one (`UsedBy`); every window is within
the limit, and in the current window, if anything was used, the stored window is
that window and the stored counter is at least what was used (`CountCovers`,
`SpentCovers`). With it: `TypeCorrect`, `LedgerCovered`, `TxCountKept`,
`PeriodKept`, `IndexExact`, and `Refinement`, that each step is a step of
`SpendingBudget` or leaves it unchanged. The arithmetic lemmas (`WindowBound`,
`WindowMonotone`, `GrainSum`) say that windows do not overlap and that a sum of
multiples of a parser's unit is readable by that parser, which is where the
restriction to one kind of transfer comes from.

`SigningPromisesProofs`. `ResultBacked` is inductive with the types.
`OverwrittenByOverlap` is an action property; it needs that calls in flight
overlap pairwise and that a stored result has a delivered call that overlaps
every call of its id in flight (`InFlightOverlap`, `ResultOverlap`).

`SubkeyContractProofs`. `ImplementsRegistry` carries the registry's theorems over
to the whole contract, and `ImplementsSigning` shows the same of the signing half
without its fairness. That the calls on the MPC contract stay within the policy is
not inductive either: the contract keeps no list of what it forwarded.
`LedgerMatches` closes the gap: for a policy with a period, the ledger of a window
is exactly the number of metered calls placed in it, because the charge and the
promise are one step and because a placed call keeps its request. `CallsKept`
follows from that and `CountCovers`. `CounterExact` needs one more invariant,
`CounterMatchesLedger`: the stored counter is what the ledger has for the stored
window. That a current window other than the stored one has nothing in the ledger
yet, so that restarting at one is right, is `CountCovers` again. It assumes
policies are written without counters (`periodStart = None`), as provisioning does
(`frontend-lib/services/apiKeys.ts:269`); one submitted with counters starts from those.

`SignRequestClientProofs`. `ClientsOfPromises` shows that every step of a client is a
step of `SigningPromises` or none, so that `ResultsBackedWithClients` follows from the
theorem there. For the clients the invariant `ClientInv` has four parts for each id:
its calls are at most its answered submission and those of its unanswered ones that
have run (`Counted`, with `Bounded` for the loop); the signature it has is that of a
delivered call (`Served`); what was delivered by the removal is delivered still and was
one call at least, and whatever is stored after it is the answer of another (`Cleaned`);
and an id that no client uses has no submission under way (`Unused`). `PaidOnce`,
`DeliveredSignatures` and `ResultsRemoved` follow: of at most one call more than
unanswered submissions, one is spent on the removal.

`SignerDaemonProofs`. Forty-odd actions do one of a few things to the ledger, and
`Moves` says so: nothing (`Quiet`), a process turns from its job (`Turns`), takes one
up (`Opens`), is charged (`Pays`), transfers (`Lands`); a status changes by a decision
or a report. The invariants count processes. `Paid`: transfers and processes that
poll or send are together at most the charges. `Unsent`: transfers and processes that
sign are at most the openings. `Budgeted`: charges and the attempts that the signing
processes have left are at most `MaxRetries + 1` for each opening; each attempt left
is a pair of a process and a number, so that no sum is needed. `Sent`: whoever is about
to report a transfer has made it. `Approved`: what is in a batch was cleared by the
decision or by hand. `OneTransfer`, `OneChargePerAttempt`, `WithinLimits`
and the refinement `KeepsLedger` follow. The types (`Typed`) need the loop of the polling,
since a position in the ranking is an index; with it come `TypeCorrect` and
`EndpointsAsked`. Why a second transfer has a cause is another invariant, `Tracked`: as
long as no answer, report or lease of a job was lost and no process stopped over it, one
process has the job, once, under its lease or for an agent that waits; while it has it the
server says queued and nothing is on the chain but right before the report; and once
nobody has it, it is on the chain if and only if the server says transmitted
(`RecordExact`). A step does one of seven things to a batch (`Treats`), and each keeps
that or leaves an excuse; `TransfersHaveExcuses` follows.
`MemoryReported` rests on `Handed`: whatever waits in a batch has been queued, so that a
report of it is recorded; each step of a process then leaves a job that it remembers
reported, about to be reported by it, or with its report lost (`Remembers`), and no step
of another process takes an outcome back (`StatusForward`).

`RpcPoolProofs`. The ranking is defined by how many endpoints are before one, so
`RanksEveryEndpoint` needs that those counts are all different and have no gap: the set
before an endpoint grows strictly along the order, and an injection of a finite set into
one of its size is onto. `LoopKept` is the invariant of the loop of `poll_sign_result`:
the endpoints before the present one have been asked, and the polls made with those left
of the present burst are at most three for each endpoint so far. `LoopAsksAll` follows: with
`PollAttempts >= 3 * RpcCount - 1` every endpoint is asked before it gives up. The code
polls 60 times over at most 4 endpoints; one poll less than the bound leaves the last of
two or more endpoints out. What a marking along a list computes is proved for every
length by the least length that has a counterexample, which exists because sets of
naturals have a least element (`LeastNatural`, from the well-foundedness theorems).

`UnifiedSeedsProofs`. Numbers (`NumbersInv`): while no two calls have met, one call at
most is under way, and what it has read is still so (`Fresh`): the slot that it will fill
is free, those that a migration still lists are free in the unified store, and an import
has the store as it is. So every write is an entry for a free number: `NumbersStay` and
the refinement `KeepsNumbers` of `SeedNumbers`, which says nothing more once calls have
met, as the findings show it cannot. Resets (`Recent`): what is stored, and what a call
that met no other one has read, is from after the last reset; `ResetsClear`. Conversions
(`PlainInv`), with any overlap: while the plain record is there, the encrypted one and
every call that may write it have its phrase, and a call that is about to remove it has
written the encrypted one; `PlainStays`.

`WalletSessionProofs`. `GateInv`: a mark is in a store that works until it is lost
before its flush, and a removal is in all of them, also while a mark waits, until a
failed flush writes that mark again or the page goes before the removal is flushed; the
second write is what moves `gate` on, so `ClearedForGood` says of any number of marks,
queries, flushes and reloads in between that they do not bring the flag back.
`VaultInv`: a record that a load under way may write back shows an address of the
old kind and is the wallet that was stored when the load read it; a record that was
written back shows a current one. `KeyInv`: the loaded key is at the Solana path of
its index. `PhraseOfTheKey` is inductive as it stands.

Only model-checked: `EventuallyPolled`, `Settled` and the fairness part of
`SigningSpec`. They are liveness under fairness, which the prover cannot take: it has no
rule for ENABLED of the actions. Every invariant, action property and refinement of the
passing runs is stated by a theorem, `SigningSpec` without its fairness by
`ImplementsSigning`. The findings are single behaviours, shown by TLC. What stays
outside both: seeds are told apart by the hash of their phrase, so all that is said of
seed numbers is said up to a collision of the hash.

## Not modelled

* Contract: the encoders of EVM transactions, EIP-3009 and EIP-712 digests and the
  byte layout of Solana and NEAR transactions (a payload is what it decodes to);
  event logs and views; payload size checks; gas and deposits; `migrate`, whose
  question is the decoding of one Borsh layout as another; NEAR access keys.
* Provisioning (`apiKeys.ts`, `subkeyPolicySync.ts`, `walletPolicyManager.ts`): it
  keeps no state of its own; each step is a contract call, and `SubkeyRegistry` takes
  those from any caller in any order, with any of them missing.
* Signers: the set-up wizard and `config.rs` (files), the key store, which no command
  opens, the bytes of transactions and of key wrapping, the server's side of
  `proto/signer.proto`. Several session keys of one daemon, which are polled one
  after the other.
* Vault: loading a unified seed, the contents of encrypted records, corrupted records
  (`hasWallet` drops them), session data and activity logs, wallet addresses of other
  networks. `removeImportedSeed` calls a method that `EncryptionManager` does not have
  (`decrypt`), reports failure and changes nothing, so it is no action. Two loads, or
  two marks of the backup flag, under way at once.
* WebAssembly: token builders, address detectors and `PasswordManager` keep no state the
  wallet uses. `wallet/`, `storage/`, `tokens/` and most of `crypto/` are declared by no
  `mod` of `lib.rs` and are in no build.
* `rust-signer` (pure key unwrapping and ed25519), `mpc/derivation.ts`, `keyGeneration.ts`
  and the transfer templates: pure builders.

## Plan

Done: all modules above with their runs and proofs. What is left, in this order:

1. A module of provisioning over `SubkeyContract`: the policy that a subkey has between
   registration and its first policy, and a resubmitted policy with counters.
2. What still holds of the seed stores when calls meet: which of the entries of
   `SeedNumbers` can be lost or given twice, and that nothing else can.
3. The rules of `PolicyRules` as theorems of their own: that a stored policy is a fixed
   point of the normalisation, and what a charge and a limit say of each other.
4. The clients of `SignRequestClient` in front of the whole contract, where a request
   that is placed twice is also counted twice in the policy.
