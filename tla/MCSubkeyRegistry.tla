-------------------------- MODULE MCSubkeyRegistry --------------------------
(***************************************************************************)
(* Small instances of SubkeyRegistry.  Amounts are in a unit of which a    *)
(* wei is 2, a lamport and a satoshi 4 and a whole coin 8, the order and   *)
(* the divisibility of the real units; the u64 and u128 types hold 3       *)
(* lamports, 20 yocto and more than is ever asked of the others.           *)
(***************************************************************************)
EXTENDS SubkeyRegistry

CONSTANTS Path, Dest1, Dest2, Token, Other

MCGrain == [yocto |-> 1, wei |-> 2, lamports |-> 4, lamports128 |-> 4,
            sats |-> 4, tokens |-> 8]
MCMaxUnits == [yocto |-> 20, wei |-> 40, lamports |-> 12, lamports128 |-> 80,
               sats |-> 80, tokens |-> 80]

Policy(template, asset, assetId, maxPerTx, maxPerPeriod, maxTxCount, allow) ==
  [template |-> template, asset |-> asset, assetId |-> assetId,
   maxPerTx |-> maxPerTx, maxPerPeriod |-> maxPerPeriod,
   period |-> 2, maxTxCount |-> maxTxCount, allow |-> allow,
   periodStart |-> None, spent |-> None, txCount |-> None]

Pay(kind, dest, token, amount) ==
  [kind |-> kind, dest |-> dest, token |-> token, amount |-> amount]

Raw(chain, payload, memo) ==
  [chain |-> chain, path |-> Path, payload |-> payload, memo |-> memo]

Sol4 == Pay("native", Dest1, None, 4)
Near1 == Pay("native", Dest1, None, 1)
Near3 == Pay("native", Dest1, None, 3)
Ft8 == Pay("ft", Dest1, Token, 8)
Junk == Pay("other", Dest1, None, 0)

SolPaths == {[chain |-> "solana", path |-> Path]}
NearPaths == {[chain |-> "near", path |-> Path]}
BothPaths == SolPaths \cup {[chain |-> "bitcoin", path |-> Path]}

---------------------------------------------------------------------------
(* Accounting: one subkey, every kind of metered transfer.                 *)

SolPolicy == Policy("sol_native_transfer_v1", "native", None, 8, 8, 3, {})
NearPolicy == Policy("near_native_transfer_v1", "native", None, 4, 4, None, {})
FtPolicy == Policy("near_ft_transfer_v1", "token", Token, 8, 8, None, {Dest1})
\* The counters of a policy read back in the first window and stored again.
Resubmitted == [SolPolicy EXCEPT !.periodStart = 0, !.spent = 4, !.txCount = 1]
\* A period limit that no lamports amount can express.
FinePolicy == Policy("sol_native_transfer_v1", "native", None, 4, 6, 2, {})
\* A caller's policy without limits, its period sent as zero.
Unlimited == [Policy("sol_native_transfer_v1", "native", None, 8, None, None, {})
                EXCEPT !.period = 0]

AccountingPolicies ==
  {SolPolicy, NearPolicy, FtPolicy, Resubmitted, FinePolicy, Unlimited}
AccountingRequests ==
  {Raw("solana", Sol4, None), Raw("near", Near1, None), Raw("near", Near3, None),
   Raw("near", Ft8, None), Raw("near", Junk, None)}

---------------------------------------------------------------------------
(* Roles: two keys that register, manage and sign.                         *)

MemoOf(payload) ==
  [template |-> "sol_native_transfer_v1", params |-> payload,
   snapshot |-> [templates |-> {}, dests |-> {Dest1},
                 rule |-> [asset |-> "native", assetId |-> None, cap |-> 4]]]

OncePolicy == Policy("sol_native_transfer_v1", "native", None, 8, None, 1, {})
RolePathSets == {SolPaths, BothPaths}
RolePolicies == {OncePolicy}
RoleRequests ==
  {Raw("solana", Sol4, MemoOf(Sol4)),
   Raw("solana", Pay("native", Dest2, None, 4), MemoOf(Sol4)),
   Raw("bitcoin", Junk, None)}

---------------------------------------------------------------------------
(* One policy for native transfers of both chains.                         *)

MixedPolicies == {Policy("sol_native_transfer_v1", "native", None, 8, 8, None, {})}
MixedRequests == {Raw("solana", Sol4, None), Raw("near", Near1, None)}
MixedPathSets == {SolPaths}
=============================================================================
