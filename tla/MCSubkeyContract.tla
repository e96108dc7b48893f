-------------------------- MODULE MCSubkeyContract --------------------------
(***************************************************************************)
(* A small instance of SubkeyContract: one subkey whose policy counts the  *)
(* native transfers of a window, raw requests it meters and one it does    *)
(* not need a policy for, and template requests under the same policy.     *)
(***************************************************************************)
EXTENDS SubkeyContract

CONSTANTS Path, Dest, Token, Other

MCGrain == [yocto |-> 1, wei |-> 2, lamports |-> 4, lamports128 |-> 4,
            sats |-> 4, tokens |-> 8]
MCMaxUnits == [parser \in Parsers |-> 40]

SolPolicy ==
  [template |-> "sol_native_transfer_v1", asset |-> "native", assetId |-> None,
   maxPerTx |-> 8, maxPerPeriod |-> None, period |-> 1, maxTxCount |-> 1,
   allow |-> {}, periodStart |-> None, spent |-> None, txCount |-> None]
EvmPolicy == [SolPolicy EXCEPT !.template = Other]

MCPathSets ==
  {{[chain |-> chain, path |-> Path] : chain \in {"solana", "evm", "bitcoin"}}}

Raw(chain, kind, amount) ==
  [chain |-> chain, path |-> Path, memo |-> None,
   payload |-> [kind |-> kind, dest |-> Dest, token |-> None, amount |-> amount]]

MCRawRequests == {Raw("solana", "native", 4), Raw("bitcoin", "other", 0)}

SolTemplate == [key |-> <<"solana", "sol_native_transfer_v1">>,
                template |-> [kind |-> "native", allowedTokens |-> None]]
EvmTemplate == [key |-> <<"evm", Other>>,
                template |-> [kind |-> "native", allowedTokens |-> None]]

TemplateRequest(chain, template, amount, buildable) ==
  [chain |-> chain, path |-> Path, template |-> template, dest |-> Dest,
   amount |-> amount, token |-> None, buildable |-> buildable]

SolRequest == TemplateRequest("solana", "sol_native_transfer_v1", 8, FALSE)
EvmRequest == TemplateRequest("evm", Other, 4, TRUE)
EvmBroken == TemplateRequest("evm", Other, 4, FALSE)

---------------------------------------------------------------------------
(* Budget: raw and template requests under one metered policy.             *)

BudgetPolicies == {SolPolicy}
BudgetTemplates == {SolTemplate}
BudgetRequests == {SolRequest}

---------------------------------------------------------------------------
(* Templates: EVM requests under a template policy and a token cap.        *)

EvmPolicies == {EvmPolicy}
EvmTemplates == {EvmTemplate}
EvmCaps == {[key |-> <<"evm", None>>, max |-> 4]}
EvmRequests == {EvmRequest, EvmBroken}
=============================================================================
