------------------------------- MODULE Enclave -------------------------------
(***************************************************************************)
(* Who may sign what (live/signing/): the policies the code writes for the *)
(* signing service (provisionPrivy.ts), and the server's own signer        *)
(* (privySigner.ts), which reads the wallet's policies and then asks.      *)
(*                                                                         *)
(* The service is external.  It signs a request that comes with the        *)
(* owner's signature, if the wallet has an owner, and that a rule of an    *)
(* attached policy allows, if the wallet has a policy; and it changes a    *)
(* wallet for the owner.  A wallet may have a signer beside its owner,     *)
(* whose own policies take the place of the wallet's for what it signs:    *)
(* the isolated Trader has one for the server.  Addresses are parties,     *)
(* amounts are small; one chain.                                           *)
(***************************************************************************)
EXTENDS Naturals, FiniteSets

VARIABLES vault,     \* the wallet at the service: its owner and policies, and
                     \* whom the server signs as, with that signer's policies
          asking,    \* the server found the wallet guarded and goes on to ask
          stray      \* it got a signature while its own policy was not attached

enclaveVars == <<vault, asking, stray>>

Asset == {"USDG", "WETH", "ETH"}
Party == {"holder", "trader", "operator", "other"}   \* holder: 0x AllowanceHolder
Quantity == 0 .. 2

\* What capUsd, 5 USDG, 0.005 ETH and the top-up come to here.
CapUsd == 1
Exactly == 1

Request == [act : {"approve", "exec", "transfer", "native"}, token : Asset,
            party : Party, amount : Quantity, value : Quantity]

\* A withdrawal's rules are for the assets that were held when it was written.
PolicyOf(name, rules) == [name |-> name, rules |-> rules]
Standing == PolicyOf("standing", {})
Policy ==
  {Standing, PolicyOf("funding", {}), PolicyOf("top-up", {})}
    \cup {PolicyOf("withdrawal", rules) : rules \in (SUBSET Asset) \ {{}}}

\* buildPolicy: approvals of the holder and swaps through it, up to the cap.
StandingAllows(r) ==
  /\ r.token \in {"USDG", "WETH"} /\ r.amount <= CapUsd /\ r.party = "holder"
  /\ r.act = "approve" \/ (r.act = "exec" /\ r.value = 0)

\* buildManagerGasTopUpPolicy.
TopUpAllows(r) == r.act = "native" /\ r.party = "trader" /\ r.value = Exactly

\* buildManagerFundingPolicy.
FundingAllows(r) ==
  \/ TopUpAllows(r)
  \/ r.act = "transfer" /\ r.token = "USDG" /\ r.party = "trader" /\ r.amount = Exactly

\* Mutant of WithdrawalAllows: the destination is not pinned.
WithdrawalAnywhere(r, rules) ==
  \/ r.act = "transfer" /\ r.token \in rules \ {"ETH"} /\ r.value = 0
  \/ r.act = "native" /\ "ETH" \in rules

\* buildWithdrawalPolicy; the caps are all that was held.
WithdrawalAllows(r, rules) ==
  /\ r.party = "operator"
  /\ \/ r.act = "transfer" /\ r.token \in rules \ {"ETH"} /\ r.value = 0
     \/ r.act = "native" /\ "ETH" \in rules

Allows(p, r) ==
  CASE p.name = "standing" -> StandingAllows(r)
    [] p.name = "funding" -> FundingAllows(r)
    [] p.name = "top-up" -> TopUpAllows(r)
    [] p.name = "withdrawal" -> WithdrawalAllows(r, p.rules)

\* A policy under which nothing leaves for a stranger, and no more than the
\* cap is in reach of the holder.
Confined ==
  {p \in Policy : \A r \in Request : Allows(p, r) =>
     r.party # "other" /\ (r.party = "holder" => r.amount <= CapUsd)}
-----------------------------------------------------------------------------
(* The service.                                                             *)

\* fits: the service takes the requests of the command, and of the server, as
\* the owner's.
MayChange == vault.owner \in {"none", "fits"}
MaySign(r) ==
  /\ MayChange
  /\ vault.policies = {} \/ \E p \in vault.policies : Allows(p, r)

Wear(policies) == vault' = [vault EXCEPT !.policies = policies]

\* What the server signs under: the wallet's policies as the owner, its own as
\* a signer beside the owner (PRIVY_SIGNER_ID); that one may not be attached.
InForce == IF vault.signer = "owner" THEN vault.policies ELSE vault.override
ServerMaySign(r) ==
  IF vault.signer = "owner" THEN MaySign(r)
  ELSE vault.signer = "attached" /\ \E p \in vault.override : Allows(p, r)

EnclaveTypeOK ==
  /\ vault \in [owner : {"none", "fits", "other"}, policies : SUBSET Policy,
               signer : {"owner", "attached", "missing"}, override : {{}, {Standing}}]
  /\ asking \in BOOLEAN /\ stray \in BOOLEAN

\* A wallet with an owner or none, and with the standing policy or none, which
\* may be the override of the server's signer instead.
EnclaveInit ==
  /\ vault \in [owner : {"none", "fits", "other"}, policies : {{}, {Standing}},
               signer : {"owner", "attached", "missing"}, override : {{}, {Standing}}]
  /\ vault.signer # "attached" => vault.override = {}
  /\ asking = FALSE /\ stray = FALSE
-----------------------------------------------------------------------------
(* The server's signer: the owner's key, or that of the signer beside it,   *)
(* is in its environment, and PRIVY_POLICY_IDS names the standing policy.    *)

\* isReady: an owner, the signer if it is not the owner, and in force exactly
\* the policies that were approved.
Guarded == vault.owner # "none" /\ vault.signer # "missing" /\ InForce = {Standing}

\* The checks of signTransaction before it asks: the allowlist is USDG, WETH
\* and the holder, and no native value.
TargetOf(r) == IF r.act \in {"approve", "transfer"} THEN r.token ELSE r.party
SignerTakes(r) == TargetOf(r) \in {"USDG", "WETH", "holder"} /\ r.value = 0

\* What signPrepared asks for is a prepared row: approvals and swaps.
Asked == {r \in Request : r.act \in {"approve", "exec"}}

ServerAsks ==
  /\ ~asking /\ Guarded /\ asking' = TRUE
  /\ UNCHANGED <<vault, stray>>

\* The wallet may have changed since; the service has the last word.
ServerSigns ==
  /\ asking /\ asking' = FALSE
  /\ \/ stray' = stray
     \/ /\ \E r \in Asked : SignerTakes(r) /\ ServerMaySign(r)
        /\ stray' = (stray \/ Standing \notin InForce)
  /\ UNCHANGED vault
=============================================================================
