------------------------------- MODULE Custody -------------------------------
(***************************************************************************)
(* The operator's ceremonies with a wallet's custody, each a command run   *)
(* by hand, again after a failure: provision (provisionPrivyWallet),       *)
(* isolate (provisionIsolatedTrader), fund, fund-usdg and top-up-gas       *)
(* (ops/mainnetExperiment.ts), which pay the Trader from the Manager's     *)
(* wallet and book it (live/accounts.ts), and sweep                        *)
(* (ops/sweepToOperator.ts).  All but isolate attach a policy of their own *)
(* to the wallet while they sign and put back what they found.             *)
(*                                                                         *)
(* An action is the code between two requests.  A request to the service   *)
(* is done and answered, done and its answer lost, or not done.  A command *)
(* is killed anywhere, and what it wrote in its file stays.  Nothing else  *)
(* changes the wallet meanwhile.                                           *)
(***************************************************************************)
EXTENDS Enclave, Sequences, SequencesExt

CONSTANTS MaxRun    \* bound: times the command is run

ASSUME CustodyAssumption == MaxRun \in Nat

VARIABLES command,   \* what the operator runs
          run,       \* the run, from pc = "off"
          runs,      \* how often it ran
          file,      \* the command's state file
          made,      \* what isolate made at the service
          sent,      \* what was signed for each leg, in order (external: mined)
          booked,    \* custody_transfers, with both sides and the gas
          accounts,  \* which wallet execution_accounts has for the Trader
          held,      \* the assets the wallet holds
          astray     \* a run left the wallet wearing what it did not find

custodyVars ==
  <<enclaveVars, command, run, runs, file, made, sent, booked, accounts, held, astray>>

Payments == {"fund", "fund-usdg", "top-up-gas"}
Command == Payments \cup {"provision", "isolate", "sweep"}

\* A leg for an asset that is held.
LegIf(a) == IF a \in held THEN <<a>> ELSE <<>>

\* In the order they are sent; tokens first.
LegsOf(c) ==
  CASE c = "fund" -> <<"USDG", "ETH">>
    [] c = "fund-usdg" -> <<"USDG">>
    [] c = "top-up-gas" -> <<"ETH">>
    [] c = "sweep" -> LegIf("USDG") \o LegIf("WETH") \o LegIf("ETH")
    [] OTHER -> <<>>

\* The policy a command writes for itself.
PolicyFor(c) ==
  CASE c = "top-up-gas" -> PolicyOf("top-up", {})
    [] c = "sweep" -> PolicyOf("withdrawal", ToSet(run.legs))
    [] OTHER -> PolicyOf("funding", {})

\* What it asks the service to sign for a leg.
RequestFor(leg) ==
  LET to == IF command = "sweep" THEN "operator" ELSE "trader" IN
  IF leg = "ETH"
    THEN [act |-> "native", token |-> leg, party |-> to, amount |-> 0, value |-> Exactly]
    ELSE [act |-> "transfer", token |-> leg, party |-> to, amount |-> Exactly, value |-> 0]

Made == <<"management-quorum", "runtime-quorum", "runtime-policy", "trader-wallet">>

Unknown == {PolicyOf("unknown", {})}
Plain(policies) == policies \in {{}, {Standing}}
Off == [pc |-> "off", legs |-> <<>>, found |-> Unknown, prev |-> Unknown]
NoFile == [hash |-> [a \in Asset |-> 0], payload |-> {}, prev |-> Unknown]

CustodyTypeOK ==
  /\ EnclaveTypeOK
  /\ command \in Command
  /\ run.pc \in {"off", "again", "read", "attach", "check", "bind", "sign", "send",
                 "wait", "book", "restore", "make"}
  /\ {run.found, run.prev, file.prev} \subseteq (SUBSET Policy) \cup {Unknown}
  /\ runs \in 0 .. MaxRun
  /\ file.hash \in [Asset -> 0 .. MaxRun] /\ file.payload \in SUBSET Asset
  /\ made \in SUBSET ToSet(Made)
  /\ \A a \in Asset : ToSet(sent[a]) \subseteq {"signed", "sent", "ok", "reverted"}
  /\ booked \in SUBSET ({"manager", "trader"} \X Asset \X (1 .. MaxRun))
  /\ accounts \in {"joint", "separate", "rotated"}
  /\ held \in SUBSET Asset
  /\ astray \in BOOLEAN

CustodyInit ==
  /\ EnclaveInit
  /\ command \in Command
  /\ run = Off /\ runs = 0 /\ file = NoFile /\ made = {}
  /\ sent = [a \in Asset |-> <<>>] /\ booked = {}
  /\ accounts \in {"joint", "separate"}
  /\ held \in {Asset, {"USDG", "ETH"}}
  /\ astray = FALSE
-----------------------------------------------------------------------------
(* How a run goes on, fails and ends.                                       *)

Leg == Head(run.legs)
To(pc) == run' = [run EXCEPT !.pc = pc]

\* The run is over; what the wallet wears now, it keeps.
Leave == run' = Off /\ astray' = (astray \/ ~Plain(vault'.policies))

\* An exception; the finally block runs once there is something to restore.
Throw ==
  IF run.prev = Unknown THEN Leave ELSE To("restore") /\ UNCHANGED astray

\* The next leg, or the finally block.
Onward(legs) ==
  /\ run' = [run EXCEPT !.legs = legs, !.prev = run.found,
                        !.pc = IF legs = <<>> THEN "restore" ELSE "sign"]
  /\ UNCHANGED astray

\* Mutant of FirstStep: a rerun of the top-up reads the policies as they are.
FirstStepReads ==
  CASE command = "isolate" -> "make"
    [] command = "top-up-gas" /\ file.hash["ETH"] > 0 -> "send"
    [] OTHER -> "read"

\* A top-up that was signed is only sent again; one that was not puts the
\* policies back before it reads them.
FirstStep ==
  CASE command = "isolate" -> "make"
    [] command = "top-up-gas" /\ file.hash["ETH"] > 0 -> "send"
    [] command = "top-up-gas" /\ file.prev # Unknown -> "again"
    [] OTHER -> "read"

\* separateManagerAndTrader; an unresolved order, or another Trader, refuses.
Separate ==
  IF command \in {"fund", "top-up-gas"} THEN accounts' = "separate"
  ELSE UNCHANGED accounts

\* checkCredentials, before a sweep.
CredentialsFit == vault.owner # "other"

\* The command is run, with whatever the wallet and the file hold by now.
Begin ==
  /\ run.pc = "off" /\ runs < MaxRun /\ runs' = runs + 1
  /\ command = "sweep" => CredentialsFit /\ held # {}
  /\ run' = [pc |-> FirstStep, legs |-> LegsOf(command),
             found |-> file.prev, prev |-> file.prev]
  /\ Separate
  /\ UNCHANGED <<enclaveVars, command, file, made, sent, booked, held, astray>>

\* A request fails or is refused, what is read is not what it must be, a wait
\* times out, or the answer to a signature is lost.
Fails ==
  /\ run.pc \notin {"off", "restore"}
  /\ UNCHANGED vault /\ Throw
  /\ UNCHANGED <<asking, stray, command, runs, file, made, sent, booked, accounts, held>>

\* Killed, or the restore in the finally block fails.
Killed ==
  /\ run.pc # "off"
  /\ UNCHANGED vault /\ Leave
  /\ UNCHANGED <<asking, stray, command, runs, file, made, sent, booked, accounts, held>>
-----------------------------------------------------------------------------
(* The wallet's policies.                                                   *)

atWallet ==
  <<asking, stray, command, runs, made, sent, booked, held>>

\* restoreManagerPolicies, for a top-up that is run again; it may yet fail.
RestoredAgain ==
  /\ run.pc = "again" /\ MayChange
  /\ Wear(run.prev)
  /\ To("read") \/ To("restore")
  /\ UNCHANGED <<atWallet, file, accounts, astray>>

\* provisionPrivyWallet takes a wallet with an owner or without.
ProvisionRead ==
  /\ run.pc = "read" /\ command = "provision"
  /\ To("attach")
  /\ UNCHANGED <<vault, atWallet, file, accounts, astray>>

\* The top-up writes down what it found before it changes it.
WalletRead ==
  /\ run.pc = "read" /\ command # "provision" /\ vault.owner # "none"
  /\ IF command = "top-up-gas"
       THEN /\ file' = [file EXCEPT !.prev = vault.policies]
            /\ run' = [run EXCEPT !.pc = "attach", !.found = vault.policies,
                                  !.prev = vault.policies]
       ELSE /\ run' = [run EXCEPT !.pc = "attach", !.found = vault.policies]
            /\ UNCHANGED file
  /\ UNCHANGED <<vault, atWallet, accounts, astray>>

\* The policy is made and put on the wallet, and a wallet without an owner
\* gets the command's key for one; nothing is put back after it.
ProvisionAttached ==
  /\ run.pc = "attach" /\ command = "provision" /\ MayChange
  /\ vault' = [vault EXCEPT !.owner = "fits", !.policies = {Standing}] /\ Leave
  /\ UNCHANGED <<atWallet, file, accounts>>

\* The policy is made and put on the wallet, whether the answer comes or not.
Attached ==
  /\ run.pc = "attach" /\ command # "provision" /\ MayChange
  /\ Wear({PolicyFor(command)})
  /\ Throw \/ (To("check") /\ UNCHANGED astray)
  /\ UNCHANGED <<atWallet, file, accounts>>

\* The read-back shows it, and the address fits.
Checked ==
  /\ run.pc = "check" /\ UNCHANGED vault
  /\ IF command = "fund-usdg"
       THEN run' = [run EXCEPT !.pc = "bind", !.prev = run.found] /\ UNCHANGED astray
       ELSE Onward(run.legs)
  /\ UNCHANGED <<atWallet, file, accounts>>

\* rotateTraderAccount, unless the accounts are not apart yet.
Rotated ==
  /\ run.pc = "bind" /\ accounts # "joint"
  /\ accounts' = "rotated" /\ Onward(run.legs)
  /\ UNCHANGED <<vault, atWallet, file>>

\* The finally block: what was found is worn again.
Restored ==
  /\ run.pc = "restore" /\ MayChange
  /\ Wear(run.prev) /\ Leave
  /\ UNCHANGED <<atWallet, file, accounts>>
-----------------------------------------------------------------------------
(* Signing, sending and booking a leg.                                      *)

Try == Len(sent[Leg])
atLeg == <<enclaveVars, command, runs, made, accounts>>

\* Mutant of Noted: the file is written once the transaction is final.
NotedLate == UNCHANGED file

\* The hash and the payload are written before anything is sent; a sweep
\* keeps no file.
Noted ==
  IF command = "sweep" THEN UNCHANGED file
  ELSE file' = [file EXCEPT !.hash[Leg] = Try + 1, !.payload = @ \cup {Leg}]

\* An earlier run signed this leg; fund does not send it again.
SignedBefore ==
  /\ run.pc = "sign" /\ file.hash[Leg] > 0
  /\ To(IF command = "fund" \/ Leg \notin file.payload THEN "wait" ELSE "send")
  /\ UNCHANGED <<atLeg, file, sent, booked, held, astray>>

\* signPrivyOperatorTransaction.
Signed ==
  /\ run.pc = "sign" /\ file.hash[Leg] = 0 /\ MaySign(RequestFor(Leg))
  /\ sent' = [sent EXCEPT ![Leg] = Append(@, "signed")]
  /\ Noted /\ To("send")
  /\ UNCHANGED <<atLeg, booked, held, astray>>

\* The chain takes it, or knows it already; the answer may be lost.  One that
\* is mined makes the sender fail.
SentOut ==
  /\ run.pc = "send"
  /\ \/ /\ command # "sweep" /\ Leg \notin file.payload     \* booked before
        /\ To("wait") /\ UNCHANGED <<sent, astray>>
     \/ /\ sent[Leg][Try] \in {"signed", "sent"}
        /\ sent' = [sent EXCEPT ![Leg][Try] = "sent"]
        /\ Throw \/ (To("wait") /\ UNCHANGED astray)
  /\ UNCHANGED <<atLeg, file, booked, held>>

\* Final, and it is the transfer it must be.  A top-up drops the payload when
\* it has booked, the others before.
Waited ==
  /\ run.pc = "wait" /\ sent[Leg][Try] = "ok"
  /\ IF command = "sweep" THEN Onward(Tail(run.legs)) ELSE To("book") /\ UNCHANGED astray
  /\ IF command \in {"fund", "fund-usdg"} THEN file' = [file EXCEPT !.payload = @ \ {Leg}]
     ELSE UNCHANGED file
  /\ UNCHANGED <<atLeg, sent, booked, held>>

\* recordFunding: what leaves one account comes to the other.
Sides(leg, k) == {<<account, leg, k>> : account \in {"manager", "trader"}}

\* recordCustodyTransfer: once by its hash, from the Manager to the Trader.
Recorded(leg, k) ==
  accounts # "joint" /\ booked' = booked \cup Sides(leg, k)

Booked ==
  /\ run.pc = "book" /\ Recorded(Leg, Try)
  /\ IF command = "top-up-gas" THEN file' = [file EXCEPT !.payload = @ \ {Leg}]
     ELSE UNCHANGED file
  /\ Onward(Tail(run.legs))
  /\ UNCHANGED <<atLeg, sent, held>>
-----------------------------------------------------------------------------
(* provisionIsolatedTrader: each thing is made once, whatever is repeated.  *)

Provisioned ==
  /\ run.pc = "make" /\ run' \in {Off, run}
  /\ \E n \in 1 .. Len(Made) :
       /\ \A k \in 1 .. n - 1 : Made[k] \in made
       /\ made' = made \cup {Made[n]}
       /\ run' = Off <=> n = Len(Made)
  /\ UNCHANGED <<enclaveVars, command, runs, file, sent, booked, accounts, held, astray>>
-----------------------------------------------------------------------------
(* The chain; a sweep's transaction needs what it moves.                    *)

Mined(a, k) ==
  /\ k \in DOMAIN sent[a] /\ sent[a][k] = "sent"
  /\ \/ sent' = [sent EXCEPT ![a][k] = "reverted"] /\ UNCHANGED held
     \/ /\ command = "sweep" => {a, "ETH"} \subseteq held
        /\ sent' = [sent EXCEPT ![a][k] = "ok"]
        /\ held' = IF command = "sweep" THEN held \ {a} ELSE held
  /\ UNCHANGED <<enclaveVars, command, run, runs, file, made, booked, accounts, astray>>

CustodyNext ==
  \/ Begin \/ Fails \/ Killed \/ RestoredAgain \/ ProvisionRead \/ WalletRead
  \/ ProvisionAttached \/ Attached \/ Checked \/ Rotated \/ Restored
  \/ SignedBefore \/ Signed \/ SentOut \/ Waited \/ Booked \/ Provisioned
  \/ (ServerAsks \/ ServerSigns) /\ UNCHANGED
       <<command, run, runs, file, made, sent, booked, accounts, held, astray>>
  \/ \E a \in Asset, k \in 1 .. MaxRun : Mined(a, k)

CustodySpec == CustodyInit /\ [][CustodyNext]_custodyVars
-----------------------------------------------------------------------------
(* Properties.                                                              *)

\* However often a payment is run again after a failure or a kill, it pays at
\* most once and books what it paid and nothing else.
PaysOnce ==
  command # "sweep" => \A a \in Asset :
    /\ Cardinality({k \in DOMAIN sent[a] : sent[a][k] = "ok"}) <= 1
    /\ \A k \in 1 .. MaxRun : Sides(a, k) \cap booked # {} =>
         sent[a][k] = "ok" /\ Sides(a, k) \subseteq booked

\* A command puts back a standing policy and never one of its own, though a
\* run before it was killed between the two; only a top-up remembers what that
\* run found, so the others may after a run that left the wallet changed.
PutsBack ==
  run.prev # Unknown /\ (command = "top-up-gas" \/ ~astray) => Plain(run.prev)

\* Nothing a command attaches lets an asset leave for a stranger, the server
\* gets no signature but under its own policy, and the gas leaves a wallet
\* after the tokens.
NothingStrays ==
  /\ vault.policies \subseteq Confined
  /\ ~stray
  /\ held # {} => "ETH" \in held

CustodySound == PaysOnce /\ PutsBack /\ NothingStrays
=============================================================================
