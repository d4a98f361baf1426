----------------------------- MODULE ProxyTasks -----------------------------
(***************************************************************************)
(* The tasks that put the other contracts on a chain: the proxy admins,    *)
(* the gateway, the airdrop distribution and the flash claim registry      *)
(* behind proxies (tasks/full), receivers and earlier registries, the      *)
(* mocks (tasks/dev), and the tasks that verify what is there              *)
(* (tasks/verifications).  Deployment has the registry and its bNFTs;      *)
(* here they are taken to be deployed.                                     *)
(*                                                                         *)
(* As in Deployment, a task is a list of steps cut where the program can   *)
(* be stopped.  An address follows from the sender and his nonce: it is    *)
(* known when a transaction is sent, and what is sent in the place of a    *)
(* lost one gets its address.                                              *)
(***************************************************************************)
EXTENDS EtherscanVerification, SequencesExt

CONSTANTS
  Deployer, Other, None, \* accounts: the one that signs, any other, nobody
  Symbols,     \* collections of the mocks (NftContractId)
  Bound,       \* number of bNFTs the registry lists
  MaxNonce,    \* bound: transactions of the deployer on the chain
  MaxPool,     \* bound: unmined transactions a task may start over
  MaxTrouble   \* bound: healthy tasks killed, and losses of transactions

ASSUME ProxyConstants ==
  /\ Deployer # Other /\ None \notin {Deployer, Other} /\ Bound \in Nat
  /\ {MaxNonce, MaxPool, MaxTrouble} \subseteq Nat

VARIABLES
  ledger,  \* what each nonce of the deployer made, of type Seq(Entry)
  pool,    \* his transactions that are not mined, oldest first
  file,    \* the address file of the network: an address for a key, or 0
  run,     \* the task that runs
  ended,   \* a task that was completed, until another begins
  trouble

proxyVars == <<ledger, pool, file, run, ended, attempt, trouble>>

\* The contracts behind proxies, each with the key of its implementation and
\* that of the admin its task uses.
ProxyKeys == {"BoundPunkGateway", "AirdropDistribution", "UserFlashclaimRegistryV3"}

Impl(key) == CASE key = "BoundPunkGateway"    -> "BoundPunkGatewayImpl"
               [] key = "AirdropDistribution" -> "AirdropDistributionImpl"
               [] OTHER                       -> "UserFlashclaimRegistryV3Impl"

AdminOf(key) == IF key = "BoundPunkGateway" THEN "ProxyAdmin"
                ELSE "ProxyAdminWithoutTimelock"

AdminKeys == {"ProxyAdmin", "ProxyAdminWithoutTimelock"}

\* Contracts that are deployed as they are, under one key.
PlainKeys == {"AirdropFlashLoanReceiver", "AirdropFlashLoanReceiverV2",
              "AirdropFlashLoanReceiverV3Impl",
              "UserFlashclaimRegistry", "UserFlashclaimRegistryV2",
              "MockFlashLoanReceiver", "MockAirdropProject", "MockBNFTMinter",
              "MintableERC721", "CryptoPunksMarket", "WrappedPunk"}

\* What a contract can be.
ContractKeys == ProxyKeys \cup {Impl(k) : k \in ProxyKeys} \cup AdminKeys \cup PlainKeys

Keys == ContractKeys \cup Symbols

\* The ids of collections (NftContractId) are no names of contracts (eContractid).
ASSUME SymbolsNamed ==
  IsFiniteSet(Symbols) /\ Symbols # {} /\ Symbols \cap ContractKeys = {}

\* A contract of a kind, the implementation and the admin of a proxy, and the
\* owner of a receiver; or a call, which makes none.
Entry == [kind : ContractKeys \cup {"call"}, logic : Nat, admin : Nat,
          owner : {Deployer, Other, None}]

IsKind(l, a, kind) == a \in DOMAIN l /\ l[a].kind = kind

-----------------------------------------------------------------------------
\* Transactions: op is a kind to be deployed, "upgrade" or "initialize".

Message(op, to, logic, admin) == [op |-> op, to |-> to, logic |-> logic, admin |-> admin]

Passes(l, tx) ==
  CASE tx.op = "upgrade"    -> l[tx.to].admin = tx.admin /\ tx.logic \in DOMAIN l
    [] tx.op = "initialize" -> l[tx.to].owner = None
    [] tx.op \in ProxyKeys  -> tx.logic \in DOMAIN l
    [] OTHER                -> TRUE

Call == [kind |-> "call", logic |-> 0, admin |-> 0, owner |-> None]

\* The ledger after a transaction, which takes its nonce if it is reverted too.
Execute(l, tx) ==
  IF ~Passes(l, tx) THEN Append(l, Call)
  ELSE CASE tx.op = "upgrade"    -> Append([l EXCEPT ![tx.to].logic = tx.logic], Call)
         [] tx.op = "initialize" -> Append([l EXCEPT ![tx.to].owner = Deployer], Call)
         [] OTHER -> Append(l, [Call EXCEPT !.kind = tx.op, !.logic = tx.logic,
                                            !.admin = tx.admin])

-----------------------------------------------------------------------------
\* Tasks.

Move(do, x) == [do |-> do, x |-> x]

\* flag says how the task was called: "no", or with a key for Etherscan or not.
Verified(flag) == IF flag = "no" THEN << >> ELSE <<Move("verify", None)>>

\* withSaveAndVerify of one contract.
Plain(key, flag) == <<Move("make", key), Move("record", key)>> \o Verified(flag)

\* deployBoundPunkGateway and deployAirdropDistribution note the implementation
\* once it is sent and save it once it is mined, under the name of the proxy;
\* deployUserFlashclaimRegistryV3 saves and verifies it twice.
Implementation(key, flag) ==
  IF key = "UserFlashclaimRegistryV3"
  THEN Plain(Impl(key), flag) \o <<Move("record", key)>> \o Verified(flag)
  ELSE <<Move("make", Impl(key)), Move("note", Impl(key)), Move("record", key)>>
         \o Verified(flag)

NewProxy(key, flag) ==
  (IF key = "UserFlashclaimRegistryV3"
   THEN Plain("AirdropFlashLoanReceiverV3Impl", flag) ELSE << >>)
  \o Plain(key, flag)

\* Faulty (no part of the model): the file keeps the implementation where the
\* proxy belongs.
UpgradeUnlisted(key, conf) == <<Move("upgrade", conf), Move("wait", None)>>

UpgradeProxy(key, conf) ==
  <<Move("enlist", <<key, conf>>), Move("upgrade", conf), Move("wait", None)>>

\* conf is the proxy the pool configuration names, or 0.
DeployBehind(key, conf, flag) ==
  Implementation(key, flag)
  \o (IF conf = 0 THEN NewProxy(key, flag) ELSE UpgradeProxy(key, conf))

\* The admin the configuration names, or a new one.
Admin(key, conf, flag) ==
  IF conf = 0 THEN Plain(key, flag) ELSE <<Move("enlist", <<key, conf>>)>>

Each(list, Moves(_)) == FlattenSeq([k \in DOMAIN list |-> Moves(list[k])])

SymbolList == SetToSeq(Symbols)

\* A mock collection goes into the file twice; wrapped punks come with a market.
MockNft(s, flag) ==
  (IF s = "WPUNKS" THEN Plain("CryptoPunksMarket", flag) \o Plain("WrappedPunk", flag)
   ELSE Plain("MintableERC721", flag))
  \o <<Move("record", s)>>

\* Collections the file has are passed over; wrapped punks are a plain mock here.
AddNft(s, flag) ==
  <<Move("unlessThere", s)>> \o Plain("MintableERC721", flag) \o <<Move("record", s)>>

Check(key) == <<Move("find", key), Move("verify", None)>>
Ask        == <<Move("verify", None)>>

\* Two admins, the registry's and the bNFTs' implementation, the registry, the
\* bNFTs it lists, the gateway.
VerifyGeneral ==
  Ask \o Ask \o Ask \o Ask \o Ask \o Each([b \in 1..Bound |-> b], LAMBDA b : Ask)
  \o Check("BoundPunkGatewayImpl") \o Check("BoundPunkGateway")

\* Of one bNFT the proxy; the receiver is looked up after it.
VerifyBNFT == Ask \o Check("AirdropFlashLoanReceiver")

VerifyFlashclaimV2 ==
  Check("AirdropFlashLoanReceiverV2") \o Check("UserFlashclaimRegistryV2") \o Ask

VerifyFlashclaimV3 ==
  Check("UserFlashclaimRegistryV3Impl") \o Check("UserFlashclaimRegistryV3") \o Ask

VerifyMocks ==
  Each(SymbolList, LAMBDA s : <<Move("find", s)>>) \o Each(SymbolList, LAMBDA s : Ask)

\* conf has the address the pool configuration names, or 0, for each key of it
\* that the task reads.
ProxyProgram(name, conf, flag) ==
  CASE name = "full:deploy-proxy-admin" ->
         Admin("ProxyAdmin", conf["ProxyAdmin"], flag)
           \o Admin("ProxyAdminWithoutTimelock", conf["ProxyAdminWithoutTimelock"], flag)
    [] name = "full:deploy-boundpunk-gateway" ->
         DeployBehind("BoundPunkGateway", conf["BoundPunkGateway"], flag)
    [] name = "full:deploy-airdrop-distribution" ->
         DeployBehind("AirdropDistribution", conf["AirdropDistribution"], flag)
    [] name = "full:deploy-flashclaim-registry-v3" ->
         DeployBehind("UserFlashclaimRegistryV3", conf["UserFlashclaimRegistryV3"], flag)
    [] name = "full:deploy-flashclaim-receiver-v2" ->
         Plain("AirdropFlashLoanReceiverV2", flag)
           \o <<Move("initialize", None), Move("wait", None)>>
    [] name = "full:deploy-flashclaim-registry-v1" -> Plain("UserFlashclaimRegistry", flag)
    [] name = "full:deploy-flashclaim-registry-v2" ->
         <<Move("find", "UserFlashclaimRegistry")>> \o Plain("UserFlashclaimRegistryV2", flag)
    [] name = "dev:deploy-mock-receiver" -> Plain("MockFlashLoanReceiver", flag)
    [] name = "dev:deploy-mock-airdrop"  -> Plain("MockAirdropProject", flag)
    [] name = "dev:deploy-mock-minters"  -> Plain("MockBNFTMinter", "no")
    [] name = "dev:deploy-mock-nfts" -> Each(SymbolList, LAMBDA s : MockNft(s, flag))
    [] name = "dev:add-mock-nfts"    -> Each(SymbolList, LAMBDA s : AddNft(s, flag))
    [] name = "verify:general"              -> VerifyGeneral
    [] name = "verify:bnft"                 -> VerifyBNFT
    [] name = "verify:airdrop-flashclaim-v2" -> VerifyFlashclaimV2
    [] name = "verify:airdrop-flashclaim-v3" -> VerifyFlashclaimV3
    [] name = "verify:airdrop-distribution" -> Check("AirdropDistributionImpl")
    [] name = "verify:mock-nfts"            -> VerifyMocks
    [] name = "verify:mock-airdrops"        -> Check("MockAirdropProject")
    [] OTHER                                -> Ask
-----------------------------------------------------------------------------
\* made: addresses of what the task deployed, in order; conf: the address in the
\* configuration, or 0; awaited: the state of the transaction it waits for.
NoRun == [name |-> "none", todo |-> << >>, key |-> "call", admin |-> 0, made |-> << >>,
          verify |-> "no", awaited |-> "nothing"]

Current  == Head(run.todo)
Doing(do) == run # NoRun /\ ~Verifying /\ Current.do = do

\* The run after the step it is at, with r for its other fields.
Next1(r) ==
  IF Len(run.todo) = 1 THEN run' = NoRun /\ ended' = r
  ELSE run' = [r EXCEPT !.todo = Tail(@)] /\ ended' = ended

ProxyInit ==
  /\ ledger = << >> /\ pool = << >> /\ file = [k \in Keys |-> 0]
  /\ run = NoRun /\ ended = NoRun /\ attempt = NotVerifying /\ trouble = 0

KeyOf(name) == CASE name = "full:deploy-boundpunk-gateway"       -> "BoundPunkGateway"
                 [] name = "full:deploy-airdrop-distribution"    -> "AirdropDistribution"
                 [] name = "full:deploy-flashclaim-registry-v3"  -> "UserFlashclaimRegistryV3"
                 [] OTHER                                        -> "call"

\* The task asks the admin in the file for its owner before anything else.
AdminThere(name) ==
  KeyOf(name) \in ProxyKeys =>
    \E kind \in AdminKeys : IsKind(ledger, file[AdminOf(KeyOf(name))], kind)

\* The keys of the pool configuration a task reads, and what they may hold.  It
\* is edited by hand: a key names no contract, or one that is there; either of
\* the admins is a proxy admin, and may be the other's.
ConfigKeys(name) == CASE KeyOf(name) \in ProxyKeys      -> {KeyOf(name)}
                      [] name = "full:deploy-proxy-admin" -> AdminKeys
                      [] OTHER                            -> {}
Configured(name) ==
  {conf \in [ConfigKeys(name) -> {0} \cup DOMAIN ledger] :
     \A key \in ConfigKeys(name) :
       conf[key] # 0 =>
         ledger[conf[key]].kind \in (IF key \in AdminKeys THEN AdminKeys ELSE {key})}

Transactions == {"make", "upgrade", "initialize"}
SpaceFor(program) ==
  /\ Len(ledger) + Len(pool)
       + Len(SelectSeq(program, LAMBDA m : m.do \in Transactions)) <= MaxNonce
  /\ Len(pool) <= MaxPool

Begin(name, conf, flag) ==
  /\ run = NoRun /\ AdminThere(name)
  /\ LET program == ProxyProgram(name, conf, flag)
         key     == KeyOf(name)
     IN /\ SpaceFor(program)
        /\ run' = [NoRun EXCEPT !.name = name, !.todo = program, !.key = key,
                      !.verify = flag,
                      !.admin = IF key \in ProxyKeys THEN file[AdminOf(key)] ELSE 0]
  /\ ended' = NoRun
  /\ UNCHANGED <<ledger, pool, file, attempt, trouble>>

\* The contract deployed last, which an address is saved of.
Latest == run.made[Len(run.made)]

\* The implementation is the first contract a task with a proxy deploys.
Logic == run.made[1]

Sending ==
  CASE Current.do = "make" ->
         IF Current.x \in ProxyKeys THEN Message(Current.x, 0, Logic, run.admin)
         ELSE Message(Current.x, 0, 0, 0)
    [] Current.do = "upgrade" -> Message("upgrade", Current.x, Logic, run.admin)
    [] OTHER                  -> Message("initialize", Latest, 0, 0)

\* The states a node may estimate the gas of a transaction in.
Previews == {ledger, FoldLeft(Execute, ledger, pool)}

transact ==
  /\ run # NoRun /\ ~Verifying /\ Current.do \in Transactions
  /\ \E l \in Previews : Passes(l, Sending)
  /\ pool' = Append(pool, Sending)
  /\ LET address == Len(ledger) + Len(pool) + 1
     IN Next1([run EXCEPT !.awaited = "sent",
                          !.made = IF Current.do = "make" THEN Append(@, address) ELSE @])
  /\ UNCHANGED <<ledger, file, attempt, trouble>>

\* insertContractAddressInDb of an implementation that is not mined yet.
note ==
  /\ Doing("note")
  /\ file' = [file EXCEPT ![Current.x] = Latest]
  /\ Next1(run)
  /\ UNCHANGED <<ledger, pool, attempt, trouble>>

\* What was sent last is mined and went through.
Through == run.awaited \in {"mined", "nothing"}

record ==
  /\ Doing("record") /\ Through
  /\ file' = [file EXCEPT ![Current.x] = Latest]
  /\ Next1([run EXCEPT !.awaited = "nothing"])
  /\ UNCHANGED <<ledger, pool, attempt, trouble>>

wait ==
  /\ Doing("wait") /\ Through
  /\ Next1([run EXCEPT !.awaited = "nothing"])
  /\ UNCHANGED <<ledger, pool, file, attempt, trouble>>

\* The file is given the address the configuration has.
enlist ==
  /\ Doing("enlist")
  /\ file' = [file EXCEPT ![Current.x[1]] = Current.x[2]]
  /\ Next1(run)
  /\ UNCHANGED <<ledger, pool, attempt, trouble>>

\* A getter reads an address from the file.
find ==
  /\ Doing("find") /\ file[Current.x] # 0
  /\ Next1(run)
  /\ UNCHANGED <<ledger, pool, file, attempt, trouble>>

\* The deployment of a collection that is in the file is passed over.
unlessThere ==
  /\ Doing("unlessThere")
  /\ LET steps == IF file[Current.x] = 0 THEN 1 ELSE Len(AddNft(Current.x, run.verify))
     IN IF Len(run.todo) = steps THEN run' = NoRun /\ ended' = run
        ELSE /\ run' = [run EXCEPT !.todo = SubSeq(@, steps + 1, Len(@))]
             /\ ended' = ended
  /\ UNCHANGED <<ledger, pool, file, attempt, trouble>>

\* verifyContract, with a key for Etherscan and a network it serves.
verify ==
  /\ Doing("verify") /\ run.verify # "keyless"
  /\ verifyEtherscanContract
  /\ UNCHANGED <<ledger, pool, file, run, ended, trouble>>

submit ==
  /\ run # NoRun
  /\ \/ \E answer \in Retried : retry(answer) /\ UNCHANGED <<run, ended>>
     \/ \E answer \in Final : resume(answer) /\ Next1(run)
  /\ UNCHANGED <<ledger, pool, file, trouble>>

fail ==
  /\ run # NoRun /\ ~Verifying
  /\ \/ run.awaited = "reverted" /\ Current.do \in {"record", "wait"}
     \/ Current.do \in Transactions /\ \E l \in Previews : ~Passes(l, Sending)
     \/ Current.do = "find" /\ file[Current.x] = 0
     \/ Current.do = "verify" /\ run.verify = "keyless"
  /\ run' = NoRun
  /\ UNCHANGED <<ledger, pool, file, ended, attempt, trouble>>

\* The operator stops a task: one that waits for a lost transaction, or any.
stop ==
  /\ run # NoRun
  /\ \/ run.awaited = "lost" /\ trouble' = trouble
     \/ trouble < MaxTrouble /\ trouble' = trouble + 1
  /\ run' = NoRun /\ attempt' = NotVerifying
  /\ UNCHANGED <<ledger, pool, file, ended>>

-----------------------------------------------------------------------------
\* The task's own transaction is the last.
mined ==
  /\ pool # << >>
  /\ ledger' = Execute(ledger, Head(pool))
  /\ pool' = Tail(pool)
  /\ run' = IF Len(pool) = 1 /\ run.awaited = "sent"
            THEN [run EXCEPT !.awaited = IF Passes(ledger, Head(pool))
                                         THEN "mined" ELSE "reverted"]
            ELSE run
  /\ UNCHANGED <<file, ended, attempt, trouble>>

\* A transaction is dropped, and with it those that come after its nonce.
lost ==
  /\ pool # << >> /\ trouble < MaxTrouble
  /\ \E k \in 0..(Len(pool) - 1) : pool' = SubSeq(pool, 1, k)
  /\ run' = IF run.awaited = "sent" THEN [run EXCEPT !.awaited = "lost"] ELSE run
  /\ trouble' = trouble + 1
  /\ UNCHANGED <<ledger, file, ended, attempt>>

\* Anybody may initialize a receiver that is not.
initializedByOther(a) ==
  /\ IsKind(ledger, a, "AirdropFlashLoanReceiverV2") /\ ledger[a].owner = None
  /\ ledger' = [ledger EXCEPT ![a].owner = Other]
  /\ UNCHANGED <<pool, file, run, ended, attempt, trouble>>

Advances == transact \/ note \/ record \/ wait \/ enlist \/ find \/ unlessThere
              \/ verify \/ submit \/ fail

\* names: the tasks that are run; flags: how they are told to verify.
ProxyNext(names, flags) ==
  \/ \E name \in names, flag \in flags : \E conf \in Configured(name) : Begin(name, conf, flag)
  \/ transact \/ note \/ record \/ wait \/ enlist \/ find \/ unlessThere
  \/ verify \/ submit \/ fail \/ stop
  \/ mined \/ lost
  \/ \E a \in DOMAIN ledger : initializedByOther(a)

\* A task goes on, the chain mines, and a task that hangs is stopped.
ProxyFairness ==
  /\ WF_proxyVars(Advances) /\ WF_proxyVars(mined)
  /\ WF_proxyVars(run.awaited = "lost" /\ stop)

-----------------------------------------------------------------------------
\* A proxy that was ever deployed or upgraded runs a contract that is there and
\* of its own kind, though the file, for a time or for good, names another
\* under the implementation's key or the proxy's (contracts-deployments.ts:213).
ProxiesRunTheirs ==
  \A a \in DOMAIN ledger :
    ledger[a].kind \in ProxyKeys =>
      IsKind(ledger, ledger[a].logic, Impl(ledger[a].kind))

Mocks == {"dev:deploy-mock-nfts", "dev:add-mock-nfts"}

\* After a task that was completed, whatever went before, the file tells what is
\* on the chain: the proxy under its key, the implementation it runs under the
\* other, its admin; a receiver that is the deployer's own; a collection under
\* each symbol, and none under two (airdrop.ts:122, contracts-deployments.ts:176).
FileDescribes ==
  /\ ended.key \in ProxyKeys =>
       LET proxy == file[ended.key] IN
       /\ IsKind(ledger, proxy, ended.key)
       /\ ledger[proxy].logic = file[Impl(ended.key)]
       /\ ledger[proxy].admin = file[AdminOf(ended.key)]
  /\ ended.name = "full:deploy-flashclaim-receiver-v2" =>
       /\ IsKind(ledger, file["AirdropFlashLoanReceiverV2"], "AirdropFlashLoanReceiverV2")
       /\ ledger[file["AirdropFlashLoanReceiverV2"]].owner = Deployer
  /\ ended.name \in Mocks =>
       \A s, r \in Symbols : /\ file[s] \in DOMAIN ledger
                             /\ file[s] = file[r] => s = r

\* Every task comes to an end, by itself or because the operator stops one whose
\* transaction was lost; Etherscan, whatever it answers, does not keep a
\* deployment (etherscan-verification.ts:102, "skip retries and resume deployment").
TasksEnd == run # NoRun ~> run = NoRun
=============================================================================
