# bound-nft: TLA+ models, TLC runs and TLAPS proofs

This directory is a verification project for the bound-NFT protocol: Solidity
contracts that take an ERC721 token into custody, give its depositor a
non-transferable *bNFT* in exchange, and let the token out again by flash loan
for the length of one transaction; with them an airdrop distributor, a gateway
for CryptoPunks, the tasks that deploy, upgrade and verify it all, and the scripts that
claim airdrops for the depositors. Paths below are relative to
the repository.

## The system

| Part | State | Operations | Talks to |
|---|---|---|---|
| `contracts/protocol/BNFT.sol`, one proxy per underlying collection | who owns and who minted each bNFT, flash loan approvals and locks, receiver whitelist, re-entrancy guard, acceptance flag, owner, claim admin, registry | `mint`, `burn`, `flashLoan`, approvals, locks, whitelist, airdrop claims, `executeAirdrop`, delegate cash, ENS, Moonbirds nesting, administration | the underlying ERC721, flash loan receivers, airdrop contracts, the registry and the delegate contracts it names |
| `contracts/protocol/BNFTRegistry.sol` | proxy and implementation of every underlying, asset list, generic implementation, symbols, claim admin, delegate contracts | `createBNFT`, `createBNFTWithImpl`, `upgradeBNFTWithImpl`, batch upgrades, setters | the proxies and their implementations |
| `contracts/misc/AirdropFlashLoanReceiver{,V2,V3}.sol` | owner, deploy type, claim records | `executeOperation`, owner-only transfers, approvals and calls | BNFT (called back in a loan), airdrop projects |
| `contracts/misc/AirdropDistribution.sol` | airdrops, users' token lists, claim records, VRF requests and words | `createAirdrop`, `requestVRFRandomWords`, `rawFulfillRandomWords`, configuration, `claimERC721`, `claimERC1155` | Chainlink's VRF coordinator, the registry, airdropped collections |
| `contracts/misc/BoundPunkGateway.sol` | proxy of the punk wrapper | `depositPunk`, `withdrawPunk` | CryptoPunks market, WrappedPunk, BNFT |
| `contracts/mock`, punk market and wrapper | punks, offers, user proxies, wrapped punks | `buyPunk`, `transferPunk`, `offerPunkForSale…`, `registerProxy`, `mint`, `burn` | the gateway, accounts |
| `contracts/libraries`, upgradeability | proxy storage | `upgradeToAndCall` | registry |
| `tasks/deploy`, `tasks/full`, `tasks/dev`, `helpers/` | a JSON file of addresses, the chain | deploy, initialise, create, upgrade and hand over; deploy mocks | all contracts |
| `tasks/verifications`, `helpers/etherscan-verification.ts` | the attempts left | submit sources, again and again if need be | Etherscan |
| `tasks/misc/azuki-tiger.ts`, `clonex-egg.ts`, `bnft-amdin.ts`, `tasks/dev/mock_airdrop.ts`, end of `tasks/full/airdrop.ts` | what the script has found so far | enumerate the tokens that can claim, claim for them, draw up who gets what, configure the distribution | a node, the bNFT contract, the collection, the airdrop distribution |

What interacts: a BNFT function that is moving tokens calls foreign code back
(`onERC721Received`, `executeOperation`, the target of `executeAirdrop`), and
that code may call any function of any contract before the first one goes on.
That is the only concurrency on chain; transactions themselves are atomic and a
revert undoes them. Off chain, a deployment script may stop between two
transactions or between a transaction and its entry in the file, its transactions
may be lost, and the VRF coordinator answers a request when it likes. A claim
script asks its questions one at a time, while the tokens it asks about are
bound, released and sold; a question may get no answer.

What is hard, then: foreign code between two lines of a function; values read
before a call and used after it; a revert in the middle of nested calls; loops
over lists that change while they run; who may end a binding after any history
of approvals, locks, transfers of ownership and upgrades; answers of the VRF
coordinator that are late, lost or to a superseded request; and off chain, a
script stopped half way and run again, an address known before its contract is
there, lists that shift while they are read, and retries that are counted. `PROJECT.json` lists these hazards with
their lines and the properties that cover each.

What makes each part correct:

- **BNFT**: the token behind every bNFT is in the contract or out on a loan that
  is still open; a binding ends only when its token goes to its minter; a minter
  who keeps trying gets his token.
- **BNFTRegistry**: a collection has one bNFT contract, once, for ever; the three
  tables agree with each other and with the proxies at all times.
- **Receivers**: what is borrowed goes back, whatever runs in between; what was
  dropped reaches the recipient or can be fetched by the owner.
- **AirdropDistribution**: an NFT is paid once, a claim is all or nothing, a draw
  rests on an answer to the last request of its own airdrop.
- **BoundPunkGateway**: punk, wrapped punk and bNFT are backed by one another, so
  that one call undoes what one call did.
- **Deployment**: the address file names contracts that are there, where a task goes by
  it; an implementation never passes for a registry of the deployer; a deployment
  that was stopped is finished by a second run; what is handed over is handed over
  whole; a proxy runs a contract of its own kind, whatever the file says meanwhile.
- **Verification**: no answer of Etherscan keeps a deployment from going on.
- **Claim scripts**: a list that was read while nothing moved is complete; a user is
  paired with a token that was his; nobody is credited with an airdrop that is not
  there; who keeps trying has claimed everything in the end.

## The modules

| Module | Models | Kind |
|---|---|---|
| `Vault` | what a bNFT contract promises, transaction by transaction | abstract specification |
| `BNFT` | `protocol/BNFT.sol`, implements `Vault` | component |
| `Catalogue` | what the registry promises those who look a bNFT up | abstract specification |
| `BNFTRegistry` | `protocol/BNFTRegistry.sol` and its proxies, implements `Catalogue` | component |
| `AirdropDistribution` | `misc/AirdropDistribution.sol` and the VRF coordinator | component |
| `BoundPunkGateway` | `misc/BoundPunkGateway.sol` with the punk market, the wrapper and the bNFT contract; implements `Vault`, too | composition |
| `FlashLoanReceiver` | `misc/AirdropFlashLoanReceiver{,V2,V3}.sol` with the loans that call them | component |
| `Deployment` | `tasks/deploy/deploy.ts` and its variants, the address file, the chain and its pool of transactions | composition |
| `EtherscanVerification` | `helpers/etherscan-verification.ts` | component |
| `ProxyTasks` | the other deployments (`tasks/full/airdrop.ts`, `boundpunk-gateway.ts`, `proxy-admin.ts`, the mocks of `tasks/dev`) and `tasks/verifications`; extends `EtherscanVerification` | composition |
| `ClaimScripts` | the claim scripts, with the contracts as far as they ask and call them | composition |
| `MC…` | values of the constants for TLC; `MCTasks` has both `ProxyTasks` and `ClaimScripts` | model checking |
| `…Proofs` | theorems about the component of that name | proofs |

### How a contract becomes a specification

The state of a module is the contract's storage, variable by variable, under the
names of the source where they can be had. An external function is an action of
the same name whose first parameter is `msg.sender`; its `require`s and modifiers
are the conjuncts in front. A call whose requirements fail reverts and leaves no
trace, so it is no step.

A function that hands control to nobody is one step, as a transaction runs alone.
A function that calls foreign code in the middle is several steps: it pushes a
frame on `calls` (in `AirdropDistribution` and `BoundPunkGateway`, where only one
can be open, the variable is `claim` and `loan`), and goes on when the foreign
code has returned. While a frame is there every other action is possible that
the guards (`nonReentrant`) leave open, as that is what the foreign code may do;
accounts without code cannot act then. A frame keeps the storage at its entry:
the action `revert` puts it back, at any time, since foreign code may run out of
gas anywhere.

Abstractions, everywhere: prices, names, symbols, events and URIs are left out;
an ERC20 amount is an item moved whole; parameters are well-formed, as the code
decodes them or reverts. Definitions marked "faulty" in the modules are not part
of the models: each is a slip that could have been made at that line, and the
mutants in `PROJECT.json` put it in its place to show which property notices.

- **BNFT.** `mint` binds and moves in one step, as the recipient is called back
  only when everything is written. `burn` suspends in the transfer to the minter
  (`burnReturns`). `flashLoan` is taken apart: `flashLoan` (checks), `lendNext`
  (one transfer to the receiver), then `settleLoan` (all come back). The airdrop
  claims are `claim…Airdrop`, `claimNext`, `claimReturns`; `executeAirdrop` is
  the call with the acceptance flag open, `airdropCall` what the called contract
  sends meanwhile, `executeAirdropReturns` the end. `sendItem` is what holders of
  the underlying do on their own account.
- **BNFTRegistry.** `createBNFT…` deploys a proxy, runs `initialize` of the
  implementation, which may be foreign code (`Calling`), and then enters the
  tables (`createReturns`); an upgrade with a call likewise (`upgradeReturns`).
  The batch functions are one step: `upgradeTo` runs no foreign code.
- **AirdropDistribution.** `claimAirdrop` is both claim functions up to the loop,
  `payNext` and `skipNext` one turn, `claimReturns` the end. The coordinator is
  `rawFulfillRandomWords`: each request is answered once, with words or without.
  The lot is a nondeterministic choice among what is in stock: random word, block
  and caller may give any index.
- **BoundPunkGateway.** The market, the wrapper and the bNFT contract are
  operators on their storage, a condition and an effect each; `depositPunk` and
  `withdrawPunk` chain them, every call seeing the state its predecessor left.
- **FlashLoanReceiver.** `flashLoan` is the loan up to the project's call,
  including anything that call makes the receiver do (`AsReceiver`);
  `airdropReturns` records the claim, `transferNext` is one transfer of the sweep
  over the token list, `settleLoan` the way back. The owner's functions suspend
  where a recipient with code is called. An approval goes to any address of `Spenders`,
  a bNFT contract too, and `called` and `opened` note those the owner's functions and
  calls as the receiver gave, so that `ReturnApprovals` is about what a loan itself
  leaves. `Version` tells V3 from V1 and V2.
- **Deployment.** A task is data: `Program` translates its body into a list of
  steps, cut where the program can be stopped, and `Start` takes up one when none
  runs. `send` is a step that sends a transaction, after the node's estimate;
  `save`, `enter` and `await` go on when it is mined, the first two by writing
  `db`; `connect` and `bound` are what a task reads from the registry. `throw` and
  `kill` end a task and leave `chain`, `pending` and `db` as they are. `Mine`
  takes the oldest transaction in `pending`, `Lose` drops one with all that follow
  its nonce, `others` is `createBNFT` called by somebody else. `note` is the one entry
  that is written before its contract is mined, `BNFTRegistryImpl`
  (`contracts-deployments.ts:44`); the tasks modelled do not read it. `initialize` is
  somebody else's on a registry implementation (`BNFTRegistry.sol:84`), which has no
  owner until then and is a registry of his afterwards, where anybody makes bNFTs. Contracts are
  numbered in the order they are deployed. `done` remembers the last task that was
  completed, for the properties; its field `quiet` says that no transaction was on
  its way when it began and none was lost since.
- **EtherscanVerification.** `attempt` is the verification under way: submissions
  left, whether only related sources are submitted. `retry` is a submission
  answered with an error that may pass, `resume` the end. The answer is any.
- **ProxyTasks.** Tasks are lists of moves as in `Deployment` (`ProxyProgram`). An
  address follows from the sender and the nonce, so `ledger` is indexed by the
  nonce, an address is a number, and `note` can write one in `file` before the
  transaction is mined, as `insertContractAddressInDb` does for implementations;
  `record` writes it afterwards. After a `lost` the same address is given again.
  `Configured` is what the pool configuration may name: none, or a proxy that is
  there, and for each of the two proxy admins none or a proxy admin that is there. `verify`, `submit` bring in `EtherscanVerification`; the arguments that
  are submitted are not modelled.
- **ClaimScripts.** `world` has the contracts' enumerations as lists, with the swap
  an ERC721Enumerable makes when a token leaves (`Without`), so that what is read
  place by place shifts as it does on chain. `enumerate`, `distribute`,
  `claimGiven` and `carryOut` begin a script, whose `todo` says what it does in which
  order (`Steps`); `lookFirst`, `lookSecond` and `lookFails` are one question each,
  and `TriesAfter` is the counter as the code has it, taken down in the `catch` and
  again in the head of the loop. `bind`, `release`, `sell`, `claimSelf` and
  `setClaimAdmin` are what others do between any two questions. `failed`, `still`
  and `seen` are history, for the properties.

## The runs

`tlc -config <cfg> <MC module>`. All passing runs set `CHECK_DEADLOCK FALSE`:
nobody has to call a contract, and where a bound is used up the model stops.

| Run | Question | States |
|---|---|---|
| `bnft_loans` | With two tokens and a contract that is minter, borrower, receiver and operator at once, do re-entering calls, ids given twice and reverts ever part a bNFT from its token (`Backed`), change a binding under a loan (`LoanFreezesBinding`) or end it by anything but `burn` (`BindingsEndByBurn`)? Is the contract a vault (`ImplementsVault`)? | 450,000 |
| `bnft_airdrops` | Can claims or `executeAirdrop` let a token out that came in without `mint` (`StraysStay`), or an ERC1155 asset in at another time (`ERC1155OnlyByAirdrop`)? Does a minter who keeps trying get his token, in a transaction that is not undone, whatever else goes on (`Redeemable`)? | 666,000 |
| `dist_claims` | Is an NFT paid once (`PaidOnce`), a claim all or nothing (`AllOrNothing`), a list fixed while it is paid (`ListFrozen`), a token spent against a mark (`StockAgainstMark`), with ERC721 and ERC1155 airdrops of every claim type? | 2,253,000 |
| `dist_vrf` | Does what is paid by lot rest on an answer to the airdrop's own last request (`DrawsAnswered`), when requests are repeated, answers come late, from a replaced coordinator or not at all? | 1,492,000 |
| `registry` | Do the tables agree in the middle of creations and upgrades (`TablesAgree`, `NoOrphan`), does a batch reach all (`BatchReachesAll`), is the registry a catalogue (`ImplementsCatalogue`)? | 209,000 |
| `gateway` | Are wrapped punks backed (`WrapsBacked`), can a deposited punk always be withdrawn in one call (`WithdrawNeverFails`), to the bNFT's owner (`PunkComesBack`), and will it be (`PunkRedeemable`)? Does the gateway leave alone what was sent to it astray (`StrandedStays`)? Is the bNFT contract behind it a vault (`ImplementsVault`)? | 108,000 |
| `receiver_v2` | Does a sweep leave nothing it names (`SweepComplete`), do others than the owner dispose of what a receiver deployed for him holds (`OwnerDisposes`), and can what a sweep left be fetched, in a transaction that is not undone (`LeftoversRetrievable`)? | 29,000 |
| `receiver_v3` | Do borrowed tokens get home (`BoundAtHome`), does a loan have the bNFT contract approved for no more than it takes, though the owner and the project's call may approve the same contract for anything (`ReturnApprovals`), is each loan on record (`LoanLeavesRecord`)? | 4,002,000 |
| `deployment` | Eleven tasks in any order, killed at any step, their transactions lost, bNFTs made and implementations initialized by others: does a task that went through leave every collection with a bNFT of the right implementation and in the file (`TokensComplete`), does the file name what is there (`FileNamesContracts`), does the implementation it names for a while stay apart, whoever initializes it (`ImplementationsApart`), is the hand-over whole (`HandedOverWhole`), and does running the task again finish the job (`TokensRecover`)? | 1,835,000 |
| `tasks` | Thirteen families of tasks and scripts. Does a proxy run a contract of its kind (`ProxiesRunTheirs`) and does the file describe the chain after a task that went through (`FileDescribes`), with implementations entered before they are there, and tasks killed and transactions lost before? Does every task end, whatever Etherscan answers (`TasksEnd`)? Is an enumeration complete though a lookup failed (`ListComplete`), is each pair that was drawn up a true one (`PairsWereTrue`), is no user credited with what is not there (`CreditBacked`), and is everything claimed in the end (`EventuallyClaimed`)? | 858,000 |
| `bnft_doc_approval`, `dist_doc_type_two` | What a comment says and the code does not do; see Findings. | violated |

### Bounds, and why they are enough

- `MaxDepth = 2` suspended functions. `nonReentrant` lets one guarded function of
  a contract be open (`CallsOK` is proved without the bound), so in `BNFT`,
  `BNFTRegistry` and `AirdropDistribution` the second level is there only for a
  broken guard to show. The receiver's `executeOperation` has no guard: two levels
  are a loan within a loan, or within a function of the owner, of two collections.
- Two tokens, and loans of up to two ids (`MaxLoan`): a list with both, and one
  with an id twice. Three ids bring no new pair.
- Two accounts, one of them with code. The contract account plays every part at
  once, which is more than several contracts with one part each could do; an
  account without code is needed for what must not depend on being called back.
- `MaxList = 2` ids for a user: one id twice, or the same id for two users;
  `MaxStock = 1`: what is paid may be sent in again. `MaxAirdrops = 2` and
  `MaxRequests = 2` in `dist_vrf`: a request of another airdrop, and a second one
  of the same; in `dist_claims` one airdrop, created with any of seven settings.
- Registry: two collections, three proxies, two implementations, one of them
  calling out; one collection without `symbol()` and one address without code.
- Receiver: `Sweeps` holds the token lists a loan may carry. The two runs share the
  list types between them: enumerable collections (type 2) and amounts of ERC20 and
  ERC1155 (1, 3) in `receiver_v2`, ids (4) and unknown ids (5) in both. `receiver_v3`
  lends tokens of two collections, one of an account and one of a contract, and has
  approvals: `Spenders` are a contract and one of the two bNFT contracts, which is so
  approved for its own tokens and for the other's, by the owner's functions,
  `callMethod` and the project's call alike; `MaxOpened = 1` operator at a time that
  was approved in this way, beside any number of tokens. An approval of either kind
  is withdrawn, too. V1 and V2 have the approvals of their loans only.
- Deployment: `MaxRegistries = 4`, four contracts numbered as registries, that is two deployments of an
  implementation and a proxy, or one and two upgrades; two generic
  implementations, an old and a new one; two collections, one of them handed over,
  as sepolia hands over nine of thirteen. `MaxMishaps = 1`: one healthy task
  killed, one loss of transactions or one implementation initialized by the stranger;
  what is left behind is then taken up by any sequence of the eleven tasks, which may
  themselves throw as often as they do. A stranger's registry counts twice in
  `MaxRegistries`: he has one where a new implementation has room, too.
  `MaxPending = 1`: a task may begin while one transaction of an earlier one is on
  its way.
- Tasks: tasks that share no key of the file and no contract need not be interleaved,
  so a behaviour runs the tasks of one family (`NamesOf` in `MCTasks`), and the state
  spaces add up. Within a family any task may follow any other. `MaxNonce = 7`:
  two admins, a contract deployed anew (up to three transactions) and upgraded (two), or
  two whole runs of the mocks; a task begins only if its transactions have room (`SpaceFor`), and that of the
  admins while the ledger has four entries at most, five beside the flash claim registry
  (`AdminsUntil`), so that the admins come before, between and after the first contracts
  behind them; either may be deployed while the configuration names the other. `MaxTrouble = 1` task killed
  or loss of transactions, `MaxPool = 1` transaction still on its way when the next
  task begins: what is left behind meets a whole second run. `Times = 4` as in the code.
- Claim scripts: two tokens, as a list of two shifts when one leaves, and two users, one
  of them the operator; the first token bound or not, each token anybody's.
  `MaxMoves = 2` changes by others (a token that comes and goes while a script reads),
  `MaxMishaps = 1` question without an answer or script killed; a question may fail of
  itself, too, when its token has left, so a place can be given up on. `MaxSent = 1`.
- Symmetry is used for tokens, ids, proxies and enumerated items, in safety runs
  only.

### Fairness

A called contract returns or runs out of gas: `WF_vars(Finish)` in `BNFT` and
`FlashLoanReceiver`, `WF_vars(settleLoan \/ revertLoan)` in the gateway. Nothing
makes anybody call a contract, and others may always get in between, so a caller
who is to succeed needs strong fairness: his transaction is possible infinitely
often, whenever no call is open, and he sends it until it goes through. That is
assumed of the one caller each liveness property is about (`burn` of a token,
`withdrawPunk` of a punk, a transfer of an item by the receiver's owner), and
whoever he is by then: a bNFT does not move, but ownership of a receiver may pass
on. `receiver_v2` excludes that it is renounced; then nobody can fetch.

The three properties are about storage no revert can take back (`Committed`: while a
call is open, what it would be undone to), so that a burn that hands the token over
and is reverted redeems nothing. A minter or a recipient with code is called back in
his own transaction, and he or what he calls may have it reverted every time. That is
his to end, and it is what is assumed of him: called back again and again, he accepts
once (`SF_vars(MinterAccepts(t))` in `BNFT`, `SF_vars(Accepted(i))` in the receiver;
the gateway's owner is called back nowhere). The receiver's
`SF_vars(Finish /\ calls' = << >>)` adds that calls do not nest again for ever: the gas
of a transaction ends.

Of a deployment it is assumed that a running task goes on, or is killed by the operator
if it waits for a lost transaction (`waitForTx` has no time limit): a task is a loop
that nothing else blocks. Further, that the chain mines what is in the pool
(`WF_vars(Mine)`), and that the operator comes back to `deploy:deploy-bnft-tokens` if he
can time and again. `TokensRecover` claims nothing unless the file names a registry
of the deployer from some time on.

The same is assumed of the tasks of `ProxyTasks` (`ProxyFairness`: a task goes on, the
chain mines, a task whose transaction was lost is stopped) and of the claim scripts
(`ClaimFairness`: a script goes on, the chain mines). Nothing is assumed of Etherscan, nor
of who runs a script how often: `EventuallyClaimed` is about an operator who starts the
enumerating `azuki:claim-tiger` time and again. Changes by others are bounded by
`MaxMoves`, so that what it says is that nothing is missed for good, not that the script
wins against tokens that never come to rest.

## The proofs

TLAPS checks the theorems of the eight `…Proofs` modules for all values of the
constants that satisfy the modules' `ASSUME`s: addresses and token ids of
different kinds are different, parameters have their types, a receiver meets finitely many
items, the collections of the configuration are finitely many and not named like contracts,
nothing more; TLC evaluates them on every run. Any number of tokens, accounts,
airdrops, proxies and collections, lists of any length, any pool of transactions and any
bound on depth and on mishaps are covered.

The invariants the runs check are not inductive: `revert` brings back what a frame
saved, so something must be known of that, and a suspended function (or a script) goes on
with what it learnt before. Each `IInv` adds just this, and each proof has the same
outline: the types are inductive (`StepTyped`); `Init => IInv`; every action keeps
`IInv`, one step per action; the safety properties follow from `IInv`, the action
properties from it and one step.

| Module | The strengthening | Theorems |
|---|---|---|
| `BNFTProofs` | At rest the guard and the acceptance flag are down and every bNFT is backed. At most one frame is open; it saved a state at rest (`AtRest`), and since then bindings and approvals have not changed (for `burn`: but for its token) and no token has left that is not in its list (`FrameOK`). | `TypeCorrect`, `Inductive`, `Custody`, `MinterExists`, `Exclusion`, `LoanFreezes`, `RenouncedFinal`, `BindingsEnd`, `StraysRemain`, `AirdropsByCall`, `Refinement` |
| `BNFTRegistryProofs` | The tables are those the open frame saved, and the proxies differ from the saved ones in the proxy being made or upgraded only (`FrameOK`). | `TypeCorrect`, `Inductive`, `TablesAlwaysAgree`, `NoProxyLost`, `RecordsRight`, `BatchReachesEvery`, `Refinement` |
| `AirdropDistributionProofs` | What an open claim saved was right itself, and lists and requests are as they were then (`SavedOK`); for `ClaimsWhole`, it has paid every NFT its loop has passed (`PaidSoFar`). For `DrawsAnswered`: an airdrop's request on record is the last made for it (`LatestRequest`). | `TypeCorrect`, `Inductive`, `NoDoublePayment`, `ListsHold`, `PaidByOwnAnswer`, `ListedAreUsers`, `SpentAgainstMark`, `ClaimsWhole` |
| `BoundPunkGatewayProofs` | The state an open loan saved was backed; bNFTs have not changed since, and no wrapped punk has left the bNFT contract that is not on loan (`LoanOK`). | `TypeCorrect`, `Inductive`, `PunksBacked`, `Withdrawable`, `PunksComeBack`, `StrandedForGood`, `Refinement` |
| `FlashLoanReceiverProofs` | Calls nest, so the storage *every* frame saved must be sound with respect to the frames below it (`StackOK`): a borrowed token is at the receiver only under the loan that lent it, the bNFT contract is approved for tokens of open loans only, but for what the owner and calls as the receiver approved, the guard is up exactly while a function of the owner is open, and a loan past its airdrop call has its record. For `SweepComplete` also: while no call is open above it, a sweep has left nothing of the entries it has passed (`SweptOK`). | `TypeCorrect`, `BoundTokensHome`, `ApprovalsBounded`, `OwnerCallsAlone`, `LoansRecorded`, `OwnerAlone`, `NothingLeft` |
| `ClaimScriptsProofs` | The enumerations are exclusive, place by place (`WorldOK`); every `configure` on its way, a killed script's too, is of an airdrop that has arrived, and an arrived one stays (`TxOK`); the running script's transaction is the last one sent (`Awaiting`); its list is what the places gone through give, unless something changed or a second lookup failed (`Found`), and each pair was true once (`Pairs`). | `StartsFit`, `Inductive`, `AirdropFirst`, `PairsTrue`, `EnumerationComplete` |

| `DeploymentProofs` | A registry's contract is an implementation apart or a proxy whole: as deployed or all the stranger's, or with logic, admin and generic implementation that are there (`Apart`, `Whole` of `ChainInv`). The steps of a task are linked (`Linked`, `Finished`): after a deployment comes its entry in the file, and so on to the end. Every transaction in the pool is `Sound`: it makes or addresses what is there, or will be when its turn comes. What the running task waits for (`WaitInv`), has at hand (`NowInv`), leaves alone (`QuietInv`) and owes the collections it has passed (`TokenInv`) depends on the step it is at; what a completed task promised stays true (`DoneInv`). In a hand-over that was begun with an empty pool each contract's claim admin is set, on the chain or earlier in the pool, before the contract is given away, and each contract's two steps are either still to come or done (`HandInv`). For the early entry a second induction: as long as nothing was killed or lost, the file's `BNFTRegistryImpl` is there or on its way (`EarlyInv`). | `Typed`, `FileNamesContractsHolds`, `ImplementationsApartHolds`, `TokensCompleteHolds`, `HandedOverWholeHolds` |
| `ProxyTasksProofs` | What is left of the running task's steps fits its name (`Fits`): each is followed by what it needs, what comes after the proxy's deployment only closes it, a collection passed over takes its whole block along. By the step it is at: what it waits for (`WaitInv`); its first contract is the implementation, or is on its way as the last in the pool (`LogicInv`); the proxy is to come, under way, or in the file (`KeyInv`); a receiver it saved is there (`ReceiverInv`); each collection has an address or a step that will save one, and no two have the same (`MockInv`, `SymbolsInv`). Every transaction in the pool is `Sound`. | `Invariant`, `Typed`, `ProxiesRunTheirsHolds`, `FileDescribesHolds` |

In the last two modules the programs of the tasks are lists that are put together from
others, a pool is executed transaction by transaction, and no induction theorem can be
used on them. What is needed is got without: a recursive function exists, and has the value
its equation says, because there is no least number for which it does not (`Least`,
`ApplyAllIs`, `Flattened`), and a property of every prefix is shown in the same way. The
programs of `ProxyTasks` are composed of `Piece`s with known ends (`Joined`), and
`ProgramReady` says of every task, in every state it can begin in, that its program fits.

The three refinements look at a module transaction by transaction: while a call is
open, what the abstract specification sees is the state the outermost frame would
be undone to (`Committed`), so a step inside a call, `revert` included, is a
stutter, and a step that ends the outermost call is one abstract step: a deposit,
a withdrawal or a receipt for `Vault`, an entry for `Catalogue`, or nothing. The
invariant says what may have changed between the two ends.

The theorems of `ClaimScriptsProofs` are about any set of start worlds that are `StartOK`
(enumerations exclusive, nobody credited yet) and any scripts; `StartsFit` shows that
the worlds `MCTasks` starts in, for any finite set of tokens arranged in any way, are such.

Proved only, as conjuncts of the invariants or beside them: the types of each module with
proofs (`TypeOK`; `TypeInv` of `Deployment` and `ProxyTasks`; those of `ClaimScripts` are in
`WorldOK` and `SentOK`), `RecordsRight`
(`ImplOnRecord`: the registry's record of an implementation is the one that runs),
`OwnerCallsAlone` (`OwnerCallsExclude`: the receiver owner's functions exclude each other),
`Exclusion`, `MinterExists`, `ListedAreUsers` and `RenouncedFinal` (after `renounceOwnership`
the owner's settings of `BNFT` never change).

Model-checked only: liveness (`Redeemable`, `PunkRedeemable`, `LeftoversRetrievable`,
`TokensRecover`, `TasksEnd`, `EventuallyClaimed`), as fairness and `ENABLED` are beyond the
prover. Every invariant and every action property of the runs is a theorem.

## Findings

- `bnft_doc_approval`: `IBNFT.sol:118` says of `setFlashLoanApproval` that
  operators can borrow "any token minted by the minter"; once a token has a lock
  holder, `flashLoan` asks the lock holders alone (`BNFT.sol:273`).
- `dist_doc_type_two`: `AirdropDistribution.sol:103` documents claim types as
  "1-Fixed, 2-Random". In the code 2 is fixed by different ids, for which both
  claim functions allocate nothing and go on: a claim succeeds, pays nothing and
  marks nothing.

Seen on the way and not made a run: `IBNFT.sol:130` says of
`setFlashLoanLocking`, too, that operators can borrow "any token minted by the
minter", while a lock is kept per token; the comment "only token owner can do
flashloan" (`BNFT.sol:270`) stands above a loop that admits lock holders and
approved operators and refuses the owner of a locked token; and
`AirdropFlashLoanReceiverV3.sol:125` says "transfer airdrop tokens to borrower"
where V3 sends to its owner, whoever borrows.

What the models show and no document contradicts: V3, and V1 and V2 with deploy
type 0, serve any borrower, so that what they hold between loans can be swept by
the next one (hence `OwnerDisposes` is about deploy type 1, and V3's sweeps go to
its owner); V2 approves the bNFT contract for good, V3 token by token.
`deploy:transferOwnership` is described as handing over the proxy admin
(`deploy.ts:214`) and hands over the registry and nine bNFTs, which is what
`HandedOverWhole` is about; the proxy admin, and the bNFTs of sepolia's other four
collections, stay with the deployer. `dev:deploy-new-implementation` of the registry
writes the new implementation where the file had the registry's proxy
(`ImplementationsApart` says what may not come of it).

Of the tasks and scripts:

- The implementation's key is written before the transaction is mined
  (`contracts-deployments.ts:213`). If it is lost, another contract may get that address,
  and the key names it until the next task that goes through; `ProxiesRunTheirs` and
  `FileDescribes` say that no proxy is led astray and that the file is right then.
- An upgrade takes the proxy from the pool configuration and not from the file; the gateway
  takes its registry from there, too, where the distribution and the flash claim registry
  V3 take the file's.
- A lookup that fails twice drops its token without a word in `azuki:claim-tiger` and the
  clonex scripts (a later run finds it: `EventuallyClaimed`); `azuki:distribution` throws.
- `admin:claim-airdrop-…` sign as `owner()` (`bnft-amdin.ts`), where `BNFT` asks for the
  claim admin: they fail once the two differ.
- `dev:configure-airdrop-distribution` sets the list of a user anew and so takes away what
  another run gave him; for an ERC721 airdrop it cannot be repeated once the airdrop was
  claimed and the list was not set, and for fungible airdrops, which are claimed by the
  whole balance, it may credit tokens that were paid out before. `CreditBacked` is about
  the former kind.
- `verify-sc` passes the libraries where the helper takes the name of the contract;
  `verify:bnft` submits `AirdropFlashLoanReceiver` with one argument, where it is built
  with three, under a key no task writes; `verify:flashclaim-v2` submits
  `UserFlashclaimRegistryV2` with its own address for the V1 registry's, and the V2
  receiver under the id of V3; proxies are submitted with what the file names now,
  which after an upgrade or a hand-over is not what they were built with.
- `mint-mock-nfts` cannot be run again after it was stopped half way; `dev:add-mock-nfts`
  lacks the check for the main network that `dev:deploy-mock-nfts` makes; the file of
  arguments for Etherscan stays behind where the answer is one of `okErrors` or `fatalErrors`.

## Not modelled, and the plan

- **Delegate cash** (`BNFT.sol` 430-536). The bNFT contract keeps nothing of it, the delegate
  contracts are external, and that `burn` leaves delegations in force is what
  `test/bnft-delegatecash-v2.spec.ts:113` and `138` expect; nothing the models show of a
  binding depends on it.
- **Deployment**: `deploy:create-new-bnft`, which is one call of the registry, and the punk
  contracts of `deploy.ts`.
  Left out: what a stranger sets in a registry he initialized (the bNFTs anybody makes
  there are modelled), and that the generic implementation may be initialized, too
  (`BNFT.sol:83`): its storage is none of the proxies'. Assumed, and to be lifted where it
  can: one task runs at a time, the chain does not reorganize, and the new owner sends no
  transactions of his own.
- **Claim scripts**: the steps the clonex scripts only print, and the amounts of fungible
  airdrops. A next proof: that a place is given up on after two failures at most, as a
  refinement of a single scan.
- **Development tasks** that mint mock tokens or set their URIs: a row of transactions
  without a decision between them.
- Left out for good: `setENSName`, `toggleMoonirdsNesting` and the URIs of `BNFT` (its own
  state does not change), the overrides that refuse transfers of bNFTs (the models have
  no such transfer), printing and configuration (no state), the mocks that only feed tests,
  and generated code.
