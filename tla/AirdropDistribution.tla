------------------------ MODULE AirdropDistribution ------------------------
(***************************************************************************)
(* contracts/misc/AirdropDistribution.sol: hands airdropped ERC721 and     *)
(* ERC1155 tokens to the users entitled to them by the NFTs they had       *)
(* bound, one token for each NFT, by equal id or by lot.  The lot needs a  *)
(* random word, asked of Chainlink's VRF coordinator and answered in a     *)
(* later transaction, if at all.                                           *)
(*                                                                         *)
(* A claim pays the NFTs of its caller one after the other; a caller with  *)
(* code is called back after each payment.  `claim' is the claim that is   *)
(* open, with the storage a revert of it restores.                         *)
(***************************************************************************)
EXTENDS Naturals, Sequences, FiniteSets, Functions

CONSTANTS
  EOAs, Contracts,  \* users without and with code
  Ids,              \* token ids, of the NFTs and of the airdropped tokens
  ERC20s, ERC721s, ERC1155s,  \* airdropped collections of each standard
  Bound, Unbound,   \* NFT collections with and without a bNFT in the registry
  Coordinators,     \* VRF coordinators
  Offers,           \* arguments createAirdrop may be called with
  InitOwner, NewOwners, InitCoordinator, None,
  MaxAirdrops, MaxRequests, MaxList, MaxStock  \* bounds of the model

Users == EOAs \cup Contracts
Pools == ERC20s \cup ERC721s \cup ERC1155s

TOKEN_TYPE_ERC721  == 2
TOKEN_TYPE_ERC1155 == 3
CLAIM_TYPE_FIXED_SAME == 1
CLAIM_TYPE_FIXED_DIFF == 2
CLAIM_TYPE_RANDOM     == 3

Settings == [nftAsset : Bound \cup Unbound, token : Pools,
             tokenType : 1..3, claimType : 1..3]

ASSUME UsersDistinct == EOAs \cap Contracts = {} /\ None \notin Users
ASSUME PoolsDistinct == /\ ERC20s \cap ERC721s = {} /\ ERC20s \cap ERC1155s = {}
                        /\ ERC721s \cap ERC1155s = {}
ASSUME OffersTyped == Offers \subseteq Settings /\ Bound \cap Unbound = {}
ASSUME OwnersTyped == /\ InitOwner \in Users /\ NewOwners \subseteq Users
                      /\ InitCoordinator \in Coordinators
ASSUME BoundsTyped == /\ MaxAirdrops \in Nat /\ MaxRequests \in Nat
                      /\ MaxList \in Nat /\ MaxStock \in Nat

AirdropIds == 1..MaxAirdrops
Standard(p, tokenType) == \/ tokenType = TOKEN_TYPE_ERC721 /\ p \in ERC721s
                          \/ tokenType = TOKEN_TYPE_ERC1155 /\ p \in ERC1155s

VARIABLES
  owner,
  vrfCoordinator, vrfNumWords,
  data,             \* airdropDatas, the settings of each airdrop in turn
  nftAirdropToIds,  \* NFT and airdropped collection to the airdrop's id
  vrfRequestId,     \* airdrop's vrfRequestId, 0 before the first request
  nftUserTokenIds,  \* airdrop and user to the ids he may claim for
  nftAllUsers,
  nftTokenClaimeds, \* the ids claimed for in each airdrop
  erc1155Ids,       \* erc1155AirdropTokenIds
  requests,         \* vrfAllRequestIds: for each the airdrop it was made for,
                    \* the coordinator asked, and the words asked and received
  stock,            \* what this contract holds of each pool and id
  paid,             \* Claimed events: who was paid for an NFT, in order
  claim             \* the open claim

NoClaim == [by |-> None]

vrf    == <<vrfCoordinator, vrfNumWords>>
made   == <<data, nftAirdropToIds>>
config == <<nftUserTokenIds, nftAllUsers, erc1155Ids>>
payout == <<nftTokenClaimeds, stock, paid>>
vars   == <<owner, vrf, made, vrfRequestId, config, requests, payout, claim>>

\* What may change while a claim is open, and a revert of it restores.
Storage == [owner |-> owner, claimeds |-> nftTokenClaimeds,
            requests |-> requests, stock |-> stock, paid |-> paid,
            userTokenIds |-> nftUserTokenIds, allUsers |-> nftAllUsers]

Request == [airdrop : AirdropIds, from : Coordinators, asked : Nat,
            pending : BOOLEAN, words : Nat]

StorageType ==
  [owner : Users \cup {None},
   claimeds : [AirdropIds -> SUBSET Ids],
   requests : Seq(Request),
   stock : [Pools \X Ids -> Nat],
   paid : [AirdropIds -> [Ids -> Seq(Users)]],
   userTokenIds : [AirdropIds -> [Users -> Seq(Ids)]],
   allUsers : [AirdropIds -> Seq(Users)]]

ClaimType == [by : Users, airdrop : AirdropIds, next : Nat \ {0},
              saved : StorageType]

TypeOK ==
  /\ Storage \in StorageType
  /\ vrfCoordinator \in Coordinators /\ vrfNumWords \in Nat
  /\ data \in Seq(Offers) /\ Len(data) <= MaxAirdrops
  /\ nftAirdropToIds \in [(Bound \cup Unbound) \X Pools -> 0..MaxAirdrops]
  /\ vrfRequestId \in [AirdropIds -> Nat]
  /\ erc1155Ids \in [AirdropIds -> Seq(Ids)]
  /\ claim \in ClaimType \cup {NoClaim}
  /\ claim # NoClaim => claim.airdrop <= Len(data)

Init ==
  /\ owner = InitOwner
  /\ vrfCoordinator = InitCoordinator /\ vrfNumWords = 1
  /\ data = << >>
  /\ nftAirdropToIds = [k \in (Bound \cup Unbound) \X Pools |-> 0]
  /\ vrfRequestId = [d \in AirdropIds |-> 0]
  /\ nftUserTokenIds = [d \in AirdropIds |-> [u \in Users |-> << >>]]
  /\ nftAllUsers = [d \in AirdropIds |-> << >>]
  /\ nftTokenClaimeds = [d \in AirdropIds |-> {}]
  /\ erc1155Ids = [d \in AirdropIds |-> << >>]
  /\ requests = << >>
  /\ stock = [k \in Pools \X Ids |-> 0]
  /\ paid = [d \in AirdropIds |-> [n \in Ids |-> << >>]]
  /\ claim = NoClaim

-----------------------------------------------------------------------------
\* Definitions marked "faulty" are no part of the model: each is a slip the
\* next definition guards against, kept to show that a property notices it.

\* Other code runs between claims, and in the callback of a user with code.
Others == claim = NoClaim \/ claim.by \in Contracts

\* Faulty: a function without nonReentrant.
NoGuard == Others

NotReentrant == claim = NoClaim

ByOwner(u) == Others /\ owner = u

Exists(d) == d \in 1..Len(data)

-----------------------------------------------------------------------------
\* The owner's functions.

\* Neither the token type nor the claim type is checked.
createAirdrop(u, s) ==
  /\ ByOwner(u) /\ NotReentrant
  /\ s.nftAsset \in Bound
  /\ Len(data) < MaxAirdrops
  /\ data' = Append(data, s)
  /\ nftAirdropToIds' = [nftAirdropToIds EXCEPT
                            ![<<s.nftAsset, s.token>>] = Len(data) + 1]
  /\ UNCHANGED <<owner, vrf, vrfRequestId, config, requests, payout, claim>>

\* Faulty: a new request does not replace the one on record.
RecordOnce(d, r) ==
  vrfRequestId' = IF vrfRequestId[d] = 0 THEN [vrfRequestId EXCEPT ![d] = r]
                                         ELSE vrfRequestId

RecordRequest(d, r) == vrfRequestId' = [vrfRequestId EXCEPT ![d] = r]

\* The coordinator numbers its requests; an earlier one is simply replaced.
requestVRFRandomWords(u, d) ==
  /\ ByOwner(u) /\ NotReentrant /\ Exists(d)
  /\ data[d].claimType = CLAIM_TYPE_RANDOM
  /\ Len(requests) < MaxRequests
  /\ requests' = Append(requests, [airdrop |-> d, from |-> vrfCoordinator,
                                   asked |-> vrfNumWords, pending |-> TRUE,
                                   words |-> 0])
  /\ RecordRequest(d, Len(requests) + 1)
  /\ UNCHANGED <<owner, vrf, made, config, payout, claim>>

configureVRFCoordinator(u, c) ==
  /\ ByOwner(u) /\ NotReentrant
  /\ vrfCoordinator' = c
  /\ UNCHANGED <<owner, vrfNumWords, made, vrfRequestId, config, requests,
                 payout, claim>>

configureVRFParams(u, numWords) ==
  /\ ByOwner(u) /\ NotReentrant
  /\ vrfNumWords' = numWords
  /\ UNCHANGED <<owner, vrfCoordinator, made, vrfRequestId, config, requests,
                 payout, claim>>

EnterUser(d, v) == nftUserTokenIds[d][v] = << >>

\* One turn of the loop: a longer call is a run of calls with one pair each,
\* as no turn fails or calls anybody.
configureNftUserTokenIds(u, d, v, n) ==
  /\ ByOwner(u) /\ NotReentrant /\ Exists(d)
  /\ Len(nftUserTokenIds[d][v]) < MaxList /\ Len(nftAllUsers[d]) < MaxList
  /\ nftAllUsers' = IF EnterUser(d, v)
                    THEN [nftAllUsers EXCEPT ![d] = Append(@, v)]
                    ELSE nftAllUsers
  /\ nftUserTokenIds' = [nftUserTokenIds EXCEPT ![d][v] = Append(@, n)]
  /\ UNCHANGED <<owner, vrf, made, vrfRequestId, erc1155Ids, requests, payout,
                 claim>>

clearNftUserTokenIds(u, d, vs) ==
  /\ ByOwner(u) /\ NotReentrant /\ Exists(d)
  /\ nftUserTokenIds' =
       [nftUserTokenIds EXCEPT ![d] =
          [v \in Users |-> IF v \in vs THEN << >> ELSE @[v]]]
  /\ UNCHANGED <<owner, vrf, made, vrfRequestId, nftAllUsers, erc1155Ids,
                 requests, payout, claim>>

configureERC1155(u, d, ids) ==
  /\ ByOwner(u) /\ NotReentrant /\ Exists(d)
  /\ data[d].tokenType = TOKEN_TYPE_ERC1155
  /\ erc1155Ids' = [erc1155Ids EXCEPT ![d] = ids]
  /\ UNCHANGED <<owner, vrf, made, vrfRequestId, nftUserTokenIds, nftAllUsers,
                 requests, payout, claim>>

\* Ownable's two functions are not guarded.
transferOwnership(u, newOwner) ==
  /\ ByOwner(u)
  /\ owner' = newOwner
  /\ UNCHANGED <<vrf, made, vrfRequestId, config, requests, payout, claim>>

-----------------------------------------------------------------------------
\* The coordinator's answer.

\* Each request is answered once.  The answer of a coordinator that is no
\* longer the configured one is refused, one that runs out of the callback's
\* gas is lost too, and neither is sent again.
rawFulfillRandomWords(r) ==
  /\ Others
  /\ r \in DOMAIN requests /\ requests[r].pending
  /\ \E w \in {0, requests[r].asked} :
       /\ requests[r].from # vrfCoordinator => w = 0
       /\ requests' = [requests EXCEPT ![r] = [@ EXCEPT !.pending = FALSE, !.words = w]]
  /\ UNCHANGED <<owner, vrf, made, vrfRequestId, config, payout, claim>>

-----------------------------------------------------------------------------
\* Claims.

\* _getRandomWord does not revert.
HasRandomWord(d) == vrfRequestId[d] # 0 /\ requests[vrfRequestId[d]].words > 0

InStock(p) == {i \in Ids : stock[<<p, i>>] > 0}

\* The tokens an NFT may be paid with.  The lot depends on the random word,
\* the block and the caller: any index may come out.
Allocated(d, n) ==
  LET p == data[d].token
      candidates == IF data[d].tokenType = TOKEN_TYPE_ERC721
                    THEN Ids ELSE Range(erc1155Ids[d]) IN
  IF data[d].claimType = CLAIM_TYPE_RANDOM
  THEN {i \in candidates \cap InStock(p) : HasRandomWord(d)}
  ELSE IF data[d].tokenType = TOKEN_TYPE_ERC721 THEN {n} \cap InStock(p)
  ELSE {i \in InStock(p) : erc1155Ids[d] # << >> /\ i = erc1155Ids[d][1]}

\* claimERC721 and claimERC1155 up to the loop, each for its token type.
claimAirdrop(u, d) ==
  /\ NotReentrant /\ Exists(d)
  /\ data[d].tokenType \in {TOKEN_TYPE_ERC721, TOKEN_TYPE_ERC1155}
  /\ nftUserTokenIds[d][u] # << >>
  /\ claim' = [by |-> u, airdrop |-> d, next |-> 1, saved |-> Storage]
  /\ UNCHANGED <<owner, vrf, made, vrfRequestId, config, requests, payout>>

ListOf(c) == nftUserTokenIds[c.airdrop][c.by]

\* Faulty: the claim is not recorded.
NoMark(d, n) == UNCHANGED nftTokenClaimeds

Mark(d, n) == nftTokenClaimeds' = [nftTokenClaimeds EXCEPT ![d] = @ \cup {n}]

\* One turn of the loop: mark the NFT, pay the user, call him back.
payNext ==
  /\ claim # NoClaim
  /\ claim.next <= Len(ListOf(claim))
  /\ LET d == claim.airdrop
         n == ListOf(claim)[claim.next]
         p == data[d].token IN
       /\ data[d].claimType # CLAIM_TYPE_FIXED_DIFF
       /\ n \notin nftTokenClaimeds[d]
       /\ Standard(p, data[d].tokenType)
       /\ \E i \in Allocated(d, n) :
            /\ Mark(d, n)
            /\ stock' = [stock EXCEPT ![<<p, i>>] = @ - 1]
            /\ paid' = [paid EXCEPT ![d][n] = Append(@, claim.by)]
  /\ claim' = [claim EXCEPT !.next = @ + 1]
  /\ UNCHANGED <<owner, vrf, made, vrfRequestId, config, requests>>

\* A fixed airdrop of different ids allocates nothing and goes on.
skipNext ==
  /\ claim # NoClaim
  /\ claim.next <= Len(ListOf(claim))
  /\ data[claim.airdrop].claimType = CLAIM_TYPE_FIXED_DIFF
  /\ ListOf(claim)[claim.next] \notin nftTokenClaimeds[claim.airdrop]
  /\ claim' = [claim EXCEPT !.next = @ + 1]
  /\ UNCHANGED <<owner, vrf, made, vrfRequestId, config, requests, payout>>

\* Faulty: the loop stops one NFT short.
PaidButLast == claim.next >= Len(ListOf(claim))

PaidAll == claim.next = Len(ListOf(claim)) + 1

claimReturns ==
  /\ claim # NoClaim /\ PaidAll
  /\ claim' = NoClaim
  /\ UNCHANGED <<owner, vrf, made, vrfRequestId, config, requests, payout>>

revert ==
  /\ claim # NoClaim
  /\ owner' = claim.saved.owner
  /\ nftTokenClaimeds' = claim.saved.claimeds
  /\ requests' = claim.saved.requests
  /\ stock' = claim.saved.stock /\ paid' = claim.saved.paid
  /\ nftUserTokenIds' = claim.saved.userTokenIds
  /\ nftAllUsers' = claim.saved.allUsers
  /\ claim' = NoClaim
  /\ UNCHANGED <<vrf, made, vrfRequestId, erc1155Ids>>

-----------------------------------------------------------------------------
\* Airdropped tokens are sent to the contract, paid ones sent back included.
\* There is one ERC721 token of an id.
deposit(p, i) ==
  /\ Others
  /\ stock[<<p, i>>] < (IF p \in ERC721s THEN 1 ELSE MaxStock)
  /\ stock' = [stock EXCEPT ![<<p, i>>] = @ + 1]
  /\ UNCHANGED <<owner, vrf, made, vrfRequestId, config, requests,
                 nftTokenClaimeds, paid, claim>>

ERC1155Lists == UNION {[1..k -> Ids] : k \in 0..2}

Create    == \E u \in Users, s \in Offers : createAirdrop(u, s)
Draw      == \E u \in Users, d \in AirdropIds : requestVRFRandomWords(u, d)
Configure ==
  \E u \in Users :
    \/ \E c \in Coordinators : configureVRFCoordinator(u, c)
    \/ \E w \in 0..1 : configureVRFParams(u, w)
    \/ \E d \in AirdropIds :
         \/ \E v \in Users, n \in Ids : configureNftUserTokenIds(u, d, v, n)
         \/ \E vs \in SUBSET Users : clearNftUserTokenIds(u, d, vs)
         \/ \E ids \in ERC1155Lists : configureERC1155(u, d, ids)
    \/ \E v \in NewOwners \cup {None} : transferOwnership(u, v)
Answer == \E r \in 1..MaxRequests : rawFulfillRandomWords(r)
Claim  == \E u \in Users, d \in AirdropIds : claimAirdrop(u, d)
Deposit == \E p \in ERC721s \cup ERC1155s, i \in Ids : deposit(p, i)

Next == \/ Create \/ Draw \/ Configure \/ Answer \/ Deposit
        \/ Claim \/ payNext \/ skipNext \/ claimReturns \/ revert

Spec == Init /\ [][Next]_vars

-----------------------------------------------------------------------------
\* Properties.

\* Each NFT is paid at most once in an airdrop, through re-entrancy, lists
\* naming it twice, tokens sent back and reverts; it is marked claimed exactly
\* when it was paid.
MarkedOnce(payments, claimeds) ==
  \A d \in AirdropIds, n \in Ids :
    Len(payments[d][n]) = IF n \in claimeds[d] THEN 1 ELSE 0
PaidOnce == MarkedOnce(paid, nftTokenClaimeds)

\* The list a claim runs through is the one it began with: a callback cannot
\* have it changed, not even when the claimer is the owner.
ListFrozen ==
  claim # NoClaim =>
    ListOf(claim) = claim.saved.userTokenIds[claim.airdrop][claim.by]

\* Everybody with NFTs to claim for is among nftAllUsers, however often lists
\* are cleared and filled again.
UsersListed ==
  \A d \in AirdropIds, v \in Users :
    nftUserTokenIds[d][v] # << >> => v \in Range(nftAllUsers[d])

\* The inductive invariant behind them: the request on record for an airdrop is
\* the last one made for it; an open claim keeps no storage that is not right
\* itself, and nothing it does not restore has changed.
LatestRequest ==
  \A d \in AirdropIds :
    /\ vrfRequestId[d] <= Len(requests)
    /\ vrfRequestId[d] # 0 => requests[vrfRequestId[d]].airdrop = d
    /\ \A r \in 1..Len(requests) : requests[r].airdrop = d => r <= vrfRequestId[d]
SavedOK ==
  claim # NoClaim =>
    /\ MarkedOnce(claim.saved.paid, claim.saved.claimeds)
    /\ claim.saved.userTokenIds = nftUserTokenIds
    /\ claim.saved.allUsers = nftAllUsers
    /\ Len(claim.saved.requests) = Len(requests)
    /\ \A r \in 1..Len(requests) :
         claim.saved.requests[r].airdrop = requests[r].airdrop
IInv == TypeOK /\ PaidOnce /\ ListFrozen /\ UsersListed /\ LatestRequest /\ SavedOK

\* A claim is all or nothing: when it returns, every NFT its caller was listed
\* with has been paid, to him and once (a fixed airdrop of different ids pays
\* nothing).
AllOrNothing ==
  [][claimReturns /\ data[claim.airdrop].claimType # CLAIM_TYPE_FIXED_DIFF
       => \A n \in Range(ListOf(claim)) : paid[claim.airdrop][n] = <<claim.by>>]_vars

\* A token leaves the contract only for an NFT of an airdrop of its collection
\* that had not been claimed for, and by equal ids only for the NFT of its id.
SpentFor(p, i, d, n) ==
  /\ data[d].token = p
  /\ n \notin nftTokenClaimeds[d] /\ n \in nftTokenClaimeds'[d]
  /\ data[d].claimType = CLAIM_TYPE_FIXED_SAME
       /\ data[d].tokenType = TOKEN_TYPE_ERC721 => n = i
StockAgainstMark ==
  [][revert \/ \A p \in Pools, i \in Ids :
       stock'[<<p, i>>] < stock[<<p, i>>] =>
         \E d \in 1..Len(data), n \in Ids : SpentFor(p, i, d, n)]_vars

\* Answers come late, to a request that was repeated since, or never, when the
\* coordinator asked was replaced: nobody is paid by lot before the last request
\* made for his airdrop was answered, whatever was answered to the ones before
\* and to those of other airdrops, and however a claim is interrupted.
LastRequest(d, r) ==
  /\ requests[r].airdrop = d
  /\ \A q \in DOMAIN requests : requests[q].airdrop = d => q <= r
DrawsAnswered ==
  [][revert \/ \A d \in 1..Len(data) :
       data[d].claimType = CLAIM_TYPE_RANDOM
         /\ ~(nftTokenClaimeds'[d] \subseteq nftTokenClaimeds[d])
         => \E r \in DOMAIN requests : LastRequest(d, r) /\ requests[r].words > 0]_vars

\* The comment of AirdropData's claimType, "1-Fixed, 2-Random": an airdrop of
\* claim type 2 pays those who claim.
TypeTwoPays ==
  [][claimReturns /\ data[claim.airdrop].claimType = 2
       => \A n \in Range(ListOf(claim)) : n \in nftTokenClaimeds[claim.airdrop]]_vars
=============================================================================
