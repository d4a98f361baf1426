--------------------- MODULE AirdropDistributionProofs ---------------------
(***************************************************************************)
(* Theorems of AirdropDistribution, for any users, ids, offers and bounds. *)
(***************************************************************************)
EXTENDS AirdropDistribution, TLAPS

StateTyped ==
  /\ owner \in Users \cup {None}
  /\ nftTokenClaimeds \in [AirdropIds -> SUBSET Ids]
  /\ requests \in Seq(Request)
  /\ stock \in [Pools \X Ids -> Nat]
  /\ paid \in [AirdropIds -> [Ids -> Seq(Users)]]
  /\ nftUserTokenIds \in [AirdropIds -> [Users -> Seq(Ids)]]
  /\ nftAllUsers \in [AirdropIds -> Seq(Users)]

SettingsTyped ==
  /\ vrfCoordinator \in Coordinators /\ vrfNumWords \in Nat
  /\ data \in Seq(Offers) /\ Len(data) <= MaxAirdrops
  /\ nftAirdropToIds \in [(Bound \cup Unbound) \X Pools -> 0..MaxAirdrops]
  /\ vrfRequestId \in [AirdropIds -> Nat]
  /\ erc1155Ids \in [AirdropIds -> Seq(Ids)]

ClaimTyped ==
  /\ claim \in ClaimType \cup {NoClaim}
  /\ claim # NoClaim => claim.airdrop <= Len(data)

\* TypeOK, which speaks of the record a revert restores, variable by variable.
LEMMA TypeByVars ==
  /\ TypeOK <=> StateTyped /\ SettingsTyped /\ ClaimTyped
  /\ TypeOK' <=> StateTyped' /\ SettingsTyped' /\ ClaimTyped'
<1>1. TypeOK <=> StateTyped /\ SettingsTyped /\ ClaimTyped
  BY DEF TypeOK, StateTyped, SettingsTyped, ClaimTyped, Storage, StorageType
<1>2. TypeOK' <=> StateTyped' /\ SettingsTyped' /\ ClaimTyped'
  BY DEF TypeOK, StateTyped, SettingsTyped, ClaimTyped, Storage, StorageType
<1> QED BY <1>1, <1>2

\* An open claim is a record of its type; what it is for exists.
LEMMA OpenClaim ==
  ASSUME ClaimTyped, SettingsTyped, claim # NoClaim
  PROVE  /\ claim \in ClaimType /\ claim.by \in Users
         /\ claim.airdrop \in AirdropIds /\ Exists(claim.airdrop)
         /\ claim.next \in Nat \ {0} /\ claim.saved \in StorageType
         /\ data[claim.airdrop] \in Settings
<1>1. claim \in ClaimType BY DEF ClaimTyped
<1>2. /\ claim.by \in Users /\ claim.airdrop \in AirdropIds
      /\ claim.next \in Nat \ {0} /\ claim.saved \in StorageType
  BY <1>1 DEF ClaimType
<1>3. Exists(claim.airdrop)
  BY <1>2, BoundsTyped DEF Exists, ClaimTyped, AirdropIds, SettingsTyped
<1>4. data[claim.airdrop] \in Offers
  BY <1>3 DEF Exists, SettingsTyped
<1> QED BY <1>1, <1>2, <1>3, <1>4, OffersTyped

\* What an NFT is paid with is in stock.
LEMMA AllocatedInStock ==
  ASSUME NEW d, NEW n \in Ids, NEW i \in Allocated(d, n)
  PROVE  i \in Ids /\ stock[<<data[d].token, i>>] > 0
BY DEF Allocated, InStock

\* Init gives every variable its type.
LEMMA InitTyped == Init => TypeOK
<1> SUFFICES ASSUME Init PROVE StateTyped /\ SettingsTyped /\ ClaimTyped
  BY TypeByVars
<1>1. StateTyped BY OwnersTyped DEF Init, StateTyped
<1>2. SettingsTyped BY OwnersTyped, BoundsTyped DEF Init, SettingsTyped
<1>3. ClaimTyped BY DEF Init, ClaimTyped
<1> QED BY <1>1, <1>2, <1>3

\* Every step keeps every variable in its type.
LEMMA StepTyped == TypeOK /\ [Next]_vars => TypeOK'
<1> SUFFICES ASSUME TypeOK, [Next]_vars
             PROVE  StateTyped' /\ SettingsTyped' /\ ClaimTyped'
  BY TypeByVars
<1> StateTyped /\ SettingsTyped /\ ClaimTyped BY TypeByVars
<1>1. CASE Create
  <2> PICK u \in Users, s \in Offers : createAirdrop(u, s) BY <1>1 DEF Create
  <2>5. Len(data) + 1 \in 0..MaxAirdrops /\ s \in Settings
    BY OffersTyped, BoundsTyped DEF createAirdrop, SettingsTyped
  <2>1. /\ UNCHANGED <<owner, vrf, vrfRequestId, config, requests, payout, claim>>
        /\ data' = Append(data, s) /\ claim = NoClaim
        /\ Len(data) < MaxAirdrops
        /\ nftAirdropToIds' = [nftAirdropToIds EXCEPT
                                 ![<<s.nftAsset, s.token>>] = Len(data) + 1]
    BY DEF createAirdrop, NotReentrant
  <2>2. SettingsTyped'
    <3>1. data' \in Seq(Offers) /\ Len(data') = Len(data) + 1
      BY <2>1 DEF SettingsTyped
    <3>2. nftAirdropToIds' \in [(Bound \cup Unbound) \X Pools -> 0..MaxAirdrops]
      BY <2>1, <2>5 DEF SettingsTyped, Settings
    <3> QED BY <2>1, <2>5, <3>1, <3>2 DEF SettingsTyped, vrf, config
  <2>3. StateTyped' BY <2>1 DEF StateTyped, config, payout
  <2>4. ClaimTyped' BY <2>1 DEF ClaimTyped
  <2> QED BY <2>2, <2>3, <2>4
<1>2. CASE Draw
  <2> PICK u \in Users, d \in AirdropIds : requestVRFRandomWords(u, d)
    BY <1>2 DEF Draw
  <2> DEFINE req == [airdrop |-> d, from |-> vrfCoordinator, asked |-> vrfNumWords,
                     pending |-> TRUE, words |-> 0]
  <2>1. req \in Request BY DEF Request, SettingsTyped
  <2>2. /\ UNCHANGED <<owner, vrf, made, config, payout, claim>>
        /\ requests' = Append(requests, req)
        /\ vrfRequestId' = [vrfRequestId EXCEPT ![d] = Len(requests) + 1]
    BY DEF requestVRFRandomWords, RecordRequest
  <2> HIDE DEF req
  <2>3. StateTyped' BY <2>1, <2>2 DEF StateTyped, config, payout
  <2>4. SettingsTyped' BY <2>2 DEF SettingsTyped, StateTyped, vrf, made, config
  <2>5. ClaimTyped' BY <2>2 DEF ClaimTyped, made
  <2> QED BY <2>3, <2>4, <2>5
<1>3. CASE Configure
  <2> PICK u \in Users :
        \/ \E c \in Coordinators : configureVRFCoordinator(u, c)
        \/ \E w \in 0..1 : configureVRFParams(u, w)
        \/ \E d \in AirdropIds :
             \/ \E v \in Users, n \in Ids : configureNftUserTokenIds(u, d, v, n)
             \/ \E vs \in SUBSET Users : clearNftUserTokenIds(u, d, vs)
             \/ \E ids \in ERC1155Lists : configureERC1155(u, d, ids)
        \/ \E v \in NewOwners \cup {None} : transferOwnership(u, v)
    BY <1>3 DEF Configure
  <2>1. CASE \/ \E c \in Coordinators : configureVRFCoordinator(u, c)
             \/ \E w \in 0..1 : configureVRFParams(u, w)
    BY <2>1 DEF configureVRFCoordinator, configureVRFParams, StateTyped,
       SettingsTyped, ClaimTyped, made, config, payout
  <2>2. CASE \E d \in AirdropIds, v \in Users, n \in Ids :
               configureNftUserTokenIds(u, d, v, n)
    <3> PICK d \in AirdropIds, v \in Users, n \in Ids :
          configureNftUserTokenIds(u, d, v, n)
      BY <2>2
    <3>1. nftAllUsers' \in [AirdropIds -> Seq(Users)]
      BY DEF configureNftUserTokenIds, StateTyped
    <3>2. nftUserTokenIds' \in [AirdropIds -> [Users -> Seq(Ids)]]
      BY DEF configureNftUserTokenIds, StateTyped
    <3> QED BY <3>1, <3>2 DEF configureNftUserTokenIds, StateTyped, SettingsTyped,
               ClaimTyped, vrf, made, payout
  <2>3. CASE \E d \in AirdropIds, vs \in SUBSET Users : clearNftUserTokenIds(u, d, vs)
    <3> PICK d \in AirdropIds, vs \in SUBSET Users : clearNftUserTokenIds(u, d, vs)
      BY <2>3
    <3>1. nftUserTokenIds' \in [AirdropIds -> [Users -> Seq(Ids)]]
      BY DEF clearNftUserTokenIds, StateTyped
    <3> QED BY <3>1 DEF clearNftUserTokenIds, StateTyped, SettingsTyped,
               ClaimTyped, vrf, made, payout
  <2>4. CASE \E d \in AirdropIds, ids \in ERC1155Lists : configureERC1155(u, d, ids)
    <3> PICK d \in AirdropIds, ids \in ERC1155Lists : configureERC1155(u, d, ids)
      BY <2>4
    <3>1. ids \in Seq(Ids)
      <4> PICK k \in 0..2 : ids \in [1..k -> Ids] BY DEF ERC1155Lists
      <4> QED OBVIOUS
    <3>2. erc1155Ids' \in [AirdropIds -> Seq(Ids)]
      BY <3>1 DEF configureERC1155, SettingsTyped
    <3> QED BY <3>2 DEF configureERC1155, StateTyped, SettingsTyped, ClaimTyped, vrf,
               made, payout
  <2>5. CASE \E v \in NewOwners \cup {None} : transferOwnership(u, v)
    BY <2>5, OwnersTyped DEF transferOwnership, StateTyped, SettingsTyped,
       ClaimTyped, vrf, made, config, payout
  <2> QED BY <2>1, <2>2, <2>3, <2>4, <2>5
<1>4. CASE Answer
  <2> PICK r \in 1..MaxRequests : rawFulfillRandomWords(r) BY <1>4 DEF Answer
  <2> PICK w \in {0, requests[r].asked} :
        requests' = [requests EXCEPT ![r] = [@ EXCEPT !.pending = FALSE, !.words = w]]
    BY DEF rawFulfillRandomWords
  <2>1. r \in DOMAIN requests /\ requests[r] \in Request
    BY DEF rawFulfillRandomWords, StateTyped
  <2>2. w \in Nat BY <2>1 DEF Request
  <2>3. [requests[r] EXCEPT !.pending = FALSE, !.words = w] \in Request
    BY <2>1, <2>2 DEF Request
  <2>4. requests' \in Seq(Request)
    BY <2>1, <2>2, <2>3 DEF StateTyped
  <2> QED BY <2>4 DEF rawFulfillRandomWords, StateTyped, SettingsTyped, ClaimTyped,
             vrf, made, config, payout
<1>5. CASE Deposit
  <2> PICK p \in ERC721s \cup ERC1155s, i \in Ids : deposit(p, i) BY <1>5 DEF Deposit
  <2>1. stock' \in [Pools \X Ids -> Nat] BY DEF deposit, StateTyped, Pools
  <2> QED BY <2>1 DEF deposit, StateTyped, SettingsTyped, ClaimTyped, vrf, made, config
<1>6. CASE Claim
  <2> PICK u \in Users, d \in AirdropIds : claimAirdrop(u, d) BY <1>6 DEF Claim
  <2> DEFINE c == [by |-> u, airdrop |-> d, next |-> 1, saved |-> Storage]
  <2>1. c \in ClaimType BY DEF ClaimType, StateTyped, Storage, StorageType
  <2>2. claim' = c /\ d <= Len(data) BY DEF claimAirdrop, Exists
  <2>3. ClaimTyped' BY <2>1, <2>2 DEF ClaimTyped, claimAirdrop, made
  <2> QED BY <2>3 DEF claimAirdrop, StateTyped, SettingsTyped, vrf, made, config, payout
<1>7. CASE payNext
  <2> PICK d, n, p : /\ d = claim.airdrop /\ n = ListOf(claim)[claim.next]
                     /\ p = data[d].token
    OBVIOUS
  <2>1. /\ claim # NoClaim /\ claim.next <= Len(ListOf(claim))
        /\ claim' = [claim EXCEPT !.next = claim.next + 1]
        /\ UNCHANGED <<owner, vrf, made, vrfRequestId, config, requests>>
    BY <1>7 DEF payNext
  <2>2. PICK i \in Allocated(d, n) :
          /\ nftTokenClaimeds' = [nftTokenClaimeds EXCEPT ![d] = @ \cup {n}]
          /\ stock' = [stock EXCEPT ![<<p, i>>] = @ - 1]
          /\ paid' = [paid EXCEPT ![d][n] = Append(@, claim.by)]
    BY <1>7 DEF payNext, Mark
  <2>3. ClaimTyped'
    <3>1. claim' \in ClaimType /\ claim'.airdrop = claim.airdrop
      BY <2>1, OpenClaim DEF ClaimType
    <3> QED BY <2>1, <3>1 DEF ClaimTyped, made
  <2> HIDE DEF ClaimTyped
  <2>4. n \in Ids /\ d \in AirdropIds /\ p \in Pools /\ claim.by \in Users
    <3>1. d \in AirdropIds /\ claim.by \in Users /\ p \in Pools /\ claim.next \in Nat \ {0}
      BY <2>1, OpenClaim DEF Settings
    <3>2. ListOf(claim) \in Seq(Ids) BY <2>1, OpenClaim DEF ListOf, StateTyped
    <3> QED BY <2>1, <3>1, <3>2
  <2>5. i \in Ids /\ stock[<<p, i>>] > 0 BY <2>4, AllocatedInStock
  <2>6. stock' \in [Pools \X Ids -> Nat] BY <2>2, <2>4, <2>5 DEF StateTyped
  <2>7. paid' \in [AirdropIds -> [Ids -> Seq(Users)]]
    BY <2>2, <2>4 DEF StateTyped
  <2>8. nftTokenClaimeds' \in [AirdropIds -> SUBSET Ids]
    BY <2>2, <2>4 DEF StateTyped
  <2> QED BY <2>1, <2>3, <2>6, <2>7, <2>8 DEF StateTyped, SettingsTyped, vrf, made, config
<1>8. CASE skipNext
  <2>1. /\ claim # NoClaim /\ claim' = [claim EXCEPT !.next = claim.next + 1]
        /\ UNCHANGED <<owner, vrf, made, vrfRequestId, config, requests, payout>>
    BY <1>8 DEF skipNext
  <2>2. claim' \in ClaimType /\ claim'.airdrop = claim.airdrop
    BY <2>1, OpenClaim DEF ClaimType
  <2> QED BY <2>1, <2>2 DEF StateTyped, SettingsTyped, ClaimTyped, vrf, made, config,
             payout
<1>9. CASE claimReturns
  BY <1>9 DEF claimReturns, StateTyped, SettingsTyped, ClaimTyped, vrf, made, config,
     payout
<1>10. CASE revert
  <2>1. claim.saved \in StorageType BY <1>10, OpenClaim DEF revert
  <2>2. StateTyped' BY <1>10, <2>1 DEF revert, StateTyped, StorageType
  <2> QED BY <1>10, <2>2 DEF revert, SettingsTyped, ClaimTyped, vrf, made
<1>11. CASE UNCHANGED vars
  BY <1>11 DEF vars, StateTyped, SettingsTyped, ClaimTyped, vrf, made, config, payout
<1> QED BY <1>1, <1>2, <1>3, <1>4, <1>5, <1>6, <1>7, <1>8, <1>9, <1>10, <1>11 DEF Next

\* Type correctness, the storage an open claim keeps included.
THEOREM TypeCorrect == Spec => []TypeOK
BY InitTyped, StepTyped, PTL DEF Spec

-----------------------------------------------------------------------------
\* The inductive invariant.

\* The parts that speak of an open claim hold when there is none.
LEMMA NoneOpen ==
  ASSUME claim' = NoClaim
  PROVE  ListFrozen' /\ SavedOK'
BY DEF ListFrozen, SavedOK

\* A step that leaves alone all that an open claim speaks of.
LEMMA ClaimUndisturbed ==
  ASSUME IInv, UNCHANGED <<claim, nftUserTokenIds, nftAllUsers, requests>>
  PROVE  /\ ListFrozen' /\ SavedOK' /\ UsersListed'
         /\ UNCHANGED vrfRequestId => LatestRequest'
<1>1. ListFrozen' BY DEF IInv, ListFrozen, ListOf
<1>2. SavedOK' BY DEF IInv, SavedOK, MarkedOnce
<1>3. UsersListed' BY DEF IInv, UsersListed
<1>4. UNCHANGED vrfRequestId => LatestRequest' BY DEF IInv, LatestRequest
<1> QED BY <1>1, <1>2, <1>3, <1>4

\* Answers do not change which request is whose.
LEMMA SameRequests ==
  ASSUME LatestRequest, SettingsTyped, requests \in Seq(Request), UNCHANGED vrfRequestId,
         Len(requests') = Len(requests),
         \A r \in 1..Len(requests) : requests'[r].airdrop = requests[r].airdrop
  PROVE  LatestRequest'
<1> SUFFICES ASSUME NEW d \in AirdropIds
             PROVE  /\ vrfRequestId[d] <= Len(requests)
                    /\ vrfRequestId[d] # 0 => requests'[vrfRequestId[d]].airdrop = d
                    /\ \A r \in 1..Len(requests) :
                         requests'[r].airdrop = d => r <= vrfRequestId[d]
  BY DEF LatestRequest
<1> PICK q \in Nat : q = vrfRequestId[d] BY DEF SettingsTyped
<1>1. /\ q <= Len(requests)
      /\ q # 0 => requests[q].airdrop = d
      /\ \A r \in 1..Len(requests) : requests[r].airdrop = d => r <= q
  BY DEF LatestRequest
<1>2. q # 0 => q \in 1..Len(requests) BY <1>1
<1> QED BY <1>1, <1>2

\* The invariant holds at deployment.
LEMMA InitInv == Init => IInv
<1> SUFFICES ASSUME Init PROVE IInv OBVIOUS
<1>1. PaidOnce BY DEF Init, PaidOnce, MarkedOnce
<1>2. ListFrozen /\ SavedOK /\ UsersListed BY DEF Init, ListFrozen, SavedOK, UsersListed
<1>3. LatestRequest BY DEF Init, LatestRequest
<1> QED BY <1>1, <1>2, <1>3, InitTyped DEF IInv

\* One step, action by action.
LEMMA StepInv == IInv /\ [Next]_vars => IInv'
<1> SUFFICES ASSUME IInv, [Next]_vars
             PROVE  PaidOnce' /\ ListFrozen' /\ UsersListed' /\ LatestRequest' /\ SavedOK'
  BY StepTyped DEF IInv
<1> StateTyped /\ SettingsTyped /\ ClaimTyped BY TypeByVars DEF IInv
<1>1. ASSUME UNCHANGED <<nftTokenClaimeds, paid>> PROVE PaidOnce'
  BY <1>1 DEF IInv, PaidOnce, MarkedOnce
<1>2. CASE Create
  BY <1>1, <1>2, ClaimUndisturbed DEF Create, createAirdrop, config, payout
<1>3. CASE Draw
  <2> PICK u \in Users, d \in AirdropIds : requestVRFRandomWords(u, d)
    BY <1>3 DEF Draw
  <2> PICK q : q = [airdrop |-> d, from |-> vrfCoordinator, asked |-> vrfNumWords,
                    pending |-> TRUE, words |-> 0]
    OBVIOUS
  <2>1. /\ UNCHANGED <<config, payout>> /\ claim' = NoClaim
        /\ requests' = Append(requests, q) /\ q.airdrop = d
        /\ vrfRequestId' = [vrfRequestId EXCEPT ![d] = Len(requests) + 1]
    BY DEF requestVRFRandomWords, RecordRequest, NotReentrant
  <2>2. UsersListed' BY <2>1 DEF IInv, UsersListed, config
  <2>3. LatestRequest'
    <3>1. /\ Len(requests') = Len(requests) + 1 /\ Len(requests) \in Nat
          /\ requests'[Len(requests) + 1] = q
          /\ \A r \in 1..Len(requests) : requests'[r] = requests[r]
      BY <2>1 DEF StateTyped
    <3>2. SUFFICES ASSUME NEW x \in AirdropIds
                   PROVE  /\ vrfRequestId'[x] <= Len(requests')
                          /\ vrfRequestId'[x] # 0 => requests'[vrfRequestId'[x]].airdrop = x
                          /\ \A r \in 1..Len(requests') :
                               requests'[r].airdrop = x => r <= vrfRequestId'[x]
      BY DEF LatestRequest
    <3>3. CASE x = d
      <4>1. vrfRequestId'[x] = Len(requests) + 1
        BY <2>1, <3>3 DEF SettingsTyped
      <4> QED BY <2>1, <3>1, <3>3, <4>1
    <3>4. CASE x # d
      <4>1. vrfRequestId'[x] = vrfRequestId[x] /\ vrfRequestId[x] \in Nat
        BY <2>1, <3>4 DEF SettingsTyped
      <4>2. /\ vrfRequestId[x] <= Len(requests)
            /\ vrfRequestId[x] # 0 => requests[vrfRequestId[x]].airdrop = x
            /\ \A r \in 1..Len(requests) : requests[r].airdrop = x => r <= vrfRequestId[x]
        BY DEF IInv, LatestRequest
      <4> QED BY <2>1, <3>1, <3>4, <4>1, <4>2
    <3> QED BY <3>3, <3>4
  <2> QED BY <1>1, <2>1, <2>2, <2>3, NoneOpen DEF payout
<1>4. CASE Configure
  <2> PICK u \in Users :
        \/ \E c \in Coordinators : configureVRFCoordinator(u, c)
        \/ \E w \in 0..1 : configureVRFParams(u, w)
        \/ \E d \in AirdropIds :
             \/ \E v \in Users, n \in Ids : configureNftUserTokenIds(u, d, v, n)
             \/ \E vs \in SUBSET Users : clearNftUserTokenIds(u, d, vs)
             \/ \E ids \in ERC1155Lists : configureERC1155(u, d, ids)
        \/ \E v \in NewOwners \cup {None} : transferOwnership(u, v)
    BY <1>4 DEF Configure
  <2>1. CASE \/ \E c \in Coordinators : configureVRFCoordinator(u, c)
             \/ \E w \in 0..1 : configureVRFParams(u, w)
             \/ \E d \in AirdropIds, ids \in ERC1155Lists : configureERC1155(u, d, ids)
             \/ \E v \in NewOwners \cup {None} : transferOwnership(u, v)
    BY <1>1, <2>1, ClaimUndisturbed DEF configureVRFCoordinator, configureVRFParams,
       configureERC1155, transferOwnership, config, payout
  <2>2. CASE \E d \in AirdropIds, v \in Users, n \in Ids :
               configureNftUserTokenIds(u, d, v, n)
    <3> PICK d \in AirdropIds, v \in Users, n \in Ids :
          configureNftUserTokenIds(u, d, v, n)
      BY <2>2
    <3>1. claim' = NoClaim /\ UNCHANGED <<requests, vrfRequestId, payout>>
      BY DEF configureNftUserTokenIds, NotReentrant
    <3>2. LatestRequest' BY <3>1 DEF IInv, LatestRequest
    <3>3. UsersListed'
      <4> SUFFICES ASSUME NEW x \in AirdropIds, NEW y \in Users,
                          nftUserTokenIds'[x][y] # << >>
                   PROVE  y \in Range(nftAllUsers'[x])
        BY DEF UsersListed
      <4>1. \A s \in Seq(Users), w \in Users : /\ Range(s) \subseteq Range(Append(s, w))
                                               /\ w \in Range(Append(s, w))
        <5> TAKE s \in Seq(Users), w \in Users
        <5>1. /\ DOMAIN Append(s, w) = 1..(Len(s) + 1) /\ DOMAIN s = 1..Len(s)
              /\ \A k \in 1..Len(s) : Append(s, w)[k] = s[k]
              /\ Append(s, w)[Len(s) + 1] = w
          OBVIOUS
        <5> QED BY <5>1 DEF Range
      <4>2. nftAllUsers'[x] = nftAllUsers[x] \/ nftAllUsers'[x] = Append(nftAllUsers[x], v)
        BY DEF configureNftUserTokenIds, StateTyped
      <4>3. CASE nftUserTokenIds[x][y] # << >>
        BY <4>1, <4>2, <4>3 DEF IInv, UsersListed, StateTyped
      <4>4. CASE nftUserTokenIds[x][y] = << >>
        <5>1. x = d /\ y = v BY <4>4 DEF configureNftUserTokenIds, StateTyped
        <5>2. nftAllUsers'[x] = Append(nftAllUsers[x], v)
          BY <4>4, <5>1 DEF configureNftUserTokenIds, EnterUser, StateTyped
        <5> QED BY <4>1, <5>1, <5>2 DEF StateTyped
      <4> QED BY <4>3, <4>4
    <3> QED BY <1>1, <3>1, <3>2, <3>3, NoneOpen DEF payout
  <2>3. CASE \E d \in AirdropIds, vs \in SUBSET Users : clearNftUserTokenIds(u, d, vs)
    <3> PICK d \in AirdropIds, vs \in SUBSET Users : clearNftUserTokenIds(u, d, vs)
      BY <2>3
    <3>1. claim' = NoClaim /\ UNCHANGED <<requests, vrfRequestId, payout, nftAllUsers>>
      BY DEF clearNftUserTokenIds, NotReentrant
    <3>2. LatestRequest' BY <3>1 DEF IInv, LatestRequest
    <3>3. UsersListed'
      BY <3>1 DEF clearNftUserTokenIds, IInv, UsersListed, StateTyped
    <3> QED BY <1>1, <3>1, <3>2, <3>3, NoneOpen DEF payout
  <2> QED BY <2>1, <2>2, <2>3
<1>5. CASE Answer
  <2> PICK r \in 1..MaxRequests : rawFulfillRandomWords(r) BY <1>5 DEF Answer
  <2>1. /\ UNCHANGED <<vrfRequestId, config, payout, claim>>
        /\ Len(requests') = Len(requests)
        /\ \A k \in 1..Len(requests) : requests'[k].airdrop = requests[k].airdrop
    <3> PICK w \in {0, requests[r].asked} :
          requests' = [requests EXCEPT ![r] = [@ EXCEPT !.pending = FALSE, !.words = w]]
      BY DEF rawFulfillRandomWords
    <3>1. r \in 1..Len(requests) /\ requests[r] \in Request
      BY DEF rawFulfillRandomWords, StateTyped
    <3>2. /\ Len(requests') = Len(requests)
          /\ \A k \in 1..Len(requests) : requests'[k].airdrop = requests[k].airdrop
      BY <3>1 DEF StateTyped, Request
    <3> QED BY <3>2 DEF rawFulfillRandomWords
  <2>2. LatestRequest'
    BY <2>1, SameRequests DEF IInv, StateTyped
  <2>3. ListFrozen' /\ UsersListed'
    BY <2>1 DEF IInv, ListFrozen, ListOf, UsersListed, config
  <2>4. SavedOK' BY <2>1 DEF IInv, SavedOK, MarkedOnce, config
  <2> QED BY <1>1, <2>1, <2>2, <2>3, <2>4 DEF payout
<1>6. CASE Deposit
  BY <1>1, <1>6, ClaimUndisturbed DEF Deposit, deposit, config
<1>7. CASE Claim
  <2> PICK u \in Users, d \in AirdropIds : claimAirdrop(u, d) BY <1>7 DEF Claim
  <2> PICK c : c = [by |-> u, airdrop |-> d, next |-> 1, saved |-> Storage]
    OBVIOUS
  <2>1. /\ claim' = c /\ UNCHANGED <<vrfRequestId, config, requests, payout>>
        /\ c.airdrop = d /\ c.by = u
        /\ c.saved.paid = paid /\ c.saved.claimeds = nftTokenClaimeds
        /\ c.saved.userTokenIds = nftUserTokenIds /\ c.saved.allUsers = nftAllUsers
        /\ c.saved.requests = requests
    BY DEF claimAirdrop, Storage
  <2>2. ListFrozen' BY <2>1 DEF ListFrozen, ListOf, config
  <2>3. SavedOK' BY <2>1 DEF IInv, PaidOnce, SavedOK, config, MarkedOnce
  <2>4. LatestRequest' /\ UsersListed'
    BY <2>1 DEF IInv, LatestRequest, UsersListed, config
  <2> QED BY <1>1, <2>1, <2>2, <2>3, <2>4 DEF payout
<1>8. CASE payNext \/ skipNext
  <2>1. /\ claim # NoClaim /\ claim' = [claim EXCEPT !.next = claim.next + 1]
        /\ UNCHANGED <<vrfRequestId, config, requests>>
    BY <1>8 DEF payNext, skipNext
  <2>2. /\ claim'.by = claim.by /\ claim'.airdrop = claim.airdrop
        /\ claim'.saved = claim.saved
    BY <2>1, OpenClaim DEF ClaimType
  <2>3. ListFrozen' BY <2>1, <2>2 DEF IInv, ListFrozen, ListOf, config
  <2>4. SavedOK' BY <2>1, <2>2 DEF IInv, SavedOK, config, MarkedOnce
  <2>5. LatestRequest' /\ UsersListed'
    BY <2>1 DEF IInv, LatestRequest, UsersListed, config
  <2>6. PaidOnce'
    <3>1. CASE skipNext BY <1>1, <3>1 DEF skipNext, payout
    <3>2. CASE payNext
      <4> PICK d, n : d = claim.airdrop /\ n = ListOf(claim)[claim.next] OBVIOUS
      <4>1. /\ n \notin nftTokenClaimeds[d]
            /\ nftTokenClaimeds' = [nftTokenClaimeds EXCEPT ![d] = @ \cup {n}]
            /\ paid' = [paid EXCEPT ![d][n] = Append(@, claim.by)]
        BY <3>2 DEF payNext, Mark
      <4>2. d \in AirdropIds /\ claim.by \in Users BY <2>1, OpenClaim
      <4> SUFFICES ASSUME NEW x \in AirdropIds, NEW y \in Ids
                   PROVE  Len(paid'[x][y]) = IF y \in nftTokenClaimeds'[x] THEN 1 ELSE 0
        BY DEF PaidOnce, MarkedOnce
      <4>3. Len(paid[x][y]) = IF y \in nftTokenClaimeds[x] THEN 1 ELSE 0
        BY DEF IInv, PaidOnce, MarkedOnce
      <4>4. CASE x = d /\ y = n
        <5>1. paid'[x][y] = Append(paid[x][y], claim.by)
          BY <4>1, <4>4 DEF StateTyped
        <5>2. Len(paid'[x][y]) = Len(paid[x][y]) + 1
          BY <4>2, <5>1 DEF StateTyped
        <5> QED BY <4>1, <4>2, <4>3, <4>4, <5>2 DEF StateTyped
      <4>5. CASE ~ (x = d /\ y = n)
        <5>1. paid'[x][y] = paid[x][y] BY <4>1, <4>5 DEF StateTyped
        <5>2. y \in nftTokenClaimeds'[x] <=> y \in nftTokenClaimeds[x]
          BY <4>1, <4>5 DEF StateTyped
        <5> QED BY <4>3, <5>1, <5>2
      <4> QED BY <4>4, <4>5
    <3> QED BY <1>8, <3>1, <3>2
  <2> QED BY <2>3, <2>4, <2>5, <2>6
<1>9. CASE claimReturns
  <2>1. claim' = NoClaim /\ UNCHANGED <<vrfRequestId, config, requests, payout>>
    BY <1>9 DEF claimReturns
  <2>2. LatestRequest' /\ UsersListed'
    BY <2>1 DEF IInv, LatestRequest, UsersListed, config
  <2> QED BY <1>1, <2>1, <2>2, NoneOpen DEF payout
<1>10. CASE revert
  <2> PICK s : s = claim.saved OBVIOUS
  <2>1. /\ claim # NoClaim /\ claim' = NoClaim /\ UNCHANGED vrfRequestId
        /\ nftTokenClaimeds' = s.claimeds /\ paid' = s.paid /\ requests' = s.requests
        /\ nftUserTokenIds' = s.userTokenIds /\ nftAllUsers' = s.allUsers
    BY <1>10 DEF revert
  <2>2. /\ MarkedOnce(s.paid, s.claimeds)
        /\ s.userTokenIds = nftUserTokenIds /\ s.allUsers = nftAllUsers
        /\ Len(s.requests) = Len(requests)
        /\ \A r \in 1..Len(requests) : s.requests[r].airdrop = requests[r].airdrop
    BY <2>1 DEF IInv, SavedOK
  <2>3. PaidOnce' BY <2>1, <2>2 DEF PaidOnce, MarkedOnce
  <2>4. UsersListed' BY <2>1, <2>2 DEF IInv, UsersListed
  <2>5. LatestRequest' BY <2>1, <2>2, SameRequests DEF IInv, StateTyped
  <2> QED BY <2>1, <2>3, <2>4, <2>5, NoneOpen
<1>11. CASE UNCHANGED vars
  BY <1>1, <1>11, ClaimUndisturbed DEF vars, config, payout
<1> QED BY <1>2, <1>3, <1>4, <1>5, <1>6, <1>7, <1>8, <1>9, <1>10, <1>11 DEF Next

\* The inductive invariant holds throughout.
THEOREM Inductive == Spec => []IInv
BY InitInv, StepInv, PTL DEF Spec

\* No NFT is paid twice, and none is marked without being paid.
THEOREM NoDoublePayment == Spec => []PaidOnce
<1>1. IInv => PaidOnce BY DEF IInv
<1> QED BY Inductive, <1>1, PTL

\* Nobody changes the list of a claim that is open.
THEOREM ListsHold == Spec => []ListFrozen
<1>1. IInv => ListFrozen BY DEF IInv
<1> QED BY Inductive, <1>1, PTL

\* Nobody is paid by lot before the last request of his airdrop was answered:
\* the record the lot is drawn with is that request's, in claims of any length
\* and with answers in any order.
THEOREM PaidByOwnAnswer == Spec => DrawsAnswered
<1> DEFINE A == revert \/ \A d \in 1..Len(data) :
                  data[d].claimType = CLAIM_TYPE_RANDOM
                    /\ ~(nftTokenClaimeds'[d] \subseteq nftTokenClaimeds[d])
                  => \E r \in DOMAIN requests : LastRequest(d, r) /\ requests[r].words > 0
<1>1. IInv /\ [Next]_vars => [A]_vars
  <2> SUFFICES ASSUME IInv, Next, ~ revert, NEW d \in 1..Len(data),
                      data[d].claimType = CLAIM_TYPE_RANDOM,
                      ~(nftTokenClaimeds'[d] \subseteq nftTokenClaimeds[d])
               PROVE  \E r \in DOMAIN requests : LastRequest(d, r) /\ requests[r].words > 0
    OBVIOUS
  <2> StateTyped /\ SettingsTyped /\ ClaimTyped BY TypeByVars DEF IInv
  <2>1. ~ UNCHANGED nftTokenClaimeds OBVIOUS
  <2>2. ~ (Create \/ Draw \/ Configure \/ Answer \/ Claim \/ skipNext \/ claimReturns
           \/ Deposit)
    BY <2>1 DEF Create, createAirdrop, Draw, requestVRFRandomWords, Configure,
       configureVRFCoordinator, configureVRFParams, configureNftUserTokenIds,
       clearNftUserTokenIds, configureERC1155, transferOwnership, Answer,
       rawFulfillRandomWords, Claim, claimAirdrop, skipNext, claimReturns, Deposit,
       deposit, payout
  <2>3. payNext BY <2>2 DEF Next
  <2> PICK e, n : e = claim.airdrop /\ n = ListOf(claim)[claim.next] OBVIOUS
  <2>4. PICK i \in Allocated(e, n) :
          nftTokenClaimeds' = [nftTokenClaimeds EXCEPT ![e] = @ \cup {n}]
    BY <2>3 DEF payNext, Mark
  <2>5. /\ d \in AirdropIds /\ Len(data) \in Nat
        /\ nftTokenClaimeds \in [AirdropIds -> SUBSET Ids]
    <3>1. data \in Seq(Offers) /\ Len(data) <= MaxAirdrops BY DEF IInv, TypeOK
    <3> QED BY <3>1, BoundsTyped DEF StateTyped, AirdropIds
  <2>6. d = e BY <2>4, <2>5
  <2>7. HasRandomWord(d)
    <3>1. data[e].claimType = CLAIM_TYPE_RANDOM BY <2>6
    <3> DEFINE S == (IF data[e].tokenType = TOKEN_TYPE_ERC721
                     THEN Ids ELSE Range(erc1155Ids[e])) \cap InStock(data[e].token)
    <3>2. Allocated(e, n) = {k \in S : HasRandomWord(e)} BY <3>1 DEF Allocated
    <3> HIDE DEF S
    <3> QED BY <2>4, <2>6, <3>2
  <2>8. PICK q \in Nat : q = vrfRequestId[d] BY <2>5 DEF SettingsTyped
  <2>9. /\ q # 0 /\ requests[q].words > 0 /\ q <= Len(requests) /\ requests[q].airdrop = d
        /\ \A r \in 1..Len(requests) : requests[r].airdrop = d => r <= q
    BY <2>5, <2>7, <2>8 DEF HasRandomWord, IInv, LatestRequest
  <2>10. DOMAIN requests = 1..Len(requests) /\ Len(requests) \in Nat BY DEF StateTyped
  <2>11. q \in DOMAIN requests BY <2>8, <2>9, <2>10
  <2> QED BY <2>9, <2>10, <2>11 DEF LastRequest
<1> QED BY Inductive, <1>1, PTL DEF Spec, DrawsAnswered

\* Everybody listed can be found among an airdrop's users.
THEOREM ListedAreUsers == Spec => []UsersListed
<1>1. IInv => UsersListed BY DEF IInv
<1> QED BY Inductive, <1>1, PTL

\* A token leaves only for an NFT marked in the same step.
THEOREM SpentAgainstMark == Spec => StockAgainstMark
<1> DEFINE A == revert \/ \A p \in Pools, i \in Ids :
                  stock'[<<p, i>>] < stock[<<p, i>>] =>
                    \E d \in 1..Len(data), n \in Ids : SpentFor(p, i, d, n)
<1>1. TypeOK /\ [Next]_vars => [A]_vars
  <2> SUFFICES ASSUME TypeOK, Next, ~ revert, NEW x \in Pools, NEW j \in Ids,
                      stock'[<<x, j>>] < stock[<<x, j>>]
               PROVE  \E d \in 1..Len(data), n \in Ids : SpentFor(x, j, d, n)
    OBVIOUS
  <2> StateTyped /\ SettingsTyped /\ ClaimTyped BY TypeByVars
  <2>1. ~ UNCHANGED stock
    <3>1. stock[<<x, j>>] \in Nat BY DEF StateTyped
    <3> QED BY <3>1
  <2>2. ~ Deposit
    <3> SUFFICES ASSUME NEW p \in ERC721s \cup ERC1155s, NEW i \in Ids, deposit(p, i)
                 PROVE  FALSE
      BY DEF Deposit
    <3>1. stock' = [stock EXCEPT ![<<p, i>>] = @ + 1] BY DEF deposit
    <3>2. stock[<<x, j>>] \in Nat BY DEF StateTyped
    <3>3. stock'[<<x, j>>] \in {stock[<<x, j>>], stock[<<x, j>>] + 1}
      BY <3>1 DEF StateTyped
    <3> QED BY <3>2, <3>3
  <2>3. ~ (Create \/ Draw \/ Configure \/ Answer \/ Claim \/ skipNext \/ claimReturns)
    BY <2>1 DEF Create, createAirdrop, Draw, requestVRFRandomWords, Configure,
       configureVRFCoordinator, configureVRFParams, configureNftUserTokenIds,
       clearNftUserTokenIds, configureERC1155, transferOwnership, Answer,
       rawFulfillRandomWords, Claim, claimAirdrop, skipNext, claimReturns, payout
  <2>4. payNext BY <2>2, <2>3 DEF Next
  <2> PICK d, n, p : /\ d = claim.airdrop /\ n = ListOf(claim)[claim.next]
                     /\ p = data[d].token
    OBVIOUS
  <2>5. /\ claim # NoClaim /\ claim.next <= Len(ListOf(claim))
        /\ n \notin nftTokenClaimeds[d]
    BY <2>4 DEF payNext
  <2>6. PICK i \in Allocated(d, n) :
          /\ nftTokenClaimeds' = [nftTokenClaimeds EXCEPT ![d] = @ \cup {n}]
          /\ stock' = [stock EXCEPT ![<<p, i>>] = @ - 1]
    BY <2>4 DEF payNext, Mark
  <2>7. /\ d \in AirdropIds /\ d \in 1..Len(data) /\ claim.next \in Nat \ {0}
        /\ claim.by \in Users
    BY <2>5, OpenClaim DEF Exists
  <2>8. n \in Ids
    <3>1. ListOf(claim) \in Seq(Ids) BY <2>7 DEF ListOf, StateTyped
    <3> QED BY <2>5, <2>7, <3>1
  <2>9. x = p /\ j = i BY <2>1, <2>6 DEF StateTyped
  <2>10. data[d].claimType = CLAIM_TYPE_FIXED_SAME
           /\ data[d].tokenType = TOKEN_TYPE_ERC721 => i = n
    BY DEF Allocated, CLAIM_TYPE_FIXED_SAME, CLAIM_TYPE_RANDOM
  <2>11. SpentFor(x, j, d, n)
    BY <2>5, <2>6, <2>7, <2>9, <2>10 DEF SpentFor, StateTyped
  <2> QED BY <2>7, <2>8, <2>11
<1> QED BY TypeCorrect, <1>1, PTL DEF Spec, StockAgainstMark

-----------------------------------------------------------------------------
\* What AllOrNothing needs besides: an open claim has paid what is behind it.

PaidSoFar ==
  claim # NoClaim /\ data[claim.airdrop].claimType # CLAIM_TYPE_FIXED_DIFF =>
    \A k \in DOMAIN ListOf(claim) :
      k < claim.next => paid[claim.airdrop][ListOf(claim)[k]] = <<claim.by>>

\* A step that leaves the claim, the airdrops and the payments alone.
LEMMA PaymentsUndisturbed ==
  ASSUME IInv, IInv', PaidSoFar, UNCHANGED <<claim, data, paid>>
  PROVE  PaidSoFar'
<1>1. claim # NoClaim => ListOf(claim)' = ListOf(claim) BY DEF IInv, ListFrozen, ListOf
<1> QED BY <1>1 DEF PaidSoFar

\* The turn of the loop pays an NFT that was not paid before, and no other.
LEMMA TurnPays ==
  ASSUME IInv, PaidSoFar, payNext
  PROVE  PaidSoFar'
<1> StateTyped /\ SettingsTyped /\ ClaimTyped BY TypeByVars DEF IInv
<1> DEFINE d == claim.airdrop
           list == ListOf(claim)
           n == list[claim.next]
<1>1. /\ claim # NoClaim /\ claim.next <= Len(list) /\ n \notin nftTokenClaimeds[d]
      /\ data[d].claimType # CLAIM_TYPE_FIXED_DIFF
      /\ paid' = [paid EXCEPT ![d][n] = Append(@, claim.by)]
      /\ claim' = [claim EXCEPT !.next = @ + 1]
      /\ UNCHANGED <<data, nftUserTokenIds>>
  BY DEF payNext, config, made
<1>2. /\ d \in AirdropIds /\ claim.by \in Users /\ claim.next \in Nat \ {0}
      /\ claim \in ClaimType
  BY <1>1, OpenClaim
<1>3. list \in Seq(Ids) BY <1>2 DEF ListOf, StateTyped
<1>4. /\ claim'.by = claim.by /\ claim'.airdrop = d /\ claim'.next = claim.next + 1
      /\ ListOf(claim)' = list
  BY <1>1, <1>2 DEF ClaimType, ListOf
<1>5. n \in Ids BY <1>1, <1>2, <1>3
<1>6. paid[d][n] = << >>
  <2>1. Len(paid[d][n]) = 0 BY <1>1, <1>2, <1>5 DEF IInv, PaidOnce, MarkedOnce
  <2>2. paid[d][n] \in Seq(Users) BY <1>2, <1>5 DEF StateTyped
  <2> QED BY <2>1, <2>2
<1>7. \A k \in DOMAIN list : k < claim.next => paid[d][list[k]] = <<claim.by>>
  BY <1>1 DEF PaidSoFar
<1> HIDE DEF d, list, n
<1>8. SUFFICES ASSUME NEW k \in DOMAIN list, k < claim.next + 1
               PROVE  paid'[d][list[k]] = <<claim.by>>
  BY <1>4 DEF PaidSoFar, d, list
<1>9. CASE k = claim.next
  <2>1. paid'[d][n] = Append(paid[d][n], claim.by)
    BY <1>1, <1>2, <1>5 DEF StateTyped
  <2> QED BY <1>6, <1>9, <2>1 DEF n
<1>10. CASE k # claim.next
  <2>1. k < claim.next BY <1>2, <1>3, <1>8, <1>10
  <2>2. paid[d][list[k]] = <<claim.by>> BY <1>7, <2>1
  <2>3. list[k] # n
    <3>1. Len(paid[d][n]) = 0 BY <1>6
    <3>2. Len(paid[d][list[k]]) = 1 BY <2>2
    <3> QED BY <3>1, <3>2
  <2>4. list[k] \in Ids BY <1>3
  <2>5. paid'[d][list[k]] = paid[d][list[k]]
    BY <1>1, <1>2, <1>5, <2>3, <2>4 DEF StateTyped
  <2> QED BY <2>2, <2>5
<1> QED BY <1>9, <1>10

LEMMA PaidStep == IInv /\ PaidSoFar /\ [Next]_vars => PaidSoFar'
<1> SUFFICES ASSUME IInv, PaidSoFar, [Next]_vars PROVE PaidSoFar'
  OBVIOUS
<1> IInv' BY StepInv
<1> StateTyped /\ SettingsTyped /\ ClaimTyped BY TypeByVars DEF IInv
<1>1. CASE Create
  <2>1. claim' = NoClaim BY <1>1 DEF Create, createAirdrop, NotReentrant
  <2> QED BY <2>1 DEF PaidSoFar
<1>2. CASE Draw \/ Configure \/ Answer \/ Deposit \/ UNCHANGED vars
  <2>1. UNCHANGED <<claim, data, paid>>
    BY <1>2 DEF Draw, requestVRFRandomWords, Configure, configureVRFCoordinator,
       configureVRFParams, configureNftUserTokenIds, clearNftUserTokenIds,
       configureERC1155, transferOwnership, Answer, rawFulfillRandomWords, Deposit,
       deposit, vars, made, payout
  <2> QED BY <2>1, PaymentsUndisturbed
<1>3. CASE Claim
  <2> PICK u \in Users, d \in AirdropIds : claimAirdrop(u, d) BY <1>3 DEF Claim
  <2>1. claim'.next = 1 /\ claim' # NoClaim BY DEF claimAirdrop, NoClaim
  <2>2. claim' \in ClaimType BY <2>1, TypeByVars DEF IInv, ClaimTyped
  <2>3. ListOf(claim)' \in Seq(Ids)
    BY <2>2, TypeByVars DEF IInv, StateTyped, ListOf, ClaimType
  <2> QED BY <2>1, <2>3 DEF PaidSoFar
<1>4. CASE payNext BY <1>4, TurnPays
<1>5. CASE skipNext
  <2>1. /\ claim # NoClaim /\ claim' = [claim EXCEPT !.next = @ + 1] /\ UNCHANGED data
        /\ data[claim.airdrop].claimType = CLAIM_TYPE_FIXED_DIFF
    BY <1>5 DEF skipNext, made
  <2>2. claim'.airdrop = claim.airdrop BY <2>1, OpenClaim DEF ClaimType
  <2> QED BY <2>1, <2>2 DEF PaidSoFar
<1>6. CASE claimReturns \/ revert
  BY <1>6 DEF claimReturns, revert, PaidSoFar
<1> QED BY <1>1, <1>2, <1>3, <1>4, <1>5, <1>6 DEF Next

\* A claim that returns has paid everything its caller was listed with.
THEOREM ClaimsWhole == Spec => AllOrNothing
<1> DEFINE A == claimReturns /\ data[claim.airdrop].claimType # CLAIM_TYPE_FIXED_DIFF
                  => \A n \in Range(ListOf(claim)) : paid[claim.airdrop][n] = <<claim.by>>
<1>1. Init => PaidSoFar BY DEF Init, PaidSoFar
<1>2. IInv /\ PaidSoFar /\ [Next]_vars => PaidSoFar' BY PaidStep
<1>3. IInv /\ PaidSoFar /\ [Next]_vars => [A]_vars
  <2> SUFFICES ASSUME IInv, PaidSoFar, claimReturns,
                      data[claim.airdrop].claimType # CLAIM_TYPE_FIXED_DIFF,
                      NEW n \in Range(ListOf(claim))
               PROVE  paid[claim.airdrop][n] = <<claim.by>>
    OBVIOUS
  <2> StateTyped /\ SettingsTyped /\ ClaimTyped BY TypeByVars DEF IInv
  <2>1. claim # NoClaim /\ claim.next = Len(ListOf(claim)) + 1 BY DEF claimReturns, PaidAll
  <2>2. ListOf(claim) \in Seq(Ids) BY <2>1, OpenClaim DEF ListOf, StateTyped
  <2>3. PICK k \in DOMAIN ListOf(claim) : n = ListOf(claim)[k] BY DEF Range
  <2>4. k < claim.next BY <2>1, <2>2
  <2> QED BY <2>1, <2>3, <2>4 DEF PaidSoFar
<1> QED BY Inductive, <1>1, <1>2, <1>3, PTL DEF Spec, AllOrNothing
=============================================================================
