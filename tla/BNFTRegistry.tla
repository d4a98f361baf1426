---------------------------- MODULE BNFTRegistry ----------------------------
(***************************************************************************)
(* contracts/protocol/BNFTRegistry.sol: deploys a proxy for the bNFTs of   *)
(* each collection, keeps the tables they are looked up in, and, being the *)
(* admin of all the proxies, moves them from one implementation to the     *)
(* next.                                                                   *)
(*                                                                         *)
(* As in BNFT, a function is one step unless foreign code runs in it, which *)
(* here is the code of an implementation: initialize, in the constructor   *)
(* of a proxy, before the tables know it, and the call of upgradeToAndCall, *)
(* before the tables know the new implementation.                          *)
(***************************************************************************)
EXTENDS Naturals, Sequences, Functions

CONSTANTS
  EOAs, Contracts,  \* accounts without and with code
  Assets,     \* ERC721 collections
  Symbolless, \* those of them without the optional symbol()
  Codeless,   \* addresses without code that may be passed for one with code
  Impls,      \* deployed implementations of bNFT
  Calling,    \* those whose initialize calls other contracts
  Proxies,    \* addresses of the proxies deployed here
  Cashes,     \* delegate contracts
  InitOwner, InitImpl, NewAdmins, None,
  MaxDepth    \* bound: functions suspended at once

Accounts  == EOAs \cup Contracts
NftAssets == Assets \cup Codeless  \* what a caller may name as nftAsset

ASSUME AccountsTyped == /\ EOAs \cap Contracts = {} /\ InitOwner \in Accounts
                        /\ NewAdmins \subseteq Accounts
ASSUME CodeTyped == /\ Codeless \cap (Assets \cup Impls) = {}
                    /\ Symbolless \subseteq Assets /\ Calling \subseteq Impls
                    /\ InitImpl \in Impls \cup Codeless
ASSUME NoneApart == None \notin Accounts \cup Impls \cup Codeless \cup Proxies
                                \cup Cashes
ASSUME DepthPositive == MaxDepth \in Nat \ {0}

VARIABLES
  owner,          \* of OwnableUpgradeable
  claimAdmin,     \* _claimAdmin
  cash, cashV2,   \* _delegateCashContract, _delegateCashContractV2
  genericImpl,    \* bNftGenericImpl
  customSymbols,  \* the assets with a custom symbol
  bNftProxys,     \* the proxy of each asset
  bNftImpls,      \* the implementation on record
  bNftAssetLists,
  proxies,        \* for each proxy deployed the arguments of its initialize
                  \* and the implementation it runs
  status,         \* _status
  calls           \* the suspended functions, innermost first

admin  == <<owner, claimAdmin, cash, cashV2>>
tables == <<bNftProxys, bNftImpls, bNftAssetLists>>
vars   == <<admin, genericImpl, customSymbols, tables, proxies, status, calls>>

Entered    == "ENTERED"
NotEntered == "NOT_ENTERED"

Storage == [owner |-> owner, claimAdmin |-> claimAdmin, cash |-> cash,
            cashV2 |-> cashV2, genericImpl |-> genericImpl,
            customSymbols |-> customSymbols, bNftProxys |-> bNftProxys,
            bNftImpls |-> bNftImpls, bNftAssetLists |-> bNftAssetLists,
            proxies |-> proxies, status |-> status]

Proxy == [asset : Assets, owner : Accounts \cup {None},
          claimAdmin : Accounts, impl : Impls]

StorageType ==
  [owner : Accounts \cup {None}, claimAdmin : Accounts,
   cash : Cashes \cup {None}, cashV2 : Cashes \cup {None},
   genericImpl : Impls \cup Codeless,
   customSymbols : SUBSET NftAssets,
   bNftProxys : [NftAssets -> Proxies \cup {None}],
   bNftImpls : [NftAssets -> Impls \cup {None}],
   bNftAssetLists : Seq(Assets),
   proxies : UNION {[D -> Proxy] : D \in SUBSET Proxies},
   status : {Entered, NotEntered}]

FrameType == [fn : {"create", "upgrade"}, asset : Assets, impl : Impls,
              proxy : Proxies, saved : StorageType]

\* Every variable has its type, those saved for a revert included; bNFTs are
\* for assets with code and run implementations with code.
TypeOK == Storage \in StorageType /\ calls \in Seq(FrameType)

\* initialize, by its deployer.
Init ==
  /\ owner = InitOwner /\ claimAdmin = InitOwner
  /\ cash = None /\ cashV2 = None
  /\ genericImpl = InitImpl
  /\ customSymbols = {}
  /\ bNftProxys = [a \in NftAssets |-> None]
  /\ bNftImpls = [a \in NftAssets |-> None]
  /\ bNftAssetLists = << >>
  /\ proxies = << >>
  /\ status = NotEntered /\ calls = << >>

-----------------------------------------------------------------------------
\* Definitions marked "faulty" are no part of the model: each is a slip the
\* next definition guards against, kept to show that a property notices it.

\* An account without code calls in only as the sender of the transaction.
MayCall(u) == u \in EOAs => calls = << >>

OnlyOwner(u) == MayCall(u) /\ owner = u

\* Faulty: a function without the modifier.
NoGuard == TRUE

NotReentrant == status # Entered

Suspend(fn, a, impl, p) ==
  /\ Len(calls) < MaxDepth
  /\ calls' = <<[fn |-> fn, asset |-> a, impl |-> impl, proxy |-> p,
                 saved |-> Storage]>> \o calls
  /\ status' = Entered

Running(fn) == calls # << >> /\ Head(calls).fn = fn

Return == calls' = Tail(calls) /\ status' = NotEntered

-----------------------------------------------------------------------------
\* Creating a bNFT.

\* _requireAddressIsERC721 asks for code only, and _buildInitParams for
\* symbol() where no custom symbol was given.
Nameable(a) == a \in Assets /\ (a \in Symbolless => a \in customSymbols)

\* Faulty: the asset is put in front of the list.
EnterFirst(a, impl, p) ==
  /\ bNftImpls' = [bNftImpls EXCEPT ![a] = impl]
  /\ bNftProxys' = [bNftProxys EXCEPT ![a] = p]
  /\ bNftAssetLists' = <<a>> \o bNftAssetLists

Enter(a, impl, p) ==
  /\ bNftImpls' = [bNftImpls EXCEPT ![a] = impl]
  /\ bNftProxys' = [bNftProxys EXCEPT ![a] = p]
  /\ bNftAssetLists' = Append(bNftAssetLists, a)

Deployed(ps, p, r) == [q \in DOMAIN ps \cup {p} |-> IF q = p THEN r ELSE ps[q]]

\* A proxy of a codeless implementation cannot be constructed.
createProxyAndInitWithImpl(a, impl, p) ==
  /\ impl \in Impls
  /\ p \notin DOMAIN proxies
  /\ proxies' = Deployed(proxies, p, [asset |-> a, owner |-> owner,
                                      claimAdmin |-> claimAdmin, impl |-> impl])
  /\ IF impl \in Calling
     THEN Suspend("create", a, impl, p) /\ UNCHANGED tables
     ELSE Enter(a, impl, p) /\ UNCHANGED <<status, calls>>
  /\ UNCHANGED <<admin, genericImpl, customSymbols>>

createReturns ==
  /\ Running("create")
  /\ Enter(Head(calls).asset, Head(calls).impl, Head(calls).proxy)
  /\ Return
  /\ UNCHANGED <<admin, genericImpl, customSymbols, proxies>>

\* Faulty: an asset may be created again.
AnyAsset(a) == Nameable(a)

NewAsset(a) == Nameable(a) /\ bNftProxys[a] = None

\* Anybody's.
createBNFT(u, a, p) ==
  /\ MayCall(u) /\ NotReentrant
  /\ NewAsset(a)
  /\ createProxyAndInitWithImpl(a, genericImpl, p)

createBNFTWithImpl(u, a, impl, p) ==
  /\ OnlyOwner(u) /\ NotReentrant
  /\ NewAsset(a)
  /\ createProxyAndInitWithImpl(a, impl, p)

-----------------------------------------------------------------------------
\* Upgrades.

recordImpl(a, impl) == bNftImpls' = [bNftImpls EXCEPT ![a] = impl]

\* upgradeTo records at once; upgradeToAndCall runs the new code first.
upgradeBNFTWithImpl(u, a, impl, withCall) ==
  /\ OnlyOwner(u) /\ NotReentrant
  /\ bNftProxys[a] # None
  /\ impl \in Impls
  /\ proxies' = [proxies EXCEPT ![bNftProxys[a]] = [@ EXCEPT !.impl = impl]]
  /\ IF withCall
     THEN Suspend("upgrade", a, impl, bNftProxys[a]) /\ UNCHANGED bNftImpls
     ELSE recordImpl(a, impl) /\ UNCHANGED <<status, calls>>
  /\ UNCHANGED <<admin, genericImpl, customSymbols, bNftProxys, bNftAssetLists>>

upgradeReturns ==
  /\ Running("upgrade")
  /\ recordImpl(Head(calls).asset, Head(calls).impl)
  /\ Return
  /\ UNCHANGED <<admin, genericImpl, customSymbols, bNftProxys, bNftAssetLists,
                 proxies>>

\* The loop of both batch functions: all to the generic implementation, or
\* none if an asset has no bNFT.
UpgradeEach(as) ==
  /\ \A a \in as : bNftProxys[a] # None
  /\ as # {} => genericImpl \in Impls
  /\ LET ps == {bNftProxys[a] : a \in as} IN
       proxies' = [p \in DOMAIN proxies |->
                     IF p \in ps THEN [proxies[p] EXCEPT !.impl = genericImpl]
                                 ELSE proxies[p]]
  /\ bNftImpls' = [a \in NftAssets |-> IF a \in as THEN genericImpl
                                                   ELSE bNftImpls[a]]
  /\ UNCHANGED <<admin, genericImpl, customSymbols, bNftProxys, bNftAssetLists,
                 status, calls>>

batchUpgradeBNFT(u, as) ==
  /\ OnlyOwner(u) /\ NotReentrant
  /\ as # {}
  /\ UpgradeEach(as)

\* Faulty: the loop stops one asset short.
AllButLast == {bNftAssetLists[k] : k \in 1..(Len(bNftAssetLists) - 1)}

AllAssets == Range(bNftAssetLists)

batchUpgradeAllBNFT(u) ==
  /\ OnlyOwner(u) /\ NotReentrant
  /\ UpgradeEach(AllAssets)

-----------------------------------------------------------------------------
\* Settings.  Only the first two are guarded.

\* Nobody asks whether there is code at the address.
setBNFTGenericImpl(u, impl) ==
  /\ OnlyOwner(u) /\ NotReentrant
  /\ genericImpl' = impl
  /\ UNCHANGED <<admin, customSymbols, tables, proxies, status, calls>>

\* An empty symbol takes the custom one away.
addCustomeSymbols(u, as, empty) ==
  /\ OnlyOwner(u) /\ NotReentrant
  /\ customSymbols' = IF empty THEN customSymbols \ as ELSE customSymbols \cup as
  /\ UNCHANGED <<admin, genericImpl, tables, proxies, status, calls>>

setClaimAdmin(u, newAdmin) ==
  /\ OnlyOwner(u)
  /\ claimAdmin' = newAdmin
  /\ UNCHANGED <<owner, cash, cashV2, genericImpl, customSymbols, tables,
                 proxies, status, calls>>

setDelegateCashContract(u, c) ==
  /\ OnlyOwner(u)
  /\ cash' = c
  /\ UNCHANGED <<owner, claimAdmin, cashV2, genericImpl, customSymbols, tables,
                 proxies, status, calls>>

setDelegateCashContractV2(u, c) ==
  /\ OnlyOwner(u)
  /\ cashV2' = c
  /\ UNCHANGED <<owner, claimAdmin, cash, genericImpl, customSymbols, tables,
                 proxies, status, calls>>

\* transferOwnership, and renounceOwnership to None.
transferOwnership(u, newOwner) ==
  /\ OnlyOwner(u)
  /\ owner' = newOwner
  /\ UNCHANGED <<claimAdmin, cash, cashV2, genericImpl, customSymbols, tables,
                 proxies, status, calls>>

\* The innermost function reverts.
revert ==
  /\ calls # << >>
  /\ LET s == Head(calls).saved IN
       /\ owner' = s.owner /\ claimAdmin' = s.claimAdmin
       /\ cash' = s.cash /\ cashV2' = s.cashV2
       /\ genericImpl' = s.genericImpl /\ customSymbols' = s.customSymbols
       /\ bNftProxys' = s.bNftProxys /\ bNftImpls' = s.bNftImpls
       /\ bNftAssetLists' = s.bNftAssetLists
       /\ proxies' = s.proxies /\ status' = s.status
  /\ calls' = Tail(calls)

-----------------------------------------------------------------------------
Create  == \E u \in Accounts, a \in NftAssets, p \in Proxies :
             \/ createBNFT(u, a, p)
             \/ \E i \in Impls \cup Codeless : createBNFTWithImpl(u, a, i, p)
Upgrade == \E u \in Accounts :
             \/ \E a \in NftAssets, i \in Impls \cup Codeless, b \in BOOLEAN :
                  upgradeBNFTWithImpl(u, a, i, b)
             \/ \E as \in SUBSET NftAssets : batchUpgradeBNFT(u, as)
             \/ batchUpgradeAllBNFT(u)
Set     == \E u \in Accounts :
             \/ \E i \in Impls \cup Codeless : setBNFTGenericImpl(u, i)
             \/ \E as \in SUBSET NftAssets, b \in BOOLEAN : addCustomeSymbols(u, as, b)
             \/ \E v \in NewAdmins : setClaimAdmin(u, v)
             \/ \E c \in Cashes : setDelegateCashContract(u, c)
                                  \/ setDelegateCashContractV2(u, c)
             \/ \E v \in NewAdmins \cup {None} : transferOwnership(u, v)

Next == Create \/ createReturns \/ Upgrade \/ upgradeReturns \/ Set \/ revert

Spec == Init /\ [][Next]_vars

-----------------------------------------------------------------------------
\* Properties.

\* The three tables agree whenever they are read, in the middle of a creation
\* or an upgrade too: an asset is in the list, once, exactly if it has a proxy
\* and an implementation on record, and the proxy was made for it.
TablesAgree ==
  /\ IsInjective(bNftAssetLists)
  /\ \A a \in NftAssets :
       /\ a \in Range(bNftAssetLists) <=> bNftProxys[a] # None
       /\ bNftProxys[a] # None <=> bNftImpls[a] # None
       /\ bNftProxys[a] # None => /\ bNftProxys[a] \in DOMAIN proxies
                               /\ proxies[bNftProxys[a]].asset = a

\* No proxy is lost: each one deployed is the bNFT on record of its asset, but
\* for the one whose creation is still open.
InMaking(p) == \E k \in DOMAIN calls : calls[k].fn = "create" /\ calls[k].proxy = p
NoOrphan == \A p \in DOMAIN proxies : InMaking(p) \/ bNftProxys[proxies[p].asset] = p

\* The implementation on record is the one the bNFT runs, but for the bNFT
\* whose upgrade is still open.
Upgrading(a) == \E k \in DOMAIN calls : calls[k].fn = "upgrade" /\ calls[k].asset = a
ImplOnRecord ==
  \A a \in NftAssets :
    bNftProxys[a] # None => Upgrading(a) \/ proxies[bNftProxys[a]].impl = bNftImpls[a]

\* The inductive invariant behind them.
FrameOK(f) ==
  /\ f.saved.status = NotEntered
  /\ bNftProxys = f.saved.bNftProxys /\ bNftImpls = f.saved.bNftImpls
  /\ bNftAssetLists = f.saved.bNftAssetLists
  /\ f.fn = "create" =>
       /\ bNftProxys[f.asset] = None
       /\ f.proxy \notin DOMAIN f.saved.proxies
       /\ proxies = Deployed(f.saved.proxies, f.proxy,
                             [asset |-> f.asset, owner |-> f.saved.owner,
                              claimAdmin |-> f.saved.claimAdmin, impl |-> f.impl])
  /\ f.fn = "upgrade" =>
       /\ f.proxy = bNftProxys[f.asset] /\ f.proxy \in DOMAIN f.saved.proxies
       /\ proxies = [f.saved.proxies EXCEPT
                       ![f.proxy] = [@ EXCEPT !.impl = f.impl]]
       /\ f.saved.proxies[f.proxy].impl = bNftImpls[f.asset]
CallsOK == \/ calls = << >> /\ status = NotEntered
           \/ Len(calls) = 1 /\ status = Entered /\ FrameOK(Head(calls))
IInv == TypeOK /\ TablesAgree /\ NoOrphan /\ ImplOnRecord /\ CallsOK

\* One batchUpgradeAllBNFT brings every bNFT there is to the generic
\* implementation.
BatchReachesAll ==
  [][(\E u \in Accounts : batchUpgradeAllBNFT(u)) =>
       \A p \in DOMAIN proxies : proxies'[p].impl = genericImpl]_vars

\* Transaction by transaction the registry is a catalogue.
Committed == IF calls = << >> THEN Storage ELSE calls[Len(calls)].saved
Entries(s) == [k \in DOMAIN s.bNftAssetLists |->
                 <<s.bNftAssetLists[k], s.bNftProxys[s.bNftAssetLists[k]]>>]
C == INSTANCE Catalogue WITH Collections <- Assets, Addresses <- Proxies,
                             entries <- Entries(Committed)
ImplementsCatalogue == C!Spec
=============================================================================
