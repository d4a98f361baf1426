------------------------- MODULE BNFTRegistryProofs -------------------------
(***************************************************************************)
(* Theorems of BNFTRegistry, for any collections, implementations and      *)
(* accounts.                                                               *)
(***************************************************************************)
EXTENDS BNFTRegistry, SequenceTheorems, TLAPS

ProxyMaps == UNION {[D -> Proxy] : D \in SUBSET Proxies}

VarsTyped ==
  /\ owner \in Accounts \cup {None} /\ claimAdmin \in Accounts
  /\ cash \in Cashes \cup {None} /\ cashV2 \in Cashes \cup {None}
  /\ genericImpl \in Impls \cup Codeless
  /\ customSymbols \in SUBSET NftAssets
  /\ bNftProxys \in [NftAssets -> Proxies \cup {None}]
  /\ bNftImpls \in [NftAssets -> Impls \cup {None}]
  /\ bNftAssetLists \in Seq(Assets)
  /\ proxies \in ProxyMaps
  /\ status \in {Entered, NotEntered}
  /\ calls \in Seq(FrameType)

\* TypeOK, variable by variable; in the current state and in the next.
LEMMA TypeByVars == (TypeOK <=> VarsTyped) /\ (TypeOK' <=> VarsTyped')
<1>1. TypeOK <=> VarsTyped
  BY DEF TypeOK, VarsTyped, Storage, StorageType, ProxyMaps
<1>2. TypeOK' <=> VarsTyped'
  BY DEF TypeOK, VarsTyped, Storage, StorageType, ProxyMaps
<1> QED BY <1>1, <1>2

\* A stack of frames stays one when a frame is pushed or popped.
LEMMA StackTyped ==
  ASSUME NEW S, NEW c \in Seq(S), NEW f \in S
  PROVE  /\ <<f>> \o c \in Seq(S)
         /\ c # << >> => Head(c) \in S /\ Tail(c) \in Seq(S)
OBVIOUS

\* A map of proxies to their data is one over the proxies it has.
LEMMA MapOfProxies ==
  ASSUME NEW ps \in ProxyMaps
  PROVE  /\ DOMAIN ps \in SUBSET Proxies
         /\ ps \in [DOMAIN ps -> Proxy]
BY DEF ProxyMaps

\* What a new proxy adds to the map, and that it stays one.
LEMMA DeployedTyped ==
  ASSUME NEW ps \in ProxyMaps, NEW p \in Proxies, NEW r \in Proxy
  PROVE  /\ Deployed(ps, p, r) \in ProxyMaps
         /\ DOMAIN Deployed(ps, p, r) = DOMAIN ps \cup {p}
         /\ Deployed(ps, p, r)[p] = r
         /\ \A q \in DOMAIN ps : q # p => Deployed(ps, p, r)[q] = ps[q]
<1> DEFINE d == Deployed(ps, p, r)
<1>1. DOMAIN ps \cup {p} \in SUBSET Proxies BY MapOfProxies
<1>2. d \in [DOMAIN ps \cup {p} -> Proxy] BY MapOfProxies DEF Deployed
<1>3. d \in ProxyMaps BY <1>1, <1>2 DEF ProxyMaps
<1> QED BY <1>3 DEF Deployed

\* A list without repetitions stays one when a new member is appended.
LEMMA ListGrows ==
  ASSUME NEW S, NEW s \in Seq(S), NEW a \in S, IsInjective(s), a \notin Range(s)
  PROVE  /\ Append(s, a) \in Seq(S)
         /\ IsInjective(Append(s, a))
         /\ Range(Append(s, a)) = Range(s) \cup {a}
<1> DEFINE t == Append(s, a)
<1>1. /\ t \in Seq(S) /\ Len(t) = Len(s) + 1
      /\ DOMAIN t = 1..(Len(s) + 1) /\ DOMAIN s = 1..Len(s)
      /\ \A k \in 1..Len(s) : t[k] = s[k]
      /\ t[Len(s) + 1] = a
  OBVIOUS
<1>2. \A k \in 1..Len(s) : t[k] # a BY <1>1 DEF Range
<1>3. IsInjective(t)
  <2> SUFFICES ASSUME NEW j \in 1..(Len(s) + 1), NEW k \in 1..(Len(s) + 1),
                      t[j] = t[k]
               PROVE  j = k
    BY <1>1 DEF IsInjective
  <2>1. CASE j \in 1..Len(s) /\ k \in 1..Len(s) BY <2>1, <1>1 DEF IsInjective
  <2>2. CASE j = Len(s) + 1 \/ k = Len(s) + 1 BY <2>2, <1>1, <1>2
  <2> QED BY <2>1, <2>2
<1>4. Range(t) = Range(s) \cup {a}
  <2>1. ASSUME NEW x \in Range(t) PROVE x \in Range(s) \cup {a}
    BY <1>1 DEF Range
  <2>2. ASSUME NEW x \in Range(s) PROVE x \in Range(t)
    BY <1>1 DEF Range
  <2>3. a \in Range(t) BY <1>1 DEF Range
  <2> QED BY <2>1, <2>2, <2>3
<1> QED BY <1>1, <1>3, <1>4

LEMMA InitTyped == Init => TypeOK
<1> SUFFICES ASSUME Init PROVE VarsTyped BY TypeByVars
<1>1. proxies \in ProxyMaps
  <2>1. proxies \in [{} -> Proxy] BY DEF Init
  <2> QED BY <2>1 DEF ProxyMaps
<1>2. bNftAssetLists \in Seq(Assets) /\ calls \in Seq(FrameType) BY DEF Init
<1> QED BY <1>1, <1>2, AccountsTyped, CodeTyped DEF Init, VarsTyped

\* The entries of the tables for a new proxy have their types.
LEMMA EnterTyped ==
  ASSUME TypeOK, NEW a \in Assets, NEW impl \in Impls, NEW p \in Proxies,
         Enter(a, impl, p)
  PROVE  /\ bNftProxys' \in [NftAssets -> Proxies \cup {None}]
         /\ bNftImpls' \in [NftAssets -> Impls \cup {None}]
         /\ bNftAssetLists' \in Seq(Assets)
<1> VarsTyped BY TypeByVars
<1>1. bNftAssetLists' = Append(bNftAssetLists, a) /\ bNftAssetLists \in Seq(Assets)
  BY DEF VarsTyped, Enter
<1>2. bNftAssetLists' \in Seq(Assets) BY <1>1
<1>3. /\ bNftProxys' \in [NftAssets -> Proxies \cup {None}]
      /\ bNftImpls' \in [NftAssets -> Impls \cup {None}]
  BY DEF VarsTyped, Enter
<1> QED BY <1>2, <1>3

\* What Suspend pushes is a frame.
LEMMA SuspendTyped ==
  ASSUME TypeOK, NEW fn \in {"create", "upgrade"}, NEW a \in Assets,
         NEW impl \in Impls, NEW p \in Proxies, Suspend(fn, a, impl, p)
  PROVE  calls' \in Seq(FrameType) /\ status' \in {Entered, NotEntered}
<1> DEFINE f == [fn |-> fn, asset |-> a, impl |-> impl, proxy |-> p,
                 saved |-> Storage]
<1>1. f \in FrameType BY DEF TypeOK, FrameType
<1>2. calls' = <<f>> \o calls BY DEF Suspend
<1> HIDE DEF f
<1>3. calls' \in Seq(FrameType) BY <1>1, <1>2, StackTyped DEF TypeOK
<1> QED BY <1>3 DEF Suspend

\* A creation has its parts in their types.
LEMMA CreateTyped ==
  ASSUME TypeOK, NEW a \in NftAssets, NEW impl, NEW p \in Proxies,
         NewAsset(a), createProxyAndInitWithImpl(a, impl, p)
  PROVE  /\ a \in Assets /\ impl \in Impls
         /\ [asset |-> a, owner |-> owner, claimAdmin |-> claimAdmin,
             impl |-> impl] \in Proxy
         /\ TypeOK'
<1> VarsTyped BY TypeByVars
<1> USE DEF VarsTyped
<1> DEFINE r == [asset |-> a, owner |-> owner, claimAdmin |-> claimAdmin, impl |-> impl]
<1>1. a \in Assets /\ impl \in Impls
  BY DEF NewAsset, Nameable, createProxyAndInitWithImpl
<1>2. r \in Proxy BY <1>1 DEF Proxy
<1>3. proxies' \in ProxyMaps BY <1>2, DeployedTyped DEF createProxyAndInitWithImpl
<1>4. /\ bNftProxys' \in [NftAssets -> Proxies \cup {None}]
      /\ bNftImpls' \in [NftAssets -> Impls \cup {None}]
      /\ bNftAssetLists' \in Seq(Assets)
      /\ calls' \in Seq(FrameType) /\ status' \in {Entered, NotEntered}
  <2>1. CASE impl \in Calling
    <3>1. Suspend("create", a, impl, p) /\ UNCHANGED tables
      BY <2>1 DEF createProxyAndInitWithImpl
    <3> QED BY <3>1, <1>1, SuspendTyped DEF tables
  <2>2. CASE impl \notin Calling
    <3>1. Enter(a, impl, p) /\ UNCHANGED <<status, calls>>
      BY <2>2 DEF createProxyAndInitWithImpl
    <3> QED BY <3>1, <1>1, EnterTyped
  <2> QED BY <2>1, <2>2
<1>5. VarsTyped' BY <1>3, <1>4 DEF createProxyAndInitWithImpl, admin
<1> QED BY <1>1, <1>2, <1>5, TypeByVars

\* A proxy moved to another implementation stays one.
LEMMA MovedTyped ==
  ASSUME NEW ps \in ProxyMaps, NEW p \in DOMAIN ps, NEW impl \in Impls
  PROVE  LET d == [ps EXCEPT ![p] = [@ EXCEPT !.impl = impl]] IN
         /\ d \in ProxyMaps /\ DOMAIN d = DOMAIN ps
         /\ d[p] = [ps[p] EXCEPT !.impl = impl]
         /\ d[p].impl = impl /\ d[p].asset = ps[p].asset
         /\ \A q \in DOMAIN ps : q # p => d[q] = ps[q]
<1> DEFINE d == [ps EXCEPT ![p] = [@ EXCEPT !.impl = impl]]
<1>1. ps \in [DOMAIN ps -> Proxy] /\ DOMAIN ps \in SUBSET Proxies BY MapOfProxies
<1>2. ps[p] \in Proxy BY <1>1
<1>3. [ps[p] EXCEPT !.impl = impl] \in Proxy BY <1>2 DEF Proxy
<1>4. d \in [DOMAIN ps -> Proxy] BY <1>1, <1>3
<1>5. d \in ProxyMaps BY <1>1, <1>4 DEF ProxyMaps
<1> QED BY <1>1, <1>2, <1>5 DEF Proxy

\* Every step keeps every variable, and every frame, in its type.
LEMMA StepTyped == TypeOK /\ TablesAgree /\ [Next]_vars => TypeOK'
<1> SUFFICES ASSUME TypeOK, TablesAgree, [Next]_vars PROVE TypeOK' OBVIOUS
<1> VarsTyped BY TypeByVars
<1> USE DEF VarsTyped
<1>1. CASE Create
  <2> PICK u \in Accounts, a \in NftAssets, p \in Proxies :
         \/ createBNFT(u, a, p)
         \/ \E i \in Impls \cup Codeless : createBNFTWithImpl(u, a, i, p)
    BY <1>1 DEF Create
  <2> QED BY CreateTyped DEF createBNFT, createBNFTWithImpl
<1>2. CASE createReturns
  <2> DEFINE f == Head(calls)
  <2>1. f \in FrameType /\ Tail(calls) \in Seq(FrameType)
    BY <1>2, StackTyped DEF createReturns, Running
  <2>2. Enter(f.asset, f.impl, f.proxy) BY <1>2 DEF createReturns
  <2>3. f.impl \in Impls /\ f.proxy \in Proxies /\ f.asset \in Assets
    BY <2>1 DEF FrameType
  <2>4. VarsTyped'
    BY <1>2, <2>1, <2>2, <2>3, EnterTyped DEF createReturns, Return, admin
  <2> QED BY <2>4, TypeByVars
<1>3. CASE Upgrade
  <2> PICK u \in Accounts :
         \/ \E a \in NftAssets, i \in Impls \cup Codeless, b \in BOOLEAN :
              upgradeBNFTWithImpl(u, a, i, b)
         \/ \E as \in SUBSET NftAssets : batchUpgradeBNFT(u, as)
         \/ batchUpgradeAllBNFT(u)
    BY <1>3 DEF Upgrade
  <2>1. ASSUME NEW a \in NftAssets, NEW i \in Impls \cup Codeless, NEW b \in BOOLEAN,
               upgradeBNFTWithImpl(u, a, i, b)
        PROVE  TypeOK'
    <3> DEFINE p == bNftProxys[a]
    <3>1. i \in Impls /\ p # None BY <2>1 DEF upgradeBNFTWithImpl
    <3>2. p \in DOMAIN proxies /\ a \in Range(bNftAssetLists)
      BY <3>1 DEF TablesAgree
    <3>3. p \in Proxies /\ a \in Assets
      BY <3>1, <3>2 DEF Range
    <3>4. proxies' \in ProxyMaps
      BY <2>1, <3>1, <3>2, MovedTyped DEF upgradeBNFTWithImpl
    <3>5. /\ bNftImpls' \in [NftAssets -> Impls \cup {None}]
          /\ calls' \in Seq(FrameType) /\ status' \in {Entered, NotEntered}
      <4>1. CASE b
        BY <2>1, <3>1, <3>3, <4>1, SuspendTyped DEF upgradeBNFTWithImpl
      <4>2. CASE ~b BY <2>1, <3>1, <4>2 DEF upgradeBNFTWithImpl, recordImpl
      <4> QED BY <4>1, <4>2
    <3>6. VarsTyped' BY <2>1, <3>4, <3>5 DEF upgradeBNFTWithImpl, admin
    <3> QED BY <3>6, TypeByVars
  <2>2. ASSUME NEW as \in SUBSET NftAssets, UpgradeEach(as) PROVE TypeOK'
    <3>1. proxies' \in ProxyMaps /\ bNftImpls' \in [NftAssets -> Impls \cup {None}]
      <4>1. CASE as = {}
        <5>1. proxies' = [p \in DOMAIN proxies |-> proxies[p]] BY <2>2, <4>1 DEF UpgradeEach
        <5>2. proxies' = proxies BY <5>1, MapOfProxies
        <5>3. bNftImpls' = bNftImpls BY <2>2, <4>1 DEF UpgradeEach
        <5> QED BY <5>2, <5>3
      <4>2. CASE as # {}
        <5>1. genericImpl \in Impls BY <2>2, <4>2 DEF UpgradeEach
        <5>2. proxies \in [DOMAIN proxies -> Proxy] /\ DOMAIN proxies \in SUBSET Proxies
          BY MapOfProxies
        <5>3. \A p \in DOMAIN proxies : [proxies[p] EXCEPT !.impl = genericImpl] \in Proxy
          BY <5>1, <5>2 DEF Proxy
        <5>4. proxies' \in [DOMAIN proxies -> Proxy]
          BY <2>2, <5>2, <5>3 DEF UpgradeEach
        <5>5. bNftImpls' \in [NftAssets -> Impls \cup {None}]
          BY <2>2, <5>1 DEF UpgradeEach
        <5> QED BY <5>2, <5>4, <5>5 DEF ProxyMaps
      <4> QED BY <4>1, <4>2
    <3>2. VarsTyped' BY <2>2, <3>1 DEF UpgradeEach, admin
    <3> QED BY <3>2, TypeByVars
  <2>3. AllAssets \in SUBSET NftAssets BY DEF AllAssets, Range, NftAssets
  <2> QED BY <2>1, <2>2, <2>3 DEF batchUpgradeBNFT, batchUpgradeAllBNFT
<1>4. CASE upgradeReturns
  <2> DEFINE f == Head(calls)
  <2>1. f \in FrameType /\ Tail(calls) \in Seq(FrameType)
    BY <1>4, StackTyped DEF upgradeReturns, Running
  <2>2. f.impl \in Impls BY <2>1 DEF FrameType
  <2>3. bNftImpls' \in [NftAssets -> Impls \cup {None}]
    BY <1>4, <2>2 DEF upgradeReturns, recordImpl
  <2>4. VarsTyped' BY <1>4, <2>1, <2>3 DEF upgradeReturns, Return, admin
  <2> QED BY <2>4, TypeByVars
<1>5. CASE Set
  <2> NewAdmins \subseteq Accounts BY AccountsTyped
  <2>1. VarsTyped'
    BY <1>5 DEF Set, setBNFTGenericImpl, addCustomeSymbols, setClaimAdmin,
       setDelegateCashContract, setDelegateCashContractV2, transferOwnership,
       admin, tables
  <2> QED BY <2>1, TypeByVars
<1>6. CASE revert
  <2> DEFINE f == Head(calls)
  <2>1. f \in FrameType /\ Tail(calls) \in Seq(FrameType)
    BY <1>6, StackTyped DEF revert
  <2>2. f.saved \in StorageType BY <2>1 DEF FrameType
  <2>3. VarsTyped' BY <1>6, <2>1, <2>2 DEF revert, StorageType, ProxyMaps
  <2> QED BY <2>3, TypeByVars
<1>7. CASE UNCHANGED vars
  <2>1. VarsTyped' BY <1>7 DEF vars, admin, tables
  <2> QED BY <2>1, TypeByVars
<1> QED BY <1>1, <1>2, <1>3, <1>4, <1>5, <1>6, <1>7 DEF Next

-----------------------------------------------------------------------------
\* What the stack says of a proxy and an asset when it is empty and when it has
\* one frame, after a step.
LEMMA EmptyAfter ==
  ASSUME calls' = << >>
  PROVE  (\A p : ~InMaking(p)') /\ (\A a : ~Upgrading(a)')
BY DEF InMaking, Upgrading

LEMMA OneAfter ==
  ASSUME NEW f, calls' = <<f>>
  PROVE  /\ \A p : InMaking(p)' <=> f.fn = "create" /\ f.proxy = p
         /\ \A a : Upgrading(a)' <=> f.fn = "upgrade" /\ f.asset = a
         /\ Len(calls') = 1 /\ Head(calls') = f
BY DEF InMaking, Upgrading

\* While no function is suspended every proxy is on record and every record
\* right.
LEMMA AtRest ==
  ASSUME IInv, calls = << >>
  PROVE  /\ status = NotEntered
         /\ \A p \in DOMAIN proxies : bNftProxys[proxies[p].asset] = p
         /\ \A a \in NftAssets : bNftProxys[a] # None =>
              proxies[bNftProxys[a]].impl = bNftImpls[a]
<1>1. (\A p : ~InMaking(p)) /\ (\A a : ~Upgrading(a)) BY DEF InMaking, Upgrading
<1>2. status = NotEntered BY DEF IInv, CallsOK
<1> QED BY <1>1, <1>2 DEF IInv, NoOrphan, ImplOnRecord

\* While one is, it is the only one, and what it saved is known.
LEMMA Suspended ==
  ASSUME IInv, calls # << >>
  PROVE  /\ calls = <<Head(calls)>> /\ Tail(calls) = << >>
         /\ status = Entered /\ FrameOK(Head(calls)) /\ Head(calls) \in FrameType
         /\ \A p : InMaking(p) <=> Head(calls).fn = "create" /\ Head(calls).proxy = p
         /\ \A a : Upgrading(a) <=> Head(calls).fn = "upgrade" /\ Head(calls).asset = a
<1>1. Len(calls) = 1 /\ status = Entered /\ FrameOK(Head(calls)) BY DEF IInv, CallsOK
<1>2. calls \in Seq(FrameType) BY DEF IInv, TypeOK
<1>3. calls = <<Head(calls)>> /\ Tail(calls) = << >> /\ Head(calls) \in FrameType
  <2>1. Head(calls) \in FrameType /\ Head(calls) = calls[1] BY <1>1, <1>2
  <2>2. Len(Tail(calls)) = 0 /\ Tail(calls) \in Seq(FrameType)
    BY <1>1, <1>2, HeadTailProperties
  <2>3. Tail(calls) = << >> BY <2>2, EmptySeq
  <2>4. calls \in [1..1 -> FrameType] BY <1>1, <1>2
  <2>5. calls = <<calls[1]>> BY <2>4
  <2> QED BY <2>1, <2>3, <2>5
<1>4. DOMAIN calls = {1} /\ calls[1] = Head(calls)
  <2> PICK f : f = Head(calls) OBVIOUS
  <2>1. calls = <<f>> BY <1>3
  <2> QED BY <2>1
<1> QED BY <1>1, <1>3, <1>4 DEF InMaking, Upgrading

\* The guard lets a function in only when none is suspended.
LEMMA GuardMeansRest == IInv /\ NotReentrant => calls = << >>
BY Suspended DEF NotReentrant

\* A proxy on record is deployed and was made for its asset alone.
LEMMA OnRecord ==
  ASSUME IInv, NEW a \in NftAssets, bNftProxys[a] # None
  PROVE  /\ bNftProxys[a] \in DOMAIN proxies /\ proxies[bNftProxys[a]].asset = a
         /\ bNftProxys[a] \in Proxies /\ a \in Assets /\ bNftImpls[a] # None
         /\ a \in Range(bNftAssetLists)
         /\ \A b \in NftAssets : bNftProxys[b] = bNftProxys[a] => b = a
<1>1. /\ bNftProxys[a] \in DOMAIN proxies /\ proxies[bNftProxys[a]].asset = a
      /\ bNftImpls[a] # None /\ a \in Range(bNftAssetLists)
      /\ \A b \in NftAssets : bNftProxys[b] = bNftProxys[a] => b = a
  BY DEF IInv, TablesAgree
<1> VarsTyped BY TypeByVars DEF IInv
<1>2. bNftProxys[a] \in Proxies BY DEF VarsTyped
<1>3. a \in Assets BY <1>1 DEF VarsTyped, Range
<1> QED BY <1>1, <1>2, <1>3

\* The tables after a new asset has been entered, whichever proxies there are.
LEMMA EnterAgrees ==
  ASSUME IInv, NEW a \in Assets, NEW impl \in Impls, NEW p \in Proxies,
         bNftProxys[a] = None, Enter(a, impl, p), p \in DOMAIN proxies',
         proxies'[p].asset = a,
         \A b \in NftAssets : bNftProxys[b] # None =>
           /\ bNftProxys[b] \in DOMAIN proxies'
           /\ proxies'[bNftProxys[b]].asset = b
  PROVE  /\ TablesAgree'
         /\ \A b \in NftAssets : b # a => /\ bNftProxys'[b] = bNftProxys[b]
                                          /\ bNftImpls'[b] = bNftImpls[b]
         /\ bNftProxys'[a] = p /\ bNftImpls'[a] = impl
<1> VarsTyped BY TypeByVars DEF IInv
<1> TablesAgree BY DEF IInv
<1>1. a \in NftAssets BY DEF NftAssets
<1>2. /\ bNftProxys'[a] = p /\ bNftImpls'[a] = impl
      /\ \A b \in NftAssets : b # a => /\ bNftProxys'[b] = bNftProxys[b]
                                       /\ bNftImpls'[b] = bNftImpls[b]
  BY <1>1 DEF Enter, VarsTyped
<1>3. p # None /\ impl # None BY NoneApart
<1>4. a \notin Range(bNftAssetLists) /\ IsInjective(bNftAssetLists)
  BY <1>1 DEF TablesAgree
<1>5. bNftAssetLists \in Seq(Assets) BY DEF VarsTyped
<1>6. bNftAssetLists' = Append(bNftAssetLists, a) BY DEF Enter
<1>7. IsInjective(bNftAssetLists')
      /\ Range(bNftAssetLists') = Range(bNftAssetLists) \cup {a}
  BY <1>4, <1>5, <1>6, ListGrows
<1>8. ASSUME NEW b \in NftAssets
      PROVE  /\ b \in Range(bNftAssetLists') <=> bNftProxys'[b] # None
             /\ bNftProxys'[b] # None <=> bNftImpls'[b] # None
             /\ bNftProxys'[b] # None => /\ bNftProxys'[b] \in DOMAIN proxies'
                                         /\ proxies'[bNftProxys'[b]].asset = b
  <2>1. CASE b = a BY <2>1, <1>2, <1>3, <1>7
  <2>2. CASE b # a BY <2>2, <1>2, <1>7 DEF TablesAgree
  <2> QED BY <2>1, <2>2
<1>9. TablesAgree' BY <1>7, <1>8 DEF TablesAgree
<1> QED BY <1>2, <1>9

\* A creation.
LEMMA CreateStep ==
  ASSUME IInv, calls = << >>, NEW a \in NftAssets, NEW impl, NEW p \in Proxies,
         NewAsset(a), createProxyAndInitWithImpl(a, impl, p)
  PROVE  (TablesAgree /\ NoOrphan /\ ImplOnRecord /\ CallsOK)'
<1> DEFINE r == [asset |-> a, owner |-> owner, claimAdmin |-> claimAdmin, impl |-> impl]
<1> TypeOK /\ VarsTyped BY TypeByVars DEF IInv
<1>1. /\ a \in Assets /\ impl \in Impls /\ r \in Proxy
      /\ p \notin DOMAIN proxies /\ bNftProxys[a] = None
  BY CreateTyped DEF createProxyAndInitWithImpl, NewAsset
<1>2. proxies' = Deployed(proxies, p, r) BY DEF createProxyAndInitWithImpl
<1>3. proxies \in ProxyMaps BY DEF VarsTyped
<1>4. /\ DOMAIN proxies' = DOMAIN proxies \cup {p} /\ proxies'[p] = r
      /\ \A q \in DOMAIN proxies : proxies'[q] = proxies[q]
  <2> HIDE DEF r
  <2> QED BY <1>1, <1>2, <1>3, DeployedTyped
<1>5. \A b \in NftAssets : bNftProxys[b] # None =>
        /\ bNftProxys[b] \in DOMAIN proxies /\ bNftProxys[b] # p
        /\ proxies'[bNftProxys[b]] = proxies[bNftProxys[b]]
        /\ proxies'[bNftProxys[b]].asset = b
  BY <1>1, <1>4, OnRecord
<1>6. CASE impl \in Calling
  <2> PICK f : f = [fn |-> "create", asset |-> a, impl |-> impl, proxy |-> p,
                    saved |-> Storage]
    OBVIOUS
  <2>1. /\ calls' = <<f>> \o calls /\ status' = Entered /\ UNCHANGED tables
    BY <1>6 DEF createProxyAndInitWithImpl, Suspend
  <2>2. calls' = <<f>> BY <2>1
  <2>3. /\ bNftProxys' = bNftProxys /\ bNftImpls' = bNftImpls
        /\ bNftAssetLists' = bNftAssetLists
    BY <2>1 DEF tables
  <2>4. TablesAgree' BY <2>3, <1>4, <1>5 DEF IInv, TablesAgree
  <2>5. /\ f.fn = "create" /\ f.proxy = p /\ f.asset = a /\ f.impl = impl
        /\ f.saved.status = NotEntered /\ f.saved.bNftProxys = bNftProxys
        /\ f.saved.bNftImpls = bNftImpls /\ f.saved.bNftAssetLists = bNftAssetLists
        /\ f.saved.proxies = proxies /\ f.saved.owner = owner
        /\ f.saved.claimAdmin = claimAdmin
    BY AtRest DEF Storage
  <2>6. /\ \A q : InMaking(q)' <=> q = p
        /\ \A b : ~Upgrading(b)'
        /\ Len(calls') = 1 /\ Head(calls') = f
    BY <2>2, <2>5, OneAfter
  <2>7. NoOrphan'
    <3> SUFFICES ASSUME NEW q \in DOMAIN proxies', q # p
                 PROVE  bNftProxys'[proxies'[q].asset] = q
      BY <2>6 DEF NoOrphan
    <3> QED BY <1>4, <2>3, AtRest
  <2>8. ImplOnRecord' BY <1>5, <2>3, AtRest DEF ImplOnRecord
  <2>9. FrameOK(f)' BY <1>1, <1>2, <2>3, <2>5 DEF FrameOK
  <2> QED BY <2>1, <2>4, <2>6, <2>7, <2>8, <2>9 DEF CallsOK
<1>7. CASE impl \notin Calling
  <2>1. Enter(a, impl, p) /\ status' = status /\ calls' = << >>
    BY <1>7 DEF createProxyAndInitWithImpl
  <2>2. /\ TablesAgree'
        /\ \A b \in NftAssets : b # a => /\ bNftProxys'[b] = bNftProxys[b]
                                         /\ bNftImpls'[b] = bNftImpls[b]
        /\ bNftProxys'[a] = p /\ bNftImpls'[a] = impl
    BY <1>1, <1>4, <1>5, <2>1, EnterAgrees
  <2>3. NoOrphan'
    <3> SUFFICES ASSUME NEW q \in DOMAIN proxies'
                 PROVE  bNftProxys'[proxies'[q].asset] = q
      BY DEF NoOrphan
    <3>1. CASE q = p BY <3>1, <1>4, <2>2
    <3>2. CASE q # p
      <4>1. q \in DOMAIN proxies /\ proxies'[q] = proxies[q] BY <3>2, <1>4
      <4>2. bNftProxys[proxies[q].asset] = q BY <4>1, AtRest
      <4>3. proxies[q] \in Proxy /\ q \in Proxies BY <4>1, <1>3, MapOfProxies
      <4>4. proxies[q].asset \in NftAssets BY <4>3 DEF Proxy, NftAssets
      <4>5. proxies[q].asset # a BY <4>2, <4>3, <1>1, NoneApart
      <4> QED BY <4>1, <4>2, <4>4, <4>5, <2>2
    <3> QED BY <3>1, <3>2
  <2>4. ImplOnRecord'
    <3> SUFFICES ASSUME NEW b \in NftAssets, bNftProxys'[b] # None
                 PROVE  proxies'[bNftProxys'[b]].impl = bNftImpls'[b]
      BY DEF ImplOnRecord
    <3>1. CASE b = a BY <3>1, <1>4, <2>2
    <3>2. CASE b # a BY <3>2, <1>5, <2>2, AtRest
    <3> QED BY <3>1, <3>2
  <2>5. CallsOK' BY <2>1, AtRest DEF CallsOK
  <2> QED BY <2>2, <2>3, <2>4, <2>5
<1> QED BY <1>6, <1>7

\* The proxies in the middle of a creation, told from those before it.
LEMMA MadeAs ==
  ASSUME NEW f \in FrameType, FrameOK(f), f.fn = "create"
  PROVE  /\ bNftProxys[f.asset] = None
         /\ f.proxy \in DOMAIN proxies
         /\ proxies[f.proxy].asset = f.asset /\ proxies[f.proxy].impl = f.impl
         /\ DOMAIN proxies = DOMAIN f.saved.proxies \cup {f.proxy}
         /\ \A q \in DOMAIN f.saved.proxies :
              q # f.proxy => proxies[q] = f.saved.proxies[q]
<1> DEFINE r == [asset |-> f.asset, owner |-> f.saved.owner,
                 claimAdmin |-> f.saved.claimAdmin, impl |-> f.impl]
<1>1. /\ f.saved.proxies \in ProxyMaps /\ f.proxy \in Proxies
      /\ r \in Proxy /\ r.asset = f.asset /\ r.impl = f.impl
  BY DEF FrameType, StorageType, Proxy, ProxyMaps
<1>2. bNftProxys[f.asset] = None /\ proxies = Deployed(f.saved.proxies, f.proxy, r)
  BY DEF FrameOK
<1> HIDE DEF r
<1>3. DOMAIN proxies = DOMAIN f.saved.proxies \cup {f.proxy}
  BY <1>2 DEF Deployed
<1>4. proxies[f.proxy] = r BY <1>1, <1>2, DeployedTyped
<1>5. \A q \in DOMAIN f.saved.proxies : q # f.proxy => proxies[q] = f.saved.proxies[q]
  BY <1>1, <1>2, DeployedTyped
<1> QED BY <1>1, <1>2, <1>3, <1>4, <1>5

\* The end of a creation in which foreign code ran.
LEMMA CreateReturnsStep ==
  ASSUME IInv, createReturns
  PROVE  (TablesAgree /\ NoOrphan /\ ImplOnRecord /\ CallsOK)'
<1> PICK f : f = Head(calls) OBVIOUS
<1> TypeOK /\ VarsTyped BY TypeByVars DEF IInv
<1>1. /\ calls # << >> /\ f.fn = "create" /\ Enter(f.asset, f.impl, f.proxy)
      /\ calls' = Tail(calls) /\ status' = NotEntered /\ proxies' = proxies
  BY DEF createReturns, Running, Return
<1>2. /\ f \in FrameType /\ FrameOK(f) /\ calls' = << >>
      /\ \A q : InMaking(q) <=> q = f.proxy
      /\ \A b : ~Upgrading(b)
  BY <1>1, Suspended
<1>3. f.asset \in Assets /\ f.impl \in Impls /\ f.proxy \in Proxies
      /\ f.saved \in StorageType
  BY <1>2 DEF FrameType
<1>4. bNftProxys[f.asset] = None /\ f.proxy \in DOMAIN proxies
      /\ proxies[f.proxy].asset = f.asset /\ proxies[f.proxy].impl = f.impl
  BY <1>1, <1>2, MadeAs
<1>5. \A b \in NftAssets : bNftProxys[b] # None =>
        /\ bNftProxys[b] \in DOMAIN proxies
        /\ proxies[bNftProxys[b]].asset = b
        /\ proxies[bNftProxys[b]].impl = bNftImpls[b]
  BY <1>2, OnRecord DEF IInv, ImplOnRecord
<1>6. /\ TablesAgree'
      /\ \A b \in NftAssets : b # f.asset => /\ bNftProxys'[b] = bNftProxys[b]
                                             /\ bNftImpls'[b] = bNftImpls[b]
      /\ bNftProxys'[f.asset] = f.proxy /\ bNftImpls'[f.asset] = f.impl
  BY <1>1, <1>3, <1>4, <1>5, EnterAgrees
<1>7. NoOrphan'
  <2> SUFFICES ASSUME NEW q \in DOMAIN proxies
               PROVE  bNftProxys'[proxies[q].asset] = q
    BY <1>1 DEF NoOrphan
  <2>1. CASE q = f.proxy BY <2>1, <1>4, <1>6
  <2>2. CASE q # f.proxy
    <3>1. bNftProxys[proxies[q].asset] = q BY <2>2, <1>2 DEF IInv, NoOrphan
    <3>2. proxies[q] \in Proxy /\ q \in Proxies BY MapOfProxies DEF VarsTyped
    <3>3. proxies[q].asset \in NftAssets BY <3>2 DEF Proxy, NftAssets
    <3>4. proxies[q].asset # f.asset BY <3>1, <3>2, <1>4, NoneApart
    <3> QED BY <3>1, <3>3, <3>4, <1>6
  <2> QED BY <2>1, <2>2
<1>8. ImplOnRecord'
  <2> SUFFICES ASSUME NEW b \in NftAssets, bNftProxys'[b] # None
               PROVE  proxies[bNftProxys'[b]].impl = bNftImpls'[b]
    BY <1>1 DEF ImplOnRecord
  <2>1. CASE b = f.asset BY <2>1, <1>4, <1>6
  <2>2. CASE b # f.asset BY <2>2, <1>5, <1>6
  <2> QED BY <2>1, <2>2
<1>9. CallsOK' BY <1>1, <1>2 DEF CallsOK
<1> QED BY <1>6, <1>7, <1>8, <1>9

\* An upgrade of one bNFT.
LEMMA UpgradeStep ==
  ASSUME IInv, NEW u \in Accounts, NEW a \in NftAssets, NEW i, NEW b \in BOOLEAN,
         upgradeBNFTWithImpl(u, a, i, b)
  PROVE  (TablesAgree /\ NoOrphan /\ ImplOnRecord /\ CallsOK)'
<1> PICK p : p = bNftProxys[a] OBVIOUS
<1> TypeOK /\ VarsTyped BY TypeByVars DEF IInv
<1>1. /\ calls = << >> /\ p # None /\ i \in Impls
      /\ proxies' = [proxies EXCEPT ![p] = [@ EXCEPT !.impl = i]]
      /\ bNftProxys' = bNftProxys /\ bNftAssetLists' = bNftAssetLists
      /\ owner' = owner /\ claimAdmin' = claimAdmin
  BY GuardMeansRest DEF upgradeBNFTWithImpl, admin
<1>2. /\ p \in DOMAIN proxies /\ proxies[p].asset = a /\ p \in Proxies
      /\ a \in Assets /\ bNftImpls[a] # None
      /\ \A c \in NftAssets : bNftProxys[c] = p => c = a
  BY <1>1, OnRecord
<1>3. /\ DOMAIN proxies' = DOMAIN proxies
      /\ proxies'[p].impl = i /\ proxies'[p].asset = a
      /\ \A q \in DOMAIN proxies : q # p => proxies'[q] = proxies[q]
  BY <1>1, <1>2, MovedTyped DEF VarsTyped
<1>4. \A q \in DOMAIN proxies : proxies'[q].asset = proxies[q].asset BY <1>2, <1>3
<1>5. ASSUME \A c \in NftAssets : bNftImpls'[c] # None <=> bNftImpls[c] # None
      PROVE  TablesAgree'
  BY <1>1, <1>3, <1>4, <1>5 DEF IInv, TablesAgree
<1>6. NoOrphan' BY <1>1, <1>3, <1>4, AtRest DEF NoOrphan
<1>7. \A c \in NftAssets : c # a /\ bNftProxys[c] # None =>
        proxies'[bNftProxys[c]].impl = bNftImpls[c]
  BY <1>1, <1>2, <1>3, AtRest, OnRecord
<1>8. CASE b
  <2> PICK f : f = [fn |-> "upgrade", asset |-> a, impl |-> i, proxy |-> p,
                    saved |-> Storage]
    OBVIOUS
  <2>1. calls' = <<f>> \o calls /\ status' = Entered /\ bNftImpls' = bNftImpls
    BY <1>8 DEF upgradeBNFTWithImpl, Suspend
  <2>2. calls' = <<f>> BY <2>1, <1>1
  <2>3. /\ f.fn = "upgrade" /\ f.proxy = p /\ f.asset = a /\ f.impl = i
        /\ f.saved.status = NotEntered /\ f.saved.bNftProxys = bNftProxys
        /\ f.saved.bNftImpls = bNftImpls /\ f.saved.bNftAssetLists = bNftAssetLists
        /\ f.saved.proxies = proxies
    BY <1>1, AtRest DEF Storage
  <2>4. /\ \A c : Upgrading(c)' <=> c = a
        /\ Len(calls') = 1 /\ Head(calls') = f
    BY <2>2, <2>3, OneAfter
  <2>5. TablesAgree' BY <1>5, <2>1
  <2>6. ImplOnRecord' BY <1>1, <1>7, <2>1, <2>4 DEF ImplOnRecord
  <2>7. proxies[p].impl = bNftImpls[a] BY <1>1, AtRest
  <2>8. FrameOK(f)' BY <1>1, <1>2, <2>1, <2>3, <2>7 DEF FrameOK
  <2> QED BY <1>6, <2>1, <2>4, <2>5, <2>6, <2>8 DEF CallsOK
<1>9. CASE ~b
  <2>1. /\ bNftImpls' = [bNftImpls EXCEPT ![a] = i]
        /\ status' = status /\ calls' = << >>
    BY <1>1, <1>9 DEF upgradeBNFTWithImpl, recordImpl
  <2>2. /\ bNftImpls'[a] = i /\ i # None
        /\ \A c \in NftAssets : c # a => bNftImpls'[c] = bNftImpls[c]
    BY <2>1, <1>1, NoneApart DEF VarsTyped
  <2>3. TablesAgree' BY <1>2, <1>5, <2>2
  <2>4. ImplOnRecord' BY <1>1, <1>3, <1>7, <2>2 DEF ImplOnRecord
  <2>5. CallsOK' BY <1>1, <2>1, AtRest DEF CallsOK
  <2> QED BY <1>6, <2>3, <2>4, <2>5
<1> QED BY <1>8, <1>9

\* An upgrade of many to the generic implementation.
LEMMA BatchStep ==
  ASSUME IInv, calls = << >>, NEW as \in SUBSET NftAssets, UpgradeEach(as)
  PROVE  (TablesAgree /\ NoOrphan /\ ImplOnRecord /\ CallsOK)'
<1> PICK ps : ps = {bNftProxys[a] : a \in as} OBVIOUS
<1> TypeOK /\ VarsTyped BY TypeByVars DEF IInv
<1>1. /\ \A a \in as : bNftProxys[a] # None
      /\ as # {} => genericImpl \in Impls
      /\ proxies' = [p \in DOMAIN proxies |->
                       IF p \in ps THEN [proxies[p] EXCEPT !.impl = genericImpl]
                                   ELSE proxies[p]]
      /\ bNftImpls' = [a \in NftAssets |-> IF a \in as THEN genericImpl
                                                       ELSE bNftImpls[a]]
      /\ bNftProxys' = bNftProxys /\ bNftAssetLists' = bNftAssetLists
      /\ status' = status /\ calls' = << >>
  BY DEF UpgradeEach
<1>2. \A p \in DOMAIN proxies : proxies[p] \in Proxy
  BY MapOfProxies DEF VarsTyped
<1>3. /\ DOMAIN proxies' = DOMAIN proxies
      /\ \A p \in DOMAIN proxies :
           /\ proxies'[p].asset = proxies[p].asset
           /\ p \in ps => proxies'[p].impl = genericImpl
           /\ p \notin ps => proxies'[p] = proxies[p]
  BY <1>1, <1>2 DEF Proxy
<1>4. \A a \in NftAssets : bNftImpls'[a] # None <=> bNftImpls[a] # None
  BY <1>1, NoneApart, OnRecord
<1>5. TablesAgree' BY <1>1, <1>3, <1>4 DEF IInv, TablesAgree
<1>6. NoOrphan' BY <1>1, <1>3, AtRest DEF NoOrphan
<1>7. ImplOnRecord'
  <2> SUFFICES ASSUME NEW a \in NftAssets, bNftProxys[a] # None
               PROVE  proxies'[bNftProxys[a]].impl = bNftImpls'[a]
    BY <1>1 DEF ImplOnRecord
  <2>1. /\ bNftProxys[a] \in DOMAIN proxies
        /\ \A b \in NftAssets : bNftProxys[b] = bNftProxys[a] => b = a
        /\ proxies[bNftProxys[a]].impl = bNftImpls[a]
    BY AtRest, OnRecord
  <2>2. bNftProxys[a] \in ps <=> a \in as BY <2>1
  <2> QED BY <1>1, <1>3, <2>1, <2>2
<1>8. CallsOK' BY <1>1, AtRest DEF CallsOK
<1> QED BY <1>5, <1>6, <1>7, <1>8

\* The end of an upgrade in which foreign code ran.
LEMMA UpgradeReturnsStep ==
  ASSUME IInv, upgradeReturns
  PROVE  (TablesAgree /\ NoOrphan /\ ImplOnRecord /\ CallsOK)'
<1> PICK f : f = Head(calls) OBVIOUS
<1> TypeOK /\ VarsTyped BY TypeByVars DEF IInv
<1>1. /\ calls # << >> /\ f.fn = "upgrade"
      /\ bNftImpls' = [bNftImpls EXCEPT ![f.asset] = f.impl]
      /\ calls' = Tail(calls) /\ status' = NotEntered /\ proxies' = proxies
      /\ bNftProxys' = bNftProxys /\ bNftAssetLists' = bNftAssetLists
  BY DEF upgradeReturns, recordImpl, Running, Return
<1>2. /\ f \in FrameType /\ FrameOK(f) /\ calls' = << >>
      /\ \A q : ~InMaking(q)
      /\ \A c : Upgrading(c) <=> c = f.asset
  BY <1>1, Suspended
<1>3. f.asset \in NftAssets /\ f.impl \in Impls /\ f.saved \in StorageType
  BY <1>2 DEF FrameType, NftAssets
<1>4. /\ bNftImpls'[f.asset] = f.impl /\ f.impl # None
      /\ \A c \in NftAssets : c # f.asset => bNftImpls'[c] = bNftImpls[c]
  BY <1>1, <1>3, NoneApart DEF VarsTyped
<1>5. f.proxy = bNftProxys[f.asset] /\ f.proxy \in DOMAIN f.saved.proxies
      /\ proxies = [f.saved.proxies EXCEPT ![f.proxy] = [@ EXCEPT !.impl = f.impl]]
  BY <1>1, <1>2 DEF FrameOK
<1>6. /\ f.proxy \in DOMAIN proxies /\ proxies[f.proxy].impl = f.impl
      /\ f.proxy # None
  <2>1. f.saved.proxies \in ProxyMaps BY <1>3 DEF StorageType, ProxyMaps
  <2>2. f.proxy \in DOMAIN proxies /\ proxies[f.proxy].impl = f.impl
    BY <1>3, <1>5, <2>1, MovedTyped
  <2>3. DOMAIN proxies \in SUBSET Proxies BY MapOfProxies DEF VarsTyped
  <2> QED BY <2>2, <2>3, NoneApart
<1>7. TablesAgree'
  <2>1. \A c \in NftAssets : bNftImpls'[c] # None <=> bNftImpls[c] # None
    BY <1>3, <1>4, <1>5, <1>6, OnRecord
  <2> QED BY <1>1, <2>1 DEF IInv, TablesAgree
<1>8. NoOrphan' BY <1>1, <1>2 DEF IInv, NoOrphan
<1>9. ImplOnRecord' BY <1>1, <1>2, <1>4, <1>5, <1>6 DEF IInv, ImplOnRecord
<1>10. CallsOK' BY <1>1, <1>2 DEF CallsOK
<1> QED BY <1>7, <1>8, <1>9, <1>10

\* Nothing that is set is in the tables.
LEMMA SetStep ==
  ASSUME IInv, Set
  PROVE  (TablesAgree /\ NoOrphan /\ ImplOnRecord /\ CallsOK)'
<1>1. /\ bNftProxys' = bNftProxys /\ bNftImpls' = bNftImpls
      /\ bNftAssetLists' = bNftAssetLists /\ proxies' = proxies
      /\ status' = status /\ calls' = calls
  BY DEF Set, setBNFTGenericImpl, addCustomeSymbols, setClaimAdmin,
     setDelegateCashContract, setDelegateCashContractV2, transferOwnership, tables
<1>2. TablesAgree' BY <1>1 DEF IInv, TablesAgree
<1>3. NoOrphan' BY <1>1 DEF IInv, NoOrphan, InMaking
<1>4. ImplOnRecord' BY <1>1 DEF IInv, ImplOnRecord, Upgrading
<1>5. CallsOK' BY <1>1 DEF IInv, CallsOK, FrameOK
<1> QED BY <1>2, <1>3, <1>4, <1>5

\* A revert takes a creation or an upgrade back whole: the tables are as the
\* suspended function found them, and so are the proxies.
LEMMA RevertStep ==
  ASSUME IInv, revert
  PROVE  (TablesAgree /\ NoOrphan /\ ImplOnRecord /\ CallsOK)'
<1> PICK f : f = Head(calls) OBVIOUS
<1> TypeOK /\ VarsTyped BY TypeByVars DEF IInv
<1>1. /\ bNftProxys' = f.saved.bNftProxys /\ bNftImpls' = f.saved.bNftImpls
      /\ bNftAssetLists' = f.saved.bNftAssetLists
      /\ proxies' = f.saved.proxies /\ status' = f.saved.status
      /\ calls # << >> /\ calls' = Tail(calls)
  BY DEF revert
<1>2. /\ f \in FrameType /\ FrameOK(f) /\ calls' = << >>
      /\ \A q : InMaking(q) <=> f.fn = "create" /\ f.proxy = q
      /\ \A c : Upgrading(c) <=> f.fn = "upgrade" /\ f.asset = c
  BY <1>1, Suspended
<1>3. /\ bNftProxys' = bNftProxys /\ bNftImpls' = bNftImpls
      /\ bNftAssetLists' = bNftAssetLists /\ status' = NotEntered
  BY <1>1, <1>2 DEF FrameOK
<1>4. /\ f.asset \in Assets /\ f.impl \in Impls /\ f.proxy \in Proxies
      /\ f.saved \in StorageType /\ f.saved.proxies \in ProxyMaps
      /\ f.fn \in {"create", "upgrade"}
  BY <1>2 DEF FrameType, StorageType, ProxyMaps
<1>5. CallsOK' BY <1>2, <1>3 DEF CallsOK
<1>6. \A c \in NftAssets : bNftProxys[c] # None =>
        bNftProxys[c] \in DOMAIN proxies /\ proxies[bNftProxys[c]].asset = c
  BY OnRecord
<1>7. CASE f.fn = "create"
  <2>1. /\ bNftProxys[f.asset] = None /\ f.proxy \notin DOMAIN f.saved.proxies
        /\ proxies[f.proxy].asset = f.asset
    BY <1>2, <1>7, MadeAs DEF FrameOK
  <2>3. /\ DOMAIN proxies = DOMAIN f.saved.proxies \cup {f.proxy}
        /\ \A q \in DOMAIN f.saved.proxies : proxies[q] = f.saved.proxies[q]
    BY <1>2, <1>7, <2>1, MadeAs
  <2>4. \A c \in NftAssets : bNftProxys[c] # None => bNftProxys[c] # f.proxy
    <3> SUFFICES ASSUME NEW c \in NftAssets, bNftProxys[c] # None,
                        bNftProxys[c] = f.proxy
                 PROVE  FALSE
      OBVIOUS
    <3>1. c = f.asset BY <1>6, <2>1
    <3> QED BY <3>1, <2>1
  <2>5. TablesAgree' BY <1>1, <1>3, <1>6, <2>3, <2>4 DEF IInv, TablesAgree
  <2>6. NoOrphan'
    <3> SUFFICES ASSUME NEW q \in DOMAIN f.saved.proxies
                 PROVE  bNftProxys[f.saved.proxies[q].asset] = q
      BY <1>1, <1>3 DEF NoOrphan
    <3> QED BY <1>2, <2>1, <2>3 DEF IInv, NoOrphan
  <2>7. ImplOnRecord'
    <3> SUFFICES ASSUME NEW c \in NftAssets, bNftProxys[c] # None
                 PROVE  f.saved.proxies[bNftProxys[c]].impl = bNftImpls[c]
      BY <1>1, <1>3 DEF ImplOnRecord
    <3>1. proxies[bNftProxys[c]].impl = bNftImpls[c]
      BY <1>2, <1>7 DEF IInv, ImplOnRecord
    <3> QED BY <3>1, <1>6, <2>3, <2>4
  <2> QED BY <1>5, <2>5, <2>6, <2>7
<1>8. CASE f.fn = "upgrade"
  <2>1. /\ f.proxy = bNftProxys[f.asset] /\ f.proxy \in DOMAIN f.saved.proxies
        /\ proxies = [f.saved.proxies EXCEPT ![f.proxy] = [@ EXCEPT !.impl = f.impl]]
        /\ f.saved.proxies[f.proxy].impl = bNftImpls[f.asset]
    BY <1>2, <1>8 DEF FrameOK
  <2>2. /\ DOMAIN proxies = DOMAIN f.saved.proxies
        /\ proxies[f.proxy].asset = f.saved.proxies[f.proxy].asset
        /\ \A q \in DOMAIN f.saved.proxies : q # f.proxy =>
             proxies[q] = f.saved.proxies[q]
    <3>1. DOMAIN proxies = DOMAIN f.saved.proxies BY <1>4, <2>1, MovedTyped
    <3>2. proxies[f.proxy].asset = f.saved.proxies[f.proxy].asset
      BY <1>4, <2>1, MovedTyped
    <3>3. \A q \in DOMAIN f.saved.proxies : q # f.proxy =>
             proxies[q] = f.saved.proxies[q]
      BY <1>4, <2>1, MovedTyped
    <3> QED BY <3>1, <3>2, <3>3
  <2>3. \A q \in DOMAIN proxies : f.saved.proxies[q].asset = proxies[q].asset
    BY <2>2
  <2>4. TablesAgree' BY <1>1, <1>3, <1>6, <2>2, <2>3 DEF IInv, TablesAgree
  <2>5. NoOrphan'
    <3> SUFFICES ASSUME NEW q \in DOMAIN f.saved.proxies
                 PROVE  bNftProxys[f.saved.proxies[q].asset] = q
      BY <1>1, <1>3 DEF NoOrphan
    <3>1. ~ InMaking(q) BY <1>2, <1>8
    <3> QED BY <3>1, <2>2, <2>3 DEF IInv, NoOrphan
  <2>6. ImplOnRecord'
    <3> SUFFICES ASSUME NEW c \in NftAssets, bNftProxys[c] # None
                 PROVE  f.saved.proxies[bNftProxys[c]].impl = bNftImpls[c]
      BY <1>1, <1>3 DEF ImplOnRecord
    <3>1. CASE c = f.asset BY <3>1, <2>1
    <3>2. CASE c # f.asset
      <4>1. ~ Upgrading(c) BY <3>2, <1>2
      <4>2. proxies[bNftProxys[c]].impl = bNftImpls[c]
        BY <4>1 DEF IInv, ImplOnRecord
      <4>3. bNftProxys[c] # f.proxy
        <5>1. f.asset \in NftAssets /\ bNftProxys[f.asset] # None
          BY <1>4, <2>1, NoneApart DEF NftAssets
        <5> QED BY <5>1, <3>2, <2>1, OnRecord
      <4> QED BY <4>2, <4>3, <1>6, <2>2
    <3> QED BY <3>1, <3>2
  <2> QED BY <1>5, <2>4, <2>5, <2>6
<1> QED BY <1>4, <1>7, <1>8

LEMMA InitInv == Init => IInv
<1> SUFFICES ASSUME Init PROVE IInv OBVIOUS
<1>1. TypeOK BY InitTyped
<1>2. /\ DOMAIN proxies = {} /\ calls = << >> /\ status = NotEntered
      /\ \A a \in NftAssets : bNftProxys[a] = None /\ bNftImpls[a] = None
      /\ Range(bNftAssetLists) = {} /\ IsInjective(bNftAssetLists)
  BY DEF Init, Range, IsInjective
<1> QED BY <1>1, <1>2 DEF IInv, TablesAgree, NoOrphan, ImplOnRecord, CallsOK

\* The invariant is inductive.
LEMMA InvStep == IInv /\ [Next]_vars => IInv'
<1> SUFFICES ASSUME IInv, [Next]_vars PROVE IInv' OBVIOUS
<1>1. TypeOK' BY StepTyped DEF IInv
<1>2. (TablesAgree /\ NoOrphan /\ ImplOnRecord /\ CallsOK)'
  <2>1. CASE Create
    BY <2>1, GuardMeansRest, CreateStep DEF Create, createBNFT, createBNFTWithImpl
  <2>2. CASE createReturns BY <2>2, CreateReturnsStep
  <2>3. CASE Upgrade
    <3>1. AllAssets \in SUBSET NftAssets
      BY TypeByVars DEF IInv, AllAssets, Range, NftAssets, VarsTyped
    <3>2. ASSUME NEW as \in SUBSET NftAssets, NotReentrant, UpgradeEach(as)
          PROVE  (TablesAgree /\ NoOrphan /\ ImplOnRecord /\ CallsOK)'
      BY <3>2, GuardMeansRest, BatchStep
    <3> QED BY <2>3, <3>1, <3>2, UpgradeStep
      DEF Upgrade, batchUpgradeBNFT, batchUpgradeAllBNFT
  <2>4. CASE upgradeReturns BY <2>4, UpgradeReturnsStep
  <2>5. CASE Set BY <2>5, SetStep
  <2>6. CASE revert BY <2>6, RevertStep
  <2>7. CASE UNCHANGED vars
    <3>1. /\ bNftProxys' = bNftProxys /\ bNftImpls' = bNftImpls
          /\ bNftAssetLists' = bNftAssetLists /\ proxies' = proxies
          /\ status' = status /\ calls' = calls
      BY <2>7 DEF vars, tables
    <3>2. TablesAgree' BY <3>1 DEF IInv, TablesAgree
    <3>3. NoOrphan' BY <3>1 DEF IInv, NoOrphan, InMaking
    <3>4. ImplOnRecord' BY <3>1 DEF IInv, ImplOnRecord, Upgrading
    <3>5. CallsOK' BY <3>1 DEF IInv, CallsOK, FrameOK
    <3> QED BY <3>2, <3>3, <3>4, <3>5
  <2> QED BY <2>1, <2>2, <2>3, <2>4, <2>5, <2>6, <2>7 DEF Next
<1> QED BY <1>1, <1>2 DEF IInv

\* At most one function is ever suspended, and what it saved is what a revert
\* has to restore.
THEOREM Inductive == Spec => []IInv
BY InitInv, InvStep, PTL DEF Spec

\* Every variable and every saved state has its type: no bNFT for an address
\* without code, none of an implementation without code.
THEOREM TypeCorrect == Spec => []TypeOK
<1>1. IInv => TypeOK BY DEF IInv
<1> QED BY <1>1, Inductive, PTL

\* The list and the two mappings agree in every state.
THEOREM TablesAlwaysAgree == Spec => []TablesAgree
<1>1. IInv => TablesAgree BY DEF IInv
<1> QED BY <1>1, Inductive, PTL

\* No proxy is deployed that the registry cannot upgrade any more.
THEOREM NoProxyLost == Spec => []NoOrphan
<1>1. IInv => NoOrphan BY DEF IInv
<1> QED BY <1>1, Inductive, PTL

\* getBNFTAddresses names the implementation the bNFT runs.
THEOREM RecordsRight == Spec => []ImplOnRecord
<1>1. IInv => ImplOnRecord BY DEF IInv
<1> QED BY <1>1, Inductive, PTL

\* One batchUpgradeAllBNFT leaves no bNFT with other code than the generic
\* implementation: every proxy is on record, so the loop over the list meets it.
THEOREM BatchReachesEvery == Spec => BatchReachesAll
<1>1. ASSUME IInv, NEW u \in Accounts, batchUpgradeAllBNFT(u), NEW p \in DOMAIN proxies
      PROVE  proxies'[p].impl = genericImpl
  <2> DEFINE a == proxies[p].asset
  <2>1. calls = << >> /\ UpgradeEach(AllAssets)
    BY <1>1, GuardMeansRest DEF batchUpgradeAllBNFT
  <2>2. bNftProxys[a] = p BY <1>1, <2>1, AtRest
  <2>3. p \in Proxies /\ proxies[p] \in Proxy
    BY <1>1, TypeByVars, MapOfProxies DEF IInv, VarsTyped
  <2>4. a \in NftAssets /\ p # None BY <2>3, NoneApart DEF Proxy, NftAssets
  <2>5. a \in AllAssets BY <1>1, <2>2, <2>4, OnRecord DEF AllAssets
  <2>6. p \in {bNftProxys[c] : c \in AllAssets} BY <2>2, <2>5
  <2>7. proxies'[p] = [proxies[p] EXCEPT !.impl = genericImpl]
    BY <1>1, <2>1, <2>6 DEF UpgradeEach
  <2> QED BY <2>3, <2>7 DEF Proxy
<1>2. IInv /\ [Next]_vars =>
        [(\E u \in Accounts : batchUpgradeAllBNFT(u)) =>
           \A p \in DOMAIN proxies : proxies'[p].impl = genericImpl]_vars
  BY <1>1
<1> QED BY Inductive, <1>2, PTL DEF Spec, BatchReachesAll

-----------------------------------------------------------------------------
\* The catalogue.  What a suspended function saved of the tables is what they
\* are, so that the entries committed can be read off the current state.
Now == [k \in DOMAIN bNftAssetLists |->
          <<bNftAssetLists[k], bNftProxys[bNftAssetLists[k]]>>]

LEMMA CommittedIs == (IInv => Entries(Committed) = Now)
                     /\ (IInv' => Entries(Committed)' = Now')
<1>1. ASSUME IInv PROVE Entries(Committed) = Now
  <2>1. CASE calls = << >> BY <2>1 DEF Committed, Entries, Storage, Now
  <2>2. CASE calls # << >>
    <3>1. /\ Len(calls) = 1 /\ FrameOK(Head(calls))
      BY <1>1, <2>2 DEF IInv, CallsOK
    <3>2. calls[Len(calls)] = Head(calls) BY <1>1, <3>1 DEF IInv, TypeOK
    <3> QED BY <2>2, <3>1, <3>2 DEF Committed, FrameOK, Entries, Now
  <2> QED BY <2>1, <2>2
<1>2. ASSUME IInv' PROVE Entries(Committed)' = Now'
  <2>1. CASE calls' = << >> BY <2>1 DEF Committed, Entries, Storage, Now
  <2>2. CASE calls' # << >>
    <3>1. /\ Len(calls') = 1 /\ FrameOK(Head(calls))'
      BY <1>2, <2>2 DEF IInv, CallsOK
    <3>2. calls'[Len(calls')] = Head(calls)' BY <1>2, <3>1 DEF IInv, TypeOK
    <3> QED BY <2>2, <3>1, <3>2 DEF Committed, FrameOK, Entries, Now
  <2> QED BY <2>1, <2>2
<1> QED BY <1>1, <1>2

\* A new entry in the tables is a new entry at the end of the catalogue.
LEMMA EnterIsEnter ==
  ASSUME IInv, NEW a \in Assets, NEW impl, NEW p \in Proxies,
         bNftProxys[a] = None, Enter(a, impl, p),
         p \in DOMAIN proxies => proxies[p].asset = a
  PROVE  /\ \A k \in DOMAIN Now : Now[k][1] # a /\ Now[k][2] # p
         /\ Now' = Append(Now, <<a, p>>)
<1> VarsTyped BY TypeByVars DEF IInv
<1>1. /\ bNftAssetLists \in Seq(Assets) /\ DOMAIN bNftAssetLists = 1..Len(bNftAssetLists)
      /\ Len(bNftAssetLists) \in Nat
      /\ \A k \in 1..Len(bNftAssetLists) : bNftAssetLists[k] \in Range(bNftAssetLists)
  BY DEF VarsTyped, Range
<1>2. a \in NftAssets /\ a \notin Range(bNftAssetLists)
  BY DEF NftAssets, IInv, TablesAgree
<1>3. \A k \in 1..Len(bNftAssetLists) :
        /\ bNftAssetLists[k] \in NftAssets /\ bNftAssetLists[k] # a
        /\ bNftProxys[bNftAssetLists[k]] # p
  <2> SUFFICES ASSUME NEW k \in 1..Len(bNftAssetLists)
               PROVE  /\ bNftAssetLists[k] \in NftAssets /\ bNftAssetLists[k] # a
                      /\ bNftProxys[bNftAssetLists[k]] # p
    OBVIOUS
  <2>1. bNftAssetLists[k] \in NftAssets BY <1>1 DEF NftAssets
  <2>2. bNftAssetLists[k] # a BY <1>1, <1>2
  <2>3. bNftProxys[bNftAssetLists[k]] # None BY <1>1, <2>1 DEF IInv, TablesAgree
  <2> QED BY <2>1, <2>2, <2>3, OnRecord
<1>4. /\ bNftAssetLists' = Append(bNftAssetLists, a)
      /\ DOMAIN bNftAssetLists' = 1..(Len(bNftAssetLists) + 1)
      /\ \A k \in 1..Len(bNftAssetLists) : bNftAssetLists'[k] = bNftAssetLists[k]
      /\ bNftAssetLists'[Len(bNftAssetLists) + 1] = a
  BY <1>1 DEF Enter
<1>5. bNftProxys'[a] = p /\ \A b \in NftAssets : b # a => bNftProxys'[b] = bNftProxys[b]
  BY <1>2 DEF Enter, VarsTyped
<1>6. Now \in Seq(Assets \X (Proxies \cup {None})) /\ Len(Now) = Len(bNftAssetLists)
  <2>1. Now \in [1..Len(bNftAssetLists) -> Assets \X (Proxies \cup {None})]
    BY <1>1, <1>3 DEF Now, VarsTyped
  <2> QED BY <1>1, <2>1
<1>7. /\ DOMAIN Append(Now, <<a, p>>) = 1..(Len(bNftAssetLists) + 1)
      /\ \A k \in 1..Len(bNftAssetLists) : Append(Now, <<a, p>>)[k] = Now[k]
      /\ Append(Now, <<a, p>>)[Len(bNftAssetLists) + 1] = <<a, p>>
  <2> HIDE DEF Now
  <2> QED BY <1>1, <1>6
<1>8. Now' = Append(Now, <<a, p>>)
  <2>1. \A k \in 1..Len(bNftAssetLists) : Now'[k] = Now[k]
    BY <1>1, <1>3, <1>4, <1>5 DEF Now
  <2>2. Now'[Len(bNftAssetLists) + 1] = <<a, p>> BY <1>1, <1>4, <1>5 DEF Now
  <2>3. Now' = [k \in 1..(Len(bNftAssetLists) + 1) |-> Now'[k]]
    BY <1>4 DEF Now
  <2>4. Append(Now, <<a, p>>) =
          [k \in 1..(Len(bNftAssetLists) + 1) |-> Append(Now, <<a, p>>)[k]]
    <3> HIDE DEF Now
    <3>1. Append(Now, <<a, p>>) \in Seq(Assets \X (Proxies \cup {None}))
      BY <1>6
    <3> QED BY <1>1, <1>7, <3>1
  <2>5. \A k \in 1..(Len(bNftAssetLists) + 1) : Now'[k] = Append(Now, <<a, p>>)[k]
    BY <1>1, <1>7, <2>1, <2>2
  <2> QED BY <2>3, <2>4, <2>5
<1> QED BY <1>1, <1>3, <1>8 DEF Now

\* Every step of the registry is a new entry of the catalogue, or none.
LEMMA StepIsEnter ==
  ASSUME IInv, [Next]_vars
  PROVE  \/ Now' = Now
         \/ \E a \in Assets, p \in Proxies :
              /\ \A k \in DOMAIN Now : Now[k][1] # a /\ Now[k][2] # p
              /\ Now' = Append(Now, <<a, p>>)
<1> TypeOK BY DEF IInv
<1>1. ASSUME UNCHANGED <<bNftAssetLists, bNftProxys>> PROVE Now' = Now
  BY <1>1 DEF Now
<1>2. CASE Create
  <2> PICK u \in Accounts, a \in NftAssets, p \in Proxies, i \in Impls \cup Codeless :
        NewAsset(a) /\ createProxyAndInitWithImpl(a, i, p)
    BY <1>2 DEF Create, createBNFT, createBNFTWithImpl, IInv, TypeOK, StorageType, Storage
  <2>1. a \in Assets /\ bNftProxys[a] = None /\ p \notin DOMAIN proxies
    BY CreateTyped DEF NewAsset, createProxyAndInitWithImpl
  <2>2. UNCHANGED tables \/ Enter(a, i, p) BY DEF createProxyAndInitWithImpl
  <2> QED BY <1>1, <2>1, <2>2, EnterIsEnter DEF tables
<1>3. CASE createReturns
  <2> PICK f : f = Head(calls) OBVIOUS
  <2>1. /\ f.fn = "create" /\ Enter(f.asset, f.impl, f.proxy)
        /\ f \in FrameType /\ FrameOK(f)
    BY <1>3, Suspended DEF createReturns, Running
  <2>2. f.asset \in Assets /\ f.proxy \in Proxies BY <2>1 DEF FrameType
  <2>3. bNftProxys[f.asset] = None /\ proxies[f.proxy].asset = f.asset
    BY <2>1, MadeAs
  <2>4. /\ \A k \in DOMAIN Now : Now[k][1] # f.asset /\ Now[k][2] # f.proxy
        /\ Now' = Append(Now, <<f.asset, f.proxy>>)
    BY <2>1, <2>2, <2>3, EnterIsEnter
  <2> QED BY <2>2, <2>4
<1>4. CASE Upgrade \/ upgradeReturns \/ Set
  BY <1>1, <1>4 DEF Upgrade, upgradeBNFTWithImpl, batchUpgradeBNFT,
     batchUpgradeAllBNFT, UpgradeEach, upgradeReturns, Set, setBNFTGenericImpl,
     addCustomeSymbols, setClaimAdmin, setDelegateCashContract,
     setDelegateCashContractV2, transferOwnership, tables
<1>5. CASE revert BY <1>1, <1>5, Suspended DEF revert, FrameOK
<1>6. CASE UNCHANGED vars BY <1>1, <1>6 DEF vars, tables
<1> QED BY <1>2, <1>3, <1>4, <1>5, <1>6 DEF Next

\* The registry is a catalogue: entries are added to it, for new collections
\* and with proxies of their own, and never moved, replaced or removed.
THEOREM Refinement == Spec => ImplementsCatalogue
<1>1. Init => C!Init
  <2> SUFFICES ASSUME Init PROVE Entries(Committed) = << >> BY DEF C!Init
  <2>1. Committed = Storage /\ bNftAssetLists = << >> BY DEF Init, Committed
  <2> QED BY <2>1 DEF Entries, Storage
<1>2. IInv /\ IInv' /\ [Next]_vars => [C!Next]_(Entries(Committed))
  BY CommittedIs, StepIsEnter DEF C!Next, C!enter, C!Listed, C!Taken
<1> QED BY Inductive, <1>1, <1>2, PTL DEF Spec, ImplementsCatalogue, C!Spec
=============================================================================
