----------------------- MODULE BoundPunkGatewayProofs -----------------------
(***************************************************************************)
(* Theorems of BoundPunkGateway, for any punks, users and prices.          *)
(***************************************************************************)
EXTENDS BoundPunkGateway, TLAPS

LEMMA AddressFacts ==
  /\ \A u \in Users : u \in Callers /\ u # Gateway
  /\ Gateway \in Callers /\ Callers \subseteq Addresses
  /\ Wrapper \in Addresses /\ Bnft \in Addresses /\ Wrapper # Bnft
  /\ \A u \in Callers : /\ u # Wrapper /\ u # Bnft
                        /\ Proxy[u] \in Addresses
                        /\ Proxy[u] # Wrapper /\ Proxy[u] # Bnft
                        /\ Proxy[u] \notin Callers
  /\ \A u, v \in Callers : Proxy[u] = Proxy[v] => u = v
  /\ None \notin Addresses /\ Contracts \subseteq Callers
<1>1. \A u \in Callers : Proxy[u] \in Range(Proxy)
  BY AddressesDistinct DEF Range
<1>2. \A u, v \in Callers : Proxy[u] = Proxy[v] => u = v
  BY AddressesDistinct DEF IsInjective
<1> QED BY <1>1, <1>2, AddressesDistinct DEF Addresses, Callers, Users

\* What each call does to the storage of the three contracts, field by field.
LEMMA TransferPunkIs ==
  ASSUME NEW s \in Storage, NEW to \in Addresses, NEW p \in Punks
  PROVE  LET t == TransferPunk(s, to, p) IN
         /\ t \in Storage
         /\ t.punkIndexToAddress[p] = to
         /\ \A q \in Punks \ {p} : t.punkIndexToAddress[q] = s.punkIndexToAddress[q]
         /\ t.wOwner = s.wOwner /\ t.bOwner = s.bOwner /\ t.minters = s.minters
BY DEF TransferPunk, Storage

LEMMA OfferPunkIs ==
  ASSUME NEW s \in Storage, NEW p \in Punks, NEW o \in Offer \cup {None}
  PROVE  LET t == OfferPunk(s, p, o) IN
         /\ t \in Storage
         /\ t.punkIndexToAddress = s.punkIndexToAddress
         /\ t.wOwner = s.wOwner /\ t.bOwner = s.bOwner /\ t.minters = s.minters
BY DEF OfferPunk, Storage

LEMMA WrapIs ==
  ASSUME NEW s \in Storage, NEW u \in Callers, NEW p \in Punks
  PROVE  LET t == Wrap(s, u, p) IN
         /\ t \in Storage
         /\ t.punkIndexToAddress[p] = Wrapper /\ t.wOwner[p] = u
         /\ \A q \in Punks \ {p} : /\ t.punkIndexToAddress[q] = s.punkIndexToAddress[q]
                                   /\ t.wOwner[q] = s.wOwner[q]
         /\ t.bOwner = s.bOwner /\ t.minters = s.minters
BY AddressFacts DEF Wrap, TransferPunk, Storage

LEMMA UnwrapIs ==
  ASSUME NEW s \in Storage, NEW u \in Callers, NEW p \in Punks
  PROVE  LET t == Unwrap(s, u, p) IN
         /\ t \in Storage
         /\ t.punkIndexToAddress[p] = u /\ t.wOwner[p] = None
         /\ \A q \in Punks \ {p} : /\ t.punkIndexToAddress[q] = s.punkIndexToAddress[q]
                                   /\ t.wOwner[q] = s.wOwner[q]
         /\ t.bOwner = s.bOwner /\ t.minters = s.minters
BY AddressFacts DEF Unwrap, TransferPunk, Storage

LEMMA BindIs ==
  ASSUME NEW s \in Storage, NEW u \in Callers, NEW to \in Users, NEW p \in Punks
  PROVE  LET t == Bind(s, u, to, p) IN
         /\ t \in Storage
         /\ t.punkIndexToAddress = s.punkIndexToAddress
         /\ t.wOwner[p] = Bnft /\ t.bOwner[p] = to /\ t.minters[p] = u
         /\ \A q \in Punks \ {p} : /\ t.wOwner[q] = s.wOwner[q]
                                   /\ t.bOwner[q] = s.bOwner[q]
                                   /\ t.minters[q] = s.minters[q]
BY AddressFacts DEF Bind, Storage

LEMMA ReleaseIs ==
  ASSUME NEW s \in Storage, NEW u \in Callers, NEW p \in Punks
  PROVE  LET t == Release(s, u, p) IN
         /\ t \in Storage
         /\ t.punkIndexToAddress = s.punkIndexToAddress
         /\ t.wOwner[p] = u /\ t.bOwner[p] = None /\ t.minters[p] = None
         /\ \A q \in Punks \ {p} : /\ t.wOwner[q] = s.wOwner[q]
                                   /\ t.bOwner[q] = s.bOwner[q]
                                   /\ t.minters[q] = s.minters[q]
BY AddressFacts DEF Release, Storage

LEMMA LentIs ==
  ASSUME chain \in Storage, NEW ts \in SUBSET Punks, NEW to \in Addresses
  PROVE  LET t == Lent(ts, to) IN
         /\ t \in Storage
         /\ t.punkIndexToAddress = chain.punkIndexToAddress
         /\ \A q \in Punks : t.wOwner[q] = IF q \in ts THEN to ELSE chain.wOwner[q]
         /\ t.bOwner = chain.bOwner /\ t.minters = chain.minters
BY DEF Lent, Storage

-----------------------------------------------------------------------------
\* Two kinds of steps that touch one punk preserve the invariant: those that
\* leave the bNFTs alone and take nothing from the bNFT contract, and those
\* outside loans that leave the punk bound to what backs it.
LEMMA AsideStep ==
  ASSUME IInv, UNCHANGED loan, chain' \in Storage, NEW p \in Punks,
         \A q \in Punks \ {p} :
           /\ chain'.punkIndexToAddress[q] = chain.punkIndexToAddress[q]
           /\ chain'.wOwner[q] = chain.wOwner[q],
         chain'.wOwner[p] # None => chain'.punkIndexToAddress[p] = Wrapper,
         chain.wOwner[p] # Bnft \/ chain'.wOwner[p] = Bnft,
         chain'.bOwner = chain.bOwner, chain'.minters = chain.minters
  PROVE  IInv'
<1>1. TypeOK' BY DEF IInv, TypeOK
<1>2. WrapsBacked' BY DEF IInv, WrapsBacked
<1>3. BondsBacked' BY DEF IInv, BondsBacked, OnLoan
<1>4. LoanOK' BY DEF IInv, LoanOK
<1> QED BY <1>1, <1>2, <1>3, <1>4 DEF IInv

LEMMA BondStep ==
  ASSUME IInv, loan = None, UNCHANGED loan, chain' \in Storage, NEW p \in Punks,
         \A q \in Punks \ {p} :
           /\ chain'.punkIndexToAddress[q] = chain.punkIndexToAddress[q]
           /\ chain'.wOwner[q] = chain.wOwner[q]
           /\ chain'.bOwner[q] = chain.bOwner[q]
           /\ chain'.minters[q] = chain.minters[q],
         chain'.wOwner[p] # None => chain'.punkIndexToAddress[p] = Wrapper,
         chain'.bOwner[p] = None <=> chain'.minters[p] = None,
         chain'.bOwner[p] # None => chain'.wOwner[p] = Bnft
  PROVE  IInv'
<1>1. TypeOK' BY DEF IInv, TypeOK
<1>2. WrapsBacked' BY DEF IInv, WrapsBacked
<1>3. BondsBacked' BY DEF IInv, BondsBacked, OnLoan
<1>4. LoanOK' BY DEF IInv, LoanOK
<1> QED BY <1>1, <1>2, <1>3, <1>4 DEF IInv

-----------------------------------------------------------------------------
\* The gateway's functions from end to end: only their punk changes, and it
\* goes from its owner under a bNFT of his, or back.
LEMMA DepositIs ==
  ASSUME TypeOK, NEW u \in Users, NEW p \in Punks, depositPunk(u, p)
  PROVE  /\ chain' \in Storage
         /\ \A q \in Punks \ {p} :
              /\ chain'.punkIndexToAddress[q] = chain.punkIndexToAddress[q]
              /\ chain'.wOwner[q] = chain.wOwner[q]
              /\ chain'.bOwner[q] = chain.bOwner[q]
              /\ chain'.minters[q] = chain.minters[q]
         /\ chain.wOwner[p] = None /\ chain.bOwner[p] = None
         /\ chain'.punkIndexToAddress[p] = Wrapper /\ chain'.wOwner[p] = Bnft
         /\ chain'.bOwner[p] = u /\ chain'.minters[p] = Gateway
         /\ loan = None /\ UNCHANGED loan
<1> DEFINE bought  == BuyPunk(chain, Gateway, p)
           moved   == TransferPunk(bought, Proxy[Gateway], p)
           wrapped == Wrap(moved, Gateway, p)
<1>1. /\ chain' = Bind(wrapped, Gateway, u, p)
      /\ moved.wOwner[p] = None /\ wrapped.bOwner[p] = None
      /\ loan = None /\ UNCHANGED loan
  BY DEF depositPunk, MayWrap, MayBind, NotReentrant
<1>2. chain \in Storage BY DEF TypeOK
<1>3. /\ bought \in Storage
      /\ \A q \in Punks \ {p} : bought.punkIndexToAddress[q] = chain.punkIndexToAddress[q]
      /\ bought.wOwner = chain.wOwner /\ bought.bOwner = chain.bOwner
      /\ bought.minters = chain.minters
  BY <1>2, TransferPunkIs, AddressFacts DEF BuyPunk
<1> HIDE DEF bought
<1>4. /\ moved \in Storage
      /\ \A q \in Punks \ {p} : moved.punkIndexToAddress[q] = bought.punkIndexToAddress[q]
      /\ moved.wOwner = bought.wOwner /\ moved.bOwner = bought.bOwner
      /\ moved.minters = bought.minters
  BY <1>3, TransferPunkIs, AddressFacts
<1> HIDE DEF moved
<1>5. /\ wrapped \in Storage
      /\ wrapped.punkIndexToAddress[p] = Wrapper
      /\ \A q \in Punks \ {p} :
           /\ wrapped.punkIndexToAddress[q] = moved.punkIndexToAddress[q]
           /\ wrapped.wOwner[q] = moved.wOwner[q]
      /\ wrapped.bOwner = moved.bOwner /\ wrapped.minters = moved.minters
  BY <1>4, WrapIs, AddressFacts
<1> HIDE DEF wrapped
<1>6. LET t == Bind(wrapped, Gateway, u, p) IN
      /\ t \in Storage
      /\ t.punkIndexToAddress = wrapped.punkIndexToAddress
      /\ t.wOwner[p] = Bnft /\ t.bOwner[p] = u /\ t.minters[p] = Gateway
      /\ \A q \in Punks \ {p} : /\ t.wOwner[q] = wrapped.wOwner[q]
                                /\ t.bOwner[q] = wrapped.bOwner[q]
                                /\ t.minters[q] = wrapped.minters[q]
  BY <1>5, BindIs, AddressFacts
<1> QED BY <1>1, <1>3, <1>4, <1>5, <1>6

LEMMA WithdrawIs ==
  ASSUME TypeOK, NEW u \in Users, NEW p \in Punks
  PROVE  LET t == Withdrawn(u, p) IN
         /\ t \in Storage
         /\ \A q \in Punks \ {p} :
              /\ t.punkIndexToAddress[q] = chain.punkIndexToAddress[q]
              /\ t.wOwner[q] = chain.wOwner[q]
              /\ t.bOwner[q] = chain.bOwner[q]
              /\ t.minters[q] = chain.minters[q]
         /\ t.punkIndexToAddress[p] = u /\ t.wOwner[p] = None
         /\ t.bOwner[p] = None /\ t.minters[p] = None
         /\ Unbound(p).wOwner[p] = Gateway
         /\ Unbound(p).punkIndexToAddress = chain.punkIndexToAddress
         /\ Unwrapped(p).punkIndexToAddress[p] = Gateway
<1>1. /\ Unbound(p) \in Storage
      /\ Unbound(p).punkIndexToAddress = chain.punkIndexToAddress
      /\ Unbound(p).wOwner[p] = Gateway /\ Unbound(p).bOwner[p] = None
      /\ Unbound(p).minters[p] = None
      /\ \A q \in Punks \ {p} : /\ Unbound(p).wOwner[q] = chain.wOwner[q]
                                /\ Unbound(p).bOwner[q] = chain.bOwner[q]
                                /\ Unbound(p).minters[q] = chain.minters[q]
  BY ReleaseIs, AddressFacts DEF Unbound, TypeOK
<1>2. /\ Unwrapped(p) \in Storage
      /\ Unwrapped(p).punkIndexToAddress[p] = Gateway /\ Unwrapped(p).wOwner[p] = None
      /\ \A q \in Punks \ {p} :
           /\ Unwrapped(p).punkIndexToAddress[q] = Unbound(p).punkIndexToAddress[q]
           /\ Unwrapped(p).wOwner[q] = Unbound(p).wOwner[q]
      /\ Unwrapped(p).bOwner = Unbound(p).bOwner
      /\ Unwrapped(p).minters = Unbound(p).minters
  BY <1>1, UnwrapIs, AddressFacts DEF Unwrapped
<1>3. LET t == Withdrawn(u, p) IN
      /\ t \in Storage
      /\ t.punkIndexToAddress[p] = u
      /\ \A q \in Punks \ {p} :
           t.punkIndexToAddress[q] = Unwrapped(p).punkIndexToAddress[q]
      /\ t.wOwner = Unwrapped(p).wOwner /\ t.bOwner = Unwrapped(p).bOwner
      /\ t.minters = Unwrapped(p).minters
  BY <1>2, TransferPunkIs, AddressFacts DEF Withdrawn
<1> QED BY <1>1, <1>2, <1>3

-----------------------------------------------------------------------------
\* The invariant is inductive.
LEMMA InitInv == Init => IInv
<1> SUFFICES ASSUME Init PROVE IInv
  OBVIOUS
<1>1. chain \in Storage
  <2>1. PICK o \in [Punks -> Users] :
          chain = [punkIndexToAddress |-> o,
                   punksOfferedForSale |-> [p \in Punks |-> None],
                   wOwner |-> [p \in Punks |-> None],
                   bOwner |-> [p \in Punks |-> None],
                   minters |-> [p \in Punks |-> None]]
    BY DEF Init
  <2>2. o \in [Punks -> Addresses]
    BY AddressFacts
  <2> QED BY <2>1, <2>2 DEF Storage
<1>2. /\ loan = None
      /\ \A p \in Punks : /\ chain.wOwner[p] = None /\ chain.bOwner[p] = None
                          /\ chain.minters[p] = None
  BY DEF Init
<1> QED BY <1>1, <1>2 DEF IInv, TypeOK, WrapsBacked, BondsBacked, LoanOK

LEMMA TradeStep ==
  ASSUME IInv, NEW u \in Users, NEW p \in Punks, Trade(u, p)
  PROVE  /\ IInv'
         /\ \A q \in Punks \ {p} :
              chain'.punkIndexToAddress[q] = chain.punkIndexToAddress[q]
         /\ \/ chain.punkIndexToAddress[p] \in Users
            \/ chain'.punkIndexToAddress = chain.punkIndexToAddress
         /\ chain'.wOwner = chain.wOwner /\ chain'.bOwner = chain.bOwner
         /\ chain'.minters = chain.minters /\ UNCHANGED loan
<1> USE AddressFacts DEF IInv, TypeOK
<1>1. /\ UNCHANGED loan /\ chain \in Storage
      /\ chain.wOwner[p] # None => chain.punkIndexToAddress[p] = Wrapper
  BY DEF Trade, WrapsBacked
<1>2. \/ /\ chain.punkIndexToAddress[p] \in Users
         /\ \E to \in Addresses : chain' = TransferPunk(chain, to, p)
      \/ \E o \in Offer \cup {None} : chain' = OfferPunk(chain, p, o)
  <2>1. CASE /\ MayTransferPunk(chain, u, p)
             /\ \E to \in Addresses : chain' = TransferPunk(chain, to, p)
    BY <2>1 DEF MayTransferPunk
  <2>2. ASSUME NEW to \in Users \cup {Gateway, Anyone}, NEW v \in Prices,
               chain' = OfferPunk(chain, p, [seller |-> u, onlySellTo |-> to,
                                             minValue |-> v])
        PROVE  \E o \in Offer \cup {None} : chain' = OfferPunk(chain, p, o)
    <3>1. [seller |-> u, onlySellTo |-> to, minValue |-> v] \in Offer
      BY DEF Offer
    <3> QED BY <2>2, <3>1
  <2>3. CASE chain' = OfferPunk(chain, p, None)
    BY <2>3
  <2>4. ASSUME NEW v \in Prices, MayBuyPunk(chain, u, p, v),
               chain' = BuyPunk(chain, u, p)
        PROVE  /\ chain.punkIndexToAddress[p] \in Users
               /\ \E to \in Addresses : chain' = TransferPunk(chain, to, p)
    <3>1. chain.punkIndexToAddress[p] \in Users
      BY <2>4 DEF MayBuyPunk, Storage, Offer
    <3> QED BY <2>4, <3>1 DEF BuyPunk, Users, Callers
  <2> QED BY <2>1, <2>2, <2>3, <2>4 DEF Trade
<1>3. /\ chain' \in Storage
      /\ \A q \in Punks \ {p} : chain'.punkIndexToAddress[q] = chain.punkIndexToAddress[q]
      /\ chain'.wOwner = chain.wOwner /\ chain'.bOwner = chain.bOwner
      /\ chain'.minters = chain.minters
      /\ chain'.wOwner[p] # None => chain'.punkIndexToAddress[p] = Wrapper
      /\ \/ chain.punkIndexToAddress[p] \in Users
         \/ chain'.punkIndexToAddress = chain.punkIndexToAddress
  <2>1. CASE /\ chain.punkIndexToAddress[p] \in Users
             /\ \E to \in Addresses : chain' = TransferPunk(chain, to, p)
    <3>1. PICK to \in Addresses : chain' = TransferPunk(chain, to, p)
      BY <2>1
    <3>2. chain.wOwner[p] = None
      BY <1>1, <2>1
    <3>3. LET t == TransferPunk(chain, to, p) IN
          /\ t \in Storage
          /\ \A q \in Punks \ {p} : t.punkIndexToAddress[q] = chain.punkIndexToAddress[q]
          /\ t.wOwner = chain.wOwner /\ t.bOwner = chain.bOwner
          /\ t.minters = chain.minters
      BY <1>1, TransferPunkIs
    <3> QED BY <2>1, <3>1, <3>2, <3>3
  <2>2. CASE \E o \in Offer \cup {None} : chain' = OfferPunk(chain, p, o)
    BY <1>1, <2>2, OfferPunkIs
  <2> QED BY <1>2, <2>1, <2>2
<1>4. IInv' BY <1>1, <1>3, AsideStep
<1> QED BY <1>1, <1>3, <1>4

LEMMA WrapStep ==
  ASSUME IInv, NEW u \in Users, NEW p \in Punks, wrapPunk(u, p)
  PROVE  /\ IInv'
         /\ \A q \in Punks : chain'.wOwner[q] = Bnft <=> chain.wOwner[q] = Bnft
         /\ chain'.bOwner = chain.bOwner /\ chain'.minters = chain.minters
         /\ UNCHANGED loan
<1> USE AddressFacts DEF IInv, TypeOK
<1>1. /\ UNCHANGED loan /\ chain \in Storage /\ chain.wOwner[p] = None
      /\ chain' = Wrap(chain, u, p)
  BY DEF wrapPunk, MayWrap
<1>2. /\ chain' \in Storage
      /\ chain'.punkIndexToAddress[p] = Wrapper /\ chain'.wOwner[p] = u
      /\ \A q \in Punks \ {p} :
           /\ chain'.punkIndexToAddress[q] = chain.punkIndexToAddress[q]
           /\ chain'.wOwner[q] = chain.wOwner[q]
      /\ chain'.bOwner = chain.bOwner /\ chain'.minters = chain.minters
  BY <1>1, WrapIs
<1>3. IInv' BY <1>1, <1>2, AsideStep
<1> QED BY <1>1, <1>2, <1>3

LEMMA UnwrapStep ==
  ASSUME IInv, NEW u \in Users, NEW p \in Punks, unwrapPunk(u, p)
  PROVE  /\ IInv'
         /\ \A q \in Punks : chain'.wOwner[q] = Bnft <=> chain.wOwner[q] = Bnft
         /\ chain'.bOwner = chain.bOwner /\ chain'.minters = chain.minters
         /\ UNCHANGED loan
<1> USE AddressFacts DEF IInv, TypeOK
<1>1. /\ UNCHANGED loan /\ chain \in Storage /\ chain.wOwner[p] = u
      /\ chain' = Unwrap(chain, u, p)
  BY DEF unwrapPunk, MayUnwrap
<1>2. /\ chain' \in Storage
      /\ chain'.punkIndexToAddress[p] = u /\ chain'.wOwner[p] = None
      /\ \A q \in Punks \ {p} :
           /\ chain'.punkIndexToAddress[q] = chain.punkIndexToAddress[q]
           /\ chain'.wOwner[q] = chain.wOwner[q]
      /\ chain'.bOwner = chain.bOwner /\ chain'.minters = chain.minters
  BY <1>1, UnwrapIs
<1>3. IInv' BY <1>1, <1>2, AsideStep
<1> QED BY <1>1, <1>2, <1>3

LEMMA SendStep ==
  ASSUME IInv, NEW u \in Users, NEW to \in Addresses, NEW p \in Punks,
         sendWrapped(u, to, p)
  PROVE  /\ IInv'
         /\ \A q \in Punks : chain.wOwner[q] = Bnft => chain'.wOwner[q] = Bnft
         /\ chain'.punkIndexToAddress = chain.punkIndexToAddress
         /\ chain'.bOwner = chain.bOwner /\ chain'.minters = chain.minters
         /\ UNCHANGED loan
<1> USE AddressFacts DEF IInv, TypeOK
<1>1. /\ UNCHANGED loan /\ chain \in Storage /\ chain.wOwner[p] = u
      /\ chain' = [chain EXCEPT !.wOwner[p] = to]
  BY DEF sendWrapped
<1>2. /\ chain' \in Storage
      /\ chain'.wOwner[p] = to
      /\ \A q \in Punks \ {p} : chain'.wOwner[q] = chain.wOwner[q]
      /\ chain'.punkIndexToAddress = chain.punkIndexToAddress
      /\ chain'.bOwner = chain.bOwner /\ chain'.minters = chain.minters
  BY <1>1 DEF Storage
<1>3. chain.punkIndexToAddress[p] = Wrapper
  BY <1>1 DEF WrapsBacked
<1>4. IInv' BY <1>1, <1>2, <1>3, AsideStep
<1> QED BY <1>1, <1>2, <1>4

LEMMA DepositStep ==
  ASSUME IInv, NEW u \in Users, NEW p \in Punks, depositPunk(u, p)
  PROVE  IInv'
<1>1. TypeOK BY DEF IInv
<1> QED BY <1>1, DepositIs, BondStep, AddressFacts

LEMMA WithdrawStep ==
  ASSUME IInv, NEW u \in Users, NEW p \in Punks, withdrawPunk(u, p)
  PROVE  IInv'
<1>1. /\ TypeOK /\ loan = None /\ UNCHANGED loan /\ chain' = Withdrawn(u, p)
  BY DEF IInv, withdrawPunk, MayWithdraw, MayRelease, NotReentrant
<1> QED BY <1>1, WithdrawIs, BondStep

\* What mint and burn do, called by a user.
LEMMA MintIs ==
  ASSUME TypeOK, NEW u \in Users, NEW to \in Users, NEW p \in Punks, mint(u, to, p)
  PROVE  /\ chain' \in Storage
         /\ \A q \in Punks \ {p} : /\ chain'.wOwner[q] = chain.wOwner[q]
                                   /\ chain'.bOwner[q] = chain.bOwner[q]
                                   /\ chain'.minters[q] = chain.minters[q]
         /\ chain'.punkIndexToAddress = chain.punkIndexToAddress
         /\ chain.wOwner[p] = u /\ chain.bOwner[p] = None
         /\ chain'.wOwner[p] = Bnft /\ chain'.bOwner[p] = to /\ chain'.minters[p] = u
         /\ loan = None /\ UNCHANGED loan
<1>1. /\ loan = None /\ UNCHANGED loan /\ chain \in Storage
      /\ chain.wOwner[p] = u /\ chain.bOwner[p] = None
      /\ chain' = Bind(chain, u, to, p)
  BY DEF TypeOK, mint, MayBind, NotReentrant
<1> QED BY <1>1, BindIs, AddressFacts

LEMMA BurnIs ==
  ASSUME TypeOK, NEW u \in Users, NEW p \in Punks, burn(u, p)
  PROVE  /\ chain' \in Storage
         /\ \A q \in Punks \ {p} : /\ chain'.wOwner[q] = chain.wOwner[q]
                                   /\ chain'.bOwner[q] = chain.bOwner[q]
                                   /\ chain'.minters[q] = chain.minters[q]
         /\ chain'.punkIndexToAddress = chain.punkIndexToAddress
         /\ chain.wOwner[p] = Bnft /\ chain.bOwner[p] # None /\ chain.minters[p] = u
         /\ chain'.wOwner[p] = u /\ chain'.bOwner[p] = None /\ chain'.minters[p] = None
         /\ loan = None /\ UNCHANGED loan
<1>1. /\ loan = None /\ UNCHANGED loan /\ chain \in Storage
      /\ chain.wOwner[p] = Bnft /\ chain.bOwner[p] # None /\ chain.minters[p] = u
      /\ chain' = Release(chain, u, p)
  BY DEF TypeOK, burn, MayRelease, NotReentrant
<1> QED BY <1>1, ReleaseIs, AddressFacts

LEMMA MintStep ==
  ASSUME IInv, NEW u \in Users, NEW to \in Users, NEW p \in Punks, mint(u, to, p)
  PROVE  IInv'
<1>1. TypeOK BY DEF IInv
<1>2. chain.wOwner[p] # None => chain.punkIndexToAddress[p] = Wrapper
  BY DEF IInv, WrapsBacked
<1> QED BY <1>1, <1>2, MintIs, BondStep, AddressFacts

LEMMA BurnStep ==
  ASSUME IInv, NEW u \in Users, NEW p \in Punks, burn(u, p)
  PROVE  IInv'
<1>1. TypeOK BY DEF IInv
<1>2. chain.wOwner[p] # None => chain.punkIndexToAddress[p] = Wrapper
  BY DEF IInv, WrapsBacked
<1> QED BY <1>1, <1>2, BurnIs, BondStep, AddressFacts

\* A loan opens with the state to come back to, and closes on it or with what
\* was lent back in custody.
LEMMA FlashLoanIs ==
  ASSUME TypeOK, NEW r \in Contracts, NEW ts \in SUBSET Punks, flashLoan(r, ts)
  PROVE  /\ chain' \in Storage
         /\ chain'.punkIndexToAddress = chain.punkIndexToAddress
         /\ \A q \in Punks : chain'.wOwner[q] = IF q \in ts THEN r ELSE chain.wOwner[q]
         /\ chain'.bOwner = chain.bOwner /\ chain'.minters = chain.minters
         /\ loan' \in Loan /\ loan'.tokens = ts /\ loan'.saved = chain
         /\ loan = None /\ loan' # None
         /\ \A q \in ts : chain.bOwner[q] # None /\ chain.wOwner[q] = Bnft
<1>1. /\ chain \in Storage /\ r \in Addresses /\ chain' = Lent(ts, r)
      /\ loan' = [tokens |-> ts, receiver |-> r, saved |-> chain]
      /\ loan = None
      /\ \A q \in ts : chain.bOwner[q] # None /\ chain.wOwner[q] = Bnft
  BY AddressFacts DEF TypeOK, flashLoan, NotReentrant
<1>2. loan' \in Loan BY <1>1 DEF Loan
<1> QED BY <1>1, <1>2, LentIs, NoneIsNoLoan

LEMMA SettleIs ==
  ASSUME TypeOK, settleLoan
  PROVE  /\ chain' \in Storage
         /\ chain'.punkIndexToAddress = chain.punkIndexToAddress
         /\ \A q \in Punks : chain'.wOwner[q] =
                IF q \in loan.tokens THEN Bnft ELSE chain.wOwner[q]
         /\ chain'.bOwner = chain.bOwner /\ chain'.minters = chain.minters
         /\ \A q \in loan.tokens : chain.wOwner[q] \in Contracts
         /\ loan \in Loan /\ loan # None /\ loan' = None
<1>1. /\ chain \in Storage /\ loan \in Loan /\ loan # None /\ loan' = None
      /\ \A q \in loan.tokens : chain.wOwner[q] = loan.receiver
      /\ chain' = Lent(loan.tokens, Bnft)
  BY DEF TypeOK, settleLoan
<1>2. loan.tokens \in SUBSET Punks /\ loan.receiver \in Contracts
  BY <1>1 DEF Loan
<1> QED BY <1>1, <1>2, LentIs, AddressFacts

LEMMA FlashLoanStep ==
  ASSUME IInv, NEW r \in Contracts, NEW ts \in SUBSET Punks, flashLoan(r, ts)
  PROVE  IInv'
<1>1. TypeOK BY DEF IInv
<1>2. TypeOK' BY <1>1, FlashLoanIs DEF TypeOK
<1>3. WrapsBacked' BY <1>1, FlashLoanIs, AddressFacts DEF IInv, WrapsBacked
<1>4. BondsBacked' BY <1>1, FlashLoanIs DEF IInv, BondsBacked, OnLoan
<1>5. LoanOK'
  BY <1>1, FlashLoanIs DEF IInv, LoanOK, BondsBacked, OnLoan, WrapsBacked
<1> QED BY <1>2, <1>3, <1>4, <1>5 DEF IInv

LEMMA SettleStep ==
  ASSUME IInv, settleLoan
  PROVE  IInv'
<1>1. TypeOK BY DEF IInv
<1>2. TypeOK' BY <1>1, SettleIs DEF TypeOK
<1>3. WrapsBacked'
  BY <1>1, SettleIs, AddressFacts DEF IInv, WrapsBacked
<1>4. BondsBacked' BY <1>1, SettleIs DEF IInv, BondsBacked, OnLoan
<1>5. LoanOK' BY <1>1, SettleIs DEF LoanOK
<1> QED BY <1>2, <1>3, <1>4, <1>5 DEF IInv

LEMMA RevertStep ==
  ASSUME IInv, revertLoan
  PROVE  IInv'
<1>1. /\ loan # None /\ loan \in Loan /\ chain' = loan.saved /\ loan' = None
  BY DEF IInv, TypeOK, revertLoan
<1>2. TypeOK' BY <1>1 DEF TypeOK, Loan
<1>3. WrapsBacked' BY <1>1 DEF IInv, WrapsBacked, LoanOK
<1>4. BondsBacked' BY <1>1 DEF IInv, BondsBacked, OnLoan, LoanOK
<1>5. LoanOK' BY <1>1 DEF LoanOK
<1> QED BY <1>2, <1>3, <1>4, <1>5 DEF IInv

LEMMA NextInv == IInv /\ [Next]_vars => IInv'
<1> SUFFICES ASSUME IInv, [Next]_vars PROVE IInv'
  OBVIOUS
<1>1. CASE Gate
  BY <1>1, DepositStep, WithdrawStep DEF Gate
<1>2. CASE Use
  <2> PICK u \in Users, p \in Punks :
        \/ Trade(u, p) \/ wrapPunk(u, p) \/ unwrapPunk(u, p) \/ burn(u, p)
        \/ \E to \in Addresses : sendWrapped(u, to, p)
        \/ \E to \in Users : mint(u, to, p)
    BY <1>2 DEF Use
  <2> QED BY TradeStep, WrapStep, UnwrapStep, BurnStep, SendStep, MintStep
<1>3. CASE Lend
  BY <1>3, FlashLoanStep, SettleStep, RevertStep DEF Lend
<1>4. CASE UNCHANGED vars
  BY <1>4 DEF vars, IInv, TypeOK, WrapsBacked, BondsBacked, OnLoan, LoanOK
<1> QED BY <1>1, <1>2, <1>3, <1>4 DEF Next

-----------------------------------------------------------------------------
\* IInv holds in every state, and with it its parts: the types, and the
\* backing of wrapped punks by punks and of bNFTs by wrapped punks.
THEOREM Inductive == Spec => []IInv
BY InitInv, NextInv, PTL DEF Spec

THEOREM TypeCorrect == Spec => []TypeOK
<1>1. IInv => TypeOK BY DEF IInv
<1> QED BY <1>1, Inductive, PTL

THEOREM PunksBacked == Spec => [](WrapsBacked /\ BondsBacked)
<1>1. IInv => WrapsBacked /\ BondsBacked BY DEF IInv
<1> QED BY <1>1, Inductive, PTL

\* withdrawPunk never gets stuck half way: with no loan open, the owner of a
\* gateway's bNFT can always make the whole call.
THEOREM Withdrawable == Spec => []WithdrawNeverFails
<1>1. ASSUME IInv PROVE WithdrawNeverFails
  <2> SUFFICES ASSUME loan = None, NEW p \in Punks, chain.minters[p] = Gateway
               PROVE  MayWithdraw(chain.bOwner[p], p)
    BY DEF WithdrawNeverFails
  <2> DEFINE u == chain.bOwner[p]
  <2>1. /\ TypeOK /\ chain \in Storage BY <1>1 DEF IInv, TypeOK
  <2>2. u # None /\ chain.wOwner[p] = Bnft
    BY <1>1, AddressFacts, AddressesDistinct DEF IInv, BondsBacked, OnLoan
  <2>3. u \in Users BY <2>1, <2>2 DEF Storage
  <2>4. chain.punkIndexToAddress[p] = Wrapper
    BY <1>1, <2>2, AddressFacts DEF IInv, WrapsBacked
  <2>5. MayRelease(chain, Gateway, p) BY <2>2 DEF MayRelease, NotReentrant
  <2>6. /\ Unbound(p).wOwner[p] = Gateway
        /\ Unbound(p).punkIndexToAddress[p] = Wrapper
        /\ Unwrapped(p).punkIndexToAddress[p] = Gateway
        /\ Withdrawn(u, p).punkIndexToAddress[p] = u
    BY <2>1, <2>3, <2>4, WithdrawIs
  <2> QED BY <2>5, <2>6 DEF MayWithdraw, MayUnwrap, MayTransferPunk
<1> QED BY <1>1, Inductive, PTL

-----------------------------------------------------------------------------
\* The step a bNFT of the gateway ends in hands its owner the punk.
THEOREM PunksComeBack == Spec => PunkComesBack
<1> DEFINE A == \A p \in Punks :
                  chain.minters[p] = Gateway /\ chain'.minters[p] # Gateway =>
                    chain'.punkIndexToAddress[p] = chain.bOwner[p]
<1>1. ASSUME IInv, Next PROVE A
  <2>1. TypeOK BY <1>1 DEF IInv
  <2>2. ASSUME NEW u \in Users, NEW q \in Punks, depositPunk(u, q) PROVE A
    BY <2>1, <2>2, DepositIs
  <2>3. ASSUME NEW u \in Users, NEW q \in Punks, withdrawPunk(u, q) PROVE A
    <3>1. chain' = Withdrawn(u, q) /\ chain.bOwner[q] = u
      BY <2>3 DEF withdrawPunk, MayWithdraw
    <3> QED BY <2>1, <3>1, WithdrawIs
  <2>4. ASSUME NEW u \in Users, NEW q \in Punks, Trade(u, q) PROVE A
    BY <1>1, <2>4, TradeStep
  <2>5. ASSUME NEW u \in Users, NEW q \in Punks, wrapPunk(u, q) PROVE A
    BY <1>1, <2>5, WrapStep
  <2>6. ASSUME NEW u \in Users, NEW q \in Punks, unwrapPunk(u, q) PROVE A
    BY <1>1, <2>6, UnwrapStep
  <2>7. ASSUME NEW u \in Users, NEW q \in Punks, burn(u, q) PROVE A
    BY <2>1, <2>7, BurnIs, AddressFacts
  <2>8. ASSUME NEW u \in Users, NEW q \in Punks, NEW to \in Addresses,
               sendWrapped(u, to, q)
        PROVE  A
    BY <1>1, <2>8, SendStep
  <2>9. ASSUME NEW u \in Users, NEW q \in Punks, NEW to \in Users, mint(u, to, q)
        PROVE  A
    <3>1. chain.bOwner[q] = None /\ BondsBacked
      BY <1>1, <2>1, <2>9, MintIs DEF IInv
    <3>2. chain.minters[q] # Gateway
      BY <3>1, AddressFacts DEF BondsBacked
    <3> QED BY <2>1, <2>9, <3>2, MintIs
  <2>10. ASSUME NEW r \in Contracts, NEW ts \in SUBSET Punks, flashLoan(r, ts)
         PROVE  A
    BY <2>1, <2>10, FlashLoanIs
  <2>11. CASE settleLoan BY <2>1, <2>11, SettleIs
  <2>12. CASE revertLoan
    BY <1>1, <2>12 DEF revertLoan, IInv, LoanOK
  <2> HIDE DEF A
  <2>13. CASE Gate BY <2>13, <2>2, <2>3 DEF Gate
  <2>14. CASE Use BY <2>14, <2>4, <2>5, <2>6, <2>7, <2>8, <2>9 DEF Use
  <2>15. CASE Lend BY <2>15, <2>10, <2>11, <2>12 DEF Lend
  <2> QED BY <1>1, <2>13, <2>14, <2>15 DEF Next
<1>2. IInv /\ [Next]_vars => [A]_vars
  BY <1>1
<1> QED BY <1>2, Inductive, PTL DEF Spec, PunkComesBack

\* No step but the undoing of a loan moves a punk or wrapped punk the gateway
\* was sent outside a deposit.
THEOREM StrandedForGood == Spec => StrandedStays
<1> DEFINE A == revertLoan \/
                \A p \in Punks : Stranded(chain, p) => Stranded(chain', p)
<1>1. ASSUME IInv, Next PROVE A
  <2>1. TypeOK BY <1>1 DEF IInv
  <2> SUFFICES ASSUME ~revertLoan, NEW p \in Punks, Stranded(chain, p)
               PROVE  Stranded(chain', p)
    OBVIOUS
  <2> USE AddressFacts
  <2>2. ASSUME NEW u \in Users, NEW q \in Punks, depositPunk(u, q)
        PROVE  Stranded(chain', p)
    <3>1. chain.punkIndexToAddress[q] = u /\ chain.wOwner[q] = None
      BY <2>1, <2>2, DepositIs DEF depositPunk
    <3>2. p # q BY <3>1 DEF Stranded, Users, Callers
    <3> QED BY <2>1, <2>2, <3>2, DepositIs DEF Stranded
  <2>3. ASSUME NEW u \in Users, NEW q \in Punks, withdrawPunk(u, q)
        PROVE  Stranded(chain', p)
    <3>1. /\ chain' = Withdrawn(u, q) /\ chain.wOwner[q] = Bnft
          /\ chain.punkIndexToAddress[q] = Wrapper
      BY <1>1, <2>3 DEF withdrawPunk, MayWithdraw, MayRelease, IInv, WrapsBacked
    <3>2. p # q BY <3>1 DEF Stranded
    <3> QED BY <2>1, <3>1, <3>2, WithdrawIs DEF Stranded
  <2>4. ASSUME NEW u \in Users, NEW q \in Punks, Trade(u, q)
        PROVE  Stranded(chain', p)
    <3>1. \/ chain.punkIndexToAddress[q] \in Users /\ q # p
          \/ chain'.punkIndexToAddress = chain.punkIndexToAddress
          \/ chain.wOwner[p] = Gateway
      BY <1>1, <2>4, TradeStep DEF Stranded
    <3> QED BY <1>1, <2>4, <3>1, TradeStep DEF Stranded
  <2>5. ASSUME NEW u \in Users, NEW q \in Punks, wrapPunk(u, q)
        PROVE  Stranded(chain', p)
    <3>1. /\ chain' = Wrap(chain, u, q) /\ chain \in Storage
          /\ chain.punkIndexToAddress[q] = Proxy[u] /\ chain.wOwner[q] = None
      BY <2>1, <2>5 DEF wrapPunk, MayWrap, MayTransferPunk, TypeOK
    <3>2. p # q BY <3>1 DEF Stranded
    <3> QED BY <3>1, <3>2, WrapIs DEF Stranded
  <2>6. ASSUME NEW u \in Users, NEW q \in Punks, unwrapPunk(u, q)
        PROVE  Stranded(chain', p)
    <3>1. /\ chain' = Unwrap(chain, u, q) /\ chain \in Storage
          /\ chain.punkIndexToAddress[q] = Wrapper /\ chain.wOwner[q] = u
      BY <2>1, <2>6 DEF unwrapPunk, MayUnwrap, MayTransferPunk, TypeOK
    <3>2. p # q BY <3>1 DEF Stranded
    <3> QED BY <3>1, <3>2, UnwrapIs DEF Stranded
  <2>7. ASSUME NEW u \in Users, NEW q \in Punks, burn(u, q)
        PROVE  Stranded(chain', p)
    BY <2>1, <2>7, BurnIs DEF Stranded
  <2>8. ASSUME NEW u \in Users, NEW q \in Punks, NEW to \in Addresses,
               sendWrapped(u, to, q)
        PROVE  Stranded(chain', p)
    BY <2>1, <2>8 DEF sendWrapped, Stranded, TypeOK, Storage
  <2>9. ASSUME NEW u \in Users, NEW q \in Punks, NEW to \in Users, mint(u, to, q)
        PROVE  Stranded(chain', p)
    BY <2>1, <2>9, MintIs DEF Stranded
  <2>10. ASSUME NEW r \in Contracts, NEW ts \in SUBSET Punks, flashLoan(r, ts)
         PROVE  Stranded(chain', p)
    BY <2>1, <2>10, FlashLoanIs DEF Stranded
  <2>11. CASE settleLoan
    <3>1. \A q \in loan.tokens : chain.wOwner[q] # Gateway
      BY <2>1, <2>11, SettleIs, AddressesDistinct DEF Users
    <3>2. p \in loan.tokens => chain.punkIndexToAddress[p] \in {Gateway, Proxy[Gateway]}
      BY <3>1 DEF Stranded
    <3> QED BY <2>1, <2>11, <3>2, SettleIs DEF Stranded
  <2> HIDE DEF A
  <2>12. CASE Gate BY <2>12, <2>2, <2>3 DEF Gate
  <2>13. CASE Use BY <2>13, <2>4, <2>5, <2>6, <2>7, <2>8, <2>9 DEF Use
  <2>14. CASE Lend BY <2>14, <2>10, <2>11 DEF Lend
  <2> QED BY <1>1, <2>12, <2>13, <2>14 DEF Next
<1>2. IInv /\ [Next]_vars => [A]_vars
  BY <1>1
<1> QED BY <1>2, Inductive, PTL DEF Spec, StrandedStays

-----------------------------------------------------------------------------
\* Refinement of Vault.  Custody and bonds are those of the state a revert
\* would return to, so a loan is invisible until it is settled.
Cust == {p \in Punks : Committed.wOwner[p] = Bnft}
Bond == [p \in Punks |-> <<Committed.minters[p], Committed.bOwner[p]>>]

\* Bonds that stay and custody that grows are a Receive.
LEMMA ReceiveStep ==
  ASSUME Cust \subseteq Cust', UNCHANGED Bond
  PROVE  V!Next
<1>1. Cust' = Cust \cup Cust' /\ Cust' \in SUBSET Punks
  BY DEF Cust
<1> QED BY <1>1 DEF V!Next, V!Receive, Cust, Bond

LEMMA LentOut ==
  ASSUME IInv, loan # None, UNCHANGED loan
  PROVE  UNCHANGED <<Cust, Bond>>
BY DEF Cust, Bond, Committed

\* A step outside loans that leaves the bNFTs alone and takes no wrapped punk
\* from the bNFT contract.
LEMMA AsideRefines ==
  ASSUME UNCHANGED loan,
         \A q \in Punks : chain.wOwner[q] = Bnft => chain'.wOwner[q] = Bnft,
         chain'.bOwner = chain.bOwner, chain'.minters = chain.minters
  PROVE  [V!Next]_<<Cust, Bond>>
<1>1. CASE loan # None
  BY <1>1 DEF Cust, Bond, Committed
<1>2. CASE loan = None
  <2>1. Cust \subseteq Cust' /\ UNCHANGED Bond
    BY <1>2 DEF Cust, Bond, Committed
  <2> QED BY <2>1, ReceiveStep
<1> QED BY <1>1, <1>2

LEMMA DepositRefines ==
  ASSUME loan = None, UNCHANGED loan, NEW p \in Punks,
         NEW m \in Callers, NEW o \in Users,
         \A q \in Punks \ {p} : /\ chain'.wOwner[q] = chain.wOwner[q]
                               /\ chain'.bOwner[q] = chain.bOwner[q]
                               /\ chain'.minters[q] = chain.minters[q],
         chain.wOwner[p] # Bnft,
         chain.bOwner[p] = None, chain.minters[p] = None,
         chain'.wOwner[p] = Bnft, chain'.bOwner[p] = o, chain'.minters[p] = m
  PROVE  V!Next
<1>1. Bond[p] = V!NoBond /\ p \notin Cust
  BY DEF Bond, Cust, Committed, V!NoBond
<1>2. Bond' = [Bond EXCEPT ![p] = <<m, o>>]
  BY DEF Bond, Committed
<1>3. Cust' = Cust \cup {p}
  BY DEF Cust, Committed
<1>4. V!Deposit(p, m, o)
  BY <1>1, <1>2, <1>3 DEF V!Deposit, Cust, Bond
<1> QED BY <1>4 DEF V!Next

LEMMA WithdrawRefines ==
  ASSUME loan = None, UNCHANGED loan, NEW p \in Punks,
         \A q \in Punks \ {p} : /\ chain'.wOwner[q] = chain.wOwner[q]
                               /\ chain'.bOwner[q] = chain.bOwner[q]
                               /\ chain'.minters[q] = chain.minters[q],
         chain.bOwner[p] # None, chain'.wOwner[p] # Bnft,
         chain'.bOwner[p] = None, chain'.minters[p] = None
  PROVE  V!Next
<1>1. Bond[p] # V!NoBond
  BY DEF Bond, Committed, V!NoBond
<1>2. Bond' = [Bond EXCEPT ![p] = V!NoBond]
  BY DEF Bond, Committed, V!NoBond
<1>3. Cust' = (Cust \ {p}) \cup {} /\ {} \in SUBSET Punks
  BY DEF Cust, Committed
<1> QED BY <1>1, <1>2, <1>3 DEF V!Next, V!Withdraw, Cust, Bond

LEMMA GateRefines == ASSUME IInv, Gate PROVE V!Next
<1>1. TypeOK /\ BondsBacked BY DEF IInv
<1>2. ASSUME NEW u \in Users, NEW p \in Punks, depositPunk(u, p) PROVE V!Next
  <2>1. /\ \A q \in Punks \ {p} : /\ chain'.wOwner[q] = chain.wOwner[q]
                                  /\ chain'.bOwner[q] = chain.bOwner[q]
                                  /\ chain'.minters[q] = chain.minters[q]
        /\ chain.wOwner[p] # Bnft
        /\ chain.bOwner[p] = None /\ chain.minters[p] = None
        /\ chain'.wOwner[p] = Bnft /\ chain'.bOwner[p] = u
        /\ chain'.minters[p] = Gateway
        /\ loan = None /\ UNCHANGED loan
    BY <1>1, <1>2, DepositIs, AddressFacts DEF BondsBacked
  <2> QED BY <2>1, DepositRefines, AddressFacts
<1>3. ASSUME NEW u \in Users, NEW p \in Punks, withdrawPunk(u, p) PROVE V!Next
  <2>1. /\ loan = None /\ UNCHANGED loan /\ chain' = Withdrawn(u, p)
        /\ chain.bOwner[p] # None
    BY <1>3 DEF withdrawPunk, MayWithdraw, MayRelease, NotReentrant
  <2>2. /\ \A q \in Punks \ {p} : /\ chain'.wOwner[q] = chain.wOwner[q]
                                  /\ chain'.bOwner[q] = chain.bOwner[q]
                                  /\ chain'.minters[q] = chain.minters[q]
        /\ chain'.wOwner[p] # Bnft
        /\ chain'.bOwner[p] = None /\ chain'.minters[p] = None
    BY <1>1, <2>1, WithdrawIs, AddressFacts
  <2> QED BY <2>1, <2>2, WithdrawRefines
<1> QED BY <1>2, <1>3 DEF Gate

LEMMA UseRefines == ASSUME IInv, Use PROVE [V!Next]_<<Cust, Bond>>
<1>1. TypeOK /\ BondsBacked BY DEF IInv
<1>2. ASSUME NEW u \in Users, NEW p \in Punks, Trade(u, p)
      PROVE  [V!Next]_<<Cust, Bond>>
  BY <1>2, TradeStep, AsideRefines
<1>3. ASSUME NEW u \in Users, NEW p \in Punks, wrapPunk(u, p)
      PROVE  [V!Next]_<<Cust, Bond>>
  BY <1>3, WrapStep, AsideRefines
<1>4. ASSUME NEW u \in Users, NEW p \in Punks, unwrapPunk(u, p)
      PROVE  [V!Next]_<<Cust, Bond>>
  BY <1>4, UnwrapStep, AsideRefines
<1>5. ASSUME NEW u \in Users, NEW p \in Punks, NEW to \in Addresses,
             sendWrapped(u, to, p)
      PROVE  [V!Next]_<<Cust, Bond>>
  BY <1>5, SendStep, AsideRefines
<1>6. ASSUME NEW u \in Users, NEW p \in Punks, burn(u, p) PROVE V!Next
  BY <1>1, <1>6, BurnIs, WithdrawRefines, AddressFacts
<1>7. ASSUME NEW u \in Users, NEW p \in Punks, NEW to \in Users, mint(u, to, p)
      PROVE  V!Next
  BY <1>1, <1>7, MintIs, DepositRefines, AddressFacts DEF BondsBacked
<1> QED BY <1>2, <1>3, <1>4, <1>5, <1>6, <1>7 DEF Use

LEMMA LendRefines == ASSUME IInv, Lend PROVE [V!Next]_<<Cust, Bond>>
<1>1. TypeOK BY DEF IInv
<1>2. ASSUME NEW r \in Contracts, NEW ts \in SUBSET Punks, flashLoan(r, ts)
      PROVE  UNCHANGED <<Cust, Bond>>
  <2>1. Committed' = Committed
    BY <1>1, <1>2, FlashLoanIs DEF Committed
  <2> QED BY <2>1 DEF Cust, Bond
<1>3. CASE settleLoan
  <2>1. /\ Committed = loan.saved /\ Committed' = chain'
        /\ chain'.bOwner = loan.saved.bOwner /\ chain'.minters = loan.saved.minters
    BY <1>1, <1>3, SettleIs DEF Committed, IInv, LoanOK
  <2>2. \A q \in Punks : loan.saved.wOwner[q] = Bnft => chain'.wOwner[q] = Bnft
    BY <1>1, <1>3, SettleIs DEF IInv, LoanOK
  <2>3. Cust \subseteq Cust' /\ UNCHANGED Bond
    BY <2>1, <2>2 DEF Cust, Bond
  <2> QED BY <2>3, ReceiveStep
<1>4. CASE revertLoan
  <2>1. Committed' = Committed
    BY <1>4 DEF Committed, revertLoan
  <2> QED BY <2>1 DEF Cust, Bond
<1> QED BY <1>2, <1>3, <1>4 DEF Lend

\* For the bNFT contract, whatever the gateway and its users do is deposits
\* into a vault and withdrawals from it.
THEOREM Refinement == Spec => ImplementsVault
<1>1. Init => V!Init
  <2> SUFFICES ASSUME Init PROVE V!Init
    OBVIOUS
  <2>1. /\ Committed = chain
        /\ \A p \in Punks : /\ chain.wOwner[p] = None /\ chain.bOwner[p] = None
                            /\ chain.minters[p] = None
    BY DEF Init, Committed
  <2> QED BY <2>1, AddressFacts DEF V!Init, V!NoBond
<1>2. IInv /\ [Next]_vars => [V!Next]_<<Cust, Bond>>
  <2> SUFFICES ASSUME IInv, [Next]_vars PROVE [V!Next]_<<Cust, Bond>>
    OBVIOUS
  <2>1. CASE Next
    BY <2>1, GateRefines, UseRefines, LendRefines DEF Next
  <2>2. CASE UNCHANGED vars
    BY <2>2 DEF vars, Cust, Bond, Committed
  <2> QED BY <2>1, <2>2
<1> QED BY Inductive, <1>1, <1>2, PTL DEF Spec, ImplementsVault, V!Spec, Cust, Bond
=============================================================================
