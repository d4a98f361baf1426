-------------------------- MODULE BoundPunkGateway --------------------------
(***************************************************************************)
(* contracts/misc/BoundPunkGateway.sol between the three contracts it      *)
(* drives: the CryptoPunks market, which knows no ERC721, the wrapper that *)
(* makes an ERC721 of a punk, and the bNFT contract of the wrapped punks.  *)
(*                                                                         *)
(* A function of one of these contracts is a condition, May..., and its    *)
(* effect on `chain'; the gateway's functions chain them, each call seeing *)
(* what the one before it left.  No foreign code runs inside them.  It does *)
(* inside a flash loan of wrapped punks, which is open while `loan' says   *)
(* so, and may call anything.  The bNFT contract is BNFT.sol as Vault and  *)
(* its loans describe it; BNFT models it in full.                          *)
(***************************************************************************)
EXTENDS Naturals, Functions

CONSTANTS
  Punks,
  EOAs, Contracts,  \* users without and with code
  Gateway, Wrapper, Bnft,
  Proxy,            \* proxyInfo: the user proxy of each caller of the wrapper
  Prices,           \* bound: prices a punk may be offered at
  Anyone, None

Users     == EOAs \cup Contracts
Callers   == Users \cup {Gateway}
Addresses == Callers \cup {Wrapper, Bnft} \cup Range(Proxy)

ASSUME AddressesDistinct ==
  /\ EOAs \cap Contracts = {}
  /\ Gateway \notin Users /\ Wrapper \notin Callers
  /\ Bnft \notin Callers \cup {Wrapper}
  /\ Proxy \in [Callers -> Range(Proxy)] /\ IsInjective(Proxy)
  /\ Range(Proxy) \cap (Callers \cup {Wrapper, Bnft}) = {}
  /\ None \notin Addresses /\ Anyone \notin Addresses
ASSUME PricesTyped == Prices \subseteq Nat

VARIABLES
  chain,  \* the storage of the three contracts
  loan    \* the flash loan that is open, or None

vars == <<chain, loan>>

Offer == [seller : Users, onlySellTo : Users \cup {Gateway, Anyone},
          minValue : Prices]

Storage ==
  [punkIndexToAddress : [Punks -> Addresses],
   punksOfferedForSale : [Punks -> Offer \cup {None}],
   wOwner : [Punks -> Addresses \cup {None}],  \* ERC721 owner of the wrapped punk
   bOwner : [Punks -> Users \cup {None}],      \* ERC721 owner of its bNFT
   minters : [Punks -> Callers \cup {None}]]

Loan == [tokens : SUBSET Punks, receiver : Contracts, saved : Storage]

ASSUME NoneIsNoLoan == None \notin Loan

\* Both variables have their types.
TypeOK == chain \in Storage /\ loan \in Loan \cup {None}

\* The gateway has been initialized: it has its user proxy, and the bNFT
\* contract may move its wrapped punks.
Init ==
  /\ \E o \in [Punks -> Users] :
       chain = [punkIndexToAddress |-> o,
                punksOfferedForSale |-> [p \in Punks |-> None],
                wOwner |-> [p \in Punks |-> None],
                bOwner |-> [p \in Punks |-> None],
                minters |-> [p \in Punks |-> None]]
  /\ loan = None

-----------------------------------------------------------------------------
\* Definitions marked "faulty" are no part of the model: each is a slip the
\* next definition guards against, kept to show that a property notices it.

\* The market.  Bids and money are left out: a bid that is accepted moves the
\* punk like a transfer by its owner.  An address nobody can move a punk from,
\* zero among them, is to the gateway what Bnft is.
MayTransferPunk(s, u, p) == s.punkIndexToAddress[p] = u

TransferPunk(s, to, p) == [s EXCEPT !.punkIndexToAddress[p] = to,
                                    !.punksOfferedForSale[p] = None]

OfferPunk(s, p, o) == [s EXCEPT !.punksOfferedForSale[p] = o]

MayBuyPunk(s, u, p, value) ==
  LET o == s.punksOfferedForSale[p] IN
    /\ o # None
    /\ o.onlySellTo \in {Anyone, u}
    /\ o.minValue <= value
    /\ o.seller = s.punkIndexToAddress[p]

BuyPunk(s, u, p) == TransferPunk(s, u, p)

\* The wrapper.  mint has the caller's proxy hand the punk over.

\* Faulty: whether the proxy could is not asked.
MayWrapAnyway(s, u, p) == s.wOwner[p] = None

MayWrap(s, u, p) == MayTransferPunk(s, Proxy[u], p) /\ s.wOwner[p] = None

Wrap(s, u, p) == [TransferPunk(s, Wrapper, p) EXCEPT !.wOwner[p] = u]

MayUnwrap(s, u, p) == s.wOwner[p] = u /\ MayTransferPunk(s, Wrapper, p)

\* Faulty: the wrapped punk is not burned.
UnwrapUnburned(s, u, p) == TransferPunk(s, u, p)

\* Faulty: the wrapper keeps the punk.
UnwrapKeeping(s, u, p) == [s EXCEPT !.wOwner[p] = None]

Unwrap(s, u, p) == [TransferPunk(s, u, p) EXCEPT !.wOwner[p] = None]

\* The bNFT contract and its guard.

NotReentrant == loan = None

MayBind(s, u, to, p) ==
  /\ NotReentrant
  /\ u \in EOAs => to = u
  /\ s.bOwner[p] = None
  /\ s.wOwner[p] = u

Bind(s, u, to, p) ==
  [s EXCEPT !.bOwner[p] = to, !.minters[p] = u, !.wOwner[p] = Bnft]

\* Faulty: the owner of the bNFT may burn it.
OwnerMayRelease(s, u, p) ==
  NotReentrant /\ s.bOwner[p] = u /\ s.wOwner[p] = Bnft

MayRelease(s, u, p) ==
  /\ NotReentrant
  /\ s.bOwner[p] # None /\ s.minters[p] = u
  /\ s.wOwner[p] = Bnft

\* Faulty: burn forgets to delete the minter.
ReleaseKeepingMinter(s, u, p) == [s EXCEPT !.bOwner[p] = None, !.wOwner[p] = u]

Release(s, u, p) ==
  [s EXCEPT !.bOwner[p] = None, !.minters[p] = None, !.wOwner[p] = u]

-----------------------------------------------------------------------------
\* The gateway.

\* An account without code calls in only as the sender of the transaction.
MayCall(u) == u \in EOAs => loan = None

depositPunk(u, p) ==
  LET bought  == BuyPunk(chain, Gateway, p)
      moved   == TransferPunk(bought, Proxy[Gateway], p)
      wrapped == Wrap(moved, Gateway, p)
  IN /\ MayCall(u)
     /\ chain.punkIndexToAddress[p] = u
     /\ MayBuyPunk(chain, Gateway, p, 0)
     /\ MayTransferPunk(bought, Gateway, p)
     /\ MayWrap(moved, Gateway, p)
     /\ MayBind(wrapped, Gateway, u, p)
     /\ chain' = Bind(wrapped, Gateway, u, p)
     /\ chain'.bOwner[p] = u
     /\ UNCHANGED loan

\* The steps of withdrawPunk.
Unbound(p)      == Release(chain, Gateway, p)
Unwrapped(p)    == Unwrap(Unbound(p), Gateway, p)
Withdrawn(u, p) == TransferPunk(Unwrapped(p), u, p)

\* Faulty: the caller need not own the bNFT.
AnybodyMayWithdraw(u, p) == MayRelease(chain, Gateway, p)

MayWithdraw(u, p) ==
  /\ chain.bOwner[p] = u
  /\ MayRelease(chain, Gateway, p)
  /\ MayUnwrap(Unbound(p), Gateway, p)
  /\ MayTransferPunk(Unwrapped(p), Gateway, p)
  /\ Withdrawn(u, p).punkIndexToAddress[p] = u

withdrawPunk(u, p) ==
  /\ MayCall(u)
  /\ MayWithdraw(u, p)
  /\ chain' = Withdrawn(u, p)
  /\ UNCHANGED loan

-----------------------------------------------------------------------------
\* What its users do with the three contracts themselves.

Trade(u, p) ==
  /\ MayCall(u)
  /\ \/ /\ MayTransferPunk(chain, u, p)
        /\ \/ \E to \in Addresses : chain' = TransferPunk(chain, to, p)
           \/ \E to \in Users \cup {Gateway, Anyone}, v \in Prices :
                chain' = OfferPunk(chain, p, [seller |-> u, onlySellTo |-> to,
                                              minValue |-> v])
           \/ chain' = OfferPunk(chain, p, None)
     \/ \E v \in Prices : MayBuyPunk(chain, u, p, v) /\ chain' = BuyPunk(chain, u, p)
  /\ UNCHANGED loan

wrapPunk(u, p) ==
  /\ MayCall(u) /\ MayWrap(chain, u, p)
  /\ chain' = Wrap(chain, u, p)
  /\ UNCHANGED loan

unwrapPunk(u, p) ==
  /\ MayCall(u) /\ MayUnwrap(chain, u, p)
  /\ chain' = Unwrap(chain, u, p)
  /\ UNCHANGED loan

sendWrapped(u, to, p) ==
  /\ MayCall(u) /\ chain.wOwner[p] = u
  /\ chain' = [chain EXCEPT !.wOwner[p] = to]
  /\ UNCHANGED loan

mint(u, to, p) ==
  /\ MayCall(u) /\ MayBind(chain, u, to, p)
  /\ chain' = Bind(chain, u, to, p)
  /\ UNCHANGED loan

burn(u, p) ==
  /\ MayCall(u) /\ MayRelease(chain, u, p)
  /\ chain' = Release(chain, u, p)
  /\ UNCHANGED loan

Lent(ts, to) == [chain EXCEPT !.wOwner =
                   [p \in Punks |-> IF p \in ts THEN to ELSE chain.wOwner[p]]]

\* Whoever may borrow, see BNFT.  What the receiver does between the transfers
\* it does as well after the last.
flashLoan(receiver, ts) ==
  /\ NotReentrant
  /\ \A p \in ts : chain.bOwner[p] # None /\ chain.wOwner[p] = Bnft
  /\ chain' = Lent(ts, receiver)
  /\ loan' = [tokens |-> ts, receiver |-> receiver, saved |-> chain]

settleLoan ==
  /\ loan # None
  /\ \A p \in loan.tokens : chain.wOwner[p] = loan.receiver
  /\ chain' = Lent(loan.tokens, Bnft)
  /\ loan' = None

revertLoan ==
  /\ loan # None
  /\ chain' = loan.saved
  /\ loan' = None

-----------------------------------------------------------------------------
Gate == \E u \in Users, p \in Punks : depositPunk(u, p) \/ withdrawPunk(u, p)
Use  == \E u \in Users, p \in Punks :
          \/ Trade(u, p) \/ wrapPunk(u, p) \/ unwrapPunk(u, p) \/ burn(u, p)
          \/ \E to \in Addresses : sendWrapped(u, to, p)
          \/ \E to \in Users : mint(u, to, p)
Lend == \/ \E r \in Contracts, ts \in (SUBSET Punks) \ {{}} : flashLoan(r, ts)
        \/ settleLoan \/ revertLoan

Next == Gate \/ Use \/ Lend

Spec == Init /\ [][Next]_vars

-----------------------------------------------------------------------------
\* Properties.

\* Behind every wrapped punk, wherever it is, the wrapper holds the punk; also
\* while a borrower unwraps and wraps it again inside a loan.
WrapsBacked ==
  \A p \in Punks : chain.wOwner[p] # None => chain.punkIndexToAddress[p] = Wrapper

\* Behind every bNFT the bNFT contract holds the wrapped punk, if it is not out
\* on the loan that is open.
OnLoan == IF loan = None THEN {} ELSE loan.tokens
BondsBacked ==
  \A p \in Punks :
    /\ chain.bOwner[p] = None <=> chain.minters[p] = None
    /\ chain.bOwner[p] # None => chain.wOwner[p] = Bnft \/ p \in OnLoan

\* Whatever has been traded, lent, unwrapped and sent astray in between, the
\* owner of a bNFT made by depositPunk can withdraw his punk in one call, each
\* of whose four calls to other contracts goes through.
WithdrawNeverFails ==
  loan = None => \A p \in Punks :
    chain.minters[p] = Gateway => MayWithdraw(chain.bOwner[p], p)

\* The inductive invariant behind them: a loan saved a state in which they
\* held, leaves the bNFTs as they were, and takes no wrapped punk that it did
\* not borrow.
LoanOK == loan # None =>
  /\ \A p \in Punks :
       /\ loan.saved.wOwner[p] # None => loan.saved.punkIndexToAddress[p] = Wrapper
       /\ loan.saved.bOwner[p] # None => loan.saved.wOwner[p] = Bnft
       /\ loan.saved.wOwner[p] = Bnft /\ p \notin loan.tokens => chain.wOwner[p] = Bnft
  /\ chain.bOwner = loan.saved.bOwner /\ chain.minters = loan.saved.minters
  /\ \A p \in loan.tokens : chain.bOwner[p] # None
IInv == TypeOK /\ WrapsBacked /\ BondsBacked /\ LoanOK

\* The gateway's bNFT ends only with its punk in the hands of its owner.
PunkComesBack ==
  [][\A p \in Punks :
       chain.minters[p] = Gateway /\ chain'.minters[p] # Gateway =>
         chain'.punkIndexToAddress[p] = chain.bOwner[p]]_vars

\* A punk or wrapped punk that somebody sent to the gateway or to its proxy,
\* and did not deposit, stays there: the gateway moves nothing but the punk it
\* was called for.
Stranded(s, p) == \/ s.punkIndexToAddress[p] \in {Gateway, Proxy[Gateway]}
                  \/ s.wOwner[p] = Gateway
StrandedStays ==
  [][revertLoan \/ \A p \in Punks : Stranded(chain, p) => Stranded(chain', p)]_vars

\* To the bNFT contract all of this is deposits and withdrawals of a vault.
Committed == IF loan = None THEN chain ELSE loan.saved
V == INSTANCE Vault WITH
       Tokens <- Punks, Accounts <- Callers, Holders <- Users,
       custody <- {p \in Punks : Committed.wOwner[p] = Bnft},
       bond <- [p \in Punks |-> <<Committed.minters[p], Committed.bOwner[p]>>]
ImplementsVault == V!Spec

\* An owner who keeps trying gets his punk back.  Fairness: a loan is settled
\* or reverts, and a withdrawal that stays possible whenever no loan is open
\* is made at last.
FairSpec ==
  /\ Spec /\ WF_vars(settleLoan \/ revertLoan)
  /\ \A p \in Punks : SF_vars(\E u \in Users : withdrawPunk(u, p))
PunkRedeemable ==
  \A p \in Punks, u \in Users :
    Committed.minters[p] = Gateway /\ Committed.bOwner[p] = u
      ~> Committed.punkIndexToAddress[p] = u
=============================================================================
