-------------------------------- MODULE BNFT --------------------------------
(***************************************************************************)
(* The bound-NFT contract, contracts/protocol/BNFT.sol: the underlying     *)
(* ERC721 tokens it takes into custody, the bNFTs it mints for them, flash *)
(* loans of the underlying, and the claims of airdropped assets.           *)
(*                                                                         *)
(* A transaction of the EVM runs alone and is undone when it reverts.  What *)
(* does interleave is the code of other contracts called back in the       *)
(* middle of a function (onERC721Received, executeOperation, the call of   *)
(* executeAirdrop): it may call any entry point again.  `calls' is the     *)
(* stack of the BNFT functions suspended in such a callback, innermost     *)
(* first; a frame keeps the storage as it was when its function was        *)
(* entered, which is what a revert of that function restores.  A function  *)
(* that calls nobody back is one step.  A call whose requirements fail     *)
(* reverts and leaves no trace: it is no step at all.                      *)
(***************************************************************************)
EXTENDS Naturals, Sequences, Functions

CONSTANTS
  Tokens,       \* token ids of the underlying asset
  ERC20s, ERC721s, ERC1155s,  \* airdropped assets of each standard
  EOAs,         \* accounts without code
  Contracts,    \* accounts with code, other than this contract
  Operators,    \* accounts named as flash loan operator by their minters
  Self,         \* address(this)
  None,         \* address(0)
  InitOwner, InitClaimAdmin, InitRegistry,  \* arguments of initialize
  NewAdmins,    \* accounts the owner and the claim admin may be changed to
  Registries,   \* registries the contract may be pointed to
  MaxLoan,      \* bound: length of the token list of a loan or of a claim
  MaxDepth      \* bound: functions suspended at once

Accounts == EOAs \cup Contracts
Holders  == Accounts \cup {Self}
Airdrops == ERC20s \cup ERC721s \cup ERC1155s
Items    == Tokens \cup Airdrops

ASSUME AddressesDistinct ==
  /\ Self \notin Accounts /\ None \notin Holders
  /\ EOAs \cap Contracts = {} /\ Operators \subseteq Accounts
ASSUME ItemsDistinct ==
  /\ Tokens \cap Airdrops = {}
  /\ ERC20s \cap ERC721s = {} /\ ERC20s \cap ERC1155s = {}
  /\ ERC721s \cap ERC1155s = {}
ASSUME AdminsTyped ==
  /\ InitOwner \in Accounts \cup {None}
  /\ InitClaimAdmin \in Accounts \cup {None} /\ NewAdmins \subseteq Accounts
  /\ InitRegistry \in Registries /\ None \notin Registries
ASSUME BoundsPositive == MaxLoan \in Nat \ {0} /\ MaxDepth \in Nat \ {0}

\* The collections a claim or an airdrop call can name.
Collections == {"underlying", "erc20", "erc721", "erc1155"}
ItemsOf(c) == CASE c = "underlying" -> Tokens
                [] c = "erc20"      -> ERC20s
                [] c = "erc721"     -> ERC721s
                [] c = "erc1155"    -> ERC1155s
                [] OTHER            -> {}

VARIABLES
  holder,      \* who holds each token of the underlying and each airdrop
  bOwner,      \* the bNFTs of this contract: the owner of each, or None
  minters,     \* _minters
  approvals,   \* _flashLoanOperatorApprovals, the pairs that are true
  lockings,    \* _flashLoanOperatorLockings, <<minter, token, operator>>
  whitelist,   \* _flashLaonReceiverWhitelist
  ignoreCheck, \* _isIgnoreCheckSenderOnRecv
  owner,       \* _owner
  claimAdmin,  \* _claimAdmin
  bnftRegistry,\* _bnftRegistry
  status,      \* _status
  calls        \* the suspended functions, innermost first

auth  == <<approvals, lockings, whitelist>>
admin == <<owner, claimAdmin, bnftRegistry>>
vars  == <<holder, bOwner, minters, auth, ignoreCheck, admin, status, calls>>

Entered    == "ENTERED"
NotEntered == "NOT_ENTERED"

Storage == [holder |-> holder, bOwner |-> bOwner, minters |-> minters,
            approvals |-> approvals, lockings |-> lockings,
            whitelist |-> whitelist, ignoreCheck |-> ignoreCheck,
            owner |-> owner, claimAdmin |-> claimAdmin,
            bnftRegistry |-> bnftRegistry, status |-> status]

StorageType ==
  [holder : [Items -> Holders],
   bOwner : [Tokens -> Holders \cup {None}],
   minters : [Tokens -> Accounts \cup {None}],
   approvals : SUBSET (Accounts \X Operators),
   lockings : SUBSET (Accounts \X Tokens \X Operators),
   whitelist : SUBSET Contracts,
   ignoreCheck : BOOLEAN,
   owner : Accounts \cup {None},
   claimAdmin : Accounts \cup {None},
   bnftRegistry : Registries,
   status : {Entered, NotEntered}]

\* A suspended function: its caller, the account or collection it is calling,
\* the items it was given and how many of them it has moved already.
Frames(fns, targets) ==
  [fn : fns, by : Accounts, target : targets, list : Seq(Items), done : Nat,
   saved : StorageType]
FrameType == Frames({"flashLoan", "burn", "claim"}, Contracts)
             \cup Frames({"executeAirdrop"}, Collections \cup {"other"})

\* Every variable has its type, those saved for a revert included.
TypeOK == Storage \in StorageType /\ calls \in Seq(FrameType)

Init ==
  /\ holder \in [Items -> Accounts]
  /\ bOwner = [t \in Tokens |-> None]
  /\ minters = [t \in Tokens |-> None]
  /\ approvals = {} /\ lockings = {} /\ whitelist = {}
  /\ ignoreCheck = FALSE
  /\ owner = InitOwner /\ claimAdmin = InitClaimAdmin
  /\ bnftRegistry = InitRegistry
  /\ status = NotEntered /\ calls = << >>

-----------------------------------------------------------------------------
\* Calls and callbacks.

\* An account without code calls in only as the sender of the transaction.
MayCall(u) == u \in EOAs => calls = << >>

\* Definitions marked "faulty" are no part of the model: each is a slip the
\* next definition guards against, kept to show that a property notices it.

\* Faulty: a function without the modifier.
NoGuard == TRUE

\* The first half of nonReentrant.
NotReentrant == status # Entered

\* Suspend fn in a callback.
Suspend(fn, u, target, list, done) ==
  /\ Len(calls) < MaxDepth
  /\ calls' = <<[fn |-> fn, by |-> u, target |-> target, list |-> list,
                 done |-> done, saved |-> Storage]>> \o calls
  /\ status' = Entered

Running(fn) == calls # << >> /\ Head(calls).fn = fn

\* Faulty: the guard stays entered.
ReturnEntered == calls' = Tail(calls) /\ UNCHANGED status

\* The second half of nonReentrant: the innermost function returns.
Return == calls' = Tail(calls) /\ status' = NotEntered

Transfer(items, to) == [i \in Items |-> IF i \in items THEN to ELSE holder[i]]

Lists(S) == UNION {[1..n -> S] : n \in 1..MaxLoan}

-----------------------------------------------------------------------------
\* Binding and releasing a token.

\* The two records of a bNFT: the ERC721 owner by _mint, the minter beside it.
Record(u, to, t) ==
  /\ bOwner' = [bOwner EXCEPT ![t] = to]
  /\ minters' = [minters EXCEPT ![t] = u]

mint(u, to, t) ==
  /\ MayCall(u) /\ NotReentrant
  /\ u \in EOAs => to = u
  /\ bOwner[t] = None
  /\ holder[t] = u
  /\ Record(u, to, t)
  /\ holder' = [holder EXCEPT ![t] = Self]
  /\ UNCHANGED <<auth, ignoreCheck, admin, status, calls>>

Erase(t) == /\ bOwner' = [bOwner EXCEPT ![t] = None]
            /\ minters' = [minters EXCEPT ![t] = None]

\* Faulty: the owner of the bNFT may burn it.
OwnerMayBurn(u, t) == bOwner[t] = u

MayBurn(u, t) == bOwner[t] # None /\ minters[t] = u

\* The underlying goes back with a callback to a minter that has code.
burn(u, t) ==
  /\ MayCall(u) /\ NotReentrant
  /\ MayBurn(u, t)
  /\ Erase(t)
  /\ holder[t] = Self
  /\ holder' = [holder EXCEPT ![t] = u]
  /\ IF u \in Contracts THEN Suspend("burn", u, u, <<t>>, 1)
                        ELSE UNCHANGED <<status, calls>>
  /\ UNCHANGED <<auth, ignoreCheck, admin>>

burnReturns ==
  /\ Running("burn")
  /\ Return
  /\ UNCHANGED <<holder, bOwner, minters, auth, ignoreCheck, admin>>

-----------------------------------------------------------------------------
\* Flash loans.

LockedTo(m, t) == {op \in Operators : <<m, t, op>> \in lockings}

isFlashLoanApproved(m, op) == <<m, op>> \in approvals

\* May u borrow t?  A token with lock holders obeys them alone.
MayBorrow(u, t) ==
  /\ minters[t] # None
  /\ IF LockedTo(minters[t], t) # {}
     THEN u \in LockedTo(minters[t], t)
     ELSE u = bOwner[t] \/ isFlashLoanApproved(minters[t], u)

\* Entry and checks of flashLoan.
flashLoan(u, receiver, ts) ==
  /\ MayCall(u) /\ NotReentrant
  /\ receiver \in whitelist
  /\ \A k \in DOMAIN ts : MayBorrow(u, ts[k])
  /\ Suspend("flashLoan", u, receiver, ts, 0)
  /\ UNCHANGED <<holder, bOwner, minters, auth, ignoreCheck, admin>>

LoanList(f) == Range(f.list)

\* One turn of the first loop; the receiver's onERC721Received runs after it.
\* After the last turn executeOperation runs.
lendNext ==
  /\ Running("flashLoan")
  /\ LET f == Head(calls) IN
       /\ f.done < Len(f.list)
       /\ holder[f.list[f.done + 1]] = Self
       /\ holder' = [holder EXCEPT ![f.list[f.done + 1]] = f.target]
       /\ calls' = <<[f EXCEPT !.done = f.done + 1]>> \o Tail(calls)
  /\ UNCHANGED <<bOwner, minters, auth, ignoreCheck, admin, status>>

\* Faulty: the second loop stops one token short.
TakesBackButLast(f) == {f.list[k] : k \in 1..(Len(f.list) - 1)}

TakesBack(f) == LoanList(f)

\* executeOperation has returned true: the second loop takes every token back
\* from the receiver.  No foreign code runs in it.  The second transfer of a
\* token listed twice reverts: the receiver has given it back already.
settleLoan ==
  /\ Running("flashLoan")
  /\ LET f == Head(calls) IN
       /\ f.done = Len(f.list)
       /\ IsInjective(f.list)
       /\ \A t \in TakesBack(f) : holder[t] = f.target
       /\ holder' = Transfer(TakesBack(f), Self)
  /\ Return
  /\ UNCHANGED <<bOwner, minters, auth, ignoreCheck, admin>>

setFlashLoanApproval(u, op, approved) ==
  /\ MayCall(u) /\ NotReentrant
  /\ approvals' = IF approved THEN approvals \cup {<<u, op>>}
                              ELSE approvals \ {<<u, op>>}
  /\ UNCHANGED <<holder, bOwner, minters, lockings, whitelist, ignoreCheck,
                 admin, status, calls>>

\* Not nonReentrant: it may run in the middle of a loan.
setFlashLoanLocking(u, t, op, locked) ==
  /\ MayCall(u)
  /\ lockings' = IF locked THEN lockings \cup {<<u, t, op>>}
                           ELSE lockings \ {<<u, t, op>>}
  /\ UNCHANGED <<holder, bOwner, minters, approvals, whitelist, ignoreCheck,
                 admin, status, calls>>

OnlyOwner(u) == MayCall(u) /\ owner = u

setFlashLoanReceiverWhitelist(u, receiver, listed) ==
  /\ OnlyOwner(u)
  /\ whitelist' = IF listed THEN whitelist \cup {receiver}
                            ELSE whitelist \ {receiver}
  /\ UNCHANGED <<holder, bOwner, minters, approvals, lockings, ignoreCheck,
                 admin, status, calls>>

-----------------------------------------------------------------------------
\* Claiming airdropped assets.

\* Faulty: the underlying is not told from an airdropped collection.
ClaimAnything(u, collection) ==
  MayCall(u) /\ NotReentrant /\ claimAdmin = u

ClaimGuard(u, collection) ==
  /\ MayCall(u) /\ NotReentrant /\ claimAdmin = u
  /\ collection # "underlying"

\* An ERC20 transfer calls nobody back.
claimERC20Airdrop(u, collection, to, i) ==
  /\ ClaimGuard(u, collection)
  /\ i \in ItemsOf(collection) \cap ERC20s
  /\ holder[i] = Self
  /\ holder' = Transfer({i}, to)
  /\ UNCHANGED <<bOwner, minters, auth, ignoreCheck, admin, status, calls>>

\* One safeTransferFrom per id, each with a callback when `to' has code.
claimERC721Airdrop(u, collection, to, ids) ==
  /\ ClaimGuard(u, collection)
  /\ ids \in Lists(ItemsOf(collection) \cap (Tokens \cup ERC721s))
  /\ \/ /\ to \in Contracts
        /\ Suspend("claim", u, to, ids, 0)
        /\ UNCHANGED holder
     \/ /\ to \in EOAs
        /\ IsInjective(ids)
        /\ \A k \in DOMAIN ids : holder[ids[k]] = Self
        /\ holder' = Transfer(Range(ids), to)
        /\ UNCHANGED <<status, calls>>
  /\ UNCHANGED <<bOwner, minters, auth, ignoreCheck, admin>>

\* One turn of the loop of claimERC721Airdrop.
claimNext ==
  /\ Running("claim")
  /\ LET f == Head(calls) IN
       /\ f.done < Len(f.list)
       /\ holder[f.list[f.done + 1]] = Self
       /\ holder' = [holder EXCEPT ![f.list[f.done + 1]] = f.target]
       /\ calls' = <<[f EXCEPT !.done = f.done + 1]>> \o Tail(calls)
  /\ UNCHANGED <<bOwner, minters, auth, ignoreCheck, admin, status>>

\* One safeBatchTransferFrom: every id moves, then one callback.
claimERC1155Airdrop(u, collection, to, i) ==
  /\ ClaimGuard(u, collection)
  /\ i \in ItemsOf(collection) \cap ERC1155s
  /\ holder[i] = Self
  /\ holder' = Transfer({i}, to)
  /\ IF to \in Contracts THEN Suspend("claim", u, to, <<i>>, 1)
                         ELSE UNCHANGED <<status, calls>>
  /\ UNCHANGED <<bOwner, minters, auth, ignoreCheck, admin>>

claimReturns ==
  /\ Running("claim")
  /\ Head(calls).done = Len(Head(calls).list)
  /\ Return
  /\ UNCHANGED <<holder, bOwner, minters, auth, ignoreCheck, admin>>

\* The claim admin has this contract call another one, anything but the
\* underlying: "other" stands for a contract that is no asset's collection.
executeAirdrop(u, target) ==
  /\ ClaimGuard(u, target)
  /\ Suspend("executeAirdrop", u, target, << >>, 0)
  /\ ignoreCheck' = TRUE
  /\ UNCHANGED <<holder, bOwner, minters, auth, admin>>

\* What the call may do in this contract's name: a collection moves items the
\* contract holds; anybody's code may run after it.
airdropCall(to, i) ==
  /\ Running("executeAirdrop")
  /\ i \in ItemsOf(Head(calls).target)
  /\ holder[i] = Self
  /\ holder' = Transfer({i}, to)
  /\ UNCHANGED <<bOwner, minters, auth, ignoreCheck, admin, status, calls>>

\* Faulty: the acceptance flag stays open.
executeAirdropLeavesOpen ==
  /\ Running("executeAirdrop")
  /\ Return
  /\ UNCHANGED <<holder, bOwner, minters, auth, ignoreCheck, admin>>

executeAirdropReturns ==
  /\ Running("executeAirdrop")
  /\ ignoreCheck' = FALSE
  /\ Return
  /\ UNCHANGED <<holder, bOwner, minters, auth, admin>>

-----------------------------------------------------------------------------
\* Ownership.

transferOwnership(u, newOwner) ==
  /\ OnlyOwner(u)
  /\ owner' = newOwner
  /\ UNCHANGED <<holder, bOwner, minters, auth, ignoreCheck, claimAdmin,
                 bnftRegistry, status, calls>>

renounceOwnership(u) ==
  /\ OnlyOwner(u)
  /\ owner' = None
  /\ UNCHANGED <<holder, bOwner, minters, auth, ignoreCheck, claimAdmin,
                 bnftRegistry, status, calls>>

setClaimAdmin(u, newAdmin) ==
  /\ OnlyOwner(u)
  /\ claimAdmin' = newAdmin
  /\ UNCHANGED <<holder, bOwner, minters, auth, ignoreCheck, owner,
                 bnftRegistry, status, calls>>

setBNFTRegistry(u, newRegistry) ==
  /\ OnlyOwner(u)
  /\ bnftRegistry' = newRegistry
  /\ UNCHANGED <<holder, bOwner, minters, auth, ignoreCheck, owner,
                 claimAdmin, status, calls>>

-----------------------------------------------------------------------------
\* The environment.

\* onERC721Received and onERC1155Received of this contract: what it accepts.
\* ERC20 and the unsafe transfer of an ERC721 ask nobody.
Accepts(i) == i \in ERC1155s => ignoreCheck

\* Somebody sends an item he holds to another account or to this contract.
sendItem(i, to) ==
  /\ holder[i] \in Accounts
  /\ to # holder[i]
  /\ to = Self => Accepts(i)
  /\ holder' = [holder EXCEPT ![i] = to]
  /\ UNCHANGED <<bOwner, minters, auth, ignoreCheck, admin, status, calls>>

\* The innermost function reverts: what it and its callbacks wrote is undone.
revert ==
  /\ calls # << >>
  /\ LET s == Head(calls).saved IN
       /\ holder' = s.holder /\ bOwner' = s.bOwner /\ minters' = s.minters
       /\ approvals' = s.approvals /\ lockings' = s.lockings
       /\ whitelist' = s.whitelist /\ ignoreCheck' = s.ignoreCheck
       /\ owner' = s.owner /\ claimAdmin' = s.claimAdmin
       /\ bnftRegistry' = s.bnftRegistry /\ status' = s.status
  /\ calls' = Tail(calls)

-----------------------------------------------------------------------------
Bind    == \E u \in Accounts, to \in Holders, t \in Tokens : mint(u, to, t)
Release == \E u \in Accounts, t \in Tokens : burn(u, t)
Borrow  == \E u \in Accounts, r \in Contracts, ts \in Lists(Tokens) :
             flashLoan(u, r, ts)
Approve == \E u \in Accounts, op \in Operators, b \in BOOLEAN :
             setFlashLoanApproval(u, op, b)
Lock    == \E u \in Accounts, t \in Tokens, op \in Operators, b \in BOOLEAN :
             setFlashLoanLocking(u, t, op, b)
Claim   == \E u \in Accounts, c \in Collections, to \in Accounts :
             \/ \E i \in ERC20s : claimERC20Airdrop(u, c, to, i)
             \/ \E ids \in Lists(Tokens \cup ERC721s) :
                  claimERC721Airdrop(u, c, to, ids)
             \/ \E i \in ERC1155s : claimERC1155Airdrop(u, c, to, i)
Airdrop == \/ \E u \in Accounts, c \in Collections \cup {"other"} :
                executeAirdrop(u, c)
           \/ \E to \in Accounts, i \in Items : airdropCall(to, i)
           \/ executeAirdropReturns
Administer ==
  \E u \in Accounts :
    \/ \E r \in Contracts, b \in BOOLEAN : setFlashLoanReceiverWhitelist(u, r, b)
    \/ \E a \in NewAdmins : transferOwnership(u, a) \/ setClaimAdmin(u, a)
    \/ renounceOwnership(u)
    \/ \E r \in Registries : setBNFTRegistry(u, r)
Send == \E i \in Items, to \in Holders : sendItem(i, to)

Next == \/ Bind \/ Release \/ burnReturns
        \/ Borrow \/ lendNext \/ settleLoan
        \/ Approve \/ Lock
        \/ Claim \/ claimNext \/ claimReturns
        \/ Airdrop \/ Administer \/ Send \/ revert

Spec == Init /\ [][Next]_vars

-----------------------------------------------------------------------------
\* Properties.

\* Custody: the token behind every bNFT is held by the contract, or it is out
\* with the receiver of a loan that is still open (mint takes it before anyone
\* is called back, burn is the only other way out).
OutOnLoan(t) == \E k \in DOMAIN calls : /\ calls[k].fn = "flashLoan"
                                        /\ t \in LoanList(calls[k])
Backed == \A t \in Tokens : bOwner[t] # None => holder[t] = Self \/ OutOnLoan(t)

\* _minters and the ERC721 ownership are written side by side in mint and burn,
\* and cannot come apart: a bNFT has a minter exactly while it exists.
MinterIffBound == \A t \in Tokens : minters[t] = None <=> bOwner[t] = None

\* nonReentrant: at most one guarded function is suspended, and the guard is
\* set exactly while one is, through returns and reverts alike.
OneAtATime == /\ Len(calls) <= 1
              /\ status = Entered <=> calls # << >>

\* Whatever the receiver calls in the middle of a loan, the bNFTs of the loan
\* keep their owner and minter and the approvals the loan was checked against
\* stay as they were (locks may change: setFlashLoanLocking is not guarded).
LoanFreezesBinding ==
  \A k \in DOMAIN calls : calls[k].fn = "flashLoan" =>
    /\ approvals = calls[k].saved.approvals
    /\ \A t \in LoanList(calls[k]) :
         /\ bOwner[t] # None
         /\ bOwner[t] = calls[k].saved.bOwner[t]
         /\ minters[t] = calls[k].saved.minters[t]

\* The inductive invariant behind them, with what a suspended function knows
\* of the storage it was entered with and of the items it is to move.
AtRest(s) == /\ s.status = NotEntered /\ s.ignoreCheck = FALSE
             /\ \A t \in Tokens : /\ s.minters[t] = None <=> s.bOwner[t] = None
                                  /\ s.bOwner[t] # None => s.holder[t] = Self
FrameOK(f) ==
  /\ AtRest(f.saved)
  /\ f.done \in 0..Len(f.list)
  /\ ignoreCheck = (f.fn = "executeAirdrop")
  /\ f.fn = "claim" => f.list \in Seq(Airdrops)
  /\ f.fn = "executeAirdrop" => f.target # "underlying" /\ f.list = << >>
  /\ f.fn = "flashLoan" => /\ f.list \in Seq(Tokens)
                           /\ \A t \in LoanList(f) : bOwner[t] # None
  /\ f.fn = "burn" => \E t \in Tokens :
       /\ f.list = <<t>> /\ f.saved.bOwner[t] # None
       /\ bOwner = [f.saved.bOwner EXCEPT ![t] = None]
       /\ minters = [f.saved.minters EXCEPT ![t] = None]
  /\ f.fn # "burn" => bOwner = f.saved.bOwner /\ minters = f.saved.minters
  /\ approvals = f.saved.approvals
  /\ \A t \in Tokens \ LoanList(f) : f.saved.holder[t] = Self => holder[t] = Self
CallsOK ==
  \/ calls = << >> /\ status = NotEntered /\ ignoreCheck = FALSE
  \/ Len(calls) = 1 /\ status = Entered /\ FrameOK(Head(calls))
IInv == TypeOK /\ MinterIffBound /\ Backed /\ CallsOK

Reverting == calls # << >> /\ calls' = Tail(calls) /\ Storage' = Head(calls).saved

\* A bNFT never changes hands: it comes into being when the contract receives
\* its token, and ends only when its token goes to the minter, with no loan
\* open.
BindStep(t) ==
  bOwner'[t] # bOwner[t] =>
    IF bOwner[t] = None THEN holder'[t] = Self
                        ELSE /\ bOwner'[t] = None /\ holder'[t] = minters[t]
                             /\ calls = << >>
BindingsEndByBurn == [][Reverting \/ \A t \in Tokens : BindStep(t)]_vars

\* A token sent to the contract without mint has no minter, and no function
\* lets it out again: a flash loan, a claim and an airdrop call included.
StraysStay ==
  [][Reverting \/ \A t \in Tokens :
       holder[t] = Self /\ bOwner[t] = None => holder'[t] = Self]_vars

\* The acceptance flag is open only inside executeAirdrop: an ERC1155 asset
\* gets in at no other time.
InAirdrop == \E k \in DOMAIN calls : calls[k].fn = "executeAirdrop"
ERC1155OnlyByAirdrop ==
  [][Reverting \/ \A i \in ERC1155s :
       holder[i] # Self /\ holder'[i] = Self => InAirdrop]_vars

\* Once ownership is renounced the owner's settings are final: nobody lists a
\* receiver, names a claim admin or moves the contract to another registry.
RenouncedIsFinal ==
  [][Reverting \/ (owner = None => /\ UNCHANGED admin
                                   /\ UNCHANGED whitelist)]_vars

\* Seen transaction by transaction - while a call is open the storage that
\* counts is the one it would be undone to - the contract is a vault.
Committed == IF calls = << >> THEN Storage ELSE calls[Len(calls)].saved
Bond(s) == [t \in Tokens |-> <<s.minters[t], s.bOwner[t]>>]
HeldIn(s) == {t \in Tokens : s.holder[t] = Self}
V == INSTANCE Vault WITH custody <- HeldIn(Committed), bond <- Bond(Committed)
ImplementsVault == V!Spec

\* Nothing can stand between a minter and his token for good: if he keeps
\* trying to burn, the bNFT goes, whatever was locked, approved or renounced,
\* and in a transaction that is not undone, though he be called back in it.
\* Fairness: a call returns or reverts (gas), a transaction that stays
\* executable whenever no call is open is executed at last, and a minter with
\* code, called back with his token again and again, accepts it once.
Finish == burnReturns \/ settleLoan \/ claimReturns \/ executeAirdropReturns
          \/ revert
MinterBurns(t) == \E u \in Accounts : burn(u, t)
MinterAccepts(t) == burnReturns /\ Range(Head(calls).list) = {t}
FairSpec == /\ Spec /\ WF_vars(Finish)
            /\ \A t \in Tokens : SF_vars(MinterBurns(t)) /\ SF_vars(MinterAccepts(t))
Redeemable ==
  \A t \in Tokens : Committed.bOwner[t] # None ~> Committed.bOwner[t] = None

-----------------------------------------------------------------------------
\* What a comment of the code says and the code does not do.

\* IBNFT, of setFlashLoanApproval: "Operators can call {flashLoan} for any token
\* minted by the minter."
ApprovedMayBorrowAny ==
  \A t \in Tokens, op \in Operators :
    bOwner[t] # None /\ isFlashLoanApproved(minters[t], op) => MayBorrow(op, t)
=============================================================================
