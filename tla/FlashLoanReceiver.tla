-------------------------- MODULE FlashLoanReceiver --------------------------
(***************************************************************************)
(* contracts/misc/AirdropFlashLoanReceiver.sol and its successors V2 and   *)
(* V3: a contract that borrows bound tokens for the length of a call to an *)
(* airdrop project and passes on what the project drops.  V2 is V1 behind  *)
(* a proxy; V3 serves its owner alone and lets him call anything.          *)
(*                                                                         *)
(* `calls' holds the functions of the receiver that wait for foreign code  *)
(* to return, innermost first, each with the storage its revert restores.  *)
(* While one waits, contracts may call anything: executeOperation again, by *)
(* way of a loan of another collection, and what the guard leaves open.    *)
(***************************************************************************)
EXTENDS Naturals, Sequences, FiniteSets, Functions

CONSTANTS
  Version,     \* "V2", which V1 is as well, or "V3"
  DeployType,  \* of V1 and V2: 0, or only the owner may be the initiator
  EOAs, Contracts,  \* users without and with code
  Receiver,    \* address(this)
  Collections, \* collections with a bNFT in the registry
  Bnft,        \* the bNFT contract of each
  Items,       \* tokens, amounts of ether and of ERC20, amounts of ERC1155 ids
  AssetOf,     \* the contract each item belongs to
  Borrower,    \* who may borrow each bound token, and None for other items
  Spenders,    \* bound: the addresses approvals are given to, bNFT contracts or not
  MaxOpened,   \* bound: operators that calls have opened at once
  NewOwners,   \* accounts ownership may pass to, None if it may be renounced
  Sweeps,      \* bound: the token lists a loan is taken with
  None,
  MaxDepth     \* bound: functions that wait at once

Users     == EOAs \cup Contracts
Addresses == Users \cup {Receiver} \cup Range(Bnft)
Assets    == Collections \cup Range(AssetOf)
Bound     == {i \in Items : Borrower[i] # None}

\* An entry of airdropTokenTypes, with its asset, or its item for an entry
\* that names one.
Entry == [type : {1, 2, 5}, of : Assets] \cup [type : {3, 4}, of : Items]

ASSUME AddressesDistinct ==
  /\ EOAs \cap Contracts = {} /\ Receiver \notin Users
  /\ Bnft \in [Collections -> Range(Bnft)] /\ IsInjective(Bnft)
  /\ Range(Bnft) \cap (Users \cup {Receiver}) = {} /\ None \notin Addresses
ASSUME ItemsTyped ==
  /\ IsFiniteSet(Items) /\ AssetOf \in [Items -> Assets]
  /\ Borrower \in [Items -> Users \cup {None}]
  /\ \A i \in Bound : AssetOf[i] \in Collections
ASSUME VersionTyped ==
  /\ Version \in {"V2", "V3"} /\ DeployType \in Nat
  /\ Spenders \subseteq Addresses \ {Receiver} /\ NewOwners \subseteq Users \cup {None}
  /\ Sweeps \subseteq Seq(Entry) /\ MaxDepth \in Nat /\ MaxOpened \in Nat

VARIABLES
  chain,  \* the tokens, and the storage of the receiver
  calls   \* the functions of the receiver that wait, innermost first

vars == <<chain, calls>>

Entered    == "ENTERED"
NotEntered == "NOT_ENTERED"

\* Approvals are those the receiver gave.  Two fields are kept for a property
\* only: the items whose approval (`called'), and the operators (`opened'), that
\* a function of the owner or a call made as the receiver gave.
Storage ==
  [holder : [Items -> Addresses],
   approved : [Items -> Addresses \cup {None}],
   operators : SUBSET (Assets \X Addresses),
   called : SUBSET Items, opened : SUBSET (Assets \X Addresses),
   owner : Users \cup {None},
   status : {Entered, NotEntered},
   records : SUBSET ((Users \cup {None}) \X Collections \X (SUBSET Bound) \X Sweeps)]

Frame == [fn : {"executeOperation", "callMethod", "transfer"},
          by : Users, to : Users \cup {None}, asset : Collections \cup {None},
          ids : SUBSET Bound, list : Sweeps \cup {<< >>}, pos : Nat, left : Nat \cup {None},
          saved : Storage]

\* `pos' is the entry of the list being served, 0 during the project's call, and
\* `left' how many tokens of it there are to send, once that has been read.

\* Every variable has its type.
TypeOK == chain \in Storage /\ calls \in Seq(Frame)

\* The bound tokens are bound; what the projects will drop is theirs.
Init ==
  /\ \E o \in Users, h \in [Items \ Bound -> Contracts] :
       chain = [holder |-> [i \in Items |-> IF i \in Bound THEN Bnft[AssetOf[i]]
                                                           ELSE h[i]],
                approved |-> [i \in Items |-> None], operators |-> {},
                called |-> {}, opened |-> {},
                owner |-> o, status |-> NotEntered, records |-> {}]
  /\ calls = << >>

-----------------------------------------------------------------------------
\* Tokens.  Definitions marked "faulty" are no part of the model: each is a
\* slip the next definition guards against, kept to show that a property
\* notices it.

Held(s, a) == {i \in Items : AssetOf[i] = a /\ s.holder[i] = Receiver}

Move(s, S, to) ==
  [s EXCEPT !.holder = [i \in Items |-> IF i \in S THEN to ELSE s.holder[i]],
            !.approved = [i \in Items |-> IF i \in S THEN None ELSE s.approved[i]],
            !.called = @ \ S]

Approve(s, i, u) == [s EXCEPT !.approved[i] = u, !.called = @ \cup {i}]

SetApprovalForAll(s, a, u, yes) ==
  IF yes THEN [s EXCEPT !.operators = @ \cup {<<a, u>>}, !.opened = @ \cup {<<a, u>>}]
         ELSE [s EXCEPT !.operators = @ \ {<<a, u>>}, !.opened = @ \ {<<a, u>>}]

\* Token contracts refuse the zero address.
Receives(to) == to # None

MayTake(s, u, i) == /\ s.holder[i] = Receiver
                    /\ s.approved[i] = u \/ <<AssetOf[i], u>> \in s.operators

\* What a call of one function can do when the receiver makes it and any
\* contract may be its target: one of the receiver's tokens is moved, to an
\* account or to the bNFT contract of its collection, approved or opened to an
\* operator, or nothing, if the contract is not a token's.
AsReceiver(s, t) ==
  \/ t = s
  \/ \E i \in {j \in Items : s.holder[j] = Receiver} :
       \/ \E u \in Users \cup {Bnft[c] : c \in Collections \cap {AssetOf[i]}} :
            t = Move(s, {i}, u)
       \/ \E u \in Spenders : t = Approve(s, i, u)
  \/ \E a \in Assets, u \in Spenders, yes \in BOOLEAN :
       /\ yes => Cardinality(s.opened) < MaxOpened
       /\ t = SetApprovalForAll(s, a, u, yes)

-----------------------------------------------------------------------------
\* Calls.

\* Around transfers to a contract foreign code may run, whatever is transferred:
\* some ERC20 tokens call their recipient back, too.
Foreign(f) == \/ f.fn = "callMethod"
              \/ f.fn = "executeOperation" /\ f.pos = 0
              \/ f.to \in Contracts

\* An account without code calls in only as the sender of the transaction.
MayCall(u) == calls # << >> => u \in Contracts /\ Foreign(Head(calls))

Wait(fn, u, to) ==
  [fn |-> fn, by |-> u, to |-> to, asset |-> None, ids |-> {}, list |-> << >>,
   pos |-> 0, left |-> None, saved |-> chain]

Return == calls' = Tail(calls)

NotReentrant == chain.status = NotEntered

\* Faulty: the owner functions do not clear the guard when they return.
LeftEntered(s) == s

Cleared(s) == [s EXCEPT !.status = NotEntered]

-----------------------------------------------------------------------------
\* executeOperation, called by the bNFT contract in the middle of a loan.

\* Faulty: whoever borrows may initiate.
AnyInitiator(u, list) == list # << >>

\* The requirements of V1 and V2; well-formed parameters are taken for granted.
AdmitsV2(u, list) ==
  /\ DeployType # 0 => u = chain.owner
  /\ list # << >>

\* V3 serves its owner, whoever borrows, and takes an empty list.
Recipient(u) == IF Version = "V3" THEN chain.owner ELSE u

\* Faulty: V3 does as V1 and V2 do.
ApproveForGood(s, c, ids) == [s EXCEPT !.operators = @ \cup {<<c, Bnft[c]>>}]

\* V1 and V2 approve the bNFT contract for good, V3 for the tokens on loan.
ApproveReturn(s, c, ids) ==
  IF Version = "V3"
    THEN [s EXCEPT !.approved =
            [i \in Items |-> IF i \in ids THEN Bnft[c] ELSE s.approved[i]]]
    ELSE [s EXCEPT !.operators = @ \cup {<<c, Bnft[c]>>}]

\* The loan up to the call of the project: the bNFT contract, whose guard lets
\* one loan be open at a time, sends the tokens and calls executeOperation.
flashLoan(u, c, ids, list) ==
  /\ MayCall(u) /\ Len(calls) < MaxDepth
  /\ \A k \in DOMAIN calls : calls[k].asset # c
  /\ ids # {} /\ \A i \in ids : AssetOf[i] = c /\ Borrower[i] = u
  /\ Version = "V2" => AdmitsV2(u, list)
  /\ AsReceiver(ApproveReturn(Move(chain, ids, Receiver), c, ids), chain')
  /\ calls' = <<[Wait("executeOperation", u, Recipient(u)) EXCEPT
                   !.asset = c, !.ids = ids, !.list = list]>> \o calls

InOperation == calls # << >> /\ Head(calls).fn = "executeOperation"

\* Faulty: the record names whoever owns the receiver by now.
KeyOfOwner(f) == <<chain.owner, f.asset, f.ids, f.list>>

Key(f) == <<f.to, f.asset, f.ids, f.list>>

\* The project's call returns and the claim is recorded.
airdropReturns ==
  LET f == Head(calls) IN
    /\ InOperation /\ f.pos = 0
    /\ chain' = [chain EXCEPT !.records = @ \cup {Key(f)}]
    /\ calls' = <<[f EXCEPT !.pos = 1]>> \o Tail(calls)

\* Faulty: the loop over the tokens reads its bound again each time round.
RoundsReread(n) == IF n < 2 THEN 0 ELSE n - 2

RoundsAfter(n) == n - 1

\* One transfer to the recipient, and for an entry that transfers nothing, none.
transferNext ==
  LET f == Head(calls)
      e == f.list[f.pos]
      n == IF f.left = None THEN Cardinality(Held(chain, e.of)) ELSE f.left
      next == calls' = <<[f EXCEPT !.pos = f.pos + 1, !.left = None]>> \o Tail(calls)
  IN /\ InOperation /\ f.pos \in 1..Len(f.list)
     /\ \/ /\ e.type = 1 /\ (Held(chain, e.of) # {} => Receives(f.to))
           /\ chain' = Move(chain, Held(chain, e.of), f.to) /\ next
        \/ /\ e.type = 2 /\ n > 0 /\ Receives(f.to)
           /\ \E i \in Held(chain, e.of) : chain' = Move(chain, {i}, f.to)
           /\ calls' = <<[f EXCEPT !.left = RoundsAfter(n)]>> \o Tail(calls)
        \/ /\ e.type = 3 /\ Receives(f.to)
           /\ chain' = IF chain.holder[e.of] = Receiver THEN Move(chain, {e.of}, f.to)
                                                        ELSE chain
           /\ next
        \/ /\ e.type = 4 /\ Receives(f.to) /\ chain.holder[e.of] = Receiver
           /\ chain' = Move(chain, {e.of}, f.to) /\ next
        \/ /\ \/ e.type = 5
              \/ e.type = 2 /\ n = 0
           /\ UNCHANGED chain /\ next

\* Faulty: a token that is gone is not missed.
MayPullHeld(f) == \A i \in f.ids : MayTake(chain, Bnft[f.asset], i)
                                   \/ chain.holder[i] # Receiver

MayPull(f) == \A i \in f.ids : MayTake(chain, Bnft[f.asset], i)

\* executeOperation returns and the bNFT contract takes its tokens back.
settleLoan ==
  LET f == Head(calls) IN
    /\ InOperation /\ f.pos > Len(f.list)
    /\ MayPull(f)
    /\ chain' = Move(chain, {i \in f.ids : chain.holder[i] = Receiver}, Bnft[f.asset])
    /\ Return

-----------------------------------------------------------------------------
\* The functions of the owner.

MayAct(u) == MayCall(u) /\ NotReentrant /\ u = chain.owner

\* transferERC20, transferERC721, transferERC1155 and transferEther; V3 sends to
\* the owner only.
transferOut(u, to, i) ==
  LET moved == Move(chain, {i}, to) IN
    /\ MayAct(u) /\ chain.holder[i] = Receiver
    /\ Version = "V3" => to = chain.owner
    /\ IF to \in EOAs
         THEN chain' = moved /\ UNCHANGED calls
         ELSE /\ Len(calls) < MaxDepth
              /\ chain' = [moved EXCEPT !.status = Entered]
              /\ calls' = <<Wait("transfer", u, to)>> \o calls

\* approveERC721, approveERC20, approveERC721ForAll and approveERC1155ForAll.
approve(u) ==
  /\ Version = "V3" /\ MayAct(u)
  /\ \/ \E i \in Items, v \in Spenders :
          /\ chain.holder[i] = Receiver /\ chain' = Approve(chain, i, v)
     \/ \E a \in Assets, v \in Spenders, yes \in BOOLEAN :
          /\ yes => Cardinality(chain.opened) < MaxOpened
          /\ chain' = SetApprovalForAll(chain, a, v, yes)
  /\ UNCHANGED calls

callMethod(u) ==
  /\ Version = "V3" /\ MayAct(u) /\ Len(calls) < MaxDepth
  /\ AsReceiver([chain EXCEPT !.status = Entered], chain')
  /\ calls' = <<Wait("callMethod", u, u)>> \o calls

ownerCallReturns ==
  /\ calls # << >> /\ ~ InOperation
  /\ chain' = Cleared(chain) /\ Return

transferOwnership(u, v) ==
  /\ MayCall(u) /\ u = chain.owner
  /\ chain' = [chain EXCEPT !.owner = v] /\ UNCHANGED calls

-----------------------------------------------------------------------------
\* The others.

\* A token is sent by its holder or taken by an operator of the receiver's.
send(u, i, to) ==
  /\ MayCall(u)
  /\ chain.holder[i] = u \/ MayTake(chain, u, i)
  /\ chain' = Move(chain, {i}, to) /\ UNCHANGED calls

revert ==
  /\ calls # << >>
  /\ chain' = Head(calls).saved /\ Return

Loans  == \/ \E u \in Users, c \in Collections, ids \in SUBSET Bound, l \in Sweeps :
               flashLoan(u, c, ids, l)
          \/ airdropReturns \/ transferNext \/ settleLoan
Manage == \/ \E u \in Users :
               \/ \E v \in Users, i \in Items : transferOut(u, v, i)
               \/ \E v \in NewOwners : transferOwnership(u, v)
               \/ approve(u) \/ callMethod(u)
          \/ ownerCallReturns
Others == revert \/ \E u \in Users, i \in Items, to \in Users \cup {Receiver} :
                      send(u, i, to)

Next == Loans \/ Manage \/ Others

Spec == Init /\ [][Next]_vars

-----------------------------------------------------------------------------
\* Properties.

\* Whatever the project, the recipient and nested loans do with borrowed
\* tokens, only tokens of the loans that are open are away from their bNFT
\* contract.
BoundAtHome ==
  \A i \in Bound : \/ chain.holder[i] = Bnft[AssetOf[i]]
                   \/ \E k \in DOMAIN calls : i \in calls[k].ids

\* What a loan has the receiver approve to the bNFT contract does not go beyond
\* the loan: in V3 the approval of a token is gone once no loan has it out, and
\* a standing approval is V2's for the collection that was borrowed.  What a
\* bNFT contract may take besides, the owner or a call as the receiver gave it.
ReturnApprovals ==
  \A c \in Collections :
    /\ \A i \in Items \ chain.called : chain.approved[i] = Bnft[c] =>
         \E k \in DOMAIN calls : calls[k].asset = c /\ i \in calls[k].ids
    /\ \A a \in Assets : <<a, Bnft[c]>> \in chain.operators \ chain.opened =>
         a = c /\ Version = "V2"

\* One function of the owner waits at most, and the guard says whether one
\* does, whatever loans run below and above it.
OwnerCallsExclude ==
  LET waiting == {k \in DOMAIN calls : calls[k].fn # "executeOperation"} IN
    /\ Cardinality(waiting) <= 1
    /\ chain.status = Entered <=> waiting # {}

\* A loan settled for a recipient who is not called back leaves the receiver
\* nothing of what its list names: no token and no coin is left behind.
SweptClean(f, k) ==
  LET e == f.list[k] IN
    CASE e.type \in {1, 2} -> Held(chain, e.of) = {}
      [] e.type \in {3, 4} -> chain.holder[e.of] # Receiver
      [] OTHER             -> TRUE
SweepComplete ==
  [][settleLoan /\ Head(calls).to \in EOAs =>
       \A k \in DOMAIN Head(calls).list : SweptClean(Head(calls), k)]_vars

\* Every settled loan is on record, under the account its tokens went to; in V3
\* that is the owner it began under, though ownership may pass to another and
\* nested loans be undone before the record is written.
Recorded(f, s) == /\ <<f.to, f.asset, f.ids, f.list>> \in s.records
                  /\ f.to = IF Version = "V3" THEN f.saved.owner ELSE f.by
LoanLeavesRecord == [][settleLoan => Recorded(Head(calls), chain')]_vars

\* A receiver deployed for its owner alone: what it holds leaves by a transfer
\* of his, in a loan of his, or by an approval.
OwnersLoan(stack) == /\ stack # << >> /\ Head(stack).fn = "executeOperation"
                     /\ Head(stack).by = Head(stack).saved.owner
OwnerDisposes ==
  [][Version = "V2" /\ DeployType # 0 => \A i \in Items :
       chain.holder[i] = Receiver /\ chain'.holder[i] # Receiver =>
         \/ revert
         \/ \E to \in Users : transferOut(chain.owner, to, i)
         \/ \E u \in Users : MayTake(chain, u, i)
         \/ OwnersLoan(calls) \/ OwnersLoan(calls')]_vars

\* What a loan leaves in the receiver, an entry of type 5 for one, does not stay
\* there if the owner keeps trying to transfer it: it leaves, and in a transaction
\* that is not undone.  Fairness: calls return or revert, a transaction that could
\* end again and again ends once, a transfer that is possible again and again is
\* made, and one that calls its recipient again and again is accepted once.
Finish == airdropReturns \/ transferNext \/ settleLoan \/ ownerCallReturns \/ revert
Committed == IF calls = << >> THEN chain ELSE calls[Len(calls)].saved
Accepted(i) == /\ ownerCallReturns /\ Head(calls).fn = "transfer"
               /\ Head(calls).saved.holder[i] = Receiver /\ chain.holder[i] # Receiver
FairSpec ==
  /\ Spec /\ WF_vars(Finish) /\ SF_vars(Finish /\ calls' = << >>)
  /\ \A i \in Items \ Bound :
       SF_vars(\E u, to \in Users : transferOut(u, to, i)) /\ SF_vars(Accepted(i))
LeftoversRetrievable ==
  \A i \in Items \ Bound :
    Committed.holder[i] = Receiver ~> Committed.holder[i] # Receiver
=============================================================================
