------------------------- MODULE MCFlashLoanReceiver -------------------------
(***************************************************************************)
(* FlashLoanReceiver for TLC: which tokens there are and what loans of     *)
(* them are to sweep.                                                      *)
(***************************************************************************)
EXTENDS FlashLoanReceiver, TLC

CONSTANTS bayc, azuki, apes, coins,  \* collections and airdropped assets
          b1, a1, x1, x2, y1,        \* their tokens
          e1, c1                     \* who may borrow

BnftOf == [c \in Collections |-> <<"bNFT", c>>]
Assets_ == [i \in Items |-> CASE i = b1 -> bayc          [] i = a1 -> azuki
                              [] i \in {x1, x2} -> apes  [] i = y1 -> coins]

\* A token of an account and one of a contract.
Borrowers == [i \in Items |-> CASE i = b1 -> e1 [] i = a1 -> c1 [] OTHER -> None]

\* Approvals are given to a contract and to one of the bNFT contracts.
SpendersSome == {c1, BnftOf[bayc]}

By(t, x) == [type |-> t, of |-> x]

\* A borrowed token by its id, which is of another loan or a mistake.
SweepBorrowed == {<<By(5, bayc), By(4, b1)>>}
\* Every token of an enumerable collection, the borrowed one by mistake, and an
\* amount, which one list has for an ERC20's and one for an ERC1155's; type 5
\* leaves behind what it names.
SweepMixed == {<<By(2, apes), By(1, coins)>>, <<By(2, bayc), By(5, apes)>>,
               <<By(3, y1)>>}
=============================================================================
