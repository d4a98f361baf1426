-------------------------------- MODULE Vault --------------------------------
(***************************************************************************)
(* What a bNFT contract promises its depositors, transaction by            *)
(* transaction: a token is in custody from the deposit on, recorded with   *)
(* the account it came from and the owner of its bNFT, and leaves custody  *)
(* only when that bond is dissolved.  Flash loans, claims and airdrop      *)
(* calls are invisible at this level.                                      *)
(***************************************************************************)
CONSTANTS Tokens, Accounts, Holders, None

VARIABLES custody,  \* the tokens the contract holds
          bond      \* the minter and the bNFT owner of each token

NoBond == <<None, None>>

Init == custody = {} /\ bond = [t \in Tokens |-> NoBond]

Deposit(t, minter, bOwner) ==
  /\ bond[t] = NoBond /\ t \notin custody
  /\ bond' = [bond EXCEPT ![t] = <<minter, bOwner>>]
  /\ custody' = custody \cup {t}

\* Tokens sent to the contract without a deposit stay; whoever receives t may
\* even send it back in the same transaction.
Receive == /\ \E S \in SUBSET Tokens : custody' = custody \cup S
           /\ UNCHANGED bond

Withdraw(t) ==
  /\ bond[t] # NoBond
  /\ bond' = [bond EXCEPT ![t] = NoBond]
  /\ \E S \in SUBSET Tokens : custody' = (custody \ {t}) \cup S

Next == \/ \E t \in Tokens, m \in Accounts, o \in Holders : Deposit(t, m, o)
        \/ Receive
        \/ \E t \in Tokens : Withdraw(t)

Spec == Init /\ [][Next]_<<custody, bond>>
=============================================================================
