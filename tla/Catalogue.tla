----------------------------- MODULE Catalogue -----------------------------
(***************************************************************************)
(* What BNFTRegistry promises to those who look a bNFT up: a numbered list *)
(* of collections with one bNFT contract each, to which entries are added  *)
(* and from which none is ever removed, moved or replaced.  Which code a   *)
(* bNFT contract runs is nobody's concern here.                            *)
(***************************************************************************)
EXTENDS Naturals, Sequences

CONSTANTS Collections, Addresses
VARIABLE entries  \* by getBNFTAddressesByIndex: the collection and its bNFT

Init == entries = << >>

Listed(c) == \E k \in DOMAIN entries : entries[k][1] = c
Taken(p)  == \E k \in DOMAIN entries : entries[k][2] = p

enter(c, p) == /\ ~Listed(c) /\ ~Taken(p)
               /\ entries' = Append(entries, <<c, p>>)

Next == \E c \in Collections, p \in Addresses : enter(c, p)

Spec == Init /\ [][Next]_entries
=============================================================================
