----------------------- MODULE MCAirdropDistribution -----------------------
(***************************************************************************)
(* AirdropDistribution for TLC: the airdrops each run may create.          *)
(***************************************************************************)
EXTENDS AirdropDistribution, TLC

CONSTANTS bayc, other, apes, badges

Offer(nft, token, tokenType, claimType) ==
  [nftAsset |-> nft, token |-> token, tokenType |-> tokenType, claimType |-> claimType]

\* ERC721: by equal ids and by lot, and one of a collection without a bNFT.
Offers721 == {Offer(bayc, apes, 2, 1), Offer(bayc, apes, 2, 3), Offer(other, apes, 2, 1)}

\* ERC1155: by equal ids, of different ids and by lot, and one with the wrong
\* token type.
Offers1155 == {Offer(bayc, badges, 3, 1), Offer(bayc, badges, 3, 2),
               Offer(bayc, badges, 3, 3), Offer(bayc, badges, 2, 1)}

\* By lot alone.
OffersVRF == {Offer(bayc, apes, 2, 3)}

\* Of different ids.
OffersDiff == {Offer(bayc, apes, 2, 2), Offer(bayc, badges, 3, 2)}

OffersAll == Offers721 \cup Offers1155

IdSymmetry == Permutations(Ids)
=============================================================================
