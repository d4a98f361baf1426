-------------------------- MODULE ClaimScriptsProofs --------------------------
(***************************************************************************)
(* Theorems of ClaimScripts, for any collection, any users and any lists   *)
(* of ids, and whichever scripts are run.                                  *)
(***************************************************************************)
EXTENDS ClaimScripts, SequenceTheorems, FiniteSetTheorems, TLAPS

\* The enumerations are those of two ERC721 contracts: a token is in one list,
\* once, and the bNFTs there are stand for the tokens the bNFT contract holds.
Exclusive(lists) ==
  /\ \A h \in DOMAIN lists : \A j, k \in DOMAIN lists[h] :
       lists[h][j] = lists[h][k] => j = k
  /\ \A h, g \in DOMAIN lists : \A j \in DOMAIN lists[h], k \in DOMAIN lists[g] :
       lists[h][j] = lists[g][k] => h = g
In(list, t) == \E k \in DOMAIN list : list[k] = t
WorldOK(w) ==
  /\ w \in World
  /\ Exclusive(w.held) /\ Exclusive(w.bound)
  /\ \A t \in Tokens : \E h \in Holders : In(w.held[h], t)
  /\ \A t \in Tokens : In(w.held[BNft], t) <=> \E u \in Users : In(w.bound[u], t)

-----------------------------------------------------------------------------
\* Lists.

LEMMA InRange ==
  ASSUME NEW list, NEW t
  PROVE  t \in Range(list) <=> In(list, t)
BY DEF Range, In

\* A token that leaves a list leaves the others in it.
LEMMA WithoutIs ==
  ASSUME NEW list \in Seq(Tokens), NEW t, In(list, t),
         \A j, k \in DOMAIN list : list[j] = list[k] => j = k
  PROVE  LET new == Without(list, t) IN
         /\ new \in Seq(Tokens)
         /\ \A j, k \in DOMAIN new : new[j] = new[k] => j = k
         /\ \A s : In(new, s) <=> In(list, s) /\ s # t
<1> DEFINE k == CHOOSE j \in DOMAIN list : list[j] = t
           n == Len(list)
           new == [j \in 1..(n - 1) |-> IF j = k THEN list[n] ELSE list[j]]
<1>1. k \in DOMAIN list /\ list[k] = t BY DEF In
<1>2. n \in Nat /\ DOMAIN list = 1..n /\ \A j \in 1..n : list[j] \in Tokens
  OBVIOUS
<1> HIDE DEF k, n
<1>3. n >= 1 /\ n - 1 \in Nat /\ n \in 1..n BY <1>1, <1>2
<1>4. DOMAIN new = 1..(n - 1) /\ 1..(n - 1) \subseteq 1..n BY <1>2, <1>3
<1>5. \A j \in 1..(n - 1) : /\ new[j] \in Tokens
                            /\ new[j] = IF j = k THEN list[n] ELSE list[j]
  BY <1>2, <1>3, <1>4
<1>6. new \in Seq(Tokens)
  <2>1. new \in [1..(n - 1) -> Tokens] BY <1>5
  <2> QED BY <1>3, <2>1, SeqDef
<1>7. \A i, j \in 1..(n - 1) : new[i] = new[j] => i = j
  <2> SUFFICES ASSUME NEW i \in 1..(n - 1), NEW j \in 1..(n - 1), new[i] = new[j]
               PROVE  i = j
    OBVIOUS
  <2>1. i # n /\ j # n BY <1>2
  <2> QED BY <1>2, <1>3, <1>4, <1>5, <2>1
<1>8. \A s : In(new, s) => In(list, s) /\ s # t
  <2> SUFFICES ASSUME NEW s, NEW j \in 1..(n - 1), new[j] = s
               PROVE  In(list, s) /\ s # t
    BY <1>4 DEF In
  <2>1. j # n BY <1>2
  <2>2. CASE j = k
    <3>1. s = list[n] /\ n # k BY <1>5, <2>1, <2>2
    <3> QED BY <1>1, <1>2, <1>3, <3>1 DEF In
  <2>3. CASE j # k
    <3>1. s = list[j] BY <1>5, <2>3
    <3> QED BY <1>1, <1>2, <1>4, <2>3, <3>1 DEF In
  <2> QED BY <2>2, <2>3
<1>9. \A s : In(list, s) /\ s # t => In(new, s)
  <2> SUFFICES ASSUME NEW s, NEW j \in 1..n, list[j] = s, s # t PROVE In(new, s)
    BY <1>2 DEF In
  <2>1. j # k BY <1>1
  <2>2. CASE j = n
    <3>1. k \in 1..(n - 1) BY <1>1, <1>2, <2>1, <2>2
    <3>2. new[k] = s BY <1>5, <2>2, <3>1
    <3> QED BY <1>4, <3>1, <3>2 DEF In
  <2>3. CASE j # n
    <3>1. j \in 1..(n - 1) BY <1>2, <2>3
    <3>2. new[j] = s BY <1>5, <2>1, <3>1
    <3> QED BY <1>4, <3>1, <3>2 DEF In
  <2> QED BY <2>2, <2>3
<1> QED BY <1>4, <1>6, <1>7, <1>8, <1>9 DEF Without, k, n

LEMMA AppendIs ==
  ASSUME NEW S, NEW list \in Seq(S), NEW t \in S
  PROVE  LET new == Append(list, t) IN
         /\ new \in Seq(S) /\ DOMAIN new = 1..(Len(list) + 1) /\ Len(list) \in Nat
         /\ DOMAIN list = 1..Len(list)
         /\ new[Len(list) + 1] = t /\ \A k \in DOMAIN list : new[k] = list[k]
         /\ \A s : In(new, s) <=> In(list, s) \/ s = t
<1>1. LET new == Append(list, t) IN
      /\ new \in Seq(S) /\ DOMAIN new = 1..(Len(list) + 1) /\ Len(list) \in Nat
      /\ DOMAIN list = 1..Len(list)
      /\ new[Len(list) + 1] = t /\ \A k \in DOMAIN list : new[k] = list[k]
  OBVIOUS
<1> QED BY <1>1 DEF In

LEMMA AppendKeepsInjective ==
  ASSUME NEW list \in Seq(Tokens), NEW t \in Tokens, ~In(list, t),
         \A j, k \in DOMAIN list : list[j] = list[k] => j = k
  PROVE  \A j, k \in DOMAIN Append(list, t) :
           Append(list, t)[j] = Append(list, t)[k] => j = k
<1> DEFINE new == Append(list, t)
           n == Len(list)
<1>1. /\ DOMAIN new = 1..(n + 1) /\ n \in Nat /\ DOMAIN list = 1..n
      /\ new[n + 1] = t /\ \A k \in DOMAIN list : new[k] = list[k]
  BY AppendIs
<1>2. \A k \in 1..n : list[k] # t BY <1>1 DEF In
<1> HIDE DEF new, n
<1>3. \A j \in 1..(n + 1) : j = n + 1 \/ j \in 1..n BY <1>1
<1> QED BY <1>1, <1>2, <1>3 DEF new

LEMMA ExclusiveIs ==
  ASSUME NEW lists,
         \A h \in DOMAIN lists : \A j, k \in DOMAIN lists[h] :
           lists[h][j] = lists[h][k] => j = k,
         \A h, g \in DOMAIN lists : \A s : In(lists[h], s) /\ In(lists[g], s) => h = g
  PROVE  Exclusive(lists)
<1>1. \A h, g \in DOMAIN lists : \A j \in DOMAIN lists[h], k \in DOMAIN lists[g] :
        lists[h][j] = lists[g][k] => h = g
  <2> SUFFICES ASSUME NEW h \in DOMAIN lists, NEW g \in DOMAIN lists,
                      NEW j \in DOMAIN lists[h], NEW k \in DOMAIN lists[g],
                      lists[h][j] = lists[g][k]
               PROVE  h = g
    OBVIOUS
  <2>1. In(lists[h], lists[h][j]) /\ In(lists[g], lists[h][j]) BY DEF In
  <2> QED BY <2>1
<1> QED BY <1>1, Zenon DEF Exclusive

\* A token that goes from one list to another.
LEMMA PassIs ==
  ASSUME NEW D, NEW lists \in [D -> Seq(Tokens)], Exclusive(lists),
         NEW from \in D, NEW to \in D, from # to, NEW t \in Tokens, In(lists[from], t)
  PROVE  LET new == [lists EXCEPT ![from] = Without(@, t), ![to] = Append(@, t)] IN
         /\ new \in [D -> Seq(Tokens)] /\ Exclusive(new)
         /\ \A h \in D : \A s : In(new[h], s) <=>
              IF s = t THEN h = to ELSE In(lists[h], s)
<1> DEFINE new == [lists EXCEPT ![from] = Without(@, t), ![to] = Append(@, t)]
<1>1. \A h \in D : In(lists[h], t) => h = from BY DEF Exclusive, In
<1>2. \A h \in D : \A j, k \in DOMAIN lists[h] : lists[h][j] = lists[h][k] => j = k
  BY DEF Exclusive
<1>3. /\ new[from] \in Seq(Tokens)
      /\ \A j, k \in DOMAIN new[from] : new[from][j] = new[from][k] => j = k
      /\ \A s : In(new[from], s) <=> In(lists[from], s) /\ s # t
  <2>1. new[from] = Without(lists[from], t) OBVIOUS
  <2> QED BY <1>2, <2>1, WithoutIs
<1>4. /\ new[to] \in Seq(Tokens)
      /\ \A j, k \in DOMAIN new[to] : new[to][j] = new[to][k] => j = k
      /\ \A s : In(new[to], s) <=> In(lists[to], s) \/ s = t
  <2>1. new[to] = Append(lists[to], t) /\ ~In(lists[to], t) BY <1>1
  <2>2. lists[to] \in Seq(Tokens) OBVIOUS
  <2>3. /\ Append(lists[to], t) \in Seq(Tokens)
        /\ \A s : In(Append(lists[to], t), s) <=> In(lists[to], s) \/ s = t
    BY <2>2, AppendIs
  <2>4. \A j, k \in DOMAIN Append(lists[to], t) :
          Append(lists[to], t)[j] = Append(lists[to], t)[k] => j = k
    BY <1>2, <2>1, <2>2, AppendKeepsInjective
  <2> QED BY <2>1, <2>3, <2>4
<1>5. DOMAIN new = D /\ \A h \in D \ {from, to} : new[h] = lists[h] OBVIOUS
<1> HIDE DEF new
<1>6. new \in [D -> Seq(Tokens)]
  <2>1. \A h \in D : new[h] \in Seq(Tokens) BY <1>3, <1>4, <1>5
  <2>2. new = [h \in D |-> new[h]] BY <1>5 DEF new
  <2> QED BY <2>1, <2>2
<1>7. \A h \in D : \A s : In(new[h], s) <=> IF s = t THEN h = to ELSE In(lists[h], s)
  BY <1>1, <1>3, <1>4, <1>5
<1>8. \A h \in D : \A j, k \in DOMAIN new[h] : new[h][j] = new[h][k] => j = k
  BY <1>2, <1>3, <1>4, <1>5
<1>9. \A h, g \in D : \A s : In(new[h], s) /\ In(new[g], s) => h = g
  <2>1. \A h, g \in D : \A s : In(lists[h], s) /\ In(lists[g], s) => h = g
    BY DEF Exclusive, In
  <2> QED BY <1>7, <2>1
<1>10. Exclusive(new)
  <2>1. \A h, g \in D : \A j \in DOMAIN new[h], k \in DOMAIN new[g] :
          new[h][j] = new[g][k] => h = g
    <3> SUFFICES ASSUME NEW h \in D, NEW g \in D,
                        NEW j \in DOMAIN new[h], NEW k \in DOMAIN new[g],
                        new[h][j] = new[g][k]
                 PROVE  h = g
      OBVIOUS
    <3>1. In(new[h], new[h][j]) /\ In(new[g], new[h][j]) BY DEF In
    <3> QED BY <1>9, <3>1
  <2>2. DOMAIN new = D BY <1>5
  <2>3. \A h \in DOMAIN new : \A j, k \in DOMAIN new[h] : new[h][j] = new[h][k] => j = k
    BY <1>8, <2>2
  <2>4. \A h, g \in DOMAIN new : \A j \in DOMAIN new[h], k \in DOMAIN new[g] :
          new[h][j] = new[g][k] => h = g
    BY <2>1, <2>2
  <2> QED BY <2>3, <2>4, Zenon DEF Exclusive
<1> QED BY <1>6, <1>7, <1>10 DEF new

\* A token that comes into a list, having been in none.
LEMMA AddIs ==
  ASSUME NEW D, NEW lists \in [D -> Seq(Tokens)], Exclusive(lists),
         NEW to \in D, NEW t \in Tokens, \A h \in D : ~In(lists[h], t)
  PROVE  LET new == [lists EXCEPT ![to] = Append(@, t)] IN
         /\ new \in [D -> Seq(Tokens)] /\ Exclusive(new)
         /\ \A h \in D : \A s : In(new[h], s) <=> In(lists[h], s) \/ (h = to /\ s = t)
<1> DEFINE new == [lists EXCEPT ![to] = Append(@, t)]
<1>1. \A h \in D : \A j, k \in DOMAIN lists[h] : lists[h][j] = lists[h][k] => j = k
  BY DEF Exclusive
<1>2. /\ new[to] \in Seq(Tokens)
      /\ \A j, k \in DOMAIN new[to] : new[to][j] = new[to][k] => j = k
      /\ \A s : In(new[to], s) <=> In(lists[to], s) \/ s = t
  <2>1. lists[to] \in Seq(Tokens) /\ new[to] = Append(lists[to], t) OBVIOUS
  <2>2. /\ Append(lists[to], t) \in Seq(Tokens)
        /\ \A s : In(Append(lists[to], t), s) <=> In(lists[to], s) \/ s = t
    BY <2>1, AppendIs
  <2>3. \A j, k \in DOMAIN Append(lists[to], t) :
          Append(lists[to], t)[j] = Append(lists[to], t)[k] => j = k
    BY <1>1, <2>1, AppendKeepsInjective
  <2> QED BY <2>1, <2>2, <2>3
<1>3. DOMAIN new = D /\ \A h \in D \ {to} : new[h] = lists[h] OBVIOUS
<1> HIDE DEF new
<1>4. \A h \in D : \A s : In(new[h], s) <=> In(lists[h], s) \/ (h = to /\ s = t)
  BY <1>2, <1>3
<1>5. \A h \in D : \A j, k \in DOMAIN new[h] : new[h][j] = new[h][k] => j = k
  BY <1>1, <1>2, <1>3
<1>6. new \in [D -> Seq(Tokens)]
  <2>1. \A h \in D : new[h] \in Seq(Tokens) BY <1>2, <1>3
  <2>2. new = [h \in D |-> new[h]] BY <1>3 DEF new
  <2> QED BY <2>1, <2>2
<1>7. Exclusive(new)
  <2>1. \A h, g \in D : \A s : In(new[h], s) /\ In(new[g], s) => h = g
    <3>1. \A h, g \in D : \A s : In(lists[h], s) /\ In(lists[g], s) => h = g
      BY DEF Exclusive, In
    <3> SUFFICES ASSUME NEW h \in D, NEW g \in D, NEW s, In(new[h], s), In(new[g], s)
                 PROVE  h = g
      OBVIOUS
    <3>2. CASE s = t BY <1>4, <3>2
    <3>3. CASE s # t
      <4>1. In(lists[h], s) /\ In(lists[g], s) BY <1>4, <3>3
      <4> QED BY <3>1, <4>1
    <3> QED BY <3>2, <3>3
  <2> QED BY <1>3, <1>5, <2>1, ExclusiveIs
<1> QED BY <1>4, <1>6, <1>7 DEF new

\* A token that leaves its list for none.
LEMMA RemoveIs ==
  ASSUME NEW D, NEW lists \in [D -> Seq(Tokens)], Exclusive(lists),
         NEW from \in D, NEW t \in Tokens, In(lists[from], t)
  PROVE  LET new == [lists EXCEPT ![from] = Without(@, t)] IN
         /\ new \in [D -> Seq(Tokens)] /\ Exclusive(new)
         /\ \A h \in D : \A s : In(new[h], s) <=> In(lists[h], s) /\ s # t
<1> DEFINE new == [lists EXCEPT ![from] = Without(@, t)]
<1>1. \A h \in D : \A j, k \in DOMAIN lists[h] : lists[h][j] = lists[h][k] => j = k
  BY DEF Exclusive
<1>2. \A h \in D : In(lists[h], t) => h = from BY DEF Exclusive, In
<1>3. /\ new[from] \in Seq(Tokens)
      /\ \A j, k \in DOMAIN new[from] : new[from][j] = new[from][k] => j = k
      /\ \A s : In(new[from], s) <=> In(lists[from], s) /\ s # t
  <2>1. lists[from] \in Seq(Tokens) /\ new[from] = Without(lists[from], t) OBVIOUS
  <2> QED BY <1>1, <2>1, WithoutIs
<1>4. DOMAIN new = D /\ \A h \in D \ {from} : new[h] = lists[h] OBVIOUS
<1> HIDE DEF new
<1>5. \A h \in D : \A s : In(new[h], s) <=> In(lists[h], s) /\ s # t
  BY <1>2, <1>3, <1>4
<1>6. \A h \in D : \A j, k \in DOMAIN new[h] : new[h][j] = new[h][k] => j = k
  BY <1>1, <1>3, <1>4
<1>7. new \in [D -> Seq(Tokens)]
  <2>1. \A h \in D : new[h] \in Seq(Tokens) BY <1>3, <1>4
  <2>2. new = [h \in D |-> new[h]] BY <1>4 DEF new
  <2> QED BY <2>1, <2>2
<1>8. Exclusive(new)
  <2>1. \A h, g \in D : \A s : In(new[h], s) /\ In(new[g], s) => h = g
    <3>1. \A h, g \in D : \A s : In(lists[h], s) /\ In(lists[g], s) => h = g
      BY DEF Exclusive, In
    <3> QED BY <1>5, <3>1
  <2> QED BY <1>4, <1>6, <2>1, ExclusiveIs
<1> QED BY <1>5, <1>7, <1>8 DEF new

-----------------------------------------------------------------------------
\* Worlds.

LEMMA WorldTypes ==
  ASSUME NEW w \in World
  PROVE  /\ w.held \in [Holders -> Seq(Tokens)] /\ w.bound \in [Users -> Seq(Tokens)]
         /\ w.claimed \subseteq Tokens /\ w.drop \in [Tokens -> Places]
         /\ w.credit \in [Users -> Seq(Tokens)] /\ w.byBalance \in BOOLEAN
         /\ w.owner \in Users /\ w.claimAdmin \in Users
BY DEF World

LEMMA Kinds == /\ Users \subseteq Holders /\ BNft \in Holders /\ BNft \notin Users
               /\ Distribution # Nobody /\ Distribution # BNft /\ Operator \in Users
               /\ Nobody \notin Users /\ Nobody \notin Tokens /\ Nobody # BNft
               /\ Users \cup {BNft, Distribution, Nobody} = Places
BY ClaimConstants DEF Holders, Places

\* Where a token is, and whose it is.
LEMMA OwnersAre ==
  ASSUME NEW w, WorldOK(w), NEW t \in Tokens
  PROVE  /\ IsBound(w, t) <=> In(w.held[BNft], t)
         /\ HolderOf(w, t) \in Holders /\ In(w.held[HolderOf(w, t)], t)
         /\ HolderOf(w, t) = BNft <=> IsBound(w, t)
         /\ IsBound(w, t) => /\ BnftOwner(w, t) \in Users
                             /\ In(w.bound[BnftOwner(w, t)], t)
         /\ UserOf(w, t) \in Users
<1>1. \A list, s : s \in Range(list) <=> In(list, s) BY InRange
<1>2. IsBound(w, t) <=> In(w.held[BNft], t) BY <1>1 DEF IsBound
<1>3. HolderOf(w, t) \in Holders /\ In(w.held[HolderOf(w, t)], t)
  <2>1. \E h \in Holders : t \in Range(w.held[h]) BY <1>1 DEF WorldOK
  <2>2. HolderOf(w, t) \in Holders /\ t \in Range(w.held[HolderOf(w, t)])
    BY <2>1, Zenon DEF HolderOf
  <2> QED BY <1>1, <2>2
<1>4. HolderOf(w, t) = BNft <=> IsBound(w, t)
  <2>1. \A h \in Holders : In(w.held[h], t) /\ In(w.held[BNft], t) => h = BNft
    <3>1. DOMAIN w.held = Holders /\ Exclusive(w.held) BY WorldTypes DEF WorldOK
    <3> QED BY <3>1, Kinds DEF Exclusive, In
  <2> QED BY <1>2, <1>3, <2>1
<1>5. IsBound(w, t) => BnftOwner(w, t) \in Users /\ In(w.bound[BnftOwner(w, t)], t)
  <2> SUFFICES ASSUME IsBound(w, t)
               PROVE  BnftOwner(w, t) \in Users /\ In(w.bound[BnftOwner(w, t)], t)
    OBVIOUS
  <2>1. \E u \in Users : t \in Range(w.bound[u]) BY <1>1, <1>2 DEF WorldOK
  <2>2. BnftOwner(w, t) \in Users /\ t \in Range(w.bound[BnftOwner(w, t)])
    BY <2>1, Zenon DEF BnftOwner
  <2> QED BY <1>1, <2>2
<1>6. UserOf(w, t) \in Users BY <1>3, <1>4, <1>5, Kinds DEF UserOf, Holders
<1> QED BY <1>2, <1>3, <1>4, <1>5, <1>6

\* What others do to the tokens leaves the contracts in order.
LEMMA BindKeeps ==
  ASSUME NEW w, WorldOK(w), NEW u \in Users, NEW to \in Users, NEW t \in Tokens,
         In(w.held[u], t)
  PROVE  WorldOK([w EXCEPT !.held = [w.held EXCEPT ![u] = Without(@, t),
                                                   ![BNft] = Append(@, t)],
                           !.bound[to] = Append(@, t)])
<1>1. w \in World /\ Exclusive(w.held) /\ Exclusive(w.bound) BY DEF WorldOK
<1> DEFINE held  == [w.held EXCEPT ![u] = Without(@, t), ![BNft] = Append(@, t)]
           bound == [w.bound EXCEPT ![to] = Append(@, t)]
           v     == [w EXCEPT !.held = held, !.bound = bound]
<1>2. /\ held \in [Holders -> Seq(Tokens)] /\ Exclusive(held)
      /\ \A h \in Holders : \A s : In(held[h], s) <=>
           IF s = t THEN h = BNft ELSE In(w.held[h], s)
  <2>1. u \in Holders /\ BNft \in Holders /\ u # BNft BY Kinds
  <2>2. w.held \in [Holders -> Seq(Tokens)] BY <1>1, WorldTypes
  <2>3. ASSUME NEW lists \in [Holders -> Seq(Tokens)], Exclusive(lists), In(lists[u], t)
        PROVE  LET new == [lists EXCEPT ![u] = Without(@, t), ![BNft] = Append(@, t)] IN
               /\ new \in [Holders -> Seq(Tokens)] /\ Exclusive(new)
               /\ \A h \in Holders : \A s : In(new[h], s) <=>
                    IF s = t THEN h = BNft ELSE In(lists[h], s)
    BY <2>1, <2>3, PassIs
  <2> QED BY <1>1, <2>2, <2>3
<1>3. ~In(w.held[BNft], t)
  <2>1. DOMAIN w.held = Holders BY <1>1, WorldTypes
  <2> QED BY <1>1, <2>1, Kinds DEF Exclusive, In
<1>4. /\ bound \in [Users -> Seq(Tokens)] /\ Exclusive(bound)
      /\ \A h \in Users : \A s : In(bound[h], s) <=> In(w.bound[h], s) \/ (h = to /\ s = t)
  <2>1. \A h \in Users : ~In(w.bound[h], t) BY <1>3 DEF WorldOK
  <2>2. w.bound \in [Users -> Seq(Tokens)] BY <1>1, WorldTypes
  <2> QED BY <1>1, <2>1, <2>2, AddIs
<1>5. WorldOK([w EXCEPT !.held = [w.held EXCEPT ![u] = Without(@, t),
                                                ![BNft] = Append(@, t)],
                        !.bound[to] = Append(@, t)]) <=> WorldOK(v)
  OBVIOUS
<1> HIDE DEF held, bound
<1>6. v.held = held /\ v.bound = bound /\ v \in World BY <1>1, <1>2, <1>4 DEF World
<1>7. \A s \in Tokens : \E h \in Holders : In(held[h], s)
  <2>1. \A s \in Tokens : \E h \in Holders : In(w.held[h], s) BY DEF WorldOK
  <2> QED BY <1>2, <2>1, Kinds
<1>8. \A s \in Tokens : In(held[BNft], s) <=> \E h \in Users : In(bound[h], s)
  <2>1. \A s \in Tokens : In(w.held[BNft], s) <=> \E h \in Users : In(w.bound[h], s)
    BY DEF WorldOK
  <2> QED BY <1>2, <1>4, <2>1, Kinds
<1> HIDE DEF v
<1> QED BY <1>2, <1>4, <1>5, <1>6, <1>7, <1>8 DEF WorldOK

LEMMA ReleaseKeeps ==
  ASSUME NEW w, WorldOK(w), NEW to \in Users, NEW t \in Tokens, IsBound(w, t),
         NEW v, v = [w EXCEPT !.held = [w.held EXCEPT ![BNft] = Without(@, t),
                                                      ![to] = Append(@, t)],
                              !.bound[BnftOwner(w, t)] = Without(@, t)]
  PROVE  WorldOK(v)
<1>1. w \in World /\ Exclusive(w.held) /\ Exclusive(w.bound) BY DEF WorldOK
<1> DEFINE u     == BnftOwner(w, t)
           held  == [w.held EXCEPT ![BNft] = Without(@, t), ![to] = Append(@, t)]
           bound == [w.bound EXCEPT ![u] = Without(@, t)]
<1>2. u \in Users /\ In(w.bound[u], t) /\ In(w.held[BNft], t) BY OwnersAre
<1>3. v = [w EXCEPT !.held = held, !.bound = bound] OBVIOUS
<1> HIDE DEF u
<1>4. /\ held \in [Holders -> Seq(Tokens)] /\ Exclusive(held)
      /\ \A h \in Holders : \A s : In(held[h], s) <=>
           IF s = t THEN h = to ELSE In(w.held[h], s)
  <2>1. to \in Holders /\ BNft \in Holders /\ to # BNft BY Kinds
  <2>2. w.held \in [Holders -> Seq(Tokens)] BY <1>1, WorldTypes
  <2> QED BY <1>1, <1>2, <2>1, <2>2, PassIs
<1>5. /\ bound \in [Users -> Seq(Tokens)] /\ Exclusive(bound)
      /\ \A h \in Users : \A s : In(bound[h], s) <=> In(w.bound[h], s) /\ s # t
  <2>1. w.bound \in [Users -> Seq(Tokens)] BY <1>1, WorldTypes
  <2> QED BY <1>1, <1>2, <2>1, RemoveIs
<1> HIDE DEF held, bound
<1>6. v.held = held /\ v.bound = bound /\ v \in World BY <1>1, <1>3, <1>4, <1>5 DEF World
<1>7. \A s \in Tokens : \E h \in Holders : In(held[h], s)
  <2>1. \A s \in Tokens : \E h \in Holders : In(w.held[h], s) BY DEF WorldOK
  <2> QED BY <1>4, <2>1, Kinds
<1>8. \A s \in Tokens : In(held[BNft], s) <=> \E h \in Users : In(bound[h], s)
  <2>1. \A s \in Tokens : In(w.held[BNft], s) <=> \E h \in Users : In(w.bound[h], s)
    BY DEF WorldOK
  <2> QED BY <1>4, <1>5, <2>1, Kinds
<1> QED BY <1>4, <1>5, <1>6, <1>7, <1>8 DEF WorldOK

LEMMA SellKeeps ==
  ASSUME NEW w, WorldOK(w), NEW u \in Users, NEW to \in Users, u # to, NEW t \in Tokens,
         In(w.held[u], t)
  PROVE  WorldOK([w EXCEPT !.held = [w.held EXCEPT ![u] = Without(@, t),
                                                   ![to] = Append(@, t)]])
<1>1. w \in World /\ Exclusive(w.held) /\ Exclusive(w.bound) BY DEF WorldOK
<1> DEFINE held == [w.held EXCEPT ![u] = Without(@, t), ![to] = Append(@, t)]
           v    == [w EXCEPT !.held = held]
<1>3. /\ held \in [Holders -> Seq(Tokens)] /\ Exclusive(held)
      /\ \A h \in Holders : \A s : In(held[h], s) <=>
           IF s = t THEN h = to ELSE In(w.held[h], s)
  <2>1. to \in Holders /\ u \in Holders BY Kinds
  <2>2. w.held \in [Holders -> Seq(Tokens)] BY <1>1, WorldTypes
  <2>3. ASSUME NEW lists \in [Holders -> Seq(Tokens)], Exclusive(lists), In(lists[u], t)
        PROVE  LET new == [lists EXCEPT ![u] = Without(@, t), ![to] = Append(@, t)] IN
               /\ new \in [Holders -> Seq(Tokens)] /\ Exclusive(new)
               /\ \A h \in Holders : \A s : In(new[h], s) <=>
                    IF s = t THEN h = to ELSE In(lists[h], s)
    BY <2>1, <2>3, PassIs
  <2> QED BY <1>1, <2>2, <2>3
<1>4. ~In(w.held[BNft], t)
  <2>1. DOMAIN w.held = Holders BY <1>1, WorldTypes
  <2> QED BY <1>1, <2>1, Kinds DEF Exclusive, In
<1>2. WorldOK([w EXCEPT !.held = [w.held EXCEPT ![u] = Without(@, t),
                                                ![to] = Append(@, t)]]) <=> WorldOK(v)
  OBVIOUS
<1> HIDE DEF held
<1>5. v.held = held /\ v.bound = w.bound /\ v \in World BY <1>1, <1>3 DEF World
<1>6. \A s \in Tokens : \E h \in Holders : In(held[h], s)
  <2>1. \A s \in Tokens : \E h \in Holders : In(w.held[h], s) BY DEF WorldOK
  <2> QED BY <1>3, <2>1, Kinds
<1>7. \A s \in Tokens : In(held[BNft], s) <=> \E h \in Users : In(w.bound[h], s)
  <2>1. \A s \in Tokens : In(w.held[BNft], s) <=> \E h \in Users : In(w.bound[h], s)
    BY DEF WorldOK
  <2> QED BY <1>3, <1>4, <2>1, Kinds
<1> HIDE DEF v
<1> QED BY <1>1, <1>2, <1>3, <1>5, <1>6, <1>7 DEF WorldOK

-----------------------------------------------------------------------------
\* Transactions.

Configure  == "dev:configure-airdrop-distribution"
Distribute == "azuki:distribution"
Ops == {"execute", "claim", "transfer", "snapshot", "apply", "clear", "configure"}
Txs == [op : Ops, by : Users, to : Places, ids : Seq(Tokens)]

\* Where the airdrop for t is to be counted on.
Delivered(w, t) == ~w.byBalance => w.drop[t] = Distribution

\* What is sent for a user names one, and is for one token at least; he is given
\* it when its airdrop is there.
TxOK(tx, w) ==
  /\ tx.op # "execute" => tx.ids # << >>
  /\ tx.op \in {"transfer", "clear", "configure"} => tx.to \in Users
  /\ tx.op = "configure" => Delivered(w, tx.ids[1])

\* CreditBacked, list by list.
Backing(w) == \A u \in Users : \A t \in Tokens : In(w.credit[u], t) => Delivered(w, t)

LEMMA FirstId ==
  ASSUME NEW tx \in Txs, NEW w, TxOK(tx, w), tx.op # "execute"
  PROVE  tx.ids[1] \in Tokens
BY DEF Txs, TxOK

LEMMA TxTypes ==
  ASSUME NEW tx \in Txs
  PROVE  /\ tx.op \in Ops /\ tx.by \in Users /\ tx.to \in Places
         /\ tx.ids \in Seq(Tokens)
BY DEF Txs

\* An airdrop that has reached the distribution stays there.
LEMMA ExecutionIs ==
  ASSUME NEW w, WorldOK(w), NEW tx \in Txs, TxOK(tx, w), Backing(w),
         NEW v, v = Execution(w, tx)
  PROVE  /\ WorldOK(v) /\ v.held = w.held /\ v.bound = w.bound /\ Backing(v)
         /\ \A t \in Tokens : Delivered(w, t) => Delivered(v, t)
         /\ tx.op = "claim" /\ tx.to = Distribution /\ Permits(w, tx)
              => Delivered(v, tx.ids[1])
<1> USE DEF Execution
<1>1. w \in World BY DEF WorldOK
<1>2. /\ w.drop \in [Tokens -> Places] /\ w.credit \in [Users -> Seq(Tokens)]
      /\ w.claimed \subseteq Tokens
  BY <1>1, WorldTypes
<1>3. /\ tx.op \in Ops /\ tx.by \in Users /\ tx.to \in Places /\ tx.ids \in Seq(Tokens)
  BY TxTypes
<1>4. tx.op # "execute" => tx.ids[1] \in Tokens BY FirstId
<1>5. ASSUME v \in World, v.held = w.held, v.bound = w.bound, v.byBalance = w.byBalance,
             \A t \in Tokens : w.drop[t] = Distribution => v.drop[t] = Distribution,
             \A u \in Users : \A t \in Tokens : In(v.credit[u], t) =>
               In(w.credit[u], t) \/ Delivered(w, t),
             tx.op = "claim" /\ tx.to = Distribution /\ Permits(w, tx)
               => (~w.byBalance => v.drop[tx.ids[1]] = Distribution)
      PROVE  /\ WorldOK(v) /\ v.held = w.held /\ v.bound = w.bound /\ Backing(v)
             /\ \A t \in Tokens : Delivered(w, t) => Delivered(v, t)
             /\ tx.op = "claim" /\ tx.to = Distribution /\ Permits(w, tx)
                  => Delivered(v, tx.ids[1])
  <2>1. WorldOK(v) BY <1>5 DEF WorldOK
  <2>2. \A t \in Tokens : Delivered(w, t) => Delivered(v, t)
    BY <1>5 DEF Delivered
  <2>3. Backing(v) BY <1>5, <2>2 DEF Backing
  <2>4. tx.op = "claim" /\ tx.to = Distribution /\ Permits(w, tx)
          => Delivered(v, tx.ids[1])
    BY <1>5 DEF Delivered
  <2> QED BY <1>5, <2>1, <2>2, <2>3, <2>4
<1>6. CASE ~Permits(w, tx)
  <2>1. v = w BY <1>6
  <2> QED BY <1>1, <1>5, <1>6, <2>1
<1>7. CASE Permits(w, tx) /\ tx.op = "execute"
  <2>1. Range(tx.ids) \subseteq Tokens BY <1>3 DEF Range
  <2>2. v = [w EXCEPT !.claimed = w.claimed \cup Range(tx.ids)] BY <1>7 DEF Effect
  <2>3. /\ v \in World /\ v.held = w.held /\ v.bound = w.bound /\ v.byBalance = w.byBalance
        /\ v.drop = w.drop /\ v.credit = w.credit
    BY <1>1, <1>2, <2>1, <2>2 DEF World
  <2> QED BY <1>5, <1>7, <2>3
<1>8. CASE Permits(w, tx) /\ tx.op = "claim"
  <2> DEFINE drop == [s \in Tokens |->
                        IF s \in Dropped(w, tx.ids[1]) THEN tx.to ELSE w.drop[s]]
  <2>1. v = [w EXCEPT !.drop = drop] BY <1>8 DEF Effect
  <2>2. drop \in [Tokens -> Places] BY <1>2, <1>3
  <2>3. \A t \in Tokens : w.drop[t] = Distribution => drop[t] = Distribution
    BY Kinds DEF Dropped
  <2>4. tx.to = Distribution /\ ~w.byBalance => drop[tx.ids[1]] = Distribution
    BY <1>4, <1>8 DEF Permits, Dropped
  <2> HIDE DEF drop
  <2>5. /\ v \in World /\ v.held = w.held /\ v.bound = w.bound /\ v.byBalance = w.byBalance
        /\ v.drop = drop /\ v.credit = w.credit
    BY <1>1, <2>1, <2>2 DEF World
  <2> QED BY <1>5, <2>3, <2>4, <2>5
<1>9. CASE Permits(w, tx) /\ tx.op = "transfer"
  <2>1. v = [w EXCEPT !.owner = tx.to] BY <1>9 DEF Effect
  <2>2. tx.to \in Users BY <1>9 DEF TxOK
  <2>3. /\ v \in World /\ v.held = w.held /\ v.bound = w.bound /\ v.byBalance = w.byBalance
        /\ v.drop = w.drop /\ v.credit = w.credit
    BY <1>1, <2>1, <2>2 DEF World
  <2> QED BY <1>5, <1>9, <2>3
<1>10. CASE Permits(w, tx) /\ tx.op \in {"snapshot", "apply"}
  <2> DEFINE t     == tx.ids[1]
             place == IF tx.op = "snapshot" THEN BNft ELSE tx.by
             drop  == [w.drop EXCEPT ![t] = place]
  <2>1. v = [w EXCEPT !.drop = drop] BY <1>1, <1>10 DEF Effect, World
  <2>2. place \in Places /\ t \in Tokens BY <1>3, <1>4, <1>10, Kinds
  <2>3. w.drop[t] # Distribution BY <1>10, Kinds DEF Permits
  <2> HIDE DEF place, t
  <2>4. drop \in [Tokens -> Places] BY <1>2, <2>2
  <2>5. \A s \in Tokens : w.drop[s] = Distribution => drop[s] = Distribution
    BY <1>2, <2>3
  <2> HIDE DEF drop
  <2>6. /\ v \in World /\ v.held = w.held /\ v.bound = w.bound /\ v.byBalance = w.byBalance
        /\ v.drop = drop /\ v.credit = w.credit
    BY <1>1, <2>1, <2>4 DEF World
  <2> QED BY <1>5, <1>10, <2>5, <2>6
<1>11. CASE Permits(w, tx) /\ tx.op = "clear"
  <2> DEFINE credit == [w.credit EXCEPT ![tx.to] = << >>]
  <2>1. v = [w EXCEPT !.credit = credit] BY <1>1, <1>11 DEF Effect, World
  <2>2. credit \in [Users -> Seq(Tokens)] BY <1>2, EmptySeq
  <2>3. \A u \in Users : credit[u] = w.credit[u] \/ credit[u] = << >> BY <1>2
  <2> HIDE DEF credit
  <2>4. \A u \in Users : \A t \in Tokens : In(credit[u], t) => In(w.credit[u], t)
    BY <2>3 DEF In
  <2>5. /\ v \in World /\ v.held = w.held /\ v.bound = w.bound /\ v.byBalance = w.byBalance
        /\ v.drop = w.drop /\ v.credit = credit
    BY <1>1, <2>1, <2>2 DEF World
  <2> QED BY <1>5, <1>11, <2>4, <2>5
<1>12. CASE Permits(w, tx) /\ tx.op = "configure"
  <2> DEFINE t      == tx.ids[1]
             credit == [w.credit EXCEPT ![tx.to] = Append(@, t)]
  <2>1. v = [w EXCEPT !.credit = credit]
    BY <1>1, <1>12 DEF Effect, World
  <2>2. t \in Tokens /\ tx.to \in Users /\ Delivered(w, t) BY <1>4, <1>12 DEF TxOK
  <2> HIDE DEF t
  <2>3. credit \in [Users -> Seq(Tokens)] BY <1>2, <2>2
  <2>4. \A u \in Users : \A s \in Tokens : In(credit[u], s) =>
          In(w.credit[u], s) \/ Delivered(w, s)
    <3>1. \A s : In(Append(w.credit[tx.to], t), s) <=> In(w.credit[tx.to], s) \/ s = t
      <4>1. w.credit[tx.to] \in Seq(Tokens) BY <1>2, <2>2
      <4> QED BY <2>2, <4>1, AppendIs
    <3>2. \A u \in Users : credit[u] = IF u = tx.to THEN Append(w.credit[tx.to], t)
                                       ELSE w.credit[u]
      BY <1>2
    <3> HIDE DEF credit
    <3> QED BY <2>2, <3>1, <3>2
  <2> HIDE DEF credit
  <2>5. /\ v \in World /\ v.held = w.held /\ v.bound = w.bound /\ v.byBalance = w.byBalance
        /\ v.drop = w.drop /\ v.credit = credit
    BY <1>1, <2>1, <2>3 DEF World
  <2> QED BY <1>5, <1>12, <2>4, <2>5
<1> QED BY <1>3, <1>6, <1>7, <1>8, <1>9, <1>10, <1>11, <1>12 DEF Ops

-----------------------------------------------------------------------------
\* What is known of a script.

Names == Enumerations \cup Others \cup {Distribute}

\* What may be left of a script's steps.
Remainders(name) ==
  CASE name = "azuki:claim-tiger" -> {<<"look", "execute">>, <<"execute">>}
    [] name = Configure ->
         {<<"snapshot", "owner", "claim", "clear", "configure">>,
          <<"owner", "claim", "clear", "configure">>,
          <<"claim", "clear", "configure">>, <<"clear", "configure">>, <<"configure">>}
    [] name = "admin:transfer-owner"  -> {<<"signer", "transfer">>, <<"transfer">>}
    [] name = "admin:claim-airdrop"   -> {<<"signer", "claim">>, <<"claim">>}
    [] name = "dev:apply-airdrop"     -> {<<"apply">>}
    [] name = "dev:flashloan-airdrop" -> {<<"apply">>}
    [] name = "dev:snapshot-airdrop"  -> {<<"snapshot">>}
    [] OTHER                          -> {<<"look">>}

\* What step follows which, script by script.
LEMMA StepsAre ==
  ASSUME NEW name \in Names, NEW todo \in Remainders(name)
  PROVE  /\ todo \in Seq(Ops \cup Questions) /\ todo # << >> /\ Len(todo) \in Nat \ {0}
         /\ Head(todo) \in Ops \cup Questions
         /\ Len(todo) # 1 => /\ Tail(todo) \in Remainders(name)
                             /\ Head(Tail(todo)) # "look"
         /\ Head(todo) = "look" <=> name \in Enumerations \cup {Distribute}
                                      /\ Head(todo) # "execute"
         /\ Head(todo) = "execute" => name = "azuki:claim-tiger"
         /\ Head(todo) \in {"owner", "clear", "configure"} => name = Configure
         /\ name \in Enumerations \cup {Distribute} => Head(todo) \in {"look", "execute"}
         /\ name = Distribute => Len(todo) = 1
         /\ name = Configure /\ Len(todo) # 1 =>
              /\ Head(todo) = "snapshot" => Head(Tail(todo)) = "owner"
              /\ Head(todo) = "owner" => Head(Tail(todo)) = "claim"
              /\ Head(todo) = "claim" => Head(Tail(todo)) = "clear"
              /\ Head(todo) = "clear" => Head(Tail(todo)) = "configure"
              /\ Head(todo) # "configure"
         /\ name = Configure /\ Len(todo) = 1 => Head(todo) = "configure"
         /\ name = Configure => Head(todo) \in
              {"snapshot", "owner", "claim", "clear", "configure"}
<1>1. CASE name = "azuki:claim-tiger"
  <2>1. todo = <<"look", "execute">> \/ todo = <<"execute">>
    BY <1>1 DEF Remainders, Configure
  <2>2. CASE todo = <<"look", "execute">>
    <3>1. Tail(todo) = <<"execute">> BY <2>2
    <3> QED BY <1>1, <2>2, <3>1 DEF Remainders, Ops, Questions, Configure,
                                      Distribute, Enumerations
  <2>3. CASE todo = <<"execute">>
    BY <1>1, <2>3 DEF Ops, Questions, Configure, Distribute, Enumerations
  <2> QED BY <2>1, <2>2, <2>3
<1>2. CASE name = Configure
  <2>1. \/ todo = <<"snapshot", "owner", "claim", "clear", "configure">>
        \/ todo = <<"owner", "claim", "clear", "configure">>
        \/ todo = <<"claim", "clear", "configure">>
        \/ todo = <<"clear", "configure">>
        \/ todo = <<"configure">>
    BY <1>2 DEF Remainders, Configure
  <2>2. CASE todo = <<"snapshot", "owner", "claim", "clear", "configure">>
    <3>1. Tail(todo) = <<"owner", "claim", "clear", "configure">> BY <2>2
    <3> QED BY <1>2, <2>2, <3>1 DEF Remainders, Ops, Questions, Configure,
                                      Distribute, Enumerations
  <2>3. CASE todo = <<"owner", "claim", "clear", "configure">>
    <3>1. Tail(todo) = <<"claim", "clear", "configure">> BY <2>3
    <3> QED BY <1>2, <2>3, <3>1 DEF Remainders, Ops, Questions, Configure,
                                      Distribute, Enumerations
  <2>4. CASE todo = <<"claim", "clear", "configure">>
    <3>1. Tail(todo) = <<"clear", "configure">> BY <2>4
    <3> QED BY <1>2, <2>4, <3>1 DEF Remainders, Ops, Questions, Configure,
                                      Distribute, Enumerations
  <2>5. CASE todo = <<"clear", "configure">>
    <3>1. Tail(todo) = <<"configure">> BY <2>5
    <3> QED BY <1>2, <2>5, <3>1 DEF Remainders, Ops, Questions, Configure,
                                      Distribute, Enumerations
  <2>6. CASE todo = <<"configure">>
    BY <1>2, <2>6 DEF Ops, Questions, Configure, Distribute, Enumerations
  <2> QED BY <2>1, <2>2, <2>3, <2>4, <2>5, <2>6
<1>3. CASE name = "admin:transfer-owner"
  <2>1. todo = <<"signer", "transfer">> \/ todo = <<"transfer">>
    BY <1>3 DEF Remainders, Configure
  <2>2. CASE todo = <<"signer", "transfer">>
    <3>1. Tail(todo) = <<"transfer">> BY <2>2
    <3> QED BY <1>3, <2>2, <3>1 DEF Remainders, Ops, Questions, Configure,
                                      Distribute, Enumerations
  <2>3. CASE todo = <<"transfer">>
    BY <1>3, <2>3 DEF Ops, Questions, Configure, Distribute, Enumerations
  <2> QED BY <2>1, <2>2, <2>3
<1>4. CASE name = "admin:claim-airdrop"
  <2>1. todo = <<"signer", "claim">> \/ todo = <<"claim">>
    BY <1>4 DEF Remainders, Configure
  <2>2. CASE todo = <<"signer", "claim">>
    <3>1. Tail(todo) = <<"claim">> BY <2>2
    <3> QED BY <1>4, <2>2, <3>1 DEF Remainders, Ops, Questions, Configure,
                                      Distribute, Enumerations
  <2>3. CASE todo = <<"claim">>
    BY <1>4, <2>3 DEF Ops, Questions, Configure, Distribute, Enumerations
  <2> QED BY <2>1, <2>2, <2>3
<1>5. CASE name \in {"dev:apply-airdrop", "dev:flashloan-airdrop"}
  <2>1. todo = <<"apply">>
    BY <1>5 DEF Remainders, Names, Others, Enumerations, Configure, Distribute
  <2> QED BY <1>5, <2>1 DEF Ops, Questions, Names, Others, Configure, Distribute, Enumerations
<1>6. CASE name = "dev:snapshot-airdrop"
  <2>1. todo = <<"snapshot">>
    BY <1>6 DEF Remainders, Names, Others, Enumerations, Configure, Distribute
  <2> QED BY <1>6, <2>1 DEF Ops, Questions, Names, Others, Configure, Distribute, Enumerations
<1>7. CASE name \in {Distribute} \cup (Enumerations \ {"azuki:claim-tiger"})
  <2>1. todo = <<"look">>
    BY <1>7 DEF Remainders, Names, Others, Enumerations, Configure, Distribute
  <2> QED BY <1>7, <2>1 DEF Ops, Questions, Names, Others, Configure, Distribute, Enumerations
<1> QED BY <1>1, <1>2, <1>3, <1>4, <1>5, <1>6, <1>7 DEF Names, Others, Configure

Scripts == [name : Names, todo : Seq(Ops \cup Questions), who : Users \cup {Nobody},
            ids : Seq(Tokens), count : Nat, at : Nat, tries : Nat,
            got : Tokens \cup {Nobody, BNft}, list : Seq(Tokens) \cup Seq(Users),
            by : Users, awaited : {"nothing", "sent", "mined", "reverted"},
            failed : Nat, still : BOOLEAN, seen : SUBSET (Users \X Tokens)]

Shaped(s) ==
  /\ s \in Scripts /\ s.todo \in Remainders(s.name)
  /\ Head(s.todo) \in Questions => s.awaited = "nothing"
  /\ s.name \in Others => s.ids # << >> /\ s.who \in Users
  /\ s.name \in Enumerations =>
       /\ s.list \in Seq(Tokens) /\ s.got \in Tokens \cup {Nobody}
       /\ IF s.ids = << >> THEN s.who \in Users ELSE s.count = 0
  /\ s.name = Distribute =>
       s.list \in Seq(Users) /\ s.got \in {Nobody, BNft} /\ s.count = Len(s.ids)

\* A user is given a token when its airdrop has been claimed.
Delivery(s, w) ==
  /\ s.name = Configure
  /\ Head(s.todo) \in {"clear", "configure"} \/ (Head(s.todo) = "claim" /\ s.awaited = "mined")
  => Delivered(w, s.ids[1])

\* The users found so far, if none was missed, and the one to be given the token.
Pairs(s) ==
  /\ s.name = Distribute =>
       /\ Len(s.list) <= s.at /\ s.at <= s.count
       /\ Len(s.list) = s.at =>
            \A k \in DOMAIN s.list : <<s.list[k], s.ids[k]>> \in s.seen
  /\ s.name = Configure /\ Head(s.todo) \in {"claim", "clear", "configure"} =>
       <<s.who, s.ids[1]>> \in s.seen

ListOf(w, name, u) == CASE name = "azuki:claim-tiger"    -> w.held[BNft]
                        [] name = "clonex:bnft-mint-egg" -> w.bound[u]
                        [] OTHER                         -> w.held[u]

\* In a world that stands still the list is that of the places gone through.
Found(s, w) ==
  /\ Head(s.todo) = "look" /\ s.name \in Enumerations /\ s.ids = << >>
  /\ s.still /\ s.failed <= 1
  => LET all == ListOf(w, s.name, s.who) IN
     /\ s.count = Len(all) /\ s.at <= s.count
     /\ s.tries \in {1, 3} /\ (s.failed = 0 => s.tries = 3)
     /\ s.got # Nobody => s.at < s.count /\ s.got = all[s.at + 1]
     /\ \A j, k \in DOMAIN s.list : s.list[j] = s.list[k] => j = k
     /\ \A t : In(s.list, t) <=> t \notin w.claimed /\ \E k \in 1..s.at : all[k] = t

ScriptOK(s, w) ==
  Shaped(s) /\ Delivery(s, w) /\ Pairs(s) /\ Found(s, w) /\ Belongings(w) \subseteq s.seen

OutgoingOf(s) ==
  Sent(Head(s.todo), s.by,
       IF s.name = Configure /\ Head(s.todo) = "claim" THEN Distribution ELSE s.who,
       IF Head(s.todo) = "execute" THEN s.list ELSE s.ids)

SentOK    == sent \in Seq(Txs) /\ \A k \in DOMAIN sent : TxOK(sent[k], world)
ScriptInv == script # NoScript => ScriptOK(script, world)
Awaiting  == script # NoScript /\ script.awaited = "sent" =>
               sent # << >> /\ sent[Len(sent)] = OutgoingOf(script)
IInv == /\ WorldOK(world) /\ Backing(world)
        /\ SentOK /\ ScriptInv /\ Awaiting /\ PairsWereTrue

LEMMA ScriptTypes ==
  ASSUME NEW s \in Scripts
  PROVE  /\ s.name \in Names /\ s.todo \in Seq(Ops \cup Questions)
         /\ s.who \in Users \cup {Nobody} /\ s.ids \in Seq(Tokens)
         /\ s.count \in Nat /\ s.at \in Nat /\ s.tries \in Nat
         /\ s.got \in Tokens \cup {Nobody, BNft} /\ s.list \in Seq(Tokens) \cup Seq(Users)
         /\ s.by \in Users /\ s.awaited \in {"nothing", "sent", "mined", "reverted"}
         /\ s.failed \in Nat /\ s.still \in BOOLEAN /\ s.seen \in SUBSET (Users \X Tokens)
BY DEF Scripts

LEMMA NamesAre ==
  /\ Enumerations \cap Others = {} /\ Distribute \notin Enumerations \cup Others
  /\ Configure \in Others /\ Names = Enumerations \cup Others \cup {Distribute}
  /\ "azuki:claim-tiger" \in Enumerations
  /\ Ops \cap Questions = {} /\ "look" \in Questions
BY DEF Names, Enumerations, Others, Distribute, Configure, Ops, Questions

LEMMA OutgoingIs == script # NoScript => Outgoing = OutgoingOf(script)
BY DEF Outgoing, OutgoingOf, At, Configure

\* What belongs to whom is in the enumerations.
LEMMA BelongingsAre ==
  ASSUME NEW w, WorldOK(w)
  PROVE  /\ Belongings(w) \subseteq Users \X Tokens
         /\ \A t \in Tokens : <<UserOf(w, t), t>> \in Belongings(w)
<1>1. \A t \in Tokens : UserOf(w, t) \in Users BY OwnersAre
<1> QED BY <1>1 DEF Belongings

LEMMA BelongingsSame ==
  ASSUME NEW w, NEW v, v.held = w.held, v.bound = w.bound
  PROVE  Belongings(v) = Belongings(w)
BY DEF Belongings, UserOf, IsBound, BnftOwner, HolderOf

LEMMA ListIs ==
  ASSUME NEW w, WorldOK(w), NEW name \in Enumerations, NEW u \in Users
  PROVE  /\ ListOf(w, name, u) \in Seq(Tokens)
         /\ \A j, k \in DOMAIN ListOf(w, name, u) :
              ListOf(w, name, u)[j] = ListOf(w, name, u)[k] => j = k
<1>1. /\ w.held \in [Holders -> Seq(Tokens)] /\ w.bound \in [Users -> Seq(Tokens)]
      /\ Exclusive(w.held) /\ Exclusive(w.bound)
  BY WorldTypes DEF WorldOK
<1>2. /\ \A h \in Holders : /\ w.held[h] \in Seq(Tokens)
                            /\ \A j, k \in DOMAIN w.held[h] :
                                 w.held[h][j] = w.held[h][k] => j = k
      /\ \A h \in Users : /\ w.bound[h] \in Seq(Tokens)
                          /\ \A j, k \in DOMAIN w.bound[h] :
                               w.bound[h][j] = w.bound[h][k] => j = k
  BY <1>1 DEF Exclusive
<1>3. ListOf(w, name, u) \in {w.held[BNft], w.bound[u], w.held[u]} BY DEF ListOf
<1>4. BNft \in Holders /\ u \in Holders BY Kinds
<1> QED BY <1>2, <1>3, <1>4

-----------------------------------------------------------------------------
\* A step of a script.

\* A script that goes on to its next step.
LEMMA ForwardKeeps ==
  ASSUME NEW w, NEW s, ScriptOK(s, w), Len(s.todo) # 1,
         NEW n \in Scripts,
         n.name = s.name, n.todo = s.todo, n.ids = s.ids, n.count = s.count,
         n.at = s.at, n.list = s.list, n.got = s.got, n.seen = s.seen,
         n.awaited = "nothing",
         IF Head(s.todo) = "owner" THEN <<n.who, n.ids[1]>> \in n.seen ELSE n.who = s.who,
         s.name = Configure /\ Head(s.todo) = "claim" => Delivered(w, s.ids[1])
  PROVE  ScriptOK([n EXCEPT !.todo = Tail(@)], w)
<1> DEFINE v == [n EXCEPT !.todo = Tail(@)]
<1>1. s \in Scripts /\ Shaped(s) /\ Delivery(s, w) /\ Pairs(s)
  BY DEF ScriptOK, Shaped
<1>2. s.name \in Names /\ s.todo \in Remainders(s.name)
  BY <1>1, ScriptTypes DEF Shaped
<1>3. /\ Tail(s.todo) \in Remainders(s.name) /\ Head(Tail(s.todo)) # "look"
      /\ Tail(s.todo) \in Seq(Ops \cup Questions)
  BY <1>2, StepsAre
<1>4. /\ v \in Scripts /\ v.todo = Tail(s.todo) /\ v.name = s.name /\ v.ids = s.ids
      /\ v.count = s.count /\ v.at = s.at /\ v.list = s.list /\ v.got = s.got
      /\ v.seen = s.seen /\ v.awaited = "nothing" /\ v.who = n.who
  BY <1>3 DEF Scripts
<1> HIDE DEF v
<1>5. /\ Head(s.todo) = "owner" => s.name = Configure
      /\ s.name = Configure =>
           /\ Head(s.todo) \in {"snapshot", "owner", "claim", "clear", "configure"}
           /\ Head(s.todo) = "snapshot" => Head(v.todo) = "owner"
           /\ Head(s.todo) = "owner" => Head(v.todo) = "claim"
           /\ Head(s.todo) = "claim" => Head(v.todo) = "clear"
           /\ Head(s.todo) = "clear" => Head(v.todo) = "configure"
           /\ Head(s.todo) # "configure"
  <2>1. s.name = Configure /\ Len(s.todo) # 1 =>
          /\ Head(s.todo) \in {"snapshot", "owner", "claim", "clear", "configure"}
          /\ Head(s.todo) = "snapshot" => Head(Tail(s.todo)) = "owner"
          /\ Head(s.todo) = "owner" => Head(Tail(s.todo)) = "claim"
          /\ Head(s.todo) = "claim" => Head(Tail(s.todo)) = "clear"
          /\ Head(s.todo) = "clear" => Head(Tail(s.todo)) = "configure"
          /\ Head(s.todo) # "configure"
    BY <1>2, StepsAre
  <2>2. Head(s.todo) = "owner" => s.name = Configure BY <1>2, StepsAre
  <2> QED BY <1>4, <2>1, <2>2
<1>6. Shaped(v)
  <2>1. v.todo \in Remainders(v.name) BY <1>3, <1>4
  <2>2. v.name \in Others => v.ids # << >> /\ v.who \in Users
    <3>1. s.name \in Others => s.ids # << >> /\ s.who \in Users BY <1>1 DEF Shaped
    <3>2. s.seen \subseteq Users \X Tokens BY <1>1, ScriptTypes
    <3> QED BY <1>4, <3>1, <3>2
  <2>3. v.name \in Enumerations =>
          /\ v.list \in Seq(Tokens) /\ v.got \in Tokens \cup {Nobody}
          /\ IF v.ids = << >> THEN v.who \in Users ELSE v.count = 0
    <3>1. s.name \in Enumerations => v.who = s.who BY <1>4, <1>5, NamesAre
    <3>2. s.name \in Enumerations =>
            /\ s.list \in Seq(Tokens) /\ s.got \in Tokens \cup {Nobody}
            /\ IF s.ids = << >> THEN s.who \in Users ELSE s.count = 0
      BY <1>1 DEF Shaped
    <3> QED BY <1>4, <3>1, <3>2
  <2>4. v.name = Distribute =>
          v.list \in Seq(Users) /\ v.got \in {Nobody, BNft} /\ v.count = Len(v.ids)
    BY <1>1, <1>4 DEF Shaped
  <2> QED BY <1>4, <2>1, <2>2, <2>3, <2>4 DEF Shaped
<1>7. Delivery(v, w)
  <2>1. s.name = Configure /\ Head(s.todo) = "clear" => Delivered(w, s.ids[1])
    BY <1>1 DEF Delivery
  <2> QED BY <1>4, <1>5, <2>1 DEF Delivery
<1>8. Pairs(v)
  <2>1. v.name = Distribute =>
          /\ Len(v.list) <= v.at /\ v.at <= v.count
          /\ Len(v.list) = v.at =>
               \A k \in DOMAIN v.list : <<v.list[k], v.ids[k]>> \in v.seen
    BY <1>1, <1>4 DEF Pairs
  <2>2. v.name = Configure /\ Head(v.todo) \in {"claim", "clear", "configure"} =>
          <<v.who, v.ids[1]>> \in v.seen
    BY <1>1, <1>4, <1>5 DEF Pairs
  <2> QED BY <2>1, <2>2 DEF Pairs
<1>9. Found(v, w) BY <1>3, <1>4 DEF Found
<1>10. Belongings(w) \subseteq v.seen BY <1>4 DEF ScriptOK
<1> QED BY <1>6, <1>7, <1>8, <1>9, <1>10 DEF ScriptOK, v

\* The fields of a script that goes on, or ends, when its step is done.
Done(n) ==
  /\ n \in Scripts /\ n.name = script.name /\ n.todo = script.todo /\ n.ids = script.ids
  /\ n.count = script.count /\ n.at = script.at /\ n.list = script.list
  /\ n.got = script.got /\ n.seen = script.seen /\ n.awaited = "nothing"
  /\ IF Head(script.todo) = "owner" THEN <<n.who, n.ids[1]>> \in n.seen
     ELSE n.who = script.who
  /\ script.name = Configure /\ Head(script.todo) = "claim" =>
       Delivered(world, script.ids[1])

LEMMA OnwardKeeps ==
  ASSUME IInv, script # NoScript, NEW n, Done(n), Onward(n), UNCHANGED <<world, sent>>,
         n.name = Distribute => Len(n.list) = Len(n.ids) /\ n.at >= n.count
  PROVE  IInv'
<1>1. ScriptOK(script, world) BY DEF IInv, ScriptInv
<1>2. Shaped(script) /\ Pairs(script) /\ script \in Scripts BY <1>1 DEF ScriptOK, Shaped
<1>3. WorldOK(world)' /\ Backing(world)' /\ SentOK' BY DEF IInv, SentOK
<1>4. CASE Len(script.todo) # 1
  <2>1. script' = [n EXCEPT !.todo = Tail(@)] /\ finished' = finished
    BY <1>4 DEF Onward
  <2>2. ScriptOK([n EXCEPT !.todo = Tail(@)], world)
    BY <1>1, <1>4, ForwardKeeps DEF Done
  <2>3. ScriptInv' BY <2>1, <2>2 DEF ScriptInv
  <2>4. script'.awaited = "nothing" BY <2>1 DEF Done, Scripts
  <2>5. PairsWereTrue' BY <2>1 DEF IInv, PairsWereTrue
  <2> QED BY <1>3, <2>3, <2>4, <2>5 DEF IInv, Awaiting
<1>5. CASE Len(script.todo) = 1
  <2>1. script' = NoScript /\ finished' = n BY <1>5 DEF Onward
  <2>2. ScriptInv' /\ Awaiting' BY <2>1 DEF ScriptInv, Awaiting
  <2>3. n.name = Distribute =>
          /\ Len(n.list) = Len(n.ids)
          /\ \A k \in DOMAIN n.ids : <<n.list[k], n.ids[k]>> \in n.seen
    <3> SUFFICES ASSUME n.name = Distribute
                 PROVE  /\ Len(n.list) = Len(n.ids)
                        /\ \A k \in DOMAIN n.ids : <<n.list[k], n.ids[k]>> \in n.seen
      OBVIOUS
    <3>1. n.list \in Seq(Users) /\ n.ids \in Seq(Tokens) BY <1>2, ScriptTypes DEF Done, Shaped
    <3>2. n.at = n.count /\ n.count = Len(n.ids)
      <4>1. n.at \in Nat /\ n.count \in Nat BY ScriptTypes DEF Done
      <4>2. n.at <= n.count /\ n.count = Len(n.ids) BY <1>2 DEF Done, Pairs, Shaped
      <4> QED BY <4>1, <4>2
    <3>3. \A k \in DOMAIN n.list : <<n.list[k], n.ids[k]>> \in n.seen
      BY <1>2, <3>2 DEF Done, Pairs
    <3>4. DOMAIN n.list = DOMAIN n.ids BY <3>1
    <3> QED BY <3>3, <3>4
  <2>4. n.name = Configure => <<n.who, n.ids[1]>> \in n.seen
    <3>1. n.name = Configure => Head(script.todo) = "configure"
      BY <1>2, <1>5, StepsAre, ScriptTypes DEF Done, Shaped
    <3> QED BY <1>2, <3>1 DEF Done, Pairs
  <2>5. PairsWereTrue' BY <2>1, <2>3, <2>4 DEF PairsWereTrue, Configure, Distribute
  <2> QED BY <1>3, <2>2, <2>5 DEF IInv
<1> QED BY <1>4, <1>5

\* A script that stays at its step, or is given up.
LEMMA StayKeeps ==
  ASSUME IInv, UNCHANGED <<world, sent, finished>>,
         script' = NoScript \/ (ScriptOK(script', world) /\ script'.awaited # "sent")
  PROVE  IInv'
<1>1. WorldOK(world)' /\ Backing(world)' /\ SentOK' BY DEF IInv, SentOK
<1>2. PairsWereTrue' BY DEF IInv, PairsWereTrue
<1>3. ScriptInv' /\ Awaiting' BY DEF ScriptInv, Awaiting
<1> QED BY <1>1, <1>2, <1>3 DEF IInv

\* What a lookup changes in the script.
Lookup(s, v) ==
  /\ v \in Scripts /\ v.name = s.name /\ v.todo = s.todo /\ v.who = s.who /\ v.ids = s.ids
  /\ v.count = s.count /\ v.awaited = s.awaited /\ v.still = s.still /\ v.seen = s.seen

\* A lookup leaves what is not about the list alone.
LEMMA LookupKeeps ==
  ASSUME NEW w, NEW s, ScriptOK(s, w), NEW v, Lookup(s, v), Head(s.todo) = "look",
         s.name \in Enumerations => v.list \in Seq(Tokens) /\ v.got \in Tokens \cup {Nobody},
         s.name = Distribute =>
           /\ v.list \in Seq(Users) /\ v.got \in {Nobody, BNft}
           /\ Len(v.list) <= v.at /\ v.at <= v.count
           /\ Len(v.list) = v.at =>
                \A k \in DOMAIN v.list : <<v.list[k], v.ids[k]>> \in v.seen,
         Found(v, w)
  PROVE  ScriptOK(v, w)
<1>1. s.name \notin Others
  <2>1. s.name \in Names /\ s.todo \in Remainders(s.name)
    BY ScriptTypes DEF ScriptOK, Shaped
  <2>2. s.name \in Enumerations \cup {Distribute} BY <2>1, StepsAre
  <2> QED BY <2>2, NamesAre
<1>2. Shaped(v) BY <1>1 DEF ScriptOK, Shaped, Lookup
<1>3. Delivery(v, w) BY <1>1, NamesAre DEF Delivery, Lookup
<1>4. Pairs(v) BY <1>1, NamesAre DEF Pairs, Lookup
<1> QED BY <1>2, <1>3, <1>4 DEF ScriptOK, Lookup

\* The script at a lookup.
LEMMA AtLook ==
  ASSUME IInv, At("look")
  PROVE  /\ script # NoScript /\ ScriptOK(script, world) /\ script \in Scripts
         /\ Head(script.todo) = "look" /\ script.awaited = "nothing"
         /\ script.name \in Enumerations \/ script.name = Distribute
         /\ script.name \in Enumerations <=> script.name # Distribute
         /\ Looking /\ script.name \in Enumerations => script.ids = << >> /\ script.who \in Users
         /\ Enumerated(script.name, script.who) = ListOf(world, script.name, script.who)
<1>1. script # NoScript /\ Head(script.todo) = "look" BY DEF At
<1>2. ScriptOK(script, world) /\ script \in Scripts /\ script.awaited = "nothing"
  BY <1>1, NamesAre DEF IInv, ScriptInv, ScriptOK, Shaped
<1>3. script.name \in Names /\ script.todo \in Remainders(script.name)
  BY <1>2, ScriptTypes DEF ScriptOK, Shaped
<1>4. script.name \in Enumerations \cup {Distribute} BY <1>1, <1>3, StepsAre
<1>5. Looking /\ script.name \in Enumerations => script.ids = << >> /\ script.who \in Users
  BY <1>2, ScriptTypes DEF ScriptOK, Shaped, Looking
<1> QED BY <1>1, <1>2, <1>4, <1>5, NamesAre DEF Enumerated, ListOf

\* The token a list of ids has at the script's place.
LEMMA TokenAtIs ==
  ASSUME IInv, Looking, script.name = Distribute
  PROVE  TokenAt \in Tokens /\ script.at + 1 \in DOMAIN script.ids
<1>1. At("look") /\ script.at < script.count BY DEF Looking
<1>2. script.count = Len(script.ids) BY <1>1, AtLook DEF ScriptOK, Shaped
<1>3. script.ids \in Seq(Tokens) /\ script.at \in Nat BY <1>1, AtLook, ScriptTypes
<1> QED BY <1>1, <1>2, <1>3 DEF TokenAt

\* A user found for the token at the script's place.
LEMMA PlacedUser ==
  ASSUME IInv, Looking, script.name = Distribute, NEW u \in Users,
         <<u, TokenAt>> \in script.seen, script' = Placed(<<u>>),
         UNCHANGED <<world, sent, finished>>
  PROVE  IInv'
<1>1. At("look") /\ script.at < script.count BY DEF Looking
<1>2. /\ script.at \in Nat /\ script.count \in Nat /\ script.list \in Seq(Users)
      /\ script.ids \in Seq(Tokens) /\ script \in Scripts
  BY <1>1, AtLook, ScriptTypes DEF ScriptOK, Shaped
<1> DEFINE list == script.list \o <<u>>
<1>3. /\ list \in Seq(Users) /\ Len(list) = Len(script.list) + 1
      /\ list[Len(script.list) + 1] = u
      /\ \A k \in 1..Len(script.list) : list[k] = script.list[k]
      /\ DOMAIN list = 1..(Len(script.list) + 1) /\ Len(script.list) \in Nat
  BY <1>2
<1>4. /\ script'.list = list /\ script'.got = Nobody /\ script'.at = script.at + 1
      /\ Lookup(script, script')
  <2> HIDE DEF list
  <2>1. script' = [script EXCEPT !.list = list, !.got = Nobody, !.tries = Tries, !.at = @ + 1]
    BY DEF Placed, list
  <2>2. Tries \in Nat BY DEF Tries
  <2>3. script.at + 1 \in Nat /\ list \in Seq(Tokens) \cup Seq(Users) BY <1>2, <1>3
  <2>4. script' \in Scripts BY <1>2, <2>1, <2>2, <2>3 DEF Scripts
  <2>5. /\ script'.list = list /\ script'.got = Nobody /\ script'.at = script.at + 1
        /\ script'.name = script.name /\ script'.todo = script.todo
        /\ script'.who = script.who /\ script'.ids = script.ids
        /\ script'.count = script.count /\ script'.awaited = script.awaited
        /\ script'.still = script.still /\ script'.seen = script.seen
    BY <1>2, <2>1 DEF Scripts
  <2> QED BY <2>4, <2>5 DEF Lookup
<1> HIDE DEF list
<1>5. Len(list) <= script.at + 1 /\ script.at + 1 <= script.count
  BY <1>1, <1>2, <1>3, AtLook DEF ScriptOK, Pairs
<1>6. ASSUME Len(list) = script.at + 1
      PROVE  \A k \in DOMAIN list : <<list[k], script.ids[k]>> \in script.seen
  <2>1. Len(script.list) = script.at BY <1>2, <1>3, <1>6
  <2>2. \A k \in 1..Len(script.list) : <<script.list[k], script.ids[k]>> \in script.seen
    <3>1. Pairs(script) BY <1>1, AtLook DEF ScriptOK
    <3>2. DOMAIN script.list = 1..Len(script.list) BY <1>2
    <3> QED BY <2>1, <3>1, <3>2 DEF Pairs
  <2>3. <<list[Len(script.list) + 1], script.ids[Len(script.list) + 1]>> \in script.seen
    BY <1>3, <2>1 DEF TokenAt
  <2>4. \A k \in DOMAIN list : k \in 1..Len(script.list) \/ k = Len(script.list) + 1
    BY <1>3
  <2> QED BY <1>3, <2>2, <2>3, <2>4
<1>7. Found(script', world) BY <1>4, NamesAre DEF Found, Lookup
<1>8. ScriptOK(script', world)
  BY <1>1, <1>3, <1>4, <1>5, <1>6, <1>7, AtLook, LookupKeeps, NamesAre DEF Lookup
<1> QED BY <1>1, <1>4, <1>8, AtLook, StayKeeps DEF Lookup

LEMMA LookFirst == IInv /\ lookFirst => IInv'
<1> SUFFICES ASSUME IInv, lookFirst PROVE IInv'
  OBVIOUS
<1> DEFINE all == ListOf(world, script.name, script.who)
<1>1. /\ Looking /\ At("look") /\ script.at < script.count /\ script.got = Nobody
      /\ UNCHANGED <<world, sent, finished>>
  BY DEF lookFirst, Looking
<1>2. WorldOK(world) BY DEF IInv
<1>3. CASE script.name \in Enumerations
  <2>1. script.at < Len(all) /\ script' = [script EXCEPT !.got = all[script.at + 1]]
    BY <1>1, <1>3, AtLook DEF lookFirst
  <2>2. script.at \in Nat /\ script.who \in Users BY <1>1, <1>3, AtLook, ScriptTypes
  <2>3. all \in Seq(Tokens) BY <1>2, <1>3, <2>2, ListIs
  <2> HIDE DEF all
  <2>4. all[script.at + 1] \in Tokens BY <2>1, <2>2, <2>3
  <2>5. /\ Lookup(script, script') /\ script'.got = all[script.at + 1]
        /\ script'.list = script.list /\ script'.at = script.at
        /\ script'.tries = script.tries /\ script'.failed = script.failed
    BY <1>1, <2>1, <2>4, AtLook DEF Lookup, Scripts
  <2>6. Found(script', world) BY <1>1, <2>1, <2>5, AtLook DEF Lookup, Found, ScriptOK, all
  <2>7. ScriptOK(script', world)
    BY <1>1, <1>3, <2>4, <2>5, <2>6, AtLook, LookupKeeps DEF ScriptOK, Shaped
  <2> QED BY <1>1, <2>5, <2>7, AtLook, StayKeeps DEF Lookup
<1>4. CASE script.name = Distribute
  <2> DEFINE holder == HolderOf(world, TokenAt)
  <2>1. script' = IF holder = BNft THEN [script EXCEPT !.got = BNft] ELSE Placed(<<holder>>)
    BY <1>1, <1>4, AtLook DEF lookFirst
  <2>2. TokenAt \in Tokens BY <1>1, <1>4, TokenAtIs
  <2>3. holder # BNft => holder \in Users /\ <<holder, TokenAt>> \in script.seen
    <3>1. holder # BNft => holder \in Users /\ UserOf(world, TokenAt) = holder
      BY <1>2, <2>2, OwnersAre, Kinds DEF Holders, UserOf
    <3> QED BY <1>1, <1>2, <2>2, <3>1, AtLook, BelongingsAre DEF ScriptOK
  <2> HIDE DEF holder
  <2>4. CASE holder = BNft
    <3>1. Lookup(script, script') /\ script'.got = BNft /\ script'.list = script.list
          /\ script'.at = script.at
      BY <1>1, <2>1, <2>4, AtLook DEF Lookup, Scripts
    <3>2. Found(script', world) BY <1>4, <3>1, NamesAre DEF Found, Lookup
    <3>3. ScriptOK(script', world)
      BY <1>1, <1>4, <3>1, <3>2, AtLook, LookupKeeps, NamesAre
         DEF ScriptOK, Shaped, Pairs, Lookup
    <3> QED BY <1>1, <3>1, <3>3, AtLook, StayKeeps DEF Lookup
  <2>5. CASE holder # BNft
    <3>1. script' = Placed(<<holder>>) BY <2>1, <2>5
    <3> QED BY <1>1, <1>4, <2>3, <2>5, <3>1, PlacedUser
  <2> QED BY <2>4, <2>5
<1> QED BY <1>1, <1>3, <1>4, AtLook

\* The token that was looked at is collected if it can be claimed.
LEMMA CollectedIs ==
  ASSUME NEW w, WorldOK(w), NEW s, ScriptOK(s, w), Head(s.todo) = "look",
         s.name \in Enumerations, s.ids = << >>, s.at < s.count, s.got # Nobody,
         NEW v \in Scripts, Lookup(s, v), v.got = Nobody, v.at = s.at + 1, v.tries = 3,
         v.failed = s.failed,
         v.list = IF s.got \in w.claimed THEN s.list ELSE Append(s.list, s.got)
  PROVE  v.list \in Seq(Tokens) /\ Found(v, w)
<1>1. s \in Scripts /\ s.list \in Seq(Tokens) /\ s.got \in Tokens /\ s.who \in Users
  BY DEF ScriptOK, Shaped
<1>2. s.at \in Nat /\ s.count \in Nat BY <1>1, ScriptTypes
<1>3. v.list \in Seq(Tokens) BY <1>1
<1>4. ASSUME s.still, s.failed <= 1
      PROVE  LET all == ListOf(w, s.name, s.who) IN
             /\ s.count = Len(all) /\ s.got = all[s.at + 1]
             /\ \A j, k \in DOMAIN v.list : v.list[j] = v.list[k] => j = k
             /\ \A t : In(v.list, t) <=> t \notin w.claimed /\ \E k \in 1..(s.at + 1) : all[k] = t
  <2> DEFINE all == ListOf(w, s.name, s.who)
  <2>1. /\ s.count = Len(all) /\ s.got = all[s.at + 1]
        /\ \A j, k \in DOMAIN s.list : s.list[j] = s.list[k] => j = k
        /\ \A t : In(s.list, t) <=> t \notin w.claimed /\ \E k \in 1..s.at : all[k] = t
    BY <1>4 DEF ScriptOK, Found
  <2>2. all \in Seq(Tokens) /\ \A j, k \in DOMAIN all : all[j] = all[k] => j = k
    BY <1>1, ListIs
  <2> HIDE DEF all
  <2>3. 1..(s.at + 1) \subseteq DOMAIN all BY <1>2, <2>1, <2>2
  <2>4. ~In(s.list, s.got)
    <3>1. \A k \in 1..s.at : k \in 1..(s.at + 1) /\ k # s.at + 1 BY <1>2
    <3>2. s.at + 1 \in 1..(s.at + 1) BY <1>2
    <3> QED BY <2>1, <2>2, <2>3, <3>1, <3>2
  <2>5. \A t : (\E k \in 1..(s.at + 1) : all[k] = t) <=>
               (\E k \in 1..s.at : all[k] = t) \/ t = s.got
    <3>1. \A k : k \in 1..(s.at + 1) <=> k \in 1..s.at \/ k = s.at + 1 BY <1>2
    <3> QED BY <2>1, <3>1
  <2>6. \A t : In(v.list, t) <=> In(s.list, t) \/ (t = s.got /\ s.got \notin w.claimed)
    BY <1>1, AppendIs
  <2>7. \A j, k \in DOMAIN v.list : v.list[j] = v.list[k] => j = k
    <3>1. CASE s.got \in w.claimed BY <2>1, <3>1
    <3>2. CASE s.got \notin w.claimed
      <4>1. v.list = Append(s.list, s.got) BY <3>2
      <4>2. \A j, k \in DOMAIN Append(s.list, s.got) :
              Append(s.list, s.got)[j] = Append(s.list, s.got)[k] => j = k
        BY <1>1, <2>1, <2>4, AppendKeepsInjective
      <4> QED BY <4>1, <4>2
    <3> QED BY <3>1, <3>2
  <2> QED BY <2>1, <2>5, <2>6, <2>7 DEF all
<1>5. Found(v, w)
  <2>1. /\ v.name = s.name /\ v.who = s.who /\ v.count = s.count /\ v.still = s.still
        /\ v.at <= v.count /\ v.failed = s.failed
    BY <1>2 DEF Lookup
  <2> QED BY <1>4, <2>1 DEF Found
<1> QED BY <1>3, <1>5

LEMMA LookSecond == IInv /\ lookSecond => IInv'
<1> SUFFICES ASSUME IInv, lookSecond PROVE IInv'
  OBVIOUS
<1>1. /\ Looking /\ At("look") /\ script.at < script.count /\ script.got # Nobody
      /\ UNCHANGED <<world, sent, finished>>
  BY DEF lookSecond, Looking
<1>2. WorldOK(world) BY DEF IInv
<1>3. script \in Scripts /\ script.at \in Nat BY <1>1, AtLook, ScriptTypes
<1>4. CASE script.name \in Enumerations
  <2> DEFINE list == script.list \o Collected(script.got)
  <2>1. script.list \in Seq(Tokens) /\ script.got \in Tokens
    BY <1>1, <1>4, AtLook DEF ScriptOK, Shaped
  <2>2. list = IF script.got \in world.claimed THEN script.list
               ELSE Append(script.list, script.got)
    BY <2>1, ConcatEmptySeq, AppendIsConcat DEF Collected
  <2>3. script' = [script EXCEPT !.list = list, !.got = Nobody, !.tries = Tries, !.at = @ + 1]
    BY <1>4 DEF lookSecond, Placed
  <2>4. list \in Seq(Tokens) BY <2>1, <2>2
  <2> HIDE DEF list
  <2>5. script' \in Scripts
    <3>1. /\ script.at + 1 \in Nat /\ Tries \in Nat /\ list \in Seq(Tokens) \cup Seq(Users)
      BY <1>3, <2>4 DEF Tries
    <3> QED BY <1>3, <2>3, <3>1 DEF Scripts
  <2>6. /\ script'.list = list /\ script'.got = Nobody /\ script'.at = script.at + 1
        /\ script'.tries = 3 /\ script'.failed = script.failed
        /\ script'.name = script.name /\ script'.todo = script.todo
        /\ script'.who = script.who /\ script'.ids = script.ids
        /\ script'.count = script.count /\ script'.awaited = script.awaited
        /\ script'.still = script.still /\ script'.seen = script.seen
    BY <1>3, <2>3 DEF Scripts, Tries
  <2>7. Lookup(script, script') BY <2>5, <2>6 DEF Lookup
  <2>8. Found(script', world)
    BY <1>1, <1>2, <1>4, <2>2, <2>5, <2>6, <2>7, AtLook, CollectedIs
  <2>9. ScriptOK(script', world)
    BY <1>1, <1>4, <2>4, <2>6, <2>7, <2>8, AtLook, LookupKeeps
  <2> QED BY <1>1, <2>6, <2>9, AtLook, StayKeeps
<1>5. CASE script.name = Distribute
  <2>1. IsBound(world, TokenAt) /\ script' = Placed(<<BnftOwner(world, TokenAt)>>)
    BY <1>1, <1>5, AtLook DEF lookSecond
  <2>2. TokenAt \in Tokens BY <1>1, <1>5, TokenAtIs
  <2>3. BnftOwner(world, TokenAt) \in Users /\ UserOf(world, TokenAt) = BnftOwner(world, TokenAt)
    BY <1>2, <2>1, <2>2, OwnersAre DEF UserOf
  <2>4. <<BnftOwner(world, TokenAt), TokenAt>> \in script.seen
    BY <1>1, <1>2, <2>2, <2>3, AtLook, BelongingsAre DEF ScriptOK
  <2> QED BY <1>1, <1>5, <2>1, <2>3, <2>4, PlacedUser
<1> QED BY <1>1, <1>4, <1>5, AtLook

LEMMA LookFails == IInv /\ lookFails => IInv'
<1> SUFFICES ASSUME IInv, lookFails PROVE IInv'
  OBVIOUS
<1> DEFINE left == TriesAfter(script.tries)
           next == IF left > 0 THEN script.at ELSE script.at + 1
<1>1. /\ Looking /\ At("look") /\ script.at < script.count
      /\ UNCHANGED <<world, sent, finished>>
  BY DEF lookFails, Looking
<1>2. /\ script \in Scripts /\ script.at \in Nat /\ script.count \in Nat
      /\ script.failed \in Nat /\ script.tries \in Nat
      /\ script.list \in Seq(Tokens) \cup Seq(Users)
  BY <1>1, AtLook, ScriptTypes
<1>3. left \in Nat BY <1>2 DEF TriesAfter
<1>4. /\ script' \in Scripts /\ script'.list = script.list /\ script'.got = Nobody
      /\ script'.at = next /\ script'.failed = script.failed + 1
      /\ script'.tries = IF left > 0 THEN left ELSE Tries
      /\ script'.name = script.name /\ script'.todo = script.todo
      /\ script'.who = script.who /\ script'.ids = script.ids
      /\ script'.count = script.count /\ script'.awaited = script.awaited
      /\ script'.still = script.still /\ script'.seen = script.seen
  <2>1. script' = IF left > 0
                  THEN [script EXCEPT !.failed = @ + 1, !.got = Nobody, !.tries = left]
                  ELSE [script EXCEPT !.failed = @ + 1, !.got = Nobody, !.tries = Tries,
                                      !.at = @ + 1]
    BY DEF lookFails
  <2> HIDE DEF left
  <2>2. script.at + 1 \in Nat /\ script.failed + 1 \in Nat /\ Tries \in Nat
    BY <1>2 DEF Tries
  <2>3. script' \in Scripts BY <1>2, <1>3, <2>1, <2>2 DEF Scripts
  <2>4. script'.got = Nobody /\ script'.failed = script.failed + 1
    BY <1>2, <2>1 DEF Scripts
  <2>5. /\ script'.at = next /\ script'.tries = IF left > 0 THEN left ELSE Tries
    BY <1>2, <2>1 DEF Scripts
  <2>6. /\ script'.name = script.name /\ script'.todo = script.todo
        /\ script'.who = script.who /\ script'.ids = script.ids
        /\ script'.count = script.count /\ script'.awaited = script.awaited
        /\ script'.still = script.still /\ script'.seen = script.seen
        /\ script'.list = script.list
    BY <1>2, <2>1 DEF Scripts
  <2> QED BY <2>3, <2>4, <2>5, <2>6
<1>5. Lookup(script, script') BY <1>4 DEF Lookup
<1>6. Found(script', world)
  <2> SUFFICES ASSUME script.name \in Enumerations, script.ids = << >>, script.still,
                      script.failed + 1 <= 1, Found(script, world)
               PROVE  Found(script', world)
    BY <1>1, <1>4, AtLook DEF Found, ScriptOK
  <2>1. script.failed = 0 /\ script.tries = 3 BY <1>1, <1>2, AtLook DEF Found
  <2>2. left = 1 BY <2>1 DEF TriesAfter
  <2> QED BY <1>1, <1>4, <2>1, <2>2, AtLook DEF Found
<1>7. script.name = Distribute =>
        /\ script.list \in Seq(Users) /\ Len(script.list) <= next /\ next <= script.count
        /\ Len(script.list) = next =>
             \A k \in DOMAIN script.list : <<script.list[k], script.ids[k]>> \in script.seen
  <2>1. script.name = Distribute =>
          /\ script.list \in Seq(Users) /\ Len(script.list) <= script.at
          /\ Len(script.list) = script.at =>
               \A k \in DOMAIN script.list : <<script.list[k], script.ids[k]>> \in script.seen
    BY <1>1, AtLook DEF ScriptOK, Shaped, Pairs
  <2>2. \A l \in Seq(Users) : Len(l) \in Nat OBVIOUS
  <2>3. next \in {script.at, script.at + 1} OBVIOUS
  <2> HIDE DEF next
  <2> QED BY <1>1, <1>2, <2>1, <2>2, <2>3
<1> HIDE DEF left, next
<1>8. script.name \in Enumerations => script.list \in Seq(Tokens)
  BY <1>1, AtLook DEF ScriptOK, Shaped
<1>9. ScriptOK(script', world)
  BY <1>1, <1>4, <1>5, <1>6, <1>7, <1>8, AtLook, LookupKeeps
<1> QED BY <1>1, <1>4, <1>9, AtLook, StayKeeps

\* What a finished step leaves is the script itself, but for what it found out.
LEMMA Looked == IInv /\ looked => IInv'
<1> SUFFICES ASSUME IInv, looked PROVE IInv'
  OBVIOUS
<1>1. /\ At("look") /\ ~(script.at < script.count) /\ Counted /\ Onward(script)
      /\ UNCHANGED <<world, sent>>
  BY DEF looked, Looking
<1>2. /\ script # NoScript /\ script \in Scripts /\ Head(script.todo) = "look"
      /\ script.awaited = "nothing"
  BY <1>1, AtLook
<1>3. Done(script) BY <1>2 DEF Done
<1>4. script.at \in Nat /\ script.count \in Nat BY <1>2, ScriptTypes
<1>5. script.name = Distribute =>
        Len(script.list) = Len(script.ids) /\ script.at >= script.count
  BY <1>1, <1>4 DEF Counted, Distribute
<1> QED BY <1>1, <1>2, <1>3, <1>5, OnwardKeeps

LEMMA Running ==
  ASSUME IInv, script # NoScript
  PROVE  /\ ScriptOK(script, world) /\ Shaped(script) /\ script \in Scripts
         /\ script.name \in Names /\ script.todo \in Remainders(script.name)
         /\ Head(script.todo) \in Ops \cup Questions
<1>1. ScriptOK(script, world) /\ Shaped(script) /\ script \in Scripts
  BY DEF IInv, ScriptInv, ScriptOK, Shaped
<1>2. script.name \in Names /\ script.todo \in Remainders(script.name)
  BY <1>1, ScriptTypes DEF Shaped
<1> QED BY <1>1, <1>2, StepsAre

\* Only a lookup or the last step ends an azuki:distribution.
LEMMA OneStep ==
  ASSUME IInv, script # NoScript, script.name = Distribute
  PROVE  Head(script.todo) = "look"
<1>1. Head(script.todo) \in {"look", "execute"} BY Running, StepsAre
<1>2. Head(script.todo) = "execute" => script.name = "azuki:claim-tiger"
  BY Running, StepsAre
<1> QED BY <1>1, <1>2 DEF Distribute

LEMMA AskOwner == IInv /\ askOwner => IInv'
<1> SUFFICES ASSUME IInv, askOwner PROVE IInv'
  OBVIOUS
<1> DEFINE t == script.ids[1]
           n == [script EXCEPT !.who = BnftOwner(world, t)]
<1>1. /\ script # NoScript /\ Head(script.todo) = "owner" /\ IsBound(world, t) /\ Onward(n)
      /\ UNCHANGED <<world, sent>>
  BY DEF askOwner, At
<1>2. ScriptOK(script, world) /\ Shaped(script) /\ script \in Scripts
  BY <1>1, Running
<1>3. script.name = Configure BY <1>1, Running, StepsAre
<1>4. t \in Tokens /\ script.awaited = "nothing"
  <2>1. script.ids # << >> /\ script.ids \in Seq(Tokens)
    BY <1>2, <1>3, NamesAre, ScriptTypes DEF Shaped
  <2>2. script.awaited = "nothing" BY <1>1, <1>2 DEF Shaped, Questions
  <2> QED BY <2>1, <2>2
<1> HIDE DEF t
<1>5. BnftOwner(world, t) \in Users /\ <<BnftOwner(world, t), t>> \in script.seen
  <2>1. WorldOK(world) BY DEF IInv
  <2>2. BnftOwner(world, t) \in Users /\ UserOf(world, t) = BnftOwner(world, t)
    BY <1>1, <1>4, <2>1, OwnersAre DEF UserOf
  <2> QED BY <1>2, <1>4, <2>1, <2>2, BelongingsAre DEF ScriptOK
<1>6. /\ n \in Scripts /\ n.who = BnftOwner(world, t) /\ n.ids = script.ids
      /\ n.name = script.name /\ n.todo = script.todo /\ n.count = script.count
      /\ n.at = script.at /\ n.list = script.list /\ n.got = script.got
      /\ n.seen = script.seen /\ n.awaited = script.awaited
  BY <1>2, <1>5 DEF Scripts
<1> HIDE DEF n
<1>7. Done(n) BY <1>1, <1>3, <1>4, <1>5, <1>6 DEF Done, t
<1>8. n.name # Distribute BY <1>3, <1>6, NamesAre
<1> QED BY <1>1, <1>7, <1>8, OnwardKeeps

LEMMA AskSigner == IInv /\ askSigner => IInv'
<1> SUFFICES ASSUME IInv, askSigner PROVE IInv'
  OBVIOUS
<1> DEFINE n == [script EXCEPT !.by = world.owner]
<1>1. /\ script # NoScript /\ Head(script.todo) = "signer" /\ Onward(n)
      /\ UNCHANGED <<world, sent>>
  BY DEF askSigner, At
<1>2. Shaped(script) /\ script \in Scripts BY <1>1, Running
<1>3. script.awaited = "nothing" BY <1>1, <1>2 DEF Shaped, Questions
<1>4. world.owner \in Users BY WorldTypes DEF IInv, WorldOK
<1>5. /\ n \in Scripts /\ n.who = script.who /\ n.ids = script.ids
      /\ n.name = script.name /\ n.todo = script.todo /\ n.count = script.count
      /\ n.at = script.at /\ n.list = script.list /\ n.got = script.got
      /\ n.seen = script.seen /\ n.awaited = script.awaited
  BY <1>2, <1>4 DEF Scripts
<1> HIDE DEF n
<1>6. Done(n) BY <1>1, <1>3, <1>5 DEF Done
<1>7. n.name # Distribute BY <1>1, <1>5, OneStep
<1> QED BY <1>1, <1>6, <1>7, OnwardKeeps

LEMMA SkipSnapshot == IInv /\ skipSnapshot => IInv'
<1> SUFFICES ASSUME IInv, skipSnapshot PROVE IInv'
  OBVIOUS
<1>1. /\ script # NoScript /\ Head(script.todo) = "snapshot" /\ script.awaited = "nothing"
      /\ Onward(script) /\ UNCHANGED <<world, sent>>
  BY DEF skipSnapshot, At
<1>2. Done(script) BY <1>1, Running DEF Done
<1>3. script.name # Distribute BY <1>1, OneStep
<1> QED BY <1>1, <1>2, <1>3, OnwardKeeps

LEMMA AwaitTx == IInv /\ awaitTx => IInv'
<1> SUFFICES ASSUME IInv, awaitTx PROVE IInv'
  OBVIOUS
<1> DEFINE n == [script EXCEPT !.awaited = "nothing"]
<1>1. script.awaited = "mined" /\ Onward(n) /\ UNCHANGED <<world, sent>>
  BY DEF awaitTx
<1>2. script # NoScript BY <1>1 DEF NoScript
<1>3. ScriptOK(script, world) /\ Shaped(script) /\ script \in Scripts BY <1>2, Running
<1>4. Head(script.todo) \notin Questions BY <1>1, <1>3 DEF Shaped
<1>5. /\ n \in Scripts /\ n.who = script.who /\ n.ids = script.ids
      /\ n.name = script.name /\ n.todo = script.todo /\ n.count = script.count
      /\ n.at = script.at /\ n.list = script.list /\ n.got = script.got
      /\ n.seen = script.seen /\ n.awaited = "nothing"
  BY <1>3 DEF Scripts
<1> HIDE DEF n
<1>6. script.name = Configure /\ Head(script.todo) = "claim" => Delivered(world, script.ids[1])
  BY <1>1, <1>3 DEF ScriptOK, Delivery
<1>7. Done(n) BY <1>4, <1>5, <1>6 DEF Done, Questions
<1>8. n.name # Distribute BY <1>2, <1>4, <1>5, OneStep DEF Questions
<1> QED BY <1>1, <1>2, <1>7, <1>8, OnwardKeeps

LEMMA GivenUp == IInv /\ (throw \/ kill) => IInv'
<1> SUFFICES ASSUME IInv, throw \/ kill PROVE IInv'
  OBVIOUS
<1>1. UNCHANGED <<world, sent, finished>> /\ script' = NoScript BY DEF throw, kill
<1> QED BY <1>1, StayKeeps

LEMMA SendTx == IInv /\ sendTx => IInv'
<1> SUFFICES ASSUME IInv, sendTx PROVE IInv'
  OBVIOUS
<1> DEFINE tx == OutgoingOf(script)
<1>1. /\ script # NoScript /\ Head(script.todo) \notin Questions
      /\ script.awaited = "nothing"
      /\ sent' = Append(sent, tx) /\ script' = [script EXCEPT !.awaited = "sent"]
      /\ UNCHANGED <<world, finished>>
  BY OutgoingIs DEF sendTx, Sends
<1>2. ScriptOK(script, world) /\ Shaped(script) /\ script \in Scripts BY <1>1, Running
<1>3. /\ script.name \in Names /\ script.todo \in Remainders(script.name)
      /\ Head(script.todo) \in Ops
  BY <1>1, Running
<1>4. /\ script.by \in Users /\ script.who \in Users \cup {Nobody}
      /\ script.ids \in Seq(Tokens)
  BY <1>2, ScriptTypes
<1>5. Head(script.todo) = "execute" => script.list \in Seq(Tokens)
  <2>1. Head(script.todo) = "execute" => script.name \in Enumerations
    BY <1>3, StepsAre, NamesAre
  <2> QED BY <1>2, <2>1 DEF Shaped
<1>6. Head(script.todo) # "execute" =>
        script.name \in Others /\ script.ids # << >> /\ script.who \in Users
  <2>1. Head(script.todo) # "execute" => script.name \in Others
    <3>1. Head(script.todo) # "look" BY <1>1, NamesAre
    <3>2. script.name \in Enumerations \cup {Distribute} => Head(script.todo) = "execute"
      BY <1>3, <3>1, StepsAre
    <3> QED BY <1>3, <3>2, NamesAre
  <2> QED BY <1>2, <2>1 DEF Shaped
<1>7. /\ tx.op = Head(script.todo) /\ tx.by = script.by
      /\ tx.to = IF script.name = Configure /\ Head(script.todo) = "claim"
                 THEN Distribution ELSE script.who
      /\ tx.ids = IF Head(script.todo) = "execute" THEN script.list ELSE script.ids
  BY DEF OutgoingOf, Sent
<1>8. tx \in Txs
  <2>1. /\ tx.op \in Ops /\ tx.by \in Users /\ tx.to \in Places /\ tx.ids \in Seq(Tokens)
    BY <1>3, <1>4, <1>5, <1>7, Kinds
  <2>2. tx = [op |-> tx.op, by |-> tx.by, to |-> tx.to, ids |-> tx.ids]
    BY DEF OutgoingOf, Sent
  <2> HIDE DEF tx
  <2> QED BY <2>1, <2>2 DEF Txs
<1> HIDE DEF tx
<1>9. TxOK(tx, world)
  <2>1. tx.op = "configure" => Delivered(world, tx.ids[1])
    <3>1. Head(script.todo) = "configure" => script.name = Configure BY <1>3, StepsAre
    <3> QED BY <1>2, <1>7, <3>1 DEF ScriptOK, Delivery
  <2> QED BY <1>6, <1>7, <2>1 DEF TxOK
<1>10. SentOK'
  <2>1. sent \in Seq(Txs) /\ \A k \in DOMAIN sent : TxOK(sent[k], world)
    BY DEF IInv, SentOK
  <2>2. LET new == Append(sent, tx) IN
        /\ new \in Seq(Txs) /\ DOMAIN new = 1..(Len(sent) + 1) /\ Len(sent) \in Nat
        /\ DOMAIN sent = 1..Len(sent)
        /\ new[Len(sent) + 1] = tx /\ \A k \in DOMAIN sent : new[k] = sent[k]
    BY <1>8, <2>1, AppendIs
  <2>3. \A k \in DOMAIN sent' : TxOK(sent'[k], world)
    <3>1. \A k \in 1..(Len(sent) + 1) : k \in 1..Len(sent) \/ k = Len(sent) + 1
      BY <2>2
    <3> QED BY <1>1, <1>9, <2>1, <2>2, <3>1
  <2> QED BY <1>1, <2>2, <2>3 DEF SentOK
<1>11. /\ script' \in Scripts /\ script'.who = script.who /\ script'.ids = script.ids
       /\ script'.name = script.name /\ script'.todo = script.todo
       /\ script'.count = script.count /\ script'.at = script.at
       /\ script'.list = script.list /\ script'.got = script.got
       /\ script'.seen = script.seen /\ script'.awaited = "sent" /\ script'.by = script.by
  BY <1>1, <1>2 DEF Scripts
<1>12. ScriptOK(script', world)
  <2>1. Shaped(script') BY <1>1, <1>2, <1>11 DEF Shaped
  <2>2. Delivery(script', world) BY <1>2, <1>11 DEF ScriptOK, Delivery
  <2>3. Pairs(script') BY <1>2, <1>11 DEF ScriptOK, Pairs
  <2>4. Found(script', world) BY <1>1, <1>11, NamesAre DEF Found
  <2> QED BY <1>2, <1>11, <2>1, <2>2, <2>3, <2>4 DEF ScriptOK
<1>13. Awaiting'
  <2>1. tx = OutgoingOf(script') BY <1>11 DEF tx, OutgoingOf
  <2>2. sent \in Seq(Txs) BY DEF IInv, SentOK
  <2>3. sent' # << >> /\ sent'[Len(sent')] = tx BY <1>1, <1>8, <2>2
  <2> QED BY <2>1, <2>3 DEF Awaiting
<1>14. ScriptInv' BY <1>1, <1>12 DEF ScriptInv
<1> QED BY <1>1, <1>10, <1>13, <1>14 DEF IInv, PairsWereTrue

-----------------------------------------------------------------------------
\* The chain, and the others.

LEMMA MineKeeps == IInv /\ Mine => IInv'
<1> SUFFICES ASSUME IInv, Mine PROVE IInv'
  OBVIOUS
<1>1. /\ sent # << >> /\ world' = Execution(world, Head(sent)) /\ sent' = Tail(sent)
      /\ UNCHANGED finished
  BY DEF Mine
<1>2. WorldOK(world) /\ Backing(world) BY DEF IInv
<1>3. sent \in Seq(Txs) /\ \A k \in DOMAIN sent : TxOK(sent[k], world)
  BY DEF IInv, SentOK
<1>4. /\ Head(sent) = sent[1] /\ Head(sent) \in Txs /\ 1 \in DOMAIN sent
      /\ Len(sent) \in Nat \ {0} /\ Tail(sent) \in Seq(Txs) /\ Len(Tail(sent)) = Len(sent) - 1
      /\ \A k \in 1..(Len(sent) - 1) : Tail(sent)[k] = sent[k + 1]
      /\ DOMAIN Tail(sent) = 1..(Len(sent) - 1) /\ DOMAIN sent = 1..Len(sent)
  BY <1>1, <1>3
<1>5. TxOK(Head(sent), world) BY <1>3, <1>4
<1>6. /\ WorldOK(world') /\ world'.held = world.held /\ world'.bound = world.bound
      /\ Backing(world') /\ \A t \in Tokens : Delivered(world, t) => Delivered(world', t)
      /\ Head(sent).op = "claim" /\ Head(sent).to = Distribution /\ Permits(world, Head(sent))
           => Delivered(world', Head(sent).ids[1])
  BY <1>1, <1>2, <1>4, <1>5, ExecutionIs
<1>7. SentOK'
  <2>1. ASSUME NEW k \in DOMAIN sent' PROVE TxOK(sent'[k], world')
    <3>1. /\ k + 1 \in DOMAIN sent /\ sent'[k] = sent[k + 1] BY <1>1, <1>4, <2>1
    <3>2. TxOK(sent[k + 1], world) /\ sent[k + 1] \in Txs BY <1>3, <3>1
    <3>3. sent[k + 1].op # "execute" => sent[k + 1].ids[1] \in Tokens BY <3>2, FirstId
    <3> QED BY <1>6, <3>1, <3>2, <3>3 DEF TxOK
  <2> QED BY <1>1, <1>4, <2>1 DEF SentOK
<1>8. PairsWereTrue' BY <1>1 DEF IInv, PairsWereTrue
<1>9. CASE script = NoScript
  <2>1. script' = NoScript BY <1>9 DEF Mine
  <2> QED BY <1>6, <1>7, <1>8, <2>1 DEF IInv, ScriptInv, Awaiting
<1>10. ASSUME script # NoScript,
              NEW awaited \in {"nothing", "sent", "mined", "reverted"}, NEW still \in BOOLEAN,
              script' = [script EXCEPT !.awaited = awaited, !.still = still],
              awaited # "nothing" => script.awaited # "nothing",
              Head(script.todo) = "look" => still = FALSE,
              awaited = "mined" /\ script.name = Configure /\ Head(script.todo) = "claim" =>
                Delivered(world', script.ids[1])
       PROVE  /\ ScriptOK(script', world') /\ script'.awaited = awaited
              /\ OutgoingOf(script') = OutgoingOf(script)
  <2>1. ScriptOK(script, world) /\ Shaped(script) /\ script \in Scripts
    BY <1>10, Running
  <2>2. /\ script' \in Scripts /\ script'.who = script.who /\ script'.ids = script.ids
        /\ script'.name = script.name /\ script'.todo = script.todo
        /\ script'.count = script.count /\ script'.at = script.at
        /\ script'.list = script.list /\ script'.got = script.got
        /\ script'.seen = script.seen /\ script'.by = script.by
        /\ script'.awaited = awaited /\ script'.still = still
    BY <1>10, <2>1 DEF Scripts
  <2>3. Shaped(script') BY <1>10, <2>1, <2>2 DEF Shaped
  <2>4. Delivery(script', world')
    <3>1. script.name = Configure => script.ids[1] \in Tokens
      <4>1. script.name = Configure => script.ids # << >> BY <2>1, NamesAre DEF Shaped
      <4>2. script.ids \in Seq(Tokens) BY <2>1, ScriptTypes
      <4> QED BY <4>1, <4>2
    <3>2. script.name = Configure /\ Head(script.todo) \in {"clear", "configure"} =>
            Delivered(world, script.ids[1])
      BY <2>1 DEF ScriptOK, Delivery
    <3> QED BY <1>6, <1>10, <2>2, <3>1, <3>2 DEF Delivery
  <2>5. Pairs(script') BY <2>1, <2>2 DEF ScriptOK, Pairs
  <2>6. Found(script', world') BY <1>10, <2>2 DEF Found
  <2>7. Belongings(world') \subseteq script'.seen
    BY <1>6, <2>1, <2>2, BelongingsSame DEF ScriptOK
  <2>8. OutgoingOf(script') = OutgoingOf(script) BY <2>2 DEF OutgoingOf
  <2> QED BY <2>2, <2>3, <2>4, <2>5, <2>6, <2>7, <2>8 DEF ScriptOK
<1>11. CASE script # NoScript /\ Len(sent) = 1 /\ script.awaited = "sent"
  <2> DEFINE awaited == IF Permits(world, Head(sent)) THEN "mined" ELSE "reverted"
  <2>1. script \in Scripts /\ Shaped(script) BY <1>11, Running
  <2>2. Head(sent) = OutgoingOf(script) BY <1>4, <1>11 DEF IInv, Awaiting
  <2>3. awaited = "mined" /\ script.name = Configure /\ Head(script.todo) = "claim" =>
          Delivered(world', script.ids[1])
    <3> SUFFICES ASSUME awaited = "mined", script.name = Configure,
                        Head(script.todo) = "claim"
                 PROVE  Delivered(world', script.ids[1])
      OBVIOUS
    <3>1. /\ Head(sent).op = "claim" /\ Head(sent).to = Distribution
          /\ Head(sent).ids = script.ids
      BY <2>2 DEF OutgoingOf, Sent
    <3> QED BY <1>6, <3>1
  <2>4. script' = [script EXCEPT !.awaited = awaited] BY <1>11 DEF Mine
  <2>5. awaited \in {"nothing", "sent", "mined", "reverted"} /\ awaited # "sent" OBVIOUS
  <2> HIDE DEF awaited
  <2>6. script' = [script EXCEPT !.awaited = awaited, !.still = script.still]
    BY <2>1, <2>4 DEF Scripts
  <2>7. script.still \in BOOLEAN BY <2>1, ScriptTypes
  <2>8. Head(script.todo) # "look" BY <1>11, <2>1, NamesAre DEF Shaped
  <2>9. ScriptOK(script', world') /\ script'.awaited = awaited
    BY <1>10, <1>11, <2>3, <2>5, <2>6, <2>7, <2>8
  <2> QED BY <1>6, <1>7, <1>8, <2>5, <2>9 DEF IInv, ScriptInv, Awaiting
<1>12. CASE script # NoScript /\ ~(Len(sent) = 1 /\ script.awaited = "sent")
  <2>1. ScriptOK(script, world) /\ script \in Scripts BY <1>12, Running
  <2>2. script' = [script EXCEPT !.still = FALSE] BY <1>12 DEF Mine
  <2>3. script' = [script EXCEPT !.awaited = script.awaited, !.still = FALSE]
    BY <2>1, <2>2 DEF Scripts
  <2>4. script.awaited \in {"nothing", "sent", "mined", "reverted"} BY <2>1, ScriptTypes
  <2>5. script.awaited = "mined" /\ script.name = Configure /\ Head(script.todo) = "claim" =>
          Delivered(world', script.ids[1])
    <3>1. script.awaited = "mined" /\ script.name = Configure /\ Head(script.todo) = "claim" =>
            Delivered(world, script.ids[1])
      BY <2>1 DEF ScriptOK, Delivery
    <3>2. script.name = Configure => script.ids[1] \in Tokens
      <4>1. script.name = Configure => script.ids # << >>
        BY <2>1, NamesAre DEF ScriptOK, Shaped
      <4>2. script.ids \in Seq(Tokens) BY <2>1, ScriptTypes
      <4> QED BY <4>1, <4>2
    <3> QED BY <1>6, <3>1, <3>2
  <2>6. /\ ScriptOK(script', world') /\ script'.awaited = script.awaited
        /\ OutgoingOf(script') = OutgoingOf(script)
    BY <1>10, <1>12, <2>3, <2>4, <2>5
  <2>7. Awaiting'
    <3> SUFFICES ASSUME script.awaited = "sent"
                 PROVE  sent' # << >> /\ sent'[Len(sent')] = OutgoingOf(script)
      BY <2>6 DEF Awaiting
    <3>1. sent[Len(sent)] = OutgoingOf(script) BY <1>12 DEF IInv, Awaiting
    <3>2. Len(sent) # 1 BY <1>12
    <3>3. Len(sent) - 1 \in 1..(Len(sent) - 1) /\ (Len(sent) - 1) + 1 = Len(sent)
      BY <1>4, <3>2
    <3>4. sent'[Len(sent) - 1] = sent[Len(sent)] BY <1>1, <1>4, <3>3
    <3>5. sent' \in Seq(Txs) /\ Len(sent') = Len(sent) - 1 BY <1>1, <1>4
    <3>6. sent' # << >> BY <1>4, <3>2, <3>5, EmptySeq
    <3> QED BY <3>1, <3>4, <3>5, <3>6
  <2> QED BY <1>6, <1>7, <1>8, <2>6, <2>7 DEF IInv, ScriptInv
<1> QED BY <1>9, <1>11, <1>12

\* What others do leaves airdrops and credits alone, and is seen.
LEMMA ChangeKeeps ==
  ASSUME IInv, NEW w, WorldOK(w), Change(w),
         w.drop = world.drop, w.credit = world.credit, w.byBalance = world.byBalance
  PROVE  IInv'
<1>1. world' = w /\ UNCHANGED <<sent, finished>> BY DEF Change
<1>2. \A t : Delivered(w, t) <=> Delivered(world, t) BY DEF Delivered
<1>3. WorldOK(world)' BY <1>1
<1>4. Backing(world)' BY <1>1, <1>2 DEF IInv, Backing
<1>5. SentOK' BY <1>1, <1>2 DEF IInv, SentOK, TxOK
<1>6. PairsWereTrue' BY <1>1 DEF IInv, PairsWereTrue
<1>7. CASE script = NoScript
  <2>1. script' = NoScript BY <1>7 DEF Change
  <2> QED BY <1>3, <1>4, <1>5, <1>6, <2>1 DEF IInv, ScriptInv, Awaiting
<1>8. CASE script # NoScript
  <2>1. ScriptOK(script, world) /\ Shaped(script) /\ script \in Scripts
    BY <1>8, Running
  <2>2. script' = [script EXCEPT !.still = FALSE, !.seen = @ \cup Belongings(w)]
    BY <1>8 DEF Change
  <2>3. script.seen \cup Belongings(w) \in SUBSET (Users \X Tokens)
    BY <2>1, BelongingsAre, ScriptTypes
  <2>4. /\ script' \in Scripts /\ script'.who = script.who /\ script'.ids = script.ids
        /\ script'.name = script.name /\ script'.todo = script.todo
        /\ script'.count = script.count /\ script'.at = script.at
        /\ script'.list = script.list /\ script'.got = script.got
        /\ script'.seen = script.seen \cup Belongings(w) /\ script'.by = script.by
        /\ script'.awaited = script.awaited /\ script'.still = FALSE
    BY <2>1, <2>2, <2>3 DEF Scripts
  <2>5. Shaped(script') BY <2>1, <2>4 DEF Shaped
  <2>6. Delivery(script', w) BY <1>2, <2>1, <2>4 DEF ScriptOK, Delivery
  <2>7. Pairs(script') BY <2>1, <2>4 DEF ScriptOK, Pairs
  <2>8. Found(script', w) BY <2>4 DEF Found
  <2>9. ScriptOK(script', w) BY <2>4, <2>5, <2>6, <2>7, <2>8 DEF ScriptOK
  <2>10. OutgoingOf(script') = OutgoingOf(script) BY <2>4 DEF OutgoingOf
  <2>11. Awaiting' BY <1>1, <1>8, <2>4, <2>10 DEF IInv, Awaiting
  <2> QED BY <1>1, <1>3, <1>4, <1>5, <1>6, <2>9, <2>11 DEF IInv, ScriptInv
<1> QED BY <1>7, <1>8

LEMMA OthersKeep == IInv /\ Changes => IInv'
<1> SUFFICES ASSUME IInv, Changes PROVE IInv'
  OBVIOUS
<1>1. WorldOK(world) /\ world \in World BY DEF IInv, WorldOK
<1>2. ASSUME NEW u \in Users, NEW to \in Users, NEW t \in Tokens, bind(u, t, to)
      PROVE  IInv'
  <2> DEFINE w == [world EXCEPT !.held = [world.held EXCEPT ![u] = Without(@, t),
                                                            ![BNft] = Append(@, t)],
                                !.bound[to] = Append(@, t)]
  <2>1. In(world.held[u], t) /\ Change(w) BY <1>2, InRange DEF bind, Pass
  <2>2. WorldOK(w) BY <1>1, <2>1, BindKeeps
  <2>3. w.drop = world.drop /\ w.credit = world.credit /\ w.byBalance = world.byBalance
    BY <1>1 DEF World
  <2> HIDE DEF w
  <2> QED BY <2>1, <2>2, <2>3, ChangeKeeps
<1>3. ASSUME NEW u \in Users, NEW to \in Users, NEW t \in Tokens, sell(u, t, to)
      PROVE  IInv'
  <2> DEFINE w == [world EXCEPT !.held = [world.held EXCEPT ![u] = Without(@, t),
                                                            ![to] = Append(@, t)]]
  <2>1. In(world.held[u], t) /\ u # to /\ Change(w) BY <1>3, InRange DEF sell, Pass
  <2>2. WorldOK(w) BY <1>1, <2>1, SellKeeps
  <2>3. w.drop = world.drop /\ w.credit = world.credit /\ w.byBalance = world.byBalance
    BY <1>1 DEF World
  <2> HIDE DEF w
  <2> QED BY <2>1, <2>2, <2>3, ChangeKeeps
<1>4. ASSUME NEW to \in Users, NEW t \in Tokens, release(t, to)
      PROVE  IInv'
  <2> DEFINE w == [world EXCEPT !.held = [world.held EXCEPT ![BNft] = Without(@, t),
                                                            ![to] = Append(@, t)],
                                !.bound[BnftOwner(world, t)] = Without(@, t)]
  <2>1. IsBound(world, t) /\ Change(w) BY <1>4 DEF release, Pass
  <2>2. WorldOK(w) BY <1>1, <2>1, ReleaseKeeps
  <2>3. w.drop = world.drop /\ w.credit = world.credit /\ w.byBalance = world.byBalance
    BY <1>1 DEF World
  <2> HIDE DEF w
  <2> QED BY <2>1, <2>2, <2>3, ChangeKeeps
<1>5. ASSUME NEW t \in Tokens, claimSelf(t) PROVE IInv'
  <2> DEFINE w == [world EXCEPT !.claimed = @ \cup {t}]
  <2>1. Change(w) BY <1>5 DEF claimSelf
  <2>2. /\ w \in World /\ w.held = world.held /\ w.bound = world.bound
        /\ w.drop = world.drop /\ w.credit = world.credit /\ w.byBalance = world.byBalance
    <3>1. world.claimed \cup {t} \in SUBSET Tokens BY <1>1, WorldTypes
    <3> QED BY <1>1, <3>1 DEF World
  <2> HIDE DEF w
  <2>3. WorldOK(w) BY <1>1, <2>2 DEF WorldOK
  <2> QED BY <2>1, <2>2, <2>3, ChangeKeeps
<1>6. ASSUME NEW u \in Users, setClaimAdmin(u) PROVE IInv'
  <2> DEFINE w == [world EXCEPT !.claimAdmin = u]
  <2>1. Change(w) BY <1>6 DEF setClaimAdmin
  <2>2. /\ w \in World /\ w.held = world.held /\ w.bound = world.bound
        /\ w.drop = world.drop /\ w.credit = world.credit /\ w.byBalance = world.byBalance
    BY <1>1 DEF World
  <2> HIDE DEF w
  <2>3. WorldOK(w) BY <1>1, <2>2 DEF WorldOK
  <2> QED BY <2>1, <2>2, <2>3, ChangeKeeps
<1> QED BY <1>2, <1>3, <1>4, <1>5, <1>6 DEF Changes

-----------------------------------------------------------------------------
\* Beginnings.

\* A script as it is made, from NoScript by one EXCEPT.
Raw == [name : Names \cup {"none"}, todo : Seq(Ops \cup Questions), who : Users \cup {Nobody},
        ids : Seq(Tokens), count : Nat, at : Nat, tries : Nat,
        got : Tokens \cup {Nobody, BNft}, list : Seq(Tokens) \cup Seq(Users),
        by : Users \cup {Nobody}, awaited : {"nothing", "sent", "mined", "reverted"},
        failed : Nat, still : BOOLEAN, seen : SUBSET (Users \X Tokens)]

LEMMA NoScriptIs ==
  /\ NoScript \in Raw /\ NoScript.count = 0 /\ NoScript.at = 0 /\ NoScript.got = Nobody
  /\ NoScript.list = << >> /\ NoScript.awaited = "nothing" /\ NoScript.failed = 0
  /\ NoScript.still = TRUE
<1>1. << >> \in Seq(Tokens) /\ << >> \in Seq(Ops \cup Questions) BY EmptySeq
<1>2. NoScript \in Raw BY <1>1 DEF NoScript, Raw
<1> QED BY <1>2 DEF NoScript

LEMMA StepsBegin ==
  ASSUME NEW name \in Names
  PROVE  /\ Steps(name) \in Remainders(name) /\ Steps(name) \in Seq(Ops \cup Questions)
         /\ name \in Enumerations \cup {Distribute} => Head(Steps(name)) = "look"
         /\ name = Configure => Head(Steps(name)) = "snapshot"
<1>1. Steps(name) \in Remainders(name)
  <2>1. CASE name = Configure BY <2>1 DEF Steps, Remainders, Configure
  <2>2. CASE name # Configure BY <2>2 DEF Steps, Remainders, Configure
  <2> QED BY <2>1, <2>2
<1>2. Steps(name) \in Seq(Ops \cup Questions) BY <1>1, StepsAre
<1>3. CASE name = "azuki:claim-tiger"
  <2>1. Steps(name) = <<"look", "execute">> BY <1>3 DEF Steps
  <2>2. Head(<<"look", "execute">>) = "look" OBVIOUS
  <2> QED BY <1>1, <1>2, <1>3, <2>1, <2>2 DEF Configure
<1>4. CASE name = Configure
  <2>1. Steps(name) = <<"snapshot", "owner", "claim", "clear", "configure">>
    BY <1>4 DEF Steps, Configure
  <2>2. Head(<<"snapshot", "owner", "claim", "clear", "configure">>) = "snapshot" OBVIOUS
  <2> QED BY <1>1, <1>2, <1>4, <2>1, <2>2 DEF Configure, Enumerations, Distribute
<1>5. CASE name \in {Distribute} \cup (Enumerations \ {"azuki:claim-tiger"})
  <2>1. Steps(name) = <<"look">> BY <1>5 DEF Steps, Enumerations, Distribute
  <2>2. Head(<<"look">>) = "look" OBVIOUS
  <2> QED BY <1>1, <1>2, <1>5, <2>1, <2>2 DEF Configure, Enumerations, Distribute
<1> QED BY <1>1, <1>2, <1>3, <1>4, <1>5 DEF Enumerations, Distribute, Configure

LEMMA BegunIs ==
  ASSUME WorldOK(world), NEW name \in Names, NEW u \in Users \cup {Nobody},
         NEW ids \in Seq(Tokens), name = "dev:flashloan-airdrop" => u \in Users,
         NEW b, b = Begun(name, u, ids)
  PROVE  /\ b \in Scripts /\ b.name = name /\ b.todo = Steps(name) /\ b.who = u
         /\ b.ids = ids /\ b.count = 0 /\ b.at = 0 /\ b.tries = 3 /\ b.got = Nobody
         /\ b.list = << >> /\ b.awaited = "nothing" /\ b.failed = 0
         /\ b.seen = Belongings(world)
<1> DEFINE by   == SignerAt(name, u)
           todo == Steps(name)
           seen == Belongings(world)
<1>1. by \in Users
  <2>1. world.claimAdmin \in Users /\ Operator \in Users BY WorldTypes, Kinds DEF WorldOK
  <2> QED BY <2>1 DEF SignerAt
<1>2. todo \in Seq(Ops \cup Questions) /\ seen \in SUBSET (Users \X Tokens)
  BY BelongingsAre, StepsBegin
<1>3. b = [NoScript EXCEPT !.name = name, !.todo = todo, !.who = u, !.ids = ids,
                           !.tries = 3, !.by = by, !.seen = seen]
  BY DEF Begun, Tries
<1> HIDE DEF by, todo, seen
<1>4. b \in Raw
  <2>1. by \in Users \cup {Nobody} /\ name \in Names \cup {"none"} /\ 3 \in Nat BY <1>1
  <2> QED BY <1>2, <1>3, <2>1, NoScriptIs DEF Raw
<1>5. /\ b.name = name /\ b.todo = todo /\ b.who = u /\ b.ids = ids /\ b.tries = 3
      /\ b.by = by /\ b.seen = seen
  BY <1>3, NoScriptIs DEF Raw
<1>6. /\ b.count = 0 /\ b.at = 0 /\ b.got = Nobody /\ b.list = << >>
      /\ b.awaited = "nothing" /\ b.failed = 0
  BY <1>3, NoScriptIs DEF Raw
<1>7. b \in Scripts BY <1>1, <1>4, <1>5 DEF Raw, Scripts
<1> QED BY <1>5, <1>6, <1>7 DEF todo, seen

\* A script at its start, and what differs from script to script.
IsFresh(s, name, u, ids, count, list) ==
  /\ s \in Scripts /\ s.todo = Steps(name) /\ s.name = name /\ s.who = u /\ s.ids = ids
  /\ s.count = count /\ s.at = 0 /\ s.tries = 3 /\ s.got = Nobody /\ s.list = list
  /\ s.awaited = "nothing" /\ s.failed = 0 /\ s.seen = Belongings(world)

LEMMA FreshAre ==
  ASSUME WorldOK(world), NEW name \in Names, NEW u \in Users \cup {Nobody},
         NEW ids \in Seq(Tokens), name = "dev:flashloan-airdrop" => u \in Users
  PROVE  /\ IsFresh(Begun(name, u, ids), name, u, ids, 0, << >>)
         /\ \A count \in Nat :
              IsFresh([Begun(name, u, ids) EXCEPT !.count = count], name, u, ids, count, << >>)
         /\ \A list \in Seq(Tokens) :
              IsFresh([Begun(name, u, ids) EXCEPT !.list = list], name, u, ids, 0, list)
<1> DEFINE b == Begun(name, u, ids)
<1>1. IsFresh(b, name, u, ids, 0, << >>) BY BegunIs DEF IsFresh
<1> HIDE DEF b
<1>2. ASSUME NEW count \in Nat
      PROVE  IsFresh([b EXCEPT !.count = count], name, u, ids, count, << >>)
  BY <1>1 DEF IsFresh, Scripts
<1>3. ASSUME NEW list \in Seq(Tokens)
      PROVE  IsFresh([b EXCEPT !.list = list], name, u, ids, 0, list)
  <2>1. list \in Seq(Tokens) \cup Seq(Users) OBVIOUS
  <2> QED BY <1>1, <2>1 DEF IsFresh, Scripts
<1> QED BY <1>1, <1>2, <1>3 DEF b

\* A new script is in order, and waits for nothing.
LEMMA ReadyKeeps ==
  ASSUME IInv, NEW s, Ready(s), ScriptOK(s, world), s.awaited = "nothing"
  PROVE  IInv'
<1>1. script' = s /\ finished' = NoScript /\ UNCHANGED <<world, sent>> BY DEF Ready
<1>2. PairsWereTrue' BY <1>1 DEF PairsWereTrue, NoScript
<1> QED BY <1>1, <1>2 DEF IInv, ScriptInv, Awaiting, SentOK

LEMMA BeginsKeep ==
  ASSUME NEW names, IInv, Begins(names)
  PROVE  IInv'
<1>1. WorldOK(world) /\ << >> \in Seq(Tokens) BY EmptySeq DEF IInv
<1>2. \A ids \in IdLists : ids \in Seq(Tokens) /\ ids # << >> BY ClaimConstants
<1>3. ASSUME NEW name \in Enumerations, NEW u \in Users, enumerate(name, u)
      PROVE  IInv'
  <2> DEFINE all == ListOf(world, name, u)
             s   == [Begun(name, u, << >>) EXCEPT !.count = Len(all)]
  <2>1. all \in Seq(Tokens) BY <1>1, ListIs
  <2>2. all = Enumerated(name, u) BY DEF ListOf, Enumerated
  <2>3. Ready(s) BY <1>3, <2>2 DEF enumerate
  <2> HIDE DEF all
  <2>4. Len(all) \in Nat /\ name \in Names BY <2>1, NamesAre
  <2>5. name # "dev:flashloan-airdrop" BY DEF Enumerations
  <2>6. IsFresh(s, name, u, << >>, Len(all), << >>)
    BY <1>1, <2>4, <2>5, FreshAre
  <2> HIDE DEF s
  <2>7. /\ s \in Scripts /\ s.todo \in Remainders(name) /\ Head(s.todo) = "look"
        /\ s.name = name /\ s.who = u /\ s.ids = << >> /\ s.count = Len(all) /\ s.at = 0
        /\ s.tries = 3 /\ s.got = Nobody /\ s.list = << >> /\ s.awaited = "nothing"
        /\ s.failed = 0 /\ Belongings(world) \subseteq s.seen
    BY <2>6, <2>4, StepsBegin DEF IsFresh
  <2>8. Shaped(s) BY <1>1, <2>7, NamesAre DEF Shaped
  <2>9. Delivery(s, world) /\ Pairs(s) BY <2>7, NamesAre DEF Delivery, Pairs
  <2>10. Found(s, world)
    <3>1. DOMAIN << >> = {} /\ \A k \in 1..0 : FALSE OBVIOUS
    <3>2. 0 <= Len(all) BY <2>4
    <3> QED BY <2>7, <3>1, <3>2 DEF Found, In, all
  <2>11. ScriptOK(s, world) BY <2>7, <2>8, <2>9, <2>10 DEF ScriptOK
  <2> QED BY <2>3, <2>7, <2>11, ReadyKeeps
<1>4. ASSUME NEW ids \in IdLists, distribute(ids) PROVE IInv'
  <2> DEFINE s == [Begun(Distribute, Nobody, ids) EXCEPT !.count = Len(ids)]
  <2>1. Ready(s) BY <1>4 DEF distribute, Distribute
  <2>2. ids \in Seq(Tokens) /\ Len(ids) \in Nat BY <1>2
  <2>3. Distribute \in Names /\ Distribute # "dev:flashloan-airdrop"
    BY NamesAre DEF Distribute
  <2>4. IsFresh(s, Distribute, Nobody, ids, Len(ids), << >>)
    BY <1>1, <2>2, <2>3, FreshAre
  <2> HIDE DEF s
  <2>5. /\ s \in Scripts /\ s.todo \in Remainders(Distribute) /\ Head(s.todo) = "look"
        /\ s.name = Distribute /\ s.ids = ids /\ s.count = Len(ids) /\ s.at = 0
        /\ s.got = Nobody /\ s.list = << >> /\ s.awaited = "nothing"
        /\ Belongings(world) \subseteq s.seen
    BY <2>4, <2>3, StepsBegin DEF IsFresh
  <2>6. << >> \in Seq(Users) /\ Len(<< >>) = 0 /\ DOMAIN << >> = {} BY EmptySeq
  <2>7. Shaped(s) BY <2>5, <2>6, NamesAre DEF Shaped
  <2>8. Delivery(s, world) /\ Found(s, world) BY <2>5, NamesAre DEF Delivery, Found
  <2>9. Pairs(s) BY <2>2, <2>5, <2>6, NamesAre DEF Pairs
  <2>10. ScriptOK(s, world) BY <2>5, <2>7, <2>8, <2>9 DEF ScriptOK
  <2> QED BY <2>1, <2>5, <2>10, ReadyKeeps
<1>5. ASSUME NEW ids \in IdLists, claimGiven(ids) PROVE IInv'
  <2> DEFINE name == "azuki:claim-tiger"
             s    == [Begun(name, Nobody, ids) EXCEPT !.list = ids]
  <2>1. Ready(s) BY <1>5 DEF claimGiven
  <2>2. ids \in Seq(Tokens) /\ ids # << >> BY <1>2
  <2>3. name \in Names /\ name \in Enumerations BY NamesAre
  <2>4. IsFresh(s, name, Nobody, ids, 0, ids)
    BY <1>1, <2>2, <2>3, FreshAre
  <2> HIDE DEF s
  <2>5. /\ s \in Scripts /\ s.todo \in Remainders(name) /\ Head(s.todo) = "look"
        /\ s.name = name /\ s.ids = ids /\ s.count = 0
        /\ s.got = Nobody /\ s.list = ids /\ s.awaited = "nothing"
        /\ Belongings(world) \subseteq s.seen
    BY <2>4, <2>3, StepsBegin DEF IsFresh
  <2> HIDE DEF name
  <2>6. Shaped(s) BY <2>2, <2>3, <2>5, NamesAre DEF Shaped
  <2>7. /\ Delivery(s, world) /\ Found(s, world) /\ Pairs(s)
    BY <2>2, <2>3, <2>5, NamesAre DEF Delivery, Found, Pairs
  <2>8. ScriptOK(s, world) BY <2>5, <2>6, <2>7 DEF ScriptOK
  <2> QED BY <2>1, <2>5, <2>8, ReadyKeeps
<1>6. ASSUME NEW name \in Others, NEW u \in Users, NEW t \in Tokens, carryOut(name, u, t)
      PROVE  IInv'
  <2> DEFINE s == Begun(name, u, <<t>>)
  <2>1. Ready(s) BY <1>6 DEF carryOut
  <2>2. <<t>> \in Seq(Tokens) /\ <<t>> # << >> /\ name \in Names BY NamesAre
  <2>3. IsFresh(s, name, u, <<t>>, 0, << >>)
    BY <1>1, <2>2, FreshAre
  <2> HIDE DEF s
  <2>4. /\ s \in Scripts /\ s.todo \in Remainders(name)
        /\ name = Configure => Head(s.todo) = "snapshot"
        /\ s.name = name /\ s.who = u /\ s.ids = <<t>> /\ s.awaited = "nothing"
        /\ Belongings(world) \subseteq s.seen
    BY <2>3, <2>2, StepsBegin DEF IsFresh
  <2>5. Shaped(s) BY <2>2, <2>4, NamesAre DEF Shaped
  <2>6. Delivery(s, world) /\ Found(s, world) /\ Pairs(s)
    BY <2>4, NamesAre DEF Delivery, Found, Pairs
  <2>7. ScriptOK(s, world) BY <2>4, <2>5, <2>6 DEF ScriptOK
  <2> QED BY <2>1, <2>4, <2>7, ReadyKeeps
<1> QED BY <1>3, <1>4, <1>5, <1>6 DEF Begins

-----------------------------------------------------------------------------
\* The theorems.

\* A world in which nobody has been given anything yet.
StartOK(w) == WorldOK(w) /\ \A u \in Users : w.credit[u] = << >>

LEMMA InitIs ==
  ASSUME NEW worlds, \A w \in worlds : StartOK(w), ClaimInit(worlds)
  PROVE  IInv
<1>1. /\ StartOK(world) /\ sent = << >> /\ script = NoScript /\ finished = NoScript
  BY DEF ClaimInit
<1>2. Backing(world) BY <1>1 DEF StartOK, Backing, In
<1>3. SentOK BY <1>1, EmptySeq DEF SentOK
<1>4. PairsWereTrue BY <1>1 DEF PairsWereTrue, NoScript
<1> QED BY <1>1, <1>2, <1>3, <1>4 DEF StartOK, IInv, ScriptInv, Awaiting

LEMMA NextKeeps ==
  ASSUME NEW names, IInv, [ClaimNext(names)]_claimVars
  PROVE  IInv'
<1>1. CASE Begins(names) BY <1>1, BeginsKeep
<1>2. CASE Progress
  BY <1>2, LookFirst, LookSecond, LookFails, Looked, AskOwner, AskSigner, SkipSnapshot,
     SendTx, AwaitTx, GivenUp
     DEF Progress
<1>3. CASE kill BY <1>3, GivenUp
<1>4. CASE Mine BY <1>4, MineKeeps
<1>5. CASE Changes BY <1>5, OthersKeep
<1>6. CASE UNCHANGED claimVars
  BY <1>6 DEF claimVars, IInv, SentOK, ScriptInv, Awaiting, PairsWereTrue
<1> QED BY <1>1, <1>2, <1>3, <1>4, <1>5, <1>6 DEF ClaimNext

\* A finite set as a list: its members, once each.
LEMMA SetAsList ==
  ASSUME NEW S, IsFiniteSet(S)
  PROVE  /\ SetToSeq(S) \in Seq(S)
         /\ \A j, k \in DOMAIN SetToSeq(S) : SetToSeq(S)[j] = SetToSeq(S)[k] => j = k
         /\ \A t : In(SetToSeq(S), t) <=> t \in S
<1> DEFINE n == Cardinality(S)
           f == SetToSeq(S)
<1>1. n \in Nat /\ \E g : g \in Bijection(1..n, S)
  BY FS_CardinalityType DEF ExistsBijection
<1>2. \E g \in [1..n -> S] : IsInjective(g) BY <1>1 DEF Bijection, Injection
<1>3. f \in [1..n -> S] /\ IsInjective(f) BY <1>2 DEF SetToSeq
<1>4. f \in Injection(1..n, S) BY <1>3 DEF Injection
<1>5. Cardinality(1..n) = n
  <2>1. 1 \in Int /\ n \in Int BY <1>1
  <2>2. Cardinality(1..n) = IF 1 > n THEN 0 ELSE n - 1 + 1 BY <2>1, FS_Interval
  <2> QED BY <1>1, <2>2
<1>6. f \in Surjection(1..n, S) BY <1>4, <1>5, FS_Injection
<1>7. \A t \in S : \E j \in 1..n : f[j] = t BY <1>6 DEF Surjection
<1> HIDE DEF f, n
<1>8. f \in Seq(S) BY <1>1, <1>3, IsASeq
<1>9. \A j, k \in DOMAIN f : f[j] = f[k] => j = k BY <1>3 DEF IsInjective
<1>10. \A t : In(f, t) <=> t \in S BY <1>3, <1>7 DEF In
<1> QED BY <1>8, <1>9, <1>10 DEF f

\* The worlds the scripts are started in are among those the theorems are about.
THEOREM StartsFit ==
  ASSUME IsFiniteSet(Tokens),
         NEW Arrangements \in SUBSET [Tokens -> Users \X BOOLEAN],
         NEW kinds \in SUBSET BOOLEAN
  PROVE  \A w \in StartWorlds(Arrangements, kinds) : StartOK(w)
<1> SUFFICES ASSUME NEW a \in [Tokens -> Users \X BOOLEAN], NEW kind \in BOOLEAN
             PROVE  StartOK(StartWorld(a, kind))
  BY DEF StartWorlds
<1> DEFINE w == StartWorld(a, kind)
           HeldSet(h) == {t \in Tokens : \/ h = BNft /\ \E u \in Users : a[t] = <<u, TRUE>>
                                         \/ a[t] = <<h, FALSE>>}
           BoundSet(u) == {t \in Tokens : a[t] = <<u, TRUE>>}
<1>1. /\ \A h : IsFiniteSet(HeldSet(h)) /\ IsFiniteSet(BoundSet(h))
      /\ \A h : HeldSet(h) \subseteq Tokens /\ BoundSet(h) \subseteq Tokens
  BY FS_Subset
<1>2. /\ w.held = [h \in Holders |-> SetToSeq(HeldSet(h))]
      /\ w.bound = [u \in Users |-> SetToSeq(BoundSet(u))]
      /\ w.claimed = {} /\ w.drop = [t \in Tokens |-> Nobody]
      /\ w.credit = [u \in Users |-> << >>] /\ w.byBalance = kind
      /\ w.owner = Operator /\ w.claimAdmin = Operator
  BY DEF StartWorld
<1>3. \A h : /\ SetToSeq(HeldSet(h)) \in Seq(Tokens)
             /\ \A j, k \in DOMAIN SetToSeq(HeldSet(h)) :
                  SetToSeq(HeldSet(h))[j] = SetToSeq(HeldSet(h))[k] => j = k
             /\ \A t : In(SetToSeq(HeldSet(h)), t) <=> t \in HeldSet(h)
  <2> TAKE h
  <2> DEFINE S == HeldSet(h)
  <2>1. IsFiniteSet(S) /\ S \subseteq Tokens BY <1>1
  <2> HIDE DEF S
  <2>2. /\ SetToSeq(S) \in Seq(S)
        /\ \A j, k \in DOMAIN SetToSeq(S) : SetToSeq(S)[j] = SetToSeq(S)[k] => j = k
        /\ \A t : In(SetToSeq(S), t) <=> t \in S
    BY <2>1, SetAsList
  <2>3. SetToSeq(S) \in Seq(Tokens) BY <2>1, <2>2
  <2> QED BY <2>2, <2>3 DEF S
<1>4. \A u : /\ SetToSeq(BoundSet(u)) \in Seq(Tokens)
             /\ \A j, k \in DOMAIN SetToSeq(BoundSet(u)) :
                  SetToSeq(BoundSet(u))[j] = SetToSeq(BoundSet(u))[k] => j = k
             /\ \A t : In(SetToSeq(BoundSet(u)), t) <=> t \in BoundSet(u)
  <2> TAKE u
  <2> DEFINE S == BoundSet(u)
  <2>1. IsFiniteSet(S) /\ S \subseteq Tokens BY <1>1
  <2> HIDE DEF S
  <2>2. /\ SetToSeq(S) \in Seq(S)
        /\ \A j, k \in DOMAIN SetToSeq(S) : SetToSeq(S)[j] = SetToSeq(S)[k] => j = k
        /\ \A t : In(SetToSeq(S), t) <=> t \in S
    BY <2>1, SetAsList
  <2>3. SetToSeq(S) \in Seq(Tokens) BY <2>1, <2>2
  <2> QED BY <2>2, <2>3 DEF S
<1>5. /\ \A h, g \in Holders, t \in Tokens : t \in HeldSet(h) /\ t \in HeldSet(g) => h = g
      /\ \A u, v \in Users, t \in Tokens : t \in BoundSet(u) /\ t \in BoundSet(v) => u = v
      /\ \A t \in Tokens : \E h \in Holders : t \in HeldSet(h)
      /\ \A t \in Tokens : t \in HeldSet(BNft) <=> \E u \in Users : t \in BoundSet(u)
  <2>1. \A t \in Tokens : \E u \in Users : a[t] = <<u, TRUE>> \/ a[t] = <<u, FALSE>>
    <3> SUFFICES ASSUME NEW t \in Tokens
                 PROVE  \E u \in Users : a[t] = <<u, TRUE>> \/ a[t] = <<u, FALSE>>
      OBVIOUS
    <3>1. a[t] \in Users \X BOOLEAN OBVIOUS
    <3>2. PICK u \in Users, b \in BOOLEAN : a[t] = <<u, b>> BY <3>1
    <3>3. CASE b = TRUE BY <3>2, <3>3
    <3>4. CASE b = FALSE BY <3>2, <3>4
    <3> QED BY <3>2, <3>3, <3>4
  <2>2. \A t \in Tokens : \A u, v :
          /\ a[t] = <<u, TRUE>> /\ a[t] = <<v, TRUE>> => u = v
          /\ a[t] = <<u, FALSE>> /\ a[t] = <<v, FALSE>> => u = v
          /\ ~(a[t] = <<u, TRUE>> /\ a[t] = <<v, FALSE>>)
    <3>1. \A u, v, b, c : <<u, b>> = <<v, c>> => u = v /\ b = c OBVIOUS
    <3> QED BY <3>1, Zenon
  <2>3. \A t \in Tokens : a[t] # <<BNft, FALSE>> BY <2>1, <2>2, Kinds, Zenon
  <2>4. \A t \in Tokens : t \in HeldSet(BNft) <=> \E u \in Users : a[t] = <<u, TRUE>>
    BY <2>3
  <2>5. \A h \in Users, t \in Tokens : t \in HeldSet(h) <=> a[t] = <<h, FALSE>>
    BY Kinds
  <2>6. \A u, t : t \in BoundSet(u) <=> t \in Tokens /\ a[t] = <<u, TRUE>> OBVIOUS
  <2> HIDE DEF HeldSet, BoundSet
  <2>7. Holders = Users \cup {BNft} BY DEF Holders
  <2>8. \A h, g \in Holders, t \in Tokens : t \in HeldSet(h) /\ t \in HeldSet(g) => h = g
    <3> SUFFICES ASSUME NEW h \in Holders, NEW g \in Holders, NEW t \in Tokens,
                        t \in HeldSet(h), t \in HeldSet(g)
                 PROVE  h = g
      BY Zenon
    <3>1. CASE h \in Users /\ g \in Users
      <4>1. a[t] = <<h, FALSE>> /\ a[t] = <<g, FALSE>> BY <2>5, <3>1
      <4> QED BY <4>1, <2>2, Zenon
    <3>2. CASE h = BNft /\ g \in Users
      <4>1. a[t] = <<g, FALSE>> BY <2>5, <3>2
      <4>2. \E u \in Users : a[t] = <<u, TRUE>> BY <2>4, <3>2
      <4> QED BY <4>1, <4>2, <2>2, Zenon
    <3>3. CASE h \in Users /\ g = BNft
      <4>1. a[t] = <<h, FALSE>> BY <2>5, <3>3
      <4>2. \E u \in Users : a[t] = <<u, TRUE>> BY <2>4, <3>3
      <4> QED BY <4>1, <4>2, <2>2, Zenon
    <3> QED BY <3>1, <3>2, <3>3, <2>7
  <2>9. \A u, v \in Users, t \in Tokens : t \in BoundSet(u) /\ t \in BoundSet(v) => u = v
    <3> SUFFICES ASSUME NEW u \in Users, NEW v \in Users, NEW t \in Tokens,
                        t \in BoundSet(u), t \in BoundSet(v)
                 PROVE  u = v
      BY Zenon
    <3>1. a[t] = <<u, TRUE>> /\ a[t] = <<v, TRUE>> BY <2>6
    <3> QED BY <3>1, <2>2, Zenon
  <2>10. \A t \in Tokens : \E h \in Holders : t \in HeldSet(h)
    BY <2>1, <2>4, <2>5, <2>7
  <2>11. \A t \in Tokens : t \in HeldSet(BNft) <=> \E u \in Users : t \in BoundSet(u)
    BY <2>4, <2>6
  <2> QED BY <2>8, <2>9, <2>10, <2>11
<1> HIDE DEF w, HeldSet, BoundSet
<1>6. w \in World
  <2>1. << >> \in Seq(Tokens) BY EmptySeq
  <2>2. w.held \in [Holders -> Seq(Tokens)] BY <1>2, <1>3
  <2>3. w.bound \in [Users -> Seq(Tokens)] BY <1>2, <1>4
  <2>4. w.credit \in [Users -> Seq(Tokens)] BY <1>2, <2>1
  <2>5. w.drop \in [Tokens -> Places] BY <1>2 DEF Places
  <2>6. w = [held |-> w.held, bound |-> w.bound, claimed |-> w.claimed,
                drop |-> w.drop, credit |-> w.credit, byBalance |-> w.byBalance,
                owner |-> w.owner, claimAdmin |-> w.claimAdmin]
    BY DEF w, StartWorld
  <2> QED BY <1>2, <2>2, <2>3, <2>4, <2>5, <2>6, ClaimConstants DEF World
<1>7. Exclusive(w.held)
  <2>1. \A h \in Holders : w.held[h] = SetToSeq(HeldSet(h)) /\ w.held[h] \in Seq(Tokens)
    BY <1>2, <1>3
  <2>2. \A h \in Holders : \A k \in DOMAIN w.held[h] :
          w.held[h][k] \in HeldSet(h) /\ w.held[h][k] \in Tokens
    BY <2>1, <1>3 DEF In
  <2>3. \A h, g \in Holders : \A j \in DOMAIN w.held[h], k \in DOMAIN w.held[g] :
          w.held[h][j] = w.held[g][k] => h = g
    <3> SUFFICES ASSUME NEW h \in Holders, NEW g \in Holders, NEW j \in DOMAIN w.held[h],
                        NEW k \in DOMAIN w.held[g], w.held[h][j] = w.held[g][k]
                 PROVE  h = g
      BY Zenon
    <3> DEFINE t == w.held[h][j]
    <3>1. t \in HeldSet(h) /\ t \in HeldSet(g) /\ t \in Tokens BY <2>2
    <3> QED BY <3>1, <1>5, Zenon
  <2>4. \A h \in Holders : \A j, k \in DOMAIN w.held[h] :
          w.held[h][j] = w.held[h][k] => j = k
    BY <2>1, <1>3, Zenon
  <2>5. DOMAIN w.held = Holders BY <1>2
  <2> QED BY <2>3, <2>4, <2>5 DEF Exclusive
<1>8. Exclusive(w.bound)
  <2>1. \A u \in Users : w.bound[u] = SetToSeq(BoundSet(u)) /\ w.bound[u] \in Seq(Tokens)
    BY <1>2, <1>4
  <2>2. \A u \in Users : \A k \in DOMAIN w.bound[u] :
          w.bound[u][k] \in BoundSet(u) /\ w.bound[u][k] \in Tokens
    BY <2>1, <1>4 DEF In
  <2>3. \A u, v \in Users : \A j \in DOMAIN w.bound[u], k \in DOMAIN w.bound[v] :
          w.bound[u][j] = w.bound[v][k] => u = v
    <3> SUFFICES ASSUME NEW u \in Users, NEW v \in Users, NEW j \in DOMAIN w.bound[u],
                        NEW k \in DOMAIN w.bound[v], w.bound[u][j] = w.bound[v][k]
                 PROVE  u = v
      BY Zenon
    <3> DEFINE t == w.bound[u][j]
    <3>1. t \in BoundSet(u) /\ t \in BoundSet(v) /\ t \in Tokens BY <2>2
    <3> QED BY <3>1, <1>5, Zenon
  <2>4. \A u \in Users : \A j, k \in DOMAIN w.bound[u] :
          w.bound[u][j] = w.bound[u][k] => j = k
    BY <2>1, <1>4, Zenon
  <2>5. DOMAIN w.bound = Users BY <1>2
  <2> QED BY <2>3, <2>4, <2>5 DEF Exclusive
<1>9. /\ \A t \in Tokens : \E h \in Holders : In(w.held[h], t)
      /\ \A t \in Tokens : In(w.held[BNft], t) <=> \E u \in Users : In(w.bound[u], t)
  BY <1>2, <1>3, <1>4, <1>5, Kinds
<1> QED BY <1>2, <1>6, <1>7, <1>8, <1>9 DEF StartOK, WorldOK, w

\* What is known of the world, of the transactions on their way and of the
\* script that runs is known at all times, whichever scripts are run.
THEOREM Inductive ==
  ASSUME NEW names, NEW worlds, \A w \in worlds : StartOK(w)
  PROVE  ClaimInit(worlds) /\ [][ClaimNext(names)]_claimVars => []IInv
<1>1. ClaimInit(worlds) => IInv BY InitIs
<1>2. IInv /\ [ClaimNext(names)]_claimVars => IInv' BY NextKeeps
<1> QED BY <1>1, <1>2, PTL

\* A user is given a token in the distribution only once its airdrop is there:
\* the claim is awaited before the user is configured, and an airdrop that has
\* arrived stays, so that no transaction of a killed script does harm.
THEOREM AirdropFirst ==
  ASSUME NEW names, NEW worlds, \A w \in worlds : StartOK(w)
  PROVE  ClaimInit(worlds) /\ [][ClaimNext(names)]_claimVars => []CreditBacked
<1>1. IInv => CreditBacked
  <2> SUFFICES ASSUME IInv, ~world.byBalance, NEW u \in Users,
                      NEW k \in DOMAIN world.credit[u]
               PROVE  world.drop[world.credit[u][k]] = Distribution
    BY DEF CreditBacked
  <2>1. world.credit[u] \in Seq(Tokens) BY WorldTypes DEF IInv, WorldOK
  <2>2. world.credit[u][k] \in Tokens /\ In(world.credit[u], world.credit[u][k])
    BY <2>1 DEF In
  <2> QED BY <2>2 DEF IInv, Backing, Delivered
<1> QED BY <1>1, Inductive, PTL

\* The pairs a completed script has drawn up were all true while it ran: a place
\* that is given up on leaves the list short, and a short list is thrown away.
THEOREM PairsTrue ==
  ASSUME NEW names, NEW worlds, \A w \in worlds : StartOK(w)
  PROVE  ClaimInit(worlds) /\ [][ClaimNext(names)]_claimVars => []PairsWereTrue
<1>1. IInv => PairsWereTrue BY DEF IInv
<1> QED BY <1>1, Inductive, PTL

\* An enumeration of a world that stands still is complete, if one lookup failed
\* at most: three tries, taken down by two for a failure, leave a second one.
THEOREM EnumerationComplete ==
  ASSUME NEW names, NEW worlds, \A w \in worlds : StartOK(w)
  PROVE  ClaimInit(worlds) /\ [][ClaimNext(names)]_claimVars => []ListComplete
<1>1. IInv => ListComplete
  <2> SUFFICES ASSUME IInv, At("look"), ~Looking, script.name \in Enumerations,
                      script.ids = << >>, script.still, script.failed <= 1
               PROVE  /\ Range(script.list) =
                           Range(Enumerated(script.name, script.who)) \ world.claimed
                      /\ IsInjective(script.list)
    BY DEF ListComplete
  <2> DEFINE all == ListOf(world, script.name, script.who)
  <2>1. /\ script.count = Len(all) /\ script.at <= script.count
        /\ \A j, k \in DOMAIN script.list : script.list[j] = script.list[k] => j = k
        /\ \A t : In(script.list, t) <=>
             t \notin world.claimed /\ \E k \in 1..script.at : all[k] = t
    BY AtLook DEF ScriptOK, Found
  <2>2. script.at \in Nat /\ script.count \in Nat /\ script.at >= script.count
    BY AtLook, ScriptTypes DEF Looking
  <2>3. all \in Seq(Tokens)
    <3>1. script.who \in Users BY AtLook DEF ScriptOK, Shaped
    <3> QED BY <3>1, ListIs DEF IInv
  <2>4. all = Enumerated(script.name, script.who) BY AtLook
  <2> HIDE DEF all
  <2>5. script.at = Len(all) /\ DOMAIN all = 1..script.at BY <2>1, <2>2, <2>3
  <2>6. \A t : In(script.list, t) <=> t \notin world.claimed /\ In(all, t)
    BY <2>1, <2>5 DEF In
  <2>7. Range(script.list) = Range(all) \ world.claimed BY <2>6, InRange
  <2>8. IsInjective(script.list) BY <2>1 DEF IsInjective
  <2> QED BY <2>4, <2>7, <2>8
<1> QED BY <1>1, Inductive, PTL
=============================================================================
