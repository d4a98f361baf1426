----------------------- MODULE FlashLoanReceiverProofs -----------------------
(***************************************************************************)
(* Theorems of FlashLoanReceiver, for either version, any tokens, users    *)
(* and lists, and calls nested to any depth.                               *)
(*                                                                         *)
(* A revert puts back the storage a frame saved, so what is to hold of the *)
(* storage has to hold of every saved one, with respect to the frames      *)
(* below it.                                                               *)
(***************************************************************************)
EXTENDS FlashLoanReceiver, FiniteSetTheorems, TLAPS

Below(cs, n) == {k \in DOMAIN cs : k > n}

\* What a storage owes to the frames after the first n.
HomeOK(s, cs, n) ==
  \A i \in Bound : \/ s.holder[i] = Bnft[AssetOf[i]]
                   \/ \E k \in Below(cs, n) : i \in cs[k].ids
ApprovedOK(s, cs, n) ==
  \A c \in Collections, i \in Items : s.approved[i] = Bnft[c] /\ i \notin s.called =>
    \E k \in Below(cs, n) : cs[k].asset = c /\ i \in cs[k].ids
OperatorsOK(s) ==
  \A c \in Collections, a \in Assets :
    <<a, Bnft[c]>> \in s.operators \ s.opened => a = c /\ Version = "V2"
GuardOK(s, cs, n) ==
  s.status = Entered <=> \E k \in Below(cs, n) : cs[k].fn # "executeOperation"
RecordsOK(s, cs, n) ==
  \A k \in Below(cs, n) :
    cs[k].fn = "executeOperation" /\ cs[k].pos > 0 => Key(cs[k]) \in s.records
Sound(s, cs, n) ==
  /\ HomeOK(s, cs, n) /\ ApprovedOK(s, cs, n) /\ OperatorsOK(s)
  /\ GuardOK(s, cs, n) /\ RecordsOK(s, cs, n)

FrameOK(f) ==
  /\ f \in Frame
  /\ f.fn # "executeOperation" => f.ids = {}
  /\ f.fn = "executeOperation" =>
       /\ f.asset \in Collections /\ f.list \in Sweeps
       /\ \A i \in f.ids : AssetOf[i] = f.asset
       /\ f.to = IF Version = "V3" THEN f.saved.owner ELSE f.by
       /\ Version = "V2" /\ DeployType # 0 => f.by = f.saved.owner
       /\ f.pos = 0 => f.left = None
StackOK(cs) ==
  /\ cs \in Seq(Frame)
  /\ \A k \in DOMAIN cs : /\ FrameOK(cs[k]) /\ Sound(cs[k].saved, cs, k)
                          /\ k > 1 => Foreign(cs[k])
  /\ \A j, k \in DOMAIN cs :
       j # k => cs[j].fn = "executeOperation" \/ cs[k].fn = "executeOperation"

\* The inductive invariant.
IInv == chain \in Storage /\ StackOK(calls) /\ Sound(chain, calls, 0)

-----------------------------------------------------------------------------
LEMMA AddressFacts ==
  /\ \A c \in Collections : /\ Bnft[c] \in Addresses /\ Bnft[c] \notin Users
                            /\ Bnft[c] # Receiver /\ Bnft[c] # None
                            /\ c \in Assets
  /\ \A c, d \in Collections : Bnft[c] = Bnft[d] => c = d
  /\ Receiver \in Addresses /\ Receiver \notin Users
  /\ Users \subseteq Addresses /\ None \notin Addresses
  /\ EOAs \subseteq Users /\ Contracts \subseteq Users
  /\ EOAs \cap Contracts = {}
  /\ \A i \in Bound : i \in Items /\ AssetOf[i] \in Collections
<1>1. \A c \in Collections : Bnft[c] \in Range(Bnft)
  BY AddressesDistinct DEF Range
<1>2. \A c, d \in Collections : Bnft[c] = Bnft[d] => c = d
  BY AddressesDistinct DEF IsInjective
<1> QED BY <1>1, <1>2, AddressesDistinct, ItemsTyped DEF Addresses, Users, Assets, Bound

\* Sequences of frames.
LEMMA PushIs ==
  ASSUME NEW cs \in Seq(Frame), NEW f \in Frame
  PROVE  LET t == <<f>> \o cs IN
         /\ t \in Seq(Frame) /\ DOMAIN t = 1..(Len(cs) + 1) /\ t # << >>
         /\ Len(cs) \in Nat /\ DOMAIN cs = 1..Len(cs)
         /\ t[1] = f /\ Head(t) = f
         /\ \A k \in DOMAIN cs : k + 1 \in DOMAIN t /\ t[k + 1] = cs[k]
         /\ \A k \in DOMAIN t : k > 1 => k - 1 \in DOMAIN cs /\ t[k] = cs[k - 1]
OBVIOUS

LEMMA PopIs ==
  ASSUME NEW cs \in Seq(Frame), cs # << >>
  PROVE  LET t == Tail(cs) IN
         /\ t \in Seq(Frame) /\ DOMAIN t = 1..(Len(cs) - 1)
         /\ Len(cs) \in Nat /\ Len(cs) > 0 /\ DOMAIN cs = 1..Len(cs)
         /\ Head(cs) = cs[1] /\ Head(cs) \in Frame
         /\ \A k \in DOMAIN t : k + 1 \in DOMAIN cs /\ t[k] = cs[k + 1]
         /\ \A k \in DOMAIN cs : k > 1 => k - 1 \in DOMAIN t /\ cs[k] = t[k - 1]
OBVIOUS

LEMMA ReplaceIs ==
  ASSUME NEW cs \in Seq(Frame), cs # << >>, NEW f \in Frame
  PROVE  LET t == <<f>> \o Tail(cs) IN
         /\ t \in Seq(Frame) /\ DOMAIN t = DOMAIN cs /\ t # << >>
         /\ Len(cs) \in Nat /\ Len(cs) > 0 /\ DOMAIN cs = 1..Len(cs)
         /\ Head(cs) = cs[1] /\ Head(cs) \in Frame /\ t[1] = f /\ Head(t) = f
         /\ \A k \in DOMAIN cs : k > 1 => t[k] = cs[k]
<1>1. Tail(cs) \in Seq(Frame) BY PopIs
<1> QED BY <1>1, PopIs, PushIs

\* What is owed to frames when one is added, removed or changed.
LEMMA SoundPush ==
  ASSUME NEW cs \in Seq(Frame), NEW f \in Frame, NEW n \in Nat, NEW s,
         Sound(s, cs, n)
  PROVE  Sound(s, <<f>> \o cs, n + 1)
<1> DEFINE t == <<f>> \o cs
<1>1. /\ \A k \in Below(cs, n) : k + 1 \in Below(t, n + 1) /\ t[k + 1] = cs[k]
      /\ \A k \in Below(t, n + 1) : k - 1 \in Below(cs, n) /\ t[k] = cs[k - 1]
  BY PushIs DEF Below
<1> HIDE DEF t
<1>2. HomeOK(s, t, n + 1) BY <1>1 DEF Sound, HomeOK
<1>3. ApprovedOK(s, t, n + 1) BY <1>1 DEF Sound, ApprovedOK
<1>4. GuardOK(s, t, n + 1) BY <1>1 DEF Sound, GuardOK
<1>5. RecordsOK(s, t, n + 1) BY <1>1 DEF Sound, RecordsOK
<1> QED BY <1>2, <1>3, <1>4, <1>5 DEF Sound, t

LEMMA SoundPop ==
  ASSUME NEW cs \in Seq(Frame), cs # << >>, NEW n \in Nat, NEW s,
         Sound(s, cs, n + 1)
  PROVE  Sound(s, Tail(cs), n)
<1> DEFINE t == Tail(cs)
<1>1. /\ \A k \in Below(t, n) : k + 1 \in Below(cs, n + 1) /\ t[k] = cs[k + 1]
      /\ \A k \in Below(cs, n + 1) : k - 1 \in Below(t, n) /\ cs[k] = t[k - 1]
  BY PopIs DEF Below
<1> HIDE DEF t
<1>2. HomeOK(s, t, n) BY <1>1 DEF Sound, HomeOK
<1>3. ApprovedOK(s, t, n) BY <1>1 DEF Sound, ApprovedOK
<1>4. GuardOK(s, t, n) BY <1>1 DEF Sound, GuardOK
<1>5. RecordsOK(s, t, n) BY <1>1 DEF Sound, RecordsOK
<1> QED BY <1>2, <1>3, <1>4, <1>5 DEF Sound, t

\* Two frames of the same call, at different points of it.
SameCall(f, g) == /\ g.fn = f.fn /\ g.asset = f.asset /\ g.ids = f.ids
                  /\ g.list = f.list /\ g.by = f.by /\ g.to = f.to
                  /\ g.saved = f.saved

LEMMA SoundReplace ==
  ASSUME NEW cs \in Seq(Frame), cs # << >>, NEW g \in Frame, NEW n \in Nat, NEW s,
         SameCall(Head(cs), g), Sound(s, cs, n),
         n = 0 /\ g.pos > 0 => Key(g) \in s.records
  PROVE  Sound(s, <<g>> \o Tail(cs), n)
<1> DEFINE t == <<g>> \o Tail(cs)
<1>1. /\ Below(t, n) = Below(cs, n)
      /\ \A k \in Below(cs, n) : t[k].fn = cs[k].fn /\ t[k].asset = cs[k].asset
                                 /\ t[k].ids = cs[k].ids
      /\ \A k \in Below(cs, n) : t[k] = cs[k] \/ (n = 0 /\ t[k] = g)
  BY ReplaceIs DEF Below, SameCall
<1> HIDE DEF t
<1>2. HomeOK(s, t, n) BY <1>1 DEF Sound, HomeOK
<1>3. ApprovedOK(s, t, n) BY <1>1 DEF Sound, ApprovedOK
<1>4. GuardOK(s, t, n) BY <1>1 DEF Sound, GuardOK
<1>5. RecordsOK(s, t, n) BY <1>1 DEF Sound, RecordsOK
<1> QED BY <1>2, <1>3, <1>4, <1>5 DEF Sound, t

LEMMA StackPush ==
  ASSUME NEW cs, StackOK(cs), NEW f, FrameOK(f), Sound(f.saved, cs, 0),
         cs # << >> => Foreign(Head(cs)),
         f.fn = "executeOperation" \/
           \A k \in DOMAIN cs : cs[k].fn = "executeOperation"
  PROVE  StackOK(<<f>> \o cs)
<1> DEFINE t == <<f>> \o cs
<1>1. cs \in Seq(Frame) /\ f \in Frame BY DEF StackOK, FrameOK
<1>2. /\ t \in Seq(Frame) /\ t[1] = f /\ DOMAIN t = 1..(Len(cs) + 1)
      /\ Len(cs) \in Nat
      /\ \A k \in DOMAIN t : k > 1 => k - 1 \in DOMAIN cs /\ t[k] = cs[k - 1]
  BY <1>1, PushIs
<1>3. Sound(f.saved, t, 1)
  <2>1. Sound(f.saved, t, 0 + 1) BY <1>1, SoundPush
  <2> QED BY <2>1
<1>4. ASSUME NEW k \in DOMAIN t, k > 1
      PROVE  FrameOK(t[k]) /\ Sound(t[k].saved, t, k) /\ Foreign(t[k])
  <2>1. k - 1 \in DOMAIN cs /\ t[k] = cs[k - 1] /\ k - 1 \in Nat /\ (k - 1) + 1 = k
    BY <1>2, <1>4
  <2>2. FrameOK(t[k]) /\ Sound(t[k].saved, cs, k - 1)
    BY <2>1 DEF StackOK
  <2>3. Sound(t[k].saved, t, (k - 1) + 1)
    BY <1>1, <2>1, <2>2, SoundPush
  <2>4. Foreign(t[k])
    <3>1. CASE k = 2
      <4>1. cs # << >> /\ cs[1] = Head(cs) BY <1>1, <2>1, <3>1
      <4> QED BY <2>1, <3>1, <4>1
    <3>2. CASE k # 2
      <4>1. k - 1 > 1 BY <1>2, <1>4, <3>2
      <4> QED BY <2>1, <4>1 DEF StackOK
    <3> QED BY <3>1, <3>2
  <2> QED BY <2>1, <2>2, <2>3, <2>4
<1>5. \A j, k \in DOMAIN t :
        j # k => t[j].fn = "executeOperation" \/ t[k].fn = "executeOperation"
  <2> SUFFICES ASSUME NEW j \in DOMAIN t, NEW k \in DOMAIN t, j < k
               PROVE  t[j].fn = "executeOperation" \/ t[k].fn = "executeOperation"
    BY <1>2
  <2>1. k > 1 BY <1>2
  <2>2. CASE j = 1 BY <1>2, <2>1, <2>2
  <2>3. CASE j # 1
    <3>1. j > 1 BY <1>2, <2>3
    <3>2. /\ j - 1 \in DOMAIN cs /\ t[j] = cs[j - 1]
          /\ k - 1 \in DOMAIN cs /\ t[k] = cs[k - 1] /\ j - 1 # k - 1
      BY <1>2, <2>1, <3>1
    <3> QED BY <3>2 DEF StackOK
  <2> QED BY <2>2, <2>3
<1>6. \A k \in DOMAIN t : FrameOK(t[k]) /\ Sound(t[k].saved, t, k)
                          /\ (k > 1 => Foreign(t[k]))
  <2> SUFFICES ASSUME NEW k \in DOMAIN t
               PROVE  FrameOK(t[k]) /\ Sound(t[k].saved, t, k)
                      /\ (k > 1 => Foreign(t[k]))
    OBVIOUS
  <2>1. CASE k = 1 BY <1>2, <1>3, <2>1
  <2>2. CASE k # 1
    <3>1. k > 1 BY <1>2, <2>2
    <3> QED BY <1>4, <3>1
  <2> QED BY <2>1, <2>2
<1> QED BY <1>2, <1>5, <1>6 DEF StackOK

LEMMA StackPop ==
  ASSUME NEW cs, StackOK(cs), cs # << >>
  PROVE  /\ StackOK(Tail(cs)) /\ Sound(Head(cs).saved, Tail(cs), 0)
         /\ Head(cs) = cs[1] /\ FrameOK(Head(cs))
         /\ Tail(cs) # << >> => Foreign(Head(Tail(cs)))
<1> DEFINE t == Tail(cs)
<1>1. cs \in Seq(Frame) BY DEF StackOK
<1>2. /\ t \in Seq(Frame) /\ DOMAIN t = 1..(Len(cs) - 1)
      /\ Len(cs) \in Nat /\ Len(cs) > 0 /\ DOMAIN cs = 1..Len(cs) /\ Head(cs) = cs[1]
      /\ \A k \in DOMAIN t : k + 1 \in DOMAIN cs /\ t[k] = cs[k + 1]
  BY <1>1, PopIs
<1>3. Sound(Head(cs).saved, t, 0) /\ FrameOK(Head(cs))
  <2>1. FrameOK(cs[1]) /\ Sound(cs[1].saved, cs, 0 + 1) BY <1>2 DEF StackOK
  <2> QED BY <1>1, <1>2, <2>1, SoundPop
<1>4. ASSUME NEW k \in DOMAIN t
      PROVE  FrameOK(t[k]) /\ Sound(t[k].saved, t, k) /\ Foreign(t[k])
  <2>1. k \in Nat /\ k + 1 > 1 /\ k + 1 \in DOMAIN cs /\ t[k] = cs[k + 1] BY <1>2
  <2>2. FrameOK(t[k]) /\ Sound(t[k].saved, cs, k + 1) /\ Foreign(t[k])
    BY <2>1 DEF StackOK
  <2> QED BY <1>1, <2>1, <2>2, SoundPop
<1>5. \A j, k \in DOMAIN t :
        j # k => t[j].fn = "executeOperation" \/ t[k].fn = "executeOperation"
  <2> SUFFICES ASSUME NEW j \in DOMAIN t, NEW k \in DOMAIN t, j # k
               PROVE  t[j].fn = "executeOperation" \/ t[k].fn = "executeOperation"
    OBVIOUS
  <2>1. /\ j + 1 \in DOMAIN cs /\ t[j] = cs[j + 1]
        /\ k + 1 \in DOMAIN cs /\ t[k] = cs[k + 1] /\ j + 1 # k + 1
    BY <1>2
  <2> QED BY <2>1 DEF StackOK
<1>6. t # << >> => Foreign(Head(t))
  <2> SUFFICES ASSUME t # << >> PROVE Foreign(Head(t))
    OBVIOUS
  <2>1. Head(t) = t[1] /\ 1 \in DOMAIN t BY <1>2
  <2> QED BY <1>4, <2>1
<1> QED BY <1>2, <1>3, <1>4, <1>5, <1>6 DEF StackOK

LEMMA StackReplace ==
  ASSUME NEW cs, StackOK(cs), cs # << >>, NEW g \in Frame, SameCall(Head(cs), g),
         g.pos # 0
  PROVE  StackOK(<<g>> \o Tail(cs))
<1> DEFINE t == <<g>> \o Tail(cs)
<1>1. cs \in Seq(Frame) BY DEF StackOK
<1>2. /\ t \in Seq(Frame) /\ DOMAIN t = DOMAIN cs /\ t[1] = g /\ Head(cs) = cs[1]
      /\ Len(cs) \in Nat /\ Len(cs) > 0 /\ DOMAIN cs = 1..Len(cs)
      /\ \A k \in DOMAIN cs : k > 1 => t[k] = cs[k]
  BY <1>1, ReplaceIs
<1>3. \A k \in DOMAIN cs : t[k].saved = cs[k].saved /\ t[k].fn = cs[k].fn
  BY <1>2 DEF SameCall
<1>4. ASSUME NEW k \in DOMAIN cs PROVE Sound(t[k].saved, t, k)
  <2>1. Sound(cs[k].saved, cs, k) /\ k \in Nat /\ k # 0 BY <1>2 DEF StackOK
  <2> QED BY <1>1, <1>3, <2>1, SoundReplace
<1>5. FrameOK(g)
  BY <1>2 DEF StackOK, FrameOK, SameCall
<1> QED BY <1>2, <1>3, <1>4, <1>5 DEF StackOK

-----------------------------------------------------------------------------
\* Storage that changed in a way no frame notices: bound tokens that are at
\* home stay, and what is newly approved to a bNFT contract is marked as called for.
Aside(s, t) ==
  /\ t \in Storage /\ t.status = s.status /\ t.records = s.records
  /\ \A i \in Bound : t.holder[i] = s.holder[i] \/ s.holder[i] # Bnft[AssetOf[i]]
  /\ \A i \in Items, c \in Collections :
       t.approved[i] = Bnft[c] /\ i \notin t.called =>
         s.approved[i] = Bnft[c] /\ i \notin s.called
  /\ \A a \in Assets, c \in Collections :
       <<a, Bnft[c]>> \in t.operators \ t.opened =>
         <<a, Bnft[c]>> \in s.operators \ s.opened

LEMMA SoundAside ==
  ASSUME NEW s, NEW t, Aside(s, t), NEW cs, NEW n, Sound(s, cs, n)
  PROVE  Sound(t, cs, n)
<1>1. HomeOK(t, cs, n) BY DEF Sound, HomeOK, Aside
<1>2. ApprovedOK(t, cs, n) BY DEF Sound, ApprovedOK, Aside
<1>3. OperatorsOK(t) BY DEF Sound, OperatorsOK, Aside
<1>4. GuardOK(t, cs, n) BY DEF Sound, GuardOK, Aside
<1>5. RecordsOK(t, cs, n) BY DEF Sound, RecordsOK, Aside
<1> QED BY <1>1, <1>2, <1>3, <1>4, <1>5 DEF Sound

LEMMA MoveIs ==
  ASSUME NEW s \in Storage, NEW S, NEW to,
         to \in Addresses \/ S \cap Items = {}
  PROVE  LET t == Move(s, S, to) IN
         /\ t \in Storage
         /\ \A i \in Items :
              /\ t.holder[i] = IF i \in S THEN to ELSE s.holder[i]
              /\ t.approved[i] = IF i \in S THEN None ELSE s.approved[i]
         /\ t.operators = s.operators /\ t.owner = s.owner
         /\ t.called = s.called \ S /\ t.opened = s.opened
         /\ t.status = s.status /\ t.records = s.records
BY DEF Move, Storage

LEMMA MoveAside ==
  ASSUME NEW s \in Storage, NEW S, NEW to,
         to \in Addresses \/ S \cap Items = {},
         \A i \in S \cap Bound : s.holder[i] # Bnft[AssetOf[i]]
  PROVE  Aside(s, Move(s, S, to))
<1> DEFINE t == Move(s, S, to)
<1>1. /\ t \in Storage
      /\ \A i \in Items :
           /\ t.holder[i] = IF i \in S THEN to ELSE s.holder[i]
           /\ t.approved[i] = IF i \in S THEN None ELSE s.approved[i]
      /\ t.operators = s.operators /\ t.status = s.status /\ t.records = s.records
      /\ t.called = s.called \ S /\ t.opened = s.opened
  BY MoveIs
<1> HIDE DEF t
<1> QED BY <1>1, AddressFacts DEF Aside, t

\* An item somebody other than a bNFT contract holds is not at home.
LEMMA Away ==
  ASSUME NEW s \in Storage, NEW i, s.holder[i] \in Users \cup {Receiver}
  PROVE  i \in Bound => s.holder[i] # Bnft[AssetOf[i]]
BY AddressFacts

LEMMA ApproveAside ==
  ASSUME NEW s \in Storage, NEW i \in Items, NEW u \in Addresses
  PROVE  Aside(s, Approve(s, i, u))
<1> DEFINE t == Approve(s, i, u)
<1>1. /\ t \in Storage /\ t.status = s.status /\ t.records = s.records
      /\ t.holder = s.holder /\ t.operators = s.operators /\ t.opened = s.opened
      /\ t.called = s.called \cup {i}
      /\ \A j \in Items : t.approved[j] = IF j = i THEN u ELSE s.approved[j]
  BY DEF Approve, Storage
<1> HIDE DEF t
<1> QED BY <1>1 DEF Aside, t

LEMMA ApprovalForAllAside ==
  ASSUME NEW s \in Storage, NEW a \in Assets, NEW u \in Addresses, NEW yes \in BOOLEAN
  PROVE  Aside(s, SetApprovalForAll(s, a, u, yes))
<1> DEFINE t == SetApprovalForAll(s, a, u, yes)
<1>1. /\ t \in Storage /\ t.status = s.status /\ t.records = s.records
      /\ t.holder = s.holder /\ t.approved = s.approved /\ t.called = s.called
      /\ \/ /\ t.operators = s.operators \cup {<<a, u>>}
            /\ t.opened = s.opened \cup {<<a, u>>}
         \/ /\ t.operators = s.operators \ {<<a, u>>}
            /\ t.opened = s.opened \ {<<a, u>>}
  <2>1. <<a, u>> \in Assets \X Addresses OBVIOUS
  <2>2. CASE yes
    <3>1. t = [s EXCEPT !.operators = @ \cup {<<a, u>>}, !.opened = @ \cup {<<a, u>>}]
      BY <2>2 DEF SetApprovalForAll
    <3>2. /\ s.operators \cup {<<a, u>>} \in SUBSET (Assets \X Addresses)
          /\ s.opened \cup {<<a, u>>} \in SUBSET (Assets \X Addresses)
      BY <2>1 DEF Storage
    <3> QED BY <3>1, <3>2 DEF Storage
  <2>3. CASE ~ yes
    <3>1. t = [s EXCEPT !.operators = @ \ {<<a, u>>}, !.opened = @ \ {<<a, u>>}]
      BY <2>3 DEF SetApprovalForAll
    <3> QED BY <3>1 DEF Storage
  <2> QED BY <2>2, <2>3
<1> HIDE DEF t
<1>2. t.operators \ t.opened \subseteq s.operators \ s.opened BY <1>1
<1> QED BY <1>1, <1>2 DEF Aside, t

LEMMA AsReceiverAside ==
  ASSUME NEW s \in Storage, NEW t, AsReceiver(s, t)
  PROVE  Aside(s, t)
<1>1. CASE t = s BY <1>1 DEF Aside
<1>2. ASSUME NEW i \in Items, s.holder[i] = Receiver,
             NEW u \in Users \cup {Bnft[c] : c \in Collections \cap {AssetOf[i]}},
             t = Move(s, {i}, u)
      PROVE  Aside(s, t)
  BY <1>2, MoveAside, Away, AddressFacts
<1>3. ASSUME NEW i \in Items, NEW u \in Spenders, t = Approve(s, i, u)
      PROVE  Aside(s, t)
  BY <1>3, ApproveAside, VersionTyped
<1>4. ASSUME NEW a \in Assets, NEW u \in Spenders, NEW yes \in BOOLEAN,
             t = SetApprovalForAll(s, a, u, yes)
      PROVE  Aside(s, t)
  BY <1>4, ApprovalForAllAside, VersionTyped
<1> QED BY <1>1, <1>2, <1>3, <1>4 DEF AsReceiver

-----------------------------------------------------------------------------
\* Steps that only touch the storage, and only so, preserve the invariant.
LEMMA AsideStep ==
  ASSUME IInv, Aside(chain, chain'), UNCHANGED calls
  PROVE  IInv'
<1>1. Sound(chain', calls', 0) BY SoundAside DEF IInv
<1>2. chain' \in Storage BY DEF Aside
<1>3. StackOK(calls') BY DEF IInv
<1> QED BY <1>1, <1>2, <1>3 DEF IInv

LEMMA InitOK == Init => IInv
<1> SUFFICES ASSUME Init PROVE IInv
  OBVIOUS
<1>1. PICK o \in Users, h \in [Items \ Bound -> Contracts] :
        chain = [holder |-> [i \in Items |-> IF i \in Bound THEN Bnft[AssetOf[i]]
                                                           ELSE h[i]],
                 approved |-> [i \in Items |-> None], operators |-> {},
                 called |-> {}, opened |-> {},
                 owner |-> o, status |-> NotEntered, records |-> {}]
  BY DEF Init
<1>2. calls = << >> BY DEF Init
<1>3. chain \in Storage
  BY <1>1, AddressFacts DEF Storage
<1>4. StackOK(calls) BY <1>2 DEF StackOK
<1>5. Below(calls, 0) = {} BY <1>2 DEF Below
<1>6. HomeOK(chain, calls, 0) BY <1>1, AddressFacts DEF HomeOK
<1>7. ApprovedOK(chain, calls, 0) BY <1>1, AddressFacts DEF ApprovedOK
<1>8. OperatorsOK(chain) BY <1>1 DEF OperatorsOK
<1>9. GuardOK(chain, calls, 0) /\ RecordsOK(chain, calls, 0)
  BY <1>1, <1>5 DEF GuardOK, RecordsOK, NotEntered, Entered
<1> QED BY <1>3, <1>4, <1>6, <1>7, <1>8, <1>9 DEF IInv, Sound

\* A new frame: what is owed to it alone comes on top.
LEMMA FlashLoanStep ==
  ASSUME IInv, NEW u \in Users, NEW c \in Collections, NEW ids \in SUBSET Bound,
         NEW list \in Sweeps, flashLoan(u, c, ids, list)
  PROVE  IInv'
<1> DEFINE f == [Wait("executeOperation", u, Recipient(u)) EXCEPT
                   !.asset = c, !.ids = ids, !.list = list]
           s == Move(chain, ids, Receiver)
           t == ApproveReturn(s, c, ids)
<1>1. /\ calls' = <<f>> \o calls /\ AsReceiver(t, chain')
      /\ \A i \in ids : AssetOf[i] = c
      /\ calls # << >> => Foreign(Head(calls))
      /\ Version = "V2" => AdmitsV2(u, list)
  BY DEF flashLoan, MayCall
<1>2. /\ f \in Frame /\ f.fn = "executeOperation" /\ f.asset = c /\ f.ids = ids
      /\ f.list = list /\ f.to = Recipient(u) /\ f.by = u /\ f.pos = 0
      /\ f.left = None /\ f.saved = chain
  BY AddressFacts DEF Wait, Frame, IInv, Recipient, Storage
<1> HIDE DEF f
<1>3. FrameOK(f)
  BY <1>1, <1>2 DEF FrameOK, Recipient, AdmitsV2
<1>4. StackOK(calls')
  BY <1>1, <1>2, <1>3, StackPush DEF IInv
<1>5. /\ s \in Storage
      /\ \A i \in Items :
           /\ s.holder[i] = IF i \in ids THEN Receiver ELSE chain.holder[i]
           /\ s.approved[i] = IF i \in ids THEN None ELSE chain.approved[i]
      /\ s.operators = chain.operators
      /\ s.called = chain.called \ ids /\ s.opened = chain.opened
      /\ s.status = chain.status /\ s.records = chain.records
  BY AddressFacts, MoveIs DEF IInv
<1> HIDE DEF s
<1>6. /\ t \in Storage /\ t.holder = s.holder
      /\ t.called = s.called /\ t.opened = s.opened
      /\ t.status = s.status /\ t.records = s.records
      /\ \A i \in Items : t.approved[i] = s.approved[i]
                          \/ (i \in ids /\ t.approved[i] = Bnft[c])
      /\ t.operators = s.operators
         \/ (Version = "V2" /\ t.operators = s.operators \cup {<<c, Bnft[c]>>})
  <2>1. CASE Version = "V3"
    <3>1. t = [s EXCEPT !.approved =
                [i \in Items |-> IF i \in ids THEN Bnft[c] ELSE s.approved[i]]]
      BY <2>1 DEF ApproveReturn
    <3>2. [i \in Items |-> IF i \in ids THEN Bnft[c] ELSE s.approved[i]]
            \in [Items -> Addresses \cup {None}]
      BY <1>5, AddressFacts DEF Storage
    <3> QED BY <1>5, <3>1, <3>2 DEF Storage
  <2>2. CASE Version = "V2"
    <3>1. t = [s EXCEPT !.operators = @ \cup {<<c, Bnft[c]>>}]
      BY <2>2 DEF ApproveReturn
    <3>2. <<c, Bnft[c]>> \in Assets \X Addresses
      BY AddressFacts
    <3> QED BY <1>5, <2>2, <3>1, <3>2 DEF Storage
  <2> QED BY <2>1, <2>2, VersionTyped
<1> HIDE DEF t
<1>7. /\ Sound(chain, calls', 1)
      /\ 1 \in Below(calls', 0) /\ calls'[1] = f
      /\ Below(calls', 0) = Below(calls', 1) \cup {1}
  <2>1. calls \in Seq(Frame) BY DEF IInv, StackOK
  <2>2. Sound(chain, calls', 0 + 1) BY <1>1, <1>2, <2>1, SoundPush DEF IInv
  <2>3. /\ DOMAIN calls' = 1..(Len(calls) + 1) /\ Len(calls) \in Nat
        /\ calls'[1] = f
    BY <1>1, <1>2, <2>1, PushIs
  <2> QED BY <2>2, <2>3 DEF Below
<1>8. Sound(t, calls', 0)
  <2>1. HomeOK(t, calls', 0)
    BY <1>2, <1>5, <1>6, <1>7, AddressFacts DEF Sound, HomeOK
  <2>2. ApprovedOK(t, calls', 0)
    BY <1>2, <1>5, <1>6, <1>7, AddressFacts DEF Sound, ApprovedOK
  <2>3. OperatorsOK(t)
    BY <1>5, <1>6, <1>7, AddressFacts DEF Sound, OperatorsOK
  <2>4. GuardOK(t, calls', 0)
    BY <1>2, <1>5, <1>6, <1>7 DEF Sound, GuardOK
  <2>5. RecordsOK(t, calls', 0)
    BY <1>2, <1>5, <1>6, <1>7 DEF Sound, RecordsOK
  <2> QED BY <2>1, <2>2, <2>3, <2>4, <2>5 DEF Sound
<1>9. Aside(t, chain') BY <1>1, <1>6, AsReceiverAside
<1>10. Sound(chain', calls', 0) BY <1>8, <1>9, SoundAside
<1> QED BY <1>4, <1>9, <1>10 DEF IInv, Aside

\* A step of the loan on top: its frame stays, at another point of the call.
LEMMA SameLoanStep ==
  ASSUME IInv, calls # << >>, NEW g \in Frame, SameCall(Head(calls), g), g.pos # 0,
         calls' = <<g>> \o Tail(calls), chain' \in Storage,
         Sound(chain', calls, 0), Key(g) \in chain'.records
  PROVE  IInv'
<1>1. StackOK(calls') BY StackReplace DEF IInv
<1>2. calls \in Seq(Frame) BY DEF IInv, StackOK
<1>3. Sound(chain', calls', 0) BY <1>2, SoundReplace
<1> QED BY <1>1, <1>3 DEF IInv

\* The frame of the loan on top.
LEMMA HeadFacts ==
  ASSUME IInv, InOperation
  PROVE  LET f == Head(calls) IN
         /\ calls # << >> /\ f \in Frame /\ f.fn = "executeOperation"
         /\ f.asset \in Collections /\ f.list \in Sweeps /\ f.list \in Seq(Entry)
         /\ f.pos \in Nat /\ f.left \in Nat \cup {None} /\ f.ids \subseteq Bound
         /\ f.to \in Users \cup {None} /\ f.saved \in Storage
         /\ f.to = IF Version = "V3" THEN f.saved.owner ELSE f.by
         /\ Version = "V2" /\ DeployType # 0 => f.by = f.saved.owner
         /\ f.pos = 0 => f.left = None
         /\ f.pos > 0 => Key(f) \in chain.records
<1>1. /\ calls # << >> /\ StackOK(calls) BY DEF IInv, InOperation
<1>2. /\ FrameOK(Head(calls)) /\ Head(calls) = calls[1] BY <1>1, StackPop
<1>3. Head(calls).fn = "executeOperation" BY DEF InOperation
<1>4. 1 \in Below(calls, 0)
  <2>1. calls \in Seq(Frame) BY <1>1 DEF StackOK
  <2> QED BY <1>1, <2>1, PopIs DEF Below
<1>5. Head(calls).pos > 0 => Key(Head(calls)) \in chain.records
  BY <1>2, <1>3, <1>4 DEF IInv, Sound, RecordsOK
<1>6. Head(calls) \in Frame BY <1>2 DEF FrameOK
<1> QED BY <1>1, <1>2, <1>3, <1>5, <1>6, VersionTyped DEF FrameOK, Frame

LEMMA AirdropReturnsStep == ASSUME IInv, airdropReturns PROVE IInv'
<1> DEFINE f == Head(calls)
           g == [f EXCEPT !.pos = 1]
<1>1. /\ InOperation /\ chain' = [chain EXCEPT !.records = @ \cup {Key(f)}]
      /\ calls' = <<g>> \o Tail(calls)
  BY DEF airdropReturns
<1>2. /\ f \in Frame /\ f.asset \in Collections /\ f.list \in Sweeps
      /\ f.ids \subseteq Bound /\ f.to \in Users \cup {None} /\ calls # << >>
  BY <1>1, HeadFacts
<1>3. g \in Frame /\ SameCall(f, g) /\ g.pos = 1 /\ Key(g) = Key(f)
  BY <1>2 DEF Frame, SameCall, Key
<1>4. Key(f) \in (Users \cup {None}) \X Collections \X (SUBSET Bound) \X Sweeps
  BY <1>2 DEF Key
<1>5. /\ chain' \in Storage /\ chain'.holder = chain.holder
      /\ chain'.approved = chain.approved /\ chain'.operators = chain.operators
      /\ chain'.called = chain.called /\ chain'.opened = chain.opened
      /\ chain'.status = chain.status /\ Key(f) \in chain'.records
      /\ chain.records \subseteq chain'.records
  BY <1>1, <1>4 DEF IInv, Storage
<1> HIDE DEF f, g
<1>6. Sound(chain', calls, 0)
  <2>1. HomeOK(chain', calls, 0) BY <1>5 DEF IInv, Sound, HomeOK
  <2>2. ApprovedOK(chain', calls, 0) BY <1>5 DEF IInv, Sound, ApprovedOK
  <2>3. OperatorsOK(chain') BY <1>5 DEF IInv, Sound, OperatorsOK
  <2>4. GuardOK(chain', calls, 0) BY <1>5 DEF IInv, Sound, GuardOK
  <2>5. RecordsOK(chain', calls, 0) BY <1>5 DEF IInv, Sound, RecordsOK
  <2> QED BY <2>1, <2>2, <2>3, <2>4, <2>5 DEF Sound
<1>7. g.pos # 0 /\ Key(g) \in chain'.records BY <1>3, <1>5
<1> QED BY <1>1, <1>2, <1>3, <1>5, <1>6, <1>7, SameLoanStep DEF f

\* A transfer to the recipient takes what the receiver holds, if anything.
LEMMA TransferNextIs ==
  ASSUME IInv, transferNext
  PROVE  LET f == Head(calls)
             e == f.list[f.pos]
         IN
         /\ InOperation /\ f.pos \in 1..Len(f.list) /\ f.pos > 0
         /\ e \in Entry
         /\ \E S \in SUBSET Items :
              /\ \A i \in S : chain.holder[i] = Receiver
              /\ f.to \in Addresses \/ S = {}
              /\ chain' = Move(chain, S, f.to) \/ (S = {} /\ chain' = chain)
         /\ \E p \in Nat \ {0}, n \in Nat \cup {None} :
              calls' = <<[f EXCEPT !.pos = p, !.left = n]>> \o Tail(calls)
<1> DEFINE f == Head(calls)
           e == f.list[f.pos]
           n == IF f.left = None THEN Cardinality(Held(chain, e.of)) ELSE f.left
           next == calls' = <<[f EXCEPT !.pos = f.pos + 1, !.left = None]>> \o Tail(calls)
<1>1. InOperation /\ f.pos \in 1..Len(f.list) BY DEF transferNext
<1>2. /\ f \in Frame /\ f.list \in Seq(Entry) /\ f.pos \in Nat
      /\ f.left \in Nat \cup {None} /\ f.to \in Users \cup {None}
  BY <1>1, HeadFacts
<1>3. e \in Entry /\ f.pos > 0 BY <1>1, <1>2
<1>4. Held(chain, e.of) \subseteq Items /\ n \in Nat \cup {None}
      /\ (n > 0 => n \in Nat) /\ \A i \in Held(chain, e.of) : chain.holder[i] = Receiver
  <2>1. Held(chain, e.of) \subseteq Items
        /\ \A i \in Held(chain, e.of) : chain.holder[i] = Receiver
    BY DEF Held
  <2>2. Cardinality(Held(chain, e.of)) \in Nat
    BY <2>1, ItemsTyped, FS_Subset, FS_CardinalityType
  <2> QED BY <1>2, <2>1, <2>2
<1>5. n \in Nat
  <2>1. Cardinality(Held(chain, e.of)) \in Nat
    BY <1>4, ItemsTyped, FS_Subset, FS_CardinalityType
  <2> QED BY <1>2, <2>1
<1>6. Receives(f.to) => f.to \in Addresses
  BY <1>2, AddressFacts DEF Receives
<1> HIDE DEF e
<1> DEFINE Result ==
      /\ \E S \in SUBSET Items :
           /\ \A i \in S : chain.holder[i] = Receiver
           /\ f.to \in Addresses \/ S = {}
           /\ chain' = Move(chain, S, f.to) \/ (S = {} /\ chain' = chain)
      /\ \E p \in Nat \ {0}, m \in Nat \cup {None} :
           calls' = <<[f EXCEPT !.pos = p, !.left = m]>> \o Tail(calls)
<1>7. ASSUME next
      PROVE  \E p \in Nat \ {0}, m \in Nat \cup {None} :
               calls' = <<[f EXCEPT !.pos = p, !.left = m]>> \o Tail(calls)
  <2>1. f.pos + 1 \in Nat \ {0} /\ None \in Nat \cup {None} BY <1>2
  <2> QED BY <1>7, <2>1
<1> HIDE DEF f, next
<1>8. ASSUME /\ e.type = 1 /\ (Held(chain, e.of) # {} => Receives(f.to))
             /\ chain' = Move(chain, Held(chain, e.of), f.to) /\ next
      PROVE  Result
  BY <1>4, <1>6, <1>7, <1>8
<1>9. ASSUME /\ e.type = 2 /\ n > 0 /\ Receives(f.to)
             /\ \E i \in Held(chain, e.of) : chain' = Move(chain, {i}, f.to)
             /\ calls' = <<[f EXCEPT !.left = RoundsAfter(n)]>> \o Tail(calls)
      PROVE  Result
  <2>1. PICK i \in Held(chain, e.of) : chain' = Move(chain, {i}, f.to) BY <1>9
  <2>2. {i} \in SUBSET Items /\ \A j \in {i} : chain.holder[j] = Receiver
    BY <1>4
  <2>3. n - 1 \in Nat BY <1>5, <1>9
  <2>4. [f EXCEPT !.left = RoundsAfter(n)] = [f EXCEPT !.pos = f.pos, !.left = n - 1]
    BY <1>2 DEF RoundsAfter, Frame
  <2>5. f.pos \in Nat \ {0} BY <1>2, <1>3 DEF f
  <2>6. \E p \in Nat \ {0}, m \in Nat \cup {None} :
          calls' = <<[f EXCEPT !.pos = p, !.left = m]>> \o Tail(calls)
    BY <1>9, <2>3, <2>4, <2>5
  <2> QED BY <1>6, <1>9, <2>1, <2>2, <2>6
<1>10. ASSUME /\ e.type = 3 /\ Receives(f.to)
              /\ chain' = IF chain.holder[e.of] = Receiver THEN Move(chain, {e.of}, f.to)
                                                           ELSE chain
              /\ next
       PROVE  Result
  <2>1. CASE chain.holder[e.of] = Receiver
    <3>1. e.of \in Items BY <1>3, <1>10, SMTT(30) DEF Entry
    <3>2. {e.of} \in SUBSET Items /\ \A j \in {e.of} : chain.holder[j] = Receiver
      BY <2>1, <3>1
    <3> QED BY <1>6, <1>7, <1>10, <2>1, <3>2
  <2>2. CASE chain.holder[e.of] # Receiver
    BY <1>7, <1>10, <2>2
  <2> QED BY <2>1, <2>2
<1>11. ASSUME /\ e.type = 4 /\ Receives(f.to) /\ chain.holder[e.of] = Receiver
              /\ chain' = Move(chain, {e.of}, f.to) /\ next
       PROVE  Result
  <2>1. e.of \in Items BY <1>3, <1>11, SMTT(30) DEF Entry
  <2>2. {e.of} \in SUBSET Items /\ \A j \in {e.of} : chain.holder[j] = Receiver
    BY <1>11, <2>1
  <2> QED BY <1>6, <1>7, <1>11, <2>2
<1>12. ASSUME UNCHANGED chain, next
       PROVE  Result
  BY <1>7, <1>12
<1>13. Result
  BY <1>8, <1>9, <1>10, <1>11, <1>12 DEF transferNext, f, e, next
<1> QED BY <1>1, <1>3, <1>13 DEF f, e

LEMMA TransferNextStep == ASSUME IInv, transferNext PROVE IInv'
<1> DEFINE f == Head(calls)
<1>1. /\ InOperation /\ f.pos > 0 /\ calls # << >> /\ f \in Frame
      /\ Key(f) \in chain.records
  BY TransferNextIs, HeadFacts
<1>2. PICK p \in Nat \ {0}, n \in Nat \cup {None} :
        calls' = <<[f EXCEPT !.pos = p, !.left = n]>> \o Tail(calls)
  BY TransferNextIs
<1> DEFINE g == [f EXCEPT !.pos = p, !.left = n]
<1>3. g \in Frame /\ SameCall(f, g) /\ g.pos # 0 /\ Key(g) = Key(f)
  BY <1>1 DEF Frame, SameCall, Key
<1>4. PICK S \in SUBSET Items :
        /\ \A i \in S : chain.holder[i] = Receiver
        /\ f.to \in Addresses \/ S = {}
        /\ chain' = Move(chain, S, f.to) \/ (S = {} /\ chain' = chain)
  BY TransferNextIs
<1>5. chain \in Storage BY DEF IInv
<1> HIDE DEF f
<1>6. Aside(chain, chain')
  <2>1. CASE chain' = Move(chain, S, f.to)
    <3>1. \A i \in S \cap Bound : chain.holder[i] # Bnft[AssetOf[i]]
      BY <1>4, AddressFacts
    <3> QED BY <1>4, <1>5, <2>1, <3>1, MoveAside
  <2>2. CASE chain' = chain BY <1>5, <2>2 DEF Aside
  <2> QED BY <1>4, <2>1, <2>2
<1>7. Sound(chain', calls, 0) BY <1>6, SoundAside DEF IInv
<1>8. Key(g) \in chain'.records /\ chain' \in Storage BY <1>1, <1>3, <1>6 DEF Aside
<1> QED BY <1>1, <1>2, <1>3, <1>7, <1>8, SameLoanStep DEF f

\* A settled loan takes its tokens home, and with them goes what its frame
\* accounted for.
LEMMA SettleIs ==
  ASSUME IInv, settleLoan
  PROVE  LET f == Head(calls) IN
         /\ chain' \in Storage /\ chain'.operators = chain.operators
         /\ chain'.called = chain.called \ f.ids /\ chain'.opened = chain.opened
         /\ chain'.status = chain.status /\ chain'.records = chain.records
         /\ \A i \in Items :
              IF i \in f.ids
                THEN /\ AssetOf[i] = f.asset => chain'.holder[i] = Bnft[AssetOf[i]]
                     /\ chain'.approved[i] = None
                ELSE /\ chain'.holder[i] = chain.holder[i]
                     /\ chain'.approved[i] = chain.approved[i]
         /\ InOperation /\ calls' = Tail(calls) /\ f.pos > Len(f.list)
<1> DEFINE f == Head(calls)
           S == {i \in f.ids : chain.holder[i] = Receiver}
<1>1. /\ InOperation /\ f.pos > Len(f.list) /\ MayPull(f)
      /\ chain' = Move(chain, S, Bnft[f.asset]) /\ calls' = Tail(calls)
  BY DEF settleLoan, Return
<1>2. f.asset \in Collections /\ f.ids \subseteq Bound BY <1>1, HeadFacts
<1>3. S = f.ids BY <1>1 DEF MayPull, MayTake
<1> HIDE DEF S, f
<1>4. LET t == Move(chain, S, Bnft[f.asset]) IN
      /\ t \in Storage
      /\ \A i \in Items :
           /\ t.holder[i] = IF i \in S THEN Bnft[f.asset] ELSE chain.holder[i]
           /\ t.approved[i] = IF i \in S THEN None ELSE chain.approved[i]
      /\ t.operators = chain.operators
      /\ t.called = chain.called \ S /\ t.opened = chain.opened
      /\ t.status = chain.status /\ t.records = chain.records
  BY <1>2, MoveIs, AddressFacts DEF IInv
<1> QED BY <1>1, <1>3, <1>4 DEF f

LEMMA BelowTail ==
  ASSUME NEW cs \in Seq(Frame), cs # << >>
  PROVE  /\ \A k \in Below(cs, 0) :
              \/ k = 1 /\ cs[k] = Head(cs)
              \/ k - 1 \in Below(Tail(cs), 0) /\ cs[k] = Tail(cs)[k - 1]
         /\ \A k \in Below(Tail(cs), 0) :
              k + 1 \in Below(cs, 0) /\ cs[k + 1] = Tail(cs)[k]
<1> DEFINE t == Tail(cs)
<1>1. /\ DOMAIN t = 1..(Len(cs) - 1) /\ Len(cs) \in Nat /\ DOMAIN cs = 1..Len(cs)
      /\ Head(cs) = cs[1]
      /\ \A k \in DOMAIN t : k + 1 \in DOMAIN cs /\ t[k] = cs[k + 1]
      /\ \A k \in DOMAIN cs : k > 1 => k - 1 \in DOMAIN t /\ cs[k] = t[k - 1]
  BY PopIs
<1> HIDE DEF t
<1>2. \A k \in DOMAIN cs : k > 0 /\ (k = 1 \/ k > 1) BY <1>1
<1>3. \A k \in DOMAIN cs : k > 1 => k - 1 > 0 BY <1>1
<1> QED BY <1>1, <1>2, <1>3 DEF Below, t

LEMMA SettleStep == ASSUME IInv, settleLoan PROVE IInv'
<1> DEFINE f == Head(calls)
           t == Tail(calls)
<1>1. /\ chain' \in Storage /\ chain'.operators = chain.operators
      /\ chain'.called = chain.called \ f.ids /\ chain'.opened = chain.opened
      /\ chain'.status = chain.status /\ chain'.records = chain.records
      /\ \A i \in Items :
           IF i \in f.ids
             THEN /\ AssetOf[i] = f.asset => chain'.holder[i] = Bnft[AssetOf[i]]
                  /\ chain'.approved[i] = None
             ELSE /\ chain'.holder[i] = chain.holder[i]
                  /\ chain'.approved[i] = chain.approved[i]
      /\ InOperation /\ calls' = t
  BY SettleIs
<1>2. /\ calls # << >> /\ f.fn = "executeOperation" /\ f.asset \in Collections
      /\ f.ids \subseteq Bound
  BY <1>1, HeadFacts
<1>3. StackOK(t) BY <1>2, StackPop DEF IInv
<1>4. calls \in Seq(Frame) BY DEF IInv, StackOK
<1>5. /\ \A k \in Below(calls, 0) : \/ k = 1 /\ calls[k] = f
                                    \/ k - 1 \in Below(t, 0) /\ calls[k] = t[k - 1]
      /\ \A k \in Below(t, 0) : k + 1 \in Below(calls, 0) /\ calls[k + 1] = t[k]
  BY <1>2, <1>4, BelowTail
<1>6. \A i \in f.ids : i \in Items /\ AssetOf[i] = f.asset
  <2>1. FrameOK(f) /\ f = calls[1] BY <1>2, StackPop DEF IInv
  <2> QED BY <1>2, <2>1, AddressFacts DEF FrameOK
<1> HIDE DEF f, t
<1>7. HomeOK(chain', t, 0)
  <2> SUFFICES ASSUME NEW i \in Bound
               PROVE  \/ chain'.holder[i] = Bnft[AssetOf[i]]
                      \/ \E k \in Below(t, 0) : i \in t[k].ids
    BY DEF HomeOK
  <2>1. CASE i \in f.ids BY <1>1, <1>6, <2>1
  <2>2. CASE i \notin f.ids
    BY <1>1, <1>5, <2>2, AddressFacts DEF IInv, Sound, HomeOK
  <2> QED BY <2>1, <2>2
<1>8. ApprovedOK(chain', t, 0)
  <2> SUFFICES ASSUME NEW c \in Collections, NEW i \in Items,
                      chain'.approved[i] = Bnft[c], i \notin chain'.called
               PROVE  \E k \in Below(t, 0) : t[k].asset = c /\ i \in t[k].ids
    BY DEF ApprovedOK
  <2>1. i \notin f.ids /\ chain.approved[i] = Bnft[c] /\ i \notin chain.called
    BY <1>1, AddressFacts
  <2>2. PICK k \in Below(calls, 0) : calls[k].asset = c /\ i \in calls[k].ids
    BY <2>1 DEF IInv, Sound, ApprovedOK
  <2> QED BY <1>5, <2>1, <2>2
<1>9. OperatorsOK(chain') BY <1>1 DEF IInv, Sound, OperatorsOK
<1>10. GuardOK(chain', t, 0)
  BY <1>1, <1>2, <1>5 DEF IInv, Sound, GuardOK
<1>11. RecordsOK(chain', t, 0)
  BY <1>1, <1>5 DEF IInv, Sound, RecordsOK
<1> QED BY <1>1, <1>3, <1>7, <1>8, <1>9, <1>10, <1>11 DEF IInv, Sound

\* A function of the owner that begins: nothing else of his waits, and the guard
\* says so.
LEMMA OwnerCallStep ==
  ASSUME IInv, NEW u \in Users, MayAct(u), NEW v \in Users,
         NEW fn \in {"callMethod", "transfer"},
         NEW s, Aside(chain, s), Aside([s EXCEPT !.status = Entered], chain'),
         calls' = <<Wait(fn, u, v)>> \o calls
  PROVE  IInv'
<1> DEFINE f == Wait(fn, u, v)
           t == [s EXCEPT !.status = Entered]
<1>1. /\ f \in Frame /\ f.fn = fn /\ f.ids = {} /\ f.saved = chain
  BY DEF Wait, Frame, IInv
<1>2. /\ chain.status = NotEntered
      /\ calls # << >> => Foreign(Head(calls))
  BY DEF MayAct, MayCall, NotReentrant
<1>3. \A k \in DOMAIN calls : calls[k].fn = "executeOperation"
  <2>1. \A k \in DOMAIN calls : k > 0 BY DEF IInv, StackOK
  <2> QED BY <1>2, <2>1 DEF IInv, Sound, GuardOK, Below, NotEntered, Entered
<1>4. FrameOK(f) BY <1>1 DEF FrameOK
<1> HIDE DEF f
<1>5. StackOK(calls')
  BY <1>1, <1>2, <1>3, <1>4, StackPush DEF IInv, f
<1>6. calls \in Seq(Frame) /\ calls' = <<f>> \o calls BY DEF IInv, StackOK, f
<1>7. /\ 1 \in Below(calls', 0) /\ calls'[1] = f
      /\ Below(calls', 0) = Below(calls', 1) \cup {1}
  <2>1. /\ DOMAIN calls' = 1..(Len(calls) + 1) /\ Len(calls) \in Nat
        /\ calls'[1] = f
    BY <1>1, <1>6, PushIs
  <2> QED BY <2>1 DEF Below
<1>8. Sound(s, calls', 1)
  <2>1. Sound(s, calls, 0) BY SoundAside DEF IInv
  <2>2. Sound(s, calls', 0 + 1) BY <1>1, <1>6, <2>1, SoundPush
  <2> QED BY <2>2
<1>9. /\ t.holder = s.holder /\ t.approved = s.approved /\ t.operators = s.operators
      /\ t.called = s.called /\ t.opened = s.opened
      /\ t.records = s.records /\ t.status = Entered
  BY DEF Aside, Storage
<1> HIDE DEF t
<1>10. Sound(t, calls', 0)
  <2>1. HomeOK(t, calls', 0) BY <1>7, <1>8, <1>9 DEF Sound, HomeOK
  <2>2. ApprovedOK(t, calls', 0)
    <3>1. ApprovedOK(s, calls', 1) BY <1>8 DEF Sound
    <3>2. Below(calls', 1) \subseteq Below(calls', 0) BY <1>7
    <3> SUFFICES ASSUME NEW c \in Collections, NEW i \in Items,
                        t.approved[i] = Bnft[c], i \notin t.called
                 PROVE  \E k \in Below(calls', 0) :
                          calls'[k].asset = c /\ i \in calls'[k].ids
      BY DEF ApprovedOK
    <3>3. s.approved[i] = Bnft[c] /\ i \notin s.called BY <1>9
    <3>4. PICK k \in Below(calls', 1) : calls'[k].asset = c /\ i \in calls'[k].ids
      BY <3>1, <3>3 DEF ApprovedOK
    <3> QED BY <3>2, <3>4
  <2>3. OperatorsOK(t) BY <1>8, <1>9 DEF Sound, OperatorsOK
  <2>4. GuardOK(t, calls', 0) BY <1>1, <1>7, <1>9 DEF GuardOK
  <2>5. RecordsOK(t, calls', 0) BY <1>1, <1>7, <1>8, <1>9 DEF Sound, RecordsOK
  <2> QED BY <2>1, <2>2, <2>3, <2>4, <2>5 DEF Sound
<1>11. Sound(chain', calls', 0) BY <1>10, SoundAside DEF t
<1> QED BY <1>5, <1>11 DEF IInv, Aside

LEMMA TransferOutStep ==
  ASSUME IInv, NEW u \in Users, NEW to \in Users, NEW i \in Items,
         transferOut(u, to, i)
  PROVE  IInv'
<1> DEFINE moved == Move(chain, {i}, to)
<1>1. MayAct(u) /\ chain.holder[i] = Receiver /\ chain \in Storage
  BY DEF transferOut, IInv
<1>2. Aside(chain, moved) BY <1>1, MoveAside, Away, AddressFacts
<1> HIDE DEF moved
<1>3. CASE chain' = moved /\ UNCHANGED calls
  BY <1>2, <1>3, AsideStep
<1>4. CASE /\ chain' = [moved EXCEPT !.status = Entered]
           /\ calls' = <<Wait("transfer", u, to)>> \o calls
  <2>1. chain' \in Storage BY <1>2, <1>4 DEF Aside, Storage, Entered
  <2>2. Aside([moved EXCEPT !.status = Entered], chain')
    BY <1>4, <2>1 DEF Aside
  <2> QED BY <1>1, <1>2, <1>4, <2>2, OwnerCallStep
<1> QED BY <1>3, <1>4 DEF transferOut, moved

LEMMA ApproveStep ==
  ASSUME IInv, NEW u \in Users, approve(u)
  PROVE  IInv'
<1>1. chain \in Storage /\ UNCHANGED calls BY DEF approve, IInv
<1>2. ASSUME NEW i \in Items, NEW v \in Spenders, chain' = Approve(chain, i, v)
      PROVE  IInv'
  BY <1>1, <1>2, ApproveAside, AsideStep, VersionTyped
<1>3. ASSUME NEW a \in Assets, NEW v \in Spenders, NEW yes \in BOOLEAN,
             chain' = SetApprovalForAll(chain, a, v, yes)
      PROVE  IInv'
  BY <1>1, <1>3, ApprovalForAllAside, AsideStep, VersionTyped
<1> QED BY <1>2, <1>3 DEF approve

LEMMA CallMethodStep ==
  ASSUME IInv, NEW u \in Users, callMethod(u)
  PROVE  IInv'
<1>1. /\ MayAct(u) /\ AsReceiver([chain EXCEPT !.status = Entered], chain')
      /\ calls' = <<Wait("callMethod", u, u)>> \o calls
      /\ chain \in Storage
  BY DEF callMethod, IInv
<1>2. [chain EXCEPT !.status = Entered] \in Storage
  BY <1>1 DEF Storage, Entered
<1>3. Aside(chain, chain) BY <1>1 DEF Aside
<1>4. Aside([chain EXCEPT !.status = Entered], chain')
  BY <1>1, <1>2, AsReceiverAside
<1> QED BY <1>1, <1>3, <1>4, OwnerCallStep

LEMMA OwnerCallReturnsStep == ASSUME IInv, ownerCallReturns PROVE IInv'
<1> DEFINE f == Head(calls)
           t == Tail(calls)
<1>1. /\ calls # << >> /\ f.fn # "executeOperation"
      /\ chain' = [chain EXCEPT !.status = NotEntered] /\ calls' = t
      /\ chain \in Storage /\ calls \in Seq(Frame)
  BY DEF ownerCallReturns, InOperation, Cleared, Return, IInv, StackOK
<1>2. /\ chain' \in Storage /\ chain'.holder = chain.holder
      /\ chain'.approved = chain.approved /\ chain'.operators = chain.operators
      /\ chain'.called = chain.called /\ chain'.opened = chain.opened
      /\ chain'.records = chain.records /\ chain'.status = NotEntered
  BY <1>1 DEF Storage, NotEntered
<1>3. StackOK(t) /\ f.ids = {}
  <2>1. StackOK(t) /\ FrameOK(f) BY <1>1, StackPop DEF IInv
  <2> QED BY <1>1, <2>1 DEF FrameOK
<1>4. /\ \A k \in Below(calls, 0) : \/ k = 1 /\ calls[k] = f
                                    \/ k - 1 \in Below(t, 0) /\ calls[k] = t[k - 1]
      /\ \A k \in Below(t, 0) : k + 1 \in Below(calls, 0) /\ calls[k + 1] = t[k]
  BY <1>1, BelowTail
<1>5. \A k \in Below(t, 0) : t[k].fn = "executeOperation"
  <2> SUFFICES ASSUME NEW k \in Below(t, 0) PROVE t[k].fn = "executeOperation"
    OBVIOUS
  <2>1. /\ k + 1 \in DOMAIN calls /\ calls[k + 1] = t[k] /\ k + 1 # 1
        /\ 1 \in DOMAIN calls /\ calls[1] = f
    BY <1>1, <1>4, PopIs DEF Below
  <2> QED BY <1>1, <2>1 DEF IInv, StackOK
<1> HIDE DEF f, t
<1>6. HomeOK(chain', t, 0) BY <1>2, <1>3, <1>4 DEF IInv, Sound, HomeOK
<1>7. ApprovedOK(chain', t, 0) BY <1>2, <1>3, <1>4 DEF IInv, Sound, ApprovedOK
<1>8. OperatorsOK(chain') BY <1>2 DEF IInv, Sound, OperatorsOK
<1>9. GuardOK(chain', t, 0)
  BY <1>2, <1>5 DEF GuardOK, Entered, NotEntered
<1>10. RecordsOK(chain', t, 0) BY <1>2, <1>4 DEF IInv, Sound, RecordsOK
<1> QED BY <1>1, <1>2, <1>3, <1>6, <1>7, <1>8, <1>9, <1>10 DEF IInv, Sound

LEMMA TransferOwnershipStep ==
  ASSUME IInv, NEW u \in Users, NEW v \in NewOwners, transferOwnership(u, v)
  PROVE  IInv'
<1>1. /\ chain \in Storage /\ chain' = [chain EXCEPT !.owner = v]
      /\ UNCHANGED calls /\ v \in Users \cup {None}
  BY VersionTyped DEF transferOwnership, IInv
<1>2. Aside(chain, chain') BY <1>1 DEF Aside, Storage
<1> QED BY <1>1, <1>2, AsideStep

LEMMA SendStep ==
  ASSUME IInv, NEW u \in Users, NEW i \in Items, NEW to \in Users \cup {Receiver},
         send(u, i, to)
  PROVE  IInv'
<1>1. /\ chain \in Storage /\ chain' = Move(chain, {i}, to) /\ UNCHANGED calls
      /\ chain.holder[i] \in Users \cup {Receiver}
  BY DEF send, MayTake, IInv
<1>2. to \in Addresses BY AddressFacts
<1>3. Aside(chain, chain') BY <1>1, <1>2, MoveAside, Away
<1> QED BY <1>1, <1>3, AsideStep

LEMMA RevertStep == ASSUME IInv, revert PROVE IInv'
<1>1. /\ calls # << >> /\ chain' = Head(calls).saved /\ calls' = Tail(calls)
  BY DEF revert, Return
<1>2. /\ StackOK(Tail(calls)) /\ Sound(Head(calls).saved, Tail(calls), 0)
      /\ FrameOK(Head(calls))
  BY <1>1, StackPop DEF IInv
<1>3. Head(calls).saved \in Storage BY <1>2 DEF FrameOK, Frame
<1> QED BY <1>1, <1>2, <1>3 DEF IInv

LEMMA NextStep == ASSUME IInv, [Next]_vars PROVE IInv'
<1>1. CASE Loans
  <2>1. ASSUME NEW u \in Users, NEW c \in Collections, NEW ids \in SUBSET Bound,
               NEW l \in Sweeps, flashLoan(u, c, ids, l)
        PROVE  IInv'
    BY <2>1, FlashLoanStep
  <2> QED BY <1>1, <2>1, AirdropReturnsStep, TransferNextStep, SettleStep DEF Loans
<1>2. CASE Manage
  <2>1. ASSUME NEW u \in Users, NEW v \in Users, NEW i \in Items, transferOut(u, v, i)
        PROVE  IInv'
    BY <2>1, TransferOutStep
  <2>2. ASSUME NEW u \in Users, NEW v \in NewOwners, transferOwnership(u, v)
        PROVE  IInv'
    BY <2>2, TransferOwnershipStep
  <2>3. ASSUME NEW u \in Users, approve(u) \/ callMethod(u) PROVE IInv'
    BY <2>3, ApproveStep, CallMethodStep
  <2> QED BY <1>2, <2>1, <2>2, <2>3, OwnerCallReturnsStep DEF Manage
<1>3. CASE Others
  <2>1. ASSUME NEW u \in Users, NEW i \in Items, NEW to \in Users \cup {Receiver},
               send(u, i, to)
        PROVE  IInv'
    BY <2>1, SendStep
  <2> QED BY <1>3, <2>1, RevertStep DEF Others
<1>4. CASE UNCHANGED vars
  BY <1>4 DEF vars, IInv
<1> QED BY <1>1, <1>2, <1>3, <1>4 DEF Next

LEMMA Inductive == Spec => []IInv
<1>1. IInv /\ [Next]_vars => IInv' BY NextStep
<1> QED BY <1>1, InitOK, PTL DEF Spec

-----------------------------------------------------------------------------
\* Every variable keeps its type: what a revert puts back is a storage, a list
\* has an entry where the loop reads one, and the rounds never go below none.
THEOREM TypeCorrect == Spec => []TypeOK
<1>1. IInv => TypeOK BY DEF IInv, StackOK, TypeOK
<1> QED BY <1>1, Inductive, PTL

\* Only tokens of the loans that are open are away from their bNFT contract.
THEOREM BoundTokensHome == Spec => []BoundAtHome
<1>1. IInv => BoundAtHome
  BY DEF IInv, Sound, HomeOK, BoundAtHome, Below
<1> QED BY <1>1, Inductive, PTL

\* What a loan has approved to a bNFT contract is what the loan will take, in V3
\* tokens of one that is open, whatever else the owner and calls as the receiver
\* have approved to it.
THEOREM ApprovalsBounded == Spec => []ReturnApprovals
<1>1. IInv => ReturnApprovals
  <2> SUFFICES ASSUME IInv, NEW c \in Collections
               PROVE  /\ \A i \in Items \ chain.called : chain.approved[i] = Bnft[c] =>
                           \E k \in DOMAIN calls : calls[k].asset = c /\ i \in calls[k].ids
                      /\ \A a \in Assets :
                           <<a, Bnft[c]>> \in chain.operators \ chain.opened =>
                             a = c /\ Version = "V2"
    BY DEF ReturnApprovals
  <2>1. ApprovedOK(chain, calls, 0) /\ OperatorsOK(chain) BY DEF IInv, Sound
  <2> QED BY <2>1 DEF ApprovedOK, OperatorsOK, Below
<1> QED BY <1>1, Inductive, PTL

\* One function of the owner waits at most, and the guard says whether one does.
THEOREM OwnerCallsAlone == Spec => []OwnerCallsExclude
<1>1. IInv => OwnerCallsExclude
  <2> SUFFICES ASSUME IInv PROVE OwnerCallsExclude
    OBVIOUS
  <2> DEFINE waiting == {k \in DOMAIN calls : calls[k].fn # "executeOperation"}
  <2>1. \A j, k \in waiting : j = k BY DEF IInv, StackOK
  <2>2. Cardinality(waiting) <= 1
    <3>1. CASE waiting = {} BY <3>1, FS_EmptySet
    <3>2. ASSUME NEW k \in waiting PROVE Cardinality(waiting) <= 1
      <4>1. waiting = {k} BY <2>1, <3>2
      <4>2. Cardinality({k}) = 1 BY FS_Singleton
      <4> QED BY <4>1, <4>2
    <3> QED BY <3>1, <3>2
  <2>3. chain.status = Entered <=> waiting # {}
    <3>1. \A k \in DOMAIN calls : k > 0 BY DEF IInv, StackOK
    <3>2. GuardOK(chain, calls, 0) BY DEF IInv, Sound
    <3> QED BY <3>1, <3>2 DEF GuardOK, Below
  <2> QED BY <2>2, <2>3 DEF OwnerCallsExclude
<1> QED BY <1>1, Inductive, PTL

\* A settled loan is on record under the account its tokens went to.
THEOREM LoansRecorded == Spec => LoanLeavesRecord
<1> DEFINE A == settleLoan => Recorded(Head(calls), chain')
<1>1. ASSUME IInv, settleLoan PROVE Recorded(Head(calls), chain')
  <2>1. /\ InOperation /\ Head(calls).pos > Len(Head(calls).list)
        /\ chain'.records = chain.records
    BY <1>1, SettleIs
  <2>2. /\ Head(calls).list \in Seq(Entry) /\ Head(calls).pos \in Nat
        /\ Head(calls).pos > 0 => Key(Head(calls)) \in chain.records
        /\ Head(calls).to = IF Version = "V3" THEN Head(calls).saved.owner
                                              ELSE Head(calls).by
    BY <1>1, <2>1, HeadFacts
  <2>3. Len(Head(calls).list) \in Nat BY <2>2
  <2>4. Head(calls).pos > 0 BY <2>1, <2>2, <2>3
  <2> QED BY <2>1, <2>2, <2>4 DEF Recorded, Key
<1>2. IInv /\ [Next]_vars => [A]_vars
  BY <1>1
<1> QED BY <1>2, Inductive, PTL DEF Spec, LoanLeavesRecord

\* What a receiver deployed for its owner holds leaves it as he disposes.
THEOREM OwnerAlone == Spec => OwnerDisposes
<1> DEFINE A == Version = "V2" /\ DeployType # 0 => \A i \in Items :
                  chain.holder[i] = Receiver /\ chain'.holder[i] # Receiver =>
                    \/ revert
                    \/ \E to \in Users : transferOut(chain.owner, to, i)
                    \/ \E u \in Users : MayTake(chain, u, i)
                    \/ OwnersLoan(calls) \/ OwnersLoan(calls')
<1>1. ASSUME IInv, Next PROVE A
  <2> SUFFICES ASSUME Version = "V2", DeployType # 0, NEW i \in Items, ~revert,
                      chain.holder[i] = Receiver, chain'.holder[i] # Receiver
               PROVE  \/ \E to \in Users : transferOut(chain.owner, to, i)
                      \/ \E u \in Users : MayTake(chain, u, i)
                      \/ OwnersLoan(calls) \/ OwnersLoan(calls')
    OBVIOUS
  <2> HIDE DEF A
  <2>1. chain \in Storage BY <1>1 DEF IInv
  <2>2. ASSUME NEW u \in Users, NEW c \in Collections, NEW ids \in SUBSET Bound,
               NEW l \in Sweeps, flashLoan(u, c, ids, l)
        PROVE  OwnersLoan(calls')
    <3> DEFINE f == [Wait("executeOperation", u, Recipient(u)) EXCEPT
                       !.asset = c, !.ids = ids, !.list = l]
    <3>1. calls' = <<f>> \o calls /\ u = chain.owner
      BY <2>2 DEF flashLoan, AdmitsV2
    <3>2. f \in Frame /\ f.fn = "executeOperation" /\ f.by = u /\ f.saved = chain
      BY <2>1, AddressFacts DEF Wait, Frame, Recipient, Storage
    <3> HIDE DEF f
    <3>3. calls' # << >> /\ Head(calls') = f
      BY <1>1, <3>1, <3>2, PushIs DEF IInv, StackOK
    <3> QED BY <3>1, <3>2, <3>3 DEF OwnersLoan
  <2>3. CASE airdropReturns
    BY <2>1, <2>3 DEF airdropReturns, Storage
  <2>4. ASSUME InOperation PROVE OwnersLoan(calls)
    BY <1>1, <2>4, HeadFacts DEF OwnersLoan
  <2>5. CASE transferNext BY <2>4, <2>5 DEF transferNext
  <2>6. CASE settleLoan BY <2>4, <2>6 DEF settleLoan
  <2>7. ASSUME NEW u \in Users, NEW to \in Users, NEW j \in Items,
               transferOut(u, to, j)
        PROVE  \E v \in Users : transferOut(chain.owner, v, i)
    <3>1. u = chain.owner BY <2>7 DEF transferOut, MayAct
    <3> DEFINE moved == Move(chain, {j}, to)
    <3>2. moved \in Storage BY <2>1, AddressFacts, MoveIs
    <3>3. chain' = moved \/ chain' = [moved EXCEPT !.status = Entered]
      BY <2>7 DEF transferOut
    <3>4. chain'.holder = moved.holder
      <4> HIDE DEF moved
      <4> QED BY <3>2, <3>3 DEF Storage
    <3>5. j = i BY <2>1, <3>4, AddressFacts, MoveIs
    <3> QED BY <2>7, <3>1, <3>5
  <2>8. ASSUME NEW u \in Users, NEW v \in NewOwners, transferOwnership(u, v)
        PROVE  FALSE
    BY <2>1, <2>8 DEF transferOwnership, Storage
  <2>9. ASSUME NEW u \in Users, approve(u) \/ callMethod(u) PROVE FALSE
    BY <2>9 DEF approve, callMethod
  <2>10. CASE ownerCallReturns
    BY <2>1, <2>10 DEF ownerCallReturns, Cleared, Storage
  <2>11. ASSUME NEW u \in Users, NEW j \in Items, NEW to \in Users \cup {Receiver},
                send(u, j, to)
         PROVE  \E v \in Users : MayTake(chain, v, i)
    <3>1. /\ chain.holder[j] = u \/ MayTake(chain, u, j)
          /\ chain' = Move(chain, {j}, to)
      BY <2>11 DEF send
    <3>2. j = i BY <2>1, <3>1, AddressFacts, MoveIs
    <3> QED BY <3>1, <3>2, AddressFacts
  <2>12. CASE Loans BY <2>2, <2>3, <2>5, <2>6, <2>12 DEF Loans
  <2>13. CASE Manage BY <2>7, <2>8, <2>9, <2>10, <2>13 DEF Manage
  <2>14. CASE Others BY <2>11, <2>14 DEF Others
  <2> QED BY <1>1, <2>12, <2>13, <2>14 DEF Next
<1>2. IInv /\ [Next]_vars => [A]_vars
  BY <1>1
<1> QED BY <1>2, Inductive, PTL DEF Spec, OwnerDisposes

-----------------------------------------------------------------------------
\* Sweeping.  While a recipient without code is served nobody else acts, so that
\* entries that were swept clean stay so, and the rounds left of one are the
\* tokens left.
Clean(s, e) == /\ e.type \in {1, 2} => Held(s, e.of) = {}
               /\ e.type \in {3, 4} => s.holder[e.of] # Receiver
Undisturbed(cs) == /\ cs # << >> /\ Head(cs).fn = "executeOperation"
                   /\ Head(cs).pos > 0 /\ Head(cs).to \in EOAs
SweptOK(s, f) ==
  /\ \A k \in DOMAIN f.list : k < f.pos => Clean(s, f.list[k])
  /\ f.left # None => /\ f.pos \in DOMAIN f.list /\ f.list[f.pos].type = 2
                      /\ f.left = Cardinality(Held(s, f.list[f.pos].of))
SInv == IInv /\ (Undisturbed(calls) => SweptOK(chain, Head(calls)))

LEMMA NobodyDisturbs ==
  ASSUME NEW u, MayCall(u)
  PROVE  ~ Undisturbed(calls)
BY AddressFacts DEF MayCall, Undisturbed, Foreign

LEMMA PopUndisturbed ==
  ASSUME IInv, calls # << >>, calls' = Tail(calls)
  PROVE  ~ Undisturbed(calls')
<1>1. calls' # << >> => Foreign(Head(calls')) BY StackPop DEF IInv
<1> QED BY <1>1, AddressFacts DEF Undisturbed, Foreign

LEMMA PushUndisturbed ==
  ASSUME IInv, NEW f \in Frame, f.fn # "executeOperation" \/ f.pos = 0,
         calls' = <<f>> \o calls
  PROVE  ~ Undisturbed(calls')
<1>1. Head(calls') = f BY PushIs DEF IInv, StackOK
<1> QED BY <1>1 DEF Undisturbed

LEMMA SweepStep ==
  ASSUME IInv, transferNext, Undisturbed(calls) => SweptOK(chain, Head(calls)),
         Undisturbed(calls')
  PROVE  SweptOK(chain', Head(calls'))
<1> DEFINE f == Head(calls)
           e == f.list[f.pos]
           n == IF f.left = None THEN Cardinality(Held(chain, e.of)) ELSE f.left
           nextf == [f EXCEPT !.pos = f.pos + 1, !.left = None]
           againf == [f EXCEPT !.left = RoundsAfter(n)]
<1>1. InOperation /\ f.pos \in 1..Len(f.list) BY DEF transferNext
<1>2. /\ f \in Frame /\ f.list \in Seq(Entry) /\ f.pos \in Nat /\ calls # << >>
      /\ f.fn = "executeOperation" /\ f.left \in Nat \cup {None}
  BY <1>1, HeadFacts
<1>3. /\ f.pos > 0 /\ f.pos \in DOMAIN f.list /\ e \in Entry
      /\ DOMAIN f.list \subseteq Nat
  BY <1>1, <1>2
<1>4. /\ nextf \in Frame /\ nextf.list = f.list /\ nextf.pos = f.pos + 1
      /\ nextf.left = None /\ nextf.to = f.to
  <2>1. f.pos + 1 \in Nat /\ None \in Nat \cup {None} BY <1>2
  <2>2. nextf \in Frame BY <1>2, <2>1 DEF Frame
  <2> QED BY <1>2, <2>2 DEF Frame
<1>5. calls \in Seq(Frame) BY DEF IInv, StackOK
<1>6. Held(chain, e.of) \subseteq Items /\ IsFiniteSet(Held(chain, e.of))
  BY ItemsTyped, FS_Subset DEF Held
<1>7. Cardinality(Held(chain, e.of)) \in Nat /\ n \in Nat
  <2>1. Cardinality(Held(chain, e.of)) \in Nat BY <1>6, FS_CardinalityType
  <2> QED BY <1>2, <2>1
<1>8. n > 0 => /\ againf \in Frame /\ againf.list = f.list /\ againf.pos = f.pos
               /\ againf.left = n - 1 /\ againf.to = f.to
  BY <1>2, <1>7 DEF Frame, RoundsAfter
<1>9. f.to \in EOAs
  <2>1. PICK p \in Nat \ {0}, m \in Nat \cup {None} :
          calls' = <<[f EXCEPT !.pos = p, !.left = m]>> \o Tail(calls)
    BY TransferNextIs
  <2>2. [f EXCEPT !.pos = p, !.left = m] \in Frame BY <1>2 DEF Frame
  <2>3. Head(calls') = [f EXCEPT !.pos = p, !.left = m]
    BY <1>2, <1>5, <2>1, <2>2, ReplaceIs
  <2>4. [f EXCEPT !.pos = p, !.left = m].to = f.to BY <1>2 DEF Frame
  <2> QED BY <2>3, <2>4 DEF Undisturbed
<1>10. SweptOK(chain, f) /\ f.to # Receiver
  BY <1>2, <1>3, <1>9, AddressFacts DEF Undisturbed
<1>11. PICK S \in SUBSET Items :
        /\ f.to \in Addresses \/ S = {}
        /\ chain' = Move(chain, S, f.to) \/ (S = {} /\ chain' = chain)
  BY TransferNextIs
<1>12. \A i \in Items : chain'.holder[i] = Receiver => chain.holder[i] = Receiver
  BY <1>10, <1>11, MoveIs DEF IInv
<1>13. \A k \in DOMAIN f.list : Clean(chain, f.list[k]) => Clean(chain', f.list[k])
  <2> SUFFICES ASSUME NEW k \in DOMAIN f.list, Clean(chain, f.list[k])
               PROVE  Clean(chain', f.list[k])
    OBVIOUS
  <2>1. f.list[k] \in Entry BY <1>2
  <2>2. f.list[k].type \in {3, 4} => f.list[k].of \in Items BY <2>1 DEF Entry
  <2>3. \A a : Held(chain', a) \subseteq Held(chain, a) BY <1>12 DEF Held
  <2> QED BY <1>12, <2>2, <2>3 DEF Clean
<1>14. n = Cardinality(Held(chain, e.of)) BY <1>10 DEF SweptOK
<1> HIDE DEF f, e, n, nextf, againf
<1>15. ASSUME calls' = <<nextf>> \o Tail(calls), Clean(chain', e)
       PROVE  SweptOK(chain', Head(calls'))
  <2>1. Head(calls') = nextf BY <1>2, <1>4, <1>5, <1>15, ReplaceIs
  <2>2. \A k \in DOMAIN f.list : k < f.pos + 1 => k < f.pos \/ k = f.pos
    BY <1>2, <1>3
  <2>3. \A k \in DOMAIN f.list : k < f.pos + 1 => Clean(chain', f.list[k])
    BY <1>10, <1>13, <1>15, <2>2 DEF SweptOK, e
  <2> QED BY <1>4, <2>1, <2>3 DEF SweptOK
<1>16. ASSUME NEW i \in Held(chain, e.of), chain' = Move(chain, {i}, f.to), n > 0,
              e.type = 2, calls' = <<againf>> \o Tail(calls)
       PROVE  SweptOK(chain', Head(calls'))
  <2>1. Head(calls') = againf BY <1>2, <1>5, <1>8, <1>16, ReplaceIs
  <2>2. f.to \in Addresses BY <1>9, AddressFacts
  <2>3. Held(chain', e.of) = Held(chain, e.of) \ {i}
    <3>1. i \in Items /\ chain \in Storage BY <1>6 DEF IInv
    <3>2. \A j \in Items : chain'.holder[j] = IF j \in {i} THEN f.to ELSE chain.holder[j]
      BY <1>16, <2>2, <3>1, MoveIs
    <3> QED BY <1>10, <3>2 DEF Held
  <2>4. Cardinality(Held(chain', e.of)) = n - 1
    BY <1>6, <1>14, <1>16, <2>3, FS_RemoveElement
  <2>5. \A k \in DOMAIN f.list : k < f.pos => Clean(chain', f.list[k])
    BY <1>10, <1>13 DEF SweptOK
  <2> QED BY <1>3, <1>8, <1>16, <2>1, <2>4, <2>5 DEF SweptOK, e
<1>17. ASSUME e.type \in {3, 4}, e.of \in Items,
              IF chain.holder[e.of] = Receiver THEN chain' = Move(chain, {e.of}, f.to)
                                               ELSE chain' = chain
       PROVE  Clean(chain', e)
  <2>1. f.to \in Addresses BY <1>9, AddressFacts
  <2>2. chain'.holder[e.of] # Receiver
    BY <1>10, <1>17, <2>1, MoveIs DEF IInv
  <2> QED BY <1>17, <2>2 DEF Clean
<1>18. e.type \in {3, 4} => e.of \in Items BY <1>3 DEF Entry
<1>19. ASSUME /\ e.type = 1 /\ (Held(chain, e.of) # {} => Receives(f.to))
              /\ chain' = Move(chain, Held(chain, e.of), f.to)
       PROVE  Clean(chain', e)
  <2>1. f.to \in Addresses BY <1>9, AddressFacts
  <2>2. \A j \in Items : chain'.holder[j] = IF j \in Held(chain, e.of)
                                              THEN f.to ELSE chain.holder[j]
    BY <1>19, <2>1, MoveIs DEF IInv
  <2>3. Held(chain', e.of) = {} BY <1>10, <2>2 DEF Held
  <2> QED BY <1>19, <2>3 DEF Clean
<1>20. ASSUME e.type = 5 \/ (e.type = 2 /\ n = 0), UNCHANGED chain
       PROVE  Clean(chain', e)
  <2>1. n = 0 => Held(chain, e.of) = {} BY <1>6, <1>14, FS_EmptySet
  <2> QED BY <1>20, <2>1 DEF Clean
<1>21. \/ /\ e.type = 1 /\ (Held(chain, e.of) # {} => Receives(f.to))
          /\ chain' = Move(chain, Held(chain, e.of), f.to)
          /\ calls' = <<nextf>> \o Tail(calls)
       \/ /\ e.type = 2 /\ n > 0
          /\ \E i \in Held(chain, e.of) : chain' = Move(chain, {i}, f.to)
          /\ calls' = <<againf>> \o Tail(calls)
       \/ /\ e.type \in {3, 4}
          /\ IF chain.holder[e.of] = Receiver THEN chain' = Move(chain, {e.of}, f.to)
                                              ELSE chain' = chain
          /\ calls' = <<nextf>> \o Tail(calls)
       \/ /\ e.type = 5 \/ (e.type = 2 /\ n = 0)
          /\ UNCHANGED chain /\ calls' = <<nextf>> \o Tail(calls)
  BY DEF transferNext, f, e, n, nextf, againf
<1> QED BY <1>15, <1>16, <1>17, <1>18, <1>19, <1>20, <1>21

LEMMA SInductive == Spec => []SInv
<1>1. Init => SInv BY InitOK DEF Init, SInv, Undisturbed
<1>2. ASSUME SInv, Next PROVE SInv'
  <2>1. IInv /\ IInv' BY <1>2, NextStep DEF SInv
  <2>2. (Undisturbed(calls) => SweptOK(chain, Head(calls))) BY <1>2 DEF SInv
  <2> SUFFICES ASSUME Undisturbed(calls') PROVE SweptOK(chain', Head(calls'))
    BY <2>1 DEF SInv
  <2>3. ASSUME NEW u, MayCall(u), UNCHANGED calls PROVE FALSE
    BY <2>3, NobodyDisturbs
  <2>4. ASSUME calls # << >>, calls' = Tail(calls) PROVE FALSE
    BY <2>1, <2>4, PopUndisturbed
  <2>5. ASSUME NEW u \in Users, NEW v \in Users, NEW fn \in {"callMethod", "transfer"},
               calls' = <<Wait(fn, u, v)>> \o calls
        PROVE  FALSE
    <3>1. /\ Wait(fn, u, v) \in Frame /\ Wait(fn, u, v).fn # "executeOperation"
      BY <2>1 DEF Wait, Frame, IInv
    <3> QED BY <2>1, <2>5, <3>1, PushUndisturbed
  <2>6. ASSUME NEW u \in Users, NEW c \in Collections, NEW ids \in SUBSET Bound,
               NEW l \in Sweeps, flashLoan(u, c, ids, l)
        PROVE  FALSE
    <3> DEFINE f == [Wait("executeOperation", u, Recipient(u)) EXCEPT
                       !.asset = c, !.ids = ids, !.list = l]
    <3>1. calls' = <<f>> \o calls BY <2>6 DEF flashLoan
    <3>2. f \in Frame /\ f.pos = 0
      BY <2>1, AddressFacts DEF Wait, Frame, Recipient, Storage, IInv
    <3> HIDE DEF f
    <3> QED BY <2>1, <3>1, <3>2, PushUndisturbed
  <2>7. CASE airdropReturns
    <3> DEFINE g == [Head(calls) EXCEPT !.pos = 1]
    <3>1. /\ Head(calls) \in Frame /\ Head(calls).left = None /\ calls # << >>
          /\ calls \in Seq(Frame) /\ Head(calls).list \in Seq(Entry)
      BY <2>1, <2>7, HeadFacts DEF airdropReturns, IInv, StackOK
    <3>2. g \in Frame /\ g.pos = 1 /\ g.left = None /\ g.list = Head(calls).list
      BY <3>1 DEF Frame
    <3>3. calls' = <<g>> \o Tail(calls) BY <2>7 DEF airdropReturns
    <3> HIDE DEF g
    <3>4. Head(calls') = g BY <3>1, <3>2, <3>3, ReplaceIs
    <3>5. \A k \in DOMAIN g.list : ~(k < 1) BY <3>1, <3>2
    <3> QED BY <3>2, <3>4, <3>5 DEF SweptOK
  <2>8. CASE transferNext BY <2>1, <2>2, <2>8, SweepStep
  <2>9. CASE settleLoan
    BY <2>4, <2>9 DEF settleLoan, InOperation, Return
  <2>10. ASSUME NEW u \in Users, NEW v \in Users, NEW i \in Items,
                transferOut(u, v, i)
         PROVE  FALSE
    BY <2>3, <2>5, <2>10 DEF transferOut, MayAct
  <2>11. ASSUME NEW u \in Users, NEW v \in NewOwners, transferOwnership(u, v)
         PROVE  FALSE
    BY <2>3, <2>11 DEF transferOwnership
  <2>12. ASSUME NEW u \in Users, approve(u) \/ callMethod(u) PROVE FALSE
    BY <2>3, <2>5, <2>12 DEF approve, callMethod, MayAct
  <2>13. CASE ownerCallReturns BY <2>4, <2>13 DEF ownerCallReturns, Return
  <2>14. ASSUME NEW u \in Users, NEW i \in Items, NEW to \in Users \cup {Receiver},
                send(u, i, to)
         PROVE  FALSE
    BY <2>3, <2>14 DEF send
  <2>15. CASE revert BY <2>4, <2>15 DEF revert, Return
  <2>16. CASE Loans BY <2>6, <2>7, <2>8, <2>9, <2>16 DEF Loans
  <2>17. CASE Manage BY <2>10, <2>11, <2>12, <2>13, <2>17 DEF Manage
  <2>18. CASE Others BY <2>14, <2>15, <2>18 DEF Others
  <2> QED BY <1>2, <2>16, <2>17, <2>18 DEF Next
<1>3. ASSUME SInv, UNCHANGED vars PROVE SInv'
  <2>1. IInv' BY <1>3, NextStep DEF SInv
  <2> QED BY <1>3, <2>1 DEF SInv, vars
<1>4. SInv /\ [Next]_vars => SInv' BY <1>2, <1>3
<1> QED BY <1>1, <1>4, PTL DEF Spec

\* A loan settled for a recipient without code has left the receiver nothing of
\* what its list names.
THEOREM NothingLeft == Spec => SweepComplete
<1> DEFINE A == settleLoan /\ Head(calls).to \in EOAs =>
                  \A k \in DOMAIN Head(calls).list : SweptClean(Head(calls), k)
<1>1. ASSUME SInv, settleLoan, Head(calls).to \in EOAs,
             NEW k \in DOMAIN Head(calls).list
      PROVE  SweptClean(Head(calls), k)
  <2> DEFINE f == Head(calls)
  <2>1. IInv /\ InOperation /\ f.pos > Len(f.list)
    BY <1>1 DEF SInv, settleLoan
  <2>2. f.list \in Seq(Entry) /\ f.pos \in Nat BY <2>1, HeadFacts
  <2>3. Len(f.list) \in Nat /\ k < f.pos /\ f.pos > 0 BY <1>1, <2>1, <2>2
  <2>4. Clean(chain, f.list[k])
    BY <1>1, <2>1, <2>3 DEF SInv, Undisturbed, SweptOK, InOperation
  <2> QED BY <2>4 DEF Clean, SweptClean
<1>2. SInv /\ [Next]_vars => [A]_vars
  BY <1>1
<1> QED BY <1>2, SInductive, PTL DEF Spec, SweepComplete
=============================================================================
