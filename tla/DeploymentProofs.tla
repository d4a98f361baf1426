-------------------------- MODULE DeploymentProofs --------------------------
(***************************************************************************)
(* Proofs that the deployment tasks keep their promises for any list of    *)
(* collections and any number of contracts, tasks and mishaps: what the    *)
(* tasks go by in the file is there, an implementation is as it was made   *)
(* or a stranger's, a completed token task leaves every collection bound,  *)
(* and a completed hand-over has given away all it names.                  *)
(***************************************************************************)
EXTENDS Deployment, SequenceTheorems, FiniteSetTheorems, WellFoundedInduction, TLAPS

-----------------------------------------------------------------------------
\* Types.

Contracts == ({"BNFTRegistry"} \X Nat) \cup ({"BNFT"} \X Nat \X Assets)

OwnerOps == {"setClaimAdmin", "transferOwnership"}
BNFTOps  == {"createBNFT", "upgradeBNFTWithImpl"}
RegistryOps == {"upgrade", "setBNFTGenericImpl", "batchUpgradeAllBNFT"}

Txs == [op : Kinds \cup OwnerOps \cup BNFTOps \cup RegistryOps,
        to : Contracts \cup {None}, impl : Nat, admin : Nat]

\* The steps of the tasks, by what they are for.
ItemDos  == {"bind", "enter", "rebind", "createBNFT", "await"}
Steps == [do : {"deploy", "save"}, x : Kinds]
           \cup [do : {"note"}, x : {"BNFTRegistryImpl"}]
           \cup [do : ItemDos, x : Assets]
           \cup [do : RegistryOps \cup {"await"}, x : {None}]
           \cup [do : {"adopt", "connect"}, x : Nat]
           \cup [do : OwnerOps, x : Assets \cup {"BNFTRegistry"}]

Tasks == [name : AllTasks \cup {"none"}, todo : Seq(Steps), reg : Nat, generic : Nat,
          awaited : {"nothing", "sent", "mined", "reverted", "lost"}, quiet : BOOLEAN]

TypeInv ==
  /\ chain \in Storage /\ pending \in Seq(Txs) /\ db \in Db
  /\ task \in Tasks /\ (task # Idle => task.name # "none" /\ task.todo # << >>)
  /\ done \in Tasks /\ (done # Idle => task = Idle)

-----------------------------------------------------------------------------
\* The steps of a task: which may follow which, and which may be the last.

Item(s) == s.do \in ItemDos /\ s.x \in Assets
OfRegistry(s) == \/ s.do \in RegistryOps \cup {"await"} /\ s.x = None
                 \/ s.do \in OwnerOps /\ s.x = "BNFTRegistry"

Follows(s, t) ==
  /\ s.do = "deploy" => /\ t.do = IF s.x = "BNFTRegistryImpl" THEN "note" ELSE "save"
                        /\ t.x = s.x
  /\ s.do = "note" => t.do = "save" /\ t.x = s.x
  /\ s.do = "bind" => t.do = "enter" /\ t.x = s.x
  /\ s.do \in {"rebind", "createBNFT"} => t.do = "await" /\ t.x = s.x
  /\ s.do = "setClaimAdmin" => t.do = "transferOwnership" /\ t.x = s.x
  /\ s.do = "adopt" => t.do = "upgrade"
  /\ s.do \in RegistryOps => t.do = "await" /\ t.x = None
  /\ s.do = "save" => \/ t.do = "deploy" /\ (t.x = "BNFTRegistry" => s.x = "BNFTRegistryImpl")
                      \/ t.do = "adopt"
                      \/ t.do = "connect" /\ t.x = 0 /\ s.x = "BNFTRegistry"
  /\ s.do = "connect" => t.do \in {"bind", "rebind", "createBNFT"}
  /\ s.do = "enter" => t.do = "bind"
  /\ s.do = "await" => IF s.x = None THEN t.do = "setBNFTGenericImpl"
                       ELSE t.do \in {"rebind", "createBNFT"}
  /\ s.do = "transferOwnership" => t.do = "setClaimAdmin" /\ t.x \in Assets

Unfinished == {"deploy", "note", "bind", "rebind", "createBNFT", "setClaimAdmin", "adopt",
               "upgrade", "connect"}

Linked(p)   == \A k \in 1..(Len(p) - 1) : Follows(p[k], p[k + 1])
Finished(p) == p # << >> => p[Len(p)].do \notin Unfinished

\* What the steps of the tasks that a property asks about may be.
FilingTasks == {"deploy-bnft-tokens", "deploy-all"}

Proper(name, s) ==
  /\ name \in FilingTasks => s.do \in {"deploy", "note", "save", "connect", "bind", "enter"}
  /\ name \in TokenTasks \ FilingTasks =>
       s.do \in {"connect", "rebind", "createBNFT"} \/ (s.do = "await" /\ s.x # None)
  /\ name = "transferOwnership" => s.do \in OwnerOps
  /\ Item(s) => name \in TokenTasks

\* The contracts there are, and what a step or a transaction needs of them.
Registries == DOMAIN chain.registries

Exists(s, x) ==
  \/ x \in {"BNFTRegistry"} \X (DOMAIN s.registries)
  \/ /\ x \in {"BNFT"} \X (DOMAIN s.registries) \X Assets
     /\ s.registries[x[2]].bnfts[x[3]] # None

Founded(s) == /\ s.do = "upgrade" => db.ProxyAdmin # 0
              /\ s.do = "adopt" => s.x \in Registries
              /\ s.do = "connect" => s.x = 0 \/ s.x \in Registries

TaskInv == /\ Linked(task.todo) /\ Finished(task.todo)
           /\ \A s \in Range(task.todo) : Proper(task.name, s) /\ Founded(s)

Sound(s, tx) ==
  /\ tx.op = "BNFTRegistry" => tx.to[2] \in Nat \ {0}
  /\ tx.op \in BNFTOps => tx.to \in {"BNFT"} \X (DOMAIN s.registries) \X Assets
  /\ tx.op \in RegistryOps => tx.to \in {"BNFTRegistry"} \X (DOMAIN s.registries)
  /\ tx.op = "upgrade" => tx.admin # 0 /\ tx.impl # 0
  /\ tx.op \in OwnerOps => Exists(s, tx.to)

PendingInv == \A k \in DOMAIN pending : Sound(chain, pending[k])

-----------------------------------------------------------------------------
\* The step a task is at.

\* The transaction sent last is the one the step waits for.
SentFor(s, tx) ==
  /\ s.do \in {"note", "save"} => tx.op = s.x
  /\ Item(s) => /\ tx.op \in BNFTOps /\ tx.to = Bound(task.reg, s.x)
                /\ tx.op = "upgradeBNFTWithImpl" => tx.impl = task.generic

Count(kind) == CASE kind = "ProxyAdmin" -> chain.admins [] kind = "BNFT" -> chain.impls
                 [] OTHER -> Len(chain.registries)

\* The bNFT of a collection that the task has gone through.
GoodIn(s, t, a) ==
  LET registry == s.registries[t.reg]
      b        == registry.bnfts[a]
  IN /\ b # None
     /\ t.quiet /\ registry.owner = Deployer => b.impl = registry.generic

Good(t, a) == GoodIn(chain, t, a)

WaitInv ==
  /\ Now.do \notin {"note", "save", "enter", "await"} => task.awaited = "nothing"
  /\ Now.do \in {"note", "save"} => task.awaited # "nothing"
  /\ task.awaited = "sent" => pending # << >> /\ SentFor(Now, pending[Len(pending)])
  /\ task.awaited \in {"mined", "reverted"} => pending = << >>
  /\ Now.do \in {"note", "save"} /\ task.awaited = "mined" => Count(Now.x) # 0
  /\ Item(Now) /\ Now.do \in {"enter", "await"} /\ Settled => Good(task, Now.x)

Based(file, s) ==
  /\ s.do = "deploy" /\ s.x = "BNFTRegistry" => file.BNFTRegistry # 0
  /\ OfRegistry(s) => file.BNFTRegistry # 0
  /\ s.do = "connect" /\ s.x = 0 => file.BNFTRegistry # 0

NowInv == Based(db, Now) /\ (Item(Now) => task.reg \in Registries)

-----------------------------------------------------------------------------
\* The tasks a property asks about.

\* A token task that began with nothing on its way has nothing but its own.
QuietInv ==
  task.name \in TokenTasks /\ task.quiet =>
    /\ IF task.awaited = "sent" THEN Len(pending) = 1 ELSE pending = << >>
    /\ Item(Now) /\ chain.registries[task.reg].owner = Deployer =>
         task.generic = chain.registries[task.reg].generic

Complete(t, a) == Good(t, a) /\ (t.name \in FilingTasks => db.bound[a] = t.reg)

ToCome(a) == \E s \in Range(task.todo) : Item(s) /\ s.x = a

TokenInv ==
  task.name \in TokenTasks => \A a \in Assets : ToCome(a) \/ (Item(Now) /\ Complete(task, a))

DoneInv ==
  done.name \in TokenTasks =>
    /\ done.reg \in Registries /\ (done.quiet => pending = << >>)
    /\ \A a \in Assets : Complete(done, a)

HandNames == {"BNFTRegistry"} \cup Range(HandOver)

Place(file, n) == IF n = "BNFTRegistry" THEN RegistryAt(file.BNFTRegistry)
                  ELSE Bound(file.bound[n], n)
There(file, n) == IF n = "BNFTRegistry" THEN file.BNFTRegistry # 0 ELSE file.bound[n] # 0

\* Of the first k transactions one sets the claim admin of x, and none before it
\* gives x away.
ClaimPending(txs, x, k) ==
  \E i \in 1..k : /\ txs[i].op = "setClaimAdmin" /\ txs[i].to = x
                  /\ \A j \in 1..i : ~(txs[j].op = "transferOwnership" /\ txs[j].to = x)

GivePending(txs, x) ==
  \E i \in DOMAIN txs : txs[i].op = "transferOwnership" /\ txs[i].to = x

Claimed(s, txs, x, k) == \/ ClaimAdminOf(s, x) = NewOwner
                         \/ OwnerOf(s, x) = Deployer /\ ClaimPending(txs, x, k)

Given(s, txs, x) == \/ OwnerOf(s, x) = NewOwner
                    \/ OwnerOf(s, x) = Deployer /\ GivePending(txs, x)

Left(p, do, n) == \E s \in Range(p) : s.do = do /\ s.x = n

HandingOver == \/ task.name = "transferOwnership" /\ task.quiet
               \/ done.name = "transferOwnership" /\ done.quiet

ClaimedFirst(s, txs) ==
  \A k \in DOMAIN txs : /\ txs[k].op \in OwnerOps
                        /\ txs[k].op = "transferOwnership" => Claimed(s, txs, txs[k].to, k)

HandedSoFar(s, txs, file, p) ==
  \A n \in HandNames :
    /\ \/ Left(p, "setClaimAdmin", n)
       \/ There(file, n) /\ Claimed(s, txs, Place(file, n), Len(txs))
    /\ Left(p, "transferOwnership", n) \/ (There(file, n) /\ Given(s, txs, Place(file, n)))

\* What is given next has its claim admin set or about to be.
ToGive(s, txs, file, step) ==
  step.do = "transferOwnership" =>
    There(file, step.x) /\ Claimed(s, txs, Place(file, step.x), Len(txs))

HandInv ==
  HandingOver => /\ ClaimedFirst(chain, pending)
                 /\ HandedSoFar(chain, pending, db, task.todo)
                 /\ task # Idle => ToGive(chain, pending, db, Now)

HeadInv == task # Idle => WaitInv /\ NowInv /\ QuietInv /\ TokenInv

-----------------------------------------------------------------------------
\* What is known of the chain.

\* An implementation that is as it was made, or the stranger's.
Apart(registry) ==
  \/ registry = Implementation
  \/ /\ registry.owner = Stranger /\ registry.claimAdmin = Stranger
     /\ \A a \in Assets : registry.bnfts[a] # None =>
          registry.bnfts[a].owner = Stranger /\ registry.bnfts[a].claimAdmin = Stranger

Whole(registry) ==
  /\ registry.logic = 0 => registry.admin = 0 /\ Apart(registry)
  /\ registry = Implementation
       \/ (registry.owner \in Owners /\ registry.claimAdmin \in Owners)

ChainInv(s) ==
  s \in Storage /\ \A r \in DOMAIN s.registries : Whole(s.registries[r])

\* Contracts stay where they are, and none becomes the deployer's.
Grows(s, t) ==
  /\ s.admins <= t.admins /\ s.impls <= t.impls
  /\ Len(s.registries) <= Len(t.registries)
  /\ \A r \in DOMAIN s.registries, a \in Assets :
       s.registries[r].bnfts[a] # None => t.registries[r].bnfts[a] # None
  /\ \A r \in DOMAIN s.registries :
       t.registries[r].owner = Deployer => s.registries[r].owner = Deployer

\* What FileNamesContracts says but for the address noted early.
FileInv ==
  /\ db.ProxyAdmin <= chain.admins /\ db.BNFT <= chain.impls
  /\ db.BNFTRegistry <= Len(chain.registries)
  /\ \A a \in Assets :
       db.bound[a] # 0 => /\ db.bound[a] <= Len(chain.registries)
                          /\ chain.registries[db.bound[a]].bnfts[a] # None

IInv == /\ TypeInv /\ ChainInv(chain) /\ TaskInv /\ FileInv /\ PendingInv
        /\ HeadInv /\ DoneInv /\ HandInv

LEMMA Accounts ==
  /\ None \notin BNFT /\ None \notin Owners /\ None \notin Assets
  /\ "BNFTRegistry" \notin Assets /\ Deployer # NewOwner
  /\ Deployer # None /\ NewOwner # None /\ Deployer \in Owners /\ NewOwner \in Owners
  /\ Stranger # None /\ Stranger # Deployer /\ Stranger # NewOwner /\ Stranger \in Owners
BY AssetsTyped, NoneIsNoBNFT DEF Owners

\* A registry is put in the place of one.
LEMMA Put ==
  ASSUME NEW s, ChainInv(s), NEW r \in DOMAIN s.registries, NEW reg \in Registry,
         Whole(reg), reg.owner = Deployer => s.registries[r].owner = Deployer,
         \A a \in Assets : s.registries[r].bnfts[a] # None => reg.bnfts[a] # None
  PROVE  LET t == [s EXCEPT !.registries = [@ EXCEPT ![r] = reg]] IN
         /\ ChainInv(t) /\ Grows(s, t)
         /\ DOMAIN t.registries = DOMAIN s.registries
         /\ t.registries[r] = reg
         /\ \A q \in DOMAIN s.registries : q # r => t.registries[q] = s.registries[q]
         /\ t.admins = s.admins /\ t.impls = s.impls
<1> DEFINE n == [s.registries EXCEPT ![r] = reg]
           t == [s EXCEPT !.registries = n]
<1>1. s \in Storage /\ s.registries \in Seq(Registry) BY DEF ChainInv, Storage
<1>2. /\ n \in Seq(Registry) /\ Len(n) = Len(s.registries)
      /\ DOMAIN n = DOMAIN s.registries
      /\ n[r] = reg /\ \A q \in DOMAIN s.registries : q # r => n[q] = s.registries[q]
  BY <1>1, ExceptSeq
<1> HIDE DEF n
<1>3. t \in Storage /\ t.registries = n /\ t.admins = s.admins /\ t.impls = s.impls
  BY <1>1, <1>2 DEF Storage
<1> HIDE DEF t
<1>4. ChainInv(t) BY <1>2, <1>3 DEF ChainInv
<1>5. Grows(s, t)
  <2>1. s.admins <= t.admins /\ s.impls <= t.impls /\ Len(s.registries) <= Len(t.registries)
    BY <1>1, <1>2, <1>3 DEF Storage
  <2>2. ASSUME NEW q \in DOMAIN s.registries, NEW a \in Assets,
               s.registries[q].bnfts[a] # None
        PROVE  t.registries[q].bnfts[a] # None
    BY <1>2, <1>3, <2>2
  <2>3. ASSUME NEW q \in DOMAIN s.registries, t.registries[q].owner = Deployer
        PROVE  s.registries[q].owner = Deployer
    BY <1>2, <1>3, <2>3
  <2> QED BY <2>1, <2>2, <2>3 DEF Grows
<1> QED BY <1>2, <1>3, <1>4, <1>5 DEF t, n

\* A registry is added to those there are.
LEMMA Added ==
  ASSUME NEW s, ChainInv(s), NEW reg \in Registry, Whole(reg)
  PROVE  LET t == [s EXCEPT !.registries = Append(@, reg)] IN
         /\ ChainInv(t) /\ Grows(s, t)
         /\ Len(t.registries) = Len(s.registries) + 1
         /\ \A q \in DOMAIN s.registries : t.registries[q] = s.registries[q]
         /\ t.admins = s.admins /\ t.impls = s.impls
<1> DEFINE n == Append(s.registries, reg)
           t == [s EXCEPT !.registries = n]
<1>1. s \in Storage /\ s.registries \in Seq(Registry) BY DEF ChainInv, Storage
<1>2. /\ n \in Seq(Registry) /\ Len(n) = Len(s.registries) + 1
      /\ n[Len(s.registries) + 1] = reg
      /\ \A q \in 1..Len(s.registries) : n[q] = s.registries[q]
  BY <1>1, AppendProperties
<1>3. DOMAIN n = 1..(Len(s.registries) + 1) /\ DOMAIN s.registries = 1..Len(s.registries)
      /\ Len(s.registries) \in Nat
  BY <1>1, <1>2
<1> HIDE DEF n
<1>4. t \in Storage /\ t.registries = n /\ t.admins = s.admins /\ t.impls = s.impls
  BY <1>1, <1>2 DEF Storage
<1> HIDE DEF t
<1>5. ChainInv(t)
  <2>1. ASSUME NEW q \in DOMAIN n
        PROVE  q \in DOMAIN s.registries \/ q = Len(s.registries) + 1
    BY <1>3
  <2> QED BY <1>2, <1>3, <1>4, <2>1 DEF ChainInv
<1>6. Grows(s, t)
  <2>1. s.admins <= t.admins /\ s.impls <= t.impls /\ Len(s.registries) <= Len(t.registries)
    BY <1>1, <1>2, <1>3, <1>4 DEF Storage
  <2>2. ASSUME NEW q \in DOMAIN s.registries, NEW a \in Assets,
               s.registries[q].bnfts[a] # None
        PROVE  t.registries[q].bnfts[a] # None
    BY <1>2, <1>3, <1>4, <2>2
  <2>3. ASSUME NEW q \in DOMAIN s.registries, t.registries[q].owner = Deployer
        PROVE  s.registries[q].owner = Deployer
    BY <1>2, <1>3, <1>4, <2>3
  <2> QED BY <2>1, <2>2, <2>3 DEF Grows
<1> QED BY <1>2, <1>3, <1>4, <1>5, <1>6 DEF t, n

LEMMA ImplementationIs ==
  /\ Implementation \in Registry /\ Implementation.logic = 0 /\ Implementation.admin = 0
  /\ Implementation.generic = 0 /\ Implementation.owner = None
  /\ \A a \in Assets : Implementation.bnfts[a] = None
BY DEF Implementation, Registry

\* What the chain keeps when the rest of a step is another one's business.
Same(s, t) == /\ DOMAIN t.registries = DOMAIN s.registries
              /\ t.admins = s.admins /\ t.impls = s.impls

LEMMA RegistryTyped ==
  ASSUME NEW s, ChainInv(s), NEW r \in DOMAIN s.registries
  PROVE  LET reg == s.registries[r] IN
         /\ reg \in Registry /\ reg.logic \in Nat /\ reg.generic \in Nat /\ reg.admin \in Nat
         /\ reg.bnfts \in [Assets -> BNFT \cup {None}]
         /\ (reg.logic # 0 \/ reg.generic # 0 \/ \E a \in Assets : reg.bnfts[a] # None)
              => reg.owner \in Owners
         /\ reg.owner # None => reg.owner \in Owners /\ reg.claimAdmin \in Owners
         /\ reg.logic = 0 =>
              /\ reg.admin = 0
              /\ reg.owner # None => reg.owner = Stranger /\ reg.claimAdmin = Stranger
              /\ \A a \in Assets : reg.bnfts[a] # None =>
                   /\ reg.bnfts[a].owner = Stranger
                   /\ reg.bnfts[a].claimAdmin = Stranger
<1> DEFINE reg == s.registries[r]
<1>1. s.registries \in Seq(Registry) BY DEF ChainInv, Storage
<1>2. reg \in Registry BY <1>1
<1>3. Whole(reg) BY DEF ChainInv
<1> HIDE DEF reg
<1>4. /\ reg.logic \in Nat /\ reg.generic \in Nat /\ reg.admin \in Nat
      /\ reg.bnfts \in [Assets -> BNFT \cup {None}]
  BY <1>2 DEF Registry
<1>5. CASE reg = Implementation
  BY <1>2, <1>4, <1>5, ImplementationIs DEF reg
<1>6. CASE reg # Implementation
  <2>1. reg.owner \in Owners /\ reg.claimAdmin \in Owners BY <1>3, <1>6 DEF Whole
  <2>2. reg.logic = 0 => /\ reg.admin = 0 /\ reg.owner = Stranger /\ reg.claimAdmin = Stranger
                        /\ \A a \in Assets : reg.bnfts[a] # None =>
                             /\ reg.bnfts[a].owner = Stranger
                             /\ reg.bnfts[a].claimAdmin = Stranger
    BY <1>3, <1>6 DEF Whole, Apart
  <2> QED BY <1>2, <1>4, <2>1, <2>2 DEF reg
<1> QED BY <1>5, <1>6

\* A bNFT is put in its place of a registry.
LEMMA PutBNFT ==
  ASSUME NEW s, ChainInv(s), NEW r \in DOMAIN s.registries, NEW a \in Assets, NEW b \in BNFT,
         s.registries[r].owner # None,
         s.registries[r].logic = 0 => b.owner = Stranger /\ b.claimAdmin = Stranger
  PROVE  LET t == [s EXCEPT !.registries[r].bnfts[a] = b] IN
         /\ ChainInv(t) /\ Grows(s, t) /\ Same(s, t)
         /\ \A q \in DOMAIN s.registries :
              /\ t.registries[q].generic = s.registries[q].generic
              /\ t.registries[q].owner = s.registries[q].owner
              /\ t.registries[q].claimAdmin = s.registries[q].claimAdmin
              /\ \A c \in Assets : t.registries[q].bnfts[c] =
                   IF q = r /\ c = a THEN b ELSE s.registries[q].bnfts[c]
<1> DEFINE old == s.registries[r]
           reg == [old EXCEPT !.bnfts = [@ EXCEPT ![a] = b]]
           t == [s EXCEPT !.registries = [@ EXCEPT ![r] = reg]]
<1>1. /\ old \in Registry /\ old.bnfts \in [Assets -> BNFT \cup {None}]
      /\ old.owner \in Owners /\ old.claimAdmin \in Owners
      /\ old.logic = 0 => /\ old.admin = 0 /\ old.owner = Stranger /\ old.claimAdmin = Stranger
                         /\ \A c \in Assets : old.bnfts[c] # None =>
                              old.bnfts[c].owner = Stranger /\ old.bnfts[c].claimAdmin = Stranger
  BY RegistryTyped
<1>2. [s EXCEPT !.registries[r].bnfts[a] = b] = t
  OBVIOUS
<1>3. /\ reg \in Registry /\ reg.logic = old.logic /\ reg.owner = old.owner
      /\ reg.claimAdmin = old.claimAdmin /\ reg.generic = old.generic
      /\ reg.admin = old.admin
      /\ \A c \in Assets : reg.bnfts[c] = IF c = a THEN b ELSE old.bnfts[c]
  BY <1>1 DEF Registry
<1> HIDE DEF reg
<1>4. /\ Whole(reg)
      /\ \A c \in Assets : old.bnfts[c] # None => reg.bnfts[c] # None
  <2>1. ASSUME reg.logic = 0, NEW c \in Assets, reg.bnfts[c] # None
        PROVE  reg.bnfts[c].owner = Stranger /\ reg.bnfts[c].claimAdmin = Stranger
    BY <1>1, <1>3, <2>1
  <2>2. \A c \in Assets : old.bnfts[c] # None => reg.bnfts[c] # None BY <1>3, Accounts
  <2> QED BY <1>1, <1>3, <2>1, <2>2 DEF Whole, Apart
<1>5. /\ ChainInv(t) /\ Grows(s, t)
      /\ DOMAIN t.registries = DOMAIN s.registries
      /\ t.registries[r] = reg
      /\ \A q \in DOMAIN s.registries : q # r => t.registries[q] = s.registries[q]
      /\ t.admins = s.admins /\ t.impls = s.impls
  BY <1>3, <1>4, Put
<1> HIDE DEF t
<1>6. Same(s, t) BY <1>5 DEF Same
<1>7. ASSUME NEW q \in DOMAIN s.registries
      PROVE  /\ t.registries[q].generic = s.registries[q].generic
             /\ t.registries[q].owner = s.registries[q].owner
             /\ t.registries[q].claimAdmin = s.registries[q].claimAdmin
             /\ \A c \in Assets : t.registries[q].bnfts[c] =
                  IF q = r /\ c = a THEN b ELSE s.registries[q].bnfts[c]
  <2>1. CASE q = r BY <2>1, <1>3, <1>5
  <2>2. CASE q # r BY <2>2, <1>5
  <2> QED BY <2>1, <2>2
<1> QED BY <1>2, <1>5, <1>6, <1>7

LEMMA CreateOK ==
  ASSUME NEW s, ChainInv(s), NEW r \in DOMAIN s.registries, NEW a \in Assets, MayCreate(s, r, a)
  PROVE  LET t == Create(s, r, a) IN
         /\ ChainInv(t) /\ Grows(s, t) /\ Same(s, t)
         /\ \A q \in DOMAIN s.registries :
              /\ t.registries[q].generic = s.registries[q].generic
              /\ t.registries[q].owner = s.registries[q].owner
              /\ t.registries[q].claimAdmin = s.registries[q].claimAdmin
              /\ \A c \in Assets : ~(q = r /\ c = a) =>
                   t.registries[q].bnfts[c] = s.registries[q].bnfts[c]
         /\ t.registries[r].bnfts[a] # None
         /\ t.registries[r].bnfts[a].impl = s.registries[r].generic
<1> DEFINE reg == s.registries[r]
           b == [impl |-> reg.generic, owner |-> reg.owner, claimAdmin |-> reg.claimAdmin]
<1>1. /\ reg.generic \in Nat /\ reg.owner \in Owners /\ reg.claimAdmin \in Owners
      /\ reg.owner # None
      /\ reg.logic = 0 => reg.owner = Stranger /\ reg.claimAdmin = Stranger
  BY RegistryTyped, Accounts DEF MayCreate
<1>2. /\ b \in BNFT /\ b.impl = reg.generic
      /\ b.owner = reg.owner /\ b.claimAdmin = reg.claimAdmin
  BY <1>1 DEF BNFT
<1>3. Create(s, r, a) = [s EXCEPT !.registries[r].bnfts[a] = b] BY DEF Create
<1>4. b # None BY <1>2, Accounts
<1> HIDE DEF b
<1> QED BY <1>1, <1>2, <1>3, <1>4, PutBNFT

LEMMA GrowsRefl == ASSUME NEW s, ChainInv(s) PROVE Grows(s, s)
<1>1. s.admins \in Nat /\ s.impls \in Nat /\ s.registries \in Seq(Registry)
  BY DEF ChainInv, Storage
<1>2. Len(s.registries) \in Nat BY <1>1
<1> QED BY <1>1, <1>2 DEF Grows

\* A transaction about one bNFT: what it does if it goes through.
LEMMA ApplyBNFT ==
  ASSUME NEW s, ChainInv(s), NEW tx \in Txs, Sound(s, tx), tx.op \in BNFTOps
  PROVE  LET t == Apply(s, tx)  r == tx.to[2]  a == tx.to[3] IN
         /\ ChainInv(t) /\ Grows(s, t)
         /\ \A q \in DOMAIN s.registries : t.registries[q].generic = s.registries[q].generic
         /\ \A c \in Assets : c # a => t.registries[r].bnfts[c] = s.registries[r].bnfts[c]
         /\ ~Accepts(s, tx) => t = s
         /\ Accepts(s, tx) =>
              /\ t.registries[r].bnfts[a] # None
              /\ tx.op = "createBNFT" => t.registries[r].bnfts[a].impl = s.registries[r].generic
              /\ tx.op = "upgradeBNFTWithImpl" => t.registries[r].bnfts[a].impl = tx.impl
<1> DEFINE t == Apply(s, tx)
           r == tx.to[2]
           a == tx.to[3]
<1>1. r \in DOMAIN s.registries /\ a \in Assets BY DEF Sound, BNFTOps
<1>2. CASE ~Accepts(s, tx)
  <2>1. t = s BY <1>2 DEF Apply
  <2>2. Grows(s, s) BY GrowsRefl
  <2> QED BY <1>2, <2>1, <2>2
<1>3. CASE Accepts(s, tx) /\ tx.op = "createBNFT"
  <2>1. t = Create(s, r, a) BY <1>3 DEF Apply, Effect
  <2>2. MayCreate(s, r, a) BY <1>3 DEF Accepts, Kinds
  <2> HIDE DEF t, r, a
  <2>3. /\ ChainInv(t) /\ Grows(s, t)
        /\ \A q \in DOMAIN s.registries : t.registries[q].generic = s.registries[q].generic
        /\ \A c \in Assets : c # a => t.registries[r].bnfts[c] = s.registries[r].bnfts[c]
        /\ t.registries[r].bnfts[a] # None
        /\ t.registries[r].bnfts[a].impl = s.registries[r].generic
    BY <1>1, <2>1, <2>2, CreateOK
  <2> QED BY <1>3, <2>3 DEF t, r, a
<1>4. CASE Accepts(s, tx) /\ tx.op = "upgradeBNFTWithImpl"
  <2> DEFINE old == s.registries[r].bnfts[a]
             b == [old EXCEPT !.impl = tx.impl]
  <2>1. t = [s EXCEPT !.registries[r].bnfts[a].impl = tx.impl] BY <1>4 DEF Apply, Effect
  <2>2. s.registries[r].owner = Deployer /\ old # None
    BY <1>4 DEF Accepts, Kinds
  <2>3. s.registries[r].logic # 0 /\ old \in BNFT /\ s.registries[r].owner # None
    BY <1>1, <2>2, RegistryTyped, Accounts
  <2>4. b \in BNFT /\ b.impl = tx.impl /\ b # None
    BY <2>3, Accounts DEF BNFT, Txs
  <2>5. /\ t = [s EXCEPT !.registries[r].bnfts[a] = b]
        /\ s.registries[r].logic = 0 => b.owner = Stranger /\ b.claimAdmin = Stranger
    BY <2>1, <2>3
  <2> HIDE DEF t, b, old, r, a
  <2>6. /\ ChainInv(t) /\ Grows(s, t)
        /\ \A q \in DOMAIN s.registries :
             /\ t.registries[q].generic = s.registries[q].generic
             /\ \A c \in Assets : t.registries[q].bnfts[c] =
                  IF q = r /\ c = a THEN b ELSE s.registries[q].bnfts[c]
    BY <1>1, <2>3, <2>4, <2>5, PutBNFT
  <2>7. t.registries[r].bnfts[a] = b BY <1>1, <2>6
  <2>8. \A c \in Assets : c # a => t.registries[r].bnfts[c] = s.registries[r].bnfts[c]
    BY <1>1, <2>6
  <2> QED BY <1>4, <2>4, <2>6, <2>7, <2>8 DEF t, r, a
<1> QED BY <1>2, <1>3, <1>4 DEF BNFTOps

\* The number of contracts of a kind that a state has.
CountIn(s, kind) == CASE kind = "ProxyAdmin" -> s.admins [] kind = "BNFT" -> s.impls
                      [] OTHER -> Len(s.registries)

\* The deployment of a contract.
LEMMA ApplyKind ==
  ASSUME NEW s, ChainInv(s), NEW tx \in Txs, Sound(s, tx), tx.op \in Kinds
  PROVE  LET t == Apply(s, tx) IN
         /\ ChainInv(t) /\ Grows(s, t) /\ CountIn(t, tx.op) # 0
         /\ tx.op \in {"BNFTRegistryImpl", "BNFTRegistry"} =>
              Len(t.registries) = Len(s.registries) + 1
<1> DEFINE t == Apply(s, tx)
<1>1. t = Effect(s, tx) BY DEF Apply, Accepts
<1>2. s \in Storage /\ s.admins \in Nat /\ s.impls \in Nat /\ s.registries \in Seq(Registry)
      /\ Len(s.registries) \in Nat
  BY DEF ChainInv, Storage
<1>3. CASE tx.op = "ProxyAdmin"
  <2>1. t = [s EXCEPT !.admins = @ + 1] BY <1>1, <1>3 DEF Effect
  <2> HIDE DEF t
  <2>2. t \in Storage /\ t.admins = s.admins + 1 /\ t.impls = s.impls
        /\ t.registries = s.registries
    BY <1>2, <2>1 DEF Storage
  <2>3. ChainInv(t) BY <2>2 DEF ChainInv
  <2>4. Grows(s, t) BY <1>2, <2>2 DEF Grows
  <2> QED BY <1>2, <1>3, <2>2, <2>3, <2>4 DEF CountIn, t
<1>4. CASE tx.op = "BNFT"
  <2>1. t = [s EXCEPT !.impls = @ + 1] BY <1>1, <1>4 DEF Effect
  <2> HIDE DEF t
  <2>2. t \in Storage /\ t.admins = s.admins /\ t.impls = s.impls + 1
        /\ t.registries = s.registries
    BY <1>2, <2>1 DEF Storage
  <2>3. ChainInv(t) BY <2>2 DEF ChainInv
  <2>4. Grows(s, t) BY <1>2, <2>2 DEF Grows
  <2> QED BY <1>2, <1>4, <2>2, <2>3, <2>4 DEF CountIn, t
<1>5. CASE tx.op = "BNFTRegistryImpl"
  <2>1. t = [s EXCEPT !.registries = Append(@, Implementation)] BY <1>1, <1>5 DEF Effect
  <2> HIDE DEF t
  <2>2. Whole(Implementation) BY ImplementationIs DEF Whole, Apart
  <2>3. ChainInv(t) /\ Grows(s, t) /\ Len(t.registries) = Len(s.registries) + 1
    BY <2>1, <2>2, Added, ImplementationIs
  <2> QED BY <1>2, <1>5, <2>3 DEF CountIn, t
<1>6. CASE tx.op = "BNFTRegistry"
  <2> DEFINE p == Proxy(tx)
  <2>1. t = [s EXCEPT !.registries = Append(@, p)] BY <1>1, <1>6 DEF Effect
  <2>2. tx.to[2] \in Nat \ {0} /\ tx.admin \in Nat /\ tx.impl \in Nat
    BY <1>6 DEF Sound, Txs
  <2>3. p \in Registry /\ p.logic = tx.to[2] /\ p.owner = Deployer /\ p.claimAdmin = Deployer
    BY <2>2, ImplementationIs, Accounts DEF Proxy, Registry
  <2> HIDE DEF t, p
  <2>4. Whole(p) BY <2>2, <2>3, Accounts DEF Whole
  <2>5. ChainInv(t) /\ Grows(s, t) /\ Len(t.registries) = Len(s.registries) + 1
    BY <2>1, <2>3, <2>4, Added
  <2> QED BY <1>2, <1>6, <2>5 DEF CountIn, t
<1> QED BY <1>3, <1>4, <1>5, <1>6 DEF Kinds

\* A call of a registry or of the admin of its proxy.
LEMMA ApplyRegistry ==
  ASSUME NEW s, ChainInv(s), NEW tx \in Txs, Sound(s, tx), tx.op \in RegistryOps
  PROVE  ChainInv(Apply(s, tx)) /\ Grows(s, Apply(s, tx))
<1> DEFINE t == Apply(s, tx)
           r == tx.to[2]
           old == s.registries[r]
<1>1. r \in DOMAIN s.registries /\ tx.to[1] = "BNFTRegistry" /\ tx.impl \in Nat
  BY DEF Sound, Txs
<1>2. /\ old \in Registry /\ old.bnfts \in [Assets -> BNFT \cup {None}] /\ old.generic \in Nat
      /\ old.owner # None => old.owner \in Owners /\ old.claimAdmin \in Owners
      /\ old.logic # 0 => old.owner # None
      /\ old.logic = 0 => old.admin = 0 /\ old.owner # Deployer
  BY <1>1, RegistryTyped, Accounts
<1>3. CASE ~Accepts(s, tx)
  BY <1>3, GrowsRefl DEF Apply
<1>4. CASE Accepts(s, tx) /\ tx.op = "upgrade"
  <2> DEFINE reg == [old EXCEPT !.logic = tx.impl]
  <2>1. t = [s EXCEPT !.registries = [@ EXCEPT ![r] = reg]]
    BY <1>4 DEF Apply, Effect
  <2>2. tx.impl # 0 /\ tx.admin # 0 /\ old.admin = tx.admin
    BY <1>4 DEF Accepts, Sound, Kinds
  <2> HIDE DEF old
  <2>3. /\ reg \in Registry /\ reg.logic = tx.impl /\ reg.owner = old.owner
        /\ reg.claimAdmin = old.claimAdmin /\ reg.bnfts = old.bnfts
    BY <1>1, <1>2 DEF Registry
  <2>4. Whole(reg) BY <1>2, <2>2, <2>3 DEF Whole
  <2> HIDE DEF reg, t
  <2> QED BY <1>1, <2>1, <2>2, <2>3, <2>4, Put DEF t, old
<1>5. CASE Accepts(s, tx) /\ tx.op = "setBNFTGenericImpl"
  <2> DEFINE reg == [old EXCEPT !.generic = tx.impl]
  <2>1. t = [s EXCEPT !.registries = [@ EXCEPT ![r] = reg]]
    BY <1>5 DEF Apply, Effect
  <2>2. old.owner = Deployer
    BY <1>1, <1>5 DEF Accepts, OwnerOf, Kinds
  <2> HIDE DEF old
  <2>3. /\ reg \in Registry /\ reg.logic = old.logic /\ reg.owner = old.owner
        /\ reg.claimAdmin = old.claimAdmin /\ reg.bnfts = old.bnfts
    BY <1>1, <1>2 DEF Registry
  <2>4. Whole(reg) BY <1>2, <2>2, <2>3, Accounts DEF Whole
  <2> HIDE DEF reg, t
  <2> QED BY <1>1, <2>1, <2>3, <2>4, Put DEF t, old
<1>6. CASE Accepts(s, tx) /\ tx.op = "batchUpgradeAllBNFT"
  <2> DEFINE up(b) == IF b = None THEN None ELSE [b EXCEPT !.impl = old.generic]
             bs == [a \in Assets |-> up(old.bnfts[a])]
             reg == [old EXCEPT !.bnfts = bs]
  <2>1. t = [s EXCEPT !.registries = [@ EXCEPT ![r] = reg]]
    BY <1>6 DEF Apply, Effect, UpgradeAll
  <2>2. old.owner = Deployer
    BY <1>1, <1>6 DEF Accepts, OwnerOf, Kinds
  <2> HIDE DEF old
  <2>3. ASSUME NEW a \in Assets
        PROVE  bs[a] \in BNFT \cup {None} /\ (old.bnfts[a] # None => bs[a] # None)
    <3>1. CASE old.bnfts[a] = None BY <3>1
    <3>2. CASE old.bnfts[a] # None
      <4>1. old.bnfts[a] \in BNFT BY <1>2, <3>2
      <4>2. up(old.bnfts[a]) \in BNFT BY <1>2, <3>2, <4>1 DEF BNFT
      <4> QED BY <4>2, Accounts
    <3> QED BY <3>1, <3>2
  <2>4. bs \in [Assets -> BNFT \cup {None}] BY <2>3
  <2> HIDE DEF bs
  <2>5. /\ reg \in Registry /\ reg.logic = old.logic /\ reg.owner = old.owner
        /\ reg.claimAdmin = old.claimAdmin /\ reg.bnfts = bs
    BY <1>2, <2>4 DEF Registry
  <2>6. Whole(reg) BY <1>2, <2>2, <2>5, Accounts DEF Whole
  <2> HIDE DEF reg, t
  <2> QED BY <1>1, <2>1, <2>3, <2>5, <2>6, Put DEF t, old
<1> QED BY <1>3, <1>4, <1>5, <1>6 DEF RegistryOps

LEMMA GrowsKeeps ==
  ASSUME NEW s, NEW t, ChainInv(s), ChainInv(t), Grows(s, t)
  PROVE  /\ DOMAIN s.registries \subseteq DOMAIN t.registries
         /\ \A x : Exists(s, x) => Exists(t, x)
         /\ \A tx : Sound(s, tx) => Sound(t, tx)
<1>1. s.registries \in Seq(Registry) /\ t.registries \in Seq(Registry)
      /\ Len(s.registries) <= Len(t.registries)
  BY DEF ChainInv, Storage, Grows
<1>2. DOMAIN s.registries \subseteq DOMAIN t.registries BY <1>1
<1>3. ASSUME NEW x, Exists(s, x) PROVE Exists(t, x)
  <2>1. CASE x \in {"BNFTRegistry"} \X (DOMAIN s.registries)
    BY <1>2, <2>1 DEF Exists
  <2>2. CASE /\ x \in {"BNFT"} \X (DOMAIN s.registries) \X Assets
             /\ s.registries[x[2]].bnfts[x[3]] # None
    <3>1. x[2] \in DOMAIN s.registries /\ x[3] \in Assets
          /\ x \in {"BNFT"} \X (DOMAIN t.registries) \X Assets
      BY <1>2, <2>2
    <3>2. t.registries[x[2]].bnfts[x[3]] # None BY <2>2, <3>1 DEF Grows
    <3> QED BY <3>1, <3>2 DEF Exists
  <2> QED BY <1>3, <2>1, <2>2 DEF Exists
<1>4. ASSUME NEW tx, Sound(s, tx) PROVE Sound(t, tx)
  BY <1>2, <1>3, <1>4 DEF Sound
<1> QED BY <1>2, <1>3, <1>4

\* A contract that is there is the registry or the bNFT of its address.
LEMMA ExistsIs ==
  ASSUME NEW s, ChainInv(s), NEW x, Exists(s, x)
  PROVE  \/ /\ x = RegistryAt(x[2]) /\ x[1] = "BNFTRegistry" /\ x[2] \in DOMAIN s.registries
            /\ OwnerOf(s, x) = s.registries[x[2]].owner
            /\ ClaimAdminOf(s, x) = s.registries[x[2]].claimAdmin
         \/ /\ x = Bound(x[2], x[3]) /\ x[1] = "BNFT" /\ x[2] \in DOMAIN s.registries
            /\ x[3] \in Assets
            /\ s.registries[x[2]].bnfts[x[3]] \in BNFT /\ s.registries[x[2]].bnfts[x[3]] # None
            /\ s.registries[x[2]].owner # None
            /\ s.registries[x[2]].logic = 0 => OwnerOf(s, x) = Stranger
            /\ OwnerOf(s, x) = s.registries[x[2]].bnfts[x[3]].owner
            /\ ClaimAdminOf(s, x) = s.registries[x[2]].bnfts[x[3]].claimAdmin
<1>1. CASE x \in {"BNFTRegistry"} \X (DOMAIN s.registries)
  BY <1>1 DEF RegistryAt, OwnerOf, ClaimAdminOf
<1>2. CASE /\ x \in {"BNFT"} \X (DOMAIN s.registries) \X Assets
           /\ s.registries[x[2]].bnfts[x[3]] # None
  <2>1. /\ x = Bound(x[2], x[3]) /\ x[1] = "BNFT" /\ x[2] \in DOMAIN s.registries
        /\ x[3] \in Assets /\ x[1] # "BNFTRegistry"
    BY <1>2 DEF Bound
  <2>2. /\ s.registries[x[2]].bnfts[x[3]] \in BNFT /\ s.registries[x[2]].owner # None
        /\ s.registries[x[2]].logic = 0 => s.registries[x[2]].bnfts[x[3]].owner = Stranger
    BY <1>2, <2>1, RegistryTyped, Accounts
  <2> QED BY <1>2, <2>1, <2>2 DEF OwnerOf, ClaimAdminOf
<1> QED BY <1>1, <1>2 DEF Exists

\* A call of the owner changes what it is for of the contract it is for.
LEMMA ApplyOwner ==
  ASSUME NEW s, ChainInv(s), NEW tx \in Txs, Sound(s, tx), tx.op \in OwnerOps
  PROVE  LET t == Apply(s, tx) IN
         /\ ChainInv(t) /\ Grows(s, t)
         /\ Accepts(s, tx) <=> OwnerOf(s, tx.to) = Deployer
         /\ \A y : Exists(s, y) =>
              /\ OwnerOf(t, y) = IF /\ OwnerOf(s, tx.to) = Deployer /\ y = tx.to
                                    /\ tx.op = "transferOwnership"
                                 THEN NewOwner ELSE OwnerOf(s, y)
              /\ ClaimAdminOf(t, y) = IF /\ OwnerOf(s, tx.to) = Deployer /\ y = tx.to
                                         /\ tx.op = "setClaimAdmin"
                                      THEN NewOwner ELSE ClaimAdminOf(s, y)
<1> DEFINE t == Apply(s, tx)
           x == tx.to
           r == x[2]
           a == x[3]
           old == s.registries[r]
<1>1. Accepts(s, tx) <=> OwnerOf(s, x) = Deployer
  BY DEF Accepts, OwnerOps, Kinds
<1>2. Exists(s, x) BY DEF Sound
<1>3. CASE ~Accepts(s, tx)
  <2>1. t = s BY <1>3 DEF Apply
  <2> QED BY <1>1, <1>3, <2>1, GrowsRefl
<1>4. CASE Accepts(s, tx) /\ x[1] = "BNFTRegistry"
  <2>1. x = RegistryAt(r) /\ r \in DOMAIN s.registries
        /\ OwnerOf(s, x) = old.owner /\ ClaimAdminOf(s, x) = old.claimAdmin
    BY <1>2, <1>4, ExistsIs
  <2>2. old \in Registry /\ (old.logic = 0 => old.owner # Deployer)
        /\ (old.owner # None => old.owner \in Owners /\ old.claimAdmin \in Owners)
    BY <2>1, RegistryTyped, Accounts
  <2>3. old.logic # 0 /\ old.owner = Deployer BY <1>1, <1>4, <2>1, <2>2, Accounts
  <2> DEFINE reg == IF tx.op = "setClaimAdmin" THEN [old EXCEPT !.claimAdmin = NewOwner]
                    ELSE [old EXCEPT !.owner = NewOwner]
  <2>4. t = [s EXCEPT !.registries = [@ EXCEPT ![r] = reg]]
    <3>1. CASE tx.op = "setClaimAdmin"
      BY <1>4, <3>1 DEF Apply, Effect, SetClaimAdmin
    <3>2. CASE tx.op = "transferOwnership"
      BY <1>4, <3>2 DEF Apply, Effect, Give
    <3> QED BY <3>1, <3>2 DEF OwnerOps
  <2> HIDE DEF old
  <2>5. /\ reg \in Registry /\ reg.logic = old.logic /\ reg.bnfts = old.bnfts
        /\ reg.owner = (IF tx.op = "transferOwnership" THEN NewOwner ELSE old.owner)
        /\ reg.claimAdmin = (IF tx.op = "setClaimAdmin" THEN NewOwner ELSE old.claimAdmin)
    BY <2>2, Accounts DEF Registry, OwnerOps
  <2>6. Whole(reg) /\ (reg.owner = Deployer => old.owner = Deployer)
    BY <2>2, <2>3, <2>5, Accounts DEF Whole
  <2> HIDE DEF reg, t
  <2>7. /\ ChainInv(t) /\ Grows(s, t) /\ t.registries[r] = reg
        /\ \A q \in DOMAIN s.registries : q # r => t.registries[q] = s.registries[q]
    BY <2>1, <2>4, <2>5, <2>6, Put DEF old
  <2>8. ASSUME NEW y, Exists(s, y)
        PROVE  /\ OwnerOf(t, y) = IF y = x /\ tx.op = "transferOwnership"
                                  THEN NewOwner ELSE OwnerOf(s, y)
               /\ ClaimAdminOf(t, y) = IF y = x /\ tx.op = "setClaimAdmin"
                                       THEN NewOwner ELSE ClaimAdminOf(s, y)
    <3>1. CASE y[1] = "BNFTRegistry"
      <4>1. y = RegistryAt(y[2]) /\ y[2] \in DOMAIN s.registries BY <2>8, <3>1, ExistsIs
      <4>2. y = x <=> y[2] = r BY <2>1, <4>1 DEF RegistryAt
      <4>3. /\ OwnerOf(t, y) = t.registries[y[2]].owner
            /\ OwnerOf(s, y) = s.registries[y[2]].owner
            /\ ClaimAdminOf(t, y) = t.registries[y[2]].claimAdmin
            /\ ClaimAdminOf(s, y) = s.registries[y[2]].claimAdmin
        BY <3>1 DEF OwnerOf, ClaimAdminOf
      <4>4. CASE y[2] = r BY <4>2, <4>3, <4>4, <2>5, <2>7 DEF old
      <4>5. CASE y[2] # r BY <4>1, <4>2, <4>3, <4>5, <2>7
      <4> QED BY <4>4, <4>5
    <3>2. CASE y[1] # "BNFTRegistry"
      <4>1. y # x /\ y[2] \in DOMAIN s.registries BY <1>4, <2>8, <3>2, ExistsIs
      <4>2. t.registries[y[2]].bnfts = s.registries[y[2]].bnfts
        BY <4>1, <2>5, <2>7 DEF old
      <4> QED BY <3>2, <4>1, <4>2 DEF OwnerOf, ClaimAdminOf
    <3> QED BY <3>1, <3>2
  <2> QED BY <1>1, <1>4, <2>7, <2>8 DEF t
<1>5. CASE Accepts(s, tx) /\ x[1] # "BNFTRegistry"
  <2>1. /\ x = Bound(r, a) /\ r \in DOMAIN s.registries /\ a \in Assets /\ x[1] = "BNFT"
        /\ old.bnfts[a] \in BNFT /\ old.bnfts[a] # None /\ old.logic # 0 /\ old.owner # None
        /\ OwnerOf(s, x) = old.bnfts[a].owner /\ ClaimAdminOf(s, x) = old.bnfts[a].claimAdmin
    BY <1>1, <1>2, <1>5, ExistsIs, Accounts
  <2> DEFINE was == old.bnfts[a]
             b == IF tx.op = "setClaimAdmin" THEN [was EXCEPT !.claimAdmin = NewOwner]
                  ELSE [was EXCEPT !.owner = NewOwner]
  <2>2. t = [s EXCEPT !.registries[r].bnfts[a] = b]
    <3>1. CASE tx.op = "setClaimAdmin"
      BY <1>5, <3>1 DEF Apply, Effect, SetClaimAdmin
    <3>2. CASE tx.op = "transferOwnership"
      BY <1>5, <3>2 DEF Apply, Effect, Give
    <3> QED BY <3>1, <3>2 DEF OwnerOps
  <2> HIDE DEF was
  <2>3. /\ b \in BNFT
        /\ b.owner = (IF tx.op = "transferOwnership" THEN NewOwner ELSE was.owner)
        /\ b.claimAdmin = (IF tx.op = "setClaimAdmin" THEN NewOwner ELSE was.claimAdmin)
    <3>1. was \in BNFT /\ (tx.op = "setClaimAdmin" \/ tx.op = "transferOwnership")
      BY <2>1 DEF OwnerOps, was
    <3>2. CASE tx.op = "setClaimAdmin"
      <4>1. b = [was EXCEPT !.claimAdmin = NewOwner] BY <3>2
      <4> HIDE DEF b, t
      <4> QED BY <3>1, <3>2, <4>1, Accounts DEF BNFT
    <3>3. CASE tx.op = "transferOwnership"
      <4>1. b = [was EXCEPT !.owner = NewOwner] BY <3>3
      <4> HIDE DEF b, t
      <4> QED BY <3>1, <3>3, <4>1, Accounts DEF BNFT
    <3> QED BY <3>1, <3>2, <3>3
  <2> HIDE DEF b, t
  <2>4. /\ ChainInv(t) /\ Grows(s, t)
        /\ \A q \in DOMAIN s.registries :
             /\ t.registries[q].owner = s.registries[q].owner
             /\ t.registries[q].claimAdmin = s.registries[q].claimAdmin
             /\ \A c \in Assets : t.registries[q].bnfts[c] =
                  IF q = r /\ c = a THEN b ELSE s.registries[q].bnfts[c]
    <3>1. r \in DOMAIN s.registries /\ a \in Assets /\ b \in BNFT BY <2>1, <2>3
    <3>2. s.registries[r].owner # None BY <2>1
    <3>3. s.registries[r].logic = 0 => b.owner = Stranger /\ b.claimAdmin = Stranger
      BY <2>1
    <3> HIDE DEF r, a, old, x
    <3>4. LET u == [s EXCEPT !.registries[r].bnfts[a] = b] IN
          /\ ChainInv(u) /\ Grows(s, u)
          /\ \A q \in DOMAIN s.registries :
               /\ u.registries[q].owner = s.registries[q].owner
               /\ u.registries[q].claimAdmin = s.registries[q].claimAdmin
               /\ \A c \in Assets : u.registries[q].bnfts[c] =
                    IF q = r /\ c = a THEN b ELSE s.registries[q].bnfts[c]
      BY <3>1, <3>2, <3>3, PutBNFT, SMTT(60)
    <3> QED BY <2>2, <3>4
  <2>5. ASSUME NEW y, Exists(s, y)
        PROVE  /\ OwnerOf(t, y) = IF y = x /\ tx.op = "transferOwnership"
                                  THEN NewOwner ELSE OwnerOf(s, y)
               /\ ClaimAdminOf(t, y) = IF y = x /\ tx.op = "setClaimAdmin"
                                       THEN NewOwner ELSE ClaimAdminOf(s, y)
    <3>1. CASE y[1] = "BNFTRegistry"
      <4>1. y[2] \in DOMAIN s.registries /\ y # x BY <1>5, <2>5, <3>1, ExistsIs
      <4> QED BY <2>4, <3>1, <4>1 DEF OwnerOf, ClaimAdminOf
    <3>2. CASE y[1] # "BNFTRegistry"
      <4>1. y = Bound(y[2], y[3]) /\ y[2] \in DOMAIN s.registries /\ y[3] \in Assets
        BY <2>5, <3>2, ExistsIs
      <4>2. y = x <=> y[2] = r /\ y[3] = a BY <2>1, <4>1 DEF Bound
      <4>3. t.registries[y[2]].bnfts[y[3]] =
              IF y = x THEN b ELSE s.registries[y[2]].bnfts[y[3]]
        BY <2>4, <4>1, <4>2
      <4>4. /\ OwnerOf(t, y) = t.registries[y[2]].bnfts[y[3]].owner
            /\ OwnerOf(s, y) = s.registries[y[2]].bnfts[y[3]].owner
            /\ ClaimAdminOf(t, y) = t.registries[y[2]].bnfts[y[3]].claimAdmin
            /\ ClaimAdminOf(s, y) = s.registries[y[2]].bnfts[y[3]].claimAdmin
        BY <3>2 DEF OwnerOf, ClaimAdminOf
      <4>5. CASE y = x BY <4>2, <4>3, <4>4, <4>5, <2>3 DEF was
      <4>6. CASE y # x BY <4>3, <4>4, <4>6
      <4> QED BY <4>5, <4>6
    <3> QED BY <3>1, <3>2
  <2> QED BY <1>1, <1>5, <2>4, <2>5 DEF t
<1> QED BY <1>3, <1>4, <1>5

-----------------------------------------------------------------------------
\* The state that the pending transactions lead to.

LEMMA Least ==
  ASSUME NEW T, T \subseteq Nat, T # {}
  PROVE  \E m \in T : \A k \in T : m <= k
<1> DEFINE R == {p \in Nat \X Nat : p[1] < p[2]}
<1>1. IsWellFoundedOn(R, Nat) BY NatLessThanWellFounded DEF OpToRel
<1>2. \A k, m \in Nat : k < m => <<k, m>> \in R OBVIOUS
<1> HIDE DEF R
<1>3. PICK m \in T : \A k \in T : ~(<<k, m>> \in R) BY <1>1, WFMin, Zenon
<1>4. ASSUME NEW k \in T PROVE m <= k
  <2>1. k \in Nat /\ m \in Nat /\ ~(k < m) BY <1>2, <1>3
  <2> QED BY <2>1
<1> QED BY <1>4

\* The states on the way.
IsTrace(g, s, txs) ==
  g = [k \in 0..Len(txs) |-> IF k = 0 THEN s ELSE Apply(g[k - 1], txs[k])]

LEMMA ApplyAllIs ==
  ASSUME NEW s, NEW txs, Len(txs) \in Nat
  PROVE  \E g : ApplyAll(s, txs) = g[Len(txs)] /\ IsTrace(g, s, txs)
<1> DEFINE n == Len(txs)
           Is(g, m) == g = [k \in 0..m |-> IF k = 0 THEN s ELSE Apply(g[k - 1], txs[k])]
           Bad == {m \in Nat : ~\E g : Is(g, m)}
<1>1. Bad = {}
  <2> SUFFICES ASSUME Bad # {} PROVE FALSE OBVIOUS
  <2>1. PICK m \in Bad : \A k \in Bad : m <= k BY Least
  <2>2. m \in Nat /\ ~\E g : Is(g, m) BY <2>1
  <2>3. CASE m = 0
    <3>1. Is([k \in 0..m |-> s], m)
      <4> DEFINE g == [k \in 0..m |-> s]
      <4> SUFFICES ASSUME NEW k \in 0..m
                   PROVE  s = IF k = 0 THEN s ELSE Apply(g[k - 1], txs[k])
        BY DEF g
      <4> QED BY <2>3
    <3> QED BY <2>2, <3>1
  <2>4. CASE m # 0
    <3>1. m - 1 \in Nat /\ m - 1 \notin Bad BY <2>1, <2>2, <2>4
    <3>2. PICK h : Is(h, m - 1) BY <3>1
    <3> DEFINE g == [k \in 0..m |-> IF k = m THEN Apply(h[m - 1], txs[m]) ELSE h[k]]
    <3>3. ASSUME NEW k \in 0..m
          PROVE  g[k] = IF k = 0 THEN s ELSE Apply(g[k - 1], txs[k])
      <4>1. CASE k = m
        <5>1. k - 1 \in 0..m /\ k - 1 # m BY <2>2, <2>4, <4>1
        <5> QED BY <2>4, <4>1, <5>1
      <4>2. CASE k # m /\ k = 0
        <5>1. 0 \in 0..(m - 1) BY <3>1
        <5>2. h[0] = s BY <3>2, <5>1
        <5> QED BY <4>2, <5>2
      <4>3. CASE k # m /\ k # 0
        <5>1. k \in 0..(m - 1) /\ k - 1 \in 0..m /\ k - 1 # m BY <2>2, <4>3
        <5>2. h[k] = Apply(h[k - 1], txs[k]) BY <3>2, <4>3, <5>1
        <5> QED BY <4>3, <5>1, <5>2
      <4> QED BY <4>1, <4>2, <4>3
    <3>4. DOMAIN g = 0..m /\ g = [k \in 0..m |-> g[k]] OBVIOUS
    <3> HIDE DEF g
    <3>5. g = [k \in 0..m |-> IF k = 0 THEN s ELSE Apply(g[k - 1], txs[k])]
      BY <3>3, <3>4
    <3> QED BY <2>2, <3>5
  <2> QED BY <2>3, <2>4
<1>2. \E g : Is(g, n) BY <1>1
<1>3. ApplyAll(s, txs) = (CHOOSE g : Is(g, n))[n] BY DEF ApplyAll
<1> DEFINE f == CHOOSE g : Is(g, n)
<1>4. Is(f, n) BY <1>2
<1>5. ApplyAll(s, txs) = f[n] BY <1>3
<1> HIDE DEF f
<1> QED BY <1>4, <1>5 DEF IsTrace

\* A contract that is not the deployer's, or is about to be given away, is not
\* the deployer's after calls of its owner.
LEMMA GivenAway ==
  ASSUME NEW s, ChainInv(s), NEW txs \in Seq(Txs),
         \A k \in DOMAIN txs : txs[k].op \in OwnerOps /\ Sound(s, txs[k]),
         NEW x, Exists(s, x),
         \/ OwnerOf(s, x) # Deployer
         \/ \E k \in DOMAIN txs : txs[k].op = "transferOwnership" /\ txs[k].to = x
  PROVE  OwnerOf(ApplyAll(s, txs), x) # Deployer
<1> DEFINE n == Len(txs)
           Gone(k) == \/ OwnerOf(s, x) # Deployer
                      \/ \E i \in 1..k : txs[i].op = "transferOwnership" /\ txs[i].to = x
<1>1. n \in Nat /\ DOMAIN txs = 1..n OBVIOUS
<1>2. PICK g : ApplyAll(s, txs) = g[n] /\ IsTrace(g, s, txs) BY <1>1, ApplyAllIs
<1> DEFINE OK(k) == /\ ChainInv(g[k]) /\ Exists(g[k], x)
                    /\ \A i \in DOMAIN txs : Sound(g[k], txs[i])
                    /\ Gone(k) => OwnerOf(g[k], x) # Deployer
           Bad == {k \in 0..n : ~OK(k)}
<1>3. Bad = {}
  <2> SUFFICES ASSUME Bad # {} PROVE FALSE OBVIOUS
  <2>1. Bad \subseteq Nat BY <1>1
  <2>2. PICK m \in Bad : \A k \in Bad : m <= k BY <2>1, Least
  <2>3. m \in 0..n /\ ~OK(m) BY <2>2
  <2>4. CASE m = 0
    <3>1. g[0] = s BY <1>1, <1>2 DEF IsTrace
    <3>2. Gone(0) => OwnerOf(s, x) # Deployer BY <1>1
    <3> QED BY <2>3, <2>4, <3>1, <3>2
  <2>5. CASE m # 0
    <3> DEFINE u == g[m - 1]
               tx == txs[m]
    <3>1. m - 1 \in 0..n /\ m \in 1..n /\ m - 1 \notin Bad BY <1>1, <2>2, <2>3, <2>5
    <3>2. OK(m - 1) BY <3>1
    <3>3. g[m] = Apply(u, tx) BY <1>2, <2>3, <2>5 DEF IsTrace
    <3>4. tx \in Txs /\ tx.op \in OwnerOps /\ Sound(u, tx) BY <1>1, <3>1, <3>2
    <3>5. ChainInv(u) /\ Exists(u, x) BY <3>2
    <3>6. Gone(m) => Gone(m - 1) \/ (tx.op = "transferOwnership" /\ tx.to = x)
      <4> SUFFICES ASSUME NEW i \in 1..m, txs[i].op = "transferOwnership", txs[i].to = x
                   PROVE  i \in 1..(m - 1) \/ i = m
        OBVIOUS
      <4> QED BY <3>1
    <3> DEFINE t == Apply(u, tx)
    <3> HIDE DEF u, tx, t
    <3>7. /\ ChainInv(t) /\ Grows(u, t)
          /\ OwnerOf(t, x) = IF OwnerOf(u, tx.to) = Deployer /\ x = tx.to
                                /\ tx.op = "transferOwnership"
                             THEN NewOwner ELSE OwnerOf(u, x)
      BY <3>4, <3>5, ApplyOwner DEF t
    <3>8. Exists(t, x) /\ \A i \in DOMAIN txs : Sound(t, txs[i])
      <4>1. \A i \in DOMAIN txs : Sound(u, txs[i]) BY <3>2 DEF u
      <4> QED BY <3>5, <3>7, <4>1, GrowsKeeps
    <3>9. Gone(m) => OwnerOf(t, x) # Deployer
      <4>1. CASE Gone(m - 1)
        <5>1. OwnerOf(u, x) # Deployer BY <3>2, <4>1 DEF u
        <5> QED BY <3>7, <5>1, Accounts
      <4>2. CASE tx.op = "transferOwnership" /\ tx.to = x BY <3>7, <4>2, Accounts
      <4> QED BY <3>6, <4>1, <4>2 DEF tx
    <3>10. g[m] = t BY <3>3 DEF t, u, tx
    <3> QED BY <2>3, <3>7, <3>8, <3>9, <3>10
  <2> QED BY <2>4, <2>5
<1>4. OK(n) BY <1>1, <1>3
<1>5. Gone(n) BY <1>1
<1> QED BY <1>2, <1>4, <1>5

-----------------------------------------------------------------------------
\* The programs of the tasks, put together from pieces.

Piece(p, first, last, members) ==
  /\ p \in Seq(Steps) /\ p # << >> /\ Linked(p)
  /\ p[1] = first /\ p[Len(p)] = last /\ Range(p) = members

LEMMA OneStep ==
  ASSUME NEW s \in Steps
  PROVE  Piece(<<s>>, s, s, {s})
<1> DEFINE p == <<s>>
<1>1. p \in Seq(Steps) /\ Len(p) = 1 /\ DOMAIN p = {1} /\ p[1] = s OBVIOUS
<1> HIDE DEF p
<1>2. p # << >> BY <1>1
<1>3. Linked(p) BY <1>1 DEF Linked
<1>4. Range(p) = {s} BY <1>1 DEF Range
<1> QED BY <1>1, <1>2, <1>3, <1>4 DEF Piece, p

LEMMA TwoSteps ==
  ASSUME NEW s \in Steps, NEW t \in Steps, Follows(s, t)
  PROVE  Piece(<<s, t>>, s, t, {s, t})
<1> DEFINE p == <<s, t>>
<1>1. p \in Seq(Steps) /\ Len(p) = 2 /\ DOMAIN p = {1, 2} /\ p[1] = s /\ p[2] = t OBVIOUS
<1> HIDE DEF p
<1>2. p # << >>
  <2>1. Len(p) # 0 BY <1>1
  <2> QED BY <2>1
<1>3. Linked(p)
  <2> SUFFICES ASSUME NEW k \in 1..(Len(p) - 1) PROVE Follows(p[k], p[k + 1])
    BY DEF Linked
  <2>1. k = 1 BY <1>1
  <2> QED BY <1>1, <2>1
<1>4. Range(p) = {s, t} BY <1>1 DEF Range
<1> QED BY <1>1, <1>2, <1>3, <1>4 DEF Piece, p

LEMMA Joined ==
  ASSUME NEW p, NEW q, NEW f, NEW l, NEW ms, NEW g, NEW m, NEW ns,
         Piece(p, f, l, ms), Piece(q, g, m, ns), Follows(l, g)
  PROVE  Piece(p \o q, f, m, ms \cup ns)
<1> DEFINE r == p \o q
<1>1. /\ p \in Seq(Steps) /\ p # << >> /\ Linked(p) /\ p[1] = f /\ p[Len(p)] = l
      /\ Range(p) = ms
      /\ q \in Seq(Steps) /\ q # << >> /\ Linked(q) /\ q[1] = g /\ q[Len(q)] = m
      /\ Range(q) = ns
  BY DEF Piece
<1>2. /\ Len(p) \in Nat \ {0} /\ Len(q) \in Nat \ {0}
      /\ DOMAIN p = 1..Len(p) /\ DOMAIN q = 1..Len(q)
  BY <1>1
<1>3. /\ r \in Seq(Steps) /\ Len(r) = Len(p) + Len(q)
      /\ \A k \in 1..Len(p) : r[k] = p[k]
      /\ \A k \in 1..Len(q) : r[Len(p) + k] = q[k]
  BY <1>1
<1>4. Range(r) = ms \cup ns
  BY <1>1, RangeConcatenation
<1> HIDE DEF r
<1>5. r[1] = f BY <1>1, <1>2, <1>3
<1>6. r[Len(r)] = m BY <1>1, <1>2, <1>3
<1>7. Linked(r)
  <2> SUFFICES ASSUME NEW k \in 1..(Len(r) - 1) PROVE Follows(r[k], r[k + 1])
    BY DEF Linked
  <2>1. CASE k < Len(p)
    <3>1. k \in 1..Len(p) /\ k + 1 \in 1..Len(p) /\ k \in 1..(Len(p) - 1) BY <1>2, <2>1
    <3> QED BY <1>1, <1>3, <3>1 DEF Linked
  <2>2. CASE k = Len(p)
    <3>1. k \in 1..Len(p) /\ 1 \in 1..Len(q) BY <1>2, <2>2
    <3>2. r[k] = l /\ r[k + 1] = g BY <1>1, <1>3, <2>2, <3>1
    <3> QED BY <3>2
  <2>3. CASE k > Len(p)
    <3> DEFINE j == k - Len(p)
    <3>1. j \in 1..Len(q) /\ j + 1 \in 1..Len(q) /\ j \in 1..(Len(q) - 1)
          /\ k = Len(p) + j /\ k + 1 = Len(p) + (j + 1)
      BY <1>2, <1>3, <2>3
    <3> HIDE DEF j
    <3>2. r[k] = q[j] /\ r[k + 1] = q[j + 1] BY <1>3, <3>1
    <3> QED BY <1>1, <3>1, <3>2 DEF Linked
  <2>4. k \in Int /\ Len(p) \in Int BY <1>2, <1>3
  <2> QED BY <2>1, <2>2, <2>3, <2>4
<1>8. r # << >> BY <1>2, <1>3
<1> QED BY <1>3, <1>4, <1>5, <1>6, <1>7, <1>8 DEF Piece, r

\* The two steps of every collection of a list.
InTwos(list, d, e) ==
  [k \in 1..(2 * Len(list)) |-> IF k % 2 = 1 THEN Step(d, list[(k + 1) \div 2])
                                ELSE Step(e, list[(k + 1) \div 2])]

\* What a task that goes through the collections does with them.
Both(list, d, e) == {Step(d, a) : a \in Range(list)} \cup {Step(e, a) : a \in Range(list)}

LEMMA OfList ==
  ASSUME NEW list \in Seq(Assets), list # << >>, NEW d, NEW e,
         \A a \in Assets : /\ Step(d, a) \in Steps /\ Step(e, a) \in Steps
                           /\ Follows(Step(d, a), Step(e, a)),
         \A a, b \in Assets : Follows(Step(e, a), Step(d, b))
  PROVE  /\ list[1] \in Assets /\ list[Len(list)] \in Assets
         /\ Piece(InTwos(list, d, e), Step(d, list[1]), Step(e, list[Len(list)]),
                  Both(list, d, e))
<1> DEFINE n == Len(list)
           p == InTwos(list, d, e)
<1>1. n \in Nat \ {0} /\ DOMAIN list = 1..n /\ \A k \in 1..n : list[k] \in Assets
  OBVIOUS
<1> HIDE DEF n
<1>2. p = [k \in 1..(2 * n) |-> IF k % 2 = 1 THEN Step(d, list[(k + 1) \div 2])
                                ELSE Step(e, list[(k + 1) \div 2])]
  BY DEF n, InTwos
<1> HIDE DEF p
<1>3. ASSUME NEW j \in 1..n
      PROVE  /\ 2 * j - 1 \in 1..(2 * n) /\ 2 * j \in 1..(2 * n)
             /\ p[2 * j - 1] = Step(d, list[j]) /\ p[2 * j] = Step(e, list[j])
  <2>1. /\ 2 * j - 1 \in 1..(2 * n) /\ 2 * j \in 1..(2 * n)
        /\ (2 * j - 1) % 2 = 1 /\ (2 * j) % 2 = 0
        /\ ((2 * j - 1) + 1) \div 2 = j /\ (2 * j + 1) \div 2 = j
    BY <1>1
  <2> DEFINE i == 2 * j - 1
             h == 2 * j
  <2>2. /\ i \in 1..(2 * n) /\ i % 2 = 1 /\ (i + 1) \div 2 = j
        /\ h \in 1..(2 * n) /\ h % 2 # 1 /\ (h + 1) \div 2 = j
    BY <2>1
  <2> HIDE DEF i, h
  <2>3. p[i] = Step(d, list[j]) /\ p[h] = Step(e, list[j])
    BY <1>2, <2>2
  <2> QED BY <2>1, <2>3 DEF i, h
<1>4. ASSUME NEW k \in 1..(2 * n)
      PROVE  \E j \in 1..n : k = 2 * j - 1 \/ k = 2 * j
  <2>1. (k + 1) \div 2 \in 1..n BY <1>1
  <2>2. k = 2 * ((k + 1) \div 2) - 1 \/ k = 2 * ((k + 1) \div 2) BY <1>1
  <2> QED BY <2>1, <2>2
<1>5. DOMAIN p = 1..(2 * n) /\ p = [k \in 1..(2 * n) |-> p[k]] BY <1>2
<1>6. ASSUME NEW k \in 1..(2 * n) PROVE p[k] \in Steps
  <2>1. PICK j \in 1..n : k = 2 * j - 1 \/ k = 2 * j BY <1>4
  <2>2. Step(d, list[j]) \in Steps /\ Step(e, list[j]) \in Steps BY <1>1
  <2> QED BY <1>3, <2>1, <2>2
<1>7. p \in Seq(Steps) /\ Len(p) = 2 * n
  <2> DEFINE m == 2 * n
  <2>1. m \in Nat BY <1>1
  <2>2. p = [k \in 1..m |-> p[k]] /\ \A k \in 1..m : p[k] \in Steps BY <1>5, <1>6
  <2> HIDE DEF m
  <2>3. p \in [1..m -> Steps] BY <2>2
  <2>4. p \in Seq(Steps) BY <2>1, <2>3, SeqDef
  <2>5. Len(p) = m BY <2>1, <2>3, <2>4, LenProperties
  <2> QED BY <2>4, <2>5 DEF m
<1>8. p[1] = Step(d, list[1])
  <2>1. 1 \in 1..n /\ 2 * 1 - 1 = 1 BY <1>1
  <2> QED BY <1>3, <2>1
<1>9. p[Len(p)] = Step(e, list[n])
  <2>1. n \in 1..n BY <1>1
  <2> QED BY <1>3, <1>7, <2>1
<1>10. Linked(p)
  <2> SUFFICES ASSUME NEW k \in 1..(Len(p) - 1) PROVE Follows(p[k], p[k + 1])
    BY DEF Linked
  <2>1. k \in 1..(2 * n) BY <1>1, <1>7
  <2>2. PICK j \in 1..n : k = 2 * j - 1 \/ k = 2 * j BY <1>4, <2>1
  <2>3. CASE k = 2 * j - 1
    <3>1. k + 1 = 2 * j BY <1>1, <2>3
    <3>2. p[k] = Step(d, list[j]) /\ p[k + 1] = Step(e, list[j]) BY <1>3, <2>3, <3>1
    <3>3. list[j] \in Assets BY <1>1
    <3>4. Follows(Step(d, list[j]), Step(e, list[j])) BY <3>3
    <3> QED BY <3>2, <3>4
  <2>4. CASE k = 2 * j
    <3>1. j + 1 \in 1..n /\ k + 1 = 2 * (j + 1) - 1 BY <1>1, <1>7, <2>4
    <3>2. p[k + 1] = Step(d, list[j + 1]) /\ p[k] = Step(e, list[j])
      BY <1>3, <2>4, <3>1
    <3>3. list[j] \in Assets /\ list[j + 1] \in Assets BY <1>1, <3>1
    <3>4. Follows(Step(e, list[j]), Step(d, list[j + 1])) BY <3>3
    <3> QED BY <3>2, <3>4
  <2> QED BY <2>2, <2>3, <2>4
<1>11. Range(p) = {Step(d, a) : a \in Range(list)} \cup {Step(e, a) : a \in Range(list)}
  <2>1. ASSUME NEW s \in Range(p)
        PROVE  s \in {Step(d, a) : a \in Range(list)} \cup {Step(e, a) : a \in Range(list)}
    <3>1. PICK k \in 1..(2 * n) : s = p[k] BY <1>5 DEF Range
    <3>2. PICK j \in 1..n : k = 2 * j - 1 \/ k = 2 * j BY <1>4
    <3>3. list[j] \in Range(list) BY <1>1 DEF Range
    <3> QED BY <1>3, <3>1, <3>2, <3>3
  <2>2. ASSUME NEW a \in Range(list) PROVE Step(d, a) \in Range(p) /\ Step(e, a) \in Range(p)
    <3>1. PICK j \in 1..n : a = list[j] BY <1>1 DEF Range
    <3> QED BY <1>3, <1>5, <3>1 DEF Range
  <2> QED BY <2>1, <2>2
<1>12. p # << >> BY <1>1, <1>7
<1>13. list[1] \in Assets /\ list[n] \in Assets BY <1>1
<1> QED BY <1>7, <1>8, <1>9, <1>10, <1>11, <1>12, <1>13 DEF Piece, Both, n, p

LEMMA StepIs == ASSUME NEW do, NEW x PROVE Step(do, x).do = do /\ Step(do, x).x = x
BY DEF Step

LEMMA StepsAre ==
  /\ \A kind \in Kinds, do \in {"deploy", "save"} : Step(do, kind) \in Steps
  /\ Step("note", "BNFTRegistryImpl") \in Steps
  /\ \A a \in Assets, do \in ItemDos : Step(do, a) \in Steps
  /\ \A do \in RegistryOps \cup {"await"} : Step(do, None) \in Steps
  /\ \A r \in Nat : Step("adopt", r) \in Steps /\ Step("connect", r) \in Steps
  /\ \A n \in Assets \cup {"BNFTRegistry"}, do \in OwnerOps : Step(do, n) \in Steps
BY DEF Step, Steps

\* A program that a task may begin with.
Fits(name, p) ==
  /\ p \in Seq(Steps) /\ p # << >> /\ Linked(p) /\ Finished(p)
  /\ \A s \in Range(p) : Proper(name, s) /\ Founded(s)
  /\ p[1].do \notin {"note", "save", "enter", "await"} /\ ~Item(p[1]) /\ Based(db, p[1])
  /\ name = "transferOwnership" => p[1].do # "transferOwnership"
  /\ name \in TokenTasks => \A a \in Assets : \E s \in Range(p) : Item(s) /\ s.x = a
  /\ name = "transferOwnership" =>
       \A n \in HandNames, do \in OwnerOps : \E s \in Range(p) : s.do = do /\ s.x = n

\* The steps of a deployment.
Deploying(kind) == {Step("deploy", kind), Step("save", kind)}
                     \cup (IF kind = "BNFTRegistryImpl" THEN {Step("note", kind)} ELSE {})

LEMMA DeployPiece ==
  ASSUME NEW kind \in Kinds
  PROVE  Piece(Deploy(kind), Step("deploy", kind), Step("save", kind), Deploying(kind))
<1> DEFINE d == Step("deploy", kind)
           n == Step("note", kind)
           v == Step("save", kind)
<1>1. d \in Steps /\ v \in Steps BY StepsAre
<1>2. CASE kind = "BNFTRegistryImpl"
  <2>1. n \in Steps /\ Follows(d, n) /\ Follows(n, v)
    BY <1>2, StepsAre, StepIs DEF Follows, RegistryOps
  <2>2. Deploy(kind) = <<d, n>> \o <<v>> BY <1>2 DEF Deploy
  <2>3. Deploying(kind) = {d, n} \cup {v} BY <1>2 DEF Deploying
  <2> HIDE DEF d, n, v
  <2>4. Piece(<<d, n>>, d, n, {d, n}) /\ Piece(<<v>>, v, v, {v})
    BY <1>1, <2>1, OneStep, TwoSteps
  <2>5. Piece(<<d, n>> \o <<v>>, d, v, {d, n} \cup {v}) BY <2>1, <2>4, Joined
  <2> QED BY <2>2, <2>3, <2>5 DEF d, v
<1>3. CASE kind # "BNFTRegistryImpl"
  <2>1. Follows(d, v) BY <1>3, StepIs DEF Follows, RegistryOps
  <2>2. Deploy(kind) = <<d, v>> /\ Deploying(kind) = {d, v} BY <1>3 DEF Deploy, Deploying
  <2> HIDE DEF d, v
  <2>3. Piece(<<d, v>>, d, v, {d, v}) BY <1>1, <2>1, TwoSteps
  <2> QED BY <2>2, <2>3 DEF d, v
<1> QED BY <1>2, <1>3

LEMMA ImplsPiece ==
  Piece(RegistryImpls, Step("deploy", "BNFT"), Step("save", "BNFTRegistryImpl"),
        Deploying("BNFT") \cup Deploying("BNFTRegistryImpl"))
<1>1. Follows(Step("save", "BNFT"), Step("deploy", "BNFTRegistryImpl"))
  BY StepIs DEF Follows, RegistryOps
<1>2. "BNFT" \in Kinds /\ "BNFTRegistryImpl" \in Kinds BY DEF Kinds
<1> QED BY <1>1, <1>2, DeployPiece, Joined DEF RegistryImpls

LEMMA RegistryPiece ==
  Piece(RegistryImpls \o Deploy("BNFTRegistry"),
        Step("deploy", "BNFT"), Step("save", "BNFTRegistry"),
        (Deploying("BNFT") \cup Deploying("BNFTRegistryImpl")) \cup Deploying("BNFTRegistry"))
<1>1. Follows(Step("save", "BNFTRegistryImpl"), Step("deploy", "BNFTRegistry"))
  BY StepIs DEF Follows, RegistryOps
<1>2. "BNFTRegistry" \in Kinds BY DEF Kinds
<1> QED BY <1>1, <1>2, ImplsPiece, DeployPiece, Joined

LEMMA UpgradePiece ==
  ASSUME NEW r \in Nat
  PROVE  Piece(Upgrade(r), Step("adopt", r), Step("await", None),
               {Step("adopt", r), Step("upgrade", None), Step("await", None),
                Step("setBNFTGenericImpl", None)})
<1> DEFINE a == Step("adopt", r)
           u == Step("upgrade", None)
           w == Step("await", None)
           g == Step("setBNFTGenericImpl", None)
<1>1. a \in Steps /\ u \in Steps /\ w \in Steps /\ g \in Steps
  BY StepsAre DEF RegistryOps
<1>2. Follows(a, u) /\ Follows(u, w) /\ Follows(w, g) /\ Follows(g, w)
  BY StepIs DEF Follows, RegistryOps
<1>3. Upgrade(r) = <<a, u>> \o <<w, g>> \o <<w>> BY DEF Upgrade
<1> HIDE DEF a, u, w, g
<1>4. Piece(<<a, u>>, a, u, {a, u}) /\ Piece(<<w, g>>, w, g, {w, g}) /\ Piece(<<w>>, w, w, {w})
  BY <1>1, <1>2, OneStep, TwoSteps
<1>5. Piece(<<a, u>> \o <<w, g>>, a, g, {a, u} \cup {w, g}) BY <1>2, <1>4, Joined
<1>6. Piece(<<a, u>> \o <<w, g>> \o <<w>>, a, w, ({a, u} \cup {w, g}) \cup {w})
  BY <1>2, <1>4, <1>5, Joined
<1>7. ({a, u} \cup {w, g}) \cup {w} = {a, u, w, g} OBVIOUS
<1> QED BY <1>3, <1>6, <1>7 DEF a, u, w, g

LEMMA TwoStepsIs ==
  ASSUME NEW list, NEW d, NEW e
  PROVE  [k \in 1..(2 * Len(list)) |->
            <<Step(d, list[(k + 1) \div 2]), Step(e, list[(k + 1) \div 2])>>
              [IF k % 2 = 1 THEN 1 ELSE 2]]
         = InTwos(list, d, e)
<1> SUFFICES ASSUME NEW k
             PROVE  <<Step(d, list[(k + 1) \div 2]), Step(e, list[(k + 1) \div 2])>>
                      [IF k % 2 = 1 THEN 1 ELSE 2]
                    = IF k % 2 = 1 THEN Step(d, list[(k + 1) \div 2])
                      ELSE Step(e, list[(k + 1) \div 2])
  BY DEF InTwos
<1> DEFINE s == Step(d, list[(k + 1) \div 2])
           t == Step(e, list[(k + 1) \div 2])
<1> HIDE DEF s, t
<1>1. CASE k % 2 = 1 BY <1>1 DEF s, t
<1>2. CASE k % 2 # 1 BY <1>2 DEF s, t
<1> QED BY <1>1, <1>2

LEMMA ListPiece ==
  ASSUME NEW list \in Seq(Assets), list # << >>, NEW d, NEW e,
         \/ d = "bind" /\ e = "enter"
         \/ d \in {"rebind", "createBNFT"} /\ e = "await"
         \/ d = "setClaimAdmin" /\ e = "transferOwnership",
         NEW p,
         p = [k \in 1..(2 * Len(list)) |->
                <<Step(d, list[(k + 1) \div 2]), Step(e, list[(k + 1) \div 2])>>
                  [IF k % 2 = 1 THEN 1 ELSE 2]]
  PROVE  \E a, b \in Assets : Piece(p, Step(d, a), Step(e, b), Both(list, d, e))
<1>1. p = InTwos(list, d, e)
  BY TwoStepsIs, Zenon
<1>2. \A a \in Assets : Step(d, a) \in Steps /\ Step(e, a) \in Steps
  BY StepsAre DEF ItemDos, OwnerOps
<1>3. \A a \in Assets : Follows(Step(d, a), Step(e, a))
  BY StepIs DEF Follows, RegistryOps
<1>4. \A a, b \in Assets : Follows(Step(e, a), Step(d, b))
  BY StepIs, Accounts DEF Follows, RegistryOps
<1>5. \A a \in Assets : /\ Step(d, a) \in Steps /\ Step(e, a) \in Steps
                         /\ Follows(Step(d, a), Step(e, a))
  BY <1>2, <1>3
<1>6. /\ list[1] \in Assets /\ list[Len(list)] \in Assets
      /\ Piece(InTwos(list, d, e), Step(d, list[1]), Step(e, list[Len(list)]), Both(list, d, e))
  BY <1>4, <1>5, OfList
<1> QED BY <1>1, <1>6

Bindings(r, d, e) == {Step("connect", r)} \cup Both(NftAssets, d, e)

LEMMA BindPieces ==
  /\ \E b \in Assets :
       Piece(BindAll, Step("connect", 0), Step("enter", b),
             Bindings(0, "bind", "enter"))
  /\ \A r \in Nat : \E b \in Assets :
       Piece(BindAllFull(r), Step("connect", r), Step("await", b),
             Bindings(r, "rebind", "await"))
  /\ \E b \in Assets :
       Piece(CreateAll, Step("connect", 0), Step("await", b),
             Bindings(0, "createBNFT", "await"))
<1>1. NftAssets \in Seq(Assets) /\ NftAssets # << >> BY AssetsTyped
<1>2. ASSUME NEW r \in Nat, NEW d \in {"bind", "rebind", "createBNFT"}, NEW a \in Assets
      PROVE  Follows(Step("connect", r), Step(d, a)) /\ Step("connect", r) \in Steps
  BY StepIs, StepsAre DEF Follows, RegistryOps
<1>3. ASSUME NEW r \in Nat, NEW d, NEW e, NEW q,
             \/ d = "bind" /\ e = "enter"
             \/ d \in {"rebind", "createBNFT"} /\ e = "await",
             q = [k \in 1..(2 * Len(NftAssets)) |->
                <<Step(d, NftAssets[(k + 1) \div 2]), Step(e, NftAssets[(k + 1) \div 2])>>
                  [IF k % 2 = 1 THEN 1 ELSE 2]]
      PROVE  \E b \in Assets :
               Piece(<<Step("connect", r)>> \o q, Step("connect", r), Step(e, b),
                     Bindings(r, d, e))
  <2>1. PICK a, b \in Assets : Piece(q, Step(d, a), Step(e, b), Both(NftAssets, d, e))
    BY <1>1, <1>3, ListPiece
  <2>2. Follows(Step("connect", r), Step(d, a)) /\ Step("connect", r) \in Steps
    BY <1>2, <1>3
  <2>3. Piece(<<Step("connect", r)>>, Step("connect", r), Step("connect", r),
              {Step("connect", r)})
    BY <2>2, OneStep
  <2> QED BY <2>1, <2>2, <2>3, Joined DEF Bindings
<1>4. \E b \in Assets :
       Piece(BindAll, Step("connect", 0), Step("enter", b),
             Bindings(0, "bind", "enter"))
  BY <1>3 DEF BindAll, ForEach
<1>5. ASSUME NEW r \in Nat
      PROVE  \E b \in Assets :
       Piece(BindAllFull(r), Step("connect", r), Step("await", b),
             Bindings(r, "rebind", "await"))
  BY <1>3 DEF BindAllFull, ForEach
<1>6. \E b \in Assets :
       Piece(CreateAll, Step("connect", 0), Step("await", b),
             Bindings(0, "createBNFT", "await"))
  BY <1>3 DEF CreateAll, ForEach
<1> QED BY <1>4, <1>5, <1>6

LEMMA HandPiece ==
  \E n \in Assets \cup {"BNFTRegistry"} :
    Piece(SetAndGive("BNFTRegistry") \o ForEach(HandOver, SetAndGive),
          Step("setClaimAdmin", "BNFTRegistry"), Step("transferOwnership", n),
          {Step("setClaimAdmin", "BNFTRegistry"), Step("transferOwnership", "BNFTRegistry")}
            \cup Both(HandOver, "setClaimAdmin", "transferOwnership"))
<1> DEFINE s == Step("setClaimAdmin", "BNFTRegistry")
           t == Step("transferOwnership", "BNFTRegistry")
           q == ForEach(HandOver, SetAndGive)
           ms == Both(HandOver, "setClaimAdmin", "transferOwnership")
<1>1. s \in Steps /\ t \in Steps BY StepsAre DEF OwnerOps
<1>2. Follows(s, t) BY StepIs DEF Follows, RegistryOps
<1>3. Piece(<<s, t>>, s, t, {s, t})
  <2> HIDE DEF s, t
  <2> QED BY <1>1, <1>2, TwoSteps
<1>4. SetAndGive("BNFTRegistry") = <<s, t>> BY DEF SetAndGive
<1>5. q = [k \in 1..(2 * Len(HandOver)) |->
             <<Step("setClaimAdmin", HandOver[(k + 1) \div 2]),
               Step("transferOwnership", HandOver[(k + 1) \div 2])>>
                 [IF k % 2 = 1 THEN 1 ELSE 2]]
  BY DEF ForEach, SetAndGive
<1>6. CASE HandOver = << >>
  <2>1. 2 * Len(HandOver) = 0 BY <1>6
  <2>2. DOMAIN q = {} BY <1>5, <2>1
  <2>3. q = << >> BY <2>2
  <2>4. ms = {} BY <1>6 DEF Both, Range
  <2>5. <<s, t>> \o q = <<s, t>> BY <2>3
  <2>6. {s, t} \cup ms = {s, t} BY <2>4
  <2> HIDE DEF q, ms
  <2>7. Piece(<<s, t>> \o q, s, t, {s, t} \cup ms) BY <1>3, <2>5, <2>6
  <2> QED BY <1>4, <2>7 DEF q, ms
<1>7. CASE HandOver # << >>
  <2>1. HandOver \in Seq(Assets) BY AssetsTyped
  <2> HIDE DEF q
  <2>2. PICK a, b \in Assets :
          Piece(q, Step("setClaimAdmin", a), Step("transferOwnership", b), ms)
    BY <1>5, <1>7, <2>1, ListPiece
  <2>3. Follows(t, Step("setClaimAdmin", a)) BY StepIs DEF Follows, RegistryOps
  <2> HIDE DEF ms
  <2>4. Piece(<<s, t>> \o q, s, Step("transferOwnership", b), {s, t} \cup ms)
    BY <1>3, <2>2, <2>3, Joined
  <2> QED BY <1>4, <2>4 DEF q, ms
<1> QED BY <1>6, <1>7

\* A piece fits if its ends and its members do.
LEMMA PieceFits ==
  ASSUME NEW name, NEW p, NEW f, NEW l, NEW ms, Piece(p, f, l, ms),
         l.do \notin Unfinished,
         \A s \in ms : Proper(name, s) /\ Founded(s),
         f.do \notin {"note", "save", "enter", "await", "transferOwnership"}, ~Item(f), Based(db, f),
         name \in TokenTasks => \A a \in Assets : \E s \in ms : Item(s) /\ s.x = a,
         name = "transferOwnership" =>
           \A n \in HandNames, do \in OwnerOps : \E s \in ms : s.do = do /\ s.x = n
  PROVE  Fits(name, p)
<1>1. /\ p \in Seq(Steps) /\ p # << >> /\ Linked(p) /\ p[1] = f /\ p[Len(p)] = l
      /\ Range(p) = ms
  BY DEF Piece
<1>2. Finished(p) BY <1>1 DEF Finished
<1> QED BY <1>1, <1>2 DEF Fits

\* What a task brings along when it starts.
LEMMA ProgramFits ==
  ASSUME TypeInv, NEW name \in AllTasks, NEW x \in Arguments(name), Ready(name, x)
  PROVE  Fits(name, Program(name, x))
<1> DEFINE p == Program(name, x)
<1>1. DOMAIN chain.registries \subseteq Nat /\ 0 \notin Registries
  BY DEF TypeInv, Storage, Registries
<1>2. CASE name = "deploy-proxy-admin"
  <2>1. Piece(p, Step("deploy", "ProxyAdmin"), Step("save", "ProxyAdmin"),
              Deploying("ProxyAdmin"))
    BY <1>2, DeployPiece DEF Kinds, Program
  <2> HIDE DEF p
  <2>2. Fits(name, p)
    BY <1>2, <2>1, PieceFits, StepIs
    DEF Deploying, Unfinished, Proper, Founded, Item, ItemDos, Based, OfRegistry, RegistryOps, OwnerOps,
        TokenTasks, FilingTasks
  <2> QED BY <2>2 DEF p
<1>3. CASE name = "deploy-bnft-registry"
  <2> DEFINE ms == (Deploying("BNFT") \cup Deploying("BNFTRegistryImpl")) \cup Deploying("BNFTRegistry")
  <2>1. Piece(p, Step("deploy", "BNFT"), Step("save", "BNFTRegistry"), ms)
    BY <1>3, RegistryPiece DEF Program
  <2> HIDE DEF p
  <2>2. Fits(name, p)
    BY <1>3, <2>1, PieceFits, StepIs
    DEF Deploying, Unfinished, Proper, Founded, Item, ItemDos, Based, OfRegistry, RegistryOps, OwnerOps,
        TokenTasks, FilingTasks
  <2> QED BY <2>2 DEF p
<1>4. CASE name = "deploy-new-implementation"
  <2>1. x \in {"BNFT", "BNFTRegistryImpl"} BY <1>4 DEF Arguments, FullTasks
  <2>2. Piece(p, Step("deploy", x), Step("save", x), Deploying(x))
    BY <1>4, <2>1, DeployPiece DEF Kinds, Program
  <2> HIDE DEF p
  <2>3. Fits(name, p)
    BY <1>4, <2>1, <2>2, PieceFits, StepIs
    DEF Deploying, Unfinished, Proper, Founded, Item, ItemDos, Based, OfRegistry, RegistryOps, OwnerOps,
        TokenTasks, FilingTasks
  <2> QED BY <2>3 DEF p
<1>5. CASE name = "bnft-registry-set-impl"
  <2> DEFINE s == Step("setBNFTGenericImpl", None)
  <2>1. p = <<s>> /\ s \in Steps BY <1>5, StepsAre DEF Program, RegistryOps
  <2>2. Piece(p, s, s, {s}) BY <2>1, OneStep
  <2> HIDE DEF p
  <2>3. db.BNFTRegistry # 0 BY <1>5 DEF Ready
  <2>4. Fits(name, p)
    BY <1>5, <2>2, <2>3, PieceFits, StepIs, Accounts
    DEF Unfinished, Proper, Founded, Item, ItemDos, Based, OfRegistry, RegistryOps, OwnerOps,
        TokenTasks, FilingTasks
  <2> QED BY <2>4 DEF p
<1>6. CASE name = "bnft-registry-upgrade-all"
  <2> DEFINE s == Step("batchUpgradeAllBNFT", None)
             t == Step("await", None)
  <2>1. p = <<s, t>> /\ s \in Steps /\ t \in Steps
    BY <1>6, StepsAre DEF Program, RegistryOps
  <2>2. Follows(s, t) BY StepIs DEF Follows, RegistryOps
  <2>3. Piece(p, s, t, {s, t}) BY <2>1, <2>2, TwoSteps
  <2> HIDE DEF p
  <2>4. db.BNFTRegistry # 0 BY <1>6 DEF Ready
  <2>5. Fits(name, p)
    BY <1>6, <2>3, <2>4, PieceFits, StepIs, Accounts
    DEF Unfinished, Proper, Founded, Item, ItemDos, Based, OfRegistry, RegistryOps, OwnerOps,
        TokenTasks, FilingTasks
  <2> QED BY <2>5 DEF p
<1>7. CASE name = "full:deploy-bnft-registry"
  <2>1. x = 0 \/ x \in Registries
    BY <1>7 DEF Arguments, FullTasks, Proxies, Registries
  <2>2. CASE x = 0
    <3> DEFINE ms == (Deploying("BNFT") \cup Deploying("BNFTRegistryImpl")) \cup Deploying("BNFTRegistry")
    <3>1. Piece(p, Step("deploy", "BNFT"), Step("save", "BNFTRegistry"), ms)
      BY <1>7, <2>2, RegistryPiece DEF Program
    <3> HIDE DEF p
    <3>2. Fits(name, p)
      BY <1>7, <3>1, PieceFits, StepIs
      DEF Deploying, Unfinished, Proper, Founded, Item, ItemDos, Based, OfRegistry, RegistryOps, OwnerOps,
          TokenTasks, FilingTasks
    <3> QED BY <3>2 DEF p
  <2>3. CASE x # 0
    <3> DEFINE ms == (Deploying("BNFT") \cup Deploying("BNFTRegistryImpl"))
            \cup {Step("adopt", x), Step("upgrade", None), Step("await", None),
                  Step("setBNFTGenericImpl", None)}
    <3>1. x \in Nat /\ x \in Registries BY <1>1, <2>1, <2>3 DEF Registries
    <3>2. p = RegistryImpls \o Upgrade(x) BY <1>7, <2>3 DEF Program
    <3>3. Follows(Step("save", "BNFTRegistryImpl"), Step("adopt", x))
      BY StepIs DEF Follows, RegistryOps
    <3>4. Piece(p, Step("deploy", "BNFT"), Step("await", None), ms)
      <4> DEFINE us == {Step("adopt", x), Step("upgrade", None), Step("await", None),
                        Step("setBNFTGenericImpl", None)}
                 is == Deploying("BNFT") \cup Deploying("BNFTRegistryImpl")
      <4>1. Piece(Upgrade(x), Step("adopt", x), Step("await", None), us) BY <3>1, UpgradePiece
      <4>2. Piece(RegistryImpls, Step("deploy", "BNFT"), Step("save", "BNFTRegistryImpl"), is)
        BY ImplsPiece
      <4>3. ms = is \cup us OBVIOUS
      <4> HIDE DEF us, is, ms
      <4> QED BY <3>2, <3>3, <4>1, <4>2, <4>3, Joined
    <3> HIDE DEF p
    <3>5. db.ProxyAdmin # 0 BY <1>7 DEF Ready
    <3>6. Fits(name, p)
      BY <1>7, <3>1, <3>4, <3>5, PieceFits, StepIs, Accounts
      DEF Deploying, Unfinished, Proper, Founded, Item, ItemDos, Based, OfRegistry, RegistryOps, OwnerOps,
          TokenTasks, FilingTasks
    <3> QED BY <3>6 DEF p
  <2> QED BY <2>2, <2>3
<1>8. ASSUME NEW r, NEW d, NEW e,
             \/ d = "bind" /\ e = "enter" /\ name \in FilingTasks
             \/ d \in {"rebind", "createBNFT"} /\ e = "await" /\ name \in TokenTasks \ FilingTasks,
             r = 0 \/ r \in Registries
      PROVE  /\ \A s \in Bindings(r, d, e) : Proper(name, s) /\ Founded(s)
             /\ \A a \in Assets : \E s \in Bindings(r, d, e) : Item(s) /\ s.x = a
  <2>1. ASSUME NEW s \in Bindings(r, d, e) PROVE Proper(name, s) /\ Founded(s)
    <3>1. CASE s = Step("connect", r)
      BY <1>8, <3>1, StepIs
      DEF Proper, Founded, Item, ItemDos, TokenTasks, FilingTasks
    <3>2. CASE \E a \in Assets : s = Step(d, a) \/ s = Step(e, a)
      BY <1>8, <3>2, StepIs, Accounts
      DEF Proper, Founded, Item, ItemDos, TokenTasks, FilingTasks
    <3> QED BY <1>8, <3>1, <3>2 DEF Bindings, Both, Assets
  <2>2. ASSUME NEW a \in Assets PROVE \E s \in Bindings(r, d, e) : Item(s) /\ s.x = a
    <3>1. Step(d, a) \in Bindings(r, d, e) BY <1>8 DEF Bindings, Both, Assets
    <3>2. Item(Step(d, a)) /\ Step(d, a).x = a BY <1>8, StepIs DEF Item, ItemDos
    <3> QED BY <3>1, <3>2
  <2> QED BY <2>1, <2>2
<1>9. CASE name = "deploy-bnft-tokens"
  <2> DEFINE ms == Bindings(0, "bind", "enter")
  <2>1. PICK b \in Assets : Piece(p, Step("connect", 0), Step("enter", b), ms)
    BY <1>9, BindPieces DEF Program
  <2>2. name \in FilingTasks /\ name \in TokenTasks /\ db.BNFTRegistry # 0
    BY <1>9 DEF FilingTasks, TokenTasks, Ready
  <2> HIDE DEF p
  <2>3. /\ \A s \in ms : Proper(name, s) /\ Founded(s)
        /\ \A a \in Assets : \E s \in ms : Item(s) /\ s.x = a
    BY <1>8, <2>2
  <2>4. Fits(name, p)
    BY <1>9, <2>1, <2>2, <2>3, PieceFits, StepIs
    DEF Unfinished, Item, ItemDos, Based, OfRegistry, RegistryOps, OwnerOps
  <2> QED BY <2>4 DEF p
<1>10. CASE name = "full:deploy-bnft-tokens"
  <2> DEFINE ms == Bindings(x, "rebind", "await")
  <2>1. x = 0 \/ x \in Registries
    BY <1>10 DEF Arguments, FullTasks, Proxies, Registries
  <2>2. x \in Nat BY <1>1, <2>1 DEF Registries
  <2>3. PICK b \in Assets : Piece(p, Step("connect", x), Step("await", b), ms)
    BY <1>10, <2>2, BindPieces DEF Program
  <2>4. name \in TokenTasks \ FilingTasks /\ (x = 0 => db.BNFTRegistry # 0)
    BY <1>10 DEF FilingTasks, TokenTasks, Ready
  <2> HIDE DEF p
  <2>5. /\ \A s \in ms : Proper(name, s) /\ Founded(s)
        /\ \A a \in Assets : \E s \in ms : Item(s) /\ s.x = a
    BY <1>8, <2>1, <2>4
  <2>6. Fits(name, p)
    BY <1>10, <2>3, <2>4, <2>5, PieceFits, StepIs
    DEF Unfinished, Item, ItemDos, Based, OfRegistry, RegistryOps, OwnerOps
  <2> QED BY <2>6 DEF p
<1>11. CASE name = "dev:deploy-bnft-tokens"
  <2> DEFINE ms == Bindings(0, "createBNFT", "await")
  <2>1. PICK b \in Assets : Piece(p, Step("connect", 0), Step("await", b), ms)
    BY <1>11, BindPieces DEF Program
  <2>2. name \in TokenTasks \ FilingTasks /\ db.BNFTRegistry # 0
    BY <1>11 DEF FilingTasks, TokenTasks, Ready
  <2> HIDE DEF p
  <2>3. /\ \A s \in ms : Proper(name, s) /\ Founded(s)
        /\ \A a \in Assets : \E s \in ms : Item(s) /\ s.x = a
    BY <1>8, <2>2
  <2>4. Fits(name, p)
    BY <1>11, <2>1, <2>2, <2>3, PieceFits, StepIs
    DEF Unfinished, Item, ItemDos, Based, OfRegistry, RegistryOps, OwnerOps
  <2> QED BY <2>4 DEF p
<1>12. CASE name = "deploy-all"
  <2> DEFINE bs == Bindings(0, "bind", "enter")
             is == Deploying("BNFT")
             ls == Deploying("BNFTRegistryImpl")
             as == Deploying("ProxyAdmin")
             rs == Deploying("BNFTRegistry")
             ms == (((as \cup (is \cup ls)) \cup rs) \cup bs)
  <2>1. PICK b \in Assets : Piece(BindAll, Step("connect", 0), Step("enter", b), bs)
    BY BindPieces
  <2>2. Piece(Deploy("ProxyAdmin"), Step("deploy", "ProxyAdmin"), Step("save", "ProxyAdmin"), as)
        /\ Piece(Deploy("BNFTRegistry"), Step("deploy", "BNFTRegistry"),
                 Step("save", "BNFTRegistry"), rs)
    BY DeployPiece DEF Kinds
  <2>3. /\ Follows(Step("save", "ProxyAdmin"), Step("deploy", "BNFT"))
        /\ Follows(Step("save", "BNFTRegistryImpl"), Step("deploy", "BNFTRegistry"))
        /\ Follows(Step("save", "BNFTRegistry"), Step("connect", 0))
    BY StepIs DEF Follows, RegistryOps
  <2>4. Piece(RegistryImpls, Step("deploy", "BNFT"), Step("save", "BNFTRegistryImpl"), is \cup ls)
    BY ImplsPiece
  <2>5. p = ((Deploy("ProxyAdmin") \o RegistryImpls) \o Deploy("BNFTRegistry")) \o BindAll
    BY <1>12 DEF Program
  <2> HIDE DEF p, bs, is, ls, as, rs
  <2>6. Piece(Deploy("ProxyAdmin") \o RegistryImpls, Step("deploy", "ProxyAdmin"),
              Step("save", "BNFTRegistryImpl"), as \cup (is \cup ls))
    BY <2>2, <2>3, <2>4, Joined
  <2>7. Piece((Deploy("ProxyAdmin") \o RegistryImpls) \o Deploy("BNFTRegistry"),
              Step("deploy", "ProxyAdmin"), Step("save", "BNFTRegistry"),
              (as \cup (is \cup ls)) \cup rs)
    BY <2>2, <2>3, <2>6, Joined
  <2>8. Piece(p, Step("deploy", "ProxyAdmin"), Step("enter", b), ms)
    BY <2>1, <2>3, <2>5, <2>7, Joined
  <2>9. name \in FilingTasks /\ name \in TokenTasks /\ name # "transferOwnership"
    BY <1>12 DEF FilingTasks, TokenTasks
  <2>10. /\ \A s \in bs : Proper(name, s) /\ Founded(s)
         /\ \A a \in Assets : \E s \in bs : Item(s) /\ s.x = a
    BY <1>8, <2>9 DEF bs
  <2>11. \A s \in as \cup is \cup ls \cup rs : Proper(name, s) /\ Founded(s)
    BY <2>9, StepIs DEF is, ls, as, rs, Deploying, Proper, Founded, Item, ItemDos
  <2>12. /\ \A s \in ms : Proper(name, s) /\ Founded(s)
         /\ \A a \in Assets : \E s \in ms : Item(s) /\ s.x = a
    BY <2>10, <2>11
  <2> HIDE DEF ms
  <2>13. Fits(name, p)
    BY <2>8, <2>9, <2>12, PieceFits, StepIs
    DEF Unfinished, Item, ItemDos, Based, OfRegistry, RegistryOps, OwnerOps
  <2> QED BY <2>13 DEF p
<1>13. CASE name = "transferOwnership"
  <2> DEFINE ms == {Step("setClaimAdmin", "BNFTRegistry"),
                    Step("transferOwnership", "BNFTRegistry")}
                     \cup Both(HandOver, "setClaimAdmin", "transferOwnership")
  <2>1. PICK n \in Assets \cup {"BNFTRegistry"} :
          Piece(p, Step("setClaimAdmin", "BNFTRegistry"), Step("transferOwnership", n), ms)
    BY <1>13, HandPiece DEF Program
  <2>2. name \notin TokenTasks /\ db.BNFTRegistry # 0
    BY <1>13 DEF TokenTasks, Ready
  <2> HIDE DEF p
  <2>3. ASSUME NEW s \in ms PROVE Proper(name, s) /\ Founded(s)
    <3>1. s.do \in OwnerOps BY StepIs DEF Both, OwnerOps
    <3> QED BY <1>13, <2>2, <3>1
        DEF Proper, Founded, Item, ItemDos, OwnerOps, TokenTasks, FilingTasks
  <2>4. ASSUME NEW h \in HandNames, NEW do \in OwnerOps
        PROVE  \E s \in ms : s.do = do /\ s.x = h
    <3>1. Step(do, h) \in ms BY DEF HandNames, OwnerOps, Both
    <3> QED BY <3>1, StepIs
  <2> HIDE DEF ms
  <2>5. Fits(name, p)
    BY <1>13, <2>1, <2>2, <2>3, <2>4, PieceFits, StepIs
    DEF Unfinished, Item, ItemDos, Based, OfRegistry, RegistryOps, OwnerOps
  <2> QED BY <2>5 DEF p
<1> QED BY <1>2, <1>3, <1>4, <1>5, <1>6, <1>7, <1>9, <1>10, <1>11, <1>12, <1>13 DEF AllTasks

-----------------------------------------------------------------------------
\* A task goes on.

LEMMA IdleIs ==
  /\ Idle \in Tasks /\ Idle.name = "none" /\ Idle.todo = << >> /\ Idle.awaited = "nothing"
  /\ Idle.quiet = FALSE
  /\ \A t : t.name # "none" => t # Idle
  /\ \A t : t.todo # << >> => t # Idle
<1>1. << >> \in Seq(Steps) OBVIOUS
<1>2. Idle \in Tasks BY <1>1 DEF Idle, Tasks
<1>3. Idle.name = "none" /\ Idle.todo = << >> /\ Idle.awaited = "nothing" /\ Idle.quiet = FALSE
  BY DEF Idle
<1> QED BY <1>2, <1>3

LEMMA Rest ==
  ASSUME NEW p \in Seq(Steps), p # << >>, Linked(p), Finished(p)
  PROVE  /\ Len(p) \in Nat \ {0} /\ p[1] \in Steps /\ Head(p) = p[1]
         /\ Len(p) = 1 => /\ p[1].do \notin Unfinished
                          /\ \A s \in Range(p) : s = p[1]
         /\ Len(p) # 1 => LET q == Tail(p) IN
              /\ q \in Seq(Steps) /\ q # << >> /\ Linked(q) /\ Finished(q)
              /\ Head(q) = p[2] /\ Head(q) \in Steps /\ Follows(p[1], Head(q))
              /\ Range(q) \subseteq Range(p) /\ Head(q) \in Range(q)
              /\ \A s \in Range(p) : s = p[1] \/ s \in Range(q)
<1> DEFINE n == Len(p)
           q == Tail(p)
<1>1. n \in Nat \ {0} /\ DOMAIN p = 1..n /\ p[1] \in Steps /\ Head(p) = p[1] OBVIOUS
<1>2. ASSUME n = 1
      PROVE  p[1].do \notin Unfinished /\ \A s \in Range(p) : s = p[1]
  BY <1>1, <1>2 DEF Finished, Range
<1>3. ASSUME n # 1
      PROVE  /\ q \in Seq(Steps) /\ q # << >> /\ Linked(q) /\ Finished(q)
             /\ Head(q) = p[2] /\ Head(q) \in Steps /\ Follows(p[1], Head(q))
             /\ Range(q) \subseteq Range(p) /\ Head(q) \in Range(q)
             /\ \A s \in Range(p) : s = p[1] \/ s \in Range(q)
  <2>1. /\ q \in Seq(Steps) /\ Len(q) = n - 1 /\ n - 1 \in Nat \ {0}
        /\ \A k \in 1..(n - 1) : q[k] = p[k + 1]
    BY <1>1, <1>3
  <2>2. DOMAIN q = 1..(n - 1) BY <2>1
  <2> HIDE DEF q
  <2>3. q # << >>
    <3>1. Len(q) # 0 BY <2>1
    <3> QED BY <3>1
  <2>4. Linked(q)
    <3> SUFFICES ASSUME NEW k \in 1..(Len(q) - 1) PROVE Follows(q[k], q[k + 1])
      BY DEF Linked
    <3>1. k \in 1..(n - 1) /\ k + 1 \in 1..(n - 1) BY <2>1
    <3>2. q[k] = p[k + 1] /\ q[k + 1] = p[(k + 1) + 1] BY <2>1, <3>1
    <3> QED BY <3>1, <3>2 DEF Linked
  <2>5. Finished(q)
    <3>1. q[Len(q)] = p[n]
      <4>1. n - 1 \in 1..(n - 1) /\ (n - 1) + 1 = n BY <1>1, <2>1
      <4> QED BY <2>1, <4>1
    <3> QED BY <1>1, <3>1 DEF Finished
  <2>6. Head(q) = q[1] BY <2>1, <2>3
  <2>7. q[1] = p[2] /\ 1 \in DOMAIN q
    <3>1. 1 \in 1..(n - 1) /\ 1 + 1 = 2 BY <2>1
    <3> QED BY <2>1, <2>2, <3>1
  <2>8. q[1] \in Steps BY <2>1, <2>7
  <2>9. Follows(p[1], p[2])
    <3>1. 1 \in 1..(n - 1) /\ 1 + 1 = 2 BY <2>1
    <3> QED BY <3>1 DEF Linked
  <2>10. \A s \in Range(q) : s \in Range(p)
    <3> SUFFICES ASSUME NEW k \in 1..(n - 1) PROVE q[k] \in Range(p)
      BY <2>2 DEF Range
    <3>1. k + 1 \in 1..n BY <2>1
    <3> QED BY <1>1, <2>1, <3>1 DEF Range
  <2>11. \A s \in Range(p) : s = p[1] \/ s \in Range(q)
    <3> SUFFICES ASSUME NEW k \in 1..n PROVE p[k] = p[1] \/ p[k] \in Range(q)
      BY <1>1 DEF Range
    <3>1. CASE k = 1 BY <3>1
    <3>2. CASE k # 1
      <4>1. k - 1 \in 1..(n - 1) /\ (k - 1) + 1 = k BY <2>1, <3>2
      <4>2. q[k - 1] = p[k] BY <2>1, <4>1
      <4> QED BY <2>2, <4>1, <4>2 DEF Range
    <3> QED BY <3>1, <3>2
  <2>12. Head(q) \in Range(q) BY <2>6, <2>7 DEF Range
  <2> QED BY <2>1, <2>3, <2>4, <2>5, <2>6, <2>7, <2>8, <2>9, <2>10, <2>11, <2>12
<1> QED BY <1>1, <1>2, <1>3

\* The task has the same business and one step less to do.
Onward(w) ==
  /\ task' \in Tasks /\ task' # Idle /\ task'.todo # << >> /\ task'.name = task.name
  /\ task'.quiet = task.quiet /\ task'.awaited = w
  /\ Linked(task'.todo) /\ Finished(task'.todo)
  /\ Now' = task.todo[2] /\ Now' \in Steps /\ Now' \in Range(task'.todo) /\ Follows(Now, Now')
  /\ Range(task'.todo) \subseteq Range(task.todo)
  /\ \A s \in Range(task.todo) : s = Now \/ s \in Range(task'.todo)
  /\ done = Idle /\ done' = Idle

Over == /\ task' = Idle /\ done = Idle
        /\ Now.do \notin Unfinished /\ \A s \in Range(task.todo) : s = Now
        /\ done' = IF task.name \in Reported THEN task ELSE Idle

LEMMA NowIs ==
  ASSUME TypeInv, TaskInv, task # Idle
  PROVE  /\ Now \in Steps /\ Now \in Range(task.todo) /\ Now = task.todo[1]
         /\ Proper(task.name, Now) /\ Founded(Now) /\ task.name \in AllTasks
         /\ done = Idle /\ task.todo \in Seq(Steps) /\ task.todo # << >>
<1>1. task.todo \in Seq(Steps) /\ task.todo # << >> /\ task.name \in AllTasks
  BY DEF TypeInv, Tasks
<1>2. Now = task.todo[1] /\ Now \in Steps /\ 1 \in DOMAIN task.todo BY <1>1 DEF Now
<1>3. Now \in Range(task.todo) BY <1>2 DEF Range
<1> QED BY <1>1, <1>2, <1>3 DEF TypeInv, TaskInv

LEMMA Advances ==
  ASSUME TypeInv, TaskInv, task # Idle, NEW w \in {"nothing", "sent", "mined", "reverted", "lost"}, Advance(w)
  PROVE  /\ Len(task.todo) = 1 => Over
         /\ Len(task.todo) # 1 => Onward(w) /\ task'.reg = task.reg
                                  /\ task'.generic = task.generic
         /\ Over \/ (Onward(w) /\ task'.reg = task.reg /\ task'.generic = task.generic)
<1>1. /\ Now \in Steps /\ Now = task.todo[1] /\ done = Idle
      /\ task.todo \in Seq(Steps) /\ task.todo # << >> /\ task \in Tasks
      /\ Linked(task.todo) /\ Finished(task.todo)
  BY NowIs DEF TypeInv, TaskInv
<1> DEFINE p == task.todo
           q == Tail(p)
<1>2. ASSUME Len(p) = 1 PROVE Over
  <2>1. Now.do \notin Unfinished /\ \A s \in Range(p) : s = Now BY <1>1, <1>2, Rest
  <2> QED BY <1>1, <1>2, <2>1 DEF Over, Advance
<1>3. ASSUME Len(p) # 1
      PROVE  Onward(w) /\ task'.reg = task.reg /\ task'.generic = task.generic
  <2>1. /\ q \in Seq(Steps) /\ q # << >> /\ Linked(q) /\ Finished(q)
        /\ Head(q) = p[2] /\ Head(q) \in Steps /\ Follows(Now, Head(q))
        /\ Range(q) \subseteq Range(p) /\ Head(q) \in Range(q)
        /\ \A s \in Range(p) : s = Now \/ s \in Range(q)
    BY <1>1, <1>3, Rest
  <2>2. task' = [task EXCEPT !.todo = q, !.awaited = w] /\ done' = done
    BY <1>3 DEF Advance
  <2> HIDE DEF q
  <2>3. /\ task'.todo = q /\ task'.awaited = w /\ task'.name = task.name
        /\ task'.quiet = task.quiet /\ task'.reg = task.reg /\ task'.generic = task.generic
        /\ task' \in Tasks
    BY <1>1, <2>1, <2>2 DEF Tasks
  <2>4. task' # Idle BY <2>1, <2>3, IdleIs
  <2>5. Now' = Head(q) BY <2>3 DEF Now
  <2> QED BY <1>1, <2>1, <2>2, <2>3, <2>4, <2>5 DEF Onward
<1> QED BY <1>2, <1>3

LEMMA FollowsIs ==
  ASSUME NEW s \in Steps, NEW t \in Steps, Follows(s, t)
  PROVE  /\ t.do = "note" => s.do = "deploy" /\ t.x = s.x
         /\ t.do = "save" => s.do \in {"deploy", "note"} /\ t.x = s.x
         /\ Item(s) => Item(t)
         /\ Item(t) => Item(s) \/ s.do = "connect"
         /\ Item(t) /\ t.do \in {"enter", "await"} =>
              s.do \in {"bind", "rebind", "createBNFT"} /\ t.x = s.x
         /\ s.do \in {"bind", "rebind", "createBNFT"} =>
              Item(s) /\ Item(t) /\ t.x = s.x /\ t.do \in {"enter", "await"}
         /\ s.do = "connect" => Item(t) /\ t.do \notin {"note", "save", "enter", "await"}
         /\ OfRegistry(t) => OfRegistry(s) \/ s.do = "adopt"
         /\ t.do = "deploy" /\ t.x = "BNFTRegistry" => s.do = "save" /\ s.x = "BNFTRegistryImpl"
         /\ t.do = "connect" /\ t.x = 0 => s.do = "save" /\ s.x = "BNFTRegistry"
<1>1. /\ s.do \in ItemDos /\ s.do # "await" => s.x \in Assets
      /\ t.do \in ItemDos /\ t.do # "await" => t.x \in Assets
      /\ s.do = "await" => s.x \in Assets \cup {None}
      /\ t.do = "await" => t.x \in Assets \cup {None}
      /\ s.do \in RegistryOps => s.x = None
      /\ t.do \in RegistryOps => t.x = None
      /\ s.do \in {"deploy", "note", "save", "adopt", "connect"} \cup RegistryOps \cup ItemDos \cup OwnerOps
      /\ t.do \in {"deploy", "note", "save", "adopt", "connect"} \cup RegistryOps \cup ItemDos \cup OwnerOps
  BY DEF Steps, ItemDos, RegistryOps, OwnerOps
<1>2. None \notin Assets /\ "BNFTRegistry" \notin Assets BY Accounts
<1>3. /\ t.do = "note" => s.do = "deploy" /\ t.x = s.x
      /\ t.do = "save" => s.do \in {"deploy", "note"} /\ t.x = s.x
  BY <1>1 DEF Follows, ItemDos, RegistryOps, OwnerOps
<1>4. Item(s) => Item(t)
  BY <1>1, <1>2 DEF Item, Follows, ItemDos, RegistryOps, OwnerOps
<1>5. Item(t) => Item(s) \/ s.do = "connect"
  BY <1>1, <1>2 DEF Item, Follows, ItemDos, RegistryOps, OwnerOps
<1>6. Item(t) /\ t.do \in {"enter", "await"} =>
        s.do \in {"bind", "rebind", "createBNFT"} /\ t.x = s.x
  BY <1>1, <1>2 DEF Item, Follows, ItemDos, RegistryOps, OwnerOps
<1>7. s.do \in {"bind", "rebind", "createBNFT"} =>
        Item(s) /\ Item(t) /\ t.x = s.x /\ t.do \in {"enter", "await"}
  BY <1>1, <1>2 DEF Item, Follows, ItemDos, RegistryOps, OwnerOps
<1>8. s.do = "connect" => Item(t) /\ t.do \notin {"note", "save", "enter", "await"}
  BY <1>1, <1>2 DEF Item, Follows, ItemDos, RegistryOps, OwnerOps
<1>9. OfRegistry(t) => OfRegistry(s) \/ s.do = "adopt"
  BY <1>1, <1>2 DEF OfRegistry, Follows, ItemDos, RegistryOps, OwnerOps
<1>10. t.do = "deploy" /\ t.x = "BNFTRegistry" => s.do = "save" /\ s.x = "BNFTRegistryImpl"
  BY <1>1 DEF Follows, ItemDos, RegistryOps, OwnerOps
<1>11. t.do = "connect" /\ t.x = 0 => s.do = "save" /\ s.x = "BNFTRegistry"
  BY <1>1 DEF Follows, ItemDos, RegistryOps, OwnerOps
<1> QED BY <1>3, <1>4, <1>5, <1>6, <1>7, <1>8, <1>9, <1>10, <1>11

\* A step that sends nothing leaves the chain and what is sent alone.
Passing ==
  /\ Now.do \in {"save", "await", "adopt", "enter"} \cup Binds
  /\ task.awaited \in {"mined", "nothing"}
  /\ Advance("nothing") /\ chain' = chain /\ pending' = pending
  /\ db' \in Db /\ FileInv'
  /\ db.ProxyAdmin # 0 => db'.ProxyAdmin # 0
  /\ db.BNFTRegistry # 0 => db'.BNFTRegistry # 0
  /\ Now.do = "adopt" => db'.BNFTRegistry # 0
  /\ Now.do = "save" /\ Now.x \in {"BNFTRegistryImpl", "BNFTRegistry"} => db'.BNFTRegistry # 0
  /\ \A a \in Assets : db'.bound[a] = IF Now.do = "enter" /\ a = Now.x
                                      THEN task.reg ELSE db.bound[a]
  /\ Now.do \in Binds => Good(task, Now.x)

LEMMA IdleInv ==
  ASSUME TypeInv, chain' \in Storage, pending' \in Seq(Txs), db' \in Db, task' = Idle
  PROVE  /\ done' \in Tasks => TypeInv'
         /\ TaskInv' /\ HeadInv'
         /\ done'.name \notin TokenTasks => DoneInv'
         /\ done'.name # "transferOwnership" \/ ~done'.quiet => HandInv'
<1>1. task'.todo = << >> /\ task' \in Tasks /\ task'.name = "none" BY IdleIs
<1>2. Range(task'.todo) = {} BY <1>1 DEF Range
<1>3. Linked(task'.todo) /\ Finished(task'.todo) BY <1>1 DEF Linked, Finished
<1>4. TaskInv' BY <1>2, <1>3 DEF TaskInv
<1>5. HeadInv' BY DEF HeadInv, Idle
<1>6. done' \in Tasks => TypeInv' BY <1>1 DEF TypeInv, Idle
<1>7. done'.name \notin TokenTasks => DoneInv' BY DEF DoneInv
<1>8. done'.name # "transferOwnership" \/ ~done'.quiet => HandInv'
  BY <1>1 DEF HandInv, HandingOver
<1> QED BY <1>4, <1>5, <1>6, <1>7, <1>8

LEMMA PassOK ==
  ASSUME IInv, task # Idle, Passing
  PROVE  IInv'
<1>1. /\ TypeInv /\ ChainInv(chain) /\ TaskInv /\ PendingInv /\ HeadInv /\ DoneInv /\ HandInv
      /\ WaitInv /\ NowInv /\ QuietInv /\ TokenInv
  BY DEF IInv, HeadInv
<1>2. /\ Now \in Steps /\ Now \in Range(task.todo) /\ Proper(task.name, Now) /\ Founded(Now)
      /\ done = Idle /\ task \in Tasks /\ task.name \in AllTasks
  BY <1>1, NowIs DEF TypeInv
<1>3. chain' = chain /\ pending' = pending /\ db' \in Db /\ FileInv'
      /\ task.awaited \in {"mined", "nothing"}
      /\ Now.do \in {"save", "await", "adopt", "enter"} \cup Binds
  BY DEF Passing
<1>4. Over \/ (Onward("nothing") /\ task'.reg = task.reg /\ task'.generic = task.generic)
  BY <1>1, Advances DEF Passing
<1>5. chain' \in Storage /\ pending' \in Seq(Txs) /\ ChainInv(chain)' /\ PendingInv'
  BY <1>1, <1>3 DEF TypeInv, PendingInv
<1>6. task.name # "transferOwnership"
  BY <1>2, <1>3 DEF Proper, OwnerOps, Binds
<1>7. task.name \in TokenTasks /\ task.quiet => pending = << >>
  BY <1>1, <1>3 DEF QuietInv
\* A collection that is through stays so, and the one that is entered is.
<1>8. ASSUME NEW a \in Assets, task.name \in TokenTasks, Item(Now),
             Complete(task, a) \/ (Now.x = a /\ Now.do \in {"enter", "await"})
      PROVE  Good(task, a) /\ (task.name \in FilingTasks => db'.bound[a] = task.reg)
  <2>1. db'.bound[a] = IF Now.do = "enter" /\ a = Now.x THEN task.reg ELSE db.bound[a]
    BY DEF Passing
  <2>2. CASE Complete(task, a) BY <2>1, <2>2 DEF Complete
  <2>3. CASE Now.x = a /\ Now.do \in {"enter", "await"}
    <3>1. Good(task, a) BY <1>1, <1>3, <1>8, <2>3 DEF WaitInv, Settled
    <3>2. task.name \in FilingTasks => Now.do = "enter" BY <1>2, <2>3 DEF Proper
    <3> QED BY <2>1, <2>3, <3>1, <3>2
  <2> QED BY <1>8, <2>2, <2>3
<1>9. CASE Over
  <2>1. task' = Idle /\ Now.do \notin Unfinished /\ (\A s \in Range(task.todo) : s = Now)
        /\ done' = IF task.name \in Reported THEN task ELSE Idle
    BY <1>9 DEF Over
  <2>2. done' \in Tasks BY <1>2, <2>1, IdleIs
  <2>3. done'.name # "transferOwnership"
    BY <1>6, <2>1, IdleIs
  <2>4. DoneInv'
    <3>1. CASE task.name \notin TokenTasks
      BY <2>1, <3>1, IdleIs DEF DoneInv, Reported, TokenTasks
    <3>2. CASE task.name \in TokenTasks
      <4>1. done' = task BY <2>1, <3>2 DEF Reported
      <4>2. \A a \in Assets : Item(Now) /\ (Complete(task, a) \/ Now.x = a)
        BY <1>1, <2>1, <3>2 DEF TokenInv, ToCome
      <4>3. Assets # {}
        <5>1. 1 \in DOMAIN NftAssets BY AssetsTyped
        <5> QED BY <5>1 DEF Assets, Range
      <4>4. Item(Now) BY <4>2, <4>3
      <4>5. Now.do \in {"enter", "await"}
        BY <2>1, <4>4 DEF Unfinished, Item, ItemDos
      <4>6. \A a \in Assets : Good(task, a) /\ (task.name \in FilingTasks => db'.bound[a] = task.reg)
        BY <1>8, <3>2, <4>2, <4>4, <4>5
      <4>7. \A a \in Assets : Complete(done, a)'
        BY <1>3, <4>1, <4>6 DEF Complete, Good, GoodIn
      <4>8. task.reg \in Registries BY <1>1, <4>4 DEF NowInv
      <4> QED BY <1>3, <1>7, <3>2, <4>1, <4>7, <4>8 DEF DoneInv, Registries
    <3> QED BY <3>1, <3>2
  <2>5. TypeInv' /\ TaskInv' /\ HeadInv' /\ HandInv'
    BY <1>1, <1>3, <1>5, <2>1, <2>2, <2>3, IdleInv
  <2> QED BY <1>3, <1>5, <2>4, <2>5 DEF IInv
<1>10. CASE Onward("nothing") /\ task'.reg = task.reg /\ task'.generic = task.generic
  <2>1. /\ task' \in Tasks /\ task' # Idle /\ task'.todo # << >> /\ task'.name = task.name
        /\ task'.quiet = task.quiet /\ task'.awaited = "nothing"
        /\ Linked(task'.todo) /\ Finished(task'.todo)
        /\ Now' \in Steps /\ Now' \in Range(task'.todo) /\ Follows(Now, Now')
        /\ Range(task'.todo) \subseteq Range(task.todo)
        /\ \A s \in Range(task.todo) : s = Now \/ s \in Range(task'.todo)
        /\ done' = Idle
    BY <1>10 DEF Onward
  <2> DEFINE t == Now'
  <2>2. t \in Steps /\ Follows(Now, t) BY <2>1
  <2> HIDE DEF t
  <2>3. /\ t.do \in {"note", "save"} => Now.do \in {"deploy", "note"}
        /\ Item(Now) => Item(t)
        /\ Item(t) => Item(Now) \/ Now.do = "connect"
        /\ Item(t) /\ t.do \in {"enter", "await"} =>
             Now.do \in {"bind", "rebind", "createBNFT"} /\ t.x = Now.x
        /\ Now.do \in {"bind", "rebind", "createBNFT"} =>
             Item(Now) /\ Item(t) /\ t.x = Now.x /\ t.do \in {"enter", "await"}
        /\ OfRegistry(t) => OfRegistry(Now) \/ Now.do = "adopt"
        /\ t.do = "deploy" /\ t.x = "BNFTRegistry" => Now.do = "save" /\ Now.x = "BNFTRegistryImpl"
        /\ t.do = "connect" /\ t.x = 0 => Now.do = "save" /\ Now.x = "BNFTRegistry"
    BY <1>2, <2>2, FollowsIs
  <2>4. TypeInv' BY <1>1, <1>3, <1>5, <1>2, <2>1, IdleIs DEF TypeInv
  <2>5. TaskInv'
    <3>1. ASSUME NEW s \in Range(task'.todo) PROVE Proper(task'.name, s) /\ Founded(s)'
      <4>1. Proper(task.name, s) /\ Founded(s) BY <1>1, <2>1 DEF TaskInv
      <4> QED BY <1>3, <2>1, <4>1 DEF Founded, Registries, Passing
    <3> QED BY <2>1, <3>1 DEF TaskInv
  <2>6. WaitInv'
    <3>1. t.do \notin {"note", "save"} BY <1>3, <2>3 DEF Binds
    <3>2. ASSUME Item(t), t.do \in {"enter", "await"} PROVE GoodIn(chain', task', t.x)
      <4>1. Now.do \in Binds /\ t.x = Now.x BY <1>3, <2>3, <3>2 DEF Binds
      <4>2. GoodIn(chain, task, t.x) BY <4>1 DEF Passing, Good
      <4> QED BY <1>3, <1>10, <2>1, <4>2 DEF GoodIn
    <3> QED BY <2>1, <3>1, <3>2 DEF WaitInv, Good, t
  <2>7. NowInv'
    <3>1. Item(t) => task'.reg \in Registries'
      BY <1>1, <1>3, <1>10, <2>3 DEF NowInv, Registries, Binds
    <3>2. Based(db', t)
      <4>1. OfRegistry(t) => db'.BNFTRegistry # 0
        BY <1>1, <2>3 DEF NowInv, Based, Passing
      <4>2. t.do = "deploy" /\ t.x = "BNFTRegistry" => db'.BNFTRegistry # 0
        BY <2>3 DEF Passing
      <4>3. t.do = "connect" /\ t.x = 0 => db'.BNFTRegistry # 0
        BY <2>3 DEF Passing
      <4> QED BY <4>1, <4>2, <4>3 DEF Based
    <3> QED BY <3>1, <3>2 DEF NowInv, t
  <2>8. QuietInv'
    <3>1. task.name \in TokenTasks /\ task.quiet /\ Item(t)
            /\ chain'.registries[task'.reg].owner = Deployer =>
              task'.generic = chain'.registries[task'.reg].generic
      BY <1>1, <1>3, <1>10, <2>3 DEF QuietInv, Binds
    <3> QED BY <1>3, <1>7, <2>1, <3>1 DEF QuietInv, t
  <2>9. TokenInv'
    <3> SUFFICES ASSUME task.name \in TokenTasks, NEW a \in Assets
                 PROVE  ToCome(a)' \/ (Item(t) /\ Complete(task, a)')
      BY <2>1 DEF TokenInv, t
    <3>1. CASE \E s \in Range(task'.todo) : Item(s) /\ s.x = a
      BY <3>1 DEF ToCome
    <3>2. CASE Item(Now) /\ (Complete(task, a) \/ Now.x = a)
      <4>1. CASE Now.x = a /\ Now.do \in {"bind", "rebind", "createBNFT"}
        <5>1. Item(t) /\ t.x = a BY <2>3, <4>1
        <5>2. t \in Range(task'.todo) BY <2>1 DEF t
        <5> QED BY <5>1, <5>2 DEF ToCome
      <4>2. CASE Complete(task, a) \/ Now.do \notin {"bind", "rebind", "createBNFT"}
        <5>1. Now.do \in {"bind", "rebind", "createBNFT", "enter", "await"}
          BY <3>2 DEF Item, ItemDos
        <5>2. Good(task, a) /\ (task.name \in FilingTasks => db'.bound[a] = task.reg)
          BY <1>8, <3>2, <4>2, <5>1
        <5>3. Complete(task, a)'
          BY <1>3, <1>10, <2>1, <5>2 DEF Complete, Good, GoodIn
        <5> QED BY <2>3, <3>2, <5>3
      <4> QED BY <3>2, <4>1, <4>2
    <3>3. ToCome(a) => (\E s \in Range(task'.todo) : Item(s) /\ s.x = a) \/ (Item(Now) /\ Now.x = a)
      BY <2>1 DEF ToCome
    <3> QED BY <1>1, <3>1, <3>2, <3>3 DEF TokenInv
  <2>10. HeadInv' BY <2>6, <2>7, <2>8, <2>9 DEF HeadInv
  <2>11. DoneInv' /\ HandInv'
    BY <1>6, <2>1, IdleIs DEF DoneInv, HandInv, HandingOver, TokenTasks
  <2> QED BY <1>3, <1>5, <2>4, <2>5, <2>10, <2>11 DEF IInv
<1> QED BY <1>4, <1>9, <1>10

\* The transactions of a kind are counted.
LEMMA SentIs ==
  ASSUME pending \in Seq(Txs), NEW kind
  PROVE  /\ IsFiniteSet({k \in DOMAIN pending : pending[k].op = kind})
         /\ Sent(kind) \in Nat
<1> DEFINE S == {k \in DOMAIN pending : pending[k].op = kind}
<1>1. Len(pending) \in Nat /\ DOMAIN pending = 1..Len(pending) OBVIOUS
<1>2. IsFiniteSet(1..Len(pending)) BY <1>1, FS_Interval
<1>3. S \subseteq 1..Len(pending) BY <1>1
<1>4. IsFiniteSet(S) BY <1>2, <1>3, FS_Subset
<1>5. Cardinality(S) \in Nat BY <1>4, FS_CardinalityType
<1> QED BY <1>4, <1>5 DEF Sent

\* When nothing is on its way, the newest contract is the last.
LEMMA NewestIs ==
  ASSUME TypeInv, pending = << >>, NEW kind \in Kinds
  PROVE  Newest(kind) = Count(kind)
<1>1. /\ chain.admins \in Nat /\ chain.impls \in Nat /\ Len(chain.registries) \in Nat
  BY DEF TypeInv, Storage
<1>2. ASSUME NEW k PROVE Sent(k) = 0
  <2>1. {i \in DOMAIN pending : pending[i].op = k} = {} OBVIOUS
  <2>2. Cardinality({}) = 0 BY FS_EmptySet
  <2> QED BY <2>1, <2>2 DEF Sent
<1> QED BY <1>1, <1>2 DEF Newest, Count

LEMMA FileIs ==
  ASSUME TypeInv, FileInv
  PROVE  /\ db.ProxyAdmin \in Nat /\ db.BNFT \in Nat /\ db.BNFTRegistry \in Nat
         /\ db.bound \in [Assets -> Nat] /\ Len(chain.registries) \in Nat
         /\ Registries = 1..Len(chain.registries)
         /\ db.BNFTRegistry # 0 => db.BNFTRegistry \in Registries
         /\ \A a \in Assets : db.bound[a] # 0 => /\ db.bound[a] \in Registries
                                                /\ chain.registries[db.bound[a]].bnfts[a] # None
<1>1. /\ db.ProxyAdmin \in Nat /\ db.BNFT \in Nat /\ db.BNFTRegistry \in Nat
      /\ db.bound \in [Assets -> Nat] /\ Len(chain.registries) \in Nat
      /\ Registries = 1..Len(chain.registries)
  BY DEF TypeInv, Db, Storage, Registries
<1> QED BY <1>1 DEF FileInv

LEMMA SaveOK ==
  ASSUME IInv, save
  PROVE  IInv'
<1>1. /\ TypeInv /\ FileInv /\ WaitInv /\ task # Idle /\ Now.do = "save" /\ Settled
      /\ TaskInv
  BY DEF IInv, HeadInv, save, At
<1>2. Now \in Steps /\ Now.x \in Kinds
  <2>1. Now \in Steps BY <1>1, NowIs
  <2> QED BY <1>1, <2>1 DEF Steps, ItemDos, RegistryOps, OwnerOps
<1>3. task.awaited = "mined" /\ pending = << >> /\ Count(Now.x) # 0
  BY <1>1 DEF WaitInv, Settled
<1> DEFINE k == Key(Now.x)
           n == Count(Now.x)
<1>4. db' = [db EXCEPT ![k] = n] BY <1>1, <1>2, <1>3, NewestIs DEF save
<1>5. /\ db.ProxyAdmin \in Nat /\ db.BNFT \in Nat /\ db.BNFTRegistry \in Nat
      /\ db.bound \in [Assets -> Nat] /\ db \in Db
      /\ chain.admins \in Nat /\ chain.impls \in Nat /\ Len(chain.registries) \in Nat
  BY <1>1, FileIs DEF TypeInv, Storage
<1>6. /\ n \in Nat /\ n # 0
      /\ \/ k = "ProxyAdmin" /\ n <= chain.admins
         \/ k = "BNFT" /\ n <= chain.impls
         \/ k = "BNFTRegistry" /\ n <= Len(chain.registries)
      /\ Now.x \in {"BNFTRegistryImpl", "BNFTRegistry"} => k = "BNFTRegistry"
  BY <1>2, <1>3, <1>5 DEF Key, Kinds, Count
<1> HIDE DEF k, n
<1>7. /\ db' \in Db /\ db'.bound = db.bound
      /\ db'.ProxyAdmin = (IF k = "ProxyAdmin" THEN n ELSE db.ProxyAdmin)
      /\ db'.BNFT = (IF k = "BNFT" THEN n ELSE db.BNFT)
      /\ db'.BNFTRegistry = (IF k = "BNFTRegistry" THEN n ELSE db.BNFTRegistry)
  BY <1>4, <1>5, <1>6 DEF Db
<1>8. chain' = chain /\ pending' = pending /\ Advance("nothing") BY DEF save
<1>9. FileInv' BY <1>1, <1>6, <1>7, <1>8 DEF FileInv
<1>10. Passing BY <1>1, <1>3, <1>6, <1>7, <1>8, <1>9 DEF Passing, Binds
<1> QED BY <1>1, <1>10, PassOK

\* A note leaves all but the address noted alone.
LEMMA NoteOK ==
  ASSUME IInv, note
  PROVE  IInv'
<1> DEFINE w == task.awaited
           n == Newest(Now.x) + IF task.awaited = "lost" THEN 1 ELSE 0
<1>1. /\ TypeInv /\ ChainInv(chain) /\ TaskInv /\ FileInv /\ PendingInv /\ WaitInv /\ NowInv
      /\ QuietInv /\ TokenInv /\ task # Idle /\ Now.do = "note"
      /\ chain' = chain /\ pending' = pending /\ Advance(w)
      /\ db' = [db EXCEPT !.BNFTRegistryImpl = n]
  BY DEF IInv, HeadInv, note, At
<1>2. /\ Now \in Steps /\ Proper(task.name, Now) /\ done = Idle
      /\ task \in Tasks /\ task.name \in AllTasks
      /\ w \in {"sent", "mined", "reverted", "lost"}
  BY <1>1, NowIs DEF TypeInv, Tasks, WaitInv
<1>3. n \in Nat
  <2>1. \A kind : Sent(kind) \in Nat BY <1>1, SentIs DEF TypeInv
  <2>2. chain.admins \in Nat /\ chain.impls \in Nat /\ Len(chain.registries) \in Nat
    BY <1>1 DEF TypeInv, Storage
  <2> QED BY <2>1, <2>2 DEF Newest
<1>4. /\ db' \in Db /\ db'.ProxyAdmin = db.ProxyAdmin /\ db'.BNFT = db.BNFT
      /\ db'.BNFTRegistry = db.BNFTRegistry /\ db'.bound = db.bound
  <2> HIDE DEF n
  <2> QED BY <1>1, <1>3 DEF TypeInv, Db
<1>5. Onward(w) /\ task'.reg = task.reg /\ task'.generic = task.generic
  <2>1. Over \/ (Onward(w) /\ task'.reg = task.reg /\ task'.generic = task.generic)
    BY <1>1, <1>2, Advances
  <2> QED BY <1>1, <2>1 DEF Over, Unfinished
<1> HIDE DEF w, n
<1> DEFINE t == Now'
<1>6. /\ task' \in Tasks /\ task' # Idle /\ task'.todo # << >> /\ task'.name = task.name
      /\ task'.quiet = task.quiet /\ task'.awaited = w
      /\ Linked(task'.todo) /\ Finished(task'.todo) /\ t \in Steps /\ Follows(Now, t)
      /\ Range(task'.todo) \subseteq Range(task.todo)
      /\ \A s \in Range(task.todo) : s = Now \/ s \in Range(task'.todo)
      /\ done' = Idle
  BY <1>5 DEF Onward
<1> HIDE DEF t
<1>7. t.do = "save" /\ t.x = Now.x BY <1>1, <1>6 DEF Follows
<1>8. ~Item(Now) /\ ~Item(t) BY <1>1, <1>7 DEF Item, ItemDos
<1>9. TypeInv' BY <1>1, <1>2, <1>4, <1>6, IdleIs DEF TypeInv
<1>10. TaskInv'
  <2>1. ASSUME NEW s \in Range(task'.todo) PROVE Proper(task'.name, s) /\ Founded(s)'
    <3>1. Proper(task.name, s) /\ Founded(s) BY <1>1, <1>6 DEF TaskInv
    <3> QED BY <1>1, <1>4, <1>6, <3>1 DEF Founded, Registries
  <2> QED BY <1>6, <2>1 DEF TaskInv
<1>11. FileInv' /\ PendingInv' BY <1>1, <1>4 DEF FileInv, PendingInv
<1>12. WaitInv'
  <2>1. w = "sent" => pending # << >> /\ pending[Len(pending)].op = t.x
    BY <1>1, <1>7 DEF WaitInv, SentFor, w
  <2>2. w \in {"mined", "reverted"} => pending = << >> BY <1>1 DEF WaitInv, w
  <2>3. w = "mined" => Count(Now.x)' # 0 BY <1>1, <1>7 DEF WaitInv, Count, w, t
  <2>4. w # "nothing" BY <1>2
  <2> QED BY <1>1, <1>6, <1>7, <1>8, <2>1, <2>2, <2>3, <2>4 DEF WaitInv, SentFor, t
<1>13. NowInv' /\ QuietInv'
  <2>1. Based(db', t) BY <1>7 DEF Based, OfRegistry, RegistryOps, OwnerOps
  <2> QED BY <1>1, <1>6, <1>8, <2>1 DEF NowInv, QuietInv, w, t
<1>14. TokenInv'
  <2>1. \A a \in Assets : task.name \in TokenTasks => ToCome(a)'
    BY <1>1, <1>6, <1>8 DEF TokenInv, ToCome
  <2> QED BY <1>6, <2>1 DEF TokenInv
<1>15. DoneInv' /\ HandInv'
  <2>1. task.name # "transferOwnership" BY <1>1, <1>2 DEF Proper, OwnerOps
  <2> QED BY <1>6, <2>1, IdleIs DEF DoneInv, HandInv, HandingOver, TokenTasks
<1> QED BY <1>1, <1>9, <1>10, <1>11, <1>12, <1>13, <1>14, <1>15 DEF IInv, HeadInv

LEMMA AwaitOK ==
  ASSUME IInv, await
  PROVE  IInv'
<1>1. /\ TypeInv /\ FileInv /\ task # Idle /\ Now.do = "await" /\ Settled
      /\ chain' = chain /\ pending' = pending /\ db' = db /\ Advance("nothing")
  BY DEF IInv, await, At
<1>2. db' \in Db /\ FileInv' BY <1>1 DEF TypeInv, FileInv
<1>3. Passing BY <1>1, <1>2 DEF Passing, Settled, Binds
<1> QED BY <1>1, <1>3, PassOK

LEMMA AdoptOK ==
  ASSUME IInv, adopt
  PROVE  IInv'
<1>1. /\ TypeInv /\ FileInv /\ TaskInv /\ WaitInv /\ task # Idle /\ Now.do = "adopt"
      /\ chain' = chain /\ pending' = pending /\ db' = [db EXCEPT !.BNFTRegistry = Now.x]
      /\ Advance("nothing")
  BY DEF IInv, HeadInv, adopt, At
<1>2. task.awaited = "nothing" BY <1>1 DEF WaitInv
<1>3. Now.x \in Registries BY <1>1, NowIs DEF Founded
<1>4. Now.x \in Nat /\ Now.x # 0 /\ Now.x <= Len(chain.registries) BY <1>1, <1>3, FileIs
<1> DEFINE x == Now.x
<1> HIDE DEF x
<1>5. /\ db' \in Db /\ db'.bound = db.bound /\ db'.ProxyAdmin = db.ProxyAdmin
      /\ db'.BNFT = db.BNFT /\ db'.BNFTRegistry = x
  BY <1>1, <1>4 DEF Db, TypeInv, x
<1>6. FileInv' BY <1>1, <1>4, <1>5 DEF FileInv, x
<1>7. Passing BY <1>1, <1>2, <1>4, <1>5, <1>6 DEF Passing, Binds, x
<1> QED BY <1>1, <1>7, PassOK

LEMMA BoundOK ==
  ASSUME IInv, bound
  PROVE  IInv'
<1>1. /\ TypeInv /\ FileInv /\ TaskInv /\ WaitInv /\ NowInv /\ QuietInv
      /\ task # Idle /\ Now.do \in Binds /\ BindTx(Now.x) = {}
      /\ chain' = chain /\ pending' = pending /\ db' = db /\ Advance("nothing")
  BY DEF IInv, HeadInv, bound
<1>2. task.awaited = "nothing" BY <1>1 DEF WaitInv, Binds
<1>3. Item(Now) /\ task.name \in TokenTasks
  <2>1. Now \in Steps /\ Proper(task.name, Now) BY <1>1, NowIs
  <2>2. Now.x \in Assets BY <1>1, <2>1 DEF Binds, Steps, RegistryOps, OwnerOps
  <2>3. Item(Now) BY <1>1, <2>2 DEF Item, ItemDos, Binds
  <2> QED BY <2>1, <2>3 DEF Proper
<1> DEFINE b == chain.registries[task.reg].bnfts[Now.x]
<1>4. b # None /\ b.impl = task.generic BY <1>1 DEF BindTx
<1>5. Good(task, Now.x) BY <1>1, <1>3, <1>4 DEF Good, GoodIn, QuietInv
<1>6. db' \in Db /\ FileInv' BY <1>1 DEF TypeInv, FileInv
<1>7. Passing BY <1>1, <1>2, <1>5, <1>6 DEF Passing, Binds
<1> QED BY <1>1, <1>7, PassOK

LEMMA EnterOK ==
  ASSUME IInv, enter
  PROVE  IInv'
<1>1. /\ TypeInv /\ FileInv /\ TaskInv /\ WaitInv /\ NowInv
      /\ task # Idle /\ Now.do = "enter" /\ Settled
      /\ chain' = chain /\ pending' = pending /\ db' = [db EXCEPT !.bound[Now.x] = task.reg]
      /\ Advance("nothing")
  BY DEF IInv, HeadInv, enter, At
<1>2. Item(Now) /\ Now.x \in Assets
  <2>1. Now \in Steps BY <1>1, NowIs
  <2>2. Now.x \in Assets BY <1>1, <2>1 DEF Steps, RegistryOps, OwnerOps
  <2> QED BY <1>1, <2>2 DEF Item, ItemDos
<1>3. Good(task, Now.x) /\ task.reg \in Registries BY <1>1, <1>2 DEF WaitInv, NowInv
<1>4. task.reg \in Nat /\ task.reg # 0 /\ task.reg <= Len(chain.registries) BY <1>1, <1>3, FileIs
<1> DEFINE x == Now.x
           r == task.reg
           bs == [db.bound EXCEPT ![x] = r]
<1>5. db' = [db EXCEPT !.bound = bs] BY <1>1
<1>6. /\ x \in Assets /\ r \in Nat /\ r # 0 /\ r <= Len(chain.registries)
      /\ chain.registries[r].bnfts[x] # None
  BY <1>2, <1>3, <1>4 DEF Good, GoodIn
<1> HIDE DEF x, r
<1>7. db.bound \in [Assets -> Nat] /\ db \in Db BY <1>1, FileIs DEF TypeInv
<1>8. /\ bs \in [Assets -> Nat]
      /\ \A a \in Assets : bs[a] = IF a = x THEN r ELSE db.bound[a]
  BY <1>6, <1>7
<1> HIDE DEF bs
<1>9. /\ db' \in Db /\ db'.bound = bs /\ db'.ProxyAdmin = db.ProxyAdmin
      /\ db'.BNFT = db.BNFT /\ db'.BNFTRegistry = db.BNFTRegistry
  BY <1>5, <1>7, <1>8 DEF Db
<1>10. FileInv' BY <1>1, <1>6, <1>8, <1>9 DEF FileInv
<1>11. Passing BY <1>1, <1>8, <1>9, <1>10 DEF Passing, Binds, Settled, x, r
<1> QED BY <1>1, <1>11, PassOK

LEMMA StopOK ==
  ASSUME IInv, task # Idle, task' = Idle, UNCHANGED <<chain, pending, db, done>>
  PROVE  IInv'
<1>1. /\ TypeInv /\ ChainInv(chain) /\ PendingInv /\ FileInv /\ done = Idle
  BY DEF IInv, TypeInv
<1>2. /\ chain' \in Storage /\ pending' \in Seq(Txs) /\ db' \in Db /\ ChainInv(chain)'
      /\ PendingInv' /\ FileInv'
  BY <1>1 DEF TypeInv, PendingInv, FileInv
<1>3. done' \in Tasks /\ done'.name = "none" BY <1>1, IdleIs
<1>4. TypeInv' /\ TaskInv' /\ HeadInv' /\ DoneInv' /\ HandInv'
  BY <1>1, <1>2, <1>3, IdleInv DEF TokenTasks
<1> QED BY <1>2, <1>4 DEF IInv

LEMMA StartOK ==
  ASSUME IInv, NEW name \in TaskNames, NEW x \in Arguments(name), Start(name, x)
  PROVE  IInv'
<1> DEFINE p == Program(name, x)
<1>1. /\ TypeInv /\ ChainInv(chain) /\ TaskInv /\ PendingInv /\ FileInv
      /\ task = Idle /\ Ready(name, x) /\ name \in AllTasks
      /\ task' = [Idle EXCEPT !.name = name, !.todo = p, !.quiet = (pending = << >>)]
      /\ done' = Idle /\ chain' = chain /\ pending' = pending /\ db' = db
  BY TasksListed DEF IInv, Start
<1>2. Fits(name, p) BY <1>1, ProgramFits
<1> HIDE DEF p
<1>3. /\ task'.name = name /\ task'.todo = p /\ task'.quiet = (pending = << >>)
      /\ task'.awaited = "nothing" /\ task'.reg = 0 /\ task'.generic = 0
  BY <1>1 DEF Idle
<1>4. task' = [name |-> name, todo |-> p, reg |-> 0, generic |-> 0, awaited |-> "nothing",
               quiet |-> (pending = << >>)]
  BY <1>1 DEF Idle
<1>5. /\ p \in Seq(Steps) /\ p # << >> /\ Linked(p) /\ Finished(p)
      /\ \A s \in Range(p) : Proper(name, s) /\ Founded(s)
      /\ p[1].do \notin {"note", "save", "enter", "await"} /\ ~Item(p[1]) /\ Based(db, p[1])
      /\ name = "transferOwnership" => p[1].do # "transferOwnership"
      /\ name \in TokenTasks => \A a \in Assets : \E s \in Range(p) : Item(s) /\ s.x = a
      /\ name = "transferOwnership" =>
           \A n \in HandNames, do \in OwnerOps : \E s \in Range(p) : s.do = do /\ s.x = n
  BY <1>2 DEF Fits
<1>6. task' \in Tasks /\ task' # Idle
  <2>1. (pending = << >>) \in BOOLEAN OBVIOUS
  <2> DEFINE q == (pending = << >>)
  <2> HIDE DEF q
  <2>2. q \in BOOLEAN BY <2>1 DEF q
  <2>3. task' = [name |-> name, todo |-> p, reg |-> 0, generic |-> 0, awaited |-> "nothing",
                 quiet |-> q]
    BY <1>4 DEF q
  <2>4. task' \in Tasks BY <1>1, <1>5, <2>2, <2>3 DEF Tasks
  <2>5. task' # Idle BY <1>3, <1>5, IdleIs
  <2> QED BY <2>4, <2>5
<1>7. Now' = p[1] BY <1>3, <1>5 DEF Now
<1>8. TypeInv'
  <2>1. name # "none" BY <1>1 DEF AllTasks
  <2> QED BY <1>1, <1>3, <1>5, <1>6, <2>1, IdleIs DEF TypeInv
<1>9. TaskInv' BY <1>1, <1>3, <1>5 DEF TaskInv, Founded, Registries
<1>10. WaitInv' BY <1>3, <1>5, <1>7 DEF WaitInv
<1>11. NowInv' BY <1>1, <1>5, <1>7 DEF NowInv
<1>12. QuietInv' BY <1>1, <1>3, <1>5, <1>7 DEF QuietInv
<1>13. TokenInv' BY <1>3, <1>5 DEF TokenInv, ToCome
<1>14. DoneInv' BY <1>1, IdleIs DEF DoneInv, TokenTasks
<1>15. HandInv'
  <2> SUFFICES ASSUME HandingOver' PROVE HandInv' BY DEF HandInv
  <2>1. name = "transferOwnership" /\ pending = << >>
    BY <1>1, <1>3, IdleIs DEF HandingOver
  <2>2. ClaimedFirst(chain', pending')
    <3>1. DOMAIN pending' = {} BY <1>1, <2>1
    <3> QED BY <3>1 DEF ClaimedFirst
  <2>3. HandedSoFar(chain', pending', db', task'.todo)
    BY <1>3, <1>5, <2>1 DEF HandedSoFar, Left, OwnerOps
  <2>4. ToGive(chain', pending', db', Now') BY <1>5, <1>7, <2>1 DEF ToGive
  <2> QED BY <2>2, <2>3, <2>4 DEF HandInv
<1>16. ChainInv(chain)' /\ PendingInv' /\ FileInv'
  BY <1>1 DEF PendingInv, FileInv
<1> QED BY <1>8, <1>9, <1>10, <1>11, <1>12, <1>13, <1>14, <1>15, <1>16 DEF IInv, HeadInv

LEMMA ConnectOK ==
  ASSUME IInv, connect
  PROVE  IInv'
<1> DEFINE r == IF Now.x # 0 THEN Now.x ELSE db.BNFTRegistry
           q == Tail(task.todo)
<1>1. /\ TypeInv /\ ChainInv(chain) /\ TaskInv /\ PendingInv /\ FileInv
      /\ WaitInv /\ NowInv /\ QuietInv /\ TokenInv /\ HandInv
      /\ task # Idle /\ Now.do = "connect"
      /\ task' = [task EXCEPT !.todo = q, !.reg = r, !.generic = chain.registries[r].generic]
      /\ chain' = chain /\ pending' = pending /\ db' = db /\ done' = done
  BY DEF IInv, HeadInv, connect, At
<1>2. /\ Now \in Steps /\ Proper(task.name, Now) /\ Founded(Now) /\ task \in Tasks
      /\ done = Idle /\ Now = task.todo[1] /\ task.todo \in Seq(Steps) /\ task.todo # << >>
      /\ task.name \in AllTasks
  BY <1>1, NowIs DEF TypeInv
<1>3. /\ Len(task.todo) # 1
      /\ q \in Seq(Steps) /\ q # << >> /\ Linked(q) /\ Finished(q)
      /\ Head(q) \in Steps /\ Follows(Now, Head(q))
      /\ Range(q) \subseteq Range(task.todo)
      /\ \A s \in Range(task.todo) : s = Now \/ s \in Range(q)
  BY <1>1, <1>2, Rest DEF TaskInv, Unfinished
<1>4. r \in Registries
  BY <1>1, <1>2, FileIs DEF Founded, NowInv, Based
<1>5. r \in Nat /\ chain.registries[r].generic \in Nat
  BY <1>1, <1>4, FileIs, RegistryTyped DEF Registries
<1> DEFINE g == chain.registries[r].generic
<1>6. g \in Nat /\ g = chain'.registries[r].generic BY <1>1, <1>5
<1>7. task' = [task EXCEPT !.todo = q, !.reg = r, !.generic = g] BY <1>1
<1> HIDE DEF r, q, g
<1>8. /\ task' \in Tasks /\ task'.todo = q /\ task'.reg = r /\ task'.generic = g
      /\ task'.name = task.name /\ task'.quiet = task.quiet /\ task'.awaited = task.awaited
  BY <1>2, <1>3, <1>5, <1>6, <1>7 DEF Tasks
<1>9. task' # Idle BY <1>3, <1>8, IdleIs
<1> DEFINE t == Head(q)
<1>10. Now' = t BY <1>8 DEF Now
<1>11. Item(t) /\ t.do \notin {"note", "save", "enter", "await"}
  BY <1>1, <1>2, <1>3, FollowsIs
<1> HIDE DEF t
<1>12. task.awaited = "nothing" BY <1>1 DEF WaitInv
<1>13. TypeInv' BY <1>1, <1>2, <1>3, <1>8, <1>9 DEF TypeInv
<1>14. TaskInv' BY <1>1, <1>3, <1>8 DEF TaskInv, Founded, Registries
<1>15. WaitInv' BY <1>8, <1>10, <1>11, <1>12 DEF WaitInv
<1>16. NowInv'
  <2>1. Based(db', t) BY <1>1, <1>11, Accounts DEF Based, Item, ItemDos, OfRegistry, RegistryOps, OwnerOps
  <2> QED BY <1>1, <1>4, <1>8, <1>10, <2>1 DEF NowInv, Registries
<1>17. QuietInv' BY <1>1, <1>6, <1>8, <1>12 DEF QuietInv
<1>18. TokenInv'
  <2>1. ~Item(Now) BY <1>1 DEF Item, ItemDos
  <2>2. \A a \in Assets : task.name \in TokenTasks => ToCome(a)' 
    BY <1>1, <1>3, <1>8, <2>1 DEF TokenInv, ToCome
  <2> QED BY <1>8, <2>2 DEF TokenInv
<1>19. DoneInv' BY <1>1, <1>2, IdleIs DEF DoneInv, TokenTasks
<1>20. HandInv'
  <2>1. task.name # "transferOwnership" BY <1>1, <1>2 DEF Proper, OwnerOps
  <2> QED BY <1>1, <1>2, <1>8, <2>1, IdleIs DEF HandInv, HandingOver
<1>21. ChainInv(chain)' /\ PendingInv' /\ FileInv'
  BY <1>1 DEF PendingInv, FileInv
<1> QED BY <1>13, <1>14, <1>15, <1>16, <1>17, <1>18, <1>19, <1>20, <1>21 DEF IInv, HeadInv

LEMMA LoseOK ==
  ASSUME IInv, Lose
  PROVE  IInv'
<1>1. /\ TypeInv /\ ChainInv(chain) /\ TaskInv /\ PendingInv /\ FileInv /\ DoneInv
      /\ HeadInv /\ pending # << >> /\ chain' = chain /\ db' = db
  BY DEF IInv, Lose
<1>2. /\ pending \in Seq(Txs) /\ task \in Tasks /\ done \in Tasks
      /\ done # Idle => task = Idle
      /\ task # Idle => task.name # "none" /\ task.todo # << >>
  BY <1>1 DEF TypeInv
<1>3. PICK k \in 0..(Len(pending) - 1) : pending' = SubSeq(pending, 1, k) BY DEF Lose
<1>4. /\ pending' \in Seq(Txs) /\ Len(pending') = k /\ k \in Nat
      /\ \A i \in 1..k : pending'[i] = pending[i] /\ i \in 1..Len(pending)
  <2>1. Len(pending) \in Nat /\ k \in Nat /\ k <= Len(pending) BY <1>2
  <2>2. \A i \in 1..k : i \in 1..Len(pending) BY <2>1
  <2>3. /\ SubSeq(pending, 1, k) \in Seq(Txs) /\ Len(SubSeq(pending, 1, k)) = k
        /\ \A i \in 1..k : SubSeq(pending, 1, k)[i] = pending[i]
    BY <1>2, <2>1
  <2> QED BY <1>3, <2>1, <2>2, <2>3
<1>5. PendingInv'
  <2> SUFFICES ASSUME NEW i \in DOMAIN pending' PROVE Sound(chain', pending'[i])
    BY DEF PendingInv
  <2>1. i \in 1..k BY <1>4
  <2>2. pending'[i] = pending[i] /\ i \in DOMAIN pending BY <1>2, <1>4, <2>1
  <2> QED BY <1>1, <2>2 DEF PendingInv
<1>6. CASE task = Idle
  <2>1. task' = Idle BY <1>6 DEF Lose
  <2>2. done = Idle => done' = Idle BY DEF Lose
  <2>3. done # Idle => /\ done' \in Tasks /\ done'.name = done.name /\ done'.reg = done.reg
                       /\ done'.quiet = FALSE
    <3>1. done # Idle => done' = [done EXCEPT !.quiet = FALSE] BY DEF Lose
    <3>2. done # Idle => /\ [done EXCEPT !.quiet = FALSE] \in Tasks
                         /\ [done EXCEPT !.quiet = FALSE].name = done.name
                         /\ [done EXCEPT !.quiet = FALSE].reg = done.reg
                         /\ [done EXCEPT !.quiet = FALSE].quiet = FALSE
      BY <1>2 DEF Tasks
    <3> QED BY <3>1, <3>2
  <2>4. DoneInv'
    <3>1. CASE done = Idle BY <2>2, <3>1, IdleIs DEF DoneInv, TokenTasks
    <3>2. CASE done # Idle
      <4> SUFFICES ASSUME done.name \in TokenTasks
                   PROVE  /\ done'.reg \in Registries'
                          /\ \A a \in Assets : Complete(done, a)'
        BY <2>3, <3>2 DEF DoneInv
      <4> QED BY <1>1, <2>3, <3>2 DEF DoneInv, Complete, Good, GoodIn, Registries
    <3> QED BY <3>1, <3>2
  <2>5. done' \in Tasks /\ (done'.name # "transferOwnership" \/ ~done'.quiet)
    BY <2>2, <2>3, IdleIs
  <2>6. chain' \in Storage /\ db' \in Db /\ FileInv' /\ ChainInv(chain)'
    BY <1>1 DEF TypeInv, FileInv
  <2>7. TypeInv' /\ TaskInv' /\ HeadInv' /\ HandInv' BY <1>1, <1>4, <2>1, <2>5, <2>6, IdleInv
  <2> QED BY <1>5, <2>4, <2>6, <2>7 DEF IInv
<1>7. CASE task # Idle
  <2>1. done = Idle /\ done' = Idle BY <1>2, <1>7 DEF Lose
  <2> DEFINE w == IF task.awaited = "sent" THEN "lost" ELSE task.awaited
  <2>2. task' = [task EXCEPT !.quiet = FALSE, !.awaited = w]
    BY <1>7 DEF Lose
  <2>3. w \in {"nothing", "mined", "reverted", "lost"} BY <1>2 DEF Tasks
  <2> HIDE DEF w
  <2>4. /\ task' \in Tasks /\ task'.name = task.name /\ task'.todo = task.todo
        /\ task'.reg = task.reg /\ task'.generic = task.generic
        /\ task'.quiet = FALSE /\ task'.awaited = w
    BY <1>2, <2>2, <2>3 DEF Tasks
  <2>5. task' # Idle BY <1>2, <1>7, <2>4, IdleIs
  <2>6. Now' = Now BY <2>4 DEF Now
  <2>7. WaitInv /\ NowInv /\ TokenInv BY <1>1, <1>7 DEF HeadInv
  <2>8. w \in {"nothing", "lost"} /\ (w = "nothing" <=> task.awaited = "nothing")
    BY <1>1, <1>2, <2>7 DEF w, WaitInv, Tasks
  <2>9. WaitInv'
    <3>1. Item(Now) /\ Now.do \in {"enter", "await"} /\ w = "nothing" =>
            GoodIn(chain', task', Now.x)
      BY <1>1, <2>4, <2>7, <2>8 DEF WaitInv, Settled, Good, GoodIn
    <3> QED BY <2>4, <2>6, <2>7, <2>8, <3>1 DEF WaitInv, Settled, Good
  <2>10. NowInv' BY <1>1, <2>4, <2>6, <2>7 DEF NowInv, Registries
  <2>11. QuietInv' BY <2>4 DEF QuietInv
  <2>12. TokenInv'
    <3>1. \A a \in Assets : Complete(task, a) => Complete(task, a)'
      BY <1>1, <2>4 DEF Complete, Good, GoodIn
    <3>2. \A a \in Assets : ToCome(a) => ToCome(a)' BY <2>4 DEF ToCome
    <3> QED BY <2>4, <2>6, <2>7, <3>1, <3>2 DEF TokenInv
  <2>13. TypeInv' BY <1>1, <1>2, <1>4, <1>7, <2>1, <2>4, <2>5, IdleIs DEF TypeInv
  <2>14. TaskInv' BY <1>1, <2>4 DEF TaskInv, Founded, Registries
  <2>15. DoneInv' /\ HandInv'
    BY <2>1, <2>4, IdleIs DEF DoneInv, HandInv, HandingOver, TokenTasks
  <2>16. FileInv' /\ ChainInv(chain)' BY <1>1 DEF FileInv
  <2> QED BY <1>5, <2>9, <2>10, <2>11, <2>12, <2>13, <2>14, <2>15, <2>16 DEF IInv, HeadInv
<1> QED BY <1>6, <1>7

LEMMA HandNamesAre == HandNames \subseteq Assets \cup {"BNFTRegistry"}
<1> SUFFICES ASSUME NEW n \in Range(HandOver) PROVE n \in Assets BY DEF HandNames
<1>1. PICK k \in DOMAIN HandOver : n = HandOver[k] BY DEF Range
<1> QED BY <1>1, AssetsTyped

LEMMA PlaceExists ==
  ASSUME TypeInv, FileInv, NEW n \in Assets \cup {"BNFTRegistry"}, There(db, n)
  PROVE  Exists(chain, Place(db, n))
<1>1. CASE n = "BNFTRegistry"
  BY <1>1, FileIs DEF There, Place, RegistryAt, Exists, Registries
<1>2. CASE n # "BNFTRegistry"
  <2>1. n \in Assets BY <1>2
  <2>2. db.bound[n] \in Registries /\ chain.registries[db.bound[n]].bnfts[n] # None
    BY <1>2, <2>1, FileIs DEF There
  <2>3. Place(db, n) = <<"BNFT", db.bound[n], n>> BY <1>2 DEF Place, Bound
  <2>4. Place(db, n)[2] = db.bound[n] /\ Place(db, n)[3] = n BY <2>3
  <2>5. Place(db, n) \in {"BNFT"} \X Registries \X Assets BY <2>1, <2>2, <2>3
  <2> QED BY <2>2, <2>4, <2>5 DEF Exists, Registries
<1> QED BY <1>1, <1>2

\* The chain has grown and nothing else has happened.
LEMMA GrownOK ==
  ASSUME IInv, ChainInv(chain'), Grows(chain, chain'), db' = db
  PROVE  /\ FileInv'
         /\ \A s : Founded(s) => Founded(s)'
         /\ \A r \in Registries : r \in Registries'
         /\ \A k \in DOMAIN pending : Sound(chain', pending[k])
<1>1. TypeInv /\ FileInv /\ ChainInv(chain) /\ PendingInv BY DEF IInv
<1>2. /\ chain.admins <= chain'.admins /\ chain.impls <= chain'.impls
      /\ Len(chain.registries) <= Len(chain'.registries)
      /\ \A r \in Registries, a \in Assets :
           chain.registries[r].bnfts[a] # None => chain'.registries[r].bnfts[a] # None
  BY DEF Grows, Registries
<1>3. /\ chain.admins \in Nat /\ chain.impls \in Nat /\ Len(chain.registries) \in Nat
      /\ chain'.admins \in Nat /\ chain'.impls \in Nat /\ Len(chain'.registries) \in Nat
  BY <1>1 DEF ChainInv, Storage
<1>4. FileInv'
  <2>1. /\ db.ProxyAdmin \in Nat /\ db.BNFT \in Nat /\ db.BNFTRegistry \in Nat
        /\ db.bound \in [Assets -> Nat]
        /\ \A a \in Assets : db.bound[a] # 0 => /\ db.bound[a] \in Registries
                                               /\ chain.registries[db.bound[a]].bnfts[a] # None
    BY <1>1, FileIs
  <2>2. /\ db.ProxyAdmin <= chain.admins /\ db.BNFT <= chain.impls
        /\ db.BNFTRegistry <= Len(chain.registries)
        /\ \A a \in Assets : db.bound[a] # 0 => db.bound[a] <= Len(chain.registries)
    BY <1>1 DEF FileInv
  <2>3. /\ db'.ProxyAdmin <= chain'.admins /\ db'.BNFT <= chain'.impls
        /\ db'.BNFTRegistry <= Len(chain'.registries)
    <3>1. \A i, j, k \in Nat : i <= j /\ j <= k => i <= k OBVIOUS
    <3>2. /\ db.ProxyAdmin <= chain'.admins /\ db.BNFT <= chain'.impls
          /\ db.BNFTRegistry <= Len(chain'.registries)
      BY <1>2, <1>3, <2>1, <2>2, <3>1
    <3> QED BY <3>2
  <2>4. ASSUME NEW a \in Assets, db'.bound[a] # 0
        PROVE  /\ db'.bound[a] <= Len(chain'.registries)
               /\ chain'.registries[db'.bound[a]].bnfts[a] # None
    <3>1. db'.bound[a] = db.bound[a] /\ db.bound[a] \in Nat BY <2>1
    <3> QED BY <1>2, <1>3, <2>1, <2>2, <2>4, <3>1
  <2> QED BY <2>3, <2>4 DEF FileInv
<1>5. \A r \in Registries : r \in Registries' BY <1>1, GrowsKeeps DEF Registries
<1>6. \A s : Founded(s) => Founded(s)' BY <1>5 DEF Founded
<1>7. \A k \in DOMAIN pending : Sound(chain', pending[k]) BY <1>1, GrowsKeeps DEF PendingInv
<1> QED BY <1>4, <1>5, <1>6, <1>7

\* Somebody else does something: the contracts of the deployer, and those he has
\* handed over, stay as they are.
LEMMA ElsewhereOK ==
  ASSUME IInv, ChainInv(chain'), Grows(chain, chain'),
         pending' = pending, db' = db, task' = task, done' = done,
         \A q \in Registries :
           /\ chain'.registries[q].owner = Deployer =>
                chain'.registries[q].generic = chain.registries[q].generic
           /\ \A c \in Assets : chain.registries[q].bnfts[c] # None =>
                chain'.registries[q].bnfts[c] = chain.registries[q].bnfts[c],
         \A y : Exists(chain, y) =>
           /\ OwnerOf(chain, y) \in {Deployer, NewOwner} => OwnerOf(chain', y) = OwnerOf(chain, y)
           /\ ClaimAdminOf(chain, y) = NewOwner => ClaimAdminOf(chain', y) = NewOwner
  PROVE  IInv'
<1>1. /\ TypeInv /\ ChainInv(chain) /\ TaskInv /\ PendingInv /\ FileInv /\ DoneInv
      /\ HeadInv /\ HandInv
      /\ pending' = pending /\ db' = db /\ task' = task /\ done' = done
  BY DEF IInv
<1>2. /\ ChainInv(chain') /\ Grows(chain, chain')
      /\ \A q \in Registries :
           /\ chain'.registries[q].owner = Deployer =>
                /\ chain.registries[q].owner = Deployer
                /\ chain'.registries[q].generic = chain.registries[q].generic
           /\ \A c \in Assets : chain.registries[q].bnfts[c] # None =>
                chain'.registries[q].bnfts[c] = chain.registries[q].bnfts[c]
  BY DEF Grows, Registries
<1>3. /\ FileInv' /\ PendingInv'
      /\ \A s : Founded(s) => Founded(s)'
      /\ \A q \in Registries : q \in Registries'
  BY <1>1, <1>2, GrownOK DEF PendingInv
<1>4. TaskInv' BY <1>1, <1>3 DEF TaskInv
<1>5. TypeInv' BY <1>1, <1>2 DEF TypeInv, ChainInv
<1>6. ASSUME NEW t, t.reg \in Registries, NEW c \in Assets, GoodIn(chain, t, c)
      PROVE  GoodIn(chain', t, c)
  BY <1>2, <1>6 DEF GoodIn
<1>7. HeadInv'
  <2> SUFFICES ASSUME task # Idle PROVE (WaitInv /\ NowInv /\ QuietInv /\ TokenInv)'
    BY <1>1 DEF HeadInv
  <2>1. WaitInv /\ NowInv /\ QuietInv /\ TokenInv BY <1>1 DEF HeadInv
  <2>2. Now' = Now BY <1>1 DEF Now
  <2>3. Item(Now) => task.reg \in Registries /\ Now.x \in Assets BY <2>1 DEF NowInv, Item
  <2>4. WaitInv'
    <3>1. Now.do \in {"note", "save"} /\ task.awaited = "mined" => Count(Now.x)' # 0
      <4>1. /\ chain.admins \in Nat /\ chain.impls \in Nat /\ Len(chain.registries) \in Nat
            /\ chain'.admins \in Nat /\ chain'.impls \in Nat /\ Len(chain'.registries) \in Nat
        BY <1>1, <1>2 DEF ChainInv, Storage
      <4>2. /\ chain.admins <= chain'.admins /\ chain.impls <= chain'.impls
            /\ Len(chain.registries) <= Len(chain'.registries)
        BY <1>2 DEF Grows
      <4> QED BY <2>1, <2>2, <4>1, <4>2 DEF WaitInv, Count
    <3>2. task.awaited = "sent" => SentFor(Now, pending[Len(pending)])'
      BY <1>1, <2>1, <2>2 DEF WaitInv, SentFor
    <3>3. Item(Now) /\ Now.do \in {"enter", "await"} /\ Settled => GoodIn(chain', task, Now.x)
      BY <1>6, <2>1, <2>3 DEF WaitInv, Good
    <3> QED BY <1>1, <2>1, <2>2, <3>1, <3>2, <3>3 DEF WaitInv, Settled, Good
  <2>5. NowInv' BY <1>1, <1>3, <2>1, <2>2 DEF NowInv
  <2>6. QuietInv' BY <1>1, <1>2, <2>1, <2>2, <2>3 DEF QuietInv
  <2>7. TokenInv'
    <3>1. \A c \in Assets : Item(Now) /\ Complete(task, c) => Complete(task, c)'
      BY <1>1, <1>6, <2>3 DEF Complete, Good
    <3>2. \A c \in Assets : ToCome(c) => ToCome(c)' BY <1>1 DEF ToCome
    <3> QED BY <1>1, <2>1, <2>2, <3>1, <3>2 DEF TokenInv
  <2> QED BY <2>4, <2>5, <2>6, <2>7
<1>8. DoneInv'
  <2> SUFFICES ASSUME done.name \in TokenTasks
               PROVE  /\ done.reg \in Registries' /\ (done.quiet => pending = << >>)
                      /\ \A c \in Assets : Complete(done, c)'
    BY <1>1 DEF DoneInv
  <2> QED BY <1>1, <1>3, <1>6 DEF DoneInv, Complete, Good
<1>9. ASSUME NEW y, Exists(chain, y)
      PROVE  /\ OwnerOf(chain, y) \in {Deployer, NewOwner} =>
                  OwnerOf(chain', y) = OwnerOf(chain, y)
             /\ ClaimAdminOf(chain, y) = NewOwner => ClaimAdminOf(chain', y) = NewOwner
  BY <1>9
<1>10. HandInv'
  <2> SUFFICES ASSUME HandingOver PROVE HandInv' BY <1>1 DEF HandInv, HandingOver
  <2>1. /\ ClaimedFirst(chain, pending) /\ HandedSoFar(chain, pending, db, task.todo)
        /\ task # Idle => ToGive(chain, pending, db, Now)
    BY <1>1 DEF HandInv
  <2>2. ASSUME NEW y, Exists(chain, y)
        PROVE  /\ \A k : Claimed(chain, pending, y, k) => Claimed(chain', pending, y, k)
               /\ Given(chain, pending, y) => Given(chain', pending, y)
    BY <1>9, <2>2 DEF Claimed, Given
  <2>3. \A n \in Assets \cup {"BNFTRegistry"} : There(db, n) => Exists(chain, Place(db, n))
    BY <1>1, PlaceExists
  <2>4. ClaimedFirst(chain', pending')
    <3>1. \A k \in DOMAIN pending : pending[k].op \in OwnerOps => Exists(chain, pending[k].to)
      BY <1>1 DEF PendingInv, Sound
    <3> QED BY <1>1, <2>1, <2>2, <3>1 DEF ClaimedFirst, OwnerOps
  <2>5. HandedSoFar(chain', pending', db', task'.todo)
    BY <1>1, <2>1, <2>2, <2>3, HandNamesAre DEF HandedSoFar
  <2>6. task # Idle => ToGive(chain', pending', db', Now')
    <3> SUFFICES ASSUME task # Idle, Now.do = "transferOwnership"
                 PROVE  /\ There(db, Now.x)
                        /\ Claimed(chain', pending, Place(db, Now.x), Len(pending))
      BY <1>1 DEF ToGive, Now
    <3>1. Now.x \in Assets \cup {"BNFTRegistry"}
      <4>1. Now \in Steps BY <1>1, NowIs
      <4> QED BY <4>1 DEF Steps, ItemDos, RegistryOps
    <3>2. There(db, Now.x) /\ Claimed(chain, pending, Place(db, Now.x), Len(pending))
      BY <2>1 DEF ToGive
    <3> QED BY <2>2, <2>3, <3>1, <3>2
  <2> QED BY <1>1, <2>4, <2>5, <2>6 DEF HandInv
<1> QED BY <1>1, <1>2, <1>3, <1>4, <1>5, <1>7, <1>8, <1>10 DEF IInv

LEMMA OthersOK ==
  ASSUME IInv, NEW r \in DOMAIN chain.registries, NEW a \in Assets, others(r, a)
  PROVE  IInv' /\ Same(chain, chain')
<1>1. /\ ChainInv(chain) /\ MayCreate(chain, r, a) /\ chain' = Create(chain, r, a)
      /\ pending' = pending /\ db' = db /\ task' = task /\ done' = done
  BY DEF IInv, others
<1>2. /\ ChainInv(chain') /\ Grows(chain, chain') /\ Same(chain, chain')
      /\ \A q \in Registries :
           /\ chain'.registries[q].generic = chain.registries[q].generic
           /\ chain'.registries[q].owner = chain.registries[q].owner
           /\ chain'.registries[q].claimAdmin = chain.registries[q].claimAdmin
           /\ \A c \in Assets : chain.registries[q].bnfts[c] # None =>
                chain'.registries[q].bnfts[c] = chain.registries[q].bnfts[c]
  <2>1. chain.registries[r].bnfts[a] = None BY <1>1 DEF MayCreate
  <2> QED BY <1>1, <2>1, CreateOK DEF Registries
<1>3. ASSUME NEW y, Exists(chain, y)
      PROVE  /\ OwnerOf(chain', y) = OwnerOf(chain, y)
             /\ ClaimAdminOf(chain', y) = ClaimAdminOf(chain, y)
  <2>1. /\ y[2] \in Registries
        /\ \/ y[1] = "BNFTRegistry"
           \/ y[1] = "BNFT" /\ y[3] \in Assets /\ chain.registries[y[2]].bnfts[y[3]] # None
    BY <1>1, <1>3, ExistsIs DEF Registries
  <2> QED BY <1>2, <2>1 DEF OwnerOf, ClaimAdminOf
<1> QED BY <1>1, <1>2, <1>3, ElsewhereOK

\* An implementation that somebody initializes was nobody's.
LEMMA InitializeOK ==
  ASSUME IInv, NEW r \in DOMAIN chain.registries, NEW g \in 1..MaxImpls, initialize(r, g)
  PROVE  IInv' /\ Same(chain, chain')
<1> DEFINE reg == [Implementation EXCEPT !.generic = g, !.owner = Stranger,
                                         !.claimAdmin = Stranger]
           t == [chain EXCEPT !.registries = [@ EXCEPT ![r] = reg]]
<1>1. /\ ChainInv(chain) /\ chain.registries[r] = Implementation
      /\ pending' = pending /\ db' = db /\ task' = task /\ done' = done
  BY DEF IInv, initialize
<1>2. chain' = t BY <1>1 DEF initialize
<1>3. g \in Nat BY BoundsTyped
<1>4. /\ reg \in Registry /\ reg.logic = 0 /\ reg.admin = 0
      /\ reg.owner = Stranger /\ reg.claimAdmin = Stranger
      /\ \A a \in Assets : reg.bnfts[a] = None
  BY <1>3, ImplementationIs, Accounts DEF Registry, Implementation
<1> HIDE DEF reg
<1>5. Whole(reg) BY <1>4, Accounts DEF Whole, Apart
<1>6. \A a \in Assets : chain.registries[r].bnfts[a] = None BY <1>1, ImplementationIs
<1>7. /\ ChainInv(t) /\ Grows(chain, t) /\ t.registries[r] = reg
      /\ DOMAIN t.registries = DOMAIN chain.registries
      /\ t.admins = chain.admins /\ t.impls = chain.impls
      /\ \A q \in DOMAIN chain.registries : q # r => t.registries[q] = chain.registries[q]
  BY <1>1, <1>4, <1>5, <1>6, Put, Accounts
<1> HIDE DEF t
<1>8. ASSUME NEW q \in Registries
      PROVE  /\ t.registries[q].owner = Deployer =>
                  t.registries[q].generic = chain.registries[q].generic
             /\ \A c \in Assets : chain.registries[q].bnfts[c] # None =>
                  t.registries[q].bnfts[c] = chain.registries[q].bnfts[c]
  BY <1>4, <1>6, <1>7, Accounts DEF Registries
<1>9. ASSUME NEW y, Exists(chain, y)
      PROVE  /\ OwnerOf(chain, y) \in {Deployer, NewOwner} => OwnerOf(t, y) = OwnerOf(chain, y)
             /\ ClaimAdminOf(chain, y) = NewOwner => ClaimAdminOf(t, y) = NewOwner
  <2>1. /\ y[2] \in DOMAIN chain.registries
        /\ \/ y[1] = "BNFTRegistry"
           \/ y[1] = "BNFT" /\ y[3] \in Assets /\ chain.registries[y[2]].bnfts[y[3]] # None
    BY <1>1, <1>9, ExistsIs
  <2>2. CASE y[2] # r BY <1>7, <2>1, <2>2 DEF OwnerOf, ClaimAdminOf
  <2>3. CASE y[2] = r
    <3>1. y[1] = "BNFTRegistry" BY <1>6, <2>1, <2>3
    <3>2. OwnerOf(chain, y) = None /\ ClaimAdminOf(chain, y) = None
      BY <1>1, <2>3, <3>1 DEF OwnerOf, ClaimAdminOf, Implementation
    <3> QED BY <3>2, Accounts
  <2> QED BY <2>2, <2>3
<1>10. Same(chain, chain') BY <1>2, <1>7 DEF Same
<1> QED BY <1>1, <1>2, <1>7, <1>8, <1>9, <1>10, ElsewhereOK

LEMMA ApplyOK ==
  ASSUME NEW s, ChainInv(s), NEW tx \in Txs, Sound(s, tx)
  PROVE  ChainInv(Apply(s, tx)) /\ Grows(s, Apply(s, tx))
<1>1. tx.op \in Kinds \cup OwnerOps \cup BNFTOps \cup RegistryOps BY DEF Txs
<1> QED BY <1>1, ApplyKind, ApplyOwner, ApplyBNFT, ApplyRegistry

\* A claim or a gift that is on its way stays so, or has come about.
LEMMA HandedOn ==
  ASSUME NEW s, ChainInv(s), NEW txs \in Seq(Txs), txs # << >>,
         Sound(s, Head(txs)), Head(txs).op \in OwnerOps, NEW y, Exists(s, y)
  PROVE  LET t == Apply(s, Head(txs)) IN
         /\ \A k \in 0..(Len(txs) - 1) :
              Claimed(s, txs, y, k + 1) => Claimed(t, Tail(txs), y, k)
         /\ Given(s, txs, y) => Given(t, Tail(txs), y)
<1> DEFINE tx == Head(txs)
           t == Apply(s, tx)
           q == Tail(txs)
<1>1. tx \in Txs /\ tx = txs[1] /\ Len(txs) \in Nat \ {0} /\ DOMAIN txs = 1..Len(txs)
  OBVIOUS
<1>2. /\ DOMAIN q = 1..(Len(txs) - 1)
      /\ \A i \in 1..(Len(txs) - 1) : q[i] = txs[i + 1]
  BY <1>1
<1> HIDE DEF tx, t, q
<1>3. /\ OwnerOf(t, y) = IF OwnerOf(s, tx.to) = Deployer /\ y = tx.to /\ tx.op = "transferOwnership"
                         THEN NewOwner ELSE OwnerOf(s, y)
      /\ ClaimAdminOf(t, y) = IF OwnerOf(s, tx.to) = Deployer /\ y = tx.to /\ tx.op = "setClaimAdmin"
                              THEN NewOwner ELSE ClaimAdminOf(s, y)
  <2>1. Sound(s, tx) /\ tx.op \in OwnerOps BY DEF tx
  <2> QED BY <1>1, <2>1, ApplyOwner DEF t
<1>4. ASSUME NEW k \in 0..(Len(txs) - 1), Claimed(s, txs, y, k + 1)
      PROVE  Claimed(t, q, y, k)
  <2>1. CASE ClaimAdminOf(s, y) = NewOwner BY <1>3, <2>1 DEF Claimed
  <2>2. CASE OwnerOf(s, y) = Deployer /\ ClaimPending(txs, y, k + 1)
    <3>1. PICK i \in 1..(k + 1) :
            /\ txs[i].op = "setClaimAdmin" /\ txs[i].to = y
            /\ \A j \in 1..i : ~(txs[j].op = "transferOwnership" /\ txs[j].to = y)
      BY <2>2 DEF ClaimPending
    <3>2. CASE i = 1
      <4>1. tx.op = "setClaimAdmin" /\ tx.to = y BY <1>1, <3>1, <3>2
      <4>2. ClaimAdminOf(t, y) = NewOwner BY <1>3, <2>2, <4>1
      <4> QED BY <4>2 DEF Claimed
    <3>3. CASE i # 1
      <4>1. 1 \in 1..i BY <3>1
      <4>2. OwnerOf(t, y) = Deployer BY <1>1, <1>3, <2>2, <3>1, <4>1
      <4>3. i - 1 \in 1..k /\ i - 1 \in 1..(Len(txs) - 1) /\ (i - 1) + 1 = i
        BY <1>1, <3>3
      <4>4. q[i - 1] = txs[i] BY <1>2, <4>3
      <4>5. ASSUME NEW j \in 1..(i - 1)
            PROVE  ~(q[j].op = "transferOwnership" /\ q[j].to = y)
        <5>1. j + 1 \in 1..i /\ j \in 1..(Len(txs) - 1) BY <4>3
        <5>2. q[j] = txs[j + 1] BY <1>2, <5>1
        <5> QED BY <3>1, <5>1, <5>2
      <4>6. ClaimPending(q, y, k) BY <3>1, <4>3, <4>4, <4>5 DEF ClaimPending
      <4> QED BY <4>2, <4>6 DEF Claimed
    <3> QED BY <3>2, <3>3
  <2> QED BY <1>4, <2>1, <2>2 DEF Claimed
<1>5. ASSUME Given(s, txs, y) PROVE Given(t, q, y)
  <2>1. CASE OwnerOf(s, y) = NewOwner BY <1>3, <2>1, Accounts DEF Given
  <2>2. CASE OwnerOf(s, y) = Deployer /\ GivePending(txs, y)
    <3>1. PICK i \in DOMAIN txs : txs[i].op = "transferOwnership" /\ txs[i].to = y
      BY <2>2 DEF GivePending
    <3>2. CASE tx.op = "transferOwnership" /\ tx.to = y
      BY <1>3, <2>2, <3>2 DEF Given
    <3>3. CASE ~(tx.op = "transferOwnership" /\ tx.to = y)
      <4>1. i # 1 BY <1>1, <3>1, <3>3
      <4>2. i - 1 \in 1..(Len(txs) - 1) /\ (i - 1) + 1 = i BY <1>1, <4>1
      <4>3. GivePending(q, y) BY <1>2, <3>1, <4>2 DEF GivePending
      <4>4. OwnerOf(t, y) = Deployer BY <1>3, <2>2, <3>3
      <4> QED BY <4>3, <4>4 DEF Given
    <3> QED BY <3>2, <3>3
  <2> QED BY <1>5, <2>1, <2>2 DEF Given
<1> QED BY <1>4, <1>5 DEF t, q, tx

\* What becomes of a bNFT when a transaction made for it is mined.
LEMMA BoundMined ==
  ASSUME NEW s, ChainInv(s), NEW tx \in Txs, Sound(s, tx), tx.op \in BNFTOps,
         NEW r, NEW a, tx.to = Bound(r, a), NEW t, t = Apply(s, tx)
  PROVE  /\ r \in DOMAIN s.registries
         /\ \A q \in DOMAIN s.registries : t.registries[q].generic = s.registries[q].generic
         /\ \A c \in Assets : c # a => t.registries[r].bnfts[c] = s.registries[r].bnfts[c]
         /\ ~Accepts(s, tx) => t = s
         /\ Accepts(s, tx) =>
              /\ t.registries[r].bnfts[a] # None
              /\ tx.op = "createBNFT" => t.registries[r].bnfts[a].impl = s.registries[r].generic
              /\ tx.op = "upgradeBNFTWithImpl" => t.registries[r].bnfts[a].impl = tx.impl
<1>1. tx.to[2] = r /\ tx.to[3] = a BY DEF Bound
<1>2. tx.to[2] \in DOMAIN s.registries BY DEF Sound
<1> QED BY <1>1, <1>2, ApplyBNFT

LEMMA MineOK ==
  ASSUME IInv, Mine
  PROVE  IInv'
<1> DEFINE tx == Head(pending)
           n == Len(pending)
           waited == n = 1 /\ task.awaited = "sent"
<1>1. /\ TypeInv /\ ChainInv(chain) /\ TaskInv /\ PendingInv /\ FileInv /\ DoneInv
      /\ HeadInv /\ HandInv /\ pending # << >> /\ chain' = Apply(chain, tx)
      /\ pending' = Tail(pending) /\ db' = db /\ done' = done
  BY DEF IInv, Mine
<1>2. /\ pending \in Seq(Txs) /\ task \in Tasks /\ done \in Tasks
      /\ done # Idle => task = Idle
      /\ task # Idle => task.name # "none" /\ task.todo # << >>
  BY <1>1 DEF TypeInv
<1>3. /\ n \in Nat \ {0} /\ DOMAIN pending = 1..n /\ tx \in Txs /\ tx = pending[1]
      /\ pending' \in Seq(Txs) /\ Len(pending') = n - 1
      /\ \A i \in 1..(n - 1) : pending'[i] = pending[i + 1]
  BY <1>1, <1>2
<1>4. Sound(chain, tx) BY <1>1, <1>3 DEF PendingInv
<1>5. task' = IF waited THEN [task EXCEPT !.awaited = IF Accepts(chain, tx) THEN "mined"
                                                     ELSE "reverted"]
              ELSE task
  BY DEF Mine
<1> HIDE DEF tx, n
<1>6. ChainInv(chain') /\ Grows(chain, chain') BY <1>1, <1>3, <1>4, ApplyOK
<1>7. /\ FileInv'
      /\ \A s : Founded(s) => Founded(s)'
      /\ \A r \in Registries : r \in Registries'
      /\ \A k \in DOMAIN pending : Sound(chain', pending[k])
  BY <1>1, <1>6, GrownOK
<1>8. PendingInv'
  <2> SUFFICES ASSUME NEW i \in 1..(n - 1) PROVE Sound(chain', pending'[i])
    BY <1>3 DEF PendingInv
  <2>1. i + 1 \in DOMAIN pending BY <1>3
  <2> QED BY <1>3, <1>7, <2>1
<1>9. /\ task' \in Tasks /\ task'.name = task.name /\ task'.todo = task.todo
      /\ task'.reg = task.reg /\ task'.generic = task.generic /\ task'.quiet = task.quiet
      /\ task'.awaited = IF waited THEN IF Accepts(chain, tx) THEN "mined" ELSE "reverted"
                         ELSE task.awaited
  <2> DEFINE w == IF Accepts(chain, tx) THEN "mined" ELSE "reverted"
  <2>1. w \in {"mined", "reverted"} OBVIOUS
  <2> HIDE DEF w
  <2>2. task' = IF waited THEN [task EXCEPT !.awaited = w] ELSE task BY <1>5 DEF w
  <2> HIDE DEF waited
  <2>3. /\ task' \in Tasks /\ task'.name = task.name /\ task'.todo = task.todo
        /\ task'.reg = task.reg /\ task'.generic = task.generic /\ task'.quiet = task.quiet
        /\ task'.awaited = IF waited THEN w ELSE task.awaited
    BY <1>2, <2>1, <2>2 DEF Tasks
  <2> QED BY <2>3 DEF w
<1>10. Now' = Now BY <1>9 DEF Now
<1>11. task = Idle => task' = Idle BY <1>5, IdleIs
<1>12. task # Idle => task' # Idle BY <1>2, <1>9, IdleIs
<1>13. TypeInv' BY <1>1, <1>2, <1>3, <1>6, <1>9, <1>11, <1>12, IdleIs DEF TypeInv, ChainInv
<1>14. TaskInv' BY <1>1, <1>7, <1>9 DEF TaskInv
<1>15. HeadInv'
  <2> SUFFICES ASSUME task # Idle PROVE (WaitInv /\ NowInv /\ QuietInv /\ TokenInv)'
    BY <1>11 DEF HeadInv
  <2>1. WaitInv /\ NowInv /\ QuietInv /\ TokenInv BY <1>1 DEF HeadInv
  <2>2. Now \in Steps /\ Proper(task.name, Now) BY <1>1, NowIs
  <2>3. Item(Now) => task.reg \in Registries /\ Now.x \in Assets /\ task.name \in TokenTasks
    BY <2>1, <2>2 DEF NowInv, Item, Proper
  \* What the transaction does, if it is the one that the step waits for.
  <2>4. ASSUME waited, Item(Now)
        PROVE  /\ chain'.registries[task.reg].generic = chain.registries[task.reg].generic
               /\ \A c \in Assets : c # Now.x =>
                    chain'.registries[task.reg].bnfts[c] = chain.registries[task.reg].bnfts[c]
               /\ ~Accepts(chain, tx) => chain' = chain
               /\ Accepts(chain, tx) => GoodIn(chain', task, Now.x)
    <3>1. tx.op \in BNFTOps /\ tx.to = Bound(task.reg, Now.x)
          /\ (tx.op = "upgradeBNFTWithImpl" => tx.impl = task.generic)
      BY <1>3, <2>1, <2>4 DEF WaitInv, SentFor, n
    <3>3. /\ \A q \in DOMAIN chain.registries :
               chain'.registries[q].generic = chain.registries[q].generic
          /\ \A c \in Assets : c # Now.x =>
               chain'.registries[task.reg].bnfts[c] = chain.registries[task.reg].bnfts[c]
          /\ ~Accepts(chain, tx) => chain' = chain
          /\ Accepts(chain, tx) =>
               /\ chain'.registries[task.reg].bnfts[Now.x] # None
               /\ tx.op = "createBNFT" =>
                    chain'.registries[task.reg].bnfts[Now.x].impl = chain.registries[task.reg].generic
               /\ tx.op = "upgradeBNFTWithImpl" =>
                    chain'.registries[task.reg].bnfts[Now.x].impl = tx.impl
      <4> DEFINE r == task.reg
                 a == Now.x
                 t == chain'
      <4>1. tx.to = Bound(r, a) /\ t = Apply(chain, tx) BY <1>1, <3>1
      <4> HIDE DEF r, a, t
      <4>2. /\ \A q \in DOMAIN chain.registries :
                 t.registries[q].generic = chain.registries[q].generic
            /\ \A c \in Assets : c # a => t.registries[r].bnfts[c] = chain.registries[r].bnfts[c]
            /\ ~Accepts(chain, tx) => t = chain
            /\ Accepts(chain, tx) =>
                 /\ t.registries[r].bnfts[a] # None
                 /\ tx.op = "createBNFT" =>
                      t.registries[r].bnfts[a].impl = chain.registries[r].generic
                 /\ tx.op = "upgradeBNFTWithImpl" => t.registries[r].bnfts[a].impl = tx.impl
        BY <1>1, <1>3, <1>4, <3>1, <4>1, BoundMined
      <4> QED BY <4>2 DEF r, a, t
    <3>4. task.quiet /\ chain'.registries[task.reg].owner = Deployer =>
            task.generic = chain.registries[task.reg].generic
      BY <1>6, <2>1, <2>3, <2>4 DEF QuietInv, Grows, Registries
    <3>5. Accepts(chain, tx) => GoodIn(chain', task, Now.x)
      BY <2>3, <2>4, <3>1, <3>3, <3>4 DEF GoodIn, BNFTOps, Registries
    <3> QED BY <2>3, <2>4, <3>3, <3>5 DEF Registries
  <2>5. task.name \in TokenTasks /\ task.quiet => waited
    BY <1>1, <2>1 DEF QuietInv, n
  <2>6. ASSUME Item(Now), NEW a \in Assets, GoodIn(chain, task, a)
        PROVE  GoodIn(chain', task, a)
    <3>1. chain'.registries[task.reg].bnfts[a] # None
      BY <1>6, <2>3, <2>6 DEF GoodIn, Grows, Registries
    <3>2. CASE task.quiet
      <4>1. waited BY <2>3, <2>5, <2>6, <3>2
      <4>2. CASE a = Now.x BY <2>4, <2>6, <4>1, <4>2
      <4>3. CASE a # Now.x
        BY <1>6, <2>3, <2>4, <2>6, <4>1, <4>3 DEF GoodIn, Grows, Registries
      <4> QED BY <4>2, <4>3
    <3>3. CASE ~task.quiet BY <3>1, <3>3 DEF GoodIn
    <3> QED BY <3>2, <3>3
  <2>7. WaitInv'
    <3>1. Now.do \notin {"note", "save", "enter", "await"} => task'.awaited = "nothing"
      BY <1>9, <2>1 DEF WaitInv
    <3>2. Now.do \in {"note", "save"} => task'.awaited # "nothing" BY <1>9, <2>1 DEF WaitInv
    <3>3. task'.awaited = "sent" => pending' # << >> /\ SentFor(Now, pending[Len(pending)])'
      <4> SUFFICES ASSUME task'.awaited = "sent"
                   PROVE  pending' # << >> /\ SentFor(Now, pending[Len(pending)])'
        OBVIOUS
      <4>1. task.awaited = "sent" /\ n # 1 BY <1>9
      <4>2. SentFor(Now, pending[n]) BY <2>1, <4>1 DEF WaitInv, n
      <4>3. n - 1 \in 1..(n - 1) /\ (n - 1) + 1 = n BY <1>3, <4>1
      <4>4. pending'[Len(pending')] = pending[n] BY <1>3, <4>3
      <4>5. Len(pending') # 0 BY <1>3, <4>1
      <4>6. pending' # << >> BY <4>5
      <4> QED BY <1>9, <1>10, <4>2, <4>4, <4>6 DEF SentFor
    <3>4. task'.awaited \in {"mined", "reverted"} => pending' = << >>
      <4>1. task.awaited \notin {"mined", "reverted"} BY <1>1, <2>1 DEF WaitInv
      <4>2. task'.awaited \in {"mined", "reverted"} => n = 1 BY <1>9, <4>1
      <4> QED BY <1>3, <4>2
    <3>5. Now.do \in {"note", "save"} /\ task'.awaited = "mined" => Count(Now.x)' # 0
      <4> SUFFICES ASSUME Now.do \in {"note", "save"}, task'.awaited = "mined"
                   PROVE  Count(Now.x)' # 0
        OBVIOUS
      <4>1. waited BY <1>1, <1>9, <2>1 DEF WaitInv
      <4>2. tx.op = Now.x BY <1>3, <2>1, <4>1 DEF WaitInv, SentFor, n
      <4>3. Now.x \in Kinds BY <2>2 DEF Steps, Kinds, ItemDos, RegistryOps, OwnerOps
      <4>4. CountIn(chain', tx.op) # 0 BY <1>1, <1>3, <1>4, <4>2, <4>3, ApplyKind
      <4> QED BY <1>10, <4>2, <4>4 DEF Count, CountIn
    <3>6. Item(Now) /\ Now.do \in {"enter", "await"} /\ Settled' => GoodIn(chain', task', Now.x)
      <4> SUFFICES ASSUME Item(Now), Now.do \in {"enter", "await"}, Settled'
                   PROVE  GoodIn(chain', task, Now.x)
        BY <1>9 DEF GoodIn
      <4>1. CASE Settled BY <2>1, <2>3, <2>6, <4>1 DEF WaitInv, Good
      <4>2. CASE ~Settled
        <5>1. waited /\ Accepts(chain, tx) BY <1>9, <4>2 DEF Settled
        <5> QED BY <2>4, <5>1
      <4> QED BY <4>1, <4>2
    <3> QED BY <1>9, <1>10, <3>1, <3>2, <3>3, <3>4, <3>5, <3>6 DEF WaitInv, Good
  <2>8. NowInv' BY <1>1, <1>7, <1>9, <1>10, <2>1 DEF NowInv
  <2>9. QuietInv'
    <3> SUFFICES ASSUME task.name \in TokenTasks, task.quiet
                 PROVE  /\ task'.awaited # "sent" /\ pending' = << >>
                        /\ Item(Now) /\ chain'.registries[task.reg].owner = Deployer =>
                             task.generic = chain'.registries[task.reg].generic
      BY <1>9, <1>10 DEF QuietInv
    <3>1. waited BY <2>5
    <3>2. Item(Now) /\ chain'.registries[task.reg].owner = Deployer =>
            chain.registries[task.reg].owner = Deployer
      BY <1>6, <2>3 DEF Grows, Registries
    <3> QED BY <1>3, <1>9, <2>1, <2>4, <3>1, <3>2 DEF QuietInv
  <2>10. TokenInv'
    <3>1. \A c \in Assets : Item(Now) /\ Complete(task, c) => Complete(task, c)'
      BY <1>1, <1>9, <2>6 DEF Complete, Good, GoodIn
    <3>2. \A c \in Assets : ToCome(c) => ToCome(c)' BY <1>9 DEF ToCome
    <3> QED BY <1>9, <1>10, <2>1, <3>1, <3>2 DEF TokenInv
  <2> QED BY <2>7, <2>8, <2>9, <2>10
<1>16. DoneInv'
  <2> SUFFICES ASSUME done.name \in TokenTasks
               PROVE  /\ done.reg \in Registries' /\ ~done.quiet
                      /\ \A c \in Assets : Complete(done, c)'
    BY <1>1 DEF DoneInv
  <2>1. /\ done.reg \in Registries /\ ~done.quiet
        /\ \A c \in Assets : Complete(done, c)
    BY <1>1 DEF DoneInv
  <2>2. \A c \in Assets : chain'.registries[done.reg].bnfts[c] # None
    BY <1>6, <2>1 DEF Complete, Good, GoodIn, Grows, Registries
  <2> QED BY <1>1, <1>7, <2>1, <2>2 DEF Complete, Good, GoodIn
<1>17. HandInv'
  <2> SUFFICES ASSUME HandingOver PROVE HandInv' BY <1>1, <1>9 DEF HandInv, HandingOver
  <2>1. /\ ClaimedFirst(chain, pending) /\ HandedSoFar(chain, pending, db, task.todo)
        /\ task # Idle => ToGive(chain, pending, db, Now)
    BY <1>1 DEF HandInv
  <2>2. tx.op \in OwnerOps BY <1>3, <2>1 DEF ClaimedFirst
  <2>3. ASSUME NEW y, Exists(chain, y)
        PROVE  /\ \A k \in 0..(n - 1) :
                    Claimed(chain, pending, y, k + 1) => Claimed(chain', pending', y, k)
               /\ Given(chain, pending, y) => Given(chain', pending', y)
    BY <1>1, <1>2, <1>4, <2>2, <2>3, HandedOn DEF tx, n
  <2>4. \A m \in Assets \cup {"BNFTRegistry"} : There(db, m) => Exists(chain, Place(db, m))
    BY <1>1, PlaceExists
  <2>5. n - 1 \in 0..(n - 1) /\ (n - 1) + 1 = n BY <1>3
  <2>6. ClaimedFirst(chain', pending')
    <3> SUFFICES ASSUME NEW k \in 1..(n - 1)
                 PROVE  /\ pending'[k].op \in OwnerOps
                        /\ pending'[k].op = "transferOwnership" =>
                             Claimed(chain', pending', pending'[k].to, k)
      BY <1>3 DEF ClaimedFirst
    <3>1. k + 1 \in DOMAIN pending /\ pending'[k] = pending[k + 1] /\ k \in 0..(n - 1)
      BY <1>3
    <3>2. pending[k + 1].op \in OwnerOps BY <2>1, <3>1 DEF ClaimedFirst
    <3>3. Exists(chain, pending[k + 1].to) BY <1>1, <3>1, <3>2 DEF PendingInv, Sound
    <3> QED BY <2>1, <2>3, <3>1, <3>2, <3>3 DEF ClaimedFirst
  <2>7. HandedSoFar(chain', pending', db', task'.todo)
    <3> SUFFICES ASSUME NEW m \in HandNames
                 PROVE  /\ \/ Left(task.todo, "setClaimAdmin", m)
                           \/ There(db, m) /\ Claimed(chain', pending', Place(db, m), n - 1)
                        /\ \/ Left(task.todo, "transferOwnership", m)
                           \/ There(db, m) /\ Given(chain', pending', Place(db, m))
      BY <1>1, <1>3, <1>9 DEF HandedSoFar
    <3>1. /\ \/ Left(task.todo, "setClaimAdmin", m)
             \/ There(db, m) /\ Claimed(chain, pending, Place(db, m), n)
          /\ \/ Left(task.todo, "transferOwnership", m)
             \/ There(db, m) /\ Given(chain, pending, Place(db, m))
      BY <2>1 DEF HandedSoFar, n
    <3>2. There(db, m) => Exists(chain, Place(db, m)) BY <2>4, HandNamesAre
    <3> QED BY <2>3, <2>5, <3>1, <3>2
  <2>8. task # Idle => ToGive(chain', pending', db', Now')
    <3> SUFFICES ASSUME task # Idle, Now.do = "transferOwnership"
                 PROVE  /\ There(db, Now.x)
                        /\ Claimed(chain', pending', Place(db, Now.x), n - 1)
      BY <1>1, <1>3, <1>10 DEF ToGive
    <3>1. Now.x \in Assets \cup {"BNFTRegistry"}
      <4>1. Now \in Steps BY <1>1, NowIs
      <4> QED BY <4>1 DEF Steps, ItemDos, RegistryOps
    <3>2. There(db, Now.x) /\ Claimed(chain, pending, Place(db, Now.x), n)
      BY <2>1 DEF ToGive, n
    <3> QED BY <2>3, <2>4, <2>5, <3>1, <3>2
  <2> QED BY <1>11, <2>6, <2>7, <2>8 DEF HandInv
<1> QED BY <1>6, <1>7, <1>8, <1>13, <1>14, <1>15, <1>16, <1>17 DEF IInv


-----------------------------------------------------------------------------
\* A task sends a transaction.

Makers == {"bind", "rebind", "createBNFT"}

LEMMA SendsIs ==
  ASSUME TypeInv, TaskInv, FileInv, NowInv, task # Idle, NEW tx \in Sends
  PROVE  /\ tx \in Txs /\ Sound(chain, tx)
         /\ Now.do \in {"deploy"} \cup Makers \cup OwnerOps \cup RegistryOps
         /\ Now.do = "deploy" => tx.op = Now.x
         /\ Now.do \in Makers =>
              /\ Item(Now) /\ tx.op \in BNFTOps /\ tx.to = Bound(task.reg, Now.x)
              /\ tx.op = "upgradeBNFTWithImpl" => tx.impl = task.generic
         /\ Now.do \in OwnerOps =>
              /\ tx.op = Now.do /\ tx.to = Place(db, Now.x) /\ There(db, Now.x)
              /\ Now.x \in Assets \cup {"BNFTRegistry"}
<1>1. /\ Now \in Steps /\ Founded(Now) /\ task \in Tasks
      /\ task.reg \in Nat /\ task.generic \in Nat
  BY NowIs DEF TypeInv, Tasks
<1>2. /\ db.ProxyAdmin \in Nat /\ db.BNFT \in Nat /\ db.BNFTRegistry \in Nat
      /\ db.bound \in [Assets -> Nat] /\ Len(chain.registries) \in Nat
      /\ Registries = 1..Len(chain.registries)
      /\ db.BNFTRegistry # 0 => db.BNFTRegistry \in Registries
      /\ \A a \in Assets : db.bound[a] # 0 => db.bound[a] \in Registries
  BY FileIs
<1>3. /\ Now.do \in {"deploy"} => Now.x \in Kinds
      /\ Now.do \in Makers => Now.x \in Assets
      /\ Now.do \in RegistryOps => Now.x = None
      /\ Now.do \in OwnerOps => Now.x \in Assets \cup {"BNFTRegistry"}
  BY <1>1 DEF Steps, ItemDos, Makers, RegistryOps, OwnerOps
<1>4. \A op, to, impl, admin :
        /\ Tx(op, to, impl, admin).op = op /\ Tx(op, to, impl, admin).to = to
        /\ Tx(op, to, impl, admin).impl = impl /\ Tx(op, to, impl, admin).admin = admin
        /\ op \in Kinds \cup OwnerOps \cup BNFTOps \cup RegistryOps /\ to \in Contracts \cup {None}
             /\ impl \in Nat /\ admin \in Nat => Tx(op, to, impl, admin) \in Txs
  BY DEF Tx, Txs
<1> DEFINE registry == RegistryAt(db.BNFTRegistry)
<1>5. registry \in Contracts /\ registry[2] = db.BNFTRegistry
      /\ (db.BNFTRegistry # 0 => registry \in {"BNFTRegistry"} \X (DOMAIN chain.registries))
  BY <1>2 DEF Contracts, RegistryAt, Registries
<1> HIDE DEF registry
<1>6. CASE Now.do = "deploy"
  <2>1. \/ Now.x = "BNFTRegistry" /\ tx = Tx("BNFTRegistry", registry, db.BNFT, db.ProxyAdmin)
        \/ Now.x # "BNFTRegistry" /\ tx = Tx(Now.x, None, 0, 0)
    BY <1>6 DEF Sends, Binds, registry
  <2>2. tx \in Txs /\ tx.op = Now.x BY <1>2, <1>3, <1>4, <1>5, <1>6, <2>1
  <2>3. Now.x = "BNFTRegistry" => tx.to[2] \in Nat \ {0}
    BY <1>2, <1>4, <1>5, <1>6, <2>1 DEF NowInv, Based
  <2>4. Sound(chain, tx)
    BY <1>3, <1>6, <2>2, <2>3 DEF Sound, BNFTOps, RegistryOps, OwnerOps, Kinds
  <2> QED BY <1>6, <2>2, <2>4 DEF Makers, OwnerOps
<1>7. CASE Now.do \in Makers
  <2>1. Item(Now) /\ task.reg \in Registries BY <1>3, <1>7 DEF Item, ItemDos, Makers, NowInv
  <2>2. \/ tx = Tx("createBNFT", Bound(task.reg, Now.x), 0, 0)
        \/ tx = Tx("upgradeBNFTWithImpl", Bound(task.reg, Now.x), task.generic, 0)
    BY <1>7 DEF Sends, BindTx, Makers, Binds
  <2>3. /\ Bound(task.reg, Now.x) \in Contracts
        /\ Bound(task.reg, Now.x) \in {"BNFT"} \X (DOMAIN chain.registries) \X Assets
    BY <1>1, <1>3, <1>7, <2>1 DEF Bound, Contracts, Registries
  <2>4. /\ tx \in Txs /\ tx.op \in BNFTOps /\ tx.to = Bound(task.reg, Now.x)
        /\ tx.op = "upgradeBNFTWithImpl" => tx.impl = task.generic
    BY <1>1, <1>4, <2>2, <2>3 DEF BNFTOps
  <2>5. Sound(chain, tx)
    BY <2>3, <2>4 DEF Sound, BNFTOps, RegistryOps, OwnerOps
  <2> QED BY <1>7, <2>1, <2>4, <2>5 DEF Makers, OwnerOps
<1>8. CASE Now.do \in RegistryOps
  <2>1. db.BNFTRegistry # 0 BY <1>3, <1>8 DEF NowInv, Based, OfRegistry
  <2>2. /\ Now.do = "upgrade" => tx = Tx("upgrade", registry, Len(chain.registries), db.ProxyAdmin)
        /\ Now.do = "setBNFTGenericImpl" => tx = Tx("setBNFTGenericImpl", registry, db.BNFT, 0)
        /\ Now.do = "batchUpgradeAllBNFT" => tx = Tx("batchUpgradeAllBNFT", registry, 0, 0)
    BY DEF Sends, Binds, registry
  <2>3. tx \in Txs /\ tx.op = Now.do /\ tx.to = registry
    BY <1>2, <1>4, <1>5, <1>8, <2>2 DEF RegistryOps
  <2>4. tx.op = "upgrade" => tx.admin # 0 /\ tx.impl # 0
    BY <1>1, <1>2, <1>4, <2>1, <2>2, <2>3 DEF Founded
  <2>5. Sound(chain, tx)
    BY <1>5, <1>8, <2>1, <2>3, <2>4 DEF Sound, BNFTOps, RegistryOps, OwnerOps
  <2> QED BY <1>8, <2>3, <2>5 DEF Makers, OwnerOps, RegistryOps
<1>9. CASE Now.do \in OwnerOps
  <2>1. PICK x \in Named(Now.x) : tx = Tx(Now.do, x, 0, 0)
    BY <1>9 DEF Sends, OwnerOps, Binds
  <2>2. x = Place(db, Now.x) /\ There(db, Now.x)
    BY <1>3, <1>9, Accounts, <2>1 DEF Named, Place, There, NowInv, Based, OfRegistry
  <2>3. Exists(chain, x) BY <1>3, <1>9, <2>2, PlaceExists
  <2>4. x \in Contracts
    BY <1>2, <1>3, <1>9, <2>2 DEF Place, RegistryAt, Bound, Contracts
  <2>5. tx \in Txs /\ tx.op = Now.do /\ tx.to = x
    BY <1>4, <1>9, <2>1, <2>4
  <2>6. Sound(chain, tx)
    BY <1>9, <2>3, <2>5 DEF Sound, BNFTOps, RegistryOps, OwnerOps, Kinds
  <2> QED BY <1>3, <1>9, <2>2, <2>5, <2>6 DEF Makers, OwnerOps
<1>10. Now.do \in {"deploy"} \cup Makers \cup OwnerOps \cup RegistryOps
  BY DEF Sends, Makers, OwnerOps, RegistryOps, Binds
<1> QED BY <1>6, <1>7, <1>8, <1>9, <1>10


\* A claim or a gift that is on its way is not undone by what is sent after it.
LEMMA HandedLater ==
  ASSUME NEW s, NEW txs \in Seq(Txs), NEW tx \in Txs, NEW y
  PROVE  LET q == Append(txs, tx) IN
         /\ \A k \in 0..Len(txs), m \in 0..Len(q) :
              k <= m /\ Claimed(s, txs, y, k) => Claimed(s, q, y, m)
         /\ Given(s, txs, y) => Given(s, q, y)
<1> DEFINE q == Append(txs, tx)
<1>1. /\ Len(txs) \in Nat /\ Len(q) = Len(txs) + 1 /\ DOMAIN txs = 1..Len(txs)
      /\ DOMAIN q = 1..(Len(txs) + 1)
      /\ \A i \in 1..Len(txs) : q[i] = txs[i]
  BY AppendProperties
<1> HIDE DEF q
<1>2. ASSUME NEW k \in 0..Len(txs), NEW m \in 0..Len(q), k <= m, ClaimPending(txs, y, k)
      PROVE  ClaimPending(q, y, m)
  <2>1. PICK i \in 1..k :
          /\ txs[i].op = "setClaimAdmin" /\ txs[i].to = y
          /\ \A j \in 1..i : ~(txs[j].op = "transferOwnership" /\ txs[j].to = y)
    BY <1>2 DEF ClaimPending
  <2>2. i \in 1..m /\ i \in 1..Len(txs) BY <1>1, <1>2, <2>1
  <2>3. \A j \in 1..i : q[j] = txs[j] BY <1>1, <2>2
  <2> QED BY <1>1, <2>1, <2>2, <2>3 DEF ClaimPending
<1>3. GivePending(txs, y) => GivePending(q, y) BY <1>1 DEF GivePending
<1>4. \A k \in 0..Len(txs), m \in 0..Len(q) :
        k <= m /\ Claimed(s, txs, y, k) => Claimed(s, q, y, m)
  BY <1>2 DEF Claimed
<1>5. Given(s, txs, y) => Given(s, q, y) BY <1>3 DEF Given
<1> QED BY <1>4, <1>5 DEF q

\* The estimate of the last transaction stands for those before it.
LEMMA GiveOK ==
  ASSUME IInv, task # Idle, HandingOver, NEW tx \in Sends, NEW s \in Estimated, Accepts(s, tx),
         NEW p, \A step \in Range(task.todo) : step = Now \/ step \in Range(p)
  PROVE  LET q == Append(pending, tx) IN
         /\ ClaimedFirst(chain, q) /\ HandedSoFar(chain, q, db, p)
         /\ Now.do = "setClaimAdmin" =>
              There(db, Now.x) /\ Claimed(chain, q, Place(db, Now.x), Len(q))
<1> DEFINE q == Append(pending, tx)
           n == Len(pending)
           x == Place(db, Now.x)
<1>1. /\ TypeInv /\ ChainInv(chain) /\ TaskInv /\ PendingInv /\ FileInv
      /\ NowInv /\ done = Idle
      /\ ClaimedFirst(chain, pending) /\ HandedSoFar(chain, pending, db, task.todo)
      /\ ToGive(chain, pending, db, Now)
  BY DEF IInv, HeadInv, HandInv, TypeInv
<1>2. task.name = "transferOwnership" BY <1>1, IdleIs DEF HandingOver
<1>3. Now.do \in OwnerOps BY <1>1, <1>2, NowIs DEF Proper
<1>4. /\ tx \in Txs /\ Sound(chain, tx) /\ tx.op = Now.do /\ tx.to = x /\ There(db, Now.x)
      /\ Now.x \in Assets \cup {"BNFTRegistry"}
  BY <1>1, <1>3, SendsIs
<1>5. Exists(chain, x) BY <1>1, <1>4, PlaceExists
<1>6. /\ n \in Nat /\ Len(q) = n + 1 /\ DOMAIN pending = 1..n /\ DOMAIN q = 1..(n + 1)
      /\ \A i \in 1..n : q[i] = pending[i]
      /\ q[n + 1] = tx /\ pending \in Seq(Txs)
  BY <1>1, <1>4, AppendProperties DEF TypeInv
<1>7. ASSUME NEW y
      PROVE  /\ \A k \in 0..n, m \in 0..(n + 1) :
                  k <= m /\ Claimed(chain, pending, y, k) => Claimed(chain, q, y, m)
             /\ Given(chain, pending, y) => Given(chain, q, y)
  BY <1>4, <1>6, HandedLater
<1> HIDE DEF q, n, x
<1>8. \A k \in DOMAIN pending : pending[k].op \in OwnerOps /\ Sound(chain, pending[k])
  BY <1>1 DEF ClaimedFirst, PendingInv
<1>9. OwnerOf(s, x) = Deployer
  BY <1>3, <1>4 DEF Accepts, OwnerOps, Kinds
<1>10. s = chain \/ (OwnerOf(chain, x) = Deployer /\ ~GivePending(pending, x))
  <2>1. CASE s = chain BY <2>1
  <2>2. CASE s = ApplyAll(chain, pending)
    BY <1>1, <1>5, <1>6, <1>8, <1>9, <2>2, GivenAway DEF GivePending
  <2> QED BY <2>1, <2>2 DEF Estimated
<1>11. OwnerOf(chain, x) = Deployer BY <1>9, <1>10
<1>12. n \in 0..n /\ n + 1 \in 0..(n + 1) /\ n <= n + 1 /\ n + 1 \in 1..(n + 1) BY <1>6
<1>13. ASSUME Now.do = "setClaimAdmin" PROVE Claimed(chain, q, x, n + 1)
  <2>1. CASE GivePending(pending, x)
    <3>1. PICK k \in 1..n : pending[k].op = "transferOwnership" /\ pending[k].to = x
      BY <1>6, <2>1 DEF GivePending
    <3>2. Claimed(chain, pending, x, k) BY <1>1, <1>6, <3>1 DEF ClaimedFirst
    <3>3. k \in 0..n /\ k <= n + 1 BY <1>6
    <3> QED BY <1>7, <1>12, <3>2, <3>3
  <2>2. CASE ~GivePending(pending, x)
    <3>1. q[n + 1].op = "setClaimAdmin" /\ q[n + 1].to = x BY <1>4, <1>6, <1>13
    <3>2. ASSUME NEW j \in 1..(n + 1)
          PROVE  ~(q[j].op = "transferOwnership" /\ q[j].to = x)
      <4>1. CASE j = n + 1 BY <3>1, <4>1
      <4>2. CASE j # n + 1
        <5>1. j \in 1..n BY <1>6, <4>2
        <5> QED BY <1>6, <2>2, <5>1 DEF GivePending
      <4> QED BY <4>1, <4>2
    <3>3. ClaimPending(q, x, n + 1) BY <1>12, <3>1, <3>2 DEF ClaimPending
    <3> QED BY <1>11, <3>3 DEF Claimed
  <2> QED BY <2>1, <2>2
<1>14. ASSUME Now.do = "transferOwnership"
       PROVE  Given(chain, q, x) /\ Claimed(chain, q, x, n + 1)
  <2>1. Claimed(chain, pending, x, n) BY <1>1, <1>14 DEF ToGive, x, n
  <2>2. GivePending(q, x) BY <1>4, <1>6, <1>12, <1>14 DEF GivePending
  <2> QED BY <1>7, <1>11, <1>12, <2>1, <2>2 DEF Given
<1>15. ClaimedFirst(chain, q)
  <2> SUFFICES ASSUME NEW k \in 1..(n + 1)
               PROVE  /\ q[k].op \in OwnerOps
                      /\ q[k].op = "transferOwnership" => Claimed(chain, q, q[k].to, k)
    BY <1>6 DEF ClaimedFirst
  <2>1. CASE k = n + 1 BY <1>3, <1>4, <1>6, <1>14, <2>1
  <2>2. CASE k # n + 1
    <3>1. k \in 1..n /\ k \in 0..n /\ k \in 0..(n + 1) /\ k <= k BY <1>6, <2>2
    <3>2. q[k] = pending[k] BY <1>6, <3>1
    <3>3. /\ pending[k].op \in OwnerOps
          /\ pending[k].op = "transferOwnership" => Claimed(chain, pending, pending[k].to, k)
      BY <1>1, <1>6, <3>1 DEF ClaimedFirst
    <3> QED BY <1>7, <3>1, <3>2, <3>3
  <2> QED BY <2>1, <2>2
<1>16. HandedSoFar(chain, q, db, p)
  <2> SUFFICES ASSUME NEW m \in HandNames
               PROVE  /\ \/ Left(p, "setClaimAdmin", m)
                         \/ There(db, m) /\ Claimed(chain, q, Place(db, m), n + 1)
                      /\ \/ Left(p, "transferOwnership", m)
                         \/ There(db, m) /\ Given(chain, q, Place(db, m))
    BY <1>6 DEF HandedSoFar
  <2>1. /\ \/ Left(task.todo, "setClaimAdmin", m)
           \/ There(db, m) /\ Claimed(chain, pending, Place(db, m), n)
        /\ \/ Left(task.todo, "transferOwnership", m)
           \/ There(db, m) /\ Given(chain, pending, Place(db, m))
    BY <1>1 DEF HandedSoFar, n
  <2>2. ASSUME NEW do, Left(task.todo, do, m)
        PROVE  Left(p, do, m) \/ (Now.do = do /\ Now.x = m)
    BY <2>2 DEF Left
  <2>3. Now.do = "setClaimAdmin" /\ Now.x = m =>
          There(db, m) /\ Claimed(chain, q, Place(db, m), n + 1)
    BY <1>4, <1>13 DEF x
  <2>4. Now.do = "transferOwnership" /\ Now.x = m => There(db, m) /\ Given(chain, q, Place(db, m))
    BY <1>4, <1>14 DEF x
  <2> QED BY <1>7, <1>12, <2>1, <2>2, <2>3, <2>4
<1> QED BY <1>4, <1>6, <1>13, <1>15, <1>16 DEF q, x


LEMMA SendOK ==
  ASSUME IInv, send
  PROVE  IInv'
<1> DEFINE w == IF Awaited THEN "sent" ELSE "nothing"
<1>1. /\ TypeInv /\ ChainInv(chain) /\ TaskInv /\ PendingInv /\ FileInv /\ HandInv
      /\ WaitInv /\ NowInv /\ QuietInv /\ TokenInv /\ task # Idle
      /\ chain' = chain /\ db' = db /\ Advance(w)
  BY DEF IInv, HeadInv, send
<1>2. PICK tx \in Sends :
        /\ (\E s \in Estimated : Accepts(s, tx)) \/ tx.op = "batchUpgradeAllBNFT"
        /\ pending' = Append(pending, tx)
  BY DEF send
<1>3. /\ Now \in Steps /\ Now \in Range(task.todo) /\ Proper(task.name, Now) /\ Founded(Now)
      /\ done = Idle /\ task \in Tasks /\ task.name \in AllTasks /\ pending \in Seq(Txs)
  BY <1>1, NowIs DEF TypeInv
<1>4. /\ tx \in Txs /\ Sound(chain, tx)
      /\ Now.do \in {"deploy"} \cup Makers \cup OwnerOps \cup RegistryOps
      /\ Now.do = "deploy" => tx.op = Now.x
      /\ Now.do \in Makers =>
           /\ Item(Now) /\ tx.op \in BNFTOps /\ tx.to = Bound(task.reg, Now.x)
           /\ tx.op = "upgradeBNFTWithImpl" => tx.impl = task.generic
      /\ Now.do \in OwnerOps => tx.op = Now.do
  BY <1>1, SendsIs
<1>5. w \in {"nothing", "sent"} OBVIOUS
<1>6. Over \/ (Onward(w) /\ task'.reg = task.reg /\ task'.generic = task.generic)
  BY <1>1, <1>5, Advances
<1>7. /\ pending' \in Seq(Txs) /\ Len(pending) \in Nat /\ Len(pending') = Len(pending) + 1
      /\ DOMAIN pending = 1..Len(pending) /\ DOMAIN pending' = 1..(Len(pending) + 1)
      /\ \A i \in 1..Len(pending) : pending'[i] = pending[i]
      /\ pending'[Len(pending')] = tx /\ pending' # << >>
  BY <1>2, <1>3, <1>4, AppendProperties
<1>8. PendingInv'
  <2> SUFFICES ASSUME NEW k \in 1..(Len(pending) + 1) PROVE Sound(chain, pending'[k])
    BY <1>1, <1>7 DEF PendingInv
  <2>1. CASE k = Len(pending) + 1 BY <1>4, <1>7, <2>1
  <2>2. CASE k # Len(pending) + 1
    <3>1. k \in 1..Len(pending) BY <1>7, <2>2
    <3> QED BY <1>1, <1>7, <3>1 DEF PendingInv
  <2> QED BY <2>1, <2>2
<1>9. chain' \in Storage /\ db' \in Db /\ ChainInv(chain)' /\ FileInv'
  BY <1>1 DEF TypeInv, FileInv
<1>10. task.awaited = "nothing"
  <2>1. Now.do \notin {"note", "save", "enter", "await"} BY <1>4 DEF Makers, OwnerOps, RegistryOps
  <2> QED BY <1>1, <2>1 DEF WaitInv
<1>11. HandingOver => Now.do \in OwnerOps /\ \E s \in Estimated : Accepts(s, tx)
  <2> SUFFICES ASSUME HandingOver PROVE Now.do \in OwnerOps /\ \E s \in Estimated : Accepts(s, tx)
    OBVIOUS
  <2>1. task.name = "transferOwnership" BY <1>3, IdleIs DEF HandingOver
  <2>2. Now.do \in OwnerOps BY <1>3, <2>1 DEF Proper
  <2> QED BY <1>2, <1>4, <2>2 DEF OwnerOps
<1>12. ASSUME HandingOver, NEW p, \A step \in Range(task.todo) : step = Now \/ step \in Range(p)
       PROVE  /\ ClaimedFirst(chain, pending') /\ HandedSoFar(chain, pending', db, p)
              /\ Now.do = "setClaimAdmin" =>
                   There(db, Now.x) /\ Claimed(chain, pending', Place(db, Now.x), Len(pending'))
  BY <1>1, <1>2, <1>11, <1>12, GiveOK
<1> HIDE DEF w
<1>13. CASE Over
  <2>1. task' = Idle /\ Now.do \notin Unfinished /\ (\A s \in Range(task.todo) : s = Now)
        /\ done' = IF task.name \in Reported THEN task ELSE Idle
    BY <1>13 DEF Over
  <2>2. done' \in Tasks BY <1>3, <2>1, IdleIs
  <2>3. done'.name \notin TokenTasks
    <3>1. task.name \notin TokenTasks
      <4>1. Now.do \in {"setBNFTGenericImpl", "batchUpgradeAllBNFT", "transferOwnership"}
        BY <1>4, <2>1 DEF Unfinished, Makers, OwnerOps, RegistryOps
      <4> QED BY <1>3, <4>1 DEF Proper, TokenTasks, FilingTasks
    <3> QED BY <2>1, <3>1, IdleIs DEF TokenTasks
  <2>4. TypeInv' /\ TaskInv' /\ HeadInv' /\ DoneInv'
    BY <1>1, <1>7, <1>9, <2>1, <2>2, <2>3, IdleInv
  <2>5. HandInv'
    <3> SUFFICES ASSUME HandingOver' PROVE HandInv' BY DEF HandInv
    <3>1. task'.name = "none" /\ task'.todo = << >> BY <2>1, IdleIs
    <3>2. HandingOver
      BY <2>1, <3>1, IdleIs DEF HandingOver
    <3>3. /\ ClaimedFirst(chain, pending') /\ HandedSoFar(chain, pending', db, task'.todo)
      BY <1>12, <2>1, <3>2
    <3> QED BY <1>1, <2>1, <3>3 DEF HandInv
  <2> QED BY <1>8, <1>9, <2>4, <2>5 DEF IInv
<1>14. CASE Onward(w) /\ task'.reg = task.reg /\ task'.generic = task.generic
  <2>1. /\ task' \in Tasks /\ task' # Idle /\ task'.todo # << >> /\ task'.name = task.name
        /\ task'.quiet = task.quiet /\ task'.awaited = w
        /\ Linked(task'.todo) /\ Finished(task'.todo)
        /\ Now' = task.todo[2]
        /\ Now' \in Steps /\ Now' \in Range(task'.todo) /\ Follows(Now, Now')
        /\ Range(task'.todo) \subseteq Range(task.todo)
        /\ \A s \in Range(task.todo) : s = Now \/ s \in Range(task'.todo)
        /\ done' = Idle
    BY <1>14 DEF Onward
  <2> DEFINE t == Now'
  <2>2. t \in Steps /\ Follows(Now, t) BY <2>1
  <2>3. Len(task.todo) > 1
    <3>1. ~Over BY <2>1 DEF Over
    <3>2. Len(task.todo) \in Nat \ {0} BY <1>1, <1>3, NowIs, Rest DEF TaskInv
    <3>3. Len(task.todo) # 1 BY <1>1, <1>5, <3>1, Advances
    <3>4. \A k \in Nat \ {0} : k # 1 => k > 1 OBVIOUS
    <3> QED BY <3>2, <3>3, <3>4
  <2>4. w = IF t.do \in {"note", "save", "enter", "await"} THEN "sent" ELSE "nothing"
    BY <2>1, <2>3 DEF w, Awaited
  <2> HIDE DEF t
  <2>5. /\ t.do \in {"note", "save"} => Now.do \in {"deploy", "note"} /\ t.x = Now.x
        /\ Item(Now) => Item(t)
        /\ Item(t) => Item(Now) \/ Now.do = "connect"
        /\ Item(t) /\ t.do \in {"enter", "await"} => Now.do \in Makers /\ t.x = Now.x
        /\ Now.do \in Makers => Item(t) /\ t.x = Now.x /\ t.do \in {"enter", "await"}
        /\ OfRegistry(t) => OfRegistry(Now) \/ Now.do = "adopt"
        /\ t.do = "deploy" /\ t.x = "BNFTRegistry" => Now.do = "save"
        /\ t.do = "connect" /\ t.x = 0 => Now.do = "save"
    BY <1>3, <2>2, FollowsIs DEF Makers
  <2>6. TypeInv' BY <1>1, <1>7, <1>9, <1>3, <2>1, IdleIs DEF TypeInv
  <2>7. TaskInv'
    <3>1. ASSUME NEW s \in Range(task'.todo) PROVE Proper(task'.name, s) /\ Founded(s)'
      <4>1. Proper(task.name, s) /\ Founded(s) BY <1>1, <2>1 DEF TaskInv
      <4> QED BY <1>1, <2>1, <4>1 DEF Founded, Registries
    <3> QED BY <2>1, <3>1 DEF TaskInv
  <2>8. WaitInv'
    <3>1. t.do \in {"note", "save"} => tx.op = t.x
      BY <1>4, <2>5 DEF Makers, OwnerOps, RegistryOps
    <3>2. t.do \in {"note", "save", "enter", "await"} /\ Item(t) =>
            /\ tx.op \in BNFTOps /\ tx.to = Bound(task.reg, t.x)
            /\ tx.op = "upgradeBNFTWithImpl" => tx.impl = task.generic
      <4>1. Item(t) => t.do \notin {"note", "save"} BY DEF Item, ItemDos
      <4> QED BY <1>4, <2>5, <4>1
    <3>3. w = "sent" => SentFor(Now, pending[Len(pending)])'
      BY <1>7, <1>14, <2>4, <3>1, <3>2 DEF SentFor, t
    <3>4. w \in {"nothing", "sent"} BY <1>5
    <3> QED BY <1>7, <2>1, <2>4, <3>3, <3>4 DEF WaitInv, Settled, t
  <2>9. NowInv'
    <3>1. Now.do \notin {"adopt", "save", "connect"}
      BY <1>4 DEF Makers, OwnerOps, RegistryOps
    <3>2. Based(db', t)
      BY <1>1, <2>5, <3>1 DEF NowInv, Based
    <3>3. Item(t) => task'.reg \in Registries'
      BY <1>1, <1>14, <2>5, <3>1 DEF NowInv, Registries
    <3> QED BY <3>2, <3>3 DEF NowInv, t
  <2>10. QuietInv'
    <3> SUFFICES ASSUME task.name \in TokenTasks, task.quiet
                 PROVE  /\ w = "sent" /\ Len(pending') = 1
                        /\ Item(t) /\ chain'.registries[task'.reg].owner = Deployer =>
                             task'.generic = chain'.registries[task'.reg].generic
      BY <2>1 DEF QuietInv, t
    <3>1. Now.do \in {"deploy"} \cup Makers
      BY <1>3, <1>4 DEF Proper, TokenTasks, FilingTasks, Makers, OwnerOps, RegistryOps
    <3>2. Now.do = "deploy" => t.do \in {"note", "save"} BY <2>2 DEF Follows
    <3>3. w = "sent" BY <2>4, <2>5, <3>1, <3>2
    <3>4. pending = << >> BY <1>1, <1>10 DEF QuietInv
    <3>5. Len(pending') = 1
      <4>1. Len(pending) = 0 BY <3>4
      <4> QED BY <1>7, <4>1
    <3>6. Item(t) => Item(Now) BY <2>5, <3>1 DEF Makers
    <3> QED BY <1>1, <1>14, <3>3, <3>5, <3>6 DEF QuietInv
  <2>11. TokenInv'
    <3> SUFFICES ASSUME task.name \in TokenTasks, NEW a \in Assets
                 PROVE  ToCome(a)' \/ (Item(t) /\ Complete(task, a)')
      BY <2>1 DEF TokenInv, t
    <3>1. CASE \E s \in Range(task'.todo) : Item(s) /\ s.x = a
      BY <3>1 DEF ToCome
    <3>2. CASE Item(Now) /\ Complete(task, a)
      <4>1. Complete(task, a)'
        BY <1>1, <1>14, <2>1, <3>2 DEF Complete, Good, GoodIn
      <4> QED BY <2>5, <3>2, <4>1
    <3>3. CASE Item(Now) /\ Now.x = a
      <4>1. Now.do \in Makers
        BY <1>4, <3>3, Accounts DEF Item, ItemDos, OwnerOps, RegistryOps
      <4>2. Item(t) /\ t.x = a BY <2>5, <3>3, <4>1
      <4>3. t \in Range(task'.todo) BY <2>1 DEF t
      <4> QED BY <4>2, <4>3 DEF ToCome
    <3>4. ToCome(a) => (\E s \in Range(task'.todo) : Item(s) /\ s.x = a) \/ (Item(Now) /\ Now.x = a)
      BY <2>1 DEF ToCome
    <3> QED BY <1>1, <3>1, <3>2, <3>3, <3>4 DEF TokenInv
  <2>12. DoneInv' BY <2>1, IdleIs DEF DoneInv, TokenTasks
  <2>13. HandInv'
    <3> SUFFICES ASSUME HandingOver' PROVE HandInv' BY DEF HandInv
    <3>1. HandingOver BY <2>1, IdleIs DEF HandingOver
    <3>2. /\ ClaimedFirst(chain, pending') /\ HandedSoFar(chain, pending', db, task'.todo)
          /\ Now.do = "setClaimAdmin" =>
               There(db, Now.x) /\ Claimed(chain, pending', Place(db, Now.x), Len(pending'))
      BY <1>12, <2>1, <3>1
    <3>3. ToGive(chain, pending', db, t)
      <4>1. t.do = "transferOwnership" => Now.do = "setClaimAdmin" /\ t.x = Now.x
        BY <1>11, <2>2, <3>1 DEF Follows, OwnerOps
      <4> QED BY <3>2, <4>1 DEF ToGive
    <3> QED BY <1>1, <3>2, <3>3 DEF HandInv, t
  <2> QED BY <1>8, <1>9, <2>6, <2>7, <2>8, <2>9, <2>10, <2>11, <2>12, <2>13 DEF IInv, HeadInv
<1> QED BY <1>6, <1>13, <1>14


-----------------------------------------------------------------------------
\* Every step keeps the invariant.

LEMMA InitOK == Init => IInv
<1> SUFFICES ASSUME Init PROVE IInv OBVIOUS
<1>1. /\ chain = [admins |-> 0, impls |-> 0, registries |-> << >>]
      /\ pending = << >> /\ task = Idle /\ done = Idle
      /\ db = [ProxyAdmin |-> 0, BNFT |-> 0, BNFTRegistryImpl |-> 0, BNFTRegistry |-> 0,
               bound |-> [a \in Assets |-> 0]]
  BY DEF Init
<1> DEFINE none == [a \in Assets |-> 0]
<1>2. none \in [Assets -> Nat] /\ \A a \in Assets : none[a] = 0 OBVIOUS
<1>3. db = [ProxyAdmin |-> 0, BNFT |-> 0, BNFTRegistryImpl |-> 0, BNFTRegistry |-> 0,
            bound |-> none]
  BY <1>1
<1> HIDE DEF none
<1>4. /\ db \in Db /\ db.ProxyAdmin = 0 /\ db.BNFT = 0 /\ db.BNFTRegistry = 0
      /\ \A a \in Assets : db.bound[a] = 0
  BY <1>2, <1>3 DEF Db
<1> DEFINE e == << >>
<1>5. e \in Seq(Registry) /\ e \in Seq(Txs) /\ DOMAIN e = {} /\ Len(e) = 0
  BY EmptySeq
<1>6. chain = [admins |-> 0, impls |-> 0, registries |-> e] /\ pending = e BY <1>1
<1> HIDE DEF e
<1>7. /\ chain \in Storage /\ chain.registries = e /\ chain.admins = 0 /\ chain.impls = 0
  BY <1>5, <1>6 DEF Storage
<1>8. ChainInv(chain) /\ PendingInv BY <1>5, <1>6, <1>7 DEF ChainInv, PendingInv
<1>9. FileInv BY <1>4, <1>5, <1>7 DEF FileInv
<1>10. TypeInv BY <1>1, <1>4, <1>5, <1>6, <1>7, IdleIs DEF TypeInv
<1>11. TaskInv
  <2>1. Range(task.todo) = {} BY <1>1, IdleIs DEF Range
  <2>2. Linked(task.todo) /\ Finished(task.todo) BY <1>1, IdleIs DEF Linked, Finished
  <2> QED BY <2>1, <2>2 DEF TaskInv
<1>12. HeadInv /\ DoneInv /\ HandInv
  BY <1>1, IdleIs DEF HeadInv, DoneInv, HandInv, HandingOver, TokenTasks
<1> QED BY <1>8, <1>9, <1>10, <1>11, <1>12 DEF IInv

LEMMA StutterOK ==
  ASSUME IInv, UNCHANGED vars
  PROVE  IInv'
<1>1. /\ chain' = chain /\ pending' = pending /\ db' = db /\ task' = task /\ done' = done
      /\ Now' = Now
  BY DEF vars, Now
<1>2. TypeInv' /\ ChainInv(chain') /\ TaskInv' /\ FileInv' /\ PendingInv'
  BY <1>1 DEF IInv, TypeInv, TaskInv, Founded, Registries, FileInv, PendingInv
<1>3. HeadInv'
  BY <1>1 DEF IInv, HeadInv, WaitInv, SentFor, Settled, Count, Good, NowInv, Registries,
     QuietInv, TokenInv, ToCome, Complete
<1>4. DoneInv' BY <1>1 DEF IInv, DoneInv, Complete, Good, Registries
<1>5. HandInv' BY <1>1 DEF IInv, HandInv, HandingOver
<1> QED BY <1>1, <1>2, <1>3, <1>4, <1>5 DEF IInv

LEMMA NextOK ==
  ASSUME IInv, [Next]_vars
  PROVE  IInv'
<1>1. CASE \E name \in TaskNames : \E x \in Arguments(name) : Start(name, x) BY <1>1, StartOK
<1>2. CASE send BY <1>2, SendOK
<1>3. CASE save BY <1>3, SaveOK
<1>4. CASE await BY <1>4, AwaitOK
<1>5. CASE adopt BY <1>5, AdoptOK
<1>6. CASE connect BY <1>6, ConnectOK
<1>7. CASE bound BY <1>7, BoundOK
<1>8. CASE enter BY <1>8, EnterOK
<1>9. CASE throw BY <1>9, StopOK DEF throw
<1>10. CASE kill BY <1>10, StopOK DEF kill
<1>11. CASE Mine BY <1>11, MineOK
<1>12. CASE Lose BY <1>12, LoseOK
<1>13. CASE \E r \in DOMAIN chain.registries, a \in Assets : others(r, a) BY <1>13, OthersOK
<1>14. CASE \E r \in DOMAIN chain.registries, g \in 1..MaxImpls : initialize(r, g)
  BY <1>14, InitializeOK
<1>15. CASE note BY <1>15, NoteOK
<1>16. CASE UNCHANGED vars BY <1>16, StutterOK
<1> QED BY <1>1, <1>2, <1>3, <1>4, <1>5, <1>6, <1>7, <1>8, <1>9, <1>10, <1>11, <1>12, <1>13,
          <1>14, <1>15, <1>16 DEF Next


LEMMA Invariant == Spec => []IInv
<1>1. Init => IInv BY InitOK
<1>2. IInv /\ [Next]_vars => IInv' BY NextOK
<1> QED BY <1>1, <1>2, PTL DEF Spec

-----------------------------------------------------------------------------
\* The address that is noted early.

EarlyInv ==
  /\ mishaps \in Nat
  /\ mishaps = 0 => /\ task.awaited # "lost"
                    /\ db.BNFTRegistryImpl <= Newest("BNFTRegistryImpl")

Impl == "BNFTRegistryImpl"

LEMMA NewestImpl ==
  ASSUME TypeInv
  PROVE  /\ Newest(Impl) = Len(chain.registries) + Sent(Impl) + Sent("BNFTRegistry")
         /\ Len(chain.registries) \in Nat /\ Sent(Impl) \in Nat /\ Sent("BNFTRegistry") \in Nat
         /\ Newest(Impl) \in Nat /\ db.BNFTRegistryImpl \in Nat
<1>1. Newest(Impl) = Len(chain.registries) + Sent(Impl) + Sent("BNFTRegistry")
  BY DEF Newest, Impl
<1>2. Len(chain.registries) \in Nat /\ db.BNFTRegistryImpl \in Nat
  BY DEF TypeInv, Storage, Db
<1>3. pending \in Seq(Txs) BY DEF TypeInv
<1>4. Sent(Impl) \in Nat /\ Sent("BNFTRegistry") \in Nat BY <1>3, SentIs
<1> QED BY <1>1, <1>2, <1>4

\* One more transaction is on its way, and none less.
LEMMA SentAppended ==
  ASSUME pending \in Seq(Txs), NEW tx \in Txs, pending' = Append(pending, tx), NEW kind
  PROVE  Sent(kind) <= Sent(kind)'
<1> DEFINE S == {k \in DOMAIN pending : pending[k].op = kind}
           T == {k \in DOMAIN pending' : pending'[k].op = kind}
<1>1. /\ DOMAIN pending = 1..Len(pending) /\ DOMAIN pending' = 1..(Len(pending) + 1)
      /\ Len(pending) \in Nat /\ \A i \in 1..Len(pending) : pending'[i] = pending[i]
  BY AppendProperties
<1>2. S \subseteq T BY <1>1
<1>3. IsFiniteSet(T)
  <2>1. IsFiniteSet(1..(Len(pending) + 1)) BY <1>1, FS_Interval
  <2>2. T \subseteq 1..(Len(pending) + 1) BY <1>1
  <2> QED BY <2>1, <2>2, FS_Subset
<1>4. Cardinality(S) <= Cardinality(T) BY <1>2, <1>3, FS_Subset
<1> QED BY <1>4 DEF Sent

\* The first transaction is gone, and no other.
LEMMA SentTail ==
  ASSUME pending \in Seq(Txs), pending # << >>, pending' = Tail(pending), NEW kind
  PROVE  /\ Sent(kind)' \in Nat
         /\ Sent(kind) <= Sent(kind)' + (IF Head(pending).op = kind THEN 1 ELSE 0)
<1> DEFINE n == Len(pending)
           S == {k \in DOMAIN pending : pending[k].op = kind}
           R == S \ {1}
           T == {k \in DOMAIN pending' : pending'[k].op = kind}
<1>1. /\ n \in Nat \ {0} /\ DOMAIN pending = 1..n /\ Head(pending) = pending[1]
      /\ DOMAIN pending' = 1..(n - 1)
      /\ \A i \in 1..(n - 1) : pending'[i] = pending[i + 1]
  OBVIOUS
<1>2. IsFiniteSet(S) /\ IsFiniteSet(R) /\ IsFiniteSet(T)
  <2>1. IsFiniteSet(1..n) /\ IsFiniteSet(1..(n - 1)) BY <1>1, FS_Interval
  <2>2. S \subseteq 1..n /\ R \subseteq 1..n /\ T \subseteq 1..(n - 1) BY <1>1
  <2> QED BY <2>1, <2>2, FS_Subset
<1>3. Cardinality(S) \in Nat /\ Cardinality(R) \in Nat /\ Cardinality(T) \in Nat
  BY <1>2, FS_CardinalityType
<1>4. Cardinality(R) <= Cardinality(T)
  <2> DEFINE f == [k \in T |-> k + 1]
  <2>1. f \in Surjection(T, R)
    <3>1. ASSUME NEW k \in T PROVE k + 1 \in R BY <1>1
    <3>2. ASSUME NEW m \in R PROVE m - 1 \in T /\ (m - 1) + 1 = m BY <1>1
    <3>3. f \in [T -> R] BY <3>1
    <3>4. \A m \in R : \E k \in T : f[k] = m BY <3>2
    <3> HIDE DEF f, T, R
    <3> QED BY <3>3, <3>4 DEF Surjection
  <2> QED BY <1>2, <2>1, FS_Surjection
<1>5. Cardinality(S) <= Cardinality(R) + (IF pending[1].op = kind THEN 1 ELSE 0)
  <2>1. CASE pending[1].op = kind
    <3>1. 1 \in S BY <1>1, <2>1
    <3>2. Cardinality(R) = Cardinality(S) - 1 BY <1>2, <3>1, FS_RemoveElement
    <3> QED BY <1>3, <2>1, <3>2
  <2>2. CASE pending[1].op # kind
    <3>1. R = S BY <2>2
    <3> HIDE DEF R, S
    <3> QED BY <1>3, <2>2, <3>1
  <2> QED BY <2>1, <2>2
<1> HIDE DEF S, R, T
<1>6. Sent(kind) = Cardinality(S) /\ Sent(kind)' = Cardinality(T) BY DEF Sent, S, T
<1> QED BY <1>1, <1>3, <1>4, <1>5, <1>6

\* What is to come or there does not become less when a transaction is mined.
LEMMA NewestMined ==
  ASSUME IInv, Mine
  PROVE  Newest(Impl) <= Newest(Impl)' /\ Newest(Impl)' \in Nat
<1> DEFINE tx == Head(pending)
<1>1. /\ TypeInv /\ ChainInv(chain) /\ pending \in Seq(Txs) /\ pending # << >>
      /\ chain' = Apply(chain, tx) /\ pending' = Tail(pending) /\ PendingInv
  BY DEF IInv, TypeInv, Mine
<1>2. tx \in Txs /\ Sound(chain, tx)
  <2>1. tx = pending[1] /\ 1 \in DOMAIN pending /\ tx \in Txs BY <1>1
  <2> QED BY <1>1, <2>1 DEF PendingInv
<1>3. /\ Sent(Impl)' \in Nat /\ Sent("BNFTRegistry")' \in Nat
      /\ Sent(Impl) <= Sent(Impl)' + (IF tx.op = Impl THEN 1 ELSE 0)
      /\ Sent("BNFTRegistry")
           <= Sent("BNFTRegistry")' + (IF tx.op = "BNFTRegistry" THEN 1 ELSE 0)
  BY <1>1, SentTail
<1>4. /\ Newest(Impl) = Len(chain.registries) + Sent(Impl) + Sent("BNFTRegistry")
      /\ Len(chain.registries) \in Nat /\ Sent(Impl) \in Nat /\ Sent("BNFTRegistry") \in Nat
  BY <1>1, NewestImpl
<1>5. Newest(Impl)' = Len(chain'.registries) + Sent(Impl)' + Sent("BNFTRegistry")'
  BY DEF Newest, Impl
<1> HIDE DEF tx
<1>6. /\ ChainInv(chain') /\ Len(chain.registries) <= Len(chain'.registries)
      /\ tx.op \in {Impl, "BNFTRegistry"} =>
           Len(chain'.registries) = Len(chain.registries) + 1
  BY <1>1, <1>2, ApplyOK, ApplyKind DEF Grows, Kinds, Impl
<1>7. Len(chain'.registries) \in Nat BY <1>6 DEF ChainInv, Storage
<1>8. \A l, i, b, k, j, c \in Nat :
        \/ l + 1 = k /\ i + b <= j + c + 1
        \/ l <= k /\ i <= j /\ b <= c
        => l + i + b <= k + j + c
  OBVIOUS
<1>9. \/ /\ Len(chain.registries) + 1 = Len(chain'.registries)
         /\ Sent(Impl) + Sent("BNFTRegistry") <= Sent(Impl)' + Sent("BNFTRegistry")' + 1
      \/ /\ Len(chain.registries) <= Len(chain'.registries) /\ Sent(Impl) <= Sent(Impl)'
         /\ Sent("BNFTRegistry") <= Sent("BNFTRegistry")'
  <2>1. \A i, j \in Nat : i <= j + 0 => i <= j OBVIOUS
  <2>2. \A i, j, b, c \in Nat : /\ i <= j + 1 /\ b <= c => i + b <= j + c + 1
                                /\ i <= j /\ b <= c + 1 => i + b <= j + c + 1
    OBVIOUS
  <2>3. CASE tx.op = Impl
    <3>1. tx.op # "BNFTRegistry" BY <2>3 DEF Impl
    <3>2. Sent(Impl) <= Sent(Impl)' + 1 /\ Sent("BNFTRegistry") <= Sent("BNFTRegistry")'
      BY <1>3, <1>4, <2>1, <2>3, <3>1
    <3> QED BY <1>3, <1>4, <1>6, <2>2, <2>3, <3>2
  <2>4. CASE tx.op = "BNFTRegistry"
    <3>1. tx.op # Impl BY <2>4 DEF Impl
    <3>2. Sent(Impl) <= Sent(Impl)' /\ Sent("BNFTRegistry") <= Sent("BNFTRegistry")' + 1
      BY <1>3, <1>4, <2>1, <2>4, <3>1
    <3> QED BY <1>3, <1>4, <1>6, <2>2, <2>4, <3>2
  <2>5. CASE tx.op \notin {Impl, "BNFTRegistry"}
    <3>1. Sent(Impl) <= Sent(Impl)' /\ Sent("BNFTRegistry") <= Sent("BNFTRegistry")'
      BY <1>3, <1>4, <2>1, <2>5
    <3> QED BY <1>6, <3>1
  <2> QED BY <2>3, <2>4, <2>5
<1>10. Len(chain.registries) + Sent(Impl) + Sent("BNFTRegistry")
         <= Len(chain'.registries) + Sent(Impl)' + Sent("BNFTRegistry")'
  BY <1>3, <1>4, <1>7, <1>8, <1>9
<1> QED BY <1>3, <1>4, <1>5, <1>7, <1>10

LEMMA EarlyOK ==
  ASSUME IInv, EarlyInv, [Next]_vars
  PROVE  EarlyInv'
<1>1. /\ TypeInv /\ ChainInv(chain) /\ TaskInv /\ mishaps \in Nat
      /\ Newest(Impl) \in Nat /\ db.BNFTRegistryImpl \in Nat
  BY NewestImpl DEF IInv, EarlyInv
<1> DEFINE Kept == /\ mishaps' = mishaps
                   /\ task'.awaited \in {"nothing", "sent", "mined", "reverted", task.awaited}
                   /\ \/ db'.BNFTRegistryImpl = db.BNFTRegistryImpl
                      \/ db'.BNFTRegistryImpl = Newest(Impl) /\ task.awaited # "lost"
                      \/ task.awaited = "lost"
                   /\ Newest(Impl) <= Newest(Impl)' /\ Newest(Impl)' \in Nat
<1>2. ASSUME Kept PROVE EarlyInv'
  <2> SUFFICES ASSUME mishaps = 0
               PROVE  task'.awaited # "lost" /\ db'.BNFTRegistryImpl <= Newest(Impl)'
    BY <1>1, <1>2 DEF EarlyInv, Impl
  <2>1. task.awaited # "lost" /\ db.BNFTRegistryImpl <= Newest(Impl) BY DEF EarlyInv, Impl
  <2>2. \/ db'.BNFTRegistryImpl = db.BNFTRegistryImpl
        \/ db'.BNFTRegistryImpl = Newest(Impl)
    BY <1>2, <2>1
  <2>3. Newest(Impl) <= Newest(Impl)' /\ Newest(Impl)' \in Nat BY <1>2
  <2>4. \A i, j, k \in Nat : i <= j /\ j <= k => i <= k OBVIOUS
  <2>5. db'.BNFTRegistryImpl <= Newest(Impl)' BY <1>1, <2>1, <2>2, <2>3, <2>4
  <2> QED BY <1>2, <2>1, <2>5
<1>3. ASSUME mishaps' = mishaps + 1 PROVE EarlyInv'
  BY <1>1, <1>3 DEF EarlyInv
\* Steps that leave what is sent and the number of the registries alone.
<1>4. ASSUME pending' = pending, Len(chain'.registries) = Len(chain.registries)
      PROVE  Newest(Impl)' = Newest(Impl)
  BY <1>4 DEF Newest, Impl, Sent
<1>5. Newest(Impl) <= Newest(Impl) BY <1>1
<1>6. ASSUME NEW w \in {"nothing", "sent", "mined", "reverted", "lost"}, task # Idle, Advance(w)
      PROVE  task'.awaited \in {"nothing", w}
  BY <1>1, <1>6, Advances, IdleIs DEF Over, Onward
<1>7. CASE \E name \in TaskNames : \E x \in Arguments(name) : Start(name, x)
  <2>1. /\ mishaps' = mishaps /\ pending' = pending /\ chain' = chain /\ db' = db
        /\ task'.awaited = "nothing"
    BY <1>7 DEF Start, Idle
  <2> QED BY <1>1, <1>2, <1>4, <1>5, <2>1
<1>8. CASE send
  <2>1. /\ mishaps' = mishaps /\ chain' = chain /\ db' = db /\ task # Idle
        /\ Advance(IF Awaited THEN "sent" ELSE "nothing")
    BY <1>8 DEF send
  <2>2. PICK tx \in Sends : pending' = Append(pending, tx) BY <1>8 DEF send
  <2>3. tx \in Txs /\ pending \in Seq(Txs) BY <2>1, SendsIs DEF IInv, HeadInv, TypeInv
  <2>4. task'.awaited \in {"nothing", "sent"} BY <1>6, <2>1
  <2>5. Sent(Impl) <= Sent(Impl)' /\ Sent("BNFTRegistry") <= Sent("BNFTRegistry")'
    BY <2>2, <2>3, SentAppended
  <2>6. pending' \in Seq(Txs) BY <2>2, <2>3
  <2>7. Sent(Impl)' \in Nat /\ Sent("BNFTRegistry")' \in Nat
    <3>1. \A kind : Sent(kind)' \in Nat
      <4> SUFFICES ASSUME NEW kind PROVE Sent(kind)' \in Nat OBVIOUS
      <4>1. Len(pending') \in Nat /\ DOMAIN pending' = 1..Len(pending') BY <2>6
      <4> DEFINE T == {k \in DOMAIN pending' : pending'[k].op = kind}
      <4>2. T \subseteq 1..Len(pending') BY <4>1
      <4>3. IsFiniteSet(1..Len(pending')) BY <4>1, FS_Interval
      <4> HIDE DEF T
      <4>4. Cardinality(T) \in Nat BY <4>2, <4>3, FS_Subset, FS_CardinalityType
      <4> QED BY <4>4 DEF Sent, T
    <3> QED BY <3>1
  <2>8. /\ Newest(Impl) = Len(chain.registries) + Sent(Impl) + Sent("BNFTRegistry")
        /\ Len(chain.registries) \in Nat /\ Sent(Impl) \in Nat /\ Sent("BNFTRegistry") \in Nat
    BY <1>1, NewestImpl
  <2>9. Newest(Impl)' = Len(chain.registries) + Sent(Impl)' + Sent("BNFTRegistry")'
    BY <2>1 DEF Newest, Impl
  <2>10. Newest(Impl) <= Newest(Impl)' /\ Newest(Impl)' \in Nat BY <2>5, <2>7, <2>8, <2>9
  <2> QED BY <1>2, <2>1, <2>4, <2>10
<1>9. CASE note
  <2>1. /\ mishaps' = mishaps /\ chain' = chain /\ pending' = pending /\ task # Idle
        /\ Now.do = "note" /\ Advance(task.awaited) /\ task \in Tasks /\ db \in Db
        /\ db' = [db EXCEPT !.BNFTRegistryImpl =
                     Newest(Now.x) + IF task.awaited = "lost" THEN 1 ELSE 0]
    BY <1>1, <1>9 DEF note, At, TypeInv
  <2>2. task'.awaited \in {"nothing", task.awaited} BY <1>6, <2>1 DEF Tasks
  <2>3. Newest(Now.x) = Newest(Impl)
    <3>1. Now \in Steps BY <1>1, <2>1, NowIs
    <3>2. Now.x = "BNFTRegistryImpl"
      BY <2>1, <3>1 DEF Steps, ItemDos, RegistryOps, OwnerOps
    <3> QED BY <3>2 DEF Impl
  <2>4. db'.BNFTRegistryImpl = Newest(Impl) \/ task.awaited = "lost"
    BY <1>1, <2>1, <2>3 DEF Db
  <2> QED BY <1>1, <1>2, <1>4, <1>5, <2>1, <2>2, <2>4
<1>10. CASE save \/ await \/ adopt \/ bound \/ enter
  <2>1. /\ mishaps' = mishaps /\ chain' = chain /\ pending' = pending /\ task # Idle
        /\ Advance("nothing")
    BY <1>10 DEF save, await, adopt, bound, enter, At
  <2>2. task'.awaited = "nothing" BY <1>6, <2>1
  <2>3. db'.BNFTRegistryImpl = db.BNFTRegistryImpl
    BY <1>1, <1>10 DEF save, await, adopt, bound, enter, Key, TypeInv, Db
  <2> QED BY <1>1, <1>2, <1>4, <1>5, <2>1, <2>2, <2>3
<1>11. CASE connect
  <2>1. /\ mishaps' = mishaps /\ chain' = chain /\ pending' = pending /\ db' = db
        /\ task'.awaited = task.awaited
    BY <1>1, <1>11 DEF connect, TypeInv, Tasks
  <2> QED BY <1>1, <1>2, <1>4, <1>5, <2>1
<1>12. CASE throw
  <2>1. /\ mishaps' = mishaps /\ chain' = chain /\ pending' = pending /\ db' = db
        /\ task'.awaited = "nothing"
    BY <1>12, IdleIs DEF throw
  <2> QED BY <1>1, <1>2, <1>4, <1>5, <2>1
<1>13. CASE kill
  <2>1. mishaps' = mishaps + 1 \/ mishaps' = mishaps BY <1>13 DEF kill
  <2>2. /\ chain' = chain /\ pending' = pending /\ db' = db /\ task'.awaited = "nothing"
    BY <1>13, IdleIs DEF kill
  <2> QED BY <1>1, <1>2, <1>3, <1>4, <1>5, <2>1, <2>2
<1>14. CASE Mine
  <2>1. /\ mishaps' = mishaps /\ db' = db
        /\ Newest(Impl) <= Newest(Impl)' /\ Newest(Impl)' \in Nat
    BY <1>14, NewestMined DEF Mine
  <2>2. task'.awaited \in {"mined", "reverted", task.awaited}
    BY <1>1, <1>14 DEF Mine, TypeInv, Tasks
  <2> QED BY <1>2, <2>1, <2>2
<1>15. CASE Lose BY <1>3, <1>15 DEF Lose
<1>16. CASE \E r \in DOMAIN chain.registries : \/ \E g \in 1..MaxImpls : initialize(r, g)
                                              \/ \E a \in Assets : others(r, a)
  <2>1. /\ mishaps' = mishaps /\ pending' = pending /\ db' = db /\ task' = task
        /\ IInv' /\ Same(chain, chain')
    <3>1. CASE \E r \in DOMAIN chain.registries : \E g \in 1..MaxImpls : initialize(r, g)
      BY <3>1, InitializeOK DEF initialize
    <3>2. CASE \E r \in DOMAIN chain.registries : \E a \in Assets : others(r, a)
      BY <3>2, OthersOK DEF others
    <3> QED BY <1>16, <3>1, <3>2
  <2>2. chain.registries \in Seq(Registry) /\ chain'.registries \in Seq(Registry)
    BY <1>1, <2>1 DEF IInv, ChainInv, Storage
  <2>3. DOMAIN chain'.registries = DOMAIN chain.registries BY <2>1 DEF Same
  <2>4. Len(chain'.registries) = Len(chain.registries)
    <3>1. \A i, j \in Nat : 1..i = 1..j => i = j OBVIOUS
    <3> QED BY <2>2, <2>3, <3>1
  <2> QED BY <1>1, <1>2, <1>4, <1>5, <2>1, <2>4
<1>17. CASE UNCHANGED vars
  <2>1. /\ mishaps' = mishaps /\ chain' = chain /\ pending' = pending /\ db' = db /\ task' = task
    BY <1>17 DEF vars
  <2> QED BY <1>1, <1>2, <1>4, <1>5, <2>1
<1> QED BY <1>7, <1>8, <1>9, <1>10, <1>11, <1>12, <1>13, <1>14, <1>15, <1>16, <1>17 DEF Next

LEMMA Early == Spec => []EarlyInv
<1>1. Init => EarlyInv
  <2> SUFFICES ASSUME Init PROVE EarlyInv OBVIOUS
  <2>1. TypeInv BY InitOK DEF IInv
  <2>2. mishaps = 0 /\ db.BNFTRegistryImpl = 0 /\ task.awaited = "nothing"
    BY IdleIs DEF Init
  <2>3. Newest(Impl) \in Nat BY <2>1, NewestImpl
  <2> QED BY <2>2, <2>3 DEF EarlyInv, Impl
<1>2. IInv /\ EarlyInv /\ [Next]_vars => EarlyInv' BY EarlyOK
<1> QED BY <1>1, <1>2, Invariant, PTL DEF Spec

-----------------------------------------------------------------------------
\* The promises.

\* Tasks, transactions, contracts and the address file keep their types, and no
\* task runs while another counts as completed: every task begins after the last
\* has ended, thrown or killed (deploy.ts:23, contracts-helpers.ts:125).
THEOREM Typed == Spec => []TypeInv
<1>1. IInv => TypeInv BY DEF IInv
<1> QED BY <1>1, Invariant, PTL

\* What the tasks go by in the file is there, however tasks are killed, throw or
\* start over, and whatever transactions are lost: those addresses reach the file
\* after the transaction that makes the contract is mined (contracts-helpers.ts:125).
\* The address of a registry implementation reaches it before
\* (contracts-deployments.ts:44): it stands for a contract that is there or on its
\* way until something is killed or lost.
THEOREM FileNamesContractsHolds == Spec => []FileNamesContracts
<1>1. IInv /\ EarlyInv => FileNamesContracts
  BY DEF IInv, FileInv, EarlyInv, FileNamesContracts
<1> QED BY <1>1, Invariant, Early, PTL

\* An implementation stays out of the deployer's hands, although the file names it in
\* the registry's place between two steps (contracts-deployments.ts:42) and anybody
\* may initialize it (BNFTRegistry.sol:84): no upgrade of it is accepted, as it has no
\* admin, no call of its owner, who is nobody or the stranger, and what is made there
\* is the stranger's.
THEOREM ImplementationsApartHolds == Spec => []ImplementationsApart
<1>1. IInv => ImplementationsApart
  BY DEF IInv, ChainInv, Whole, Apart, ImplementationsApart
<1> QED BY <1>1, Invariant, PTL

\* A token task that came to its end has left every collection of the configuration
\* with a bNFT, in the file if it writes there, and running the generic
\* implementation if no transaction was on its way when it began and the registry is
\* the deployer's
\* (deploy.ts:127, bnft-tokens.ts:11).
THEOREM TokensCompleteHolds == Spec => []TokensComplete
<1>1. IInv => TokensComplete
  BY DEF IInv, DoneInv, TokensComplete, Complete, Good, GoodIn, FilingTasks
<1> QED BY <1>1, Invariant, PTL

\* A hand-over begun with nothing on its way has, once its transactions are mined,
\* given the registry and every bNFT it names to the new owner with the claim admin
\* set, though it awaits none of them: none is lost, and the estimate of each stands
\* for all that were sent before it (deploy.ts:214).
THEOREM HandedOverWholeHolds == Spec => []HandedOverWhole
<1>1. IInv => HandedOverWhole
  <2> SUFFICES ASSUME IInv, done.name = "transferOwnership", done.quiet, pending = << >>,
                      NEW x \in HandedOver
               PROVE  OwnerOf(chain, x) = NewOwner /\ ClaimAdminOf(chain, x) = NewOwner
    BY DEF HandedOverWhole
  <2>1. task = Idle BY IdleIs DEF IInv, TypeInv
  <2>2. HandedSoFar(chain, pending, db, task.todo) BY DEF IInv, HandInv, HandingOver
  <2>3. PICK n \in HandNames : x = Place(db, n)
    <3>1. CASE x = RegistryAt(db.BNFTRegistry) BY <3>1 DEF HandNames, Place
    <3>2. CASE x # RegistryAt(db.BNFTRegistry)
      <4>1. PICK a \in Range(HandOver) : x = Bound(db.bound[a], a) BY <3>2 DEF HandedOver
      <4>2. a \in HandNames BY DEF HandNames
      <4>3. a # "BNFTRegistry"
        <5>1. PICK k \in DOMAIN HandOver : a = HandOver[k] BY DEF Range
        <5>2. a \in Assets BY <5>1, AssetsTyped
        <5> QED BY <5>2, Accounts
      <4>4. x = Place(db, a) BY <4>1, <4>3 DEF Place
      <4> QED BY <4>2, <4>4
    <3> QED BY <3>1, <3>2
  <2>4. \A do : ~Left(task.todo, do, n) BY <2>1, IdleIs DEF Left, Range
  <2>5. Claimed(chain, << >>, x, 0) /\ Given(chain, << >>, x)
    BY <2>2, <2>3, <2>4 DEF HandedSoFar
  <2>6. ~ClaimPending(<< >>, x, 0) /\ ~GivePending(<< >>, x)
    BY DEF ClaimPending, GivePending
  <2> QED BY <2>5, <2>6 DEF Claimed, Given
<1> QED BY <1>1, Invariant, PTL

=============================================================================
