-------------------------- MODULE ProxyTasksProofs --------------------------
(***************************************************************************)
(* Proofs that the tasks for the contracts behind proxies, for receivers   *)
(* and for mocks keep their promises, for any number of collections,       *)
(* transactions and mishaps: no proxy is led astray, and after a task that *)
(* was completed the file tells what is on the chain.                      *)
(***************************************************************************)
EXTENDS ProxyTasks, SequenceTheorems, FiniteSetTheorems, WellFoundedInduction, TLAPS

-----------------------------------------------------------------------------
\* Types.

Impls == {Impl(k) : k \in ProxyKeys}

Msgs == [op : ContractKeys \cup {"upgrade", "initialize"}, to : Nat, logic : Nat, admin : Nat]

Steps == [do : {"make"}, x : ContractKeys] \cup [do : {"note"}, x : Impls]
           \cup [do : {"record", "find"}, x : Keys]
           \cup [do : {"enlist"}, x : (ProxyKeys \cup AdminKeys) \X Nat]
           \cup [do : {"upgrade"}, x : Nat]
           \cup [do : {"verify", "wait", "initialize"}, x : {None}]
           \cup [do : {"unlessThere"}, x : Symbols]

Runs(names, flags) ==
  [name : names \cup {"none"}, todo : Seq(Steps), key : ProxyKeys \cup {"call"}, admin : Nat,
   made : Seq(Nat), verify : flags \cup {"no"},
   awaited : {"nothing", "sent", "mined", "reverted", "lost"}]

TypeInv(names, flags) ==
  /\ ledger \in Seq(Entry) /\ pool \in Seq(Msgs) /\ file \in [Keys -> Nat]
  /\ run \in Runs(names, flags) /\ ended \in Runs(names, flags)
  /\ run # NoRun => run.todo # << >>
  /\ ended # NoRun => run = NoRun
  /\ Verifying => run # NoRun /\ Current.do = "verify"

-----------------------------------------------------------------------------
\* The steps of a task: which may follow which, and which may be the last.

Receiver   == "full:deploy-flashclaim-receiver-v2"
ReceiverV2 == "AirdropFlashLoanReceiverV2"
ReceiverV3 == "AirdropFlashLoanReceiverV3Impl"

\* A task that only looks at what is there has no other steps than these.
Looks(p) == \A s \in Range(p) : s.do \in {"find", "verify"}

Follows(name, s, t) ==
  /\ s.do # "wait"
  /\ s.do = "make" => t.do \in {"note", "record"} /\ t.x = s.x
  /\ s.do = "note" => t.do = "record" /\ t.x = KeyOf(name)
  /\ s.do = "enlist" /\ KeyOf(name) \in ProxyKeys =>
       t.do = "upgrade" /\ s.x = <<KeyOf(name), t.x>>
  /\ s.do = "record" /\ name = Receiver => t.do \in {"verify", "initialize"}
  /\ s.do = "record" /\ name \in Mocks /\ s.x \in Symbols => t.do \in {"make", "unlessThere"}
  /\ s.do = "verify" /\ name = Receiver => t.do = "initialize"
  /\ s.do = "unlessThere" => t.do = "make"
  /\ s.do \in {"upgrade", "initialize"} => t.do = "wait"
  /\ t.do = "make" => t.x # Impl(KeyOf(name))
  /\ t.do = "note" => s.do = "make"
  /\ t.do = "record" => s.do \in {"make", "note", "record", "verify"}
  /\ t.do = "record" /\ t.x \in Impls \cup {ReceiverV2} => s.do = "make"
  /\ t.do = "upgrade" => s.do = "enlist"
  /\ t.do = "initialize" => s.do \in {"record", "verify"}
  /\ t.do = "wait" => s.do \in {"upgrade", "initialize"}
  /\ t.do = "verify" => s.do = "record"

Linked(name, p) == \A k \in 1..(Len(p) - 1) : Follows(name, p[k], p[k + 1])

Unfinished(name, s) ==
  \/ s.do \in {"make", "note", "upgrade", "initialize", "unlessThere"}
  \/ s.do = "enlist" /\ KeyOf(name) \in ProxyKeys
  \/ s.do # "wait" /\ name = Receiver

Finished(name, p) == p # << >> => ~Unfinished(name, p[Len(p)])

\* The step that puts a proxy on the chain.
Deploys(key, s) == s.do = "make" /\ s.x = key

\* What comes after it.
Closes(key, s) == s.do = "verify" \/ (s.do = "record" /\ s.x = key)

Ordered(name, p) ==
  \A j, k \in DOMAIN p :
    j < k /\ Deploys(KeyOf(name), p[j]) /\ KeyOf(name) \in ProxyKeys => Closes(KeyOf(name), p[k])

\* What a collection that is in the file is passed over with.
BlockLength(flag) == IF flag = "no" THEN 4 ELSE 5

Blocks(flag, p) ==
  \A k \in DOMAIN p :
    p[k].do = "unlessThere" =>
      /\ k + BlockLength(flag) <= Len(p) + 1
      /\ k + BlockLength(flag) <= Len(p) => p[k + BlockLength(flag)].do = "unlessThere"
      /\ \A j \in k..(k + BlockLength(flag) - 1) :
           p[j].do = "record" /\ p[j].x \in Symbols => p[j].x = p[k].x

\* What the steps of the tasks that a property asks about may be.
Proper(name, s) ==
  LET key == KeyOf(name) IN
  /\ key \in ProxyKeys =>
       /\ s.do \in {"make", "note", "record", "verify", "enlist", "upgrade", "wait"}
       /\ s.do \in {"make", "note", "record"} => s.x \in {key, Impl(key), ReceiverV3}
       /\ s.do = "enlist" => s.x[1] = key
  /\ key \notin ProxyKeys =>
       /\ s.do \notin {"note", "upgrade"}
       /\ s.do = "make" => s.x \notin ProxyKeys
       /\ s.do = "enlist" => s.x[1] \in AdminKeys
  /\ name = Receiver =>
       /\ s.do \in {"make", "record", "verify", "initialize", "wait"}
       /\ s.do \in {"make", "record"} => s.x = ReceiverV2
  /\ name \in Mocks => s.do \in {"make", "record", "verify", "unlessThere"}
  /\ s.do = "initialize" => name = Receiver
  /\ s.do = "wait" => name = Receiver \/ key \in ProxyKeys
  /\ s.do = "unlessThere" => name \in Mocks
  /\ s.do = "record" /\ s.x \in Symbols => name \in Mocks

\* An upgrade is of a proxy of the kind that the task is about.
Founded(l, name, s) == s.do = "upgrade" => IsKind(l, s.x, KeyOf(name))

\* The tasks a property asks about.
Tells(name) == KeyOf(name) \in ProxyKeys \/ name = Receiver \/ name \in Mocks

Fits(l, name, flag, p) ==
  \/ Looks(p) /\ ~Tells(name)
  \/ /\ Linked(name, p) /\ Finished(name, p) /\ Ordered(name, p) /\ Blocks(flag, p)
     /\ \A s \in Range(p) : Proper(name, s) /\ Founded(l, name, s)

-----------------------------------------------------------------------------
\* The transactions on their way.

Sound(l, tx) ==
  /\ tx.op \in ProxyKeys => IsKind(l, tx.logic, Impl(tx.op))
  /\ tx.op = "upgrade" => /\ tx.to \in DOMAIN l /\ l[tx.to].kind \in ProxyKeys
                          /\ IsKind(l, tx.logic, Impl(l[tx.to].kind))
  /\ tx.op = "initialize" => IsKind(l, tx.to, ReceiverV2)

Last1(p)    == p[Len(p)]
LatestOf(r) == Last1(r.made)
StepOf(r)   == Head(r.todo)

\* What the step a task is at waits for, and what was deployed before it.
WaitInv(l, p, r) ==
  LET s == StepOf(r) IN
  /\ s.do \notin {"note", "record", "wait"} => r.awaited = "nothing"
  /\ s.do \in {"note", "wait"} => r.awaited # "nothing"
  /\ r.awaited = "sent" => p # << >>
  /\ r.awaited \in {"mined", "reverted"} => p = << >>
  /\ r.awaited = "sent" /\ s.do \in {"note", "record"} => LatestOf(r) = Len(l) + Len(p)
  /\ s.do \in {"note", "record", "wait", "initialize", "upgrade"} => r.made # << >>
  /\ s.do = "verify" => r.made # << >> \/ Looks(r.todo)

-----------------------------------------------------------------------------
\* A task for a contract behind a proxy.

\* A proxy that runs what a task deployed first, under the admin it read.
Right(l, r, a) == /\ IsKind(l, a, r.key)
                  /\ l[a].logic = r.made[1] /\ l[a].admin = r.admin

\* The proxy is still to be deployed or upgraded,
ProxyToCome(r) ==
  \E s \in Range(r.todo) : s.do = "upgrade" \/ Deploys(r.key, s)

\* it is being upgraded,
Upgrading(l, p, f, r) ==
  /\ StepOf(r).do = "wait" /\ IsKind(l, f[r.key], r.key)
  /\ r.awaited = "sent" => Last1(p) = Message("upgrade", f[r.key], r.made[1], r.admin)
  /\ r.awaited = "mined" => Right(l, r, f[r.key])

\* it is being deployed,
Deploying(l, p, r) ==
  /\ StepOf(r).do = "record" /\ StepOf(r).x = r.key /\ r.awaited # "nothing"
  /\ \A s \in Range(r.todo) : Closes(r.key, s)
  /\ r.awaited = "sent" => Last1(p) = Message(r.key, 0, r.made[1], r.admin)
  /\ r.awaited = "mined" => Right(l, r, LatestOf(r))

\* or it is in the file.
Deployed(l, p, f, r) ==
  /\ f[r.key] = LatestOf(r) /\ Right(l, r, LatestOf(r)) /\ p = << >>
  /\ \A s \in Range(r.todo) : Closes(r.key, s)

\* Until the implementation is mined.
LogicSent(p, r) ==
  /\ Len(r.made) = 1 /\ StepOf(r).do \in {"note", "record"}
  /\ r.awaited \in {"sent", "lost", "reverted"}
  /\ r.awaited = "sent" => Last1(p).op = Impl(r.key)

LogicInv(l, p, r) ==
  r.key \in ProxyKeys =>
    /\ r.made = << >> <=> Deploys(Impl(r.key), StepOf(r))
    /\ r.made # << >> => IsKind(l, r.made[1], Impl(r.key)) \/ LogicSent(p, r)

KeyInv(l, p, f, r) ==
  r.key \in ProxyKeys =>
    LET s == StepOf(r)
        saves == s.do \in {"note", "record"} /\ s.x = Impl(r.key)
    IN
    /\ f[AdminOf(r.key)] = r.admin
    /\ saves => Len(r.made) = 1
    /\ r.made # << >> => saves \/ f[Impl(r.key)] = r.made[1]
    /\ s.do = "upgrade" => s.x = f[r.key]
    /\ \/ ProxyToCome(r) \/ Upgrading(l, p, f, r)
       \/ Deploying(l, p, r) \/ Deployed(l, p, f, r)

-----------------------------------------------------------------------------
\* A receiver, and the mocks.

ReceiverInv(l, p, f, r) ==
  r.name = Receiver =>
    LET s == StepOf(r) IN
    /\ s.do = "record" => /\ r.awaited # "nothing"
                          /\ r.awaited = "sent" => Last1(p).op = ReceiverV2
                          /\ r.awaited = "mined" => IsKind(l, LatestOf(r), ReceiverV2)
    /\ s.do \in {"verify", "initialize", "wait"} =>
         f[ReceiverV2] = LatestOf(r) /\ IsKind(l, LatestOf(r), ReceiverV2)
    /\ s.do = "wait" =>
         /\ r.awaited = "sent" => Last1(p).op = "initialize" /\ Last1(p).to = LatestOf(r)
         /\ r.awaited = "mined" => l[LatestOf(r)].owner = Deployer

\* No address stands under two symbols.
SymbolsInv(l, f) ==
  \A s \in Symbols : f[s] # 0 => f[s] \in DOMAIN l /\ \A r \in Symbols : f[r] = f[s] => r = s

SymbolToCome(r, s) == \E m \in Range(r.todo) : m.do = "record" /\ m.x = s

MockInv(l, f, r) ==
  r.name \in Mocks =>
    /\ StepOf(r).do \in {"record", "verify"} =>
         /\ r.awaited \in {"sent", "lost", "reverted"} \/ LatestOf(r) \in DOMAIN l
         /\ \A s \in Symbols : f[s] # LatestOf(r)
    /\ \A s \in Symbols : f[s] # 0 \/ SymbolToCome(r, s)

-----------------------------------------------------------------------------
RunInv(l, p, f, r) ==
  r # NoRun =>
    /\ r.key = KeyOf(r.name) /\ Fits(l, r.name, r.verify, r.todo)
    /\ WaitInv(l, p, r) /\ LogicInv(l, p, r)
    /\ KeyInv(l, p, f, r) /\ ReceiverInv(l, p, f, r) /\ MockInv(l, f, r)

EndInv(l, p, f, r) ==
  /\ r.key \in ProxyKeys =>
       /\ p = << >>
       /\ IsKind(l, f[r.key], r.key)
       /\ l[f[r.key]].logic = f[Impl(r.key)] /\ l[f[r.key]].admin = f[AdminOf(r.key)]
  /\ r.name = Receiver =>
       IsKind(l, f[ReceiverV2], ReceiverV2) /\ l[f[ReceiverV2]].owner = Deployer
  /\ r.name \in Mocks => \A s \in Symbols : f[s] # 0

PoolInv(l, p) == \A k \in DOMAIN p : Sound(l, p[k])

LedgerInv(l) == \A a \in DOMAIN l : l[a].kind \in ProxyKeys => IsKind(l, l[a].logic, Impl(l[a].kind))

Inv(l, p, f, r, e) ==
  /\ LedgerInv(l) /\ PoolInv(l, p) /\ SymbolsInv(l, f) /\ RunInv(l, p, f, r) /\ EndInv(l, p, f, e)

IInv(names, flags) == TypeInv(names, flags) /\ Inv(ledger, pool, file, run, ended)

-----------------------------------------------------------------------------
\* Names.

LEMMA Names ==
  /\ "call" \notin ContractKeys /\ "call" \notin Keys \cap ContractKeys
  /\ ProxyKeys \subseteq ContractKeys /\ Impls \subseteq ContractKeys
  /\ AdminKeys \subseteq ContractKeys /\ ContractKeys \subseteq Keys /\ Symbols \subseteq Keys
  /\ \A k \in ProxyKeys : Impl(k) \in Impls /\ AdminOf(k) \in AdminKeys
  /\ \A k, j \in ProxyKeys : Impl(k) = Impl(j) => k = j
  /\ ProxyKeys \cap Impls = {} /\ ProxyKeys \cap AdminKeys = {} /\ Impls \cap AdminKeys = {}
  /\ ContractKeys \cap {"call", "upgrade", "initialize"} = {}
  /\ ReceiverV2 \in ContractKeys /\ ReceiverV3 \in ContractKeys
  /\ {ReceiverV2, ReceiverV3} \cap (ProxyKeys \cup Impls \cup AdminKeys) = {}
  /\ Symbols \cap ContractKeys = {}
<1>1. Impls = {"BoundPunkGatewayImpl", "AirdropDistributionImpl", "UserFlashclaimRegistryV3Impl"}
  BY DEF Impls, ProxyKeys, Impl
<1>2. ContractKeys = ProxyKeys \cup Impls \cup AdminKeys \cup PlainKeys
  BY DEF ContractKeys, Impls
<1>3. Symbols \cap ContractKeys = {} BY SymbolsNamed
<1>4. \A k, j \in ProxyKeys : Impl(k) = Impl(j) => k = j BY DEF ProxyKeys, Impl
<1>5. \A k \in ProxyKeys : Impl(k) \in Impls /\ AdminOf(k) \in AdminKeys
  BY DEF Impls, AdminOf, AdminKeys
<1>6. ContractKeys \cap {"call", "upgrade", "initialize"} = {}
  BY <1>1, <1>2 DEF ProxyKeys, AdminKeys, PlainKeys
<1>7. ProxyKeys \cap Impls = {} /\ ProxyKeys \cap AdminKeys = {} /\ Impls \cap AdminKeys = {}
  BY <1>1 DEF ProxyKeys, AdminKeys
<1>8. {ReceiverV2, ReceiverV3} \cap (ProxyKeys \cup Impls \cup AdminKeys) = {}
  BY <1>1 DEF ProxyKeys, AdminKeys, ReceiverV2, ReceiverV3
<1>9. ReceiverV2 \in PlainKeys /\ ReceiverV3 \in PlainKeys
  BY DEF PlainKeys, ReceiverV2, ReceiverV3
<1>10. Keys = ContractKeys \cup Symbols BY DEF Keys
<1> QED BY <1>2, <1>3, <1>4, <1>5, <1>6, <1>7, <1>8, <1>9, <1>10

\* The names of the tasks a property asks about.
LEMMA TaskNames ==
  /\ KeyOf(Receiver) = "call" /\ Receiver \notin Mocks
  /\ \A name \in Mocks : KeyOf(name) = "call"
  /\ "call" \notin ProxyKeys
  /\ \A name : KeyOf(name) \in ProxyKeys \cup {"call"}
BY DEF KeyOf, Receiver, Mocks, ProxyKeys

-----------------------------------------------------------------------------
\* What a transaction does.

LEMMA CallIs ==
  /\ Call \in Entry /\ Call.kind = "call" /\ Call.logic = 0 /\ Call.admin = 0
  /\ Call.owner = None
BY DEF Call, Entry

\* Kinds and admins never change, and an upgrade is of one proxy.
Keeps(l, m) ==
  /\ DOMAIN l \subseteq DOMAIN m
  /\ \A a \in DOMAIN l : m[a].kind = l[a].kind /\ m[a].admin = l[a].admin

LEMMA Kept ==
  ASSUME NEW l, NEW m, Keeps(l, m), NEW a, NEW kind, IsKind(l, a, kind)
  PROVE  IsKind(m, a, kind)
BY DEF Keeps, IsKind

LEMMA KeptSound ==
  ASSUME NEW l, NEW m, Keeps(l, m), NEW tx, Sound(l, tx)
  PROVE  Sound(m, tx)
<1>1. tx.op \in ProxyKeys => IsKind(m, tx.logic, Impl(tx.op)) BY Kept DEF Sound
<1>2. tx.op = "initialize" => IsKind(m, tx.to, ReceiverV2) BY Kept DEF Sound
<1>3. ASSUME tx.op = "upgrade"
      PROVE  /\ tx.to \in DOMAIN m /\ m[tx.to].kind \in ProxyKeys
             /\ IsKind(m, tx.logic, Impl(m[tx.to].kind))
  <2>1. /\ tx.to \in DOMAIN l /\ l[tx.to].kind \in ProxyKeys
        /\ IsKind(l, tx.logic, Impl(l[tx.to].kind))
    BY <1>3 DEF Sound
  <2>2. tx.to \in DOMAIN m /\ m[tx.to].kind = l[tx.to].kind BY <2>1 DEF Keeps
  <2> QED BY <2>1, <2>2, Kept
<1> QED BY <1>1, <1>2, <1>3 DEF Sound

LEMMA KeptFits ==
  ASSUME NEW l, NEW m, Keeps(l, m), NEW name, NEW flag, NEW p, Fits(l, name, flag, p)
  PROVE  Fits(m, name, flag, p)
BY Kept DEF Fits, Founded

LEMMA Executed ==
  ASSUME NEW l \in Seq(Entry), NEW tx \in Msgs, Sound(l, tx), LedgerInv(l)
  PROVE  LET m == Execute(l, tx)
             new == m[Len(l) + 1]
         IN
         /\ m \in Seq(Entry) /\ Len(m) = Len(l) + 1
         /\ Keeps(l, m) /\ LedgerInv(m)
         /\ tx.op \in ContractKeys /\ Passes(l, tx) =>
              new.kind = tx.op /\ new.logic = tx.logic /\ new.admin = tx.admin
         /\ tx.op \in ContractKeys \ ProxyKeys => Passes(l, tx)
         /\ tx.op = "upgrade" /\ Passes(l, tx) =>
              m[tx.to].logic = tx.logic /\ m[tx.to].admin = tx.admin
         /\ tx.op = "initialize" /\ Passes(l, tx) => m[tx.to].owner = Deployer
         /\ \A a \in DOMAIN l : l[a].owner = Deployer => m[a].owner = Deployer
<1> DEFINE m == Execute(l, tx)
           n == Len(l) + 1
<1>1. /\ Len(l) \in Nat /\ DOMAIN l = 1..Len(l) /\ n \notin DOMAIN l
      /\ \A a \in DOMAIN l : l[a] \in Entry
  OBVIOUS
<1>2. /\ tx.op \in ContractKeys \cup {"upgrade", "initialize"} /\ tx.to \in Nat
      /\ tx.logic \in Nat /\ tx.admin \in Nat
  BY DEF Msgs
<1>3. "call" \notin ProxyKeys /\ Deployer # None
  BY TaskNames, ProxyConstants
\* The entry a transaction changes, if it changes one, and the one it adds.
<1>4. ASSUME NEW q \in Seq(Entry), Len(q) = Len(l), NEW e \in Entry,
             e.kind \in ProxyKeys => IsKind(l, e.logic, Impl(e.kind)),
             \A a \in DOMAIN l : /\ q[a].kind = l[a].kind /\ q[a].admin = l[a].admin
                                 /\ q[a].kind \in ProxyKeys =>
                                      IsKind(l, q[a].logic, Impl(q[a].kind)),
             m = Append(q, e)
      PROVE  /\ m \in Seq(Entry) /\ Len(m) = Len(l) + 1 /\ m[n] = e
             /\ \A a \in DOMAIN l : m[a] = q[a]
             /\ Keeps(l, m) /\ LedgerInv(m)
  <2>1. /\ m \in Seq(Entry) /\ Len(m) = Len(l) + 1 /\ m[n] = e
        /\ \A a \in DOMAIN l : m[a] = q[a]
    BY <1>1, <1>4, AppendProperties
  <2>2. DOMAIN m = 1..n BY <2>1
  <2>3. Keeps(l, m) BY <1>1, <1>4, <2>1, <2>2 DEF Keeps
  <2>4. ASSUME NEW a \in DOMAIN m, m[a].kind \in ProxyKeys
        PROVE  IsKind(l, m[a].logic, Impl(m[a].kind))
    <3>1. CASE a \in DOMAIN l BY <1>4, <2>1, <2>4, <3>1
    <3>2. CASE a = n BY <1>4, <2>1, <2>4, <3>2
    <3> QED BY <1>1, <2>2, <3>1, <3>2
  <2>5. LedgerInv(m) BY <2>3, <2>4, Kept DEF LedgerInv
  <2> QED BY <2>1, <2>3, <2>5
<1>5. CASE ~Passes(l, tx)
  <2>1. m = Append(l, Call) BY <1>5 DEF Execute
  <2>2. \A a \in DOMAIN l : l[a].kind \in ProxyKeys => IsKind(l, l[a].logic, Impl(l[a].kind))
    BY DEF LedgerInv
  <2>3. Call \in Entry /\ Call.kind \notin ProxyKeys BY <1>3, CallIs
  <2>4. /\ m \in Seq(Entry) /\ Len(m) = Len(l) + 1
        /\ \A a \in DOMAIN l : m[a] = l[a]
        /\ Keeps(l, m) /\ LedgerInv(m)
    BY <2>1, <2>2, <2>3, <1>4
  <2>5. tx.op \notin ContractKeys \ ProxyKeys
    BY <1>5, Names DEF Passes
  <2> QED BY <1>5, <2>4, <2>5
<1>6. CASE Passes(l, tx) /\ tx.op = "upgrade"
  <2> DEFINE q == [l EXCEPT ![tx.to].logic = tx.logic]
  <2>1. tx.op \notin ContractKeys BY <1>6, Names
  <2>2. m = Append(q, Call) BY <1>6 DEF Execute
  <2>3. /\ tx.to \in DOMAIN l /\ l[tx.to].kind \in ProxyKeys
        /\ IsKind(l, tx.logic, Impl(l[tx.to].kind))
    BY <1>6 DEF Sound
  <2>4. l[tx.to].admin = tx.admin BY <1>6 DEF Passes, ProxyKeys
  <2> DEFINE new == [l[tx.to] EXCEPT !.logic = tx.logic]
  <2>5. /\ new \in Entry /\ new.kind = l[tx.to].kind /\ new.logic = tx.logic
        /\ new.admin = l[tx.to].admin /\ new.owner = l[tx.to].owner
    BY <1>1, <1>2, <2>3 DEF Entry
  <2>6. q = [l EXCEPT ![tx.to] = new] OBVIOUS
  <2> HIDE DEF new, q
  <2>7. /\ q \in Seq(Entry) /\ Len(q) = Len(l) /\ q[tx.to] = new
        /\ \A a \in DOMAIN l : a # tx.to => q[a] = l[a]
    BY <1>1, <2>3, <2>5, <2>6, ExceptSeq
  <2>8. Call \in Entry /\ Call.kind \notin ProxyKeys BY <1>3, CallIs
  <2>9. ASSUME NEW a \in DOMAIN l
        PROVE  /\ q[a].kind = l[a].kind /\ q[a].admin = l[a].admin /\ q[a].owner = l[a].owner
               /\ q[a].kind \in ProxyKeys => IsKind(l, q[a].logic, Impl(q[a].kind))
    <3>1. CASE a = tx.to BY <2>3, <2>5, <2>7, <3>1
    <3>2. CASE a # tx.to BY <2>7, <3>2 DEF LedgerInv
    <3> QED BY <3>1, <3>2
  <2>10. /\ m \in Seq(Entry) /\ Len(m) = Len(l) + 1
         /\ \A a \in DOMAIN l : m[a] = q[a]
         /\ Keeps(l, m) /\ LedgerInv(m)
    BY <2>2, <2>7, <2>8, <2>9, <1>4
  <2>11. m[tx.to].logic = tx.logic /\ m[tx.to].admin = tx.admin
    BY <2>3, <2>4, <2>5, <2>7, <2>10
  <2>12. \A a \in DOMAIN l : l[a].owner = Deployer => m[a].owner = Deployer BY <2>9, <2>10
  <2>13. tx.op # "initialize" BY <1>6
  <2> HIDE DEF m
  <2> QED BY <2>1, <2>10, <2>11, <2>12, <2>13 DEF m
<1>7. CASE Passes(l, tx) /\ tx.op = "initialize"
  <2> DEFINE q == [l EXCEPT ![tx.to].owner = Deployer]
  <2>1. tx.op \notin ContractKeys BY <1>7, Names
  <2>2. m = Append(q, Call) BY <1>7 DEF Execute
  <2>3. tx.to \in DOMAIN l BY <1>7 DEF Sound, IsKind
  <2> DEFINE new == [l[tx.to] EXCEPT !.owner = Deployer]
  <2>5. /\ new \in Entry /\ new.kind = l[tx.to].kind /\ new.logic = l[tx.to].logic
        /\ new.admin = l[tx.to].admin /\ new.owner = Deployer
    BY <1>1, <1>2, <2>3 DEF Entry
  <2>6. q = [l EXCEPT ![tx.to] = new] OBVIOUS
  <2> HIDE DEF new, q
  <2>7. /\ q \in Seq(Entry) /\ Len(q) = Len(l) /\ q[tx.to] = new
        /\ \A a \in DOMAIN l : a # tx.to => q[a] = l[a]
    BY <1>1, <2>3, <2>5, <2>6, ExceptSeq
  <2>8. Call \in Entry /\ Call.kind \notin ProxyKeys BY <1>3, CallIs
  <2>9. ASSUME NEW a \in DOMAIN l
        PROVE  /\ q[a].kind = l[a].kind /\ q[a].admin = l[a].admin
               /\ q[a].owner = l[a].owner \/ q[a].owner = Deployer
               /\ q[a].kind \in ProxyKeys => IsKind(l, q[a].logic, Impl(q[a].kind))
    <3>1. CASE a = tx.to BY <2>3, <2>5, <2>7, <3>1 DEF LedgerInv
    <3>2. CASE a # tx.to BY <2>7, <3>2 DEF LedgerInv
    <3> QED BY <3>1, <3>2
  <2>10. /\ m \in Seq(Entry) /\ Len(m) = Len(l) + 1
         /\ \A a \in DOMAIN l : m[a] = q[a]
         /\ Keeps(l, m) /\ LedgerInv(m)
    BY <2>2, <2>7, <2>8, <2>9, <1>4
  <2>11. m[tx.to].owner = Deployer BY <2>3, <2>5, <2>7, <2>10
  <2>12. \A a \in DOMAIN l : l[a].owner = Deployer => m[a].owner = Deployer BY <2>9, <2>10
  <2> HIDE DEF m
  <2>13. tx.op # "upgrade" BY <1>7
  <2> QED BY <2>1, <2>10, <2>11, <2>12, <2>13 DEF m
<1>8. CASE Passes(l, tx) /\ tx.op \notin {"upgrade", "initialize"}
  <2> DEFINE e == [Call EXCEPT !.kind = tx.op, !.logic = tx.logic, !.admin = tx.admin]
  <2>1. m = Append(l, e) BY <1>8 DEF Execute
  <2>2. tx.op \in ContractKeys BY <1>2, <1>8
  <2>3. e \in Entry /\ e.kind = tx.op /\ e.logic = tx.logic /\ e.admin = tx.admin
    BY <1>2, <2>2 DEF Call, Entry
  <2> HIDE DEF e
  <2>4. e.kind \in ProxyKeys => IsKind(l, e.logic, Impl(e.kind)) BY <2>3 DEF Sound
  <2>5. \A a \in DOMAIN l : l[a].kind \in ProxyKeys => IsKind(l, l[a].logic, Impl(l[a].kind))
    BY DEF LedgerInv
  <2>6. /\ m \in Seq(Entry) /\ Len(m) = Len(l) + 1 /\ m[n] = e
        /\ \A a \in DOMAIN l : m[a] = l[a]
        /\ Keeps(l, m) /\ LedgerInv(m)
    BY <2>1, <2>3, <2>4, <2>5, <1>4
  <2> HIDE DEF m
  <2>7. \A a \in DOMAIN l : m[a].owner = l[a].owner BY <2>6
  <2>8. tx.op # "upgrade" /\ tx.op # "initialize" BY <1>8
  <2> QED BY <1>8, <2>3, <2>6, <2>7, <2>8 DEF m
<1> QED BY <1>5, <1>6, <1>7, <1>8

-----------------------------------------------------------------------------
\* The step a task is at.

LEMMA StepIs ==
  ASSUME NEW names, NEW flags, NEW r \in Runs(names, flags), r.todo # << >>
  PROVE  /\ StepOf(r) = r.todo[1] /\ StepOf(r) \in Steps /\ StepOf(r) \in Range(r.todo)
         /\ Len(r.todo) \in Nat \ {0} /\ DOMAIN r.todo = 1..Len(r.todo)
         /\ r.made # << >> => LatestOf(r) \in Nat /\ Len(r.made) \in Nat \ {0} /\ r.made[1] \in Nat
<1>1. r.todo \in Seq(Steps) /\ r.made \in Seq(Nat) BY DEF Runs
<1>2. /\ Len(r.todo) \in Nat \ {0} /\ DOMAIN r.todo = 1..Len(r.todo) /\ r.todo[1] \in Steps
      /\ Head(r.todo) = r.todo[1]
  BY <1>1
<1>3. r.todo[1] \in Range(r.todo) BY <1>2 DEF Range
<1>4. r.made # << >> =>
        Len(r.made) \in Nat \ {0} /\ r.made[1] \in Nat /\ r.made[Len(r.made)] \in Nat
  BY <1>1
<1> QED BY <1>2, <1>3, <1>4 DEF StepOf, LatestOf, Last1

LEMMA IdleIs ==
  ASSUME NEW names, NEW flags
  PROVE  /\ NoRun \in Runs(names, flags) /\ NoRun.todo = << >> /\ NoRun.key = "call"
         /\ NoRun.name = "none" /\ NoRun.made = << >> /\ NoRun.awaited = "nothing"
         /\ NoRun.admin = 0 /\ NoRun.verify = "no"
<1>1. << >> \in Seq(Steps) /\ << >> \in Seq(Nat) BY EmptySeq
<1> QED BY <1>1 DEF NoRun, Runs

-----------------------------------------------------------------------------
\* Steps of the chain and of others.

\* What a task has sent is still on its way, or nothing is and nothing changed.
LEMMA Unmoved ==
  ASSUME NEW l, NEW p, NEW f, NEW r, NEW m, NEW q,
         Keeps(l, m),
         r.awaited = "sent" => /\ q # << >> /\ Last1(q) = Last1(p)
                               /\ Len(m) + Len(q) = Len(l) + Len(p),
         p = << >> =>
           /\ q = << >>
           /\ \A a \in DOMAIN l : /\ m[a].logic = l[a].logic
                                  /\ l[a].owner = Deployer => m[a].owner = Deployer,
         RunInv(l, p, f, r)
  PROVE  RunInv(m, q, f, r)
<1> SUFFICES ASSUME r # NoRun
             PROVE  /\ r.key = KeyOf(r.name) /\ Fits(m, r.name, r.verify, r.todo)
                    /\ WaitInv(m, q, r) /\ LogicInv(m, q, r)
                    /\ KeyInv(m, q, f, r) /\ ReceiverInv(m, q, f, r) /\ MockInv(m, f, r)
  BY DEF RunInv
<1>1. /\ r.key = KeyOf(r.name) /\ Fits(l, r.name, r.verify, r.todo)
      /\ WaitInv(l, p, r) /\ LogicInv(l, p, r)
      /\ KeyInv(l, p, f, r) /\ ReceiverInv(l, p, f, r) /\ MockInv(l, f, r)
  BY DEF RunInv
<1>2. Fits(m, r.name, r.verify, r.todo) BY <1>1, KeptFits
<1>3. WaitInv(m, q, r) BY <1>1 DEF WaitInv
<1>4. r.awaited = "mined" => p = << >> BY <1>1 DEF WaitInv
<1>5. \A a, kind : IsKind(l, a, kind) => IsKind(m, a, kind) BY Kept
<1>6. \A a : p = << >> /\ Right(l, r, a) => Right(m, r, a)
  <2> SUFFICES ASSUME NEW a, p = << >>, Right(l, r, a) PROVE Right(m, r, a) OBVIOUS
  <2>1. a \in DOMAIN l BY DEF Right, IsKind
  <2>2. m[a].logic = l[a].logic /\ m[a].admin = l[a].admin BY <2>1 DEF Keeps
  <2> QED BY <1>5, <2>2 DEF Right
<1>7. LogicInv(m, q, r) BY <1>1, <1>5 DEF LogicInv, LogicSent
<1>8. Upgrading(l, p, f, r) => Upgrading(m, q, f, r)
  BY <1>4, <1>5, <1>6 DEF Upgrading
<1>9. Deploying(l, p, r) => Deploying(m, q, r)
  BY <1>4, <1>6 DEF Deploying
<1>10. Deployed(l, p, f, r) => Deployed(m, q, f, r)
  BY <1>6 DEF Deployed
<1>11. KeyInv(m, q, f, r) BY <1>1, <1>8, <1>9, <1>10 DEF KeyInv
<1>12. ReceiverInv(m, q, f, r)
  <2> SUFFICES ASSUME r.name = Receiver PROVE ReceiverInv(m, q, f, r) BY DEF ReceiverInv
  <2>1. IsKind(l, LatestOf(r), ReceiverV2) => LatestOf(r) \in DOMAIN l BY DEF IsKind
  <2> QED BY <1>1, <1>4, <1>5, <2>1 DEF ReceiverInv
<1>13. MockInv(m, f, r) BY <1>1 DEF MockInv, Keeps
<1> QED BY <1>1, <1>2, <1>3, <1>7, <1>11, <1>12, <1>13

\* The run r, waiting in another way.
Waits(r, t, awaited) ==
  /\ t.name = r.name /\ t.todo = r.todo /\ t.key = r.key /\ t.admin = r.admin
  /\ t.made = r.made /\ t.verify = r.verify /\ t.awaited = awaited

LEMMA WaitsIs ==
  ASSUME NEW names, NEW flags, NEW r \in Runs(names, flags), r.todo # << >>,
         NEW awaited \in {"nothing", "sent", "mined", "reverted", "lost"},
         NEW t, t = [r EXCEPT !.awaited = awaited]
  PROVE  t \in Runs(names, flags) /\ t # NoRun /\ Waits(r, t, awaited)
<1>1. t \in Runs(names, flags) /\ Waits(r, t, awaited) BY DEF Runs, Waits
<1>2. t.todo # NoRun.todo BY <1>1, IdleIs DEF Waits
<1> QED BY <1>1, <1>2

LEMMA LostSent ==
  ASSUME NEW l, NEW p, NEW f, NEW r, NEW t, NEW q,
         r # NoRun, r.awaited = "sent", Waits(r, t, "lost"), RunInv(l, p, f, r)
  PROVE  RunInv(l, q, f, t)
<1>1. /\ r.key = KeyOf(r.name) /\ Fits(l, r.name, r.verify, r.todo)
      /\ WaitInv(l, p, r) /\ LogicInv(l, p, r)
      /\ KeyInv(l, p, f, r) /\ ReceiverInv(l, p, f, r) /\ MockInv(l, f, r)
  BY DEF RunInv
<1>2. /\ StepOf(t) = StepOf(r) /\ LatestOf(t) = LatestOf(r)
      /\ t.name = r.name /\ t.todo = r.todo /\ t.key = r.key /\ t.admin = r.admin
      /\ t.made = r.made /\ t.verify = r.verify /\ t.awaited = "lost"
  BY DEF Waits, StepOf, LatestOf
<1>3. WaitInv(l, q, t) BY <1>1, <1>2 DEF WaitInv
<1>4. LogicInv(l, q, t) BY <1>1, <1>2 DEF LogicInv, LogicSent
<1>5. KeyInv(l, q, f, t)
  <2>1. ProxyToCome(r) => ProxyToCome(t) BY <1>2 DEF ProxyToCome
  <2>2. Upgrading(l, p, f, r) => Upgrading(l, q, f, t) BY <1>2 DEF Upgrading
  <2>3. Deploying(l, p, r) => Deploying(l, q, t) BY <1>2 DEF Deploying
  <2>4. ~Deployed(l, p, f, r) BY <1>1 DEF Deployed, WaitInv
  <2> QED BY <1>1, <1>2, <2>1, <2>2, <2>3, <2>4 DEF KeyInv
<1>6. ReceiverInv(l, q, f, t) BY <1>1, <1>2 DEF ReceiverInv
<1>7. MockInv(l, f, t) BY <1>1, <1>2 DEF MockInv, SymbolToCome
<1> QED BY <1>1, <1>2, <1>3, <1>4, <1>5, <1>6, <1>7 DEF RunInv

LEMMA One ==
  ASSUME NEW S, NEW p \in Seq(S), Len(p) = 1
  PROVE  p # << >> /\ p[1] \in S /\ Last1(p) = p[1]
<1>1. Len(p) # 0 OBVIOUS
<1>2. p # << >> BY ONLY <1>1
<1>3. p[1] \in S OBVIOUS
<1> QED BY <1>2, <1>3 DEF Last1

\* The transaction a task waits for is mined.
LEMMA MinedLast ==
  ASSUME NEW names, NEW flags, NEW l \in Seq(Entry), NEW p \in Seq(Msgs), NEW f,
         NEW r \in Runs(names, flags), NEW t, NEW w,
         Passes(l, p[1]) => w = "mined", ~Passes(l, p[1]) => w = "reverted", Waits(r, t, w),
         r # NoRun, r.todo # << >>, r.awaited = "sent", Len(p) = 1,
         LedgerInv(l), PoolInv(l, p), RunInv(l, p, f, r)
  PROVE  RunInv(Execute(l, p[1]), << >>, f, t)
<1> DEFINE tx == p[1]
           m == Execute(l, tx)
           n == Len(l) + 1
<1>1. /\ r.key = KeyOf(r.name) /\ Fits(l, r.name, r.verify, r.todo)
      /\ WaitInv(l, p, r) /\ LogicInv(l, p, r)
      /\ KeyInv(l, p, f, r) /\ ReceiverInv(l, p, f, r) /\ MockInv(l, f, r)
  BY DEF RunInv
<1>2. /\ StepOf(t) = StepOf(r) /\ LatestOf(t) = LatestOf(r)
      /\ t.name = r.name /\ t.todo = r.todo /\ t.key = r.key /\ t.admin = r.admin
      /\ t.made = r.made /\ t.verify = r.verify
      /\ t.awaited = w /\ w \in {"mined", "reverted"} /\ (w = "mined" => Passes(l, tx))
      /\ Passes(l, tx) => w = "mined"
  BY DEF Waits, StepOf, LatestOf
<1>3. tx \in Msgs /\ Sound(l, tx) /\ Last1(p) = tx /\ p # << >> /\ Len(l) \in Nat
  <2>1. DOMAIN p = 1..1 /\ Len(l) \in Nat OBVIOUS
  <2>2. p # << >> /\ p[1] \in Msgs /\ Last1(p) = p[1] BY One
  <2> QED BY <2>1, <2>2 DEF PoolInv
<1>4. /\ m \in Seq(Entry) /\ Len(m) = n /\ Keeps(l, m)
      /\ tx.op \in ContractKeys /\ Passes(l, tx) =>
           m[n].kind = tx.op /\ m[n].logic = tx.logic /\ m[n].admin = tx.admin
      /\ tx.op \in ContractKeys \ ProxyKeys => Passes(l, tx)
      /\ tx.op = "upgrade" /\ Passes(l, tx) =>
           m[tx.to].logic = tx.logic /\ m[tx.to].admin = tx.admin
      /\ tx.op = "initialize" /\ Passes(l, tx) => m[tx.to].owner = Deployer
  BY <1>3, Executed
<1>5. n \in DOMAIN m BY <1>3, <1>4
<1>6. StepOf(r).do \in {"note", "record"} => LatestOf(r) = n BY <1>1 DEF WaitInv
<1>7. StepOf(r).do \in {"note", "record", "wait"} BY <1>1 DEF WaitInv
<1>8. \A a, kind : IsKind(l, a, kind) => IsKind(m, a, kind)
  <2> HIDE DEF m
  <2> QED BY <1>4, Kept
<1> HIDE DEF m, tx
<1>9. t # NoRun
  BY <1>2, IdleIs
<1>10. Fits(m, t.name, t.verify, t.todo) BY <1>1, <1>2, <1>4, KeptFits
<1>11. WaitInv(m, << >>, t) BY <1>1, <1>2 DEF WaitInv
<1>12. LogicInv(m, << >>, t)
  <2> SUFFICES ASSUME r.key \in ProxyKeys, r.made # << >>
               PROVE  IsKind(m, r.made[1], Impl(r.key)) \/ LogicSent(<< >>, t)
    BY <1>1, <1>2 DEF LogicInv
  <2>1. CASE IsKind(l, r.made[1], Impl(r.key)) BY <1>8, <2>1
  <2>2. CASE LogicSent(p, r)
    <3>1. /\ Len(r.made) = 1 /\ StepOf(r).do \in {"note", "record"} /\ tx.op = Impl(r.key)
      BY <1>3, <2>2 DEF LogicSent
    <3>2. tx.op \in ContractKeys \ ProxyKeys BY <3>1, Names
    <3>3. m[n].kind = Impl(r.key) BY <1>4, <3>1, <3>2
    <3>4. r.made[1] = n BY <1>6, <3>1 DEF LatestOf, Last1
    <3> QED BY <1>5, <3>3, <3>4 DEF IsKind
  <2> QED BY <1>1, <2>1, <2>2 DEF LogicInv
<1>13. KeyInv(m, << >>, f, t)
  <2> SUFFICES ASSUME r.key \in ProxyKeys PROVE KeyInv(m, << >>, f, t) BY <1>2 DEF KeyInv
  <2>1. ProxyToCome(r) => ProxyToCome(t) BY <1>2 DEF ProxyToCome
  <2>2. Upgrading(l, p, f, r) => Upgrading(m, << >>, f, t)
    <3> SUFFICES ASSUME Upgrading(l, p, f, r) PROVE Upgrading(m, << >>, f, t) OBVIOUS
    <3>1. /\ StepOf(r).do = "wait" /\ IsKind(l, f[r.key], r.key)
          /\ tx = Message("upgrade", f[r.key], r.made[1], r.admin)
      BY <1>3 DEF Upgrading
    <3>2. /\ tx.op = "upgrade" /\ tx.to = f[r.key] /\ tx.logic = r.made[1]
          /\ tx.admin = r.admin
      BY <3>1 DEF Message
    <3>3. IsKind(m, f[r.key], r.key) BY <1>8, <3>1
    <3>4. Passes(l, tx) => m[f[r.key]].logic = r.made[1] /\ m[f[r.key]].admin = r.admin
      BY <1>4, <3>2
    <3> QED BY <1>2, <3>1, <3>3, <3>4 DEF Upgrading, Right
  <2>3. Deploying(l, p, r) => Deploying(m, << >>, t)
    <3> SUFFICES ASSUME Deploying(l, p, r) PROVE Deploying(m, << >>, t) OBVIOUS
    <3>1. /\ StepOf(r).do = "record" /\ StepOf(r).x = r.key
          /\ \A s \in Range(r.todo) : Closes(r.key, s)
          /\ tx = Message(r.key, 0, r.made[1], r.admin)
      BY <1>3 DEF Deploying
    <3>2. /\ tx.op = r.key /\ tx.logic = r.made[1] /\ tx.admin = r.admin
      BY <3>1 DEF Message
    <3>3. r.key \in ContractKeys BY Names
    <3>4. Passes(l, tx) => /\ m[n].kind = r.key /\ m[n].logic = r.made[1]
                           /\ m[n].admin = r.admin
      BY <1>4, <3>2, <3>3
    <3>5. LatestOf(t) = n BY <1>2, <1>6, <3>1
    <3>6. Passes(l, tx) => Right(m, t, LatestOf(t))
      BY <1>2, <1>5, <3>4, <3>5 DEF Right, IsKind
    <3> QED BY <1>2, <3>1, <3>6 DEF Deploying
  <2>4. ~Deployed(l, p, f, r) BY <1>3 DEF Deployed
  <2> QED BY <1>1, <1>2, <2>1, <2>2, <2>3, <2>4 DEF KeyInv
<1>14. ReceiverInv(m, << >>, f, t)
  <2> SUFFICES ASSUME r.name = Receiver PROVE ReceiverInv(m, << >>, f, t)
    BY <1>2 DEF ReceiverInv
  <2>1. CASE StepOf(r).do = "record"
    <3>1. tx.op = ReceiverV2 /\ LatestOf(r) = n BY <1>1, <1>3, <1>6, <2>1 DEF ReceiverInv
    <3>2. tx.op \in ContractKeys \ ProxyKeys BY <3>1, Names
    <3>3. IsKind(m, LatestOf(r), ReceiverV2) BY <1>4, <1>5, <3>1, <3>2 DEF IsKind
    <3> QED BY <1>2, <2>1, <3>3 DEF ReceiverInv
  <2>2. CASE StepOf(r).do = "wait"
    <3>1. /\ tx.op = "initialize" /\ tx.to = LatestOf(r)
          /\ f[ReceiverV2] = LatestOf(r) /\ IsKind(l, LatestOf(r), ReceiverV2)
      BY <1>1, <1>3, <2>2 DEF ReceiverInv
    <3>2. Passes(l, tx) => m[LatestOf(r)].owner = Deployer BY <1>4, <3>1
    <3>3. IsKind(m, LatestOf(r), ReceiverV2) BY <1>8, <3>1
    <3> QED BY <1>2, <2>2, <3>1, <3>2, <3>3 DEF ReceiverInv
  <2>3. CASE StepOf(r).do = "note" BY <1>2, <2>3 DEF ReceiverInv
  <2> QED BY <1>7, <2>1, <2>2, <2>3
<1>15. MockInv(m, f, t)
  BY <1>1, <1>2, <1>5, <1>6, <1>7 DEF MockInv, SymbolToCome
<1> QED
  BY <1>1, <1>2, <1>10, <1>11, <1>12, <1>13, <1>14, <1>15 DEF RunInv, m, tx

LEMMA MineOK ==
  ASSUME NEW names, NEW flags, IInv(names, flags), mined
  PROVE  IInv(names, flags)'
<1> DEFINE tx == Head(pool)
           m == Execute(ledger, tx)
<1>1. /\ ledger \in Seq(Entry) /\ pool \in Seq(Msgs) /\ file \in [Keys -> Nat]
      /\ run \in Runs(names, flags) /\ ended \in Runs(names, flags)
      /\ run # NoRun => run.todo # << >>
      /\ ended # NoRun => run = NoRun
      /\ Verifying => run # NoRun /\ Current.do = "verify"
      /\ LedgerInv(ledger) /\ PoolInv(ledger, pool) /\ SymbolsInv(ledger, file)
      /\ RunInv(ledger, pool, file, run) /\ EndInv(ledger, pool, file, ended)
  BY DEF IInv, TypeInv, Inv
<1>2. /\ pool # << >> /\ ledger' = m /\ pool' = Tail(pool)
      /\ file' = file /\ ended' = ended /\ attempt' = attempt
      /\ run' = IF Len(pool) = 1 /\ run.awaited = "sent"
                THEN [run EXCEPT !.awaited = IF Passes(ledger, tx) THEN "mined" ELSE "reverted"]
                ELSE run
  BY DEF mined
<1>3. /\ tx = pool[1] /\ tx \in Msgs /\ Len(pool) \in Nat \ {0} /\ pool' \in Seq(Msgs)
      /\ Len(pool') = Len(pool) - 1 /\ DOMAIN pool' = 1..(Len(pool) - 1)
      /\ \A k \in DOMAIN pool' : pool'[k] = pool[k + 1] /\ k + 1 \in DOMAIN pool
      /\ 1 \in DOMAIN pool /\ Len(ledger) \in Nat
  BY <1>1, <1>2
<1>4. Sound(ledger, tx) BY <1>1, <1>3 DEF PoolInv
<1>5. /\ m \in Seq(Entry) /\ Len(m) = Len(ledger) + 1 /\ Keeps(ledger, m) /\ LedgerInv(m)
      /\ \A a \in DOMAIN ledger : ledger[a].owner = Deployer => m[a].owner = Deployer
  BY <1>1, <1>3, <1>4, Executed
<1> HIDE DEF m, tx
<1>6. PoolInv(m, pool') BY <1>1, <1>3, <1>5, KeptSound DEF PoolInv
<1>7. SymbolsInv(m, file) BY <1>1, <1>5 DEF SymbolsInv, Keeps
<1>8. EndInv(m, pool', file, ended)
  <2>1. ended.key \notin ProxyKeys BY <1>1, <1>2 DEF EndInv
  <2>2. ended.name = Receiver =>
          /\ IsKind(m, file[ReceiverV2], ReceiverV2)
          /\ m[file[ReceiverV2]].owner = Deployer
    <3> SUFFICES ASSUME ended.name = Receiver
                 PROVE  /\ IsKind(m, file[ReceiverV2], ReceiverV2)
                        /\ m[file[ReceiverV2]].owner = Deployer
      OBVIOUS
    <3>1. /\ IsKind(ledger, file[ReceiverV2], ReceiverV2)
          /\ ledger[file[ReceiverV2]].owner = Deployer
      BY <1>1 DEF EndInv
    <3>2. file[ReceiverV2] \in DOMAIN ledger BY <3>1 DEF IsKind
    <3> QED BY <1>5, <3>1, <3>2, Kept
  <2> QED BY <1>1, <2>1, <2>2 DEF EndInv
<1>9. CASE Len(pool) = 1 /\ run.awaited = "sent"
  <2> DEFINE w == IF Passes(ledger, tx) THEN "mined" ELSE "reverted"
  <2>1. run # NoRun /\ run.todo # << >> BY <1>1, <1>9, IdleIs
  <2>2. w \in {"nothing", "sent", "mined", "reverted", "lost"} OBVIOUS
  <2>3. run' = [run EXCEPT !.awaited = w] BY <1>2, <1>9
  <2> HIDE DEF w
  <2>4. run' \in Runs(names, flags) /\ run' # NoRun /\ Waits(run, run', w)
    BY <1>1, <2>1, <2>2, <2>3, WaitsIs
  <2>5. RunInv(Execute(ledger, pool[1]), << >>, file, run')
    <3>1. (Passes(ledger, pool[1]) => w = "mined") /\ (~Passes(ledger, pool[1]) => w = "reverted")
      BY <1>3 DEF w
    <3> QED BY <1>1, <1>9, <2>1, <2>4, <3>1, MinedLast
  <2>6. pool' = << >> BY <1>3, <1>9
  <2>7. RunInv(m, pool', file, run') BY <1>3, <2>5, <2>6 DEF m
  <2>8. ended = NoRun BY <1>1, <2>1
  <2>9. run'.todo = run.todo BY <2>4 DEF Waits
  <2> QED
    BY <1>1, <1>2, <1>3, <1>5, <1>6, <1>7, <1>8, <2>1, <2>4, <2>7, <2>8, <2>9
    DEF IInv, TypeInv, Inv, Verifying, Current
<1>10. CASE ~(Len(pool) = 1 /\ run.awaited = "sent")
  <2>1. run' = run BY <1>2, <1>10
  <2>2. run.awaited = "sent" => /\ pool' # << >> /\ Last1(pool') = Last1(pool)
                                /\ Len(m) + Len(pool') = Len(ledger) + Len(pool)
    <3> SUFFICES ASSUME run.awaited = "sent", Len(pool) # 1
                 PROVE  /\ pool' # << >> /\ Last1(pool') = Last1(pool)
                        /\ Len(m) + Len(pool') = Len(ledger) + Len(pool)
      BY <1>10
    <3>1. Len(pool') # 0 /\ Len(pool') \in DOMAIN pool' BY <1>3
    <3>2. pool'[Len(pool')] = pool[Len(pool)] BY <1>3, <3>1
    <3> QED BY <1>3, <1>5, <3>1, <3>2 DEF Last1
  <2>3. RunInv(m, pool', file, run) BY <1>1, <1>2, <1>5, <2>2, Unmoved
  <2> QED
    BY <1>1, <1>2, <1>3, <1>5, <1>6, <1>7, <1>8, <2>1, <2>3
    DEF IInv, TypeInv, Inv, Verifying, Current
<1> QED BY <1>9, <1>10

LEMMA LoseOK ==
  ASSUME NEW names, NEW flags, IInv(names, flags), lost
  PROVE  IInv(names, flags)'
<1>1. /\ ledger \in Seq(Entry) /\ pool \in Seq(Msgs) /\ file \in [Keys -> Nat]
      /\ run \in Runs(names, flags) /\ ended \in Runs(names, flags)
      /\ run # NoRun => run.todo # << >>
      /\ ended # NoRun => run = NoRun
      /\ Verifying => run # NoRun /\ Current.do = "verify"
      /\ LedgerInv(ledger) /\ PoolInv(ledger, pool) /\ SymbolsInv(ledger, file)
      /\ RunInv(ledger, pool, file, run) /\ EndInv(ledger, pool, file, ended)
  BY DEF IInv, TypeInv, Inv
<1>2. PICK n \in 0..(Len(pool) - 1) :
        /\ pool # << >> /\ pool' = SubSeq(pool, 1, n)
        /\ ledger' = ledger /\ file' = file /\ ended' = ended /\ attempt' = attempt
        /\ run' = IF run.awaited = "sent" THEN [run EXCEPT !.awaited = "lost"] ELSE run
  BY DEF lost
<1>3. /\ pool' \in Seq(Msgs) /\ DOMAIN pool' \subseteq DOMAIN pool
      /\ \A k \in DOMAIN pool' : pool'[k] = pool[k]
  <2>1. n \in Nat /\ Len(pool) \in Nat /\ n <= Len(pool) BY <1>1, <1>2
  <2>2. /\ pool' \in Seq(Msgs) /\ Len(pool') = n
        /\ \A k \in 1..n : pool'[k] = pool[k]
    BY <1>1, <1>2, <2>1
  <2> QED BY <1>1, <2>1, <2>2
<1>4. PoolInv(ledger, pool') BY <1>1, <1>3 DEF PoolInv
<1>5. EndInv(ledger, pool', file, ended) BY <1>1, <1>2 DEF EndInv
<1>6. CASE run.awaited = "sent"
  <2>1. run # NoRun /\ run.todo # << >> BY <1>1, <1>6, IdleIs
  <2>2. run' = [run EXCEPT !.awaited = "lost"] BY <1>2, <1>6
  <2>3. run' \in Runs(names, flags) /\ run' # NoRun /\ Waits(run, run', "lost")
    BY <1>1, <2>1, <2>2, WaitsIs
  <2>4. RunInv(ledger, pool', file, run') BY <1>1, <1>6, <2>1, <2>3, LostSent
  <2>5. ended = NoRun /\ run'.todo = run.todo BY <1>1, <2>1, <2>3 DEF Waits
  <2> QED
    BY <1>1, <1>2, <1>3, <1>4, <1>5, <2>1, <2>3, <2>4, <2>5
    DEF IInv, TypeInv, Inv, Verifying, Current
<1>7. CASE run.awaited # "sent"
  <2>1. run' = run BY <1>2, <1>7
  <2>2. Keeps(ledger, ledger) BY DEF Keeps
  <2>3. RunInv(ledger, pool', file, run) BY <1>1, <1>2, <1>7, <2>2, Unmoved
  <2> QED
    BY <1>1, <1>2, <1>3, <1>4, <1>5, <2>1, <2>3
    DEF IInv, TypeInv, Inv, Verifying, Current
<1> QED BY <1>6, <1>7

LEMMA OthersOK ==
  ASSUME NEW names, NEW flags, IInv(names, flags), NEW a \in DOMAIN ledger,
         initializedByOther(a)
  PROVE  IInv(names, flags)'
<1>1. /\ ledger \in Seq(Entry) /\ pool \in Seq(Msgs) /\ file \in [Keys -> Nat]
      /\ run \in Runs(names, flags) /\ ended \in Runs(names, flags)
      /\ run # NoRun => run.todo # << >>
      /\ ended # NoRun => run = NoRun
      /\ Verifying => run # NoRun /\ Current.do = "verify"
      /\ LedgerInv(ledger) /\ PoolInv(ledger, pool) /\ SymbolsInv(ledger, file)
      /\ RunInv(ledger, pool, file, run) /\ EndInv(ledger, pool, file, ended)
  BY DEF IInv, TypeInv, Inv
<1>2. /\ ledger[a].owner = None /\ ledger' = [ledger EXCEPT ![a].owner = Other]
      /\ pool' = pool /\ file' = file /\ run' = run /\ ended' = ended /\ attempt' = attempt
  BY DEF initializedByOther
<1> DEFINE new == [ledger[a] EXCEPT !.owner = Other]
<1>3. ledger[a] \in Entry BY <1>1
<1>4. /\ new \in Entry /\ new.kind = ledger[a].kind /\ new.logic = ledger[a].logic
      /\ new.admin = ledger[a].admin
  BY <1>3 DEF Entry
<1>5. ledger' = [ledger EXCEPT ![a] = new] BY <1>2
<1> HIDE DEF new
<1>6. /\ ledger' \in Seq(Entry) /\ Len(ledger') = Len(ledger) /\ ledger'[a] = new
      /\ \A b \in DOMAIN ledger : b # a => ledger'[b] = ledger[b]
  BY <1>1, <1>4, <1>5, ExceptSeq
<1>7. DOMAIN ledger' = DOMAIN ledger BY <1>1, <1>6
<1>8. Deployer # None BY ProxyConstants
<1>9. ASSUME NEW b \in DOMAIN ledger
      PROVE  /\ ledger'[b].kind = ledger[b].kind /\ ledger'[b].admin = ledger[b].admin
             /\ ledger'[b].logic = ledger[b].logic
             /\ ledger[b].owner = Deployer => ledger'[b].owner = Deployer
  <2>1. CASE b = a BY <1>2, <1>4, <1>6, <1>8, <2>1
  <2>2. CASE b # a BY <1>6, <2>2
  <2> QED BY <2>1, <2>2
<1>10. Keeps(ledger, ledger') BY <1>7, <1>9 DEF Keeps
<1>11. LedgerInv(ledger')
  <2> SUFFICES ASSUME NEW b \in DOMAIN ledger, ledger[b].kind \in ProxyKeys
               PROVE  IsKind(ledger', ledger[b].logic, Impl(ledger[b].kind))
    BY <1>7, <1>9 DEF LedgerInv
  <2>1. IsKind(ledger, ledger[b].logic, Impl(ledger[b].kind)) BY <1>1 DEF LedgerInv
  <2> QED BY <1>10, <2>1, Kept
<1>12. PoolInv(ledger', pool) BY <1>1, <1>10, KeptSound DEF PoolInv
<1>13. SymbolsInv(ledger', file) BY <1>1, <1>7 DEF SymbolsInv
<1>14. EndInv(ledger', pool, file, ended)
  <2>1. \A b, kind : IsKind(ledger, b, kind) => b \in DOMAIN ledger /\ IsKind(ledger', b, kind)
    <3>1. \A b, kind : IsKind(ledger, b, kind) => b \in DOMAIN ledger BY DEF IsKind
    <3> QED BY <1>10, <3>1, Kept
  <2> QED BY <1>1, <1>9, <2>1 DEF EndInv
<1>15. RunInv(ledger', pool, file, run)
  <2>1. Len(ledger') + Len(pool) = Len(ledger) + Len(pool) BY <1>6
  <2>2. RunInv(ledger, pool, file, run) /\ run # NoRun => WaitInv(ledger, pool, run)
    BY DEF RunInv
  <2>3. run.awaited = "sent" => pool # << >>
    BY <1>1, <2>2, IdleIs DEF WaitInv
  <2> QED BY <1>1, <1>9, <1>10, <2>1, <2>3, Unmoved
<1> QED
  BY <1>1, <1>2, <1>6, <1>11, <1>12, <1>13, <1>14, <1>15
  DEF IInv, TypeInv, Inv, Verifying, Current

\* A task is given up.
LEMMA GivenUp ==
  ASSUME NEW names, NEW flags, IInv(names, flags), run # NoRun, run' = NoRun,
         ledger' = ledger, pool' = pool, file' = file, ended' = ended,
         attempt' = attempt \/ attempt' = NotVerifying, ~Verifying \/ attempt' = NotVerifying
  PROVE  IInv(names, flags)'
<1>1. NoRun \in Runs(names, flags) BY IdleIs
<1>2. RunInv(ledger, pool, file, NoRun) BY DEF RunInv
<1>3. ~Verifying' BY DEF Verifying, NotVerifying
<1> QED BY <1>1, <1>2, <1>3 DEF IInv, TypeInv, Inv

-----------------------------------------------------------------------------
\* From one step to the next.

LEMMA Shifted ==
  ASSUME NEW p \in Seq(Steps), NEW q \in Seq(Steps), NEW n \in Nat, n < Len(p),
         Len(q) = Len(p) - n, \A k \in 1..Len(q) : q[k] = p[n + k],
         NEW l, NEW name, NEW flag, Fits(l, name, flag, p)
  PROVE  /\ q # << >> /\ \A k \in DOMAIN q : q[k] = p[n + k] /\ n + k \in DOMAIN p
         /\ Fits(l, name, flag, q)
<1>1. Len(p) \in Nat /\ DOMAIN p = 1..Len(p) OBVIOUS
<1>2. Len(q) = Len(p) - n /\ \A k \in 1..Len(q) : q[k] = p[n + k] OBVIOUS
<1>3. DOMAIN q = 1..Len(q) /\ Len(q) \in Nat /\ Len(q) # 0 BY <1>1
<1>4. q # << >> BY <1>3
<1>5. \A k \in DOMAIN q : q[k] = p[n + k] /\ n + k \in DOMAIN p BY <1>1, <1>2, <1>3
<1>6. Range(q) \subseteq Range(p)
  <2> SUFFICES ASSUME NEW k \in DOMAIN q PROVE \E j \in DOMAIN p : p[j] = q[k] BY DEF Range
  <2> QED BY <1>5
<1>7. CASE Looks(p) /\ ~Tells(name)
  <2>1. Looks(q) BY <1>6, <1>7 DEF Looks
  <2> QED BY <1>4, <1>5, <1>7, <2>1 DEF Fits
<1>8. CASE /\ Linked(name, p) /\ Finished(name, p) /\ Ordered(name, p) /\ Blocks(flag, p)
           /\ \A s \in Range(p) : Proper(name, s) /\ Founded(l, name, s)
  <2>1. Linked(name, q)
    <3> SUFFICES ASSUME NEW k \in 1..(Len(q) - 1) PROVE Follows(name, q[k], q[k + 1])
      BY DEF Linked
    <3>1. k \in DOMAIN q /\ k + 1 \in DOMAIN q /\ n + k \in 1..(Len(p) - 1)
      BY <1>1, <1>2, <1>3
    <3>2. q[k] = p[n + k] /\ q[k + 1] = p[n + k + 1] BY <1>5, <3>1
    <3> QED BY <1>8, <3>1, <3>2 DEF Linked
  <2>2. Finished(name, q)
    <3>1. Len(q) \in DOMAIN q /\ n + Len(q) = Len(p) BY <1>1, <1>2, <1>3
    <3>2. q[Len(q)] = p[Len(p)] BY <1>5, <3>1
    <3>3. p # << >> BY <1>1
    <3> QED BY <1>8, <3>2, <3>3 DEF Finished
  <2>3. Ordered(name, q)
    <3> SUFFICES ASSUME NEW j \in DOMAIN q, NEW k \in DOMAIN q, j < k,
                        Deploys(KeyOf(name), q[j]), KeyOf(name) \in ProxyKeys
                 PROVE  Closes(KeyOf(name), q[k])
      BY DEF Ordered
    <3>1. n + j < n + k BY <1>3
    <3>2. q[j] = p[n + j] /\ q[k] = p[n + k] /\ n + j \in DOMAIN p /\ n + k \in DOMAIN p
      BY <1>5
    <3> QED BY <1>8, <3>1, <3>2 DEF Ordered
  <2>4. Blocks(flag, q)
    <3> DEFINE b == BlockLength(flag)
    <3>0. b \in Nat /\ b > 0 BY DEF BlockLength
    <3> HIDE DEF b
    <3> SUFFICES ASSUME NEW k \in DOMAIN q, q[k].do = "unlessThere"
                 PROVE  /\ k + b <= Len(q) + 1
                        /\ k + b <= Len(q) => q[k + b].do = "unlessThere"
                        /\ \A j \in k..(k + b - 1) :
                             q[j].do = "record" /\ q[j].x \in Symbols => q[j].x = q[k].x
      BY DEF Blocks, b
    <3>1. q[k] = p[n + k] /\ n + k \in DOMAIN p /\ k \in Nat /\ k >= 1 BY <1>3, <1>5
    <3>2. /\ n + k + b <= Len(p) + 1
          /\ n + k + b <= Len(p) => p[n + k + b].do = "unlessThere"
          /\ \A j \in (n + k)..(n + k + b - 1) :
               p[j].do = "record" /\ p[j].x \in Symbols => p[j].x = p[n + k].x
      BY <1>8, <3>1 DEF Blocks, b
    <3>a. \A i, j, c, w \in Nat : i + j + c <= w + 1 => j + c <= (w - i) + 1 OBVIOUS
    <3>b. \A i, j, c, w, e \in Nat : /\ j >= 1 /\ c > 0 /\ j + c <= (w - i) + 1
                                     /\ e \in j..(j + c - 1)
            => e \in 1..(w - i) /\ i + e \in (i + j)..(i + j + c - 1)
      OBVIOUS
    <3>3. k + b <= Len(q) + 1 BY <1>1, <1>2, <3>0, <3>1, <3>2, <3>a
    <3>4. ASSUME k + b <= Len(q) PROVE q[k + b].do = "unlessThere"
      <4>1. k + b \in DOMAIN q /\ n + k + b <= Len(p) /\ n + (k + b) = n + k + b
        BY <1>1, <1>2, <1>3, <3>0, <3>1, <3>4
      <4> QED BY <1>5, <3>2, <4>1
    <3>5. ASSUME NEW j \in k..(k + b - 1), q[j].do = "record", q[j].x \in Symbols
          PROVE  q[j].x = q[k].x
      <4>1. j \in DOMAIN q /\ n + j \in (n + k)..(n + k + b - 1)
        BY <1>1, <1>2, <1>3, <3>0, <3>1, <3>3, <3>b
      <4>2. q[j] = p[n + j] BY <1>5, <4>1
      <4> QED BY <3>1, <3>2, <3>5, <4>1, <4>2
    <3> QED BY <3>3, <3>4, <3>5
  <2>5. \A s \in Range(q) : Proper(name, s) /\ Founded(l, name, s) BY <1>6, <1>8
  <2> QED BY <1>4, <1>5, <2>1, <2>2, <2>3, <2>4, <2>5 DEF Fits
<1> QED BY <1>7, <1>8 DEF Fits

\* What is left after n steps.
Beyond(p, n) == SubSeq(p, n + 1, Len(p))

LEMMA Suffix ==
  ASSUME NEW p \in Seq(Steps), NEW n \in Nat, n < Len(p),
         NEW q, q = Beyond(p, n),
         NEW l, NEW name, NEW flag, Fits(l, name, flag, p)
  PROVE  /\ q \in Seq(Steps) /\ q # << >> /\ Len(q) = Len(p) - n
         /\ \A k \in DOMAIN q : q[k] = p[n + k] /\ n + k \in DOMAIN p
         /\ Fits(l, name, flag, q)
<1>1. q \in Seq(Steps) /\ Len(q) = Len(p) - n /\ \A k \in 1..Len(q) : q[k] = p[n + k]
  BY DEF Beyond
<1>2. Fits(l, name, flag, q) BY <1>1, Shifted
<1>3. Len(p) \in Nat /\ DOMAIN p = 1..Len(p) /\ DOMAIN q = 1..Len(q) BY <1>1
<1>4. q # << >> /\ \A k \in DOMAIN q : q[k] = p[n + k] /\ n + k \in DOMAIN p BY <1>1, <1>3
<1> QED BY <1>1, <1>2, <1>4

\* The run t after the step the run r was at.
Goes(r, t, made, awaited) ==
  /\ t.name = r.name /\ t.todo = Tail(r.todo) /\ t.key = r.key /\ t.admin = r.admin
  /\ t.made = made /\ t.verify = r.verify /\ t.awaited = awaited

LEMMA NextStep ==
  ASSUME NEW names, NEW flags, NEW r \in Runs(names, flags), r.todo # << >>, Len(r.todo) # 1,
         NEW t, NEW made, NEW awaited, Goes(r, t, made, awaited),
         NEW l, Fits(l, r.name, r.verify, r.todo)
  PROVE  /\ t.todo \in Seq(Steps) /\ t.todo # << >> /\ Fits(l, t.name, t.verify, t.todo)
         /\ StepOf(t) \in Steps
         /\ Range(r.todo) = {StepOf(r)} \cup Range(t.todo)
         /\ StepOf(t) \in Range(t.todo)
         /\ Looks(r.todo) => Looks(t.todo)
         /\ (~Looks(r.todo) \/ Tells(r.name)) =>
              /\ Follows(r.name, StepOf(r), StepOf(t))
              /\ \A s \in Range(r.todo) : Proper(r.name, s) /\ Founded(l, r.name, s)
              /\ Deploys(KeyOf(r.name), StepOf(r)) /\ KeyOf(r.name) \in ProxyKeys =>
                   \A s \in Range(t.todo) : Closes(KeyOf(r.name), s)
<1> DEFINE p == r.todo
           q == t.todo
<1>1. p \in Seq(Steps) /\ q = Tail(p) BY DEF Runs, Goes
<1>2. Len(p) \in Nat /\ Len(p) # 0 /\ DOMAIN p = 1..Len(p) BY <1>1
<1>0. \A k \in Nat : k # 0 /\ k # 1 => 1 < k OBVIOUS
<1>3. 1 < Len(p) BY <1>0, <1>2
<1>4. q = Beyond(p, 1) BY <1>1, <1>3 DEF Beyond
<1>5. Fits(l, r.name, r.verify, p) OBVIOUS
<1>6. t.name = r.name /\ t.verify = r.verify BY DEF Goes
<1>7. StepOf(r) = p[1] BY <1>1, <1>2 DEF StepOf
<1> HIDE DEF p, q
<1>8. /\ q \in Seq(Steps) /\ q # << >> /\ Len(q) = Len(p) - 1
      /\ \A k \in DOMAIN q : q[k] = p[1 + k] /\ 1 + k \in DOMAIN p
      /\ Fits(l, r.name, r.verify, q)
  BY <1>1, <1>3, <1>4, <1>5, Suffix
<1>9. DOMAIN q = 1..Len(q) /\ 1 \in DOMAIN q /\ q[1] = p[2] /\ q[1] \in Steps /\ Head(q) = q[1]
  BY <1>2, <1>3, <1>8
<1>10. StepOf(t) = q[1] BY <1>9 DEF StepOf, q
<1>11. Range(p) = {p[1]} \cup Range(q)
  <2>1. ASSUME NEW k \in DOMAIN p PROVE p[k] = p[1] \/ \E j \in DOMAIN q : p[k] = q[j]
    <3>1. CASE k = 1 BY <3>1
    <3>2. CASE k # 1
      <4>1. k - 1 \in DOMAIN q /\ 1 + (k - 1) = k BY <1>2, <1>8, <1>9, <3>2
      <4> QED BY <1>8, <4>1
    <3> QED BY <3>1, <3>2
  <2>2. 1 \in DOMAIN p BY <1>2
  <2> QED BY <1>8, <2>1, <2>2 DEF Range
<1>12. q[1] \in Range(q) BY <1>9 DEF Range
<1>13. Looks(p) => Looks(q) BY <1>11 DEF Looks
<1>14. ASSUME ~Looks(p) \/ Tells(r.name)
       PROVE  /\ Follows(r.name, p[1], q[1])
              /\ \A s \in Range(p) : Proper(r.name, s) /\ Founded(l, r.name, s)
              /\ Deploys(KeyOf(r.name), p[1]) /\ KeyOf(r.name) \in ProxyKeys =>
                   \A s \in Range(q) : Closes(KeyOf(r.name), s)
  <2>1. /\ Linked(r.name, p) /\ Ordered(r.name, p)
        /\ \A s \in Range(p) : Proper(r.name, s) /\ Founded(l, r.name, s)
    BY <1>5, <1>14 DEF Fits
  <2>2. Follows(r.name, p[1], q[1])
    <3>1. 1 \in 1..(Len(p) - 1) /\ p[1 + 1] = q[1] BY <1>2, <1>3, <1>9
    <3> QED BY <2>1, <3>1 DEF Linked
  <2>3. ASSUME Deploys(KeyOf(r.name), p[1]), KeyOf(r.name) \in ProxyKeys, NEW k \in DOMAIN q
        PROVE  Closes(KeyOf(r.name), q[k])
    <3>1. q[k] = p[1 + k] /\ 1 + k \in DOMAIN p /\ 1 \in DOMAIN p /\ 1 < 1 + k
      BY <1>2, <1>8, <1>9
    <3> QED BY <2>1, <2>3, <3>1 DEF Ordered
  <2> QED BY <2>1, <2>2, <2>3 DEF Range
<1> QED BY <1>6, <1>7, <1>8, <1>9, <1>10, <1>11, <1>12, <1>13, <1>14 DEF p, q

LEMMA LastStep ==
  ASSUME NEW names, NEW flags, NEW r \in Runs(names, flags), Len(r.todo) = 1,
         NEW l, Fits(l, r.name, r.verify, r.todo)
  PROVE  /\ r.todo # << >> /\ Range(r.todo) = {StepOf(r)}
         /\ ~Looks(r.todo) \/ Tells(r.name) =>
              /\ ~Unfinished(r.name, StepOf(r))
              /\ Proper(r.name, StepOf(r)) /\ Founded(l, r.name, StepOf(r))
<1> DEFINE p == r.todo
<1>1. p \in Seq(Steps) BY DEF Runs
<1>2. p # << >> /\ p[1] \in Steps /\ Last1(p) = p[1] BY <1>1, One
<1>3. StepOf(r) = p[1] BY <1>1, <1>2 DEF StepOf
<1>4. DOMAIN p = 1..1 BY <1>1
<1>5. Range(p) = {p[1]} BY <1>4 DEF Range
<1>6. ASSUME ~Looks(p) \/ Tells(r.name)
      PROVE  ~Unfinished(r.name, p[1]) /\ Proper(r.name, p[1]) /\ Founded(l, r.name, p[1])
  BY <1>2, <1>5, <1>6 DEF Fits, Finished, Last1
<1> QED BY <1>2, <1>3, <1>5, <1>6

\* What is known of the step a task is at.
LEMMA StepFits ==
  ASSUME NEW names, NEW flags, NEW r \in Runs(names, flags), r.todo # << >>,
         NEW l, Fits(l, r.name, r.verify, r.todo), ~Looks(r.todo) \/ Tells(r.name)
  PROVE  Proper(r.name, StepOf(r)) /\ Founded(l, r.name, StepOf(r))
BY StepIs DEF Fits

\* What the proofs about the steps share: the step of r and that of t.
LEMMA Onward ==
  ASSUME NEW names, NEW flags, NEW r \in Runs(names, flags), r # NoRun, r.todo # << >>,
         Len(r.todo) # 1, NEW t, NEW made, NEW awaited, Goes(r, t, made, awaited),
         NEW l, NEW p, NEW f, RunInv(l, p, f, r)
  PROVE  LET s == StepOf(r)
             u == StepOf(t)
             key == r.key
         IN
         /\ t # NoRun /\ t.todo # << >> /\ t.todo \in Seq(Steps)
         /\ t.name = r.name /\ t.key = r.key /\ t.admin = r.admin
         /\ t.made = made /\ t.awaited = awaited /\ t.verify = r.verify
         /\ key = KeyOf(r.name) /\ (r.name = Receiver => key \notin ProxyKeys)
         /\ (r.name \in Mocks => key \notin ProxyKeys /\ r.name # Receiver)
         /\ Fits(l, t.name, t.verify, t.todo)
         /\ s \in Steps /\ u \in Steps
         /\ Range(r.todo) = {s} \cup Range(t.todo) /\ u \in Range(t.todo)
         /\ Looks(r.todo) => s.do \in {"find", "verify"} /\ Looks(t.todo)
         /\ Looks(t.todo) => u.do \in {"find", "verify"}
         /\ ~Looks(r.todo) \/ key \in ProxyKeys \/ r.name = Receiver \/ r.name \in Mocks =>
              /\ Follows(r.name, s, u)
              /\ Proper(r.name, s) /\ Proper(r.name, u) /\ Founded(l, r.name, s)
              /\ Deploys(key, s) /\ key \in ProxyKeys => \A v \in Range(t.todo) : Closes(key, v)
<1>1. r.key = KeyOf(r.name) /\ Fits(l, r.name, r.verify, r.todo) BY DEF RunInv
<1>2. /\ t.name = r.name /\ t.key = r.key /\ t.admin = r.admin
      /\ t.made = made /\ t.awaited = awaited /\ t.verify = r.verify
  BY DEF Goes
<1>3. /\ t.todo \in Seq(Steps) /\ t.todo # << >> /\ Fits(l, t.name, t.verify, t.todo)
      /\ StepOf(t) \in Steps
      /\ Range(r.todo) = {StepOf(r)} \cup Range(t.todo)
      /\ StepOf(t) \in Range(t.todo)
      /\ Looks(r.todo) => Looks(t.todo)
      /\ ~Looks(r.todo) \/ Tells(r.name) =>
           /\ Follows(r.name, StepOf(r), StepOf(t))
           /\ \A v \in Range(r.todo) : Proper(r.name, v) /\ Founded(l, r.name, v)
           /\ Deploys(KeyOf(r.name), StepOf(r)) /\ KeyOf(r.name) \in ProxyKeys =>
                \A v \in Range(t.todo) : Closes(KeyOf(r.name), v)
  BY <1>1, NextStep
<1>4. t # NoRun BY <1>3, IdleIs
<1>5. StepOf(r) \in Steps /\ StepOf(r) \in Range(r.todo) BY StepIs
<1>6. Looks(r.todo) => StepOf(r).do \in {"find", "verify"} BY <1>5 DEF Looks
<1>7. Looks(t.todo) => StepOf(t).do \in {"find", "verify"} BY <1>3 DEF Looks
<1>8. /\ r.name = Receiver => r.key \notin ProxyKeys
      /\ r.name \in Mocks => r.key \notin ProxyKeys /\ r.name # Receiver
  BY <1>1, TaskNames
<1>9. Tells(r.name) <=> r.key \in ProxyKeys \/ r.name = Receiver \/ r.name \in Mocks
  BY <1>1 DEF Tells
<1> QED BY <1>1, <1>2, <1>3, <1>4, <1>5, <1>6, <1>7, <1>8, <1>9

\* And if the step of r is the last.
LEMMA AtLast ==
  ASSUME NEW names, NEW flags, NEW r \in Runs(names, flags), r # NoRun, Len(r.todo) = 1,
         NEW l, NEW p, NEW f, RunInv(l, p, f, r)
  PROVE  LET s == StepOf(r)
             key == r.key
         IN
         /\ key = KeyOf(r.name) /\ (r.name = Receiver => key \notin ProxyKeys)
         /\ (r.name \in Mocks => key \notin ProxyKeys /\ r.name # Receiver)
         /\ s \in Steps /\ Range(r.todo) = {s}
         /\ Looks(r.todo) => s.do \in {"find", "verify"}
         /\ ~Looks(r.todo) \/ key \in ProxyKeys \/ r.name = Receiver \/ r.name \in Mocks =>
              ~Unfinished(r.name, s) /\ Proper(r.name, s)
<1>1. r.key = KeyOf(r.name) /\ Fits(l, r.name, r.verify, r.todo) BY DEF RunInv
<1>2. /\ r.todo # << >> /\ Range(r.todo) = {StepOf(r)}
      /\ ~Looks(r.todo) \/ Tells(r.name) =>
           ~Unfinished(r.name, StepOf(r)) /\ Proper(r.name, StepOf(r))
  BY <1>1, LastStep
<1>3. StepOf(r) \in Steps BY <1>2, StepIs
<1>4. Looks(r.todo) => StepOf(r).do \in {"find", "verify"} BY <1>2 DEF Looks
<1>5. /\ r.name = Receiver => r.key \notin ProxyKeys
      /\ r.name \in Mocks => r.key \notin ProxyKeys /\ r.name # Receiver
  BY <1>1, TaskNames
<1>6. Tells(r.name) <=> r.key \in ProxyKeys \/ r.name = Receiver \/ r.name \in Mocks
  BY <1>1 DEF Tells
<1> QED BY <1>1, <1>2, <1>3, <1>4, <1>5, <1>6

\* A step that changes neither the chain nor the file and sends nothing.
LEMMA PassOn ==
  ASSUME NEW names, NEW flags, NEW r \in Runs(names, flags), r # NoRun, r.todo # << >>,
         Len(r.todo) # 1, NEW t, Goes(r, t, r.made, r.awaited),
         NEW l, NEW p, NEW f, RunInv(l, p, f, r),
         StepOf(r).do \in {"find", "verify", "unlessThere"}
  PROVE  RunInv(l, p, f, t)
<1> DEFINE s == StepOf(r)
           u == StepOf(t)
           key == r.key
<1>1. /\ WaitInv(l, p, r) /\ LogicInv(l, p, r) /\ KeyInv(l, p, f, r)
      /\ ReceiverInv(l, p, f, r) /\ MockInv(l, f, r)
  BY DEF RunInv
<1>2. /\ t # NoRun /\ t.name = r.name /\ t.key = r.key /\ t.admin = r.admin
      /\ t.made = r.made /\ t.awaited = r.awaited /\ t.verify = r.verify
      /\ key = KeyOf(r.name) /\ (r.name = Receiver => key \notin ProxyKeys)
      /\ (r.name \in Mocks => key \notin ProxyKeys /\ r.name # Receiver)
      /\ Fits(l, t.name, t.verify, t.todo)
      /\ s \in Steps /\ u \in Steps
      /\ Range(r.todo) = {s} \cup Range(t.todo) /\ u \in Range(t.todo)
      /\ Looks(r.todo) => Looks(t.todo)
      /\ Looks(t.todo) => u.do \in {"find", "verify"}
      /\ ~Looks(r.todo) \/ key \in ProxyKeys \/ r.name = Receiver \/ r.name \in Mocks =>
           Follows(r.name, s, u) /\ Proper(r.name, s) /\ Proper(r.name, u)
  BY Onward
<1>3. r.awaited = "nothing" /\ LatestOf(t) = LatestOf(r) /\ t.key = key
  BY <1>1, <1>2 DEF WaitInv, LatestOf
<1> HIDE DEF s, u, key
<1>4. s.do \in {"find", "verify", "unlessThere"} BY DEF s
<1>5. WaitInv(l, p, t)
  <2>1. u.do \notin {"note", "wait"}
    <3>1. CASE Looks(r.todo) BY <1>2, <3>1
    <3>2. CASE ~Looks(r.todo) BY <1>2, <1>4, <3>2 DEF Follows
    <3> QED BY <3>1, <3>2
  <2>2. u.do \in {"record", "initialize", "upgrade"} => r.made # << >>
    <3> SUFFICES ASSUME u.do \in {"record", "initialize", "upgrade"} PROVE r.made # << >> OBVIOUS
    <3>1. ~Looks(r.todo) BY <1>2
    <3>2. s.do = "verify" BY <1>2, <1>4, <3>1 DEF Follows
    <3> QED BY <1>1, <3>1, <3>2 DEF WaitInv, s
  <2>3. u.do = "verify" => Looks(t.todo)
    <3>1. ~Looks(r.todo) => u.do # "verify" BY <1>2, <1>4 DEF Follows
    <3> QED BY <1>2, <3>1
  <2> QED BY <1>2, <1>3, <2>1, <2>2, <2>3 DEF WaitInv, u
<1>6. LogicInv(l, p, t)
  <2> SUFFICES ASSUME key \in ProxyKeys PROVE LogicInv(l, p, t)
    BY <1>3 DEF LogicInv
  <2>1. Follows(r.name, s, u) BY <1>2
  <2>2. ~Deploys(Impl(key), s) /\ ~Deploys(Impl(key), u)
    BY <1>2, <1>4, <2>1 DEF Deploys, Follows
  <2>3. r.made # << >> /\ IsKind(l, r.made[1], Impl(key))
    BY <1>1, <1>3, <2>2 DEF LogicInv, LogicSent, key, s
  <2> QED BY <1>2, <1>3, <2>2, <2>3 DEF LogicInv, u
<1>7. KeyInv(l, p, f, t)
  <2> SUFFICES ASSUME key \in ProxyKeys PROVE KeyInv(l, p, f, t)
    BY <1>3 DEF KeyInv
  <2>1. Follows(r.name, s, u) /\ Proper(r.name, s) BY <1>2
  <2>2. s.do = "verify" BY <1>2, <1>4, <2>1 DEF Proper
  <2>3. u.do \notin {"note", "upgrade"} /\ (u.do = "record" => u.x \notin Impls)
    BY <2>1, <2>2 DEF Follows
  <2>4. ~(u.do \in {"note", "record"} /\ u.x = Impl(key)) BY <2>3, Names
  <2>5. /\ f[AdminOf(key)] = r.admin /\ (r.made # << >> => f[Impl(key)] = r.made[1])
        /\ \/ ProxyToCome(r) \/ Upgrading(l, p, f, r)
           \/ Deploying(l, p, r) \/ Deployed(l, p, f, r)
    BY <1>1, <2>2 DEF KeyInv, key, s
  <2>6. ~Upgrading(l, p, f, r) /\ ~Deploying(l, p, r)
    BY <2>2 DEF Upgrading, Deploying, s
  <2>7. ProxyToCome(r) => ProxyToCome(t)
    BY <1>2, <1>3, <2>2 DEF ProxyToCome, Deploys, key
  <2>8. Deployed(l, p, f, r) => Deployed(l, p, f, t)
    BY <1>2, <1>3 DEF Deployed, Right, key
  <2> QED BY <1>2, <1>3, <2>3, <2>4, <2>5, <2>6, <2>7, <2>8 DEF KeyInv, u
<1>8. ReceiverInv(l, p, f, t)
  <2> SUFFICES ASSUME r.name = Receiver PROVE ReceiverInv(l, p, f, t)
    BY <1>2 DEF ReceiverInv
  <2>1. Follows(r.name, s, u) /\ Proper(r.name, s) BY <1>2
  <2>2. s.do = "verify" BY <1>4, <2>1 DEF Proper
  <2>3. u.do = "initialize" BY <2>1, <2>2 DEF Follows
  <2>4. f[ReceiverV2] = LatestOf(r) /\ IsKind(l, LatestOf(r), ReceiverV2)
    BY <1>1, <2>2 DEF ReceiverInv, s
  <2> QED BY <1>3, <2>3, <2>4 DEF ReceiverInv, u
<1>9. MockInv(l, f, t)
  <2> SUFFICES ASSUME r.name \in Mocks PROVE MockInv(l, f, t)
    BY <1>2 DEF MockInv
  <2>1. Follows(r.name, s, u) /\ Proper(r.name, s) BY <1>2
  <2>2. s.do \in {"verify", "unlessThere"} BY <1>4, <2>1 DEF Proper
  <2>3. u.do \in {"record", "verify"} => s.do = "verify" BY <2>1, <2>2 DEF Follows
  <2>4. u.do \in {"record", "verify"} =>
          /\ r.awaited \in {"sent", "lost", "reverted"} \/ LatestOf(r) \in DOMAIN l
          /\ \A a \in Symbols : f[a] # LatestOf(r)
    BY <1>1, <2>3 DEF MockInv, s
  <2>5. \A a \in Symbols : f[a] # 0 \/ SymbolToCome(t, a)
    BY <1>1, <1>2, <2>2 DEF MockInv, SymbolToCome
  <2> QED BY <1>2, <1>3, <2>4, <2>5 DEF MockInv, u
<1> QED BY <1>2, <1>5, <1>6, <1>7, <1>8, <1>9 DEF RunInv, key

\* The same of a step that changes something.
LEMMA Working ==
  ASSUME NEW names, NEW flags, NEW r \in Runs(names, flags), r # NoRun, r.todo # << >>,
         Len(r.todo) # 1, NEW t, NEW made, NEW awaited, Goes(r, t, made, awaited),
         NEW l, NEW p, NEW f, RunInv(l, p, f, r), StepOf(r).do \notin {"find", "verify"}
  PROVE  LET s == StepOf(r)
             u == StepOf(t)
             key == r.key
         IN
         /\ t # NoRun /\ t.name = r.name /\ t.key = key /\ t.admin = r.admin
         /\ t.made = made /\ t.awaited = awaited /\ t.verify = r.verify
         /\ key = KeyOf(r.name) /\ (r.name = Receiver => key \notin ProxyKeys)
         /\ (r.name \in Mocks => key \notin ProxyKeys /\ r.name # Receiver)
         /\ Fits(l, t.name, t.verify, t.todo)
         /\ s \in Steps /\ u \in Steps
         /\ Range(r.todo) = {s} \cup Range(t.todo) /\ u \in Range(t.todo)
         /\ Follows(r.name, s, u) /\ Proper(r.name, s) /\ Proper(r.name, u)
         /\ Founded(l, r.name, s)
         /\ Deploys(key, s) /\ key \in ProxyKeys => \A v \in Range(t.todo) : Closes(key, v)
<1>1. Looks(r.todo) => StepOf(r).do \in {"find", "verify"} BY Onward
<1>2. ~Looks(r.todo) BY <1>1
<1>3. /\ Follows(r.name, StepOf(r), StepOf(t))
      /\ Proper(r.name, StepOf(r)) /\ Proper(r.name, StepOf(t)) /\ Founded(l, r.name, StepOf(r))
      /\ Deploys(r.key, StepOf(r)) /\ r.key \in ProxyKeys =>
           \A v \in Range(t.todo) : Closes(r.key, v)
  BY <1>2, Onward
<1>4. /\ t # NoRun /\ t.name = r.name /\ t.key = r.key /\ t.admin = r.admin
      /\ t.made = made /\ t.awaited = awaited /\ t.verify = r.verify
      /\ r.key = KeyOf(r.name) /\ (r.name = Receiver => r.key \notin ProxyKeys)
      /\ (r.name \in Mocks => r.key \notin ProxyKeys /\ r.name # Receiver)
      /\ Fits(l, t.name, t.verify, t.todo)
      /\ StepOf(r) \in Steps /\ StepOf(t) \in Steps
      /\ Range(r.todo) = {StepOf(r)} \cup Range(t.todo) /\ StepOf(t) \in Range(t.todo)
  BY Onward
<1> QED BY <1>3, <1>4

\* The file g after x was saved in f under a key.
Saves(f, g, key, x) == g[key] = x /\ \A k \in Keys : k # key => g[k] = f[k]

LEMMA SavesIs ==
  ASSUME NEW f \in [Keys -> Nat], NEW key \in Keys, NEW x \in Nat,
         NEW g, g = [f EXCEPT ![key] = x]
  PROVE  g \in [Keys -> Nat] /\ Saves(f, g, key, x)
BY DEF Saves

\* The file is given a configured address.
LEMMA EnlistOn ==
  ASSUME NEW names, NEW flags, NEW r \in Runs(names, flags), r # NoRun, r.todo # << >>,
         Len(r.todo) # 1, NEW t, Goes(r, t, r.made, r.awaited),
         NEW l, NEW p, NEW f \in [Keys -> Nat], RunInv(l, p, f, r),
         StepOf(r).do = "enlist",
         NEW g, Saves(f, g, StepOf(r).x[1], StepOf(r).x[2])
  PROVE  RunInv(l, p, g, t)
<1> DEFINE s == StepOf(r)
           u == StepOf(t)
           key == r.key
<1>1. /\ WaitInv(l, p, r) /\ LogicInv(l, p, r) /\ KeyInv(l, p, f, r)
      /\ ReceiverInv(l, p, f, r) /\ MockInv(l, f, r)
  BY DEF RunInv
<1>2. /\ t # NoRun /\ t.name = r.name /\ t.key = key /\ t.admin = r.admin
      /\ t.made = r.made /\ t.awaited = r.awaited /\ t.verify = r.verify
      /\ key = KeyOf(r.name) /\ (r.name = Receiver => key \notin ProxyKeys)
      /\ (r.name \in Mocks => key \notin ProxyKeys /\ r.name # Receiver)
      /\ Fits(l, t.name, t.verify, t.todo)
      /\ s \in Steps /\ u \in Steps
      /\ Range(r.todo) = {s} \cup Range(t.todo) /\ u \in Range(t.todo)
      /\ Follows(r.name, s, u) /\ Proper(r.name, s) /\ Proper(r.name, u)
      /\ Founded(l, r.name, s)
      /\ Deploys(key, s) /\ key \in ProxyKeys => \A v \in Range(t.todo) : Closes(key, v)
  BY Working
<1>3. r.awaited = "nothing" /\ LatestOf(t) = LatestOf(r)
  BY <1>1, <1>2 DEF WaitInv, LatestOf
<1>4. s.do = "enlist" /\ s.x \in (ProxyKeys \cup AdminKeys) \X Nat BY <1>2 DEF Steps
<1>5. /\ s.x[1] \in ProxyKeys \cup AdminKeys /\ s.x[1] \in Keys /\ s.x[2] \in Nat
      /\ g[s.x[1]] = s.x[2] /\ \A k \in Keys : k # s.x[1] => g[k] = f[k]
  BY <1>4, Names DEF Saves
<1> HIDE DEF s, u, key
<1>6. u.do \notin {"note", "wait", "record", "initialize", "verify"} BY <1>2, <1>4 DEF Follows
<1>7. key \in ProxyKeys =>
        /\ u.do = "upgrade" /\ s.x = <<key, u.x>> /\ r.made # << >>
        /\ IsKind(l, r.made[1], Impl(key))
  <2> SUFFICES ASSUME key \in ProxyKeys
               PROVE  /\ u.do = "upgrade" /\ s.x = <<key, u.x>> /\ r.made # << >>
                      /\ IsKind(l, r.made[1], Impl(key))
    OBVIOUS
  <2>1. ~Deploys(Impl(key), s) BY <1>4 DEF Deploys
  <2>2. r.made # << >> /\ IsKind(l, r.made[1], Impl(key))
    BY <1>1, <1>3, <2>1 DEF LogicInv, LogicSent, key, s
  <2> QED BY <1>2, <1>4, <2>2 DEF Follows
<1>8. u.do = "upgrade" => key \in ProxyKeys BY <1>2 DEF Proper
<1>9. WaitInv(l, p, t)
  BY <1>2, <1>3, <1>6, <1>7, <1>8 DEF WaitInv, u
<1>10. LogicInv(l, p, t)
  <2>1. key \in ProxyKeys => ~Deploys(Impl(key), u) BY <1>7 DEF Deploys
  <2> QED BY <1>2, <1>7, <2>1 DEF LogicInv, u
<1>11. KeyInv(l, p, g, t)
  <2> SUFFICES ASSUME key \in ProxyKeys PROVE KeyInv(l, p, g, t)
    BY <1>2 DEF KeyInv
  <2>1. u.do = "upgrade" /\ s.x = <<key, u.x>> BY <1>7
  <2>2. s.x[1] = key /\ s.x[2] = u.x BY <2>1
  <2>3. g[AdminOf(key)] = f[AdminOf(key)] /\ g[Impl(key)] = f[Impl(key)] /\ g[key] = u.x
    BY <1>5, <2>2, Names
  <2>4. /\ f[AdminOf(key)] = r.admin /\ (r.made # << >> => f[Impl(key)] = r.made[1])
        /\ \/ ProxyToCome(r) \/ Upgrading(l, p, f, r)
           \/ Deploying(l, p, r) \/ Deployed(l, p, f, r)
    BY <1>1, <1>4 DEF KeyInv, key, s
  <2>5. ProxyToCome(t)
    <3>1. u \in Range(t.todo) BY <1>2
    <3> QED BY <2>1, <3>1 DEF ProxyToCome
  <2> QED BY <1>2, <2>1, <2>3, <2>4, <2>5 DEF KeyInv, u
<1>12. ReceiverInv(l, p, g, t)
  BY <1>2, <1>4 DEF ReceiverInv, Proper
<1>13. MockInv(l, g, t)
  BY <1>2, <1>4 DEF MockInv, Proper
<1> QED BY <1>2, <1>9, <1>10, <1>11, <1>12, <1>13 DEF RunInv, key

\* An implementation is noted that is not mined yet.
LEMMA NoteOn ==
  ASSUME NEW names, NEW flags, NEW r \in Runs(names, flags), r # NoRun, r.todo # << >>,
         Len(r.todo) # 1, NEW t, Goes(r, t, r.made, r.awaited),
         NEW l, NEW p, NEW f \in [Keys -> Nat], RunInv(l, p, f, r),
         StepOf(r).do = "note",
         NEW g, Saves(f, g, StepOf(r).x, LatestOf(r))
  PROVE  RunInv(l, p, g, t)
<1> DEFINE s == StepOf(r)
           u == StepOf(t)
           key == r.key
<1>1. /\ WaitInv(l, p, r) /\ LogicInv(l, p, r) /\ KeyInv(l, p, f, r)
      /\ ReceiverInv(l, p, f, r) /\ MockInv(l, f, r)
  BY DEF RunInv
<1>2. /\ t # NoRun /\ t.name = r.name /\ t.key = key /\ t.admin = r.admin
      /\ t.made = r.made /\ t.awaited = r.awaited /\ t.verify = r.verify
      /\ key = KeyOf(r.name) /\ (r.name = Receiver => key \notin ProxyKeys)
      /\ (r.name \in Mocks => key \notin ProxyKeys /\ r.name # Receiver)
      /\ Fits(l, t.name, t.verify, t.todo)
      /\ s \in Steps /\ u \in Steps
      /\ Range(r.todo) = {s} \cup Range(t.todo) /\ u \in Range(t.todo)
      /\ Follows(r.name, s, u) /\ Proper(r.name, s) /\ Proper(r.name, u)
      /\ Founded(l, r.name, s)
      /\ Deploys(key, s) /\ key \in ProxyKeys => \A v \in Range(t.todo) : Closes(key, v)
  BY Working
<1>3. LatestOf(t) = LatestOf(r) /\ r.awaited # "nothing" /\ r.made # << >>
  BY <1>1, <1>2 DEF WaitInv, LatestOf
<1>4. s.do = "note" /\ s.x \in Impls /\ key \in ProxyKeys /\ s.x = Impl(key)
  <2>1. s.do = "note" /\ s.x \in Impls BY <1>2 DEF Steps
  <2>2. key \in ProxyKeys /\ s.x \in {key, Impl(key), ReceiverV3} BY <1>2, <2>1 DEF Proper
  <2> QED BY <2>1, <2>2, Names
<1>5. /\ s.x \in Keys /\ g[s.x] = LatestOf(r)
      /\ \A k \in Keys : k # s.x => g[k] = f[k]
  BY <1>4, Names DEF Saves
<1> HIDE DEF s, u, key
<1>6. u.do = "record" /\ u.x = key BY <1>2, <1>4 DEF Follows
<1>7. WaitInv(l, p, t)
  BY <1>1, <1>2, <1>3, <1>4, <1>6 DEF WaitInv, u, s
<1>8. Len(r.made) = 1 /\ LatestOf(r) = r.made[1]
  BY <1>1, <1>4 DEF KeyInv, key, s, LatestOf, Last1
<1>9. LogicInv(l, p, t)
  <2>1. ~Deploys(Impl(key), u) BY <1>6 DEF Deploys
  <2>2. IsKind(l, r.made[1], Impl(key)) \/ LogicSent(p, r)
    BY <1>1, <1>3, <1>4 DEF LogicInv, key
  <2>3. LogicSent(p, r) => LogicSent(p, t)
    BY <1>2, <1>6 DEF LogicSent, u, key
  <2> QED BY <1>2, <1>3, <2>1, <2>2, <2>3 DEF LogicInv, u
<1>10. KeyInv(l, p, g, t)
  <2>1. g[AdminOf(key)] = f[AdminOf(key)] /\ g[Impl(key)] = r.made[1] /\ key # Impl(key)
    BY <1>4, <1>5, <1>8, Names
  <2>2. /\ f[AdminOf(key)] = r.admin
        /\ \/ ProxyToCome(r) \/ Upgrading(l, p, f, r)
           \/ Deploying(l, p, r) \/ Deployed(l, p, f, r)
    BY <1>1, <1>4 DEF KeyInv, key
  <2>3. ~Upgrading(l, p, f, r) /\ ~Deploying(l, p, r) /\ ~Deployed(l, p, f, r)
    BY <1>2, <1>4 DEF Upgrading, Deploying, Deployed, Closes, s
  <2>4. ProxyToCome(t)
    BY <1>2, <1>4, <2>2, <2>3 DEF ProxyToCome, Deploys, key
  <2> QED BY <1>2, <1>6, <2>1, <2>2, <2>4 DEF KeyInv, u
<1>11. ReceiverInv(l, p, g, t)
  BY <1>2, <1>4 DEF ReceiverInv
<1>12. MockInv(l, g, t)
  BY <1>2, <1>4 DEF MockInv
<1> QED BY <1>2, <1>7, <1>9, <1>10, <1>11, <1>12 DEF RunInv, key

\* The address of what was deployed last is saved.
LEMMA RecordOn ==
  ASSUME NEW names, NEW flags, NEW r \in Runs(names, flags), r # NoRun, r.todo # << >>,
         Len(r.todo) # 1, NEW t, Goes(r, t, r.made, "nothing"),
         NEW l, NEW p, NEW f \in [Keys -> Nat], RunInv(l, p, f, r), SymbolsInv(l, f),
         l \in Seq(Entry),
         StepOf(r).do = "record", r.awaited \in {"mined", "nothing"},
         NEW g, Saves(f, g, StepOf(r).x, LatestOf(r))
  PROVE  RunInv(l, p, g, t)
<1> DEFINE s == StepOf(r)
           u == StepOf(t)
           key == r.key
<1>1. /\ WaitInv(l, p, r) /\ LogicInv(l, p, r) /\ KeyInv(l, p, f, r)
      /\ ReceiverInv(l, p, f, r) /\ MockInv(l, f, r)
  BY DEF RunInv
<1>2. /\ t # NoRun /\ t.name = r.name /\ t.key = key /\ t.admin = r.admin
      /\ t.made = r.made /\ t.awaited = "nothing" /\ t.verify = r.verify
      /\ key = KeyOf(r.name) /\ (r.name = Receiver => key \notin ProxyKeys)
      /\ (r.name \in Mocks => key \notin ProxyKeys /\ r.name # Receiver)
      /\ Fits(l, t.name, t.verify, t.todo)
      /\ s \in Steps /\ u \in Steps
      /\ Range(r.todo) = {s} \cup Range(t.todo) /\ u \in Range(t.todo)
      /\ Follows(r.name, s, u) /\ Proper(r.name, s) /\ Proper(r.name, u)
      /\ Founded(l, r.name, s)
      /\ Deploys(key, s) /\ key \in ProxyKeys => \A v \in Range(t.todo) : Closes(key, v)
  BY Working
<1>3. /\ LatestOf(t) = LatestOf(r) /\ r.made # << >>
      /\ r.awaited = "mined" => p = << >>
  BY <1>1, <1>2 DEF WaitInv, LatestOf
<1>4. s.do = "record" /\ s.x \in Keys BY <1>2 DEF Steps
<1>5. g[s.x] = LatestOf(r) /\ \A k \in Keys : k # s.x => g[k] = f[k]
  BY DEF Saves
<1> HIDE DEF s, u, key
<1>6. u.do \notin {"note", "wait", "upgrade"} BY <1>2, <1>4 DEF Follows
<1>7. WaitInv(l, p, t)
  BY <1>2, <1>3, <1>6 DEF WaitInv, u
<1>8. LogicInv(l, p, t)
  <2> SUFFICES ASSUME key \in ProxyKeys PROVE LogicInv(l, p, t)
    BY <1>2 DEF LogicInv
  <2>1. ~Deploys(Impl(key), u) BY <1>2 DEF Deploys, Follows
  <2>2. IsKind(l, r.made[1], Impl(key))
    BY <1>1, <1>3 DEF LogicInv, LogicSent, key
  <2> QED BY <1>2, <1>3, <2>1, <2>2 DEF LogicInv, u
<1>9. KeyInv(l, p, g, t)
  <2> SUFFICES ASSUME key \in ProxyKeys PROVE KeyInv(l, p, g, t)
    BY <1>2 DEF KeyInv
  <2>1. s.x \in {key, Impl(key), ReceiverV3} BY <1>2, <1>4 DEF Proper
  <2>2. /\ AdminOf(key) \in Keys /\ Impl(key) \in Keys /\ key \in Keys
        /\ AdminOf(key) \notin {key, Impl(key), ReceiverV3} /\ key # Impl(key)
        /\ Impl(key) \in Impls /\ key # ReceiverV3 /\ Impl(key) # ReceiverV3
    BY Names
  <2>3. g[AdminOf(key)] = r.admin BY <1>1, <1>5, <2>1, <2>2 DEF KeyInv, key
  <2>4. g[Impl(key)] = r.made[1]
    <3>1. CASE s.x = Impl(key)
      <4>1. Len(r.made) = 1 BY <1>1, <1>4, <3>1 DEF KeyInv, key, s
      <4> QED BY <1>5, <3>1, <4>1 DEF LatestOf, Last1
    <3>2. CASE s.x # Impl(key)
      <4>1. f[Impl(key)] = r.made[1] BY <1>1, <1>3, <3>2 DEF KeyInv, key, s
      <4> QED BY <1>5, <2>2, <3>2, <4>1
    <3> QED BY <3>1, <3>2
  <2>5. u.do # "note" /\ ~(u.do = "record" /\ u.x = Impl(key))
    BY <1>2, <1>4, <2>2 DEF Follows
  <2>6. \/ ProxyToCome(r) \/ Upgrading(l, p, f, r)
        \/ Deploying(l, p, r) \/ Deployed(l, p, f, r)
    BY <1>1 DEF KeyInv, key
  <2>7. ~Upgrading(l, p, f, r) BY <1>4 DEF Upgrading, s
  <2>8. ProxyToCome(r) => ProxyToCome(t)
    BY <1>2, <1>4 DEF ProxyToCome, Deploys, key
  <2>9. Deploying(l, p, r) => Deployed(l, p, g, t)
    <3> SUFFICES ASSUME Deploying(l, p, r) PROVE Deployed(l, p, g, t) OBVIOUS
    <3>1. r.awaited = "mined" /\ s.x = key BY DEF Deploying, s, key
    <3>2. p = << >> /\ g[key] = LatestOf(r) BY <1>3, <1>5, <3>1
    <3> QED BY <1>2, <1>3, <3>1, <3>2 DEF Deploying, Deployed, Right, key
  <2>10. Deployed(l, p, f, r) => Deployed(l, p, g, t)
    <3> SUFFICES ASSUME Deployed(l, p, f, r) PROVE Deployed(l, p, g, t) OBVIOUS
    <3>1. s.x = key BY <1>2, <1>4 DEF Deployed, Closes, key
    <3>2. g[key] = LatestOf(r) BY <1>5, <3>1
    <3> QED BY <1>2, <1>3, <3>2 DEF Deployed, Right, key
  <2> QED BY <1>2, <1>6, <2>3, <2>4, <2>5, <2>6, <2>7, <2>8, <2>9, <2>10 DEF KeyInv, u
<1>10. ReceiverInv(l, p, g, t)
  <2> SUFFICES ASSUME r.name = Receiver PROVE ReceiverInv(l, p, g, t)
    BY <1>2 DEF ReceiverInv
  <2>1. s.x = ReceiverV2 /\ u.do \in {"verify", "initialize"} BY <1>2, <1>4 DEF Proper, Follows
  <2>2. IsKind(l, LatestOf(r), ReceiverV2) BY <1>1, <1>4 DEF ReceiverInv, s
  <2> QED BY <1>3, <1>5, <2>1, <2>2 DEF ReceiverInv, u
<1>11. MockInv(l, g, t)
  <2> SUFFICES ASSUME r.name \in Mocks PROVE MockInv(l, g, t)
    BY <1>2 DEF MockInv
  <2>1. LatestOf(r) \in DOMAIN l /\ \A a \in Symbols : f[a] # LatestOf(r)
    BY <1>1, <1>4 DEF MockInv, s
  <2>2. \A a \in Symbols : f[a] # 0 \/ SymbolToCome(r, a) BY <1>1 DEF MockInv
  <2>3. \A a \in Symbols : a \in Keys BY Names
  <2>4. LatestOf(r) # 0 BY <2>1
  <2>5. u.do \in {"record", "verify"} => \A a \in Symbols : g[a] # LatestOf(r)
    <3> SUFFICES ASSUME u.do \in {"record", "verify"} PROVE \A a \in Symbols : g[a] # LatestOf(r)
      OBVIOUS
    <3>1. s.x \notin Symbols BY <1>2, <1>4 DEF Follows
    <3> QED BY <1>5, <2>1, <2>3, <3>1
  <2>6. ASSUME NEW a \in Symbols PROVE g[a] # 0 \/ SymbolToCome(t, a)
    <3>1. CASE s.x = a BY <1>5, <2>4, <3>1
    <3>2. CASE s.x # a
      <4>1. g[a] = f[a] BY <1>5, <2>3, <3>2
      <4>2. SymbolToCome(r, a) => SymbolToCome(t, a) BY <1>2, <3>2 DEF SymbolToCome
      <4> QED BY <2>2, <4>1, <4>2
    <3> QED BY <3>1, <3>2
  <2> QED BY <1>2, <1>3, <2>1, <2>5, <2>6 DEF MockInv, u
<1> QED BY <1>2, <1>7, <1>8, <1>9, <1>10, <1>11 DEF RunInv, key

\* A transaction is sent: what it is, and the addresses the task has then.
Sends(r, tx) ==
  LET s == StepOf(r) IN
  /\ s.do = "make" =>
       IF s.x \in ProxyKeys THEN tx = Message(s.x, 0, r.made[1], r.admin)
       ELSE tx = Message(s.x, 0, 0, 0)
  /\ s.do = "upgrade" => tx = Message("upgrade", s.x, r.made[1], r.admin)
  /\ s.do = "initialize" => tx = Message("initialize", LatestOf(r), 0, 0)

Grows(made, more, n) == more = Append(made, n)

Makes(r, made, n) ==
  IF StepOf(r).do = "make" THEN Grows(r.made, made, n) ELSE made = r.made

LEMMA MadeIs ==
  ASSUME NEW made \in Seq(Nat), NEW n \in Nat, NEW more, Grows(made, more, n)
  PROVE  /\ more \in Seq(Nat) /\ more # << >> /\ Last1(more) = n
         /\ made # << >> => more[1] = made[1]
         /\ made = << >> => Len(more) = 1 /\ more[1] = n
<1>1. /\ more \in Seq(Nat) /\ Len(more) = Len(made) + 1 /\ more[Len(made) + 1] = n
      /\ \A k \in 1..Len(made) : more[k] = made[k]
  BY AppendProperties DEF Grows
<1>2. Len(made) \in Nat /\ Len(more) # 0 BY <1>1
<1>3. more # << >> BY <1>1, <1>2
<1>4. made # << >> => Len(made) # 0 OBVIOUS
<1>5. made # << >> => more[1] = made[1] BY <1>1, <1>2, <1>4
<1>6. made = << >> => Len(made) = 0 OBVIOUS
<1> QED BY <1>1, <1>3, <1>5, <1>6 DEF Last1

\* What a task sends is sound.
LEMMA SentSound ==
  ASSUME NEW names, NEW flags, NEW r \in Runs(names, flags), r # NoRun, r.todo # << >>,
         NEW l, NEW p, NEW f, RunInv(l, p, f, r), StepOf(r).do \in Transactions,
         NEW tx, Sends(r, tx)
  PROVE  /\ tx \in Msgs /\ Sound(l, tx)
         /\ r.awaited = "nothing" /\ (StepOf(r).do \in {"upgrade", "initialize"} => r.made # << >>)
         /\ r.key \in ProxyKeys /\ ~Deploys(Impl(r.key), StepOf(r)) =>
              r.made # << >> /\ IsKind(l, r.made[1], Impl(r.key))
<1> DEFINE s == StepOf(r)
           key == r.key
<1>1. /\ WaitInv(l, p, r) /\ LogicInv(l, p, r) /\ ReceiverInv(l, p, f, r)
      /\ key = KeyOf(r.name) /\ Fits(l, r.name, r.verify, r.todo)
  BY DEF RunInv
<1>2. s \in Steps /\ s \in Range(r.todo) BY StepIs
<1>3. s.do \in {"make", "upgrade", "initialize"} BY DEF Transactions
<1>4. ~Looks(r.todo) BY <1>2, <1>3 DEF Looks
<1>5. Proper(r.name, s) /\ Founded(l, r.name, s) BY <1>1, <1>4, StepFits
<1>6. r.made \in Seq(Nat) /\ r.admin \in Nat BY DEF Runs
<1>7. /\ s.do = "make" => s.x \in ContractKeys
      /\ s.do = "upgrade" => s.x \in Nat
  BY <1>2 DEF Steps
<1>8. /\ s.do = "make" /\ s.x \in ProxyKeys => tx = Message(s.x, 0, r.made[1], r.admin)
      /\ s.do = "make" /\ s.x \notin ProxyKeys => tx = Message(s.x, 0, 0, 0)
      /\ s.do = "upgrade" => tx = Message("upgrade", s.x, r.made[1], r.admin)
      /\ s.do = "initialize" => tx = Message("initialize", LatestOf(r), 0, 0)
  BY DEF Sends
<1> HIDE DEF s, key
<1>9. /\ r.awaited = "nothing" /\ (s.do \in {"upgrade", "initialize"} => r.made # << >>)
  BY <1>1, <1>3 DEF WaitInv, s
<1>10. ASSUME key \in ProxyKeys, ~Deploys(Impl(key), s)
       PROVE  r.made # << >> /\ IsKind(l, r.made[1], Impl(key))
  BY <1>1, <1>9, <1>10 DEF LogicInv, LogicSent, key, s
<1>11. r.made # << >> => r.made[1] \in Nat /\ LatestOf(r) \in Nat
  BY <1>6 DEF LatestOf, Last1
<1>12. CASE s.do = "make" /\ s.x \notin ProxyKeys
  <2>1. tx.op = s.x /\ tx.to = 0 /\ tx.logic = 0 /\ tx.admin = 0 /\ tx = Message(s.x, 0, 0, 0)
    BY <1>8, <1>12 DEF Message
  <2>2. tx.op \in ContractKeys /\ tx.op \notin ProxyKeys /\ tx.op \notin {"upgrade", "initialize"}
    BY <1>7, <1>12, <2>1, Names
  <2>3. tx \in Msgs BY <2>1, <2>2 DEF Msgs, Message
  <2>4. Sound(l, tx) BY <2>2 DEF Sound
  <2> QED BY <1>9, <1>10, <2>3, <2>4 DEF s, key
<1>13. CASE s.do = "make" /\ s.x \in ProxyKeys
  <2>1. /\ tx.op = s.x /\ tx.to = 0 /\ tx.logic = r.made[1] /\ tx.admin = r.admin
        /\ tx = Message(s.x, 0, r.made[1], r.admin)
    BY <1>8, <1>13 DEF Message
  <2>2. tx.op \in ContractKeys /\ tx.op \notin {"upgrade", "initialize"}
    BY <1>7, <1>13, <2>1, Names
  <2>3. key \in ProxyKeys /\ s.x \in {key, Impl(key), ReceiverV3}
    BY <1>1, <1>5, <1>13 DEF Proper
  <2>4. s.x = key /\ s.x # Impl(key) BY <1>13, <2>3, Names
  <2>5. ~Deploys(Impl(key), s) BY <2>4 DEF Deploys
  <2>6. r.made # << >> /\ IsKind(l, r.made[1], Impl(key)) BY <1>10, <2>3, <2>5
  <2>7. tx \in Msgs BY <1>6, <1>11, <2>1, <2>2, <2>6 DEF Msgs, Message
  <2>8. Sound(l, tx) BY <2>1, <2>2, <2>4, <2>6 DEF Sound
  <2> QED BY <1>9, <1>10, <2>7, <2>8 DEF s, key
<1>14. CASE s.do = "upgrade"
  <2>1. /\ tx.op = "upgrade" /\ tx.to = s.x /\ tx.logic = r.made[1] /\ tx.admin = r.admin
        /\ tx = Message("upgrade", s.x, r.made[1], r.admin)
    BY <1>8, <1>14 DEF Message
  <2>2. key \in ProxyKeys /\ IsKind(l, s.x, key) BY <1>1, <1>5, <1>14 DEF Proper, Founded
  <2>3. ~Deploys(Impl(key), s) BY <1>14 DEF Deploys
  <2>4. r.made # << >> /\ IsKind(l, r.made[1], Impl(key)) BY <1>10, <2>2, <2>3
  <2>5. tx \in Msgs BY <1>6, <1>7, <1>11, <1>14, <2>1, <2>4 DEF Msgs, Message
  <2>6. tx.op \notin ProxyKeys BY <2>1, Names
  <2>7. tx.to \in DOMAIN l /\ l[tx.to].kind = key BY <2>1, <2>2 DEF IsKind
  <2>8. Sound(l, tx) BY <2>1, <2>2, <2>4, <2>6, <2>7 DEF Sound
  <2> QED BY <1>9, <1>10, <2>5, <2>8 DEF s, key
<1>15. CASE s.do = "initialize"
  <2>1. /\ tx.op = "initialize" /\ tx.to = LatestOf(r) /\ tx.logic = 0 /\ tx.admin = 0
        /\ tx = Message("initialize", LatestOf(r), 0, 0)
    BY <1>8, <1>15 DEF Message
  <2>2. r.name = Receiver BY <1>5, <1>15 DEF Proper
  <2>3. IsKind(l, LatestOf(r), ReceiverV2) BY <1>1, <1>15, <2>2 DEF ReceiverInv, s
  <2>4. tx \in Msgs BY <1>9, <1>11, <1>15, <2>1 DEF Msgs, Message
  <2>5. tx.op \notin ProxyKeys BY <2>1, Names
  <2>6. Sound(l, tx) BY <2>1, <2>3, <2>5 DEF Sound
  <2> QED BY <1>9, <1>10, <2>4, <2>6 DEF s, key
<1> QED BY <1>3, <1>12, <1>13, <1>14, <1>15

LEMMA SendOn ==
  ASSUME NEW names, NEW flags, NEW r \in Runs(names, flags), r # NoRun, r.todo # << >>,
         Len(r.todo) # 1, NEW t, NEW made, Goes(r, t, made, "sent"),
         NEW l \in Seq(Entry), NEW p \in Seq(Msgs), NEW f \in [Keys -> Nat], RunInv(l, p, f, r),
         SymbolsInv(l, f), StepOf(r).do \in Transactions,
         NEW tx, Sends(r, tx), Makes(r, made, Len(l) + Len(p) + 1),
         NEW q, q # << >>, Last1(q) = tx, Len(q) = Len(p) + 1
  PROVE  RunInv(l, q, f, t)
<1> DEFINE s == StepOf(r)
           u == StepOf(t)
           key == r.key
           n == Len(l) + Len(p) + 1
<1>0. s.do \in {"make", "upgrade", "initialize"} BY DEF Transactions
<1>1. /\ WaitInv(l, p, r) /\ LogicInv(l, p, r) /\ KeyInv(l, p, f, r)
      /\ ReceiverInv(l, p, f, r) /\ MockInv(l, f, r)
  BY DEF RunInv
<1>a. StepOf(r).do \notin {"find", "verify"} BY <1>0
<1>2. /\ t # NoRun /\ t.name = r.name /\ t.key = key /\ t.admin = r.admin
      /\ t.made = made /\ t.awaited = "sent" /\ t.verify = r.verify
      /\ key = KeyOf(r.name) /\ (r.name = Receiver => key \notin ProxyKeys)
      /\ (r.name \in Mocks => key \notin ProxyKeys /\ r.name # Receiver)
      /\ Fits(l, t.name, t.verify, t.todo)
      /\ s \in Steps /\ u \in Steps
      /\ Range(r.todo) = {s} \cup Range(t.todo) /\ u \in Range(t.todo)
      /\ Follows(r.name, s, u) /\ Proper(r.name, s) /\ Proper(r.name, u)
      /\ Founded(l, r.name, s)
      /\ Deploys(key, s) /\ key \in ProxyKeys => \A v \in Range(t.todo) : Closes(key, v)
  BY <1>a, Working
<1>3. /\ r.awaited = "nothing" /\ (s.do \in {"upgrade", "initialize"} => r.made # << >>)
      /\ key \in ProxyKeys /\ ~Deploys(Impl(key), s) =>
           r.made # << >> /\ IsKind(l, r.made[1], Impl(key))
  BY SentSound
<1>4. r.made \in Seq(Nat) BY DEF Runs
<1>5. n \in Nat /\ n > Len(l) /\ n # 0 /\ DOMAIN l = 1..Len(l)
      /\ Len(l) + Len(q) = n
  OBVIOUS
<1>6. (s.do = "make" => Grows(r.made, made, n)) /\ (s.do # "make" => made = r.made)
  BY DEF Makes
<1> HIDE DEF n
<1>7. s.do = "make" => /\ made # << >> /\ Last1(made) = n
                       /\ r.made # << >> => made[1] = r.made[1]
                       /\ r.made = << >> => Len(made) = 1 /\ made[1] = n
  <2> SUFFICES ASSUME s.do = "make"
               PROVE  /\ made # << >> /\ Last1(made) = n
                      /\ r.made # << >> => made[1] = r.made[1]
                      /\ r.made = << >> => Len(made) = 1 /\ made[1] = n
    OBVIOUS
  <2>1. Grows(r.made, made, n) BY <1>6
  <2> QED BY <1>4, <1>5, <2>1, MadeIs
<1>8. made # << >> BY <1>0, <1>3, <1>6, <1>7
<1>9. LatestOf(t) = Last1(made) BY <1>2 DEF LatestOf
<1>10. /\ s.do = "make" => u.do \in {"note", "record"} /\ u.x = s.x
       /\ s.do # "make" => u.do = "wait"
  BY <1>0, <1>2 DEF Follows
<1>11. /\ s.do = "make" /\ s.x \in ProxyKeys => tx = Message(s.x, 0, r.made[1], r.admin)
       /\ s.do = "make" => tx.op = s.x
       /\ s.do = "upgrade" => tx = Message("upgrade", s.x, r.made[1], r.admin)
       /\ s.do = "initialize" => tx.op = "initialize" /\ tx.to = LatestOf(r)
  BY DEF Sends, Message
<1> HIDE DEF s, u, key
<1>12. WaitInv(l, q, t)
  <2>1. u.do \in {"note", "record", "wait"} BY <1>0, <1>10
  <2>2. u.do \in {"note", "record"} => LatestOf(t) = n BY <1>0, <1>7, <1>9, <1>10
  <2> QED BY <1>2, <1>5, <1>8, <2>1, <2>2 DEF WaitInv, u
<1>13. LogicInv(l, q, t)
  <2> SUFFICES ASSUME key \in ProxyKeys PROVE LogicInv(l, q, t)
    BY <1>2 DEF LogicInv
  <2>1. ~Deploys(Impl(key), u) BY <1>0, <1>10 DEF Deploys
  <2>2. IsKind(l, made[1], Impl(key)) \/ LogicSent(q, t)
    <3>1. CASE Deploys(Impl(key), s)
      <4>1. r.made = << >> /\ s.do = "make" /\ s.x = Impl(key)
        BY <1>1, <3>1 DEF LogicInv, Deploys, key, s
      <4>2. Len(made) = 1 /\ tx.op = Impl(key) /\ u.do \in {"note", "record"}
        BY <1>7, <1>10, <1>11, <4>1
      <4> QED BY <1>2, <4>2 DEF LogicSent, u
    <3>2. CASE ~Deploys(Impl(key), s)
      <4>1. r.made # << >> /\ IsKind(l, r.made[1], Impl(key)) BY <1>3, <3>2
      <4>2. made[1] = r.made[1] BY <1>0, <1>6, <1>7, <4>1
      <4> QED BY <4>1, <4>2
    <3> QED BY <3>1, <3>2
  <2> QED BY <1>2, <1>8, <2>1, <2>2 DEF LogicInv, u
<1>14. KeyInv(l, q, f, t)
  <2> SUFFICES ASSUME key \in ProxyKeys PROVE KeyInv(l, q, f, t)
    BY <1>2 DEF KeyInv
  <2> DEFINE saves == u.do \in {"note", "record"} /\ u.x = Impl(key)
  <2>1. /\ f[AdminOf(key)] = r.admin
        /\ r.made # << >> => f[Impl(key)] = r.made[1]
        /\ s.do = "upgrade" => s.x = f[key]
        /\ \/ ProxyToCome(r) \/ Upgrading(l, p, f, r)
           \/ Deploying(l, p, r) \/ Deployed(l, p, f, r)
    BY <1>0, <1>1 DEF KeyInv, key, s
  <2>2. r.made = << >> <=> Deploys(Impl(key), s) BY <1>1 DEF LogicInv, key, s
  <2>3. s.do \in {"make", "upgrade"} BY <1>0, <1>2 DEF Proper
  <2>4. saves => Len(made) = 1
    BY <1>7, <1>10, <2>2, <2>3 DEF Deploys
  <2>5. saves \/ f[Impl(key)] = made[1]
    <3>1. CASE r.made = << >> BY <1>10, <2>2, <3>1 DEF Deploys
    <3>2. CASE r.made # << >> BY <1>6, <1>7, <2>1, <3>2
    <3> QED BY <3>1, <3>2
  <2>6. u.do # "upgrade" BY <1>0, <1>10
  <2>7. r.made # << >> => made[1] = r.made[1] BY <1>6, <1>7
  <2>8. \/ ProxyToCome(t) \/ Upgrading(l, q, f, t)
        \/ Deploying(l, q, t) \/ Deployed(l, q, f, t)
    <3>1. CASE s.do = "upgrade"
      <4>1. r.made # << >> /\ u.do = "wait" BY <1>3, <1>10, <3>1
      <4>2. IsKind(l, f[key], key) BY <1>2, <2>1, <3>1 DEF Founded
      <4>3. tx = Message("upgrade", f[key], made[1], r.admin) BY <1>11, <2>1, <2>7, <3>1, <4>1
      <4> QED BY <1>2, <4>1, <4>2, <4>3 DEF Upgrading, u, key
    <3>2. CASE s.do = "make" /\ s.x = key
      <4>1. ~Deploys(Impl(key), s) BY <3>2, Names DEF Deploys
      <4>2. r.made # << >> BY <1>3, <4>1
      <4>3. tx = Message(key, 0, made[1], r.admin) BY <1>11, <2>7, <3>2, <4>2
      <4>4. u.do # "note"
        <5>1. u.do = "note" => u.x \in Impls BY <1>2 DEF Steps
        <5> QED BY <1>10, <3>2, <5>1, Names
      <4>5. u.do = "record" /\ u.x = key BY <1>10, <3>2, <4>4
      <4>6. \A v \in Range(t.todo) : Closes(key, v) BY <1>2, <3>2 DEF Deploys
      <4> QED BY <1>2, <4>3, <4>5, <4>6 DEF Deploying, u, key
    <3>3. CASE s.do = "make" /\ s.x # key
      <4>1. ~Upgrading(l, p, f, r) /\ ~Deploying(l, p, r)
        BY <3>3 DEF Upgrading, Deploying, s
      <4>2. ~Deployed(l, p, f, r) BY <1>2, <3>3 DEF Deployed, Closes
      <4>3. ProxyToCome(r) BY <2>1, <4>1, <4>2
      <4> QED BY <1>2, <3>3, <4>3 DEF ProxyToCome, Deploys, key
    <3> QED BY <2>3, <3>1, <3>2, <3>3
  <2> QED BY <1>2, <2>1, <2>4, <2>5, <2>6, <2>8 DEF KeyInv, u
<1>15. ReceiverInv(l, q, f, t)
  <2> SUFFICES ASSUME r.name = Receiver PROVE ReceiverInv(l, q, f, t)
    BY <1>2 DEF ReceiverInv
  <2>1. CASE s.do = "make"
    <3>1. s.x = ReceiverV2 /\ tx.op = ReceiverV2 /\ u.do = "record"
      BY <1>2, <1>10, <1>11, <2>1 DEF Proper
    <3> QED BY <1>2, <3>1 DEF ReceiverInv, u
  <2>2. CASE s.do # "make"
    <3>1. s.do = "initialize" /\ u.do = "wait" BY <1>0, <1>2, <1>10, <2>2 DEF Proper
    <3>2. f[ReceiverV2] = LatestOf(r) /\ IsKind(l, LatestOf(r), ReceiverV2)
      BY <1>1, <3>1 DEF ReceiverInv, s
    <3>3. LatestOf(t) = LatestOf(r) BY <1>2, <1>6, <2>2 DEF LatestOf
    <3>4. tx.op = "initialize" /\ tx.to = LatestOf(r) BY <1>11, <3>1
    <3> QED BY <1>2, <3>1, <3>2, <3>3, <3>4 DEF ReceiverInv, u
  <2> QED BY <2>1, <2>2
<1>16. MockInv(l, f, t)
  <2> SUFFICES ASSUME r.name \in Mocks PROVE MockInv(l, f, t)
    BY <1>2 DEF MockInv
  <2>1. s.do = "make" BY <1>0, <1>2 DEF Proper
  <2>2. LatestOf(t) = n BY <1>7, <1>9, <2>1
  <2>3. \A a \in Symbols : f[a] # n
    <3>1. n \notin DOMAIN l BY <1>5
    <3> QED BY <1>5, <3>1 DEF SymbolsInv
  <2>4. \A a \in Symbols : f[a] # 0 \/ SymbolToCome(r, a) BY <1>1 DEF MockInv
  <2>5. \A a \in Symbols : SymbolToCome(r, a) => SymbolToCome(t, a)
    BY <1>2, <2>1 DEF SymbolToCome
  <2> QED BY <1>2, <2>2, <2>3, <2>4, <2>5 DEF MockInv, u
<1> QED BY <1>2, <1>12, <1>13, <1>14, <1>15, <1>16 DEF RunInv, key

\* A collection that is in the file is passed over.
LEMMA SkipIs ==
  ASSUME NEW names, NEW flags, NEW r \in Runs(names, flags), r # NoRun, r.todo # << >>,
         NEW l, NEW p, NEW f, RunInv(l, p, f, r),
         StepOf(r).do = "unlessThere", f[StepOf(r).x] # 0,
         NEW n, n = BlockLength(r.verify)
  PROVE  /\ n \in Nat /\ n <= Len(r.todo) /\ r.name \in Mocks /\ r.awaited = "nothing"
         /\ n < Len(r.todo) => r.todo[n + 1].do = "unlessThere"
         /\ \A a \in Symbols :
              f[a] # 0 \/ \E j \in DOMAIN r.todo : j > n /\ r.todo[j].do = "record" /\ r.todo[j].x = a
<1> DEFINE d == r.todo
           s == StepOf(r)
<1>1. /\ WaitInv(l, p, r) /\ MockInv(l, f, r) /\ Fits(l, r.name, r.verify, d)
  BY DEF RunInv
<1>2. s \in Steps /\ s \in Range(d) BY StepIs
<1>3. d \in Seq(Steps) /\ d # << >> BY DEF Runs
<1>4. Len(d) \in Nat /\ DOMAIN d = 1..Len(d) /\ Len(d) # 0 /\ Head(d) = d[1] BY <1>3
<1>5. s = d[1] BY <1>4 DEF StepOf
<1>6. ~Looks(d) BY <1>2 DEF Looks
<1>7. Proper(r.name, s) BY <1>1, <1>6, StepFits
<1>8. r.name \in Mocks BY <1>7 DEF Proper
<1>9. r.awaited = "nothing" BY <1>1 DEF WaitInv
<1>10. n \in Nat /\ n >= 1 BY DEF BlockLength
<1>11. Blocks(r.verify, d) BY <1>1, <1>6 DEF Fits
<1>12. s.do = "unlessThere" OBVIOUS
<1> HIDE DEF d, s
<1>13. 1 \in DOMAIN d BY <1>4
<1>14. /\ 1 + n <= Len(d) + 1
       /\ 1 + n <= Len(d) => d[1 + n].do = "unlessThere"
       /\ \A j \in 1..(1 + n - 1) :
            d[j].do = "record" /\ d[j].x \in Symbols => d[j].x = d[1].x
  BY <1>5, <1>11, <1>12, <1>13 DEF Blocks
<1>15. n <= Len(d) /\ (n < Len(d) => d[n + 1].do = "unlessThere")
  BY <1>4, <1>10, <1>14
<1>16. ASSUME NEW a \in Symbols, f[a] = 0
       PROVE  \E j \in DOMAIN d : j > n /\ d[j].do = "record" /\ d[j].x = a
  <2>1. \E m \in Range(d) : m.do = "record" /\ m.x = a
    BY <1>1, <1>8, <1>16 DEF MockInv, SymbolToCome, d
  <2>2. PICK j \in DOMAIN d : d[j].do = "record" /\ d[j].x = a BY <2>1 DEF Range
  <2>3. a # s.x BY <1>16 DEF s
  <2>4. ~(j <= n)
    <3>1. j <= n => j \in 1..(1 + n - 1) BY <1>4, <1>10
    <3> QED BY <1>5, <1>14, <2>2, <2>3, <3>1
  <2> QED BY <1>4, <1>10, <2>2, <2>4
<1> QED BY <1>8, <1>9, <1>10, <1>15, <1>16 DEF d

\* The run t after n steps of the run r were passed over.
Skips(r, t, n) ==
  /\ t.name = r.name /\ t.todo = Beyond(r.todo, n) /\ t.key = r.key
  /\ t.made = r.made /\ t.verify = r.verify /\ t.awaited = r.awaited

LEMMA SkipOn ==
  ASSUME NEW names, NEW flags, NEW r \in Runs(names, flags), r # NoRun, r.todo # << >>,
         NEW l, NEW p, NEW f, RunInv(l, p, f, r),
         StepOf(r).do = "unlessThere", f[StepOf(r).x] # 0,
         NEW n, n = BlockLength(r.verify), n < Len(r.todo), NEW t, Skips(r, t, n)
  PROVE  RunInv(l, p, f, t) /\ t.todo \in Seq(Steps) /\ t.todo # << >> /\ t # NoRun
<1>0. /\ t.name = r.name /\ t.todo = Beyond(r.todo, n) /\ t.key = r.key
      /\ t.made = r.made /\ t.verify = r.verify /\ t.awaited = r.awaited
  BY DEF Skips
<1> DEFINE d == r.todo
           e == t.todo
<1>1. /\ n \in Nat /\ r.name \in Mocks /\ r.awaited = "nothing"
      /\ r.todo[n + 1].do = "unlessThere"
      /\ \A a \in Symbols :
           f[a] # 0 \/ \E j \in DOMAIN r.todo : j > n /\ r.todo[j].do = "record" /\ r.todo[j].x = a
  BY SkipIs
<1>2. /\ MockInv(l, f, r) /\ Fits(l, r.name, r.verify, d) /\ r.key = KeyOf(r.name)
  BY DEF RunInv
<1>3. d \in Seq(Steps) /\ n < Len(d) /\ e = Beyond(d, n) BY <1>0 DEF Runs
<1>4. Len(d) \in Nat /\ DOMAIN d = 1..Len(d) BY <1>3
<1>5. /\ d[n + 1].do = "unlessThere"
      /\ \A a \in Symbols :
           f[a] # 0 \/ \E j \in DOMAIN d : j > n /\ d[j].do = "record" /\ d[j].x = a
  BY <1>1
<1> HIDE DEF d, e
<1>6. /\ e \in Seq(Steps) /\ e # << >> /\ Len(e) = Len(d) - n
      /\ \A k \in DOMAIN e : e[k] = d[n + k] /\ n + k \in DOMAIN d
      /\ Fits(l, r.name, r.verify, e)
  BY <1>1, <1>2, <1>3, Suffix
<1>7. DOMAIN e = 1..Len(e) /\ Len(e) \in Nat /\ Len(e) # 0 /\ Head(e) = e[1]
  BY <1>6
<1>8. 1 \in DOMAIN e /\ e[1] = d[n + 1] BY <1>6, <1>7
<1>9. StepOf(t).do = "unlessThere" BY <1>5, <1>7, <1>8 DEF StepOf, e
<1>10. t # NoRun BY <1>0, <1>6, IdleIs DEF e
<1>11. r.key = "call" /\ r.name # Receiver /\ "call" \notin ProxyKeys BY <1>1, <1>2, TaskNames
<1>12. WaitInv(l, p, t) BY <1>0, <1>1, <1>9 DEF WaitInv
<1>13. LogicInv(l, p, t) /\ KeyInv(l, p, f, t) /\ ReceiverInv(l, p, f, t)
  BY <1>0, <1>11 DEF LogicInv, KeyInv, ReceiverInv
<1>14. MockInv(l, f, t)
  <2>1. ASSUME NEW a \in Symbols, f[a] = 0 PROVE SymbolToCome(t, a)
    <3>1. PICK j \in DOMAIN d : j > n /\ d[j].do = "record" /\ d[j].x = a BY <1>5, <2>1
    <3>2. j - n \in DOMAIN e /\ n + (j - n) = j BY <1>1, <1>4, <1>6, <1>7, <3>1
    <3>3. e[j - n] = d[j] BY <1>6, <3>2
    <3>4. e[j - n] \in Range(e) BY <3>2 DEF Range
    <3> QED BY <3>1, <3>3, <3>4 DEF SymbolToCome, e
  <2> QED BY <1>9, <2>1 DEF MockInv
<1> QED BY <1>0, <1>2, <1>6, <1>10, <1>12, <1>13, <1>14 DEF RunInv, e

\* The file g after the last step of a task, or any other.
Leaves(r, f, g) ==
  LET s == StepOf(r) IN
  \/ s.do \in {"find", "verify", "wait"} /\ g = f
  \/ s.do = "record" /\ Saves(f, g, s.x, LatestOf(r))
  \/ s.do = "enlist" /\ Saves(f, g, s.x[1], s.x[2])

\* What was promised is there once a task was completed.
LEMMA AtEnd ==
  ASSUME NEW names, NEW flags, NEW r \in Runs(names, flags), r # NoRun, Len(r.todo) = 1,
         NEW l \in Seq(Entry), NEW p, NEW f \in [Keys -> Nat], RunInv(l, p, f, r),
         StepOf(r).do \in {"record", "wait"} => r.awaited \in {"mined", "nothing"},
         NEW g, Leaves(r, f, g)
  PROVE  EndInv(l, p, g, r)
<1> DEFINE s == StepOf(r)
           key == r.key
<1>1. /\ WaitInv(l, p, r) /\ LogicInv(l, p, r) /\ KeyInv(l, p, f, r)
      /\ ReceiverInv(l, p, f, r) /\ MockInv(l, f, r)
  BY DEF RunInv
<1>2. /\ key = KeyOf(r.name) /\ (r.name = Receiver => key \notin ProxyKeys)
      /\ (r.name \in Mocks => key \notin ProxyKeys /\ r.name # Receiver)
      /\ s \in Steps /\ Range(r.todo) = {s}
  BY AtLast
<1>3. key \in ProxyKeys \/ r.name = Receiver \/ r.name \in Mocks =>
        ~Unfinished(r.name, s) /\ Proper(r.name, s)
  BY AtLast
<1>4. /\ s.do \in {"record", "wait"} => r.awaited \in {"mined", "nothing"}
      /\ \/ s.do \in {"find", "verify", "wait"} /\ g = f
         \/ s.do = "record" /\ Saves(f, g, s.x, LatestOf(r))
         \/ s.do = "enlist" /\ Saves(f, g, s.x[1], s.x[2])
  BY DEF Leaves
<1> HIDE DEF s, key
<1>5. ASSUME key \in ProxyKeys
      PROVE  /\ p = << >> /\ IsKind(l, g[key], key)
             /\ l[g[key]].logic = g[Impl(key)] /\ l[g[key]].admin = g[AdminOf(key)]
  <2>1. s.do \in {"record", "verify", "wait"}
    BY <1>2, <1>3, <1>5 DEF Unfinished, Proper
  <2>2. ~Deploys(key, s) /\ ~Deploys(Impl(key), s) /\ s.do # "upgrade" BY <2>1 DEF Deploys
  <2>3. ~ProxyToCome(r) BY <1>2, <2>2 DEF ProxyToCome, key
  <2>4. r.made # << >> BY <1>1, <1>5, <2>2 DEF LogicInv, key, s
  <2>5. f[AdminOf(key)] = r.admin BY <1>1, <1>5 DEF KeyInv, key
  <2>6. ~(s.do = "record" /\ s.x = Impl(key)) => f[Impl(key)] = r.made[1]
    BY <1>1, <1>5, <2>1, <2>4 DEF KeyInv, key, s
  <2>7. Upgrading(l, p, f, r) \/ Deploying(l, p, r) \/ Deployed(l, p, f, r)
    BY <1>1, <1>5, <2>3 DEF KeyInv, key
  <2>8. /\ key \in Keys /\ Impl(key) \in Keys /\ AdminOf(key) \in Keys
        /\ key # Impl(key) /\ key # AdminOf(key)
    BY <1>5, Names
  <2>9. r.awaited = "mined" => p = << >> BY <1>1 DEF WaitInv
  <2>10. CASE Upgrading(l, p, f, r)
    <3>1. s.do = "wait" BY <2>10 DEF Upgrading, s
    <3>2. r.awaited = "mined" BY <1>1, <1>4, <3>1 DEF WaitInv, s
    <3>3. Right(l, r, f[key]) BY <2>10, <3>2 DEF Upgrading, key
    <3>4. g = f BY <1>4, <3>1
    <3> QED BY <2>5, <2>6, <2>9, <3>1, <3>2, <3>3, <3>4 DEF Right, key
  <2>11. CASE Deploying(l, p, r)
    <3>1. s.do = "record" /\ s.x = key /\ r.awaited # "nothing" BY <2>11 DEF Deploying, s, key
    <3>2. r.awaited = "mined" BY <1>4, <3>1
    <3>3. Right(l, r, LatestOf(r)) BY <2>11, <3>2 DEF Deploying
    <3>4. Saves(f, g, key, LatestOf(r)) BY <1>4, <3>1
    <3>5. /\ g[key] = LatestOf(r) /\ g[Impl(key)] = f[Impl(key)]
          /\ g[AdminOf(key)] = f[AdminOf(key)]
      BY <2>8, <3>4 DEF Saves
    <3> QED BY <2>5, <2>6, <2>8, <2>9, <3>1, <3>2, <3>3, <3>5 DEF Right, key
  <2>12. CASE Deployed(l, p, f, r)
    <3>1. /\ f[key] = LatestOf(r) /\ Right(l, r, LatestOf(r)) /\ p = << >> /\ Closes(key, s)
      BY <1>2, <2>12 DEF Deployed, key
    <3>2. CASE s.do = "verify"
      <4>1. g = f BY <1>4, <3>2
      <4> QED BY <2>5, <2>6, <3>1, <3>2, <4>1 DEF Right, key
    <3>3. CASE s.do = "record" /\ s.x = key
      <4>1. Saves(f, g, key, LatestOf(r)) BY <1>4, <3>3
      <4>2. /\ g[key] = LatestOf(r) /\ g[Impl(key)] = f[Impl(key)]
            /\ g[AdminOf(key)] = f[AdminOf(key)]
        BY <2>8, <4>1 DEF Saves
      <4> QED BY <2>5, <2>6, <2>8, <3>1, <3>3, <4>2 DEF Right, key
    <3> QED BY <3>1, <3>2, <3>3 DEF Closes
  <2> QED BY <2>7, <2>10, <2>11, <2>12
<1>6. ASSUME r.name = Receiver
      PROVE  IsKind(l, g[ReceiverV2], ReceiverV2) /\ l[g[ReceiverV2]].owner = Deployer
  <2>1. s.do = "wait" BY <1>3, <1>6 DEF Unfinished
  <2>2. r.awaited = "mined" BY <1>1, <1>4, <2>1 DEF WaitInv, s
  <2>3. g = f BY <1>4, <2>1
  <2> QED BY <1>1, <1>6, <2>1, <2>2, <2>3 DEF ReceiverInv, s
<1>7. ASSUME r.name \in Mocks, NEW a \in Symbols
      PROVE  g[a] # 0
  <2>1. s.do \in {"record", "verify"} BY <1>3, <1>7 DEF Unfinished, Proper
  <2>2. f[a] # 0 \/ (s.do = "record" /\ s.x = a)
    BY <1>1, <1>2, <1>7 DEF MockInv, SymbolToCome
  <2>3. CASE s.do = "verify"
    <3>1. g = f BY <1>4, <2>3
    <3> QED BY <2>2, <2>3, <3>1
  <2>4. CASE s.do = "record"
    <3>1. LatestOf(r) \in DOMAIN l BY <1>1, <1>4, <1>7, <2>4 DEF MockInv, s
    <3>2. LatestOf(r) # 0 BY <3>1
    <3>3. Saves(f, g, s.x, LatestOf(r)) BY <1>4, <2>4
    <3>4. a \in Keys BY Names
    <3> QED BY <2>2, <3>2, <3>3, <3>4 DEF Saves
  <2> QED BY <2>1, <2>3, <2>4
<1> QED BY <1>5, <1>6, <1>7 DEF EndInv, key

\* Of a task that passes over its last collections.
LEMMA SkipEnd ==
  ASSUME NEW names, NEW flags, NEW r \in Runs(names, flags), r # NoRun, r.todo # << >>,
         NEW l, NEW p, NEW f, RunInv(l, p, f, r),
         StepOf(r).do = "unlessThere", f[StepOf(r).x] # 0,
         Len(r.todo) = BlockLength(r.verify)
  PROVE  EndInv(l, p, f, r)
<1> DEFINE n == BlockLength(r.verify)
<1>1. /\ n \in Nat /\ r.name \in Mocks
      /\ \A a \in Symbols :
           f[a] # 0 \/ \E j \in DOMAIN r.todo : j > n /\ r.todo[j].do = "record" /\ r.todo[j].x = a
  BY SkipIs
<1>2. r.key = "call" /\ r.name # Receiver /\ "call" \notin ProxyKeys
  BY <1>1, TaskNames DEF RunInv
<1>3. DOMAIN r.todo = 1..n BY StepIs
<1> HIDE DEF n
<1>4. \A a \in Symbols : f[a] # 0 BY <1>1, <1>3
<1> QED BY <1>2, <1>4 DEF EndInv

\* No address is saved under two symbols.
LEMMA SymbolSaved ==
  ASSUME NEW names, NEW flags, NEW r \in Runs(names, flags), r # NoRun, r.todo # << >>,
         NEW l \in Seq(Entry), NEW p, NEW f \in [Keys -> Nat], RunInv(l, p, f, r),
         SymbolsInv(l, f), StepOf(r).do = "record" => r.awaited \in {"mined", "nothing"},
         NEW g, Leaves(r, f, g) \/ (StepOf(r).do = "note" /\ Saves(f, g, StepOf(r).x, LatestOf(r)))
  PROVE  SymbolsInv(l, g)
<1> DEFINE s == StepOf(r)
<1>1. MockInv(l, f, r) /\ Fits(l, r.name, r.verify, r.todo) BY DEF RunInv
<1>2. s \in Steps /\ s \in Range(r.todo) BY StepIs
<1>3. s.do = "record" => r.awaited \in {"mined", "nothing"} OBVIOUS
<1>4. CASE g = f BY <1>4
<1>5. ASSUME NEW x, NEW y, Saves(f, g, x, y), x \notin Symbols
      PROVE  SymbolsInv(l, g)
  <2>1. \A a \in Symbols : g[a] = f[a] BY <1>5, Names DEF Saves
  <2> QED BY <2>1 DEF SymbolsInv
<1>6. CASE s.do = "record" /\ s.x \notin Symbols
  <2>1. Saves(f, g, s.x, LatestOf(r)) BY <1>6 DEF Leaves
  <2> QED BY <1>5, <1>6, <2>1
<1>7. CASE s.do = "record" /\ s.x \in Symbols
  <2>1. Saves(f, g, s.x, LatestOf(r)) BY <1>7 DEF Leaves
  <2>2. ~Looks(r.todo) BY <1>2, <1>7 DEF Looks
  <2>3. Proper(r.name, s) BY <1>1, <2>2, StepFits
  <2>4. r.name \in Mocks BY <1>7, <2>3 DEF Proper
  <2>5. LatestOf(r) \in DOMAIN l /\ \A a \in Symbols : f[a] # LatestOf(r)
    BY <1>1, <1>3, <1>7, <2>4 DEF MockInv
  <2> HIDE DEF s
  <2>6. g[s.x] = LatestOf(r) /\ \A a \in Symbols : a # s.x => g[a] = f[a]
    BY <2>1, Names DEF Saves
  <2> QED BY <2>5, <2>6 DEF SymbolsInv
<1>8. CASE s.do = "enlist" /\ g # f
  <2>1. s.x[1] \in ProxyKeys \cup AdminKeys BY <1>2, <1>8 DEF Steps
  <2>2. s.x[1] \notin Symbols BY <2>1, Names
  <2>3. Saves(f, g, s.x[1], s.x[2]) BY <1>8 DEF Leaves
  <2> QED BY <1>5, <2>2, <2>3
<1>9. CASE s.do = "note"
  <2>1. s.x \in Impls BY <1>2, <1>9 DEF Steps
  <2>2. s.x \notin Symbols BY <2>1, Names
  <2>3. Saves(f, g, s.x, LatestOf(r)) BY <1>9 DEF Leaves
  <2> QED BY <1>5, <2>2, <2>3
<1> QED BY <1>4, <1>6, <1>7, <1>8, <1>9 DEF Leaves

-----------------------------------------------------------------------------
\* The steps of a task.

LEMMA Next1Is ==
  ASSUME NEW names, NEW flags, run \in Runs(names, flags), run.todo # << >>,
         NEW made \in Seq(Nat), NEW awaited \in {"nothing", "sent", "mined", "reverted", "lost"},
         NEW e, e \in Runs(names, flags), e.name = run.name, e.todo = run.todo, e.key = run.key,
         e.admin = run.admin, e.made = made, e.verify = run.verify, e.awaited = awaited, Next1(e)
  PROVE  /\ Len(run.todo) = 1 => run' = NoRun /\ ended' = e
         /\ Len(run.todo) # 1 => /\ run' \in Runs(names, flags) /\ ended' = ended
                                 /\ Goes(run, run', made, awaited)
<1>1. CASE Len(run.todo) = 1 BY <1>1 DEF Next1
<1>2. CASE Len(run.todo) # 1
  <2> DEFINE d == e.todo
  <2>1. run' = [e EXCEPT !.todo = Tail(d)] /\ ended' = ended BY <1>2 DEF Next1
  <2>2. d \in Seq(Steps) /\ d # << >> /\ d = run.todo BY DEF Runs
  <2>3. Tail(d) \in Seq(Steps) BY <2>2
  <2> HIDE DEF d
  <2>4. /\ run'.name = e.name /\ run'.todo = Tail(d) /\ run'.key = e.key
        /\ run'.admin = e.admin /\ run'.made = e.made /\ run'.verify = e.verify
        /\ run'.awaited = e.awaited /\ run' \in Runs(names, flags)
    BY <2>1, <2>3 DEF Runs
  <2>5. Goes(run, run', made, awaited) BY <2>2, <2>4 DEF Goes
  <2> QED BY <1>2, <2>1, <2>4, <2>5
<1> QED BY <1>1, <1>2

LEMMA EndIdle ==
  ASSUME NEW l, NEW p, NEW f
  PROVE  EndInv(l, p, f, NoRun)
BY TaskNames DEF EndInv, NoRun, Receiver, Mocks

\* A step of a task is right if the run after it is, or what the task leaves.
LEMMA StepOK ==
  ASSUME NEW names, NEW flags, IInv(names, flags), run # NoRun,
         NEW made \in Seq(Nat), NEW awaited \in {"nothing", "sent", "mined", "reverted", "lost"},
         NEW e, e \in Runs(names, flags), e.name = run.name, e.todo = run.todo, e.key = run.key,
         e.admin = run.admin, e.made = made, e.verify = run.verify, e.awaited = awaited, Next1(e),
         ledger' = ledger, pool' \in Seq(Msgs), file' \in [Keys -> Nat], ~Verifying',
         PoolInv(ledger, pool'), SymbolsInv(ledger, file'),
         Len(run.todo) # 1 /\ Goes(run, run', made, awaited) => RunInv(ledger, pool', file', run'),
         Len(run.todo) = 1 => EndInv(ledger, pool', file', run)
  PROVE  IInv(names, flags)'
<1>1. /\ ledger \in Seq(Entry) /\ run \in Runs(names, flags) /\ ended \in Runs(names, flags)
      /\ run.todo # << >> /\ ended = NoRun /\ LedgerInv(ledger)
  BY DEF IInv, TypeInv, Inv
<1>2. NoRun \in Runs(names, flags) BY IdleIs
<1>3. CASE Len(run.todo) = 1
  <2>1. run' = NoRun /\ ended' = e BY <1>1, <1>3, Next1Is
  <2>2. EndInv(ledger, pool', file', e) BY <1>3 DEF EndInv
  <2>3. RunInv(ledger, pool', file', NoRun) BY DEF RunInv
  <2> QED BY <1>1, <1>2, <2>1, <2>2, <2>3 DEF IInv, TypeInv, Inv
<1>4. CASE Len(run.todo) # 1
  <2>1. run' \in Runs(names, flags) /\ ended' = ended /\ Goes(run, run', made, awaited)
    BY <1>1, <1>4, Next1Is
  <2>2. RunInv(ledger, pool', file', run') BY <1>4, <2>1
  <2>3. EndInv(ledger, pool', file', NoRun) BY EndIdle
  <2>4. run'.todo # << >>
    <3>1. RunInv(ledger, pool, file, run) => Fits(ledger, run.name, run.verify, run.todo)
      BY DEF RunInv
    <3>2. Fits(ledger, run.name, run.verify, run.todo) BY <3>1 DEF IInv, Inv
    <3> QED BY <1>1, <1>4, <2>1, <3>2, NextStep
  <2> QED BY <1>1, <2>1, <2>2, <2>3, <2>4 DEF IInv, TypeInv, Inv
<1> QED BY <1>3, <1>4

LEMMA RunIs ==
  ASSUME NEW names, NEW flags, IInv(names, flags), run # NoRun
  PROVE  /\ ledger \in Seq(Entry) /\ pool \in Seq(Msgs) /\ file \in [Keys -> Nat]
         /\ run \in Runs(names, flags) /\ run.todo # << >> /\ ended = NoRun
         /\ PoolInv(ledger, pool) /\ SymbolsInv(ledger, file) /\ RunInv(ledger, pool, file, run)
         /\ run.made \in Seq(Nat) /\ Current = StepOf(run) /\ Current \in Steps
         /\ run.awaited \in {"nothing", "sent", "mined", "reverted", "lost"}
         /\ Current.do \in {"note", "record", "initialize"} =>
              Latest = LatestOf(run) /\ Latest \in Nat /\ run.made # << >>
<1>1. /\ ledger \in Seq(Entry) /\ pool \in Seq(Msgs) /\ file \in [Keys -> Nat]
      /\ run \in Runs(names, flags) /\ run.todo # << >> /\ ended = NoRun
      /\ PoolInv(ledger, pool) /\ SymbolsInv(ledger, file) /\ RunInv(ledger, pool, file, run)
  BY DEF IInv, TypeInv, Inv
<1>2. /\ run.made \in Seq(Nat) /\ run.awaited \in {"nothing", "sent", "mined", "reverted", "lost"}
  BY <1>1 DEF Runs
<1>3. StepOf(run) \in Steps /\ (run.made # << >> => LatestOf(run) \in Nat) BY <1>1, StepIs
<1>4. Current = StepOf(run) /\ Latest = LatestOf(run)
  BY DEF Current, StepOf, Latest, LatestOf, Last1
<1>5. StepOf(run).do \in {"note", "record", "initialize"} => run.made # << >>
  BY <1>1 DEF RunInv, WaitInv
<1> QED BY <1>1, <1>2, <1>3, <1>4, <1>5

LEMMA WaitOK ==
  ASSUME NEW names, NEW flags, IInv(names, flags), wait
  PROVE  IInv(names, flags)'
<1>1. run # NoRun /\ ~Verifying BY DEF wait, Doing
<1>2. /\ ledger \in Seq(Entry) /\ pool \in Seq(Msgs) /\ file \in [Keys -> Nat]
      /\ run \in Runs(names, flags) /\ run.todo # << >>
      /\ PoolInv(ledger, pool) /\ SymbolsInv(ledger, file) /\ RunInv(ledger, pool, file, run)
      /\ run.made \in Seq(Nat) /\ Current = StepOf(run)
  BY <1>1, RunIs
<1>3. /\ ledger' = ledger /\ pool' = pool /\ file' = file /\ attempt' = attempt
      /\ StepOf(run).do = "wait" /\ run.awaited \in {"mined", "nothing"}
  BY <1>2 DEF wait, Doing, Through
<1> DEFINE e == [run EXCEPT !.awaited = "nothing"]
<1>4. Next1(e) BY DEF wait
<1>5. /\ e \in Runs(names, flags) /\ e.name = run.name /\ e.todo = run.todo /\ e.key = run.key
      /\ e.admin = run.admin /\ e.made = run.made /\ e.verify = run.verify
      /\ e.awaited = "nothing"
  BY <1>2 DEF Runs
<1> HIDE DEF e
<1>6. ASSUME Len(run.todo) # 1, Goes(run, run', run.made, "nothing")
      PROVE  RunInv(ledger, pool', file', run')
  <2>1. StepOf(run).do \notin {"find", "verify"} BY <1>3
  <2>2. Follows(run.name, StepOf(run), StepOf(run')) BY <1>1, <1>2, <1>6, <2>1, Working
  <2> QED BY <1>3, <2>2 DEF Follows
<1>7. ASSUME Len(run.todo) = 1 PROVE EndInv(ledger, pool', file', run)
  <2>1. Leaves(run, file, file) BY <1>3 DEF Leaves
  <2> QED BY <1>1, <1>2, <1>3, <1>7, <2>1, AtEnd
<1>8. ~Verifying' BY <1>1, <1>3 DEF Verifying
<1> QED BY <1>1, <1>2, <1>3, <1>4, <1>5, <1>6, <1>7, <1>8, StepOK

LEMMA RecordOK ==
  ASSUME NEW names, NEW flags, IInv(names, flags), record
  PROVE  IInv(names, flags)'
<1>1. run # NoRun /\ ~Verifying BY DEF record, Doing
<1>2. /\ ledger \in Seq(Entry) /\ pool \in Seq(Msgs) /\ file \in [Keys -> Nat]
      /\ run \in Runs(names, flags) /\ run.todo # << >>
      /\ PoolInv(ledger, pool) /\ SymbolsInv(ledger, file) /\ RunInv(ledger, pool, file, run)
      /\ run.made \in Seq(Nat) /\ Current = StepOf(run) /\ Current \in Steps
      /\ Current.do \in {"note", "record", "initialize"} =>
           Latest = LatestOf(run) /\ Latest \in Nat /\ run.made # << >>
  BY <1>1, RunIs
<1>3. /\ ledger' = ledger /\ pool' = pool /\ attempt' = attempt
      /\ StepOf(run).do = "record" /\ run.awaited \in {"mined", "nothing"}
      /\ file' = [file EXCEPT ![StepOf(run).x] = LatestOf(run)]
  BY <1>2 DEF record, Doing, Through
<1>4. StepOf(run).x \in Keys /\ LatestOf(run) \in Nat BY <1>2, <1>3 DEF Steps
<1>5. file' \in [Keys -> Nat] /\ Saves(file, file', StepOf(run).x, LatestOf(run))
  BY <1>2, <1>3, <1>4, SavesIs
<1> DEFINE e == [run EXCEPT !.awaited = "nothing"]
<1>6. Next1(e) BY DEF record
<1>7. /\ e \in Runs(names, flags) /\ e.name = run.name /\ e.todo = run.todo /\ e.key = run.key
      /\ e.admin = run.admin /\ e.made = run.made /\ e.verify = run.verify
      /\ e.awaited = "nothing"
  BY <1>2 DEF Runs
<1> HIDE DEF e
<1>8. Leaves(run, file, file') BY <1>3, <1>5 DEF Leaves
<1>9. SymbolsInv(ledger, file') BY <1>1, <1>2, <1>3, <1>8, SymbolSaved
<1>10. ASSUME Len(run.todo) # 1, Goes(run, run', run.made, "nothing")
       PROVE  RunInv(ledger, pool', file', run')
  <2>1. RunInv(ledger, pool, file', run')
    BY <1>1, <1>2, <1>3, <1>5, <1>10, RecordOn
  <2> QED BY <1>3, <2>1
<1>11. ASSUME Len(run.todo) = 1 PROVE EndInv(ledger, pool', file', run)
  BY <1>1, <1>2, <1>3, <1>8, <1>11, AtEnd
<1>12. ~Verifying' BY <1>1, <1>3 DEF Verifying
<1> QED BY <1>1, <1>2, <1>3, <1>5, <1>6, <1>7, <1>9, <1>10, <1>11, <1>12, StepOK

LEMMA NoteOK ==
  ASSUME NEW names, NEW flags, IInv(names, flags), note
  PROVE  IInv(names, flags)'
<1>1. run # NoRun /\ ~Verifying BY DEF note, Doing
<1>2. /\ ledger \in Seq(Entry) /\ pool \in Seq(Msgs) /\ file \in [Keys -> Nat]
      /\ run \in Runs(names, flags) /\ run.todo # << >>
      /\ PoolInv(ledger, pool) /\ SymbolsInv(ledger, file) /\ RunInv(ledger, pool, file, run)
      /\ run.made \in Seq(Nat) /\ Current = StepOf(run) /\ Current \in Steps
      /\ run.awaited \in {"nothing", "sent", "mined", "reverted", "lost"}
      /\ Current.do \in {"note", "record", "initialize"} =>
           Latest = LatestOf(run) /\ Latest \in Nat /\ run.made # << >>
  BY <1>1, RunIs
<1>3. /\ ledger' = ledger /\ pool' = pool /\ attempt' = attempt
      /\ StepOf(run).do = "note" /\ Next1(run)
      /\ file' = [file EXCEPT ![StepOf(run).x] = LatestOf(run)]
  BY <1>2 DEF note, Doing
<1>4. StepOf(run).x \in Keys /\ LatestOf(run) \in Nat BY <1>2, <1>3, Names DEF Steps
<1>5. file' \in [Keys -> Nat] /\ Saves(file, file', StepOf(run).x, LatestOf(run))
  BY <1>2, <1>3, <1>4, SavesIs
<1>6. SymbolsInv(ledger, file') BY <1>1, <1>2, <1>3, <1>5, SymbolSaved
<1>7. ASSUME Len(run.todo) # 1, Goes(run, run', run.made, run.awaited)
      PROVE  RunInv(ledger, pool', file', run')
  <2>1. RunInv(ledger, pool, file', run') BY <1>1, <1>2, <1>3, <1>5, <1>7, NoteOn
  <2> QED BY <1>3, <2>1
<1>8. Len(run.todo) # 1
  <2> SUFFICES ASSUME Len(run.todo) = 1 PROVE FALSE OBVIOUS
  <2>1. Looks(run.todo) => StepOf(run).do \in {"find", "verify"} BY <1>1, <1>2, AtLast
  <2>2. ~Unfinished(run.name, StepOf(run)) BY <1>1, <1>2, <1>3, <2>1, AtLast
  <2> QED BY <1>3, <2>2 DEF Unfinished
<1>9. ~Verifying' BY <1>1, <1>3 DEF Verifying
<1> QED BY <1>1, <1>2, <1>3, <1>5, <1>6, <1>7, <1>8, <1>9, StepOK

LEMMA EnlistOK ==
  ASSUME NEW names, NEW flags, IInv(names, flags), enlist
  PROVE  IInv(names, flags)'
<1>1. run # NoRun /\ ~Verifying BY DEF enlist, Doing
<1>2. /\ ledger \in Seq(Entry) /\ pool \in Seq(Msgs) /\ file \in [Keys -> Nat]
      /\ run \in Runs(names, flags) /\ run.todo # << >>
      /\ PoolInv(ledger, pool) /\ SymbolsInv(ledger, file) /\ RunInv(ledger, pool, file, run)
      /\ run.made \in Seq(Nat) /\ Current = StepOf(run) /\ Current \in Steps
      /\ run.awaited \in {"nothing", "sent", "mined", "reverted", "lost"}
  BY <1>1, RunIs
<1> DEFINE x == StepOf(run).x[1]
           y == StepOf(run).x[2]
<1>3. /\ ledger' = ledger /\ pool' = pool /\ attempt' = attempt
      /\ StepOf(run).do = "enlist" /\ Next1(run) /\ file' = [file EXCEPT ![x] = y]
  BY <1>2 DEF enlist, Doing
<1>4. StepOf(run).x \in (ProxyKeys \cup AdminKeys) \X Nat BY <1>2, <1>3 DEF Steps
<1>5. x \in Keys /\ y \in Nat BY <1>4, Names
<1> HIDE DEF x, y
<1>6. file' \in [Keys -> Nat] /\ Saves(file, file', x, y)
  BY <1>2, <1>3, <1>5, SavesIs
<1>7. Leaves(run, file, file') BY <1>3, <1>6 DEF Leaves, x, y
<1>8. SymbolsInv(ledger, file') BY <1>1, <1>2, <1>3, <1>7, SymbolSaved
<1>9. ASSUME Len(run.todo) # 1, Goes(run, run', run.made, run.awaited)
      PROVE  RunInv(ledger, pool', file', run')
  <2>1. Saves(file, file', StepOf(run).x[1], StepOf(run).x[2]) BY <1>6 DEF x, y
  <2>2. RunInv(ledger, pool, file', run') BY <1>1, <1>2, <1>3, <1>9, <2>1, EnlistOn
  <2> QED BY <1>3, <2>2
<1>10. ASSUME Len(run.todo) = 1 PROVE EndInv(ledger, pool', file', run)
  BY <1>1, <1>2, <1>3, <1>7, <1>10, AtEnd
<1>11. ~Verifying' BY <1>1, <1>3 DEF Verifying
<1> QED BY <1>1, <1>2, <1>3, <1>6, <1>8, <1>9, <1>10, <1>11, StepOK

LEMMA FindOK ==
  ASSUME NEW names, NEW flags, IInv(names, flags), find
  PROVE  IInv(names, flags)'
<1>1. run # NoRun /\ ~Verifying BY DEF find, Doing
<1>2. /\ ledger \in Seq(Entry) /\ pool \in Seq(Msgs) /\ file \in [Keys -> Nat]
      /\ run \in Runs(names, flags) /\ run.todo # << >>
      /\ PoolInv(ledger, pool) /\ SymbolsInv(ledger, file) /\ RunInv(ledger, pool, file, run)
      /\ run.made \in Seq(Nat) /\ Current = StepOf(run)
      /\ run.awaited \in {"nothing", "sent", "mined", "reverted", "lost"}
  BY <1>1, RunIs
<1>3. /\ ledger' = ledger /\ pool' = pool /\ file' = file /\ attempt' = attempt
      /\ StepOf(run).do = "find" /\ Next1(run)
  BY <1>2 DEF find, Doing
<1>4. ASSUME Len(run.todo) # 1, Goes(run, run', run.made, run.awaited)
      PROVE  RunInv(ledger, pool', file', run')
  <2>1. RunInv(ledger, pool, file, run') BY <1>1, <1>2, <1>3, <1>4, PassOn
  <2> QED BY <1>3, <2>1
<1>5. ASSUME Len(run.todo) = 1 PROVE EndInv(ledger, pool', file', run)
  <2>1. Leaves(run, file, file) BY <1>3 DEF Leaves
  <2> QED BY <1>1, <1>2, <1>3, <1>5, <2>1, AtEnd
<1>6. ~Verifying' BY <1>1, <1>3 DEF Verifying
<1> QED BY <1>1, <1>2, <1>3, <1>4, <1>5, <1>6, StepOK

LEMMA VerifyOK ==
  ASSUME NEW names, NEW flags, IInv(names, flags), verify
  PROVE  IInv(names, flags)'
<1>1. /\ run # NoRun /\ Current.do = "verify"
      /\ ledger' = ledger /\ pool' = pool /\ file' = file /\ run' = run /\ ended' = ended
  BY DEF verify, Doing
<1>2. Current' = Current BY <1>1 DEF Current
<1> QED BY <1>1, <1>2 DEF IInv, TypeInv, Inv

LEMMA SubmitOK ==
  ASSUME NEW names, NEW flags, IInv(names, flags), submit
  PROVE  IInv(names, flags)'
<1>1. run # NoRun /\ ledger' = ledger /\ pool' = pool /\ file' = file BY DEF submit
<1>2. /\ ledger \in Seq(Entry) /\ pool \in Seq(Msgs) /\ file \in [Keys -> Nat]
      /\ run \in Runs(names, flags) /\ run.todo # << >>
      /\ PoolInv(ledger, pool) /\ SymbolsInv(ledger, file) /\ RunInv(ledger, pool, file, run)
      /\ run.made \in Seq(Nat) /\ Current = StepOf(run)
      /\ run.awaited \in {"nothing", "sent", "mined", "reverted", "lost"}
  BY <1>1, RunIs
<1>3. Verifying
  <2>1. (\E answer \in Retried : retry(answer)) \/ (\E answer \in Final : resume(answer))
    BY DEF submit
  <2>2. \A answer : retry(answer) => Verifying BY DEF retry
  <2>3. \A answer : resume(answer) => Verifying BY DEF resume
  <2> QED BY <2>1, <2>2, <2>3
<1>4. StepOf(run).do = "verify" BY <1>2, <1>3 DEF IInv, TypeInv
<1>5. CASE \E answer \in Retried : retry(answer) /\ UNCHANGED <<run, ended>>
  <2>1. run' = run /\ ended' = ended BY <1>5
  <2>2. Current' = Current BY <2>1 DEF Current
  <2> QED BY <1>1, <1>3, <2>1, <2>2 DEF IInv, TypeInv, Inv
<1>6. CASE \E answer \in Final : resume(answer) /\ Next1(run)
  <2>1. Next1(run) /\ attempt' = NotVerifying BY <1>6 DEF resume
  <2>2. ~Verifying' BY <2>1 DEF Verifying, NotVerifying
  <2>3. ASSUME Len(run.todo) # 1, Goes(run, run', run.made, run.awaited)
        PROVE  RunInv(ledger, pool', file', run')
    <3>1. RunInv(ledger, pool, file, run') BY <1>1, <1>2, <1>4, <2>3, PassOn
    <3> QED BY <1>1, <3>1
  <2>4. ASSUME Len(run.todo) = 1 PROVE EndInv(ledger, pool', file', run)
    <3>1. Leaves(run, file, file) BY <1>4 DEF Leaves
    <3> QED BY <1>1, <1>2, <1>4, <2>4, <3>1, AtEnd
  <2> QED BY <1>1, <1>2, <2>1, <2>2, <2>3, <2>4, StepOK
<1> QED BY <1>5, <1>6 DEF submit

LEMMA SendOK ==
  ASSUME NEW names, NEW flags, IInv(names, flags), transact
  PROVE  IInv(names, flags)'
<1>1. run # NoRun /\ ~Verifying BY DEF transact
<1>2. /\ ledger \in Seq(Entry) /\ pool \in Seq(Msgs) /\ file \in [Keys -> Nat]
      /\ run \in Runs(names, flags) /\ run.todo # << >>
      /\ PoolInv(ledger, pool) /\ SymbolsInv(ledger, file) /\ RunInv(ledger, pool, file, run)
      /\ run.made \in Seq(Nat) /\ Current = StepOf(run)
      /\ Current.do \in {"note", "record", "initialize"} => Latest = LatestOf(run)
  BY <1>1, RunIs
<1> DEFINE tx == Sending
           n == Len(ledger) + Len(pool) + 1
           made == IF StepOf(run).do = "make" THEN Append(run.made, n) ELSE run.made
           e == [run EXCEPT !.awaited = "sent", !.made = made]
<1>3. /\ ledger' = ledger /\ file' = file /\ attempt' = attempt
      /\ StepOf(run).do \in Transactions /\ pool' = Append(pool, tx) /\ Next1(e)
  BY <1>2 DEF transact
<1>4. n \in Nat BY <1>2
<1>5. Sends(run, tx)
  <2>1. StepOf(run).do \in {"make", "upgrade", "initialize"} BY <1>3 DEF Transactions
  <2>2. CASE StepOf(run).do = "make" BY <1>2, <2>2 DEF Sends, Sending, Logic
  <2>3. CASE StepOf(run).do = "upgrade" BY <1>2, <2>3 DEF Sends, Sending, Logic
  <2>4. CASE StepOf(run).do = "initialize" BY <1>2, <2>4 DEF Sends, Sending
  <2> QED BY <2>1, <2>2, <2>3, <2>4
<1> HIDE DEF tx, n
<1>6. made \in Seq(Nat) BY <1>2, <1>4
<1>7. Makes(run, made, n) BY DEF Makes, Grows
<1> HIDE DEF made
<1>8. /\ e \in Runs(names, flags) /\ e.name = run.name /\ e.todo = run.todo /\ e.key = run.key
      /\ e.admin = run.admin /\ e.made = made /\ e.verify = run.verify /\ e.awaited = "sent"
  BY <1>2, <1>6 DEF Runs
<1> HIDE DEF e
<1>9. tx \in Msgs /\ Sound(ledger, tx) BY <1>1, <1>2, <1>3, <1>5, SentSound
<1>10. /\ pool' \in Seq(Msgs) /\ Len(pool') = Len(pool) + 1 /\ pool'[Len(pool) + 1] = tx
       /\ \A k \in 1..Len(pool) : pool'[k] = pool[k]
  BY <1>2, <1>3, <1>9, AppendProperties
<1>11. pool' # << >> /\ Last1(pool') = tx
  <2>1. Len(pool') # 0 BY <1>2, <1>10
  <2>2. pool' # << >> BY <1>10, <2>1
  <2> QED BY <1>10, <2>2 DEF Last1
<1>12. PoolInv(ledger, pool')
  <2> SUFFICES ASSUME NEW k \in DOMAIN pool' PROVE Sound(ledger, pool'[k]) BY DEF PoolInv
  <2>1. DOMAIN pool' = 1..(Len(pool) + 1) /\ DOMAIN pool = 1..Len(pool) /\ Len(pool) \in Nat
    BY <1>2, <1>10
  <2>2. CASE k = Len(pool) + 1 BY <1>9, <1>10, <2>2
  <2>3. CASE k \in 1..Len(pool) BY <1>2, <1>10, <2>1, <2>3 DEF PoolInv
  <2> QED BY <2>1, <2>2, <2>3
<1>13. ASSUME Len(run.todo) # 1, Goes(run, run', made, "sent")
       PROVE  RunInv(ledger, pool', file', run')
  <2>1. RunInv(ledger, pool', file, run')
    <3>1. Makes(run, made, Len(ledger) + Len(pool) + 1) BY <1>7 DEF n
    <3> QED BY <1>1, <1>2, <1>3, <1>5, <1>10, <1>11, <1>13, <3>1, SendOn
  <2> QED BY <1>3, <2>1
<1>14. Len(run.todo) # 1
  <2> SUFFICES ASSUME Len(run.todo) = 1 PROVE FALSE OBVIOUS
  <2>1. StepOf(run).do \in {"make", "upgrade", "initialize"} BY <1>3 DEF Transactions
  <2>2. Looks(run.todo) => StepOf(run).do \in {"find", "verify"} BY <1>1, <1>2, AtLast
  <2>3. ~Looks(run.todo) BY <2>1, <2>2
  <2>4. ~Unfinished(run.name, StepOf(run)) BY <1>1, <1>2, <2>3, AtLast
  <2> QED BY <2>1, <2>4 DEF Unfinished
<1>15. ~Verifying' BY <1>1, <1>3 DEF Verifying
<1>16. file' \in [Keys -> Nat] /\ SymbolsInv(ledger, file') BY <1>2, <1>3
<1> QED BY <1>1, <1>3, <1>6, <1>8, <1>10, <1>12, <1>13, <1>14, <1>15, <1>16, StepOK

LEMMA AddNftLength ==
  ASSUME NEW s, NEW flag
  PROVE  Len(AddNft(s, flag)) = BlockLength(flag)
<1> DEFINE p == <<Move("make", "MintableERC721"), Move("record", "MintableERC721")>>
           q == Verified(flag)
           a == <<Move("unlessThere", s)>>
           b == <<Move("record", s)>>
<1>1. AddNft(s, flag) = a \o (p \o q) \o b BY DEF AddNft, Plain
<1>2. CASE flag = "no"
  <2>1. q = << >> BY <1>2 DEF Verified
  <2> QED BY <1>1, <1>2, <2>1 DEF BlockLength
<1>3. CASE flag # "no"
  <2>1. q = <<Move("verify", None)>> BY <1>3 DEF Verified
  <2> QED BY <1>1, <1>3, <2>1 DEF BlockLength
<1> QED BY <1>2, <1>3

LEMMA UnlessOK ==
  ASSUME NEW names, NEW flags, IInv(names, flags), unlessThere
  PROVE  IInv(names, flags)'
<1>1. run # NoRun /\ ~Verifying BY DEF unlessThere, Doing
<1>2. /\ ledger \in Seq(Entry) /\ pool \in Seq(Msgs) /\ file \in [Keys -> Nat]
      /\ run \in Runs(names, flags) /\ run.todo # << >>
      /\ PoolInv(ledger, pool) /\ SymbolsInv(ledger, file) /\ RunInv(ledger, pool, file, run)
      /\ run.made \in Seq(Nat) /\ Current = StepOf(run)
      /\ run.awaited \in {"nothing", "sent", "mined", "reverted", "lost"}
  BY <1>1, RunIs
<1> DEFINE d == run.todo
           b == BlockLength(run.verify)
           there == file[StepOf(run).x] # 0
           n == IF there THEN b ELSE 1
<1>3. /\ ledger' = ledger /\ pool' = pool /\ file' = file /\ attempt' = attempt
      /\ StepOf(run).do = "unlessThere"
      /\ Len(d) = n => run' = NoRun /\ ended' = run
      /\ Len(d) # n => run' = [run EXCEPT !.todo = SubSeq(d, n + 1, Len(d))] /\ ended' = ended
  <2>1. n = IF file[Current.x] = 0 THEN 1 ELSE Len(AddNft(Current.x, run.verify))
    BY <1>2, AddNftLength
  <2> HIDE DEF n
  <2> QED BY <1>2, <2>1 DEF unlessThere, Doing
<1>4. ~Verifying' BY <1>1, <1>3 DEF Verifying
<1>5. LedgerInv(ledger) /\ ended = NoRun /\ ended \in Runs(names, flags)
  BY <1>1 DEF IInv, TypeInv, Inv
<1>6. CASE ~there
  <2>1. n = 1 BY <1>6
  <2>2. Len(d) # 1
    <3> SUFFICES ASSUME Len(d) = 1 PROVE FALSE OBVIOUS
    <3>1. Looks(run.todo) => StepOf(run).do \in {"find", "verify"} BY <1>1, <1>2, AtLast
    <3>2. ~Unfinished(run.name, StepOf(run)) BY <1>1, <1>2, <1>3, <3>1, AtLast
    <3> QED BY <1>3, <3>2 DEF Unfinished
  <2>3. Next1(run)
    <3>1. d \in Seq(Steps) BY <1>2 DEF Runs
    <3>2. SubSeq(d, 1 + 1, Len(d)) = Tail(d) BY <1>2, <3>1
    <3>3. run' = [run EXCEPT !.todo = Tail(d)] /\ ended' = ended BY <1>3, <2>1, <2>2, <3>2
    <3> QED BY <2>2, <3>3 DEF Next1
  <2>4. ASSUME Goes(run, run', run.made, run.awaited)
        PROVE  RunInv(ledger, pool', file', run')
    <3>1. RunInv(ledger, pool, file, run') BY <1>1, <1>2, <1>3, <2>2, <2>4, PassOn
    <3> QED BY <1>3, <3>1
  <2> QED BY <1>1, <1>2, <1>3, <1>4, <2>2, <2>3, <2>4, StepOK
<1>7. CASE there
  <2>1. n = b BY <1>7
  <2>2. b \in Nat /\ b <= Len(d) BY <1>1, <1>2, <1>3, <1>7, SkipIs
  <2>3. Len(d) \in Nat BY <1>2, StepIs
  <2> HIDE DEF n, b, there, d
  <2>4. CASE Len(d) = n
    <3>1. run' = NoRun /\ ended' = run BY <1>3, <2>4
    <3>2. EndInv(ledger, pool, file, run)
      BY <1>1, <1>2, <1>3, <1>7, <2>1, <2>4, SkipEnd DEF d, b, there
    <3>3. RunInv(ledger, pool, file, NoRun) BY DEF RunInv
    <3>4. NoRun \in Runs(names, flags) BY IdleIs
    <3> QED BY <1>2, <1>3, <1>4, <1>5, <3>1, <3>2, <3>3, <3>4 DEF IInv, TypeInv, Inv
  <2>5. CASE Len(d) # n
    <3>1. run' = [run EXCEPT !.todo = Beyond(d, b)] /\ ended' = ended
      BY <1>3, <2>1, <2>5 DEF Beyond
    <3>2. b < Len(d) BY <2>1, <2>2, <2>3, <2>5
    <3>3. Beyond(d, b) \in Seq(Steps)
      <4>1. d \in Seq(Steps) BY <1>2 DEF Runs, d
      <4> QED BY <2>2, <2>3, <3>2, <4>1 DEF Beyond
    <3>4. /\ run'.name = run.name /\ run'.todo = Beyond(d, b) /\ run'.key = run.key
          /\ run'.made = run.made /\ run'.verify = run.verify /\ run'.awaited = run.awaited
          /\ run' \in Runs(names, flags)
      BY <1>2, <3>1, <3>3 DEF Runs
    <3>5. RunInv(ledger, pool, file, run') /\ run'.todo # << >>
      <4>1. b = BlockLength(run.verify) /\ b < Len(run.todo) /\ Skips(run, run', b)
        BY <3>2, <3>4 DEF Skips, b, d
      <4>2. StepOf(run).do = "unlessThere" /\ file[StepOf(run).x] # 0 BY <1>3, <1>7 DEF there
      <4> QED BY ONLY <1>1, <1>2, <4>1, <4>2, SkipOn
    <3>6. EndInv(ledger, pool, file, ended) BY <1>5, EndIdle
    <3> QED BY <1>2, <1>3, <1>4, <1>5, <3>1, <3>4, <3>5, <3>6 DEF IInv, TypeInv, Inv
  <2> QED BY <2>4, <2>5
<1> QED BY <1>6, <1>7

LEMMA FailOK ==
  ASSUME NEW names, NEW flags, IInv(names, flags), fail
  PROVE  IInv(names, flags)'
<1>1. /\ run # NoRun /\ ~Verifying /\ run' = NoRun /\ ledger' = ledger /\ pool' = pool
      /\ file' = file /\ ended' = ended /\ attempt' = attempt
  BY DEF fail
<1> QED BY <1>1, GivenUp

LEMMA StopOK ==
  ASSUME NEW names, NEW flags, IInv(names, flags), stop
  PROVE  IInv(names, flags)'
<1>1. /\ run # NoRun /\ run' = NoRun /\ ledger' = ledger /\ pool' = pool
      /\ file' = file /\ ended' = ended /\ attempt' = NotVerifying
  BY DEF stop
<1> QED BY <1>1, GivenUp

-----------------------------------------------------------------------------
\* The programs of the tasks, put together from pieces.

\* A list of steps: the first, what may be the last, some of them, and what all
\* of them are among.
Piece(name, p, first, lasts, some, all) ==
  /\ p \in Seq(Steps) /\ p # << >> /\ Linked(name, p) /\ Ordered(name, p)
  /\ p[1] = first /\ p[Len(p)] \in lasts /\ some \subseteq Range(p) /\ Range(p) \subseteq all

LEMMA OneStep ==
  ASSUME NEW name, NEW s \in Steps
  PROVE  Piece(name, <<s>>, s, {s}, {s}, {s})
<1> DEFINE p == <<s>>
<1>1. p \in Seq(Steps) /\ Len(p) = 1 /\ DOMAIN p = {1} /\ p[1] = s OBVIOUS
<1> HIDE DEF p
<1>2. p # << >> BY <1>1
<1>3. Linked(name, p) BY <1>1 DEF Linked
<1>4. Ordered(name, p) BY <1>1 DEF Ordered
<1>5. Range(p) = {s} BY <1>1 DEF Range
<1> QED BY <1>1, <1>2, <1>3, <1>4, <1>5 DEF Piece, p

LEMMA Joined ==
  ASSUME NEW name, NEW p, NEW q, NEW f, NEW g, NEW ls, NEW ms, NEW a, NEW b, NEW A, NEW B,
         Piece(name, p, f, ls, a, A), Piece(name, q, g, ms, b, B),
         \A l \in ls : Follows(name, l, g),
         KeyOf(name) \in ProxyKeys =>
           \/ \A s \in A : ~Deploys(KeyOf(name), s)
           \/ \A s \in B : Closes(KeyOf(name), s)
  PROVE  Piece(name, p \o q, f, ms, a \cup b, A \cup B)
<1> DEFINE r == p \o q
           key == KeyOf(name)
<1>1. /\ p \in Seq(Steps) /\ p # << >> /\ Linked(name, p) /\ Ordered(name, p) /\ p[1] = f
      /\ p[Len(p)] \in ls /\ a \subseteq Range(p) /\ Range(p) \subseteq A
      /\ q \in Seq(Steps) /\ q # << >> /\ Linked(name, q) /\ Ordered(name, q) /\ q[1] = g
      /\ q[Len(q)] \in ms /\ b \subseteq Range(q) /\ Range(q) \subseteq B
  BY DEF Piece
<1>2. /\ Len(p) \in Nat \ {0} /\ Len(q) \in Nat \ {0}
      /\ DOMAIN p = 1..Len(p) /\ DOMAIN q = 1..Len(q)
  BY <1>1
<1>3. /\ r \in Seq(Steps) /\ Len(r) = Len(p) + Len(q)
      /\ \A k \in 1..Len(p) : r[k] = p[k]
      /\ \A k \in 1..Len(q) : r[Len(p) + k] = q[k]
  BY <1>1
<1>4. Range(r) = Range(p) \cup Range(q)
  BY <1>1, RangeConcatenation
<1> HIDE DEF r
<1>5. r[1] = f BY <1>1, <1>2, <1>3
<1>6. r[Len(r)] \in ms BY <1>1, <1>2, <1>3
<1>7. Linked(name, r)
  <2> SUFFICES ASSUME NEW k \in 1..(Len(r) - 1) PROVE Follows(name, r[k], r[k + 1])
    BY DEF Linked
  <2>1. CASE k < Len(p)
    <3>1. k \in 1..Len(p) /\ k + 1 \in 1..Len(p) /\ k \in 1..(Len(p) - 1) BY <1>2, <2>1
    <3> QED BY <1>1, <1>3, <3>1 DEF Linked
  <2>2. CASE k = Len(p)
    <3>1. k \in 1..Len(p) /\ 1 \in 1..Len(q) BY <1>2, <2>2
    <3>2. r[k] \in ls /\ r[k + 1] = g BY <1>1, <1>3, <2>2, <3>1
    <3> QED BY <3>2
  <2>3. CASE k > Len(p)
    <3> DEFINE j == k - Len(p)
    <3>1. j \in 1..Len(q) /\ j + 1 \in 1..Len(q) /\ j \in 1..(Len(q) - 1)
          /\ k = Len(p) + j /\ k + 1 = Len(p) + (j + 1)
      BY <1>2, <1>3, <2>3
    <3> HIDE DEF j
    <3>2. r[k] = q[j] /\ r[k + 1] = q[j + 1] BY <1>3, <3>1
    <3> QED BY <1>1, <3>1, <3>2 DEF Linked
  <2>4. k \in Int /\ Len(p) \in Int BY <1>2, <1>3
  <2> QED BY <2>1, <2>2, <2>3, <2>4
<1>8. r # << >> BY <1>2, <1>3
<1>9. ASSUME NEW k \in DOMAIN r
      PROVE  \/ k \in DOMAIN p /\ r[k] = p[k]
             \/ \E j \in DOMAIN q : k = Len(p) + j /\ r[k] = q[j]
  <2>1. k \in 1..(Len(p) + Len(q)) BY <1>3
  <2>2. k \in 1..Len(p) \/ (k - Len(p) \in 1..Len(q) /\ k = Len(p) + (k - Len(p)))
    BY <1>2, <2>1
  <2> QED BY <1>2, <1>3, <2>2
<1>10. Ordered(name, r)
  <2> SUFFICES ASSUME NEW j \in DOMAIN r, NEW k \in DOMAIN r, j < k, Deploys(key, r[j]),
                      key \in ProxyKeys
               PROVE  Closes(key, r[k])
    BY DEF Ordered
  <2>1. CASE j \in DOMAIN p /\ r[j] = p[j] /\ k \in DOMAIN p /\ r[k] = p[k]
    BY <1>1, <2>1 DEF Ordered
  <2>2. CASE j \in DOMAIN p /\ r[j] = p[j] /\ \E i \in DOMAIN q : k = Len(p) + i /\ r[k] = q[i]
    <3>1. r[j] \in A /\ r[k] \in B BY <1>1, <2>2 DEF Range
    <3> QED BY <3>1
  <2>3. CASE /\ \E i \in DOMAIN q : j = Len(p) + i /\ r[j] = q[i]
             /\ \E i \in DOMAIN q : k = Len(p) + i /\ r[k] = q[i]
    <3>1. PICK i \in DOMAIN q : j = Len(p) + i /\ r[j] = q[i] BY <2>3
    <3>2. PICK h \in DOMAIN q : k = Len(p) + h /\ r[k] = q[h] BY <2>3
    <3>3. i < h BY <1>2, <3>1, <3>2
    <3> QED BY <1>1, <3>1, <3>2, <3>3 DEF Ordered
  <2>4. ~((\E i \in DOMAIN q : j = Len(p) + i) /\ k \in DOMAIN p) BY <1>2
  <2> QED BY <1>9, <2>1, <2>2, <2>3, <2>4
<1> QED BY <1>1, <1>3, <1>4, <1>5, <1>6, <1>7, <1>8, <1>10 DEF Piece, r

LEMMA MoveIs == ASSUME NEW do, NEW x PROVE Move(do, x).do = do /\ Move(do, x).x = x
BY DEF Move

LEMMA MovesAre ==
  /\ \A x \in ContractKeys : Move("make", x) \in Steps
  /\ \A x \in Impls : Move("note", x) \in Steps
  /\ \A x \in Keys, do \in {"record", "find"} : Move(do, x) \in Steps
  /\ \A x \in (ProxyKeys \cup AdminKeys) \X Nat : Move("enlist", x) \in Steps
  /\ \A x \in Nat : Move("upgrade", x) \in Steps
  /\ \A do \in {"verify", "wait", "initialize"} : Move(do, None) \in Steps
  /\ \A x \in Symbols : Move("unlessThere", x) \in Steps
BY DEF Move, Steps

TheAsk == Move("verify", None)

\* What was deployed is verified where it is asked for.
LEMMA VerifiedPiece ==
  ASSUME NEW name, NEW p, NEW f, NEW t, t.do = "record", NEW a, NEW A, NEW flag,
         Piece(name, p, f, {t}, a, A), name \notin Mocks \/ t.x \notin Symbols
  PROVE  Piece(name, p \o Verified(flag), f, {t, TheAsk}, a, A \cup {TheAsk})
<1>1. CASE flag = "no"
  <2>1. Verified(flag) = << >> BY <1>1 DEF Verified
  <2>2. p \in Seq(Steps) BY DEF Piece
  <2>3. p \o Verified(flag) = p BY <2>1, <2>2
  <2> QED BY <2>3 DEF Piece
<1>2. CASE flag # "no"
  <2>1. Verified(flag) = <<TheAsk>> BY <1>2 DEF Verified, TheAsk
  <2>2. TheAsk \in Steps /\ TheAsk.do = "verify" BY MovesAre, MoveIs DEF TheAsk
  <2>3. Piece(name, <<TheAsk>>, TheAsk, {TheAsk}, {TheAsk}, {TheAsk}) BY <2>2, OneStep
  <2>4. Follows(name, t, TheAsk) BY <2>2 DEF Follows
  <2>5. \A s \in {TheAsk} : Closes(KeyOf(name), s) BY <2>2 DEF Closes
  <2>6. Piece(name, p \o <<TheAsk>>, f, {TheAsk}, a \cup {TheAsk}, A \cup {TheAsk})
    BY <2>3, <2>4, <2>5, Joined
  <2> QED BY <2>1, <2>6 DEF Piece
<1> QED BY <1>1, <1>2

LEMMA PlainPiece ==
  ASSUME NEW name, NEW key \in ContractKeys, NEW flag
  PROVE  Piece(name, Plain(key, flag), Move("make", key), {Move("record", key), TheAsk},
               {Move("make", key)}, {Move("make", key), Move("record", key), TheAsk})
<1> DEFINE s == Move("make", key)
           t == Move("record", key)
<1>1. s \in Steps /\ t \in Steps /\ key \notin Symbols BY MovesAre, Names
<1>2. s.do = "make" /\ s.x = key /\ t.do = "record" /\ t.x = key BY MoveIs
<1>3. Plain(key, flag) = (<<s>> \o <<t>>) \o Verified(flag) BY DEF Plain
<1> HIDE DEF s, t
<1>5. Piece(name, <<s>>, s, {s}, {s}, {s}) /\ Piece(name, <<t>>, t, {t}, {t}, {t})
  BY <1>1, OneStep
<1>6. Follows(name, s, t) BY <1>2 DEF Follows
<1>7. KeyOf(name) \in ProxyKeys => \/ \A m \in {s} : ~Deploys(KeyOf(name), m)
                                   \/ \A m \in {t} : Closes(KeyOf(name), m)
  BY <1>2 DEF Deploys, Closes
<1>8. Piece(name, <<s>> \o <<t>>, s, {t}, {s} \cup {t}, {s} \cup {t})
  BY <1>5, <1>6, <1>7, Joined
<1>9. Piece(name, Plain(key, flag), s, {t, TheAsk}, {s} \cup {t}, {s} \cup {t} \cup {TheAsk})
  <2>1. Piece(name, (<<s>> \o <<t>>) \o Verified(flag), s, {t, TheAsk}, {s} \cup {t},
              {s} \cup {t} \cup {TheAsk})
    BY <1>1, <1>2, <1>8, VerifiedPiece
  <2> QED BY <1>3, <2>1
<1> QED BY <1>9 DEF Piece, s, t

\* The implementation of a proxy.
LEMMA ImplementationPiece ==
  ASSUME NEW name, NEW key \in ProxyKeys, KeyOf(name) = key, NEW flag
  PROVE  Piece(name, Implementation(key, flag), Move("make", Impl(key)),
               {Move("record", key), TheAsk}, {},
               {Move("make", Impl(key)), Move("note", Impl(key)), Move("record", Impl(key)),
                Move("record", key), TheAsk})
<1> DEFINE imp == Impl(key)
           s == Move("make", imp)
           n == Move("note", imp)
           i == Move("record", imp)
           t == Move("record", key)
<1>1. /\ imp \in ContractKeys /\ imp \in Impls /\ key \in Keys /\ imp # key /\ key \notin Symbols
      /\ key \notin Impls /\ key # ReceiverV2
  BY Names
<1>2. name # Receiver /\ name \notin Mocks BY TaskNames
<1> HIDE DEF imp
<1>3. s \in Steps /\ n \in Steps /\ t \in Steps BY <1>1, MovesAre
<1>4. /\ s.do = "make" /\ s.x = imp /\ n.do = "note" /\ n.x = imp
      /\ i.do = "record" /\ i.x = imp /\ t.do = "record" /\ t.x = key
      /\ TheAsk.do = "verify"
  BY MoveIs DEF TheAsk
<1>5. CASE key = "UserFlashclaimRegistryV3"
  <2>1. Implementation(key, flag) = (Plain(imp, flag) \o <<t>>) \o Verified(flag)
    BY <1>5 DEF Implementation, imp
  <2>2. Piece(name, Plain(imp, flag), s, {i, TheAsk}, {s}, {s, i, TheAsk})
    BY <1>1, PlainPiece
  <2> HIDE DEF s, n, i, t
  <2>3. Piece(name, <<t>>, t, {t}, {t}, {t}) BY <1>3, OneStep
  <2>4. \A l \in {i, TheAsk} : Follows(name, l, t)
    BY <1>1, <1>2, <1>4 DEF Follows
  <2>5. \A m \in {s, i, TheAsk} : ~Deploys(KeyOf(name), m) BY <1>1, <1>4 DEF Deploys
  <2>6. Piece(name, Plain(imp, flag) \o <<t>>, s, {t}, {s} \cup {t}, {s, i, TheAsk} \cup {t})
    BY <2>2, <2>3, <2>4, <2>5, Joined
  <2>7. Piece(name, (Plain(imp, flag) \o <<t>>) \o Verified(flag), s, {t, TheAsk}, {s} \cup {t},
              {s, i, TheAsk} \cup {t} \cup {TheAsk})
    BY <1>2, <1>4, <2>6, VerifiedPiece
  <2>8. Piece(name, Implementation(key, flag), s, {t, TheAsk}, {s} \cup {t},
              {s, i, TheAsk} \cup {t} \cup {TheAsk})
    BY <2>1, <2>7
  <2> QED BY <2>8 DEF Piece, s, n, i, t, imp
<1>6. CASE key # "UserFlashclaimRegistryV3"
  <2>1. Implementation(key, flag) = ((<<s>> \o <<n>>) \o <<t>>) \o Verified(flag)
    BY <1>6 DEF Implementation, imp
  <2> HIDE DEF s, n, i, t
  <2>2. /\ Piece(name, <<s>>, s, {s}, {s}, {s}) /\ Piece(name, <<n>>, n, {n}, {n}, {n})
        /\ Piece(name, <<t>>, t, {t}, {t}, {t})
    BY <1>3, OneStep
  <2>3. Follows(name, s, n) BY <1>4 DEF Follows
  <2>4. Follows(name, n, t) BY <1>1, <1>4 DEF Follows
  <2>5. \A m \in {s} : ~Deploys(KeyOf(name), m) BY <1>1, <1>4 DEF Deploys
  <2>6. \A m \in {s} \cup {n} : ~Deploys(KeyOf(name), m) BY <1>1, <1>4 DEF Deploys
  <2>7. Piece(name, <<s>> \o <<n>>, s, {n}, {s} \cup {n}, {s} \cup {n})
    BY <2>2, <2>3, <2>5, Joined
  <2>8. Piece(name, (<<s>> \o <<n>>) \o <<t>>, s, {t}, {s} \cup {n} \cup {t}, {s} \cup {n} \cup {t})
    BY <2>2, <2>4, <2>6, <2>7, Joined
  <2>9. Piece(name, ((<<s>> \o <<n>>) \o <<t>>) \o Verified(flag), s, {t, TheAsk},
              {s} \cup {n} \cup {t}, {s} \cup {n} \cup {t} \cup {TheAsk})
    BY <1>2, <1>4, <2>8, VerifiedPiece
  <2>10. Piece(name, Implementation(key, flag), s, {t, TheAsk}, {s} \cup {n} \cup {t},
               {s} \cup {n} \cup {t} \cup {TheAsk})
    BY <2>1, <2>9
  <2> QED BY <2>10 DEF Piece, s, n, i, t, imp
<1> QED BY <1>5, <1>6

LEMMA NewProxyPiece ==
  ASSUME NEW name, NEW key \in ProxyKeys, KeyOf(name) = key, NEW flag
  PROVE  \E f \in {Move("make", ReceiverV3), Move("make", key)} :
           Piece(name, NewProxy(key, flag), f, {Move("record", key), TheAsk}, {Move("make", key)},
                 {Move("make", ReceiverV3), Move("record", ReceiverV3),
                  Move("make", key), Move("record", key), TheAsk})
<1> DEFINE s == Move("make", key)
           t == Move("record", key)
           v == Move("make", ReceiverV3)
           w == Move("record", ReceiverV3)
<1>1. /\ key \in ContractKeys /\ ReceiverV3 \in ContractKeys /\ key # ReceiverV3
      /\ key # Impl(key)
  BY Names
<1>2. name # Receiver /\ name \notin Mocks BY TaskNames
<1>3. /\ s.do = "make" /\ s.x = key /\ t.do = "record" /\ t.x = key
      /\ v.do = "make" /\ v.x = ReceiverV3 /\ w.do = "record" /\ w.x = ReceiverV3
      /\ TheAsk.do = "verify"
  BY MoveIs DEF TheAsk
<1>4. /\ Piece(name, Plain(key, flag), s, {t, TheAsk}, {s}, {s, t, TheAsk})
      /\ Piece(name, Plain(ReceiverV3, flag), v, {w, TheAsk}, {v}, {v, w, TheAsk})
  BY <1>1, PlainPiece
<1>5. CASE key = "UserFlashclaimRegistryV3"
  <2>1. NewProxy(key, flag) = Plain(ReceiverV3, flag) \o Plain(key, flag)
    BY <1>5 DEF NewProxy, ReceiverV3
  <2> HIDE DEF s, t, v, w
  <2>2. \A l \in {w, TheAsk} : Follows(name, l, s)
    BY <1>1, <1>2, <1>3 DEF Follows
  <2>3. \A m \in {v, w, TheAsk} : ~Deploys(KeyOf(name), m) BY <1>1, <1>3 DEF Deploys
  <2>4. Piece(name, Plain(ReceiverV3, flag) \o Plain(key, flag), v, {t, TheAsk}, {v} \cup {s},
              {v, w, TheAsk} \cup {s, t, TheAsk})
    BY <1>4, <2>2, <2>3, Joined
  <2>5. Piece(name, NewProxy(key, flag), v, {t, TheAsk}, {s}, {v, w, s, t, TheAsk})
    BY <2>1, <2>4 DEF Piece
  <2> QED BY <2>5 DEF s, t, v, w
<1>6. CASE key # "UserFlashclaimRegistryV3"
  <2>1. NewProxy(key, flag) = << >> \o Plain(key, flag) BY <1>6 DEF NewProxy
  <2>2. Plain(key, flag) \in Seq(Steps) BY <1>4 DEF Piece
  <2>3. NewProxy(key, flag) = Plain(key, flag) BY <2>1, <2>2
  <2> HIDE DEF s, t, v, w
  <2>4. Piece(name, NewProxy(key, flag), s, {t, TheAsk}, {s}, {v, w, s, t, TheAsk})
    BY <1>4, <2>3 DEF Piece
  <2> QED BY <2>4 DEF s, t, v, w
<1> QED BY <1>5, <1>6

LEMMA UpgradePiece ==
  ASSUME NEW name, NEW key \in ProxyKeys, KeyOf(name) = key, NEW conf \in Nat
  PROVE  Piece(name, UpgradeProxy(key, conf), Move("enlist", <<key, conf>>),
               {Move("wait", None)}, {Move("upgrade", conf)},
               {Move("enlist", <<key, conf>>), Move("upgrade", conf), Move("wait", None)})
<1> DEFINE e == Move("enlist", <<key, conf>>)
           u == Move("upgrade", conf)
           w == Move("wait", None)
<1>1. /\ e.do = "enlist" /\ e.x = <<key, conf>> /\ u.do = "upgrade" /\ u.x = conf
      /\ w.do = "wait"
  BY MoveIs
<1>2. e \in Steps /\ u \in Steps /\ w \in Steps
  <2>1. <<key, conf>> \in (ProxyKeys \cup AdminKeys) \X Nat OBVIOUS
  <2> QED BY <2>1, MovesAre
<1>3. name # Receiver /\ name \notin Mocks BY TaskNames
<1>4. UpgradeProxy(key, conf) = (<<e>> \o <<u>>) \o <<w>> BY DEF UpgradeProxy
<1>5. Follows(name, e, u)
  <2> HIDE DEF e, u, w
  <2> QED BY <1>1 DEF Follows
<1> HIDE DEF e, u, w
<1>6. Follows(name, u, w) BY <1>1 DEF Follows
<1>7. /\ Piece(name, <<e>>, e, {e}, {e}, {e}) /\ Piece(name, <<u>>, u, {u}, {u}, {u})
      /\ Piece(name, <<w>>, w, {w}, {w}, {w})
  BY <1>2, OneStep
<1>8. \A m \in {e} \cup {u} : ~Deploys(KeyOf(name), m) BY <1>1 DEF Deploys
<1>9. \A m \in {e} : ~Deploys(KeyOf(name), m) BY <1>8
<1>10. Piece(name, <<e>> \o <<u>>, e, {u}, {e} \cup {u}, {e} \cup {u})
  BY <1>5, <1>7, <1>9, Joined
<1>11. Piece(name, (<<e>> \o <<u>>) \o <<w>>, e, {w}, {e} \cup {u} \cup {w}, {e} \cup {u} \cup {w})
  BY <1>6, <1>7, <1>8, <1>10, Joined
<1> QED BY <1>4, <1>11 DEF Piece, e, u, w

LEMMA Unblocked ==
  ASSUME NEW flag, NEW p, \A s \in Range(p) : s.do # "unlessThere"
  PROVE  Blocks(flag, p)
BY DEF Blocks, Range

\* What a task may begin with.
Ready(name, flag, p) ==
  /\ p \in Seq(Steps) /\ p # << >> /\ Fits(ledger, name, flag, p)
  /\ p[1].do \in {"make", "enlist", "find", "unlessThere"} \/ (Looks(p) /\ ~Tells(name))
  /\ KeyOf(name) \in ProxyKeys =>
       /\ Deploys(Impl(KeyOf(name)), p[1])
       /\ \E s \in Range(p) : s.do = "upgrade" \/ Deploys(KeyOf(name), s)
  /\ name \in Mocks => \A s \in Symbols : \E m \in Range(p) : m.do = "record" /\ m.x = s

LEMMA PieceFits ==
  ASSUME NEW name, NEW p, NEW f, NEW ls, NEW a, NEW A, NEW flag, Piece(name, p, f, ls, a, A),
         \A s \in ls : ~Unfinished(name, s),
         \A s \in A : Proper(name, s) /\ Founded(ledger, name, s) /\ s.do # "unlessThere"
  PROVE  /\ p \in Seq(Steps) /\ p # << >> /\ p[1] = f /\ a \subseteq Range(p)
         /\ Fits(ledger, name, flag, p)
<1>1. /\ p \in Seq(Steps) /\ p # << >> /\ Linked(name, p) /\ Ordered(name, p)
      /\ p[1] = f /\ p[Len(p)] \in ls /\ a \subseteq Range(p) /\ Range(p) \subseteq A
  BY DEF Piece
<1>2. Finished(name, p) BY <1>1 DEF Finished
<1>3. \A s \in Range(p) : s.do # "unlessThere" BY <1>1
<1>4. Blocks(flag, p) BY <1>3, Unblocked
<1>5. \A s \in Range(p) : Proper(name, s) /\ Founded(ledger, name, s) BY <1>1
<1> QED BY <1>1, <1>2, <1>4, <1>5 DEF Fits

\* A new proxy, or one that is there, of the kind the task is about.
LEMMA BehindReady ==
  ASSUME NEW name, NEW key \in ProxyKeys, KeyOf(name) = key, NEW flag, NEW conf \in Nat,
         conf # 0 => IsKind(ledger, conf, key)
  PROVE  Ready(name, flag, DeployBehind(key, conf, flag))
<1> DEFINE p == Implementation(key, flag)
           imp == Impl(key)
           s == Move("make", imp)
           n == Move("note", imp)
           i == Move("record", imp)
           t == Move("record", key)
           m == Move("make", key)
           v == Move("make", ReceiverV3)
           w == Move("record", ReceiverV3)
           e == Move("enlist", <<key, conf>>)
           u == Move("upgrade", conf)
           x == Move("wait", None)
           A == {s, n, i, t, TheAsk}
<1>1. /\ imp # key /\ key # ReceiverV3 /\ imp # ReceiverV3 /\ key \notin Symbols
      /\ imp \notin Symbols /\ ReceiverV3 \notin Symbols
  BY Names
<1>2. name # Receiver /\ name \notin Mocks BY TaskNames
<1>3. /\ s.do = "make" /\ s.x = imp /\ n.do = "note" /\ n.x = imp
      /\ i.do = "record" /\ i.x = imp /\ t.do = "record" /\ t.x = key
      /\ m.do = "make" /\ m.x = key /\ v.do = "make" /\ v.x = ReceiverV3
      /\ w.do = "record" /\ w.x = ReceiverV3 /\ TheAsk.do = "verify"
  BY MoveIs DEF TheAsk
<1>4. /\ e.do = "enlist" /\ e.x[1] = key /\ u.do = "upgrade" /\ u.x = conf /\ x.do = "wait"
  <2>1. e.x = <<key, conf>> BY MoveIs
  <2> QED BY <2>1, MoveIs
<1>5. Piece(name, p, s, {t, TheAsk}, {}, A) BY ImplementationPiece
<1>6. PICK f \in {v, m} :
        Piece(name, NewProxy(key, flag), f, {t, TheAsk}, {m}, {v, w, m, t, TheAsk})
  BY NewProxyPiece
<1>7. Piece(name, UpgradeProxy(key, conf), e, {x}, {u}, {e, u, x}) BY UpgradePiece
<1>8. DeployBehind(key, conf, flag) =
        p \o (IF conf = 0 THEN NewProxy(key, flag) ELSE UpgradeProxy(key, conf))
  BY DEF DeployBehind
<1> HIDE DEF p, s, n, i, t, m, v, w, e, u, x
<1>9. \A k \in A : /\ ~Deploys(key, k) /\ Proper(name, k) /\ Founded(ledger, name, k)
                   /\ k.do # "unlessThere"
  <2> SUFFICES ASSUME NEW k \in A
               PROVE  /\ ~Deploys(key, k) /\ Proper(name, k) /\ Founded(ledger, name, k)
                      /\ k.do # "unlessThere"
    OBVIOUS
  <2>1. k.do \in {"make", "note", "record", "verify"}
        /\ (k.do \in {"make", "note", "record"} => k.x \in {key, imp})
        /\ (k.do = "make" => k.x = imp)
    BY <1>3
  <2> QED BY <1>1, <1>2, <2>1 DEF Deploys, Proper, Founded
<1>10. CASE conf = 0
  <2>1. \A l \in {t, TheAsk} : Follows(name, l, f)
    BY <1>1, <1>2, <1>3 DEF Follows
  <2> DEFINE B == {v, w, m, t, TheAsk}
  <2>2. Piece(name, p \o NewProxy(key, flag), s, {t, TheAsk}, {} \cup {m}, A \cup B)
    <3>1. \A k \in A : ~Deploys(KeyOf(name), k) BY <1>9
    <3> HIDE DEF A
    <3> QED BY <1>5, <1>6, <2>1, <3>1, Joined
  <2>3. \A k \in B : /\ Proper(name, k) /\ Founded(ledger, name, k) /\ k.do # "unlessThere"
    <3> SUFFICES ASSUME NEW k \in B
                 PROVE  Proper(name, k) /\ Founded(ledger, name, k) /\ k.do # "unlessThere"
      OBVIOUS
    <3>1. k.do \in {"make", "record", "verify"}
          /\ (k.do \in {"make", "record"} => k.x \in {key, ReceiverV3})
      BY <1>3
    <3> QED BY <1>1, <1>2, <3>1 DEF Proper, Founded
  <2>4. \A k \in A \cup B : /\ Proper(name, k) /\ Founded(ledger, name, k) /\ k.do # "unlessThere"
    BY <1>9, <2>3
  <2>5. \A l \in {t, TheAsk} : ~Unfinished(name, l) BY <1>2, <1>3 DEF Unfinished
  <2>6. DeployBehind(key, conf, flag) = p \o NewProxy(key, flag) BY <1>8, <1>10
  <2> DEFINE d == p \o NewProxy(key, flag)
             z == {t, TheAsk}
             y == {} \cup {m}
             C == A \cup B
  <2>a. Piece(name, d, s, z, y, C) BY <2>2
  <2>b. \A l \in z : ~Unfinished(name, l) BY <2>5
  <2>c. \A k \in C : Proper(name, k) /\ Founded(ledger, name, k) /\ k.do # "unlessThere" BY <2>4
  <2>d. m \in y OBVIOUS
  <2> HIDE DEF A, B, d, z, y, C
  <2>7. /\ d \in Seq(Steps) /\ d # << >> /\ d[1] = s /\ y \subseteq Range(d)
        /\ Fits(ledger, name, flag, d)
    BY <2>a, <2>b, <2>c, PieceFits
  <2>8. Deploys(imp, s) /\ Deploys(key, m) /\ m \in Range(d) BY <1>3, <2>7, <2>d DEF Deploys
  <2> QED BY <1>2, <1>3, <2>6, <2>7, <2>8 DEF Ready, d
<1>11. CASE conf # 0
  <2>1. \A l \in {t, TheAsk} : Follows(name, l, e)
    BY <1>1, <1>2, <1>3, <1>4 DEF Follows
  <2> DEFINE B == {e, u, x}
  <2>2. Piece(name, p \o UpgradeProxy(key, conf), s, {x}, {} \cup {u}, A \cup B)
    <3>1. \A k \in A : ~Deploys(KeyOf(name), k) BY <1>9
    <3> HIDE DEF A
    <3> QED BY <1>5, <1>7, <2>1, <3>1, Joined
  <2>3. \A k \in B : /\ Proper(name, k) /\ Founded(ledger, name, k) /\ k.do # "unlessThere"
    <3>1. \A k \in B : k.do \in {"enlist", "upgrade", "wait"} /\ (k.do = "enlist" => k.x[1] = key)
                       /\ (k.do = "upgrade" => k.x = conf)
      BY <1>4
    <3> QED BY <1>1, <1>2, <1>11, <3>1 DEF Proper, Founded
  <2>4. \A k \in A \cup B : /\ Proper(name, k) /\ Founded(ledger, name, k) /\ k.do # "unlessThere"
    BY <1>9, <2>3
  <2>5. \A l \in {x} : ~Unfinished(name, l) BY <1>2, <1>4 DEF Unfinished
  <2>6. DeployBehind(key, conf, flag) = p \o UpgradeProxy(key, conf) BY <1>8, <1>11
  <2> DEFINE d == p \o UpgradeProxy(key, conf)
             z == {x}
             y == {} \cup {u}
             C == A \cup B
  <2>a. Piece(name, d, s, z, y, C) BY <2>2
  <2>b. \A l \in z : ~Unfinished(name, l) BY <2>5
  <2>c. \A k \in C : Proper(name, k) /\ Founded(ledger, name, k) /\ k.do # "unlessThere" BY <2>4
  <2>d. u \in y OBVIOUS
  <2> HIDE DEF A, B, d, z, y, C
  <2>7. /\ d \in Seq(Steps) /\ d # << >> /\ d[1] = s /\ y \subseteq Range(d)
        /\ Fits(ledger, name, flag, d)
    BY <2>a, <2>b, <2>c, PieceFits
  <2>8. Deploys(imp, s) /\ u.do = "upgrade" /\ u \in Range(d) BY <1>3, <1>4, <2>7, <2>d DEF Deploys
  <2> QED BY <1>2, <1>3, <2>6, <2>7, <2>8 DEF Ready, d
<1> QED BY <1>10, <1>11

Apart(name) == KeyOf(name) = "call" /\ name \notin Mocks /\ name # Receiver

LEMMA ImplOther == Impl("call") = "UserFlashclaimRegistryV3Impl" /\ Impl("call") \in Impls
BY DEF Impl, Impls, ProxyKeys

LEMMA PlainReady ==
  ASSUME NEW name, Apart(name), NEW key \in ContractKeys \ ProxyKeys, NEW flag, NEW how
  PROVE  Ready(name, flag, Plain(key, how))
<1> DEFINE s == Move("make", key)
           t == Move("record", key)
           p == Plain(key, how)
           ls == {t, TheAsk}
           A == {s, t, TheAsk}
<1>1. /\ s.do = "make" /\ s.x = key /\ t.do = "record" /\ t.x = key /\ TheAsk.do = "verify"
  BY MoveIs DEF TheAsk
<1>2. Piece(name, p, s, ls, {s}, A) BY PlainPiece
<1> HIDE DEF s, t, p
<1>3. key \notin Symbols /\ KeyOf(name) \notin ProxyKeys BY Names, TaskNames DEF Apart
<1>4. \A l \in ls : ~Unfinished(name, l) BY <1>1 DEF Unfinished, Apart
<1>5. \A k \in A : Proper(name, k) /\ Founded(ledger, name, k) /\ k.do # "unlessThere"
  BY <1>1, <1>3 DEF Proper, Founded, Apart
<1> DEFINE a == {s}
<1>6. Piece(name, p, s, ls, a, A) BY <1>2
<1> HIDE DEF a, A, ls
<1>7. p \in Seq(Steps) /\ p # << >> /\ p[1] = s /\ Fits(ledger, name, flag, p)
  BY <1>4, <1>5, <1>6, PieceFits
<1> QED BY <1>1, <1>3, <1>7 DEF Ready, Apart, p

\* A second version of the registry is told where the first is.
LEMMA FoundReady ==
  ASSUME NEW name, Apart(name), NEW key \in ContractKeys \ ProxyKeys, key \notin Impls,
         NEW j \in Keys, NEW flag
  PROVE  Ready(name, flag, <<Move("find", j)>> \o Plain(key, flag))
<1> DEFINE s == Move("make", key)
           t == Move("record", key)
           h == Move("find", j)
           q == Plain(key, flag)
           o == <<h>>
           p == o \o q
           ls == {t, TheAsk}
           A == {s, t, TheAsk}
           a == {s}
           b == {h}
<1>1. /\ s.do = "make" /\ s.x = key /\ t.do = "record" /\ t.x = key /\ TheAsk.do = "verify"
      /\ h.do = "find"
  BY MoveIs DEF TheAsk
<1>2. Piece(name, q, s, ls, a, A) BY PlainPiece
<1>3. h \in Steps BY MovesAre
<1> HIDE DEF s, t, h, q
<1>4. Piece(name, o, h, b, b, b) BY <1>3, OneStep
<1>5. \A l \in b : Follows(name, l, s)
  <2>1. key # Impl(KeyOf(name)) BY ImplOther DEF Apart
  <2> QED BY <1>1, <2>1 DEF Follows
<1>6. KeyOf(name) \notin ProxyKeys BY TaskNames DEF Apart
<1>7. key \notin Symbols BY Names
<1>8. \A l \in ls : ~Unfinished(name, l) BY <1>1 DEF Unfinished, Apart
<1>9. \A k \in b \cup A : Proper(name, k) /\ Founded(ledger, name, k) /\ k.do # "unlessThere"
  BY <1>1, <1>6, <1>7 DEF Proper, Founded, Apart
<1> HIDE DEF a, b, A, ls, o
<1>10. Piece(name, p, h, ls, b \cup a, b \cup A) BY <1>2, <1>4, <1>5, <1>6, Joined
<1> DEFINE c == b \cup a
           C == b \cup A
<1>11. Piece(name, p, h, ls, c, C) BY <1>10
<1>12. \A k \in C : Proper(name, k) /\ Founded(ledger, name, k) /\ k.do # "unlessThere" BY <1>9
<1> HIDE DEF c, C, p
<1>13. p \in Seq(Steps) /\ p # << >> /\ p[1] = h /\ Fits(ledger, name, flag, p)
  BY <1>8, <1>11, <1>12, PieceFits
<1>14. Ready(name, flag, p) BY <1>1, <1>6, <1>13 DEF Ready, Apart
<1> QED BY <1>14 DEF p, o, h, q

LEMMA AdminPiece ==
  ASSUME NEW name, Apart(name), NEW key \in AdminKeys, NEW conf \in Nat, NEW flag
  PROVE  \E f \in {Move("make", key), Move("enlist", <<key, conf>>)} :
           Piece(name, Admin(key, conf, flag), f,
                 {Move("record", key), TheAsk, Move("enlist", <<key, conf>>)}, {},
                 {Move("make", key), Move("record", key), TheAsk, Move("enlist", <<key, conf>>)})
<1> DEFINE s == Move("make", key)
           t == Move("record", key)
           e == Move("enlist", <<key, conf>>)
<1>1. CASE conf = 0
  <2>1. key \in ContractKeys BY Names
  <2>2. Piece(name, Plain(key, flag), s, {t, TheAsk}, {s}, {s, t, TheAsk}) BY <2>1, PlainPiece
  <2>3. Admin(key, conf, flag) = Plain(key, flag) BY <1>1 DEF Admin
  <2> HIDE DEF s, t, e
  <2>4. Piece(name, Admin(key, conf, flag), s, {t, TheAsk, e}, {}, {s, t, TheAsk, e})
    BY <2>2, <2>3 DEF Piece
  <2> QED BY <2>4 DEF s, t, e
<1>2. CASE conf # 0
  <2>1. <<key, conf>> \in (ProxyKeys \cup AdminKeys) \X Nat OBVIOUS
  <2>2. e \in Steps BY <2>1, MovesAre
  <2>3. Admin(key, conf, flag) = <<e>> BY <1>2 DEF Admin
  <2> HIDE DEF s, t, e
  <2>4. Piece(name, <<e>>, e, {e}, {e}, {e}) BY <2>2, OneStep
  <2>5. Piece(name, Admin(key, conf, flag), e, {t, TheAsk, e}, {}, {s, t, TheAsk, e})
    BY <2>3, <2>4 DEF Piece
  <2> QED BY <2>5 DEF s, t, e
<1> QED BY <1>1, <1>2

\* Both admins, each new or named by the configuration.
LEMMA AdminsReady ==
  ASSUME NEW name, Apart(name), NEW i \in AdminKeys, NEW j \in AdminKeys,
         NEW x \in Nat, NEW y \in Nat, NEW flag
  PROVE  Ready(name, flag, Admin(i, x, flag) \o Admin(j, y, flag))
<1> DEFINE s == Move("make", i)
           t == Move("record", i)
           e == Move("enlist", <<i, x>>)
           u == Move("make", j)
           v == Move("record", j)
           w == Move("enlist", <<j, y>>)
           p == Admin(i, x, flag)
           q == Admin(j, y, flag)
           d == p \o q
           ls == {t, TheAsk, e}
           ms == {v, TheAsk, w}
           A == {s, t, TheAsk, e}
           B == {u, v, TheAsk, w}
           o == {}
<1>1. PICK f \in {s, e} : Piece(name, p, f, ls, o, A) BY AdminPiece
<1>2. PICK g \in {u, w} : Piece(name, q, g, ms, o, B)
  <2> HIDE DEF s, t, e, A, ls, p, d
  <2> QED BY AdminPiece, SMTT(30)
<1>3. /\ s.do = "make" /\ s.x = i /\ t.do = "record" /\ t.x = i /\ TheAsk.do = "verify"
      /\ u.do = "make" /\ u.x = j /\ v.do = "record" /\ v.x = j
      /\ e.do = "enlist" /\ e.x[1] = i /\ w.do = "enlist" /\ w.x[1] = j
  <2>1. e.x = <<i, x>> /\ w.x = <<j, y>> BY MoveIs
  <2> QED BY <2>1, MoveIs DEF TheAsk
<1>4. /\ {i, j} \cap Symbols = {} /\ {i, j} \cap Impls = {} /\ {i, j} \cap ProxyKeys = {}
  BY Names
<1>5. KeyOf(name) \notin ProxyKeys BY TaskNames DEF Apart
<1> HIDE DEF p, q, s, t, e, u, v, w
<1>6. \A l \in ls : Follows(name, l, g)
  <2>1. j # Impl(KeyOf(name)) BY <1>4, ImplOther DEF Apart
  <2>2. \A l \in ls : l.do \in {"record", "verify", "enlist"} BY <1>3
  <2>3. g.do \in {"make", "enlist"} /\ (g.do = "make" => g.x = j) BY <1>3
  <2> HIDE DEF ls
  <2> QED BY <1>5, <2>1, <2>2, <2>3 DEF Follows, Apart
<1>7. \A l \in ms : ~Unfinished(name, l) BY <1>3, <1>5 DEF Unfinished, Apart
<1>8. \A k \in A \cup B : Proper(name, k) /\ Founded(ledger, name, k) /\ k.do # "unlessThere"
  <2>1. \A k \in A \cup B : /\ k.do \in {"make", "record", "verify", "enlist"}
                            /\ k.do \in {"make", "record"} => k.x \in {i, j}
                            /\ k.do = "enlist" => k.x[1] \in {i, j}
    BY <1>3
  <2> HIDE DEF A, B
  <2> QED BY <1>4, <1>5, <2>1 DEF Proper, Founded, Apart
<1> HIDE DEF A, B, ls, ms, o
<1>9. Piece(name, p \o q, f, ms, o \cup o, A \cup B) BY <1>1, <1>2, <1>5, <1>6, Joined
<1> DEFINE c == o \cup o
           C == A \cup B
<1>10. Piece(name, d, f, ms, c, C) BY <1>9
<1>11. \A k \in C : Proper(name, k) /\ Founded(ledger, name, k) /\ k.do # "unlessThere" BY <1>8
<1> HIDE DEF c, C, d
<1>12. d \in Seq(Steps) /\ d # << >> /\ d[1] = f /\ Fits(ledger, name, flag, d)
  BY <1>7, <1>10, <1>11, PieceFits
<1>13. f.do \in {"make", "enlist"} BY <1>3
<1>14. Ready(name, flag, d) BY <1>5, <1>12, <1>13 DEF Ready, Apart
<1> QED BY <1>14 DEF d, p, q

LEMMA ReceiverReady ==
  ASSUME NEW flag
  PROVE  Ready(Receiver, flag, Plain(ReceiverV2, flag)
                                 \o <<Move("initialize", None), Move("wait", None)>>)
<1> DEFINE name == Receiver
           s == Move("make", ReceiverV2)
           t == Move("record", ReceiverV2)
           i == Move("initialize", None)
           w == Move("wait", None)
           q == Plain(ReceiverV2, flag)
           ls == {t, TheAsk}
           A == {s, t, TheAsk}
           a == {s}
           b == {i}
           c == {w}
<1>1. /\ s.do = "make" /\ s.x = ReceiverV2 /\ t.do = "record" /\ t.x = ReceiverV2
      /\ TheAsk.do = "verify" /\ i.do = "initialize" /\ w.do = "wait"
  BY MoveIs DEF TheAsk
<1>2. ReceiverV2 \in ContractKeys /\ ReceiverV2 \notin ProxyKeys \cup Impls \cup Symbols BY Names
<1>3. Piece(name, q, s, ls, a, A) BY <1>2, PlainPiece
<1>4. i \in Steps /\ w \in Steps BY MovesAre
<1>5. KeyOf(name) = "call" /\ KeyOf(name) \notin ProxyKeys /\ name \notin Mocks BY TaskNames
<1>6. q \o <<i, w>> = (q \o <<i>>) \o <<w>>
  <2>1. q \in Seq(Steps) BY <1>3 DEF Piece
  <2> HIDE DEF q, i, w
  <2>2. <<i, w>> = <<i>> \o <<w>>
    <3> DEFINE x == <<i, w>>
               y == <<i>> \o <<w>>
    <3>1. x \in Seq(Steps) /\ Len(x) = 2 /\ x[1] = i /\ x[2] = w BY <1>4
    <3>2. y \in Seq(Steps) /\ Len(y) = 2 /\ y[1] = i /\ y[2] = w BY <1>4
    <3> HIDE DEF x, y
    <3>3. \A k \in 1..2 : x[k] = y[k] BY <3>1, <3>2
    <3>4. x = y BY <3>1, <3>2, <3>3, SeqEqual
    <3> QED BY <3>4 DEF x, y
  <2>3. <<i>> \in Seq(Steps) /\ <<w>> \in Seq(Steps) BY <1>4
  <2> QED BY <2>1, <2>2, <2>3, ConcatAssociative
<1> HIDE DEF s, t, i, w, q
<1> DEFINE m == <<i>>
           n == <<w>>
<1>7. Piece(name, m, i, b, b, b) /\ Piece(name, n, w, c, c, c) BY <1>4, OneStep
<1>8. \A l \in ls : Follows(name, l, i) BY <1>1, <1>5 DEF Follows
<1>9. \A l \in b : Follows(name, l, w) BY <1>1, <1>5 DEF Follows
<1>10. \A l \in c : ~Unfinished(name, l) BY <1>1, <1>5 DEF Unfinished
<1>11. \A k \in A \cup b \cup c : /\ Proper(name, k) /\ Founded(ledger, name, k)
                                  /\ k.do # "unlessThere"
  BY <1>1, <1>2, <1>5 DEF Proper, Founded
<1> HIDE DEF A, a, b, c, ls, m, n, name
<1>12. Piece(name, q \o m, s, b, a \cup b, A \cup b) BY <1>3, <1>5, <1>7, <1>8, Joined
<1>13. Piece(name, (q \o m) \o n, s, c, a \cup b \cup c, A \cup b \cup c)
  BY <1>5, <1>7, <1>9, <1>12, Joined
<1> DEFINE d == (q \o m) \o n
           e == a \cup b \cup c
           C == A \cup b \cup c
<1>14. Piece(name, d, s, c, e, C) BY <1>13
<1>15. \A k \in C : Proper(name, k) /\ Founded(ledger, name, k) /\ k.do # "unlessThere" BY <1>11
<1> HIDE DEF e, C, d
<1>16. d \in Seq(Steps) /\ d # << >> /\ d[1] = s /\ Fits(ledger, name, flag, d)
  BY <1>10, <1>14, <1>15, PieceFits
<1>17. Ready(name, flag, d) BY <1>1, <1>5, <1>16 DEF Ready
<1> QED BY <1>6, <1>17 DEF d, m, n, q, name, i, w

-----------------------------------------------------------------------------
\* Programs with a part for each of a list.

LEMMA Least ==
  ASSUME NEW T, T \subseteq Nat, T # {}
  PROVE  \E m \in T : \A k \in T : m <= k
<1> DEFINE R == {p \in Nat \X Nat : p[1] < p[2]}
<1>1. IsWellFoundedOn(R, Nat) BY NatLessThanWellFounded DEF OpToRel
<1>2. \A k, m \in Nat : k < m => <<k, m>> \in R OBVIOUS
<1> HIDE DEF R
<1>3. PICK m \in T : \A k \in T : ~(<<k, m>> \in R) BY <1>1, WFMin, Zenon
<1>4. ASSUME NEW k \in T PROVE m <= k
  <2>1. k \in Nat /\ m \in Nat /\ ~(k < m) BY <1>2, <1>3
  <2> QED BY <2>1
<1> QED BY <1>4

PutsTogether(c, g) ==
  g = [i \in 1..Len(c) |-> IF i = 1 THEN c[i] ELSE g[i - 1] \o c[i]]

\* The parts put together one after the other.
LEMMA Flattened ==
  ASSUME NEW c, Len(c) \in Nat, Len(c) # 0
  PROVE  \E g : /\ FlattenSeq(c) = g[Len(c)] /\ g[1] = c[1]
                /\ \A i \in 2..Len(c) : g[i] = g[i - 1] \o c[i]
<1> DEFINE n == Len(c)
           Is(g, m) == g = [i \in 1..m |-> IF i = 1 THEN c[i] ELSE g[i - 1] \o c[i]]
           Bad == {m \in Nat : ~\E g : Is(g, m)}
<1>1. Bad = {}
  <2> SUFFICES ASSUME Bad # {} PROVE FALSE OBVIOUS
  <2>1. PICK m \in Bad : \A k \in Bad : m <= k BY Least
  <2>2. m \in Nat /\ ~\E g : Is(g, m) BY <2>1
  <2>3. CASE m = 0
    <3> DEFINE g == [i \in 1..m |-> c]
    <3>1. Is(g, m)
      <4> SUFFICES ASSUME NEW i \in 1..m
                   PROVE  c = IF i = 1 THEN c[i] ELSE g[i - 1] \o c[i]
        BY DEF g
      <4> QED BY <2>3
    <3> QED BY <2>2, <3>1
  <2>4. CASE m # 0
    <3>1. m - 1 \in Nat /\ m - 1 \notin Bad
      <4>1. m - 1 \in Nat /\ ~(m <= m - 1) BY <2>2, <2>4
      <4> HIDE DEF Bad
      <4> QED BY <2>1, <4>1
    <3>2. PICK h : Is(h, m - 1) BY <3>1
    <3> DEFINE g == [i \in 1..m |->
                       IF i = m THEN (IF i = 1 THEN c[i] ELSE h[i - 1] \o c[i]) ELSE h[i]]
    <3>3. ASSUME NEW i \in 1..m
          PROVE  g[i] = IF i = 1 THEN c[i] ELSE g[i - 1] \o c[i]
      <4>1. CASE i = m /\ i = 1 BY <4>1
      <4>2. CASE i = m /\ i # 1
        <5>1. i - 1 \in 1..m /\ i - 1 # m BY <2>2, <4>2
        <5> QED BY <4>2, <5>1
      <4>3. CASE i # m
        <5>1. i \in 1..(m - 1) BY <2>2, <4>3
        <5>2. h[i] = IF i = 1 THEN c[i] ELSE h[i - 1] \o c[i] BY <3>2, <5>1
        <5>3. i # 1 => i - 1 \in 1..m /\ i - 1 # m BY <2>2, <4>3
        <5> QED BY <4>3, <5>2, <5>3
      <4> QED BY <4>1, <4>2, <4>3
    <3>4. DOMAIN g = 1..m /\ g = [i \in 1..m |-> g[i]] OBVIOUS
    <3> HIDE DEF g
    <3>5. g = [i \in 1..m |-> IF i = 1 THEN c[i] ELSE g[i - 1] \o c[i]] BY <3>3, <3>4
    <3> QED BY <2>2, <3>5
  <2> QED BY <2>3, <2>4
<1>2. \E g : Is(g, n) BY <1>1
<1> HIDE DEF Bad
<1> DEFINE f == CHOOSE g : PutsTogether(c, g)
<1>3. \E g : PutsTogether(c, g) BY <1>2 DEF PutsTogether
<1>4. Is(f, n)
  <2>1. PutsTogether(c, f) BY <1>3
  <2> HIDE DEF f
  <2> QED BY <2>1 DEF PutsTogether
<1>5. FlattenSeq(c) = f[n] BY Zenon DEF FlattenSeq, PutsTogether
<1> HIDE DEF f
<1>6. 1 \in 1..n OBVIOUS
<1>7. f[1] = c[1] BY <1>4, <1>6
<1>8. \A i \in 2..n : f[i] = f[i - 1] \o c[i]
  <2> SUFFICES ASSUME NEW i \in 2..n PROVE f[i] = f[i - 1] \o c[i] OBVIOUS
  <2>1. i \in 1..n /\ i # 1 OBVIOUS
  <2> QED BY <1>4, <2>1
<1> QED BY <1>5, <1>7, <1>8

LEMMA FlattenedSeq ==
  ASSUME NEW S, NEW c, Len(c) \in Nat, Len(c) # 0, \A i \in 1..Len(c) : c[i] \in Seq(S)
  PROVE  FlattenSeq(c) \in Seq(S)
<1> DEFINE n == Len(c)
<1>1. PICK g : /\ FlattenSeq(c) = g[n] /\ g[1] = c[1]
               /\ \A i \in 2..n : g[i] = g[i - 1] \o c[i]
  BY Flattened
<1> DEFINE Bad == {i \in 1..n : g[i] \notin Seq(S)}
<1>2. Bad = {}
  <2> SUFFICES ASSUME Bad # {} PROVE FALSE OBVIOUS
  <2>1. PICK m \in Bad : \A k \in Bad : m <= k
    <3>1. Bad \subseteq Nat OBVIOUS
    <3> QED BY <3>1, Least
  <2>2. m \in 1..n /\ g[m] \notin Seq(S) BY <2>1
  <2>3. m # 1 BY <1>1, <2>2
  <2>4. m \in 2..n /\ m - 1 \in 1..n /\ ~(m <= m - 1) BY <2>2, <2>3
  <2>5. m - 1 \notin Bad BY <2>1, <2>4
  <2>6. g[m - 1] \in Seq(S) BY <2>4, <2>5
  <2>7. g[m] = g[m - 1] \o c[m] BY <1>1, <2>4
  <2> HIDE DEF n
  <2>8. c[m] \in Seq(S) BY <2>2 DEF n
  <2> QED BY <2>2, <2>6, <2>7, <2>8
<1>3. n \in 1..n OBVIOUS
<1> QED BY <1>1, <1>2, <1>3

\* The collections in some order.
LEMMA SymbolListIs ==
  /\ SymbolList \in Seq(Symbols) /\ Len(SymbolList) \in Nat /\ Len(SymbolList) # 0
  /\ DOMAIN SymbolList = 1..Len(SymbolList)
  /\ \A s \in Symbols : \E i \in 1..Len(SymbolList) : SymbolList[i] = s
<1> DEFINE n == Cardinality(Symbols)
           F == [1..n -> Symbols]
<1>1. n \in Nat /\ ExistsBijection(1..n, Symbols) BY SymbolsNamed, FS_CardinalityType
<1>2. \E f \in F : IsInjective(f)
  BY <1>1 DEF ExistsBijection, Bijection, Injection, IsInjective
<1>3. SymbolList = CHOOSE f \in F : IsInjective(f) BY DEF SymbolList, SetToSeq
<1>4. SymbolList \in F /\ IsInjective(SymbolList) BY <1>2, <1>3
<1>5. SymbolList \in Injection(1..n, Symbols) BY <1>4 DEF Injection
<1>6. IsFiniteSet(Symbols) /\ Cardinality(1..n) = Cardinality(Symbols)
  BY <1>1, SymbolsNamed, FS_Interval
<1>7. SymbolList \in Surjection(1..n, Symbols) BY <1>5, <1>6, FS_Injection
<1> HIDE DEF n
<1>8. \A s \in Symbols : \E i \in 1..n : SymbolList[i] = s BY <1>7 DEF Surjection
<1>9. SymbolList \in Seq(Symbols) /\ Len(SymbolList) = n /\ DOMAIN SymbolList = 1..n
  BY <1>1, <1>4
<1>10. n # 0 BY <1>8, SymbolsNamed
<1> QED BY <1>1, <1>8, <1>9, <1>10

LEMMA BlocksJoined ==
  ASSUME NEW flag, NEW p \in Seq(Steps), NEW q \in Seq(Steps), q # << >>,
         Blocks(flag, p), Blocks(flag, q),
         q[1].do = "unlessThere" \/ \A s \in Range(p) : s.do # "unlessThere"
  PROVE  Blocks(flag, p \o q)
<1> DEFINE r == p \o q
           b == BlockLength(flag)
           m == Len(p)
           n == Len(q)
<1>1. m \in Nat /\ n \in Nat \ {0} /\ DOMAIN p = 1..m /\ DOMAIN q = 1..n OBVIOUS
<1>2. /\ Len(r) = m + n /\ DOMAIN r = 1..(m + n)
      /\ \A k \in 1..m : r[k] = p[k]
      /\ \A k \in 1..n : r[m + k] = q[k]
  OBVIOUS
<1>3. b \in Nat \ {0} BY DEF BlockLength
<1> HIDE DEF r, b, m, n
<1> SUFFICES ASSUME NEW k \in 1..(m + n), r[k].do = "unlessThere"
             PROVE  /\ k + b <= (m + n) + 1
                    /\ k + b <= m + n => r[k + b].do = "unlessThere"
                    /\ \A j \in k..(k + b - 1) :
                         r[j].do = "record" /\ r[j].x \in Symbols => r[j].x = r[k].x
  BY <1>2 DEF Blocks, r, b
<1>4. CASE k <= m
  <2>1. k \in 1..m /\ k \in DOMAIN p /\ r[k] = p[k] BY <1>1, <1>2, <1>4
  <2>2. p[k] \in Range(p) BY <2>1 DEF Range
  <2>3. q[1].do = "unlessThere" BY <2>1, <2>2
  <2>4. /\ k + b <= m + 1
        /\ k + b <= m => p[k + b].do = "unlessThere"
        /\ \A j \in k..(k + b - 1) :
             p[j].do = "record" /\ p[j].x \in Symbols => p[j].x = p[k].x
    BY <2>1 DEF Blocks, b, m
  <2>5. k + b <= (m + n) + 1 BY <1>1, <1>3, <2>1, <2>4
  <2>6. ASSUME k + b <= m + n PROVE r[k + b].do = "unlessThere"
    <3>1. CASE k + b <= m
      <4>1. k + b \in 1..m BY <1>1, <1>3, <2>1, <3>1
      <4> QED BY <1>2, <2>4, <3>1, <4>1
    <3>2. CASE k + b = m + 1
      <4>1. 1 \in 1..n BY <1>1
      <4>2. r[m + 1] = q[1] BY <1>2, <4>1
      <4> QED BY <2>3, <3>2, <4>2
    <3> QED BY <1>1, <1>3, <2>1, <2>4, <3>1, <3>2
  <2>7. ASSUME NEW j \in k..(k + b - 1), r[j].do = "record", r[j].x \in Symbols
        PROVE  r[j].x = r[k].x
    <3>1. j \in 1..m BY <1>1, <1>3, <2>1, <2>4
    <3> QED BY <1>2, <2>1, <2>4, <2>7, <3>1
  <2> QED BY <2>5, <2>6, <2>7
<1>5. CASE k > m
  <2> DEFINE i == k - m
  <2>1. i \in 1..n /\ k = m + i BY <1>1, <1>5
  <2> HIDE DEF i
  <2>2. r[k] = q[i] /\ i \in DOMAIN q BY <1>1, <1>2, <2>1
  <2>3. /\ i + b <= n + 1
        /\ i + b <= n => q[i + b].do = "unlessThere"
        /\ \A j \in i..(i + b - 1) :
             q[j].do = "record" /\ q[j].x \in Symbols => q[j].x = q[i].x
    BY <2>2 DEF Blocks, b, n
  <2>4. k + b <= (m + n) + 1 BY <1>1, <1>3, <2>1, <2>3
  <2>5. ASSUME k + b <= m + n PROVE r[k + b].do = "unlessThere"
    <3>1. i + b \in 1..n /\ i + b <= n /\ k + b = m + (i + b) BY <1>1, <1>3, <2>1, <2>5
    <3>2. r[m + (i + b)] = q[i + b] BY <1>2, <3>1
    <3> QED BY <2>3, <3>1, <3>2
  <2>6. ASSUME NEW j \in k..(k + b - 1), r[j].do = "record", r[j].x \in Symbols
        PROVE  r[j].x = r[k].x
    <3> DEFINE h == j - m
    <3>1. h \in i..(i + b - 1) /\ h \in 1..n /\ j = m + h BY <1>1, <1>3, <2>1, <2>3
    <3> HIDE DEF h
    <3>2. r[j] = q[h] BY <1>2, <3>1
    <3> QED BY <2>2, <2>3, <2>6, <3>1, <3>2
  <2> QED BY <2>4, <2>5, <2>6
<1> QED BY <1>1, <1>4, <1>5

\* The steps of the tasks for mocks: each part of a program starts with "make" or
\* with "unlessThere".
Starts == {"make", "unlessThere"}

MockSteps(start) ==
  {s \in Steps : /\ s.do \in {"make", "record", "verify", start}
                 /\ s.do = "make" => s.x \notin ProxyKeys \cup Impls}

Mint == "MintableERC721"

LEMMA MockMoves ==
  ASSUME NEW start \in Starts
  PROVE
  /\ Move("record", Mint).do = "record" /\ Move("record", Mint).x = Mint
  /\ Move("make", Mint).do = "make" /\ Move("make", Mint).x = Mint
  /\ Mint \in ContractKeys /\ Mint \notin ProxyKeys \cup Impls \cup Symbols \cup {ReceiverV2}
  /\ \A key \in ContractKeys :
       key \notin ProxyKeys \cup Impls =>
         Move("make", key) \in MockSteps(start) /\ Move("record", key) \in MockSteps(start)
  /\ TheAsk \in MockSteps(start) /\ TheAsk.do = "verify"
  /\ \A s \in Symbols : /\ Move("record", s) \in MockSteps(start)
                        /\ start = "unlessThere" => Move("unlessThere", s) \in MockSteps(start)
                        /\ Move("record", s).do = "record" /\ Move("record", s).x = s
                        /\ Move("unlessThere", s).do = "unlessThere"
                        /\ Move("unlessThere", s).x = s
<1>1. /\ \A do, x : Move(do, x).do = do /\ Move(do, x).x = x BY MoveIs
<1>2. Mint \in PlainKeys BY DEF Mint, PlainKeys
<1>3. Mint \in ContractKeys BY <1>2 DEF ContractKeys
<1>4. Impls = {"BoundPunkGatewayImpl", "AirdropDistributionImpl", "UserFlashclaimRegistryV3Impl"}
  BY DEF Impls, ProxyKeys, Impl
<1>5. Mint \notin ProxyKeys \cup Impls \cup {ReceiverV2}
  BY <1>4 DEF Mint, ProxyKeys, ReceiverV2
<1>6. Mint \notin Symbols BY <1>3, Names
<1>7. \A key \in ContractKeys : Move("make", key) \in Steps /\ Move("record", key) \in Steps
  BY MovesAre, Names
<1>8. \A s \in Symbols : Move("record", s) \in Steps /\ Move("unlessThere", s) \in Steps
  BY MovesAre, Names
<1>9. TheAsk \in Steps /\ TheAsk.do = "verify" BY MovesAre, <1>1 DEF TheAsk
<1>10. ASSUME NEW key \in ContractKeys, key \notin ProxyKeys \cup Impls
       PROVE  Move("make", key) \in MockSteps(start) /\ Move("record", key) \in MockSteps(start)
  BY <1>1, <1>7, <1>10 DEF MockSteps
<1>11. TheAsk \in MockSteps(start) BY <1>9 DEF MockSteps
<1>12. ASSUME NEW s \in Symbols
       PROVE  /\ Move("record", s) \in MockSteps(start)
              /\ start = "unlessThere" => Move("unlessThere", s) \in MockSteps(start)
  BY <1>1, <1>8 DEF MockSteps
<1> QED BY <1>1, <1>3, <1>5, <1>6, <1>9, <1>10, <1>11, <1>12

\* The part of a program for one collection.
MockPart(name, flag, start, p, s) ==
  \E f \in MockSteps(start) :
    /\ f.do = start /\ Blocks(flag, p)
    /\ Piece(name, p, f, {Move("record", s)}, {Move("record", s)}, MockSteps(start))

\* Parts for all collections make a program.
LEMMA PartsReady ==
  ASSUME NEW name \in Mocks, NEW flag, NEW start \in Starts, NEW c,
         Len(c) = Len(SymbolList),
         \A i \in 1..Len(SymbolList) : MockPart(name, flag, start, c[i], SymbolList[i])
  PROVE  Ready(name, flag, FlattenSeq(c))
<1> DEFINE list == SymbolList
           n == Len(list)
           R(i) == Move("record", list[i])
           Saved(i) == {R(j) : j \in 1..i}
           A == MockSteps(start)
           d == FlattenSeq(c)
<1>1. /\ n \in Nat /\ n # 0 /\ \A i \in 1..n : list[i] \in Symbols
      /\ \A s \in Symbols : \E i \in 1..n : list[i] = s
  BY SymbolListIs
<1>2. /\ name # Receiver /\ KeyOf(name) = "call" /\ KeyOf(name) \notin ProxyKeys
  BY TaskNames
<1>3. PICK g : /\ d = g[n] /\ g[1] = c[1] /\ \A i \in 2..n : g[i] = g[i - 1] \o c[i]
  <2>1. Len(c) \in Nat /\ Len(c) # 0 /\ Len(c) = n BY <1>1
  <2> HIDE DEF n, d
  <2>2. \E g : /\ FlattenSeq(c) = g[Len(c)] /\ g[1] = c[1]
               /\ \A i \in 2..Len(c) : g[i] = g[i - 1] \o c[i]
    BY <2>1, Flattened
  <2> QED BY <2>1, <2>2 DEF d
<1>4. \A i \in 1..n : R(i).do = "record" /\ R(i).x = list[i] BY MoveIs
<1>5. \A i \in 1..n : MockPart(name, flag, start, c[i], list[i]) OBVIOUS
<1>6. \A m \in A : /\ m.do \in {"make", "record", "verify", start}
                   /\ m.do = "make" => m.x \notin ProxyKeys \cup Impls
  BY DEF MockSteps
<1> HIDE DEF n, list, A, d
<1> DEFINE P(i) == /\ \E f \in A : f.do = start /\ Piece(name, g[i], f, {R(i)}, Saved(i), A)
                   /\ Blocks(flag, g[i])
           Bad == {i \in 1..n : ~P(i)}
<1>7. Bad = {}
  <2> SUFFICES ASSUME Bad # {} PROVE FALSE OBVIOUS
  <2>1. PICK m \in Bad : \A k \in Bad : m <= k
    <3>1. Bad \subseteq Nat BY <1>1
    <3> HIDE DEF Bad
    <3> QED BY <3>1, Least
  <2>2. m \in 1..n /\ ~P(m) BY <2>1
  <2>3. PICK f \in A : /\ f.do = start /\ Blocks(flag, c[m])
                       /\ Piece(name, c[m], f, {R(m)}, {R(m)}, A)
    BY <1>5, <2>2 DEF MockPart, A
  <2>4. CASE m = 1
    <3>1. g[m] = c[m] BY <1>3, <2>4
    <3>2. {R(m)} = Saved(m) BY <2>4
    <3>3. Piece(name, g[m], f, {R(m)}, Saved(m), A)
      <4> HIDE DEF R, Saved
      <4> QED BY <2>3, <3>1, <3>2
    <3> QED BY <2>2, <2>3, <3>1, <3>3
  <2>5. CASE m # 1
    <3>1. m \in 2..n /\ m - 1 \in 1..n /\ ~(m <= m - 1) BY <1>1, <2>2, <2>5
    <3>2. m - 1 \notin Bad
      <4> HIDE DEF Bad
      <4> QED BY <2>1, <3>1
    <3>3. P(m - 1) BY <3>1, <3>2
    <3> DEFINE p == g[m - 1]
               q == c[m]
               ls == {R(m - 1)}
               ms == {R(m)}
               a == Saved(m - 1)
    <3>4. PICK h \in A : h.do = start /\ Piece(name, p, h, ls, a, A) BY <3>3
    <3>5. Blocks(flag, p) BY <3>3
    <3>6. Piece(name, q, f, ms, ms, A) BY <2>3
    <3>7. g[m] = p \o q BY <1>3, <3>1
    <3>8. \A l \in ls : Follows(name, l, f)
      <4>1. R(m - 1).do = "record" BY <1>4, <3>1
      <4>2. f.do = "make" => f.x # Impl(KeyOf(name)) BY <1>2, <1>6, ImplOther
      <4>3. f.do \in {"make", "unlessThere"} BY <2>3 DEF Starts
      <4> HIDE DEF R
      <4> QED BY <1>2, <4>1, <4>2, <4>3 DEF Follows
    <3>9. a \cup ms = Saved(m)
      <4>1. 1..m = 1..(m - 1) \cup {m} BY <3>1
      <4> QED BY <4>1
    <3>10. Blocks(flag, p \o q)
      <4>1. /\ p \in Seq(Steps) /\ Range(p) \subseteq A
            /\ q \in Seq(Steps) /\ q # << >> /\ q[1] = f
        BY <3>4, <3>6 DEF Piece
      <4>2. q[1].do = "unlessThere" \/ \A s \in Range(p) : s.do # "unlessThere"
        BY <1>6, <2>3, <4>1 DEF Starts
      <4>3. Blocks(flag, q) BY <2>3
      <4> HIDE DEF p, q
      <4> QED BY <3>5, <4>1, <4>2, <4>3, BlocksJoined
    <3>11. Piece(name, p \o q, h, ms, Saved(m), A)
      <4> HIDE DEF p, q, ls, ms, a, Saved, R
      <4>1. Piece(name, p \o q, h, ms, a \cup ms, A \cup A) BY <1>2, <3>4, <3>6, <3>8, Joined
      <4>2. A \cup A = A OBVIOUS
      <4> QED BY <3>9, <4>1, <4>2
    <3> QED BY <2>2, <3>4, <3>7, <3>10, <3>11
  <2> QED BY <2>4, <2>5
<1>8. P(n)
  <2>1. n \in 1..n BY <1>1
  <2> QED BY <1>7, <2>1
<1>9. PICK f \in A : f.do = start /\ Piece(name, d, f, {R(n)}, Saved(n), A) BY <1>3, <1>8
<1>10. Blocks(flag, d) BY <1>3, <1>8
<1>11. /\ d \in Seq(Steps) /\ d # << >> /\ Linked(name, d) /\ Ordered(name, d)
       /\ d[1] = f /\ d[Len(d)] \in {R(n)} /\ Saved(n) \subseteq Range(d) /\ Range(d) \subseteq A
  <2> HIDE DEF R, Saved, P, Bad
  <2> QED BY <1>9 DEF Piece
<1>12. Finished(name, d)
  <2>1. n \in 1..n BY <1>1
  <2>2. d[Len(d)].do = "record" BY <1>4, <1>11, <2>1
  <2> QED BY <1>2, <2>2 DEF Finished, Unfinished
<1>13. \A s \in A : Proper(name, s) /\ Founded(ledger, name, s)
  <2> SUFFICES ASSUME NEW s \in A PROVE Proper(name, s) /\ Founded(ledger, name, s) OBVIOUS
  <2>1. s.do \in {"make", "record", "verify", "unlessThere"} BY <1>6 DEF Starts
  <2>2. s.do = "make" => s.x \notin ProxyKeys BY <1>6
  <2> QED BY <1>2, <2>1, <2>2 DEF Proper, Founded
<1>14. Fits(ledger, name, flag, d) BY <1>10, <1>11, <1>12, <1>13 DEF Fits
<1>15. \A s \in Symbols : \E m \in Range(d) : m.do = "record" /\ m.x = s
  <2> SUFFICES ASSUME NEW s \in Symbols PROVE \E m \in Range(d) : m.do = "record" /\ m.x = s
    OBVIOUS
  <2>1. PICK i \in 1..n : list[i] = s BY <1>1
  <2>2. R(i) \in Saved(n) OBVIOUS
  <2>3. R(i).do = "record" /\ R(i).x = s BY <1>4, <2>1
  <2> HIDE DEF R, Saved
  <2> QED BY <1>11, <2>2, <2>3
<1>16. d[1].do \in {"make", "enlist", "find", "unlessThere"} BY <1>9, <1>11 DEF Starts
<1>17. Ready(name, flag, d)
  <2> HIDE DEF R, Saved, P, Bad
  <2> QED BY <1>2, <1>11, <1>14, <1>15, <1>16 DEF Ready
<1> QED BY <1>17 DEF d

LEMMA MockPiece ==
  ASSUME NEW name \in Mocks, NEW key \in ContractKeys, key \notin ProxyKeys \cup Impls, NEW flag,
         NEW start \in Starts
  PROVE  Piece(name, Plain(key, flag), Move("make", key), {Move("record", key), TheAsk}, {},
               MockSteps(start))
<1> DEFINE s == Move("make", key)
           t == Move("record", key)
           p == Plain(key, flag)
<1>1. Piece(name, p, s, {t, TheAsk}, {s}, {s, t, TheAsk}) BY PlainPiece
<1>2. s \in MockSteps(start) /\ t \in MockSteps(start) /\ TheAsk \in MockSteps(start)
  BY MockMoves
<1> HIDE DEF s, t, p
<1>3. Piece(name, p, s, {t, TheAsk}, {}, MockSteps(start)) BY <1>1, <1>2 DEF Piece
<1> QED BY <1>3 DEF s, t, p

LEMMA SavedPiece ==
  ASSUME NEW name \in Mocks, NEW start \in Starts, NEW p, NEW f, NEW ls, NEW a,
         Piece(name, p, f, ls, a, MockSteps(start)),
         \A l \in ls : l.do \in {"record", "verify"} /\ (l.do = "record" => l.x \notin Symbols),
         NEW s \in Symbols
  PROVE  Piece(name, p \o <<Move("record", s)>>, f, {Move("record", s)}, {Move("record", s)},
               MockSteps(start))
<1> DEFINE t == Move("record", s)
           q == <<t>>
           A == MockSteps(start)
           b == {t}
<1>1. t \in A /\ t.do = "record" /\ t.x = s BY MockMoves
<1>2. s \notin Impls \cup {ReceiverV2} BY Names
<1>3. name # Receiver /\ KeyOf(name) \notin ProxyKeys BY TaskNames
<1>4. t \in Steps /\ b \subseteq A BY <1>1 DEF MockSteps
<1> HIDE DEF t
<1>5. Piece(name, q, t, b, b, b) BY <1>4, OneStep
<1>6. \A l \in ls : Follows(name, l, t) BY <1>1, <1>2, <1>3 DEF Follows
<1> HIDE DEF A, b, q
<1>7. Piece(name, p, f, ls, a, A) BY DEF A
<1>8. Piece(name, p \o q, f, b, a \cup b, A \cup b) BY <1>3, <1>5, <1>6, <1>7, Joined
<1>9. Piece(name, p \o q, f, b, b, A) BY <1>4, <1>8 DEF Piece
<1> QED BY <1>9 DEF A, b, q, t

LEMMA MockNftPart ==
  ASSUME NEW name \in Mocks, NEW flag, NEW s \in Symbols
  PROVE  MockPart(name, flag, "make", MockNft(s, flag), s)
<1> DEFINE start == "make"
           A == MockSteps(start)
           market == "CryptoPunksMarket"
           wrapped == "WrappedPunk"
           t == Move("record", s)
           Made(key, f, p) ==
             /\ key \in ContractKeys /\ key \notin ProxyKeys \cup Impls
             /\ f \in A /\ f.do = "make"
             /\ Piece(name, p, f, {Move("record", key), TheAsk}, {}, A)
<1>1. start \in Starts BY DEF Starts
<1>2. /\ market \in ContractKeys /\ market \notin ProxyKeys \cup Impls
      /\ wrapped \in ContractKeys /\ wrapped \notin ProxyKeys \cup Impls
  <2>1. Impls = {"BoundPunkGatewayImpl", "AirdropDistributionImpl", "UserFlashclaimRegistryV3Impl"}
    BY DEF Impls, ProxyKeys, Impl
  <2>2. market \in PlainKeys /\ wrapped \in PlainKeys BY DEF PlainKeys
  <2> QED BY <2>1, <2>2 DEF ContractKeys, ProxyKeys
<1>3. Mint \in ContractKeys /\ Mint \notin ProxyKeys \cup Impls BY <1>1, MockMoves
<1>4. ASSUME NEW key \in ContractKeys, key \notin ProxyKeys \cup Impls
      PROVE  Made(key, Move("make", key), Plain(key, flag))
  <2> HIDE DEF start
  <2>1. Piece(name, Plain(key, flag), Move("make", key), {Move("record", key), TheAsk}, {}, A)
    BY <1>1, <1>4, MockPiece
  <2>2. Move("make", key) \in A /\ Move("make", key).do = "make" BY <1>1, <1>4, MockMoves, MoveIs
  <2> QED BY <1>4, <2>1, <2>2
<1>5. ASSUME NEW key, NEW f, NEW p, Made(key, f, p), MockNft(s, flag) = p \o <<t>>
      PROVE  MockPart(name, flag, start, MockNft(s, flag), s)
  <2> DEFINE ls == {Move("record", key), TheAsk}
             d == p \o <<t>>
  <2>1. key \notin Symbols BY <1>5, Names
  <2>2. \A l \in ls : l.do \in {"record", "verify"} /\ (l.do = "record" => l.x \notin Symbols)
    BY <2>1, MoveIs DEF TheAsk
  <2>3. Piece(name, p, f, ls, {}, A) BY <1>5
  <2> HIDE DEF start, ls
  <2>4. Piece(name, d, f, {t}, {t}, A) BY <1>1, <2>2, <2>3, SavedPiece
  <2> HIDE DEF d, t
  <2>5. Range(d) \subseteq A BY <2>4 DEF Piece
  <2>6. \A m \in A : m.do # "unlessThere" BY DEF MockSteps, start
  <2>7. Blocks(flag, d) BY <2>5, <2>6, Unblocked
  <2>8. f \in A /\ f.do = start BY <1>5 DEF start
  <2>9. MockPart(name, flag, start, d, s) BY <2>4, <2>7, <2>8 DEF MockPart, t
  <2> QED BY <1>5, <2>9 DEF d
<1>6. CASE s # "WPUNKS"
  <2>1. MockNft(s, flag) = Plain(Mint, flag) \o <<t>> BY <1>6 DEF MockNft, Mint
  <2> HIDE DEF Made
  <2>2. Made(Mint, Move("make", Mint), Plain(Mint, flag)) BY <1>3, <1>4
  <2> QED BY <1>5, <2>1, <2>2
<1>7. CASE s = "WPUNKS"
  <2> DEFINE p == Plain(market, flag)
             q == Plain(wrapped, flag)
             f == Move("make", market)
             g == Move("make", wrapped)
             ls == {Move("record", market), TheAsk}
             ms == {Move("record", wrapped), TheAsk}
             o == {}
  <2>1. MockNft(s, flag) = (p \o q) \o <<t>> BY <1>7 DEF MockNft
  <2>2. Made(market, f, p) /\ Made(wrapped, g, q)
    <3> HIDE DEF Made
    <3> QED BY <1>2, <1>4
  <2>3. \A l \in ls : Follows(name, l, g)
    <3>1. g.do = "make" /\ g.x = wrapped /\ wrapped # Impl(KeyOf(name))
      <4>1. Impl(KeyOf(name)) \in Impls BY TaskNames, ImplOther
      <4> QED BY <1>2, <4>1, MoveIs
    <3>2. \A l \in ls : /\ l.do \in {"record", "verify"}
                        /\ l.do = "record" => l.x \notin Symbols
      <4>1. market \notin Symbols BY <1>2, Names
      <4> QED BY <4>1, MoveIs DEF TheAsk
    <3>3. name # Receiver /\ KeyOf(name) \notin ProxyKeys BY TaskNames
    <3> HIDE DEF ls, g
    <3> QED BY <3>1, <3>2, <3>3 DEF Follows
  <2>4. KeyOf(name) \notin ProxyKeys BY TaskNames
  <2>5. Piece(name, p, f, ls, o, A) /\ Piece(name, q, g, ms, o, A) /\ f \in A /\ f.do = "make"
    BY <2>2
  <2>6. Piece(name, p \o q, f, ms, o, A)
    <3> HIDE DEF p, q, f, g, ls, ms, o, A
    <3>1. Piece(name, p \o q, f, ms, o \cup o, A \cup A) BY <2>3, <2>4, <2>5, Joined
    <3>2. o \cup o = o /\ A \cup A = A OBVIOUS
    <3> QED BY <3>1, <3>2
  <2>7. Made(wrapped, f, p \o q)
    <3> HIDE DEF p, q, f, A
    <3> QED BY <1>2, <2>5, <2>6
  <2> HIDE DEF Made, p, q, f
  <2> QED BY <1>5, <2>1, <2>7
<1> QED BY <1>6, <1>7

LEMMA AddNftPart ==
  ASSUME NEW name \in Mocks, NEW flag, NEW s \in Symbols
  PROVE  MockPart(name, flag, "unlessThere", AddNft(s, flag), s)
<1> DEFINE start == "unlessThere"
           A == MockSteps(start)
           u == Move("unlessThere", s)
           m == Move("make", Mint)
           r == Move("record", Mint)
           t == Move("record", s)
           o == <<u>>
           q == Plain(Mint, flag)
           ls == {r, TheAsk}
           d == (o \o q) \o <<t>>
           b == {u}
           c == {m}
           B == {m, r, TheAsk}
<1>1. start \in Starts BY DEF Starts
<1>2. /\ Mint \in ContractKeys /\ Mint \notin ProxyKeys \cup Impls /\ Mint \notin Symbols
      /\ u \in A /\ u.do = "unlessThere" /\ u.x = s /\ t \in A /\ t.do = "record" /\ t.x = s
      /\ m \in A /\ m.do = "make" /\ m.x = Mint /\ r \in A /\ r.do = "record" /\ r.x = Mint
      /\ TheAsk \in A /\ TheAsk.do = "verify"
  <2> HIDE DEF start
  <2>1. start = "unlessThere" BY DEF start
  <2> QED BY <1>1, <2>1, MockMoves
<1>3. /\ KeyOf(name) \notin ProxyKeys /\ Mint # Impl(KeyOf(name)) /\ name # Receiver
  BY <1>2, TaskNames, ImplOther
<1>4. Piece(name, q, m, ls, c, B) BY <1>2, PlainPiece
<1>5. u \in Steps /\ A \subseteq Steps BY <1>2 DEF MockSteps
<1>6. AddNft(s, flag) = d BY DEF AddNft, Mint
<1> HIDE DEF u, m, r, t, q
<1>7. Piece(name, o, u, b, b, b)
  <2>1. u \in Steps BY <1>5
  <2> QED BY <2>1, OneStep
<1>8. \A l \in b : Follows(name, l, m) BY <1>2, <1>3 DEF Follows
<1>9. Piece(name, o \o q, u, ls, b \cup c, b \cup B)
  <2> HIDE DEF o, b, ls, c, B
  <2> QED BY <1>3, <1>4, <1>7, <1>8, Joined
<1>10. Piece(name, o \o q, u, ls, {}, A)
  <2>1. b \cup B \subseteq A BY <1>2
  <2> HIDE DEF o, b, ls, c, B, A
  <2> QED BY <1>9, <2>1 DEF Piece
<1>11. Piece(name, d, u, {t}, {t}, A)
  <2>1. \A l \in ls : l.do \in {"record", "verify"} /\ (l.do = "record" => l.x \notin Symbols)
    BY <1>2
  <2> HIDE DEF o, ls, start
  <2> QED BY <1>1, <1>10, <2>1, SavedPiece DEF t
<1>12. Range(d) = {u} \cup Range(q) \cup {t}
  <2>1. q \in Seq(Steps) /\ o \in Seq(Steps) /\ <<t>> \in Seq(Steps) BY <1>2, <1>4, <1>5 DEF Piece
  <2>2. o \o q \in Seq(Steps) BY <2>1
  <2>3. Range(o \o q) = Range(o) \cup Range(q) BY <2>1, RangeConcatenation
  <2>4. Range(d) = Range(o \o q) \cup Range(<<t>>)
    <3> HIDE DEF o
    <3> QED BY <2>1, <2>2, RangeConcatenation
  <2>5. Range(o) = {u} /\ Range(<<t>>) = {t} BY DEF Range
  <2> QED BY <2>3, <2>4, <2>5
<1>13. Len(d) = BlockLength(flag) BY <1>6, AddNftLength
<1>14. Blocks(flag, d)
  <2>1. d \in Seq(Steps) /\ d[1] = u BY <1>11 DEF Piece
  <2>2. Len(d) \in Nat /\ DOMAIN d = 1..Len(d) BY <2>1
  <2>3. Range(q) \subseteq B BY <1>4 DEF Piece
  <2>4. \A k \in DOMAIN d : k # 1 => d[k].do # "unlessThere"
    <3>1. q \in Seq(Steps) BY <1>4 DEF Piece
    <3>2. \A k \in 2..Len(d) : d[k] \in Range(q) \cup {t}
      <4>1. Len(q) \in Nat /\ Len(d) = Len(q) + 2 BY <3>1
      <4>2. \A k \in 2..(Len(q) + 1) : d[k] = q[k - 1] BY <3>1
      <4>3. d[Len(q) + 2] = t BY <3>1
      <4> HIDE DEF d
      <4> SUFFICES ASSUME NEW k \in 2..Len(d) PROVE d[k] \in Range(q) \cup {t} OBVIOUS
      <4>4. CASE k = Len(q) + 2 BY <4>3, <4>4
      <4>5. CASE k # Len(q) + 2
        <5>1. k \in 2..(Len(q) + 1) /\ k - 1 \in 1..Len(q) BY <4>1, <4>5
        <5>2. q[k - 1] \in Range(q) BY <3>1, <5>1 DEF Range
        <5> QED BY <4>2, <5>1, <5>2
      <4> QED BY <4>4, <4>5
    <3>3. \A x \in Range(q) \cup {t} : x.do # "unlessThere" BY <1>2, <2>3
    <3> HIDE DEF d
    <3> QED BY <2>2, <3>2, <3>3
  <2>5. \A k \in DOMAIN d : d[k].do = "record" /\ d[k].x \in Symbols => d[k].x = s
    <3>1. \A x \in {u} \cup Range(q) \cup {t} : x.do = "record" /\ x.x \in Symbols => x.x = s
      BY <1>2, <2>3
    <3> HIDE DEF d
    <3> QED BY <1>12, <3>1 DEF Range
  <2> HIDE DEF d
  <2> SUFFICES ASSUME NEW k \in DOMAIN d, d[k].do = "unlessThere"
               PROVE  /\ k + BlockLength(flag) <= Len(d) + 1
                      /\ k + BlockLength(flag) <= Len(d) =>
                           d[k + BlockLength(flag)].do = "unlessThere"
                      /\ \A j \in k..(k + BlockLength(flag) - 1) :
                           d[j].do = "record" /\ d[j].x \in Symbols => d[j].x = d[k].x
    BY DEF Blocks
  <2>6. k = 1 BY <2>4
  <2>7. d[k].x = s BY <1>2, <2>1, <2>6
  <2>8. \A j \in k..(k + BlockLength(flag) - 1) : j \in DOMAIN d BY <1>13, <2>2, <2>6
  <2> QED BY <1>13, <2>2, <2>5, <2>6, <2>7, <2>8
<1> HIDE DEF d, A
<1>15. MockPart(name, flag, start, d, s)
  BY <1>2, <1>11, <1>14 DEF MockPart, A, t
<1> QED BY <1>6, <1>15

MocksOf(flag) == FlattenSeq([k \in DOMAIN SymbolList |-> MockNft(SymbolList[k], flag)])
AddedOf(flag) == FlattenSeq([k \in DOMAIN SymbolList |-> AddNft(SymbolList[k], flag)])

LEMMA MocksReady ==
  ASSUME NEW name \in Mocks, NEW flag
  PROVE  Ready(name, flag, MocksOf(flag)) /\ Ready(name, flag, AddedOf(flag))
<1> DEFINE list == SymbolList
           n == Len(list)
           c == [k \in DOMAIN list |-> MockNft(list[k], flag)]
           d == [k \in DOMAIN list |-> AddNft(list[k], flag)]
<1>1. n \in Nat /\ DOMAIN list = 1..n /\ \A i \in 1..n : list[i] \in Symbols BY SymbolListIs
<1>2. Len(c) = n /\ Len(d) = n BY <1>1
<1>3. \A i \in 1..n : MockPart(name, flag, "make", c[i], list[i]) BY <1>1, MockNftPart
<1>4. \A i \in 1..n : MockPart(name, flag, "unlessThere", d[i], list[i]) BY <1>1, AddNftPart
<1>5. "make" \in Starts /\ "unlessThere" \in Starts BY DEF Starts
<1>6. MocksOf(flag) = FlattenSeq(c) /\ AddedOf(flag) = FlattenSeq(d)
  BY DEF MocksOf, AddedOf
<1> HIDE DEF c, d
<1>7. Ready(name, flag, FlattenSeq(c)) BY <1>2, <1>3, <1>5, PartsReady
<1>8. Ready(name, flag, FlattenSeq(d)) BY <1>2, <1>4, <1>5, PartsReady
<1> QED BY <1>6, <1>7, <1>8

-----------------------------------------------------------------------------
\* The programs that only look at what is there.

Look == {s \in Steps : s.do \in {"find", "verify"}}

LEMMA LookReady ==
  ASSUME NEW name, ~Tells(name), NEW flag, NEW p, p \in Seq(Look), p # << >>
  PROVE  Ready(name, flag, p)
<1>1. Look \subseteq Steps BY DEF Look
<1>2. p \in Seq(Steps) BY <1>1
<1>3. Range(p) \subseteq Look BY DEF Range
<1>4. Looks(p) BY <1>3 DEF Looks, Look
<1> QED BY <1>2, <1>4 DEF Ready, Fits, Tells

LEMMA LookMoves ==
  /\ Ask \in Seq(Look) /\ Len(Ask) = 1
  /\ \A key \in Keys : Check(key) \in Seq(Look) /\ Len(Check(key)) = 2
<1>1. Move("verify", None) \in Look BY MovesAre, MoveIs DEF Look
<1>2. \A key \in Keys : Move("find", key) \in Look BY MovesAre, MoveIs DEF Look
<1>3. Ask \in Seq(Look) /\ Len(Ask) = 1 BY <1>1 DEF Ask
<1>4. ASSUME NEW key \in Keys PROVE Check(key) \in Seq(Look) /\ Len(Check(key)) = 2
  BY <1>1, <1>2 DEF Check
<1> QED BY <1>3, <1>4

LEMMA Longer ==
  ASSUME NEW p \in Seq(Look), NEW q \in Seq(Look)
  PROVE  /\ p \o q \in Seq(Look)
         /\ Len(p) # 0 \/ Len(q) # 0 => Len(p \o q) # 0 /\ p \o q # << >>
<1>1. p \o q \in Seq(Look) /\ Len(p \o q) = Len(p) + Len(q) OBVIOUS
<1>2. Len(p) \in Nat /\ Len(q) \in Nat OBVIOUS
<1>3. Len(p) # 0 \/ Len(q) # 0 => Len(p \o q) # 0 BY <1>1, <1>2
<1> QED BY <1>1, <1>3

LEMMA NotEmpty == ASSUME NEW p, Len(p) # 0 PROVE p # << >>
OBVIOUS

AskBNFTs  == FlattenSeq([k \in DOMAIN [b \in 1..Bound |-> b] |-> Ask])
FindMocks == FlattenSeq([k \in DOMAIN SymbolList |-> <<Move("find", SymbolList[k])>>])
AskMocks  == FlattenSeq([k \in DOMAIN SymbolList |-> Ask])

LEMMA EachLooks == AskBNFTs \in Seq(Look) /\ FindMocks \in Seq(Look) /\ AskMocks \in Seq(Look)
<1> DEFINE n == Len(SymbolList)
           one == [b \in 1..Bound |-> b]
           c == [k \in DOMAIN one |-> Ask]
           d == [k \in DOMAIN SymbolList |-> <<Move("find", SymbolList[k])>>]
           e == [k \in DOMAIN SymbolList |-> Ask]
<1>1. /\ n \in Nat /\ n # 0 /\ DOMAIN SymbolList = 1..n
      /\ \A i \in 1..n : SymbolList[i] \in Symbols
  BY SymbolListIs
<1>2. AskBNFTs = FlattenSeq(c) /\ FindMocks = FlattenSeq(d) /\ AskMocks = FlattenSeq(e)
  BY DEF AskBNFTs, FindMocks, AskMocks
<1>3. Ask \in Seq(Look) BY LookMoves
<1>4. \A s \in Symbols : <<Move("find", s)>> \in Seq(Look)
  <2> SUFFICES ASSUME NEW s \in Symbols PROVE <<Move("find", s)>> \in Seq(Look) OBVIOUS
  <2>1. Move("find", s) \in Look BY MovesAre, MoveIs, Names DEF Look
  <2> QED BY <2>1
<1>5. Bound \in Nat BY ProxyConstants
<1>6. c \in Seq(Seq(Look)) /\ Len(c) = Bound /\ \A i \in 1..Bound : c[i] \in Seq(Look) BY <1>3, <1>5
<1>7. Len(d) = n /\ \A i \in 1..n : d[i] \in Seq(Look) BY <1>1, <1>4
<1>8. Len(e) = n /\ \A i \in 1..n : e[i] \in Seq(Look) BY <1>1, <1>3
<1>9. FlattenSeq(c) \in Seq(Look)
  <2>1. CASE Bound = 0
    <3> HIDE DEF c
    <3>1. c = << >> BY <1>6, <2>1
    <3>2. FlattenSeq(c) = c BY <1>6, <2>1 DEF FlattenSeq
    <3>3. << >> \in Seq(Look) BY EmptySeq
    <3> QED BY <3>1, <3>2, <3>3
  <2>2. CASE Bound # 0
    <3> HIDE DEF c
    <3> QED BY <1>5, <1>6, <2>2, FlattenedSeq
  <2> QED BY <2>1, <2>2
<1> HIDE DEF c, d, e
<1>10. FlattenSeq(d) \in Seq(Look) BY <1>1, <1>7, FlattenedSeq
<1>11. FlattenSeq(e) \in Seq(Look) BY <1>1, <1>8, FlattenedSeq
<1> QED BY <1>2, <1>9, <1>10, <1>11

LEMMA VerifyReady ==
  ASSUME NEW name, ~Tells(name), NEW flag
  PROVE  /\ Ready(name, flag, VerifyGeneral) /\ Ready(name, flag, VerifyBNFT)
         /\ Ready(name, flag, VerifyFlashclaimV2) /\ Ready(name, flag, VerifyFlashclaimV3)
         /\ Ready(name, flag, Ask)
         /\ \A key \in Keys : Ready(name, flag, Check(key))
<1>1. {"BoundPunkGatewayImpl", "BoundPunkGateway", "AirdropFlashLoanReceiver",
       "AirdropFlashLoanReceiverV2", "UserFlashclaimRegistryV2",
       "UserFlashclaimRegistryV3Impl", "UserFlashclaimRegistryV3"} \subseteq Keys
  <2>1. {"BoundPunkGatewayImpl", "UserFlashclaimRegistryV3Impl"} \subseteq Impls
    BY DEF Impls, Impl, ProxyKeys
  <2>2. Impls \subseteq Keys /\ PlainKeys \subseteq Keys /\ ProxyKeys \subseteq Keys
    BY DEF Impls, Keys, ContractKeys
  <2> QED BY <2>1, <2>2 DEF PlainKeys, ProxyKeys
<1> DEFINE g == Check("BoundPunkGatewayImpl")
           h == Check("BoundPunkGateway")
           r == Check("AirdropFlashLoanReceiver")
           t == Check("AirdropFlashLoanReceiverV2")
           u == Check("UserFlashclaimRegistryV2")
           v == Check("UserFlashclaimRegistryV3Impl")
           w == Check("UserFlashclaimRegistryV3")
           e == AskBNFTs
<1>2. /\ g \in Seq(Look) /\ h \in Seq(Look) /\ r \in Seq(Look) /\ t \in Seq(Look)
      /\ u \in Seq(Look) /\ v \in Seq(Look) /\ w \in Seq(Look)
      /\ Len(t) # 0 /\ Len(v) # 0
  <2>1. \A key \in Keys : Check(key) \in Seq(Look) /\ Len(Check(key)) # 0 BY LookMoves
  <2> QED BY <1>1, <2>1
<1>3. e \in Seq(Look) BY EachLooks
<1>4. Ask \in Seq(Look) /\ Len(Ask) # 0 BY LookMoves
<1>5. /\ VerifyGeneral = Ask \o Ask \o Ask \o Ask \o Ask \o e \o g \o h
      /\ VerifyBNFT = Ask \o r /\ VerifyFlashclaimV2 = t \o u \o Ask
      /\ VerifyFlashclaimV3 = v \o w \o Ask
  BY DEF VerifyGeneral, VerifyBNFT, VerifyFlashclaimV2, VerifyFlashclaimV3, Each, AskBNFTs
<1> HIDE DEF e, g, h, r, t, u, v, w
<1>6. Ready(name, flag, Ask)
  <2>1. Ask # << >> BY <1>4, NotEmpty
  <2> QED BY <1>4, <2>1, LookReady
<1>7. ASSUME NEW key \in Keys PROVE Ready(name, flag, Check(key))
  <2>1. Check(key) \in Seq(Look) /\ Len(Check(key)) # 0 BY LookMoves
  <2>2. Check(key) # << >> BY <2>1, NotEmpty
  <2> QED BY <2>1, <2>2, LookReady
<1>8. Ready(name, flag, VerifyBNFT)
  <2>1. Ask \o r \in Seq(Look) /\ Ask \o r # << >> BY <1>2, <1>4, Longer
  <2> QED BY <1>5, <2>1, LookReady
<1>9. Ready(name, flag, VerifyFlashclaimV2)
  <2>1. t \o u \in Seq(Look) /\ Len(t \o u) # 0 BY <1>2, Longer
  <2>2. (t \o u) \o Ask \in Seq(Look) /\ (t \o u) \o Ask # << >> BY <1>4, <2>1, Longer
  <2> QED BY <1>5, <2>2, LookReady
<1>10. Ready(name, flag, VerifyFlashclaimV3)
  <2>1. v \o w \in Seq(Look) /\ Len(v \o w) # 0 BY <1>2, Longer
  <2>2. (v \o w) \o Ask \in Seq(Look) /\ (v \o w) \o Ask # << >> BY <1>4, <2>1, Longer
  <2> QED BY <1>5, <2>2, LookReady
<1>11. Ready(name, flag, VerifyGeneral)
  <2> DEFINE a == Ask \o Ask
             b == a \o Ask
             c == b \o Ask
             d == c \o Ask
             f == d \o e
             i == f \o g
             j == i \o h
  <2>1. a \in Seq(Look) /\ Len(a) # 0 BY <1>4, Longer
  <2> HIDE DEF a
  <2>2. b \in Seq(Look) /\ Len(b) # 0 BY <1>4, <2>1, Longer
  <2> HIDE DEF b
  <2>3. c \in Seq(Look) /\ Len(c) # 0 BY <1>4, <2>2, Longer
  <2> HIDE DEF c
  <2>4. d \in Seq(Look) /\ Len(d) # 0 BY <1>4, <2>3, Longer
  <2> HIDE DEF d
  <2>5. f \in Seq(Look) /\ Len(f) # 0 BY <1>3, <2>4, Longer
  <2> HIDE DEF f
  <2>6. i \in Seq(Look) /\ Len(i) # 0 BY <1>2, <2>5, Longer
  <2> HIDE DEF i
  <2>7. j \in Seq(Look) /\ j # << >> BY <1>2, <2>6, Longer
  <2>8. VerifyGeneral = j BY <1>5 DEF a, b, c, d, f, i
  <2> HIDE DEF j
  <2> QED BY <2>7, <2>8, LookReady
<1> QED BY <1>6, <1>7, <1>8, <1>9, <1>10, <1>11

LEMMA VerifyMocksReady ==
  ASSUME NEW name, ~Tells(name), NEW flag
  PROVE  Ready(name, flag, VerifyMocks)
<1> DEFINE p == FindMocks
           q == AskMocks
<1>1. p \in Seq(Look) /\ q \in Seq(Look) BY EachLooks
<1>2. VerifyMocks = p \o q BY DEF VerifyMocks, Each, FindMocks, AskMocks
<1>3. Len(q) # 0
  <2> DEFINE c == [k \in DOMAIN SymbolList |-> Ask]
             n == Len(SymbolList)
  <2>1. n \in Nat /\ n # 0 /\ DOMAIN SymbolList = 1..n BY SymbolListIs
  <2>2. q = FlattenSeq(c) BY DEF AskMocks
  <2>3. Len(c) = n /\ \A i \in 1..n : c[i] = Ask BY <2>1
  <2> HIDE DEF c, n
  <2>4. PICK g : FlattenSeq(c) = g[n] /\ g[1] = c[1] /\ \A i \in 2..n : g[i] = g[i - 1] \o c[i]
    BY <2>1, <2>3, Flattened
  <2> DEFINE Bad == {i \in 1..n : ~(g[i] \in Seq(Look) /\ Len(g[i]) # 0)}
  <2>5. Bad = {}
    <3> SUFFICES ASSUME Bad # {} PROVE FALSE OBVIOUS
    <3>1. Bad \subseteq Nat BY <2>1
    <3>2. PICK m \in Bad : \A k \in Bad : m <= k
      <4> HIDE DEF Bad
      <4> QED BY <3>1, Least
    <3>3. m \in 1..n BY <3>2
    <3>4. m # 1
      <4>1. 1 \in 1..n BY <2>1
      <4>2. g[1] = Ask BY <2>3, <2>4, <4>1
      <4>3. ~(g[m] \in Seq(Look) /\ Len(g[m]) # 0) BY <3>2
      <4>4. Ask \in Seq(Look) /\ Len(Ask) # 0 BY LookMoves
      <4> QED BY <4>2, <4>3, <4>4
    <3>5. m \in 2..n /\ m - 1 \in 1..n /\ ~(m <= m - 1) BY <2>1, <3>3, <3>4
    <3>6. m - 1 \notin Bad
      <4> HIDE DEF Bad
      <4> QED BY <3>2, <3>5
    <3>7. g[m - 1] \in Seq(Look) /\ Len(g[m - 1]) # 0 BY <3>5, <3>6
    <3>8. g[m] = g[m - 1] \o Ask BY <2>3, <2>4, <3>3, <3>5
    <3>9. g[m - 1] \o Ask \in Seq(Look) /\ Len(g[m - 1] \o Ask) # 0 BY <3>7, LookMoves, Longer
    <3> QED BY <3>2, <3>8, <3>9
  <2>6. n \in 1..n BY <2>1
  <2> QED BY <2>2, <2>4, <2>5, <2>6
<1> HIDE DEF p, q
<1>4. p \o q \in Seq(Look) /\ p \o q # << >> BY <1>1, <1>3, Longer
<1> QED BY <1>2, <1>4, LookReady

-----------------------------------------------------------------------------
\* Every task begins with a program that fits.

LEMMA PlainNames ==
  /\ {"UserFlashclaimRegistry", "UserFlashclaimRegistryV2", "MockFlashLoanReceiver",
      "MockAirdropProject", "MockBNFTMinter"} \subseteq ContractKeys \ (ProxyKeys \cup Impls)
  /\ {"UserFlashclaimRegistry", "AirdropDistributionImpl", "MockAirdropProject"} \subseteq Keys
<1>1. Impls = {"BoundPunkGatewayImpl", "AirdropDistributionImpl", "UserFlashclaimRegistryV3Impl"}
  BY DEF Impls, ProxyKeys, Impl
<1>2. ContractKeys = ProxyKeys \cup Impls \cup AdminKeys \cup PlainKeys BY DEF ContractKeys, Impls
<1>3. {"UserFlashclaimRegistry", "UserFlashclaimRegistryV2", "MockFlashLoanReceiver",
       "MockAirdropProject", "MockBNFTMinter"} \subseteq PlainKeys
  BY DEF PlainKeys
<1>4. {"UserFlashclaimRegistry", "UserFlashclaimRegistryV2", "MockFlashLoanReceiver",
       "MockAirdropProject", "MockBNFTMinter"} \cap (ProxyKeys \cup Impls) = {}
  BY <1>1 DEF ProxyKeys
<1>5. "AirdropDistributionImpl" \in Impls /\ ContractKeys \subseteq Keys BY <1>1, Names
<1> QED BY <1>2, <1>3, <1>4, <1>5

LEMMA ProgramReady ==
  ASSUME ledger \in Seq(Entry), NEW name, NEW conf \in Configured(name), NEW flag
  PROVE  Ready(name, flag, ProxyProgram(name, conf, flag))
<1> DEFINE d == ProxyProgram(name, conf, flag)
<1> SUFFICES Ready(name, flag, d) OBVIOUS
<1>1. \A key \in ConfigKeys(name) :
        /\ conf[key] \in Nat
        /\ conf[key] # 0 /\ key \notin AdminKeys => IsKind(ledger, conf[key], key)
  <2> SUFFICES ASSUME NEW key \in ConfigKeys(name)
               PROVE  /\ conf[key] \in Nat
                      /\ conf[key] # 0 /\ key \notin AdminKeys => IsKind(ledger, conf[key], key)
    OBVIOUS
  <2>1. DOMAIN ledger \subseteq Nat OBVIOUS
  <2>2. /\ conf[key] \in {0} \cup DOMAIN ledger
        /\ conf[key] # 0 /\ key \notin AdminKeys => ledger[conf[key]].kind = key
    BY DEF Configured
  <2> QED BY <2>1, <2>2 DEF IsKind
<1>2. CASE name = "full:deploy-proxy-admin"
  <2> DEFINE x == conf["ProxyAdmin"]
             y == conf["ProxyAdminWithoutTimelock"]
  <2>1. d = Admin("ProxyAdmin", x, flag) \o Admin("ProxyAdminWithoutTimelock", y, flag)
    BY <1>2 DEF ProxyProgram
  <2>2. Apart(name) BY <1>2 DEF Apart, KeyOf, Mocks, Receiver
  <2>3. "ProxyAdmin" \in AdminKeys /\ "ProxyAdminWithoutTimelock" \in AdminKeys BY DEF AdminKeys
  <2>4. ConfigKeys(name) = AdminKeys BY <1>2 DEF ConfigKeys, KeyOf, ProxyKeys
  <2>5. x \in Nat /\ y \in Nat BY <1>1, <2>3, <2>4
  <2> HIDE DEF x, y
  <2> QED BY <2>1, <2>2, <2>3, <2>5, AdminsReady
<1>3. ASSUME KeyOf(name) \in ProxyKeys PROVE Ready(name, flag, d)
  <2>1. d = DeployBehind(KeyOf(name), conf[KeyOf(name)], flag)
    <3>1. name \in {"full:deploy-boundpunk-gateway", "full:deploy-airdrop-distribution",
                    "full:deploy-flashclaim-registry-v3"}
      BY <1>3, TaskNames DEF KeyOf
    <3>2. CASE name = "full:deploy-boundpunk-gateway" BY <3>2 DEF ProxyProgram, KeyOf
    <3>3. CASE name = "full:deploy-airdrop-distribution" BY <3>3 DEF ProxyProgram, KeyOf
    <3>4. CASE name = "full:deploy-flashclaim-registry-v3" BY <3>4 DEF ProxyProgram, KeyOf
    <3> QED BY <3>1, <3>2, <3>3, <3>4
  <2> DEFINE key == KeyOf(name)
             a == conf[key]
  <2>2. key \in ConfigKeys(name) /\ key \in ProxyKeys /\ key \notin AdminKeys
    <3>1. ConfigKeys(name) = {key}
      <4>1. name # "full:deploy-proxy-admin" BY <1>3 DEF KeyOf, ProxyKeys
      <4> HIDE DEF d, a
      <4> QED BY <1>3, <4>1 DEF ConfigKeys
    <3>2. key \notin AdminKeys BY <1>3 DEF ProxyKeys, AdminKeys
    <3> QED BY <1>3, <3>1, <3>2
  <2>3. a \in Nat /\ (a # 0 => IsKind(ledger, a, key)) BY <1>1, <2>2
  <2>4. d = DeployBehind(key, a, flag) BY <2>1
  <2> HIDE DEF d, a, key
  <2>5. Ready(name, flag, DeployBehind(key, a, flag)) BY <2>2, <2>3, BehindReady DEF key
  <2> QED BY <2>4, <2>5
<1>4. CASE name = Receiver
  <2>1. d = Plain(ReceiverV2, flag) \o <<Move("initialize", None), Move("wait", None)>>
    BY <1>4 DEF ProxyProgram, Receiver, ReceiverV2
  <2> HIDE DEF d
  <2>2. Ready(Receiver, flag, d) BY <2>1, ReceiverReady
  <2> QED BY <1>4, <2>2
<1>5. CASE name \in {"full:deploy-flashclaim-registry-v1", "dev:deploy-mock-receiver",
                     "dev:deploy-mock-airdrop", "dev:deploy-mock-minters"}
  <2>0. PICK key : \/ name = "full:deploy-flashclaim-registry-v1" /\ key = "UserFlashclaimRegistry"
                   \/ name = "dev:deploy-mock-receiver" /\ key = "MockFlashLoanReceiver"
                   \/ name = "dev:deploy-mock-airdrop" /\ key = "MockAirdropProject"
                   \/ name = "dev:deploy-mock-minters" /\ key = "MockBNFTMinter"
    BY <1>5
  <2>1. d = Plain(key, flag) \/ d = Plain(key, "no")
    <3>1. CASE name = "full:deploy-flashclaim-registry-v1"
      <4>1. d = Plain("UserFlashclaimRegistry", flag) BY <3>1 DEF ProxyProgram
      <4> QED BY <2>0, <3>1, <4>1
    <3>2. CASE name = "dev:deploy-mock-receiver"
      <4>1. d = Plain("MockFlashLoanReceiver", flag) BY <3>2 DEF ProxyProgram
      <4> QED BY <2>0, <3>2, <4>1
    <3>3. CASE name = "dev:deploy-mock-airdrop"
      <4>1. d = Plain("MockAirdropProject", flag) BY <3>3 DEF ProxyProgram
      <4> QED BY <2>0, <3>3, <4>1
    <3>4. CASE name = "dev:deploy-mock-minters"
      <4>1. d = Plain("MockBNFTMinter", "no") BY <3>4 DEF ProxyProgram
      <4> QED BY <2>0, <3>4, <4>1
    <3> HIDE DEF d
    <3> QED BY <1>5, <3>1, <3>2, <3>3, <3>4
  <2>2. Apart(name) BY <1>5 DEF Apart, KeyOf, Mocks, Receiver
  <2>3. key \in ContractKeys \ ProxyKeys BY <2>0, PlainNames
  <2> HIDE DEF d
  <2> QED BY <2>1, <2>2, <2>3, PlainReady
<1>6. CASE name = "full:deploy-flashclaim-registry-v2"
  <2> DEFINE key == "UserFlashclaimRegistryV2"
             j == "UserFlashclaimRegistry"
  <2>1. d = <<Move("find", j)>> \o Plain(key, flag) BY <1>6 DEF ProxyProgram
  <2>2. Apart(name) BY <1>6 DEF Apart, KeyOf, Mocks, Receiver
  <2>3. key \in ContractKeys \ ProxyKeys /\ key \notin Impls /\ j \in Keys BY PlainNames
  <2> HIDE DEF d, key, j
  <2> QED BY <2>1, <2>2, <2>3, FoundReady
<1>7. CASE name \in Mocks
  <2>1. d = MocksOf(flag) \/ d = AddedOf(flag)
    <3>1. CASE name = "dev:deploy-mock-nfts"
      BY <3>1 DEF ProxyProgram, Each, MocksOf
    <3>2. CASE name = "dev:add-mock-nfts"
      BY <3>2 DEF ProxyProgram, Each, AddedOf
    <3> QED BY <1>7, <3>1, <3>2 DEF Mocks
  <2> HIDE DEF d
  <2> QED BY <1>7, <2>1, MocksReady
<1>8. CASE name \in {"verify:general", "verify:bnft", "verify:airdrop-flashclaim-v2",
                     "verify:airdrop-flashclaim-v3", "verify:airdrop-distribution",
                     "verify:mock-nfts", "verify:mock-airdrops"}
  <2>1. ~Tells(name) BY <1>8 DEF Tells, KeyOf, Mocks, Receiver, ProxyKeys
  <2>2. \/ d \in {VerifyGeneral, VerifyBNFT, VerifyFlashclaimV2, VerifyFlashclaimV3, VerifyMocks}
        \/ \E key \in Keys : d = Check(key)
    <3>1. "AirdropDistributionImpl" \in Keys /\ "MockAirdropProject" \in Keys BY PlainNames
    <3>2. CASE name = "verify:general" BY <3>2 DEF ProxyProgram
    <3>3. CASE name = "verify:bnft" BY <3>3 DEF ProxyProgram
    <3>4. CASE name = "verify:airdrop-flashclaim-v2" BY <3>4 DEF ProxyProgram
    <3>5. CASE name = "verify:airdrop-flashclaim-v3" BY <3>5 DEF ProxyProgram
    <3>6. CASE name = "verify:airdrop-distribution" BY <3>1, <3>6 DEF ProxyProgram
    <3>7. CASE name = "verify:mock-nfts" BY <3>7 DEF ProxyProgram
    <3>8. CASE name = "verify:mock-airdrops" BY <3>1, <3>8 DEF ProxyProgram
    <3> QED BY <1>8, <3>2, <3>3, <3>4, <3>5, <3>6, <3>7, <3>8
  <2> HIDE DEF d
  <2> QED BY <2>1, <2>2, VerifyReady, VerifyMocksReady
<1>9. ASSUME name \notin {"full:deploy-proxy-admin", "full:deploy-boundpunk-gateway",
                          "full:deploy-airdrop-distribution", "full:deploy-flashclaim-registry-v3",
                          Receiver, "full:deploy-flashclaim-registry-v1",
                          "full:deploy-flashclaim-registry-v2", "dev:deploy-mock-receiver",
                          "dev:deploy-mock-airdrop", "dev:deploy-mock-minters",
                          "verify:general", "verify:bnft", "verify:airdrop-flashclaim-v2",
                          "verify:airdrop-flashclaim-v3", "verify:airdrop-distribution",
                          "verify:mock-nfts", "verify:mock-airdrops"},
             name \notin Mocks
      PROVE  Ready(name, flag, d)
  <2>1. d = Ask BY <1>9 DEF ProxyProgram, Mocks, Receiver
  <2>2. ~Tells(name) BY <1>9 DEF Tells, KeyOf, Receiver, ProxyKeys
  <2> HIDE DEF d
  <2> QED BY <2>1, <2>2, VerifyReady
<1> HIDE DEF d
<1>10. name \in {"full:deploy-boundpunk-gateway", "full:deploy-airdrop-distribution",
                 "full:deploy-flashclaim-registry-v3"} => KeyOf(name) \in ProxyKeys
  BY DEF KeyOf, ProxyKeys
<1> QED BY <1>2, <1>3, <1>4, <1>5, <1>6, <1>7, <1>8, <1>9, <1>10

LEMMA BeginOK ==
  ASSUME NEW names, NEW flags, IInv(names, flags), NEW name \in names, NEW flag \in flags,
         NEW conf \in Configured(name), Begin(name, conf, flag)
  PROVE  IInv(names, flags)'
<1> DEFINE d == ProxyProgram(name, conf, flag)
           key == KeyOf(name)
           admin == IF key \in ProxyKeys THEN file[AdminOf(key)] ELSE 0
<1>1. /\ ledger \in Seq(Entry) /\ pool \in Seq(Msgs) /\ file \in [Keys -> Nat]
      /\ (Verifying => run # NoRun)
      /\ LedgerInv(ledger) /\ PoolInv(ledger, pool) /\ SymbolsInv(ledger, file)
  BY DEF IInv, TypeInv, Inv
<1>2. /\ run = NoRun /\ ended' = NoRun
      /\ run' = [NoRun EXCEPT !.name = name, !.todo = d, !.key = key, !.verify = flag,
                              !.admin = admin]
      /\ ledger' = ledger /\ pool' = pool /\ file' = file /\ attempt' = attempt
  BY DEF Begin
<1>3. ~Verifying' BY <1>1, <1>2 DEF Verifying
<1>4. Ready(name, flag, d) BY <1>1, ProgramReady
<1>5. key \in ProxyKeys \cup {"call"} BY TaskNames
<1>6. admin \in Nat /\ (key \in ProxyKeys => file[AdminOf(key)] = admin)
  <2>1. key \in ProxyKeys => AdminOf(key) \in Keys BY Names
  <2> HIDE DEF key
  <2> QED BY <1>1, <2>1
<1> HIDE DEF d, key, admin
<1>7. /\ d \in Seq(Steps) /\ d # << >> /\ Fits(ledger, name, flag, d)
      /\ d[1].do \in {"make", "enlist", "find", "unlessThere"} \/ (Looks(d) /\ ~Tells(name))
      /\ key \in ProxyKeys => /\ Deploys(Impl(key), d[1])
                              /\ \E s \in Range(d) : s.do = "upgrade" \/ Deploys(key, s)
      /\ name \in Mocks => \A s \in Symbols : \E m \in Range(d) : m.do = "record" /\ m.x = s
  BY <1>4 DEF Ready, key
<1> DEFINE r == run'
<1>8. /\ r.name = name /\ r.todo = d /\ r.key = key /\ r.admin = admin /\ r.made = << >>
      /\ r.verify = flag /\ r.awaited = "nothing" /\ r \in Runs(names, flags)
  <2>1. << >> \in Seq(Nat) BY EmptySeq
  <2> QED BY <1>2, <1>5, <1>6, <1>7, <2>1 DEF NoRun, Runs
<1>9. r # NoRun /\ r.todo # << >> BY <1>7, <1>8, IdleIs
<1> HIDE DEF r
<1> DEFINE s == StepOf(r)
<1>10. s = d[1] /\ d[1] \in Range(d) BY <1>7, <1>8 DEF StepOf, Range
<1> HIDE DEF s
<1>11. s.do \in {"make", "enlist", "find", "unlessThere"} \/ (s.do = "verify" /\ Looks(d) /\ ~Tells(name))
  BY <1>7, <1>10 DEF Looks
<1>12. WaitInv(ledger, pool, r) BY <1>8, <1>11 DEF WaitInv, s
<1>13. LogicInv(ledger, pool, r)
  <2>1. key \in ProxyKeys => Deploys(Impl(key), StepOf(r)) BY <1>7, <1>10 DEF s
  <2> QED BY <1>8, <2>1 DEF LogicInv
<1>14. KeyInv(ledger, pool, file, r)
  <2> SUFFICES ASSUME key \in ProxyKeys PROVE KeyInv(ledger, pool, file, r)
    BY <1>8 DEF KeyInv
  <2>1. s.do = "make" BY <1>7, <1>10 DEF Deploys
  <2>2. ProxyToCome(r) BY <1>7, <1>8 DEF ProxyToCome
  <2> QED BY <1>6, <1>8, <2>1, <2>2 DEF KeyInv, s
<1>15. ReceiverInv(ledger, pool, file, r)
  <2> SUFFICES ASSUME name = Receiver PROVE ReceiverInv(ledger, pool, file, r)
    BY <1>8 DEF ReceiverInv
  <2>1. s.do \in {"make", "enlist", "find", "unlessThere"} BY <1>11 DEF Tells
  <2> QED BY <1>8, <2>1 DEF ReceiverInv, s
<1>16. MockInv(ledger, file, r)
  <2> SUFFICES ASSUME name \in Mocks PROVE MockInv(ledger, file, r)
    BY <1>8 DEF MockInv
  <2>1. s.do \in {"make", "enlist", "find", "unlessThere"} BY <1>11 DEF Tells
  <2>2. \A a \in Symbols : SymbolToCome(r, a) BY <1>7, <1>8 DEF SymbolToCome
  <2> QED BY <1>8, <2>1, <2>2 DEF MockInv, s
<1>17. RunInv(ledger, pool, file, r)
  BY <1>7, <1>8, <1>12, <1>13, <1>14, <1>15, <1>16 DEF RunInv, key
<1>18. NoRun \in Runs(names, flags) /\ EndInv(ledger, pool, file, NoRun) BY IdleIs, EndIdle
<1> QED BY <1>1, <1>2, <1>3, <1>8, <1>9, <1>17, <1>18 DEF IInv, TypeInv, Inv, r

LEMMA InitOK ==
  ASSUME NEW names, NEW flags, ProxyInit
  PROVE  IInv(names, flags)
<1>1. /\ ledger = << >> /\ pool = << >> /\ file = [k \in Keys |-> 0]
      /\ run = NoRun /\ ended = NoRun /\ ~Verifying
  BY DEF ProxyInit, Verifying, NotVerifying
<1>2. /\ << >> \in Seq(Entry) /\ << >> \in Seq(Msgs) BY EmptySeq
<1>3. NoRun \in Runs(names, flags) /\ EndInv(ledger, pool, file, NoRun) BY IdleIs, EndIdle
<1>4. RunInv(ledger, pool, file, NoRun) BY DEF RunInv
<1>5. file \in [Keys -> Nat] /\ \A s \in Symbols : file[s] = 0 BY <1>1, Names
<1>6. SymbolsInv(ledger, file) BY <1>5 DEF SymbolsInv
<1>7. LedgerInv(ledger) /\ PoolInv(ledger, pool) BY <1>1 DEF LedgerInv, PoolInv
<1> QED BY <1>1, <1>2, <1>3, <1>4, <1>5, <1>6, <1>7 DEF IInv, TypeInv, Inv

LEMMA StutterOK ==
  ASSUME NEW names, NEW flags, IInv(names, flags), UNCHANGED proxyVars
  PROVE  IInv(names, flags)'
<1>1. /\ ledger' = ledger /\ pool' = pool /\ file' = file /\ run' = run /\ ended' = ended
      /\ attempt' = attempt
  BY DEF proxyVars
<1>2. Verifying' = Verifying /\ Current' = Current BY <1>1 DEF Verifying, Current
<1> QED BY <1>1, <1>2 DEF IInv, TypeInv, Inv

LEMMA NextOK ==
  ASSUME NEW names, NEW flags, IInv(names, flags), [ProxyNext(names, flags)]_proxyVars
  PROVE  IInv(names, flags)'
<1>1. CASE UNCHANGED proxyVars BY <1>1, StutterOK
<1>2. CASE \E name \in names, flag \in flags : \E conf \in Configured(name) : Begin(name, conf, flag)
  BY <1>2, BeginOK
<1>3. CASE transact BY <1>3, SendOK
<1>4. CASE note BY <1>4, NoteOK
<1>5. CASE record BY <1>5, RecordOK
<1>6. CASE wait BY <1>6, WaitOK
<1>7. CASE enlist BY <1>7, EnlistOK
<1>8. CASE find BY <1>8, FindOK
<1>9. CASE unlessThere BY <1>9, UnlessOK
<1>10. CASE verify BY <1>10, VerifyOK
<1>11. CASE submit BY <1>11, SubmitOK
<1>12. CASE fail BY <1>12, FailOK
<1>13. CASE stop BY <1>13, StopOK
<1>14. CASE mined BY <1>14, MineOK
<1>15. CASE lost BY <1>15, LoseOK
<1>16. CASE \E a \in DOMAIN ledger : initializedByOther(a) BY <1>16, OthersOK
<1> QED BY <1>1, <1>2, <1>3, <1>4, <1>5, <1>6, <1>7, <1>8, <1>9, <1>10, <1>11, <1>12, <1>13,
           <1>14, <1>15, <1>16
        DEF ProxyNext

-----------------------------------------------------------------------------
\* The invariant holds in every state of the tasks.
THEOREM Invariant ==
  ASSUME NEW CONSTANT names, NEW CONSTANT flags
  PROVE  ProxyInit /\ [][ProxyNext(names, flags)]_proxyVars => []IInv(names, flags)
<1>1. ProxyInit => IInv(names, flags) BY InitOK
<1>2. IInv(names, flags) /\ [ProxyNext(names, flags)]_proxyVars => IInv(names, flags)'
  BY NextOK
<1> QED BY <1>1, <1>2, PTL

\* The address file, the chain and the runs of tasks keep their types, and a
\* verification is under way only in the step of a task that asks for it.
THEOREM Typed ==
  ASSUME NEW CONSTANT names, NEW CONSTANT flags
  PROVE  ProxyInit /\ [][ProxyNext(names, flags)]_proxyVars => []TypeInv(names, flags)
<1>1. IInv(names, flags) => TypeInv(names, flags) BY DEF IInv
<1> QED BY <1>1, Invariant, PTL

\* No proxy is led astray: what a task deploys or upgrades with the contract it
\* noted before it was mined (contracts-deployments.ts:213) runs a contract that
\* is there and of its kind, whatever is lost, killed or reverted.
THEOREM ProxiesRunTheirsHolds ==
  ASSUME NEW CONSTANT names, NEW CONSTANT flags
  PROVE  ProxyInit /\ [][ProxyNext(names, flags)]_proxyVars => []ProxiesRunTheirs
<1>1. IInv(names, flags) => ProxiesRunTheirs BY DEF IInv, Inv, LedgerInv, ProxiesRunTheirs
<1> QED BY <1>1, Invariant, PTL

LEMMA Described ==
  ASSUME NEW l, NEW p, NEW f, NEW e, SymbolsInv(l, f), EndInv(l, p, f, e)
  PROVE  /\ e.key \in ProxyKeys =>
              LET proxy == f[e.key] IN
              /\ IsKind(l, proxy, e.key)
              /\ l[proxy].logic = f[Impl(e.key)]
              /\ l[proxy].admin = f[AdminOf(e.key)]
         /\ e.name = Receiver => IsKind(l, f[ReceiverV2], ReceiverV2) /\ l[f[ReceiverV2]].owner = Deployer
         /\ e.name \in Mocks => \A s, r \in Symbols : f[s] \in DOMAIN l /\ (f[s] = f[r] => s = r)
<1>1. e.key \in ProxyKeys => /\ IsKind(l, f[e.key], e.key)
                             /\ l[f[e.key]].logic = f[Impl(e.key)]
                             /\ l[f[e.key]].admin = f[AdminOf(e.key)]
  BY DEF EndInv
<1>2. e.name = Receiver => IsKind(l, f[ReceiverV2], ReceiverV2) /\ l[f[ReceiverV2]].owner = Deployer
  BY DEF EndInv
<1>3. e.name \in Mocks => \A s \in Symbols : f[s] # 0 BY DEF EndInv
<1>4. \A s \in Symbols : f[s] # 0 => f[s] \in DOMAIN l /\ \A r \in Symbols : f[r] = f[s] => r = s
  BY DEF SymbolsInv
<1> QED BY <1>1, <1>2, <1>3, <1>4

\* After a task that was completed the file tells what is on the chain, though
\* transactions were lost, tasks killed half-way and started again over what they
\* left behind, and the file written before its contracts were mined.
THEOREM FileDescribesHolds ==
  ASSUME NEW CONSTANT names, NEW CONSTANT flags
  PROVE  ProxyInit /\ [][ProxyNext(names, flags)]_proxyVars => []FileDescribes
<1>1. ASSUME IInv(names, flags) PROVE FileDescribes
  <2>1. SymbolsInv(ledger, file) /\ EndInv(ledger, pool, file, ended) BY <1>1 DEF IInv, Inv
  <2> QED BY <2>1, Described DEF FileDescribes, Receiver, ReceiverV2
<1> QED BY <1>1, Invariant, PTL

=============================================================================
