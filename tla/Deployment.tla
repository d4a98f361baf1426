----------------------------- MODULE Deployment -----------------------------
(***************************************************************************)
(* The tasks that put the contracts on a chain, record their addresses in  *)
(* a file, upgrade them and hand them over: tasks/deploy, their variants   *)
(* in tasks/full, tasks/dev and tasks/misc, and the helpers they share.    *)
(*                                                                         *)
(* A task is a list of steps, cut where the program can be stopped: a step *)
(* sends a transaction, or awaits one and writes the file.  The chain      *)
(* mines what was sent in order, when it likes; a task that throws or is   *)
(* killed leaves the file, the chain and the sent transactions behind.     *)
(***************************************************************************)
EXTENDS Naturals, Sequences, FiniteSets, Functions

CONSTANTS
  NftAssets,   \* the collections of the network's configuration, in its order
  HandOver,    \* the collections deploy:transferOwnership names, in its order
  Deployer,    \* the account that signs
  NewOwner,    \* the account the contracts are handed over to
  Stranger,    \* whoever else initializes what he finds uninitialized
  None,
  TaskNames,   \* the tasks that are run, of those Program lists
  MaxAdmins, MaxImpls, MaxRegistries, \* bounds: contracts of each kind, a
               \* stranger's registry counted twice
  MaxPending,  \* bound: unmined transactions a task may start over
  MaxMishaps   \* bound: healthy tasks killed, losses of transactions, and
               \* implementations the stranger initializes

Assets == Range(NftAssets)

ASSUME AssetsTyped ==
  /\ NftAssets \in Seq(Assets) /\ NftAssets # << >> /\ HandOver \in Seq(Assets)
  /\ {None, "BNFTRegistry"} \cap Assets = {} /\ Deployer # NewOwner
  /\ Stranger \notin {Deployer, NewOwner} /\ None \notin {Deployer, NewOwner, Stranger}
ASSUME BoundsTyped ==
  {MaxAdmins, MaxImpls, MaxRegistries, MaxPending, MaxMishaps} \subseteq Nat

AllTasks == {"deploy-proxy-admin", "deploy-bnft-registry", "full:deploy-bnft-registry",
             "deploy-bnft-tokens", "full:deploy-bnft-tokens", "dev:deploy-bnft-tokens",
             "deploy-all", "deploy-new-implementation", "bnft-registry-set-impl",
             "bnft-registry-upgrade-all", "transferOwnership"}
ASSUME TasksListed == TaskNames \subseteq AllTasks

VARIABLES
  chain,    \* the contracts there are, of type Storage
  pending,  \* transactions of the deployer that are not mined, oldest first
  db,       \* the address file of the network, of type Db; 0 for what it lacks
  task,     \* the task that runs
  done,     \* a task that was completed, until another begins
  mishaps

vars == <<chain, pending, db, task, done, mishaps>>

Owners == {Deployer, NewOwner, Stranger}

\* A contract is known by its number among those of its kind, the bNFT of a
\* collection by its registry's.  The implementation behind a registry is
\* numbered with the registries: it has no logic of its own, and no owner until
\* somebody initializes it.
BNFT     == [impl : Nat, owner : Owners, claimAdmin : Owners]
Registry == [logic : Nat, admin : Nat, generic : Nat,
             owner : Owners \cup {None}, claimAdmin : Owners \cup {None},
             bnfts : [Assets -> BNFT \cup {None}]]
Storage  == [admins : Nat, impls : Nat, registries : Seq(Registry)]

ASSUME NoneIsNoBNFT == None \notin BNFT

Db == [ProxyAdmin : Nat, BNFT : Nat, BNFTRegistryImpl : Nat, BNFTRegistry : Nat,
       bound : [Assets -> Nat]]

Implementation ==
  [logic |-> 0, admin |-> 0, generic |-> 0, owner |-> None, claimAdmin |-> None,
   bnfts |-> [a \in Assets |-> None]]

\* Addresses of the contracts whose owner matters.
RegistryAt(r) == <<"BNFTRegistry", r>>
Bound(r, a)   == <<"BNFT", r, a>>

Proxies(s) == {r \in DOMAIN s.registries : s.registries[r].logic # 0}

OwnerOf(s, x) == IF x[1] = "BNFTRegistry" THEN s.registries[x[2]].owner
                 ELSE s.registries[x[2]].bnfts[x[3]].owner

ClaimAdminOf(s, x) == IF x[1] = "BNFTRegistry" THEN s.registries[x[2]].claimAdmin
                      ELSE s.registries[x[2]].bnfts[x[3]].claimAdmin

-----------------------------------------------------------------------------
\* Transactions, all signed by the deployer.  Definitions marked "faulty" are no
\* part of the model: each is a slip the next definition guards against, kept
\* to show that a property notices it.

Kinds == {"ProxyAdmin", "BNFT", "BNFTRegistryImpl", "BNFTRegistry"}

Tx(op, to, impl, admin) == [op |-> op, to |-> to, impl |-> impl, admin |-> admin]

\* Faulty: the registry makes bNFTs of no implementation.
MayCreateOfNothing(s, r, a) == s.registries[r].bnfts[a] = None

MayCreate(s, r, a) == /\ s.registries[r].bnfts[a] = None
                      /\ s.registries[r].generic # 0

Accepts(s, tx) ==
  \/ tx.op \in Kinds
  \/ tx.op = "createBNFT" /\ MayCreate(s, tx.to[2], tx.to[3])
  \/ /\ tx.op = "upgradeBNFTWithImpl" /\ s.registries[tx.to[2]].owner = Deployer
     /\ s.registries[tx.to[2]].bnfts[tx.to[3]] # None
  \/ tx.op = "upgrade" /\ s.registries[tx.to[2]].admin = tx.admin
  \/ /\ tx.op \in {"batchUpgradeAllBNFT", "setBNFTGenericImpl", "setClaimAdmin",
                   "transferOwnership"}
     /\ OwnerOf(s, tx.to) = Deployer

Proxy(tx) == [Implementation EXCEPT !.logic = tx.to[2], !.admin = tx.admin,
                !.generic = tx.impl, !.owner = Deployer, !.claimAdmin = Deployer]

\* The owner and the claim admin of a bNFT are the registry's at that time.
Create(s, r, a) ==
  [s EXCEPT !.registries[r].bnfts[a] =
     [impl |-> s.registries[r].generic, owner |-> s.registries[r].owner,
      claimAdmin |-> s.registries[r].claimAdmin]]

UpgradeAll(s, r) ==
  LET upgraded(b) == IF b = None THEN None
                     ELSE [b EXCEPT !.impl = s.registries[r].generic]
  IN [s EXCEPT !.registries[r].bnfts =
        [a \in Assets |-> upgraded(s.registries[r].bnfts[a])]]

Give(s, x) ==
  IF x[1] = "BNFTRegistry" THEN [s EXCEPT !.registries[x[2]].owner = NewOwner]
  ELSE [s EXCEPT !.registries[x[2]].bnfts[x[3]].owner = NewOwner]

SetClaimAdmin(s, x) ==
  IF x[1] = "BNFTRegistry" THEN [s EXCEPT !.registries[x[2]].claimAdmin = NewOwner]
  ELSE [s EXCEPT !.registries[x[2]].bnfts[x[3]].claimAdmin = NewOwner]

Effect(s, tx) ==
  CASE tx.op = "ProxyAdmin"       -> [s EXCEPT !.admins = @ + 1]
    [] tx.op = "BNFT"             -> [s EXCEPT !.impls = @ + 1]
    [] tx.op = "BNFTRegistryImpl" -> [s EXCEPT !.registries = Append(@, Implementation)]
    [] tx.op = "BNFTRegistry"     -> [s EXCEPT !.registries = Append(@, Proxy(tx))]
    [] tx.op = "createBNFT"       -> Create(s, tx.to[2], tx.to[3])
    [] tx.op = "upgradeBNFTWithImpl" ->
         [s EXCEPT !.registries[tx.to[2]].bnfts[tx.to[3]].impl = tx.impl]
    [] tx.op = "batchUpgradeAllBNFT" -> UpgradeAll(s, tx.to[2])
    [] tx.op = "setBNFTGenericImpl"  -> [s EXCEPT !.registries[tx.to[2]].generic = tx.impl]
    [] tx.op = "upgrade"             -> [s EXCEPT !.registries[tx.to[2]].logic = tx.impl]
    [] tx.op = "setClaimAdmin"       -> SetClaimAdmin(s, tx.to)
    [] OTHER                         -> Give(s, tx.to)

\* A transaction that is reverted is mined too.
Apply(s, tx) == IF Accepts(s, tx) THEN Effect(s, tx) ELSE s

-----------------------------------------------------------------------------
\* Tasks.

Step(do, x)  == [do |-> do, x |-> x]

\* The address of a registry implementation is noted before it is mined.
Deploy(kind) ==
  IF kind = "BNFTRegistryImpl"
    THEN <<Step("deploy", kind), Step("note", kind), Step("save", kind)>>
    ELSE <<Step("deploy", kind), Step("save", kind)>>

\* Two steps for each item of a list, one item after the other.
ForEach(list, Steps(_)) ==
  [k \in 1..(2 * Len(list)) |-> Steps(list[(k + 1) \div 2])[IF k % 2 = 1 THEN 1 ELSE 2]]

RegistryImpls == Deploy("BNFT") \o Deploy("BNFTRegistryImpl")
Upgrade(r) == <<Step("adopt", r), Step("upgrade", None), Step("await", None),
                Step("setBNFTGenericImpl", None), Step("await", None)>>

\* deploy:deploy-bnft-tokens; the full variant upgrades what is there without a
\* look and does not write the file, the dev variant only creates.
BindAll == LET Bind(a) == <<Step("bind", a), Step("enter", a)>>
           IN <<Step("connect", 0)>> \o ForEach(NftAssets, Bind)
BindAllFull(r) == LET Bind(a) == <<Step("rebind", a), Step("await", a)>>
                  IN <<Step("connect", r)>> \o ForEach(NftAssets, Bind)
CreateAll == LET Bind(a) == <<Step("createBNFT", a), Step("await", a)>>
             IN <<Step("connect", 0)>> \o ForEach(NftAssets, Bind)

\* Faulty: a contract is given away before its claim admin is set.
GiveFirst(x) == <<Step("transferOwnership", x), Step("setClaimAdmin", x)>>

SetAndGive(x) == <<Step("setClaimAdmin", x), Step("transferOwnership", x)>>

Program(name, x) ==
  CASE name = "deploy-proxy-admin" -> Deploy("ProxyAdmin")
    [] name = "deploy-bnft-registry" -> RegistryImpls \o Deploy("BNFTRegistry")
    [] name = "full:deploy-bnft-registry" ->
         RegistryImpls \o (IF x = 0 THEN Deploy("BNFTRegistry") ELSE Upgrade(x))
    [] name = "deploy-bnft-tokens"      -> BindAll
    [] name = "full:deploy-bnft-tokens" -> BindAllFull(x)
    [] name = "dev:deploy-bnft-tokens"  -> CreateAll
    [] name = "deploy-all" ->
         Deploy("ProxyAdmin") \o RegistryImpls \o Deploy("BNFTRegistry") \o BindAll
    [] name = "deploy-new-implementation" -> Deploy(x)
    [] name = "bnft-registry-set-impl"    -> <<Step("setBNFTGenericImpl", None)>>
    [] name = "bnft-registry-upgrade-all" -> <<Step("batchUpgradeAllBNFT", None),
                                               Step("await", None)>>
    [] OTHER -> SetAndGive("BNFTRegistry") \o ForEach(HandOver, SetAndGive)

\* The completed tasks a property asks about.
TokenTasks == {"deploy-bnft-tokens", "full:deploy-bnft-tokens",
               "dev:deploy-bnft-tokens", "deploy-all"}
FullTasks  == {"full:deploy-bnft-registry", "full:deploy-bnft-tokens"}
Reported   == TokenTasks \cup {"transferOwnership"}

Idle == [name |-> "none", todo |-> << >>, reg |-> 0, generic |-> 0,
         awaited |-> "nothing", quiet |-> FALSE]

Now    == Head(task.todo)
At(do) == task # Idle /\ Now.do = do

\* The task after the step that it is at, and the state of what it awaits then.
Advance(awaited) ==
  IF Len(task.todo) = 1
  THEN task' = Idle /\ done' = IF task.name \in Reported THEN task ELSE done
  ELSE task' = [task EXCEPT !.todo = Tail(@), !.awaited = awaited] /\ done' = done

-----------------------------------------------------------------------------
Init ==
  /\ chain = [admins |-> 0, impls |-> 0, registries |-> << >>]
  /\ pending = << >> /\ task = Idle /\ done = Idle /\ mishaps = 0
  /\ db = [ProxyAdmin |-> 0, BNFT |-> 0, BNFTRegistryImpl |-> 0, BNFTRegistry |-> 0,
           bound |-> [a \in Assets |-> 0]]

\* What a task reads before it does anything, and would throw at once without.
Ready(name, x) ==
  /\ name \in {"deploy-bnft-registry", "full:deploy-bnft-registry"} => db.ProxyAdmin # 0
  /\ name \in {"deploy-bnft-tokens", "dev:deploy-bnft-tokens", "transferOwnership",
               "bnft-registry-set-impl", "bnft-registry-upgrade-all"} => db.BNFTRegistry # 0
  /\ name = "full:deploy-bnft-tokens" => x # 0 \/ db.BNFTRegistry # 0
  /\ name = "bnft-registry-set-impl" => db.BNFT # 0

\* The pool configuration names a registry or none; it is edited by hand.
Arguments(name) == CASE name = "deploy-new-implementation" -> {"BNFT", "BNFTRegistryImpl"}
                     [] name \in FullTasks -> {0} \cup Proxies(chain)
                     [] OTHER -> {None}

Foreign == {r \in DOMAIN chain.registries : chain.registries[r].owner = Stranger}

\* The bounds leave room for the contracts that are sent or could be.
Sent(kind) == Cardinality({k \in DOMAIN pending : pending[k].op = kind})
Makes(program, kind) ==
  Cardinality({k \in DOMAIN program : program[k].do = "deploy" /\ program[k].x = kind})
RegistriesAfter(program) ==
  Len(chain.registries) + Cardinality(Foreign) + Sent("BNFTRegistryImpl")
    + Sent("BNFTRegistry") + Makes(program, "BNFTRegistryImpl")
    + Makes(program, "BNFTRegistry")
Room(program) ==
  /\ chain.admins + Sent("ProxyAdmin") + Makes(program, "ProxyAdmin") <= MaxAdmins
  /\ chain.impls + Sent("BNFT") + Makes(program, "BNFT") <= MaxImpls
  /\ RegistriesAfter(program) <= MaxRegistries
  /\ Len(pending) <= MaxPending

Start(name, x) ==
  /\ task = Idle /\ Ready(name, x)
  /\ LET program == Program(name, x)
     IN /\ Room(program)
        /\ task' = [Idle EXCEPT !.name = name, !.todo = program, !.quiet = (pending = << >>)]
  /\ done' = Idle
  /\ UNCHANGED <<chain, pending, db, mishaps>>

\* The address the next contract of a kind gets: it is known once it is sent.
Newest(kind) ==
  CASE kind = "ProxyAdmin" -> chain.admins + Sent(kind)
    [] kind = "BNFT"       -> chain.impls + Sent(kind)
    [] OTHER -> Len(chain.registries) + Sent("BNFTRegistryImpl") + Sent("BNFTRegistry")

\* deployBNFTRegistry writes BNFTRegistryImpl as soon as the transaction is sent:
\* the address of the contract to come or, if the transaction is lost by then,
\* one where there is none.
note ==
  /\ At("note")
  /\ db' = [db EXCEPT !.BNFTRegistryImpl =
               Newest(Now.x) + IF task.awaited = "lost" THEN 1 ELSE 0]
  /\ Advance(task.awaited)
  /\ UNCHANGED <<chain, pending, mishaps>>

\* Faulty: the address is written before the transaction is mined.
SettledOnceSent == task.awaited # "reverted"

\* What was sent is mined and went through, or there was nothing to send.
Settled == task.awaited \in {"mined", "nothing"}

\* Once it is mined, deployBNFTRegistry saves the implementation as BNFTRegistry.
Key(kind) == IF kind = "BNFTRegistryImpl" THEN "BNFTRegistry" ELSE kind

save ==
  /\ At("save") /\ Settled
  /\ db' = [db EXCEPT ![Key(Now.x)] = Newest(Now.x)]
  /\ Advance("nothing")
  /\ UNCHANGED <<chain, pending, mishaps>>

\* The next step begins when the transaction is through.
await ==
  /\ At("await") /\ Settled
  /\ Advance("nothing")
  /\ UNCHANGED <<chain, pending, db, mishaps>>

\* The file is given the registry of the pool configuration.
adopt ==
  /\ At("adopt")
  /\ db' = [db EXCEPT !.BNFTRegistry = Now.x]
  /\ Advance("nothing")
  /\ UNCHANGED <<chain, pending, mishaps>>

\* The registry of the pool configuration, or the one in the file.
connect ==
  /\ At("connect")
  /\ LET r == IF Now.x # 0 THEN Now.x ELSE db.BNFTRegistry
     IN task' = [task EXCEPT !.todo = Tail(@), !.reg = r,
                             !.generic = chain.registries[r].generic]
  /\ UNCHANGED <<chain, pending, db, done, mishaps>>

\* Faulty: the bNFT of a collection is created without a look for it.
BindBlindly(a) == {Tx("createBNFT", Bound(task.reg, a), 0, 0)}

\* Faulty: a bNFT that is there is left as it is.
BindMissing(a) ==
  IF chain.registries[task.reg].bnfts[a] = None
  THEN {Tx("createBNFT", Bound(task.reg, a), 0, 0)} ELSE {}

\* Create the bNFT, or upgrade it to the generic implementation read before.
BindTx(a) ==
  LET bnft == chain.registries[task.reg].bnfts[a]
  IN IF bnft = None THEN {Tx("createBNFT", Bound(task.reg, a), 0, 0)}
     ELSE IF bnft.impl # task.generic \/ Now.do = "rebind"
     THEN {Tx("upgradeBNFTWithImpl", Bound(task.reg, a), task.generic, 0)}
     ELSE {}

Binds == {"bind", "rebind"}

\* There is nothing to do for a collection.
bound ==
  /\ task # Idle /\ Now.do \in Binds /\ BindTx(Now.x) = {}
  /\ Advance("nothing")
  /\ UNCHANGED <<chain, pending, db, mishaps>>

\* The bNFT of a collection is written to the file.
enter ==
  /\ At("enter") /\ Settled
  /\ db' = [db EXCEPT !.bound[Now.x] = task.reg]
  /\ Advance("nothing")
  /\ UNCHANGED <<chain, pending, mishaps>>

\* The contract the file names, if it does: the registry, or a collection's bNFT.
Named(x) == IF x = "BNFTRegistry" THEN {RegistryAt(db.BNFTRegistry)}
            ELSE {Bound(r, x) : r \in {db.bound[x]} \ {0}}

\* The transaction of a step that sends one; none if it has nothing to send
\* or does not find the contract it needs.
Sends ==
  LET registry == RegistryAt(db.BNFTRegistry)
  IN CASE Now.do = "deploy" -> {IF Now.x = "BNFTRegistry"
                                THEN Tx(Now.x, registry, db.BNFT, db.ProxyAdmin)
                                ELSE Tx(Now.x, None, 0, 0)}
       [] Now.do \in Binds      -> BindTx(Now.x)
       [] Now.do = "createBNFT" -> {Tx(Now.do, Bound(task.reg, Now.x), 0, 0)}
       [] Now.do = "upgrade"    -> {Tx(Now.do, registry, Len(chain.registries), db.ProxyAdmin)}
       [] Now.do = "setBNFTGenericImpl"  -> {Tx(Now.do, registry, db.BNFT, 0)}
       [] Now.do = "batchUpgradeAllBNFT" -> {Tx(Now.do, registry, 0, 0)}
       [] Now.do \in {"setClaimAdmin", "transferOwnership"} ->
            {Tx(Now.do, x, 0, 0) : x \in Named(Now.x)}
       [] OTHER -> {}

\* The state after a sequence of transactions.
ApplyAll(s, txs) ==
  LET after[k \in 0..Len(txs)] == IF k = 0 THEN s ELSE Apply(after[k - 1], txs[k])
  IN after[Len(txs)]

\* The states a node may estimate the gas of a transaction in.
Estimated == {chain, ApplyAll(chain, pending)}

\* The next step waits for what this one sends.
Awaited == Len(task.todo) > 1 /\ task.todo[2].do \in {"note", "save", "enter", "await"}

\* A transaction that would be reverted is not sent: the estimate fails.  The
\* batch is sent with a fixed limit and has no estimate.
send ==
  /\ task # Idle
  /\ \E tx \in Sends :
       /\ (\E s \in Estimated : Accepts(s, tx)) \/ tx.op = "batchUpgradeAllBNFT"
       /\ pending' = Append(pending, tx)
  /\ Advance(IF Awaited THEN "sent" ELSE "nothing")
  /\ UNCHANGED <<chain, db, mishaps>>

Throws ==
  \/ task.awaited = "reverted" /\ Now.do \in {"save", "enter", "await"}
  \/ Now.do \in {"setClaimAdmin", "transferOwnership"} /\ Sends = {}
  \/ \E tx \in Sends, s \in Estimated : ~Accepts(s, tx) /\ tx.op # "batchUpgradeAllBNFT"

throw ==
  /\ task # Idle /\ Throws
  /\ task' = Idle
  /\ UNCHANGED <<chain, pending, db, done, mishaps>>

\* The operator kills a task: one that waits for a lost transaction, or any.
kill ==
  /\ task # Idle
  /\ \/ task.awaited = "lost" /\ mishaps' = mishaps
     \/ mishaps + Cardinality(Foreign) < MaxMishaps /\ mishaps' = mishaps + 1
  /\ task' = Idle
  /\ UNCHANGED <<chain, pending, db, done>>

-----------------------------------------------------------------------------
\* The task's own transaction is the last.
Mine ==
  /\ pending # << >>
  /\ chain' = Apply(chain, Head(pending))
  /\ pending' = Tail(pending)
  /\ task' = IF Len(pending) = 1 /\ task.awaited = "sent"
             THEN [task EXCEPT !.awaited = IF Accepts(chain, Head(pending))
                                           THEN "mined" ELSE "reverted"]
             ELSE task
  /\ UNCHANGED <<db, done, mishaps>>

\* A transaction is dropped, and with it those that come after its nonce.
Lose ==
  /\ pending # << >> /\ mishaps + Cardinality(Foreign) < MaxMishaps
  /\ \E k \in 0..(Len(pending) - 1) : pending' = SubSeq(pending, 1, k)
  /\ task' = IF task = Idle THEN Idle
             ELSE [task EXCEPT !.quiet = FALSE,
                               !.awaited = IF @ = "sent" THEN "lost" ELSE @]
  /\ done' = IF done = Idle THEN Idle ELSE [done EXCEPT !.quiet = FALSE]
  /\ mishaps' = mishaps + 1
  /\ UNCHANGED <<chain, db>>

\* Anybody may initialize an implementation, which is then a registry of his; a
\* generic implementation the deployer has not made stands for one of his own.
\* What he sets there later is left out.
initialize(r, g) ==
  /\ chain.registries[r] = Implementation
  /\ mishaps + Cardinality(Foreign) < MaxMishaps
  /\ RegistriesAfter(task.todo) < MaxRegistries
  /\ chain' = [chain EXCEPT !.registries[r].generic = g, !.registries[r].owner = Stranger,
                            !.registries[r].claimAdmin = Stranger]
  /\ UNCHANGED <<pending, db, task, done, mishaps>>

\* Anybody may have a bNFT created.
others(r, a) ==
  /\ MayCreate(chain, r, a)
  /\ chain' = Create(chain, r, a)
  /\ UNCHANGED <<pending, db, task, done, mishaps>>

Progress == send \/ note \/ save \/ await \/ adopt \/ connect \/ bound \/ enter \/ throw

Next ==
  \/ \E name \in TaskNames : \E x \in Arguments(name) : Start(name, x)
  \/ send \/ note \/ save \/ await \/ adopt \/ connect \/ bound \/ enter \/ throw \/ kill
  \/ Mine \/ Lose
  \/ \E r \in DOMAIN chain.registries : \/ \E g \in 1..MaxImpls : initialize(r, g)
                                        \/ \E a \in Assets : others(r, a)

Spec == Init /\ [][Next]_vars

\* A task goes on, the chain mines, a task that hangs is killed, and the
\* operator comes back to deploy:deploy-bnft-tokens.
FairSpec ==
  /\ Spec /\ WF_vars(Progress \/ (task.awaited = "lost" /\ kill)) /\ WF_vars(Mine)
  /\ SF_vars(Start("deploy-bnft-tokens", None))

-----------------------------------------------------------------------------
\* Whatever went before, tasks killed half way and bNFTs somebody else made, a
\* task that has gone through all collections leaves each with a bNFT, in the
\* file too if it writes there; and if no transaction was on its way when it
\* began and the registry is the deployer's, each runs the generic implementation
\* (deploy.ts:127, bnft-tokens.ts:11).
TokensComplete ==
  done.name \in TokenTasks =>
    LET r == done.reg IN
    \A a \in Assets :
      /\ chain.registries[r].bnfts[a] # None
      /\ done.quiet /\ chain.registries[r].owner = Deployer =>
           chain.registries[r].bnfts[a].impl = chain.registries[r].generic
      /\ done.name \in {"deploy-bnft-tokens", "deploy-all"} => db.bound[a] = r

\* What the tasks go by in the file is there, whatever was killed or lost: an
\* address is written only once its contract is mined (withSaveAndVerify,
\* contracts-helpers.ts:125).  The exception is BNFTRegistryImpl, written before
\* (contracts-deployments.ts:44) and read by the verification tasks alone: as
\* long as nothing was killed or lost, it names what is there or on its way.
FileNamesContracts ==
  /\ db.ProxyAdmin <= chain.admins /\ db.BNFT <= chain.impls
  /\ db.BNFTRegistry <= Len(chain.registries)
  /\ \A a \in Assets :
       db.bound[a] # 0 => /\ db.bound[a] <= Len(chain.registries)
                          /\ chain.registries[db.bound[a]].bnfts[a] # None
  /\ mishaps = 0 => db.BNFTRegistryImpl <= Newest("BNFTRegistryImpl")

\* Between two steps the file names the implementation where the registry
\* belongs (contracts-deployments.ts:42), and a task stopped there or made for
\* that alone leaves it so; later tasks then address it as the registry, and
\* anybody may have initialized it (BNFTRegistry.sol:84).  Still no transaction
\* of the deployer marks it, and it never passes for a registry of his: it is as
\* it was made, or all that was made of it is the stranger's.
ImplementationsApart ==
  \A r \in DOMAIN chain.registries :
    LET registry == chain.registries[r]
    IN registry.logic = 0 =>
         \/ registry = Implementation
         \/ /\ registry.owner = Stranger /\ registry.claimAdmin = Stranger
            /\ \A a \in Assets : registry.bnfts[a] # None =>
                 /\ registry.bnfts[a].owner = Stranger
                 /\ registry.bnfts[a].claimAdmin = Stranger

HandedOver == {RegistryAt(db.BNFTRegistry)}
                \cup {Bound(db.bound[a], a) : a \in Range(HandOver)}

\* deploy:transferOwnership awaits none of its transactions.  Begun with none
\* on its way, and once all of its own are mined, it has given every contract it
\* names to the new owner, claim admin included (deploy.ts:214).
HandedOverWhole ==
  done.name = "transferOwnership" /\ done.quiet /\ pending = << >> =>
    \A x \in HandedOver : OwnerOf(chain, x) = NewOwner /\ ClaimAdminOf(chain, x) = NewOwner

Usable == /\ db.BNFTRegistry # 0
          /\ chain.registries[db.BNFTRegistry].logic # 0
          /\ chain.registries[db.BNFTRegistry].owner = Deployer

\* A deployment of bNFTs that was stopped anywhere is brought to its end by
\* running deploy:deploy-bnft-tokens again, as long as the file names a registry
\* of the deployer (deploy.ts:141).
TokensRecover ==
  <>[]Usable => <>[](\A a \in Assets : db.bound[a] = db.BNFTRegistry)
=============================================================================
