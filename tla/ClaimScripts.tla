---------------------------- MODULE ClaimScripts ----------------------------
(***************************************************************************)
(* The scripts that claim airdrops for bound tokens and distribute them:   *)
(* azuki:claim-tiger, azuki:distribution, the two clonex scripts, the      *)
(* admin tasks (tasks/misc), and the development tasks that try a mock     *)
(* airdrop out (tasks/dev/mock_airdrop.ts, the end of tasks/full/airdrop). *)
(*                                                                         *)
(* A script asks a node, one question at a time, about tokens that are     *)
(* bound, released and sold meanwhile; a question may get no answer.       *)
(***************************************************************************)
EXTENDS Naturals, SequencesExt

CONSTANTS
  Tokens,      \* ids of the collection
  Users,       \* accounts that hold tokens and bNFTs
  Operator,    \* the one of them the scripts sign as
  BNft,        \* the collection's bNFT contract
  Distribution, \* the airdrop distribution
  Nobody,
  IdLists,     \* the lists of ids that are given to a script
  MaxMoves,    \* bound: tokens bound, released or sold, and other changes
  MaxMishaps,  \* bound: questions without an answer, and scripts killed
  MaxSent      \* bound: unmined transactions a script may start over

Holders == Users \cup {BNft}
Places  == Holders \cup {Distribution, Nobody}

ASSUME ClaimConstants ==
  /\ Operator \in Users /\ BNft \notin Users /\ Distribution \notin Holders
  /\ Nobody \notin Holders \cup {Distribution} \cup Tokens
  /\ IdLists \subseteq Seq(Tokens) \ {<< >>} /\ {MaxMoves, MaxMishaps, MaxSent} \subseteq Nat

VARIABLES
  world,    \* the contracts, of type World
  sent,     \* transactions that are not mined, oldest first
  script,   \* the script that runs
  finished, \* a script that was completed, until another begins
  moves, mishaps

claimVars == <<world, sent, script, finished, moves, mishaps>>

\* held and bound are the enumerations of the collection and of the bNFT
\* contract; claimed: tokens the project's airdrop was claimed for; drop: where
\* the mock airdrop for a token is; credit: the ids the distribution has for a
\* user; byBalance: the mock airdrop is of fungible tokens (types 1 and 3).
World == [held : [Holders -> Seq(Tokens)], bound : [Users -> Seq(Tokens)],
          claimed : SUBSET Tokens, drop : [Tokens -> Places],
          credit : [Users -> Seq(Tokens)], byBalance : BOOLEAN,
          owner : Users, claimAdmin : Users]

IsBound(w, t)   == t \in Range(w.held[BNft])
HolderOf(w, t)  == CHOOSE h \in Holders : t \in Range(w.held[h])
BnftOwner(w, t) == CHOOSE u \in Users : t \in Range(w.bound[u])

\* The user a token belongs to, in either contract.
UserOf(w, t)  == IF IsBound(w, t) THEN BnftOwner(w, t) ELSE HolderOf(w, t)
Belongings(w) == {<<UserOf(w, t), t>> : t \in Tokens}

\* An enumerable contract fills the place of a token that leaves with its last.
Without(list, t) ==
  LET k == CHOOSE j \in DOMAIN list : list[j] = t
  IN [j \in 1..(Len(list) - 1) |-> IF j = k THEN list[Len(list)] ELSE list[j]]

-----------------------------------------------------------------------------
\* Transactions: op is the step that sends it, by its signer, to an account it
\* is for, ids the tokens.  Definitions marked "faulty" are no part of the model:
\* each is a slip the next definition guards against.

Sent(op, by, to, ids) == [op |-> op, by |-> by, to |-> to, ids |-> ids]

\* The tokens whose airdrop leaves the bNFT contract with that of t: fungible
\* tokens are claimed by the whole balance.
Dropped(w, t) == IF w.byBalance THEN {s \in Tokens : w.drop[s] = BNft}
                 ELSE {t} \cap {s \in Tokens : w.drop[s] = BNft}

Permits(w, tx) ==
  LET t == tx.ids[1] IN
  CASE tx.op = "execute"  -> /\ tx.by = w.claimAdmin /\ IsInjective(tx.ids)
                             /\ Range(tx.ids) \subseteq Range(w.held[BNft]) \ w.claimed
    [] tx.op = "claim"    -> tx.by = w.claimAdmin /\ (w.byBalance \/ w.drop[t] = BNft)
    [] tx.op = "transfer" -> tx.by = w.owner
    [] tx.op = "snapshot" -> w.drop[t] = Nobody /\ IsBound(w, t)
    [] tx.op = "apply"    -> /\ w.drop[t] = Nobody /\ IsBound(w, t)
                             /\ BnftOwner(w, t) = tx.by
    [] OTHER              -> TRUE

Effect(w, tx) ==
  LET t == tx.ids[1] IN
  CASE tx.op = "execute"  -> [w EXCEPT !.claimed = @ \cup Range(tx.ids)]
    [] tx.op = "claim"    ->
         [w EXCEPT !.drop = [s \in Tokens |-> IF s \in Dropped(w, t) THEN tx.to ELSE @[s]]]
    [] tx.op = "transfer" -> [w EXCEPT !.owner = tx.to]
    [] tx.op = "snapshot" -> [w EXCEPT !.drop[t] = BNft]
    [] tx.op = "apply"    -> [w EXCEPT !.drop[t] = tx.by]
    [] tx.op = "clear"    -> [w EXCEPT !.credit[tx.to] = << >>]
    [] OTHER              -> [w EXCEPT !.credit[tx.to] = Append(@, t)]

Execution(w, tx) == IF Permits(w, tx) THEN Effect(w, tx) ELSE w

-----------------------------------------------------------------------------
\* Scripts.  who: whose tokens are enumerated, or the account an argument names;
\* ids: the ids it was given; count: the balance it read; at: the place it is
\* at; tries: the counter of the inner loop; got: the answer to its last
\* question; list: what it collected; by: the signer it read.  For the properties:
\* failed counts lookups that failed, still is that nothing has changed since it
\* began, and seen what belonged to whom since.
NoScript == [name |-> "none", todo |-> << >>, who |-> Nobody, ids |-> << >>, count |-> 0,
             at |-> 0, tries |-> 0, got |-> Nobody, list |-> << >>, by |-> Nobody,
             awaited |-> "nothing", failed |-> 0, still |-> TRUE, seen |-> {}]

\* let tries = 3
Tries == 3

Enumerations == {"azuki:claim-tiger", "clonex:bnft-mint-egg", "clonex:native-mint-egg"}

\* The list a script enumerates: the tokens the bNFT contract holds, the user's
\* bNFTs, or the tokens the user holds himself.
Enumerated(name, u) == CASE name = "azuki:claim-tiger"    -> world.held[BNft]
                         [] name = "clonex:bnft-mint-egg" -> world.bound[u]
                         [] OTHER                         -> world.held[u]

\* Faulty: the user is given his token before the airdrop is there.
CreditFirst(name) ==
  CASE name = "azuki:claim-tiger" -> <<"look", "execute">>
    [] name = "dev:configure-airdrop-distribution" ->
         <<"snapshot", "owner", "clear", "configure", "claim">>
    [] OTHER -> <<"look">>

\* The steps of a script.  "look" is a loop of lookups, "owner" and "signer" are
\* questions, all others are transactions that are awaited.
Steps(name) ==
  CASE name = "azuki:claim-tiger" -> <<"look", "execute">>
    [] name = "dev:configure-airdrop-distribution" ->
         <<"snapshot", "owner", "claim", "clear", "configure">>
    [] name = "admin:transfer-owner"  -> <<"signer", "transfer">>
    [] name = "admin:claim-airdrop"   -> <<"signer", "claim">>
    [] name = "dev:apply-airdrop"     -> <<"apply">>
    [] name = "dev:flashloan-airdrop" -> <<"apply">>
    [] name = "dev:snapshot-airdrop"  -> <<"snapshot">>
    [] OTHER                          -> <<"look">>

\* The claim admin is read before the tokens are; a loan is the user's own.
SignerAt(name, who) == CASE name = "azuki:claim-tiger"     -> world.claimAdmin
                         [] name = "dev:flashloan-airdrop" -> who
                         [] OTHER                          -> Operator

Begun(name, who, ids) ==
  [NoScript EXCEPT !.name = name, !.todo = Steps(name), !.who = who, !.ids = ids,
                   !.tries = Tries, !.by = SignerAt(name, who), !.seen = Belongings(world)]

Ready(new) ==
  /\ script = NoScript /\ Len(sent) <= MaxSent
  /\ script' = new /\ finished' = NoScript
  /\ UNCHANGED <<world, sent, moves, mishaps>>

\* An enumeration reads the balance once.
enumerate(name, u) ==
  Ready([Begun(name, u, << >>) EXCEPT !.count = Len(Enumerated(name, u))])

\* The owners of a list of ids are looked up one by one.
distribute(ids) == Ready([Begun("azuki:distribution", Nobody, ids) EXCEPT !.count = Len(ids)])

\* claim-tiger may be told what to claim; it asks nothing then.
claimGiven(ids) == Ready([Begun("azuki:claim-tiger", Nobody, ids) EXCEPT !.list = ids])

Others == {"dev:configure-airdrop-distribution", "admin:transfer-owner",
           "admin:claim-airdrop", "dev:apply-airdrop", "dev:flashloan-airdrop",
           "dev:snapshot-airdrop"}

carryOut(name, u, t) == Ready(Begun(name, u, <<t>>))

At(step) == script # NoScript /\ Head(script.todo) = step

\* The script after a step, new for its other fields.
Onward(new) ==
  IF Len(script.todo) = 1 THEN script' = NoScript /\ finished' = new
  ELSE script' = [new EXCEPT !.todo = Tail(@)] /\ finished' = finished

-----------------------------------------------------------------------------
\* Lookups.

Looking == At("look") /\ script.at < script.count

\* tries = 0 ends the inner loop: the script goes on to the next place.
Placed(found) == [script EXCEPT !.list = @ \o found, !.got = Nobody,
                                !.tries = Tries, !.at = @ + 1]

TokenAt == script.ids[script.at + 1]

\* tokenOfOwnerByIndex, or ownerOf in the collection.
lookFirst ==
  /\ Looking /\ script.got = Nobody
  /\ IF script.name \in Enumerations
     THEN LET list == Enumerated(script.name, script.who)
          IN /\ script.at < Len(list)
             /\ script' = [script EXCEPT !.got = list[script.at + 1]]
     ELSE LET holder == HolderOf(world, TokenAt)
          IN script' = IF holder = BNft THEN [script EXCEPT !.got = BNft]
                       ELSE Placed(<<holder>>)
  /\ UNCHANGED <<world, sent, finished, moves, mishaps>>

\* Faulty: azukiCanClaim is read like claimedClone, which answers the opposite.
AnswerReversed(t) == IF t \in world.claimed THEN <<t>> ELSE << >>

Collected(t) == IF t \in world.claimed THEN << >> ELSE <<t>>

\* azukiCanClaim and claimedClone, or ownerOf in the bNFT contract.
lookSecond ==
  /\ Looking /\ script.got # Nobody
  /\ IF script.name \in Enumerations
     THEN script' = Placed(Collected(script.got))
     ELSE /\ IsBound(world, TokenAt)
          /\ script' = Placed(<<BnftOwner(world, TokenAt)>>)
  /\ UNCHANGED <<world, sent, finished, moves, mishaps>>

\* The contract reverts what is asked of a token that has left.
Reverts ==
  \/ /\ script.name \in Enumerations /\ script.got = Nobody
     /\ script.at >= Len(Enumerated(script.name, script.who))
  \/ script.name \notin Enumerations /\ script.got = BNft /\ ~IsBound(world, TokenAt)

\* Faulty: a place is given up on at its first failure.
TriesAtOnce(tries) == 0

\* tries-- in the catch and again in the head of the loop.
TriesAfter(tries) == IF tries > 2 THEN tries - 2 ELSE 0

\* A token that cannot be looked up is dropped without a word.
lookFails ==
  /\ Looking
  /\ \/ Reverts /\ mishaps' = mishaps
     \/ mishaps < MaxMishaps /\ mishaps' = mishaps + 1
  /\ LET left   == TriesAfter(script.tries)
         failed == [script EXCEPT !.failed = @ + 1, !.got = Nobody]
     IN script' = IF left > 0 THEN [failed EXCEPT !.tries = left]
                  ELSE [failed EXCEPT !.tries = Tries, !.at = @ + 1]
  /\ UNCHANGED <<world, sent, finished, moves>>

\* Faulty: the list of users is not counted.
Uncounted == TRUE

\* allUsers.length != idsList.length throws.
Counted == script.name = "azuki:distribution" => Len(script.list) = Len(script.ids)

looked ==
  /\ At("look") /\ ~Looking /\ Counted
  /\ Onward(script)
  /\ UNCHANGED <<world, sent, moves, mishaps>>

-----------------------------------------------------------------------------
\* Questions and transactions.

\* The owner of the bNFT, who is credited with it.
askOwner ==
  /\ At("owner") /\ IsBound(world, script.ids[1])
  /\ Onward([script EXCEPT !.who = BnftOwner(world, script.ids[1])])
  /\ UNCHANGED <<world, sent, moves, mishaps>>

\* The admin tasks sign as the owner of the contract, the airdrop claims too.
askSigner ==
  /\ At("signer")
  /\ Onward([script EXCEPT !.by = world.owner])
  /\ UNCHANGED <<world, sent, moves, mishaps>>

\* An airdrop that was made is not asked for again.
skipSnapshot ==
  /\ At("snapshot") /\ script.awaited = "nothing"
  /\ script.name = "dev:configure-airdrop-distribution"
  /\ world.drop[script.ids[1]] # Nobody
  /\ Onward(script)
  /\ UNCHANGED <<world, sent, moves, mishaps>>

Questions == {"look", "owner", "signer"}

Outgoing ==
  LET to == IF script.name = "dev:configure-airdrop-distribution" /\ At("claim")
            THEN Distribution ELSE script.who
      ids == IF At("execute") THEN script.list ELSE script.ids
  IN Sent(Head(script.todo), script.by, to, ids)

\* The states a node may estimate the gas of a transaction in.
Estimates == {world, FoldLeft(Execution, world, sent)}

Sends == /\ script # NoScript /\ Head(script.todo) \notin Questions
         /\ script.awaited = "nothing"

sendTx ==
  /\ Sends /\ \E w \in Estimates : Permits(w, Outgoing)
  /\ sent' = Append(sent, Outgoing)
  /\ script' = [script EXCEPT !.awaited = "sent"]
  /\ UNCHANGED <<world, finished, moves, mishaps>>

awaitTx ==
  /\ script.awaited = "mined"
  /\ Onward([script EXCEPT !.awaited = "nothing"])
  /\ UNCHANGED <<world, sent, moves, mishaps>>

throw ==
  /\ \/ At("look") /\ ~Looking /\ ~Counted
     \/ At("owner") /\ ~IsBound(world, script.ids[1])
     \/ Sends /\ \E w \in Estimates : ~Permits(w, Outgoing)
     \/ script.awaited = "reverted"
  /\ script' = NoScript
  /\ UNCHANGED <<world, sent, finished, moves, mishaps>>

kill ==
  /\ script # NoScript /\ mishaps < MaxMishaps
  /\ script' = NoScript /\ mishaps' = mishaps + 1
  /\ UNCHANGED <<world, sent, finished, moves>>

-----------------------------------------------------------------------------
\* The script's own transaction is the last.
Mine ==
  /\ sent # << >>
  /\ world' = Execution(world, Head(sent))
  /\ sent' = Tail(sent)
  /\ script' = IF script = NoScript THEN script
               ELSE IF Len(sent) = 1 /\ script.awaited = "sent"
               THEN [script EXCEPT !.awaited = IF Permits(world, Head(sent))
                                               THEN "mined" ELSE "reverted"]
               ELSE [script EXCEPT !.still = FALSE]
  /\ UNCHANGED <<finished, moves, mishaps>>

\* What others do.
Change(w) ==
  /\ moves < MaxMoves /\ moves' = moves + 1
  /\ world' = w
  /\ script' = IF script = NoScript THEN script
               ELSE [script EXCEPT !.still = FALSE, !.seen = @ \cup Belongings(w)]
  /\ UNCHANGED <<sent, finished, mishaps>>

Pass(t, from, to) == [world.held EXCEPT ![from] = Without(@, t), ![to] = Append(@, t)]

bind(u, t, to) ==
  /\ t \in Range(world.held[u])
  /\ Change([world EXCEPT !.held = Pass(t, u, BNft), !.bound[to] = Append(@, t)])

release(t, to) ==
  /\ IsBound(world, t)
  /\ Change([world EXCEPT !.held = Pass(t, BNft, to),
                          !.bound[BnftOwner(world, t)] = Without(@, t)])

sell(u, t, to) ==
  /\ t \in Range(world.held[u]) /\ to # u
  /\ Change([world EXCEPT !.held = Pass(t, u, to)])

\* A user claims the project's airdrop himself.
claimSelf(t) ==
  /\ t \notin world.claimed
  /\ Change([world EXCEPT !.claimed = @ \cup {t}])

setClaimAdmin(u) ==
  /\ u # world.claimAdmin
  /\ Change([world EXCEPT !.claimAdmin = u])

Progress == lookFirst \/ lookSecond \/ lookFails \/ looked \/ askOwner \/ askSigner
              \/ skipSnapshot \/ sendTx \/ awaitTx \/ throw

-----------------------------------------------------------------------------
\* The world before any airdrop: a[t] is whose the token is, and whether bound.
StartWorld(a, byBalance) ==
  [held       |-> [h \in Holders |-> SetToSeq({t \in Tokens :
                    \/ h = BNft /\ \E u \in Users : a[t] = <<u, TRUE>>
                    \/ a[t] = <<h, FALSE>>})],
   bound      |-> [u \in Users |-> SetToSeq({t \in Tokens : a[t] = <<u, TRUE>>})],
   claimed    |-> {}, drop |-> [t \in Tokens |-> Nobody],
   credit     |-> [u \in Users |-> << >>], byBalance |-> byBalance,
   owner      |-> Operator, claimAdmin |-> Operator]

StartWorlds(Arrangements, Kinds) == {StartWorld(a, kind) : a \in Arrangements, kind \in Kinds}

ClaimInit(worlds) ==
  /\ world \in worlds /\ sent = << >> /\ script = NoScript /\ finished = NoScript
  /\ moves = 0 /\ mishaps = 0

Begins(names) ==
  \/ \E name \in names \cap Enumerations, u \in Users : enumerate(name, u)
  \/ \E ids \in IdLists : "azuki:distribution" \in names /\ distribute(ids)
  \/ \E ids \in IdLists : "azuki:claim-tiger" \in names /\ claimGiven(ids)
  \/ \E name \in names \cap Others, u \in Users, t \in Tokens : carryOut(name, u, t)

Changes ==
  \/ \E u, to \in Users, t \in Tokens : bind(u, t, to) \/ sell(u, t, to)
  \/ \E to \in Users, t \in Tokens : release(t, to)
  \/ \E t \in Tokens : claimSelf(t)
  \/ \E u \in Users : setClaimAdmin(u)

\* names: the scripts that are run.
ClaimNext(names) == Begins(names) \/ Progress \/ kill \/ Mine \/ Changes

\* A script goes on, and the chain mines.
ClaimFairness == WF_claimVars(Progress) /\ WF_claimVars(Mine)

-----------------------------------------------------------------------------
\* An enumeration during which nothing changed has found every token that can
\* be claimed, once, though a lookup failed: the counter is taken down twice for
\* a failure, so one of a token's is made up for and two are not
\* (azuki-tiger.ts:54).
ListComplete ==
  (/\ At("look") /\ ~Looking /\ script.name \in Enumerations /\ script.ids = << >>
   /\ script.still /\ script.failed <= 1)
  => /\ Range(script.list) = Range(Enumerated(script.name, script.who)) \ world.claimed
     /\ IsInjective(script.list)

\* Who is given a token by a script that was completed had it while the script
\* ran, whatever was bound, released or sold, and whatever lookup failed in
\* between; what was drawn up pairs each token with its own user
\* (azuki-tiger.ts:114, airdrop.ts:281).
PairsWereTrue ==
  /\ finished.name = "azuki:distribution" =>
       /\ Len(finished.list) = Len(finished.ids)
       /\ \A k \in DOMAIN finished.ids : <<finished.list[k], finished.ids[k]>> \in finished.seen
  /\ finished.name = "dev:configure-airdrop-distribution" =>
       <<finished.who, finished.ids[1]>> \in finished.seen

\* A user has a token in the distribution only once its airdrop is there, where
\* each token has one of its own: whether the script was killed and started over,
\* and whatever transactions it left (airdrop.ts:283).
CreditBacked ==
  ~world.byBalance =>
    \A u \in Users : \A k \in DOMAIN world.credit[u] :
      world.drop[world.credit[u][k]] = Distribution

\* Whatever failed, was killed or was bound in between: an operator who goes on
\* running claim-tiger has the airdrop of every bound token in the end.
EventuallyClaimed ==
  []<>(script.name = "azuki:claim-tiger" /\ script.ids = << >>)
    => <>[](Range(world.held[BNft]) \subseteq world.claimed)
=============================================================================
